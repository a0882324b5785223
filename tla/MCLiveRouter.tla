---------------------------- MODULE MCLiveRouter ----------------------------
EXTENDS LiveRouter
Even == [s \in Seats |-> 28]
MCStarts == {Even, [Even EXCEPT ![1] = 24]}
=============================================================================
