--------------------------- MODULE AdapterProcess ---------------------------
(***************************************************************************)
(* One-shot adapter processes of the solve server                          *)
(* (gto_remote/external_backend.py): for each decision the server starts   *)
(* an external solver, exchanges one request for one response over its     *)
(* pipes until a deadline, and must then leave nothing of it behind.       *)
(*                                                                         *)
(* The solver is not trusted: any of its processes may fork, leave the     *)
(* process group, keep or close the pipes, exit or hang.  The server is a  *)
(* child subreaper, so that an orphan becomes its child.  Requests are     *)
(* serialized by _PROCESS_TREE_LOCK; what waits for the lock is left out.  *)
(***************************************************************************)
EXTENDS Naturals, FiniteSets, FiniteSetsExt

CONSTANTS
  Pids,          \* process identifiers, reused once reaped
  MaxRequests    \* bound of the model

ASSUME AdapterAssumption == Pids # {} /\ Pids \subseteq Nat \ {0} /\ MaxRequests \in Nat

Server == 0
NoPid == 0

VARIABLES
  running, doomed, zombie,   \* processes: alive, alive with SIGKILL pending, dead and unreaped
  parent,                    \* of each process
  old,                       \* processes that were there before the last request
  grouped,                   \* in the process group of the request's leader
  holders,                   \* hold the far end of the request's pipes
  phase, site,               \* where the server is in the exchange; whence it cleans up
  served,                    \* requests so far
  enabled,                   \* _LINUX_SUBREAPER_ENABLED
  leader, polled,            \* the Popen object; whether its leader was reaped
  registered,                \* streams the selector still watches
  late, overdue,             \* the deadline of the exchange, of the cleanup, has passed
  adopted, scans,            \* the cleanup loop: last scan, stable empty scans
  outcome                    \* what the exchange has ended or will end with

world == <<running, doomed, zombie, parent, old, grouped, holders>>
child == <<leader, polled, registered, late>>
cleanup == <<adopted, scans, overdue>>
adapterVars == <<world, phase, site, served, enabled, child, cleanup, outcome>>

Sites == {"before", "loop", "final"}   \* where the cleanup is called from

Alive == running \cup doomed
Existing == Alive \cup zombie
DirectChildren == {p \in Existing : parent[p] = Server}
Free == Pids \ Existing

-----------------------------------------------------------------------------
(* The operating system and the solver's processes.                        *)

ToPhase(place) == phase' = place /\ site' = "none"
GotoCleanup(place, from) == phase' = place /\ site' = from
AtCleanup(place, from) == phase = place /\ site = from
ServerIdle == <<phase, site, served, enabled, child, cleanup, outcome>>

Started(pid, by) ==
  /\ running' = running \cup {pid}
  /\ parent' = [parent EXCEPT ![pid] = by]

Fork(p) ==
  /\ p \in running /\ Free # {}
  /\ LET pid == Min(Free)
     IN  /\ Started(pid, p)
         /\ grouped' = IF p \in grouped THEN grouped \cup {pid} ELSE grouped
         /\ holders' = IF p \in holders THEN holders \cup {pid} ELSE holders
  /\ UNCHANGED <<doomed, zombie, old, ServerIdle>>

\* setsid(): only a process that does not lead its group may.
LeaveGroup(p) ==
  /\ p \in running \cap grouped /\ p # leader
  /\ grouped' = grouped \ {p}
  /\ UNCHANGED <<running, doomed, zombie, parent, old, holders, ServerIdle>>

ClosePipes(p) ==
  /\ p \in running \cap holders
  /\ holders' = holders \ {p}
  /\ UNCHANGED <<running, doomed, zombie, parent, old, grouped, ServerIdle>>

\* The orphans of a dead process become children of the subreaper.
Dead(p) ==
  /\ running' = running \ {p} /\ doomed' = doomed \ {p}
  /\ zombie' = zombie \cup {p}
  /\ parent' = [q \in Pids |-> IF parent[q] = p THEN Server ELSE parent[q]]
  /\ holders' = holders \ {p}
  /\ UNCHANGED <<old, grouped, ServerIdle>>

Exit(p) == p \in running /\ Dead(p)
Killed(p) == p \in doomed /\ Dead(p)

\* A reaped process is forgotten, and its identifier free again.
Reap(pids) ==
  LET gone == zombie \cap pids
  IN  /\ zombie' = zombie \ gone /\ grouped' = grouped \ gone /\ old' = old \ gone
      /\ parent' = [p \in Pids |-> IF p \in gone THEN Server ELSE parent[p]]

\* A parent among the solver's processes waits for its child.
ReapChild(p) ==
  /\ p \in zombie /\ parent[p] \in running
  /\ Reap({p})
  /\ UNCHANGED <<running, doomed, holders, ServerIdle>>

Process(p) ==
  \/ Fork(p) \/ LeaveGroup(p) \/ ClosePipes(p) \/ Exit(p) \/ Killed(p) \/ ReapChild(p)

Kill(pids) ==
  /\ running' = running \ pids
  /\ doomed' = doomed \cup (running \cap pids)

DeadlinePasses ==
  /\ leader # NoPid /\ ~late
  /\ late' = TRUE
  /\ UNCHANGED <<world, phase, site, served, enabled, leader, polled, registered, cleanup, outcome>>

CleanupDeadlinePasses ==
  /\ phase \in {"waitLeader", "scan", "reap"} /\ ~overdue
  /\ overdue' = TRUE
  /\ UNCHANGED <<world, phase, site, served, enabled, child, adopted, scans, outcome>>

-----------------------------------------------------------------------------
(* _run_adapter_process_serialized(), up to the start of the process.      *)

\* The Popen object, the selector and the deadline are local to the exchange.
End(result) ==
  /\ outcome' = result
  /\ ToPhase("idle")
  /\ leader' = NoPid /\ polled' = FALSE /\ registered' = {} /\ late' = FALSE
  /\ adopted' = {} /\ scans' = 0 /\ overdue' = FALSE

StartCleanup(from) ==
  /\ GotoCleanup("scan", from)
  /\ overdue' = FALSE /\ scans' = 0 /\ adopted' = {}

MayServe == phase = "idle" /\ served < MaxRequests

\* evaluate() and request(): disabled, not covered by the manifest, or too long.
Decline ==
  /\ MayServe
  /\ served' = served + 1
  /\ \E result \in {"disabled", "unsupported", "tooLong"} : End(result)
  /\ UNCHANGED <<world, enabled>>

\* _enable_linux_subreaper(): a server that owns other children never starts
\* an adapter.
Refuse ==
  /\ MayServe /\ ~enabled /\ DirectChildren # {}
  /\ served' = served + 1
  /\ old' = Existing
  /\ End("containment")
  /\ UNCHANGED <<running, doomed, zombie, parent, grouped, holders, enabled>>

AcceptTrustingChildren ==
  /\ MayServe /\ (enabled \/ DirectChildren = {})
  /\ served' = served + 1
  /\ old' = Existing
  /\ enabled' = TRUE
  /\ outcome' = "none"
  /\ ToPhase("spawn")
  /\ UNCHANGED <<running, doomed, zombie, parent, grouped, holders, child, cleanup>>

\* ... and what an earlier request left is no baseline: it is cleaned up.
Accept ==
  /\ MayServe /\ (enabled \/ DirectChildren = {})
  /\ served' = served + 1
  /\ old' = Existing
  /\ enabled' = TRUE
  /\ outcome' = "none"
  /\ IF DirectChildren = {} THEN ToPhase("spawn") /\ UNCHANGED cleanup ELSE StartCleanup("before")
  /\ UNCHANGED <<running, doomed, zombie, parent, grouped, holders, child>>

Spawn ==
  /\ phase = "spawn" /\ Free # {}
  /\ LET pid == Min(Free)
     IN  /\ Started(pid, Server)
         /\ grouped' = {pid} /\ holders' = {pid}
         /\ leader' = pid
  /\ polled' = FALSE /\ late' = FALSE
  /\ registered' = {"stdin", "outputs"}
  /\ ToPhase("exchange")
  /\ UNCHANGED <<doomed, zombie, old, served, enabled, cleanup, outcome>>

SpawnFails ==
  /\ phase = "spawn"
  /\ End("error")
  /\ UNCHANGED <<world, served, enabled>>

-----------------------------------------------------------------------------
(* The selector loop.                                                      *)

Raise(error) ==
  /\ outcome' = error
  /\ GotoCleanup("kill", "final")
  /\ UNCHANGED <<world, served, enabled, child, cleanup>>

InLoop == phase = "exchange" /\ registered # {} /\ ~late

Unregister(stream) ==
  /\ stream \in registered
  /\ registered' = registered \ {stream}
  /\ UNCHANGED <<world, phase, site, served, enabled, leader, polled, late, cleanup, outcome>>

\* What the solver does with its pipes, if it ever does.
RequestTaken == InLoop /\ holders # {} /\ Unregister("stdin")
OutputTooLong == InLoop /\ "outputs" \in registered /\ holders # {} /\ Raise("protocol")

StdinBroken == InLoop /\ holders = {} /\ Unregister("stdin")
OutputsEnd == InLoop /\ holders = {} /\ Unregister("outputs")

LeaderDead == polled \/ leader \in zombie

\* process.poll() or wait() reaps the leader once it is dead.
PollLeader ==
  /\ LeaderDead
  /\ polled' = TRUE
  /\ Reap({leader})
  /\ UNCHANGED <<running, doomed, holders, served, enabled, leader, registered, late>>

\* Nothing to read for a while after the leader has exited: what still holds
\* the pipes is killed, and the loop goes on to their end.
QuietAfterExit ==
  /\ InLoop /\ holders # {}
  /\ PollLeader
  /\ GotoCleanup("kill", "loop")
  /\ UNCHANGED <<cleanup, outcome>>

ExchangeTimesOut == phase = "exchange" /\ late /\ Raise("timeout")

StreamsClosed ==
  /\ phase = "exchange" /\ registered = {} /\ ~late
  /\ ToPhase("wait")
  /\ UNCHANGED <<world, served, enabled, child, cleanup, outcome>>

LeaderExited ==
  /\ phase = "wait"
  /\ PollLeader
  /\ outcome' = "completed"
  /\ GotoCleanup("kill", "final")
  /\ UNCHANGED cleanup

LeaderOverdueAfterExit == phase = "wait" /\ late /\ LeaderDead /\ Raise("timeout")

LeaderOverdue == phase = "wait" /\ late /\ ~LeaderDead /\ Raise("timeout")

Exchange ==
  \/ StdinBroken \/ OutputsEnd \/ QuietAfterExit \/ ExchangeTimesOut
  \/ StreamsClosed \/ LeaderExited \/ LeaderOverdue

-----------------------------------------------------------------------------
(* _terminate_process(), in the loop and in the finally clause of every    *)
(* exchange; its last part also before a request that finds children left. *)

\* killpg(): every process in the group, and the leader.
KillGroup(from) ==
  /\ AtCleanup("kill", from)
  /\ Kill(grouped \cup {leader})
  /\ overdue' = FALSE
  /\ GotoCleanup("waitLeader", from)
  /\ UNCHANGED <<zombie, parent, old, grouped, holders, served, enabled, child, adopted, scans,
                 outcome>>

\* process.wait(timeout=5)
WaitLeader(from) ==
  /\ AtCleanup("waitLeader", from)
  /\ PollLeader
  /\ StartCleanup(from)
  /\ UNCHANGED outcome

LeaderSurvives(from) ==
  /\ AtCleanup("waitLeader", from) /\ ~LeaderDead /\ overdue
  /\ End("containment")
  /\ UNCHANGED <<world, served, enabled>>

Scan(from) ==
  /\ AtCleanup("scan", from)
  /\ adopted' = DirectChildren
  /\ Kill(DirectChildren)
  /\ GotoCleanup("reap", from)
  /\ UNCHANGED <<zombie, parent, old, grouped, holders, served, enabled, child, scans, overdue,
                 outcome>>

Remaining == DirectChildren \ (zombie \cap adopted)
Resumed(from) == [before |-> "spawn", loop |-> "exchange", final |-> "return"][from]

ReapOnceAndLeave(from) ==
  /\ AtCleanup("reap", from)
  /\ Reap(adopted)
  /\ scans' = 0 /\ adopted' = {} /\ overdue' = FALSE
  /\ ToPhase(Resumed(from))
  /\ UNCHANGED <<running, doomed, holders, served, enabled, child, outcome>>

\* Reap what has died of the last scan, then look again: killing one process
\* may have orphaned others.  Two empty scans end the loop.
ReapAndRescan(from) ==
  /\ AtCleanup("reap", from)
  /\ Reap(adopted)
  /\ IF Remaining = {} /\ scans = 1
     THEN scans' = 0 /\ adopted' = {} /\ overdue' = FALSE /\ ToPhase(Resumed(from))
     ELSE /\ ~overdue
          /\ scans' = IF Remaining = {} THEN 1 ELSE 0
          /\ adopted' = {}
          /\ GotoCleanup("scan", from)
          /\ UNCHANGED overdue
  /\ UNCHANGED <<running, doomed, holders, served, enabled, child, outcome>>

DescendantsSurvive(from) ==
  /\ AtCleanup("reap", from) /\ overdue
  /\ Remaining # {} \/ scans = 0
  /\ Reap(adopted)
  /\ End("containment")
  /\ UNCHANGED <<running, doomed, holders, served, enabled>>

Terminate ==
  \E from \in Sites :
    \/ from # "before" /\ (KillGroup(from) \/ WaitLeader(from) \/ LeaderSurvives(from))
    \/ Scan(from) \/ ReapAndRescan(from) \/ DescendantsSurvive(from)

\* request(): a bad exit status is an error, a response that does not parse or
\* is bound to another request a protocol error, whatever the solver wrote.
Return ==
  /\ phase = "return"
  /\ \E result \in IF outcome = "completed" THEN {"error", "protocol", "answered"} ELSE {outcome} :
       End(result)
  /\ UNCHANGED <<world, served, enabled>>

ServerStep == Decline \/ Refuse \/ Accept \/ Spawn \/ SpawnFails \/ Exchange \/ Terminate \/ Return

-----------------------------------------------------------------------------
\* The server may own a child of its own before its first request.
AdapterInit ==
  /\ \E foreign \in {{}, {Min(Pids)}} : running = foreign
  /\ doomed = {} /\ zombie = {}
  /\ parent = [p \in Pids |-> Server] /\ old = running
  /\ grouped = {} /\ holders = {}
  /\ phase = "idle" /\ site = "none" /\ served = 0 /\ enabled = FALSE
  /\ leader = NoPid /\ polled = FALSE /\ registered = {}
  /\ late = FALSE /\ overdue = FALSE
  /\ adopted = {} /\ scans = 0
  /\ outcome = "none"

AdapterNext ==
  \/ \E p \in Pids : Process(p)
  \/ RequestTaken \/ OutputTooLong
  \/ DeadlinePasses \/ CleanupDeadlinePasses
  \/ ServerStep

AdapterSpec == AdapterInit /\ [][AdapterNext]_adapterVars

\* The server runs and time passes; nothing is promised of the solver.
FairSpec ==
  /\ AdapterSpec
  /\ WF_adapterVars(ServerStep)
  /\ WF_adapterVars(DeadlinePasses) /\ WF_adapterVars(CleanupDeadlinePasses)

-----------------------------------------------------------------------------
Whereabouts ==
  ({"idle", "spawn", "exchange", "wait", "return"} \X {"none"})
    \cup ({"kill", "waitLeader"} \X {"loop", "final"}) \cup ({"scan", "reap"} \X Sites)

(* Every variable has its type; a process is in one state, and the living  *)
(* ones descend from the server: no orphan escapes the subreaper.          *)
AdapterTypeOK ==
  /\ running \cap doomed = {} /\ Alive \cap zombie = {} /\ Existing \subseteq Pids
  /\ \A p \in Existing : parent[p] \in Alive \cup {Server}
  /\ old \subseteq Existing /\ grouped \subseteq Existing
  /\ holders \subseteq Alive
  /\ <<phase, site>> \in Whereabouts /\ served \in 0..MaxRequests /\ enabled \in BOOLEAN
  /\ leader \in Pids \cup {NoPid}
  /\ registered \subseteq {"stdin", "outputs"}
  /\ outcome \in {"none", "disabled", "unsupported", "tooLong", "completed", "answered", "error",
                   "protocol", "timeout", "containment"}

(* An exchange with the solver ends only when every process it brought     *)
(* about is gone, detached ones and their orphans included, unless it says *)
(* so by failing.                                                          *)
NothingOutlivesItsRequest ==
  phase = "idle" /\ outcome \in {"answered", "error", "protocol", "timeout"} => Existing = {}

(* A solver never runs beside remains of an earlier request, even if that  *)
(* request's cleanup failed: they are gone before the next one is started. *)
OneTreeAtATime ==
  phase \in {"exchange", "wait"} => old = {}

(* Every request ends, whatever the solver does with its pipes, signals    *)
(* and processes.                                                          *)
EveryRequestEnds == phase # "idle" ~> phase = "idle"
=============================================================================
