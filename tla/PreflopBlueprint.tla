-------------------------- MODULE PreflopBlueprint --------------------------
(* The preflop blueprint: the betting rules by which a published history   *)
(* is replayed (preflop_history.py, class _MutableState), the search for   *)
(* the one history an observed table can be at, and the ranges with which  *)
(* it is reached.                                                          *)
(*                                                                         *)
(* The artifact itself is data: Menu and Mix stand for it, a tree with one *)
(* size of raise and all-in answers to it, and a strategy that mixes       *)
(* evenly.  Positions are seats, the button first; with three players they *)
(* are BTN, SB and BB after everybody else has folded.  An amount is in    *)
(* chips of the table's BigBlind, so that no half chip arises.             *)
EXTENDS HandReplay

CONSTANTS
  Buckets,       \* stacks the blueprint was solved for, each seat the same
  RaisePct,      \* its raise, in percent of the pot after a call
  MaxLine,       \* actions of its longest history
  Classes,       \* classes of hole cards
  Whole          \* the reach of a hand never yet folded

ASSUME BlueprintAssumption ==
  /\ Buckets \subseteq Nat /\ \A stack \in Buckets : stack >= BigBlind
  /\ RaisePct \in Nat /\ MaxLine \in Nat

FoldLabel == "Fold"
Call == "Call"
AllIn == "AI"
Raise == "Raise"
Labels == {FoldLabel, Call, AllIn, Raise}

PreflopOrder == OrderedAfter(BigBlindSeat(0), Seats)

-----------------------------------------------------------------------------
(* One history, replayed action by action.                                 *)

Posted ==
  [paid |-> [Zero EXCEPT ![SmallBlindSeat(0)] = SmallBlind, ![BigBlindSeat(0)] = BigBlind],
   folded |-> {}, allIn |-> {}, pending |-> PreflopOrder,
   highest |-> BigBlind, lastFullRaise |-> BigBlind, terminal |-> FALSE]

LiveSeats(s) == Seats \ s.folded
ActorOf(s) == IF s.terminal \/ s.pending = <<>> THEN NoSeat ELSE Head(s.pending)

AfterAction(s) ==
  LET pending == Kept(s.pending, LiveSeats(s) \ s.allIn)
  IN  IF Cardinality(LiveSeats(s)) <= 1
      THEN [s EXCEPT !.pending = <<>>, !.terminal = TRUE]
      ELSE [s EXCEPT !.pending = pending, !.terminal = pending = <<>>]

PotAfterCall(s) == Total(s.paid) + s.highest - s.paid[ActorOf(s)]
RaiseTarget(s) == s.highest + (PotAfterCall(s) * RaisePct) \div 100

LegalTarget(s, stack, target, allIn) ==
  /\ target > s.highest /\ target <= stack
  /\ allIn \/ target - s.highest >= s.lastFullRaise

RaisedTo(s, target, allIn) ==
  LET actor == ActorOf(s)
      jammed == IF allIn THEN s.allIn \cup {actor} ELSE s.allIn
      size == target - s.highest
  IN  [s EXCEPT !.paid[actor] = target, !.highest = target,
                !.lastFullRaise = IF size >= @ THEN size ELSE @,
                !.allIn = jammed,
                !.pending = OrderedAfter(actor, Seats \ (s.folded \cup jammed \cup {actor}))]

Passed(s) == [s EXCEPT !.pending = Tail(@)]

\* A check is published under the label of a call.
Legal(s, stack, label) ==
  LET actor == ActorOf(s)
  IN  /\ actor # NoSeat
      /\ CASE label = FoldLabel -> s.paid[actor] < s.highest
           [] label = Call -> s.highest <= stack
           [] label = Raise -> LegalTarget(s, stack, RaiseTarget(s), FALSE)
           [] label = AllIn -> /\ stack > s.paid[actor]
                               /\ stack > s.highest => LegalTarget(s, stack, stack, TRUE)

Apply(s, stack, label) ==
  LET actor == ActorOf(s)
      matched == Passed([s EXCEPT !.paid[actor] = s.highest,
                                  !.allIn = IF s.paid[actor] < s.highest /\ s.highest = stack
                                            THEN @ \cup {actor} ELSE @])
  IN  AfterAction(
        CASE label = FoldLabel -> Passed([s EXCEPT !.folded = @ \cup {actor}])
          [] label = Call -> matched
          [] label = Raise -> RaisedTo(s, RaiseTarget(s), FALSE)
          [] label = AllIn /\ stack <= s.highest ->
               Passed([s EXCEPT !.paid[actor] = stack, !.allIn = @ \cup {actor}])
          [] label = AllIn /\ stack > s.highest -> RaisedTo(s, stack, TRUE))

-----------------------------------------------------------------------------
(* The artifact.                                                           *)

\* Nobody limps on the button, and a raise may be answered all-in.
Menu(s, stack) ==
  {label \in Labels :
     /\ Legal(s, stack, label)
     /\ label = AllIn => s.highest > BigBlind
     /\ label = Call => s.highest > BigBlind \/ ActorOf(s) # Head(PreflopOrder)}

\* What the classes of hands do: one raises, one calls, one does both.
Mix(class, menu) ==
  LET liked == CASE class = "strong" -> {Raise, AllIn}
                 [] class = "medium" -> {Raise, Call}
                 [] OTHER -> {Call}
  IN  IF liked \cap menu # {} THEN liked \cap menu ELSE {FoldLabel, Call} \cap menu

\* A line: its actions, the state after it, and who had put in what.
Root(stack) == [stack |-> stack, steps |-> <<>>, trace |-> <<>>, state |-> Posted]
Extended(line, label) ==
  LET after == Apply(line.state, line.stack, label)
      actor == ActorOf(line.state)
  IN  [stack |-> line.stack, state |-> after,
       steps |-> Append(line.steps, [actor |-> actor, label |-> label]),
       trace |-> Append(line.trace, [actor |-> actor, paid |-> after.paid[actor]])]

Longer(lines) ==
  UNION {{Extended(line, label) : label \in Menu(line.state, line.stack)} : line \in lines}

\* The lines of at most MaxLine actions.
Lines ==
  LET after[n \in 0 .. MaxLine] ==
        IF n = 0 THEN {Root(stack) : stack \in Buckets} ELSE Longer(after[n - 1])
  IN  UNION {after[n] : n \in 0 .. MaxLine}

Spots == {line \in Lines : ~line.state.terminal}

\* Every action of every decision, with the line it makes.
Published ==
  {[at |-> pair[1].state, label |-> pair[2], line |-> Extended(pair[1], pair[2])] :
     pair \in {p \in Spots \X Labels : p[2] \in Menu(p[1].state, p[1].stack)}}

-----------------------------------------------------------------------------
(* The search.  An observation has an actor or is of a finished round;     *)
(* tolerances are in hundredths of a chip.                                 *)

Near(a, b, tolerance) == 100 * (IF a < b THEN b - a ELSE a - b) <= tolerance

Compatible(s, seen, tolerance) ==
  /\ ~seen.terminal => ActorOf(s) = seen.actor
  /\ s.folded = seen.folded
  /\ s.allIn = seen.allIn
  /\ s.terminal = seen.terminal
  /\ \A p \in Seats : Near(s.paid[p], seen.paid[p], tolerance[p])

NoLine == [refused |-> TRUE]

RequireAny(matches) == IF matches = {} THEN NoLine ELSE CHOOSE line \in matches : TRUE

RequireUnique(matches) ==
  IF \E line \in matches : matches = {line} THEN CHOOSE line \in matches : TRUE ELSE NoLine

ResolveDecision(stack, seen, tolerance) ==
  RequireUnique({spot \in Spots : spot.stack = stack /\ Compatible(spot.state, seen, tolerance)})

\* The last to act is a survivor who does not fold, or the last to fold.
NonfoldFrontier(s, seen) == ActorOf(s) \notin seen.folded /\ s.folded = seen.folded
FoldFrontier(s, seen) == ActorOf(s) \in seen.folded /\ s.folded = seen.folded \ {ActorOf(s)}

Possible(s, seen, tolerance) ==
  \A p \in Seats :
    IF p = ActorOf(s) THEN 100 * (s.paid[p] - seen.paid[p]) <= tolerance[p]
    ELSE Near(s.paid[p], seen.paid[p], tolerance[p])

Completes(action, seen) ==
  IF action.label = FoldLabel THEN FoldFrontier(action.at, seen)
  ELSE NonfoldFrontier(action.at, seen)

TerminalMatches(stack, seen, tolerance) ==
  {action.line : action \in
     {a \in Published : /\ a.line.stack = stack
                        /\ Completes(a, seen)
                        /\ Compatible(a.line.state, seen, tolerance)
                        /\ Possible(a.at, seen, tolerance)}}

\* Two survivors or more: one way for both.
ResolveTerminalHandoff(stack, seen, tolerance) ==
  IF Cardinality(Seats \ seen.folded) < 2 THEN NoLine
  ELSE RequireUnique(TerminalMatches(stack, seen, tolerance))

-----------------------------------------------------------------------------
(* Ranges.                                                                 *)

\* What the artifact publishes for an action: the reach before it, shared.
Weight(reach, class, label, menu) ==
  IF label \in Mix(class, menu) THEN reach \div Cardinality(Mix(class, menu)) ELSE 0

\* Only the actor's range narrows, and never below what it was.
Narrowed(reach, stack, step) ==
  LET menu == Menu(step.state, stack)
  IN  [reach EXCEPT ![step.actor] =
         [c \in Classes |-> Lesser(Weight(@[c], c, step.label, menu), @[c])]]

StepsOf(line) ==
  LET states[n \in 0 .. Len(line.steps)] ==
        IF n = 0 THEN Posted ELSE Apply(states[n - 1], line.stack, line.steps[n].label)
  IN  [n \in 1 .. Len(line.steps) |->
         [actor |-> line.steps[n].actor, label |-> line.steps[n].label, state |-> states[n - 1]]]

WalkReaches(line) ==
  FoldLeft(LAMBDA reach, step : Narrowed(reach, line.stack, step),
           [s \in Seats |-> [c \in Classes |-> Whole]], StepsOf(line))

\* The classes left in a range; cards on the board are not told apart.
ExpandPositionReach(reach, seat) == {c \in Classes : reach[seat][c] > 0}
=============================================================================
