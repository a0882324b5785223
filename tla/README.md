# A verification project for Ranges

Ranges is a real-time poker assistant.  It samples a poker table on the screen,
reads the public course of a hand from the samples, and asks a local or remote
solver for advice on the current decision.  Its rule is to *fail closed*: advice
is given only for a decision whose public history is known to have no hole in
it.  This directory states that rule, and what it rests on, in TLA+; TLC checks
it on small instances, and TLAPS proves most of the safety properties for every instance.

## 1. The system

| component | state | operations | talks to |
|---|---|---|---|
| keyframe ring (`live_capture.py`, `KeyframeRing`) | bounded deque of keyframes, coalesced gaps, raw gap events (the gap revision), acknowledged watermark | `offer`, `record_gap`, `acknowledge`, `consumer_batch`, `acknowledge_consumer_batch`, `read_if_caught_up`, `wait_for_pending` | filled by the capture thread, drained by the worker |
| capture service and detector (`live_capture.py`) | next frame number, burst of the detector, thread state | `capture_once`, `start`, `stop`, `observe`, `flush` | screen source; ring |
| history worker (`public_history_worker.py`) | two cursors (frame and gap revision), poisoned decoder, thread state, stop event | `process_once`, `_run`, `stop`, `drain`, `read_if_caught_up` | ring; decoder; coordinator |
| strict table decoder (`continuous_public_history_decoder.py`) | evidence of the last observation, number of the hand | `decode` | local card reader |
| history coordinator (`public_history_pipeline.py`) | status (waiting, tracking, gapped), recorder, buffered candidates, decoder watermark, gapped and retired hands, accepted bundle | `submit_candidate`, `advance_decoder_watermark`, `invalidate_gap`, `latest_accepted_frame`, `readiness` | recorder; read by the runtime |
| hand event recorder (`gto_event_collector.py`) | transcript of one hand, error flag | `probe`, `commit`, `invalidate_gap` | replay engine |
| hand replay engine (`gto_hand_history.py`) | betting state of a hand | `apply`, `freeze` | recorder, protocols |
| runtime (`continuous_public_history_decoder.py`) | started, stopping, stopped, failed | `start`, `stop`, `is_healthy`, `accepted_frame_if_caught_up` | owns ring, capture, worker, coordinator |
| strategy flow (`poker_assistant.py`) | one analysis at a time, the history of manual snapshots, the decision token | `start_analysis_flow`, `run_analysis_flow`, `evaluate_strategy_backend`, `continuous_multiway_token_status` | screen, vision; runtime; routers, clients, Claude |
| clients and wire protocols (`gto_remote/`) | none between calls | `request`, `request_structured`, parsing and encoding | solve server |
| evaluation service (`gto_remote/server.py`) | replay cache, in-flight table, solver slot | `evaluate` | called by one thread for each HTTP exchange |
| external solver process (`gto_remote/external_backend.py`) | the adapter's process tree, its pipes | `request` with a deadline, kill and reap | solve server |
| oracle cache (`gto_oracle/cache.py`) | SQLite tables, one row and child rows for each solved node | `get`, `put`, `get_continuation`, `put_continuation` | routers and benchmarks, as separate processes |
| engine client (`gto_oracle/engine_client.py`) and engine (`gto_oracle_engine/`) | none between calls; an executable that may be replaced | `solve`, `solve_continuation` | routers, benchmarks |
| strategy routers (`live_gto*.py`, `preflop_*.py`) | none; the preflop artifact | `evaluate`: observation, resolution of the line, ranges, solver spot, policy | strategy flow; engine and cache |
| benchmarks (`gto_oracle_benchmark.py`, `pokerbench_benchmark.py`) | append-only file of completions, the rows of a run | `run_model`, `run_cases`, reports | model providers |
| push-fold solver, calibration, capture layout | tables and files | offline runs | |

Three systems run at the same time.

*The continuous history* is a chain of three threads.  The **capture thread** numbers
every capture, publishes the selected ones into the ring, and declares a gap for a
capture that failed or found the ring full.  The **worker thread** takes a batch
of gaps and keyframes in order, decodes, feeds the coordinator, and acknowledges the batch
only if no gap was recorded meanwhile.  **Readers** get the coordinator's accepted
bundle only when worker and ring agree that nothing newer exists.  A fourth thread may
**shut down** all of this at any moment, and again after a timeout.

*The strategy flow* runs for each key press: it captures the table, lets vision read it,
captures again to see whether it changed, extends a history of manual snapshots, asks a router,
a remote solver or Claude, and captures a third time before it shows anything.  The table
plays on during all of it.  The router turns the snapshots into a preflop line with ranges
and a heads-up solver spot; the history, where there is one, into a public transcript.

*The solve server* takes one request on each connection from clients that time out and
retry, and starts an untrusted solver process for each decision it routes.

Beside them, processes that share one database file and one engine executable,
and benchmark runs that are interrupted and resumed.

What is hard here, and what makes each component correct:

* *ring*: overflow must become a declared gap, not a silent eviction; the
  coalesced gaps must say exactly what the raw events say; the compare-and-acknowledge
  must not let a gap slip behind the watermark.
* *capture and detector*: frames leave the detector later than they were taken,
  so a published frame may be older than a gap that was already acknowledged; a burst
  cut off by a stop.
* *worker*: gaps arriving during a cycle, a decoder call that outlives its
  deadline, a stop between any two steps, a wait that must not miss a wake-up.
* *decoder*: frames that name no hand, of which any may be missed.
* *coordinator*: candidates that are buffered, rejected or handless before a
  loss; a hand that reappears after it was cut off; two separate read paths.
* *runtime*: a start of which one half fails; the order of the shutdown; a stop that
  times out and is tried again.
* *strategy flow*: the decision that changes during a solve; hands that pass between
  two manual snapshots.
* *evaluation service and clients*: retries and reused identifiers racing with the solve,
  with each other and with eviction; a solve that raises; a server that comes back with another solver.
* *external process*: descendants that survive a deadline.
* *replay engine and recorder*: rules over long legal sequences of actions
  (short all-ins, uncalled bets), inference of one action from two states.
* *routers*: one observation, several lines that explain it; facts of a street read from a
  frame taken later; amounts rounded and scaled twice.
* *oracle cache and engine*: a transaction that fails halfway, a read between two writes, an
  executable replaced during a solve, a response that is wrong in one field.
* *benchmarks*: an append that is cut off, a provider that fails or changes its version.

`PROJECT.json` lists every component with its status, and every hazard with the line
where it bites and the properties that watch it.

## 2. Modules

| module | models | composes |
|---|---|---|
| `FrameLedger` | abstract: what a ring promises its consumer | |
| `KeyframeRing` | `KeyframeRing` and `_coalesce_gap_locked` | refines `FrameLedger` |
| `CaptureService` | `ContinuousCaptureService`, `KeyframeDetector`; `start()` and `stop()` of the runtime | `KeyframeRing` |
| `PublicHistoryCoordinator` | `PublicHistoryCoordinator`, and the recorder as it sees it | |
| `PublicHistoryCoordinatorProofs` | theorems about the coordinator | |
| `PublicHistoryWorker` | `PublicHistoryWorker`, the runtime's revocation and caught-up read, an abstract capture thread | `KeyframeRing`, `PublicHistoryCoordinator` |
| `PublicHistoryWorkerProofs` | theorems about the worker | uses the coordinator's lemmas |
| `TableDecoder` | `ContinuousPublicHistoryDecoder.decode` and its hand identity | |
| `HistoryPartsProofs` | theorems about the ring and the decoder, and the coordinator's for the checked instance | |
| `HandReplay` | the betting rules of one hand, `_Replay` | |
| `HandEventRecorder` | `PublicHandEventRecorder` watching a hand | `HandReplay` |
| `HandProofs` | theorems about the hands of `HandReplay`, however they are played, and about the recorder that watches them | |
| `AdviceFlow` | `run_analysis_flow` and what it calls, from the key to the screen | |
| `LiveProofs` | theorems about `CaptureService` and `AdviceFlow` | |
| `EvaluationService` | `EvaluationService.evaluate` under concurrent handler threads | |
| `EvaluationServiceProofs` | theorems about the service, the exchange around it, and the adapter | |
| `RemoteExchange` | the two remote clients, the HTTP exchange, capabilities, the backend, restarts | `EvaluationService` |
| `AdapterProcess` | `_run_adapter_process_serialized` and the containment of the process tree | |
| `EngineResponse` | what the engine may write, and what `parse_engine_response` accepts | |
| `OracleCache` | `OracleCache`, and the solves of the processes that share it | `EngineResponse` |
| `BenchmarkRun` | `run_model`, `run_cases`, their completion caches and reports | |
| `OfflineProofs` | theorems about `OracleCache` and `BenchmarkRun` | |
| `PreflopBlueprint` | `_MutableState`, `PreflopHistoryResolver`, the ranges of a line | `HandReplay` |
| `SolverSpot` | `preflop_observation.py`, `build_live_gto_state`, over a hand that is played | `PreflopBlueprint` |
| `LiveRouter` | the router's policy, ranges, specs and their validation | `SolverSpot` |
| `SpotProofs` | theorems about `SolverSpot`, `PreflopBlueprint` and `LiveRouter` | uses the hand's lemmas |
| `MC*` | the instances TLC checks; three of them run independent parts in one instance | |

### KeyframeRing

Every public method runs under one condition variable, so each is one action.
The deque is a *set* of frame numbers: `offer()` raises unless numbers
increase, so its order is the numeric one and popping heads at or below the
watermark removes exactly those members.  `gapEvents` is the raw append-only
ledger (`_gap_events`), whose length is the gap revision; `gaps` is the coalesced view,
with `Coalesced` translating the merge with the last gap of the same kind and
reason, or the append and stable sort.  A (kind, reason) pair is a model value.

The abstract module `FrameLedger` knows no capacity, gap list or revision: a published
frame is retained, lost, or behind the watermark.  The refinement reads `lost`
from the *coalesced* gaps, the ones a diagnostic reader sees.

### CaptureService

The screen shows a level and two frames differ materially when their levels are `Threshold`
apart, so that a slow drift is no change between neighbours and a change against an older frame.
`Observe` is `observe()` with its heartbeat, burst, peak and settlement, `Flush` the flush of a
burst cut off by the stop; what they select is offered to the ring one by one, so that a stop or
a failed capture falls in between.  The runtime's `start()` and `stop()` are cut where they
call a thread: a start that raises, its undo, joins that time out, and the retry.  Of the worker
it keeps what its caller can tell.

### PublicHistoryCoordinator

The coordinator is a record with the fields of the class; each method is an operator
from a record to a record, so that the worker can compose them.  A candidate is a
frame with a *snapshot*: a hand or no hand, and how many events of the hand's transcript
it shows (`pos`).  The recorder accepts a snapshot that starts a transcript at
position 0 or extends it by at most one step, which is what `probe()` can prove: a step
is an action, a deal, or an action and the deal it allows.
Two history fields record the hands whose transcript was cut off and the candidates seen
(`closed`, `seen`); they guide no step.

### PublicHistoryWorker

`process_once()` is cut at every access to shared state: reading the batch
(`StartCycle`), each gap or keyframe (`ProcessGap`, `ProcessKeyframe`), the end of the
loop (`FinishItems`), the acknowledgement that commits or is found stale, and the
late gaps.  The capture thread runs between any two of these; readers and the
shutdown's invalidation need the coordinator's lock and therefore run only between
cycles.  A decode ends as an observation, a transient frame, or a failure; a hard
timeout also poisons the decoder, and from then on every decode fails.  `_run()` is
`Loop`, `Woken`, `WaitTimesOut`, `LeaveWithoutDraining` and `Fail`.

The capture thread is abstracted at the detector: after a frame it may emit nothing,
that frame, or a held earlier frame (the peak of a burst) and that frame; when it
stops it may flush up to two held frames.  `CaptureService` is the detailed one.

### TableDecoder

No frame names its hand.  The decoder compares what a frame shows with the evidence of its last
observation and gives a new identifier only to a proven new hand; what resembles a boundary
without proof is a gap.  The table plays hands of which any moments may be decoded; a frame may
fail, miss Hero's cards, or take an untouched hand for a touched one.  Assumed: what is read is right, and the
dealer button moves after every hand.  A gap reaches the coordinator, which cuts the identifier off.

### HandReplay

A hand is a record with the fields of `_Replay`; each of its methods is an operator from
hand to hand.  `Accepts` gathers the conditions under which `_apply_action` and its helpers raise,
`Applied` what they do otherwise.  Amounts are whole chips, seats are their places in
`ordered_seats`, and the button has seat 0: turning the table changes nothing.  The module has the events
(`Act`, `Deal`) and no behaviours of its own: `HandEventRecorder` and `SolverSpot` play hands with them.

### HandEventRecorder

A true hand is played by the rules of `HandReplay` while frames show it at any
moment, so that any number of actions may fall between two of them.  A frame shows stacks,
bets, status, pot and street as they are; the marker of the seat to act and each
action label may be missing, and a label may outlive its street.  `Probe` is `probe()`: the set of
transcripts it proposes, empty when it rejects.  A transcript is represented by the
state it replays to; each acceptance replays to one state only.

Assumed of the table, and needed: a frame that does not mark the seat to act shows no
label of an earlier street.  Without it a CALL that reappears on the next street is
recorded as a check there (`ShowsCheck` takes either label).  Amounts are read
exactly: the recorder's tolerance is not modelled, and cards only count streets.

### AdviceFlow

A hand is a number and its moments are the steps of a script; a board is the sequence of hands its streets
were dealt in and Hero's cards are the hand they were dealt in, so that facts mixed from two hands
show.  Both analyses are modelled (`strategy`, `debug`): three captures with the table playing on between
them, vision that misses or misreads cards and dealer, the history of manual
snapshots with its guess of where a hand begins, and for each configured backend the
token, its tests, the solver and the fallback to Claude.  The continuous runtime is what it
offers: a newest frame, whether it is consumed, and the bundle of a hand.

`Changed` is the set of answers that `table_state_change_reasons` may give of two captures.  The community cards and Hero's cards
decide it (`MustReport`), and so do controls that were lit and are gone, or are lit again with as little as an amount redrawn.  Controls that are
dimmed in the later capture are compared with a threshold 13 times as high (0.006 for 0.00045), because dimming alone redraws
them: of another decision on the same street the code may then see the change or not, and the model takes either answer.

### EvaluationService

`evaluate()` is cut at its two locks: the first look, taking the slot without
blocking, the second look that marks the identifier in flight, the solve, the
store with eviction, and the two statements of the `finally` clause.  A response
body carries the decision it was solved for and the number of the solve.  The
schema test in front touches no state and is left out.

### RemoteExchange

A client is the other end of a handler thread.  It checks the manifest it was given (`CanCall`), posts,
and judges what comes back (`Accepts`) or gives up while the server goes on.  The
server may be restarted on another backend, which loses the cache and every open connection.  A solve is
answered by the deployed backend within its manifest or outside of it: the adapter may claim what it
likes, `Claimed` is what the server's validation leaves of it.  A step of the service is
`EvaluationService`'s, so the exchange keeps its promises across restarts too (`ExchangeKeepsService`).

### AdapterProcess

Processes fork, leave the group, keep or close the pipes, exit and hang as they like; the kernel
re-parents orphans to the server, a subreaper.  The exchange is cut at each call of the
operating system (spawn, select, kill, wait, scan of the children, reap), with both deadlines as actions.
`_terminate_process` is called from inside the loop and from the `finally` clause, the cleanup loop from a third
place before the spawn; `site` remembers where from.

### EngineResponse and OracleCache

`Responses` are those that depart from a right one in a single field; `Accepted` is the client's checks, operation
by operation (root, node, continuation).  `AnswersRequest`, stated without them, says what a right response is.
`OracleCache` runs the life of an evaluation: digest and lookup (one statement for each table, no transaction), the
solve with its second digest, the judgement of the result, and the write, statement by statement, which may fail, or whose
process may die.  The executable is replaced at any moment, by one not seen before.

### BenchmarkRun

The file of completions is a sequence of lines; a line may be cut off by a failed write or a power cut and the next append
runs into it.  Runs follow one another: cached completions, the pinned version, provider
errors with their circuit breaker, rows, report.  `tool` selects which of the two benchmarks is run; they
differ in the pin, in what is synced and in how a failed write is treated.

### PreflopBlueprint, SolverSpot, LiveRouter

`SolverSpot` plays one hand by the rules of `HandReplay`, with a few sizes, and frames are captured when Hero is to act,
not every time; positions may be misread and the last actions illegible.  `TerminalFromHistory` and `CurrentDecision`
reconstruct the preflop wagers from them, `LiveState` is `build_live_gto_state`.  `PreflopBlueprint` replays
published histories and finds those an observation can be at; the artifact itself is a small tree (`Menu`, `Mix`).
`LiveRouter` goes on to the policy before the flop, the ranges and the spec after it, its acceptance by the validators of
`models.py` and `continuation.py`, and the test of the advised amount against the table.  One solver unit is one chip;
three seats are BTN, SB and BB after the others folded.

## 3. Runs

| run | question | result |
|---|---|---|
| `parts` | does the ring implement `FrameLedger` with an exact coalesced ledger; can a reader get a superseded decision, or a hand that lost its beginning; does one identifier ever cover frames of two hands | holds |
| `worker` | do capture, worker and shutdown together keep cursors, ring and coordinator in agreement, and nothing visible once revoked | holds |
| `worker_liveness` | is every keyframe settled, every gap observed, and does every shutdown end | holds |
| `drained_stop` | does a draining stop leave nothing behind | **violated**, see below |
| `remote` | one solve at a time, none repeated while retained, no leaked identifier, right answers; does a client accept only what the pinned backend solved for its decision; does every call end | holds |
| `adapter` | does anything of a solver outlive its request or run beside the next one; does every request end | holds |
| `hand` | does a round close too early, are the offered actions those that can be played; does the recorder ever invent a course of the hand, lag behind, or fail on a full frame | holds |
| `live` | is shown advice for the hand and street on the table, and for the decision itself while the controls are lit; is the manual history of one hand; do the keyframes tell the scene; is a stop orderly, however often it times out | holds |
| `other_hand` | are the preserved hole cards those of the hand | **violated**, see below |
| `spot` | are handoff, line, solver spot and advised amount those of the hand that was played | holds |
| `offline` | is what is stored whole and true; are benchmark reports complete, of one version and reproducible | holds |
| `torn_read` | is what a pinned lookup returns all of the pinned executable | **violated**, see below |

Bounds, and why the interesting cases happen within them:

* `parts`: *ring* of capacity 2, 4 frames, 3 gap events, 2 causes: overflow, retention after
  pruning, merging, insertion before a later gap and stale acknowledgements all need
  at most three frames.  *Coordinator* with 2 hands and the missing hand, positions up to a skipped one, 4 frames: the deepest
  case, a rejected candidate before a gap followed by a gap and a new hand, takes four.  *Decoder* over 4 hands, 3 seats for the dealer,
  2 live players and 1 street: the dealer comes back to a seat after hands that were seen or missed.
* `worker`: ring capacity 2, so that a batch has several keyframes and a third unread one
  overflows; 4 captures; 2 hands with 2 positions; 2 acknowledgement attempts in place of
  1000, so that giving up is reached too.  The gap bound of the ring is the number of captures
  and never binds: a capture causes one gap at most.
* `worker_liveness` and `drained_stop`: capacity 1 and 3 captures; for liveness one hand and
  one position, as what a frame decodes to plays no part in progress.
* `remote`: 2 clients, 2 identifiers, a cache of 1 entry, 2 completed solves and 1 restart: an entry is evicted or
  lost and its identifier asked again.  Three decisions: a turn that is heads-up after three players saw the flop, a flop
  that two saw, a v2 decision without transcript; 2 backends, a heads-up tree and a multiway successor.
  After the bound a solve can only fail.
* `adapter`: 2 requests and 3 processes: a leader, a child that detaches, and one forked while that child is killed.
  Identifiers are reused once reaped.
* `hand`: 3 players with 1, 3 or 5 chips, blinds 1 and 2, with and without an
  ante of 1: players all in by an ante or a blind, short all-ins that do and do not reopen
  the betting, side pots and hands of four streets.  Amounts range over every chip.
* `live`, capture: levels 0, 1, 3 with a threshold of 2 (0 to 1 is no change, 1 to 3 is one, 0 to 3 a greater one), 2 stable frames,
  a heartbeat of 2 captures, 5 captures, 1 join that times out.  Flow: 6 seats and 2 hands of 4 moments, two of them decisions of Hero on the same
  street: what dimmed controls hide happens, in the second capture and in the last.  Two key presses on the
  routes with manual snapshots and one on the others, which keep nothing that another press would read.
* `other_hand`: 2 seats, 3 hands of 2 moments, everything read right.
* `spot`: 3 seats, blinds 2 and 4, stacks of 28 with one seat at 28 or 24 and buckets of 20 and 28, so that a bucket fits or does not;
  one raise of the tree and one outside of it, up to 3 frames (a decision is captured once at most), flop and turn,
  and three modes of the router.
* `offline`, cache: one router and one benchmark, 2 executables, 2 solves.  A write dies or fails after any statement.
  Benchmark: 2 models, 2 decisions, 2 runs, completions of two versions and of none, a circuit breaker at 1 error, 1 fault.
  `torn_read` is the cache alone.

Symmetry is used for hands, which no definition
distinguishes, and never in a liveness run.  Deadlock is checked in `parts` only: in the other runs
the threads really stop, the bounded clients simply wait, a hand ends, or a run of the tool is the last one.

A run's properties were chosen for what they could find.  Where a module states
a `TypeOK` it holds in the instances above without being listed in a run; `RingTypeOK` is proved.

### Fairness

*Worker.*  Weak fairness of the capture thread, of the worker thread and of the thread in `stop()`: the
operating system schedules them, and no step of theirs waits for anything but its guard.
The revocation in `stop()` has *strong* fairness: it waits for the
coordinator's lock, which the worker takes for each cycle and leaves again; a lock
that is free again and again is obtained in the end.  Nothing is assumed of the
wait's timeout (`WaitTimesOut` is in no fairness condition), so
`EverythingIsConsumed` shows that no wake-up is lost even when it never fires.  No request
to stop is ever assumed.

*Remote.*  Each handler thread is weakly fair in serving and in answering.  That includes that the
solver returns, which is what `EveryRequestEnds` shows of the adapter.  No client ever has to post,
and none has to give up.

*Adapter.*  Weak fairness of the server's step and of the two deadlines: time passes.  Nothing is
assumed of the solver's processes.

### Three disagreements

* **`drained_stop`** (`public_history_worker.py`, `_run`).  The loop tests the stop event after a cycle, and leaves
  if that cycle was idle.  A gap or keyframe published after the cycle ended and before the test is not
  drained, although `stop(drain=True)` returns normally and the capture thread was
  already joined.  Nothing is shown to readers because of it (`RevokedStaysRevoked`).
* **`torn_read`** (`gto_oracle/cache.py`, `get`).  The digest is tested on the row of `oracle_results`; policies and
  action values are read by further statements outside of any transaction.  A result stored by another executable in between gives
  its policies to a reader that pinned the old one, where the docstring promises a miss.
  `StoredIsWhole` shows that the tables themselves are never torn.
* **`other_hand`** (`poker_assistant.py`, `preserve_hero_cards_on_continuing_board`).  What counts as a confirmed
  transition from preflop to flop is the same dealer and the same seats.  After a whole round of unseen hands both are back,
  and the old hand's cards replace those read in the new one.

### Observations

Met while modelling; the properties state what does hold.

* `advance_decoder_watermark`: a handless candidate *after* a gap is not remembered, so a second gap
  after it does not block the next hand, while the same candidate *before* the first gap does (`RecoveryIsFresh`).
* `TableDecoder`: a hand that ends before the flop, with no frame of its last fold decoded, leaves the evidence before the flop; every
  later frame is then an ambiguous gap until one happens to fit the old evidence.  An identifier can only
  cover two hands when a whole hand passed undecoded and Hero's cards were unread on one side of it.
* `AdviceFlow`: with the `HYBRID` backend and a `RemoteMultiwayClient` the fallback raises `AttributeError`
  (`AcceptedMultiwayStrategyHistory` has no `to_json`), where the repository's README promises a fallback to Claude;
  `is_new_hand` misses a new hand when both frames are postflop and show no cards of Hero; a second capture with dimmed controls
  disables the later test of the controls, and in either capture they may hide that another decision of the same street is on the table:
  the advice is then for the one before.  `ShownAdviceIsCurrent` claims the decision only where both captures show lit controls, or of the
  newest frame where the route depends on the continuous history.
* `RemoteExchange`: both clients make a new identifier for each call, so a retry is never answered from the replay cache; a
  solve whose client gave up keeps the slot, and the retry gets 429; failed outcomes are cached and replayed as well.
* `BenchmarkRun`: a partial line left by a failed write swallows the next append, whose completion is asked
  for again by the next run.
* `SolverSpot`, `LiveRouter`: a line outside the tree may resolve to a line of the tree with the same contributions, in exact mode too;
  a raise of the small blind that is called and a limp that is raised and called leave the same chips and are refused as ambiguous; short calls, and a shove of
  the deeper player, are refused; below a bet size of 50 percent the modelled bet may be under the table's minimum.
* `EngineResponse`: the client never compares the acting player's policies with the conditional range of the same player.

## 4. Proofs

Each theorem holds for every value of the constants that the named assumption of its module allows; TLC
evaluates these assumptions in the runs.  A property of a run that composes independent parts is proved of that run's specification,
from the projection of its behaviours to the part.

### Ring

`HistoryPartsProofs` proves of the ring, for every capacity, every set of causes and all bounds, under
`RingAssumption` only:

* `RingTypeOK` and `RingNoSilentEviction` from one inductive invariant, `IndInv`.  `NoSilentEviction` alone is
  not inductive: one needs that retained frames were offered, that the last offered
  frame bounds them, and that the coalesced gaps declare what the raw events declare.
* `RingImplementsFrameLedger`: each action maps to one step of the ledger or a
  stutter.  The lemmas on `InsertAt` and on merged gaps give that coalescing adds
  exactly the new frames.  `RingEveryFrameAccounted` carries the ledger's
  promise back to the ring.
* `RingLedgerExact`: for every cause the coalesced gaps declare the same frames and count the same number of
  drops as the raw events.  `CoalescedLedgerExact` is a part of `IndInv`.  A sum over a ledger is a recursive
  function (`DroppedOf`); that inserting a gap anywhere adds its drops to the sum, and that merging does, is proved by the least
  counterexample among the lengths (`CountsAlong`, `PrefixCounts`).

### Service and exchange

`EvaluationServiceProofs` proves the safety properties of the service for any
number of threads, identifiers, decisions and cache entries.  The inductive invariant
`IInv` is their conjunction with three facts: the slot has one holder at most, a retained body
belongs to the fingerprint it is retained under, and a thread about to store has a
body.  They need each other: that no retained decision is solved again
(`RetainedIsNotSolvedAgain`) holds across another thread's store only because there is no
other thread past the slot (`OneSolverAtATime`), and a retained response is immutable
(`ServiceImmutable`) only because its identifier is not solved again.  One lemma per action; the eviction is abstracted to
"any entries may go".

For `RemoteExchange`, under `ExchangeAssumption`, `ExchangeInv` adds three facts: a body that is retained or answered is of a solve
that some backend made for that body's decision within its manifest (`MadeOK`), a thread that is done has an answer (`DoneOK`), and a client that waits
tested its pinned manifest first (`WaitingOK`).  A restart empties the service and keeps `made`, the record of every solve.
`ExchangeAcceptedIsBound` then follows from the checks of client and server; its last part needs that
the peak the manifest is held against is the number of players who saw the flop (`PeakIsWhoSawFlop`), a statement about
every transcript, which is proved by the least length at which it fails.

### Coordinator and decoder

`PublicHistoryCoordinatorProofs`, under `CoordinatorAssumption` (the two markers for a missing hand and history are not values), for any
set of hands and any number of frames and positions.  `IInv` says of the record, which the worker's proofs use as well:

* `OrderOK`, `WatermarkOK`: what is buffered lies behind what was processed, and behind the decoder's watermark;
* `TrackedOK`: bundle, recorder and active hand are about one transcript;
* `ClosedOK`: a hand that was cut off is retired, but for the last one, which is still the gapped hand;
* `SeenOK`: a candidate that was seen and not accepted bars its hand, or is an unresolved rejection.

`SeenOK` is what `RecoveryIsFresh` needs and does not say: that property compares a new anchor with the past, and the code keeps of
the past only three sets and a flag.  `_consume_ready_locked` is a loop; the proof shows that the recursive function that models it exists,
by its least frame where it would not, and then that each turn preserves the invariant.
`HistoryPartsProofs` carries the three theorems over to `PartsSpec`, and proves `IdentityIsOfOneHand` under
`DecoderAssumption`: the last evidence is of a hand that had another dealer than the next one, and a frame decoded after it without
replacing it has cut the identifier off (`PreviousOK`).

### Worker

`PublicHistoryWorkerProofs`, under `WorkerAssumption`, for every capacity, number of captures, set of hands and number of
acknowledgement attempts.  The four state properties and the action property follow from one invariant of nine parts; a step of
the capture thread between any two of the worker's must preserve all of them.

* `RingOK`, `ProducerOK`: numbers grow along the chain from the detector through `toOffer` into the ring;
* `CycleOK`, `BatchOK`: what is left of a batch; no keyframe past the cursor is missing from it unless a gap says so;
* `DecodedOK`: decoding went in order, and everything decoded is behind the cursor;
* `CursorsOK`: everything up to a cursor was decoded or is reached by a gap that was applied (`Settled`), unless a stop without
  draining gave up a batch with gaps in it (`Abandoned`), which is then never acknowledged;
* `AppliedOK`: an applied gap still shows in the coordinator, or a later frame was accepted;
* `TranscriptOK`: the coordinator was given exactly what was decoded, and since the anchor of its transcript no gap was applied and nothing failed;
* `RevokedOK`: once poisoned or revoked, gapped.

`ObservedGapsAreApplied` is not inductive because a frame held by the detector may be published after a gap with a
greater number: `AppliedOK` and `TranscriptOK` speak of the frames decoded and not of those published.

### Live

`LiveProofs`, for `CaptureService` and `AdviceFlow` in the instance of the run `live`.

* `LiveStopIsOrderly` from `ThreadsOK`, the order in which `start()` and `stop()` touch the threads.
* `LiveKeyframesTell`, for any screen levels, threshold, stability, heartbeat and number of captures, from `CaptureInv`: what was selected and
  not yet offered is two keyframes at most and in order (`OffersOK`); the detector's fields name captures (`DetectorOK`);
  outside of a burst the anchor is published and nothing differs from it, within one the peak is the greatest change so far
  (`SceneOK`).
* `LiveAdviceIsCurrent`, under `FlowAssumption` (seats, hands and a script of any length): how far the analysis got says
  what its captures have in common (`AnalysisOK`) and what the token proves (`TokenOK`).  Two captures between which no change was reported
  (`Passed`) are of one hand and street, and of one decision if both show lit controls; the hand and the street carry over from the first
  capture to the last, the decision only while no capture is dimmed.
* `LiveHistoryIsOfOneButton`: a manual history with all of Hero's cards read is of hands with one dealer, however many pass unseen.
  That is the strengthening which `HistoryIsOfOneHand` needs, and `LiveHistoryIsOfOneHand` follows while no hand can have the
  dealer of an older one, `MaxHand <= Seats`.  Beyond, the code does mix hands, as the run `other_hand` shows.

### Adapter

`EvaluationServiceProofs` as well, under `AdapterAssumption`.  `NothingOutlivesItsRequest` and `OneTreeAtATime` rest on the fact that a scan of the
server's own children that finds none has proved that no descendant is left.  That needs `Rooted`: every set of processes
has one whose parent is outside of it, so orphans never hang together in a cycle out of reach.

### Cache and benchmarks

`OfflineProofs`, for any number of clients, executables and solves, any list of models (a name may occur twice), any number of decisions
and any faults, under `CacheAssumption`, `RunAssumption` and `AcceptedAnswers`.  The last one is a closed statement about the finite set of
responses, that what the client accepts answers the request: its sums are folds, so TLC evaluates it and the theorem uses it.

* `OfflineStoredIsWhole`, `OfflineStoredIsWhatItSays` from `CacheInv`: the tables agree on one solve worth keeping (`StoredOK`), one process at
  most is in a write and its draft is complete when it commits (`WriteOK`), and a solver started after a digest was taken is no older than it
  (`EngineOK`), so that equal digests before and after mean one executable.  `ReadOK` claims the first table only: a
  reader may see the others torn.
* `OfflineOneVersionPerModel`: rows, the snapshot and the completions in memory agree on the pinned version (`VersionOK`).
* `OfflineEveryDecisionHasOneRow`: at every place of a run the rows are those of the models before this one and of the decisions up to
  here (`Filled`), whichever way the circuit breaker fills in the rest.
* `OfflineCompleteRunIsReproducible`: as long as nothing failed, the completions in memory are those the file loads to, no
  completion is ever replaced, and rows tell what the completions say (`Faultless`).  `Load` and `FlattenSeq` are folds: the few facts needed of them (what appending a
  line does, which pairs a report lists) are proved from the functions they are defined by.

### Hand

`HandProofs`, under `ReplayAssumption`: any number of seats, blinds, antes, and any finite set of starting stacks.  One invariant of
a hand, `HandOK`, in three parts:

* `HandType` and `ChipsOK`: each chip is in a stack or in the pot, `highest` is somebody's bet and nobody's is above it, all-in means no chips;
* `RoundOK`, while a round is open: whoever can act waits, or has acted and matched the highest bet; and somebody who waits although he has
  acted owes chips, which is what a short all-in leaves behind;
* what a closed round leaves: `RoundClosesMatched`.

`NormalizeFacts` shows that `_normalize_round` turns the second into the third exactly where it closes a round; each kind
of event is shown to establish the first two before it normalizes (`PassiveFacts`, `RaisedFacts`, `DealKeeps`, `DealtOK`).
`HandRoundsCloseMatched` is then immediate.  `HandLegalActionsExact` compares what `_legal_actions()` computes with `Accepts`, kind
by kind: that a bet needs no test of the right to raise is `RoundOK`, and that nobody can be short of the
offered amounts is `ChipsOK`.  Lists of seats are recursive functions (`Kept`), of which `KeptFacts` proves what they hold.
`HandTypeOK` says that no chip is lost or made.  The observations of the recorder leave the hand alone, so the theorems are about `Spec` of
`HandEventRecorder`, which the run checks.

### Recorder

The second part of `HandProofs`, for any hand, any labels the screen may keep showing and any number of frames missed.  The
properties of the recorder compare the hand with what was inferred of it, so the invariant `RecorderInv` is about the course of
a hand and not only about its states:

* `PastOK`: of every state the hand has been in, that it was `HandOK`, that the present one is `Later` than it, and that one event led on from
  it towards the present;
* `LabelsOK`: a label of this street still shown for a seat that waits means that the seat owes chips;
* what was recorded is one of these states, and the present one after a frame that proved it: the two properties themselves.

`Later` and `Idle` say what a later state shares with an earlier one: payments only grow, those of earlier streets stay, and a
seat that is not to be asked pays nothing more unless another seat pays first.

An inferred event that reproduces the frame is then the one that was played (`InferredIsTrue`).  The case that needs an argument is a
frame which several events could explain: `SamePot` tells two tables of payments apart by their pot if nobody paid less
in one of them.  `RecorderIsTrue` and `RecorderIsCurrent` follow with `AdvanceIsTrue` and `MatchedIsCurrent`.
`RecorderProvesNextFrame` goes through what may happen between two frames (`ActIsProved`, `DealIsProved`, `ActAndDealAreProved`): a
frame that is no more than one event away and shows that event is never rejected.

### Spot

`SpotProofs`, under `ReplayAssumption`, `SpotAssumption`, `BlueprintAssumption` and `RouterAssumption`: any seats, stacks, tree of
histories and mixed strategies, and percentages within their range.  What a theorem needs beyond is a hypothesis of its own, named below.

* `SpotHandoffIsTheHand`, from `SpotInv`: the hand and the frames satisfy `HandSeen`; who stayed in with chips has paid the same at the
  flop and who folded less (`RoundPaid`), and the frames of the flop still show those chips (`OfFlop`).  The reconstruction counts as
  folded whoever lacks more than a twentieth of a big blind to the highest wager, so a chip must be more than that,
  `5 * BigBlind < 100`.  `SpotHandoffWithinTolerance` says without this hypothesis what is left: wagers
  and all-ins are exact, and the folds are those that lacked more.
* `SpotCheckedAmountsArePlayable`, from `SpotInv`: an amount that passes the last check before it is shown is accepted by the table.  The check has
  no access to the last full raise; `LeastRaise` says that a player who has yet to act has no less to
  call than the last full raise, unless that is a big blind.
* `SpotResolvedLineIsPlayed`, from `LineInv`: of equal stacks a state of the blueprint is a `View` of the hand
  (`ApplyIsApplied`), so its lines and the hand go in step, and two lines that cannot be told apart by
  wagers and folds are the same line.  That needs stacks above the big blind and no published raise that is all of the stack
  (`TreeAssumption`: a line would then have two names for one action), and each table to start with the stack of a bucket;
  `SpotPlayedLineIsFound` asks for that in the abstract mode only.  The run's tree satisfies the
  hypothesis on trees, and one of its two tables the one on stacks.
* `SpotModeledActionsArePlayable`, from `Stakes`: a bet below the big blind is an all-in, the last full raise is never below it, and two players
  have paid as much by the flop.  The bet the solver is offered is then a legal one when it is half of the pot at least, `BetPct >= 50` (the code's
  default), and players started with more than a big blind (`DeepStacks`).
* `SpotAdviceIsPlayable` is the whole of `AdviceIsPlayable`, with the same two hypotheses and the two below.  The policy before the flop is of
  a line whose wagers are near those of the hand, so a raise of the line may be less than a raise of the hand.  `BetsOK` says of every line
  what `HandOK` says of a hand, and `FreeOption` that before the flop nobody may check who has paid more than the big blind.  With
  `NearBet`, `DoubledBet` and `FoundRaiseIsFull` a raise of the line is a raise of the hand if the published raises exceed what
  the tolerance takes away, `RaisesEnough`: half of the pot when wagers must match, 62% of it at a tolerance of 10%, 93% at
  the 30% of the run, which has raises of the pot.  The chip is again more than the tolerance, `5 * BigBlind < 100`.
* `SpotQuestionIsWhatHappened` is `SpotIsWhatHappened` without a hypothesis: any stacks, blinds, bets and number of seats.  A question is replayed
  by a recursive function, `Played`, and the invariant `AskedInv` says of the question of a whole hand that this replay runs in step with the
  hand (`Retold`): as long as two players saw the flop and neither has put in more than the shorter had, the
  solver's hand is at the same bets, with the same player to act and the same part of the shorter stack left (`Follows`).  The
  argument is that the two tables differ only in chips which cannot be bet: a round of two closes when both have paid the same and have acted or
  are all-in for what is left (`SettledRound`), so both close together, `FollowsAct` takes an action of the hand to the solver's
  table and `FollowsDeal` a deal.  A fold, or a bet above the shorter stack, ends the comparison, and `AcceptedContinuation` refuses to ask.
  The question of one street is replayed from the bets it starts with, history by history (`UntouchedCheck`, `UntouchedBet`): that the bet Hero faces
  is one the solver's rules allow is `BetIsBlindOrAll`, from the same invariant.

### Left to TLC

* Liveness (`EverythingIsConsumed`, `ShutdownCompletes`, `EveryCallEnds`, `EveryRequestEnds`): outside the prover's reach, like `ENABLED`.
* `AcceptedAnswers`, as said: a sum over a response's actions, for the finite set of responses.
* `ResolvedLineIsPlayed` at a table of uneven stacks in the abstract mode, where a line of another stack stands in for the hand.
* The order of eviction and the types of the service.

## 5. Not modelled

* Image reading, prompts, display and wire encodings: input and output, or pure functions.  What vision
  may miss or misread is an input of `AdviceFlow` and `TableDecoder`.
* HTTP header validation, authorization and size limits: they refuse one exchange and leave nothing.
* The numeric solvers (`gto_oracle_engine`, push-fold), scoring and report tables, range arithmetic:
  numbers without a protocol, out of reach of finite model checking.  In `EngineResponse` averages of equity and
  value and single-precision tolerances are left out.
* The router's push-fold route, and positions beyond three: UTG, HJ and CO have folded.
* `gto_full_process_simulation.py`, calibration and capture layout: a script over the other
  components, and one JSON file that is replaced atomically.
* Two branches of the worker that nothing in the program reaches: an invalidation that itself raises, and a gap
  revision that changed without a ledger event.  The timeouts of the decoder are in `PublicHistoryWorker`
  and not in `TableDecoder`.

## 6. Plan

What is left, in this order:

1. `ResolvedLineIsPlayed` for uneven stacks: which bucket may stand in for which table;
2. the detector shown to emit only what the abstract capture thread of `PublicHistoryWorker` may.
