# A verification project for Function Factory

Function Factory (the `ff-pipeline` worker and its neighbours) turns signals
into Functions.  Its live path today is the *Gas City era*: an Execution Packet
is compiled into a formula and dispatched to Gas City, an external multi-agent
system; Gas City works on a *bead* and calls back; the Factory records a
fidelity verdict and moves the Function through its lifecycle; a monitor run by
cron keeps what was accepted under observation.  This directory holds TLA+
modules of that path, the TLC configurations that check them, and theorems that
TLAPS proves.  Paths below are relative to `src/`; where no directory is given
they are in `workers/ff-pipeline/src/`.

## Inventory

| Part | State | Operations | Hard because |
|---|---|---|---|
| Function lifecycle `gascity/function-lifecycle.ts` | `specs_functions.state`, `lifecycle_transitions` | `transitionFunctionState` | asserts on the caller's from-state, patch and edge are two writes |
| Webhook receiver `gascity/webhook-receiver.ts` | `completion_events`, `fidelity_verdicts`, `specs_signals`, `specs_incidents` | completion delivery, operational events | at-least-once concurrent deliveries, crash between any two writes |
| Autonomy monitor `gascity/autonomy-monitor.ts` | `persistence_verdicts`, `specs_incidents`, `specs_pressures` | sweep; `markFunctionDispatched` | reads and writes other handlers' documents, query timeouts, LIMITs, clock |
| Formula dispatch `compilers/formula-compiler.ts`, `-adapter.ts` | `formulas`, `dispatch_log` | `compileAndDispatchFormula` (CALL 1-3, resume) | lost replies, retries, crashes, concurrent invocations of one key |
| Callers `pipeline.ts`, `index.ts` | workflow steps | dispatch and mark steps, `/dispatch-formula` | a step is retried, the two callers race |
| Document store `packages/db-client` | documents, edges | `save`, `update`, `saveEdge`, queries | no transactions; `save` is an upsert |
| PI queue `coordinator/pi-container-backpressure.ts` | two counters, a promise chain | `run` | interleaving at two awaits, exceptions |
| PI container `coordinator/pi-container.ts`, `-version.ts` | active execution and started build in storage, checkpoints in R2, the queue and `startPromise` in memory | `/execute`, restart, start, status, fence | a timeout leaves the request running, restarts overlap and swap the queue, the object is reset and its storage stays |
| Completion ledger `coordinator/completion-ledger.ts`, queue consumer in `index.ts` | ledger document | record, ready atoms, completion | read-modify-write by concurrent at-least-once consumers; but no running code creates a ledger |
| Supervisor keep-alive `workers/gascity-supervisor/src/index.ts` | count of molecules at work | `/keepalive/start`, `/stop`, activity expiry | a start is sent once and may be lost, a stop is sent by each delivery of a completion |
| Fidelity release driver `workers/gascity-supervisor/factory/fidelity/` | the job file and the bead it was given | evaluate, run again, post the release twice at most, close or block the bead, post `molecule.failed` | a script that ends on the first unguarded failure, an answer that is lost after the Factory has acted on it |
| Agent queue `packages/autonomous-scheduler/src/index.ts`, `cli.ts` | files of a directory: requests, claims with leases, results; a git clone each | `enqueue`, `claim`, `heartbeat`, `run-single`, `daemon` | processes share the directory without a lock, leases run out under a live owner, a process dies on a half-written file |
| Agent library `packages/gdk-agent/src/agent.ts`, `agent-loop.ts` | transcript, steering and follow-up queues, the active run with a context of its own | `prompt`, `continue`, `steer`, `followUp`, clearing, `reset`, `abort`; the loop of answers and tool calls | the client calls at any await, tools run side by side, a hook or a listener may throw anywhere |
| Run coordinator, atom executor `coordinator/` | Durable Object storage | events, alarms | alarms, restarts; of its routes only `/force-complete` and `/operator-dispatch` still have a caller |
| Gas City supervisor `workers/gascity-supervisor` | SQLite beads, deps, artifacts | bead API, transactions | partial batches |
| Gateway, gates, governor, telemetry, libraries | none of their own in the loop | | |

How the parts interact: the callers run `compileAndDispatchFormula`, which makes
three HTTP calls to Gas City and writes the `dispatch_log` row; on success they
mark the Function as dispatched.  Gas City posts to `/webhooks/gascity`; the
receiver matches the bead with a *dispatched* row, and writes.  The monitor
reads what both wrote.  Nothing locks anything: all coordination is through
single-document upserts, and an isolate can end between any two of them.  The
agent library stands for itself (what uses it today is `gdk-ts`), and so does the
agent queue: command-line processes on a developer's machine that
meet in a directory, each of which turns a request into a pull request.

What makes the parts correct, in one line each: a verdict stands on a dispatch
and a completion; each bead is judged once and keeps its verdict; a Function's
state stands on evidence of its own; a promotion was fresh; consequences are not
forgotten; a stale dispatch is raised; an idempotency key sets Gas City to work
once; nobody claims a dispatch without evidence; the queue is a fair bounded
line; the container's storage tells the truth about its build and its active
execution, and no request waits for ever through restarts; a request is given
to a second process only after a lease ran out, its result is final and says
"completed" only of published work; the keep-alive count
is never below the molecules at work; a bead handed to the release driver is
closed or reported; the model is sent the conversation the client sees, whole
and in order, and a message put into a queue of the agent is not lost.

The synthesis and harness eras are deprecated in the source (`synthesize()`
throws before it creates a completion ledger, harness messages are acknowledged
and dropped) and are left out.

## Modules

| Module | Models |
|---|---|
| `FunctionLifecycle` | the eight states and the transition table |
| `GasCityStore` | the documents the loop shares, the patch of a Function and the edge, typing and initial state |
| `WebhookReceiver` | `handleGasCityWebhook`: one step per awaited call of each of several concurrent invocations |
| `AutonomyMonitor` | `runGasCityAutonomyMonitor`: three queries, three loops, escalation, for several runs at a time |
| `GasCityLoop` | the composition, with the tail of a dispatch, `markFunctionDispatched`, Gas City and the clock; the properties of the loop |
| `BeadLifecycle` | abstract: the phases of a bead.  `GasCityLoop` implements it |
| `FormulaDispatch` | `compileAndDispatchFormula` for one idempotency key, with several invocations |
| `BoundedSerialQueue` | `BoundedSerialQueue.run` |
| `FifoServer` | abstract: a bounded first-come first-served line.  `BoundedSerialQueue` implements it |
| `PiContainer` | the Durable Object of the PI container: start, restart with its checkpoint, the queue and its replacement, executions, timeouts, crashes and resets |
| `MoleculeRelease` | a molecule from its dispatch to its end: the supervisor's keep-alive count, the validator and the convergence rule, `fidelity-release.sh` command by command, and the completion handlers that answer its posts |
| `AgentQueue` | `JsonlAgentQueue` and the commands that use it, `runClaimedAgentRequest` stage by stage, for several processes |
| `LeasedQueue` | abstract: requests that are given out under leases and answered once.  `AgentQueue` implements it |
| `AgentLoop` | `Agent` with `runLoop` and `executeToolCalls`: queues, runs, tools in sequence and in parallel, failures, reset |
| `MC*` | instances for TLC |
| `*Proofs` | theorems |

**State and code.**  The variables of `GasCityStore` are named after the D1
collections; each is a function from the document's key.  `h[d]` is a webhook
invocation: its program counter names the call it is about to make, with the
locals it carries across awaits.  `mon[r]` is a run of the monitor (cron's, or
an operator's), with the rows of its last query still to be handled and the
result of the evaluation in progress.  `disp[b]` is where the dispatch of a bead stands.  Every action is
one awaited database call and the code up to the next one.  A read that decides
a later write keeps its result in a local, so it can be stale when used.  In
`FormulaDispatch`, `inv[i]` is an invocation and `row[i]` the `dispatch_log` row
it writes; `started` keeps the order of `started_at`.  In `BoundedSerialQueue` a
promise is the number of its creation.  In `PiContainer`, `active` and
`startedBuild` are the keys of storage, `pc[h]` is where a request is, and
`queue` is `executeQueue`, `replaced` the queues that restarts took out of its place
while calls stood in them.  The platform delivers no event to a Durable Object while an
operation on its storage is under way, so a step goes from one await of
something outside the object (the container, R2, another request) to the next.
A queue is the line of calls that `FifoServer` describes and
`BoundedSerialQueue` is proved to implement; that nothing else of it is used is
`QueueIsFifoServer`.  The
line of `BoundedSerialQueue` is the accepted calls in the order of their promises
(`lineOfCalls`): the queue itself holds no list.  In
`AgentQueue`, `requests`, `claim` and `result` are the files, `pc[p]` is the file
operation or the stage of the run that process `p` is about to carry out, and
`todo[p]`, `done[p]` are the lists `claimNext` read before its loop, which other
processes make stale.  `LeasedQueue` sees of this which request a process works on
(`heldRequests`), the pull requests, and a result once its content is written
(`answers`); its `given` and `lapsed` are the history `taken` and `lapsed`.  In `MoleculeRelease`, `at[b]` says where molecule `b` is and, in its release step,
where the script is: making a post, waiting for its answer, or running the
commands `todo[b]` that its decision leaves it; `h[<<b, k>>]` is the receiver's
handler of post `k`, which goes on when the script has given up waiting;
`count` and `awake` are the supervisor's.  `counted` and `surplus` are history:
the molecules whose start the count stands for, and the stops that took more
than one start off it.  In `AgentLoop`, `pc` is the await a run is at, `context` the
loop's copy of `transcript`, `pending` the messages the loop has taken out of a
queue, `batch` and `tool` the calls of the last answer and what has become of
every call, also of those a failed run left behind.

**Abstractions.**  Ids and payloads are model values; a verdict is pass or fail;
an evidence key says what document it names.  HMAC and payload parsing are
before the model: a delivery that fails them changes no document of the loop.
The clock counts units longer than a handler runs: it ticks only when nobody is
between two calls (`Settled`).  So cutoffs and timestamps taken at the start of
a handler are those of its writes, and a handler never spans a freshness
boundary.  Two reports that overlapping runs write in one unit are ordered in
the code by when the runs started; here either may be the latest.  `ArangoClient.update` is a read and a write; the patches of a
Function always carry all state fields together, and the patch of an outcome
cannot lose a field that matters, so it is one step.  Formula text, seed
workspace, uncertainty entries, keep-alive calls and logs are left out.
`webhook_rejections` and `gascity_drift_events` are written and never read in
the loop and are left out too.  Gas City is external: it creates beads under an
idempotency key that it may forget, attaches a workflow to a bead once, may
lose any reply, and delivers the outcome of a bead any bounded number of times
with a right or a wrong lineage.

In `PiContainer` every answer to a request is `ended`: refused, failed, timed
out and answered differ in what they leave in storage, the queue and the
container, which is kept.  Run events that the object only writes, the monitor
that writes one when the container exits, and drained logs are left out, save
for the awaits that lie on a request's path.  The fifteen attempts to connect
are `Connect` or `GiveUp`.  A request that is passed on unqueued (any path but
those named, or an `/execute` whose body has no run) matters for
`ensureContainerReady` only and is a member of `Other`.  Starting the container
and recording its build lie between two outside awaits and are one step.  A
request is never sent twice under the same id; the caller's retry is another
call.

In `AgentQueue` a file is absent, *torn* (opened and emptied, or garbled by two
writers) or has its content; reading a torn one throws and ends the process.
Time is left out but for what it does: an active lease may run out at any
moment.  A stage of a run succeeds or fails without a cause.  Each process works
in a clone of its own.  The planners, policies, result bundles and
`events.jsonl` are left out: no operation of the queue reads them.

In `MoleculeRelease` the evidence is what the decision depends on: the gate
classes of the failing checks in the order they are evaluated, with a rejected
step before as a leading pre-flight failure.  The job of the next run carries
the same attempt or the next one, with the count of failing checks or without:
what writes it is Gas City's.  So is the hard failure of a molecule at
`max_iterations`.  The script sleeps five seconds before its second post and the
last steps of a dispatch take less, so that post comes after the dispatch ended; the activity
timeout is half an hour, so it runs out only with no dispatch under way.  A
molecule whose container stopped is not taken up again by anything here.
Remediation files and notes are left out.  The receiver's writes between the
event and the answer are one step, because `WebhookReceiver` has them one by
one.

In `AgentLoop` an entry of the conversation is its role, the message it is or the
calls it makes or answers.  Both queue modes may be changed at any time, so each
drain takes all or the first.  `abort` reaches the loop only as an answer that
ends in an error, or as what a tool makes of the signal.  The parts of the state that are there for display (`isStreaming`,
`streamingMessage`, `pendingToolCalls`, `errorMessage`), events that change nothing and
assignments to `state.messages` are left out.

## Runs

| Run | Shows |
|---|---|
| `loop_concurrent` | Two beads of one Function (one beyond the amendment depth), two handlers, monitor and two dispatchers, no fault: `NothingForgotten` and the refinement of `BeadLifecycle` |
| `loop_faults` | One bead, two handlers, one crash, lost write or timed-out query anywhere, clock to 2, with fairness: `VerdictGrounded`, `PromotionWasFresh`, and the liveness properties `StaleDispatchRaised`, `MonitoredIsReexamined`, `RecurringEscalated` |
| `loop_overlap` | Two runs of the monitor in progress at once, two beads of one Function, no fault: `StateGrounded` |
| `loop_table` | violated: the state of a Function leaves the transition table (`docs/FACTORY_GAS_CITY_E2E.md:542`) |
| `loop_duplicate` | violated: a delivery is answered "duplicate" with no verdict (`specs/reference/GAS-CITY-ERA-ARCHITECTURE.md:152`) |
| `dispatch` | Three invocations, two tries, two faults: `AtMostOneSlung`, `DispatchedMeansSlung`, `SlungIsNoted`, `RowHasForm` (its types are proved) |
| `serial_queue` | Five calls, two places: `MutualExclusion`, `CountersExact`, refinement of `FifoServer`, `EveryCallServed` |
| `pi_container` | Three executions, an operator, one place, one fault, two builds: `RecordIsOfAnExecution`, `RecordedBuildIsRunning`, `ForwardedToOwnBuild`, `LinesInOrder`, `LostRecordIsSaved`, `EveryRequestEnds` |
| `molecule_release` | Two molecules, one of them entered up to three times with a check of its own that may fail, one fault anywhere: `ClosedIsRecorded`, `OneFailureIsReconciled`, `EndIsKnown`, `AwakeWhileAtWork`, `EveryMoleculeEnds` |
| `release_exhausted` | violated: a molecule that has not converged at the depth limit is recorded and escalated as an incident (FV-18a, see Disagreements) |
| `agent_queue` | Two processes and any of their commands, two requests, one crash, leases that run out: `OneClaimPerLease`, `OnePullRequest`, `CompletedIsPublished`, `ResultIsFinal`, refinement of `LeasedQueue`, `EveryRequestAnswered` |
| `agent_loop` | Two messages besides a restored one, two tool calls, two failures of any kind: `ContextIsTranscript`, `DeliveredOnceInOrder`, `CallsAnswered`, `NoneOverlooked`, `EveryRunEnds` |

**Bounds.**  `MaxDeliveries`, `MaxEvents`, `MaxFaults` and `MaxNow` bound the
environment and appear only in its guards.  Two handlers are enough for every
pair of concurrent deliveries to interleave, two beads for one Function's
evidence to be replaced by that of another bead, one fault for a crash or a
lost write anywhere, and a clock of two units for evidence to be fresh, at the
boundary of the window and beyond it.  `Threshold` is 2 so that recurring
incidents occur.  `EventType` has one of the three operational events where
`MaxEvents` lets one happen: they differ only in the incident's type.  `QueryLimit` is above the number of rows in every run: the
liveness claims hold only below the LIMIT (see Disagreements).  In `FormulaDispatch` three invocations are needed for a row to be hidden
behind a later one, two beads for a second one to be slung after the key is
forgotten.  In `pi_container` three calls are one in service, one waiting and
one that meets a replaced queue or is refused (`MaxQueued` is 1 where the code
has 4: the limit is met with as few calls as possible); one fault is a crash or
a reset at any point, and the restarts that overlap come from the operator and
from each request that finds another build recorded.  In `agent_queue` two processes meet at every file operation, one
request is there before and one may be enqueued, so that a list is stale; a
third process would only repeat the second's part.  In `molecule_release` a second molecule is there for the
count; the first is entered again twice, so that `prior_failing_count` and the
depth limit of 2 are both met; one fault is one lost call, dead handler or dead
container, and two posts are all the script makes.  In `agent_loop` two messages meet in one queue or in both, and with the
restored one there are up to three runs; two calls are a batch in parallel or in
sequence, or two turns; two failures are a run that fails and leaves a tool
behind and another that fails after it.  The handlers, invocations and dispatched beads are symmetric where
symmetry is declared, and no liveness is checked under it.

**Deadlock** is checked in the loop, where the monitor can always run, and in
`agent_loop`, where an idle agent can always be reset.  It is off in
`dispatch`, `serial_queue`, `agent_queue`, `pi_container` and the two of
`MoleculeRelease`, whose calls or molecules end.

**Fairness** (`FairSpec`).  An invocation that has begun goes on: the platform
drives the promises of `fetch`, `waitUntil` and workflow steps.  The next
step of each run, its start included, is weakly fair: cron keeps starting it.  The
clock ticks strongly fairly because `Settled` is true again and again.  Faults,
deliveries and Gas City's verdict are not fair: nothing makes them happen.  In
the queue a resolved promise is followed up and a task ends: `withTaskTimeout`
settles it after twelve minutes at the latest.  In `PiContainer` a restart goes
on once `destroy` and the writes to R2 settle, an attempt to connect settles,
and the timer of an execution fires; that the container answers is not assumed,
so `EveryRequestEnds` rests on the timer.  In `AgentQueue` each process is
scheduled and leases run out; `EveryRequestAnswered` holds as long as a daemon
goes on polling and no writer has died on an empty file, which nobody repairs.
In `AgentLoop` the promises of the loop settle, the model at last answers and
tools return.  In `MoleculeRelease` the end of a dispatch, the validator, the script and the
handlers go on; that a container expires, or a fault occurs, is not fair.

**Disagreements.**  The violation runs are places where a document of the
repository says more than the code does; the counterexamples are described in
`PROJECT.json`.  One more has no run: `docs/FACTORY_GAS_CITY_E2E.md:658` speaks
of "more than" the threshold of incidents "on a Function", and the code groups
them by type as well and asks for at least the threshold, which is what
`RecurringEscalated` states.

The fence of the PI container may be inactive while the container works on an
execution whose caller waits (`specs/reference/SPEC-DEVOPS-FENCE-001.md:23`):
`restartContainer` deletes `ACTIVE_EXECUTION_KEY` whoever it names
(`coordinator/pi-container.ts:290`), and a call may have recorded itself since the
restart destroyed the container.

The agent promises tool results in the order of the assistant's calls
(`packages/gdk-agent/src/types.ts:33`).  A call that is refused while its batch is
prepared is answered before the calls ahead of it have run
(`agent-loop.ts:411`), so `CallsAnswered` asks for each answer once, in any order.
A message steered after the run has looked for the last time stays in its queue
until another run begins (`NoneOverlooked`), and a parallel call whose run has
failed goes on after `waitForIdle` has resolved.

Three more were met with counterexamples and are described here only.  A Function
whose evidence is fresh again may be regressed, by a run of the monitor that
listed it before the webhook accepted it once more
(`docs/FACTORY_GAS_CITY_E2E.md:655`, `gascity/autonomy-monitor.ts:186`).  A fresh
dispatch may begin beside a dispatched row
(`specs/intent-specifications/IS-GC-EP-FORMULA-DISPATCH.md:174`,
`compilers/formula-compiler-adapter.ts:44`).  And over-decrement of the
keep-alive count by repeated deliveries is called no risk
(`specs/reference/GC-DISPATCH-ARCHITECTURE.md:176`), because the duplicate gate
returns before the stop is sent; but two handlers may pass the gate together,
when the second post is made while the handler of the first is still at work,
and each sends one.  `AwakeWhileAtWork` therefore says what holds: with no
surplus stop and no lost start the container does not expire under a molecule.

The LIMIT of the monitor's queries has no run: with more stale rows than fit, those
behind the first page may never get an incident
(`docs/FACTORY_GAS_CITY_E2E.md:657`), because the query returns the same first
page each time.  A clone that an earlier, failed run of the agent queue left dirty is no
obstacle to the next request, whose commit then holds the leftovers too
(`index.ts:637`, `:1151`): `work` keeps track of them, and no document promises
otherwise.

In the release step, as `MoleculeRelease` shows and `release_exhausted` in part: three
ways out of the script (no runtime, no job, an unknown action) leave the bead
open, where `factory-coding-v1.toml:394` says that it is closed as blocked; a
curl that cannot connect ends the script under `set -e` without any of its
reports; a molecule that ends blocked or silently sends no stop, so the
container stays up until the platform's own limit; the receiver refuses the
attempt that the loop has advanced as `lineage_mismatch`, while the formula's
`factory_attempt` is a constant of the dispatch; and the abort or escalation of
a step before is seen by the release step as a pre-flight failure and run again,
where FV-18 makes it terminal.

Some claims about the PI container do not hold of the code, are stated by no
document as such, and have no run: a checkpoint may be written of an execution
that finished while the restart was waiting for R2; an execution killed by a
restart may clear its own record before the restart reads it, so that no
checkpoint is written; of two overlapping restarts one deletes the build the
other recorded, and the next request restarts the container once more; and a
queue that a restart replaced goes on forwarding beside the new one, so two
executions may be in the container at a time.

## Proofs

All theorems are proved for every value of the constants, from the assumptions
named in the modules that declare them (`StoreAssumption`, `WebhookAssumption`,
`MonitorAssumption`, `LoopAssumption`, `DispatchAssumption`, `PiAssumption`,
`ReleaseAssumption`, `AgentAssumption`, and a `QueueAssumption` in each of
`BoundedSerialQueue` and `AgentQueue`), which TLC evaluates on every run of them.

- `GasCityLoopProofs`: `LoopTypeOK`, type correctness, with one lemma for each of
  the webhook, the monitor and the dispatcher, one step per action; then
  `LoopVerdictGrounded` and
  `LoopImplementsBeadLifecycle`.  Neither is inductive: what a handler has
  already checked is only in its program counter.  `GroundInv` adds, for every
  handler past the lookup, that its bead's row is dispatched, that its payload
  agreed with it and, later on, that event and verdict are there (`HandlerInv`);
  and, for every bead, how row, dispatch, outcome, event, verdict, signal and
  incident depend on each other (`BeadInv`).  The refinement then shows that
  each step moves one bead's phase along `BeadLifecycle`, or none: a second
  handler of the same bead rewrites what is there already.
- `GasCityPromotionProofs`: what the loop promises about Functions.
  `LoopPromotionWasFresh`: `EvaluationInv` says what
  each run in progress relies on: once its first read has found a fresh pass
  verdict there is one still, and at `promote` a fresh completion too.  A step
  of a run leaves the other runs alone (`OthersKept`).  It rests
  on two facts, that a verdict or a completion is kept or rewritten at the time
  it bears and that the clock stands still within a run.
  `LoopStateGrounded`: a handler's patch of the record
  rests on `GroundInv` (the verdict it names is there, with the outcome it goes
  by); a run's rests on `ReportInv`: the report of its Function is of this clock
  unit when it patches, and no report is from the future, so the report that
  the record names is never replaced by another one of the same key.
  `LoopNothingForgotten`: the property speaks of moments when nobody is at work
  and says nothing of the others.  `FollowInv` closes the gap: as long as no
  fault was spent, what a completion (`Followed`) or a state (`Recorded`) still
  lacks is the next write of some handler or run, whose progress without a fault
  is that write (`WorkDone`, `RunProgress`).
- `FormulaDispatchProofs`: all five invariants of the dispatch runs.
  `DispatchInv`: until it has a bead a row is changed by its own invocation
  only, since another one resumes rows with a bead only (`RowInv`); beads that
  rows and invocations name have been created (`BeadsCreated`); while the key is
  remembered there is one bead, the one it stands for (`OneBead`); CALL 3 always
  has a row with a bead (`Noted`).  `Moves` reduces the 21 actions to four kinds
  of step.  That a latest row exists (`LatestIsRow`) comes from the
  well-foundedness of the natural numbers, not from an induction.
- `BoundedSerialQueueProofs`: `QueueMutualExclusion`.  `ChainInv`: promises have
  one owner each, a resolved promise belongs to a call that is done, and the
  predecessor of a running call's promise is resolved, with everything older.
  `QueueCountersExact` and `QueueTypeOK` rest on `Counted`, in which the
  counters agree with the calls in the chain, every promise after the first has
  a call that created it (`Owned`), and a call in service is the one whose turn
  the chain has come to (`Ready`): a call that finds the counters at rest finds
  the chain at rest too.  `QueueImplementsFifo` is the refinement of `FifoServer`.
  `NoGap`: the resolved promises are 0 to some `b`.  So the calls in line own the
  promises `b + 1` to `tail`, one each (`Segment`), there are `tail - b` of them,
  and the one at place `i` of the line waits for promise `b + i - 1` (`LineIs`): the
  sequence that `lineOfCalls` chooses by this order exists and is the only one
  (`SameSequence`).  A call that enters takes promise `tail + 1`, the last place
  (`EnterArrives`), a call that ends is the one at place 1 (`EndLeaves`), and the
  counters admit a call only when the line has room for it (`RoomInLine`).
- `PiContainerProofs`: `RecordedBuild` and `OwnBuild`.  Neither is inductive: a
  request that found the container in order joins the queue later, when others
  may have restarted it.  `BuildInv` adds that a request past the readiness
  check vouches for the build (`Vouched`), that while a restart is between
  `destroy` and its start the container is down or of this Worker's build
  (`Restarted`), and that the container works on something only while it runs
  (`WorksRunning`).  `PiTypeOK`, `PiRecord` and `PiLostRecord` rest on
  `RecordInv`: a call that is served is at the head of a queue (`Heads`), so
  that what leaves is that call and the one it lets begin is a call; and if the
  record is of a lost execution, a restart that waits for a checkpoint writes
  that of this execution (`Saw`).  `PiLinesInOrder`: each
  queue, the one of the moment and those restarts set aside, serves its first call
  and no other, and a call has one place in one of them.  It is inductive with
  `RecordInv`: a call that submits itself is in no queue yet, and what is left of a
  queue when its first call leaves is the same places one further on, so two calls
  share a place after the step only if they did before (`LinesLeave`).
  `PiQueueIsFifo` composes: the queue moves as `FifoServer` does, until a restart
  sets it aside as it is or a reset loses it.
- `MoleculeReleaseProofs`: all invariants of its run and `AwakeWhileAtWork`.
  `AccountInv` keeps the account of a bead, one part for each place where the
  script can be: nothing is changed or sent before it acts and decides
  (`Before`); what the handlers recorded is the driver's outcome, and a bead is
  closed only after one did (`Handled`); each post but the one waited for has
  cost a fault or a refusal (`Failed`); and so has each report that is left out
  (`LeftOut`).  `Balance` is the argument for the keep-alive: the molecules the
  count stands for are never more than `count` and `surplus` together.
- `AgentLoopProofs`: all five safety properties, type correctness included.  For
  `AgentContextIsTranscript` and `AgentNoneOverlooked`: the two copies of the
  conversation grow at different points, and `Mirror` says at each place of the
  loop by which entries they differ.  `Looked` says that a run about
  to look at the follow-ups has left no steering message it saw; a run that
  skips its first look (`Skipping`) has yet to take another.
  `AgentDeliveredOnceInOrder` rests on `Delivery`: of each queue, the messages in
  the conversation, those the loop holds and those still queued are three
  increasing runs of numbers one after the other (`Parts`), disjoint from those of
  the other queue.  Each kind of step moves the first message of one part to the
  end of the one before it, adds a message newer than all, or drops a whole part.
  `AgentCallsAnswered` rests on `Answering`: outside the tools the conversation is
  closed (`Closed`); while tools are at work it is a closed conversation, the
  answer, and a result for each call of the batch that was answered, each once
  (`Turn`).  A run that throws closes it with the failure.
- `AgentQueueProofs`: all the safety properties, type correctness included.  The
  invariant has three parts.  `LeaseInv`: of a request that no lease has run out
  of, a claim is absent only while nobody was given it, and whoever writes the
  claim is the only one.  `RunInv`: a process has opened at most one pull request
  per request and none before its run got there (`PullsOK`); a run whose outcome
  is "completed" has opened its own with work in it, and a result being written
  is the writer's alone, for it was created exclusively (`RunOK`).
  `TakeInv` is what the refinement (`QueueImplementsLeased`) needs besides: a
  request a process was given is the one at hand, or was answered before the
  process went on, and a daemon that looks for another knows that answer
  (`GivenOnce`); only a request somebody was given has a lease (`Leased`); and
  the list read before the loop has enqueued requests only (`Listed`).  The
  refinement has one lemma per abstract action: the append is `Enqueue`, the write
  of a claim is `Take`, the pull request is `Open`, the write of a result is
  `Answer`; the creation of an empty file and the steps of `claimNext` are stutters.

The typing of the loop, `FormulaDispatch`, `BoundedSerialQueue`, `PiContainer`
and `AgentQueue` is proved and no run has it besides.  Every safety property of a
passing run is a theorem.  Only model-checked are the liveness properties:
`StaleDispatchRaised`, `MonitoredIsReexamined`, `RecurringEscalated`,
`EveryCallServed`, `EveryRequestEnds`, `EveryMoleculeEnds`,
`EveryRequestAnswered` and `EveryRunEnds`.  Temporal reasoning with fairness and
ENABLED is out of the prover's reach, as are induction over data and RECURSIVE
operators; no module declares one.

## Plan

1. *(done)* The Gas City loop with its abstract specification, overlapping runs
   of the monitor included; formula dispatch; the serial queue; the PI
   container; type correctness, grounding, refinement, promotion, mutual
   exclusion, the container's build.
2. *(done)* The agent queue with its proofs.
3. *(done)* The supervisor's keep-alive, the fidelity release driver and the
   handlers that answer it, in one module.
4. *(done)* The agent library, with its proofs.
5. *(done)* Proofs of `NothingForgotten`, of the queue's counters, of the
   container's record and of the release step.
6. *(done)* Proofs of the two refinements `FifoServer` and `LeasedQueue`, of the
   agent's delivery of messages and answers to calls, and of the queues of
   `PiContainer` as lines of `FifoServer`.
7. The supervisor's bead store (`factory-store-do.ts`: batches of several
   operations) and `RunCoordinator` (events, alarms).

The completion ledger and the atom executor come after these: nothing that runs
creates a ledger.

Not planned: pipeline stages 1 to 5 (a straight line of durable steps around LLM
calls), prompt and model routing, schema validation, the gateway, the governor
and telemetry, the deprecated synthesis coordinator, libraries and vendored
clients.
