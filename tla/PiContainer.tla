------------------------------ MODULE PiContainer ------------------------------
(***************************************************************************)
(* coordinator/pi-container.ts: the Durable Object that owns the singleton *)
(* PI container, starts it, replaces it when the Worker's build changes,   *)
(* and puts the executions Gas City posts to /execute one after the other  *)
(* in a BoundedSerialQueue.  The object keeps in storage which execution   *)
(* is active; the deploy pipeline reads that record as a fence, and a      *)
(* restart turns it into a checkpoint in R2.                               *)
(*                                                                         *)
(* Requests interleave where they await something outside the object: the  *)
(* container (destroy, a forwarded fetch), R2 (a checkpoint, run events)   *)
(* and one another.  While an operation on storage is under way the        *)
(* platform delivers no other event, so the code from one outside await to *)
(* the next is one step.  A queue stands here as the line of calls that    *)
(* BoundedSerialQueue implements (FifoServer): when a call leaves, the     *)
(* promise it releases starts the next one in the same turn.               *)
(***************************************************************************)
EXTENDS Integers, Sequences

CONSTANTS
  Call,        \* POST /execute requests, each an execution of its own
  Other,       \* other requests: a manual restart, or one that is passed on
  Build,       \* build ids a deployed Worker resolves
  Unknown,     \* UNKNOWN_PI_CONTAINER_BUILD_ID
  None,        \* an absent key of storage
  MaxQueued,   \* MAX_EXECUTE_QUEUE_DEPTH
  MaxFaults    \* bound: the container crashes, the object is reset

ASSUME PiAssumption ==
  /\ None \notin Call \cup Build
  /\ Call \cap Other = {}
  /\ {MaxQueued, MaxFaults} \subseteq Nat

VARIABLES
  active,          \* storage: ACTIVE_EXECUTION_KEY
  startedBuild,    \* storage: STARTED_BUILD_ID_KEY
  checkpoints,     \* R2: the executions with a checkpoint
  unsaved,         \* those whose checkpoint could not be read or written
  running,         \* the container, the build it was started with,
  containerBuild,
  inside,          \* and the executions it is working on
  build,           \* memory: the build id of the object's Worker,
  queue,           \* memory: executeQueue,
  replaced,        \* and the queues it replaced that still hold calls
  starting,        \* startPromise is set
  pc,              \* where each request is
  saw,             \* restartContainer's activeExec
  faults

storage   == <<active, startedBuild>>
bucket    == <<checkpoints, unsaved>>
container == <<running, containerBuild, inside>>
lines     == <<queue, replaced>>
vars == <<storage, bucket, container, build, lines, starting, pc, saw, faults>>

Handler == Call \cup Other
Gone    == {"ended", "lost"}

\* Storage, container, queues and the memory of every request keep their types.
TypeOK ==
  /\ active \in Call \cup {None}
  /\ startedBuild \in Build \cup {None}
  /\ checkpoints \subseteq Call /\ unsaved \subseteq Call
  /\ running \in BOOLEAN
  /\ containerBuild \in Build \cup {None}
  /\ inside \subseteq Call
  /\ build \in Build
  /\ queue \in Seq(Call)
  /\ replaced \subseteq Seq(Call) \ {<<>>}
  /\ starting \in BOOLEAN
  /\ pc \in [Handler -> {"idle", "destroying", "destroyed", "checkpointing",
                         "starting", "joining", "ready", "queued", "forwarding",
                         "inside", "timingOut"} \cup Gone]
  /\ saw \in [Handler -> Call \cup {None}]
  /\ faults \in 0 .. MaxFaults

Init ==
  /\ active = None /\ startedBuild = None
  /\ checkpoints = {} /\ unsaved = {}
  /\ running = FALSE /\ containerBuild = None /\ inside = {}
  /\ build \in Build
  /\ queue = <<>> /\ replaced = {}
  /\ starting = FALSE
  /\ pc = [h \in Handler |-> "idle"]
  /\ saw = [h \in Handler |-> None]
  /\ faults = 0
----------------------------------------------------------------------------
(* Starting and restarting the container *)

\* Mutant: a container of which no build is recorded is kept.
MustRestart_RecordedOnly ==
  running /\ build # Unknown /\ startedBuild \notin {build, None}

\* shouldRestartPiContainerForBuild.
MustRestart == running /\ build # Unknown /\ startedBuild # build

\* A start the container refuses (it throws) fails the request.  recorded is
\* what the caller left under STARTED_BUILD_ID_KEY.
StartContainer(h, recorded) ==
  \/ /\ starting                                 \* await startPromise
     /\ pc' = [pc EXCEPT ![h] = "joining"]
     /\ startedBuild' = recorded
     /\ UNCHANGED <<running, containerBuild, starting>>
  \/ /\ ~starting                                \* startContainerOnce
     /\ starting' = TRUE
     /\ running' = TRUE
     /\ containerBuild' = IF running THEN containerBuild ELSE build
     /\ startedBuild' = build
     /\ pc' = [pc EXCEPT ![h] = "starting"]
  \/ /\ ~starting /\ ~running
     /\ pc' = [pc EXCEPT ![h] = "ended"]
     /\ startedBuild' = recorded
     /\ UNCHANGED <<running, containerBuild, starting>>

\* Mutant: the requests that joined a start are not woken by it.
Started_Alone(h) ==
  /\ pc[h] = "starting"
  /\ starting' = FALSE
  /\ pc' = [pc EXCEPT ![h] = IF h \in Call THEN "ready" ELSE "ended"]
  /\ UNCHANGED <<storage, bucket, container, build, lines, saw, faults>>

\* The container_started event is written: startPromise settles and every
\* request that awaited it goes on, a call to its queue.
Started(h) ==
  /\ pc[h] = "starting"
  /\ starting' = FALSE
  /\ pc' = [k \in Handler |->
              IF k = h \/ pc[k] = "joining"
              THEN IF k \in Call THEN "ready" ELSE "ended"
              ELSE pc[k]]
  /\ UNCHANGED <<storage, bucket, container, build, lines, saw, faults>>

\* Mutant: a container of another build is not destroyed first.
Arrive_StartOnly(h) ==
  /\ pc[h] = "idle"
  /\ \/ /\ MustRestart \/ ~running
        /\ StartContainer(h, startedBuild)
     \/ /\ running /\ ~MustRestart
        /\ pc' = [pc EXCEPT ![h] = IF h \in Call THEN "ready" ELSE "ended"]
        /\ UNCHANGED <<startedBuild, running, containerBuild, starting>>
  /\ UNCHANGED <<active, bucket, inside, build, lines, saw, faults>>

\* fetch of any request but status and fence, up to the end of
\* ensureContainerReady or its first outside await.
Arrive(h) ==
  /\ pc[h] = "idle"
  /\ \/ /\ MustRestart
        /\ pc' = [pc EXCEPT ![h] = "destroying"]
        /\ UNCHANGED <<startedBuild, running, containerBuild, starting>>
     \/ /\ ~running
        /\ StartContainer(h, startedBuild)
     \/ /\ running /\ ~MustRestart
        /\ pc' = [pc EXCEPT ![h] = IF h \in Call THEN "ready" ELSE "ended"]
        /\ UNCHANGED <<startedBuild, running, containerBuild, starting>>
  /\ UNCHANGED <<active, bucket, inside, build, lines, saw, faults>>

\* POST /__pi-container/restart of a container that runs.
ManualRestart(o) ==
  /\ pc[o] = "idle" /\ running
  /\ pc' = [pc EXCEPT ![o] = "destroying"]
  /\ UNCHANGED <<storage, bucket, container, build, lines, starting, saw,
                 faults>>

\* The container exits, with all it was working on; who awaits its
\* destruction goes on.
ContainerStops ==
  /\ running
  /\ running' = FALSE /\ inside' = {}
  /\ pc' = [h \in Handler |->
              IF pc[h] = "destroying" THEN "destroyed" ELSE pc[h]]
  /\ UNCHANGED <<storage, bucket, containerBuild, build, lines, starting, saw>>

Destroyed ==
  /\ \E h \in Handler : pc[h] = "destroying"
  /\ ContainerStops /\ UNCHANGED faults

Crash == faults < MaxFaults /\ ContainerStops /\ faults' = faults + 1

\* The end of restartContainer: the two keys are deleted, the container is
\* started.
DeleteAndStart(h) == active' = None /\ StartContainer(h, None)

\* The calls of the queue that is replaced keep waiting in it.
NewQueue == queue' = <<>> /\ replaced' = replaced \cup ({queue} \ {<<>>})

\* Mutant: the record is deleted before its checkpoint is written.
ReplaceQueue_DeleteFirst(h) ==
  /\ pc[h] = "destroyed" \/ (h \in Other /\ pc[h] = "idle" /\ ~running)
  /\ NewQueue
  /\ \/ /\ active # None
        /\ saw' = [saw EXCEPT ![h] = active]
        /\ active' = None
        /\ pc' = [pc EXCEPT ![h] = "checkpointing"]
        /\ UNCHANGED <<startedBuild, unsaved, running, containerBuild,
                       starting>>
     \/ /\ DeleteAndStart(h)
        /\ unsaved' = unsaved \cup ({active} \ {None})
        /\ UNCHANGED saw
  /\ UNCHANGED <<checkpoints, inside, build, faults>>

\* restartContainer after destroy, or at once when nothing runs: a new queue,
\* then the read of the record, which may fail, and what it leads to.
ReplaceQueue(h) ==
  /\ pc[h] = "destroyed" \/ (h \in Other /\ pc[h] = "idle" /\ ~running)
  /\ NewQueue
  /\ \/ /\ active # None
        /\ saw' = [saw EXCEPT ![h] = active]
        /\ pc' = [pc EXCEPT ![h] = "checkpointing"]
        /\ UNCHANGED <<storage, running, containerBuild, starting, unsaved>>
     \/ /\ DeleteAndStart(h)
        /\ unsaved' = unsaved \cup ({active} \ {None})
        /\ UNCHANGED saw
  /\ UNCHANGED <<checkpoints, inside, build, faults>>

\* The put of the checkpoint settles; the restart goes on either way.
Checkpointed(h) ==
  /\ pc[h] = "checkpointing"
  /\ \/ checkpoints' = checkpoints \cup {saw[h]} /\ UNCHANGED unsaved
     \/ unsaved' = unsaved \cup {saw[h]} /\ UNCHANGED checkpoints
  /\ DeleteAndStart(h)
  /\ saw' = [saw EXCEPT ![h] = None]
  /\ UNCHANGED <<inside, build, lines, faults>>
----------------------------------------------------------------------------
(* Executions *)

\* executeQueue.run, on the queue of the moment: a full one refuses the
\* call, an empty one starts it, recordActiveExecution first.
Submit(c) ==
  /\ pc[c] = "ready"
  /\ \/ /\ Len(queue) > MaxQueued
        /\ pc' = [pc EXCEPT ![c] = "ended"]
        /\ UNCHANGED <<queue, active>>
     \/ /\ Len(queue) <= MaxQueued
        /\ queue' = Append(queue, c)
        /\ IF queue = <<>>
           THEN pc' = [pc EXCEPT ![c] = "forwarding"] /\ active' = c
           ELSE pc' = [pc EXCEPT ![c] = "queued"] /\ UNCHANGED active
  /\ UNCHANGED <<startedBuild, bucket, container, build, replaced, starting,
                 saw, faults>>

\* Mutant: the task of a call belongs to the queue of the moment.
QueueOf_Current(c) == IF queue = <<>> THEN <<c>> ELSE queue

\* The queue whose task c is.
QueueOf(c) ==
  CHOOSE q \in {queue} \cup replaced : q # <<>> /\ Head(q) = c

\* Mutant: nothing clears the record of the last call of a queue.
Cleared_Never(c) == active

\* clearActiveExecution deletes the record only if it is c's.
Cleared(c) == IF active = c THEN None ELSE active

\* The task of call c settles: its record is cleared, and the next call of
\* the queue, if there is one, is recorded and begins.
Leave(c) ==
  LET rest == Tail(QueueOf(c))
      left == [pc EXCEPT ![c] = "ended"] IN
  /\ \/ QueueOf(c) = queue /\ queue' = rest /\ UNCHANGED replaced
     \/ /\ QueueOf(c) # queue /\ UNCHANGED queue
        /\ replaced' = (replaced \ {QueueOf(c)}) \cup ({rest} \ {<<>>})
  /\ IF rest = <<>>
     THEN pc' = left /\ active' = Cleared(c)
     ELSE /\ pc' = [left EXCEPT ![Head(rest)] = "forwarding"]
          /\ active' = Head(rest)
  /\ UNCHANGED <<startedBuild, bucket, running, containerBuild, build,
                 starting, saw, faults>>

\* forwardToContainer: an attempt reaches the container.
Connect(c) ==
  /\ pc[c] = "forwarding" /\ running
  /\ inside' = inside \cup {c}
  /\ pc' = [pc EXCEPT ![c] = "inside"]
  /\ UNCHANGED <<storage, bucket, running, containerBuild, build, lines,
                 starting, saw, faults>>

\* It does not listen in fifteen attempts, or another error is thrown.
GiveUp(c) == pc[c] = "forwarding" /\ Leave(c) /\ UNCHANGED inside

Answer(c) ==
  /\ pc[c] = "inside" /\ c \in inside
  /\ inside' = inside \ {c}
  /\ Leave(c)

\* The connection was lost with the container.
Break(c) ==
  pc[c] = "inside" /\ c \notin inside /\ Leave(c) /\ UNCHANGED inside

\* withTaskTimeout rejects; container_execute_timed_out is being written.
\* The container is not told.
Expire(c) ==
  /\ pc[c] = "inside"
  /\ pc' = [pc EXCEPT ![c] = "timingOut"]
  /\ UNCHANGED <<storage, bucket, container, build, lines, starting, saw,
                 faults>>

TimedOut(c) == pc[c] = "timingOut" /\ Leave(c) /\ UNCHANGED inside

\* The container ends an execution nobody awaits any more.
EndUnawaited(c) ==
  /\ c \in inside /\ pc[c] # "inside"
  /\ inside' = inside \ {c}
  /\ UNCHANGED <<storage, bucket, running, containerBuild, build, lines,
                 starting, pc, saw, faults>>

\* The object is evicted, or a deployment replaces its Worker: memory and
\* the requests in it are gone, storage and the container stay.
Reset ==
  /\ faults < MaxFaults
  /\ faults' = faults + 1
  /\ build' \in Build
  /\ queue' = <<>> /\ replaced' = {}
  /\ starting' = FALSE
  /\ pc' = [h \in Handler |->
              IF pc[h] \in Gone \cup {"idle"} THEN pc[h] ELSE "lost"]
  /\ saw' = [h \in Handler |-> None]
  /\ UNCHANGED <<storage, bucket, container>>

Execution(c) ==
  \/ Submit(c) \/ Connect(c) \/ GiveUp(c) \/ Answer(c) \/ Break(c)
  \/ Expire(c) \/ TimedOut(c) \/ EndUnawaited(c)

Restart(h) == ReplaceQueue(h) \/ Checkpointed(h) \/ Started(h)

Next ==
  \/ \E h \in Handler : Arrive(h) \/ Restart(h)
  \/ \E o \in Other : ManualRestart(o)
  \/ \E c \in Call : Execution(c)
  \/ Destroyed \/ Crash \/ Reset

Spec == Init /\ [][Next]_vars

\* What was begun is carried on: destroy, the R2 writes and an attempt to
\* connect settle, the timer of an execution fires.  Nothing says that the
\* container ever answers.
FairSpec ==
  /\ Spec /\ WF_vars(Destroyed)
  /\ \A h \in Handler : WF_vars(pc[h] # "idle" /\ Restart(h))
  /\ \A c \in Call :
       /\ WF_vars(Submit(c)) /\ WF_vars(Connect(c) \/ GiveUp(c))
       /\ WF_vars(Break(c)) /\ WF_vars(Expire(c)) /\ WF_vars(TimedOut(c))
----------------------------------------------------------------------------
(* Properties *)

Serving == {"forwarding", "inside", "timingOut"}
Lines   == {queue} \cup replaced

\* However often restarts replace the queue under calls that wait in it, each
\* queue serves its first call and no other, and a call that waits or is
\* served has one place in one queue.
LinesInOrder ==
  /\ queue \notin replaced
  /\ \A q \in Lines : \A i \in DOMAIN q :
       /\ i = 1 => pc[q[i]] \in Serving
       /\ i > 1 => pc[q[i]] = "queued"
  /\ \A q, r \in Lines : \A i \in DOMAIN q, j \in DOMAIN r :
       q[i] = r[j] => q = r /\ i = j
  /\ \A c \in Call : pc[c] \in Serving \cup {"queued"} =>
       \E q \in Lines : \E i \in DOMAIN q : q[i] = c

Line == INSTANCE FifoServer WITH Capacity <- MaxQueued + 1, line <- queue

\* The queue moves as the line that BoundedSerialQueue implements, until a
\* restart sets it aside as it is or a reset loses it.
QueueIsFifoServer ==
  [][Line!Next \/ (queue' = <<>> /\ (queue \in replaced' \/ replaced' = {}))]_queue

\* The fence never holds up a deployment for an execution that is over: the
\* record names one that is under way, or one the object lost in a reset
\* and no restart has dealt with.  Every way out of the queue's task, and a
\* restart that runs beside it, must leave the record so.
RecordIsOfAnExecution ==
  active # None => pc[active] \in {"forwarding", "inside", "timingOut", "lost"}

\* The recorded build is never the build of another container than the one
\* that runs, through restarts that overlap, crashes and resets.
RecordedBuildIsRunning ==
  running /\ startedBuild # None => startedBuild = containerBuild

\* No execution is handed to a container of an earlier deployment.
ForwardedToOwnBuild ==
  build # Unknown =>
    \A c \in inside : pc[c] = "inside" => containerBuild = build

\* The record of an execution that was lost with the object leaves storage
\* only for the record of a later execution, or after the attempt to write
\* its checkpoint: a reset in the middle of a restart does not lose it.
LostRecordIsSaved ==
  [][\A c \in Call : active = c /\ pc[c] = "lost" /\ active' # c =>
       active' \in Call \/ c \in checkpoints' \cup unsaved']_vars

\* Each request comes to an end, also in a queue that a restart replaced
\* while it waited there.
EveryRequestEnds == \A h \in Handler : pc[h] # "idle" ~> pc[h] \in Gone
=============================================================================
