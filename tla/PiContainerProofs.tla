--------------------------- MODULE PiContainerProofs ---------------------------
(***************************************************************************)
(* The safety properties of PiContainer, for any number of requests,       *)
(* builds, crashes and resets.                                             *)
(*                                                                         *)
(* Builds: a restart that overlaps another may delete the recorded build   *)
(* after the other recorded it, and may find running, when it comes to     *)
(* start the container, one it did not start.  Neither does harm because   *)
(* between its own destroy and its start nothing runs but what this object *)
(* started since (Restarted), and because a request that has passed        *)
(* ensureContainerReady vouches for the container (Vouched) for as long as *)
(* the object lives.                                                       *)
(*                                                                         *)
(* The record: a call that is served heads a queue, the current one or one *)
(* that a restart replaced (Heads), so the end of its task starts a call   *)
(* of its own queue; and a restart that waits for the checkpoint of a lost *)
(* execution saves the one the record names, whatever other restarts did   *)
(* meanwhile (Saw).                                                        *)
(***************************************************************************)
EXTENDS PiContainer, TLAPS

Place == {"idle", "destroying", "destroyed", "checkpointing", "starting",
          "joining", "ready", "queued", "forwarding", "inside", "timingOut"}
           \cup Gone

\* The requests between their destroy of the container and their start of it.
Restarting(h) == pc[h] \in {"destroyed", "checkpointing"}

\* The requests past their start of the container, or past a check that
\* found nothing to restart.
Ready(h) == pc[h] \in {"starting", "joining", "ready", "queued", "forwarding",
                       "inside", "timingOut"}

Typed ==
  pc \in [Handler -> Place] /\ build \in Build /\ inside \subseteq Call

Restarted ==
  running /\ (\E h \in Handler : Restarting(h)) => containerBuild = build

Vouched ==
  running /\ build # Unknown /\ (\E h \in Handler : Ready(h)) =>
    containerBuild = build

\* A container works on something only while it runs.
WorksRunning == inside # {} => running

BuildInv ==
  Typed /\ RecordedBuildIsRunning /\ Restarted /\ Vouched /\ WorksRunning

USE DEF storage, bucket, container, Gone
----------------------------------------------------------------------------
LEMMA BuildInvInit == Init => BuildInv
BY PiAssumption
DEF Init, BuildInv, Typed, Place, RecordedBuildIsRunning, Restarted, Vouched,
    WorksRunning, Restarting, Ready

\* A start, by a request that comes to it: nothing runs, or what this
\* object started since the request's destroy.
LEMMA StartKeeps ==
  ASSUME BuildInv, NEW h \in Handler, NEW recorded \in {startedBuild, None},
         StartContainer(h, recorded), ~running \/ Restarting(h),
         UNCHANGED <<inside, build>>
  PROVE  BuildInv'
<1>1. Typed'
  BY DEF StartContainer, BuildInv, Typed, Place
<1>2. RecordedBuildIsRunning'
  BY DEF StartContainer, BuildInv, RecordedBuildIsRunning, Restarted
<1>3. CASE running' = running /\ containerBuild' = containerBuild
  <2>1. Restarted'
    BY <1>3 DEF StartContainer, BuildInv, Restarted, Restarting, Typed
  <2>2. Vouched'
    BY <1>3 DEF StartContainer, BuildInv, Restarted, Vouched, Ready, Typed
  <2> QED BY <1>1, <1>2, <1>3, <2>1, <2>2 DEF BuildInv, WorksRunning
<1>4. CASE /\ running'
           /\ containerBuild' = IF running THEN containerBuild ELSE build
  BY <1>1, <1>2, <1>4 DEF BuildInv, Restarted, Vouched, WorksRunning
<1> QED BY <1>3, <1>4 DEF StartContainer

\* A step that leaves the container and its record alone, and makes no
\* request restarting or ready that has not such a request beside it.
LEMMA RequestKeeps ==
  ASSUME BuildInv, Typed',
         UNCHANGED <<startedBuild, running, containerBuild, build>>,
         inside' # {} => running,
         (\E h \in Handler : Restarting(h)') =>
           \E h \in Handler : Restarting(h),
         (\E h \in Handler : Ready(h)') =>
           (\E h \in Handler : Ready(h)) \/ ~running \/ containerBuild = build
             \/ build = Unknown
  PROVE  BuildInv'
BY DEF BuildInv, RecordedBuildIsRunning, Restarted, Vouched, WorksRunning

LEMMA LeaveKeeps ==
  ASSUME BuildInv, NEW c \in Call, Leave(c),
         pc[c] \in {"forwarding", "inside", "timingOut"},
         inside' \subseteq inside
  PROVE  BuildInv'
<1>1. Typed'
  BY DEF Leave, BuildInv, Typed, Place
<1>2. ASSUME NEW h \in Handler, Restarting(h)' PROVE Restarting(h)
  BY <1>2 DEF Leave, BuildInv, Typed, Restarting
<1>3. c \in Handler /\ Ready(c)
  BY DEF Handler, Ready
<1> QED
  BY <1>1, <1>2, <1>3, RequestKeeps DEF Leave, BuildInv, WorksRunning
----------------------------------------------------------------------------
LEMMA BuildInvStep == BuildInv /\ [Next]_vars => BuildInv'
<1> SUFFICES ASSUME BuildInv, [Next]_vars PROVE BuildInv'
  OBVIOUS
<1> USE DEF BuildInv
<1>1. ASSUME NEW h \in Handler, Arrive(h) PROVE BuildInv'
  <2>1. CASE ~running
    BY <1>1, <2>1, StartKeeps DEF Arrive, MustRestart
  <2>2. CASE running
    <3>1. /\ Typed'
          /\ UNCHANGED <<startedBuild, running, containerBuild, build, inside>>
      BY <1>1, <2>2 DEF Arrive, Typed, Place
    <3>2. ASSUME NEW k \in Handler, Restarting(k)' PROVE Restarting(k)
      BY <1>1, <2>2, <3>2 DEF Arrive, Typed, Restarting
    <3>3. ASSUME NEW k \in Handler, Ready(k)'
          PROVE  Ready(k) \/ containerBuild = build \/ build = Unknown
      <4>1. CASE k = h
        <5>1. ~MustRestart
          BY <1>1, <2>2, <3>3, <4>1 DEF Arrive, Typed, Ready
        <5> QED
          BY <5>1, <2>2, PiAssumption
          DEF MustRestart, RecordedBuildIsRunning, Typed
      <4>2. CASE k # h
        BY <1>1, <2>2, <3>3, <4>2 DEF Arrive, Typed, Ready
      <4> QED BY <4>1, <4>2
    <3> QED BY <3>1, <3>2, <3>3, RequestKeeps DEF WorksRunning
  <2> QED BY <2>1, <2>2
<1>2. ASSUME NEW h \in Handler, ReplaceQueue(h) PROVE BuildInv'
  <2>1. CASE DeleteAndStart(h)
    BY <1>2, <2>1, StartKeeps DEF ReplaceQueue, DeleteAndStart, Restarting
  <2>2. CASE /\ pc' = [pc EXCEPT ![h] = "checkpointing"]
             /\ UNCHANGED <<storage, running, containerBuild>>
    <3>1. Typed'
      BY <1>2, <2>2 DEF ReplaceQueue, Typed, Place
    <3>2. ASSUME NEW k \in Handler, Ready(k)' PROVE Ready(k)
      BY <2>2, <3>2 DEF Typed, Ready
    <3>3. running => Restarting(h)
      BY <1>2 DEF ReplaceQueue, Restarting
    <3> QED
      BY <1>2, <2>2, <3>1, <3>2, <3>3
      DEF ReplaceQueue, RecordedBuildIsRunning, Restarted, Vouched, WorksRunning
  <2> QED BY <1>2, <2>1, <2>2 DEF ReplaceQueue
<1>3. ASSUME NEW h \in Handler, Checkpointed(h) PROVE BuildInv'
  BY <1>3, StartKeeps DEF Checkpointed, DeleteAndStart, Restarting
<1>4. ASSUME NEW h \in Handler, Started(h) PROVE BuildInv'
  <2>1. Typed'
    BY <1>4 DEF Started, Typed, Place
  <2>2. ASSUME NEW k \in Handler, Restarting(k)' PROVE Restarting(k)
    BY <1>4, <2>2 DEF Started, Typed, Restarting
  <2>3. Ready(h)
    BY <1>4 DEF Started, Ready
  <2> QED BY <1>4, <2>1, <2>2, <2>3, RequestKeeps DEF Started, WorksRunning
<1>5. ASSUME NEW o \in Other, ManualRestart(o) PROVE BuildInv'
  <2>1. Typed'
    BY <1>5 DEF ManualRestart, Typed, Place
  <2>2. ASSUME NEW k \in Handler
        PROVE  (Restarting(k)' => Restarting(k)) /\ (Ready(k)' => Ready(k))
    BY <1>5 DEF ManualRestart, Typed, Restarting, Ready
  <2> QED BY <1>5, <2>1, <2>2, RequestKeeps DEF ManualRestart, WorksRunning
<1>6. ASSUME ContainerStops PROVE BuildInv'
  <2>1. Typed'
    BY <1>6 DEF ContainerStops, Typed, Place
  <2> QED
    BY <1>6, <2>1
    DEF ContainerStops, RecordedBuildIsRunning, Restarted, Vouched, WorksRunning
<1>7. ASSUME NEW c \in Call, Submit(c) PROVE BuildInv'
  <2>1. c \in Handler /\ Ready(c)
    BY <1>7 DEF Submit, Handler, Ready
  <2>2. Typed'
    BY <1>7, <2>1 DEF Submit, Typed, Place
  <2>3. ASSUME NEW k \in Handler, Restarting(k)' PROVE Restarting(k)
    BY <1>7, <2>3 DEF Submit, Typed, Restarting
  <2> QED BY <1>7, <2>1, <2>2, <2>3, RequestKeeps DEF Submit, WorksRunning
<1>8. ASSUME NEW c \in Call, Connect(c) \/ Expire(c) PROVE BuildInv'
  <2>1. c \in Handler /\ Ready(c)
    BY <1>8 DEF Connect, Expire, Handler, Ready
  <2>2. Typed'
    BY <1>8, <2>1 DEF Connect, Expire, Typed, Place
  <2>3. ASSUME NEW k \in Handler, Restarting(k)' PROVE Restarting(k)
    BY <1>8, <2>3 DEF Connect, Expire, Typed, Restarting
  <2> QED
    BY <1>8, <2>1, <2>2, <2>3, RequestKeeps DEF Connect, Expire, WorksRunning
<1>9. ASSUME NEW c \in Call, GiveUp(c) \/ Answer(c) \/ Break(c) \/ TimedOut(c)
      PROVE BuildInv'
  BY <1>9, LeaveKeeps DEF GiveUp, Answer, Break, TimedOut
<1>10. ASSUME NEW c \in Call, EndUnawaited(c) PROVE BuildInv'
  BY <1>10
  DEF EndUnawaited, Typed, RecordedBuildIsRunning, Restarted, Vouched,
      WorksRunning, Restarting, Ready
<1>11. CASE Reset
  <2>1. Typed' /\ \A k \in Handler : pc'[k] \in Gone \cup {"idle"}
    BY <1>11 DEF Reset, Typed, Place
  <2> QED
    BY <1>11, <2>1
    DEF Reset, RecordedBuildIsRunning, Restarted, Vouched, WorksRunning,
        Restarting, Ready
<1>12. CASE UNCHANGED vars
  BY <1>12
  DEF vars, Typed, RecordedBuildIsRunning, Restarted, Vouched, WorksRunning,
      Restarting, Ready
<1> QED
  BY <1>1, <1>2, <1>3, <1>4, <1>5, <1>6, <1>7, <1>8, <1>9, <1>10, <1>11, <1>12
  DEF Next, Restart, Execution, Destroyed, Crash

LEMMA BuildInvHolds == Spec => []BuildInv
BY BuildInvInit, BuildInvStep, PTL DEF Spec

\* The recorded build is never the build of another container than the one
\* that runs: what MustRestart compares is the truth, or nothing.
THEOREM RecordedBuild == Spec => []RecordedBuildIsRunning
<1>1. BuildInv => RecordedBuildIsRunning
  BY DEF BuildInv
<1> QED BY <1>1, BuildInvHolds, PTL

\* No execution whose caller waits is in a container of another build than
\* the object's Worker.
THEOREM OwnBuild == Spec => []ForwardedToOwnBuild
<1>1. BuildInv => ForwardedToOwnBuild
  <2> SUFFICES ASSUME BuildInv, build # Unknown,
                      NEW c \in inside, pc[c] = "inside"
               PROVE  containerBuild = build
    BY DEF ForwardedToOwnBuild
  <2> QED BY DEF BuildInv, Vouched, WorksRunning, Ready, Typed, Place, Handler
<1> QED BY <1>1, BuildInvHolds, PTL
----------------------------------------------------------------------------
(* The record of the active execution *)

\* A call that is served stands at the head of a queue, so that what Leave
\* takes out is its own, and what it starts is a call.
Heads ==
  \A c \in Call : pc[c] \in Serving =>
    \E q \in {queue} \cup replaced : q # <<>> /\ Head(q) = c

\* A restart that waits for a checkpoint writes that of the record, if the
\* record is of an execution lost before.
Saw ==
  /\ \A h \in Handler : pc[h] = "checkpointing" => saw[h] # None
  /\ \A h \in Handler :
       pc[h] = "checkpointing" /\ active # None /\ pc[active] = "lost" =>
         saw[h] = active

RecordInv == TypeOK /\ Heads /\ RecordIsOfAnExecution /\ Saw

USE DEF lines

LEMMA RecordInvInit == Init => RecordInv
<1> SUFFICES ASSUME Init PROVE RecordInv
  OBVIOUS
<1>1. TypeOK
  <2>1. queue \in Seq(Call) /\ replaced \subseteq Seq(Call) \ {<<>>}
    BY DEF Init
  <2>2. pc \in [Handler -> {"idle"}] /\ saw \in [Handler -> {None}]
    BY DEF Init
  <2>3. faults \in 0 .. MaxFaults
    BY PiAssumption DEF Init
  <2> QED BY <2>1, <2>2, <2>3 DEF Init, TypeOK
<1>2. Heads /\ RecordIsOfAnExecution /\ Saw
  BY DEF Init, Heads, RecordIsOfAnExecution, Saw, Serving, Handler
<1> QED BY <1>1, <1>2 DEF RecordInv

\* A start changes, of all this, only the place of the request that starts.
LEMMA StartMoves ==
  ASSUME TypeOK, NEW h \in Handler, NEW recorded \in {startedBuild, None},
         StartContainer(h, recorded)
  PROVE  /\ startedBuild' \in Build \cup {None}
         /\ running' \in BOOLEAN /\ containerBuild' \in Build \cup {None}
         /\ starting' \in BOOLEAN
         /\ \E p \in {"joining", "starting", "ended"} : pc' = [pc EXCEPT ![h] = p]
BY DEF StartContainer, TypeOK

\* A step that leaves queues and record alone and serves no further call.
LEMMA PlacesKeep ==
  ASSUME RecordInv, TypeOK', UNCHANGED <<lines, active, saw>>,
         \A h \in Handler :
           \/ pc'[h] = pc[h]
           \/ pc[h] \notin Serving \cup {"lost"}
              /\ pc'[h] \notin Serving \cup {"lost", "checkpointing"}
           \/ pc[h] \in Serving /\ pc'[h] \in Serving
  PROVE  RecordInv'
<1>1. Heads'
  BY DEF RecordInv, Heads, Serving, Handler
<1>2. RecordIsOfAnExecution'
  BY DEF RecordInv, RecordIsOfAnExecution, Serving, Handler, TypeOK
<1>3. Saw'
  BY DEF RecordInv, Saw, Serving, Handler, TypeOK
<1> QED BY <1>1, <1>2, <1>3 DEF RecordInv

\* The end of a restart: the record goes.
LEMMA DeletedKeeps ==
  ASSUME RecordInv, NEW h \in Handler, DeleteAndStart(h),
         pc[h] \notin Serving,
         saw' \in [Handler -> Call \cup {None}],
         \A k \in Handler \ {h} : saw'[k] = saw[k],
         queue' \in Seq(Call), replaced' \subseteq Seq(Call) \ {<<>>},
         \A q \in {queue} \cup replaced : q # <<>> => q \in {queue'} \cup replaced',
         checkpoints' \subseteq Call, unsaved' \subseteq Call,
         UNCHANGED <<inside, build, faults>>
  PROVE  RecordInv'
<1>1. /\ active' = None
      /\ startedBuild' \in Build \cup {None}
      /\ running' \in BOOLEAN /\ containerBuild' \in Build \cup {None}
      /\ starting' \in BOOLEAN
  BY StartMoves DEF DeleteAndStart, RecordInv
<1>2. PICK p \in {"joining", "starting", "ended"} : pc' = [pc EXCEPT ![h] = p]
  BY StartMoves DEF DeleteAndStart, RecordInv
<1>3. TypeOK'
  BY <1>1, <1>2 DEF RecordInv, TypeOK, Gone
<1>4. Heads'
  BY <1>2 DEF RecordInv, TypeOK, Heads, Serving, Handler
<1>5. Saw'
  BY <1>1, <1>2 DEF RecordInv, TypeOK, Saw
<1> QED BY <1>1, <1>3, <1>4, <1>5 DEF RecordInv, RecordIsOfAnExecution

LEMMA ReplacedType ==
  ASSUME TypeOK, NewQueue
  PROVE  /\ queue' \in Seq(Call) /\ replaced' \subseteq Seq(Call) \ {<<>>}
         /\ \A q \in {queue} \cup replaced : q # <<>> => q \in {queue'} \cup replaced'
<1>1. queue' = <<>> /\ replaced' = replaced \cup ({queue} \ {<<>>})
  BY DEF NewQueue
<1>2. queue \in Seq(Call) /\ replaced \subseteq Seq(Call) \ {<<>>}
  BY DEF TypeOK
<1>3. <<>> \in Seq(Call)
  OBVIOUS
<1> QED BY <1>1, <1>2, <1>3, Zenon

LEMMA ReplaceKeeps ==
  ASSUME RecordInv, NEW h \in Handler, ReplaceQueue(h) PROVE RecordInv'
<1>1. /\ queue' \in Seq(Call) /\ replaced' \subseteq Seq(Call) \ {<<>>}
      /\ \A q \in {queue} \cup replaced : q # <<>> => q \in {queue'} \cup replaced'
  BY ReplacedType DEF ReplaceQueue, RecordInv
<1>2. pc[h] \notin Serving
  BY DEF ReplaceQueue, Serving
<1>3. UNCHANGED <<checkpoints, inside, build, faults>>
  BY DEF ReplaceQueue
<1>4. CASE /\ DeleteAndStart(h)
           /\ unsaved' = unsaved \cup ({active} \ {None})
           /\ UNCHANGED saw
  <2>1. unsaved' \subseteq Call /\ checkpoints' \subseteq Call
    BY <1>3, <1>4 DEF RecordInv, TypeOK
  <2>2. saw' \in [Handler -> Call \cup {None}]
    BY <1>4 DEF RecordInv, TypeOK
  <2> QED BY <1>1, <1>2, <1>3, <1>4, <2>1, <2>2, DeletedKeeps
<1>5. CASE /\ active # None
           /\ saw' = [saw EXCEPT ![h] = active]
           /\ pc' = [pc EXCEPT ![h] = "checkpointing"]
           /\ UNCHANGED <<storage, running, containerBuild, starting, unsaved>>
  <2>1. TypeOK'
    BY <1>1, <1>3, <1>5 DEF RecordInv, TypeOK
  <2>2. Heads'
    BY <1>1, <1>2, <1>5 DEF RecordInv, TypeOK, Heads, Serving, Handler
  <2>3. pc[h] # "lost"
    BY DEF ReplaceQueue
  <2>4. RecordIsOfAnExecution'
    BY <1>2, <1>5, <2>3 DEF RecordInv, TypeOK, RecordIsOfAnExecution, Serving
  <2>5. Saw'
    BY <1>5 DEF RecordInv, TypeOK, Saw
  <2> QED BY <2>1, <2>2, <2>4, <2>5 DEF RecordInv
<1> QED BY <1>4, <1>5 DEF ReplaceQueue

LEMMA CheckpointedKeeps ==
  ASSUME RecordInv, NEW h \in Handler, Checkpointed(h) PROVE RecordInv'
<1>1. pc[h] = "checkpointing" /\ saw[h] \in Call
  BY DEF Checkpointed, RecordInv, TypeOK, Saw
<1>2. checkpoints' \subseteq Call /\ unsaved' \subseteq Call
  BY <1>1 DEF Checkpointed, RecordInv, TypeOK
<1>3. /\ saw' \in [Handler -> Call \cup {None}]
      /\ \A k \in Handler \ {h} : saw'[k] = saw[k]
  BY DEF Checkpointed, RecordInv, TypeOK
<1>4. /\ DeleteAndStart(h) /\ queue' = queue /\ replaced' = replaced
      /\ UNCHANGED <<inside, build, faults>>
  BY DEF Checkpointed
<1>5. pc[h] \notin Serving
  BY <1>1 DEF Serving
<1>6. queue' \in Seq(Call) /\ replaced' \subseteq Seq(Call) \ {<<>>}
  BY <1>4 DEF RecordInv, TypeOK
<1> QED BY <1>2, <1>3, <1>4, <1>5, <1>6, DeletedKeeps

LEMMA SubmitKeeps ==
  ASSUME RecordInv, NEW c \in Call, Submit(c) PROVE RecordInv'
<1>1. /\ pc[c] = "ready" /\ c \in Handler /\ c # None
      /\ UNCHANGED <<startedBuild, bucket, container, build, replaced,
                     starting, saw, faults>>
  BY PiAssumption DEF Submit, Handler
<1>2. CASE pc' = [pc EXCEPT ![c] = "ended"] /\ UNCHANGED <<queue, active>>
  <2>1. TypeOK'
    BY <1>1, <1>2 DEF RecordInv, TypeOK
  <2> QED BY <1>1, <1>2, <2>1, PlacesKeep DEF RecordInv, TypeOK, Serving
<1>3. CASE queue # <<>> /\ queue' = Append(queue, c)
             /\ pc' = [pc EXCEPT ![c] = "queued"] /\ UNCHANGED active
  <2>1. queue \in Seq(Call) /\ queue' \in Seq(Call) /\ queue' # <<>>
          /\ Head(queue') = Head(queue)
    BY <1>3 DEF RecordInv, TypeOK
  <2>2. TypeOK'
    BY <1>1, <1>3, <2>1 DEF RecordInv, TypeOK
  <2>3. Heads'
    BY <1>1, <1>3, <2>1 DEF RecordInv, TypeOK, Heads, Serving
  <2>4. RecordIsOfAnExecution' /\ Saw'
    BY <1>1, <1>3 DEF RecordInv, TypeOK, RecordIsOfAnExecution, Saw
  <2> QED BY <2>2, <2>3, <2>4 DEF RecordInv
<1>4. CASE queue = <<>> /\ queue' = Append(queue, c)
             /\ pc' = [pc EXCEPT ![c] = "forwarding"] /\ active' = c
  <2>1. queue' \in Seq(Call) /\ queue' # <<>> /\ Head(queue') = c
    BY <1>4 DEF RecordInv, TypeOK
  <2>2. TypeOK'
    BY <1>1, <1>4, <2>1 DEF RecordInv, TypeOK
  <2>3. Heads'
    BY <1>1, <1>4, <2>1 DEF RecordInv, TypeOK, Heads, Serving
  <2>4. RecordIsOfAnExecution' /\ Saw'
    BY <1>1, <1>4 DEF RecordInv, TypeOK, RecordIsOfAnExecution, Saw
  <2> QED BY <2>2, <2>3, <2>4 DEF RecordInv
<1> QED BY <1>2, <1>3, <1>4 DEF Submit

\* What is left of the queues when c leaves: every other head, and the next
\* call of c's queue.
LEMMA LeaveLines ==
  ASSUME RecordInv, NEW c \in Call, pc[c] \in Serving, Leave(c),
         NEW q, q = QueueOf(c)
  PROVE  /\ q \in Seq(Call) /\ q # <<>> /\ Head(q) = c
         /\ queue' \in Seq(Call) /\ replaced' \subseteq Seq(Call) \ {<<>>}
         /\ Tail(q) # <<>> => Tail(q) \in {queue'} \cup replaced'
         /\ \A l \in {queue} \cup replaced : l # q => l \in {queue'} \cup replaced'
<1>1. \E l \in {queue} \cup replaced : l # <<>> /\ Head(l) = c
  BY DEF RecordInv, Heads
<1>2. q \in {queue} \cup replaced /\ q # <<>> /\ Head(q) = c
  BY <1>1, Zenon DEF QueueOf
<1>3. q \in Seq(Call) /\ Tail(q) \in Seq(Call)
  BY <1>2 DEF RecordInv, TypeOK
<1>4. queue \in Seq(Call) /\ replaced \subseteq Seq(Call) \ {<<>>}
  BY DEF RecordInv, TypeOK
<1>5. CASE q = queue /\ queue' = Tail(q) /\ replaced' = replaced
  BY <1>2, <1>3, <1>4, <1>5, Zenon
<1>6. CASE /\ q # queue /\ queue' = queue
           /\ replaced' = (replaced \ {q}) \cup ({Tail(q)} \ {<<>>})
  BY <1>2, <1>3, <1>4, <1>6, Zenon
<1> QED BY <1>2, <1>3, <1>5, <1>6 DEF Leave

LEMMA LeaveKeepsRecord ==
  ASSUME RecordInv, NEW c \in Call, pc[c] \in Serving, Leave(c),
         inside' \subseteq inside
  PROVE  RecordInv'
<1> DEFINE q == QueueOf(c)
<1> HIDE DEF q
<1>1. /\ q \in Seq(Call) /\ q # <<>> /\ Head(q) = c
      /\ queue' \in Seq(Call) /\ replaced' \subseteq Seq(Call) \ {<<>>}
      /\ Tail(q) # <<>> => Tail(q) \in {queue'} \cup replaced'
      /\ \A l \in {queue} \cup replaced : l # q => l \in {queue'} \cup replaced'
  BY LeaveLines DEF q
<1>2. UNCHANGED <<startedBuild, bucket, running, containerBuild, build,
                  starting, saw, faults>>
  BY DEF Leave
<1>3. c \in Handler
  BY DEF Handler
<1>4. CASE /\ Tail(q) = <<>> /\ pc' = [pc EXCEPT ![c] = "ended"]
           /\ active' = Cleared(c)
  <2>1. TypeOK'
    BY <1>1, <1>2, <1>3, <1>4 DEF RecordInv, TypeOK, Cleared, Gone
  <2>2. Heads'
    BY <1>1, <1>3, <1>4 DEF RecordInv, TypeOK, Heads, Serving, Handler
  <2>3. RecordIsOfAnExecution' /\ Saw'
    BY <1>2, <1>3, <1>4
    DEF RecordInv, TypeOK, RecordIsOfAnExecution, Saw, Cleared
  <2> QED BY <2>1, <2>2, <2>3 DEF RecordInv
<1>5. CASE /\ Tail(q) # <<>>
           /\ pc' = [pc EXCEPT ![c] = "ended", ![Head(Tail(q))] = "forwarding"]
           /\ active' = Head(Tail(q))
  <2> DEFINE n == Head(Tail(q))
  <2>1. n \in Call /\ n \in Handler /\ n # None
    BY <1>1, <1>5, PiAssumption DEF Handler
  <2> HIDE DEF n
  <2>2. pc' = [pc EXCEPT ![c] = "ended", ![n] = "forwarding"] /\ active' = n
    BY <1>5 DEF n
  <2>3. TypeOK'
    BY <1>1, <1>2, <1>3, <2>1, <2>2 DEF RecordInv, TypeOK, Gone
  <2>4. Heads'
    <3> SUFFICES ASSUME NEW d \in Call, pc'[d] \in Serving
                 PROVE  \E l \in {queue'} \cup replaced' : l # <<>> /\ Head(l) = d
      BY DEF Heads
    <3>1. CASE d = n
      BY <3>1, <1>1, <1>5 DEF n
    <3>2. CASE d # n
      <4>1. d # c /\ pc[d] \in Serving
        BY <1>3, <2>2, <2>1, <3>2 DEF RecordInv, TypeOK, Serving, Handler
      <4>2. PICK l \in {queue} \cup replaced : l # <<>> /\ Head(l) = d
        BY <4>1 DEF RecordInv, Heads
      <4>3. l # q
        BY <1>1, <4>1, <4>2
      <4> QED BY <1>1, <4>2, <4>3
    <3> QED BY <3>1, <3>2
  <2>5. RecordIsOfAnExecution' /\ Saw'
    BY <1>2, <1>3, <2>1, <2>2
    DEF RecordInv, TypeOK, RecordIsOfAnExecution, Saw
  <2> QED BY <2>3, <2>4, <2>5 DEF RecordInv
<1> QED BY <1>4, <1>5 DEF Leave, q
----------------------------------------------------------------------------
LEMMA RecordInvStep == RecordInv /\ [Next]_vars => RecordInv'
<1> SUFFICES ASSUME RecordInv, [Next]_vars PROVE RecordInv'
  OBVIOUS
<1>1. ASSUME NEW h \in Handler, Arrive(h) PROVE RecordInv'
  <2>1. PICK p \in {"destroying", "joining", "starting", "ended", "ready"} :
          pc' = [pc EXCEPT ![h] = p]
    BY <1>1, StartMoves DEF Arrive, RecordInv
  <2>2. /\ startedBuild' \in Build \cup {None}
        /\ running' \in BOOLEAN /\ containerBuild' \in Build \cup {None}
        /\ starting' \in BOOLEAN
    BY <1>1, StartMoves DEF Arrive, RecordInv, TypeOK
  <2>3. TypeOK'
    BY <1>1, <2>1, <2>2 DEF Arrive, RecordInv, TypeOK
  <2>4. pc[h] = "idle" /\ UNCHANGED <<lines, active, saw>>
    BY <1>1 DEF Arrive
  <2> QED BY <2>1, <2>3, <2>4, PlacesKeep DEF RecordInv, TypeOK, Serving
<1>2. ASSUME NEW h \in Handler, Started(h) PROVE RecordInv'
  <2>1. TypeOK'
    BY <1>2 DEF Started, RecordInv, TypeOK
  <2> QED BY <1>2, <2>1, PlacesKeep DEF Started, RecordInv, TypeOK, Serving
<1>3. ASSUME NEW o \in Other, ManualRestart(o) PROVE RecordInv'
  <2>1. o \in Handler
    BY DEF Handler
  <2>2. TypeOK'
    BY <1>3, <2>1 DEF ManualRestart, RecordInv, TypeOK
  <2> QED
    BY <1>3, <2>1, <2>2, PlacesKeep DEF ManualRestart, RecordInv, TypeOK, Serving
<1>4. ASSUME ContainerStops, faults' \in 0 .. MaxFaults PROVE RecordInv'
  <2>1. TypeOK'
    BY <1>4 DEF ContainerStops, RecordInv, TypeOK
  <2> QED
    BY <1>4, <2>1, PlacesKeep DEF ContainerStops, RecordInv, TypeOK, Serving
<1>5. ASSUME NEW c \in Call, Connect(c) \/ Expire(c) PROVE RecordInv'
  <2>1. c \in Handler
    BY DEF Handler
  <2>2. TypeOK'
    BY <1>5, <2>1 DEF Connect, Expire, RecordInv, TypeOK
  <2> QED
    BY <1>5, <2>1, <2>2, PlacesKeep
    DEF Connect, Expire, RecordInv, TypeOK, Serving
<1>6. ASSUME NEW c \in Call, GiveUp(c) \/ Answer(c) \/ Break(c) \/ TimedOut(c)
      PROVE  RecordInv'
  BY <1>6, LeaveKeepsRecord DEF GiveUp, Answer, Break, TimedOut, Serving
<1>7. ASSUME NEW c \in Call, EndUnawaited(c) PROVE RecordInv'
  <2>1. TypeOK'
    BY <1>7 DEF EndUnawaited, RecordInv, TypeOK
  <2> QED BY <1>7, <2>1, PlacesKeep DEF EndUnawaited
<1>8. CASE Reset
  <2>1. /\ \A h \in Handler :
             pc'[h] = IF pc[h] \in Gone \cup {"idle"} THEN pc[h] ELSE "lost"
        /\ active' = active /\ queue' = <<>> /\ replaced' = {}
    BY <1>8 DEF Reset
  <2>2. TypeOK'
    <3>1. queue' \in Seq(Call) /\ replaced' \subseteq Seq(Call) \ {<<>>}
      BY <2>1
    <3>2. pc' \in [Handler -> {"idle"} \cup Gone] /\ saw' \in [Handler -> {None}]
      BY <1>8 DEF Reset
    <3>3. faults' \in 0 .. MaxFaults
      BY <1>8, PiAssumption DEF Reset, RecordInv, TypeOK
    <3> QED BY <1>8, <3>1, <3>2, <3>3 DEF Reset, RecordInv, TypeOK
  <2>3. Heads' /\ Saw'
    BY <2>1 DEF Heads, Saw, Serving, Handler, Gone
  <2>4. RecordIsOfAnExecution'
    BY <2>1 DEF RecordInv, TypeOK, RecordIsOfAnExecution, Handler, Gone
  <2> QED BY <2>2, <2>3, <2>4 DEF RecordInv
<1>9. CASE UNCHANGED vars
  BY <1>9 DEF vars, RecordInv, TypeOK, Heads, RecordIsOfAnExecution, Saw
<1>10. /\ faults \in 0 .. MaxFaults
       /\ faults < MaxFaults => faults + 1 \in 0 .. MaxFaults
  BY PiAssumption DEF RecordInv, TypeOK
<1> QED
  BY <1>1, <1>2, <1>3, <1>4, <1>5, <1>6, <1>7, <1>8, <1>9, <1>10,
     ReplaceKeeps, CheckpointedKeeps, SubmitKeeps
  DEF Next, Restart, Execution, Destroyed, Crash

LEMMA RecordInvHolds == Spec => []RecordInv
BY RecordInvInit, RecordInvStep, PTL DEF Spec

\* Storage, the container, the queues and every request keep their types:
\* property TypeOK of PiContainer.
THEOREM PiTypeOK == Spec => []TypeOK
<1>1. RecordInv => TypeOK
  BY DEF RecordInv
<1> QED BY <1>1, RecordInvHolds, PTL

\* The record names an execution that is under way or was lost in a reset,
\* however restarts and queues overlap: property RecordIsOfAnExecution.
THEOREM PiRecord == Spec => []RecordIsOfAnExecution
<1>1. RecordInv => RecordIsOfAnExecution
  BY DEF RecordInv
<1> QED BY <1>1, RecordInvHolds, PTL

\* The record of a lost execution goes only for that of a later one, or after
\* the attempt to save its checkpoint: property LostRecordIsSaved.
THEOREM PiLostRecord == Spec => LostRecordIsSaved
<1>1. RecordInv /\ [Next]_vars =>
        \A c \in Call : active = c /\ pc[c] = "lost" /\ active' # c =>
          active' \in Call \/ c \in checkpoints' \cup unsaved'
  <2> SUFFICES ASSUME RecordInv, [Next]_vars, NEW c \in Call, active = c,
                      pc[c] = "lost", active' # c
               PROVE  active' \in Call \/ c \in checkpoints' \cup unsaved'
    OBVIOUS
  <2>1. c # None
    BY PiAssumption
  <2>2. ASSUME NEW h \in Handler, ReplaceQueue(h)
        PROVE  c \in unsaved'
    BY <2>1, <2>2 DEF ReplaceQueue
  <2>3. ASSUME NEW h \in Handler, Checkpointed(h)
        PROVE  c \in checkpoints' \cup unsaved'
    BY <2>1, <2>3 DEF Checkpointed, RecordInv, Saw
  <2>4. ASSUME NEW d \in Call, Submit(d) PROVE active' \in Call
    BY <2>4 DEF Submit
  <2>5. ASSUME NEW d \in Call, pc[d] \in Serving, Leave(d),
               NEW q, q = QueueOf(d)
        PROVE  active' \in Call
    <3>1. q \in Seq(Call)
      BY <2>5, LeaveLines
    <3>2. d # c
      BY <2>5 DEF Serving
    <3> QED BY <2>5, <3>1, <3>2 DEF Leave, Cleared
  <2>6. ASSUME NEW d \in Call, GiveUp(d) \/ Answer(d) \/ Break(d) \/ TimedOut(d)
        PROVE  active' \in Call
    BY <2>5, <2>6 DEF GiveUp, Answer, Break, TimedOut, Serving
  <2> QED
    BY <2>2, <2>3, <2>4, <2>6
    DEF Next, vars, Restart, Execution, Arrive, Started, ManualRestart,
        Destroyed, Crash, ContainerStops, Connect, Expire, EndUnawaited, Reset
<1> QED BY <1>1, RecordInvHolds, PTL DEF Spec, LostRecordIsSaved
----------------------------------------------------------------------------
(* The queues: each is served at its head, and no call is in two places *)

InLine(c) == pc[c] \in Serving \cup {"queued"}

LEMMA LinesInit == Init => LinesInOrder
BY DEF Init, LinesInOrder, Lines, Serving, Handler

\* A step that leaves the queues alone and takes no call in or out of them.
LEMMA LinesKeep ==
  ASSUME RecordInv, LinesInOrder, UNCHANGED lines,
         \A c \in Call :
           \/ pc'[c] = pc[c]
           \/ ~InLine(c) /\ ~InLine(c)'
           \/ pc[c] \in Serving /\ pc'[c] \in Serving
  PROVE  LinesInOrder'
<1>1. Lines' = Lines /\ queue' \notin replaced'
  BY DEF Lines, LinesInOrder
<1>2. ASSUME NEW q \in Lines, NEW i \in DOMAIN q PROVE q[i] \in Call /\ InLine(q[i])
  <2>1. q \in Seq(Call)
    BY DEF Lines, RecordInv, TypeOK
  <2>2. i = 1 \/ i > 1
    BY <2>1
  <2> QED BY <2>1, <2>2 DEF LinesInOrder, InLine
<1>3. \A q \in Lines : \A i \in DOMAIN q :
        (i = 1 => pc'[q[i]] \in Serving) /\ (i > 1 => pc'[q[i]] = "queued")
  BY <1>2 DEF LinesInOrder, Serving, InLine
<1>4. \A c \in Call : InLine(c)' => InLine(c)
  BY DEF InLine, Serving
<1> QED BY <1>1, <1>3, <1>4 DEF LinesInOrder, InLine

\* A restart sets the queue aside as it is.
LEMMA NewQueueKeeps ==
  ASSUME RecordInv, LinesInOrder, NewQueue,
         \A c \in Call : pc'[c] = pc[c] \/ ~(InLine(c) \/ InLine(c)')
  PROVE  LinesInOrder'
<1>1. queue' = <<>> /\ replaced' = replaced \cup ({queue} \ {<<>>})
  BY DEF NewQueue
<1>2. <<>> \notin replaced /\ replaced \subseteq Seq(Call) /\ queue \in Seq(Call)
  BY DEF RecordInv, TypeOK
<1>3. queue' \notin replaced'
  BY <1>1, <1>2
<1>4. \A q \in Lines' : q = <<>> \/ q \in Lines
  BY <1>1 DEF Lines
<1>5. \A q \in Lines : q = <<>> \/ q \in Lines'
  BY <1>1 DEF Lines
<1>6. ASSUME NEW q \in Lines, NEW i \in DOMAIN q
      PROVE  q[i] \in Call /\ InLine(q[i]) /\ q # <<>>
  <2>1. q \in Seq(Call)
    BY <1>2 DEF Lines
  <2>2. i = 1 \/ i > 1
    BY <2>1
  <2> QED BY <2>1, <2>2 DEF LinesInOrder, InLine
<1>7. DOMAIN <<>> = {}
  OBVIOUS
<1>8. \A q \in Lines' : \A i \in DOMAIN q :
        (i = 1 => pc'[q[i]] \in Serving) /\ (i > 1 => pc'[q[i]] = "queued")
  BY <1>4, <1>6, <1>7 DEF LinesInOrder
<1>9. \A q, r \in Lines' : \A i \in DOMAIN q, j \in DOMAIN r :
        q[i] = r[j] => q = r /\ i = j
  BY <1>4, <1>7 DEF LinesInOrder
<1>10. \A c \in Call : InLine(c)' => \E q \in Lines' : \E i \in DOMAIN q : q[i] = c
  <2> SUFFICES ASSUME NEW c \in Call, InLine(c)'
               PROVE  \E q \in Lines' : \E i \in DOMAIN q : q[i] = c
    OBVIOUS
  <2>1. InLine(c)
    BY DEF InLine
  <2>2. PICK q \in Lines : \E i \in DOMAIN q : q[i] = c
    BY <2>1 DEF LinesInOrder, InLine
  <2> QED BY <2>2, <1>5, <1>6
<1> QED BY <1>3, <1>8, <1>9, <1>10 DEF LinesInOrder, InLine

LEMMA LinesReplace ==
  ASSUME RecordInv, LinesInOrder, NEW h \in Handler, ReplaceQueue(h)
  PROVE  LinesInOrder'
<1>1. PICK p \in {"checkpointing", "joining", "starting", "ended"} :
        pc' = [pc EXCEPT ![h] = p]
  BY StartMoves DEF ReplaceQueue, DeleteAndStart, RecordInv
<1>2. pc[h] \notin Serving \cup {"queued"} /\ p \notin Serving \cup {"queued"}
  BY DEF ReplaceQueue, Serving
<1>3. \A c \in Call : pc'[c] = pc[c] \/ ~(InLine(c) \/ InLine(c)')
  BY <1>1, <1>2 DEF InLine, RecordInv, TypeOK, Handler
<1> QED BY <1>3, NewQueueKeeps DEF ReplaceQueue

\* A call goes to the end of the queue, and is served there if it is alone.
LEMMA LinesSubmit ==
  ASSUME RecordInv, LinesInOrder, NEW c \in Call, Submit(c)
  PROVE  LinesInOrder'
<1>1. pc[c] = "ready" /\ ~InLine(c) /\ c \in Handler /\ pc \in [Handler -> Place]
  BY DEF Submit, InLine, Serving, Handler, RecordInv, TypeOK, Place
<1>2. CASE pc' = [pc EXCEPT ![c] = "ended"] /\ UNCHANGED queue
  BY <1>1, <1>2, LinesKeep DEF Submit, InLine, Serving
<1>3. CASE /\ queue' = Append(queue, c)
           /\ pc' = [pc EXCEPT ![c] = IF queue = <<>> THEN "forwarding" ELSE "queued"]
  <2> DEFINE n == Len(queue)
  <2>1. queue \in Seq(Call) /\ n \in Nat /\ DOMAIN queue = 1 .. n /\ replaced' = replaced
          /\ replaced \subseteq Seq(Call) /\ (queue = <<>> <=> n = 0)
    BY DEF RecordInv, TypeOK, Submit
  <2>2. /\ DOMAIN queue' = 1 .. n + 1 /\ queue'[n + 1] = c
        /\ \A i \in 1 .. n : queue'[i] = queue[i]
    BY <1>3, <2>1
  <2> HIDE DEF n
  <2>3. \A q \in Lines : \A i \in DOMAIN q : q[i] \in Call /\ InLine(q[i]) /\ q[i] # c
    <3> SUFFICES ASSUME NEW q \in Lines, NEW i \in DOMAIN q
                 PROVE  q[i] \in Call /\ InLine(q[i]) /\ q[i] # c
      OBVIOUS
    <3>1. q \in Seq(Call)
      BY <2>1 DEF Lines
    <3>2. i = 1 \/ i > 1
      BY <3>1
    <3>3. q[i] \in Call /\ InLine(q[i])
      BY <3>1, <3>2 DEF LinesInOrder, InLine
    <3> QED BY <3>3, <1>1
  <2>4. queue' \notin replaced'
    <3>1. n + 1 \in DOMAIN queue'
      BY <2>1, <2>2
    <3> QED BY <3>1, <2>1, <2>2, <2>3 DEF Lines
  <2>5. Lines' = {queue'} \cup replaced /\ replaced \subseteq Lines /\ queue \in Lines
    BY <2>1 DEF Lines
  <2>6. \A d \in Call : d # c => pc'[d] = pc[d]
    BY <1>1, <1>3 DEF Handler
  <2>7. pc'[c] = IF n = 0 THEN "forwarding" ELSE "queued"
    BY <1>1, <1>3, <2>1
  <2>8. \A i \in 1 .. n + 1 : i = n + 1 \/ i \in 1 .. n
    BY <2>1
  <2>9. \A q \in Lines' : \A i \in DOMAIN q :
          (i = 1 => pc'[q[i]] \in Serving) /\ (i > 1 => pc'[q[i]] = "queued")
    <3>1. \A q \in replaced : \A i \in DOMAIN q :
            (i = 1 => pc'[q[i]] \in Serving) /\ (i > 1 => pc'[q[i]] = "queued")
      BY <2>3, <2>5, <2>6 DEF LinesInOrder
    <3>2. \A i \in 1 .. n :
            (i = 1 => pc'[queue'[i]] \in Serving) /\ (i > 1 => pc'[queue'[i]] = "queued")
      BY <2>1, <2>2, <2>3, <2>5, <2>6 DEF LinesInOrder
    <3>3. (n + 1 = 1 => pc'[c] \in Serving) /\ (n + 1 > 1 => pc'[c] = "queued")
      BY <2>1, <2>7 DEF Serving
    <3> QED BY <3>1, <3>2, <3>3, <2>2, <2>5, <2>8
  <2>10. \A q, r \in Lines' : \A i \in DOMAIN q, j \in DOMAIN r :
           q[i] = r[j] => q = r /\ i = j
    <3>1. \A r \in replaced : \A i \in DOMAIN queue', j \in DOMAIN r : queue'[i] # r[j]
      <4> SUFFICES ASSUME NEW r \in replaced, NEW i \in DOMAIN queue', NEW j \in DOMAIN r
                   PROVE  queue'[i] # r[j]
        OBVIOUS
      <4>1. CASE i = n + 1
        BY <4>1, <2>2, <2>3, <2>5
      <4>2. CASE i \in 1 .. n
        BY <4>2, <2>1, <2>2, <2>5 DEF LinesInOrder
      <4> QED BY <4>1, <4>2, <2>2, <2>8
    <3>2. \A i, j \in DOMAIN queue' : queue'[i] = queue'[j] => i = j
      <4> SUFFICES ASSUME NEW i \in 1 .. n + 1, NEW j \in 1 .. n + 1, queue'[i] = queue'[j]
                   PROVE  i = j
        BY <2>2
      <4>1. CASE i \in 1 .. n /\ j \in 1 .. n
        BY <4>1, <2>1, <2>2, <2>5 DEF LinesInOrder
      <4>2. CASE i = n + 1 \/ j = n + 1
        BY <4>2, <2>1, <2>2, <2>3, <2>5, <2>8
      <4> QED BY <4>1, <4>2, <2>8
    <3>3. \A q, r \in replaced : \A i \in DOMAIN q, j \in DOMAIN r :
            q[i] = r[j] => q = r /\ i = j
      BY <2>5 DEF LinesInOrder
    <3> QED BY <3>1, <3>2, <3>3, <2>5
  <2>11. \A d \in Call : InLine(d)' => \E q \in Lines' : \E i \in DOMAIN q : q[i] = d
    <3> SUFFICES ASSUME NEW d \in Call, InLine(d)'
                 PROVE  \E q \in Lines' : \E i \in DOMAIN q : q[i] = d
      OBVIOUS
    <3>1. CASE d = c
      <4>1. n + 1 \in DOMAIN queue'
        BY <2>1, <2>2
      <4> QED BY <3>1, <4>1, <2>2, <2>5
    <3>2. CASE d # c
      <4>1. InLine(d)
        BY <3>2, <2>6 DEF InLine
      <4>2. PICK q \in Lines : \E i \in DOMAIN q : q[i] = d
        BY <4>1 DEF LinesInOrder, InLine
      <4>3. CASE q = queue
        <5>1. PICK i \in 1 .. n : queue[i] = d
          BY <4>2, <4>3, <2>1
        <5>2. i \in DOMAIN queue' /\ queue'[i] = d
          BY <5>1, <2>1, <2>2
        <5> QED BY <5>2, <2>5
      <4>4. CASE q \in replaced
        BY <4>2, <4>4, <2>5
      <4> QED BY <4>3, <4>4 DEF Lines
    <3> QED BY <3>1, <3>2
  <2> QED BY <2>4, <2>9, <2>10, <2>11 DEF LinesInOrder, InLine
<1> QED BY <1>2, <1>3 DEF Submit

\* The first call of q leaves and the second, if there is one, is served.
LEMMA LinesLeave ==
  ASSUME RecordInv, LinesInOrder, NEW c \in Call, pc[c] \in Serving, Leave(c)
  PROVE  LinesInOrder'
<1> DEFINE q == QueueOf(c)
           t == Tail(q)
           n == Len(q)
<1>1. \E l \in Lines : l # <<>> /\ Head(l) = c
  BY DEF RecordInv, Heads, Lines
<1>2. q \in Lines /\ q # <<>> /\ Head(q) = c
  BY <1>1, Zenon DEF QueueOf, Lines
<1>3. Lines \subseteq Seq(Call) /\ <<>> \notin replaced
  BY DEF Lines, RecordInv, TypeOK
<1>4. /\ n \in Nat \ {0} /\ DOMAIN q = 1 .. n /\ q[1] = c /\ 1 \in 1 .. n
      /\ t \in Seq(Call) /\ DOMAIN t = 1 .. n - 1 /\ (t = <<>> <=> n = 1)
      /\ \A i \in 1 .. n - 1 : t[i] = q[i + 1] /\ i + 1 \in 1 .. n /\ i + 1 # 1
      /\ \A i \in 1 .. n : i = 1 \/ (i - 1 \in 1 .. n - 1 /\ (i - 1) + 1 = i)
  <2>1. q \in Seq(Call) /\ q # <<>>
    BY <1>2, <1>3
  <2> HIDE DEF q
  <2>2. /\ n \in Nat \ {0} /\ DOMAIN q = 1 .. n /\ 1 \in 1 .. n /\ q[1] = Head(q)
        /\ t \in Seq(Call) /\ Len(t) = n - 1
        /\ \A i \in 1 .. n - 1 : t[i] = q[i + 1]
    BY <2>1
  <2> HIDE DEF t, n
  <2>3. DOMAIN t = 1 .. n - 1 /\ (t = <<>> <=> n = 1)
    BY <2>2
  <2>4. /\ \A i \in 1 .. n - 1 : i + 1 \in 1 .. n /\ i + 1 # 1
        /\ \A i \in 1 .. n : i = 1 \/ (i - 1 \in 1 .. n - 1 /\ (i - 1) + 1 = i)
    BY <2>2
  <2> QED BY <1>2, <2>2, <2>3, <2>4
<1>5. \/ q = queue /\ queue' = t /\ replaced' = replaced
      \/ /\ q # queue /\ queue' = queue
         /\ replaced' = (replaced \ {q}) \cup ({t} \ {<<>>})
  BY DEF Leave
<1>6. pc' = IF t = <<>> THEN [pc EXCEPT ![c] = "ended"]
            ELSE [pc EXCEPT ![c] = "ended", ![Head(t)] = "forwarding"]
  BY DEF Leave
<1>7. t # <<>> => Head(t) = t[1] /\ 1 \in 1 .. n - 1
  BY <1>4
<1>8. ASSUME NEW l \in Lines, NEW i \in DOMAIN l
      PROVE  /\ l[i] \in Call /\ InLine(l[i]) /\ l # <<>>
             /\ l # q \/ i # 1 => l[i] # c
  <2>1. l \in Seq(Call)
    BY <1>3
  <2>2. i = 1 \/ i > 1
    BY <2>1
  <2>3. l[i] \in Call /\ InLine(l[i]) /\ l # <<>>
    BY <2>1, <2>2 DEF LinesInOrder, InLine
  <2>4. l[i] = q[1] => l = q /\ i = 1
    BY <1>2, <1>4 DEF LinesInOrder
  <2> QED BY <2>3, <2>4, <1>4
<1> HIDE DEF q, t, n
\* The rest of the queue was no queue before.
<1>9. t # <<>> => t \notin Lines
  <2> SUFFICES ASSUME t # <<>>, t \in Lines PROVE FALSE
    OBVIOUS
  <2>1. t[1] = q[1 + 1] /\ 1 \in DOMAIN t /\ 1 + 1 \in DOMAIN q
    BY <1>4, <1>7
  <2>2. 1 = 1 + 1
    BY <2>1, <1>2 DEF LinesInOrder
  <2> QED BY <2>2
<1>10. queue' \notin replaced'
  BY <1>3, <1>5, <1>9 DEF LinesInOrder, Lines
<1>11. \A l \in Lines' : l = <<>> \/ l = t \/ (l \in Lines /\ l # q)
  <2>1. queue \notin replaced
    BY DEF LinesInOrder
  <2> QED BY <1>5, <2>1 DEF Lines
<1>12. /\ t # <<>> => t \in Lines'
       /\ \A l \in Lines : l = q \/ l \in Lines'
  BY <1>5, Zenon DEF Lines
<1>13. /\ pc'[c] = "ended"
       /\ t # <<>> => t[1] \in Call /\ t[1] # c /\ pc'[t[1]] = "forwarding"
       /\ \A d \in Call : d # c /\ (t = <<>> \/ d # t[1]) => pc'[d] = pc[d]
  <2>1. c \in Handler /\ pc \in [Handler -> Place] /\ Call \subseteq Handler
    BY DEF Handler, RecordInv, TypeOK, Place
  <2>2. t # <<>> => t[1] \in Call /\ t[1] # c
    BY <1>2, <1>4, <1>7, <1>8
  <2>3. CASE t = <<>>
    BY <2>1, <2>3, <1>6
  <2>4. CASE t # <<>>
    <3> DEFINE d == t[1]
    <3>1. d \in Handler /\ d # c
      BY <2>1, <2>2, <2>4
    <3>2. pc' = [pc EXCEPT ![c] = "ended", ![d] = "forwarding"]
      BY <2>4, <1>6, <1>7
    <3> HIDE DEF d
    <3>3. pc'[c] = "ended" /\ pc'[d] = "forwarding"
            /\ \A e \in Handler : e # c /\ e # d => pc'[e] = pc[e]
      BY <2>1, <3>1, <3>2
    <3>4. \A e \in Call : e # c /\ e # d => pc'[e] = pc[e]
      BY <2>1, <3>3
    <3> QED BY <2>2, <2>4, <3>3, <3>4 DEF d
  <2> QED BY <2>3, <2>4
<1>14. DOMAIN <<>> = {}
  OBVIOUS
<1>15. ASSUME NEW l \in Lines', NEW i \in DOMAIN l
       PROVE  (i = 1 => pc'[l[i]] \in Serving) /\ (i > 1 => pc'[l[i]] = "queued")
  <2>1. CASE l = t
    <3>1. i \in 1 .. n - 1 /\ t[i] = q[i + 1] /\ i + 1 \in DOMAIN q /\ i \in Nat \ {0}
      BY <1>4, <2>1
    <3>2. i = 1 => pc'[t[i]] \in Serving
      BY <1>13, <1>14, <2>1 DEF Serving
    <3>3. ASSUME i > 1 PROVE pc'[t[i]] = "queued"
      <4>1. i + 1 > 1 /\ t # <<>> /\ 1 \in 1 .. n - 1
        BY <3>1, <3>3, <1>4
      <4>2. pc[t[i]] = "queued" /\ t[i] \in Call /\ t[i] # c
        BY <3>1, <4>1, <1>2, <1>8 DEF LinesInOrder
      <4>3. t[1] = q[1 + 1] /\ 1 + 1 \in DOMAIN q /\ i + 1 # 1 + 1
        BY <4>1, <3>1, <3>3, <1>4
      <4>4. t[i] # t[1]
        BY <4>3, <3>1, <1>2 DEF LinesInOrder
      <4> QED BY <4>2, <4>4, <1>13
    <3> QED BY <2>1, <3>2, <3>3
  <2>2. CASE l \in Lines /\ l # q
    <3>1. l[i] \in Call /\ l[i] # c
      BY <1>8, <2>2
    <3>2. t # <<>> => l[i] # t[1]
      <4> SUFFICES ASSUME t # <<>>, l[i] = t[1] PROVE FALSE
        OBVIOUS
      <4>1. t[1] = q[1 + 1] /\ 1 + 1 \in DOMAIN q
        BY <1>4, <1>7
      <4> QED BY <4>1, <2>2, <1>2 DEF LinesInOrder
    <3>3. pc'[l[i]] = pc[l[i]]
      BY <3>1, <3>2, <1>13
    <3> QED BY <2>2, <3>3 DEF LinesInOrder
  <2> QED BY <2>1, <2>2, <1>11, <1>14
\* Each place is one of the queues before, so no call has two.
<1>16. ASSUME NEW l \in Lines', NEW i \in DOMAIN l, NEW r \in Lines', NEW j \in DOMAIN r,
              l[i] = r[j]
       PROVE  l = r /\ i = j
  <2> USE <1>2
  <2>1. \A x, y \in Lines : \A k \in DOMAIN x, m \in DOMAIN y :
          x[k] = y[m] => x = y /\ k = m
    BY DEF LinesInOrder
  <2>2. l[i] = r[j]
    BY <1>16
  <2>3. CASE l = t /\ r = t
    <3>1. /\ l[i] = q[i + 1] /\ i + 1 \in DOMAIN q /\ i \in Nat
          /\ r[j] = q[j + 1] /\ j + 1 \in DOMAIN q /\ j \in Nat
      BY <2>3, <1>4
    <3>2. q[i + 1] = q[j + 1]
      BY <2>3, <2>2, <3>1, Zenon
    <3>3. i + 1 = j + 1
      BY <3>1, <3>2, <2>1, Zenon
    <3> QED BY <2>3, <3>1, <3>3
  <2>4. CASE l = t /\ r \in Lines /\ r # q
    <3>1. l[i] = q[i + 1] /\ i + 1 \in DOMAIN q
      BY <2>4, <1>4
    <3> QED BY <2>4, <3>1, <2>1, <2>2, Zenon
  <2>5. CASE r = t /\ l \in Lines /\ l # q
    <3>1. r[j] = q[j + 1] /\ j + 1 \in DOMAIN q
      BY <2>5, <1>4
    <3> QED BY <2>5, <3>1, <2>1, <2>2, Zenon
  <2>6. CASE l \in Lines /\ r \in Lines
    BY <2>6, <2>1, <2>2, Zenon
  <2> QED BY <2>3, <2>4, <2>5, <2>6, <1>11, <1>14
<1>17. ASSUME NEW d \in Call, InLine(d)'
       PROVE  \E l \in Lines' : \E i \in DOMAIN l : l[i] = d
  <2>1. CASE t # <<>> /\ d = t[1]
    BY <2>1, <1>4, <1>7, <1>12
  <2>2. CASE t = <<>> \/ d # t[1]
    <3>1. d # c
      BY <1>13, <1>17 DEF InLine, Serving
    <3>2. InLine(d)
      BY <2>2, <3>1, <1>13, <1>17 DEF InLine
    <3>3. PICK l \in Lines : \E i \in DOMAIN l : l[i] = d
      BY <3>2 DEF LinesInOrder, InLine
    <3>4. CASE l = q
      <4>1. PICK i \in 1 .. n : q[i] = d
        BY <3>3, <3>4, <1>4
      <4>2. i - 1 \in DOMAIN t /\ t[i - 1] = d
        BY <4>1, <3>1, <1>4
      <4>3. t # <<>>
        BY <4>2, <1>14
      <4> QED BY <4>2, <4>3, <1>12
    <3>5. CASE l # q
      BY <3>3, <3>5, <1>12
    <3> QED BY <3>4, <3>5
  <2> QED BY <2>1, <2>2
<1> QED BY <1>10, <1>15, <1>16, <1>17 DEF LinesInOrder, InLine

LEMMA LinesStep == RecordInv /\ LinesInOrder /\ [Next]_vars => LinesInOrder'
<1> SUFFICES ASSUME RecordInv, LinesInOrder, [Next]_vars PROVE LinesInOrder'
  OBVIOUS
<1>1. Call \subseteq Handler /\ pc \in [Handler -> Place]
  BY DEF Handler, RecordInv, TypeOK, Place
<1>2. ASSUME NEW h \in Handler, NEW p \in Place,
             pc' = [pc EXCEPT ![h] = p], UNCHANGED lines,
             \/ ~InLine(h) /\ p \notin Serving \cup {"queued"}
             \/ pc[h] \in Serving /\ p \in Serving
      PROVE  LinesInOrder'
  <2>1. \A c \in Call :
          \/ pc'[c] = pc[c]
          \/ ~InLine(c) /\ ~InLine(c)'
          \/ pc[c] \in Serving /\ pc'[c] \in Serving
    BY <1>1, <1>2 DEF InLine
  <2> QED BY <2>1, <1>2, LinesKeep
<1>3. ASSUME NEW h \in Handler, Arrive(h) PROVE LinesInOrder'
  <2>1. PICK p \in {"destroying", "joining", "starting", "ended", "ready"} :
          pc' = [pc EXCEPT ![h] = p]
    BY <1>3, StartMoves DEF Arrive, RecordInv
  <2>2. ~InLine(h) /\ UNCHANGED lines
    BY <1>3 DEF Arrive, InLine, Serving
  <2> QED BY <2>1, <2>2, <1>2 DEF Serving, Place
<1>4. ASSUME NEW h \in Handler, Checkpointed(h) PROVE LinesInOrder'
  <2>1. PICK p \in {"joining", "starting", "ended"} : pc' = [pc EXCEPT ![h] = p]
    BY <1>4, StartMoves DEF Checkpointed, DeleteAndStart, RecordInv
  <2>2. ~InLine(h) /\ UNCHANGED lines
    BY <1>4 DEF Checkpointed, InLine, Serving
  <2> QED BY <2>1, <2>2, <1>2 DEF Serving, Place
<1>5. ASSUME NEW h \in Handler, Started(h) PROVE LinesInOrder'
  <2>1. \A c \in Call : pc'[c] = pc[c] \/ ~(InLine(c) \/ InLine(c)')
    BY <1>1, <1>5 DEF Started, InLine, Serving
  <2> QED BY <2>1, <1>5, LinesKeep DEF Started
<1>6. ASSUME NEW o \in Other, ManualRestart(o) PROVE LinesInOrder'
  BY <1>6, <1>2 DEF ManualRestart, InLine, Serving, Place, Handler
<1>7. ASSUME ContainerStops PROVE LinesInOrder'
  <2>1. \A c \in Call : pc'[c] = pc[c] \/ ~(InLine(c) \/ InLine(c)')
    BY <1>1, <1>7 DEF ContainerStops, InLine, Serving
  <2> QED BY <2>1, <1>7, LinesKeep DEF ContainerStops
<1>8. ASSUME NEW c \in Call, Connect(c) \/ Expire(c) PROVE LinesInOrder'
  <2>1. PICK p \in {"inside", "timingOut"} : pc' = [pc EXCEPT ![c] = p]
    BY <1>8 DEF Connect, Expire
  <2>2. pc[c] \in Serving /\ UNCHANGED lines
    BY <1>8 DEF Connect, Expire, Serving
  <2> QED BY <2>1, <2>2, <1>1, <1>2 DEF Serving, Place
<1>9. ASSUME NEW c \in Call, GiveUp(c) \/ Answer(c) \/ Break(c) \/ TimedOut(c)
      PROVE  LinesInOrder'
  BY <1>9, LinesLeave DEF GiveUp, Answer, Break, TimedOut, Serving
<1>10. ASSUME NEW c \in Call, EndUnawaited(c) PROVE LinesInOrder'
  BY <1>10, LinesKeep DEF EndUnawaited
<1>11. CASE Reset
  <2>1. \A c \in Call : ~InLine(c)'
    BY <1>1, <1>11 DEF Reset, InLine, Serving
  <2>2. Lines' = {<<>>} /\ queue' \notin replaced'
    BY <1>11 DEF Reset, Lines
  <2>3. DOMAIN <<>> = {}
    OBVIOUS
  <2> QED BY <2>1, <2>2, <2>3 DEF LinesInOrder, InLine
<1>12. CASE UNCHANGED vars
  BY <1>12, LinesKeep DEF vars
<1> QED
  BY <1>3, <1>4, <1>5, <1>6, <1>7, <1>8, <1>9, <1>10, <1>11, <1>12,
     LinesReplace, LinesSubmit
  DEF Next, Restart, Execution, Destroyed, Crash

\* Through any number of restarts that replace the queue under the calls in
\* it, each queue serves its first call alone and no call is in two places:
\* property LinesInOrder.
THEOREM PiLinesInOrder == Spec => []LinesInOrder
BY LinesInit, LinesStep, RecordInvHolds, PTL DEF Spec

\* What the object does with its queue is what FifoServer allows, which
\* BoundedSerialQueue implements, until the queue is replaced as it is or
\* lost: property QueueIsFifoServer.
THEOREM PiQueueIsFifo == Spec => QueueIsFifoServer
<1>1. RecordInv /\ [Next]_vars =>
        [Line!Next \/ (queue' = <<>> /\ (queue \in replaced' \/ replaced' = {}))]_queue
  <2> SUFFICES ASSUME RecordInv, Next, queue' # queue
               PROVE  Line!Next \/ (queue' = <<>> /\ (queue \in replaced' \/ replaced' = {}))
    BY DEF vars
  <2>1. queue \in Seq(Call) /\ MaxQueued \in Nat
    BY PiAssumption DEF RecordInv, TypeOK
  <2>2. ASSUME NEW c \in Call, Submit(c) PROVE Line!Next
    <3>1. queue' = Append(queue, c) /\ Len(queue) < MaxQueued + 1
      BY <2>1, <2>2 DEF Submit
    <3> QED BY <3>1 DEF Line!Next, Line!Arrive
  <2>3. ASSUME NEW c \in Call, pc[c] \in Serving, Leave(c) PROVE Line!Next
    <3>1. QueueOf(c) # <<>>
      BY <2>3, LeaveLines
    <3>2. queue = QueueOf(c) /\ queue' = Tail(queue)
      BY <2>3 DEF Leave
    <3> QED BY <3>1, <3>2 DEF Line!Next, Line!Leave
  <2>4. ASSUME NEW c \in Call, GiveUp(c) \/ Answer(c) \/ Break(c) \/ TimedOut(c)
        PROVE  Line!Next
    BY <2>3, <2>4 DEF GiveUp, Answer, Break, TimedOut, Serving
  <2>5. ASSUME NEW h \in Handler, ReplaceQueue(h)
        PROVE  queue' = <<>> /\ queue \in replaced'
    BY <2>5, Zenon DEF ReplaceQueue, NewQueue
  <2>6. CASE Reset
    BY <2>6 DEF Reset
  <2> QED
    BY <2>2, <2>4, <2>5, <2>6
    DEF Next, Restart, Execution, Arrive, Started, Checkpointed, ManualRestart,
        Destroyed, Crash, ContainerStops, Connect, Expire, EndUnawaited
<1> QED BY <1>1, RecordInvHolds, PTL DEF Spec, QueueIsFifoServer
=============================================================================
