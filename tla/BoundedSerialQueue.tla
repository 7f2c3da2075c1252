-------------------------- MODULE BoundedSerialQueue --------------------------
(***************************************************************************)
(* coordinator/pi-container-backpressure.ts: BoundedSerialQueue, which     *)
(* puts the executions of the singleton PI container one after the other.  *)
(* The queue holds no list: a call waits for the promise its predecessor   *)
(* left in tail, and two counters, kept apart from the chain, decide who   *)
(* is queued and who is refused.  Calls interleave at their two awaits, of *)
(* the predecessor's promise and of their task; in between a call runs     *)
(* without interruption.  That this is the bounded line of FifoServer is   *)
(* proved in BoundedSerialQueueProofs.                                     *)
(*                                                                         *)
(* A promise is the number of its creation: 0 is Promise.resolve().        *)
(***************************************************************************)
EXTENDS Integers, FiniteSets, Sequences

CONSTANTS Call, MaxQueued

ASSUME QueueAssumption == MaxQueued \in Nat /\ IsFiniteSet(Call)

VARIABLES
  active, waiting,  \* the two counters
  tail,             \* the newest promise
  resolved,         \* the promises that are resolved
  pc,               \* where each call is
  queued, previous  \* its locals

vars == <<active, waiting, tail, resolved, pc, queued, previous>>

\* Chain and calls keep their types, and at most MaxQueued calls wait.
TypeOK ==
  /\ active \in BOOLEAN
  /\ waiting \in 0 .. MaxQueued
  /\ tail \in Nat
  /\ resolved \subseteq Nat
  /\ pc \in [Call -> {"idle", "refused", "awaiting", "running", "done"}]
  /\ queued \in [Call -> BOOLEAN]
  /\ previous \in [Call -> Nat]

Init ==
  /\ active = FALSE /\ waiting = 0
  /\ tail = 0 /\ resolved = {0}
  /\ pc = [c \in Call |-> "idle"]
  /\ queued = [c \in Call |-> FALSE]
  /\ previous = [c \in Call |-> 0]

\* Mutant: between the end of a task and the start of the next the queue
\* passes for idle.
Busy_ActiveOnly == active

\* run: whether the call finds the queue busy.
Busy == active \/ waiting > 0

Refuse(c) ==
  /\ pc[c] = "idle"
  /\ Busy /\ waiting >= MaxQueued
  /\ pc' = [pc EXCEPT ![c] = "refused"]
  /\ UNCHANGED <<active, waiting, tail, resolved, queued, previous>>

\* Up to the await of the predecessor's promise.
Enter(c) ==
  /\ pc[c] = "idle"
  /\ ~(Busy /\ waiting >= MaxQueued)
  /\ queued' = [queued EXCEPT ![c] = Busy]
  /\ IF Busy THEN waiting' = waiting + 1 /\ UNCHANGED active
             ELSE active' = TRUE /\ UNCHANGED waiting
  /\ previous' = [previous EXCEPT ![c] = tail]
  /\ tail' = tail + 1
  /\ pc' = [pc EXCEPT ![c] = "awaiting"]
  /\ UNCHANGED resolved

\* Mutant: the call does not await its predecessor.
StartTask_AtOnce(c) ==
  /\ pc[c] = "awaiting"
  /\ IF queued[c] THEN waiting' = waiting - 1 /\ active' = TRUE
                  ELSE UNCHANGED <<active, waiting>>
  /\ pc' = [pc EXCEPT ![c] = "running"]
  /\ UNCHANGED <<tail, resolved, queued, previous>>

\* The predecessor's promise is resolved: up to the await of the task.
StartTask(c) ==
  /\ pc[c] = "awaiting"
  /\ previous[c] \in resolved
  /\ IF queued[c] THEN waiting' = waiting - 1 /\ active' = TRUE
                  ELSE UNCHANGED <<active, waiting>>
  /\ pc' = [pc EXCEPT ![c] = "running"]
  /\ UNCHANGED <<tail, resolved, queued, previous>>

\* Mutant: release only when the task gave a value, not in a finally block.
EndTask_ReleaseOnValue(c) ==
  /\ pc[c] = "running"
  /\ active' = FALSE
  /\ resolved' \in {resolved, resolved \cup {previous[c] + 1}}
  /\ pc' = [pc EXCEPT ![c] = "done"]
  /\ UNCHANGED <<waiting, tail, queued, previous>>

\* The task settles, with a value or an error: the finally block.  The
\* promise released is the one created after the predecessor's.
EndTask(c) ==
  /\ pc[c] = "running"
  /\ active' = FALSE
  /\ resolved' = resolved \cup {previous[c] + 1}
  /\ pc' = [pc EXCEPT ![c] = "done"]
  /\ UNCHANGED <<waiting, tail, queued, previous>>

Next == \E c \in Call : Refuse(c) \/ Enter(c) \/ StartTask(c) \/ EndTask(c)

Spec == Init /\ [][Next]_vars

\* Resolved promises are followed up; a task ends (withTaskTimeout settles
\* it after twelve minutes at the latest).
FairSpec == Spec /\ \A c \in Call : WF_vars(StartTask(c)) /\ WF_vars(EndTask(c))
----------------------------------------------------------------------------
(* Properties *)

\* One task of the queue runs at a time.  (A task also ends when its timeout
\* does; the request it forwarded may go on in the container.)
MutualExclusion == \A c, d \in Call : pc[c] = "running" /\ pc[d] = "running" => c = d

\* The counters by which calls are queued and refused agree with the chain
\* of promises that really orders them, also between the end of one task
\* and the start of the next.
Waiting == {c \in Call : pc[c] = "awaiting" /\ queued[c]}
InService(c) == pc[c] = "running" \/ (pc[c] = "awaiting" /\ ~queued[c])

CountersExact ==
  /\ waiting = Cardinality(Waiting)
  /\ active <=> \E c \in Call : InService(c)

\* The calls that were accepted and have not returned, in the order of the
\* promises they wait for.
InLine   == {c \in Call : pc[c] \in {"awaiting", "running"}}
Place(c) == Cardinality({d \in InLine : previous[d] <= previous[c]})

lineOfCalls ==
  [i \in 1 .. Cardinality(InLine) |-> CHOOSE c \in InLine : Place(c) = i]

Server == INSTANCE FifoServer WITH Capacity <- MaxQueued + 1, line <- lineOfCalls

\* The promise chain and the counters implement a bounded first-come
\* first-served line: nobody is overtaken, and no more than MaxQueued
\* calls stand behind the one in service.
ImplementsFifoServer == Server!Spec

\* An accepted call has its turn and returns, whatever the tasks before it
\* end in.
EveryCallServed == \A c \in Call : pc[c] = "awaiting" ~> pc[c] = "done"
=============================================================================
