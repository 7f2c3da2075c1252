----------------------- MODULE BoundedSerialQueueProofs -----------------------
(***************************************************************************)
(* Proofs about BoundedSerialQueue, for any finite set of calls and any    *)
(* bound.  The argument is about promises, not about the counters: the     *)
(* promises resolved so far are an initial segment of those created, each  *)
(* accepted call has a promise of its own, and it runs only when its own   *)
(* is the next to be resolved.                                             *)
(***************************************************************************)
EXTENDS BoundedSerialQueue, FiniteSetTheorems, TLAPS

Accepted(c) == pc[c] \in {"awaiting", "running", "done"}

\* The types of the chain; the counters come later.
Typed ==
  /\ tail \in Nat
  /\ resolved \subseteq Nat
  /\ pc \in [Call -> {"idle", "refused", "awaiting", "running", "done"}]
  /\ previous \in [Call -> Nat]

\* The promises of different calls differ, and were created after 0.
OwnPromises ==
  /\ \A c \in Call : Accepted(c) => previous[c] < tail
  /\ \A c, d \in Call : Accepted(c) /\ Accepted(d) /\ previous[c] = previous[d] => c = d

\* A promise is resolved when all before it are, and its owner is done.
InOrder ==
  /\ 0 \in resolved
  /\ \A p \in resolved : \A q \in Nat : q <= p => q \in resolved
  /\ \A p \in resolved : p <= tail
  /\ \A c \in Call : pc[c] = "running" => previous[c] \in resolved
  /\ \A c \in Call : Accepted(c) => (pc[c] = "done" <=> previous[c] + 1 \in resolved)

ChainInv == Typed /\ OwnPromises /\ InOrder

\* The initial state and every step keep the chain in order.
LEMMA ChainInvariance == Spec => []ChainInv
<1>1. Init => ChainInv
  <2> SUFFICES ASSUME Init PROVE ChainInv
    OBVIOUS
  <2>1. Typed
    BY DEF Init, Typed
  <2>2. OwnPromises
    BY DEF Init, OwnPromises, Accepted
  <2>3. InOrder
    BY DEF Init, InOrder, Accepted
  <2> QED BY <2>1, <2>2, <2>3 DEF ChainInv
<1>2. ChainInv /\ [Next]_vars => ChainInv'
  <2> SUFFICES ASSUME ChainInv, [Next]_vars PROVE ChainInv'
    OBVIOUS
  <2> USE DEF ChainInv, Typed, OwnPromises, InOrder, Accepted
  <2>1. ASSUME NEW c \in Call, Refuse(c) PROVE ChainInv'
    BY <2>1 DEF Refuse
  <2>2. ASSUME NEW c \in Call, Enter(c) PROVE ChainInv'
    <3>1. Typed'
      BY <2>2 DEF Enter
    <3>2. OwnPromises'
      BY <2>2 DEF Enter
    <3>3. previous' = [previous EXCEPT ![c] = tail] /\ resolved' = resolved
          /\ tail' = tail + 1 /\ pc' = [pc EXCEPT ![c] = "awaiting"]
      BY <2>2 DEF Enter
    <3>4. tail + 1 \notin resolved
      OBVIOUS
    <3>5. /\ 0 \in resolved'
          /\ \A p \in resolved' : \A q \in Nat : q <= p => q \in resolved'
          /\ \A p \in resolved' : p <= tail'
      BY <3>3
    <3>6. \A e \in Call : pc'[e] = "running" => previous'[e] \in resolved'
      BY <3>3
    <3>7. \A e \in Call : Accepted(e)' => (pc'[e] = "done" <=> previous'[e] + 1 \in resolved')
      <4> TAKE e \in Call
      <4>1. CASE e = c
        BY <3>3, <3>4, <4>1
      <4>2. CASE e # c
        <5>1. pc'[e] = pc[e] /\ previous'[e] = previous[e]
          BY <3>3, <4>2
        <5> QED BY <3>3, <5>1
      <4> QED BY <4>1, <4>2
    <3>8. InOrder'
      BY <3>5, <3>6, <3>7
    <3> QED BY <3>1, <3>2, <3>8
  <2>3. ASSUME NEW c \in Call, StartTask(c) PROVE ChainInv'
    BY <2>3 DEF StartTask
  <2>4. ASSUME NEW c \in Call, EndTask(c) PROVE ChainInv'
    <3>1. /\ pc[c] = "running"
          /\ resolved' = resolved \cup {previous[c] + 1}
          /\ pc' = [pc EXCEPT ![c] = "done"]
          /\ tail' = tail /\ previous' = previous
      BY <2>4 DEF EndTask
    <3>2. previous[c] \in Nat
      OBVIOUS
    <3>3. Typed'
      <4>1. resolved' \subseteq Nat
        <5>1. resolved \subseteq Nat /\ {previous[c] + 1} \subseteq Nat
          BY <3>2
        <5> QED BY <3>1, <5>1, Zenon
      <4>2. tail' \in Nat /\ previous' \in [Call -> Nat]
        BY <3>1
      <4>3. pc' \in [Call -> {"idle", "refused", "awaiting", "running", "done"}]
        BY <3>1
      <4> QED BY <4>1, <4>2, <4>3
    <3>4. OwnPromises'
      BY <3>1
    <3>5. InOrder'
      BY <3>1, <3>2
    <3> QED BY <3>3, <3>4, <3>5
  <2>5. CASE UNCHANGED vars
    BY <2>5 DEF vars
  <2> QED BY <2>1, <2>2, <2>3, <2>4, <2>5 DEF Next
<1> QED BY <1>1, <1>2, PTL DEF Spec

\* The container executes one request at a time, whatever the number of
\* callers and the bound of the queue: property MutualExclusion.
THEOREM QueueMutualExclusion == Spec => []MutualExclusion
<1>1. ChainInv => MutualExclusion
  <2> SUFFICES ASSUME ChainInv, NEW c \in Call, NEW d \in Call,
                      pc[c] = "running", pc[d] = "running"
               PROVE  c = d
    BY DEF MutualExclusion
  <2>1. previous[c] \in resolved /\ previous[c] + 1 \notin resolved
    BY DEF ChainInv, InOrder, Accepted
  <2>2. previous[d] \in resolved /\ previous[d] + 1 \notin resolved
    BY DEF ChainInv, InOrder, Accepted
  <2>3. previous[c] \in Nat /\ previous[d] \in Nat
    BY DEF ChainInv, Typed
  <2>4. ~(previous[c] < previous[d]) /\ ~(previous[d] < previous[c])
    BY <2>1, <2>2, <2>3 DEF ChainInv, InOrder
  <2> QED BY <2>3, <2>4 DEF ChainInv, OwnPromises, Accepted
<1> QED BY <1>1, ChainInvariance, PTL
----------------------------------------------------------------------------
(* The counters.  They are kept apart from the chain; they agree with it   *)
(* because a call that finds them both at rest finds the chain at rest     *)
(* too: every promise has an owner, and all the owners are done.           *)

\* A call in service is the one whose turn the chain has come to.
Ready == \A c \in Call : InService(c) => previous[c] \in resolved

\* Every promise after the first was created by an accepted call.
Owned == \A p \in 1 .. tail : \E c \in Call : Accepted(c) /\ previous[c] + 1 = p

Counted ==
  /\ active \in BOOLEAN
  /\ queued \in [Call -> BOOLEAN]
  /\ waiting <= MaxQueued
  /\ CountersExact
  /\ Ready
  /\ Owned

\* The calls counted are finitely many.
LEMMA WaitingFinite == IsFiniteSet(Waiting) /\ Cardinality(Waiting) \in Nat
<1>1. Waiting \subseteq Call
  BY DEF Waiting
<1> QED BY <1>1, QueueAssumption, FS_Subset, FS_CardinalityType

\* One call is in service at a time.
LEMMA OneInService ==
  ASSUME ChainInv, Ready, NEW c \in Call, NEW d \in Call, InService(c), InService(d)
  PROVE  c = d
<1>1. previous[c] \in resolved /\ previous[c] + 1 \notin resolved
  BY DEF ChainInv, InOrder, Accepted, Ready, InService
<1>2. previous[d] \in resolved /\ previous[d] + 1 \notin resolved
  BY DEF ChainInv, InOrder, Accepted, Ready, InService
<1>3. previous[c] \in Nat /\ previous[d] \in Nat
  BY DEF ChainInv, Typed
<1>4. ~(previous[c] < previous[d]) /\ ~(previous[d] < previous[c])
  BY <1>1, <1>2, <1>3 DEF ChainInv, InOrder
<1> QED BY <1>3, <1>4 DEF ChainInv, OwnPromises, Accepted, InService

\* When both counters are at rest the newest promise is resolved.
LEMMA IdleIsIdle ==
  ASSUME ChainInv, Counted, ~Busy
  PROVE  tail \in resolved
<1>1. ~active /\ waiting = 0
  <2>1. Cardinality(Waiting) \in Nat
    BY WaitingFinite
  <2>2. waiting \in Nat
    BY <2>1 DEF Counted, CountersExact
  <2> QED BY <2>2 DEF Busy
<1>2. Waiting = {}
  BY <1>1, WaitingFinite, FS_EmptySet DEF Counted, CountersExact
<1>3. \A c \in Call : ~InService(c)
  BY <1>1 DEF Counted, CountersExact
<1>4. \A c \in Call : Accepted(c) => pc[c] = "done"
  BY <1>2, <1>3 DEF Accepted, InService, Waiting
<1>5. CASE tail = 0
  BY <1>5 DEF ChainInv, InOrder
<1>6. CASE tail # 0
  <2>1. tail \in 1 .. tail
    BY <1>6 DEF ChainInv, Typed
  <2>2. PICK c \in Call : Accepted(c) /\ previous[c] + 1 = tail
    BY <2>1 DEF Counted, Owned
  <2> QED BY <2>2, <1>4 DEF ChainInv, InOrder
<1> QED BY <1>5, <1>6

\* The call that finds the queue idle is served next; the one that finds it
\* busy is counted.
LEMMA EnterCounts ==
  ASSUME ChainInv, Counted, NEW c \in Call, Enter(c)
  PROVE  Counted'
<1>1. /\ pc[c] = "idle" /\ pc' = [pc EXCEPT ![c] = "awaiting"]
      /\ queued' = [queued EXCEPT ![c] = Busy]
      /\ previous' = [previous EXCEPT ![c] = tail]
      /\ tail' = tail + 1 /\ resolved' = resolved
      /\ ~(Busy /\ waiting >= MaxQueued)
  BY DEF Enter
<1>2. Busy \in BOOLEAN
  BY DEF Busy
<1>3. waiting \in Nat /\ MaxQueued \in Nat
  BY WaitingFinite, QueueAssumption DEF Counted, CountersExact
<1>4. queued' \in [Call -> BOOLEAN]
  BY <1>1, <1>2 DEF Counted
<1>5. /\ pc'[c] = "awaiting" /\ queued'[c] = Busy /\ previous'[c] = tail
      /\ \A d \in Call \ {c} :
           pc'[d] = pc[d] /\ queued'[d] = queued[d] /\ previous'[d] = previous[d]
  BY <1>1 DEF ChainInv, Typed, Counted
<1>6. \A d \in Call \ {c} : InService(d)' <=> InService(d)
  BY <1>5 DEF InService
<1>7. c \notin Waiting /\ ~InService(c)
  BY <1>1 DEF Waiting, InService
<1>8. Owned'
  <2> SUFFICES ASSUME NEW p \in 1 .. tail'
               PROVE  \E d \in Call : Accepted(d)' /\ previous'[d] + 1 = p
    BY DEF Owned
  <2>1. tail \in Nat
    BY DEF ChainInv, Typed
  <2>2. CASE p = tail + 1
    BY <2>2, <1>5 DEF Accepted
  <2>3. CASE p # tail + 1
    <3>1. p \in 1 .. tail
      BY <2>1, <2>3, <1>1
    <3>2. PICK d \in Call : Accepted(d) /\ previous[d] + 1 = p
      BY <3>1 DEF Counted, Owned
    <3>3. d # c
      BY <3>2, <1>1 DEF Accepted
    <3> QED BY <3>2, <3>3, <1>5 DEF Accepted
  <2> QED BY <2>2, <2>3
<1>9. CASE Busy
  <2>1. waiting' = waiting + 1 /\ active' = active
    BY <1>9 DEF Enter
  <2>2. Waiting' = Waiting \cup {c}
    BY <1>5, <1>9 DEF Waiting
  <2>3. Cardinality(Waiting') = Cardinality(Waiting) + 1
    BY <2>2, <1>7, WaitingFinite, FS_AddElement
  <2>4. ~InService(c)'
    BY <1>5, <1>9 DEF InService
  <2>5. (\E d \in Call : InService(d)') <=> \E d \in Call : InService(d)
    BY <1>6, <1>7, <2>4
  <2>6. CountersExact'
    BY <2>1, <2>3, <2>5 DEF CountersExact, Counted
  <2>7. Ready'
    BY <1>1, <1>5, <1>6, <2>4 DEF Ready, Counted
  <2>8. waiting' <= MaxQueued
    BY <1>1, <1>3, <1>9, <2>1
  <2> QED BY <1>4, <1>8, <2>1, <2>6, <2>7, <2>8 DEF Counted
<1>10. CASE ~Busy
  <2>1. waiting' = waiting /\ active' = TRUE
    BY <1>10 DEF Enter
  <2>2. Waiting' = Waiting
    BY <1>5, <1>7, <1>10 DEF Waiting
  <2>3. InService(c)'
    BY <1>5, <1>10 DEF InService
  <2>4. CountersExact'
    BY <2>1, <2>2, <2>3 DEF CountersExact, Counted
  <2>5. tail \in resolved
    BY <1>10, IdleIsIdle
  <2>6. Ready'
    BY <1>1, <1>5, <1>6, <2>5 DEF Ready, Counted
  <2> QED BY <1>4, <1>8, <2>1, <2>4, <2>6 DEF Counted
<1> QED BY <1>9, <1>10

\* A call whose turn has come leaves the waiting ones and is in service.
LEMMA StartCounts ==
  ASSUME ChainInv, Counted, NEW c \in Call, StartTask(c)
  PROVE  Counted'
<1>1. /\ pc[c] = "awaiting" /\ previous[c] \in resolved
      /\ pc' = [pc EXCEPT ![c] = "running"]
      /\ UNCHANGED <<tail, resolved, queued, previous>>
  BY DEF StartTask
<1>2. pc'[c] = "running" /\ \A d \in Call \ {c} : pc'[d] = pc[d]
  BY <1>1 DEF ChainInv, Typed
<1>3. \A d \in Call \ {c} : InService(d)' <=> InService(d)
  BY <1>1, <1>2 DEF InService
<1>4. InService(c)'
  BY <1>2 DEF InService
<1>5. Owned'
  BY <1>1, <1>2 DEF Owned, Counted, Accepted
<1>6. Ready'
  BY <1>1, <1>3 DEF Ready, Counted
<1>7. waiting \in Nat /\ MaxQueued \in Nat
  BY WaitingFinite, QueueAssumption DEF Counted, CountersExact
<1>8. CASE queued[c]
  <2>1. waiting' = waiting - 1 /\ active' = TRUE
    BY <1>8 DEF StartTask
  <2>2. c \in Waiting
    BY <1>1, <1>8 DEF Waiting
  <2>3. Waiting' = Waiting \ {c}
    BY <1>1, <1>2 DEF Waiting
  <2>4. Cardinality(Waiting') = Cardinality(Waiting) - 1
    BY <2>2, <2>3, WaitingFinite, FS_RemoveElement
  <2>5. CountersExact'
    BY <2>1, <2>4, <1>4 DEF CountersExact, Counted
  <2> QED BY <1>1, <1>5, <1>6, <1>7, <2>1, <2>5 DEF Counted
<1>9. CASE ~queued[c]
  <2>1. waiting' = waiting /\ active' = active
    BY <1>9 DEF StartTask
  <2>2. Waiting' = Waiting
    BY <1>1, <1>2, <1>9 DEF Waiting
  <2>3. InService(c)
    BY <1>1, <1>9 DEF InService
  <2>4. CountersExact'
    BY <2>1, <2>2, <2>3, <1>4 DEF CountersExact, Counted
  <2> QED BY <1>1, <1>5, <1>6, <2>1, <2>4 DEF Counted
<1> QED BY <1>8, <1>9

\* The call that ends was the only one in service.
LEMMA EndCounts ==
  ASSUME ChainInv, Counted, NEW c \in Call, EndTask(c)
  PROVE  Counted'
<1>1. /\ pc[c] = "running" /\ active' = FALSE
      /\ resolved' = resolved \cup {previous[c] + 1}
      /\ pc' = [pc EXCEPT ![c] = "done"]
      /\ UNCHANGED <<waiting, tail, queued, previous>>
  BY DEF EndTask
<1>2. pc'[c] = "done" /\ \A d \in Call \ {c} : pc'[d] = pc[d]
  BY <1>1 DEF ChainInv, Typed
<1>3. \A d \in Call \ {c} : ~InService(d)
  <2>1. InService(c)
    BY <1>1 DEF InService
  <2> QED BY <2>1, OneInService DEF Counted
<1>4. \A d \in Call : ~InService(d)'
  BY <1>1, <1>2, <1>3 DEF InService
<1>5. Waiting' = Waiting
  BY <1>1, <1>2 DEF Waiting
<1>6. CountersExact'
  BY <1>1, <1>4, <1>5 DEF CountersExact, Counted
<1>7. Ready'
  BY <1>4 DEF Ready
<1>8. Owned'
  BY <1>1, <1>2 DEF Owned, Counted, Accepted
<1> QED BY <1>1, <1>6, <1>7, <1>8 DEF Counted

LEMMA CountInvariance == Spec => []Counted
<1>1. Init => Counted
  <2> SUFFICES ASSUME Init PROVE Counted
    OBVIOUS
  <2>1. Waiting = {}
    BY DEF Init, Waiting
  <2>2. CountersExact
    BY <2>1, FS_EmptySet DEF Init, CountersExact, InService
  <2>3. Ready /\ Owned
    BY DEF Init, Ready, Owned, InService
  <2>4. active \in BOOLEAN /\ queued \in [Call -> BOOLEAN]
    BY DEF Init
  <2>5. waiting <= MaxQueued
    BY QueueAssumption DEF Init
  <2> QED BY <2>2, <2>3, <2>4, <2>5 DEF Counted
<1>2. ChainInv /\ Counted /\ [Next]_vars => Counted'
  <2> SUFFICES ASSUME ChainInv, Counted, [Next]_vars PROVE Counted'
    OBVIOUS
  <2>1. ASSUME NEW c \in Call, Refuse(c) PROVE Counted'
    <3>1. /\ pc[c] = "idle" /\ pc' = [pc EXCEPT ![c] = "refused"]
          /\ UNCHANGED <<active, waiting, tail, resolved, queued, previous>>
      BY <2>1 DEF Refuse
    <3>2. pc'[c] = "refused" /\ \A d \in Call \ {c} : pc'[d] = pc[d]
      BY <3>1 DEF ChainInv, Typed
    <3>3. Waiting' = Waiting
      BY <3>1, <3>2 DEF Waiting
    <3>4. \A d \in Call : InService(d)' <=> InService(d)
      BY <3>1, <3>2 DEF InService
    <3>5. \A d \in Call : Accepted(d)' <=> Accepted(d)
      BY <3>1, <3>2 DEF Accepted
    <3>6. CountersExact'
      BY <3>1, <3>3, <3>4 DEF CountersExact, Counted
    <3>7. Ready' /\ Owned'
      BY <3>1, <3>4, <3>5 DEF Ready, Owned, Counted
    <3> QED BY <3>1, <3>6, <3>7 DEF Counted
  <2>2. CASE UNCHANGED vars
    BY <2>2 DEF vars, Counted, CountersExact, Waiting, InService, Ready, Owned, Accepted
  <2> QED BY <2>1, <2>2, EnterCounts, StartCounts, EndCounts DEF Next
<1> QED BY <1>1, <1>2, ChainInvariance, PTL DEF Spec

\* The two counters by which the queue admits and refuses calls agree with
\* the chain of promises that orders them: property CountersExact.
THEOREM QueueCountersExact == Spec => []CountersExact
<1>1. Counted => CountersExact
  BY DEF Counted
<1> QED BY <1>1, CountInvariance, PTL

\* Every variable keeps its type, and never more than MaxQueued calls wait.
THEOREM QueueTypeOK == Spec => []TypeOK
<1>1. ChainInv /\ Counted => TypeOK
  <2> SUFFICES ASSUME ChainInv, Counted PROVE TypeOK
    OBVIOUS
  <2>1. waiting \in 0 .. MaxQueued
    BY WaitingFinite, QueueAssumption DEF Counted, CountersExact
  <2> QED BY <2>1 DEF ChainInv, Typed, Counted, TypeOK
<1> QED BY <1>1, ChainInvariance, CountInvariance, PTL
----------------------------------------------------------------------------
(* The refinement.  The promises resolved are 0 .. b for some b; the calls *)
(* in line own the promises b + 1 .. tail, one each, so that the call at   *)
(* place i of the line is the one that waits for promise b + i - 1.        *)

\* The promises are resolved without a gap, up to b.
UpTo(b) == resolved = 0 .. b /\ b <= tail

NoGap == \E b \in Nat : UpTo(b)

\* The line, with the places spelled out.
Lined(b) ==
  /\ UpTo(b)
  /\ lineOfCalls \in Seq(InLine)
  /\ Len(lineOfCalls) = tail - b
  /\ \A i \in 1 .. tail - b : previous[lineOfCalls[i]] = b + i - 1

LineKept == \E b \in Nat : Lined(b)

LEMMA NoGapInvariance == Spec => []NoGap
<1>1. Init => NoGap
  <2> SUFFICES ASSUME Init PROVE NoGap
    OBVIOUS
  <2>1. UpTo(0)
    BY DEF Init, UpTo
  <2> QED BY <2>1 DEF NoGap
<1>2. ChainInv /\ NoGap /\ [Next]_vars => NoGap'
  <2> SUFFICES ASSUME ChainInv, NoGap, [Next]_vars PROVE NoGap'
    OBVIOUS
  <2>1. PICK b \in Nat : UpTo(b)
    BY DEF NoGap
  <2>2. tail \in Nat
    BY DEF ChainInv, Typed
  <2>3. ASSUME NEW c \in Call, EndTask(c) PROVE NoGap'
    <3>1. previous[c] \in resolved /\ previous[c] + 1 \notin resolved /\ previous[c] < tail
      BY <2>3 DEF EndTask, ChainInv, InOrder, OwnPromises, Accepted
    <3>2. previous[c] \in Nat
      BY DEF ChainInv, Typed
    <3>3. previous[c] = b
      BY <2>1, <3>1, <3>2 DEF UpTo
    <3>4. resolved' = 0 .. (b + 1) /\ tail' = tail
      BY <2>1, <2>3, <3>3 DEF EndTask, UpTo
    <3>5. UpTo(b + 1)'
      BY <3>1, <3>3, <3>4, <2>2 DEF UpTo
    <3> QED BY <3>5 DEF NoGap
  <2>4. ASSUME resolved' = resolved, tail' \in {tail, tail + 1} PROVE NoGap'
    <3>1. UpTo(b)'
      BY <2>1, <2>2, <2>4 DEF UpTo
    <3> QED BY <3>1 DEF NoGap
  <2>5. ASSUME NEW c \in Call, Refuse(c) \/ Enter(c) \/ StartTask(c)
        PROVE  resolved' = resolved /\ tail' \in {tail, tail + 1}
    BY <2>5 DEF Refuse, Enter, StartTask
  <2>6. CASE UNCHANGED vars
    BY <2>4, <2>6 DEF vars
  <2> QED BY <2>3, <2>4, <2>5, <2>6 DEF Next
<1> QED BY <1>1, <1>2, ChainInvariance, PTL DEF Spec

\* The calls in line are the accepted ones whose promise is not resolved.
LEMMA InLineIs ==
  ASSUME ChainInv, NEW b \in Nat, UpTo(b)
  PROVE  /\ \A c \in InLine : c \in Call /\ Accepted(c) /\ previous[c] \in b .. tail - 1
         /\ \A c \in Call : Accepted(c) /\ previous[c] >= b => c \in InLine
<1>1. \A c \in Call : previous[c] \in Nat
  BY DEF ChainInv, Typed
<1>2. tail \in Nat
  BY DEF ChainInv, Typed
<1>3. \A c \in Call : Accepted(c) => (pc[c] = "done" <=> previous[c] + 1 \in 0 .. b)
  BY DEF ChainInv, InOrder, UpTo
<1>4. \A c \in Call : Accepted(c) => (c \in InLine <=> previous[c] >= b)
  BY <1>1, <1>3 DEF InLine, Accepted
<1>5. \A c \in Call : Accepted(c) => previous[c] < tail
  BY DEF ChainInv, OwnPromises
<1>6. \A c \in InLine : c \in Call /\ Accepted(c)
  BY DEF InLine, Accepted
<1> QED BY <1>1, <1>2, <1>4, <1>5, <1>6

\* Each of the promises b + 1 .. n is owned by one call in line.
LEMMA Segment ==
  ASSUME ChainInv, Owned, NEW b \in Nat, UpTo(b), NEW n \in b .. tail
  PROVE  Cardinality({d \in InLine : previous[d] < n}) = n - b
<1> DEFINE S == {d \in InLine : previous[d] < n}
           f == [d \in S |-> previous[d]]
           T == b .. n - 1
<1>1. tail \in Nat /\ n \in Nat /\ b <= n /\ n <= tail
  BY DEF ChainInv, Typed
<1>2. \A d \in S : d \in Call /\ Accepted(d) /\ previous[d] \in T
  <2> SUFFICES ASSUME NEW d \in S PROVE d \in Call /\ Accepted(d) /\ previous[d] \in T
    OBVIOUS
  <2>1. d \in Call /\ Accepted(d) /\ previous[d] \in b .. tail - 1
    BY InLineIs
  <2> QED BY <1>1, <2>1
<1>3. \A d, e \in S : previous[d] = previous[e] => d = e
  BY <1>2 DEF ChainInv, OwnPromises
<1>4. \A p \in T : \E d \in S : previous[d] = p
  <2> SUFFICES ASSUME NEW p \in T PROVE \E d \in S : previous[d] = p
    OBVIOUS
  <2>1. p + 1 \in 1 .. tail /\ p \in Nat /\ p >= b /\ p < n
    BY <1>1
  <2>2. PICK d \in Call : Accepted(d) /\ previous[d] + 1 = p + 1
    BY <2>1 DEF Owned
  <2>3. previous[d] = p
    BY <2>1, <2>2 DEF ChainInv, Typed
  <2>4. d \in InLine
    BY <2>1, <2>2, <2>3, InLineIs
  <2> QED BY <2>1, <2>3, <2>4
<1>5. f \in Bijection(S, T)
  <2>1. f \in [S -> T]
    BY <1>2
  <2>2. \A d, e \in S : f[d] = f[e] => d = e
    BY <1>3
  <2>3. \A p \in T : \E d \in S : f[d] = p
    BY <1>4
  <2> QED BY <2>1, <2>2, <2>3, Zenon DEF Bijection, Injection, Surjection, IsInjective
<1>6. S \subseteq Call
  BY <1>2
<1>7. IsFiniteSet(S)
  BY <1>6, QueueAssumption, FS_Subset
<1>8. Cardinality(T) = Cardinality(S)
  <2>1. ExistsBijection(S, T)
    BY <1>5 DEF ExistsBijection
  <2> HIDE DEF S, T
  <2> QED BY <1>7, <2>1, FS_Bijection
<1>9. Cardinality(T) = n - b
  <2>1. Cardinality(T) = IF b > n - 1 THEN 0 ELSE (n - 1) - b + 1
    BY <1>1, FS_Interval
  <2> QED BY <1>1, <2>1
<1> QED BY <1>8, <1>9

\* The line is what its name says.
LEMMA LineIs == ChainInv /\ Owned /\ NoGap => LineKept
<1> SUFFICES ASSUME ChainInv, Owned, NoGap PROVE LineKept
  OBVIOUS
<1>1. PICK b \in Nat : UpTo(b)
  BY DEF NoGap
<1>2. tail \in Nat /\ b <= tail
  BY <1>1 DEF ChainInv, Typed, UpTo
<1>3. Cardinality(InLine) = tail - b
  <2>1. {d \in InLine : previous[d] < tail} = InLine
    BY <1>1, <1>2, InLineIs
  <2>2. tail \in b .. tail
    BY <1>2
  <2>3. Cardinality({d \in InLine : previous[d] < tail}) = tail - b
    BY <1>1, <2>2, Segment
  <2> QED BY <2>1, <2>3
<1>4. \A c \in InLine : Place(c) = previous[c] - b + 1
  <2> SUFFICES ASSUME NEW c \in InLine PROVE Place(c) = previous[c] - b + 1
    OBVIOUS
  <2>1. previous[c] \in b .. tail - 1
    BY <1>1, InLineIs
  <2>2. previous[c] + 1 \in b .. tail /\ previous[c] \in Nat
    BY <1>2, <2>1
  <2>3. {d \in InLine : previous[d] < previous[c] + 1} = {d \in InLine : previous[d] <= previous[c]}
    BY <1>1, <1>2, <2>2, InLineIs
  <2>4. Cardinality({d \in InLine : previous[d] < previous[c] + 1}) = previous[c] + 1 - b
    BY <1>1, <2>2, Segment
  <2>5. Place(c) = previous[c] + 1 - b
    BY <2>3, <2>4 DEF Place
  <2> QED BY <2>2, <2>5
<1>5. \A i \in 1 .. tail - b : \E c \in InLine : Place(c) = i
  <2> SUFFICES ASSUME NEW i \in 1 .. tail - b PROVE \E c \in InLine : Place(c) = i
    OBVIOUS
  <2>1. b + i \in 1 .. tail /\ i \in Nat /\ i >= 1
    BY <1>2
  <2>2. PICK c \in Call : Accepted(c) /\ previous[c] + 1 = b + i
    BY <2>1 DEF Owned
  <2>3. previous[c] \in Nat
    BY DEF ChainInv, Typed
  <2>4. previous[c] >= b
    BY <2>1, <2>2, <2>3
  <2>5. c \in InLine
    BY <1>1, <2>2, <2>4, InLineIs
  <2> QED BY <1>4, <2>1, <2>2, <2>3, <2>5
<1>6. lineOfCalls = [i \in 1 .. tail - b |-> CHOOSE c \in InLine : Place(c) = i]
  BY <1>3 DEF lineOfCalls
<1>7. \A i \in 1 .. tail - b : lineOfCalls[i] \in InLine /\ Place(lineOfCalls[i]) = i
  BY <1>5, <1>6
<1>8. lineOfCalls \in Seq(InLine) /\ Len(lineOfCalls) = tail - b
  BY <1>2, <1>6, <1>7
<1>9. \A i \in 1 .. tail - b : previous[lineOfCalls[i]] = b + i - 1
  <2> SUFFICES ASSUME NEW i \in 1 .. tail - b PROVE previous[lineOfCalls[i]] = b + i - 1
    OBVIOUS
  <2>1. lineOfCalls[i] \in InLine /\ Place(lineOfCalls[i]) = i
    BY <1>7
  <2>2. previous[lineOfCalls[i]] \in b .. tail - 1
    BY <1>1, <2>1, InLineIs
  <2>3. previous[lineOfCalls[i]] - b + 1 = i
    BY <1>4, <2>1
  <2> QED BY <1>2, <2>2, <2>3
<1>10. Lined(b)
  BY <1>1, <1>8, <1>9 DEF Lined
<1> QED BY <1>10 DEF LineKept

\* A call is admitted only when fewer than the one in service and MaxQueued
\* others are in line.
LEMMA RoomInLine ==
  ASSUME ChainInv, Counted, NEW b \in Nat, UpTo(b), NEW c \in Call, Enter(c)
  PROVE  tail - b < MaxQueued + 1
<1>1. tail \in Nat /\ b <= tail /\ MaxQueued \in Nat
  BY QueueAssumption DEF ChainInv, Typed, UpTo
<1>2. waiting \in Nat /\ waiting = Cardinality(Waiting)
  BY WaitingFinite DEF Counted, CountersExact
<1>3. CASE ~Busy
  <2>1. tail \in resolved
    BY <1>3, IdleIsIdle
  <2> QED BY <1>1, <2>1 DEF UpTo
<1>4. CASE Busy
  <2>1. waiting < MaxQueued
    BY <1>1, <1>2, <1>4 DEF Enter
  <2>2. Cardinality(InLine) = tail - b
    <3>1. {d \in InLine : previous[d] < tail} = InLine
      BY <1>1, InLineIs
    <3>2. tail \in b .. tail
      BY <1>1
    <3>3. Cardinality({d \in InLine : previous[d] < tail}) = tail - b
      BY <3>2, Segment DEF Counted
    <3> QED BY <3>1, <3>3
  <2>3. Cardinality(InLine) <= Cardinality(Waiting) + 1
    <3>1. CASE \E d \in Call : InService(d)
      <4>1. PICK d \in Call : InService(d)
        BY <3>1
      <4>2. InLine \subseteq Waiting \cup {d}
        BY <4>1, OneInService DEF Counted, InLine, Waiting, InService
      <4>3. IsFiniteSet(Waiting \cup {d})
            /\ Cardinality(Waiting \cup {d}) <= Cardinality(Waiting) + 1
        <5>1. Cardinality(Waiting) \in Nat
          BY WaitingFinite
        <5>2. /\ IsFiniteSet(Waiting \cup {d})
              /\ \/ Cardinality(Waiting \cup {d}) = Cardinality(Waiting)
                 \/ Cardinality(Waiting \cup {d}) = Cardinality(Waiting) + 1
          BY WaitingFinite, FS_AddElement, Zenon
        <5> QED BY <5>1, <5>2
      <4>4. Cardinality(InLine) <= Cardinality(Waiting \cup {d})
        BY <4>2, <4>3, FS_Subset
      <4>5. Cardinality(InLine) \in Nat /\ Cardinality(Waiting \cup {d}) \in Nat
        BY <4>2, <4>3, FS_Subset, FS_CardinalityType
      <4> QED BY <4>3, <4>4, <4>5, WaitingFinite
    <3>2. CASE ~\E d \in Call : InService(d)
      <4>1. InLine = Waiting
        BY <3>2 DEF InLine, Waiting, InService
      <4> QED BY <4>1, WaitingFinite
    <3> QED BY <3>1, <3>2
  <2> QED BY <1>1, <1>2, <2>1, <2>2, <2>3
<1> QED BY <1>3, <1>4

\* Two sequences that are equal at every place are equal.
LEMMA SameSequence ==
  ASSUME NEW S, NEW T, NEW s \in Seq(S), NEW t \in Seq(T), Len(s) = Len(t),
         \A i \in 1 .. Len(s) : s[i] = t[i]
  PROVE  s = t
OBVIOUS

\* The places of a line that was joined at its end.
LEMMA AppendPlaces ==
  ASSUME NEW S, NEW s \in Seq(S), NEW e \in S
  PROVE  /\ Append(s, e)[Len(s) + 1] = e
         /\ \A i \in 1 .. Len(s) : Append(s, e)[i] = s[i]
OBVIOUS

\* Entering is joining the line at its end.
LEMMA EnterArrives ==
  ASSUME ChainInv, ChainInv', Counted, LineKept, LineKept', NEW c \in Call, Enter(c)
  PROVE  Server!Arrive(c)
<1>1. PICK b \in Nat : Lined(b)
  BY DEF LineKept
<1>2. PICK a \in Nat : Lined(a)'
  BY DEF LineKept
<1>3. /\ pc[c] = "idle" /\ pc' = [pc EXCEPT ![c] = "awaiting"]
      /\ previous' = [previous EXCEPT ![c] = tail]
      /\ tail' = tail + 1 /\ resolved' = resolved
  BY DEF Enter
<1>4. tail \in Nat /\ b <= tail
  BY <1>1 DEF ChainInv, Typed, Lined, UpTo
<1>5. a = b
  <2>1. 0 .. a = 0 .. b
    BY <1>1, <1>2, <1>3 DEF Lined, UpTo
  <2>2. a \in 0 .. a /\ b \in 0 .. b
    OBVIOUS
  <2> QED BY <2>1, <2>2
<1> DEFINE s == lineOfCalls
           t == lineOfCalls'
           AcceptedNext(d) == pc'[d] \in {"awaiting", "running", "done"}
<1>6. s \in Seq(InLine) /\ Len(s) = tail - b
      /\ \A i \in 1 .. tail - b : previous[s[i]] = b + i - 1
  BY <1>1 DEF Lined
<1>7. t \in Seq(InLine') /\ Len(t) = tail' - b
      /\ \A i \in 1 .. tail' - b : previous'[t[i]] = b + i - 1
  <2>1. Lined(b)'
    BY <1>2, <1>5
  <2> QED BY <2>1 DEF Lined
<1>8. /\ previous'[c] = tail /\ AcceptedNext(c)
      /\ \A d \in Call \ {c} : previous'[d] = previous[d]
      /\ \A d \in Call \ {c} : AcceptedNext(d) <=> Accepted(d)
  BY <1>3 DEF ChainInv, Typed, Accepted
<1>9. \A d \in InLine : d \in Call /\ d # c /\ Accepted(d)
  BY <1>3 DEF InLine, Accepted
<1>10. \A d \in InLine' : d \in Call /\ AcceptedNext(d)
  BY DEF InLine, Accepted
<1>11. \A d, e \in Call : AcceptedNext(d) /\ AcceptedNext(e) /\ previous'[d] = previous'[e] => d = e
  BY DEF ChainInv, OwnPromises, Accepted
<1> HIDE DEF s, t, AcceptedNext
<1>12. s \in Seq(Call) /\ t \in Seq(Call)
  BY <1>6, <1>7, <1>9, <1>10
<1>13. \A i \in 1 .. Len(t) : t[i] = Append(s, c)[i]
  <2> SUFFICES ASSUME NEW i \in 1 .. Len(t) PROVE t[i] = Append(s, c)[i]
    OBVIOUS
  <2>1. i \in 1 .. tail' - b /\ i \in 1 .. tail + 1 - b
    <3>1. i \in 1 .. tail' - b
      BY <1>7
    <3>2. tail' = tail + 1
      BY <1>3
    <3> QED BY <1>4, <3>1, <3>2
  <2>2. t[i] \in Call /\ AcceptedNext(t[i]) /\ previous'[t[i]] = b + i - 1
    <3>1. t[i] \in InLine'
      BY <1>7
    <3> QED BY <1>7, <1>10, <2>1, <3>1
  <2>3. CASE i = tail + 1 - b
    <3>1. previous'[t[i]] = tail
      BY <1>4, <2>2, <2>3
    <3>2. t[i] = c
      BY <1>8, <1>11, <2>2, <3>1
    <3>3. Append(s, c)[Len(s) + 1] = c
      BY <1>12, AppendPlaces
    <3>4. i = Len(s) + 1
      BY <1>4, <1>6, <2>3
    <3> QED BY <3>2, <3>3, <3>4
  <2>4. CASE i # tail + 1 - b
    <3>1. i \in 1 .. tail - b
      BY <1>4, <2>1, <2>4
    <3>2. s[i] \in InLine /\ previous[s[i]] = b + i - 1
      BY <1>6, <3>1
    <3>3. s[i] \in Call /\ AcceptedNext(s[i]) /\ previous'[s[i]] = b + i - 1
      BY <1>8, <1>9, <3>2
    <3>4. t[i] = s[i]
      BY <1>11, <2>2, <3>3
    <3>5. i \in 1 .. Len(s)
      BY <1>6, <3>1
    <3>6. Append(s, c)[i] = s[i]
      BY <1>12, <3>5, AppendPlaces
    <3> QED BY <3>4, <3>6
  <2> QED BY <2>3, <2>4
<1>14. t = Append(s, c)
  <2>2. Append(s, c) \in Seq(Call) /\ Len(Append(s, c)) = Len(s) + 1
    BY <1>12
  <2>3. Len(t) = Len(Append(s, c))
    BY <1>3, <1>4, <1>6, <1>7, <2>2
  <2> QED BY <1>13, <1>12, <2>2, <2>3, SameSequence
<1>15. Len(s) < MaxQueued + 1
  BY <1>1, <1>6, RoomInLine DEF Lined
<1> QED BY <1>14, <1>15 DEF Server!Arrive, s, t

\* The end of a task is its call leaving the head of the line.
LEMMA EndLeaves ==
  ASSUME ChainInv, ChainInv', LineKept, LineKept', NEW c \in Call, EndTask(c)
  PROVE  Server!Leave
<1>1. PICK b \in Nat : Lined(b)
  BY DEF LineKept
<1>2. PICK a \in Nat : Lined(a)'
  BY DEF LineKept
<1>3. /\ pc[c] = "running" /\ pc' = [pc EXCEPT ![c] = "done"]
      /\ resolved' = resolved \cup {previous[c] + 1}
      /\ tail' = tail /\ previous' = previous
  BY DEF EndTask
<1>4. previous[c] \in resolved /\ previous[c] + 1 \notin resolved
      /\ previous[c] \in Nat /\ previous[c] < tail /\ tail \in Nat
  BY <1>3 DEF ChainInv, InOrder, OwnPromises, Typed, Accepted
<1>5. previous[c] = b /\ b < tail
  BY <1>1, <1>4 DEF Lined, UpTo
<1>6. a = b + 1
  <2>1. 0 .. a = (0 .. b) \cup {b + 1}
    BY <1>1, <1>2, <1>3, <1>5 DEF Lined, UpTo
  <2>2. a \in 0 .. a /\ b + 1 \in 0 .. a
    BY <2>1
  <2>3. a \in 0 .. b \/ a = b + 1
    BY <2>1, <2>2
  <2> QED BY <2>2, <2>3
<1> DEFINE s == lineOfCalls
           t == lineOfCalls'
<1>7. s \in Seq(InLine) /\ Len(s) = tail - b
      /\ \A i \in 1 .. tail - b : previous[s[i]] = b + i - 1
  BY <1>1 DEF Lined
<1>8. t \in Seq(InLine') /\ Len(t) = tail - (b + 1)
      /\ \A i \in 1 .. tail - (b + 1) : previous[t[i]] = (b + 1) + i - 1
  BY <1>2, <1>3, <1>6 DEF Lined
<1>9. \A d \in InLine : d \in Call /\ Accepted(d)
  BY DEF InLine, Accepted
<1>10. \A d \in InLine' : d \in Call /\ Accepted(d)
  BY <1>3 DEF ChainInv, Typed, InLine, Accepted
<1>11. \A d, e \in Call : Accepted(d) /\ Accepted(e) /\ previous[d] = previous[e] => d = e
  BY DEF ChainInv, OwnPromises
<1> HIDE DEF s, t
<1>12. s \in Seq(Call) /\ t \in Seq(Call)
  BY <1>7, <1>8, <1>9, <1>10
<1>13. s # <<>>
  BY <1>5, <1>7, <1>4
<1>14. Tail(s) \in Seq(Call) /\ Len(Tail(s)) = Len(s) - 1
       /\ \A i \in 1 .. Len(s) - 1 : Tail(s)[i] = s[i + 1]
  BY <1>12, <1>13
<1>15. \A i \in 1 .. Len(t) : t[i] = Tail(s)[i]
  <2> SUFFICES ASSUME NEW i \in 1 .. Len(t) PROVE t[i] = Tail(s)[i]
    OBVIOUS
  <2>1. i \in 1 .. tail - (b + 1) /\ i + 1 \in 1 .. tail - b /\ i \in 1 .. Len(s) - 1
    BY <1>4, <1>5, <1>7, <1>8
  <2>2. t[i] \in Call /\ Accepted(t[i]) /\ previous[t[i]] = (b + 1) + i - 1
    <3>1. t[i] \in InLine'
      BY <1>8
    <3> QED BY <1>8, <1>10, <2>1, <3>1
  <2>3. s[i + 1] \in Call /\ Accepted(s[i + 1]) /\ previous[s[i + 1]] = b + (i + 1) - 1
    <3>1. s[i + 1] \in InLine
      BY <1>7, <2>1
    <3> QED BY <1>7, <1>9, <2>1, <3>1
  <2>4. previous[t[i]] = previous[s[i + 1]]
    BY <2>2, <2>3
  <2>5. t[i] = s[i + 1]
    BY <1>11, <2>2, <2>3, <2>4
  <2> QED BY <1>14, <2>1, <2>5
<1>16. t = Tail(s)
  <2>1. Len(t) = Len(Tail(s))
    BY <1>4, <1>5, <1>7, <1>8, <1>14
  <2> QED BY <1>12, <1>14, <1>15, <2>1, SameSequence
<1> QED BY <1>13, <1>16 DEF Server!Leave, s, t

\* The chain of promises and the counters implement a bounded first-come
\* first-served line, for any number of calls and any bound: accepted calls
\* are served in the order they came, none twice, and with one in service
\* at most MaxQueued stand behind it.  Property ImplementsFifoServer.
THEOREM QueueImplementsFifo == Spec => ImplementsFifoServer
<1>1. Init => Server!Init
  <2> SUFFICES ASSUME Init PROVE lineOfCalls = <<>>
    BY DEF Server!Init
  <2>1. InLine = {}
    BY DEF Init, InLine
  <2>2. Cardinality(InLine) = 0
    BY <2>1, FS_EmptySet
  <2> QED BY <2>2 DEF lineOfCalls
<1>2. ChainInv /\ ChainInv' /\ Counted /\ LineKept /\ LineKept' /\ [Next]_vars
        => [Server!Next]_lineOfCalls
  <2> SUFFICES ASSUME ChainInv, ChainInv', Counted, LineKept, LineKept', [Next]_vars
               PROVE  [Server!Next]_lineOfCalls
    OBVIOUS
  <2>1. ASSUME InLine' = InLine, previous' = previous PROVE lineOfCalls' = lineOfCalls
    <3>1. \A c : Place(c)' = Place(c)
      BY <2>1 DEF Place
    <3> QED BY <2>1, <3>1 DEF lineOfCalls
  <2>2. ASSUME NEW c \in Call, Refuse(c) PROVE lineOfCalls' = lineOfCalls
    BY <2>1, <2>2 DEF Refuse, InLine, ChainInv, Typed
  <2>3. ASSUME NEW c \in Call, Enter(c) PROVE Server!Next
    BY <2>3, EnterArrives DEF Server!Next
  <2>4. ASSUME NEW c \in Call, StartTask(c) PROVE lineOfCalls' = lineOfCalls
    BY <2>1, <2>4 DEF StartTask, InLine, ChainInv, Typed
  <2>5. ASSUME NEW c \in Call, EndTask(c) PROVE Server!Next
    BY <2>5, EndLeaves DEF Server!Next
  <2>6. CASE UNCHANGED vars
    BY <2>1, <2>6 DEF vars, InLine
  <2> QED BY <2>2, <2>3, <2>4, <2>5, <2>6 DEF Next
<1>3. ChainInv /\ Counted /\ NoGap => LineKept
  BY LineIs DEF Counted
<1> QED BY <1>1, <1>2, <1>3, ChainInvariance, CountInvariance, NoGapInvariance, PTL
        DEF Spec, ImplementsFifoServer, Server!Spec
=============================================================================
