---------------------------- MODULE AgentQueueProofs ----------------------------
(***************************************************************************)
(* The properties of AgentQueue for any number of processes, requests and  *)
(* crashes.                                                                *)
(***************************************************************************)
EXTENDS AgentQueue, FiniteSetTheorems, TLAPS

\* Where a request of todo is at hand, and where job is.
Heading == {"examining", "reclaiming", "writing"}
Working == {"preflight", "coding", "committing", "verifying", "publishing",
            "completing", "recording"}
Busy    == {"checking", "appending", "beating", "renewing", "rewriting"}
             \cup Working

AtHand ==
  \A p \in Process :
    /\ pc[p] \in Heading => todo[p] # <<>>
    /\ pc[p] \in Busy => job[p] \in Request

MemoryInv == MemoryOK /\ AtHand

TypeInv == FilesOK /\ MemoryInv

USE DEF files, ghosts, memory
----------------------------------------------------------------------------
(* Types *)

LEMMA QuitKeeps ==
  ASSUME MemoryInv, NEW p \in Process, Quit(p)
  PROVE  MemoryInv'
<1>1. MemoryOK'
  BY DEF MemoryInv, MemoryOK, Quit, Goto, Place, Status
<1>2. AtHand'
  BY DEF MemoryInv, MemoryOK, AtHand, Quit, Goto, Heading, Busy, Working
<1> QED BY <1>1, <1>2 DEF MemoryInv

LEMMA MoveKeeps ==
  ASSUME MemoryInv, NEW p \in Process, NEW l \in Place, Move(p, l),
         l \in Heading => todo[p] # <<>>,
         l \in Busy => job[p] \in Request
  PROVE  MemoryInv'
BY DEF MemoryInv, MemoryOK, AtHand, Move, Goto

\* Of the steps that write more of the memory, one per kind.
LEMMA SkipKeeps ==
  ASSUME MemoryInv, NEW p \in Process, todo[p] # <<>>, Skip(p)
  PROVE  MemoryInv'
BY DEF MemoryInv, MemoryOK, AtHand, Skip, Goto, Place, Heading, Busy, Working

LEMMA RememberKeeps ==
  ASSUME MemoryInv, NEW p \in Process, NEW l \in {"polling", "claiming"}, Goto(p, l),
         NEW D \in SUBSET Request, done' = [done EXCEPT ![p] = D],
         UNCHANGED <<cmd, todo, job, dirty, work, outcome>>
  PROVE  MemoryInv'
<1>1. MemoryOK'
  BY DEF MemoryInv, MemoryOK, Goto, Place
<1>2. AtHand'
  BY DEF MemoryInv, MemoryOK, AtHand, Goto, Heading, Busy, Working
<1> QED BY <1>1, <1>2 DEF MemoryInv

LEMMA StageKeeps ==
  ASSUME MemoryInv, NEW p \in Process, pc[p] \in Working,
         NEW l \in Working, NEW s \in Status,
         Goes(p, l) \/ Ends(p, s),
         dirty' \in [Process -> SUBSET Request],
         work' \in [Process -> SUBSET Request],
         UNCHANGED <<cmd, todo, done, job>>
  PROVE  MemoryInv'
<1>1. PICK k \in Working : pc' = [pc EXCEPT ![p] = k]
  BY DEF Goes, Ends, Goto, Working
<1>2. outcome' \in [Process -> Status]
  BY DEF MemoryInv, MemoryOK, Goes, Ends
<1>3. pc' \in [Process -> Place]
  BY <1>1 DEF MemoryInv, MemoryOK, Working, Place
<1>4. MemoryOK'
  BY <1>2, <1>3 DEF MemoryInv, MemoryOK
<1>5. AtHand'
  <2>1. job[p] \in Request
    BY DEF MemoryInv, AtHand, Busy
  <2>2. k \notin Heading
    BY DEF Working, Heading
  <2> QED BY <1>1, <2>1, <2>2 DEF MemoryInv, MemoryOK, AtHand
<1> QED BY <1>4, <1>5 DEF MemoryInv

LEMMA MemoryStep == ASSUME TypeInv, [Next]_vars PROVE MemoryInv'
<1> USE DEF TypeInv
<1>1. ASSUME NEW p \in Process, NEW c \in Command, NEW r \in Request,
             Start(p, c, r)
      PROVE  MemoryInv'
  BY <1>1, QueueAssumption
  DEF Start, MemoryInv, MemoryOK, AtHand, Goto, Place, Heading, Busy, Working
<1>2. ASSUME NEW p \in Process, Check(p) \/ AppendRequest(p) PROVE MemoryInv'
  <2>1. job[p] \in Request
    BY <1>2 DEF Check, AppendRequest, MemoryInv, AtHand, Busy
  <2>2. Quit(p) \/ Move(p, "appending") \/ Move(p, "polling")
    BY <1>2 DEF Check, AppendRequest
  <2> QED BY <2>1, <2>2, QuitKeeps, MoveKeeps DEF Place, Heading, Busy, Working
<1>3. ASSUME NEW p \in Process, ClaimNext(p) PROVE MemoryInv'
  <2>1. CASE ListRequests(p)
    <3>1. /\ todo' = [todo EXCEPT ![p] = requests] /\ requests \in Seq(Request)
          /\ pc' = [pc EXCEPT ![p] = "listing"]
          /\ UNCHANGED <<cmd, done, job, dirty, work, outcome>>
      BY <2>1 DEF ListRequests, FilesOK, Goto
    <3>2. MemoryOK'
      BY <3>1 DEF MemoryInv, MemoryOK, Place
    <3>3. AtHand'
      BY <3>1 DEF MemoryInv, MemoryOK, AtHand, Heading, Busy, Working
    <3> QED BY <3>2, <3>3 DEF MemoryInv
  <2>2. CASE ListResults(p)
    <3>1. CASE Quit(p)
      BY <3>1, QuitKeeps
    <3>2. CASE ~Quit(p)
      <4>1. {r \in Request : Recorded(r)} \in SUBSET Request
        OBVIOUS
      <4> QED BY <2>2, <3>2, <4>1, RememberKeeps DEF ListResults
    <3> QED BY <3>1, <3>2
  <2>3. CASE NothingToClaim(p)
    <3>1. CASE Quit(p)
      BY <3>1, QuitKeeps
    <3>2. CASE ~Quit(p)
      <4>1. {} \in SUBSET Request
        OBVIOUS
      <4> QED BY <2>3, <3>2, <4>1, RememberKeeps DEF NothingToClaim
    <3> QED BY <3>1, <3>2
  <2>4. CASE SkipCompleted(p)
    BY <2>4, SkipKeeps DEF SkipCompleted
  <2>5. CASE CreateClaim(p)
    <3>1. todo[p] # <<>> /\ (Move(p, "writing") \/ Move(p, "examining"))
      BY <2>5 DEF CreateClaim
    <3> QED BY <3>1, MoveKeeps DEF Place, Heading, Busy, Working
  <2>6. CASE ExamineClaim(p)
    <3>1. todo[p] # <<>>
      BY <2>6 DEF ExamineClaim, MemoryInv, AtHand, Heading
    <3>2. Quit(p) \/ Move(p, "reclaiming") \/ Skip(p)
      BY <2>6 DEF ExamineClaim
    <3> QED BY <3>1, <3>2, QuitKeeps, MoveKeeps, SkipKeeps
            DEF Place, Heading, Busy, Working
  <2>7. CASE Reclaim(p)
    <3>1. todo[p] # <<>> /\ Move(p, "writing")
      BY <2>7 DEF Reclaim, MemoryInv, AtHand, Heading
    <3> QED BY <3>1, MoveKeeps DEF Place, Heading, Busy, Working
  <2>8. CASE WriteClaim(p)
    <3>1. CASE Quit(p)
      BY <3>1, QuitKeeps
    <3>2. CASE ~Quit(p)
      <4>1. todo[p] # <<>>
        BY <2>8 DEF WriteClaim, MemoryInv, AtHand, Heading
      <4>2. Head(todo[p]) \in Request
        BY <4>1 DEF MemoryInv, MemoryOK
      <4>3. /\ pc' = [pc EXCEPT ![p] = "beating"]
            /\ job' = [job EXCEPT ![p] = Head(todo[p])]
            /\ todo' = [todo EXCEPT ![p] = <<>>]
            /\ done' = [done EXCEPT ![p] = {}]
            /\ UNCHANGED <<cmd, dirty, work, outcome>>
        BY <2>8, <3>2 DEF WriteClaim, Goto
      <4> QED BY <4>2, <4>3 DEF MemoryInv, MemoryOK, AtHand, Place, Heading, Busy,
                                Working
    <3> QED BY <3>1, <3>2
  <2> QED BY <1>3, <2>1, <2>2, <2>3, <2>4, <2>5, <2>6, <2>7, <2>8 DEF ClaimNext
<1>4. ASSUME NEW p \in Process, SendHeartbeat(p) PROVE MemoryInv'
  <2>1. job[p] \in Request
    BY <1>4 DEF SendHeartbeat, ReadForHeartbeat, Heartbeat, WriteHeartbeat,
                MemoryInv, AtHand, Busy
  <2>2. Quit(p) \/ \E l \in {"renewing", "rewriting", "preflight"} : Move(p, l)
    BY <1>4 DEF SendHeartbeat, ReadForHeartbeat, Heartbeat, WriteHeartbeat
  <2> QED BY <2>1, <2>2, QuitKeeps, MoveKeeps DEF Place, Heading, Busy, Working
<1>5. ASSUME NEW p \in Process, RunClaimed(p) PROVE MemoryInv'
  <2>1. job[p] \in Request
    BY <1>5 DEF RunClaimed, Preflight, RunCodex, CommitWork, Verify, Publish,
                CreateResult, WriteResult, MemoryInv, AtHand, Busy, Working
  <2>2. CASE Preflight(p) \/ Verify(p) \/ Publish(p)
    BY <2>2, StageKeeps DEF Preflight, Verify, Publish, Working, Status, MemoryInv,
                            MemoryOK
  <2>3. CASE RunCodex(p)
    <3>1. dirty' \in [Process -> SUBSET Request]
      BY <2>1, <2>3 DEF RunCodex, MemoryInv, MemoryOK
    <3> QED BY <2>3, <3>1, StageKeeps DEF RunCodex, Working, Status, MemoryInv,
                                          MemoryOK
  <2>4. CASE CommitWork(p)
    <3>1. /\ dirty' \in [Process -> SUBSET Request]
          /\ work' \in [Process -> SUBSET Request]
      BY <2>4 DEF CommitWork, MemoryInv, MemoryOK
    <3> QED BY <2>4, <3>1, StageKeeps DEF CommitWork, Working, Status
  <2>5. CASE CreateResult(p)
    <3>1. Quit(p) \/ Move(p, "recording")
      BY <2>5 DEF CreateResult
    <3> QED BY <2>1, <3>1, QuitKeeps, MoveKeeps DEF Place, Heading, Busy, Working
  <2>6. CASE WriteResult(p)
    <3>1. CASE Quit(p)
      BY <3>1, QuitKeeps
    <3>2. CASE ~Quit(p)
      BY <2>6, <3>2 DEF WriteResult, MemoryInv, MemoryOK, AtHand, Goto, Place,
                        Status, Heading, Busy, Working
    <3> QED BY <3>1, <3>2
  <2> QED BY <1>5, <2>2, <2>3, <2>4, <2>5, <2>6 DEF RunClaimed
<1>6. ASSUME NEW p \in Process, StopDaemon(p) \/ Crash(p) PROVE MemoryInv'
  BY <1>6, QuitKeeps DEF StopDaemon, Crash
<1>7. CASE UNCHANGED <<pc, memory>>
  BY <1>7 DEF MemoryInv, MemoryOK, AtHand
<1> QED BY <1>1, <1>2, <1>3, <1>4, <1>5, <1>6, <1>7
        DEF Next, Step, LeaseRunsOut, vars

LEMMA FilesStep == ASSUME TypeInv, [Next]_vars PROVE FilesOK'
<1> USE DEF TypeInv, FilesOK
<1>1. CASE UNCHANGED <<files, ghosts, pulls, crashes>>
  BY <1>1
<1>2. ASSUME NEW p \in Process, NEW c \in Command, NEW r \in Request,
             Start(p, c, r)
      PROVE  FilesOK'
  BY <1>1, <1>2 DEF Start
<1>3. ASSUME NEW p \in Process, Check(p) \/ AppendRequest(p) PROVE FilesOK'
  <2>1. CASE Check(p)
    BY <1>1, <2>1 DEF Check
  <2>2. CASE AppendRequest(p)
    <3>1. job[p] \in Request
      BY <2>2 DEF AppendRequest, MemoryInv, AtHand, Busy
    <3> QED BY <2>2, <3>1 DEF AppendRequest
  <2> QED BY <1>3, <2>1, <2>2
<1>4. ASSUME NEW p \in Process, ClaimNext(p) PROVE FilesOK'
  <2>1. CASE ListRequests(p) \/ ListResults(p) \/ NothingToClaim(p)
               \/ SkipCompleted(p) \/ ExamineClaim(p)
    BY <1>1, <2>1 DEF ListRequests, ListResults, NothingToClaim, SkipCompleted,
                      ExamineClaim
  <2>2. CASE CreateClaim(p)
    BY <2>2 DEF CreateClaim
  <2>3. CASE Reclaim(p)
    BY <2>3 DEF Reclaim
  <2>4. CASE WriteClaim(p)
    BY <2>4 DEF WriteClaim, Written
  <2> QED BY <1>4, <2>1, <2>2, <2>3, <2>4 DEF ClaimNext
<1>5. ASSUME NEW p \in Process, SendHeartbeat(p) PROVE FilesOK'
  <2>1. CASE ReadForHeartbeat(p)
    BY <1>1, <2>1 DEF ReadForHeartbeat
  <2>2. CASE Heartbeat(p) \/ WriteHeartbeat(p)
    BY <2>2 DEF Heartbeat, WriteHeartbeat, Written
  <2> QED BY <1>5, <2>1, <2>2 DEF SendHeartbeat
<1>6. ASSUME NEW p \in Process, RunClaimed(p) PROVE FilesOK'
  <2>1. CASE Preflight(p) \/ RunCodex(p) \/ CommitWork(p) \/ Verify(p)
    BY <1>1, <2>1 DEF Preflight, RunCodex, CommitWork, Verify
  <2>2. CASE Publish(p)
    <3>1. job[p] \in Request
      BY <2>2 DEF Publish, MemoryInv, AtHand, Busy, Working
    <3>2. PullOf(p) \in Pull
      BY <3>1 DEF PullOf, Pull, MemoryInv, MemoryOK
    <3> QED BY <2>2, <3>2 DEF Publish
  <2>3. CASE CreateResult(p)
    BY <2>3 DEF CreateResult
  <2>4. CASE WriteResult(p)
    BY <2>4 DEF WriteResult, MemoryInv, MemoryOK
  <2> QED BY <1>6, <2>1, <2>2, <2>3, <2>4 DEF RunClaimed
<1>7. ASSUME NEW p \in Process, StopDaemon(p) \/ Crash(p) PROVE FilesOK'
  BY <1>1, <1>7, QueueAssumption DEF StopDaemon, Crash
<1>8. ASSUME NEW r \in Request, LeaseRunsOut(r) PROVE FilesOK'
  BY <1>8 DEF LeaseRunsOut
<1>9. CASE UNCHANGED vars
  BY <1>1, <1>9 DEF vars
<1> QED BY <1>2, <1>3, <1>4, <1>5, <1>6, <1>7, <1>8, <1>9 DEF Next, Step

\* Files, histories and memories keep their types, however many processes
\* share the directory and whatever they die on.
THEOREM QueueTypeOK == Spec => []TypeOK
<1>1. Init => TypeInv
  BY QueueAssumption
  DEF Init, TypeInv, FilesOK, MemoryInv, MemoryOK, AtHand, Place, Status, Heading,
      Busy, Working
<1>2. TypeInv /\ [Next]_vars => TypeInv'
  BY MemoryStep, FilesStep DEF TypeInv
<1>3. TypeInv => TypeOK
  BY DEF TypeInv, TypeOK, MemoryInv
<1> QED BY <1>1, <1>2, <1>3, PTL DEF Spec
----------------------------------------------------------------------------
(* Claims *)

LeaseInv ==
  /\ \A r \in Request : claim[r] = "expired" => r \in lapsed
  /\ \A r \in Request : claim[r] = "absent" => Claimants(r) = {}
  /\ \A p \in Process : pc[p] = "reclaiming" => Head(todo[p]) \in lapsed
  /\ \A r \in Request \ lapsed : \A p, q \in Claimants(r) : p = q

\* A step that gives no process a request, nor the right to take one over.
Quiet ==
  /\ \A p \in Process : pc'[p] \in {"writing", "reclaiming"} =>
       pc'[p] = pc[p] /\ todo'[p] = todo[p]
  /\ taken' = taken
  /\ lapsed \subseteq lapsed'
  /\ \A r \in Request : /\ claim'[r] = "absent" => claim[r] = "absent"
                        /\ claim'[r] = "expired" => claim[r] = "expired" \/ r \in lapsed'

LEMMA QuietKeeps == ASSUME LeaseInv, Quiet PROVE LeaseInv'
<1>1. \A r \in Request : Claimants(r)' \subseteq Claimants(r)
  BY DEF Quiet, Claimants
<1> QED BY <1>1 DEF Quiet, LeaseInv

LEMMA QuitIsQuiet ==
  ASSUME TypeInv, NEW p \in Process, Quit(p)
  PROVE  \A q \in Process : pc'[q] \in {"writing", "reclaiming"} =>
           pc'[q] = pc[q] /\ todo'[q] = todo[q]
BY DEF Quit, Goto, TypeInv, MemoryInv, MemoryOK

LEMMA MoveIsQuiet ==
  ASSUME TypeInv, NEW p \in Process, NEW l, l \notin {"writing", "reclaiming"},
         Goto(p, l), todo' = todo \/ \E t : todo' = [todo EXCEPT ![p] = t]
  PROVE  \A q \in Process : pc'[q] \in {"writing", "reclaiming"} =>
           pc'[q] = pc[q] /\ todo'[q] = todo[q]
BY DEF Goto, TypeInv, MemoryInv, MemoryOK

LEMMA LeaseStep == ASSUME TypeInv, LeaseInv, [Next]_vars PROVE LeaseInv'
<1>1. ASSUME NEW p \in Process, NEW c \in Command, NEW r \in Request,
             Start(p, c, r)
      PROVE  LeaseInv'
  <2>1. \E l \in {"checking", "polling", "beating"} : Goto(p, l)
    BY <1>1, QueueAssumption DEF Start
  <2> QED BY <1>1, <2>1, MoveIsQuiet, QuietKeeps DEF Start, Quiet
<1>2. ASSUME NEW p \in Process, Check(p) \/ AppendRequest(p) PROVE LeaseInv'
  <2>1. Quit(p) \/ Move(p, "appending") \/ Move(p, "polling")
    BY <1>2 DEF Check, AppendRequest
  <2>2. UNCHANGED <<claim, ghosts>>
    BY <1>2 DEF Check, AppendRequest
  <2> QED BY <2>1, <2>2, QuitIsQuiet, MoveIsQuiet, QuietKeeps DEF Move, Quiet
<1>3. ASSUME NEW p \in Process, ClaimNext(p) PROVE LeaseInv'
  <2>1. CASE ListRequests(p) \/ ListResults(p) \/ NothingToClaim(p)
               \/ SkipCompleted(p)
    <3>1. Quit(p) \/ \E l \in {"listing", "claiming", "polling"} :
            /\ Goto(p, l)
            /\ todo' = todo \/ \E t : todo' = [todo EXCEPT ![p] = t]
      BY <2>1 DEF ListRequests, ListResults, NothingToClaim, SkipCompleted, Skip
    <3>2. UNCHANGED <<claim, ghosts>>
      BY <2>1 DEF ListRequests, ListResults, NothingToClaim, SkipCompleted
    <3> QED BY <3>1, <3>2, QuitIsQuiet, MoveIsQuiet, QuietKeeps DEF Quiet
  <2>2. CASE CreateClaim(p)
    <3> DEFINE r == Head(todo[p])
    <3>0. r \in Request
      BY <2>2 DEF CreateClaim, TypeInv, MemoryInv, MemoryOK
    <3>1. CASE claim[r] = "absent"
      <4>1. /\ claim' = [claim EXCEPT ![r] = "torn"]
            /\ pc' = [pc EXCEPT ![p] = "writing"]
            /\ UNCHANGED <<todo, taken, lapsed>>
        BY <2>2, <3>1 DEF CreateClaim, Move, Goto
      <4>2. Claimants(r) = {}
        BY <3>0, <3>1 DEF LeaseInv
      <4>3. Claimants(r)' \subseteq {p}
        BY <4>1, <4>2 DEF Claimants, TypeInv, MemoryInv, MemoryOK
      <4>4. \A s \in Request : s # r => Claimants(s)' = Claimants(s)
        BY <4>1 DEF Claimants, TypeInv, MemoryInv, MemoryOK
      <4>5. \A s \in Request : claim'[s] \in {"expired", "absent"} =>
              s # r /\ claim'[s] = claim[s]
        BY <3>0, <4>1 DEF TypeInv, FilesOK
      <4>6. \A q \in Process : pc'[q] = "reclaiming" => pc[q] = "reclaiming"
        BY <4>1 DEF TypeInv, MemoryInv, MemoryOK
      <4>7. \A s \in Request \ lapsed' : \A q, t \in Claimants(s)' : q = t
        BY <4>1, <4>3, <4>4 DEF LeaseInv
      <4> QED BY <4>1, <4>4, <4>5, <4>6, <4>7 DEF LeaseInv
    <3>2. CASE claim[r] # "absent"
      BY <2>2, <3>2, MoveIsQuiet, QuietKeeps DEF CreateClaim, Move, Quiet
    <3> QED BY <3>1, <3>2
  <2>3. CASE ExamineClaim(p)
    <3> DEFINE r == Head(todo[p])
    <3>0. r \in Request
      BY <2>3 DEF ExamineClaim, TypeInv, MemoryInv, MemoryOK, AtHand, Heading
    <3>1. CASE claim[r] = "expired"
      <4>1. /\ pc' = [pc EXCEPT ![p] = "reclaiming"]
            /\ UNCHANGED <<todo, taken, lapsed, claim>>
        BY <2>3, <3>1 DEF ExamineClaim, IsClaimExpired, Move, Goto
      <4>2. r \in lapsed
        BY <3>0, <3>1 DEF LeaseInv
      <4>3. \A s \in Request : Claimants(s)' \subseteq Claimants(s)
        BY <4>1 DEF Claimants, TypeInv, MemoryInv, MemoryOK
      <4> QED BY <4>1, <4>2, <4>3 DEF LeaseInv, TypeInv, MemoryInv, MemoryOK
    <3>2. CASE claim[r] # "expired"
      <4>1. Quit(p) \/ Skip(p)
        BY <2>3, <3>2 DEF ExamineClaim, IsClaimExpired
      <4>2. UNCHANGED <<claim, ghosts>>
        BY <2>3 DEF ExamineClaim
      <4> QED BY <4>1, <4>2, QuitIsQuiet, MoveIsQuiet, QuietKeeps DEF Skip, Quiet
    <3> QED BY <3>1, <3>2
  <2>4. CASE Reclaim(p)
    <3> DEFINE r == Head(todo[p])
    <3>1. r \in Request /\ r \in lapsed
      BY <2>4 DEF Reclaim, TypeInv, MemoryInv, MemoryOK, AtHand, Heading, LeaseInv
    <3>2. /\ claim' = [claim EXCEPT ![r] = "torn"]
          /\ pc' = [pc EXCEPT ![p] = "writing"]
          /\ UNCHANGED <<todo, taken, lapsed>>
      BY <2>4 DEF Reclaim, Move, Goto
    <3>3. \A s \in Request : s # r => Claimants(s)' = Claimants(s)
      BY <3>2 DEF Claimants, TypeInv, MemoryInv, MemoryOK
    <3>4. \A s \in Request : claim'[s] \in {"expired", "absent"} =>
            s # r /\ claim'[s] = claim[s]
      BY <3>1, <3>2 DEF TypeInv, FilesOK
    <3>5. \A q \in Process : pc'[q] = "reclaiming" => pc[q] = "reclaiming"
      BY <3>2 DEF TypeInv, MemoryInv, MemoryOK
    <3>6. \A s \in Request \ lapsed' : \A q, t \in Claimants(s)' : q = t
      BY <3>1, <3>2, <3>3 DEF LeaseInv
    <3> QED BY <3>2, <3>3, <3>4, <3>5, <3>6 DEF LeaseInv
  <2>5. CASE WriteClaim(p)
    <3> DEFINE r == Head(todo[p])
    <3>1. r \in Request
      BY <2>5 DEF WriteClaim, TypeInv, MemoryInv, MemoryOK, AtHand, Heading
    <3>2. /\ taken' = [taken EXCEPT ![r] = @ \cup {p}]
          /\ \E c \in {"active", "torn"} : claim' = [claim EXCEPT ![r] = c]
          /\ lapsed' = lapsed
          /\ pc[p] = "writing"
      BY <2>5 DEF WriteClaim, Written
    <3>3. \E l \in {"beating", "ended"} :
            pc' = [pc EXCEPT ![p] = l] /\ todo' = [todo EXCEPT ![p] = <<>>]
      BY <2>5 DEF WriteClaim, Quit, Goto
    <3>4. \A s \in Request : Claimants(s)' = Claimants(s)
      BY <3>1, <3>2, <3>3 DEF Claimants, TypeInv, FilesOK, MemoryInv, MemoryOK
    <3> QED BY <3>1, <3>2, <3>3, <3>4
            DEF LeaseInv, TypeInv, FilesOK, MemoryInv, MemoryOK
  <2> QED BY <1>3, <2>1, <2>2, <2>3, <2>4, <2>5 DEF ClaimNext
<1>4. ASSUME NEW p \in Process, SendHeartbeat(p) PROVE LeaseInv'
  <2>1. Quit(p) \/ \E l \in {"renewing", "rewriting", "preflight"} : Move(p, l)
    BY <1>4 DEF SendHeartbeat, ReadForHeartbeat, Heartbeat, WriteHeartbeat
  <2>2. claim' = claim \/ \E c \in {"active", "torn"} :
                            claim' = [claim EXCEPT ![job[p]] = c]
    BY <1>4 DEF SendHeartbeat, ReadForHeartbeat, Heartbeat, WriteHeartbeat, Written
  <2>3. UNCHANGED ghosts
    BY <1>4 DEF SendHeartbeat, ReadForHeartbeat, Heartbeat, WriteHeartbeat
  <2>4. \A r \in Request : /\ claim'[r] = "absent" => claim[r] = "absent"
                           /\ claim'[r] = "expired" => claim[r] = "expired"
    BY <2>2 DEF TypeInv, FilesOK
  <2> QED BY <2>1, <2>3, <2>4, QuitIsQuiet, MoveIsQuiet, QuietKeeps DEF Move, Quiet
<1>5. ASSUME NEW p \in Process, RunClaimed(p) PROVE LeaseInv'
  <2>1. Quit(p) \/ \E l \in Working \cup {"polling"} : Goto(p, l) /\ todo' = todo
    BY <1>5 DEF RunClaimed, Preflight, RunCodex, CommitWork, Verify, Publish,
                CreateResult, WriteResult, Goes, Ends, Move, Working
  <2>2. UNCHANGED <<claim, ghosts>>
    BY <1>5 DEF RunClaimed, Preflight, RunCodex, CommitWork, Verify, Publish,
                CreateResult, WriteResult
  <2> QED BY <2>1, <2>2, QuitIsQuiet, MoveIsQuiet, QuietKeeps DEF Working, Quiet
<1>6. ASSUME NEW p \in Process, StopDaemon(p) \/ Crash(p) PROVE LeaseInv'
  BY <1>6, QuitIsQuiet, QuietKeeps DEF StopDaemon, Crash, Quiet
<1>7. ASSUME NEW r \in Request, LeaseRunsOut(r) PROVE LeaseInv'
  BY <1>7, QuietKeeps DEF LeaseRunsOut, Quiet, TypeInv, FilesOK
<1>8. CASE UNCHANGED vars
  BY <1>8, QuietKeeps DEF vars, Quiet
<1> QED BY <1>1, <1>2, <1>3, <1>4, <1>5, <1>6, <1>7, <1>8 DEF Next, Step

\* Exclusive creation and leases give a request to one process at a time.
THEOREM QueueOneClaimPerLease == Spec => []OneClaimPerLease
<1>1. Init => TypeInv /\ LeaseInv
  BY QueueAssumption
  DEF Init, TypeInv, FilesOK, MemoryInv, MemoryOK, AtHand, Place, Status, Heading,
      Busy, Working, LeaseInv, Claimants
<1>2. TypeInv /\ LeaseInv /\ [Next]_vars => TypeInv' /\ LeaseInv'
  BY MemoryStep, FilesStep, LeaseStep DEF TypeInv
<1>3. LeaseInv => OneClaimPerLease
  <2> SUFFICES ASSUME LeaseInv, NEW r \in Request \ lapsed
               PROVE  Cardinality(Claimants(r)) <= 1
    BY DEF OneClaimPerLease
  <2>1. CASE Claimants(r) = {}
    BY <2>1, FS_EmptySet
  <2>2. ASSUME NEW p \in Claimants(r) PROVE Cardinality(Claimants(r)) <= 1
    <3>1. \A q \in Claimants(r) : q = p
      BY DEF LeaseInv
    <3>2. Claimants(r) = {p}
      BY <3>1
    <3>3. Cardinality({p}) = 1
      BY FS_Singleton
    <3> QED BY <3>2, <3>3
  <2> QED BY <2>1, <2>2
<1> QED BY <1>1, <1>2, <1>3, PTL DEF Spec
----------------------------------------------------------------------------
(* Runs and their results *)

Past == {"polling", "listing", "claiming", "ended"} \cup Heading \cup Working
          \cup {"beating", "renewing", "rewriting"}

\* Of a pull request of an earlier run of p, or of the run at hand.
Settled(p, r) ==
  \/ pc[p] = "ended"
  \/ pc[p] \in {"completing", "recording"} /\ job[p] = r
  \/ /\ Recorded(r)
     /\ pc[p] \in Past
     /\ pc[p] \in {"claiming"} \cup Heading => r \in done[p]
     /\ pc[p] \in Busy => job[p] # r

Opened(p, r) == \E u \in pulls : u.request = r /\ u.by = p /\ u.work # {}

\* What a process knows of its run.
RunOK(p) ==
  /\ pc[p] = "recording" => result[job[p]] = [status |-> "torn", by |-> p]
  /\ pc[p] \in Working => cmd[p] # "heartbeat"
  /\ pc[p] \in Busy \ {"checking", "appending"} /\ cmd[p] # "heartbeat" =>
       p \in taken[job[p]]
  /\ pc[p] \in Heading => Head(todo[p]) \notin done[p]
  /\ pc[p] \in {"verifying", "publishing"} => work[p] # {}
  /\ pc[p] \in {"completing", "recording"} /\ outcome[p] = "completed" =>
       Opened(p, job[p])
  /\ \A u \in pulls : u.by = p => Settled(p, u.request)

PullsOK ==
  /\ \A u \in pulls : u.by \in taken[u.request]
  /\ \A u, v \in pulls : u.by = v.by /\ u.request = v.request => u = v

RunInv == PullsOK /\ CompletedIsPublished /\ \A p \in Process : RunOK(p)

\* A step of p leaves the memory of the others alone.
Frame(p) ==
  \A q \in Process : q # p =>
    /\ pc'[q] = pc[q] /\ cmd'[q] = cmd[q] /\ todo'[q] = todo[q]
    /\ done'[q] = done[q] /\ job'[q] = job[q] /\ work'[q] = work[q]
    /\ outcome'[q] = outcome[q]

LEMMA QuitFrame ==
  ASSUME TypeInv, NEW p \in Process, Quit(p) PROVE Frame(p) /\ pc'[p] = "ended"
BY DEF Quit, Goto, Frame, TypeInv, MemoryInv, MemoryOK

LEMMA MoveFrame ==
  ASSUME TypeInv, NEW p \in Process, NEW l, Move(p, l)
  PROVE  Frame(p) /\ pc'[p] = l
BY DEF Move, Goto, Frame, TypeInv, MemoryInv, MemoryOK

LEMMA EndedRunOK ==
  ASSUME NEW p \in Process, pc'[p] = "ended" PROVE RunOK(p)'
BY DEF RunOK, Settled, Working, Busy, Heading

\* The other processes, when p opens a pull request or records a result.
LEMMA OthersOK ==
  ASSUME TypeInv, RunInv, NEW p \in Process, Frame(p),
         \A r \in Request : taken[r] \subseteq taken'[r],
         pulls \subseteq pulls', \A u \in pulls' \ pulls : u.by = p,
         \A r \in Request : Recorded(r) => Recorded(r)',
         \A r \in Request : result[r].status = "torn" /\ result[r].by # p =>
                              result'[r] = result[r]
  PROVE  \A q \in Process : q # p => RunOK(q)'
<1> SUFFICES ASSUME NEW q \in Process, q # p PROVE RunOK(q)'
  OBVIOUS
<1>0. /\ pc'[q] = pc[q] /\ cmd'[q] = cmd[q] /\ todo'[q] = todo[q]
      /\ done'[q] = done[q] /\ job'[q] = job[q] /\ work'[q] = work[q]
      /\ outcome'[q] = outcome[q]
  BY DEF Frame
<1>1. RunOK(q)
  BY DEF RunInv
<1>2. pc[q] \in Busy => job[q] \in Request
  BY DEF TypeInv, MemoryInv, AtHand
<1>3. pc'[q] = "recording" => result'[job'[q]] = [status |-> "torn", by |-> q]
  BY <1>0, <1>1, <1>2 DEF RunOK, Busy, Working
<1>4. pc'[q] \in Busy \ {"checking", "appending"} /\ cmd'[q] # "heartbeat" =>
        q \in taken'[job'[q]]
  BY <1>0, <1>1, <1>2 DEF RunOK
<1>5. pc'[q] \in {"completing", "recording"} /\ outcome'[q] = "completed" =>
        Opened(q, job[q])'
  BY <1>0, <1>1 DEF RunOK, Opened
<1>6. \A u \in pulls' : u.by = q => Settled(q, u.request)'
  <2> SUFFICES ASSUME NEW u \in pulls', u.by = q PROVE Settled(q, u.request)'
    OBVIOUS
  <2>1. u \in pulls /\ u.request \in Request
    BY DEF TypeInv, FilesOK, Pull
  <2>2. Settled(q, u.request)
    BY <1>1, <2>1 DEF RunOK
  <2> QED BY <1>0, <2>1, <2>2 DEF Settled
<1> QED BY <1>0, <1>1, <1>3, <1>4, <1>5, <1>6 DEF RunOK

LEMMA RunQuiet ==
  ASSUME TypeInv, RunInv, NEW p \in Process, Frame(p), RunOK(p)',
         UNCHANGED <<result, taken, pulls>>
  PROVE  RunInv'
<1>1. \A q \in Process : q # p => RunOK(q)'
  BY OthersOK DEF Recorded
<1>2. PullsOK' /\ CompletedIsPublished'
  BY DEF RunInv, PullsOK, CompletedIsPublished
<1> QED BY <1>1, <1>2 DEF RunInv

LEMMA QuitRun ==
  ASSUME TypeInv, RunInv, NEW p \in Process, Quit(p),
         UNCHANGED <<result, taken, pulls>>
  PROVE  RunInv'
BY QuitFrame, EndedRunOK, RunQuiet

\* Steps on the way to a claim, which record and publish nothing.
LEMMA ClaimRun ==
  ASSUME TypeInv, RunInv, NEW p \in Process, ClaimNext(p)
  PROVE  RunInv'
<1> USE DEF TypeInv, MemoryInv, MemoryOK
<1>0. RunOK(p) /\ \A u \in pulls : u.request \in Request
  BY DEF RunInv, FilesOK, Pull
<1>1. CASE ListRequests(p)
  <2>1. Frame(p) /\ pc'[p] = "listing" /\ UNCHANGED <<result, taken, pulls>>
    BY <1>1 DEF ListRequests, Goto, Frame
  <2>2. RunOK(p)'
    BY <1>0, <1>1, <2>1
    DEF ListRequests, RunOK, Settled, Recorded, Past, Working, Busy, Heading
  <2> QED BY <2>1, <2>2, RunQuiet
<1>2. CASE ListResults(p)
  <2>0. UNCHANGED <<result, taken, pulls>>
    BY <1>2 DEF ListResults
  <2>1. CASE Quit(p)
    BY <2>0, <2>1, QuitRun
  <2>2. CASE ~Quit(p)
    <3>1. /\ Frame(p) /\ pc'[p] = "claiming"
          /\ done'[p] = {r \in Request : Recorded(r)}
      BY <1>2, <2>2 DEF ListResults, Goto, Frame
    <3>2. RunOK(p)'
      BY <1>0, <1>2, <2>0, <3>1
      DEF ListResults, RunOK, Settled, Recorded, Past, Working, Busy, Heading
    <3> QED BY <2>0, <3>1, <3>2, RunQuiet
  <2> QED BY <2>1, <2>2
<1>3. CASE NothingToClaim(p)
  <2>0. UNCHANGED <<result, taken, pulls>>
    BY <1>3 DEF NothingToClaim
  <2>1. CASE Quit(p)
    BY <2>0, <2>1, QuitRun
  <2>2. CASE ~Quit(p)
    <3>1. Frame(p) /\ pc'[p] = "polling"
      BY <1>3, <2>2 DEF NothingToClaim, Goto, Frame
    <3>2. RunOK(p)'
      BY <1>0, <1>3, <2>0, <3>1
      DEF NothingToClaim, RunOK, Settled, Recorded, Past, Working, Busy, Heading
    <3> QED BY <2>0, <3>1, <3>2, RunQuiet
  <2> QED BY <2>1, <2>2
<1>4. ASSUME Skip(p), pc[p] \in {"claiming", "examining"},
             UNCHANGED <<result, taken, pulls>>
      PROVE  RunInv'
  <2>1. Frame(p) /\ pc'[p] = "claiming" /\ done' = done
    BY <1>4 DEF Skip, Goto, Frame
  <2>2. RunOK(p)'
    BY <1>0, <1>4, <2>1
    DEF RunOK, Settled, Recorded, Past, Working, Busy, Heading
  <2> QED BY <1>4, <2>1, <2>2, RunQuiet
<1>5. ASSUME NEW l \in Heading, Move(p, l), pc[p] \in {"claiming"} \cup Heading,
             Head(todo[p]) \notin done[p], UNCHANGED <<result, taken, pulls>>
      PROVE  RunInv'
  <2>1. Frame(p) /\ pc'[p] = l
    BY <1>5, MoveFrame
  <2>2. RunOK(p)'
    BY <1>0, <1>5, <2>1
    DEF Move, RunOK, Settled, Recorded, Past, Working, Busy, Heading
  <2> QED BY <1>5, <2>1, <2>2, RunQuiet
<1>6. CASE SkipCompleted(p)
  BY <1>4, <1>6 DEF SkipCompleted
<1>7. CASE CreateClaim(p)
  BY <1>5, <1>7 DEF CreateClaim, Heading
<1>8. CASE ExamineClaim(p)
  <2>1. UNCHANGED <<result, taken, pulls>> /\ pc[p] \in Heading
    BY <1>8 DEF ExamineClaim, Heading
  <2>2. CASE Quit(p)
    BY <2>1, <2>2, QuitRun
  <2>3. CASE Skip(p)
    BY <1>4, <1>8, <2>1, <2>3 DEF ExamineClaim
  <2>4. CASE Move(p, "reclaiming")
    BY <1>0, <1>5, <2>1, <2>4 DEF RunOK, Heading
  <2> QED BY <1>8, <2>2, <2>3, <2>4 DEF ExamineClaim
<1>9. CASE Reclaim(p)
  BY <1>0, <1>5, <1>9 DEF Reclaim, RunOK, Heading
<1>10. CASE WriteClaim(p)
  <2> DEFINE r == Head(todo[p])
  <2>1. r \in Request
    BY <1>10 DEF WriteClaim, AtHand, Heading
  <2>2. /\ UNCHANGED <<result, pulls>> /\ pc[p] = "writing"
        /\ taken' = [taken EXCEPT ![r] = @ \cup {p}]
    BY <1>10 DEF WriteClaim
  <2>3. \A s \in Request : taken[s] \subseteq taken'[s]
    BY <2>1, <2>2 DEF FilesOK
  <2>4. CASE Quit(p)
    <3>1. Frame(p) /\ RunOK(p)'
      BY <2>4, QuitFrame, EndedRunOK
    <3>2. \A q \in Process : q # p => RunOK(q)'
      BY <2>2, <2>3, <3>1, OthersOK DEF Recorded
    <3>3. PullsOK' /\ CompletedIsPublished'
      BY <1>0, <2>2, <2>3 DEF RunInv, PullsOK, CompletedIsPublished
    <3> QED BY <3>1, <3>2, <3>3 DEF RunInv
  <2>5. CASE ~Quit(p)
    <3>1. /\ Frame(p) /\ pc'[p] = "beating" /\ job'[p] = r
      BY <1>10, <2>1, <2>5 DEF WriteClaim, Goto, Frame
    <3>2. p \in taken'[r]
      BY <2>1, <2>2 DEF FilesOK
    <3>3. RunOK(p)'
      BY <1>0, <2>2, <3>1, <3>2
      DEF RunOK, Settled, Recorded, Past, Working, Busy, Heading
    <3>4. \A q \in Process : q # p => RunOK(q)'
      BY <2>2, <2>3, <3>1, OthersOK DEF Recorded
    <3>5. PullsOK' /\ CompletedIsPublished'
      BY <1>0, <2>2, <2>3 DEF RunInv, PullsOK, CompletedIsPublished
    <3> QED BY <3>3, <3>4, <3>5 DEF RunInv
  <2> QED BY <2>4, <2>5
<1> QED BY <1>1, <1>2, <1>3, <1>6, <1>7, <1>8, <1>9, <1>10 DEF ClaimNext

\* Stages of a run up to the pull request.
LEMMA StageRun ==
  ASSUME TypeInv, RunInv, NEW p \in Process, UNCHANGED <<result, taken, pulls>>,
         pc[p] \in Working, UNCHANGED <<cmd, todo, done, job>>,
         \A q \in Process : q # p => work'[q] = work[q],
         \/ \E l \in {"coding", "committing"} : Goes(p, l)
         \/ \E l \in {"verifying", "publishing"} : Goes(p, l) /\ work'[p] # {}
         \/ \E s \in {"failed", "refused"} : Ends(p, s),
         pc[p] \notin {"completing", "recording"}
  PROVE  RunInv'
<1> USE DEF TypeInv, MemoryInv, MemoryOK
<1>0. RunOK(p) /\ \A u \in pulls : u.request \in Request
  BY DEF RunInv, FilesOK, Pull
<1>1. Frame(p) /\ pc'[p] \in Working \ {"preflight", "recording"}
  BY DEF Goes, Ends, Goto, Frame, Working
<1>2. /\ pc'[p] = "completing" => outcome'[p] # "completed"
      /\ pc'[p] \in {"verifying", "publishing"} => work'[p] # {}
  BY DEF Goes, Ends, Goto
<1>3. RunOK(p)'
  BY <1>0, <1>1, <1>2 DEF RunOK, Settled, Recorded, Past, Working, Busy, Heading
<1> QED BY <1>1, <1>3, RunQuiet

LEMMA PublishRun ==
  ASSUME TypeInv, RunInv, NEW p \in Process, Publish(p) PROVE RunInv'
<1> USE DEF TypeInv, MemoryInv, MemoryOK
<1>0. RunOK(p) /\ \A u \in pulls : u.request \in Request
  BY DEF RunInv, FilesOK, Pull
<1>1. /\ pc[p] = "publishing" /\ UNCHANGED <<result, taken, cmd, todo, done, job, work>>
      /\ Frame(p) /\ pc'[p] = "completing"
  BY DEF Publish, Ends, Goto, Frame
<1>2. job[p] \in Request /\ p \in taken[job[p]] /\ work[p] # {} /\ cmd[p] # "heartbeat"
  BY <1>0, <1>1 DEF RunOK, AtHand, Busy, Working
<1>a. ASSUME NEW u \in pulls, u.by = p
      PROVE  /\ u.request # job[p] /\ u.request \in Request
             /\ Recorded(u.request) /\ Settled(p, u.request)
  <2>1. Settled(p, u.request)
    BY <1>0, <1>a DEF RunOK
  <2> QED BY <1>0, <1>1, <2>1 DEF Settled, Busy, Working
<1>b. PullOf(p).request = job[p] /\ PullOf(p).by = p /\ PullOf(p).work = work[p]
  BY DEF PullOf
<1>3. CASE UNCHANGED pulls
  <2>1. PullOf(p) \notin pulls
    BY <1>a, <1>b
  <2>2. Ends(p, "failed")
    BY <1>3, <2>1 DEF Publish
  <2>3. outcome'[p] = "failed"
    BY <2>2 DEF Ends
  <2>4. \A u \in pulls' : u.by = p => Settled(p, u.request)'
    BY <1>a, <1>1, <1>3 DEF Settled, Recorded, Past, Working, Busy, Heading
  <2>5. RunOK(p)'
    BY <1>1, <1>2, <1>3, <2>3, <2>4 DEF RunOK, Working, Busy, Heading
  <2> QED BY <1>1, <1>3, <2>5, RunQuiet
<1>4. CASE pulls' = pulls \cup {PullOf(p)}
  <2>1. \A u \in pulls : ~(u.by = p /\ u.request = job[p])
    BY <1>a
  <2>2. Opened(p, job[p])'
    BY <1>1, <1>2, <1>4, <1>b DEF Opened
  <2>3. \A u \in pulls' : u.by = p => Settled(p, u.request)'
    <3>1. Settled(p, job[p])'
      BY <1>1 DEF Settled
    <3>2. \A u \in pulls : u.by = p => Settled(p, u.request)'
      BY <1>a, <1>1 DEF Settled, Recorded, Past, Working, Busy, Heading
    <3>3. \A u \in pulls' : u \in pulls \/ u.request = job'[p]
      BY <1>1, <1>4, <1>b
    <3> QED BY <3>1, <3>2, <3>3
  <2>4. RunOK(p)'
    BY <1>1, <1>2, <2>2, <2>3 DEF RunOK, Working, Busy, Heading
  <2>5. \A q \in Process : q # p => RunOK(q)'
    BY <1>1, <1>4, <1>b, OthersOK DEF Recorded
  <2>6. PullsOK'
    BY <1>1, <1>2, <1>4, <1>b, <2>1 DEF RunInv, PullsOK
  <2>7. CompletedIsPublished'
    BY <1>1, <1>4 DEF RunInv, CompletedIsPublished
  <2> QED BY <2>4, <2>5, <2>6, <2>7 DEF RunInv
<1> QED BY <1>3, <1>4 DEF Publish

LEMMA CreateResultRun ==
  ASSUME TypeInv, RunInv, NEW p \in Process, CreateResult(p) PROVE RunInv'
<1> USE DEF TypeInv, MemoryInv, MemoryOK
<1>0. RunOK(p) /\ \A u \in pulls : u.request \in Request
  BY DEF RunInv, FilesOK, Pull
<1>1. UNCHANGED <<taken, pulls>> /\ pc[p] = "completing" /\ job[p] \in Request
  BY DEF CreateResult, AtHand, Busy, Working
<1>2. CASE result[job[p]].status = "absent"
  <2>1. /\ result' = [result EXCEPT ![job[p]] = [status |-> "torn", by |-> p]]
        /\ Move(p, "recording")
    BY <1>2 DEF CreateResult
  <2>2. Frame(p) /\ pc'[p] = "recording"
    BY <2>1, MoveFrame
  <2>3. /\ result'[job[p]] = [status |-> "torn", by |-> p]
        /\ \A r \in Request : r # job[p] => result'[r] = result[r]
    BY <1>1, <2>1 DEF FilesOK
  <2>4. \A r \in Request : Recorded(r) => Recorded(r)'
    BY <1>2, <2>3 DEF Recorded, Status
  <2>5. \A q \in Process : q # p => RunOK(q)'
    BY <1>1, <1>2, <2>2, <2>3, <2>4, OthersOK
  <2>6. RunOK(p)'
    <3>1. \A u \in pulls' : u.by = p => Settled(p, u.request)'
      BY <1>0, <1>1, <2>1, <2>2, <2>4
      DEF Move, RunOK, Settled, Past, Working, Busy, Heading
    <3>2. outcome'[p] = "completed" => Opened(p, job[p])'
      BY <1>0, <1>1, <2>1 DEF Move, RunOK, Opened
    <3>3. UNCHANGED <<cmd, todo, done, job, work, outcome>>
      BY <2>1 DEF Move
    <3>4. p \in taken'[job'[p]] /\ cmd'[p] # "heartbeat"
      BY <1>0, <1>1, <3>3 DEF RunOK, Working, Busy
    <3> QED BY <2>2, <2>3, <3>1, <3>2, <3>3, <3>4 DEF RunOK, Working, Busy, Heading
  <2>7. PullsOK'
    BY <1>1 DEF RunInv, PullsOK
  <2>8. CompletedIsPublished'
    <3>1. \A r \in Request : result'[r].status = "completed" => result'[r] = result[r]
      BY <2>3
    <3> QED BY <1>1, <3>1 DEF RunInv, CompletedIsPublished
  <2> QED BY <2>5, <2>6, <2>7, <2>8 DEF RunInv
<1>3. CASE result[job[p]].status # "absent"
  BY <1>1, <1>3, QuitRun DEF CreateResult
<1> QED BY <1>2, <1>3

LEMMA WriteResultRun ==
  ASSUME TypeInv, RunInv, NEW p \in Process, WriteResult(p)
  PROVE  RunInv' /\ \A r \in Request : Recorded(r) => result'[r] = result[r]
<1> USE DEF TypeInv, MemoryInv, MemoryOK
<1>0. RunOK(p) /\ \A u \in pulls : u.request \in Request
  BY DEF RunInv, FilesOK, Pull
<1>1. /\ UNCHANGED <<taken, pulls>> /\ pc[p] = "recording" /\ job[p] \in Request
      /\ result[job[p]] = [status |-> "torn", by |-> p]
  BY <1>0 DEF WriteResult, AtHand, Busy, Working, RunOK
<1>2. /\ result'[job[p]].status = outcome[p] /\ result'[job[p]].by = p
      /\ \A r \in Request : r # job[p] => result'[r] = result[r]
  BY <1>1 DEF WriteResult, FilesOK
<1>3. \A r \in Request : Recorded(r) => r # job[p] /\ result'[r] = result[r]
  BY <1>1, <1>2 DEF Recorded, Status
<1>4. \A r \in Request : Recorded(r) => Recorded(r)'
  BY <1>3 DEF Recorded
<1>5. result'[job[p]].status \in Status
  BY <1>2
<1>6. Frame(p) /\ pc'[p] \in {"polling", "ended"}
  <2>1. CASE Quit(p)
    BY <2>1, QuitFrame
  <2>2. CASE ~Quit(p)
    BY <2>2 DEF WriteResult, Goto, Frame
  <2> QED BY <2>1, <2>2
<1>7. \A q \in Process : q # p => RunOK(q)'
  <2>1. \A r \in Request : result[r].status = "torn" /\ result[r].by # p =>
                             result'[r] = result[r]
    BY <1>1, <1>2
  <2>2. /\ \A r \in Request : taken[r] \subseteq taken'[r]
        /\ pulls \subseteq pulls' /\ \A u \in pulls' \ pulls : u.by = p
    BY <1>1
  <2> QED BY <1>4, <1>6, <2>1, <2>2, OthersOK
<1>8. RunOK(p)'
  <2>1. CASE pc'[p] = "ended"
    BY <2>1, EndedRunOK
  <2>2. CASE pc'[p] = "polling"
    <3>1. ASSUME NEW u \in pulls, u.by = p PROVE Recorded(u.request)'
      <4>1. Settled(p, u.request)
        BY <1>0, <3>1 DEF RunOK
      <4>2. u.request = job[p] \/ Recorded(u.request)
        BY <1>1, <4>1 DEF Settled
      <4> QED BY <1>0, <1>4, <1>5, <4>2 DEF Recorded
    <3> QED BY <1>1, <2>2, <3>1 DEF RunOK, Settled, Past, Working, Busy, Heading
  <2> QED BY <1>6, <2>1, <2>2
<1>9. PullsOK'
  BY <1>1 DEF RunInv, PullsOK
<1>10. CompletedIsPublished'
  <2>1. outcome[p] = "completed" => Opened(p, job[p])
    BY <1>0, <1>1 DEF RunOK
  <2> SUFFICES ASSUME NEW r \in Request, result'[r].status = "completed"
               PROVE  \E u \in pulls : u.request = r /\ u.by = result'[r].by /\ u.work # {}
    BY <1>1 DEF CompletedIsPublished
  <2>2. CASE r = job[p]
    BY <1>2, <2>1, <2>2 DEF Opened
  <2>3. CASE r # job[p]
    BY <1>2, <2>3 DEF RunInv, CompletedIsPublished
  <2> QED BY <2>2, <2>3
<1> QED BY <1>3, <1>7, <1>8, <1>9, <1>10 DEF RunInv

LEMMA RunStep ==
  ASSUME TypeInv, RunInv, [Next]_vars
  PROVE  RunInv' /\ \A r \in Request : Recorded(r) => result'[r] = result[r]
<1>1. ASSUME NEW p \in Process, NEW c \in Command, NEW r \in Request,
             Start(p, c, r)
      PROVE  RunInv'
  <2>1. /\ Frame(p) /\ UNCHANGED <<result, taken, pulls>>
        /\ cmd'[p] = c /\ pc'[p] \in {"checking", "polling", "beating"}
        /\ pc'[p] = "beating" => c = "heartbeat"
    BY <1>1, QueueAssumption DEF Start, Goto, Frame, TypeInv, MemoryInv, MemoryOK
  <2>2. \A u \in pulls : u.by # p
    BY <1>1 DEF Start, RunInv, RunOK, Settled, Past, Heading, Working
  <2>3. RunOK(p)'
    BY <2>1, <2>2 DEF RunOK, Working, Busy, Heading
  <2> QED BY <2>1, <2>3, RunQuiet
<1>2. ASSUME NEW p \in Process, Check(p) \/ AppendRequest(p) PROVE RunInv'
  <2>1. UNCHANGED <<result, taken, pulls>> /\ pc[p] \in {"checking", "appending"}
    BY <1>2 DEF Check, AppendRequest
  <2>2. CASE Quit(p)
    BY <2>1, <2>2, QuitRun
  <2>3. ASSUME NEW l \in {"appending", "polling"}, Move(p, l) PROVE RunInv'
    <3>1. Frame(p) /\ pc'[p] = l
      BY <2>3, MoveFrame
    <3>2. \A u \in pulls : u.by # p
      BY <2>1 DEF RunInv, RunOK, Settled, Past, Heading, Working
    <3>3. RunOK(p)'
      BY <2>1, <3>1, <3>2 DEF RunOK, Working, Busy, Heading
    <3> QED BY <2>1, <3>1, <3>3, RunQuiet
  <2> QED BY <1>2, <2>2, <2>3 DEF Check, AppendRequest
<1>3. ASSUME NEW p \in Process, SendHeartbeat(p) PROVE RunInv'
  <2>1. /\ UNCHANGED <<result, taken, pulls>>
        /\ pc[p] \in {"beating", "renewing", "rewriting"}
    BY <1>3 DEF SendHeartbeat, ReadForHeartbeat, Heartbeat, WriteHeartbeat
  <2>2. CASE Quit(p)
    BY <2>1, <2>2, QuitRun
  <2>3. CASE ~Quit(p)
    <3>1. PICK l \in {"renewing", "rewriting", "preflight"} :
            Move(p, l) /\ (l = "preflight" => cmd[p] # "heartbeat")
      BY <1>3, <2>3 DEF SendHeartbeat, ReadForHeartbeat, Heartbeat, WriteHeartbeat
    <3>2. Frame(p) /\ pc'[p] = l
      BY <3>1, MoveFrame
    <3>3. RunOK(p)
      BY DEF RunInv
    <3>4. RunOK(p)'
      BY <2>1, <3>1, <3>2, <3>3
      DEF Move, RunOK, Settled, Recorded, Past, Working, Busy, Heading
    <3> QED BY <2>1, <3>2, <3>4, RunQuiet
  <2> QED BY <2>2, <2>3
<1>4. ASSUME NEW p \in Process,
             Preflight(p) \/ RunCodex(p) \/ CommitWork(p) \/ Verify(p)
      PROVE  RunInv'
  <2>0. RunOK(p)
    BY DEF RunInv
  <2>1. /\ UNCHANGED <<result, taken, pulls, cmd, todo, done, job>>
        /\ pc[p] \in Working \ {"completing", "recording"}
    BY <1>4 DEF Preflight, RunCodex, CommitWork, Verify, Working
  <2>2. \A q \in Process : q # p => work'[q] = work[q]
    BY <1>4 DEF Preflight, RunCodex, CommitWork, Verify, TypeInv, MemoryInv, MemoryOK
  <2>3. \/ \E l \in {"coding", "committing"} : Goes(p, l)
        \/ \E l \in {"verifying", "publishing"} : Goes(p, l) /\ work'[p] # {}
        \/ \E s \in {"failed", "refused"} : Ends(p, s)
    <3>1. CASE Preflight(p) \/ RunCodex(p)
      BY <3>1 DEF Preflight, RunCodex
    <3>2. CASE CommitWork(p)
      BY <3>2 DEF CommitWork, TypeInv, MemoryInv, MemoryOK
    <3>3. CASE Verify(p)
      BY <2>0, <3>3 DEF Verify, RunOK
    <3> QED BY <1>4, <3>1, <3>2, <3>3
  <2> QED BY <2>1, <2>2, <2>3, StageRun
<1>5. ASSUME NEW p \in Process, StopDaemon(p) \/ Crash(p) PROVE RunInv'
  BY <1>5, QuitRun DEF StopDaemon, Crash
<1>6. CASE UNCHANGED <<result, taken, pulls, pc, memory>>
  BY <1>6 DEF RunInv, PullsOK, CompletedIsPublished, RunOK, Settled, Opened, Recorded
<1>7. RunInv'
  BY <1>1, <1>2, <1>3, <1>4, <1>5, <1>6, ClaimRun, PublishRun, CreateResultRun,
     WriteResultRun
  DEF Next, Step, RunClaimed, LeaseRunsOut, vars
<1>8. \A r \in Request : Recorded(r) => result'[r] = result[r]
  <2>1. CASE \E p \in Process : WriteResult(p)
    BY <2>1, WriteResultRun
  <2>2. CASE \E p \in Process : CreateResult(p)
    BY <2>2 DEF CreateResult, Recorded, Status, TypeInv, FilesOK
  <2>3. CASE UNCHANGED result
    BY <2>3
  <2>4. \/ \E p \in Process : WriteResult(p) \/ CreateResult(p)
        \/ UNCHANGED result
    BY DEF Next, Step, ClaimNext, SendHeartbeat, RunClaimed, Start, Check,
           AppendRequest, ListRequests, ListResults, NothingToClaim, SkipCompleted,
           CreateClaim, ExamineClaim, Reclaim, WriteClaim, ReadForHeartbeat,
           Heartbeat, WriteHeartbeat, Preflight, RunCodex, CommitWork, Verify,
           Publish, LeaseRunsOut, StopDaemon, Crash, vars
  <2> QED BY <2>1, <2>2, <2>3, <2>4
<1> QED BY <1>7, <1>8

LEMMA QueueInvariant == Spec => [](TypeInv /\ LeaseInv /\ RunInv)
<1>1. Init => TypeInv /\ LeaseInv /\ RunInv
  BY QueueAssumption
  DEF Init, TypeInv, FilesOK, MemoryInv, MemoryOK, AtHand, Place, Status, Heading,
      Busy, Working, LeaseInv, Claimants, RunInv, PullsOK, CompletedIsPublished,
      RunOK
<1>2. TypeInv /\ LeaseInv /\ RunInv /\ [Next]_vars => (TypeInv /\ LeaseInv /\ RunInv)'
  BY MemoryStep, FilesStep, LeaseStep, RunStep DEF TypeInv
<1> QED BY <1>1, <1>2, PTL DEF Spec

\* A result that says "completed" was published by the run that recorded it.
THEOREM QueueCompletedIsPublished == Spec => []CompletedIsPublished
<1>1. RunInv => CompletedIsPublished
  BY DEF RunInv
<1> QED BY <1>1, QueueInvariant, PTL

\* No step touches a recorded result.
THEOREM QueueResultIsFinal == Spec => ResultIsFinal
<1>1. TypeInv /\ RunInv /\ [Next]_vars =>
        [\A r \in Request : Recorded(r) => result'[r] = result[r]]_vars
  BY RunStep
<1> QED BY <1>1, QueueInvariant, PTL DEF Spec, ResultIsFinal

\* Without a lapsed lease no request gets a second pull request.
THEOREM QueueOnePullRequest == Spec => []OnePullRequest
<1>1. LeaseInv /\ RunInv => OnePullRequest
  <2> SUFFICES ASSUME LeaseInv, RunInv, NEW r \in Request \ lapsed
               PROVE  Cardinality({u \in pulls : u.request = r}) <= 1
    BY DEF OnePullRequest
  <2> DEFINE P == {u \in pulls : u.request = r}
  <2>1. \A u, v \in P : u = v
    <3> SUFFICES ASSUME NEW u \in P, NEW v \in P PROVE u = v
      OBVIOUS
    <3>1. u.by \in Claimants(r) /\ v.by \in Claimants(r)
      BY DEF RunInv, PullsOK, Claimants
    <3>2. u.by = v.by
      BY <3>1 DEF LeaseInv
    <3> QED BY <3>2 DEF RunInv, PullsOK
  <2>2. CASE P = {}
    BY <2>2, FS_EmptySet
  <2>3. ASSUME NEW u \in P PROVE Cardinality(P) <= 1
    <3>1. P = {u}
      BY <2>1
    <3>2. Cardinality({u}) = 1
      BY FS_Singleton
    <3> QED BY <3>1, <3>2
  <2> QED BY <2>2, <2>3
<1> QED BY <1>1, QueueInvariant, PTL
----------------------------------------------------------------------------
(* The refinement.  Beyond the invariants above it needs that no process   *)
(* is given a request twice, that only a request that was given has a      *)
(* lease, and that claimNext looks at requests of the queue only.          *)

Stages == Working \cup {"beating", "renewing", "rewriting"}

\* A request p was given is at hand, or answered before p went on; a
\* daemon that goes on knows of the answers it gave.
GivenOnce(p) ==
  \A r \in Request : p \in taken[r] =>
    \/ pc[p] = "ended"
    \/ Holding(p) /\ job[p] = r
    \/ /\ Recorded(r)
       /\ pc[p] \notin {"idle", "checking", "appending"}
       /\ pc[p] \in {"claiming"} \cup Heading => r \in done[p]

Leased ==
  /\ \A r \in Request : claim[r] \in {"active", "expired"} => taken[r] # {}
  /\ \A p \in Process : pc[p] \in {"renewing", "rewriting"} => taken[job[p]] # {}

Listed == \A p \in Process : \A k \in 1 .. Len(todo[p]) : Enqueued(todo[p][k])

TakeInv == (\A p \in Process : GivenOnce(p)) /\ Leased /\ Listed

\* The other processes, when p takes a step.
LEMMA OthersGiven ==
  ASSUME TypeInv, \A q \in Process : GivenOnce(q), NEW p \in Process, Frame(p),
         \A r \in Request : taken'[r] \subseteq taken[r] \cup {p},
         \A r \in Request : Recorded(r) => Recorded(r)'
  PROVE  \A q \in Process : q # p => GivenOnce(q)'
BY DEF Frame, GivenOnce, Holding

LEMMA ClaimGiven ==
  ASSUME TypeInv, RunInv, NEW p \in Process, GivenOnce(p), ClaimNext(p)
  PROVE  /\ Frame(p) /\ GivenOnce(p)'
         /\ \A r \in Request : taken'[r] \subseteq taken[r] \cup {p}
<1> USE DEF TypeInv, MemoryInv, MemoryOK
<1>1. UNCHANGED result
  BY DEF ClaimNext, ListRequests, ListResults, NothingToClaim, SkipCompleted,
         CreateClaim, ExamineClaim, Reclaim, WriteClaim
<1>2. ASSUME Quit(p) PROVE Frame(p) /\ GivenOnce(p)'
  BY <1>2, QuitFrame DEF GivenOnce
<1>3. \A r \in Request : p \in taken[r] =>
        /\ Recorded(r)
        /\ pc[p] \in {"claiming"} \cup Heading => r \in done[p]
  BY DEF GivenOnce, Holding, ClaimNext, ListRequests, ListResults, NothingToClaim,
         SkipCompleted, CreateClaim, ExamineClaim, Reclaim, WriteClaim
<1>4. CASE ListRequests(p)
  <2>1. Frame(p) /\ pc'[p] = "listing" /\ UNCHANGED taken
    BY <1>4 DEF ListRequests, Goto, Frame
  <2> QED BY <1>1, <1>3, <2>1 DEF GivenOnce, Recorded, Heading
<1>5. CASE ListResults(p)
  <2>1. UNCHANGED taken
    BY <1>5 DEF ListResults
  <2>2. CASE ~Quit(p)
    <3>1. /\ Frame(p) /\ pc'[p] = "claiming"
          /\ done'[p] = {r \in Request : Recorded(r)}
      BY <1>5, <2>2 DEF ListResults, Goto, Frame
    <3> QED BY <1>1, <1>3, <2>1, <3>1 DEF GivenOnce, Recorded, Heading
  <2> QED BY <1>2, <2>1, <2>2
<1>6. CASE NothingToClaim(p)
  <2>1. UNCHANGED taken
    BY <1>6 DEF NothingToClaim
  <2>2. CASE ~Quit(p)
    <3>1. Frame(p) /\ pc'[p] = "polling"
      BY <1>6, <2>2 DEF NothingToClaim, Goto, Frame
    <3> QED BY <1>1, <1>3, <2>1, <3>1 DEF GivenOnce, Recorded, Heading
  <2> QED BY <1>2, <2>1, <2>2
<1>7. ASSUME Skip(p), pc[p] \in {"claiming", "examining"}, UNCHANGED taken
      PROVE  Frame(p) /\ GivenOnce(p)'
  <2>1. Frame(p) /\ pc'[p] = "claiming" /\ done' = done
    BY <1>7 DEF Skip, Goto, Frame
  <2> QED BY <1>1, <1>3, <1>7, <2>1 DEF GivenOnce, Recorded, Heading
<1>8. ASSUME NEW l \in Heading, Move(p, l), pc[p] \in {"claiming"} \cup Heading,
             UNCHANGED taken
      PROVE  Frame(p) /\ GivenOnce(p)'
  <2>1. Frame(p) /\ pc'[p] = l /\ done' = done
    BY <1>8, MoveFrame DEF Move
  <2> QED BY <1>1, <1>3, <1>8, <2>1 DEF GivenOnce, Recorded, Heading
<1>9. CASE SkipCompleted(p)
  BY <1>7, <1>9 DEF SkipCompleted
<1>10. CASE CreateClaim(p)
  BY <1>8, <1>10 DEF CreateClaim, Heading
<1>11. CASE ExamineClaim(p)
  BY <1>2, <1>7, <1>8, <1>11 DEF ExamineClaim, Heading
<1>12. CASE Reclaim(p)
  BY <1>8, <1>12 DEF Reclaim, Heading
<1>13. CASE WriteClaim(p)
  <2> DEFINE r == Head(todo[p])
  <2>1. r \in Request
    BY <1>13 DEF WriteClaim, AtHand, Heading
  <2>2. taken' = [taken EXCEPT ![r] = @ \cup {p}]
    BY <1>13 DEF WriteClaim
  <2>3. \A s \in Request : taken'[s] \subseteq taken[s] \cup {p}
    BY <2>1, <2>2 DEF FilesOK
  <2>4. CASE ~Quit(p)
    <3>1. /\ Frame(p) /\ pc'[p] = "beating" /\ job'[p] = r
          /\ cmd'[p] \in {"daemon", "single"}
      BY <1>13, <2>1, <2>4 DEF WriteClaim, Goto, Frame
    <3>2. Holding(p)'
      BY <3>1 DEF Holding
    <3>3. \A s \in Request : s # r => taken'[s] = taken[s]
      BY <2>1, <2>2 DEF FilesOK
    <3> QED BY <1>1, <1>3, <2>3, <3>1, <3>2, <3>3 DEF GivenOnce, Recorded, Heading
  <2> QED BY <1>2, <2>3, <2>4
<1> QED BY <1>4, <1>5, <1>6, <1>9, <1>10, <1>11, <1>12, <1>13 DEF ClaimNext, FilesOK

LEMMA GivenStep ==
  ASSUME TypeInv, RunInv, \A p \in Process : GivenOnce(p), [Next]_vars
  PROVE  \A p \in Process : GivenOnce(p)'
<1> USE DEF TypeInv, MemoryInv, MemoryOK
<1>1. \A r \in Request : Recorded(r) => Recorded(r)'
  BY RunStep DEF Recorded
<1>2. ASSUME NEW p \in Process, Frame(p), GivenOnce(p)', UNCHANGED taken
      PROVE  \A q \in Process : GivenOnce(q)'
  BY <1>1, <1>2, OthersGiven
<1>3. ASSUME NEW p \in Process, Quit(p), UNCHANGED taken
      PROVE  \A q \in Process : GivenOnce(q)'
  BY <1>2, <1>3, QuitFrame DEF GivenOnce
<1>4. ASSUME NEW p \in Process, NEW c \in Command, NEW r \in Request,
             Start(p, c, r)
      PROVE  \A q \in Process : GivenOnce(q)'
  <2>1. Frame(p) /\ UNCHANGED taken /\ pc[p] = "idle"
    BY <1>4 DEF Start, Goto, Frame
  <2>2. GivenOnce(p)'
    BY <2>1 DEF GivenOnce, Holding
  <2> QED BY <1>2, <2>1, <2>2
<1>5. ASSUME NEW p \in Process, Check(p) \/ AppendRequest(p)
      PROVE  \A q \in Process : GivenOnce(q)'
  <2>1. UNCHANGED taken /\ pc[p] \in {"checking", "appending"}
    BY <1>5 DEF Check, AppendRequest
  <2>2. ASSUME NEW l, Move(p, l) PROVE \A q \in Process : GivenOnce(q)'
    <3>1. Frame(p)
      BY <2>2, MoveFrame
    <3>2. GivenOnce(p)'
      BY <2>1 DEF GivenOnce, Holding
    <3> QED BY <1>2, <2>1, <3>1, <3>2
  <2> QED BY <1>3, <1>5, <2>1, <2>2 DEF Check, AppendRequest
<1>6. ASSUME NEW p \in Process, ClaimNext(p)
      PROVE  \A q \in Process : GivenOnce(q)'
  BY <1>1, <1>6, ClaimGiven, OthersGiven
\* A stage of a run: the request stays at hand.
<1>7. ASSUME NEW p \in Process, pc[p] \in Stages, pc'[p] \in Stages,
             Frame(p), UNCHANGED <<taken, cmd, job>>
      PROVE  \A q \in Process : GivenOnce(q)'
  <2>1. GivenOnce(p)'
    BY <1>1, <1>7 DEF GivenOnce, Holding, Stages, Working, Heading
  <2> QED BY <1>2, <1>7, <2>1
<1>8. ASSUME NEW p \in Process, SendHeartbeat(p)
      PROVE  \A q \in Process : GivenOnce(q)'
  <2>1. /\ UNCHANGED taken
        /\ pc[p] \in {"beating", "renewing", "rewriting"}
        /\ Quit(p) \/ \E l \in {"renewing", "rewriting", "preflight"} : Move(p, l)
    BY <1>8 DEF SendHeartbeat, ReadForHeartbeat, Heartbeat, WriteHeartbeat
  <2>2. ASSUME NEW l \in {"renewing", "rewriting", "preflight"}, Move(p, l)
        PROVE  \A q \in Process : GivenOnce(q)'
    <3>1. Frame(p) /\ pc'[p] = l /\ UNCHANGED <<cmd, job>>
      BY <2>2, MoveFrame DEF Move
    <3> QED BY <1>7, <2>1, <3>1 DEF Stages, Working
  <2> QED BY <1>3, <2>1, <2>2
<1>9. ASSUME NEW p \in Process,
             Preflight(p) \/ RunCodex(p) \/ CommitWork(p) \/ Verify(p) \/ Publish(p)
      PROVE  \A q \in Process : GivenOnce(q)'
  <2>1. UNCHANGED <<taken, cmd, todo, done, job>> /\ pc[p] \in Stages
    BY <1>9 DEF Preflight, RunCodex, CommitWork, Verify, Publish, Stages, Working
  <2>2. \A q \in Process : q # p => work'[q] = work[q]
    BY <1>9 DEF Preflight, RunCodex, CommitWork, Verify, Publish
  <2>3. Frame(p) /\ pc'[p] \in Stages
    <3>1. (\E l \in Working : Goes(p, l)) \/ \E s \in Status : Ends(p, s)
      BY <1>9 DEF Preflight, RunCodex, CommitWork, Verify, Publish, Working, Status
    <3> QED BY <2>1, <2>2, <3>1 DEF Goes, Ends, Goto, Frame, Stages, Working
  <2> QED BY <1>7, <2>1, <2>3
<1>10. ASSUME NEW p \in Process, CreateResult(p)
       PROVE  \A q \in Process : GivenOnce(q)'
  <2>1. UNCHANGED taken /\ pc[p] = "completing" /\ (Quit(p) \/ Move(p, "recording"))
    BY <1>10 DEF CreateResult
  <2>2. CASE Move(p, "recording")
    <3>1. Frame(p) /\ pc'[p] = "recording" /\ UNCHANGED <<cmd, job>>
      BY <2>2, MoveFrame DEF Move
    <3> QED BY <1>7, <2>1, <3>1 DEF Stages, Working
  <2> QED BY <1>3, <2>1, <2>2
<1>11. ASSUME NEW p \in Process, WriteResult(p)
       PROVE  \A q \in Process : GivenOnce(q)'
  <2>1. UNCHANGED taken /\ pc[p] = "recording" /\ job[p] \in Request
    BY <1>11 DEF WriteResult, AtHand, Busy, Working
  <2>2. CASE ~Quit(p)
    <3>1. Frame(p) /\ pc'[p] = "polling"
      BY <1>11, <2>2 DEF WriteResult, Goto, Frame
    <3>2. result'[job[p]].status \in Status
      BY <1>11, <2>1 DEF WriteResult, FilesOK
    <3>3. \A r \in Request : p \in taken[r] => r = job[p] \/ Recorded(r)
      BY <2>1 DEF GivenOnce
    <3>4. GivenOnce(p)'
      BY <1>1, <2>1, <3>1, <3>2, <3>3 DEF GivenOnce, Recorded, Heading
    <3> QED BY <1>2, <2>1, <3>1, <3>4
  <2> QED BY <1>3, <2>1, <2>2
<1>12. ASSUME NEW p \in Process, StopDaemon(p) \/ Crash(p)
       PROVE  \A q \in Process : GivenOnce(q)'
  BY <1>3, <1>12 DEF StopDaemon, Crash
<1>13. CASE UNCHANGED <<result, taken, pc, memory>>
  BY <1>13 DEF GivenOnce, Holding, Recorded
<1> QED BY <1>4, <1>5, <1>6, <1>8, <1>9, <1>10, <1>11, <1>12, <1>13
        DEF Next, Step, RunClaimed, LeaseRunsOut, vars

\* Requests are never taken back, nor is what a process was given.
LEMMA OnlyMore ==
  ASSUME TypeInv, [Next]_vars
  PROVE  /\ \A r \in Request : Enqueued(r) => Enqueued(r)'
         /\ \A r \in Request : taken[r] \subseteq taken'[r]
<1>1. CASE UNCHANGED requests
  <2>1. \A r \in Request : Enqueued(r) => Enqueued(r)'
    BY <1>1 DEF Enqueued
  <2>2. CASE UNCHANGED taken
    BY <2>1, <2>2
  <2>3. ASSUME NEW p \in Process, WriteClaim(p)
        PROVE  \A r \in Request : taken[r] \subseteq taken'[r]
    BY <2>3 DEF WriteClaim, TypeInv, FilesOK
  <2>4. UNCHANGED taken \/ \E p \in Process : WriteClaim(p)
    BY DEF Next, Step, ClaimNext, SendHeartbeat, RunClaimed, Start, Check,
           AppendRequest, ListRequests, ListResults, NothingToClaim, SkipCompleted,
           CreateClaim, ExamineClaim, Reclaim, ReadForHeartbeat,
           Heartbeat, WriteHeartbeat, Preflight, RunCodex, CommitWork, Verify,
           Publish, CreateResult, WriteResult, LeaseRunsOut, StopDaemon, Crash, vars
  <2> QED BY <2>1, <2>2, <2>3, <2>4
<1>2. ASSUME NEW p \in Process, AppendRequest(p)
      PROVE  /\ \A r \in Request : Enqueued(r) => Enqueued(r)'
             /\ UNCHANGED taken
  <2>1. requests' = Append(requests, job[p]) /\ UNCHANGED taken
    BY <1>2 DEF AppendRequest
  <2>2. requests \in Seq(Request) /\ job[p] \in Request
    BY <1>2 DEF AppendRequest, TypeInv, FilesOK, MemoryInv, AtHand, Busy
  <2>3. /\ Len(requests') = Len(requests) + 1
        /\ \A k \in 1 .. Len(requests) : requests'[k] = requests[k]
    BY <2>1, <2>2
  <2>4. Len(requests) \in Nat
    BY <2>2
  <2> QED BY <2>1, <2>3, <2>4 DEF Enqueued
<1>3. UNCHANGED requests \/ \E p \in Process : AppendRequest(p)
  BY DEF Next, Step, ClaimNext, SendHeartbeat, RunClaimed, Start, Check,
         ListRequests, ListResults, NothingToClaim, SkipCompleted,
         CreateClaim, ExamineClaim, Reclaim, WriteClaim, ReadForHeartbeat,
         Heartbeat, WriteHeartbeat, Preflight, RunCodex, CommitWork, Verify,
         Publish, CreateResult, WriteResult, LeaseRunsOut, StopDaemon, Crash, vars
<1> QED BY <1>1, <1>2, <1>3

\* A step that makes no claim active and starts no heartbeat.
LEMMA LeasedQuiet ==
  ASSUME TypeInv, Leased, [Next]_vars,
         \A r \in Request : claim'[r] \in {"active", "expired"} =>
                              claim[r] \in {"active", "expired"} \/ taken'[r] # {},
         \A p \in Process : pc'[p] \in {"renewing", "rewriting"} =>
                              /\ pc[p] \in {"renewing", "rewriting"}
                              /\ job'[p] = job[p]
  PROVE  Leased'
<1>1. \A r \in Request : taken[r] # {} => taken'[r] # {}
  BY OnlyMore
<1>2. \A p \in Process : pc[p] \in {"renewing", "rewriting"} => job[p] \in Request
  BY DEF TypeInv, MemoryInv, AtHand, Busy
<1> QED BY <1>1, <1>2 DEF Leased

LEMMA LeasedStep ==
  ASSUME TypeInv, Leased, [Next]_vars PROVE Leased'
<1> USE DEF TypeInv, MemoryInv, MemoryOK
\* Of a step of p that starts no heartbeat.
<1>1. ASSUME NEW p \in Process, Frame(p), pc'[p] \notin {"renewing", "rewriting"},
             \A r \in Request : claim'[r] \in {"active", "expired"} =>
               claim[r] \in {"active", "expired"} \/ taken'[r] # {}
      PROVE  Leased'
  <2>1. \A q \in Process : pc'[q] \in {"renewing", "rewriting"} =>
          pc[q] \in {"renewing", "rewriting"} /\ job'[q] = job[q]
    BY <1>1 DEF Frame
  <2> QED BY <1>1, <2>1, LeasedQuiet
<1>2. ASSUME NEW p \in Process, Quit(p), UNCHANGED claim PROVE Leased'
  BY <1>1, <1>2, QuitFrame
<1>3. ASSUME NEW p \in Process, NEW l, Goto(p, l), l \notin {"renewing", "rewriting"},
             \A q \in Process : q # p => job'[q] = job[q],
             \A r \in Request : claim'[r] \in {"active", "expired"} =>
               claim[r] \in {"active", "expired"} \/ taken'[r] # {}
      PROVE  Leased'
  <2>1. \A q \in Process : pc'[q] \in {"renewing", "rewriting"} =>
          pc[q] \in {"renewing", "rewriting"} /\ job'[q] = job[q]
    BY <1>3 DEF Goto
  <2> QED BY <1>3, <2>1, LeasedQuiet
<1>4. ASSUME NEW p \in Process, NEW c \in Command, NEW r \in Request,
             Start(p, c, r)
      PROVE  Leased'
  <2>1. \E l \in {"checking", "polling", "beating"} : Goto(p, l)
    BY <1>4, QueueAssumption DEF Start
  <2>2. UNCHANGED claim /\ \A q \in Process : q # p => job'[q] = job[q]
    BY <1>4 DEF Start
  <2> QED BY <1>3, <2>1, <2>2
<1>5. ASSUME NEW p \in Process, Check(p) \/ AppendRequest(p) PROVE Leased'
  <2>1. UNCHANGED claim /\ (Quit(p) \/ \E l \in {"appending", "polling"} : Move(p, l))
    BY <1>5 DEF Check, AppendRequest
  <2> QED BY <1>2, <1>3, <2>1 DEF Move
<1>6. ASSUME NEW p \in Process, ClaimNext(p) PROVE Leased'
  <2>1. CASE UNCHANGED claim
    <3>1. Quit(p) \/ \E l \in {"listing", "claiming", "polling", "examining",
                               "reclaiming", "writing", "beating"} :
            Goto(p, l) /\ \A q \in Process : q # p => job'[q] = job[q]
      BY <1>6 DEF ClaimNext, ListRequests, ListResults, NothingToClaim, SkipCompleted,
                  Skip, CreateClaim, ExamineClaim, Reclaim, WriteClaim, Move
    <3> QED BY <1>2, <1>3, <2>1, <3>1
  <2>2. CASE CreateClaim(p)
    <3>1. \A r \in Request : claim'[r] \in {"active", "expired"} => claim'[r] = claim[r]
      BY <2>2 DEF CreateClaim, FilesOK
    <3>2. Move(p, "writing") \/ Move(p, "examining")
      BY <2>2 DEF CreateClaim
    <3> QED BY <1>3, <3>1, <3>2 DEF Move
  <2>3. CASE Reclaim(p)
    <3>1. \A r \in Request : claim'[r] \in {"active", "expired"} => claim'[r] = claim[r]
      BY <2>3 DEF Reclaim, FilesOK
    <3>2. Move(p, "writing")
      BY <2>3 DEF Reclaim
    <3> QED BY <1>3, <3>1, <3>2 DEF Move
  <2>4. CASE WriteClaim(p)
    <3>1. \A r \in Request : claim'[r] = claim[r] \/ taken'[r] # {}
      BY <2>4 DEF WriteClaim, FilesOK
    <3>2. Quit(p) \/ (Goto(p, "beating") /\ \A q \in Process : q # p => job'[q] = job[q])
      BY <2>4 DEF WriteClaim
    <3>3. CASE Quit(p)
      BY <1>1, <3>1, <3>3, QuitFrame
    <3> QED BY <1>3, <3>1, <3>2, <3>3
  <2> QED BY <1>6, <2>1, <2>2, <2>3, <2>4
          DEF ClaimNext, ListRequests, ListResults, NothingToClaim, SkipCompleted,
              ExamineClaim
<1>7. ASSUME NEW p \in Process, SendHeartbeat(p) PROVE Leased'
  <2>0. job[p] \in Request
    BY <1>7 DEF SendHeartbeat, ReadForHeartbeat, Heartbeat, WriteHeartbeat, AtHand, Busy
  <2>1. UNCHANGED taken
    BY <1>7 DEF SendHeartbeat, ReadForHeartbeat, Heartbeat, WriteHeartbeat
  <2>2. ASSUME taken[job[p]] # {}, NEW l \in {"renewing", "rewriting", "preflight"},
               Move(p, l), \A r \in Request : r # job[p] => claim'[r] = claim[r]
        PROVE  Leased'
    <3>1. \A q \in Process : pc'[q] \in {"renewing", "rewriting"} => taken'[job'[q]] # {}
      BY <2>1, <2>2 DEF Move, Goto, Leased
    <3>2. \A r \in Request : claim'[r] \in {"active", "expired"} => taken'[r] # {}
      BY <2>1, <2>2 DEF Leased
    <3> QED BY <3>1, <3>2 DEF Leased
  <2>3. CASE ReadForHeartbeat(p)
    <3>1. CASE claim[job[p]] \in {"absent", "torn"}
      BY <1>2, <2>3, <3>1 DEF ReadForHeartbeat
    <3>2. CASE claim[job[p]] \notin {"absent", "torn"}
      <4>1. taken[job[p]] # {}
        BY <2>0, <3>2 DEF Leased, FilesOK
      <4> QED BY <2>2, <2>3, <3>2, <4>1 DEF ReadForHeartbeat
    <3> QED BY <3>1, <3>2
  <2>4. CASE Heartbeat(p)
    <3>1. taken[job[p]] # {} /\ Move(p, "rewriting")
          /\ \A r \in Request : r # job[p] => claim'[r] = claim[r]
      BY <2>4 DEF Heartbeat, Leased, FilesOK
    <3> QED BY <2>2, <3>1
  <2>5. CASE WriteHeartbeat(p)
    <3>1. taken[job[p]] # {}
          /\ \A r \in Request : r # job[p] => claim'[r] = claim[r]
      BY <2>5 DEF WriteHeartbeat, Leased, FilesOK
    <3>2. CASE Quit(p)
      <4>1. \A r \in Request : claim'[r] = claim[r] \/ taken'[r] # {}
        BY <2>1, <3>1
      <4> QED BY <1>1, <3>2, <4>1, QuitFrame
    <3>3. CASE Move(p, "preflight")
      BY <2>2, <3>1, <3>3
    <3> QED BY <2>5, <3>2, <3>3 DEF WriteHeartbeat
  <2> QED BY <1>7, <2>3, <2>4, <2>5 DEF SendHeartbeat
<1>8. ASSUME NEW p \in Process, RunClaimed(p) PROVE Leased'
  <2>1. UNCHANGED claim
    BY <1>8 DEF RunClaimed, Preflight, RunCodex, CommitWork, Verify, Publish,
                CreateResult, WriteResult
  <2>2. Quit(p) \/ \E l \in Working \cup {"polling"} :
                     Goto(p, l) /\ \A q \in Process : q # p => job'[q] = job[q]
    BY <1>8 DEF RunClaimed, Preflight, RunCodex, CommitWork, Verify, Publish,
                CreateResult, WriteResult, Goes, Ends, Move, Working
  <2> QED BY <1>2, <1>3, <2>1, <2>2 DEF Working
<1>9. ASSUME NEW p \in Process, StopDaemon(p) \/ Crash(p) PROVE Leased'
  BY <1>2, <1>9 DEF StopDaemon, Crash
<1>10. ASSUME NEW r \in Request, LeaseRunsOut(r) PROVE Leased'
  <2>1. claim[r] = "active" /\ claim' = [claim EXCEPT ![r] = "expired"]
        /\ UNCHANGED <<taken, pc, job>>
    BY <1>10 DEF LeaseRunsOut
  <2> QED BY <2>1 DEF Leased, FilesOK
<1>11. CASE UNCHANGED vars
  BY <1>11 DEF vars, Leased
<1> QED BY <1>4, <1>5, <1>6, <1>7, <1>8, <1>9, <1>10, <1>11 DEF Next, Step

LEMMA ListedStep ==
  ASSUME TypeInv, Listed, [Next]_vars PROVE Listed'
<1> USE DEF TypeInv, MemoryInv, MemoryOK
<1>1. \A p \in Process : \A k \in 1 .. Len(todo'[p]) :
        \/ \E m \in 1 .. Len(todo[p]) : todo'[p][k] = todo[p][m]
        \/ \E m \in 1 .. Len(requests) : todo'[p][k] = requests[m]
  <2>1. ASSUME NEW p \in Process, \E t : todo' = [todo EXCEPT ![p] = t],
               \A k \in 1 .. Len(todo'[p]) :
                 \/ \E m \in 1 .. Len(todo[p]) : todo'[p][k] = todo[p][m]
                 \/ \E m \in 1 .. Len(requests) : todo'[p][k] = requests[m]
        PROVE  <1>1!:
    BY <2>1
  <2>2. CASE UNCHANGED todo
    BY <2>2
  <2>3. ASSUME NEW p \in Process, todo' = [todo EXCEPT ![p] = <<>>] PROVE <1>1!:
    <3>1. Len(todo'[p]) = 0
      BY <2>3
    <3>2. \A k \in 1 .. Len(todo'[p]) : FALSE
      BY <3>1
    <3> QED BY <2>1, <2>3, <3>2
  <2>4. ASSUME NEW p \in Process, ListRequests(p) PROVE <1>1!:
    <3>1. todo' = [todo EXCEPT ![p] = requests]
      BY <2>4 DEF ListRequests
    <3>2. todo'[p] = requests
      BY <3>1
    <3> QED BY <2>1, <3>1, <3>2
  <2>5. ASSUME NEW p \in Process, todo[p] # <<>>, todo' = [todo EXCEPT ![p] = Tail(@)]
        PROVE  <1>1!:
    <3>1. todo'[p] = Tail(todo[p]) /\ todo[p] \in Seq(Request)
      BY <2>5
    <3>2. Len(todo[p]) \in Nat /\ Len(todo'[p]) = Len(todo[p]) - 1
          /\ \A k \in 1 .. Len(todo[p]) - 1 : todo'[p][k] = todo[p][k + 1]
      BY <2>5, <3>1
    <3>3. \A k \in 1 .. Len(todo'[p]) : \E m \in 1 .. Len(todo[p]) : todo'[p][k] = todo[p][m]
      BY <3>2
    <3> QED BY <2>1, <2>5, <3>3
  <2>6. \/ UNCHANGED todo
        \/ \E p \in Process :
             \/ todo' = [todo EXCEPT ![p] = <<>>]
             \/ ListRequests(p)
             \/ todo[p] # <<>> /\ todo' = [todo EXCEPT ![p] = Tail(@)]
    <3>1. ASSUME NEW p \in Process, ExamineClaim(p) PROVE todo[p] # <<>>
      BY <3>1 DEF ExamineClaim, AtHand, Heading
    <3> QED BY <3>1 DEF Next, Step, ClaimNext, SendHeartbeat, RunClaimed, Start, Check,
           AppendRequest, ListResults, NothingToClaim, SkipCompleted, Skip, Move, Quit,
           CreateClaim, ExamineClaim, Reclaim, WriteClaim, ReadForHeartbeat,
           Heartbeat, WriteHeartbeat, Preflight, RunCodex, CommitWork, Verify,
           Publish, CreateResult, WriteResult, LeaseRunsOut, StopDaemon, Crash, vars
  <2> QED BY <2>2, <2>3, <2>4, <2>5, <2>6
<1>2. \A m \in 1 .. Len(requests) : requests[m] \in Request /\ Enqueued(requests[m])
  BY DEF FilesOK, Enqueued
<1>3. \A p \in Process : \A m \in 1 .. Len(todo[p]) :
        todo[p][m] \in Request /\ Enqueued(todo[p][m])
  BY DEF Listed
<1>4. \A r \in Request : Enqueued(r) => \E k \in 1 .. Len(requests') : requests'[k] = r
  BY OnlyMore DEF Enqueued
<1>5. ASSUME NEW p \in Process, NEW k \in 1 .. Len(todo'[p])
      PROVE  \E j \in 1 .. Len(requests') : requests'[j] = todo'[p][k]
  <2>1. todo'[p][k] \in Request /\ Enqueued(todo'[p][k])
    <3>1. CASE \E m \in 1 .. Len(todo[p]) : todo'[p][k] = todo[p][m]
      BY <1>3, <3>1
    <3>2. CASE \E m \in 1 .. Len(requests) : todo'[p][k] = requests[m]
      BY <1>2, <3>2
    <3> QED BY <1>1, <3>1, <3>2
  <2> QED BY <1>4, <2>1
<1> QED BY <1>5 DEF Listed, Enqueued

LEMMA TakeInvariant == Spec => []TakeInv
<1>1. Init => TakeInv
  <2> SUFFICES ASSUME Init PROVE TakeInv
    OBVIOUS
  <2>1. \A p \in Process : GivenOnce(p)
    BY DEF Init, GivenOnce
  <2>2. Leased
    BY DEF Init, Leased
  <2>3. \A p \in Process : Len(todo[p]) = 0
    BY DEF Init
  <2>4. Listed
    BY <2>3 DEF Listed
  <2> QED BY <2>1, <2>2, <2>4 DEF TakeInv
<1>2. TypeInv /\ RunInv /\ TakeInv /\ [Next]_vars => TakeInv'
  BY GivenStep, LeasedStep, ListedStep DEF TakeInv
<1> QED BY <1>1, <1>2, QueueInvariant, PTL DEF Spec

\* What the abstract queue sees of a step of p: what p has at hand.
LEMMA HeldStep ==
  ASSUME TypeInv, NEW p \in Process, Frame(p)
  PROVE  heldRequests' = [heldRequests EXCEPT ![p] = IF Holding(p)' THEN job'[p] ELSE None]
BY DEF heldRequests, Frame, Holding

\* A step of p that changes no file but perhaps its claim is a stutter, or p
\* drops what it has.
LEMMA QuietLease ==
  ASSUME TypeInv, NEW p \in Process, Frame(p),
         UNCHANGED <<requests, taken, lapsed, pulls, answers>>,
         Holding(p)' => Holding(p) /\ job'[p] = job[p]
  PROVE  [Lease!Next]_Lease!vars
<1>1. CASE Holding(p)'
  <2>1. heldRequests' = heldRequests
    BY <1>1, HeldStep DEF heldRequests
  <2> QED BY <2>1 DEF Lease!vars
<1>2. CASE ~Holding(p)'
  <2>1. heldRequests' = [heldRequests EXCEPT ![p] = None]
    BY <1>2, HeldStep
  <2>2. Lease!Drop(p)
    BY <2>1 DEF Lease!Drop
  <2> QED BY <2>2 DEF Lease!Next
<1> QED BY <1>1, <1>2

LEMMA AnswersStay == ASSUME UNCHANGED result PROVE UNCHANGED answers
BY DEF answers, Recorded

LEMMA QuitLease ==
  ASSUME TypeInv, NEW p \in Process, Quit(p),
         UNCHANGED <<requests, taken, lapsed, pulls, result>>
  PROVE  [Lease!Next]_Lease!vars
<1>1. Frame(p) /\ ~Holding(p)'
  BY QuitFrame DEF Holding
<1> QED BY <1>1, QuietLease, AnswersStay

\* Appending a request is enqueueing it.
LEMMA AppendIsEnqueue ==
  ASSUME TypeInv, NEW p \in Process, AppendRequest(p)
  PROVE  [Lease!Next]_Lease!vars
<1>1. /\ requests' = Append(requests, job[p]) /\ pc[p] = "appending"
      /\ UNCHANGED <<taken, lapsed, pulls, result>>
      /\ Quit(p) \/ Move(p, "polling")
  BY DEF AppendRequest
<1>2. job[p] \in Request /\ requests \in Seq(Request)
  BY <1>1 DEF TypeInv, FilesOK, MemoryInv, AtHand, Busy
<1>3. Frame(p) /\ pc'[p] \in {"ended", "polling"}
  BY <1>1, QuitFrame, MoveFrame
<1>4. heldRequests' = heldRequests
  <2>1. ~Holding(p)' /\ ~Holding(p)
    BY <1>1, <1>3 DEF Holding
  <2> QED BY <2>1, <1>3, HeldStep DEF heldRequests
<1>5. {requests'[k] : k \in 1 .. Len(requests')}
        = {requests[k] : k \in 1 .. Len(requests)} \cup {job[p]}
  <2>1. /\ Len(requests') = Len(requests) + 1 /\ Len(requests) \in Nat
        /\ requests'[Len(requests) + 1] = job[p]
        /\ \A k \in 1 .. Len(requests) : requests'[k] = requests[k]
    BY <1>1, <1>2
  <2>2. 1 .. Len(requests') = 1 .. Len(requests) \cup {Len(requests) + 1}
    BY <2>1
  <2> QED BY <2>1, <2>2
<1>6. PICK r \in Request : r = job[p]
  BY <1>2
<1>7. Lease!Enqueue(r)
  BY <1>1, <1>4, <1>5, <1>6, AnswersStay DEF Lease!Enqueue
<1> QED BY <1>7 DEF Lease!Next

\* claimNext returns: the request is taken, by its first process or after a
\* lease ran out.
LEMMA WriteIsTake ==
  ASSUME TypeInv, LeaseInv, RunInv, TakeInv, NEW p \in Process, WriteClaim(p)
  PROVE  [Lease!Next]_Lease!vars
<1> DEFINE r == Head(todo[p])
<1>1. /\ pc[p] = "writing" /\ taken' = [taken EXCEPT ![r] = @ \cup {p}]
      /\ UNCHANGED <<requests, result, lapsed, pulls>>
  BY DEF WriteClaim
<1>2. todo[p] # <<>> /\ todo[p] \in Seq(Request)
  BY <1>1 DEF TypeInv, MemoryInv, MemoryOK, AtHand, Heading
<1>3. r \in Request /\ Enqueued(r)
  <2>1. r = todo[p][1] /\ 1 \in 1 .. Len(todo[p])
    BY <1>2
  <2> QED BY <1>2, <2>1 DEF TakeInv, Listed
<1>4. r \in {requests[k] : k \in 1 .. Len(requests)}
  BY <1>3 DEF Enqueued
<1>5. p \notin taken[r]
  <2>1. r \notin done[p]
    BY <1>1 DEF RunInv, RunOK, Heading
  <2> QED BY <1>1, <1>3, <2>1 DEF TakeInv, GivenOnce, Holding, Heading
<1>6. taken[r] = {} \/ r \in lapsed
  <2>1. p \in Claimants(r) /\ taken[r] \subseteq Claimants(r)
    BY <1>1 DEF Claimants
  <2> QED BY <1>3, <1>5, <2>1 DEF LeaseInv
<1>7. heldRequests[p] = None
  BY <1>1 DEF heldRequests, Holding
<1>8. heldRequests' \in {heldRequests, [heldRequests EXCEPT ![p] = r]}
  <2>1. CASE Quit(p)
    <3>1. Frame(p) /\ ~Holding(p)'
      BY <2>1, QuitFrame DEF Holding
    <3> QED BY <3>1, <1>7, HeldStep DEF heldRequests
  <2>2. CASE ~Quit(p)
    <3>1. /\ Frame(p) /\ pc'[p] = "beating" /\ job'[p] = r
          /\ cmd'[p] \in {"daemon", "single"}
      BY <2>2, <1>3 DEF WriteClaim, Goto, Frame, TypeInv, MemoryInv, MemoryOK
    <3>2. Holding(p)'
      BY <3>1 DEF Holding
    <3> QED BY <3>1, <3>2, HeldStep
  <2> QED BY <2>1, <2>2
<1>9. Lease!Take(p, r)
  BY <1>1, <1>4, <1>5, <1>6, <1>7, <1>8, AnswersStay DEF Lease!Take
<1> HIDE DEF r
<1> QED BY <1>3, <1>9 DEF Lease!Next

\* A request of p with a pull request is answered or the one at hand.
LEMMA PublishIsOpen ==
  ASSUME TypeInv, RunInv, NEW p \in Process, Publish(p)
  PROVE  [Lease!Next]_Lease!vars
<1>1. /\ pc[p] = "publishing"
      /\ UNCHANGED <<requests, taken, lapsed, result, cmd, todo, done, job, work>>
      /\ Frame(p) /\ pc'[p] = "completing"
  BY DEF Publish, Ends, Goto, Frame, TypeInv, MemoryInv, MemoryOK
<1>2. Holding(p) /\ Holding(p)' /\ job[p] \in Request
  BY <1>1 DEF Holding, RunInv, RunOK, Working, TypeInv, MemoryInv, AtHand, Busy
<1>3. CASE UNCHANGED pulls
  BY <1>1, <1>2, <1>3, QuietLease, AnswersStay
<1>4. CASE pulls' = pulls \cup {PullOf(p)}
  <2>1. heldRequests' = heldRequests /\ heldRequests[p] = job[p]
    BY <1>1, <1>2, HeldStep DEF heldRequests
  <2>2. \A u \in pulls : u.by = p => u.request # job[p]
    BY <1>1 DEF RunInv, RunOK, Settled, Busy, Working
  <2>3. PullOf(p).request = job[p] /\ PullOf(p).by = p
    BY DEF PullOf
  <2>4. {<<u.request, u.by>> : u \in pulls'}
          = {<<u.request, u.by>> : u \in pulls} \cup {<<job[p], p>>}
    BY <1>4, <2>3
  <2>5. <<job[p], p>> \notin {<<u.request, u.by>> : u \in pulls}
    BY <2>2
  <2>6. PICK r \in Request : r = job[p]
    BY <1>2
  <2>7. Lease!Open(p, r)
    BY <1>1, <2>1, <2>4, <2>5, <2>6, AnswersStay DEF Lease!Open
  <2> QED BY <2>7 DEF Lease!Next
<1> QED BY <1>3, <1>4 DEF Publish

\* Creating the result file answers nothing yet; writing it does.
LEMMA CreateIsQuiet ==
  ASSUME TypeInv, RunInv, NEW p \in Process, CreateResult(p)
  PROVE  [Lease!Next]_Lease!vars
<1>1. pc[p] = "completing" /\ UNCHANGED <<requests, taken, lapsed, pulls>>
  BY DEF CreateResult
<1>2. CASE Quit(p) /\ UNCHANGED result
  BY <1>1, <1>2, QuitLease
<1>3. CASE /\ result[job[p]].status = "absent"
           /\ result' = [result EXCEPT ![job[p]] = [status |-> "torn", by |-> p]]
           /\ Move(p, "recording")
  <2>1. UNCHANGED answers
    <3>1. \A r \in Request : Recorded(r)' <=> Recorded(r)
      BY <1>3 DEF Recorded, Status, TypeInv, FilesOK
    <3>2. \A r \in Request : Recorded(r) => result'[r] = result[r]
      BY <1>3 DEF Recorded, Status, TypeInv, FilesOK
    <3> QED BY <3>1, <3>2 DEF answers
  <2>2. Frame(p) /\ pc'[p] = "recording" /\ UNCHANGED <<cmd, job>>
    BY <1>3, MoveFrame DEF Move
  <2>3. Holding(p)
    BY <1>1 DEF Holding, RunInv, RunOK, Working
  <2> QED BY <1>1, <2>1, <2>2, <2>3, QuietLease
<1>4. \/ Quit(p) /\ UNCHANGED result
      \/ /\ result[job[p]].status = "absent"
         /\ result' = [result EXCEPT ![job[p]] = [status |-> "torn", by |-> p]]
         /\ Move(p, "recording")
  BY DEF CreateResult
<1> QED BY <1>2, <1>3, <1>4

LEMMA WriteIsAnswer ==
  ASSUME TypeInv, RunInv, NEW p \in Process, WriteResult(p)
  PROVE  [Lease!Next]_Lease!vars
<1>1. /\ pc[p] = "recording" /\ UNCHANGED <<requests, taken, lapsed, pulls>>
      /\ result' = [result EXCEPT ![job[p]].status = outcome[p]]
  BY DEF WriteResult
<1>2. /\ Holding(p) /\ job[p] \in Request /\ outcome[p] \in Status
      /\ result[job[p]] = [status |-> "torn", by |-> p]
      /\ outcome[p] = "completed" => Opened(p, job[p])
  BY <1>1 DEF Holding, RunInv, RunOK, Working, TypeInv, MemoryInv, MemoryOK, AtHand,
              Busy
<1>3. result'[job[p]] = [status |-> outcome[p], by |-> p]
      /\ \A r \in Request : r # job[p] => result'[r] = result[r]
  BY <1>1, <1>2 DEF TypeInv, FilesOK
<1>4. heldRequests[p] = job[p]
  BY <1>2 DEF heldRequests
<1>5. heldRequests' = [heldRequests EXCEPT ![p] = None]
  <2>1. Frame(p) /\ pc'[p] \in {"polling", "ended"}
    <3>1. CASE Quit(p)
      BY <3>1, QuitFrame
    <3>2. CASE ~Quit(p)
      BY <3>2 DEF WriteResult, Goto, Frame, TypeInv, MemoryInv, MemoryOK
    <3> QED BY <3>1, <3>2
  <2>2. ~Holding(p)'
    BY <2>1 DEF Holding
  <2> QED BY <2>1, <2>2, HeldStep
<1>6. answers[job[p]] = [status |-> "absent", by |-> None]
  BY <1>2 DEF answers, Recorded, Status
<1>7. answers' = [answers EXCEPT ![job[p]] = [status |-> outcome[p], by |-> p]]
  <2>1. \A r \in Request : r # job[p] => answers'[r] = answers[r]
    BY <1>3 DEF answers, Recorded
  <2>2. answers'[job[p]] = [status |-> outcome[p], by |-> p]
    BY <1>2, <1>3 DEF answers, Recorded
  <2> QED BY <1>2, <2>1, <2>2 DEF answers
<1>8. outcome[p] = "completed" => <<job[p], p>> \in {<<u.request, u.by>> : u \in pulls}
  BY <1>2 DEF Opened
<1>9. Lease!Answer(p, job[p], outcome[p])
  BY <1>1, <1>4, <1>5, <1>6, <1>7, <1>8 DEF Lease!Answer, Lease!NoAnswer
<1> QED BY <1>2, <1>9 DEF Lease!Next

LEMMA LeaseImplemented ==
  ASSUME TypeInv, LeaseInv, RunInv, TakeInv, [Next]_vars
  PROVE  [Lease!Next]_Lease!vars
<1> USE DEF TypeInv, MemoryInv, MemoryOK
<1>1. ASSUME NEW p \in Process, NEW c \in Command, NEW r \in Request,
             Start(p, c, r)
      PROVE  [Lease!Next]_Lease!vars
  <2>1. /\ Frame(p) /\ UNCHANGED <<requests, result, taken, lapsed, pulls>>
        /\ cmd'[p] = c /\ pc'[p] \in {"checking", "polling", "beating"}
        /\ pc'[p] = "beating" => c = "heartbeat"
    BY <1>1, QueueAssumption DEF Start, Goto, Frame
  <2>2. ~Holding(p)'
    BY <2>1 DEF Holding
  <2> QED BY <2>1, <2>2, QuietLease, AnswersStay
<1>2. ASSUME NEW p \in Process, NEW l, Move(p, l),
             UNCHANGED <<requests, result, taken, lapsed, pulls>>,
             Holding(p)' => Holding(p)
      PROVE  [Lease!Next]_Lease!vars
  <2>1. Frame(p) /\ job' = job
    BY <1>2, MoveFrame DEF Move
  <2> QED BY <1>2, <2>1, QuietLease, AnswersStay
<1>3. ASSUME NEW p \in Process, Check(p) PROVE [Lease!Next]_Lease!vars
  <2>1. UNCHANGED <<requests, result, taken, lapsed, pulls>>
    BY <1>3 DEF Check
  <2>2. ASSUME Move(p, "appending") PROVE ~Holding(p)'
    BY <2>2, MoveFrame DEF Holding
  <2> QED BY <1>2, <1>3, <2>1, <2>2, QuitLease DEF Check
<1>4. ASSUME NEW p \in Process, ClaimNext(p) PROVE [Lease!Next]_Lease!vars
  <2>1. CASE WriteClaim(p)
    BY <2>1, WriteIsTake
  <2>2. CASE ~WriteClaim(p)
    <3>1. UNCHANGED <<requests, result, taken, lapsed, pulls>>
      BY <1>4, <2>2 DEF ClaimNext, ListRequests, ListResults, NothingToClaim,
                        SkipCompleted, CreateClaim, ExamineClaim, Reclaim
    <3>2. Frame(p)
      BY <1>4, ClaimGiven DEF TakeInv
    <3>3. CASE Quit(p)
      BY <3>1, <3>3, QuitLease
    <3>4. CASE ~Quit(p)
      <4>1. \E l \in {"listing", "claiming", "polling", "writing", "examining",
                      "reclaiming"} : Goto(p, l)
        BY <1>4, <2>2, <3>4 DEF ClaimNext, ListRequests, ListResults, NothingToClaim,
                          SkipCompleted, Skip, CreateClaim, ExamineClaim, Reclaim, Move
      <4>2. ~Holding(p)'
        BY <4>1 DEF Holding, Goto
      <4> QED BY <3>1, <3>2, <4>2, QuietLease, AnswersStay
    <3> QED BY <3>3, <3>4
  <2> QED BY <2>1, <2>2
<1>5. ASSUME NEW p \in Process, SendHeartbeat(p) PROVE [Lease!Next]_Lease!vars
  <2>1. /\ UNCHANGED <<requests, result, taken, lapsed, pulls>>
        /\ pc[p] \in {"beating", "renewing", "rewriting"}
        /\ Quit(p) \/ \E l \in {"renewing", "rewriting", "preflight"} : Move(p, l)
    BY <1>5 DEF SendHeartbeat, ReadForHeartbeat, Heartbeat, WriteHeartbeat
  <2>2. ASSUME NEW l, Move(p, l) PROVE Holding(p)' => Holding(p)
    BY <2>1, <2>2 DEF Move, Holding
  <2> QED BY <1>2, <2>1, <2>2, QuitLease
<1>6. ASSUME NEW p \in Process, Preflight(p) \/ RunCodex(p) \/ CommitWork(p) \/ Verify(p)
      PROVE  [Lease!Next]_Lease!vars
  <2>1. /\ UNCHANGED <<requests, result, taken, lapsed, pulls, cmd, todo, done, job>>
        /\ pc[p] \in Working
    BY <1>6 DEF Preflight, RunCodex, CommitWork, Verify, Working
  <2>2. \A q \in Process : q # p => work'[q] = work[q]
    BY <1>6 DEF Preflight, RunCodex, CommitWork, Verify
  <2>3. Frame(p)
    <3>1. (\E l \in Working : Goes(p, l)) \/ \E s \in Status : Ends(p, s)
      BY <1>6 DEF Preflight, RunCodex, CommitWork, Verify, Working, Status
    <3> QED BY <2>1, <2>2, <3>1 DEF Goes, Ends, Goto, Frame
  <2>4. Holding(p)
    BY <2>1 DEF Holding, RunInv, RunOK, Working
  <2> QED BY <2>1, <2>3, <2>4, QuietLease, AnswersStay
<1>7. ASSUME NEW p \in Process, StopDaemon(p) \/ Crash(p)
      PROVE  [Lease!Next]_Lease!vars
  BY <1>7, QuitLease DEF StopDaemon, Crash
<1>8. ASSUME NEW r \in Request, LeaseRunsOut(r) PROVE [Lease!Next]_Lease!vars
  <2>1. claim[r] = "active" /\ lapsed' = lapsed \cup {r}
        /\ UNCHANGED <<requests, result, taken, pulls, pc, cmd, job>>
    BY <1>8 DEF LeaseRunsOut
  <2>2. taken[r] # {}
    BY <2>1 DEF TakeInv, Leased
  <2>3. UNCHANGED heldRequests
    BY <2>1 DEF heldRequests, Holding
  <2>4. Lease!Lapse(r)
    BY <2>1, <2>2, <2>3, AnswersStay DEF Lease!Lapse
  <2> QED BY <2>4 DEF Lease!Next
<1>9. CASE UNCHANGED vars
  <2>1. UNCHANGED heldRequests /\ UNCHANGED answers
    BY <1>9, AnswersStay DEF vars, heldRequests, Holding
  <2> QED BY <1>9, <2>1 DEF vars, Lease!vars
<1> QED BY <1>1, <1>3, <1>4, <1>5, <1>6, <1>7, <1>8, <1>9, AppendIsEnqueue,
           PublishIsOpen, CreateIsQuiet, WriteIsAnswer
        DEF Next, Step, RunClaimed

\* Claim files, result files and commands implement LeasedQueue: whatever
\* interleaves or dies, a process has one request at a time and none twice,
\* a request goes to a second process only after a lease ran out, and it is
\* answered once, as completed only by the process that opened the pull
\* request for it.  Property ImplementsLeasedQueue.
THEOREM QueueImplementsLeased == Spec => ImplementsLeasedQueue
<1>1. Init => Lease!Init
  <2> SUFFICES ASSUME Init PROVE Lease!Init
    OBVIOUS
  <2>1. heldRequests = [p \in Process |-> None]
    BY DEF Init, heldRequests, Holding
  <2>2. answers = [r \in Request |-> Lease!NoAnswer]
    BY DEF Init, answers, Recorded, Status, Lease!NoAnswer
  <2>3. {<<u.request, u.by>> : u \in pulls} = {}
    BY DEF Init
  <2> QED BY <2>1, <2>2, <2>3 DEF Init, Lease!Init
<1>2. TypeInv /\ LeaseInv /\ RunInv /\ TakeInv /\ [Next]_vars => [Lease!Next]_Lease!vars
  BY LeaseImplemented
<1> QED BY <1>1, <1>2, QueueInvariant, TakeInvariant, PTL
        DEF Spec, ImplementsLeasedQueue, Lease!Spec
=============================================================================
