----------------------- MODULE GasCityPromotionProofs -----------------------
(***************************************************************************)
(* What the loop promises about Functions, for any constants: that a       *)
(* monitored Function was promoted on fresh evidence, that the state of a  *)
(* Function stands on the evidence its record names, and that nothing is   *)
(* forgotten while nothing fails.                                          *)
(*                                                                         *)
(* Promotion: a run of the monitor reads the verdict, then the completion  *)
(* event, then writes the report and last the state.  EvaluationInv says   *)
(* that what a run read still holds at each of these steps, although       *)
(* handlers write the same documents in between.  They can only write them *)
(* again with a later receipt and the same outcome (VerdictsKept, from     *)
(* GroundInv).                                                             *)
(*                                                                         *)
(* State: three writers set a record unread, so what must be inductive is  *)
(* that the evidence each of them names is there and stays (SupportKept).  *)
(*                                                                         *)
(* NothingForgotten: FollowInv says that what a completion or a state      *)
(* still lacks is the next write of a handler or run at work.              *)
(***************************************************************************)
EXTENDS GasCityLoopProofs

WasFresh(f) ==
  LET at == specsFunctions[f].evidence.at IN
    /\ \E b \in BeadsOf(f) :
         fidelityVerdicts[b].overall = "pass" /\ WithinWindow(fidelityVerdicts[b].at, at)
    /\ \E b \in BeadsOf(f) : WithinWindow(completionEvents[b], at)

RunInv(r) ==
  /\ mon[r].pc = "completion" /\ mon[r].fidelityFresh = TRUE => HasFreshPassVerdict(mon[r].fn)
  /\ \/ mon[r].pc = "report" /\ mon[r].overall = "pass"
     \/ mon[r].pc = "promote"
     => HasFreshPassVerdict(mon[r].fn) /\ HasFreshCompletion(mon[r].fn)

EvaluationInv == \A r \in Run : RunInv(r)

PromotionInv == EvaluationInv /\ PromotionWasFresh

\* A verdict, and a completion event, is kept or is written again at the
\* time it bears.
LEMMA VerdictsKept ==
  ASSUME TypeOK, GroundInv, [Next]_vars, NEW b \in Bead
  PROVE  \/ fidelityVerdicts'[b] = fidelityVerdicts[b]
         \/ /\ fidelityVerdicts[b].overall # "none" =>
                 fidelityVerdicts'[b].overall = fidelityVerdicts[b].overall
            /\ fidelityVerdicts[b].at \in {Never, now}
            /\ fidelityVerdicts'[b].at = now
<1>1. CASE \E d \in Handler : SaveFidelityVerdict(d)
  <2>1. PICK d \in Handler : SaveFidelityVerdict(d)
    BY <1>1
  <2>2. CASE h[d].bead # b
    BY <2>1, <2>2 DEF SaveFidelityVerdict, TypeOK, StoreTypeOK
  <2>3. CASE h[d].bead = b
    <3>1. HandlerInv(d) /\ BeadInv(b) /\ h[d].pc = "verdict"
      BY <2>1 DEF GroundInv, SaveFidelityVerdict
    <3>2. fidelityVerdicts'[b] =
            [at |-> now, overall |-> Overall(gcOutcome[b]), lineage |-> h[d].lineage]
      BY <2>1, <2>3 DEF SaveFidelityVerdict, TypeOK, StoreTypeOK
    <3>3. fidelityVerdicts'[b].overall = Overall(gcOutcome[b]) /\ fidelityVerdicts'[b].at = now
      BY <3>2
    <3> QED BY <2>3, <3>1, <3>3 DEF HandlerInv, BeadInv
  <2> QED BY <2>2, <2>3
<1>2. CASE ~\E d \in Handler : SaveFidelityVerdict(d)
  <2>1. fidelityVerdicts' = fidelityVerdicts
    <3>1. CASE UNCHANGED vars
      BY <3>1 DEF vars, storeVars
    <3>2. CASE WebhookNext
      BY <1>2, <3>2 DEF WebhookNext, HandlerStep, AnswerDuplicate, Deliver, Receive,
         LookupDispatch, SaveCompletionEvent, PatchLifecycleState, SaveLifecycleEdge,
         WriteRevisionSignal, WriteAmendmentDepthIncident, HandleOperationalEvent,
         HandlerFails, storeVars
    <3>3. CASE MonitorNext /\ UNCHANGED <<webhookVars, disp>>
      BY <3>3, MonitorTouchesNothing DEF intake
    <3>4. CASE DispatchNext
      BY <3>4 DEF DispatchNext, DispatcherStep, Sling, RecordDispatched, RecordLost, MarkRead,
         MarkWrite, MarkFails, GasCityCompletes, Tick, storeVars
    <3> QED BY <3>1, <3>2, <3>3, <3>4 DEF Next, DispatchNext
  <2> QED BY <2>1
<1> QED BY <1>1, <1>2

\* The same for completion events.
LEMMA CompletionsKept ==
  ASSUME TypeOK, GroundInv, [Next]_vars, NEW b \in Bead
  PROVE  \/ completionEvents'[b] = completionEvents[b]
         \/ completionEvents[b] \in {Never, now} /\ completionEvents'[b] = now
<1>1. CASE \E d \in Handler : SaveCompletionEvent(d)
  BY <1>1 DEF SaveCompletionEvent, TypeOK, StoreTypeOK, GroundInv, HandlerInv
<1>2. CASE ~\E d \in Handler : SaveCompletionEvent(d)
  <2>1. completionEvents' = completionEvents
    <3>1. CASE UNCHANGED vars
      BY <3>1 DEF vars, storeVars
    <3>2. CASE WebhookNext
      BY <1>2, <3>2 DEF WebhookNext, HandlerStep, AnswerDuplicate, Deliver, Receive,
         LookupDispatch, SaveFidelityVerdict, PatchLifecycleState, SaveLifecycleEdge,
         WriteRevisionSignal, WriteAmendmentDepthIncident, HandleOperationalEvent,
         HandlerFails, storeVars
    <3>3. CASE MonitorNext /\ UNCHANGED <<webhookVars, disp>>
      BY <3>3, MonitorTouchesNothing DEF intake
    <3>4. CASE DispatchNext
      BY <3>4 DEF DispatchNext, DispatcherStep, Sling, RecordDispatched, RecordLost, MarkRead,
         MarkWrite, MarkFails, GasCityCompletes, Tick, storeVars
    <3> QED BY <3>1, <3>2, <3>3, <3>4 DEF Next, DispatchNext
  <2> QED BY <2>1
<1> QED BY <1>1, <1>2

\* Fresh evidence stays fresh within a clock unit, and evidence that was
\* within the window of a promotion stays within it.
LEMMA FreshnessKept ==
  ASSUME TypeOK, GroundInv, [Next]_vars, NEW f \in Function
  PROVE  /\ now' = now /\ HasFreshPassVerdict(f) => HasFreshPassVerdict(f)'
         /\ now' = now /\ HasFreshCompletion(f) => HasFreshCompletion(f)'
         /\ specsFunctions'[f] = specsFunctions[f] /\ WasFresh(f) => WasFresh(f)'
<1>1. ASSUME now' = now, HasFreshPassVerdict(f) PROVE HasFreshPassVerdict(f)'
  <2>1. PICK b \in BeadsOf(f) :
          fidelityVerdicts[b].overall = "pass" /\ IsFresh(fidelityVerdicts[b].at)
    BY <1>1 DEF HasFreshPassVerdict
  <2>2. IsFresh(now) /\ b \in Bead
    BY MonitorAssumption DEF IsFresh, TypeOK, StoreTypeOK, Never, BeadsOf
  <2>3. fidelityVerdicts'[b].overall = "pass" /\ IsFresh(fidelityVerdicts'[b].at)
    BY <2>1, <2>2, VerdictsKept
  <2>4. IsFresh(fidelityVerdicts[b].at)'
    BY <1>1, <2>3 DEF IsFresh
  <2> QED BY <2>1, <2>3, <2>4 DEF HasFreshPassVerdict, BeadsOf
<1>2. ASSUME now' = now, HasFreshCompletion(f) PROVE HasFreshCompletion(f)'
  <2>1. PICK b \in BeadsOf(f) : IsFresh(completionEvents[b])
    BY <1>2 DEF HasFreshCompletion
  <2>2. IsFresh(now) /\ b \in Bead
    BY MonitorAssumption DEF IsFresh, TypeOK, StoreTypeOK, Never, BeadsOf
  <2>3. IsFresh(completionEvents'[b])
    BY <2>1, <2>2, CompletionsKept
  <2>4. IsFresh(completionEvents[b])'
    BY <1>2, <2>3 DEF IsFresh
  <2> QED BY <2>1, <2>4 DEF HasFreshCompletion, BeadsOf
<1>3. ASSUME specsFunctions'[f] = specsFunctions[f], WasFresh(f) PROVE WasFresh(f)'
  <2> DEFINE at == specsFunctions[f].evidence.at
  <2>1. PICK b \in BeadsOf(f) :
          fidelityVerdicts[b].overall = "pass" /\ WithinWindow(fidelityVerdicts[b].at, at)
    BY <1>3 DEF WasFresh
  <2>2. PICK c \in BeadsOf(f) : WithinWindow(completionEvents[c], at)
    BY <1>3 DEF WasFresh
  <2>3. b \in Bead /\ c \in Bead /\ at' = at
    BY <1>3 DEF BeadsOf
  <2>4. fidelityVerdicts'[b].overall = "pass" /\ fidelityVerdicts'[b].at = fidelityVerdicts[b].at
    BY <2>1, <2>3, VerdictsKept DEF WithinWindow
  <2>5. completionEvents'[c] = completionEvents[c]
    BY <2>2, <2>3, CompletionsKept DEF WithinWindow
  <2>6. WithinWindow(fidelityVerdicts[b].at, at)'
    BY <2>1, <2>3, <2>4 DEF WithinWindow
  <2>7. WithinWindow(completionEvents[c], at)'
    BY <2>2, <2>3, <2>5 DEF WithinWindow
  <2> QED BY <2>1, <2>2, <2>4, <2>6, <2>7 DEF WasFresh, BeadsOf
<1> QED BY <1>1, <1>2, <1>3

\* Only Promote makes a Function monitored.
LEMMA StateKept ==
  ASSUME TypeOK, [Next]_vars, NEW f \in Function
  PROVE  \/ specsFunctions'[f] = specsFunctions[f]
         \/ specsFunctions'[f].state # "monitored"
         \/ \E r \in Run : Promote(r) /\ f = mon[r].fn
<1>1. CASE UNCHANGED vars
  BY <1>1 DEF vars, storeVars
<1>2. ASSUME NEW d \in Handler, PatchLifecycleState(d)
      PROVE  specsFunctions'[f] = specsFunctions[f] \/ specsFunctions'[f].state # "monitored"
  BY <1>2 DEF PatchLifecycleState, PatchState, PutState, LifecycleState, TypeOK, StoreTypeOK
<1>3. CASE WebhookNext
  BY <1>2, <1>3 DEF WebhookNext, HandlerStep, AnswerDuplicate, Deliver, Receive,
     LookupDispatch, SaveCompletionEvent, SaveFidelityVerdict, SaveLifecycleEdge,
     WriteRevisionSignal, WriteAmendmentDepthIncident, HandleOperationalEvent,
     HandlerFails, storeVars
<1>4. ASSUME NEW r \in Run, Regress(r)
      PROVE  specsFunctions'[f] = specsFunctions[f] \/ specsFunctions'[f].state # "monitored"
  BY <1>4 DEF Regress, PatchState, PutState, TypeOK, StoreTypeOK
<1>5. ASSUME NEW r \in Run, Promote(r)
      PROVE  specsFunctions'[f] = specsFunctions[f] \/ f = mon[r].fn
  BY <1>5 DEF Promote, PatchState, PutState, TypeOK, StoreTypeOK
<1>6. CASE MonitorNext
  BY <1>4, <1>5, <1>6 DEF MonitorNext, RunStep, StartRun, StartRunTimesOut, QueryMonitored,
     QueryMonitoredTimesOut, QueryStale, QueryStaleTimesOut, RunFails, ReadFidelity,
     ReadLatestReport, ReadCompletion, WritePersistenceReport, PromoteEdge,
     AcceptedIncident, WriteFailReport, FailIncident, RegressEdge,
     WriteDispatchStaleIncident, EscalateRecurringIncidents, storeVars
<1>7. ASSUME NEW b \in Bead, MarkWrite(b)
      PROVE  specsFunctions'[f] = specsFunctions[f] \/ specsFunctions'[f].state # "monitored"
  BY <1>7 DEF MarkWrite, PutState, TypeOK, StoreTypeOK
<1>8. CASE DispatchNext
  BY <1>7, <1>8 DEF DispatchNext, DispatcherStep, Sling, RecordDispatched, RecordLost, MarkRead,
     MarkFails, GasCityCompletes, Tick, storeVars
<1> QED BY <1>1, <1>3, <1>6, <1>8 DEF Next, DispatchNext

\* A run that stays where it is keeps what its evaluation relies on.
LEMMA RunKept ==
  ASSUME TypeOK, GroundInv, [Next]_vars, NEW r \in Run, RunInv(r),
         now' = now, mon'[r] = mon[r]
  PROVE  RunInv(r)'
<1>1. mon[r].pc \in {"completion", "report", "promote"} => mon[r].fn \in Function
  BY DEF TypeOK, MonitorTypeOK, InLoopBody, MonitorPc
<1> QED BY <1>1, FreshnessKept DEF RunInv

\* The local state of a run after each form of assignment to it.
LEMMA RunMoves ==
  ASSUME TypeOK, NEW r \in Run
  PROVE  /\ \A pc, rows : Enter(r, pc, rows) => mon'[r].pc = pc
         /\ \A pc : NextRow(r, pc) => mon'[r].pc = pc
         /\ \A pc : Advance(r, pc) => /\ mon'[r].pc = pc
                                      /\ mon'[r].fn = mon[r].fn
                                      /\ mon'[r].overall = mon[r].overall
         /\ \A x : Handled(r, x) => mon'[r].pc = mon[r].pc
         /\ mon' = [mon EXCEPT ![r] = NoRun] => mon'[r].pc = "idle"
<1>1. mon \in [Run -> RunState] /\ mon[r] \in RunState
  BY DEF TypeOK, MonitorTypeOK
<1>2. ASSUME NEW pc, NEW rows, Enter(r, pc, rows) PROVE mon'[r].pc = pc
  BY <1>1, <1>2 DEF Enter, NoRun
<1>3. ASSUME NEW pc, NextRow(r, pc) PROVE mon'[r].pc = pc
  BY <1>2, <1>3 DEF NextRow
<1>4. ASSUME NEW pc, Advance(r, pc)
      PROVE  mon'[r].pc = pc /\ mon'[r].fn = mon[r].fn /\ mon'[r].overall = mon[r].overall
  BY <1>1, <1>4 DEF Advance, RunState
<1>5. ASSUME NEW x, Handled(r, x) PROVE mon'[r].pc = mon[r].pc
  BY <1>1, <1>5 DEF Handled, RunState
<1>6. ASSUME mon' = [mon EXCEPT ![r] = NoRun] PROVE mon'[r].pc = "idle"
  BY <1>1, <1>6 DEF NoRun
<1> QED BY <1>2, <1>3, <1>4, <1>5, <1>6

\* The steps of run r, by name.
RunNext(r) ==
  \/ StartRun(r) \/ RunStep(r)
  \/ StartRunTimesOut(r) \/ QueryMonitoredTimesOut(r) \/ QueryStaleTimesOut(r) \/ RunFails(r)

\* The steps of a run leave the other runs alone.
LEMMA OthersKept ==
  ASSUME TypeOK, NEW r \in Run, RunNext(r), NEW q \in Run, q # r
  PROVE  mon'[q] = mon[q]
<1>1. mon \in [Run -> RunState]
  BY DEF TypeOK, MonitorTypeOK
<1>2. \A m : mon' = [mon EXCEPT ![r] = m] => mon'[q] = mon[q]
  BY <1>1
<1> QED
  BY <1>1, <1>2 DEF RunNext, RunStep, StartRun, StartRunTimesOut, QueryMonitored,
     QueryMonitoredTimesOut, QueryStale, QueryStaleTimesOut, RunFails, ReadFidelity,
     ReadLatestReport, ReadCompletion, WritePersistenceReport, Promote, PromoteEdge,
     AcceptedIncident, WriteFailReport, FailIncident, Regress, RegressEdge,
     WriteDispatchStaleIncident, EscalateRecurringIncidents, Enter, NextRow, Advance, Handled

\* Every step of a run keeps what its own evaluation relies on.
LEMMA OwnStepKept ==
  ASSUME TypeOK, GroundInv, [Next]_vars, NEW r \in Run, RunInv(r), RunNext(r), now' = now
  PROVE  RunInv(r)'
<1>a. mon \in [Run -> RunState] /\ mon[r] \in RunState
  BY DEF TypeOK, MonitorTypeOK
<1>b. \A f \in Function : /\ HasFreshPassVerdict(f) => HasFreshPassVerdict(f)'
                          /\ HasFreshCompletion(f) => HasFreshCompletion(f)'
  BY FreshnessKept
<1>1. ASSUME NEW f \in Function, ReadFidelity(r, f) PROVE RunInv(r)'
  <2>1. /\ mon'[r].pc = "completion" /\ mon'[r].fn = f
        /\ mon'[r].fidelityFresh = HasFreshPassVerdict(f)
    BY <1>1, <1>a DEF ReadFidelity, RunState
  <2> QED BY <1>b, <2>1 DEF RunInv
<1>2. ASSUME ReadCompletion(r) PROVE RunInv(r)'
  <2>1. mon[r].fn \in Function /\ mon[r].pc = "completion" /\ mon[r].fidelityFresh \in BOOLEAN
    BY <1>2, <1>a DEF ReadCompletion, TypeOK, MonitorTypeOK, RunState, InLoopBody, MonitorPc
  <2>2. mon'[r].pc = "report" /\ mon'[r].fn = mon[r].fn
        /\ (mon'[r].overall = "pass" => mon[r].fidelityFresh /\ HasFreshCompletion(mon[r].fn))
    BY <1>2, <1>a DEF ReadCompletion, RunState
  <2>3. ASSUME mon'[r].overall = "pass"
        PROVE  HasFreshPassVerdict(mon[r].fn)' /\ HasFreshCompletion(mon[r].fn)'
    <3>1. HasFreshPassVerdict(mon[r].fn) /\ HasFreshCompletion(mon[r].fn)
      BY <2>1, <2>2, <2>3 DEF RunInv
    <3> QED BY <1>b, <2>1, <2>2, <3>1
  <2> QED BY <2>2, <2>3 DEF RunInv
<1>3. ASSUME WritePersistenceReport(r) PROVE RunInv(r)'
  <2>1. mon[r].fn \in Function /\ mon[r].pc = "report"
    BY <1>3 DEF WritePersistenceReport, TypeOK, MonitorTypeOK, InLoopBody, MonitorPc
  <2>2. /\ mon'[r].fn = mon[r].fn
        /\ mon'[r].pc = IF mon[r].overall = "pass" THEN "promote" ELSE "acceptedIncident"
    BY <1>3, RunMoves DEF WritePersistenceReport
  <2> QED BY <1>b, <2>1, <2>2 DEF RunInv
<1>4. ASSUME ~\E f \in Function : ReadFidelity(r, f), ~ReadCompletion(r),
             ~WritePersistenceReport(r)
      PROVE  mon'[r].pc \notin {"completion", "report", "promote"}
  <2>1. ASSUME NEW f \in Function, ReadLatestReport(r, f)
        PROVE  mon'[r].pc \in {"monitored", "failReport"}
    <3>1. CASE Handled(r, f)
      BY <2>1, <3>1, RunMoves DEF ReadLatestReport
    <3>2. CASE mon' = [mon EXCEPT ![r].pc = "failReport", ![r].fn = f]
      BY <1>a, <3>2 DEF RunState
    <3> QED BY <2>1, <3>1, <3>2 DEF ReadLatestReport
  <2>2. ASSUME NEW b \in Bead, WriteDispatchStaleIncident(r, b) PROVE mon'[r].pc = "stale"
    BY <2>2, RunMoves DEF WriteDispatchStaleIncident
  <2>3. ASSUME \/ StartRun(r) \/ StartRunTimesOut(r) \/ QueryMonitored(r)
               \/ QueryMonitoredTimesOut(r) \/ QueryStale(r) \/ QueryStaleTimesOut(r)
        PROVE  mon'[r].pc \in {"accepted", "monitored", "stale"}
    BY <2>3, RunMoves DEF StartRun, StartRunTimesOut, QueryMonitored, QueryMonitoredTimesOut,
       QueryStale, QueryStaleTimesOut
  <2>4. ASSUME \/ Promote(r) \/ PromoteEdge(r) \/ AcceptedIncident(r) \/ WriteFailReport(r)
               \/ FailIncident(r) \/ Regress(r) \/ RegressEdge(r)
        PROVE  mon'[r].pc \in {"promoteEdge", "accepted", "failIncident", "regress",
                               "regressEdge", "monitored"}
    BY <2>4, RunMoves DEF Promote, PromoteEdge, AcceptedIncident, WriteFailReport,
       FailIncident, Regress, RegressEdge
  <2>5. ASSUME RunFails(r) \/ EscalateRecurringIncidents(r) PROVE mon'[r].pc = "idle"
    BY <2>5, RunMoves DEF RunFails, EscalateRecurringIncidents
  <2> QED BY <1>4, <2>1, <2>2, <2>3, <2>4, <2>5 DEF RunNext, RunStep
<1> QED BY <1>1, <1>2, <1>3, <1>4 DEF RunInv

\* Every step keeps what the evaluations of all runs rely on.
LEMMA EvaluationKept ==
  ASSUME TypeOK, GroundInv, EvaluationInv, [Next]_vars
  PROVE  EvaluationInv'
<1>1. CASE Tick
  BY <1>1 DEF Tick, Settled, EvaluationInv, RunInv
<1>2. CASE mon' = mon /\ ~Tick
  <2>1. now' = now
    <3>1. CASE UNCHANGED vars
      BY <3>1 DEF vars, storeVars
    <3>2. CASE WebhookNext
      BY <3>2 DEF WebhookNext, HandlerStep, AnswerDuplicate, Deliver, Receive,
         LookupDispatch, SaveCompletionEvent, SaveFidelityVerdict, PatchLifecycleState,
         SaveLifecycleEdge, WriteRevisionSignal, WriteAmendmentDepthIncident,
         HandleOperationalEvent, HandlerFails, storeVars
    <3>3. CASE MonitorNext /\ UNCHANGED <<webhookVars, disp>>
      BY <3>3, MonitorTouchesNothing DEF intake
    <3>4. CASE DispatchNext
      BY <1>2, <3>4 DEF DispatchNext, DispatcherStep, Sling, RecordDispatched, RecordLost,
         MarkRead, MarkWrite, MarkFails, GasCityCompletes, storeVars
    <3> QED BY <3>1, <3>2, <3>3, <3>4 DEF Next, DispatchNext
  <2> QED BY <1>2, <2>1, RunKept DEF EvaluationInv
<1>3. CASE MonitorNext /\ UNCHANGED <<webhookVars, disp>>
  <2>1. now' = now
    BY <1>3, MonitorTouchesNothing DEF intake
  <2>2. PICK r \in Run : RunNext(r)
    BY <1>3 DEF MonitorNext, RunNext
  <2>3. ASSUME NEW q \in Run PROVE RunInv(q)'
    <3>1. CASE q = r
      BY <2>1, <2>2, <3>1, OwnStepKept DEF EvaluationInv
    <3>2. CASE q # r
      BY <2>1, <2>2, <3>2, OthersKept, RunKept DEF EvaluationInv
    <3> QED BY <3>1, <3>2
  <2> QED BY <2>3 DEF EvaluationInv
<1> QED
  BY <1>1, <1>2, <1>3 DEF Next, vars, DispatcherStep, Sling, RecordDispatched, RecordLost,
     MarkRead, MarkWrite, MarkFails, GasCityCompletes

\* A monitored Function had a pass verdict and a completion event within
\* the freshness window when it was promoted, for any window and any
\* interleaving: property PromotionWasFresh.
THEOREM LoopPromotionWasFresh == Spec => []PromotionWasFresh
<1>1. Init => PromotionInv
  BY DEF Init, StoreInit, MonitorInit, NoRun, NoState, PromotionInv, EvaluationInv, RunInv, PromotionWasFresh
<1>2. ASSUME TypeOK, GroundInv, PromotionInv, [Next]_vars PROVE PromotionInv'
  <2>1. EvaluationInv'
    BY <1>2, EvaluationKept DEF PromotionInv
  <2>2. ASSUME NEW f \in Function, specsFunctions'[f].state = "monitored"
        PROVE  WasFresh(f)'
    <3>1. CASE specsFunctions'[f] = specsFunctions[f]
      BY <1>2, <2>2, <3>1, FreshnessKept DEF PromotionInv, PromotionWasFresh, WasFresh
    <3>2. ASSUME NEW r \in Run, Promote(r), f = mon[r].fn PROVE WasFresh(f)'
      <4>1. /\ specsFunctions'[f].evidence.at = now
            /\ fidelityVerdicts' = fidelityVerdicts /\ completionEvents' = completionEvents
        BY <1>2, <3>2 DEF Promote, PatchState, PutState, PersistenceKey, TypeOK, StoreTypeOK
      <4>2. HasFreshPassVerdict(f) /\ HasFreshCompletion(f)
        BY <1>2, <3>2 DEF Promote, PromotionInv, EvaluationInv, RunInv
      <4>3. PICK b \in BeadsOf(f) :
              fidelityVerdicts[b].overall = "pass" /\ IsFresh(fidelityVerdicts[b].at)
        BY <4>2 DEF HasFreshPassVerdict
      <4>4. PICK c \in BeadsOf(f) : IsFresh(completionEvents[c])
        BY <4>2 DEF HasFreshCompletion
      <4>5. b \in Bead /\ c \in Bead /\ now \in Nat /\ FreshnessWindow \in Nat
            /\ fidelityVerdicts[b].at \in Int /\ completionEvents[c] \in Int
        BY <1>2, MonitorAssumption DEF BeadsOf, TypeOK, StoreTypeOK, Time
      <4>6. fidelityVerdicts[b].at <= now /\ completionEvents[c] <= now
        BY <1>2, <4>3, <4>5 DEF GroundInv, BeadInv
      <4>7. WithinWindow(fidelityVerdicts[b].at, now) /\ WithinWindow(completionEvents[c], now)
        BY <4>3, <4>4, <4>5, <4>6 DEF IsFresh, WithinWindow
      <4> QED BY <4>1, <4>3, <4>7 DEF WasFresh, WithinWindow, BeadsOf
    <3> QED BY <1>2, <2>2, <3>1, <3>2, StateKept
  <2> QED BY <2>1, <2>2 DEF PromotionInv, PromotionWasFresh, WasFresh
<1>3. Init => TypeOK /\ GroundInv
  BY InitTypes, InitGround
<1>4. TypeOK /\ GroundInv /\ [Next]_vars => (TypeOK /\ GroundInv)'
  BY NextTypes, NextGround
<1> QED BY <1>1, <1>2, <1>3, <1>4, PTL DEF Spec, PromotionInv
----------------------------------------------------------------------------
(***************************************************************************)
(* That the stored state of a Function always stands on the evidence its   *)
(* record names, for any constants, although webhook, monitor and          *)
(* dispatcher overwrite the record without reading it.  A handler's patch  *)
(* rests on GroundInv: the verdict it names is there and has the outcome   *)
(* that it goes by.  A run's patch rests on ReportInv: the report of its   *)
(* Function is of this clock unit when it patches.                         *)
(***************************************************************************)

ReportInv ==
  /\ \A f \in Function : persistenceVerdicts[f].at <= now
  /\ \A r \in Run : mon[r].pc \in {"promote", "failIncident", "regress"} =>
       persistenceVerdicts[mon[r].fn].at = now

StateInv == ReportInv /\ StateGrounded

\* A report is kept, or the latest one is of this clock unit.
LEMMA ReportsKept ==
  ASSUME TypeOK, [Next]_vars, NEW f \in Function
  PROVE  \/ persistenceVerdicts'[f] = persistenceVerdicts[f]
         \/ persistenceVerdicts'[f].at = now /\ now' = now
<1>1. ASSUME NEW r \in Run, NEW ov, SaveReport(r, ov)
      PROVE  \/ persistenceVerdicts'[f] = persistenceVerdicts[f]
             \/ persistenceVerdicts'[f].at = now
  <2>1. persistenceVerdicts \in [Function -> [at : Time, overall : {"pass", "fail", "none"}]]
    BY DEF TypeOK, StoreTypeOK
  <2>2. PICK latest \in {[at |-> now, overall |-> ov], persistenceVerdicts[mon[r].fn]} :
          persistenceVerdicts' = [persistenceVerdicts EXCEPT ![mon[r].fn] = latest]
    BY <1>1 DEF SaveReport
  <2>3. CASE f # mon[r].fn
    BY <2>1, <2>2, <2>3
  <2>4. CASE f = mon[r].fn
    BY <2>1, <2>2, <2>4
  <2> QED BY <2>3, <2>4
<1>2. CASE UNCHANGED vars
  BY <1>2 DEF vars, storeVars
<1>3. CASE WebhookNext
  BY <1>3 DEF WebhookNext, HandlerStep, AnswerDuplicate, Deliver, Receive,
     LookupDispatch, SaveCompletionEvent, SaveFidelityVerdict, PatchLifecycleState,
     SaveLifecycleEdge, WriteRevisionSignal, WriteAmendmentDepthIncident,
     HandleOperationalEvent, HandlerFails, storeVars
<1>4. CASE MonitorNext /\ UNCHANGED <<webhookVars, disp>>
  <2>1. now' = now
    BY <1>4, MonitorTouchesNothing DEF intake
  <2>2. ASSUME NEW r \in Run, WritePersistenceReport(r) \/ WriteFailReport(r)
        PROVE  \/ persistenceVerdicts'[f] = persistenceVerdicts[f]
               \/ persistenceVerdicts'[f].at = now
    BY <1>1, <2>2 DEF WritePersistenceReport, WriteFailReport
  <2>3. \/ persistenceVerdicts'[f] = persistenceVerdicts[f]
        \/ persistenceVerdicts'[f].at = now
    BY <1>4, <2>2 DEF MonitorNext, RunStep, StartRun, StartRunTimesOut, QueryMonitored,
       QueryMonitoredTimesOut, QueryStale, QueryStaleTimesOut, RunFails, ReadFidelity,
       ReadLatestReport, ReadCompletion, Promote, PromoteEdge, AcceptedIncident,
       FailIncident, Regress, RegressEdge, WriteDispatchStaleIncident,
       EscalateRecurringIncidents, storeVars
  <2> QED BY <2>1, <2>3
<1>5. CASE DispatchNext
  BY <1>5 DEF DispatchNext, DispatcherStep, Sling, RecordDispatched, RecordLost, MarkRead,
     MarkWrite, MarkFails, GasCityCompletes, Tick, storeVars
<1> QED BY <1>2, <1>3, <1>4, <1>5 DEF Next, DispatchNext

\* Time passes only while every run is idle.
LEMMA TimeKept ==
  ASSUME TypeOK, [Next]_vars
  PROVE  \/ now' = now
         \/ /\ now' = now + 1 /\ mon' = mon
            /\ \A r \in Run : mon[r].pc = "idle"
<1>1. CASE UNCHANGED vars
  BY <1>1 DEF vars, storeVars
<1>2. CASE WebhookNext
  BY <1>2 DEF WebhookNext, HandlerStep, AnswerDuplicate, Deliver, Receive,
     LookupDispatch, SaveCompletionEvent, SaveFidelityVerdict, PatchLifecycleState,
     SaveLifecycleEdge, WriteRevisionSignal, WriteAmendmentDepthIncident,
     HandleOperationalEvent, HandlerFails, storeVars
<1>3. CASE MonitorNext /\ UNCHANGED <<webhookVars, disp>>
  BY <1>3, MonitorTouchesNothing DEF intake
<1>4. CASE Tick
  BY <1>4 DEF Tick, Settled
<1>5. CASE DispatchNext /\ ~Tick
  BY <1>5 DEF DispatchNext, DispatcherStep, Sling, RecordDispatched, RecordLost,
     MarkRead, MarkWrite, MarkFails, GasCityCompletes, storeVars
<1> QED BY <1>1, <1>2, <1>3, <1>4, <1>5 DEF Next, DispatchNext

\* A run comes to a patch of the state only by way of a report of its own.
LEMMA ComesByReport ==
  ASSUME TypeOK, NEW r \in Run, RunNext(r),
         mon'[r].pc \in {"promote", "failIncident", "regress"}
  PROVE  /\ mon'[r].fn = mon[r].fn /\ mon[r].fn \in Function
         /\ \/ WritePersistenceReport(r) \/ WriteFailReport(r)
            \/ mon[r].pc = "failIncident"
<1>a. mon \in [Run -> RunState] /\ mon[r] \in RunState
  BY DEF TypeOK, MonitorTypeOK
<1>1. ASSUME NEW f \in Function, ReadFidelity(r, f) PROVE mon'[r].pc = "completion"
  BY <1>1, <1>a DEF ReadFidelity, RunState
<1>2. ASSUME ReadCompletion(r) PROVE mon'[r].pc = "report"
  BY <1>2, <1>a DEF ReadCompletion, RunState
<1>3. ASSUME NEW f \in Function, ReadLatestReport(r, f)
      PROVE  mon'[r].pc \in {"monitored", "failReport"}
  <2>1. CASE Handled(r, f)
    BY <1>3, <2>1, RunMoves DEF ReadLatestReport
  <2>2. CASE mon' = [mon EXCEPT ![r].pc = "failReport", ![r].fn = f]
    BY <1>a, <2>2 DEF RunState
  <2> QED BY <1>3, <2>1, <2>2 DEF ReadLatestReport
<1>4. ASSUME NEW b \in Bead, WriteDispatchStaleIncident(r, b) PROVE mon'[r].pc = "stale"
  BY <1>4, RunMoves DEF WriteDispatchStaleIncident
<1>5. ASSUME \/ StartRun(r) \/ StartRunTimesOut(r) \/ QueryMonitored(r)
             \/ QueryMonitoredTimesOut(r) \/ QueryStale(r) \/ QueryStaleTimesOut(r)
      PROVE  mon'[r].pc \in {"accepted", "monitored", "stale"}
  BY <1>5, RunMoves DEF StartRun, StartRunTimesOut, QueryMonitored, QueryMonitoredTimesOut,
     QueryStale, QueryStaleTimesOut
<1>6. ASSUME Promote(r) \/ PromoteEdge(r) \/ AcceptedIncident(r) \/ Regress(r) \/ RegressEdge(r)
      PROVE  mon'[r].pc \in {"promoteEdge", "accepted", "regressEdge", "monitored"}
  BY <1>6, RunMoves DEF Promote, PromoteEdge, AcceptedIncident, Regress, RegressEdge
<1>7. ASSUME RunFails(r) \/ EscalateRecurringIncidents(r) PROVE mon'[r].pc = "idle"
  BY <1>7, RunMoves DEF RunFails, EscalateRecurringIncidents
<1>8. WritePersistenceReport(r) \/ WriteFailReport(r) \/ FailIncident(r)
  BY <1>1, <1>2, <1>3, <1>4, <1>5, <1>6, <1>7 DEF RunNext, RunStep
<1>9. mon'[r].fn = mon[r].fn
  BY <1>8, RunMoves DEF WritePersistenceReport, WriteFailReport, FailIncident
<1>10. mon[r].fn \in Function
  BY <1>8 DEF WritePersistenceReport, WriteFailReport, FailIncident, TypeOK, MonitorTypeOK,
     InLoopBody, MonitorPc
<1> QED BY <1>8, <1>9, <1>10 DEF FailIncident

\* ReportInv is inductive relative to the types.
LEMMA NextReport ==
  ASSUME TypeOK, ReportInv, [Next]_vars
  PROVE  ReportInv'
<1>1. now \in Nat /\ \A f \in Function : persistenceVerdicts[f].at \in Int
  BY DEF TypeOK, StoreTypeOK, Time
<1>2. ASSUME NEW f \in Function PROVE persistenceVerdicts'[f].at <= now'
  BY <1>1, ReportsKept, TimeKept DEF ReportInv
<1>3. ASSUME NEW q \in Run, mon'[q].pc \in {"promote", "failIncident", "regress"}
      PROVE  persistenceVerdicts'[mon'[q].fn].at = now'
  <2>1. CASE mon'[q] = mon[q]
    <3>1. mon[q].fn \in Function /\ persistenceVerdicts[mon[q].fn].at = now
      BY <1>3, <2>1 DEF ReportInv, TypeOK, MonitorTypeOK, InLoopBody, MonitorPc
    <3>2. now' = now
      BY <1>3, <2>1, TimeKept
    <3> QED BY <2>1, <3>1, <3>2, ReportsKept
  <2>2. CASE mon'[q] # mon[q]
    <3>1. MonitorNext /\ UNCHANGED <<webhookVars, disp>>
      BY <2>2 DEF Next, vars, DispatcherStep, Sling, RecordDispatched, RecordLost,
         MarkRead, MarkWrite, MarkFails, GasCityCompletes, Tick
    <3>2. PICK r \in Run : RunNext(r)
      BY <3>1 DEF MonitorNext, RunNext
    <3>3. q = r
      BY <2>2, <3>2, OthersKept
    <3>4. now' = now
      BY <3>1, MonitorTouchesNothing DEF intake
    <3>5. /\ mon'[q].fn = mon[q].fn /\ mon[q].fn \in Function
          /\ \/ WritePersistenceReport(q) \/ WriteFailReport(q)
             \/ mon[q].pc = "failIncident"
      BY <1>3, <3>2, <3>3, ComesByReport
    <3>6. ASSUME WritePersistenceReport(q) \/ WriteFailReport(q)
          PROVE  persistenceVerdicts'[mon[q].fn].at = now
      <4>1. PICK ov \in {mon[q].overall, "fail"} : SaveReport(q, ov)
        BY <3>6 DEF WritePersistenceReport, WriteFailReport
      <4>2. persistenceVerdicts \in [Function -> [at : Time, overall : {"pass", "fail", "none"}]]
        BY DEF TypeOK, StoreTypeOK
      <4>3. PICK latest : /\ latest.at = now
                          /\ persistenceVerdicts' = [persistenceVerdicts EXCEPT ![mon[q].fn] = latest]
        BY <4>1 DEF SaveReport
      <4> QED BY <3>5, <4>2, <4>3
    <3>7. ASSUME mon[q].pc = "failIncident" PROVE persistenceVerdicts'[mon[q].fn].at = now
      BY <3>5, <3>7, ReportsKept DEF ReportInv
    <3> QED BY <3>4, <3>5, <3>6, <3>7
  <2> QED BY <2>1, <2>2
<1> QED BY <1>2, <1>3 DEF ReportInv

\* The four steps that write a Function's record, and no other.
LEMMA StateWriters ==
  ASSUME TypeOK, [Next]_vars, NEW f \in Function
  PROVE  \/ specsFunctions'[f] = specsFunctions[f]
         \/ \E d \in Handler : PatchLifecycleState(d) /\ f = FnOf[h[d].bead]
         \/ \E r \in Run : (Promote(r) \/ Regress(r)) /\ f = mon[r].fn
         \/ \E b \in Bead : MarkWrite(b) /\ f = FnOf[b]
<1>a. \A g, s, k : PutState(g, s, k) /\ f # g => specsFunctions'[f] = specsFunctions[f]
  BY DEF PutState, TypeOK, StoreTypeOK
<1>1. CASE UNCHANGED vars
  BY <1>1 DEF vars, storeVars
<1>2. ASSUME NEW d \in Handler, PatchLifecycleState(d), f # FnOf[h[d].bead]
      PROVE  specsFunctions'[f] = specsFunctions[f]
  BY <1>2, <1>a DEF PatchLifecycleState, PatchState
<1>3. CASE WebhookNext
  BY <1>2, <1>3 DEF WebhookNext, HandlerStep, AnswerDuplicate, Deliver, Receive,
     LookupDispatch, SaveCompletionEvent, SaveFidelityVerdict, SaveLifecycleEdge,
     WriteRevisionSignal, WriteAmendmentDepthIncident, HandleOperationalEvent,
     HandlerFails, storeVars
<1>4. ASSUME NEW r \in Run, Promote(r) \/ Regress(r), f # mon[r].fn
      PROVE  specsFunctions'[f] = specsFunctions[f]
  BY <1>4, <1>a DEF Promote, Regress, PatchState
<1>5. CASE MonitorNext
  BY <1>4, <1>5 DEF MonitorNext, RunStep, StartRun, StartRunTimesOut, QueryMonitored,
     QueryMonitoredTimesOut, QueryStale, QueryStaleTimesOut, RunFails, ReadFidelity,
     ReadLatestReport, ReadCompletion, WritePersistenceReport, PromoteEdge,
     AcceptedIncident, WriteFailReport, FailIncident, RegressEdge,
     WriteDispatchStaleIncident, EscalateRecurringIncidents, storeVars
<1>6. ASSUME NEW b \in Bead, MarkWrite(b), f # FnOf[b]
      PROVE  specsFunctions'[f] = specsFunctions[f]
  BY <1>6, <1>a DEF MarkWrite
<1>7. CASE DispatchNext
  BY <1>6, <1>7 DEF DispatchNext, DispatcherStep, Sling, RecordDispatched, RecordLost, MarkRead,
     MarkFails, GasCityCompletes, Tick, storeVars
<1> QED BY <1>1, <1>3, <1>5, <1>7 DEF Next, DispatchNext

\* A dispatch that is done stays done.
LEMMA DoneKept ==
  ASSUME TypeOK, [Next]_vars, NEW b \in Bead, disp[b] = "done"
  PROVE  disp'[b] = "done"
<1>1. disp \in [Bead -> DispatchPc]
  BY DEF TypeOK
<1>2. CASE UNCHANGED disp
  BY <1>2
<1>3. ASSUME NEW c \in Bead, Sling(c) \/ DispatcherStep(c) \/ RecordLost(c) \/ MarkFails(c)
      PROVE  disp'[b] = "done"
  BY <1>1, <1>3 DEF Sling, DispatcherStep, RecordDispatched, MarkRead, MarkWrite, RecordLost, MarkFails
<1> QED BY <1>2, <1>3 DEF Next, vars, GasCityCompletes, Tick

\* Evidence keeps supporting a state.
LEMMA SupportKept ==
  ASSUME TypeOK, GroundInv, [Next]_vars, NEW f \in Function, NEW state, NEW ev,
         ReportInv, Supports(f, state, ev)
  PROVE  Supports(f, state, ev)'
<1>1. CASE state \in {"accepted", "rejected"}
  <2>1. ev.bead \in Bead
    BY <1>1 DEF Supports, BeadsOf
  <2> QED BY <1>1, <2>1, VerdictsKept DEF Supports, BeadsOf
<1>2. CASE state \in {"monitored", "regressed"}
  <2>1. persistenceVerdicts[f].at \in Int /\ now \in Nat /\ persistenceVerdicts[f].at <= now
    BY DEF TypeOK, StoreTypeOK, Time, ReportInv
  <2> QED BY <1>2, <2>1, ReportsKept DEF Supports
<1>3. CASE state = "dispatched"
  <2>1. ev.bead \in Bead
    BY <1>3 DEF Supports, BeadsOf
  <2> QED BY <1>3, <2>1, DoneKept DEF Supports, BeadsOf
<1>4. CASE state \notin {"accepted", "rejected", "monitored", "regressed", "dispatched"}
  BY <1>4 DEF Supports
<1> QED BY <1>1, <1>2, <1>3, <1>4

\* The state of a Function stands on the evidence its record names, for any
\* number of handlers, runs, beads and faults: property StateGrounded.
THEOREM LoopStateGrounded == Spec => []StateGrounded
<1>1. Init => StateInv
  <2> SUFFICES ASSUME Init PROVE StateInv
    OBVIOUS
  <2>1. ReportInv
    BY DEF Init, StoreInit, MonitorInit, NoRun, Never, ReportInv
  <2>2. StateGrounded
    BY DEF Init, StoreInit, NoState, StateGrounded, Supports
  <2> QED BY <2>1, <2>2 DEF StateInv
<1>2. ASSUME TypeOK, GroundInv, StateInv, [Next]_vars PROVE StateInv'
  <2>1. ReportInv'
    BY <1>2, NextReport DEF StateInv
  <2>2. ASSUME NEW f \in Function
        PROVE  Supports(f, specsFunctions[f].state, specsFunctions[f].evidence)'
    <3>a. ASSUME NEW state, NEW key, PutState(f, state, key)
          PROVE  specsFunctions'[f] = [state |-> state, evidence |-> key]
      BY <1>2, <3>a DEF PutState, TypeOK, StoreTypeOK
    <3>1. CASE specsFunctions'[f] = specsFunctions[f]
      <4>1. PICK state, ev : state = specsFunctions[f].state /\ ev = specsFunctions[f].evidence
        OBVIOUS
      <4>2. Supports(f, state, ev)
        BY <1>2, <4>1 DEF StateInv, StateGrounded
      <4>3. Supports(f, state, ev)'
        BY <1>2, <4>2, SupportKept DEF StateInv
      <4>4. state = specsFunctions'[f].state /\ ev = specsFunctions'[f].evidence
        BY <3>1, <4>1
      <4> QED BY <4>3, <4>4 DEF Supports
    <3>2. ASSUME NEW d \in Handler, PatchLifecycleState(d), f = FnOf[h[d].bead]
          PROVE  Supports(f, specsFunctions[f].state, specsFunctions[f].evidence)'
      <4> DEFINE b == h[d].bead
      <4>1. b \in Bead /\ b \in BeadsOf(f) /\ HandlerInv(d) /\ BeadInv(b) /\ h[d].pc = "state"
        BY <1>2, <3>2 DEF PatchLifecycleState, TypeOK, WebhookTypeOK, GroundInv, BeadsOf
      <4>2. fidelityVerdicts[b].overall = Overall(gcOutcome[b]) /\ gcOutcome[b] # "none"
        BY <4>1 DEF HandlerInv, BeadInv
      <4>3. specsFunctions'[f] = [state |-> LifecycleState(b), evidence |-> FidelityKey(b)]
        BY <3>2, <3>a DEF PatchLifecycleState, PatchState
      <4>4. fidelityVerdicts' = fidelityVerdicts
        BY <3>2 DEF PatchLifecycleState
      <4>5. gcOutcome[b] \in {"approved", "revise"}
        BY <1>2, <4>1, <4>2 DEF TypeOK, StoreTypeOK
      <4> QED BY <4>1, <4>2, <4>3, <4>4, <4>5
              DEF Supports, LifecycleState, Revise, Overall, FidelityKey, BeadsOf
    <3>3. ASSUME NEW r \in Run, Promote(r) \/ Regress(r), f = mon[r].fn
          PROVE  Supports(f, specsFunctions[f].state, specsFunctions[f].evidence)'
      <4>1. persistenceVerdicts[f].at = now /\ now \in Nat
        BY <1>2, <3>3 DEF Promote, Regress, StateInv, ReportInv, TypeOK, StoreTypeOK
      <4>2. persistenceVerdicts' = persistenceVerdicts
        BY <3>3 DEF Promote, Regress
      <4>3. \/ specsFunctions'[f] = [state |-> "monitored", evidence |-> PersistenceKey(now, "pass")]
            \/ specsFunctions'[f] = [state |-> "regressed", evidence |-> PersistenceKey(now, "fail")]
        BY <3>3, <3>a DEF Promote, Regress, PatchState
      <4> QED BY <4>1, <4>2, <4>3 DEF Supports, PersistenceKey
    <3>4. ASSUME NEW b \in Bead, MarkWrite(b), f = FnOf[b]
          PROVE  Supports(f, specsFunctions[f].state, specsFunctions[f].evidence)'
      <4>1. specsFunctions'[f] = [state |-> "dispatched", evidence |-> LogKey(b)]
        BY <3>4, <3>a DEF MarkWrite
      <4>2. disp'[b] = "done"
        BY <1>2, <3>4 DEF MarkWrite, TypeOK
      <4> QED BY <3>4, <4>1, <4>2 DEF Supports, LogKey, BeadsOf
    <3> QED BY <1>2, <3>1, <3>2, <3>3, <3>4, StateWriters
  <2> QED BY <2>1, <2>2 DEF StateInv, StateGrounded
<1>3. Init => TypeOK /\ GroundInv
  BY InitTypes, InitGround
<1>4. TypeOK /\ GroundInv /\ [Next]_vars => (TypeOK /\ GroundInv)'
  BY NextTypes, NextGround
<1> QED BY <1>1, <1>2, <1>3, <1>4, PTL DEF Spec, StateInv
----------------------------------------------------------------------------
(* NothingForgotten *)

\* As long as nothing has failed, what a completion or a change of state
\* still lacks is the next step of somebody at work.
AtWork(b, pcs) == \E d \in Handler : h[d].bead = b /\ h[d].pc \in pcs

HasEdge(f, state, key) ==
  \E e \in lifecycleTransitions : e.fn = f /\ e.to = state /\ e.evidence = key

Followed(b) ==
  completionEvents[b] # Never =>
    /\ fidelityVerdicts[b].overall # "none" \/ AtWork(b, {"verdict"})
    /\ \/ \E e \in lifecycleTransitions : e.evidence = FidelityKey(b)
       \/ AtWork(b, {"verdict", "state", "edge"})
    /\ Revise(b) => \/ b \in specsSignals \/ Halted(b)
                    \/ AtWork(b, {"verdict", "state", "edge", "amend"})

HandlerOwes(d, f, state, key) ==
  /\ h[d].pc = "edge" /\ FnOf[h[d].bead] = f
  /\ state = LifecycleState(h[d].bead) /\ key = FidelityKey(h[d].bead)

RunOwes(r, f, state, key) ==
  /\ mon[r].fn = f
  /\ \/ /\ mon[r].pc = "promoteEdge" /\ state = "monitored"
        /\ key = PersistenceKey(now, "pass")
     \/ /\ mon[r].pc = "regressEdge" /\ state = "regressed"
        /\ key = PersistenceKey(now, "fail")

Recorded(f, state, key) ==
  state \notin {"dispatched", NoState} =>
    \/ HasEdge(f, state, key)
    \/ \E d \in Handler : HandlerOwes(d, f, state, key)
    \/ \E r \in Run : RunOwes(r, f, state, key)

FollowInv ==
  faults = 0 =>
    /\ \A b \in Bead : Followed(b)
    /\ \A f \in Function :
         Recorded(f, specsFunctions[f].state, specsFunctions[f].evidence)

\* Edges, signals and incidents are never deleted.
LEMMA WritesKept ==
  ASSUME [Next]_vars
  PROVE  /\ lifecycleTransitions \subseteq lifecycleTransitions'
         /\ specsSignals \subseteq specsSignals'
         /\ specsIncidents \subseteq specsIncidents'
<1>1. CASE UNCHANGED vars
  BY <1>1 DEF vars, storeVars
<1>2. CASE WebhookNext
  BY <1>2 DEF WebhookNext, HandlerStep, AnswerDuplicate, Deliver, Receive,
     LookupDispatch, SaveCompletionEvent, SaveFidelityVerdict, PatchLifecycleState,
     SaveLifecycleEdge, SaveTransitionEdge, WriteRevisionSignal,
     WriteAmendmentDepthIncident, HandleOperationalEvent, HandlerFails, storeVars
<1>3. CASE MonitorNext
  BY <1>3 DEF MonitorNext, RunStep, StartRun, StartRunTimesOut, QueryMonitored,
     QueryMonitoredTimesOut, QueryStale, QueryStaleTimesOut, RunFails, ReadFidelity,
     ReadLatestReport, ReadCompletion, WritePersistenceReport, Promote, PromoteEdge,
     AcceptedIncident, WriteFailReport, FailIncident, Regress, RegressEdge,
     SaveTransitionEdge, WritePersistenceIncident, WriteDispatchStaleIncident,
     EscalateRecurringIncidents, storeVars
<1>4. CASE DispatchNext
  BY <1>4 DEF DispatchNext, DispatcherStep, Sling, RecordDispatched, RecordLost, MarkRead,
     MarkWrite, MarkFails, GasCityCompletes, Tick, storeVars
<1> QED BY <1>1, <1>2, <1>3, <1>4 DEF Next, DispatchNext

\* Gas City's verdict on a bead stands.
LEMMA OutcomeKept ==
  ASSUME TypeOK, [Next]_vars, NEW b \in Bead, gcOutcome[b] # "none"
  PROVE  gcOutcome'[b] = gcOutcome[b]
<1>1. CASE UNCHANGED vars
  BY <1>1 DEF vars, storeVars
<1>2. CASE WebhookNext
  BY <1>2 DEF WebhookNext, HandlerStep, AnswerDuplicate, Deliver, Receive,
     LookupDispatch, SaveCompletionEvent, SaveFidelityVerdict, PatchLifecycleState,
     SaveLifecycleEdge, WriteRevisionSignal,
     WriteAmendmentDepthIncident, HandleOperationalEvent, HandlerFails, storeVars
<1>3. CASE MonitorNext /\ UNCHANGED <<webhookVars, disp>>
  BY <1>3, MonitorTouchesNothing DEF intake
<1>4. ASSUME NEW c \in Bead, GasCityCompletes(c) PROVE gcOutcome'[b] = gcOutcome[b]
  BY <1>4 DEF GasCityCompletes, TypeOK, StoreTypeOK
<1>5. CASE DispatchNext
  BY <1>4, <1>5 DEF DispatchNext, DispatcherStep, Sling, RecordDispatched, RecordLost,
     MarkRead, MarkWrite, MarkFails, Tick, storeVars
<1> QED BY <1>1, <1>2, <1>3, <1>5 DEF Next, DispatchNext

\* While nothing fails, a handler that has recorded a completion stays where
\* it is or makes its next write.
LEMMA HandlerProgress ==
  ASSUME TypeOK, [Next]_vars, faults' = 0, NEW d \in Handler,
         h[d].pc \in {"verdict", "state", "edge", "amend"}
  PROVE  \/ h'[d] = h[d]
         \/ SaveFidelityVerdict(d) \/ PatchLifecycleState(d) \/ SaveLifecycleEdge(d)
         \/ WriteRevisionSignal(d) \/ WriteAmendmentDepthIncident(d)
<1>1. faults \in Nat /\ h \in [Handler -> [pc : WebhookPc, bead : Bead \cup {None}, lineage : BOOLEAN]]
  BY DEF TypeOK, StoreTypeOK, WebhookTypeOK
<1>2. ASSUME NEW e \in Handler, e # d,
             HandlerStep(e) \/ \E b \in Bead, m \in BOOLEAN : Receive(e, b, m)
      PROVE  h'[d] = h[d]
  BY <1>1, <1>2 DEF HandlerStep, Receive, LookupDispatch, SaveCompletionEvent,
     SaveFidelityVerdict, PatchLifecycleState, SaveLifecycleEdge, WriteRevisionSignal,
     WriteAmendmentDepthIncident, Goto, Return
<1>3. ASSUME NEW e \in Handler, HandlerFails(e) PROVE FALSE
  BY <1>1, <1>3 DEF HandlerFails, SpendFault
<1>4. CASE WebhookNext
  BY <1>2, <1>3, <1>4 DEF WebhookNext, HandlerStep, AnswerDuplicate, Receive,
     LookupDispatch, SaveCompletionEvent, HandleOperationalEvent, webhookVars
<1>5. CASE MonitorNext /\ UNCHANGED <<webhookVars, disp>>
  BY <1>5 DEF webhookVars
<1>6. CASE DispatchNext \/ UNCHANGED vars
  BY <1>6 DEF vars, DispatchNext, DispatcherStep, Sling, RecordDispatched, RecordLost,
     MarkRead, MarkWrite, MarkFails, GasCityCompletes, Tick, webhookVars
<1> QED BY <1>4, <1>5, <1>6 DEF Next, DispatchNext

\* So does a run of the monitor that owes an edge.
LEMMA RunProgress ==
  ASSUME TypeOK, [Next]_vars, faults' = 0, NEW r \in Run,
         mon[r].pc \in {"promoteEdge", "regressEdge"}
  PROVE  mon'[r] = mon[r] \/ PromoteEdge(r) \/ RegressEdge(r)
<1>1. faults \in Nat
  BY DEF TypeOK, StoreTypeOK
<1>2. CASE mon' = mon
  BY <1>2
<1>3. CASE MonitorNext
  <2>1. PICK q \in Run : RunNext(q)
    BY <1>3 DEF MonitorNext, RunNext
  <2>2. CASE q # r
    BY <2>1, <2>2, OthersKept
  <2>3. CASE q = r
    <3>1. ~StartRunTimesOut(r) /\ ~QueryMonitoredTimesOut(r) /\ ~QueryStaleTimesOut(r)
          /\ ~RunFails(r)
      BY <1>1 DEF StartRunTimesOut, QueryMonitoredTimesOut, QueryStaleTimesOut, RunFails,
         SpendFault
    <3>2. ~StartRun(r) /\ ~QueryMonitored(r) /\ ~QueryStale(r)
          /\ ~EscalateRecurringIncidents(r)
          /\ \A b \in Bead : ~WriteDispatchStaleIncident(r, b)
      BY DEF StartRun, QueryMonitored, QueryStale, EscalateRecurringIncidents,
         WriteDispatchStaleIncident
    <3>3. /\ ~ReadCompletion(r) /\ ~WritePersistenceReport(r) /\ ~AcceptedIncident(r)
          /\ \A f \in Function : ~ReadFidelity(r, f) /\ ~ReadLatestReport(r, f)
      BY DEF ReadCompletion, WritePersistenceReport, AcceptedIncident, ReadFidelity,
         ReadLatestReport
    <3>4. ~Promote(r) /\ ~WriteFailReport(r) /\ ~FailIncident(r) /\ ~Regress(r)
      BY DEF Promote, WriteFailReport, FailIncident, Regress
    <3> QED BY <2>1, <2>3, <3>1, <3>2, <3>3, <3>4 DEF RunNext, RunStep
  <2> QED BY <2>2, <2>3
<1> QED
  BY <1>2, <1>3 DEF Next, vars, DispatcherStep, Sling, RecordDispatched, RecordLost,
     MarkRead, MarkWrite, MarkFails, GasCityCompletes, Tick

\* Without a fault spent there was none before.
LEMMA FaultsGrow ==
  ASSUME TypeOK, [Next]_vars, faults' = 0 PROVE faults = 0
<1>1. faults \in Nat
  BY DEF TypeOK, StoreTypeOK
<1>2. faults' = faults \/ faults' = faults + 1
  <2>1. CASE UNCHANGED vars
    BY <2>1 DEF vars, storeVars
  <2>2. CASE WebhookNext
    BY <2>2 DEF WebhookNext, HandlerStep, AnswerDuplicate, Deliver, Receive,
       LookupDispatch, SaveCompletionEvent, SaveFidelityVerdict, PatchLifecycleState,
       SaveLifecycleEdge, WriteRevisionSignal, WriteAmendmentDepthIncident,
       HandleOperationalEvent, HandlerFails, SpendFault, storeVars
  <2>3. CASE MonitorNext
    BY <2>3 DEF MonitorNext, RunStep, StartRun, StartRunTimesOut, QueryMonitored,
       QueryMonitoredTimesOut, QueryStale, QueryStaleTimesOut, RunFails, ReadFidelity,
       ReadLatestReport, ReadCompletion, WritePersistenceReport, Promote, PromoteEdge,
       AcceptedIncident, WriteFailReport, FailIncident, Regress, RegressEdge,
       WriteDispatchStaleIncident, EscalateRecurringIncidents, SpendFault, storeVars
  <2>4. CASE DispatchNext
    BY <2>4 DEF DispatchNext, DispatcherStep, Sling, RecordDispatched, RecordLost,
       MarkRead, MarkWrite, MarkFails, GasCityCompletes, Tick, SpendFault, storeVars
  <2> QED BY <2>1, <2>2, <2>3, <2>4 DEF Next, DispatchNext
<1> QED BY <1>1, <1>2

\* A completion event appears by the step of a handler, which goes on to the
\* verdict.
LEMMA EventWriters ==
  ASSUME TypeOK, [Next]_vars, NEW b \in Bead,
         completionEvents[b] = Never, completionEvents'[b] # Never
  PROVE  AtWork(b, {"verdict"})'
<1>1. ASSUME NEW d \in Handler, SaveCompletionEvent(d) PROVE AtWork(b, {"verdict"})'
  <2>1. h[d].bead = b
    BY <1>1 DEF SaveCompletionEvent, TypeOK, StoreTypeOK
  <2>2. h'[d].pc = "verdict" /\ h'[d].bead = b
    BY <1>1, <2>1, HandlerMoves DEF SaveCompletionEvent
  <2> QED BY <2>2 DEF AtWork
<1>2. CASE UNCHANGED vars
  BY <1>2 DEF vars, storeVars
<1>3. CASE WebhookNext
  BY <1>1, <1>3 DEF WebhookNext, HandlerStep, AnswerDuplicate, Deliver, Receive,
     LookupDispatch, SaveFidelityVerdict, PatchLifecycleState, SaveLifecycleEdge,
     WriteRevisionSignal, WriteAmendmentDepthIncident, HandleOperationalEvent,
     HandlerFails, storeVars
<1>4. CASE MonitorNext /\ UNCHANGED <<webhookVars, disp>>
  BY <1>4, MonitorTouchesNothing DEF intake
<1>5. CASE DispatchNext
  BY <1>5 DEF DispatchNext, DispatcherStep, Sling, RecordDispatched, RecordLost, MarkRead,
     MarkWrite, MarkFails, GasCityCompletes, Tick, storeVars
<1> QED BY <1>2, <1>3, <1>4, <1>5 DEF Next, DispatchNext

\* What a handler at work becomes, and what it wrote.
LEMMA WorkDone ==
  ASSUME TypeOK, GroundInv, [Next]_vars, faults' = 0,
         NEW d \in Handler, NEW b \in Bead, h[d].bead = b,
         h[d].pc \in {"verdict", "state", "edge", "amend"}
  PROVE  \/ h'[d] = h[d]
         \/ /\ h[d].pc = "verdict" /\ h'[d].pc = "state" /\ h'[d].bead = b
            /\ fidelityVerdicts'[b].overall # "none"
         \/ h[d].pc = "state" /\ h'[d].pc = "edge" /\ h'[d].bead = b
         \/ /\ h[d].pc = "edge"
            /\ HasEdge(FnOf[b], LifecycleState(b), FidelityKey(b))'
            /\ Revise(b) => h'[d].pc = "amend" /\ h'[d].bead = b
         \/ h[d].pc = "amend" /\ (b \in specsSignals' \/ Halted(b)')
<1>1. CASE SaveFidelityVerdict(d)
  <2>1. fidelityVerdicts'[b].overall = Overall(gcOutcome[b])
    BY <1>1 DEF SaveFidelityVerdict, TypeOK, StoreTypeOK
  <2> QED BY <1>1, <2>1, HandlerMoves DEF SaveFidelityVerdict, Overall
<1>2. CASE PatchLifecycleState(d)
  BY <1>2, HandlerMoves DEF PatchLifecycleState
<1>3. CASE SaveLifecycleEdge(d)
  <2>1. /\ h[d].pc = "edge" /\ gcOutcome' = gcOutcome
        /\ lifecycleTransitions' = lifecycleTransitions \cup
             {[fn |-> FnOf[b], from |-> "dispatched", to |-> LifecycleState(b),
               evidence |-> FidelityKey(b)]}
        /\ IF Revise(b) THEN Goto(d, "amend") ELSE Return(d)
    BY <1>3 DEF SaveLifecycleEdge, SaveTransitionEdge
  <2>2. HasEdge(FnOf[b], LifecycleState(b), FidelityKey(b))'
    <3>1. /\ (LifecycleState(b))' = LifecycleState(b)
          /\ (FidelityKey(b))' = FidelityKey(b)
      BY <2>1 DEF LifecycleState, Revise, FidelityKey
    <3> DEFINE edge == [fn |-> FnOf[b], from |-> "dispatched", to |-> LifecycleState(b),
                        evidence |-> FidelityKey(b)]
    <3>2. edge \in lifecycleTransitions'
      BY <2>1
    <3>3. edge.fn = FnOf[b] /\ edge.to = LifecycleState(b) /\ edge.evidence = FidelityKey(b)
      OBVIOUS
    <3> HIDE DEF edge
    <3> QED BY <3>1, <3>2, <3>3 DEF HasEdge
  <2> QED BY <2>1, <2>2, HandlerMoves
<1>4. CASE WriteRevisionSignal(d)
  BY <1>4 DEF WriteRevisionSignal
<1>5. CASE WriteAmendmentDepthIncident(d)
  BY <1>5 DEF WriteAmendmentDepthIncident, Halted
<1> QED BY <1>1, <1>2, <1>3, <1>4, <1>5, HandlerProgress

LEMMA FollowedKept ==
  ASSUME TypeOK, GroundInv, [Next]_vars, faults' = 0, NEW b \in Bead, Followed(b)
  PROVE  Followed(b)'
<1> SUFFICES ASSUME completionEvents'[b] # Never
             PROVE  /\ fidelityVerdicts'[b].overall # "none" \/ AtWork(b, {"verdict"})'
                    /\ \/ \E e \in lifecycleTransitions' : e.evidence = FidelityKey(b)
                       \/ AtWork(b, {"verdict", "state", "edge"})'
                    /\ Revise(b)' => \/ b \in specsSignals' \/ Halted(b)'
                                     \/ AtWork(b, {"verdict", "state", "edge", "amend"})'
  BY DEF Followed, FidelityKey, Never
<1>1. CASE completionEvents[b] = Never
  BY <1>1, EventWriters DEF AtWork
<1>2. CASE completionEvents[b] # Never
  <2>1. gcOutcome[b] # "none"
    BY <1>2 DEF Followed, AtWork, GroundInv, HandlerInv, BeadInv
  <2>2. Revise(b)' <=> Revise(b)
    BY <2>1, OutcomeKept DEF Revise
  <2>3. fidelityVerdicts'[b].overall # "none" \/ AtWork(b, {"verdict"})'
    <3>1. CASE fidelityVerdicts[b].overall # "none"
      BY <3>1, VerdictsKept
    <3>2. ASSUME NEW d \in Handler, h[d].bead = b, h[d].pc = "verdict"
          PROVE  fidelityVerdicts'[b].overall # "none" \/ AtWork(b, {"verdict"})'
      BY <3>2, WorkDone DEF AtWork
    <3> QED BY <1>2, <3>1, <3>2 DEF Followed, AtWork
  <2>4. \/ \E e \in lifecycleTransitions' : e.evidence = FidelityKey(b)
        \/ AtWork(b, {"verdict", "state", "edge"})'
    <3>1. CASE \E e \in lifecycleTransitions : e.evidence = FidelityKey(b)
      BY <3>1, WritesKept
    <3>2. ASSUME NEW d \in Handler, h[d].bead = b,
                 h[d].pc \in {"verdict", "state", "edge"}
          PROVE  \/ \E e \in lifecycleTransitions' : e.evidence = FidelityKey(b)
                 \/ AtWork(b, {"verdict", "state", "edge"})'
      BY <3>2, WorkDone DEF AtWork, HasEdge, FidelityKey, Never
    <3> QED BY <1>2, <3>1, <3>2 DEF Followed, AtWork
  <2>5. ASSUME Revise(b)
        PROVE  \/ b \in specsSignals' \/ Halted(b)'
               \/ AtWork(b, {"verdict", "state", "edge", "amend"})'
    <3>1. CASE b \in specsSignals \/ Halted(b)
      BY <3>1, WritesKept DEF Halted
    <3>2. ASSUME NEW d \in Handler, h[d].bead = b,
                 h[d].pc \in {"verdict", "state", "edge", "amend"}
          PROVE  \/ b \in specsSignals' \/ Halted(b)'
                 \/ AtWork(b, {"verdict", "state", "edge", "amend"})'
      BY <2>5, <3>2, WorkDone DEF AtWork
    <3> QED BY <1>2, <2>5, <3>1, <3>2 DEF Followed, AtWork
  <2> QED BY <2>2, <2>3, <2>4, <2>5
<1> QED BY <1>1, <1>2

\* A state keeps its edge, or somebody who owes it.
LEMMA RecordedKept ==
  ASSUME TypeOK, GroundInv, [Next]_vars, faults' = 0, NEW f \in Function,
         NEW state, NEW key, Recorded(f, state, key)
  PROVE  Recorded(f, state, key)'
<1> SUFFICES ASSUME state \notin {"dispatched", NoState}
             PROVE  \/ HasEdge(f, state, key)'
                    \/ \E d \in Handler : HandlerOwes(d, f, state, key)'
                    \/ \E r \in Run : RunOwes(r, f, state, key)'
  BY DEF Recorded, NoState
<1>1. CASE HasEdge(f, state, key)
  BY <1>1, WritesKept DEF HasEdge
<1>2. ASSUME NEW d \in Handler, HandlerOwes(d, f, state, key)
      PROVE  HasEdge(f, state, key)' \/ HandlerOwes(d, f, state, key)'
  <2>1. PICK b \in Bead : b = h[d].bead
    BY <1>2 DEF HandlerOwes, TypeOK, WebhookTypeOK
  <2>2. gcOutcome'[b] = gcOutcome[b]
    BY <1>2, <2>1, OutcomeKept DEF HandlerOwes, GroundInv, HandlerInv
  <2>3. (LifecycleState(b))' = LifecycleState(b)
    BY <2>2 DEF LifecycleState, Revise
  <2>4. CASE h'[d] = h[d]
    BY <1>2, <2>1, <2>3, <2>4 DEF HandlerOwes, FidelityKey, LifecycleState, Revise
  <2>5. CASE HasEdge(FnOf[b], LifecycleState(b), FidelityKey(b))'
    BY <1>2, <2>1, <2>3, <2>5 DEF HandlerOwes, HasEdge, FidelityKey, LifecycleState, Revise
  <2> QED BY <1>2, <2>1, <2>4, <2>5, WorkDone DEF HandlerOwes
<1>3. ASSUME NEW r \in Run, RunOwes(r, f, state, key)
      PROVE  HasEdge(f, state, key)' \/ RunOwes(r, f, state, key)'
  <2>1. mon[r].pc \in {"promoteEdge", "regressEdge"}
    BY <1>3 DEF RunOwes
  <2>2. CASE mon'[r] = mon[r]
    <3>1. now' = now
      BY <2>1, <2>2, TimeKept
    <3> QED BY <1>3, <2>2, <3>1 DEF RunOwes, PersistenceKey
  <2>3. CASE PromoteEdge(r) \/ RegressEdge(r)
    <3>1. now' = now
      BY <2>3 DEF PromoteEdge, RegressEdge
    <3>2. \/ mon[r].pc = "promoteEdge" /\ PromoteEdge(r)
          \/ mon[r].pc = "regressEdge" /\ RegressEdge(r)
      BY <2>3 DEF PromoteEdge, RegressEdge
    <3>3. PICK from : lifecycleTransitions' = lifecycleTransitions \cup
            {[fn |-> f, from |-> from, to |-> state, evidence |-> key]}
      BY <1>3, <3>2 DEF RunOwes, PromoteEdge, RegressEdge, SaveTransitionEdge
    <3> DEFINE edge == [fn |-> f, from |-> from, to |-> state, evidence |-> key]
    <3>4. edge \in lifecycleTransitions'
      BY <3>3
    <3>5. edge.fn = f /\ edge.to = state /\ edge.evidence = key
      OBVIOUS
    <3> HIDE DEF edge
    <3> QED BY <3>4, <3>5 DEF HasEdge
  <2> QED BY <2>1, <2>2, <2>3, RunProgress
<1> QED BY <1>1, <1>2, <1>3 DEF Recorded

LEMMA FollowStep ==
  ASSUME TypeOK, GroundInv, FollowInv, [Next]_vars PROVE FollowInv'
<1> SUFFICES ASSUME faults' = 0
             PROVE  /\ \A b \in Bead : Followed(b)'
                    /\ \A f \in Function :
                         Recorded(f, specsFunctions[f].state, specsFunctions[f].evidence)'
  BY DEF FollowInv
<1>1. /\ \A b \in Bead : Followed(b)
      /\ \A f \in Function :
           Recorded(f, specsFunctions[f].state, specsFunctions[f].evidence)
  BY FaultsGrow DEF FollowInv
<1>2. ASSUME NEW f \in Function
      PROVE  Recorded(f, specsFunctions[f].state, specsFunctions[f].evidence)'
  <2>a. ASSUME NEW state, NEW key, PutState(f, state, key)
        PROVE  specsFunctions'[f] = [state |-> state, evidence |-> key]
    BY <2>a DEF PutState, TypeOK, StoreTypeOK
  <2>1. CASE specsFunctions'[f] = specsFunctions[f]
    <3>1. PICK state, key : state = specsFunctions[f].state
                            /\ key = specsFunctions[f].evidence
      OBVIOUS
    <3>2. Recorded(f, state, key)'
      BY <1>1, <3>1, RecordedKept
    <3>3. state = specsFunctions'[f].state /\ key = specsFunctions'[f].evidence
      BY <2>1, <3>1
    <3> QED BY <3>2, <3>3 DEF Recorded, HasEdge, HandlerOwes, RunOwes
  <2>2. ASSUME NEW d \in Handler, PatchLifecycleState(d), f = FnOf[h[d].bead]
        PROVE  Recorded(f, specsFunctions[f].state, specsFunctions[f].evidence)'
    <3> DEFINE b == h[d].bead
    <3>1. /\ specsFunctions'[f] = [state |-> LifecycleState(b), evidence |-> FidelityKey(b)]
          /\ gcOutcome' = gcOutcome
      BY <2>2, <2>a DEF PatchLifecycleState, PatchState
    <3>2. h'[d].pc = "edge" /\ h'[d].bead = b
      BY <2>2, HandlerMoves DEF PatchLifecycleState
    <3>3. HandlerOwes(d, f, specsFunctions[f].state, specsFunctions[f].evidence)'
      BY <2>2, <3>1, <3>2 DEF HandlerOwes, LifecycleState, Revise, FidelityKey
    <3> QED BY <3>3 DEF Recorded
  <2>3. ASSUME NEW r \in Run, Promote(r) \/ Regress(r), f = mon[r].fn
        PROVE  Recorded(f, specsFunctions[f].state, specsFunctions[f].evidence)'
    <3>1. now' = now
      BY <2>3 DEF Promote, Regress
    <3>2. CASE Promote(r)
      <4>1. /\ specsFunctions'[f] = [state |-> "monitored", evidence |-> PersistenceKey(now, "pass")]
            /\ mon'[r].pc = "promoteEdge" /\ mon'[r].fn = f
        BY <2>3, <3>2, <2>a, RunMoves DEF Promote, PatchState
      <4>2. RunOwes(r, f, specsFunctions[f].state, specsFunctions[f].evidence)'
        BY <3>1, <4>1 DEF RunOwes, PersistenceKey
      <4> QED BY <4>2 DEF Recorded
    <3>3. CASE Regress(r)
      <4>1. /\ specsFunctions'[f] = [state |-> "regressed", evidence |-> PersistenceKey(now, "fail")]
            /\ mon'[r].pc = "regressEdge" /\ mon'[r].fn = f
        BY <2>3, <3>3, <2>a, RunMoves DEF Regress, PatchState
      <4>2. RunOwes(r, f, specsFunctions[f].state, specsFunctions[f].evidence)'
        BY <3>1, <4>1 DEF RunOwes, PersistenceKey
      <4> QED BY <4>2 DEF Recorded
    <3> QED BY <2>3, <3>2, <3>3
  <2>4. ASSUME NEW b \in Bead, MarkWrite(b), f = FnOf[b]
        PROVE  Recorded(f, specsFunctions[f].state, specsFunctions[f].evidence)'
    <3>1. specsFunctions'[f] = [state |-> "dispatched", evidence |-> LogKey(b)]
      BY <2>4, <2>a DEF MarkWrite
    <3> QED BY <3>1 DEF Recorded
  <2> QED BY <2>1, <2>2, <2>3, <2>4, StateWriters
<1> QED BY <1>1, <1>2, FollowedKept

\* While nothing has failed and nobody is mid-way, a completion has all its
\* consequences and every state its edge, for any handlers, runs and beads:
\* property NothingForgotten.
THEOREM LoopNothingForgotten == Spec => []NothingForgotten
<1>1. Init => TypeOK /\ GroundInv /\ FollowInv
  <2> SUFFICES ASSUME Init PROVE FollowInv
    BY InitTypes, InitGround
  <2>1. \A b \in Bead : Followed(b)
    BY DEF Init, StoreInit, Followed
  <2>2. \A f \in Function :
          Recorded(f, specsFunctions[f].state, specsFunctions[f].evidence)
    BY DEF Init, StoreInit, Recorded
  <2> QED BY <2>1, <2>2 DEF FollowInv
<1>2. TypeOK /\ GroundInv /\ FollowInv /\ [Next]_vars => (TypeOK /\ GroundInv /\ FollowInv)'
  BY NextTypes, NextGround, FollowStep
<1>3. TypeOK /\ GroundInv /\ FollowInv => NothingForgotten
  <2> SUFFICES ASSUME FollowInv, faults = 0, Settled
               PROVE  NothingForgotten
    BY DEF NothingForgotten
  <2>1. \A d \in Handler : h[d].pc = "idle"
    BY DEF Settled
  <2>2. \A r \in Run : mon[r].pc = "idle"
    BY DEF Settled
  <2>3. \A b \in Bead : Followed(b)
    BY DEF FollowInv
  <2>4. \A f \in Function :
          Recorded(f, specsFunctions[f].state, specsFunctions[f].evidence)
    BY DEF FollowInv
  <2>5. ASSUME NEW b \in Bead, completionEvents[b] # Never
        PROVE  /\ fidelityVerdicts[b].overall # "none"
               /\ \E e \in lifecycleTransitions : e.evidence = FidelityKey(b)
               /\ Revise(b) => b \in specsSignals \/ Halted(b)
    BY <2>1, <2>3, <2>5 DEF Followed, AtWork
  <2>6. ASSUME NEW f \in Function, specsFunctions[f].state \notin {"dispatched", NoState}
        PROVE  HasEdge(f, specsFunctions[f].state, specsFunctions[f].evidence)
    BY <2>1, <2>2, <2>4, <2>6 DEF Recorded, HandlerOwes, RunOwes
  <2> QED BY <2>5, <2>6 DEF NothingForgotten, Halted, HasEdge
<1> QED BY <1>1, <1>2, <1>3, PTL DEF Spec
=============================================================================
