-------------------------- MODULE GasCityLoopProofs --------------------------
(***************************************************************************)
(* Proofs about GasCityLoop, for any Functions, beads, handlers and runs   *)
(* of the monitor, any amendment depth and windows, and any number of      *)
(* faults.                                                                 *)
(***************************************************************************)
EXTENDS GasCityLoop, TLAPS

----------------------------------------------------------------------------
(* Types *)

\* A handler that moves on, or returns, keeps its local state well typed.
LEMMA GotoTypes ==
  ASSUME WebhookTypeOK, NEW d \in Handler, NEW pc \in WebhookPc,
         h[d].pc # "idle", Goto(d, pc), sent' = sent
  PROVE  WebhookTypeOK'
<1>1. \A e \in Handler : h'[e] = IF e = d THEN [h[d] EXCEPT !.pc = pc] ELSE h[e]
  BY DEF WebhookTypeOK, Goto
<1>2. h[d].bead \in Bead
  BY DEF WebhookTypeOK
<1>3. h' \in [Handler -> [pc : WebhookPc, bead : Bead \cup {None}, lineage : BOOLEAN]]
  BY DEF WebhookTypeOK, Goto
<1>4. \A e \in Handler : h'[e].pc # "idle" => h'[e].bead \in Bead
  <2> TAKE e \in Handler
  <2>1. CASE e = d
    BY <1>1, <1>2, <2>1 DEF WebhookTypeOK
  <2>2. CASE e # d
    BY <1>1, <2>2 DEF WebhookTypeOK
  <2> QED BY <2>1, <2>2
<1> QED BY <1>3, <1>4 DEF WebhookTypeOK

\* A handler that returns is idle again.
LEMMA ReturnTypes ==
  ASSUME WebhookTypeOK, NEW d \in Handler, Return(d), sent' = sent
  PROVE  WebhookTypeOK'
<1>1. Idle \in [pc : WebhookPc, bead : Bead \cup {None}, lineage : BOOLEAN]
  BY DEF Idle, WebhookPc
<1>2. h' \in [Handler -> [pc : WebhookPc, bead : Bead \cup {None}, lineage : BOOLEAN]]
  BY <1>1 DEF WebhookTypeOK, Return
<1>3. \A e \in Handler : h'[e] = IF e = d THEN Idle ELSE h[e]
  BY DEF WebhookTypeOK, Return
<1>4. \A e \in Handler : h'[e].pc # "idle" => h'[e].bead \in Bead
  BY <1>3 DEF WebhookTypeOK, Idle
<1> QED BY <1>2, <1>4 DEF WebhookTypeOK

\* The steps of the webhook handlers keep the types.
LEMMA WebhookTypes ==
  ASSUME TypeOK, WebhookNext, UNCHANGED <<mon, disp>>
  PROVE  TypeOK'
<1> USE DEF TypeOK
<1>a. MonitorTypeOK' /\ disp' \in [Bead -> DispatchPc]
  BY DEF MonitorTypeOK
<1>b. ASSUME UNCHANGED storeVars PROVE StoreTypeOK'
  BY <1>b DEF StoreTypeOK, storeVars
<1>c. ASSUME UNCHANGED webhookVars PROVE WebhookTypeOK'
  BY <1>c DEF WebhookTypeOK, webhookVars
<1>1. ASSUME NEW b \in Bead, AnswerDuplicate(b) PROVE TypeOK'
  <2>1. WebhookTypeOK'
    BY <1>1 DEF AnswerDuplicate, Deliver, WebhookTypeOK
  <2> QED BY <1>1, <1>a, <1>b, <2>1 DEF AnswerDuplicate, Deliver
<1>2. ASSUME NEW d \in Handler, NEW b \in Bead, NEW m \in BOOLEAN, Receive(d, b, m)
      PROVE TypeOK'
  <2>1. WebhookTypeOK'
    BY <1>2 DEF Receive, Deliver, WebhookTypeOK, WebhookPc
  <2> QED BY <1>2, <1>a, <1>b, <2>1 DEF Receive, Deliver
<1>3. ASSUME NEW d \in Handler, LookupDispatch(d) PROVE TypeOK'
  <2>1. WebhookTypeOK'
    BY <1>3, GotoTypes, ReturnTypes DEF LookupDispatch, WebhookPc
  <2> QED BY <1>3, <1>a, <1>b, <2>1 DEF LookupDispatch
<1>4. ASSUME NEW d \in Handler, SaveCompletionEvent(d) PROVE TypeOK'
  <2>1. WebhookTypeOK'
    BY <1>4, GotoTypes DEF SaveCompletionEvent, WebhookPc
  <2>2. StoreTypeOK'
    <3>1. now \in Time /\ completionEvents \in [Bead -> Time]
      BY DEF StoreTypeOK, Time
    <3>2. completionEvents' \in [Bead -> Time]
      BY <1>4, <3>1 DEF SaveCompletionEvent
    <3> QED BY <1>4, <3>2 DEF SaveCompletionEvent, StoreTypeOK
  <2> QED BY <1>a, <2>1, <2>2
<1>5. ASSUME NEW d \in Handler, SaveFidelityVerdict(d) PROVE TypeOK'
  <2>1. WebhookTypeOK'
    BY <1>5, GotoTypes DEF SaveFidelityVerdict, WebhookPc
  <2>2. h[d] \in [pc : WebhookPc, bead : Bead \cup {None}, lineage : BOOLEAN]
    BY DEF WebhookTypeOK
  <2>3. [at |-> now, overall |-> Overall(gcOutcome[h[d].bead]), lineage |-> h[d].lineage]
          \in [at : Time, overall : {"pass", "fail", "none"}, lineage : BOOLEAN]
    BY <2>2 DEF StoreTypeOK, Overall, Time
  <2>4. StoreTypeOK'
    BY <1>5, <2>3 DEF SaveFidelityVerdict, StoreTypeOK
  <2> QED BY <1>a, <2>1, <2>4
<1>6. ASSUME NEW d \in Handler, PatchLifecycleState(d) PROVE TypeOK'
  <2>1. WebhookTypeOK'
    BY <1>6, GotoTypes DEF PatchLifecycleState, WebhookPc
  <2>2. h[d].bead \in Bead
    BY <1>6 DEF PatchLifecycleState, WebhookTypeOK
  <2>3. [state |-> LifecycleState(h[d].bead), evidence |-> FidelityKey(h[d].bead)]
          \in [state : StoredState, evidence : EvidenceKey]
    BY <2>2 DEF LifecycleState, FidelityKey, StoredState, FunctionState, EvidenceKey, Time, Never
  <2>4. StoreTypeOK'
    BY <1>6, <2>3 DEF PatchLifecycleState, PatchState, PutState, StoreTypeOK
  <2> QED BY <1>a, <2>1, <2>4
<1>7. ASSUME NEW d \in Handler, SaveLifecycleEdge(d) PROVE TypeOK'
  <2>1. WebhookTypeOK'
    BY <1>7, GotoTypes, ReturnTypes DEF SaveLifecycleEdge, WebhookPc
  <2>2. h[d].bead \in Bead
    BY <1>7 DEF SaveLifecycleEdge, WebhookTypeOK
  <2>3. FnOf[h[d].bead] \in Function /\ FidelityKey(h[d].bead) \in EvidenceKey
    BY <2>2, StoreAssumption DEF FidelityKey, EvidenceKey, Time, Never
  <2>4. StoreTypeOK'
    BY <1>7, <2>3 DEF SaveLifecycleEdge, SaveTransitionEdge, StoreTypeOK
  <2> QED BY <1>a, <2>1, <2>4
<1>8. ASSUME NEW d \in Handler, WriteRevisionSignal(d) PROVE TypeOK'
  <2>1. WebhookTypeOK'
    BY <1>8, ReturnTypes DEF WriteRevisionSignal
  <2>2. h[d].bead \in Bead
    BY <1>8 DEF WriteRevisionSignal, WebhookTypeOK
  <2>3. StoreTypeOK'
    BY <1>8, <2>2 DEF WriteRevisionSignal, StoreTypeOK
  <2> QED BY <1>a, <2>1, <2>3
<1>9. ASSUME NEW d \in Handler, WriteAmendmentDepthIncident(d) PROVE TypeOK'
  <2>1. WebhookTypeOK'
    BY <1>9, ReturnTypes DEF WriteAmendmentDepthIncident
  <2>2. h[d].bead \in Bead
    BY <1>9 DEF WriteAmendmentDepthIncident, WebhookTypeOK
  <2>3. StoreTypeOK'
    BY <1>9, <2>2, StoreAssumption DEF WriteAmendmentDepthIncident, Incident, StoreTypeOK
  <2> QED BY <1>a, <2>1, <2>3
<1>10. ASSUME NEW b \in Bead, NEW type \in EventType, HandleOperationalEvent(b, type) PROVE TypeOK'
  <2>1. StoreTypeOK'
    BY <1>10, StoreAssumption DEF HandleOperationalEvent, Incident, StoreTypeOK
  <2> QED BY <1>10, <1>a, <1>c, <2>1 DEF HandleOperationalEvent
<1>11. ASSUME NEW d \in Handler, HandlerFails(d) PROVE TypeOK'
  <2>1. WebhookTypeOK'
    BY <1>11, ReturnTypes DEF HandlerFails
  <2>2. StoreTypeOK'
    BY <1>11 DEF HandlerFails, SpendFault, StoreTypeOK
  <2> QED BY <1>a, <2>1, <2>2
<1> QED
  BY <1>1, <1>2, <1>3, <1>4, <1>5, <1>6, <1>7, <1>8, <1>9, <1>10, <1>11
  DEF WebhookNext, HandlerStep

\* The patch of a Function's state and the edge of a transition.
LEMMA MonitorWrites ==
  ASSUME TypeOK, NEW r \in Run, mon[r].fn \in Function,
         NEW t \in Nat, NEW state \in FunctionState, NEW ov \in {"pass", "fail"}
  PROVE  /\ PersistenceKey(t, ov) \in EvidenceKey
         /\ PutState(mon[r].fn, state, PersistenceKey(t, ov)) =>
              specsFunctions' \in [Function -> [state : StoredState, evidence : EvidenceKey]]
         /\ \A from : SaveTransitionEdge(mon[r].fn, from, state, PersistenceKey(t, ov)) =>
              \A e \in lifecycleTransitions' : e.fn \in Function /\ e.evidence \in EvidenceKey
<1>1. PersistenceKey(t, ov) \in EvidenceKey
  BY DEF PersistenceKey, EvidenceKey, Time
<1>2. [state |-> state, evidence |-> PersistenceKey(t, ov)]
        \in [state : StoredState, evidence : EvidenceKey]
  BY <1>1 DEF StoredState
<1>3. ASSUME PutState(mon[r].fn, state, PersistenceKey(t, ov))
      PROVE  specsFunctions' \in [Function -> [state : StoredState, evidence : EvidenceKey]]
  BY <1>2, <1>3 DEF PutState, TypeOK, StoreTypeOK
<1>4. ASSUME NEW from, SaveTransitionEdge(mon[r].fn, from, state, PersistenceKey(t, ov))
      PROVE  \A e \in lifecycleTransitions' : e.fn \in Function /\ e.evidence \in EvidenceKey
  BY <1>1, <1>4 DEF SaveTransitionEdge, TypeOK, StoreTypeOK
<1> QED BY <1>1, <1>3, <1>4

\* A report of the run on its Function.
LEMMA ReportTypes ==
  ASSUME TypeOK, NEW r \in Run, NEW ov \in {"pass", "fail", "none"}, SaveReport(r, ov)
  PROVE  persistenceVerdicts' \in [Function -> [at : Time, overall : {"pass", "fail", "none"}]]
<1> DEFINE Report == [at : Time, overall : {"pass", "fail", "none"}]
<1>1. [at |-> now, overall |-> ov] \in Report
  BY DEF TypeOK, StoreTypeOK, Time
<1>2. persistenceVerdicts \in [Function -> Report]
  BY DEF TypeOK, StoreTypeOK
<1>3. CASE persistenceVerdicts' =
             [persistenceVerdicts EXCEPT ![mon[r].fn] = [at |-> now, overall |-> ov]]
  BY <1>1, <1>2, <1>3
<1>4. CASE persistenceVerdicts' =
             [persistenceVerdicts EXCEPT ![mon[r].fn] = persistenceVerdicts[mon[r].fn]]
  BY <1>2, <1>4
<1> QED BY <1>3, <1>4 DEF SaveReport

\* A run whose local state is replaced by a well-typed one.
LEMMA RunStateTypes ==
  ASSUME MonitorTypeOK, NEW r \in Run, NEW m \in RunState,
         m.pc \in InLoopBody => m.fn \in Function,
         mon' = [mon EXCEPT ![r] = m]
  PROVE  MonitorTypeOK'
<1>1. mon' \in [Run -> RunState]
  BY DEF MonitorTypeOK
<1>2. \A q \in Run : mon'[q] = IF q = r THEN m ELSE mon[q]
  BY DEF MonitorTypeOK
<1> QED BY <1>1, <1>2 DEF MonitorTypeOK

\* A run begins a loop over the rows of a query.
LEMMA EnterTypes ==
  ASSUME MonitorTypeOK, NEW r \in Run, NEW pc \in MonitorPc \ InLoopBody,
         NEW rows \in SUBSET (Function \cup Bead), Enter(r, pc, rows)
  PROVE  MonitorTypeOK'
<1> DEFINE m == [NoRun EXCEPT !.pc = pc, !.todo = rows]
<1>1. m \in RunState /\ m.pc \notin InLoopBody
  BY DEF NoRun, RunState
<1> QED BY <1>1, RunStateTypes DEF Enter

\* Back to the head of a loop.
LEMMA NextRowTypes ==
  ASSUME MonitorTypeOK, NEW r \in Run, NEW pc \in MonitorPc \ InLoopBody, NextRow(r, pc)
  PROVE  MonitorTypeOK'
<1>1. mon[r].todo \ {mon[r].fn} \in SUBSET (Function \cup Bead)
  BY DEF MonitorTypeOK, RunState
<1> QED BY <1>1, EnterTypes DEF NextRow

\* A row is handled, within its loop.
LEMMA HandledTypes ==
  ASSUME MonitorTypeOK, NEW r \in Run, NEW x, mon[r].pc \notin InLoopBody, Handled(r, x)
  PROVE  MonitorTypeOK'
<1> DEFINE m == [mon[r] EXCEPT !.todo = @ \ {x}]
<1>1. mon[r] \in RunState
  BY DEF MonitorTypeOK
<1>2. m \in RunState /\ m.pc \notin InLoopBody
  BY <1>1 DEF RunState
<1>3. mon' = [mon EXCEPT ![r] = m]
  BY DEF Handled
<1> QED BY <1>2, <1>3, RunStateTypes

\* On to the next step of a loop body.
LEMMA AdvanceTypes ==
  ASSUME MonitorTypeOK, NEW r \in Run, NEW pc \in MonitorPc, mon[r].fn \in Function,
         Advance(r, pc)
  PROVE  MonitorTypeOK'
<1> DEFINE m == [mon[r] EXCEPT !.pc = pc]
<1>1. mon[r] \in RunState
  BY DEF MonitorTypeOK
<1>2. m \in RunState /\ m.fn \in Function
  BY <1>1 DEF RunState
<1>3. mon' = [mon EXCEPT ![r] = m]
  BY DEF Advance
<1> QED BY <1>2, <1>3, RunStateTypes

\* The end of a run.
LEMMA NoRunTypes ==
  ASSUME MonitorTypeOK, NEW r \in Run, mon' = [mon EXCEPT ![r] = NoRun]
  PROVE  MonitorTypeOK'
<1>1. NoRun \in RunState /\ NoRun.pc \notin InLoopBody
  BY DEF NoRun, RunState, MonitorPc, InLoopBody
<1> QED BY <1>1, RunStateTypes

\* The steps of the monitor keep the types.
LEMMA MonitorTypes ==
  ASSUME TypeOK, MonitorNext, UNCHANGED <<webhookVars, disp>>
  PROVE  TypeOK'
<1> USE DEF TypeOK
<1>a. WebhookTypeOK' /\ disp' \in [Bead -> DispatchPc]
  BY DEF WebhookTypeOK, webhookVars
<1>b. ASSUME UNCHANGED storeVars PROVE StoreTypeOK'
  BY <1>b DEF StoreTypeOK, storeVars
<1>c. \A S \in SUBSET (Function \cup Bead) : FirstRows(S) \in SUBSET (Function \cup Bead)
  BY DEF FirstRows
<1>d. \A s : FunctionsIn(s) \in SUBSET (Function \cup Bead)
  BY DEF FunctionsIn
<1>e. \A pc : pc \in {"idle", "accepted", "monitored", "stale"} => pc \in MonitorPc \ InLoopBody
  BY DEF MonitorPc, InLoopBody
<1>f. ASSUME faults' = faults + 1,
             UNCHANGED <<now, dispatchLog, gcOutcome, completionEvents, fidelityVerdicts,
                         specsFunctions, lifecycleTransitions, specsSignals, specsIncidents,
                         specsPressures, persistenceVerdicts>>
      PROVE  StoreTypeOK'
  BY <1>f DEF StoreTypeOK
<1>1. ASSUME NEW r \in Run, StartRun(r) PROVE TypeOK'
  BY <1>1, <1>a, <1>b, <1>c, <1>d, <1>e, EnterTypes DEF StartRun
<1>2. ASSUME NEW r \in Run, StartRunTimesOut(r) PROVE TypeOK'
  BY <1>2, <1>a, <1>e, <1>f, EnterTypes DEF StartRunTimesOut, SpendFault
<1>3. ASSUME NEW r \in Run, QueryMonitored(r) PROVE TypeOK'
  BY <1>3, <1>a, <1>b, <1>c, <1>d, <1>e, EnterTypes DEF QueryMonitored
<1>4. ASSUME NEW r \in Run, QueryMonitoredTimesOut(r) PROVE TypeOK'
  BY <1>4, <1>a, <1>e, <1>f, EnterTypes DEF QueryMonitoredTimesOut, SpendFault
<1>5. ASSUME NEW r \in Run, QueryStale(r) PROVE TypeOK'
  BY <1>5, <1>a, <1>b, <1>c, <1>e, EnterTypes DEF QueryStale
<1>6. ASSUME NEW r \in Run, QueryStaleTimesOut(r) PROVE TypeOK'
  BY <1>6, <1>a, <1>e, <1>f, EnterTypes DEF QueryStaleTimesOut, SpendFault
<1>7. ASSUME NEW r \in Run, RunFails(r) PROVE TypeOK'
  BY <1>7, <1>a, <1>f, NoRunTypes DEF RunFails, SpendFault
<1>8. ASSUME NEW r \in Run, NEW f \in Function, ReadFidelity(r, f) PROVE TypeOK'
  <2>1. HasFreshPassVerdict(f) \in BOOLEAN
    BY DEF HasFreshPassVerdict
  <2>2. MonitorTypeOK'
    <3> DEFINE m == [mon[r] EXCEPT !.pc = "completion", !.fn = f,
                                   !.fidelityFresh = HasFreshPassVerdict(f)]
    <3>1. mon[r] \in RunState
      BY DEF MonitorTypeOK
    <3>2. m \in RunState /\ m.fn \in Function
      BY <2>1, <3>1 DEF RunState, MonitorPc
    <3>3. mon' = [mon EXCEPT ![r] = m]
      BY <1>8 DEF ReadFidelity
    <3> QED BY <3>2, <3>3, RunStateTypes
  <2> QED BY <1>8, <1>a, <1>b, <2>2 DEF ReadFidelity
<1>9. ASSUME NEW r \in Run, NEW f \in Function, ReadLatestReport(r, f) PROVE TypeOK'
  <2>1. mon[r].pc \notin InLoopBody
    BY <1>9 DEF ReadLatestReport, InLoopBody
  <2>2. ASSUME Handled(r, f) PROVE MonitorTypeOK'
    BY <2>1, <2>2, HandledTypes
  <2>3. ASSUME mon' = [mon EXCEPT ![r].pc = "failReport", ![r].fn = f] PROVE MonitorTypeOK'
    <3> DEFINE m == [mon[r] EXCEPT !.pc = "failReport", !.fn = f]
    <3>1. mon[r] \in RunState
      BY DEF MonitorTypeOK
    <3>2. m \in RunState /\ m.fn \in Function
      BY <3>1 DEF RunState, MonitorPc
    <3>3. mon' = [mon EXCEPT ![r] = m]
      BY <2>3
    <3> QED BY <3>2, <3>3, RunStateTypes
  <2>4. MonitorTypeOK'
    BY <1>9, <2>2, <2>3 DEF ReadLatestReport
  <2> QED BY <1>9, <1>a, <1>b, <2>4 DEF ReadLatestReport
<1>10. ASSUME NEW r \in Run, ReadCompletion(r) PROVE TypeOK'
  <2>1. mon[r].fn \in Function
    BY <1>10 DEF ReadCompletion, MonitorTypeOK, InLoopBody, MonitorPc
  <2>2. PICK ov \in {"pass", "fail"} : mon' = [mon EXCEPT ![r].pc = "report", ![r].overall = ov]
    BY <1>10 DEF ReadCompletion
  <2>3. MonitorTypeOK'
    <3> DEFINE m == [mon[r] EXCEPT !.pc = "report", !.overall = ov]
    <3>1. mon[r] \in RunState
      BY DEF MonitorTypeOK
    <3>2. m \in RunState /\ m.fn \in Function
      BY <2>1, <3>1 DEF RunState, MonitorPc
    <3>3. mon' = [mon EXCEPT ![r] = m]
      BY <2>2
    <3> QED BY <3>2, <3>3, RunStateTypes
  <2> QED BY <1>10, <1>a, <1>b, <2>3 DEF ReadCompletion
<1>11. ASSUME NEW r \in Run, WritePersistenceReport(r) PROVE TypeOK'
  <2>1. mon[r].fn \in Function /\ mon[r].overall \in {"pass", "fail", "none"}
    BY <1>11 DEF WritePersistenceReport, MonitorTypeOK, RunState, InLoopBody, MonitorPc
  <2>2. MonitorTypeOK'
    BY <1>11, <2>1, AdvanceTypes DEF WritePersistenceReport, MonitorPc
  <2>3. StoreTypeOK'
    BY <1>11, <2>1, ReportTypes DEF WritePersistenceReport, StoreTypeOK
  <2> QED BY <1>a, <2>2, <2>3
<1>12. ASSUME NEW r \in Run, Promote(r) PROVE TypeOK'
  <2>1. mon[r].fn \in Function /\ now \in Nat
    BY <1>12 DEF Promote, MonitorTypeOK, StoreTypeOK, InLoopBody, MonitorPc
  <2>2. MonitorTypeOK'
    BY <1>12, <2>1, AdvanceTypes DEF Promote, MonitorPc
  <2>3. StoreTypeOK'
    BY <1>12, <2>1, MonitorWrites DEF Promote, PatchState, FunctionState, StoreTypeOK
  <2> QED BY <1>a, <2>2, <2>3
<1>13. ASSUME NEW r \in Run, PromoteEdge(r) PROVE TypeOK'
  <2>1. mon[r].fn \in Function /\ now \in Nat
    BY <1>13 DEF PromoteEdge, MonitorTypeOK, StoreTypeOK, InLoopBody, MonitorPc
  <2>2. MonitorTypeOK'
    BY <1>13, <1>e, NextRowTypes DEF PromoteEdge
  <2>3. StoreTypeOK'
    BY <1>13, <2>1, MonitorWrites DEF PromoteEdge, FunctionState, StoreTypeOK
  <2> QED BY <1>a, <2>2, <2>3
<1>14. ASSUME NEW r \in Run, AcceptedIncident(r) PROVE TypeOK'
  <2>1. mon[r].fn \in Function
    BY <1>14 DEF AcceptedIncident, MonitorTypeOK, InLoopBody, MonitorPc
  <2>2. MonitorTypeOK'
    BY <1>14, <1>e, NextRowTypes DEF AcceptedIncident
  <2>3. StoreTypeOK'
    BY <1>14, <2>1 DEF AcceptedIncident, WritePersistenceIncident, Incident, StoreTypeOK
  <2> QED BY <1>a, <2>2, <2>3
<1>15. ASSUME NEW r \in Run, WriteFailReport(r) PROVE TypeOK'
  <2>1. mon[r].fn \in Function
    BY <1>15 DEF WriteFailReport, MonitorTypeOK, InLoopBody, MonitorPc
  <2>2. MonitorTypeOK'
    BY <1>15, <2>1, AdvanceTypes DEF WriteFailReport, MonitorPc
  <2>3. StoreTypeOK'
    BY <1>15, ReportTypes DEF WriteFailReport, StoreTypeOK
  <2> QED BY <1>a, <2>2, <2>3
<1>16. ASSUME NEW r \in Run, FailIncident(r) PROVE TypeOK'
  <2>1. mon[r].fn \in Function
    BY <1>16 DEF FailIncident, MonitorTypeOK, InLoopBody, MonitorPc
  <2>2. MonitorTypeOK'
    BY <1>16, <2>1, AdvanceTypes DEF FailIncident, MonitorPc
  <2>3. StoreTypeOK'
    BY <1>16, <2>1 DEF FailIncident, WritePersistenceIncident, Incident, StoreTypeOK
  <2> QED BY <1>a, <2>2, <2>3
<1>17. ASSUME NEW r \in Run, Regress(r) PROVE TypeOK'
  <2>1. mon[r].fn \in Function /\ now \in Nat
    BY <1>17 DEF Regress, MonitorTypeOK, StoreTypeOK, InLoopBody, MonitorPc
  <2>2. MonitorTypeOK'
    BY <1>17, <2>1, AdvanceTypes DEF Regress, MonitorPc
  <2>3. StoreTypeOK'
    BY <1>17, <2>1, MonitorWrites DEF Regress, PatchState, FunctionState, StoreTypeOK
  <2> QED BY <1>a, <2>2, <2>3
<1>18. ASSUME NEW r \in Run, RegressEdge(r) PROVE TypeOK'
  <2>1. mon[r].fn \in Function /\ now \in Nat
    BY <1>18 DEF RegressEdge, MonitorTypeOK, StoreTypeOK, InLoopBody, MonitorPc
  <2>2. MonitorTypeOK'
    BY <1>18, <1>e, NextRowTypes DEF RegressEdge
  <2>3. StoreTypeOK'
    BY <1>18, <2>1, MonitorWrites DEF RegressEdge, FunctionState, StoreTypeOK
  <2> QED BY <1>a, <2>2, <2>3
<1>19. ASSUME NEW r \in Run, NEW b \in Bead, WriteDispatchStaleIncident(r, b) PROVE TypeOK'
  <2>1. MonitorTypeOK'
    BY <1>19, HandledTypes DEF WriteDispatchStaleIncident, InLoopBody
  <2>2. StoreTypeOK'
    BY <1>19, StoreAssumption
    DEF WriteDispatchStaleIncident, StaleIncident, Incident, StoreTypeOK
  <2> QED BY <1>a, <2>1, <2>2
<1>20. ASSUME NEW r \in Run, EscalateRecurringIncidents(r) PROVE TypeOK'
  <2>1. MonitorTypeOK'
    BY <1>20, NoRunTypes DEF EscalateRecurringIncidents
  <2>2. StoreTypeOK'
    BY <1>20 DEF EscalateRecurringIncidents, RecurringGroups, StoreTypeOK
  <2> QED BY <1>a, <2>1, <2>2
<1> QED
  BY <1>1, <1>2, <1>3, <1>4, <1>5, <1>6, <1>7, <1>8, <1>9, <1>10, <1>11, <1>12, <1>13,
     <1>14, <1>15, <1>16, <1>17, <1>18, <1>19, <1>20
  DEF MonitorNext, RunStep

\* The steps of the dispatcher, Gas City's verdict and the clock.
DispatchNext ==
  \/ \E b \in Bead : \/ Sling(b) \/ DispatcherStep(b)
                     \/ RecordLost(b) \/ MarkFails(b) \/ GasCityCompletes(b)
  \/ Tick

\* The dispatcher, Gas City and the clock keep the types.
LEMMA DispatchTypes ==
  ASSUME TypeOK, DispatchNext
  PROVE  TypeOK'
<1> USE DEF TypeOK
<1>a. ASSUME UNCHANGED <<webhookVars, mon>> PROVE WebhookTypeOK' /\ MonitorTypeOK'
  BY <1>a DEF WebhookTypeOK, MonitorTypeOK, webhookVars
<1>b. ASSUME UNCHANGED storeVars PROVE StoreTypeOK'
  BY <1>b DEF StoreTypeOK, storeVars
<1>c. ASSUME faults' = faults + 1,
             UNCHANGED <<now, dispatchLog, gcOutcome, completionEvents, fidelityVerdicts,
                         specsFunctions, lifecycleTransitions, specsSignals, specsIncidents,
                         specsPressures, persistenceVerdicts>>
      PROVE  StoreTypeOK'
  BY <1>c DEF StoreTypeOK
<1>1. ASSUME NEW b \in Bead, Sling(b) PROVE TypeOK'
  <2>1. [outcome |-> "pending", startedAt |-> now]
          \in [outcome : {"none", "pending", "dispatched"}, startedAt : Time]
    BY DEF StoreTypeOK, Time
  <2>2. StoreTypeOK'
    BY <1>1, <2>1 DEF Sling, StoreTypeOK
  <2>3. disp' \in [Bead -> DispatchPc]
    BY <1>1 DEF Sling, DispatchPc
  <2> QED BY <1>1, <1>a, <2>2, <2>3 DEF Sling
<1>2. ASSUME NEW b \in Bead, RecordDispatched(b) PROVE TypeOK'
  <2>1. StoreTypeOK'
    BY <1>2 DEF RecordDispatched, StoreTypeOK
  <2>2. disp' \in [Bead -> DispatchPc]
    BY <1>2 DEF RecordDispatched, DispatchPc
  <2> QED BY <1>2, <1>a, <2>1, <2>2 DEF RecordDispatched
<1>3. ASSUME NEW b \in Bead, RecordLost(b) PROVE TypeOK'
  <2>1. disp' \in [Bead -> DispatchPc]
    BY <1>3 DEF RecordLost, DispatchPc
  <2> QED BY <1>3, <1>a, <1>c, <2>1 DEF RecordLost, SpendFault
<1>4. ASSUME NEW b \in Bead, MarkRead(b) PROVE TypeOK'
  <2>1. disp' \in [Bead -> DispatchPc]
    BY <1>4 DEF MarkRead, DispatchPc
  <2> QED BY <1>4, <1>a, <1>b, <2>1 DEF MarkRead
<1>5. ASSUME NEW b \in Bead, MarkWrite(b) PROVE TypeOK'
  <2>1. [state |-> "dispatched", evidence |-> LogKey(b)]
          \in [state : StoredState, evidence : EvidenceKey]
    BY DEF LogKey, StoredState, FunctionState, EvidenceKey, Time, Never
  <2>2. StoreTypeOK'
    BY <1>5, <2>1 DEF MarkWrite, PutState, StoreTypeOK
  <2>3. disp' \in [Bead -> DispatchPc]
    BY <1>5 DEF MarkWrite, DispatchPc
  <2> QED BY <1>5, <1>a, <2>2, <2>3 DEF MarkWrite
<1>6. ASSUME NEW b \in Bead, MarkFails(b) PROVE TypeOK'
  <2>1. disp' \in [Bead -> DispatchPc]
    BY <1>6 DEF MarkFails, DispatchPc
  <2> QED BY <1>6, <1>a, <1>c, <2>1 DEF MarkFails, SpendFault
<1>7. ASSUME NEW b \in Bead, GasCityCompletes(b) PROVE TypeOK'
  <2>1. StoreTypeOK'
    BY <1>7 DEF GasCityCompletes, StoreTypeOK
  <2> QED BY <1>7, <1>a, <2>1 DEF GasCityCompletes
<1>8. ASSUME Tick PROVE TypeOK'
  <2>1. StoreTypeOK'
    BY <1>8 DEF Tick, StoreTypeOK
  <2> QED BY <1>8, <1>a, <2>1 DEF Tick
<1> QED
  BY <1>1, <1>2, <1>3, <1>4, <1>5, <1>6, <1>7, <1>8 DEF DispatchNext, DispatcherStep

\* The initial state is well typed.
LEMMA InitTypes == Init => TypeOK
<1> SUFFICES ASSUME Init PROVE TypeOK
  OBVIOUS
<1> USE DEF Init
<1>1. StoreTypeOK
  BY DEF StoreInit, StoreTypeOK, Time, Never, NoVerdict, NoKey, NoState, StoredState, EvidenceKey
<1>2. WebhookTypeOK
  BY DEF WebhookInit, WebhookTypeOK, WebhookPc, Idle
<1>3. MonitorTypeOK
  BY DEF MonitorInit, MonitorTypeOK, RunState, MonitorPc, InLoopBody, NoRun
<1>4. disp \in [Bead -> DispatchPc]
  BY DEF DispatchPc
<1> QED BY <1>1, <1>2, <1>3, <1>4 DEF TypeOK

\* Every step, and every stuttering step, keeps the types.
LEMMA NextTypes == TypeOK /\ [Next]_vars => TypeOK'
<1> SUFFICES ASSUME TypeOK, [Next]_vars PROVE TypeOK'
  OBVIOUS
<1>1. CASE UNCHANGED vars
  BY <1>1 DEF vars, TypeOK, StoreTypeOK, WebhookTypeOK, MonitorTypeOK, storeVars, webhookVars
<1>2. CASE Next
  BY <1>2, WebhookTypes, MonitorTypes, DispatchTypes DEF Next, DispatchNext
<1> QED BY <1>1, <1>2

\* Every document and every local variable keeps its type, through any
\* interleaving, crash and lost write: property TypeOK.
THEOREM LoopTypeOK == Spec => []TypeOK
BY InitTypes, NextTypes, PTL DEF Spec
----------------------------------------------------------------------------
(***************************************************************************)
(* That verdicts are grounded and promotions fresh, and that GasCityLoop   *)
(* implements BeadLifecycle, for any constants.                            *)
(*                                                                         *)
(* None of the three is inductive: each step of a handler relies on what   *)
(* the handler, or another one, has checked or written some steps before.  *)
(* HandlerInv says what a handler may rely on at each of its steps,        *)
(* although other handlers of the same bead run in between; BeadInv says   *)
(* what the documents of one bead tell of each other.                      *)
(***************************************************************************)

Halted(b) == Incident("amendment_depth", FnOf[b], b, Never) \in specsIncidents

HandlerInv(d) ==
  LET b == h[d].bead IN
    /\ h[d].pc # "idle" =>
         /\ gcOutcome[b] # "none"
         /\ completionEvents[b] \in {Never, now}
         /\ fidelityVerdicts[b].at \in {Never, now}
    /\ h[d].pc \in {"event", "verdict", "state", "edge", "amend"} =>
         dispatchLog[b].outcome = "dispatched" /\ h[d].lineage = TRUE
    /\ h[d].pc \in {"verdict", "state", "edge", "amend"} => completionEvents[b] = now
    /\ h[d].pc \in {"state", "edge", "amend"} => fidelityVerdicts[b].overall # "none"
    /\ h[d].pc = "amend" => Revise(b)

BeadInv(b) ==
  /\ disp[b] = "idle" => dispatchLog[b].outcome = "none"
  /\ completionEvents[b] <= now
  /\ completionEvents[b] # Never => dispatchLog[b].outcome = "dispatched"
  /\ fidelityVerdicts[b].overall = "none" => fidelityVerdicts[b].at = Never
  /\ fidelityVerdicts[b].overall # "none" =>
       /\ completionEvents[b] # Never
       /\ gcOutcome[b] # "none"
       /\ fidelityVerdicts[b].overall = Overall(gcOutcome[b])
       /\ fidelityVerdicts[b].lineage = TRUE
       /\ fidelityVerdicts[b].at \in 0 .. now
  /\ b \in specsSignals => fidelityVerdicts[b].overall = "fail" /\ ~DepthExceeded(b)
  /\ Halted(b) => fidelityVerdicts[b].overall = "fail" /\ DepthExceeded(b)

GroundInv ==
  /\ \A d \in Handler : HandlerInv(d)
  /\ \A b \in Bead : BeadInv(b)

\* What GroundInv speaks of, but for the incidents.
intake == <<now, dispatchLog, gcOutcome, completionEvents, fidelityVerdicts,
            specsSignals, h, disp>>

\* A step that leaves the intake documents alone keeps GroundInv.
LEMMA IntakeFrame ==
  ASSUME GroundInv, UNCHANGED intake, \A b \in Bead : Halted(b)' <=> Halted(b)
  PROVE  GroundInv'
<1>1. \A d \in Handler : HandlerInv(d)'
  BY DEF GroundInv, HandlerInv, intake, Revise
<1>2. \A b \in Bead : BeadInv(b)'
  BY DEF GroundInv, BeadInv, intake, DepthExceeded
<1> QED BY <1>1, <1>2 DEF GroundInv

\* The other handlers do not notice that d goes to another step.
LEMMA HandlerMoves ==
  ASSUME TypeOK, NEW d \in Handler, NEW pc, Goto(d, pc)
  PROVE  /\ \A e \in Handler : e # d => h'[e] = h[e]
         /\ h'[d].pc = pc /\ h'[d].bead = h[d].bead /\ h'[d].lineage = h[d].lineage
BY DEF TypeOK, WebhookTypeOK, Goto

\* Nor do they notice that d returns.
LEMMA HandlerReturns ==
  ASSUME TypeOK, NEW d \in Handler, Return(d)
  PROVE  /\ \A e \in Handler : e # d => h'[e] = h[e]
         /\ h'[d].pc = "idle"
BY DEF TypeOK, WebhookTypeOK, Return, Idle

\* The monitor touches nothing of this.
LEMMA MonitorTouchesNothing ==
  ASSUME MonitorNext, UNCHANGED <<webhookVars, disp>>
  PROVE  UNCHANGED intake /\ \A b \in Bead : Halted(b)' <=> Halted(b)
<1>1. UNCHANGED intake
  BY DEF MonitorNext, RunStep, StartRun, StartRunTimesOut, QueryMonitored,
     QueryMonitoredTimesOut, QueryStale, QueryStaleTimesOut, RunFails, ReadFidelity,
     ReadLatestReport, ReadCompletion, WritePersistenceReport, Promote, PromoteEdge,
     AcceptedIncident, WriteFailReport, FailIncident, Regress, RegressEdge,
     WriteDispatchStaleIncident, EscalateRecurringIncidents, intake, storeVars, webhookVars
<1>2. \/ specsIncidents' = specsIncidents
      \/ \E r \in Run : specsIncidents' =
           specsIncidents \cup {Incident("persistence_stale", mon[r].fn, None, now)}
      \/ \E b \in Bead : specsIncidents' =
           specsIncidents \cup {Incident("dispatch_stale", FnOf[b], b, Never)}
  BY DEF MonitorNext, RunStep, StartRun, StartRunTimesOut, QueryMonitored,
     QueryMonitoredTimesOut, QueryStale, QueryStaleTimesOut, RunFails, ReadFidelity,
     ReadLatestReport, ReadCompletion, WritePersistenceReport, Promote, PromoteEdge,
     AcceptedIncident, WriteFailReport, FailIncident, Regress, RegressEdge,
     WriteDispatchStaleIncident, EscalateRecurringIncidents, WritePersistenceIncident,
     StaleIncident, storeVars
<1>3. \A b \in Bead : Halted(b)' <=> Halted(b)
  BY <1>2 DEF Halted, Incident
<1> QED BY <1>1, <1>3

\* A step that writes none of these documents and moves d to a step it may
\* be at.
LEMMA DocumentFrame ==
  ASSUME TypeOK, GroundInv, NEW d \in Handler,
         UNCHANGED <<now, dispatchLog, gcOutcome, completionEvents, fidelityVerdicts,
                     specsSignals, specsIncidents, disp>>,
         \A e \in Handler : e # d => h'[e] = h[e],
         HandlerInv(d)'
  PROVE  GroundInv'
<1>1. \A e \in Handler : HandlerInv(e)'
  <2> TAKE e \in Handler
  <2>1. CASE e = d
    BY <2>1
  <2>2. CASE e # d
    BY <2>2 DEF GroundInv, HandlerInv, Revise
  <2> QED BY <2>1, <2>2
<1>2. \A b \in Bead : BeadInv(b)'
  BY DEF GroundInv, BeadInv, DepthExceeded, Halted
<1> QED BY <1>1, <1>2 DEF GroundInv

\* Handlers keep GroundInv.
LEMMA WebhookGround ==
  ASSUME TypeOK, GroundInv, WebhookNext, UNCHANGED <<mon, disp>>
  PROVE  GroundInv'
<1>1. ASSUME NEW b \in Bead, AnswerDuplicate(b) PROVE GroundInv'
  BY <1>1, IntakeFrame DEF AnswerDuplicate, Deliver, intake, storeVars, Halted
<1>2. ASSUME NEW d \in Handler, NEW b \in Bead, NEW m \in BOOLEAN, Receive(d, b, m)
      PROVE  GroundInv'
  <2>1. h'[d].pc = "lookup" /\ h'[d].bead = b /\ \A e \in Handler : e # d => h'[e] = h[e]
    BY <1>2 DEF Receive, TypeOK, WebhookTypeOK
  <2>2. /\ UNCHANGED <<storeVars, disp>>
        /\ completionEvents[b] = Never /\ gcOutcome[b] # "none"
    BY <1>2 DEF Receive, Deliver
  <2>3. fidelityVerdicts[b].at = Never
    BY <2>2 DEF GroundInv, BeadInv
  <2>4. HandlerInv(d)'
    BY <2>1, <2>2, <2>3 DEF HandlerInv, storeVars
  <2> QED BY <2>1, <2>2, <2>4, DocumentFrame DEF storeVars
<1>3. ASSUME NEW d \in Handler, LookupDispatch(d) PROVE GroundInv'
  <2>1. UNCHANGED <<storeVars, disp>>
    BY <1>3 DEF LookupDispatch
  <2>2. CASE Goto(d, "event") /\ dispatchLog[h[d].bead].outcome = "dispatched" /\ h[d].lineage
    <3>1. /\ \A e \in Handler : e # d => h'[e] = h[e]
          /\ h'[d].pc = "event" /\ h'[d].bead = h[d].bead /\ h'[d].lineage = h[d].lineage
      BY <2>2, HandlerMoves
    <3>2. HandlerInv(d) /\ h[d].pc = "lookup"
      BY <1>3 DEF GroundInv, LookupDispatch
    <3>3. h[d].lineage = TRUE
      BY <2>2 DEF TypeOK, WebhookTypeOK
    <3>4. HandlerInv(d)'
      BY <2>1, <2>2, <3>1, <3>2, <3>3 DEF HandlerInv, storeVars
    <3> QED BY <2>1, <3>1, <3>4, DocumentFrame DEF storeVars
  <2>3. CASE Return(d)
    <3>1. \A e \in Handler : e # d => h'[e] = h[e]
      BY <2>3, HandlerReturns
    <3>2. HandlerInv(d)'
      BY <2>3, HandlerReturns DEF HandlerInv
    <3> QED BY <2>1, <3>1, <3>2, DocumentFrame DEF storeVars
  <2> QED BY <1>3, <2>2, <2>3 DEF LookupDispatch
<1>4. ASSUME NEW d \in Handler, SaveCompletionEvent(d) PROVE GroundInv'
  <2> DEFINE b == h[d].bead
  <2>1. b \in Bead /\ now \in Nat /\ HandlerInv(d)
    BY <1>4 DEF SaveCompletionEvent, TypeOK, StoreTypeOK, WebhookTypeOK, GroundInv
  <2>2. \A c \in Bead : completionEvents'[c] = IF c = b THEN now ELSE completionEvents[c]
    BY <1>4 DEF SaveCompletionEvent, TypeOK, StoreTypeOK
  <2>3. /\ UNCHANGED <<now, dispatchLog, gcOutcome, fidelityVerdicts, specsSignals,
                       specsIncidents, disp>>
        /\ h[d].pc = "event" /\ Goto(d, "verdict")
    BY <1>4 DEF SaveCompletionEvent
  <2>4. \A e \in Handler : HandlerInv(e)'
    <3> TAKE e \in Handler
    <3>1. CASE e = d
      BY <2>1, <2>2, <2>3, <3>1, HandlerMoves DEF HandlerInv
    <3>2. CASE e # d
      <4>1. h'[e] = h[e] /\ HandlerInv(e)
        BY <2>3, <3>2, HandlerMoves DEF GroundInv
      <4>2. h[e].pc # "idle" => h[e].bead \in Bead
        BY DEF TypeOK, WebhookTypeOK
      <4>3. CASE h[e].pc = "idle"
        BY <4>1, <4>3 DEF HandlerInv
      <4>4. CASE h[e].pc # "idle"
        BY <2>2, <2>3, <4>1, <4>2, <4>4 DEF HandlerInv, Revise
      <4> QED BY <4>3, <4>4
    <3> QED BY <3>1, <3>2
  <2>5. \A c \in Bead : BeadInv(c)'
    BY <2>1, <2>2, <2>3 DEF GroundInv, BeadInv, HandlerInv, Halted, DepthExceeded, Never
  <2> QED BY <2>4, <2>5 DEF GroundInv
<1>5. ASSUME NEW d \in Handler, SaveFidelityVerdict(d) PROVE GroundInv'
  <2> DEFINE b == h[d].bead
             v == [at |-> now, overall |-> Overall(gcOutcome[b]), lineage |-> h[d].lineage]
  <2>1. b \in Bead /\ now \in Nat /\ HandlerInv(d) /\ BeadInv(b)
    BY <1>5 DEF SaveFidelityVerdict, TypeOK, StoreTypeOK, WebhookTypeOK, GroundInv
  <2>2. \A c \in Bead : fidelityVerdicts'[c] = IF c = b THEN v ELSE fidelityVerdicts[c]
    BY <1>5 DEF SaveFidelityVerdict, TypeOK, StoreTypeOK
  <2>3. /\ UNCHANGED <<now, dispatchLog, gcOutcome, completionEvents, specsSignals,
                       specsIncidents, disp>>
        /\ h[d].pc = "verdict" /\ Goto(d, "state")
    BY <1>5 DEF SaveFidelityVerdict
  <2>4. v.at = now /\ v.overall = Overall(gcOutcome[b]) /\ v.lineage = TRUE /\ v.overall # "none"
    BY <2>1, <2>3 DEF HandlerInv, Overall
  <2> HIDE DEF v
  <2>5. \A e \in Handler : HandlerInv(e)'
    <3> TAKE e \in Handler
    <3>1. CASE e = d
      BY <2>1, <2>2, <2>3, <2>4, <3>1, HandlerMoves DEF HandlerInv
    <3>2. CASE e # d
      <4>1. h'[e] = h[e] /\ HandlerInv(e)
        BY <2>3, <3>2, HandlerMoves DEF GroundInv
      <4>2. h[e].pc # "idle" => h[e].bead \in Bead
        BY DEF TypeOK, WebhookTypeOK
      <4>3. CASE h[e].pc = "idle"
        BY <4>1, <4>3 DEF HandlerInv
      <4>4. CASE h[e].pc # "idle"
        BY <2>2, <2>3, <2>4, <4>1, <4>2, <4>4 DEF HandlerInv, Revise
      <4> QED BY <4>3, <4>4
    <3> QED BY <3>1, <3>2
  <2>6. \A c \in Bead : BeadInv(c)'
    <3> TAKE c \in Bead
    <3>1. CASE c # b
      BY <2>2, <2>3, <3>1 DEF GroundInv, BeadInv, Halted, DepthExceeded
    <3>2. CASE c = b
      <4>1. fidelityVerdicts'[c] = v /\ completionEvents[c] = now /\ gcOutcome[c] # "none"
        BY <2>1, <2>2, <2>3, <3>2 DEF HandlerInv
      <4>2. fidelityVerdicts[c].overall = "fail" => v.overall = "fail"
        BY <2>1, <2>4, <3>2 DEF BeadInv
      <4>3. Halted(c)' <=> Halted(c)
        BY <2>3 DEF Halted
      <4>4. v.at \in 0 .. now
        BY <2>1, <2>4
      <4> QED
        BY <2>1, <2>3, <2>4, <3>2, <4>1, <4>2, <4>3, <4>4 DEF BeadInv, Never, DepthExceeded
    <3> QED BY <3>1, <3>2
  <2> QED BY <2>5, <2>6 DEF GroundInv
<1>6. ASSUME NEW d \in Handler, PatchLifecycleState(d) PROVE GroundInv'
  <2>1. /\ \A e \in Handler : e # d => h'[e] = h[e]
        /\ h'[d].pc = "edge" /\ h'[d].bead = h[d].bead /\ h'[d].lineage = h[d].lineage
    BY <1>6, HandlerMoves DEF PatchLifecycleState
  <2>2. h[d].pc = "state" /\ HandlerInv(d)
    BY <1>6 DEF PatchLifecycleState, GroundInv
  <2>3. UNCHANGED <<now, dispatchLog, gcOutcome, completionEvents, fidelityVerdicts,
                    specsSignals, specsIncidents, disp>>
    BY <1>6 DEF PatchLifecycleState
  <2>4. HandlerInv(d)'
    BY <2>1, <2>2, <2>3 DEF HandlerInv
  <2> QED BY <2>1, <2>3, <2>4, DocumentFrame
<1>7. ASSUME NEW d \in Handler, SaveLifecycleEdge(d) PROVE GroundInv'
  <2>1. h[d].pc = "edge" /\ HandlerInv(d)
    BY <1>7 DEF SaveLifecycleEdge, GroundInv
  <2>2. UNCHANGED <<now, dispatchLog, gcOutcome, completionEvents, fidelityVerdicts,
                    specsSignals, specsIncidents, disp>>
    BY <1>7 DEF SaveLifecycleEdge
  <2>3. CASE Revise(h[d].bead) /\ Goto(d, "amend")
    <3>1. /\ \A e \in Handler : e # d => h'[e] = h[e]
          /\ h'[d].pc = "amend" /\ h'[d].bead = h[d].bead /\ h'[d].lineage = h[d].lineage
      BY <2>3, HandlerMoves
    <3>2. HandlerInv(d)'
      BY <2>1, <2>2, <2>3, <3>1 DEF HandlerInv, Revise
    <3> QED BY <2>2, <3>1, <3>2, DocumentFrame
  <2>4. CASE Return(d)
    <3>1. \A e \in Handler : e # d => h'[e] = h[e]
      BY <2>4, HandlerReturns
    <3>2. HandlerInv(d)'
      BY <2>4, HandlerReturns DEF HandlerInv
    <3> QED BY <2>2, <3>1, <3>2, DocumentFrame
  <2> QED BY <1>7, <2>3, <2>4 DEF SaveLifecycleEdge
<1>8. ASSUME NEW d \in Handler, WriteRevisionSignal(d) PROVE GroundInv'
  <2>1. h[d].pc = "amend" /\ HandlerInv(d) /\ h[d].bead \in Bead
    BY <1>8 DEF WriteRevisionSignal, GroundInv, TypeOK, WebhookTypeOK
  <2>2. /\ UNCHANGED <<now, dispatchLog, gcOutcome, completionEvents, fidelityVerdicts,
                       specsIncidents, disp>>
        /\ specsSignals' = specsSignals \cup {h[d].bead} /\ ~DepthExceeded(h[d].bead)
        /\ Return(d)
    BY <1>8 DEF WriteRevisionSignal
  <2>3. fidelityVerdicts[h[d].bead].overall = "fail"
    BY <2>1 DEF HandlerInv, GroundInv, BeadInv, Revise, Overall
  <2>4. \A e \in Handler : HandlerInv(e)'
    BY <2>2, HandlerReturns DEF GroundInv, HandlerInv, Revise
  <2>5. \A c \in Bead : BeadInv(c)'
    BY <2>2, <2>3 DEF GroundInv, BeadInv, Halted, DepthExceeded
  <2> QED BY <2>4, <2>5 DEF GroundInv
<1>9. ASSUME NEW d \in Handler, WriteAmendmentDepthIncident(d) PROVE GroundInv'
  <2> DEFINE b == h[d].bead
  <2>1. h[d].pc = "amend" /\ HandlerInv(d) /\ b \in Bead
    BY <1>9 DEF WriteAmendmentDepthIncident, GroundInv, TypeOK, WebhookTypeOK
  <2>2. /\ UNCHANGED <<now, dispatchLog, gcOutcome, completionEvents, fidelityVerdicts,
                       specsSignals, disp>>
        /\ specsIncidents' = specsIncidents \cup {Incident("amendment_depth", FnOf[b], b, Never)}
        /\ DepthExceeded(b)
        /\ Return(d)
    BY <1>9 DEF WriteAmendmentDepthIncident
  <2>3. fidelityVerdicts[b].overall = "fail"
    BY <2>1 DEF HandlerInv, GroundInv, BeadInv, Revise, Overall
  <2>4. \A c \in Bead : Halted(c)' => Halted(c) \/ c = b
    BY <2>2 DEF Halted, Incident
  <2>5. \A e \in Handler : HandlerInv(e)'
    BY <2>2, HandlerReturns DEF GroundInv, HandlerInv, Revise
  <2>6. \A c \in Bead : BeadInv(c)'
    BY <2>2, <2>3, <2>4 DEF GroundInv, BeadInv, DepthExceeded
  <2> QED BY <2>5, <2>6 DEF GroundInv
<1>10. ASSUME NEW b \in Bead, NEW type \in EventType, HandleOperationalEvent(b, type)
      PROVE  GroundInv'
  <2>1. \A c \in Bead : Halted(c)' <=> Halted(c)
    BY <1>10, WebhookAssumption DEF HandleOperationalEvent, Halted, Incident
  <2>2. UNCHANGED intake
    BY <1>10 DEF HandleOperationalEvent, intake, webhookVars
  <2> QED BY <2>1, <2>2, IntakeFrame
<1>11. ASSUME NEW d \in Handler, HandlerFails(d) PROVE GroundInv'
  <2>1. \A e \in Handler : e # d => h'[e] = h[e]
    BY <1>11, HandlerReturns DEF HandlerFails
  <2>2. HandlerInv(d)'
    BY <1>11, HandlerReturns DEF HandlerFails, HandlerInv
  <2> QED BY <1>11, <2>1, <2>2, DocumentFrame DEF HandlerFails
<1> QED
  BY <1>1, <1>2, <1>3, <1>4, <1>5, <1>6, <1>7, <1>8, <1>9, <1>10, <1>11
  DEF WebhookNext, HandlerStep

\* The dispatcher, Gas City and the clock keep GroundInv: a bead is slung
\* once, its verdict is reached once, and the clock waits for the handlers.
LEMMA DispatchGround ==
  ASSUME TypeOK, GroundInv, DispatchNext
  PROVE  GroundInv'
<1>1. ASSUME NEW b \in Bead, Sling(b) PROVE GroundInv'
  <2>1. \A c \in Bead : c # b => dispatchLog'[c] = dispatchLog[c] /\ disp'[c] = disp[c]
    BY <1>1 DEF Sling, TypeOK, StoreTypeOK
  <2>2. dispatchLog[b].outcome = "none" /\ disp'[b] = "slung"
    BY <1>1 DEF Sling, TypeOK, GroundInv, BeadInv
  <2>3. UNCHANGED <<now, gcOutcome, completionEvents, fidelityVerdicts, specsSignals,
                    specsIncidents, h>>
    BY <1>1 DEF Sling, webhookVars
  <2>4. completionEvents[b] = Never /\ fidelityVerdicts[b].overall = "none"
    BY <2>2 DEF GroundInv, BeadInv
  <2>5. \A e \in Handler : HandlerInv(e)'
    <3> TAKE e \in Handler
    <3>1. h[e].pc # "idle" => h[e].bead \in Bead
      BY DEF TypeOK, WebhookTypeOK
    <3>2. HandlerInv(e)
      BY DEF GroundInv
    <3>3. CASE h[e].pc = "idle"
      BY <2>3, <3>3 DEF HandlerInv
    <3>4. CASE h[e].pc # "idle" /\ h[e].bead = b
      BY <2>2, <2>3, <3>2, <3>4 DEF HandlerInv, Revise
    <3>5. CASE h[e].pc # "idle" /\ h[e].bead # b
      BY <2>1, <2>3, <3>1, <3>2, <3>5 DEF HandlerInv, Revise
    <3> QED BY <3>3, <3>4, <3>5
  <2>6. \A c \in Bead : BeadInv(c)'
    <3> TAKE c \in Bead
    <3>1. BeadInv(c)
      BY DEF GroundInv
    <3>2. CASE c = b
      BY <2>2, <2>3, <2>4, <3>1, <3>2 DEF BeadInv, Halted, DepthExceeded
    <3>3. CASE c # b
      BY <2>1, <2>3, <3>1, <3>3 DEF BeadInv, Halted, DepthExceeded
    <3> QED BY <3>2, <3>3
  <2> QED BY <2>5, <2>6 DEF GroundInv
<1>2. ASSUME NEW b \in Bead, RecordDispatched(b) PROVE GroundInv'
  <2>1. \A c \in Bead : dispatchLog'[c].outcome =
                          IF c = b THEN "dispatched" ELSE dispatchLog[c].outcome
    BY <1>2 DEF RecordDispatched, TypeOK, StoreTypeOK
  <2>2. \A c \in Bead : disp'[c] = "idle" => disp[c] = "idle" /\ c # b
    BY <1>2 DEF RecordDispatched, TypeOK
  <2>3. UNCHANGED <<now, gcOutcome, completionEvents, fidelityVerdicts, specsSignals,
                    specsIncidents, h>>
    BY <1>2 DEF RecordDispatched, webhookVars
  <2>4. \A e \in Handler : HandlerInv(e)'
    <3> TAKE e \in Handler
    <3>1. h[e].pc # "idle" => h[e].bead \in Bead
      BY DEF TypeOK, WebhookTypeOK
    <3> QED BY <2>1, <2>3, <3>1 DEF GroundInv, HandlerInv, Revise
  <2>5. \A c \in Bead : BeadInv(c)'
    BY <2>1, <2>2, <2>3 DEF GroundInv, BeadInv, Halted, DepthExceeded
  <2> QED BY <2>4, <2>5 DEF GroundInv
<1>3. ASSUME NEW b \in Bead, MarkRead(b) \/ MarkWrite(b) \/ RecordLost(b) \/ MarkFails(b)
      PROVE  GroundInv'
  <2>1. \A c \in Bead : disp'[c] = "idle" => disp[c] = "idle"
    BY <1>3 DEF MarkRead, MarkWrite, RecordLost, MarkFails, TypeOK
  <2>2. UNCHANGED <<now, dispatchLog, gcOutcome, completionEvents, fidelityVerdicts,
                    specsSignals, specsIncidents, h>>
    BY <1>3 DEF MarkRead, MarkWrite, RecordLost, MarkFails, storeVars, webhookVars
  <2>3. \A e \in Handler : HandlerInv(e)'
    BY <2>2 DEF GroundInv, HandlerInv, Revise
  <2>4. \A c \in Bead : BeadInv(c)'
    BY <2>1, <2>2 DEF GroundInv, BeadInv, Halted, DepthExceeded
  <2> QED BY <2>3, <2>4 DEF GroundInv
<1>4. ASSUME NEW b \in Bead, GasCityCompletes(b) PROVE GroundInv'
  <2>1. gcOutcome[b] = "none" /\ gcOutcome'[b] # "none"
        /\ \A c \in Bead : c # b => gcOutcome'[c] = gcOutcome[c]
    BY <1>4 DEF GasCityCompletes, TypeOK, StoreTypeOK
  <2>2. UNCHANGED <<now, dispatchLog, completionEvents, fidelityVerdicts,
                    specsSignals, specsIncidents, h, disp>>
    BY <1>4 DEF GasCityCompletes, webhookVars
  <2>3. \A e \in Handler : HandlerInv(e)'
    <3> TAKE e \in Handler
    <3>1. h[e].pc # "idle" => h[e].bead \in Bead /\ h[e].bead # b
      BY <2>1 DEF TypeOK, WebhookTypeOK, GroundInv, HandlerInv
    <3> QED BY <2>1, <2>2, <3>1 DEF GroundInv, HandlerInv, Revise
  <2>4. \A c \in Bead : BeadInv(c)'
    BY <2>1, <2>2 DEF GroundInv, BeadInv, Halted, DepthExceeded
  <2> QED BY <2>3, <2>4 DEF GroundInv
<1>5. ASSUME Tick PROVE GroundInv'
  <2>1. /\ \A e \in Handler : h'[e].pc = "idle"
        /\ now' = now + 1 /\ now \in Nat
        /\ UNCHANGED <<dispatchLog, gcOutcome, completionEvents, fidelityVerdicts,
                       specsSignals, specsIncidents, disp>>
    BY <1>5 DEF Tick, Settled, webhookVars, TypeOK, StoreTypeOK
  <2>2. \A e \in Handler : HandlerInv(e)'
    BY <2>1 DEF HandlerInv
  <2>3. \A c \in Bead : BeadInv(c)'
    <3> TAKE c \in Bead
    <3>1. completionEvents[c] \in Int /\ fidelityVerdicts[c].at \in Int
      BY DEF TypeOK, StoreTypeOK, Time
    <3>2. completionEvents[c] <= now => completionEvents[c] <= now'
      BY <2>1, <3>1
    <3>3. fidelityVerdicts[c].at \in 0 .. now => fidelityVerdicts[c].at \in 0 .. now'
      BY <2>1, <3>1
    <3> QED BY <2>1, <3>2, <3>3 DEF GroundInv, BeadInv, Halted, DepthExceeded
  <2> QED BY <2>2, <2>3 DEF GroundInv
<1> QED BY <1>1, <1>2, <1>3, <1>4, <1>5 DEF DispatchNext, DispatcherStep

\* GroundInv holds at the start: there is no bead and no handler yet.
LEMMA InitGround == Init => GroundInv
<1> SUFFICES ASSUME Init PROVE GroundInv
  OBVIOUS
<1>1. \A d \in Handler : HandlerInv(d)
  BY DEF Init, WebhookInit, Idle, HandlerInv
<1>2. \A b \in Bead : BeadInv(b)
  BY DEF Init, StoreInit, BeadInv, Halted, NoVerdict, Never
<1> QED BY <1>1, <1>2 DEF GroundInv

\* GroundInv is inductive relative to the types.
LEMMA NextGround == TypeOK /\ GroundInv /\ [Next]_vars => GroundInv'
<1> SUFFICES ASSUME TypeOK, GroundInv, [Next]_vars PROVE GroundInv'
  OBVIOUS
<1>1. CASE UNCHANGED vars
  BY <1>1, IntakeFrame DEF vars, storeVars, webhookVars, intake, Halted
<1>2. CASE Next
  BY <1>2, WebhookGround, MonitorTouchesNothing, IntakeFrame, DispatchGround DEF Next, DispatchNext
<1> QED BY <1>1, <1>2

\* The strengthened invariant of the loop.
LEMMA LoopGround == Spec => [](TypeOK /\ GroundInv)
<1>1. Init => TypeOK /\ GroundInv
  BY InitTypes, InitGround
<1>2. TypeOK /\ GroundInv /\ [Next]_vars => (TypeOK /\ GroundInv)'
  BY NextTypes, NextGround
<1> QED BY <1>1, <1>2, PTL DEF Spec

\* No fidelity verdict without its completion event, its finalised dispatch
\* and the check of its lineage, for any number of concurrent deliveries,
\* crashes and lost writes: property VerdictGrounded.
THEOREM LoopVerdictGrounded == Spec => []VerdictGrounded
<1>1. GroundInv => VerdictGrounded
  BY DEF GroundInv, BeadInv, VerdictGrounded
<1> QED BY <1>1, LoopGround, PTL

----------------------------------------------------------------------------
(* Refinement of BeadLifecycle *)

\* What the phase of a bead depends on.
PhaseSame(b) ==
  /\ dispatchLog'[b].outcome = "dispatched" <=> dispatchLog[b].outcome = "dispatched"
  /\ completionEvents'[b] = Never <=> completionEvents[b] = Never
  /\ fidelityVerdicts'[b].overall = fidelityVerdicts[b].overall
  /\ b \in specsSignals' <=> b \in specsSignals
  /\ Halted(b)' <=> Halted(b)

phases == [b \in Bead |-> phaseOf(b)]

\* The phase of a bead is a function of five of its documents.
LEMMA PhaseFrame ==
  ASSUME NEW b \in Bead, PhaseSame(b)
  PROVE  phaseOf(b)' = phaseOf(b)
BY DEF PhaseSame, phaseOf, Halted

\* If one bead changes phase and the others keep theirs, that is a Move.
LEMMA PhaseMoves ==
  ASSUME NEW b \in Bead, NEW from, NEW to,
         \A c \in Bead : c # b => PhaseSame(c),
         phaseOf(b) = from, phaseOf(b)' = to
  PROVE  Beads!Move(b, from, to)
<1>1. \A c \in Bead : c # b => phaseOf(c)' = phaseOf(c)
  BY PhaseFrame
<1>2. phases[b] = from
  BY DEF phases
<1>3. phases' = [phases EXCEPT ![b] = to]
  BY <1>1 DEF phases
<1> QED BY <1>2, <1>3 DEF Beads!Move, phases

\* If every bead keeps its phase, BeadLifecycle stutters.
LEMMA PhaseStutters ==
  ASSUME \A b \in Bead : PhaseSame(b)
  PROVE  UNCHANGED phases
<1>1. \A b \in Bead : phaseOf(b)' = phaseOf(b)
  BY PhaseFrame
<1> QED BY <1>1 DEF phases

\* Every step of the loop is a step of BeadLifecycle, or none.
LEMMA BeadStep ==
  ASSUME TypeOK, GroundInv, [Next]_vars
  PROVE  [Beads!Next]_phases
<1> USE DEF PhaseSame
<1>a. ASSUME UNCHANGED <<dispatchLog, completionEvents, fidelityVerdicts, specsSignals>>,
             \A b \in Bead : Halted(b)' <=> Halted(b)
      PROVE  UNCHANGED phases
  BY <1>a, PhaseStutters
<1>1. ASSUME NEW b \in Bead, RecordDispatched(b) PROVE [Beads!Next]_phases
  <2>1. \A c \in Bead : c # b => PhaseSame(c)
    BY <1>1 DEF RecordDispatched, TypeOK, StoreTypeOK, Halted
  <2>2. CASE dispatchLog[b].outcome = "dispatched"
    <3>1. PhaseSame(b)
      BY <1>1, <2>2 DEF RecordDispatched, TypeOK, StoreTypeOK, Halted
    <3> QED BY <2>1, <3>1, PhaseStutters
  <2>3. CASE dispatchLog[b].outcome # "dispatched"
    <3>1. phaseOf(b) = "open"
      BY <2>3 DEF GroundInv, BeadInv, phaseOf, Halted
    <3>2. phaseOf(b)' = "dispatched"
      BY <1>1, <2>3 DEF RecordDispatched, TypeOK, StoreTypeOK, GroundInv, BeadInv, phaseOf, Halted
    <3>3. Beads!Dispatch(b)
      BY <2>1, <3>1, <3>2, PhaseMoves DEF Beads!Dispatch
    <3> QED BY <3>3 DEF Beads!Next
  <2> QED BY <2>2, <2>3
<1>2. ASSUME NEW d \in Handler, SaveCompletionEvent(d) PROVE [Beads!Next]_phases
  <2>1. PICK b \in Bead : b = h[d].bead
    BY <1>2 DEF SaveCompletionEvent, TypeOK, WebhookTypeOK
  <2>2. now # Never /\ HandlerInv(d) /\ BeadInv(b)
    BY DEF TypeOK, StoreTypeOK, GroundInv, Never
  <2>3. \A c \in Bead : c # b => PhaseSame(c)
    BY <1>2, <2>1 DEF SaveCompletionEvent, TypeOK, StoreTypeOK, Halted
  <2>4. /\ completionEvents'[b] = now
        /\ UNCHANGED <<dispatchLog, fidelityVerdicts, specsSignals, specsIncidents>>
    BY <1>2, <2>1 DEF SaveCompletionEvent, TypeOK, StoreTypeOK
  <2>5. CASE completionEvents[b] # Never
    <3>1. PhaseSame(b)
      BY <2>2, <2>4, <2>5 DEF Halted
    <3> QED BY <2>3, <3>1, PhaseStutters
  <2>6. CASE completionEvents[b] = Never
    <3>1. phaseOf(b) = "dispatched"
      BY <1>2, <2>1, <2>2, <2>6 DEF SaveCompletionEvent, HandlerInv, BeadInv, phaseOf, Halted
    <3>2. phaseOf(b)' = "completed"
      BY <2>2, <2>4, <2>6 DEF BeadInv, phaseOf, Halted
    <3>3. Beads!Complete(b)
      BY <2>3, <3>1, <3>2, PhaseMoves DEF Beads!Complete
    <3> QED BY <3>3 DEF Beads!Next
  <2> QED BY <2>5, <2>6
<1>3. ASSUME NEW d \in Handler, SaveFidelityVerdict(d) PROVE [Beads!Next]_phases
  <2>1. PICK b \in Bead : b = h[d].bead
    BY <1>3 DEF SaveFidelityVerdict, TypeOK, WebhookTypeOK
  <2>2. h[d].pc = "verdict" /\ HandlerInv(d) /\ BeadInv(b) /\ now # Never
    BY <1>3 DEF SaveFidelityVerdict, TypeOK, StoreTypeOK, GroundInv, Never
  <2>3. \A c \in Bead : c # b => PhaseSame(c)
    BY <1>3, <2>1 DEF SaveFidelityVerdict, TypeOK, StoreTypeOK, Halted
  <2>4. /\ fidelityVerdicts'[b].overall = Overall(gcOutcome[b])
        /\ UNCHANGED <<dispatchLog, completionEvents, specsSignals, specsIncidents>>
    BY <1>3, <2>1 DEF SaveFidelityVerdict, TypeOK, StoreTypeOK
  <2>5. CASE fidelityVerdicts[b].overall # "none"
    <3>1. PhaseSame(b)
      BY <2>2, <2>4, <2>5 DEF BeadInv, Halted
    <3> QED BY <2>3, <3>1, PhaseStutters
  <2>6. CASE fidelityVerdicts[b].overall = "none"
    <3>1. phaseOf(b) = "completed"
      BY <2>1, <2>2, <2>6 DEF HandlerInv, BeadInv, phaseOf, Halted
    <3>2. phaseOf(b)' \in {"passed", "failed"}
      BY <2>2, <2>4, <2>6 DEF BeadInv, phaseOf, Halted, Overall
    <3>3. Beads!Judge(b)
      BY <2>3, <3>1, <3>2, PhaseMoves DEF Beads!Judge
    <3> QED BY <3>3 DEF Beads!Next
  <2> QED BY <2>5, <2>6
<1>4. ASSUME NEW d \in Handler, WriteRevisionSignal(d) PROVE [Beads!Next]_phases
  <2>1. PICK b \in Bead : b = h[d].bead
    BY <1>4 DEF WriteRevisionSignal, TypeOK, WebhookTypeOK
  <2>2. h[d].pc = "amend" /\ HandlerInv(d) /\ BeadInv(b) /\ ~DepthExceeded(b)
    BY <1>4, <2>1 DEF WriteRevisionSignal, GroundInv
  <2>3. /\ specsSignals' = specsSignals \cup {b}
        /\ UNCHANGED <<dispatchLog, completionEvents, fidelityVerdicts, specsIncidents>>
    BY <1>4, <2>1 DEF WriteRevisionSignal
  <2>4. \A c \in Bead : c # b => PhaseSame(c)
    BY <2>3 DEF Halted
  <2>5. CASE b \in specsSignals
    <3>1. PhaseSame(b)
      BY <2>3, <2>5 DEF Halted
    <3> QED BY <2>4, <3>1, PhaseStutters
  <2>6. CASE b \notin specsSignals
    <3>1. fidelityVerdicts[b].overall = "fail"
      BY <2>1, <2>2 DEF HandlerInv, BeadInv, Revise, Overall
    <3>2. phaseOf(b) = "failed"
      BY <2>2, <2>6, <3>1 DEF BeadInv, phaseOf, Halted
    <3>3. phaseOf(b)' = "amended"
      BY <2>3 DEF phaseOf
    <3>4. Attempt[b] <= MaxAmendmentDepth
      BY <2>2, StoreAssumption, WebhookAssumption DEF DepthExceeded
    <3>5. Beads!Amend(b)
      BY <2>4, <3>2, <3>3, <3>4, PhaseMoves DEF Beads!Amend
    <3> QED BY <3>5 DEF Beads!Next
  <2> QED BY <2>5, <2>6
<1>5. ASSUME NEW d \in Handler, WriteAmendmentDepthIncident(d) PROVE [Beads!Next]_phases
  <2>1. PICK b \in Bead : b = h[d].bead
    BY <1>5 DEF WriteAmendmentDepthIncident, TypeOK, WebhookTypeOK
  <2>2. h[d].pc = "amend" /\ HandlerInv(d) /\ BeadInv(b) /\ DepthExceeded(b)
    BY <1>5, <2>1 DEF WriteAmendmentDepthIncident, GroundInv
  <2>3. /\ specsIncidents' = specsIncidents \cup {Incident("amendment_depth", FnOf[b], b, Never)}
        /\ UNCHANGED <<dispatchLog, completionEvents, fidelityVerdicts, specsSignals>>
    BY <1>5, <2>1 DEF WriteAmendmentDepthIncident
  <2>4. \A c \in Bead : c # b => PhaseSame(c)
    BY <2>3 DEF Halted, Incident
  <2>5. CASE Halted(b)
    <3>1. PhaseSame(b)
      BY <2>3, <2>5 DEF Halted
    <3> QED BY <2>4, <3>1, PhaseStutters
  <2>6. CASE ~Halted(b)
    <3>1. fidelityVerdicts[b].overall = "fail"
      BY <2>1, <2>2 DEF HandlerInv, BeadInv, Revise, Overall
    <3>2. phaseOf(b) = "failed"
      BY <2>2, <2>6, <3>1 DEF BeadInv, phaseOf, Halted
    <3>3. phaseOf(b)' = "halted"
      BY <2>2, <2>3 DEF BeadInv, phaseOf
    <3>4. Beads!Halt(b)
      BY <2>2, <2>4, <3>2, <3>3, PhaseMoves DEF Beads!Halt, DepthExceeded
    <3> QED BY <3>4 DEF Beads!Next
  <2> QED BY <2>5, <2>6
<1>6. ASSUME NEW d \in Handler,
             LookupDispatch(d) \/ PatchLifecycleState(d) \/ SaveLifecycleEdge(d) \/ HandlerFails(d)
      PROVE  UNCHANGED phases
  BY <1>6, <1>a DEF LookupDispatch, PatchLifecycleState, SaveLifecycleEdge, HandlerFails,
     storeVars, Halted
<1>7. ASSUME NEW b \in Bead, AnswerDuplicate(b) PROVE UNCHANGED phases
  BY <1>7, <1>a DEF AnswerDuplicate, Deliver, storeVars, Halted
<1>8. ASSUME NEW d \in Handler, NEW b \in Bead, NEW m \in BOOLEAN, Receive(d, b, m)
      PROVE  UNCHANGED phases
  BY <1>8, <1>a DEF Receive, Deliver, storeVars, Halted
<1>9. ASSUME NEW b \in Bead, NEW type \in EventType, HandleOperationalEvent(b, type)
      PROVE  UNCHANGED phases
  BY <1>9, <1>a, WebhookAssumption DEF HandleOperationalEvent, Halted, Incident
<1>10. ASSUME MonitorNext, UNCHANGED <<webhookVars, disp>> PROVE UNCHANGED phases
  <2>1. UNCHANGED intake /\ \A b \in Bead : Halted(b)' <=> Halted(b)
    BY <1>10, MonitorTouchesNothing
  <2> QED BY <2>1, <1>a DEF intake
<1>11. ASSUME NEW b \in Bead, Sling(b) PROVE UNCHANGED phases
  <2>1. dispatchLog[b].outcome = "none"
    BY <1>11 DEF Sling, GroundInv, BeadInv
  <2>2. \A c \in Bead : PhaseSame(c)
    BY <1>11, <2>1 DEF Sling, TypeOK, StoreTypeOK, Halted
  <2> QED BY <2>2, PhaseStutters
<1>12. ASSUME NEW b \in Bead,
              MarkRead(b) \/ MarkWrite(b) \/ RecordLost(b) \/ MarkFails(b) \/ GasCityCompletes(b)
       PROVE  UNCHANGED phases
  BY <1>12, <1>a DEF MarkRead, MarkWrite, RecordLost, MarkFails, GasCityCompletes, storeVars, Halted
<1>13. ASSUME Tick PROVE UNCHANGED phases
  BY <1>13, <1>a DEF Tick, Halted
<1>14. ASSUME UNCHANGED vars PROVE UNCHANGED phases
  BY <1>14, <1>a DEF vars, storeVars, Halted
<1> QED
  BY <1>1, <1>2, <1>3, <1>4, <1>5, <1>6, <1>7, <1>8, <1>9, <1>10, <1>11, <1>12, <1>13, <1>14
  DEF Next, WebhookNext, HandlerStep, DispatcherStep

\* The loop implements BeadLifecycle: every bead goes through its phases in
\* order and once, whatever is delivered twice, lost or interrupted:
\* property ImplementsBeadLifecycle.
THEOREM LoopImplementsBeadLifecycle == Spec => ImplementsBeadLifecycle
<1>1. Init => Beads!Init
  BY DEF Init, StoreInit, Beads!Init, phaseOf, NoVerdict
<1>2. TypeOK /\ GroundInv /\ [Next]_vars => [Beads!Next]_phases
  BY BeadStep
<1> QED BY <1>1, <1>2, LoopGround, PTL DEF Spec, ImplementsBeadLifecycle, Beads!Spec, phases
=============================================================================
