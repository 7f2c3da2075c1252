----------------------------- MODULE GasCityLoop -----------------------------
(***************************************************************************)
(* The Gas City loop of the Factory: a bead is dispatched to Gas City, Gas *)
(* City works on it and calls back, the webhook records the verdict and    *)
(* moves the Function's state, and the autonomy monitor promotes,          *)
(* regresses and raises incidents.  The dispatching workflow, the webhook  *)
(* handlers and the monitor share the documents of GasCityStore and run    *)
(* interleaved at every awaited database call.                             *)
(*                                                                         *)
(* The dispatcher is the tail of a dispatch, from CALL 3 (sling) on: the   *)
(* dispatch_log row is finalised (FormulaDispatch has the whole of it) and *)
(* markFunctionDispatched moves the Function's state.  disp[b] is where    *)
(* the dispatch of b stands.                                               *)
(***************************************************************************)
EXTENDS WebhookReceiver, AutonomyMonitor

CONSTANT MaxNow   \* bound: clock units

ASSUME LoopAssumption == MaxNow \in Nat

VARIABLE disp

vars == <<storeVars, webhookVars, mon, disp>>

DispatchPc == {"idle", "slung", "recorded", "mark", "done"}

TypeOK ==
  /\ StoreTypeOK /\ WebhookTypeOK /\ MonitorTypeOK
  /\ disp \in [Bead -> DispatchPc]

Init ==
  /\ StoreInit /\ WebhookInit /\ MonitorInit
  /\ disp = [b \in Bead |-> "idle"]

\* The row holds the bead and is "pending"; CALL 3 reaches Gas City.
Sling(b) ==
  /\ disp[b] = "idle"
  /\ dispatchLog' = [dispatchLog EXCEPT ![b] = [outcome |-> "pending", startedAt |-> now]]
  /\ disp' = [disp EXCEPT ![b] = "slung"]
  /\ UNCHANGED <<now, gcOutcome, completionEvents, fidelityVerdicts, specsFunctions,
                 lifecycleTransitions, specsSignals, specsIncidents, specsPressures,
                 persistenceVerdicts, faults, webhookVars, mon>>

\* safeUpdateDispatchLog(outcome: "dispatched").
RecordDispatched(b) ==
  /\ disp[b] = "slung"
  /\ dispatchLog' = [dispatchLog EXCEPT ![b].outcome = "dispatched"]
  /\ disp' = [disp EXCEPT ![b] = "recorded"]
  /\ UNCHANGED <<now, gcOutcome, completionEvents, fidelityVerdicts, specsFunctions,
                 lifecycleTransitions, specsSignals, specsIncidents, specsPressures,
                 persistenceVerdicts, faults, webhookVars, mon>>

\* safeUpdateDispatchLog swallows the error of the write: the caller still
\* goes on with outcome "dispatched".
RecordLost(b) ==
  /\ disp[b] = "slung" /\ SpendFault
  /\ disp' = [disp EXCEPT ![b] = "recorded"]
  /\ UNCHANGED <<now, dispatchLog, gcOutcome, completionEvents, fidelityVerdicts,
                 specsFunctions, lifecycleTransitions, specsSignals, specsIncidents,
                 specsPressures, persistenceVerdicts, webhookVars, mon>>

\* markFunctionDispatched, first half: read the record, return if the
\* Function is past dispatch.
PastDispatch == {"accepted", "monitored", "regressed", "retired"}

MarkRead(b) ==
  /\ disp[b] = "recorded"
  /\ disp' = [disp EXCEPT ![b] =
       IF specsFunctions[FnOf[b]].state \in PastDispatch THEN "done" ELSE "mark"]
  /\ UNCHANGED <<storeVars, webhookVars, mon>>

\* Second half: create or patch it, with no edge and on the state read.
MarkWrite(b) ==
  /\ disp[b] = "mark"
  /\ PutState(FnOf[b], "dispatched", LogKey(b))
  /\ disp' = [disp EXCEPT ![b] = "done"]
  /\ UNCHANGED <<now, dispatchLog, gcOutcome, completionEvents, fidelityVerdicts,
                 lifecycleTransitions, specsSignals, specsIncidents, specsPressures,
                 persistenceVerdicts, faults, webhookVars, mon>>

\* The marking fails: the workflow retries its step from the read; the
\* operator route, or a workflow out of retries, gives it up.
MarkFails(b) ==
  /\ disp[b] = "mark" /\ SpendFault
  /\ \E pc \in {"recorded", "done"} : disp' = [disp EXCEPT ![b] = pc]
  /\ UNCHANGED <<now, dispatchLog, gcOutcome, completionEvents, fidelityVerdicts,
                 specsFunctions, lifecycleTransitions, specsSignals, specsIncidents,
                 specsPressures, persistenceVerdicts, webhookVars, mon>>

\* External: Gas City reaches its verdict on a bead it was given.  Every
\* delivery of the bead carries that outcome.
GasCityCompletes(b) ==
  /\ disp[b] # "idle" /\ gcOutcome[b] = "none"
  /\ \E o \in {"approved", "revise"} : gcOutcome' = [gcOutcome EXCEPT ![b] = o]
  /\ UNCHANGED <<now, dispatchLog, completionEvents, fidelityVerdicts, specsFunctions,
                 lifecycleTransitions, specsSignals, specsIncidents, specsPressures,
                 persistenceVerdicts, faults, webhookVars, mon, disp>>

\* Nobody is between two database calls.
Settled ==
  /\ \A d \in Handler : h[d].pc = "idle"
  /\ \A r \in Run : mon[r].pc = "idle"
  /\ \A b \in Bead : disp[b] \notin {"slung", "mark"}

Tick ==
  /\ Settled /\ now < MaxNow
  /\ now' = now + 1
  /\ UNCHANGED <<dispatchLog, gcOutcome, completionEvents, fidelityVerdicts,
                 specsFunctions, lifecycleTransitions, specsSignals, specsIncidents,
                 specsPressures, persistenceVerdicts, faults, webhookVars, mon, disp>>

DispatcherStep(b) == RecordDispatched(b) \/ MarkRead(b) \/ MarkWrite(b)

Next ==
  \/ WebhookNext /\ UNCHANGED <<mon, disp>>
  \/ MonitorNext /\ UNCHANGED <<webhookVars, disp>>
  \/ \E b \in Bead : \/ Sling(b) \/ DispatcherStep(b)
                     \/ RecordLost(b) \/ MarkFails(b) \/ GasCityCompletes(b)
  \/ Tick

Spec == Init /\ [][Next]_vars

\* An invocation that has begun runs on (the platform awaits its promises),
\* cron keeps starting the monitor, and time passes.  Nothing makes Gas
\* City answer or an operator dispatch.
MonitorStep(r) == (StartRun(r) \/ RunStep(r)) /\ UNCHANGED <<webhookVars, disp>>

Fairness ==
  /\ \A d \in Handler : WF_vars(HandlerStep(d) /\ UNCHANGED <<mon, disp>>)
  /\ \A b \in Bead : WF_vars(DispatcherStep(b))
  /\ \A r \in Run : WF_vars(MonitorStep(r))
  /\ SF_vars(Tick)

FairSpec == Spec /\ Fairness
----------------------------------------------------------------------------
(* Properties *)

\* A fidelity verdict exists only for a bead whose completion is recorded,
\* whose dispatch_log row was finalised and whose payload agreed with that
\* row: concurrent deliveries, crashes and lost writes never let a verdict
\* through without the intake checks of handleGasCityWebhook.
VerdictGrounded == \A b \in Bead :
  fidelityVerdicts[b].overall # "none" =>
    /\ fidelityVerdicts[b].lineage
    /\ completionEvents[b] # Never
    /\ dispatchLog[b].outcome = "dispatched"

\* The state of a Function always stands on the evidence its record names:
\* a verdict of one of its own beads with the right outcome, a report with
\* the right result, or its own dispatch.  The three writers of the record
\* (webhook, monitor, dispatcher) overwrite each other without reading it.
Supports(f, state, ev) ==
  CASE state \in {"accepted", "rejected"} ->
         /\ ev.kind = "fidelity" /\ ev.bead \in BeadsOf(f)
         /\ fidelityVerdicts[ev.bead].overall = IF state = "accepted" THEN "pass" ELSE "fail"
    [] state \in {"monitored", "regressed"} ->
         /\ ev.kind = "persistence" /\ ev.at \in 0 .. persistenceVerdicts[f].at
         /\ ev.overall = IF state = "monitored" THEN "pass" ELSE "fail"
    [] state = "dispatched" -> ev.kind = "log" /\ ev.bead \in BeadsOf(f) /\ disp[ev.bead] = "done"
    [] OTHER -> ev = NoKey

StateGrounded == \A f \in Function : Supports(f, specsFunctions[f].state, specsFunctions[f].evidence)

\* A monitored Function had, when it was promoted, a pass verdict and a
\* completion event no older than the freshness window: the two are read by
\* separate queries, and the promotion comes several writes later.
WithinWindow(t, at) == t # Never /\ t \in (at - FreshnessWindow) .. at

PromotionWasFresh == \A f \in Function :
  specsFunctions[f].state = "monitored" =>
    LET at == specsFunctions[f].evidence.at IN
      /\ \E b \in BeadsOf(f) :
           fidelityVerdicts[b].overall = "pass" /\ WithinWindow(fidelityVerdicts[b].at, at)
      /\ \E b \in BeadsOf(f) : WithinWindow(completionEvents[b], at)

\* While nothing has failed and nobody is mid-way, a recorded completion has
\* all its consequences: verdict, lifecycle edge, and for a revision the
\* signal or the incident; and the state each record is in, other than
\* "dispatched", has its edge with the same evidence.
NothingForgotten ==
  faults = 0 /\ Settled =>
    /\ \A b \in Bead : completionEvents[b] # Never =>
         /\ fidelityVerdicts[b].overall # "none"
         /\ \E e \in lifecycleTransitions : e.evidence = FidelityKey(b)
         /\ Revise(b) => \/ b \in specsSignals
                         \/ Incident("amendment_depth", FnOf[b], b, Never) \in specsIncidents
    /\ \A f \in Function : specsFunctions[f].state \notin {"dispatched", NoState} =>
         \E e \in lifecycleTransitions :
           e.fn = f /\ e.to = specsFunctions[f].state /\ e.evidence = specsFunctions[f].evidence

\* The loop implements BeadLifecycle.
phaseOf(b) ==
  IF b \in specsSignals THEN "amended"
  ELSE IF Incident("amendment_depth", FnOf[b], b, Never) \in specsIncidents THEN "halted"
  ELSE IF fidelityVerdicts[b].overall = "pass" THEN "passed"
  ELSE IF fidelityVerdicts[b].overall = "fail" THEN "failed"
  ELSE IF completionEvents[b] # Never THEN "completed"
  ELSE IF dispatchLog[b].outcome = "dispatched" THEN "dispatched"
  ELSE "open"

Beads == INSTANCE BeadLifecycle WITH phase <- [b \in Bead |-> phaseOf(b)]

\* Every bead goes through the phases of BeadLifecycle, in order and once.
ImplementsBeadLifecycle == Beads!Spec

\* A dispatch that Gas City never answers ends in an incident: the monitor
\* finds it, through its own timeouts and crashes.  (Within the bound: the
\* dispatch is old enough for it before the clock stops.)
StaleDispatchRaised == \A b \in Bead :
  dispatchLog[b].outcome = "dispatched" /\ dispatchLog[b].startedAt + StaleAfter < MaxNow
    ~> completionEvents[b] # Never \/ StaleIncident(b) \in specsIncidents

\* A monitored Function does not stay monitored on old evidence: once its
\* report is older than the freshness window a run regresses it (a new
\* verdict or dispatch may move it first).
MonitoredIsReexamined == \A f \in Function :
  specsFunctions[f].state = "monitored" /\ specsFunctions[f].evidence.at + FreshnessWindow < MaxNow
    ~> specsFunctions[f].state # "monitored"

\* Incidents of one type that recur on a Function end in a pressure, though
\* a run may die before it escalates them.
RecurringEscalated == []<>(\A i \in specsIncidents :
  Cardinality({j \in specsIncidents : j.type = i.type /\ j.fn = i.fn}) >= Threshold =>
    [type |-> i.type, fn |-> i.fn] \in specsPressures)

(* What the repository's documents say and the code does not keep *)

\* docs/FACTORY_GAS_CITY_E2E.md:542: the state of a Function record moves
\* only along the table.
FollowsTable == [][\A f \in Function :
  LET from == specsFunctions[f].state
      to   == specsFunctions'[f].state
  IN from = to \/ from = NoState \/ TransitionAllowed(from, to)]_vars

\* specs/reference/GAS-CITY-ERA-ARCHITECTURE.md:152: a delivery is answered
\* "duplicate" only if the completion event and the fidelity VR exist.
DuplicateHasVerdict == [][\A b \in Bead :
  AnswerDuplicate(b) => fidelityVerdicts[b].overall # "none"]_vars
=============================================================================
