--------------------------- MODULE WebhookReceiver ---------------------------
(***************************************************************************)
(* gascity/webhook-receiver.ts: handleGasCityWebhook, the handler of POST  *)
(* /webhooks/gascity.  Gas City delivers the completion of a bead at least *)
(* once, so several invocations (Handler) may run for the same bead at the *)
(* same time.  Every awaited database call is a step; pc names the call    *)
(* the handler is about to make.                                           *)
(*                                                                         *)
(* A delivery has passed the HMAC and payload checks: one that has not     *)
(* changes no document of this model.  A handler finishes within a clock   *)
(* unit, so its receivedAt is now.                                         *)
(***************************************************************************)
EXTENDS GasCityStore

CONSTANTS
  Handler,            \* concurrent invocations of the Worker's fetch handler
  MaxAmendmentDepth,  \* GAS_CITY_MAX_AMENDMENT_DEPTH
  MaxDeliveries,      \* bound: deliveries of each bead's completion
  EventType,          \* operational events delivered (a bound; see below)
  MaxEvents           \* bound: how many of them

ASSUME WebhookAssumption ==
  /\ MaxAmendmentDepth \in Nat \ {0}
  /\ MaxDeliveries \in [Bead -> Nat] /\ MaxEvents \in Nat
  /\ EventType \subseteq {"health_stall", "session_crash", "molecule_failed"}

VARIABLES
  h,      \* h[d]: step, bead and lineage of the invocation d
  sent    \* deliveries of the bead's completion so far

webhookVars == <<h, sent>>

Idle == [pc |-> "idle", bead |-> None, lineage |-> FALSE]

WebhookPc == {"idle", "lookup", "event", "verdict", "state", "edge", "amend"}

WebhookTypeOK ==
  /\ h \in [Handler -> [pc : WebhookPc, bead : Bead \cup {None}, lineage : BOOLEAN]]
  /\ \A d \in Handler : h[d].pc # "idle" => h[d].bead \in Bead
  /\ sent \in [Bead -> Nat]

WebhookInit ==
  /\ h = [d \in Handler |-> Idle]
  /\ sent = [b \in Bead |-> 0]

Goto(d, pc) == h' = [h EXCEPT ![d].pc = pc]
Return(d) == h' = [h EXCEPT ![d] = Idle]

Revise(b) == gcOutcome[b] = "revise"
\* Mutant: the branches of the conditional are swapped.
LifecycleState_Swapped(b) == IF Revise(b) THEN "accepted" ELSE "rejected"
LifecycleState(b) == IF Revise(b) THEN "rejected" ELSE "accepted"
\* Mutant: >= for >.
DepthExceeded_AtLimit(b) == Attempt[b] >= MaxAmendmentDepth
DepthExceeded(b) == Attempt[b] > MaxAmendmentDepth

\* A delivery of b's outcome; m says whether every lineage id of the
\* payload equals the one of the dispatch_log row (dispatchMismatch).  The
\* first database call is get("completion_events", bead_id): the delivery
\* is answered 200 {duplicate: true} if the event exists.
Deliver(b) ==
  /\ gcOutcome[b] # "none"
  /\ sent[b] < MaxDeliveries[b]
  /\ sent' = [sent EXCEPT ![b] = @ + 1]
  /\ UNCHANGED storeVars

AnswerDuplicate(b) ==
  /\ Deliver(b)
  /\ completionEvents[b] # Never
  /\ UNCHANGED h

Receive(d, b, m) ==
  /\ Deliver(b)
  /\ completionEvents[b] = Never
  /\ h[d].pc = "idle"
  /\ h' = [h EXCEPT ![d] = [pc |-> "lookup", bead |-> b, lineage |-> m]]

\* Mutant: the row is looked up by bead alone, whatever its outcome.
LookupDispatch_AnyOutcome(d) ==
  /\ h[d].pc = "lookup"
  /\ IF h[d].lineage THEN Goto(d, "event") ELSE Return(d)
  /\ UNCHANGED <<storeVars, sent>>

\* Mutant: the payload is not compared with the row.
LookupDispatch_NoMismatch(d) ==
  /\ h[d].pc = "lookup"
  /\ IF dispatchLog[h[d].bead].outcome = "dispatched" THEN Goto(d, "event") ELSE Return(d)
  /\ UNCHANGED <<storeVars, sent>>

\* The dispatched row of the bead: 409 orphan_bead if there is none, 409
\* lineage_mismatch if it disagrees with the payload.
LookupDispatch(d) ==
  /\ h[d].pc = "lookup"
  /\ IF dispatchLog[h[d].bead].outcome = "dispatched" /\ h[d].lineage
       THEN Goto(d, "event")
       ELSE Return(d)
  /\ UNCHANGED <<storeVars, sent>>

\* save is an upsert, so the unique-conflict branch never runs.
SaveCompletionEvent(d) ==
  /\ h[d].pc = "event"
  /\ completionEvents' = [completionEvents EXCEPT ![h[d].bead] = now]
  /\ Goto(d, "verdict")
  /\ UNCHANGED <<now, dispatchLog, gcOutcome, fidelityVerdicts, specsFunctions,
                 lifecycleTransitions, specsSignals, specsIncidents,
                 specsPressures, persistenceVerdicts, faults, sent>>

SaveFidelityVerdict(d) ==
  /\ h[d].pc = "verdict"
  /\ LET b == h[d].bead IN
       fidelityVerdicts' = [fidelityVerdicts EXCEPT ![b] =
         [at |-> now, overall |-> Overall(gcOutcome[b]), lineage |-> h[d].lineage]]
  /\ Goto(d, "state")
  /\ UNCHANGED <<now, dispatchLog, gcOutcome, completionEvents, specsFunctions,
                 lifecycleTransitions, specsSignals, specsIncidents,
                 specsPressures, persistenceVerdicts, faults, sent>>

\* transitionFunctionState with the from-state "dispatched" written in the
\* handler: the stored state is not read.
PatchLifecycleState(d) ==
  /\ h[d].pc = "state"
  /\ LET b == h[d].bead IN
       PatchState(FnOf[b], "dispatched", LifecycleState(b), FidelityKey(b))
  /\ Goto(d, "edge")
  /\ UNCHANGED <<now, dispatchLog, gcOutcome, completionEvents, fidelityVerdicts,
                 lifecycleTransitions, specsSignals, specsIncidents,
                 specsPressures, persistenceVerdicts, faults, sent>>

\* Mutant: a revision beyond the depth returns without its incident.
SaveLifecycleEdge_HaltsSilently(d) ==
  /\ h[d].pc = "edge"
  /\ LET b == h[d].bead IN
       /\ SaveTransitionEdge(FnOf[b], "dispatched", LifecycleState(b), FidelityKey(b))
       /\ IF Revise(b) /\ ~DepthExceeded(b) THEN Goto(d, "amend") ELSE Return(d)
  /\ UNCHANGED <<now, dispatchLog, gcOutcome, completionEvents, fidelityVerdicts,
                 specsFunctions, specsSignals, specsIncidents, specsPressures,
                 persistenceVerdicts, faults, sent>>

SaveLifecycleEdge(d) ==
  /\ h[d].pc = "edge"
  /\ LET b == h[d].bead IN
       /\ SaveTransitionEdge(FnOf[b], "dispatched", LifecycleState(b), FidelityKey(b))
       /\ IF Revise(b) THEN Goto(d, "amend") ELSE Return(d)
  /\ UNCHANGED <<now, dispatchLog, gcOutcome, completionEvents, fidelityVerdicts,
                 specsFunctions, specsSignals, specsIncidents, specsPressures,
                 persistenceVerdicts, faults, sent>>

\* Within the amendment depth a revision signal, beyond it an incident.
WriteRevisionSignal(d) ==
  /\ h[d].pc = "amend"
  /\ ~DepthExceeded(h[d].bead)
  /\ specsSignals' = specsSignals \cup {h[d].bead}
  /\ Return(d)
  /\ UNCHANGED <<now, dispatchLog, gcOutcome, completionEvents, fidelityVerdicts,
                 specsFunctions, lifecycleTransitions, specsIncidents,
                 specsPressures, persistenceVerdicts, faults, sent>>

WriteAmendmentDepthIncident(d) ==
  /\ h[d].pc = "amend"
  /\ DepthExceeded(h[d].bead)
  /\ LET b == h[d].bead IN
       specsIncidents' = specsIncidents \cup
         {Incident("amendment_depth", FnOf[b], b, Never)}
  /\ Return(d)
  /\ UNCHANGED <<now, dispatchLog, gcOutcome, completionEvents, fidelityVerdicts,
                 specsFunctions, lifecycleTransitions, specsSignals,
                 specsPressures, persistenceVerdicts, faults, sent>>

\* health.stall, session.crash or molecule.failed of a bead: one incident of
\* that type, whose key hashes the time of receipt.  Gas City sends them
\* for beads it was given.
OperationalIncidents == {i \in specsIncidents : i.type \in EventType}

HandleOperationalEvent(b, type) ==
  /\ dispatchLog[b].outcome # "none"
  /\ Cardinality(OperationalIncidents) < MaxEvents
  /\ specsIncidents' = specsIncidents \cup {Incident(type, FnOf[b], b, now)}
  /\ UNCHANGED <<now, dispatchLog, gcOutcome, completionEvents, fidelityVerdicts,
                 specsFunctions, lifecycleTransitions, specsSignals,
                 specsPressures, persistenceVerdicts, faults, webhookVars>>

\* The isolate dies, or a database call throws: the invocation ends where
\* it is, with a non-2xx answer, and what it wrote stays.
HandlerFails(d) ==
  /\ h[d].pc # "idle"
  /\ SpendFault
  /\ Return(d)
  /\ UNCHANGED <<now, dispatchLog, gcOutcome, completionEvents, fidelityVerdicts,
                 specsFunctions, lifecycleTransitions, specsSignals, specsIncidents,
                 specsPressures, persistenceVerdicts, sent>>

HandlerStep(d) ==
  \/ LookupDispatch(d)
  \/ SaveCompletionEvent(d) \/ SaveFidelityVerdict(d)
  \/ PatchLifecycleState(d) \/ SaveLifecycleEdge(d)
  \/ WriteRevisionSignal(d) \/ WriteAmendmentDepthIncident(d)

WebhookNext ==
  \/ \E b \in Bead : AnswerDuplicate(b)
  \/ \E d \in Handler, b \in Bead, m \in BOOLEAN : Receive(d, b, m)
  \/ \E d \in Handler : HandlerStep(d) \/ HandlerFails(d)
  \/ \E b \in Bead, type \in EventType : HandleOperationalEvent(b, type)
=============================================================================
