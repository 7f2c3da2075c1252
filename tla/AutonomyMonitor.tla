--------------------------- MODULE AutonomyMonitor ---------------------------
(***************************************************************************)
(* gascity/autonomy-monitor.ts: runGasCityAutonomyMonitor, run by cron and *)
(* by POST /gascity/autonomy/run.  It promotes accepted Functions whose    *)
(* evidence is fresh, regresses monitored Functions whose latest report is *)
(* not, raises an incident for every stale dispatch and a pressure for     *)
(* every group of recurring incidents.                                     *)
(*                                                                         *)
(* Nothing keeps the cron's run and an operator's from overlapping.  A run *)
(* ends within a clock unit, so its timestamp and its cutoffs are taken    *)
(* from now.  Each awaited query or write is a step; mon[r].pc names the   *)
(* call that run r is about to make and mon[r].todo holds the rows of its  *)
(* last query that are not handled yet.                                    *)
(***************************************************************************)
EXTENDS GasCityStore

CONSTANTS
  Run,               \* runs that may be in progress at the same time
  FreshnessWindow,   \* GAS_CITY_PERSISTENCE_FRESHNESS_HOURS, in clock units
  StaleAfter,        \* GAS_CITY_DISPATCH_STALE_MINUTES, in clock units
  Threshold,         \* GAS_CITY_RECURRING_INCIDENT_THRESHOLD
  QueryLimit,        \* LIMIT of the three queries
  Rank               \* place of a row in the table's key order

ASSUME MonitorAssumption ==
  /\ FreshnessWindow \in Nat /\ StaleAfter \in Nat
  /\ Threshold \in Nat \ {0} /\ QueryLimit \in Nat \ {0}
  /\ Rank \in [Function \cup Bead -> Nat]

VARIABLE mon   \* mon[r]: step, rows and evaluation of the run r

MonitorPc == {"idle", "accepted", "completion", "report", "promote",
              "promoteEdge", "acceptedIncident", "monitored", "failReport",
              "failIncident", "regress", "regressEdge", "stale"}

NoRun == [pc |-> "idle", todo |-> {}, fn |-> None, fidelityFresh |-> FALSE, overall |-> "none"]

InLoopBody == MonitorPc \ {"idle", "accepted", "monitored", "stale"}

RunState == [pc : MonitorPc, todo : SUBSET (Function \cup Bead), fn : Function \cup {None},
             fidelityFresh : BOOLEAN, overall : {"pass", "fail", "none"}]

MonitorTypeOK ==
  /\ mon \in [Run -> RunState]
  /\ \A r \in Run : mon[r].pc \in InLoopBody => mon[r].fn \in Function

MonitorInit == mon = [r \in Run |-> NoRun]

\* SELECT ... LIMIT n without ORDER BY: the first n matching rows in the
\* order of the key, the same rows at every run.
FirstRows(S) == {x \in S : Cardinality({y \in S : Rank[y] < Rank[x]}) < QueryLimit}

FunctionsIn(state) == {f \in Function : specsFunctions[f].state = state}
BeadsOf(f) == {b \in Bead : FnOf[b] = f}

\* Mutant: evidence one unit too old still counts.
IsFresh_OffByOne(t) == t # Never /\ t >= now - FreshnessWindow - 1
IsFresh(t) == t # Never /\ t >= now - FreshnessWindow

\* Mutant: the query does not ask for overall = 'pass'.
HasFreshPassVerdict_AnyVerdict(f) == \E b \in BeadsOf(f) : IsFresh(fidelityVerdicts[b].at)

\* ORDER BY received_at DESC LIMIT 1, among the pass verdicts and among the
\* completion events of the Function: the latest is fresh iff one is.
HasFreshPassVerdict(f) == \E b \in BeadsOf(f) :
  fidelityVerdicts[b].overall = "pass" /\ IsFresh(fidelityVerdicts[b].at)
HasFreshCompletion(f) == \E b \in BeadsOf(f) : IsFresh(completionEvents[b])

\* Mutant: one unit late.
IsStaleDispatch_OffByOne(b) ==
  /\ dispatchLog[b].outcome = "dispatched"
  /\ dispatchLog[b].startedAt < now - StaleAfter - 1
  /\ completionEvents[b] = Never

IsStaleDispatch(b) ==
  /\ dispatchLog[b].outcome = "dispatched"
  /\ dispatchLog[b].startedAt < now - StaleAfter
  /\ completionEvents[b] = Never

Advance(r, pc) == mon' = [mon EXCEPT ![r].pc = pc]
Enter(r, pc, rows) == mon' = [mon EXCEPT ![r] = [NoRun EXCEPT !.pc = pc, !.todo = rows]]
\* The loop body is done with its Function: back to the head of the loop.
NextRow(r, pc) == Enter(r, pc, mon[r].todo \ {mon[r].fn})
Handled(r, x) == mon' = [mon EXCEPT ![r].todo = @ \ {x}]

----------------------------------------------------------------------------
StartRun(r) ==
  /\ mon[r].pc = "idle"
  /\ Enter(r, "accepted", FirstRows(FunctionsIn("accepted")))
  /\ UNCHANGED storeVars

\* queryWithTimeout resolves with its fallback, the empty list.
StartRunTimesOut(r) ==
  /\ mon[r].pc = "idle" /\ SpendFault
  /\ Enter(r, "accepted", {})
  /\ UNCHANGED <<now, dispatchLog, gcOutcome, completionEvents, fidelityVerdicts,
                 specsFunctions, lifecycleTransitions, specsSignals,
                 specsIncidents, specsPressures, persistenceVerdicts>>

\* evaluateFunctionPersistence: two reads, then the report.
ReadFidelity(r, f) ==
  /\ mon[r].pc = "accepted" /\ f \in mon[r].todo
  /\ mon' = [mon EXCEPT ![r].pc = "completion", ![r].fn = f,
                          ![r].fidelityFresh = HasFreshPassVerdict(f)]
  /\ UNCHANGED storeVars

ReadCompletion(r) ==
  /\ mon[r].pc = "completion"
  /\ LET fresh == mon[r].fidelityFresh /\ HasFreshCompletion(mon[r].fn) IN
       mon' = [mon EXCEPT ![r].pc = "report", ![r].overall = IF fresh THEN "pass" ELSE "fail"]
  /\ UNCHANGED storeVars

\* writePersistenceReport saves the report under a key that hashes Function,
\* time and verdict (its copy in verification_reports is not read by the
\* loop).  Of two runs of one clock unit the one that started later has the
\* later report, whichever writes first: either may be the latest.
SaveReport(r, overall) ==
  LET f == mon[r].fn
      other == IF Run # {r} /\ persistenceVerdicts[f].at = now THEN {persistenceVerdicts[f]} ELSE {}
  IN \E latest \in {[at |-> now, overall |-> overall]} \cup other :
       persistenceVerdicts' = [persistenceVerdicts EXCEPT ![f] = latest]

WritePersistenceReport(r) ==
  /\ mon[r].pc = "report"
  /\ SaveReport(r, mon[r].overall)
  /\ Advance(r, IF mon[r].overall = "pass" THEN "promote" ELSE "acceptedIncident")
  /\ UNCHANGED <<now, dispatchLog, gcOutcome, completionEvents, fidelityVerdicts,
                 specsFunctions, lifecycleTransitions, specsSignals,
                 specsIncidents, specsPressures, faults>>

\* transitionFunctionState(from: "accepted", to: "monitored"): the stored
\* state is not read again.
Promote(r) ==
  /\ mon[r].pc = "promote"
  /\ PatchState(mon[r].fn, "accepted", "monitored", PersistenceKey(now, "pass"))
  /\ Advance(r, "promoteEdge")
  /\ UNCHANGED <<now, dispatchLog, gcOutcome, completionEvents, fidelityVerdicts,
                 lifecycleTransitions, specsSignals, specsIncidents,
                 specsPressures, persistenceVerdicts, faults>>

PromoteEdge(r) ==
  /\ mon[r].pc = "promoteEdge"
  /\ SaveTransitionEdge(mon[r].fn, "accepted", "monitored", PersistenceKey(now, "pass"))
  /\ NextRow(r, "accepted")
  /\ UNCHANGED <<now, dispatchLog, gcOutcome, completionEvents, fidelityVerdicts,
                 specsFunctions, specsSignals, specsIncidents, specsPressures,
                 persistenceVerdicts, faults>>

\* writePersistenceIncident: its key hashes the report, so every failed
\* evaluation of the same Function at another time is another incident.
WritePersistenceIncident(r) ==
  specsIncidents' = specsIncidents \cup {Incident("persistence_stale", mon[r].fn, None, now)}

AcceptedIncident(r) ==
  /\ mon[r].pc = "acceptedIncident"
  /\ WritePersistenceIncident(r)
  /\ NextRow(r, "accepted")
  /\ UNCHANGED <<now, dispatchLog, gcOutcome, completionEvents, fidelityVerdicts,
                 specsFunctions, lifecycleTransitions, specsSignals,
                 specsPressures, persistenceVerdicts, faults>>

\* The second loop: monitored Functions.
QueryMonitored(r) ==
  /\ mon[r].pc = "accepted" /\ mon[r].todo = {}
  /\ Enter(r, "monitored", FirstRows(FunctionsIn("monitored")))
  /\ UNCHANGED storeVars

QueryMonitoredTimesOut(r) ==
  /\ mon[r].pc = "accepted" /\ mon[r].todo = {} /\ SpendFault
  /\ Enter(r, "monitored", {})
  /\ UNCHANGED <<now, dispatchLog, gcOutcome, completionEvents, fidelityVerdicts,
                 specsFunctions, lifecycleTransitions, specsSignals,
                 specsIncidents, specsPressures, persistenceVerdicts>>

\* Mutant: a pass report is enough, however old.
ReadLatestReport_NoFreshness(r, f) ==
  /\ mon[r].pc = "monitored" /\ f \in mon[r].todo
  /\ IF persistenceVerdicts[f].overall = "pass"
       THEN Handled(r, f)
       ELSE mon' = [mon EXCEPT ![r].pc = "failReport", ![r].fn = f]
  /\ UNCHANGED storeVars

ReadLatestReport(r, f) ==
  /\ mon[r].pc = "monitored" /\ f \in mon[r].todo
  /\ LET latest == persistenceVerdicts[f] IN
       IF latest.overall = "pass" /\ IsFresh(latest.at)
         THEN Handled(r, f)
         ELSE mon' = [mon EXCEPT ![r].pc = "failReport", ![r].fn = f]
  /\ UNCHANGED storeVars

WriteFailReport(r) ==
  /\ mon[r].pc = "failReport"
  /\ SaveReport(r, "fail")
  /\ Advance(r, "failIncident")
  /\ UNCHANGED <<now, dispatchLog, gcOutcome, completionEvents, fidelityVerdicts,
                 specsFunctions, lifecycleTransitions, specsSignals,
                 specsIncidents, specsPressures, faults>>

FailIncident(r) ==
  /\ mon[r].pc = "failIncident"
  /\ WritePersistenceIncident(r)
  /\ Advance(r, "regress")
  /\ UNCHANGED <<now, dispatchLog, gcOutcome, completionEvents, fidelityVerdicts,
                 specsFunctions, lifecycleTransitions, specsSignals,
                 specsPressures, persistenceVerdicts, faults>>

Regress(r) ==
  /\ mon[r].pc = "regress"
  /\ PatchState(mon[r].fn, "monitored", "regressed", PersistenceKey(now, "fail"))
  /\ Advance(r, "regressEdge")
  /\ UNCHANGED <<now, dispatchLog, gcOutcome, completionEvents, fidelityVerdicts,
                 lifecycleTransitions, specsSignals, specsIncidents,
                 specsPressures, persistenceVerdicts, faults>>

RegressEdge(r) ==
  /\ mon[r].pc = "regressEdge"
  /\ SaveTransitionEdge(mon[r].fn, "monitored", "regressed", PersistenceKey(now, "fail"))
  /\ NextRow(r, "monitored")
  /\ UNCHANGED <<now, dispatchLog, gcOutcome, completionEvents, fidelityVerdicts,
                 specsFunctions, specsSignals, specsIncidents, specsPressures,
                 persistenceVerdicts, faults>>

\* The third loop: dispatches with no completion event.
QueryStale(r) ==
  /\ mon[r].pc = "monitored" /\ mon[r].todo = {}
  /\ Enter(r, "stale", FirstRows({b \in Bead : IsStaleDispatch(b)}))
  /\ UNCHANGED storeVars

QueryStaleTimesOut(r) ==
  /\ mon[r].pc = "monitored" /\ mon[r].todo = {} /\ SpendFault
  /\ Enter(r, "stale", {})
  /\ UNCHANGED <<now, dispatchLog, gcOutcome, completionEvents, fidelityVerdicts,
                 specsFunctions, lifecycleTransitions, specsSignals,
                 specsIncidents, specsPressures, persistenceVerdicts>>

StaleIncident(b) == Incident("dispatch_stale", FnOf[b], b, Never)

WriteDispatchStaleIncident(r, b) ==
  /\ mon[r].pc = "stale" /\ b \in mon[r].todo
  /\ specsIncidents' = specsIncidents \cup {StaleIncident(b)}
  /\ Handled(r, b)
  /\ UNCHANGED <<now, dispatchLog, gcOutcome, completionEvents, fidelityVerdicts,
                 specsFunctions, lifecycleTransitions, specsSignals,
                 specsPressures, persistenceVerdicts, faults>>

\* escalateRecurringIncidents: incidents grouped by type and Function; no
\* incident is ever closed.  The pressure's key hashes the group.  (The
\* pressures of a run are saved one after the other; here at once.)
Group(type, f) == {i \in specsIncidents : i.type = type /\ i.fn = f}

\* Mutant: > for >=.
RecurringGroups_Above ==
  {[type |-> i.type, fn |-> i.fn] :
     i \in {j \in specsIncidents : Cardinality(Group(j.type, j.fn)) > Threshold}}

RecurringGroups ==
  {[type |-> i.type, fn |-> i.fn] :
     i \in {j \in specsIncidents : Cardinality(Group(j.type, j.fn)) >= Threshold}}

EscalateRecurringIncidents(r) ==
  /\ mon[r].pc = "stale" /\ mon[r].todo = {}
  /\ specsPressures' = specsPressures \cup RecurringGroups
  /\ mon' = [mon EXCEPT ![r] = NoRun]
  /\ UNCHANGED <<now, dispatchLog, gcOutcome, completionEvents, fidelityVerdicts,
                 specsFunctions, lifecycleTransitions, specsSignals,
                 specsIncidents, persistenceVerdicts, faults>>

\* The run ends where it is: nothing resumes it, the next cron starts over.
RunFails(r) ==
  /\ mon[r].pc # "idle" /\ SpendFault
  /\ mon' = [mon EXCEPT ![r] = NoRun]
  /\ UNCHANGED <<now, dispatchLog, gcOutcome, completionEvents, fidelityVerdicts,
                 specsFunctions, lifecycleTransitions, specsSignals,
                 specsIncidents, specsPressures, persistenceVerdicts>>

RunStep(r) ==
  \/ \E f \in Function : ReadFidelity(r, f) \/ ReadLatestReport(r, f)
  \/ ReadCompletion(r) \/ WritePersistenceReport(r) \/ AcceptedIncident(r)
  \/ Promote(r) \/ PromoteEdge(r)
  \/ QueryMonitored(r)
  \/ WriteFailReport(r) \/ FailIncident(r) \/ Regress(r) \/ RegressEdge(r)
  \/ QueryStale(r)
  \/ \E b \in Bead : WriteDispatchStaleIncident(r, b)
  \/ EscalateRecurringIncidents(r)

MonitorNext == \E r \in Run :
  \/ StartRun(r) \/ RunStep(r)
  \/ StartRunTimesOut(r) \/ QueryMonitoredTimesOut(r) \/ QueryStaleTimesOut(r) \/ RunFails(r)
=============================================================================
