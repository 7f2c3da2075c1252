---------------------------- MODULE GasCityStore ----------------------------
(***************************************************************************)
(* The D1 documents the Gas City loop shares: every handler of the loop    *)
(* reads and writes them with separate awaited statements, so each         *)
(* statement is a step of its own in the modules that extend this one.     *)
(*                                                                         *)
(* A document is written whole (ArangoClient.save and .update are upserts  *)
(* of the merged JSON), and the loop always patches the three state fields *)
(* of a Function together, so a patch of the state is one assignment.      *)
(***************************************************************************)
EXTENDS Integers, FiniteSets, FunctionLifecycle

CONSTANTS
  Function,   \* Function ids (FN-*)
  Bead,       \* Gas City bead ids
  FnOf,       \* the Function a bead was created for
  Attempt,    \* factory_attempt of the bead's dispatch
  None,       \* absent bead or Function
  MaxFaults   \* bound: crashes, lost writes and query timeouts in all

ASSUME StoreAssumption ==
  /\ FnOf \in [Bead -> Function]
  /\ Attempt \in [Bead -> Nat \ {0}]
  /\ None \notin Bead \cup Function
  /\ MaxFaults \in Nat

VARIABLES
  now,                  \* clock, in units longer than any handler runs
  dispatchLog,          \* dispatch_log row that carries the bead's id
  gcOutcome,            \* verdict Gas City reached for the bead (external)
  completionEvents,     \* completion_events[bead_id].received_at, or Never
  fidelityVerdicts,     \* fidelity_verdicts[VR of the bead]
  specsFunctions,       \* specs_functions[fn]: state and state_evidence_key
  lifecycleTransitions, \* lifecycle_transitions edges
  specsSignals,         \* beads with a SIG-GC-REVISE signal
  specsIncidents,       \* open INC-GC incidents
  specsPressures,       \* PRS-OPS-GC pressures
  persistenceVerdicts,  \* latest persistence_verdicts report per Function
  faults                \* faults spent so far (crashes, lost writes, timeouts)

storeVars == <<now, dispatchLog, gcOutcome, completionEvents, fidelityVerdicts,
               specsFunctions, lifecycleTransitions, specsSignals,
               specsIncidents, specsPressures, persistenceVerdicts, faults>>

Never == -1
Time == Int

\* state_evidence_key: the dispatch_log row, the fidelity VR of a bead, or a
\* persistence report identified by its timestamp and verdict.
LogKey(b)             == [kind |-> "log", bead |-> b, at |-> Never, overall |-> "none"]
FidelityKey(b)        == [kind |-> "fidelity", bead |-> b, at |-> Never, overall |-> "none"]
PersistenceKey(t, ov) == [kind |-> "persistence", bead |-> None, at |-> t, overall |-> ov]
NoKey                 == [kind |-> "none", bead |-> None, at |-> Never, overall |-> "none"]

EvidenceKey == [kind : {"log", "fidelity", "persistence", "none"},
                bead : Bead \cup {None}, at : Time,
                overall : {"pass", "fail", "none"}]

Overall(outcome) == IF outcome = "approved" THEN "pass" ELSE "fail"

NoVerdict == [at |-> Never, overall |-> "none", lineage |-> FALSE]

\* An incident is identified by its type, its Function and what its key
\* hashes: the bead, or the time of the report or event that raised it.
Incident(type, f, b, t) == [type |-> type, fn |-> f, bead |-> b, at |-> t]

\* The state, its timestamp and its evidence key in one patch.
PutState(f, state, key) ==
  specsFunctions' = [specsFunctions EXCEPT ![f] = [state |-> state, evidence |-> key]]

\* transitionFunctionState: first half, the assertion on the caller's
\* from-state and the patch; second half, the lifecycle_transitions edge.
PatchState(f, from, to, key) == TransitionAllowed(from, to) /\ PutState(f, to, key)

SaveTransitionEdge(f, from, to, key) ==
  lifecycleTransitions' =
    lifecycleTransitions \cup {[fn |-> f, from |-> from, to |-> to, evidence |-> key]}

\* Something goes wrong: the step of a crash, a lost write or a timeout.
SpendFault == faults < MaxFaults /\ faults' = faults + 1

StoreTypeOK ==
  /\ now \in Nat
  /\ dispatchLog \in [Bead -> [outcome : {"none", "pending", "dispatched"}, startedAt : Time]]
  /\ gcOutcome \in [Bead -> {"none", "approved", "revise"}]
  /\ completionEvents \in [Bead -> Time]
  /\ fidelityVerdicts \in [Bead -> [at : Time, overall : {"pass", "fail", "none"},
                                    lineage : BOOLEAN]]
  /\ specsFunctions \in [Function -> [state : StoredState, evidence : EvidenceKey]]
  /\ \A e \in lifecycleTransitions : e.fn \in Function /\ e.evidence \in EvidenceKey
  /\ specsSignals \subseteq Bead
  /\ \A i \in specsIncidents : i.fn \in Function
  /\ \A p \in specsPressures : p.fn \in Function
  /\ persistenceVerdicts \in [Function -> [at : Time, overall : {"pass", "fail", "none"}]]
  /\ faults \in Nat

StoreInit ==
  /\ now = 0
  /\ dispatchLog = [b \in Bead |-> [outcome |-> "none", startedAt |-> Never]]
  /\ gcOutcome = [b \in Bead |-> "none"]
  /\ completionEvents = [b \in Bead |-> Never]
  /\ fidelityVerdicts = [b \in Bead |-> NoVerdict]
  /\ specsFunctions = [f \in Function |-> [state |-> NoState, evidence |-> NoKey]]
  /\ lifecycleTransitions = {}
  /\ specsSignals = {}
  /\ specsIncidents = {}
  /\ specsPressures = {}
  /\ persistenceVerdicts = [f \in Function |-> [at |-> Never, overall |-> "none"]]
  /\ faults = 0
=============================================================================
