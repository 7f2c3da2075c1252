--------------------------- MODULE FormulaDispatch ---------------------------
(***************************************************************************)
(* compilers/formula-compiler.ts: compileAndDispatchFormula, for one       *)
(* idempotency key (one Execution Packet and factory_attempt).  Several    *)
(* invocations may run, at the same time or one after the other: retries   *)
(* of the workflow step, the operator's route, an invocation that crashed. *)
(*                                                                         *)
(* Each invocation writes FORM-* and a dispatch_log row of its own, probes *)
(* the formula version (CALL 1), creates a bead (CALL 2), notes the bead   *)
(* on the row, slings it (CALL 3) and finalises the row.  An invocation    *)
(* that finds a row with a bead and no workflow resumes at CALL 3 on that  *)
(* row.  Gas City is external: CALL 2 is deduplicated by Idempotency-Key   *)
(* while the key lives, CALL 3 by the workflow attached to the bead.       *)
(***************************************************************************)
EXTENDS Integers, Sequences, FiniteSets

CONSTANTS
  Invocation,  \* calls of compileAndDispatchFormula; also its row's key
  BeadId,      \* bead ids Gas City can hand out
  None,
  MaxTries,    \* 1 + CALL_2_RETRY_BACKOFF_MS.length (and CALL_3's)
  MaxFaults    \* bound: crashes, lost finalising writes, expiries of the key

ASSUME DispatchAssumption ==
  /\ MaxTries \in Nat \ {0} /\ MaxFaults \in Nat
  /\ None \notin Invocation \cup BeadId

VARIABLES
  inv,       \* inv[i]: step and locals of the invocation
  row,       \* dispatch_log rows
  started,   \* invocations in the order of their row's started_at
  form,      \* formula_version of FORM-*: absent, "pending" or "probed"
  created,   \* external: beads Gas City has created
  keyBead,   \* external: the bead it remembers for the Idempotency-Key
  slung,     \* external: beads with a workflow attached
  forgotten, \* external: whether the Idempotency-Key ever outlived its TTL
  faults

vars == <<inv, row, started, form, created, keyBead, slung, forgotten, faults>>
gasCity == <<created, keyBead, slung, forgotten>>

Outcome == {"pending", "dispatched", "in_flight", "rejected", "failed",
            "timeout_call_1", "timeout_call_2", "timeout_call_3", "version_mismatch"}

\* gc_workflow_id: the workflow of a bead, or the bead's own id as fallback.
Wf(b)       == <<"workflow", b>>
BeadAsWf(b) == <<"bead", b>>
WfId        == {"workflow", "bead"} \X BeadId

Row   == [outcome : Outcome \cup {"none"}, bead : BeadId \cup {None}, wf : WfId \cup {<<>>}]
NoWf  == <<>>
NoRow == [outcome |-> "none", bead |-> None, wf |-> NoWf]

Pc == {"start", "saveForm", "saveLog", "call1", "call2", "noteBead", "call3", "final", "done"}

\* target: key of the row CALL 3 finalises; bead: the bead it slings; out:
\* the patch of the finalising write, which also tells the result.
Local == [pc : Pc, tries : 0 .. MaxTries - 1, lost : BOOLEAN,
          target : Invocation \cup {None}, bead : BeadId \cup {None}, out : Row]

TypeOK ==
  /\ inv \in [Invocation -> Local]
  /\ row \in [Invocation -> Row]
  /\ started \in Seq(Invocation)
  /\ form \in {"absent", "pending", "probed"}
  /\ created \subseteq BeadId /\ slung \subseteq created
  /\ keyBead \in BeadId \cup {None} /\ forgotten \in BOOLEAN
  /\ faults \in 0 .. MaxFaults

NotStarted == [pc |-> "start", tries |-> 0, lost |-> FALSE,
               target |-> None, bead |-> None, out |-> NoRow]

Init ==
  /\ inv = [i \in Invocation |-> NotStarted]
  /\ row = [i \in Invocation |-> NoRow]
  /\ started = <<>>
  /\ form = "absent"
  /\ created = {} /\ keyBead = None /\ slung = {} /\ forgotten = FALSE
  /\ faults = 0

At(i, pc) == inv[i].pc = pc
Goto(i, pc) == inv' = [inv EXCEPT ![i].pc = pc]
Return(i, out) == inv' = [inv EXCEPT ![i] = [NotStarted EXCEPT !.pc = "done", !.out = out]]
Result(i, outcome) == Return(i, [NoRow EXCEPT !.outcome = outcome])

\* getDispatchLogByIdempotencyKey: the row with the latest started_at, other
\* than the excluded one; None if there is none.
LatestRow(k) ==
  LET rows == {n \in DOMAIN started : row[started[n]].outcome # "none" /\ started[n] # k}
  IN IF rows = {} THEN None ELSE started[CHOOSE n \in rows : \A m \in rows : m <= n]

----------------------------------------------------------------------------
(* Pre-check and the two saves *)

\* No coherence VR, no template for the adapter, a reserved key, or a FORM-*
\* of another EP or of other vars under the same key (the last four only
\* where a fresh dispatch would begin): nothing is written or called.
RefuseInput(i) ==
  /\ At(i, "start")
  /\ Result(i, "failed")
  /\ UNCHANGED <<row, started, form, gasCity, faults>>

Resumable(r) ==
  /\ row[r].outcome \in {"pending", "in_flight"}
  /\ row[r].bead # None
  /\ row[r].wf = NoWf

ReplayDispatched(i) ==
  /\ At(i, "start")
  /\ LET prior == LatestRow(None) IN
       /\ prior # None
       /\ row[prior].outcome = "dispatched"
       /\ Return(i, row[prior])
  /\ UNCHANGED <<row, started, form, gasCity, faults>>

Resume(i) ==
  /\ At(i, "start")
  /\ LET prior == LatestRow(None) IN
       /\ prior # None
       /\ Resumable(prior)
       /\ IF form # "absent"
            THEN /\ inv' = [inv EXCEPT ![i].pc = "call3", ![i].target = prior,
                                       ![i].bead = row[prior].bead]
                 /\ UNCHANGED row
            ELSE /\ Result(i, "failed")
                 /\ row' = [row EXCEPT ![prior].outcome = "failed"]
  /\ UNCHANGED <<started, form, gasCity, faults>>

\* Mutant: only the dispatch_log row is written.
StartFresh_LogOnly(i) ==
  /\ At(i, "start")
  /\ LET prior == LatestRow(None) IN
       prior # None => row[prior].outcome # "dispatched" /\ ~Resumable(prior)
  /\ Goto(i, "saveLog")
  /\ started' = Append(started, i)
  /\ UNCHANGED <<row, form, gasCity, faults>>

\* Any other prior row, or none: a fresh dispatch.  compiledAt is taken
\* here, before the two saves.
StartFresh(i) ==
  /\ At(i, "start")
  /\ LET prior == LatestRow(None) IN
       prior # None => row[prior].outcome # "dispatched" /\ ~Resumable(prior)
  /\ Goto(i, "saveForm")
  /\ started' = Append(started, i)
  /\ UNCHANGED <<row, form, gasCity, faults>>

\* writeFormAndDispatchLog: two saves, the form first.
SaveForm(i) ==
  /\ At(i, "saveForm")
  /\ form' = "pending"
  /\ Goto(i, "saveLog")
  /\ UNCHANGED <<row, started, gasCity, faults>>

SaveLog(i) ==
  /\ At(i, "saveLog")
  /\ row' = [row EXCEPT ![i].outcome = "pending"]
  /\ inv' = [inv EXCEPT ![i].pc = "call1", ![i].target = i]
  /\ UNCHANGED <<started, form, gasCity, faults>>

\* An unsafe updateDispatchLog of the outcome, and the return.
Halt(i, outcome) ==
  /\ row' = [row EXCEPT ![i].outcome = outcome]
  /\ Result(i, outcome)

\* Seed assembly and upload, then CALL 1, the version probe.
ProbeVersion(i) ==
  /\ At(i, "call1")
  /\ form' = "probed"
  /\ Goto(i, "call2")
  /\ UNCHANGED <<row, started, gasCity, faults>>

ProbeFails(i) ==
  /\ At(i, "call1")
  /\ \E o \in {"failed", "timeout_call_1", "version_mismatch"} : Halt(i, o)
  /\ UNCHANGED <<started, form, gasCity, faults>>

----------------------------------------------------------------------------
(* CALL 2: POST /beads with the Idempotency-Key, at most MaxTries times *)

\* One more try, or the outcome of exhausted tries: in_flight if any try
\* may have reached Gas City unanswered, else timeout_call_2.
RetryCall2(i, lost) ==
  IF inv[i].tries + 1 < MaxTries
    THEN /\ inv' = [inv EXCEPT ![i].tries = @ + 1, ![i].lost = lost]
         /\ UNCHANGED row
    ELSE Halt(i, IF lost THEN "in_flight" ELSE "timeout_call_2")

\* Mutant: every request carries a key of its own (its dispatch_log key).
CreateBead_KeyPerRow(b) ==
  /\ b \in BeadId \ created
  /\ created' = created \cup {b}
  /\ keyBead' = b
  /\ UNCHANGED <<slung, forgotten>>

CreateBead(b) ==
  /\ keyBead = None /\ b \in BeadId \ created
  /\ created' = created \cup {b}
  /\ keyBead' = b
  /\ UNCHANGED <<slung, forgotten>>

\* A request that is not answered as it should may still have had its effect.
MayCreateBead == (\E b \in BeadId : CreateBead(b)) \/ UNCHANGED gasCity

\* 201 with the bead's id: a new bead, or the one of the known key.
Call2Created(i) ==
  /\ At(i, "call2")
  /\ \E b \in BeadId :
       /\ CreateBead(b) \/ (b = keyBead /\ UNCHANGED gasCity)
       /\ inv' = [inv EXCEPT ![i].pc = "noteBead", ![i].bead = b,
                              ![i].tries = 0, ![i].lost = FALSE]
  /\ UNCHANGED <<row, started, form, faults>>

\* Network error or timeout.
Call2Lost(i) ==
  /\ At(i, "call2")
  /\ MayCreateBead
  /\ RetryCall2(i, TRUE)
  /\ UNCHANGED <<started, form, faults>>

Call2ServerError(i) ==
  /\ At(i, "call2")
  /\ MayCreateBead
  /\ RetryCall2(i, inv[i].lost)
  /\ UNCHANGED <<started, form, faults>>

\* 409, the key is known: only the latest other row is looked at.
Call2Conflict(i) ==
  /\ At(i, "call2")
  /\ keyBead # None
  /\ LET prior == LatestRow(i) IN
       IF prior # None /\ row[prior].bead = keyBead
         THEN /\ inv' = [inv EXCEPT ![i].pc = "noteBead", ![i].bead = keyBead,
                                       ![i].tries = 0, ![i].lost = FALSE]
              /\ UNCHANGED row
         ELSE Halt(i, "rejected")
  /\ UNCHANGED <<started, form, gasCity, faults>>

\* 4xx; or 201 without an id, or an unexpected status.
Call2Refused(i) ==
  /\ At(i, "call2")
  /\ \/ Halt(i, "rejected") /\ UNCHANGED gasCity
     \/ Halt(i, "failed") /\ MayCreateBead
  /\ UNCHANGED <<started, form, faults>>

\* Mutant: CALL 3 comes first, the bead goes on the row with the final write.
NoteBead_Skipped(i) ==
  /\ At(i, "noteBead")
  /\ Goto(i, "call3")
  /\ UNCHANGED <<row, started, form, gasCity, faults>>

\* The bead is on the row before CALL 3, so that CALL 3 can be resumed.
NoteBead(i) ==
  /\ At(i, "noteBead")
  /\ row' = [row EXCEPT ![i].bead = inv[i].bead]
  /\ Goto(i, "call3")
  /\ UNCHANGED <<started, form, gasCity, faults>>

----------------------------------------------------------------------------
(* CALL 3: POST /sling and the finalising write *)

Finalise(i, outcome, b, wf) ==
  inv' = [inv EXCEPT ![i].pc = "final", ![i].out = [outcome |-> outcome, bead |-> b, wf |-> wf]]

FinaliseOutcome(i, outcome) == Finalise(i, outcome, None, NoWf)

Attach(b) ==
  /\ b \notin slung
  /\ slung' = slung \cup {b}
  /\ UNCHANGED <<created, keyBead, forgotten>>

MayAttach(b) == Attach(b) \/ UNCHANGED gasCity

\* 200 "slung"; the reply may name the workflow or only the bead.
Call3Slung(i) ==
  /\ At(i, "call3")
  /\ Attach(inv[i].bead)
  /\ \E wf \in {Wf(inv[i].bead), BeadAsWf(inv[i].bead)} :
       Finalise(i, "dispatched", inv[i].bead, wf)
  /\ UNCHANGED <<row, started, form, faults>>

\* Mutant: exhausted tries count as dispatched.
Call3Lost_Optimistic(i) ==
  /\ At(i, "call3")
  /\ MayAttach(inv[i].bead)
  /\ IF inv[i].tries + 1 < MaxTries
       THEN inv' = [inv EXCEPT ![i].tries = @ + 1]
       ELSE Finalise(i, "dispatched", inv[i].bead, BeadAsWf(inv[i].bead))
  /\ UNCHANGED <<row, started, form, faults>>

\* 5xx, network error or timeout.
Call3Lost(i) ==
  /\ At(i, "call3")
  /\ MayAttach(inv[i].bead)
  /\ IF inv[i].tries + 1 < MaxTries
       THEN inv' = [inv EXCEPT ![i].tries = @ + 1]
       ELSE FinaliseOutcome(i, "timeout_call_3")
  /\ UNCHANGED <<row, started, form, faults>>

\* 409, a workflow is attached; the reply may leave its id out.  A prior
\* dispatched row of a matching workflow is a replay; else the bead is
\* probed, and counts as dispatched if it is there.
Call3Conflict(i) ==
  /\ At(i, "call3")
  /\ inv[i].bead \in slung
  /\ \E respWf \in {NoWf, Wf(inv[i].bead)} :
       LET prior == LatestRow(inv[i].target)
           replay == /\ prior # None
                     /\ row[prior].outcome = "dispatched" /\ row[prior].wf # NoWf
                     /\ respWf \in {NoWf, row[prior].wf}
       IN IF replay
            THEN Finalise(i, "dispatched", row[prior].bead, row[prior].wf)
            ELSE \/ Finalise(i, "dispatched", inv[i].bead, BeadAsWf(inv[i].bead))
                 \/ FinaliseOutcome(i, "rejected")
  /\ UNCHANGED <<row, started, form, gasCity, faults>>

\* Other 4xx; or a 200 with an invalid body, or an unexpected status.
Call3Refused(i) ==
  /\ At(i, "call3")
  /\ \/ FinaliseOutcome(i, "rejected") /\ UNCHANGED gasCity
     \/ FinaliseOutcome(i, "failed") /\ MayAttach(inv[i].bead)
  /\ UNCHANGED <<row, started, form, faults>>

\* safeUpdateDispatchLog: a patch of the target row, whatever it says now.
\* Only the patch of a dispatched outcome carries bead and workflow.
WriteFinal(i) ==
  /\ At(i, "final")
  /\ LET out == inv[i].out IN
       row' = [row EXCEPT ![inv[i].target] =
         IF out.outcome = "dispatched" THEN out ELSE [@ EXCEPT !.outcome = out.outcome]]
  /\ Return(i, inv[i].out)
  /\ UNCHANGED <<started, form, gasCity, faults>>

SpendFault == faults < MaxFaults /\ faults' = faults + 1

\* The write fails and is swallowed: the result stands.
LoseFinal(i) ==
  /\ At(i, "final") /\ SpendFault
  /\ Return(i, inv[i].out)
  /\ UNCHANGED <<row, started, form, gasCity>>

\* The isolate dies, or an unguarded database call throws (a failed save of
\* the form or the row ends the invocation too).
Crash(i) ==
  /\ inv[i].pc \notin {"start", "done"} /\ SpendFault
  /\ Result(i, "none")
  /\ UNCHANGED <<row, started, form, gasCity>>

\* External: the Idempotency-Key outlives its TTL.
ExpireKey ==
  /\ keyBead # None /\ SpendFault
  /\ keyBead' = None /\ forgotten' = TRUE
  /\ UNCHANGED <<inv, row, started, form, created, slung>>

\* What an invocation that has begun does next.
Step(i) ==
  \/ SaveForm(i) \/ SaveLog(i)
  \/ ProbeVersion(i) \/ ProbeFails(i)
  \/ Call2Created(i) \/ Call2Lost(i) \/ Call2ServerError(i) \/ Call2Conflict(i) \/ Call2Refused(i)
  \/ NoteBead(i)
  \/ Call3Slung(i) \/ Call3Lost(i) \/ Call3Conflict(i) \/ Call3Refused(i)
  \/ WriteFinal(i)

Begin(i) == RefuseInput(i) \/ ReplayDispatched(i) \/ Resume(i) \/ StartFresh(i)

Next ==
  \/ \E i \in Invocation : Begin(i) \/ Step(i) \/ LoseFinal(i) \/ Crash(i)
  \/ ExpireKey

Spec == Init /\ [][Next]_vars

----------------------------------------------------------------------------
(* Properties *)

\* Nobody claims a dispatch Gas City did not accept (the MUST NOT of the 409
\* branch of CALL 3): a dispatched row names a bead with a workflow, and so
\* does the result of every invocation that returns "dispatched".
DispatchedMeansSlung ==
  /\ \A i \in Invocation : row[i].outcome = "dispatched" => row[i].bead \in slung
  /\ \A i \in Invocation : inv[i].out.outcome = "dispatched" => inv[i].out.bead \in slung

\* While Gas City remembers the Idempotency-Key, one Execution Packet and
\* attempt set Gas City to work once, whatever is lost, retried or crashes.
AtMostOneSlung == ~forgotten => Cardinality(slung) <= 1

\* A bead is on a dispatch_log row before it can be slung: its completion
\* can be matched, and CALL 3 can be resumed, after any crash.  (Once the
\* key is forgotten this fails: a second bead is slung, and the 409 branch
\* of CALL 3 then replaces it on its row by the bead of the prior row.)
SlungIsNoted == ~forgotten => \A b \in slung : \E i \in Invocation : row[i].bead = b

\* FORM-* and the row are two saves, not one transaction, yet no row is
\* without its FORM-*: resume never ends in resume_missing_form.
RowHasForm == \A i \in Invocation : row[i].outcome # "none" => form # "absent"
=============================================================================
