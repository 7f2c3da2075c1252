------------------------- MODULE FormulaDispatchProofs -------------------------
(***************************************************************************)
(* Proofs about FormulaDispatch, for any number of invocations, beads,     *)
(* tries and faults.  DispatchInv is inductive: a row that has no bead yet *)
(* is changed by its own invocation only (RowInv); while the key is        *)
(* remembered all beads are the one it stands for (OneBead); a bead is     *)
(* slung through a row that has one (Noted).                               *)
(***************************************************************************)
EXTENDS FormulaDispatch, FiniteSetTheorems, WellFoundedInduction, TLAPS

\* A non-empty set of positions up to n has a last one.
LEMMA LastOne ==
  ASSUME NEW n \in Nat, NEW S \in SUBSET (1 .. n), S # {}
  PROVE  \E x \in S : \A y \in S : y <= x
<1> DEFINE T == {n - x : x \in S}
<1>1. T \subseteq Nat /\ T # {}
  <2>1. \A x \in S : x \in 1 .. n /\ n - x \in Nat
    OBVIOUS
  <2>2. PICK x \in S : TRUE
    OBVIOUS
  <2>3. n - x \in T
    BY <2>2
  <2> QED BY <2>1, <2>3
<1> DEFINE Less == {ss \in Nat \X Nat : ss[1] < ss[2]}
<1>0. IsWellFoundedOn(Less, Nat)
  BY NatLessThanWellFounded DEF OpToRel
<1>a. PICK t \in T : \A u \in T : ~(<<u, t>> \in Less)
  <2> HIDE DEF Less, T
  <2> QED BY <1>0, <1>1, WFMin
<1>2. t \in T
  OBVIOUS
<1>3. \A u \in T : ~(u < t)
  BY <1>1, <1>a
<1>4. PICK x \in S : t = n - x
  BY <1>2
<1>5. ASSUME NEW y \in S PROVE y <= x
  <2>1. n - y \in T
    OBVIOUS
  <2>2. ~(n - y < n - x)
    BY <1>3, <1>4, <2>1
  <2> QED BY <2>2
<1> QED BY <1>4, <1>5

\* getDispatchLogByIdempotencyKey gives a row that has been saved, or none.
LEMMA LatestIsRow ==
  ASSUME TypeOK, NEW k, LatestRow(k) # None
  PROVE  LatestRow(k) \in Invocation /\ row[LatestRow(k)].outcome # "none"
<1> DEFINE rows == {n \in DOMAIN started : row[started[n]].outcome # "none" /\ started[n] # k}
<1>1. rows \in SUBSET (1 .. Len(started)) /\ Len(started) \in Nat
  BY DEF TypeOK
<1>2. rows # {}
  BY DEF LatestRow
<1>3. \E n \in rows : \A m \in rows : m <= n
  <2> HIDE DEF rows
  <2> QED BY <1>1, <1>2, LastOne
<1>4. PICK n \in rows : LatestRow(k) = started[n]
  BY <1>2, <1>3 DEF LatestRow
<1> QED BY <1>1, <1>4 DEF TypeOK

----------------------------------------------------------------------------
(* Types *)

InvType == inv \in [Invocation -> Local]
RowType == row \in [Invocation -> Row]

LEMMA NoRowType == NoRow \in Row
BY DEF NoRow, Row, NoWf

\* The helpers that move an invocation on keep its type.
LEMMA GotoType ==
  ASSUME InvType, NEW i \in Invocation, NEW pc \in Pc, Goto(i, pc)
  PROVE  InvType'
BY DEF InvType, Goto, Local

LEMMA ReturnType ==
  ASSUME InvType, NEW i \in Invocation, NEW out \in Row, Return(i, out)
  PROVE  InvType'
<1>1. 0 \in 0 .. MaxTries - 1
  BY DispatchAssumption
<1>2. NotStarted \in Local
  BY <1>1, NoRowType DEF NotStarted, Local, Pc
<1>3. [NotStarted EXCEPT !.pc = "done", !.out = out] \in Local
  BY <1>2 DEF Local, Pc
<1> QED BY <1>3 DEF InvType, Return

LEMMA ResultType ==
  ASSUME InvType, NEW i \in Invocation, NEW o \in Outcome \cup {"none"}, Result(i, o)
  PROVE  InvType'
<1>1. [NoRow EXCEPT !.outcome = o] \in Row
  BY DEF NoRow, Row, NoWf
<1> QED BY <1>1, ReturnType DEF Result

LEMMA OutcomeType ==
  ASSUME RowType, NEW i \in Invocation, NEW o \in Outcome, row' = [row EXCEPT ![i].outcome = o]
  PROVE  RowType'
BY DEF RowType, Row

LEMMA HaltType ==
  ASSUME InvType, RowType, NEW i \in Invocation, NEW o \in Outcome, Halt(i, o)
  PROVE  InvType' /\ RowType'
BY ResultType, OutcomeType DEF Halt

LEMMA FinaliseType ==
  ASSUME InvType, NEW i \in Invocation, NEW o \in Outcome,
         NEW b \in BeadId \cup {None}, NEW wf \in WfId \cup {NoWf}, Finalise(i, o, b, wf)
  PROVE  InvType'
<1> DEFINE r == [outcome |-> o, bead |-> b, wf |-> wf]
<1>1. r \in Row
  BY DEF Row, NoWf
<1> HIDE DEF r
<1>2. inv' = [inv EXCEPT ![i].pc = "final", ![i].out = r]
  BY DEF Finalise, r
<1>3. inv[i] \in Local
  BY DEF InvType
<1>4. [inv[i] EXCEPT !.pc = "final", !.out = r] \in Local
  BY <1>1, <1>3 DEF Local, Pc
<1> QED BY <1>2, <1>4 DEF InvType

LEMMA RetryType ==
  ASSUME InvType, NEW i \in Invocation, inv[i].tries + 1 < MaxTries, NEW lost \in BOOLEAN,
         \/ inv' = [inv EXCEPT ![i].tries = @ + 1, ![i].lost = lost]
         \/ inv' = [inv EXCEPT ![i].tries = @ + 1]
  PROVE  InvType'
<1>1. inv[i].tries \in 0 .. MaxTries - 1 /\ inv[i] \in Local
  BY DEF InvType, Local
<1>2. inv[i].tries + 1 \in 0 .. MaxTries - 1
  BY <1>1, DispatchAssumption
<1> QED BY <1>2 DEF InvType, Local

\* What a step of an invocation may do in Gas City.
LEMMA GasCityMoves ==
  ASSUME NEW i \in Invocation, Begin(i) \/ Step(i) \/ LoseFinal(i) \/ Crash(i)
  PROVE  \/ UNCHANGED gasCity
         \/ \E b \in BeadId : CreateBead(b)
         \/ At(i, "call3") /\ Attach(inv[i].bead)
BY DEF Begin, Step, RefuseInput, ReplayDispatched, Resume, StartFresh, SaveForm, SaveLog,
   ProbeVersion, ProbeFails, Call2Created, Call2Lost, Call2ServerError, Call2Conflict,
   Call2Refused, MayCreateBead, NoteBead, Call3Slung, Call3Lost, Call3Conflict, Call3Refused,
   MayAttach, WriteFinal, LoseFinal, Crash

\* Beads that invocations, rows and Gas City's keys name have been created.
BeadsCreated ==
  /\ \A i \in Invocation : inv[i].pc \in {"noteBead", "call3"} => inv[i].bead \in created
  /\ \A i \in Invocation : row[i].bead # None => row[i].bead \in created
  /\ keyBead # None => keyBead \in created

LEMMA RetryCall2Type ==
  ASSUME InvType, RowType, NEW i \in Invocation, NEW lost \in BOOLEAN, RetryCall2(i, lost)
  PROVE  InvType' /\ RowType'
<1>1. CASE inv[i].tries + 1 < MaxTries
  BY <1>1, RetryType DEF RetryCall2, RowType
<1>2. CASE ~(inv[i].tries + 1 < MaxTries)
  BY <1>2, HaltType DEF RetryCall2, Outcome
<1> QED BY <1>1, <1>2

\* CALL 2 has given a bead.
LEMMA BeadType ==
  ASSUME InvType, NEW i \in Invocation, NEW b \in BeadId,
         inv' = [inv EXCEPT ![i].pc = "noteBead", ![i].bead = b, ![i].tries = 0, ![i].lost = FALSE]
  PROVE  InvType'
<1>1. 0 \in 0 .. MaxTries - 1
  BY DispatchAssumption
<1>2. [inv[i] EXCEPT !.pc = "noteBead", !.bead = b, !.tries = 0, !.lost = FALSE] \in Local
  BY <1>1 DEF InvType, Local, Pc
<1> QED BY <1>2 DEF InvType

\* What a step of an invocation may do to what all share.
LEMMA SharedMoves ==
  ASSUME NEW i \in Invocation, Begin(i) \/ Step(i) \/ LoseFinal(i) \/ Crash(i)
  PROVE  /\ form' \in {form, "pending", "probed"}
         /\ started' \in {started, Append(started, i)}
         /\ UNCHANGED faults \/ SpendFault
BY DEF Begin, Step, RefuseInput, ReplayDispatched, Resume, StartFresh, SaveForm, SaveLog,
   ProbeVersion, ProbeFails, Call2Created, Call2Lost, Call2ServerError, Call2Conflict,
   Call2Refused, NoteBead, Call3Slung, Call3Lost, Call3Conflict, Call3Refused, WriteFinal,
   LoseFinal, Crash

\* A step of an invocation keeps the types.
LEMMA TypeStep ==
  ASSUME TypeOK, BeadsCreated, NEW i \in Invocation,
         Begin(i) \/ Step(i) \/ LoseFinal(i) \/ Crash(i)
  PROVE  TypeOK'
<1>a. InvType /\ RowType /\ (UNCHANGED row => RowType')
  BY DEF TypeOK, InvType, RowType
<1>b. form' \in {"absent", "pending", "probed"} /\ started' \in Seq(Invocation)
  <2>1. form \in {"absent", "pending", "probed"} /\ started \in Seq(Invocation)
    BY DEF TypeOK
  <2>2. Append(started, i) \in Seq(Invocation)
    BY <2>1
  <2> QED BY <2>1, <2>2, SharedMoves
<1>d. faults' \in 0 .. MaxFaults
  BY SharedMoves, DispatchAssumption DEF TypeOK, SpendFault
<1>e. /\ created' \subseteq BeadId /\ slung' \subseteq created'
      /\ keyBead' \in BeadId \cup {None} /\ forgotten' \in BOOLEAN
  BY GasCityMoves DEF TypeOK, BeadsCreated, At, gasCity, CreateBead, Attach
<1>f. {"failed", "dispatched", "timeout_call_1", "timeout_call_2", "timeout_call_3",
       "version_mismatch", "in_flight", "rejected", "pending"} \subseteq Outcome
  BY DEF Outcome
<1>g. None \in BeadId \cup {None} /\ NoWf \in WfId \cup {NoWf}
  OBVIOUS
<1>h. inv[i].out \in Row /\ inv[i].bead \in BeadId \cup {None} /\ inv[i].lost \in BOOLEAN
      /\ inv[i].target \in Invocation \cup {None}
  BY DEF TypeOK, Local
<1>k. At(i, "call3") => /\ inv[i].bead \in BeadId
                        /\ Wf(inv[i].bead) \in WfId /\ BeadAsWf(inv[i].bead) \in WfId
  BY DEF BeadsCreated, TypeOK, At, Wf, BeadAsWf, WfId
<1>1. ASSUME RefuseInput(i) PROVE InvType' /\ RowType'
  BY <1>1, <1>a, <1>f, ResultType DEF RefuseInput
<1>2. ASSUME ReplayDispatched(i) PROVE InvType' /\ RowType'
  BY <1>2, <1>a, LatestIsRow, ReturnType DEF ReplayDispatched, RowType
<1>3. ASSUME Resume(i) PROVE InvType' /\ RowType'
  <2>1. PICK prior \in Invocation :
          IF form # "absent"
            THEN /\ inv' = [inv EXCEPT ![i].pc = "call3", ![i].target = prior,
                                       ![i].bead = row[prior].bead]
                 /\ UNCHANGED row
            ELSE /\ Result(i, "failed")
                 /\ row' = [row EXCEPT ![prior].outcome = "failed"]
    BY <1>3, LatestIsRow DEF Resume
  <2>2. row[prior].bead \in BeadId \cup {None}
    BY DEF TypeOK, Row
  <2>3. CASE form # "absent"
    BY <1>a, <2>1, <2>2, <2>3 DEF InvType, Local, Pc
  <2>4. CASE form = "absent"
    BY <1>a, <1>f, <2>1, <2>4, ResultType, OutcomeType
  <2> QED BY <2>3, <2>4
<1>4. ASSUME StartFresh(i) \/ SaveForm(i) \/ ProbeVersion(i) PROVE InvType' /\ RowType'
  BY <1>4, <1>a, GotoType DEF StartFresh, SaveForm, ProbeVersion, Pc
<1>5. ASSUME SaveLog(i) PROVE InvType' /\ RowType'
  <2>1. InvType'
    BY <1>5, <1>a DEF SaveLog, InvType, Local, Pc
  <2> QED BY <1>5, <1>a, <1>f, <2>1, OutcomeType DEF SaveLog
<1>6. ASSUME ProbeFails(i) PROVE InvType' /\ RowType'
  BY <1>6, <1>a, <1>f, HaltType DEF ProbeFails
<1>7. ASSUME Call2Created(i) PROVE InvType' /\ RowType'
  BY <1>7, <1>a, BeadType DEF Call2Created
<1>8. ASSUME Call2Lost(i) \/ Call2ServerError(i) PROVE InvType' /\ RowType'
  BY <1>8, <1>a, <1>h, RetryCall2Type DEF Call2Lost, Call2ServerError
<1>9. ASSUME Call2Conflict(i) PROVE InvType' /\ RowType'
  <2>1. keyBead \in BeadId
    BY <1>9 DEF Call2Conflict, TypeOK
  <2> QED BY <1>9, <1>a, <1>f, <2>1, BeadType, HaltType DEF Call2Conflict
<1>10. ASSUME Call2Refused(i) PROVE InvType' /\ RowType'
  BY <1>10, <1>a, <1>f, HaltType DEF Call2Refused
<1>11. ASSUME NoteBead(i) PROVE InvType' /\ RowType'
  <2>1. InvType'
    BY <1>11, <1>a, GotoType DEF NoteBead, Pc
  <2>2. RowType'
    BY <1>11, <1>a, <1>h DEF NoteBead, RowType, Row
  <2> QED BY <2>1, <2>2
<1>12. ASSUME Call3Slung(i) PROVE InvType' /\ RowType'
  BY <1>12, <1>a, <1>f, <1>k, FinaliseType DEF Call3Slung
<1>13. ASSUME Call3Lost(i) PROVE InvType' /\ RowType'
  BY <1>13, <1>a, <1>f, <1>g, RetryType, FinaliseType DEF Call3Lost, FinaliseOutcome
<1>14. ASSUME Call3Conflict(i) PROVE InvType' /\ RowType'
  <2>1. \E o \in Outcome, b \in BeadId \cup {None}, wf \in WfId \cup {NoWf} :
          Finalise(i, o, b, wf)
    <3>1. ASSUME NEW p \in Invocation
          PROVE  row[p].bead \in BeadId \cup {None} /\ row[p].wf \in WfId \cup {NoWf}
      BY DEF TypeOK, Row, NoWf
    <3> DEFINE prior == LatestRow(inv[i].target)
    <3>2. \/ prior # None /\ Finalise(i, "dispatched", row[prior].bead, row[prior].wf)
          \/ Finalise(i, "dispatched", inv[i].bead, BeadAsWf(inv[i].bead))
          \/ FinaliseOutcome(i, "rejected")
      BY <1>14 DEF Call3Conflict
    <3> QED BY <1>14, <1>f, <1>g, <1>h, <1>k, <3>1, <3>2, LatestIsRow DEF FinaliseOutcome, Call3Conflict
  <2> QED BY <1>14, <1>a, <2>1, FinaliseType DEF Call3Conflict
<1>15. ASSUME Call3Refused(i) PROVE InvType' /\ RowType'
  BY <1>15, <1>a, <1>f, <1>g, FinaliseType DEF Call3Refused, FinaliseOutcome
<1>16. ASSUME WriteFinal(i) PROVE InvType' /\ RowType'
  <2>1. InvType'
    BY <1>16, <1>a, <1>h, ReturnType DEF WriteFinal
  <2>2. RowType'
    BY <1>16, <1>a, <1>h DEF WriteFinal, RowType, Row
  <2> QED BY <2>1, <2>2
<1>17. ASSUME LoseFinal(i) PROVE InvType' /\ RowType'
  BY <1>17, <1>a, <1>h, ReturnType DEF LoseFinal
<1>18. ASSUME Crash(i) PROVE InvType' /\ RowType'
  BY <1>18, <1>a, ResultType DEF Crash
<1>19. InvType' /\ RowType'
  BY <1>1, <1>2, <1>3, <1>4, <1>5, <1>6, <1>7, <1>8, <1>9, <1>10, <1>11, <1>12, <1>13,
     <1>14, <1>15, <1>16, <1>17, <1>18 DEF Begin, Step
<1> QED BY <1>b, <1>d, <1>e, <1>19 DEF TypeOK, InvType, RowType

----------------------------------------------------------------------------
(* The inductive invariant *)

\* No form: nothing has been saved and no call made.
FormInv == form = "absent" =>
  \A i \in Invocation : row[i].outcome = "none" /\ inv[i].pc \in {"start", "saveForm", "done"}

\* Until it has a bead, a row is its own invocation's; CALL 3 has a row with a bead.
RowInv == \A i \in Invocation :
  /\ inv[i].pc \in {"start", "saveForm", "saveLog"} => row[i].bead = None
  /\ inv[i].pc \in {"call1", "call2", "noteBead"} =>
       inv[i].target = i /\ row[i].outcome = "pending" /\ row[i].bead = None
  /\ inv[i].pc \in {"call3", "final"} =>
       inv[i].target \in Invocation /\ row[inv[i].target].bead # None

\* While the key is remembered there is one bead, the one it stands for.
OneBead == ~forgotten => \A b \in created : b = keyBead

\* Once a bead has been slung some row has a bead.
Noted == slung # {} => \E i \in Invocation : row[i].bead # None

\* The inductive invariant of compileAndDispatchFormula.
DispatchInv == TypeOK /\ FormInv /\ RowInv /\ BeadsCreated /\ OneBead /\ Noted /\ DispatchedMeansSlung

\* It keeps the form ahead of the rows and of the calls.
LEMMA FormStep ==
  ASSUME TypeOK, FormInv, NEW i \in Invocation,
         Begin(i) \/ Step(i) \/ LoseFinal(i) \/ Crash(i)
  PROVE  FormInv'
<1>1. SUFFICES ASSUME form' = "absent"
      PROVE  \A j \in Invocation : /\ row'[j].outcome = "none"
                                   /\ inv'[j].pc \in {"start", "saveForm", "done"}
  BY DEF FormInv
<1>2. form = "absent"
  BY <1>1, SharedMoves
<1>3. /\ \A j \in Invocation : row[j].outcome = "none"
      /\ \A j \in Invocation : inv[j].pc \in {"start", "saveForm", "done"}
  BY <1>2 DEF FormInv
<1>4. LatestRow(None) = None
  BY <1>3, LatestIsRow
<1>5. RefuseInput(i) \/ StartFresh(i) \/ Crash(i)
  BY <1>1, <1>3, <1>4 DEF Begin, Step, RefuseInput, ReplayDispatched, Resume, StartFresh, SaveForm, SaveLog,
   ProbeVersion, ProbeFails, Call2Created, Call2Lost, Call2ServerError, Call2Conflict,
   Call2Refused, NoteBead, Call3Slung, Call3Lost, Call3Conflict, Call3Refused, WriteFinal,
   LoseFinal, Crash, At
<1> QED BY <1>3, <1>5 DEF RefuseInput, StartFresh, Crash, Result, Return, Goto, TypeOK, Local, NotStarted

\* What an invocation's own step leaves alone.
LEMMA OthersKept ==
  ASSUME TypeOK, NEW i \in Invocation, NEW j \in Invocation \ {i},
         Begin(i) \/ Step(i) \/ LoseFinal(i) \/ Crash(i)
  PROVE  inv'[j] = inv[j]
<1> DEFINE Kept == inv'[j] = inv[j]
<1>1. inv \in [Invocation -> Local]
  BY DEF TypeOK
<1>2. ASSUME NEW pc, Goto(i, pc) PROVE Kept
  BY <1>1, <1>2 DEF Goto
<1>3. ASSUME NEW o, Return(i, o) PROVE Kept
  BY <1>1, <1>3 DEF Return
<1>4. ASSUME NEW o, Result(i, o) PROVE Kept
  BY <1>3, <1>4 DEF Result
<1>5. ASSUME NEW o, NEW b, NEW wf, Finalise(i, o, b, wf) PROVE Kept
  BY <1>1, <1>5 DEF Finalise
<1>6. ASSUME NEW o, Halt(i, o) PROVE Kept
  BY <1>4, <1>6 DEF Halt
<1>7. ASSUME NEW lost, RetryCall2(i, lost) PROVE Kept
  BY <1>1, <1>6, <1>7 DEF RetryCall2
<1>8. ASSUME RefuseInput(i) \/ ReplayDispatched(i) \/ StartFresh(i) PROVE Kept
  BY <1>2, <1>3, <1>4, <1>8 DEF RefuseInput, ReplayDispatched, StartFresh
<1>9. ASSUME Resume(i) PROVE Kept
  BY <1>1, <1>4, <1>9 DEF Resume
<1>10. ASSUME SaveForm(i) \/ SaveLog(i) \/ ProbeVersion(i) \/ ProbeFails(i) PROVE Kept
  BY <1>1, <1>2, <1>6, <1>10 DEF SaveForm, SaveLog, ProbeVersion, ProbeFails
<1>11. ASSUME Call2Created(i) \/ Call2Conflict(i) PROVE Kept
  BY <1>1, <1>6, <1>11 DEF Call2Created, Call2Conflict
<1>12. ASSUME Call2Lost(i) \/ Call2ServerError(i) \/ Call2Refused(i) \/ NoteBead(i) PROVE Kept
  BY <1>2, <1>6, <1>7, <1>12 DEF Call2Lost, Call2ServerError, Call2Refused, NoteBead
<1>13. ASSUME Call3Slung(i) \/ Call3Refused(i) PROVE Kept
  BY <1>5, <1>13 DEF Call3Slung, Call3Refused, FinaliseOutcome
<1>14. ASSUME Call3Lost(i) PROVE Kept
  BY <1>1, <1>5, <1>14 DEF Call3Lost, FinaliseOutcome
<1>15. ASSUME Call3Conflict(i) PROVE Kept
  BY <1>5, <1>15 DEF Call3Conflict, FinaliseOutcome
<1>16. ASSUME WriteFinal(i) \/ LoseFinal(i) \/ Crash(i) PROVE Kept
  BY <1>3, <1>4, <1>16 DEF WriteFinal, LoseFinal, Crash
<1> QED BY <1>8, <1>9, <1>10, <1>11, <1>12, <1>13, <1>14, <1>15, <1>16 DEF Begin, Step

\* How the invocation itself moves on, and the rows with it.
Stays(i) ==
  /\ inv'[i].pc = inv[i].pc /\ inv'[i].target = inv[i].target
  /\ inv'[i].bead = inv[i].bead /\ inv'[i].out = inv[i].out
  /\ row' = row

Advances(i) ==
  /\ inv'[i].out = inv[i].out
  /\ \/ inv[i].pc = "start" /\ inv'[i].pc = "saveForm" /\ row' = row
     \/ inv[i].pc = "saveForm" /\ inv'[i].pc = "saveLog" /\ row' = row
     \/ /\ inv[i].pc = "saveLog" /\ inv'[i].pc = "call1" /\ inv'[i].target = i
        /\ row' = [row EXCEPT ![i].outcome = "pending"]
     \/ /\ inv[i].pc = "call1" /\ inv'[i].pc = "call2" /\ inv'[i].target = inv[i].target
        /\ row' = row
     \/ /\ inv[i].pc = "call2" /\ inv'[i].pc = "noteBead" /\ inv'[i].target = inv[i].target
        /\ inv'[i].bead \in created' /\ row' = row
     \/ /\ inv[i].pc = "noteBead" /\ inv'[i].pc = "call3" /\ inv'[i].target = inv[i].target
        /\ inv'[i].bead = inv[i].bead
        /\ row' = [row EXCEPT ![i].bead = inv[i].bead]
     \/ /\ inv[i].pc = "start" /\ inv'[i].pc = "call3" /\ row' = row
        /\ inv'[i].target \in Invocation /\ row[inv'[i].target].bead # None
        /\ inv'[i].bead = row[inv'[i].target].bead

Finalises(i) ==
  /\ inv[i].pc = "call3" /\ inv'[i].pc = "final"
  /\ inv'[i].target = inv[i].target
  /\ inv'[i].out.outcome = "dispatched" => inv'[i].out.bead \in slung'
  /\ row' = row

Ends(i) ==
  /\ inv'[i].pc = "done"
  /\ inv'[i].out.outcome = "dispatched" => inv'[i].out.bead \in slung
  /\ \/ row' = row
     \/ /\ inv[i].pc \in {"call1", "call2"}
        /\ \E o \in Outcome \ {"dispatched"} : row' = [row EXCEPT ![i].outcome = o]
     \/ /\ inv[i].pc = "final"
        /\ row' = [row EXCEPT ![inv[i].target] =
             IF inv[i].out.outcome = "dispatched" THEN inv[i].out
             ELSE [@ EXCEPT !.outcome = inv[i].out.outcome]]

\* Every step is one of these four.
LEMMA Moves ==
  ASSUME TypeOK, FormInv, BeadsCreated, DispatchedMeansSlung, NEW i \in Invocation,
         Begin(i) \/ Step(i) \/ LoseFinal(i) \/ Crash(i)
  PROVE  Stays(i) \/ Advances(i) \/ Finalises(i) \/ Ends(i)
<1>0. inv \in [Invocation -> Local] /\ inv[i] \in Local
  BY DEF TypeOK
<1>1. ASSUME NEW o \in Row, o.outcome = "dispatched" => o.bead \in slung,
             Return(i, o), row' = row
      PROVE  Ends(i)
  <2>1. inv'[i].pc = "done" /\ inv'[i].out = o
    BY <1>0, <1>1 DEF Return, NotStarted
  <2> QED BY <1>1, <2>1 DEF Ends
<1>2. ASSUME NEW o, Result(i, o) PROVE inv'[i].pc = "done" /\ inv'[i].out.outcome = o
  BY <1>0, <1>2 DEF Result, Return, NotStarted, NoRow
<1>3. ASSUME NEW o \in Outcome \ {"dispatched"}, Halt(i, o), inv[i].pc \in {"call1", "call2"}
      PROVE  Ends(i)
  <2>1. inv'[i].pc = "done" /\ inv'[i].out.outcome # "dispatched"
    BY <1>2, <1>3 DEF Halt
  <2>2. \E oo \in Outcome \ {"dispatched"} : row' = [row EXCEPT ![i].outcome = oo]
    BY <1>3 DEF Halt
  <2> QED BY <1>3, <2>1, <2>2 DEF Ends
<1>4. ASSUME NEW lost, RetryCall2(i, lost), inv[i].pc = "call2"
      PROVE  Stays(i) \/ Ends(i)
  <2>1. CASE inv[i].tries + 1 < MaxTries
    BY <1>0, <1>4, <2>1 DEF RetryCall2, Stays, Local
  <2>2. CASE ~(inv[i].tries + 1 < MaxTries)
    BY <1>3, <1>4, <2>2 DEF RetryCall2, Outcome
  <2> QED BY <2>1, <2>2
<1>5. ASSUME NEW o, NEW b, NEW wf, Finalise(i, o, b, wf), inv[i].pc = "call3", row' = row,
             o = "dispatched" => b \in slung'
      PROVE  Finalises(i)
  <2>1. /\ inv'[i].pc = "final" /\ inv'[i].target = inv[i].target
        /\ inv'[i].out = [outcome |-> o, bead |-> b, wf |-> wf]
    BY <1>0, <1>5 DEF Finalise, Local
  <2> QED BY <1>5, <2>1 DEF Finalises
<1>6. ASSUME RefuseInput(i) \/ Crash(i) PROVE Ends(i)
  BY <1>2, <1>6 DEF RefuseInput, Crash, Ends
<1>7. ASSUME ReplayDispatched(i) PROVE Ends(i)
  <2>1. PICK prior \in Invocation : row[prior].outcome = "dispatched" /\ Return(i, row[prior])
    BY <1>7, LatestIsRow DEF ReplayDispatched
  <2>2. row[prior] \in Row /\ row[prior].bead \in slung
    BY <2>1 DEF TypeOK, DispatchedMeansSlung
  <2> QED BY <1>1, <1>7, <2>1, <2>2 DEF ReplayDispatched
<1>8. ASSUME Resume(i) PROVE Advances(i)
  <2>1. PICK prior \in Invocation :
          /\ prior = LatestRow(None) /\ row[prior].outcome # "none"
          /\ row[prior].bead # None
    BY <1>8, LatestIsRow DEF Resume, Resumable
  <2>2. form # "absent"
    BY <2>1 DEF FormInv
  <2>3. /\ inv' = [inv EXCEPT ![i].pc = "call3", ![i].target = prior, ![i].bead = row[prior].bead]
        /\ row' = row
    BY <1>8, <2>1, <2>2 DEF Resume
  <2> QED BY <1>0, <1>8, <2>1, <2>3 DEF Advances, Local, Resume, At
<1>9. ASSUME StartFresh(i) \/ SaveForm(i) \/ SaveLog(i) \/ ProbeVersion(i) \/ NoteBead(i)
      PROVE  Advances(i)
  BY <1>0, <1>9 DEF StartFresh, SaveForm, SaveLog, ProbeVersion, NoteBead, Goto, At, Advances, Local
<1>10. ASSUME ProbeFails(i) PROVE Ends(i)
  BY <1>3, <1>10 DEF ProbeFails, At, Outcome
<1>11. ASSUME NEW b \in created', inv[i].pc = "call2", row' = row,
              inv' = [inv EXCEPT ![i].pc = "noteBead", ![i].bead = b, ![i].tries = 0,
                                 ![i].lost = FALSE]
       PROVE  Advances(i)
  BY <1>0, <1>11 DEF Advances, Local
<1>12. ASSUME Call2Created(i) PROVE Advances(i)
  <2>1. PICK b \in BeadId :
          /\ CreateBead(b) \/ (b = keyBead /\ UNCHANGED gasCity)
          /\ inv' = [inv EXCEPT ![i].pc = "noteBead", ![i].bead = b, ![i].tries = 0,
                                ![i].lost = FALSE]
    BY <1>12 DEF Call2Created
  <2>2. b # None
    BY DispatchAssumption
  <2>3. b \in created'
    BY <2>1, <2>2 DEF CreateBead, gasCity, BeadsCreated
  <2> QED BY <1>11, <1>12, <2>1, <2>3 DEF Call2Created, At
<1>13. ASSUME Call2Lost(i) \/ Call2ServerError(i) PROVE Stays(i) \/ Ends(i)
  BY <1>4, <1>13 DEF Call2Lost, Call2ServerError, At
<1>14. ASSUME Call2Conflict(i) PROVE Advances(i) \/ Ends(i)
  <2>1. keyBead \in created'
    BY <1>14 DEF Call2Conflict, BeadsCreated, gasCity
  <2>2. \/ /\ inv' = [inv EXCEPT ![i].pc = "noteBead", ![i].bead = keyBead, ![i].tries = 0,
                                 ![i].lost = FALSE]
           /\ row' = row
        \/ Halt(i, "rejected")
    BY <1>14 DEF Call2Conflict
  <2>3. inv[i].pc = "call2"
    BY <1>14 DEF Call2Conflict, At
  <2> QED BY <1>3, <1>11, <2>1, <2>2, <2>3 DEF Outcome
<1>15. ASSUME Call2Refused(i) PROVE Ends(i)
  BY <1>3, <1>15 DEF Call2Refused, At, Outcome
<1>16. ASSUME Call3Slung(i) PROVE Finalises(i)
  <2>1. PICK wf : Finalise(i, "dispatched", inv[i].bead, wf)
    BY <1>16 DEF Call3Slung
  <2> QED BY <1>5, <1>16, <2>1 DEF Call3Slung, Attach, At
<1>17. ASSUME Call3Lost(i) PROVE Stays(i) \/ Finalises(i)
  <2>1. CASE inv[i].tries + 1 < MaxTries
    BY <1>0, <1>17, <2>1 DEF Call3Lost, Stays, Local
  <2>2. CASE ~(inv[i].tries + 1 < MaxTries)
    BY <1>5, <1>17, <2>2 DEF Call3Lost, FinaliseOutcome, At
  <2> QED BY <2>1, <2>2
<1>18. ASSUME Call3Conflict(i) PROVE Finalises(i)
  <2> DEFINE prior == LatestRow(inv[i].target)
  <2>1. \/ /\ prior # None /\ row[prior].outcome = "dispatched"
           /\ Finalise(i, "dispatched", row[prior].bead, row[prior].wf)
        \/ Finalise(i, "dispatched", inv[i].bead, BeadAsWf(inv[i].bead))
        \/ FinaliseOutcome(i, "rejected")
    BY <1>18 DEF Call3Conflict
  <2>2. inv[i].bead \in slung' /\ inv[i].pc = "call3" /\ row' = row
    BY <1>18 DEF Call3Conflict, At, gasCity
  <2>3. prior # None /\ row[prior].outcome = "dispatched" => row[prior].bead \in slung'
    BY <1>18, LatestIsRow DEF Call3Conflict, gasCity, DispatchedMeansSlung
  <2> HIDE DEF prior
  <2> QED BY <1>5, <2>1, <2>2, <2>3 DEF FinaliseOutcome
<1>19. ASSUME Call3Refused(i) PROVE Finalises(i)
  BY <1>5, <1>19 DEF Call3Refused, FinaliseOutcome, At
<1>20. ASSUME LoseFinal(i) PROVE Ends(i)
  <2>1. inv[i].out \in Row /\ (inv[i].out.outcome = "dispatched" => inv[i].out.bead \in slung)
    BY <1>0 DEF Local, DispatchedMeansSlung
  <2> QED BY <1>1, <1>20, <2>1 DEF LoseFinal
<1>21. ASSUME WriteFinal(i) PROVE Ends(i)
  <2>1. inv[i].out.outcome = "dispatched" => inv[i].out.bead \in slung
    BY DEF DispatchedMeansSlung
  <2>2. inv'[i].pc = "done" /\ inv'[i].out = inv[i].out
    BY <1>0, <1>21 DEF WriteFinal, Return, NotStarted
  <2> QED BY <1>21, <2>1, <2>2 DEF WriteFinal, Ends, At
<1> QED BY <1>6, <1>7, <1>8, <1>9, <1>10, <1>12, <1>13, <1>14, <1>15, <1>16, <1>17, <1>18,
     <1>19, <1>20, <1>21 DEF Begin, Step

----------------------------------------------------------------------------
(* The invariant is kept *)

\* Beads are never deleted, a row never loses its bead, and a row is some
\* other invocation's only once it has a bead.
LEMMA RowsKept ==
  ASSUME TypeOK, RowInv, DispatchedMeansSlung, NEW i \in Invocation,
         Stays(i) \/ Advances(i) \/ Finalises(i) \/ Ends(i)
  PROVE  \A r \in Invocation :
           /\ row[r].bead # None => row'[r].bead # None
           /\ row[r].bead = None /\ r # i => row'[r] = row[r]
           /\ \/ row'[r].bead = row[r].bead
              \/ inv[i].pc = "noteBead" /\ row'[r].bead = inv[i].bead
              \/ row'[r].bead \in slung
           /\ row'[r].outcome = "dispatched" => row'[r].bead \in slung
<1> TAKE r \in Invocation
<1>0. row \in [Invocation -> Row] /\ row[r] \in Row /\ inv[i] \in Local /\ inv[i].out \in Row
  BY DEF TypeOK, Local
<1>1. row[r].outcome = "dispatched" => row[r].bead \in slung
  BY DEF DispatchedMeansSlung
<1>2. CASE row' = row
  BY <1>1, <1>2
<1>3. ASSUME NEW o \in Outcome \ {"dispatched"}, row' = [row EXCEPT ![i].outcome = o]
      PROVE  /\ row'[r].bead = row[r].bead /\ (r # i => row'[r] = row[r])
             /\ r = i => row'[r].outcome # "dispatched"
  BY <1>0, <1>3 DEF Row
<1>4. CASE inv[i].pc = "noteBead" /\ row' = [row EXCEPT ![i].bead = inv[i].bead]
  <2>1. row[i].bead = None /\ row[i].outcome = "pending"
    BY <1>4 DEF RowInv
  <2>2. /\ r # i => row'[r] = row[r]
        /\ r = i => row'[r].bead = inv[i].bead /\ row'[r].outcome = row[r].outcome
    BY <1>0, <1>4 DEF Row
  <2> QED BY <1>1, <1>4, <2>1, <2>2
<1>5. CASE /\ inv[i].pc = "final"
           /\ row' = [row EXCEPT ![inv[i].target] =
                IF inv[i].out.outcome = "dispatched" THEN inv[i].out
                ELSE [@ EXCEPT !.outcome = inv[i].out.outcome]]
  <2>1. inv[i].target \in Invocation /\ row[inv[i].target].bead # None
    BY <1>5 DEF RowInv
  <2>2. r # inv[i].target => row'[r] = row[r]
    BY <1>0, <1>5, <2>1
  <2>3. CASE inv[i].out.outcome = "dispatched" /\ r = inv[i].target
    <3>1. row'[r] = inv[i].out
      BY <1>0, <1>5, <2>3
    <3>2. inv[i].out.bead \in slung /\ inv[i].out.bead # None
      BY <2>3, DispatchAssumption DEF DispatchedMeansSlung, TypeOK
    <3> QED BY <2>1, <2>3, <3>1, <3>2
  <2>4. CASE inv[i].out.outcome # "dispatched" /\ r = inv[i].target
    <3>1. row'[r].bead = row[r].bead /\ row'[r].outcome # "dispatched"
      BY <1>0, <1>5, <2>4 DEF Row
    <3> QED BY <2>1, <2>4, <3>1
  <2> QED BY <1>1, <2>2, <2>3, <2>4
<1>6. CASE \E o \in Outcome \ {"dispatched"} : row' = [row EXCEPT ![i].outcome = o]
  BY <1>1, <1>3, <1>6
<1>7. "pending" \in Outcome \ {"dispatched"}
  BY DEF Outcome
<1> QED BY <1>2, <1>4, <1>5, <1>6, <1>7 DEF Stays, Advances, Finalises, Ends

\* A step of an invocation keeps the invariant.
LEMMA InvariantStep ==
  ASSUME DispatchInv, NEW i \in Invocation, Begin(i) \/ Step(i) \/ LoseFinal(i) \/ Crash(i)
  PROVE  DispatchInv'
<1> USE DEF DispatchInv
<1>1. TypeOK' /\ FormInv'
  BY TypeStep, FormStep
<1>2. Stays(i) \/ Advances(i) \/ Finalises(i) \/ Ends(i)
  BY Moves
<1>3. \A j \in Invocation \ {i} : inv'[j] = inv[j]
  BY OthersKept
<1>4. \/ UNCHANGED gasCity
      \/ \E b \in BeadId : CreateBead(b)
      \/ At(i, "call3") /\ Attach(inv[i].bead)
  BY GasCityMoves
<1>5. \A r \in Invocation :
        /\ row[r].bead # None => row'[r].bead # None
        /\ row[r].bead = None /\ r # i => row'[r] = row[r]
        /\ \/ row'[r].bead = row[r].bead
           \/ inv[i].pc = "noteBead" /\ row'[r].bead = inv[i].bead
           \/ row'[r].bead \in slung
        /\ row'[r].outcome = "dispatched" => row'[r].bead \in slung
  BY <1>2, RowsKept
<1>6. created \subseteq created' /\ slung \subseteq slung' /\ slung \subseteq created
  BY <1>4 DEF gasCity, CreateBead, Attach, TypeOK
<1>7. BeadsCreated'
  <2>1. keyBead' # None => keyBead' \in created'
    BY <1>4 DEF gasCity, CreateBead, Attach, BeadsCreated
  <2>2. \A r \in Invocation : row'[r].bead # None => row'[r].bead \in created'
    BY <1>5, <1>6 DEF BeadsCreated
  <2>3. inv'[i].pc \in {"noteBead", "call3"} => inv'[i].bead \in created'
    BY <1>2, <1>6 DEF Stays, Advances, Finalises, Ends, BeadsCreated
  <2>4. \A j \in Invocation : inv'[j].pc \in {"noteBead", "call3"} => inv'[j].bead \in created'
    BY <1>3, <1>6, <2>3 DEF BeadsCreated
  <2> QED BY <2>1, <2>2, <2>4 DEF BeadsCreated
<1>8. RowInv'
  <2>0. row \in [Invocation -> Row] /\ row[i] \in Row
    BY DEF TypeOK
  <2>1. ASSUME NEW j \in Invocation \ {i}
        PROVE  /\ inv'[j].pc \in {"start", "saveForm", "saveLog"} => row'[j].bead = None
               /\ inv'[j].pc \in {"call1", "call2", "noteBead"} =>
                    inv'[j].target = j /\ row'[j].outcome = "pending" /\ row'[j].bead = None
               /\ inv'[j].pc \in {"call3", "final"} =>
                    inv'[j].target \in Invocation /\ row'[inv'[j].target].bead # None
    BY <1>3, <1>5 DEF RowInv
  <2>2. inv'[i].pc \in {"start", "saveForm", "saveLog"} => row'[i].bead = None
    BY <1>2 DEF RowInv, Stays, Advances, Finalises, Ends
  <2>3. inv'[i].pc \in {"call1", "call2", "noteBead"} =>
          inv'[i].target = i /\ row'[i].outcome = "pending" /\ row'[i].bead = None
    <3>1. row' = [row EXCEPT ![i].outcome = "pending"]
            => row'[i].outcome = "pending" /\ row'[i].bead = row[i].bead
      BY <2>0 DEF Row
    <3> QED BY <1>2, <3>1 DEF RowInv, Stays, Advances, Finalises, Ends
  <2>4. inv'[i].pc \in {"call3", "final"} =>
          inv'[i].target \in Invocation /\ row'[inv'[i].target].bead # None
    <3>1. inv[i].pc = "noteBead" /\ row' = [row EXCEPT ![i].bead = inv[i].bead]
            => row'[i].bead # None
      <4>1. inv[i].pc = "noteBead" => inv[i].bead \in BeadId
        BY DEF BeadsCreated, TypeOK
      <4> QED BY <2>0, <4>1, DispatchAssumption DEF Row
    <3> QED BY <1>2, <1>5, <3>1 DEF RowInv, Stays, Advances, Finalises, Ends
  <2> QED BY <2>1, <2>2, <2>3, <2>4 DEF RowInv
<1>9. OneBead'
  BY <1>4, DispatchAssumption DEF OneBead, gasCity, CreateBead, Attach, TypeOK
<1>10. Noted'
  <2>1. CASE slung' = slung
    BY <1>5, <2>1 DEF Noted
  <2>2. CASE At(i, "call3")
    BY <1>5, <2>2 DEF Noted, RowInv, At
  <2> QED BY <1>4, <2>1, <2>2 DEF gasCity, CreateBead
<1>11. DispatchedMeansSlung'
  <2>1. inv'[i].out.outcome = "dispatched" => inv'[i].out.bead \in slung'
    BY <1>2, <1>6 DEF DispatchedMeansSlung, Stays, Advances, Finalises, Ends
  <2> QED BY <1>3, <1>5, <1>6, <2>1 DEF DispatchedMeansSlung
<1> QED BY <1>1, <1>7, <1>8, <1>9, <1>10, <1>11

\* The invariant holds at first.
LEMMA InvariantInit == Init => DispatchInv
<1> SUFFICES ASSUME Init PROVE DispatchInv
  OBVIOUS
<1>1. \A i \in Invocation : inv[i] = NotStarted /\ row[i] = NoRow
  BY DEF Init
<1>2. 0 \in 0 .. MaxTries - 1 /\ 0 \in 0 .. MaxFaults
  BY DispatchAssumption
<1>3. NotStarted \in Local
  BY <1>2, NoRowType DEF NotStarted, Local, Pc
<1>4. TypeOK
  <2>1. inv \in [Invocation -> Local] /\ row \in [Invocation -> Row]
    BY <1>3, NoRowType DEF Init
  <2>2. started \in Seq(Invocation)
    BY DEF Init
  <2> QED BY <1>2, <2>1, <2>2 DEF Init, TypeOK
<1>5. \A i \in Invocation : /\ inv[i].pc = "start" /\ inv[i].out.outcome = "none"
                            /\ row[i].outcome = "none" /\ row[i].bead = None
  BY <1>1 DEF NotStarted, NoRow
<1>6. created = {} /\ slung = {} /\ keyBead = None
  BY DEF Init
<1>7. FormInv /\ RowInv /\ DispatchedMeansSlung
  BY <1>5 DEF FormInv, RowInv, DispatchedMeansSlung
<1>8. BeadsCreated /\ OneBead /\ Noted
  BY <1>5, <1>6 DEF BeadsCreated, OneBead, Noted
<1> QED BY <1>4, <1>7, <1>8 DEF DispatchInv

\* The invariant holds of every behaviour.
LEMMA InvariantHolds == Spec => []DispatchInv
<1>1. ASSUME DispatchInv, ExpireKey PROVE DispatchInv'
  <2>1. TypeOK'
    <3>1. faults' \in 0 .. MaxFaults
      BY <1>1, DispatchAssumption DEF ExpireKey, SpendFault, DispatchInv, TypeOK
    <3> QED BY <1>1, <3>1 DEF ExpireKey, DispatchInv, TypeOK
  <2>2. FormInv' /\ RowInv' /\ BeadsCreated' /\ Noted'
    BY <1>1 DEF ExpireKey, DispatchInv, FormInv, RowInv, BeadsCreated, Noted
  <2>3. OneBead' /\ DispatchedMeansSlung'
    BY <1>1 DEF ExpireKey, DispatchInv, OneBead, DispatchedMeansSlung
  <2> QED BY <2>1, <2>2, <2>3 DEF DispatchInv
<1>2. ASSUME DispatchInv, UNCHANGED vars PROVE DispatchInv'
  BY <1>2 DEF vars, DispatchInv, TypeOK, FormInv, RowInv, BeadsCreated, OneBead, Noted,
     DispatchedMeansSlung
<1>3. DispatchInv /\ [Next]_vars => DispatchInv'
  BY <1>1, <1>2, InvariantStep DEF Next
<1> QED BY InvariantInit, <1>3, PTL DEF Spec

----------------------------------------------------------------------------
(* Theorems *)

\* Every row and every local variable of compileAndDispatchFormula keeps its type.
THEOREM DispatchTypeOK == Spec => []TypeOK
<1>1. DispatchInv => TypeOK
  BY DEF DispatchInv
<1> QED BY <1>1, InvariantHolds, PTL

\* writeFormAndDispatchLog saves the form first: no row is ever without it.
THEOREM DispatchRowHasForm == Spec => []RowHasForm
<1>1. DispatchInv => RowHasForm
  BY DEF DispatchInv, FormInv, RowHasForm
<1> QED BY <1>1, InvariantHolds, PTL

\* No row and no result of compileAndDispatchFormula says "dispatched" of a
\* bead that Gas City has not slung, whatever is lost, retried or crashes.
THEOREM DispatchNoFalseClaim == Spec => []DispatchedMeansSlung
<1>1. DispatchInv => DispatchedMeansSlung
  BY DEF DispatchInv
<1> QED BY <1>1, InvariantHolds, PTL

\* However many invocations run for one Execution Packet and attempt, one
\* bead at most is slung while Gas City remembers the Idempotency-Key.
THEOREM DispatchAtMostOnce == Spec => []AtMostOneSlung
<1>1. ASSUME DispatchInv, ~forgotten PROVE Cardinality(slung) <= 1
  <2>1. slung = {} \/ slung = {keyBead}
    BY <1>1 DEF DispatchInv, TypeOK, OneBead
  <2> QED BY <2>1, FS_EmptySet, FS_Singleton
<1>2. DispatchInv => AtMostOneSlung
  BY <1>1 DEF AtMostOneSlung
<1> QED BY <1>2, InvariantHolds, PTL

\* A slung bead is on a dispatch_log row, so that its completion is matched
\* and CALL 3 can be resumed, as long as the key is remembered.
THEOREM DispatchSlungIsNoted == Spec => []SlungIsNoted
<1>1. DispatchInv => SlungIsNoted
  <2>1. SUFFICES ASSUME DispatchInv, ~forgotten, NEW b \in slung
                 PROVE  \E i \in Invocation : row[i].bead = b
    BY DEF SlungIsNoted
  <2>2. PICK i \in Invocation : row[i].bead # None
    BY <2>1 DEF DispatchInv, Noted
  <2>3. row[i].bead = keyBead /\ b = keyBead
    BY <2>1, <2>2 DEF DispatchInv, TypeOK, BeadsCreated, OneBead
  <2> QED BY <2>3
<1> QED BY <1>1, InvariantHolds, PTL
====
