--------------------------- MODULE MoleculeRelease ---------------------------
(***************************************************************************)
(* The life of a molecule in Gas City from its dispatch to its end: the    *)
(* keep-alive count of the supervisor (workers/gascity-supervisor), the    *)
(* fidelity driver of its release step (factory/fidelity: the script       *)
(* fidelity-release.sh, the validator and the convergence rule) and, on    *)
(* the other side of the call, the receiver's completion handler.          *)
(*                                                                         *)
(* The script runs under "set -e": a command that nothing guards and that  *)
(* fails ends it.  What Gas City does with the molecule before the release *)
(* step, and how it enters it again, is external; so is what becomes of a  *)
(* molecule whose container has stopped: nothing in the repository takes   *)
(* it up again.  The receiver's writes that no answer depends on are one   *)
(* step here; WebhookReceiver has them one by one.                         *)
(***************************************************************************)
EXTENDS Integers, Sequences, FiniteSets

CONSTANTS
  Bead,            \* molecules, by their root bead
  None,
  FirstAttempt,    \* the values of factory_attempt a dispatch may carry
  MaxDepth,        \* convergence.max_amendment_depth of the job
  AmendmentDepth,  \* configuredMaxAmendmentDepth of the receiver
  MaxIterations,   \* max_iterations, a variable of each formula
  MaxFailing,      \* bound: the checks of its own that the step fails
  MaxFaults        \* bound: calls lost, handlers and containers that die

GateClass == {"revision", "preflight", "abort", "escalation"}
Outcome   == {"approved", "revise"}
Decision  == {"approved", "terminal", "exhausted", "stalled"}

ASSUME ReleaseAssumption ==
  /\ IsFiniteSet(Bead)
  /\ FirstAttempt \subseteq Nat \ {0}
  /\ MaxDepth \in Nat \ {0}
  /\ AmendmentDepth \in Nat \ {0}
  /\ MaxIterations \in [Bead -> Nat]
  /\ MaxFailing \in [Bead -> Nat]
  /\ MaxFaults \in Nat
  /\ None \notin Int /\ None \notin Outcome \cup Decision

VARIABLES
  row,        \* dispatch_log: its outcome,
  sent,       \* and its factory_attempt
  event,      \* completion_events: the outcome recorded
  follow,     \* what the receiver did of it: a signal or an incident
  reported,   \* the beads whose molecule.failed the Factory has
  h,          \* the receiver's handlers of the two posts of each molecule
  at,         \* where each molecule is
  job,        \* fidelity-job.json: factory_attempt, prior_failing_count
  runs,       \* how often the molecule was entered again
  decided,    \* the driver's decision
  posts,      \* the posts it has made
  todo,       \* the commands it has still to run
  bead,       \* the status of the bead
  count,      \* keepalive_refcount of the supervisor
  awake,      \* whether its container runs
  counted,    \* history: starts that count stands for, since the container
  surplus,    \* last stopped; and stops that no such start stands for
  faults

factory == <<row, sent, event, follow, reported>>
driver  == <<at, job, runs, decided, posts, todo, bead>>
keeper  == <<count, awake, counted, surplus>>
vars    == <<factory, h, driver, keeper, faults>>

Ends      == {"ended", "aborted", "killed", "failed"}
Command   == {"close", "block", "report"}
Larger(m, n) == IF m > n THEN m ELSE n

\* Every part has its type, and in-molecule attempts never pass the depth.
TypeOK ==
  /\ row \in [Bead -> {"absent", "pending", "dispatched", "unfinished"}]
  /\ sent \in [Bead -> FirstAttempt \cup {0}]
  /\ event \in [Bead -> Outcome \cup {None}]
  /\ follow \in [Bead -> {"none", "signal", "incident"}]
  /\ reported \subseteq Bead
  /\ h \in [Bead \X {1, 2} -> {"none", "gate", "lookup", "save", "finish",
                            "refused", "ended"}]
  /\ at \in [Bead -> {"idle", "working", "posting", "waiting", "acting"} \cup Ends]
  /\ \A b \in Bead : job[b].attempt \in sent[b] .. Larger(sent[b], MaxDepth)
  /\ \A b \in Bead : job[b].prior \in {None} \cup 1 .. MaxFailing[b] + 1
  /\ \A b \in Bead : runs[b] \in 0 .. MaxIterations[b]
  /\ decided \in [Bead -> Decision \cup {None}]
  /\ posts \in [Bead -> 0 .. 2]
  /\ todo \in [Bead -> Seq(Command)]
  /\ bead \in [Bead -> {"open", "closed", "blocked"}]
  /\ count \in Nat /\ awake \in BOOLEAN
  /\ counted \subseteq Bead /\ surplus \in Nat
  /\ faults \in 0 .. MaxFaults

Init ==
  /\ row = [b \in Bead |-> "absent"]
  /\ sent = [b \in Bead |-> 0]
  /\ event = [b \in Bead |-> None]
  /\ follow = [b \in Bead |-> "none"]
  /\ reported = {}
  /\ h = [p \in Bead \X {1, 2} |-> "none"]
  /\ at = [b \in Bead |-> "idle"]
  /\ job = [b \in Bead |-> [attempt |-> 0, prior |-> None]]
  /\ runs = [b \in Bead |-> 0]
  /\ decided = [b \in Bead |-> None]
  /\ posts = [b \in Bead |-> 0]
  /\ todo = [b \in Bead |-> <<>>]
  /\ bead = [b \in Bead |-> "open"]
  /\ count = 0 /\ awake = FALSE
  /\ counted = {} /\ surplus = 0
  /\ faults = 0

SpendFault == faults < MaxFaults /\ faults' = faults + 1
AtWork(b)  == at[b] \notin {"idle"} \cup Ends
----------------------------------------------------------------------------
(* GasCitySupervisor: the keep-alive count *)

\* POST /v0/keepalive/start arrives.
StartKeepalive(b) ==
  /\ count' = count + 1
  /\ counted' = counted \cup {b}
  /\ UNCHANGED <<awake, surplus>>

\* Mutant: the flag this count replaced, which the first stop cleared.
StopKeepalive_Flag(b) ==
  /\ count' = 0
  /\ IF b \in counted THEN counted' = counted \ {b} /\ UNCHANGED surplus
                      ELSE surplus' = surplus + 1 /\ UNCHANGED counted
  /\ UNCHANGED awake

\* POST /v0/keepalive/stop arrives: the count stops at zero.
StopKeepalive(b) ==
  /\ count' = Larger(0, count - 1)
  /\ IF b \in counted THEN counted' = counted \ {b} /\ UNCHANGED surplus
                      ELSE surplus' = surplus + 1 /\ UNCHANGED counted
  /\ UNCHANGED awake

\* onStop forgets the count; what ran in the container ends.
ContainerStops ==
  /\ awake /\ awake' = FALSE
  /\ count' = 0 /\ counted' = {} /\ surplus' = 0
  /\ at' = [b \in Bead |-> IF AtWork(b) THEN "killed" ELSE at[b]]
  /\ UNCHANGED <<factory, h, job, runs, decided, posts, todo, bead>>

\* onActivityExpired, half an hour after the last call: no dispatch is under
\* way then.  A positive count renews the timeout instead.
ActivityExpires ==
  /\ \A b \in Bead : row[b] # "pending"
  /\ count = 0
  /\ ContainerStops
  /\ UNCHANGED faults

\* The platform or a deployment stops the container.
ContainerCrashes == SpendFault /\ ContainerStops
----------------------------------------------------------------------------
(* Dispatch: the end of dispatchToGasCity *)

\* CALL 3 is answered "slung"; it has started the container if need be.
Sling(b, a) ==
  /\ at[b] = "idle"
  /\ at' = [at EXCEPT ![b] = "working"]
  /\ row' = [row EXCEPT ![b] = "pending"]
  /\ sent' = [sent EXCEPT ![b] = a]
  /\ job' = [job EXCEPT ![b].attempt = a]
  /\ awake' = TRUE
  /\ UNCHANGED <<event, follow, reported, h, runs, decided, posts, todo, bead,
                 count, counted, surplus, faults>>

\* The row is finalised and a start is sent, once and unawaited.  The write
\* may fail, which is swallowed, the start may be lost, and the invocation
\* may end before both; a row that stays pending is "unfinished".
FinishDispatch(b) ==
  /\ row[b] = "pending"
  /\ \/ /\ row' = [row EXCEPT ![b] = "dispatched"]
        /\ \/ StartKeepalive(b) /\ UNCHANGED faults
           \/ SpendFault /\ UNCHANGED keeper
     \/ /\ row' = [row EXCEPT ![b] = "unfinished"]
        /\ SpendFault
        /\ StartKeepalive(b) \/ UNCHANGED keeper
  /\ UNCHANGED <<sent, event, follow, reported, h, driver>>
----------------------------------------------------------------------------
(* The validator and the convergence rule *)

\* validate: the gate classes of the failing checks, in the order of
\* evaluation; a rejected step before comes first, as a pre-flight.
Failing(rejected, own) == IF rejected THEN <<"preflight">> \o own ELSE own

\* Mutant: the attempt that reaches the limit is run again.
AtDepth_Above(j) == j.attempt > MaxDepth

AtDepth(j) == j.attempt >= MaxDepth

\* decideConvergence, where None means another run.
Converge(failing, j) ==
  IF failing = <<>> THEN "approved"
  ELSE IF Head(failing) \in {"abort", "escalation"} THEN "terminal"
  ELSE IF AtDepth(j) THEN "exhausted"
  ELSE IF j.prior # None /\ Len(failing) >= j.prior THEN "stalled"
  ELSE None

OutcomeOf(d) == IF d = "approved" THEN "approved" ELSE "revise"
----------------------------------------------------------------------------
(* fidelity-release.sh *)

Does(b, commands) ==
  /\ todo' = [todo EXCEPT ![b] = commands]
  /\ at' = [at EXCEPT ![b] = "acting"]

\* No runtime, no job or an unknown action: the event is all that is sent.
Unusable(b) ==
  /\ at[b] = "working"
  /\ Does(b, <<"report">>)
  /\ UNCHANGED <<factory, h, job, runs, decided, posts, bead, keeper, faults>>

\* No envelope, malformed lineage or output that is no JSON.
FailClosed(b) ==
  /\ at[b] = "working"
  /\ Does(b, <<"report", "block">>)
  /\ UNCHANGED <<factory, h, job, runs, decided, posts, bead, keeper, faults>>

\* The decision is to emit a release.
DecideRelease(b, failing) ==
  /\ at[b] = "working"
  /\ Converge(failing, job[b]) # None
  /\ decided' = [decided EXCEPT ![b] = Converge(failing, job[b])]
  /\ at' = [at EXCEPT ![b] = "posting"]
  /\ UNCHANGED <<factory, h, job, runs, posts, todo, bead, keeper, faults>>

\* exit 10: Gas City enters the molecule again, up to max_iterations.  The
\* next job carries next_attempt and the count of failing checks, or not.
Rerun(b, failing) ==
  /\ at[b] = "working"
  /\ Converge(failing, job[b]) = None
  /\ IF runs[b] < MaxIterations[b]
     THEN /\ runs' = [runs EXCEPT ![b] = @ + 1]
          /\ \E a \in {job[b].attempt, job[b].attempt + 1},
                n \in {None, Len(failing)} :
               job' = [job EXCEPT ![b] = [attempt |-> a, prior |-> n]]
          /\ UNCHANGED at
     ELSE at' = [at EXCEPT ![b] = "failed"] /\ UNCHANGED <<runs, job>>
  /\ UNCHANGED <<factory, h, decided, posts, todo, bead, keeper, faults>>

\* curl posts the release and waits for the answer, without a time limit.  The
\* second post comes five seconds after the first was refused: the dispatch
\* has ended by then.
Post(b) ==
  /\ at[b] = "posting"
  /\ posts[b] = 1 => row[b] # "pending"
  /\ posts' = [posts EXCEPT ![b] = @ + 1]
  /\ h' = [h EXCEPT ![<<b, posts[b] + 1>>] = "gate"]
  /\ at' = [at EXCEPT ![b] = "waiting"]
  /\ UNCHANGED <<factory, job, runs, decided, todo, bead, keeper, faults>>

\* curl cannot connect or is cut off: the script ends there and then.
CurlFails(b) ==
  /\ at[b] \in {"posting", "waiting"}
  /\ SpendFault
  /\ at' = [at EXCEPT ![b] = "aborted"]
  /\ UNCHANGED <<factory, h, job, runs, decided, posts, todo, bead, keeper>>

\* Mutants: there is no second post; the refusal is not reported.
Refused_AtOnce(b) == Does(b, <<"block", "report">>)
Refused_Unreported(b) ==
  IF posts[b] < 2
  THEN at' = [at EXCEPT ![b] = "posting"] /\ UNCHANGED todo
  ELSE Does(b, <<"block">>)

\* Neither 200 nor 202: one more post, or the bead is blocked.
Refused(b) ==
  IF posts[b] < 2
  THEN at' = [at EXCEPT ![b] = "posting"] /\ UNCHANGED todo
  ELSE Does(b, <<"block", "report">>)

\* Mutants: the status of an answer is not looked at; that of the second post
\* is not waited for.
Answer_Closes(b, k, ok) ==
  /\ IF at[b] = "waiting" /\ posts[b] = k
     THEN Does(b, <<"close">>)
     ELSE UNCHANGED <<at, todo>>
  /\ UNCHANGED <<job, runs, decided, posts, bead>>
Answer_FirstOnly(b, k, ok) ==
  /\ IF at[b] = "waiting" /\ posts[b] = k /\ k = 1
     THEN IF ok THEN Does(b, <<"close">>) ELSE Refused(b)
     ELSE UNCHANGED <<at, todo>>
  /\ UNCHANGED <<job, runs, decided, posts, bead>>

\* The answer to post k; nobody hears that of one given up.
Answer(b, k, ok) ==
  /\ IF at[b] = "waiting" /\ posts[b] = k
     THEN IF ok THEN Does(b, <<"close">>) ELSE Refused(b)
     ELSE UNCHANGED <<at, todo>>
  /\ UNCHANGED <<job, runs, decided, posts, bead>>

\* The edge answers 5xx in the handler's place, which goes on.
EdgeFails(b) ==
  /\ at[b] = "waiting"
  /\ SpendFault
  /\ Answer(b, posts[b], FALSE)
  /\ UNCHANGED <<factory, h, keeper>>

\* The next command.  The two that report a failure are guarded ("|| true"),
\* the closing of a released bead is not.
Act(b) ==
  /\ at[b] = "acting" /\ todo[b] # <<>>
  /\ todo' = [todo EXCEPT ![b] = Tail(@)]
  /\ CASE Head(todo[b]) = "close" ->
            /\ UNCHANGED reported
            /\ \/ bead' = [bead EXCEPT ![b] = "closed"] /\ UNCHANGED <<at, faults>>
               \/ SpendFault /\ at' = [at EXCEPT ![b] = "aborted"] /\ UNCHANGED bead
       [] Head(todo[b]) = "block" ->
            /\ UNCHANGED <<at, reported>>
            /\ \/ bead' = [bead EXCEPT ![b] = "blocked"] /\ UNCHANGED faults
               \/ SpendFault /\ UNCHANGED bead
       [] Head(todo[b]) = "report" ->
            /\ UNCHANGED <<at, bead>>
            /\ \/ reported' = reported \cup {b} /\ UNCHANGED faults
               \/ SpendFault /\ UNCHANGED reported
  /\ UNCHANGED <<row, sent, event, follow, h, job, runs, decided, posts, keeper>>

Exit(b) ==
  /\ at[b] = "acting" /\ todo[b] = <<>>
  /\ at' = [at EXCEPT ![b] = "ended"]
  /\ UNCHANGED <<factory, h, job, runs, decided, posts, todo, bead, keeper, faults>>
----------------------------------------------------------------------------
(* handleGasCityWebhook, for post k of molecule b *)

Handler(b, k, place) == h' = [h EXCEPT ![<<b, k>>] = place]

Gate(b, k) ==
  /\ h[<<b, k>>] = "gate"
  /\ IF event[b] # None
     THEN Handler(b, k, "ended") /\ Answer(b, k, TRUE)
     ELSE Handler(b, k, "lookup") /\ UNCHANGED driver
  /\ UNCHANGED <<factory, keeper, faults>>

\* orphan_bead, or lineage_mismatch: the payload has the job's attempt.
Matches(b) == row[b] = "dispatched" /\ job[b].attempt = sent[b]

Lookup(b, k) ==
  /\ h[<<b, k>>] = "lookup"
  /\ IF Matches(b)
     THEN Handler(b, k, "save") /\ UNCHANGED driver
     ELSE Handler(b, k, "refused") /\ Answer(b, k, FALSE)
  /\ UNCHANGED <<factory, keeper, faults>>

SaveCompletion(b, k) ==
  /\ h[<<b, k>>] = "save"
  /\ event' = [event EXCEPT ![b] = OutcomeOf(decided[b])]
  /\ Handler(b, k, "finish")
  /\ UNCHANGED <<row, sent, follow, reported, driver, keeper, faults>>

\* Signal or incident, a stop that may get lost, and 202.
FollowUp(b) ==
  IF event[b] = "approved" THEN "none"
  ELSE IF job[b].attempt > AmendmentDepth THEN "incident" ELSE "signal"

Finish(b, k) ==
  /\ h[<<b, k>>] = "finish"
  /\ follow' = [follow EXCEPT ![b] = FollowUp(b)]
  /\ Handler(b, k, "ended")
  /\ Answer(b, k, TRUE)
  /\ \/ StopKeepalive(b) /\ UNCHANGED faults
     \/ SpendFault /\ UNCHANGED keeper
  /\ UNCHANGED <<row, sent, event, reported>>

\* A call of the handler throws, or its isolate ends.
HandlerFails(b, k) ==
  /\ h[<<b, k>>] \in {"gate", "lookup", "save", "finish"}
  /\ SpendFault
  /\ Handler(b, k, "ended")
  /\ Answer(b, k, FALSE)
  /\ UNCHANGED <<factory, keeper>>
----------------------------------------------------------------------------
\* What the validator may find failing at the release step.
Evidence(b) ==
  {Failing(rejected, own) : rejected \in BOOLEAN,
     own \in UNION {[1 .. n -> GateClass] : n \in 0 .. MaxFailing[b]}}

Receive(b, k) ==
  Gate(b, k) \/ Lookup(b, k) \/ SaveCompletion(b, k) \/ Finish(b, k)

Release(b) == Post(b) \/ Act(b) \/ Exit(b)

Evaluate(b) ==
  \/ \E failing \in Evidence(b) : DecideRelease(b, failing) \/ Rerun(b, failing)
  \/ Unusable(b) \/ FailClosed(b)

Next ==
  \/ \E b \in Bead, a \in FirstAttempt : Sling(b, a)
  \/ \E b \in Bead : \/ FinishDispatch(b) \/ Evaluate(b) \/ Release(b)
                     \/ CurlFails(b) \/ EdgeFails(b)
  \/ \E b \in Bead, k \in {1, 2} : Receive(b, k) \/ HandlerFails(b, k)
  \/ ActivityExpires \/ ContainerCrashes

Spec == Init /\ [][Next]_vars

\* Dispatch and receiver are driven by the platform, Gas City brings a molecule
\* to its release step, and the script runs on.
FairSpec ==
  /\ Spec
  /\ \A b \in Bead : /\ WF_vars(FinishDispatch(b)) /\ WF_vars(Evaluate(b))
                    /\ WF_vars(Release(b))
  /\ \A b \in Bead, k \in {1, 2} : WF_vars(Receive(b, k))
----------------------------------------------------------------------------
(* Properties *)

\* Gas City closes a bead as done only if the Factory has recorded the very
\* outcome the driver decided, whichever post and whichever of two concurrent
\* handlers was answered (fidelity-release.sh, handleGasCityWebhook).
ClosedIsRecorded ==
  \A b \in Bead : bead[b] = "closed" =>
    decided[b] # None /\ event[b] = OutcomeOf(decided[b])

\* The two sides disagree on a bead only if both posts went wrong: one lost
\* answer, dead handler or dispatch row that was late is made up for by the
\* second post, which finds the row, or the first one's record (FV-22).
Refusals(b) == {k \in {1, 2} : h[<<b, k>>] = "refused"}

OneFailureIsReconciled ==
  \A b \in Bead : bead[b] = "blocked" /\ event[b] # None =>
    faults + Cardinality(Refusals(b)) >= 2

\* A script that runs to its end leaves the bead closed, blocked or at least
\* reported, unless two of its commands failed, or the only one.
EndIsKnown ==
  \A b \in Bead : at[b] = "ended" /\ bead[b] = "open" /\ b \notin reported =>
    faults >= IF decided[b] = None THEN 1 ELSE 2

\* The container expires under a molecule at work only if that molecule's
\* start never counted or some stop was one too many: each molecule that
\* ends takes its own start off the count and no other (onActivityExpired,
\* /v0/keepalive/start and /stop).
AwakeWhileAtWork ==
  [][awake /\ ~awake' /\ faults' = faults =>
       \A b \in counted : AtWork(b) => surplus > 0]_vars

\* Every molecule that is entered ends: the validator decides, within the
\* iterations, and neither refusal nor a lost answer keeps the script
\* waiting (decideConvergence, fidelity-release.sh).
EveryMoleculeEnds == \A b \in Bead : (at[b] = "working") ~> (at[b] \in Ends)

\* IS-GC-FIDELITY-VALIDATION FV-18a of a molecule that has not converged at
\* the depth limit: the Factory receives it and opens an incident.
ExhaustedIsEscalated ==
  \A b \in Bead : decided[b] = "exhausted" /\ at[b] = "ended" /\ faults = 0 =>
    follow[b] = "incident"
=============================================================================
