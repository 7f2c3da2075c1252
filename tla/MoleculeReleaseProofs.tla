------------------------- MODULE MoleculeReleaseProofs -------------------------
(***************************************************************************)
(* The safety properties of MoleculeRelease, for any finite set of         *)
(* molecules, any limits and any number of faults.                         *)
(*                                                                         *)
(* Three of them rest on an account of each molecule (Account): where its  *)
(* script is tells which commands it may still run, what the receiver's    *)
(* two handlers may have done and how many calls have gone wrong.  What    *)
(* other molecules do leaves it as it is, but for the faults, which only   *)
(* grow, and the container, which takes its script down.  AwakeWhileAtWork *)
(* rests on the balance of the keep-alive count (Balance).                 *)
(***************************************************************************)
EXTENDS MoleculeRelease, FiniteSetTheorems, TLAPS

Posts  == {1, 2}
Places == {"none", "gate", "lookup", "save", "finish", "refused", "ended"}
Points == {"idle", "working", "posting", "waiting", "acting"} \cup Ends
Todos  == {<<>>, <<"close">>, <<"block", "report">>, <<"report">>,
           <<"report", "block">>, <<"block">>}

Typed ==
  /\ event \in [Bead -> Outcome \cup {None}]
  /\ reported \subseteq Bead
  /\ h \in [Bead \X Posts -> Places]
  /\ at \in [Bead -> Points]
  /\ decided \in [Bead -> Decision \cup {None}]
  /\ posts \in [Bead -> 0 .. 2]
  /\ todo \in [Bead -> Todos]
  /\ bead \in [Bead -> {"open", "closed", "blocked"}]
  /\ faults \in Nat

\* Before it acts a script has changed nothing; before the driver has decided
\* there is nothing to send.
Before(b) ==
  /\ at[b] \in {"idle", "working", "posting", "waiting"} =>
       bead[b] = "open" /\ todo[b] = <<>>
  /\ at[b] \in {"idle", "working"} => decided[b] = None
  /\ at[b] \in {"posting", "waiting"} => decided[b] # None
  /\ decided[b] = None =>
       /\ event[b] = None /\ posts[b] = 0
       /\ todo[b] \in {<<>>, <<"report">>, <<"report", "block">>, <<"block">>}
  /\ decided[b] # None =>
       todo[b] \in {<<>>, <<"close">>, <<"block", "report">>, <<"report">>}

\* What the handlers of the posts have done.
Handled(b) ==
  /\ event[b] # None => event[b] = OutcomeOf(decided[b])
  /\ \A k \in Posts : k > posts[b] => h[<<b, k>>] = "none"
  /\ \A k \in Posts : h[<<b, k>>] = "finish" => event[b] # None
  /\ todo[b] = <<"close">> \/ bead[b] = "closed" =>
       decided[b] # None /\ event[b] # None

\* The calls that went wrong so far.
Wrong(b) == faults + Cardinality(Refusals(b))

\* Each post but the one waited for has gone wrong.
Failed(b) ==
  /\ at[b] = "posting" => posts[b] \in {0, 1} /\ posts[b] <= Wrong(b)
  /\ at[b] = "waiting" => posts[b] \in {1, 2} /\ posts[b] - 1 <= Wrong(b)
  /\ decided[b] # None /\ (todo[b] = <<"block", "report">> \/ bead[b] = "blocked") =>
       Wrong(b) >= 2

\* What the script has left out failed.
LeftOut(b) ==
  /\ at[b] = "ended" => todo[b] = <<>>
  /\ at[b] \in {"acting", "ended"} /\ bead[b] = "open" /\ b \notin reported =>
       /\ todo[b] = <<>> => faults >= IF decided[b] = None THEN 1 ELSE 2
       /\ todo[b] = <<"report">> => faults >= IF decided[b] = None THEN 0 ELSE 1

Account(b) == Before(b) /\ Handled(b) /\ Failed(b) /\ LeftOut(b)

AccountInv == Typed /\ \A b \in Bead : Account(b)

USE DEF factory, driver, keeper, Posts
----------------------------------------------------------------------------
LEMMA WrongType == ASSUME Typed, NEW b \in Bead PROVE Wrong(b) \in Nat /\ Cardinality(Refusals(b)) \in Nat
<1>1. IsFiniteSet({1, 2}) /\ Refusals(b) \subseteq {1, 2}
  <2>1. IsFiniteSet({1}) /\ IsFiniteSet({1} \cup {2})
    BY FS_Singleton, FS_AddElement
  <2>2. {1} \cup {2} = {1, 2}
    OBVIOUS
  <2> QED BY <2>1, <2>2 DEF Refusals
<1>2. Cardinality(Refusals(b)) \in Nat
  BY <1>1, FS_Subset, FS_CardinalityType
<1> QED BY <1>2 DEF Wrong, Typed

\* Refusals that are added are counted.
LEMMA WrongGrows ==
  ASSUME Typed, Typed', NEW b \in Bead, faults' >= faults, Refusals(b) \subseteq Refusals(b)'
  PROVE  /\ Wrong(b)' >= Wrong(b)
         /\ faults' = faults + 1 => Wrong(b)' >= Wrong(b) + 1
         /\ Refusals(b) # Refusals(b)' => Wrong(b)' >= Wrong(b) + 1
<1>1. IsFiniteSet(Refusals(b)')
  <2>1. IsFiniteSet({1}) /\ IsFiniteSet({1} \cup {2})
    BY FS_Singleton, FS_AddElement
  <2>2. Refusals(b)' \subseteq {1} \cup {2}
    BY DEF Refusals
  <2> QED BY <2>1, <2>2, FS_Subset
<1>2. /\ Cardinality(Refusals(b)) \in Nat /\ Cardinality(Refusals(b)') \in Nat
      /\ faults \in Nat /\ faults' \in Nat
  <2>1. Cardinality(Refusals(b)) \in Nat
    BY WrongType
  <2>2. Cardinality(Refusals(b)') \in Nat
    BY <1>1, FS_CardinalityType
  <2> QED BY <2>1, <2>2 DEF Typed
<1>3. /\ Cardinality(Refusals(b)) <= Cardinality(Refusals(b)')
      /\ Refusals(b) # Refusals(b)' => Cardinality(Refusals(b)) # Cardinality(Refusals(b)')
  BY <1>1, FS_Subset
<1> QED BY <1>2, <1>3 DEF Wrong

\* What leaves a molecule alone, but for its container, leaves its account.
LEMMA AccountKept ==
  ASSUME Typed, Typed', NEW b \in Bead, Account(b), faults' >= faults,
         event'[b] = event[b], decided'[b] = decided[b], posts'[b] = posts[b],
         todo'[b] = todo[b], bead'[b] = bead[b],
         \A k \in Posts : h'[<<b, k>>] = h[<<b, k>>],
         at'[b] \in {at[b], "killed"}, reported \subseteq reported'
  PROVE  Account(b)'
<1>1. Refusals(b)' = Refusals(b)
  BY DEF Refusals
<1>2. Wrong(b)' >= Wrong(b) /\ Wrong(b) \in Nat /\ Wrong(b)' \in Nat
  <2>1. Wrong(b)' = faults' + Cardinality(Refusals(b))
    BY <1>1 DEF Wrong
  <2>2. Wrong(b) \in Nat /\ Cardinality(Refusals(b)) \in Nat
    BY WrongType
  <2> QED BY <2>1, <2>2 DEF Wrong, Typed
<1>3. Before(b)'
  BY DEF Account, Before
<1>4. Handled(b)'
  BY DEF Account, Handled
<1>5. Failed(b)'
  BY <1>2 DEF Account, Failed, Typed
<1>6. LeftOut(b)'
  BY DEF Account, LeftOut, Typed
<1> QED BY <1>3, <1>4, <1>5, <1>6 DEF Account
----------------------------------------------------------------------------
\* What runs next, and what is left of the script then.
LEMMA Commands ==
  /\ Head(<<"close">>) = "close" /\ Tail(<<"close">>) = <<>>
  /\ Head(<<"report">>) = "report" /\ Tail(<<"report">>) = <<>>
  /\ Head(<<"block">>) = "block" /\ Tail(<<"block">>) = <<>>
  /\ Head(<<"block", "report">>) = "block" /\ Tail(<<"block", "report">>) = <<"report">>
  /\ Head(<<"report", "block">>) = "report" /\ Tail(<<"report", "block">>) = <<"block">>
OBVIOUS

LEMMA Different ==
  /\ <<>> \notin {<<"close">>, <<"report">>, <<"block">>}
  /\ <<"close">> \notin {<<"report">>, <<"block">>}
  /\ <<"block", "report">> \notin {<<>>, <<"close">>, <<"report">>, <<"block">>}
  /\ <<"report", "block">> \notin {<<>>, <<"close">>, <<"report">>, <<"block">>}
<1>1. /\ Len(<<"block", "report">>) = 2 /\ Len(<<"report", "block">>) = 2
      /\ Len(<<"close">>) = 1 /\ Len(<<"report">>) = 1 /\ Len(<<"block">>) = 1 /\ Len(<<>>) = 0
  OBVIOUS
<1>2. <<"close">> \notin {<<"report">>, <<"block">>}
  OBVIOUS
<1> QED BY <1>1, <1>2, Zenon

LEMMA TodosTail == \A t \in Todos : t # <<>> => Head(t) \in Command /\ Tail(t) \in Todos
BY Commands DEF Todos, Command

LEMMA AnswerTypes ==
  ASSUME Typed, NEW b \in Bead, NEW k \in Posts, NEW ok \in BOOLEAN, Answer(b, k, ok)
  PROVE  /\ at' \in [Bead -> Points] /\ todo' \in [Bead -> Todos]
         /\ UNCHANGED <<job, runs, decided, posts, bead>>
BY DEF Answer, Refused, Does, Typed, Todos, Points

LEMMA TypedStep == AccountInv /\ [Next]_vars => Typed'
<1> SUFFICES ASSUME AccountInv, [Next]_vars PROVE Typed'
  OBVIOUS
<1>0. Typed
  BY DEF AccountInv
<1> USE <1>0
<1>1. ASSUME NEW b \in Bead, NEW a \in FirstAttempt, Sling(b, a) PROVE Typed'
  BY <1>1 DEF Sling, Typed, Points
<1>2. ASSUME NEW b \in Bead, FinishDispatch(b) PROVE Typed'
  BY <1>2 DEF FinishDispatch, SpendFault, Typed
<1>3. ASSUME NEW b \in Bead, Unusable(b) \/ FailClosed(b) PROVE Typed'
  BY <1>3 DEF Unusable, FailClosed, Does, Typed, Points, Todos
<1>4. ASSUME NEW b \in Bead, NEW failing \in Evidence(b), DecideRelease(b, failing)
      PROVE  Typed'
  <2>1. Converge(failing, job[b]) \in Decision \cup {None}
    BY DEF Converge, Decision
  <2> QED BY <1>4, <2>1 DEF DecideRelease, Typed, Points
<1>5. ASSUME NEW b \in Bead, NEW failing \in Evidence(b), Rerun(b, failing)
      PROVE  Typed'
  BY <1>5 DEF Rerun, Typed, Points, Ends
<1>6. ASSUME NEW b \in Bead, Post(b) PROVE Typed'
  <2>1. h' = [h EXCEPT ![<<b, posts[b] + 1>>] = "gate"] /\ "gate" \in Places
    BY <1>6 DEF Post, Places
  <2>2. h' \in [Bead \X Posts -> Places]
    BY <2>1 DEF Typed
  <2>3. posts[b] \in {0, 1}
    BY <1>6 DEF Post, AccountInv, Account, Failed
  <2> QED BY <1>6, <2>2, <2>3 DEF Post, Typed, Points
<1>7. ASSUME NEW b \in Bead, CurlFails(b) PROVE Typed'
  BY <1>7 DEF CurlFails, SpendFault, Typed, Points, Ends
<1>8. ASSUME NEW b \in Bead, EdgeFails(b) PROVE Typed'
  <2>1. at[b] = "waiting" /\ SpendFault /\ Answer(b, posts[b], FALSE) /\ UNCHANGED <<factory, h>>
    BY <1>8 DEF EdgeFails
  <2>2. at' \in [Bead -> Points] /\ todo' \in [Bead -> Todos]
        /\ UNCHANGED <<job, runs, decided, posts, bead>>
    BY <2>1 DEF Answer, Refused, Does, Typed, Todos, Points
  <2> QED BY <2>1, <2>2 DEF SpendFault, Typed
<1>9. ASSUME NEW b \in Bead, Act(b) PROVE Typed'
  <2>1. todo[b] # <<>> /\ todo' = [todo EXCEPT ![b] = Tail(todo[b])] /\ todo[b] \in Todos
    BY <1>9 DEF Act, Typed
  <2>2. todo' \in [Bead -> Todos]
    BY <2>1, TodosTail DEF Typed
  <2>3. Head(todo[b]) \in Command
    BY <2>1, TodosTail
  <2>4. /\ \/ at' = at \/ at' = [at EXCEPT ![b] = "aborted"]
        /\ \/ bead' = bead \/ bead' = [bead EXCEPT ![b] = "closed"]
           \/ bead' = [bead EXCEPT ![b] = "blocked"]
        /\ reported' = reported \/ reported' = reported \cup {b}
        /\ faults' = faults \/ faults' = faults + 1
        /\ UNCHANGED <<event, h, decided, posts>>
    BY <1>9, <2>3 DEF Act, SpendFault, Command
  <2>5. at' \in [Bead -> Points]
    BY <2>4 DEF Typed, Points, Ends
  <2>6. bead' \in [Bead -> {"open", "closed", "blocked"}]
    BY <2>4 DEF Typed
  <2> QED BY <2>2, <2>4, <2>5, <2>6 DEF Typed
<1>10. ASSUME NEW b \in Bead, Exit(b) PROVE Typed'
  BY <1>10 DEF Exit, Typed, Points, Ends
<1>11. ASSUME NEW b \in Bead, NEW k \in Posts, Receive(b, k) \/ HandlerFails(b, k)
       PROVE  Typed'
  <2>1. ASSUME NEW p \in Places, Handler(b, k, p) PROVE h' \in [Bead \X Posts -> Places]
    BY <2>1 DEF Handler, Typed
  <2>2. CASE Gate(b, k)
    BY <2>1, <2>2, AnswerTypes DEF Gate, Typed, Places
  <2>3. CASE Lookup(b, k)
    BY <2>1, <2>3, AnswerTypes DEF Lookup, Typed, Places
  <2>4. CASE SaveCompletion(b, k)
    <3>1. OutcomeOf(decided[b]) \in Outcome
      BY DEF OutcomeOf, Outcome
    <3> QED BY <2>1, <2>4, <3>1 DEF SaveCompletion, Typed, Places
  <2>5. CASE Finish(b, k)
    <3>1. Handler(b, k, "ended") /\ Answer(b, k, TRUE) /\ UNCHANGED <<event, reported>>
      BY <2>5 DEF Finish
    <3>2. faults' \in Nat
      BY <2>5 DEF Finish, SpendFault, Typed
    <3> QED BY <2>1, <3>1, <3>2, AnswerTypes DEF Typed, Places
  <2>6. CASE HandlerFails(b, k)
    <3>1. Handler(b, k, "ended") /\ Answer(b, k, FALSE) /\ UNCHANGED <<event, reported>>
      BY <2>6 DEF HandlerFails
    <3>2. faults' \in Nat
      BY <2>6 DEF HandlerFails, SpendFault, Typed
    <3> QED BY <2>1, <3>1, <3>2, AnswerTypes DEF Typed, Places
  <2> QED BY <1>11, <2>2, <2>3, <2>4, <2>5, <2>6 DEF Receive
<1>12. CASE ActivityExpires \/ ContainerCrashes
  BY <1>12 DEF ActivityExpires, ContainerCrashes, ContainerStops, SpendFault, Typed,
     Points, Ends
<1>13. CASE UNCHANGED vars
  BY <1>13 DEF vars, Typed
<1> QED
  BY <1>1, <1>2, <1>3, <1>4, <1>5, <1>6, <1>7, <1>8, <1>9, <1>10, <1>11, <1>12, <1>13
  DEF Next, Evaluate, Release
----------------------------------------------------------------------------
(* Every step keeps the accounts *)

\* Of all molecules the step touches b's only.
Only(b) ==
  /\ faults' >= faults /\ reported \subseteq reported'
  /\ \A d \in Bead \ {b} :
       /\ event'[d] = event[d] /\ decided'[d] = decided[d] /\ posts'[d] = posts[d]
       /\ todo'[d] = todo[d] /\ bead'[d] = bead[d] /\ at'[d] = at[d]
       /\ \A k \in Posts : h'[<<d, k>>] = h[<<d, k>>]

LEMMA OnlyOne ==
  ASSUME AccountInv, Typed', NEW b \in Bead, Only(b), Account(b)'
  PROVE  AccountInv'
<1>1. ASSUME NEW d \in Bead \ {b} PROVE Account(d)'
  BY <1>1, AccountKept DEF AccountInv, Only
<1> QED BY <1>1 DEF AccountInv

LEMMA NothingOf ==
  ASSUME AccountInv, Typed', faults' >= faults,
         UNCHANGED <<event, reported, h, at, decided, posts, todo, bead>>
  PROVE  AccountInv'
<1>1. ASSUME NEW d \in Bead PROVE Account(d)'
  BY <1>1, AccountKept DEF AccountInv
<1> QED BY <1>1 DEF AccountInv

\* The handler of a post moves on.
Moves(b, k, place) ==
  /\ h[<<b, k>>] \notin {"none", "refused"}
  /\ h'[<<b, k>>] = place
  /\ \A j \in Posts \ {k} : h'[<<b, j>>] = h[<<b, j>>]

LEMMA MovesGrow ==
  ASSUME Typed, Typed', NEW b \in Bead, NEW k \in Posts, NEW place, Moves(b, k, place),
         faults' >= faults
  PROVE  /\ Wrong(b)' >= Wrong(b) /\ Wrong(b) \in Nat /\ Wrong(b)' \in Nat
         /\ place = "refused" \/ faults' = faults + 1 => Wrong(b)' >= Wrong(b) + 1
<1>1. Refusals(b) \subseteq Refusals(b)'
  BY DEF Moves, Refusals
<1>2. place = "refused" => k \in Refusals(b)' /\ k \notin Refusals(b)
  BY DEF Moves, Refusals
<1>3. Wrong(b) \in Nat
  BY WrongType
<1>4. Wrong(b)' \in Nat
  <2>1. Cardinality(Refusals(b)') \in Nat
    <3>1. IsFiniteSet({1}) /\ IsFiniteSet({1} \cup {2}) /\ Refusals(b)' \subseteq {1} \cup {2}
      BY FS_Singleton, FS_AddElement DEF Refusals
    <3> QED BY <3>1, FS_Subset, FS_CardinalityType
  <2> QED BY <2>1 DEF Wrong, Typed
<1> QED BY <1>1, <1>2, <1>3, <1>4, WrongGrows

\* What an answer finds: the handler has moved on, if it answers, and nothing
\* that went wrong is forgotten.
Answering(b) ==
  /\ UNCHANGED <<event, reported, decided, posts, bead>>
  /\ faults' \in Nat /\ faults' >= faults
  /\ \A j \in Posts :
       \/ h'[<<b, j>>] = h[<<b, j>>]
       \/ h[<<b, j>>] # "none" /\ h'[<<b, j>>] \in {"ended", "refused"}
  /\ Wrong(b) \in Nat /\ Wrong(b)' \in Nat /\ Wrong(b)' >= Wrong(b)

LEMMA UnheardKeeps ==
  ASSUME Typed, NEW b \in Bead, Account(b), Answering(b),
         UNCHANGED <<at, todo>>
  PROVE  Account(b)'
<1> USE DEF Answering
<1>1. Before(b)'
  BY DEF Account, Before
<1>2. Handled(b)'
  BY DEF Account, Handled, Typed
<1>3. Failed(b)'
  BY DEF Account, Failed, Typed
<1>4. LeftOut(b)'
  BY DEF Account, LeftOut, Typed
<1> QED BY <1>1, <1>2, <1>3, <1>4 DEF Account

\* A good answer tells that the outcome is recorded.
LEMMA GoodAnswerKeeps ==
  ASSUME Typed, NEW b \in Bead, Account(b), Answering(b), event[b] # None,
         \/ at[b] = "waiting" /\ Does(b, <<"close">>)
         \/ UNCHANGED <<at, todo>>
  PROVE  Account(b)'
<1>1. UNCHANGED <<decided, posts, bead>>
  BY DEF Answering
<1>2. CASE at[b] = "waiting" /\ Does(b, <<"close">>)
  <2>1. at'[b] = "acting" /\ todo'[b] = <<"close">> /\ bead'[b] = "open" /\ decided'[b] # None
    BY <1>1, <1>2 DEF Does, Typed, Account, Before
  <2>2. Before(b)'
    BY <1>1, <2>1 DEF Account, Before, Answering
  <2>3. Handled(b)'
    BY <1>1, <1>2, <2>1 DEF Account, Handled, Typed, Answering
  <2>4. Failed(b)' /\ LeftOut(b)'
    BY <1>1, <2>1, Different DEF Failed, LeftOut
  <2> QED BY <2>2, <2>3, <2>4 DEF Account
<1> QED BY <1>1, <1>2, UnheardKeeps

\* A bad one, that something more went wrong.
LEMMA BadAnswerKeeps ==
  ASSUME Typed, NEW b \in Bead, Account(b), Answering(b), Wrong(b)' >= Wrong(b) + 1,
         \/ at[b] = "waiting" /\ Refused(b)
         \/ UNCHANGED <<at, todo>>
  PROVE  Account(b)'
<1>1. UNCHANGED <<decided, posts, bead>>
  BY DEF Answering
<1>2. CASE at[b] = "waiting" /\ Refused(b)
  <2>1. bead'[b] = "open" /\ decided'[b] # None /\ todo[b] = <<>> /\ posts[b] \in {1, 2}
        /\ Wrong(b)' >= posts[b]
    BY <1>1, <1>2 DEF Account, Before, Failed, Answering
  <2>2. Handled(b)'
    <3>1. todo'[b] = <<>> \/ todo'[b] = <<"block", "report">>
      BY <1>2, <2>1 DEF Refused, Does, Typed
    <3>2. todo'[b] # <<"close">>
      BY <3>1, Different
    <3> QED BY <1>1, <2>1, <3>2 DEF Account, Handled, Typed, Answering
  <2>3. CASE posts[b] < 2
    <3>1. at'[b] = "posting" /\ todo'[b] = <<>>
      BY <1>2, <2>1, <2>3 DEF Refused, Typed
    <3>2. Before(b)' /\ Failed(b)' /\ LeftOut(b)'
      BY <1>1, <2>1, <2>3, <3>1 DEF Account, Before, Failed, LeftOut, Answering
    <3> QED BY <2>2, <3>2 DEF Account
  <2>4. CASE ~(posts[b] < 2)
    <3>1. at'[b] = "acting" /\ todo'[b] = <<"block", "report">>
      BY <1>2, <2>1, <2>4 DEF Refused, Does, Typed
    <3>2. Before(b)' /\ Failed(b)' /\ LeftOut(b)'
      BY <1>1, <2>1, <2>4, <3>1, Different DEF Account, Before, Failed, LeftOut, Answering
    <3> QED BY <2>2, <3>2 DEF Account
  <2> QED BY <2>3, <2>4
<1> QED BY <1>1, <1>2, UnheardKeeps

\* What the script does: from the dispatch to its exit.
LEMMA ScriptKeeps ==
  ASSUME AccountInv, Typed', NEW b \in Bead,
         \/ \E a \in FirstAttempt : Sling(b, a)
         \/ Evaluate(b) \/ Post(b) \/ Exit(b) \/ CurlFails(b)
  PROVE  AccountInv'
<1> USE DEF AccountInv
<1>0. Account(b) /\ Wrong(b) \in Nat
  BY WrongType
<1>1. ASSUME NEW a \in FirstAttempt, Sling(b, a) PROVE AccountInv'
  <2>1. at[b] = "idle" /\ at' = [at EXCEPT ![b] = "working"]
        /\ UNCHANGED <<event, reported, h, decided, posts, todo, bead, faults>>
    BY <1>1 DEF Sling
  <2>2. Only(b)
    BY <2>1 DEF Only, Typed
  <2>3. Before(b)' /\ Handled(b)' /\ Failed(b)' /\ LeftOut(b)'
    BY <1>0, <2>1 DEF Account, Before, Handled, Failed, LeftOut, Wrong, Refusals, Typed
  <2> QED BY <2>2, <2>3, OnlyOne DEF Account
<1>2. ASSUME Unusable(b) \/ FailClosed(b) PROVE AccountInv'
  <2>1. at[b] = "working" /\ at' = [at EXCEPT ![b] = "acting"]
        /\ (\/ todo' = [todo EXCEPT ![b] = <<"report">>]
            \/ todo' = [todo EXCEPT ![b] = <<"report", "block">>])
        /\ UNCHANGED <<event, reported, h, decided, posts, bead, faults>>
    BY <1>2 DEF Unusable, FailClosed, Does
  <2>2. Only(b)
    BY <2>1 DEF Only, Typed
  <2>3. at'[b] = "acting" /\ (todo'[b] = <<"report">> \/ todo'[b] = <<"report", "block">>)
        /\ decided[b] = None /\ bead[b] = "open"
    BY <1>0, <2>1 DEF Account, Before, Typed
  <2>4. Before(b)'
    BY <1>0, <2>1, <2>3 DEF Account, Before
  <2>5. Handled(b)'
    BY <1>0, <2>1, <2>3 DEF Account, Handled
  <2>6. Failed(b)'
    BY <2>1, <2>3 DEF Failed
  <2>7. LeftOut(b)'
    <3>1. todo'[b] # <<>>
      BY <2>3, Different
    <3>2. faults' >= 0 /\ decided'[b] = None
      BY <2>1, <2>3 DEF Typed
    <3> QED BY <2>3, <3>1, <3>2 DEF LeftOut
  <2> QED BY <2>2, <2>4, <2>5, <2>6, <2>7, OnlyOne DEF Account
<1>3. ASSUME NEW failing \in Evidence(b), DecideRelease(b, failing) PROVE AccountInv'
  <2>1. at[b] = "working" /\ at' = [at EXCEPT ![b] = "posting"]
        /\ decided' = [decided EXCEPT ![b] = Converge(failing, job[b])]
        /\ Converge(failing, job[b]) # None
        /\ UNCHANGED <<event, reported, h, posts, todo, bead, faults>>
    BY <1>3 DEF DecideRelease
  <2>2. Only(b)
    BY <2>1 DEF Only, Typed
  <2>3. at'[b] = "posting" /\ decided'[b] # None /\ decided[b] = None
        /\ event[b] = None /\ posts[b] = 0 /\ bead[b] = "open" /\ todo[b] = <<>>
    BY <1>0, <2>1 DEF Account, Before, Typed
  <2>4. Before(b)' /\ Handled(b)' /\ LeftOut(b)'
    BY <1>0, <2>1, <2>3 DEF Account, Before, Handled, LeftOut
  <2>5. Failed(b)'
    <3>1. Wrong(b)' = Wrong(b)
      BY <2>1 DEF Wrong, Refusals
    <3> QED BY <1>0, <2>1, <2>3, <3>1 DEF Failed
  <2> QED BY <2>2, <2>4, <2>5, OnlyOne DEF Account
<1>4. ASSUME NEW failing \in Evidence(b), Rerun(b, failing) PROVE AccountInv'
  <2>1. at[b] = "working" /\ (at' = at \/ at' = [at EXCEPT ![b] = "failed"])
        /\ UNCHANGED <<event, reported, h, decided, posts, todo, bead, faults>>
    BY <1>4 DEF Rerun
  <2>2. Only(b)
    BY <2>1 DEF Only, Typed
  <2>3. Before(b)' /\ Handled(b)' /\ Failed(b)' /\ LeftOut(b)'
    BY <1>0, <2>1 DEF Account, Before, Handled, Failed, LeftOut, Wrong, Refusals, Typed
  <2> QED BY <2>2, <2>3, OnlyOne DEF Account
<1>5. ASSUME Post(b) PROVE AccountInv'
  <2>1. at[b] = "posting" /\ at' = [at EXCEPT ![b] = "waiting"]
        /\ posts' = [posts EXCEPT ![b] = posts[b] + 1]
        /\ h' = [h EXCEPT ![<<b, posts[b] + 1>>] = "gate"]
        /\ UNCHANGED <<event, reported, decided, todo, bead, faults>>
    BY <1>5 DEF Post
  <2>2. posts[b] \in {0, 1} /\ posts[b] <= Wrong(b) /\ decided[b] # None
        /\ h[<<b, posts[b] + 1>>] = "none"
    BY <1>0, <2>1 DEF Account, Before, Handled, Failed
  <2>3. Only(b)
    BY <2>1 DEF Only, Typed
  <2>4. at'[b] = "waiting" /\ posts'[b] = posts[b] + 1
        /\ h'[<<b, posts[b] + 1>>] = "gate"
        /\ \A k \in Posts : k # posts[b] + 1 => h'[<<b, k>>] = h[<<b, k>>]
    BY <2>1, <2>2 DEF Typed
  <2>5. Refusals(b)' = Refusals(b)
    BY <2>2, <2>4 DEF Refusals
  <2>6. Before(b)' /\ LeftOut(b)'
    BY <1>0, <2>1, <2>2, <2>4 DEF Account, Before, LeftOut
  <2>7. Handled(b)'
    BY <1>0, <2>1, <2>2, <2>4 DEF Account, Handled, Typed
  <2>8. Failed(b)'
    <3>1. Wrong(b)' = Wrong(b)
      BY <2>1, <2>5 DEF Wrong
    <3> QED BY <1>0, <2>1, <2>2, <2>4, <3>1 DEF Account, Failed
  <2> QED BY <2>3, <2>6, <2>7, <2>8, OnlyOne DEF Account
<1>6. ASSUME Exit(b) PROVE AccountInv'
  <2>1. at[b] = "acting" /\ todo[b] = <<>> /\ at' = [at EXCEPT ![b] = "ended"]
        /\ UNCHANGED <<event, reported, h, decided, posts, todo, bead, faults>>
    BY <1>6 DEF Exit
  <2>2. Only(b)
    BY <2>1 DEF Only, Typed
  <2>3. Before(b)' /\ Handled(b)' /\ Failed(b)' /\ LeftOut(b)'
    BY <1>0, <2>1 DEF Account, Before, Handled, Failed, LeftOut, Wrong, Refusals, Typed
  <2> QED BY <2>2, <2>3, OnlyOne DEF Account
<1>7. ASSUME CurlFails(b) PROVE AccountInv'
  <2>1. at[b] \in {"posting", "waiting"} /\ at' = [at EXCEPT ![b] = "aborted"]
        /\ faults' = faults + 1
        /\ UNCHANGED <<event, reported, h, decided, posts, todo, bead>>
    BY <1>7 DEF CurlFails, SpendFault
  <2>2. Only(b)
    BY <2>1 DEF Only, Typed
  <2>3. Before(b)' /\ Handled(b)' /\ Failed(b)' /\ LeftOut(b)'
    BY <1>0, <2>1 DEF Account, Before, Handled, Failed, LeftOut, Typed
  <2> QED BY <2>2, <2>3, OnlyOne DEF Account
<1> QED
  BY <1>1, <1>2, <1>3, <1>4, <1>5, <1>6, <1>7 DEF Evaluate

\* A command of the script.
LEMMA ActKeeps ==
  ASSUME AccountInv, Typed', NEW b \in Bead, Act(b)
  PROVE  AccountInv'
<1>1. Account(b) /\ Typed /\ Wrong(b) \in Nat
  BY WrongType DEF AccountInv
<1>2. /\ at[b] = "acting" /\ todo[b] # <<>>
      /\ todo' = [todo EXCEPT ![b] = Tail(todo[b])]
      /\ UNCHANGED <<event, h, decided, posts>>
  BY DEF Act
<1>3. Refusals(b)' = Refusals(b)
  BY <1>2 DEF Refusals
<1>4. ASSUME Head(todo[b]) = "close"
      PROVE  /\ reported' = reported
             /\ \/ bead' = [bead EXCEPT ![b] = "closed"] /\ at' = at /\ faults' = faults
                \/ faults' = faults + 1 /\ at' = [at EXCEPT ![b] = "aborted"] /\ bead' = bead
  BY <1>4 DEF Act, SpendFault
<1>5. ASSUME Head(todo[b]) = "block"
      PROVE  /\ reported' = reported /\ at' = at
             /\ \/ bead' = [bead EXCEPT ![b] = "blocked"] /\ faults' = faults
                \/ faults' = faults + 1 /\ bead' = bead
  BY <1>5 DEF Act, SpendFault
<1>6. ASSUME Head(todo[b]) = "report"
      PROVE  /\ at' = at /\ bead' = bead
             /\ \/ reported' = reported \cup {b} /\ faults' = faults
                \/ faults' = faults + 1 /\ reported' = reported
  BY <1>6 DEF Act, SpendFault
<1>7. todo'[b] = Tail(todo[b]) /\ todo[b] \in Todos
  BY <1>1, <1>2 DEF Typed
<1>8. faults' >= faults
  BY <1>1, <1>4, <1>5, <1>6, <1>7, Commands, TodosTail, <1>2 DEF Typed, Command
<1>9. Only(b)
  <2>1. Head(todo[b]) \in Command
    BY <1>2, <1>7, TodosTail
  <2> QED BY <1>1, <1>2, <1>4, <1>5, <1>6, <1>8, <2>1 DEF Only, Typed, Command
<1>10. Wrong(b)' >= Wrong(b) /\ Wrong(b)' \in Nat
  <2>1. Cardinality(Refusals(b)) \in Nat
    BY <1>1, WrongType
  <2> QED BY <1>1, <1>3, <1>8, <2>1 DEF Wrong, Typed
<1>11. CASE todo[b] = <<"close">>
  <2>1. todo'[b] = <<>> /\ decided[b] # None /\ event[b] # None
    BY <1>1, <1>7, <1>11, Commands DEF Account, Handled
  <2>2. \/ bead'[b] = "closed" /\ at'[b] = "acting"
        \/ bead'[b] = bead[b] /\ at'[b] = "aborted"
    BY <1>1, <1>2, <1>4, <1>11, Commands DEF Typed
  <2>3. Before(b)' /\ Handled(b)'
    BY <1>1, <1>2, <2>1, <2>2 DEF Account, Before, Handled
  <2>4. Failed(b)' /\ LeftOut(b)'
    BY <1>1, <1>2, <1>10, <2>1, <2>2 DEF Account, Failed, LeftOut
  <2> QED BY <1>9, <2>3, <2>4, OnlyOne DEF Account
<1>12. CASE todo[b] = <<"block", "report">>
  <2>1. todo'[b] = <<"report">> /\ decided[b] # None /\ Wrong(b) >= 2
    BY <1>1, <1>7, <1>12, Commands DEF Account, Before, Failed
  <2>2. at'[b] = "acting" /\ reported' = reported
        /\ (bead'[b] = "blocked" \/ (bead'[b] = bead[b] /\ faults' = faults + 1))
    BY <1>1, <1>2, <1>5, <1>12, Commands DEF Typed
  <2>3. Before(b)' /\ Handled(b)'
    BY <1>1, <1>2, <2>1, <2>2 DEF Account, Before, Handled
  <2>4. Failed(b)' /\ LeftOut(b)'
    BY <1>1, <1>2, <1>10, <2>1, <2>2 DEF Account, Failed, LeftOut, Typed
  <2> QED BY <1>9, <2>3, <2>4, OnlyOne DEF Account
<1>13. CASE todo[b] = <<"report">>
  <2>1. todo'[b] = <<>>
    BY <1>7, <1>13, Commands
  <2>2. at'[b] = "acting" /\ bead'[b] = bead[b]
        /\ (b \in reported' \/ (faults' = faults + 1 /\ reported' = reported))
    BY <1>1, <1>2, <1>6, <1>13, Commands DEF Typed
  <2>3. Before(b)' /\ Handled(b)'
    BY <1>1, <1>2, <1>13, <2>1, <2>2 DEF Account, Before, Handled
  <2>4. Failed(b)' /\ LeftOut(b)'
    BY <1>1, <1>2, <1>10, <1>13, <2>1, <2>2 DEF Account, Failed, LeftOut, Typed
  <2> QED BY <1>9, <2>3, <2>4, OnlyOne DEF Account
<1>14. CASE todo[b] = <<"report", "block">>
  <2>1. todo'[b] = <<"block">> /\ decided[b] = None
    BY <1>1, <1>7, <1>14, Commands DEF Account, Before
  <2>2. at'[b] = "acting" /\ bead'[b] = bead[b]
    BY <1>1, <1>2, <1>6, <1>14, Commands DEF Typed
  <2>3. Before(b)' /\ Handled(b)'
    BY <1>1, <1>2, <2>1, <2>2 DEF Account, Before, Handled
  <2>4. Failed(b)' /\ LeftOut(b)'
    BY <1>2, <2>1, <2>2 DEF Failed, LeftOut
  <2> QED BY <1>9, <2>3, <2>4, OnlyOne DEF Account
<1>15. CASE todo[b] = <<"block">>
  <2>1. todo'[b] = <<>> /\ decided[b] = None
    BY <1>1, <1>7, <1>15, Commands DEF Account, Before
  <2>2. at'[b] = "acting" /\ reported' = reported
        /\ (bead'[b] = "blocked" \/ (bead'[b] = bead[b] /\ faults' = faults + 1))
    BY <1>1, <1>2, <1>5, <1>15, Commands DEF Typed
  <2>3. Before(b)' /\ Handled(b)'
    BY <1>1, <1>2, <2>1, <2>2 DEF Account, Before, Handled
  <2>4. Failed(b)' /\ LeftOut(b)'
    BY <1>1, <1>2, <2>1, <2>2 DEF Failed, LeftOut, Typed
  <2> QED BY <1>9, <2>3, <2>4, OnlyOne DEF Account
<1> QED BY <1>2, <1>7, <1>11, <1>12, <1>13, <1>14, <1>15 DEF Todos

\* What the receiver and the edge answer.
LEMMA ReceiverKeeps ==
  ASSUME AccountInv, Typed', NEW b \in Bead,
         EdgeFails(b) \/ \E k \in Posts : Receive(b, k) \/ HandlerFails(b, k)
  PROVE  AccountInv'
<1>0. Account(b) /\ Typed /\ Wrong(b) \in Nat /\ Cardinality(Refusals(b)) \in Nat
  BY WrongType DEF AccountInv
<1>1. ASSUME \/ at[b] = "waiting" /\ (Refused(b) \/ Does(b, <<"close">>))
             \/ UNCHANGED <<at, todo>>
      PROVE  \A d \in Bead \ {b} : at'[d] = at[d] /\ todo'[d] = todo[d]
  BY <1>0, <1>1 DEF Refused, Does, Typed
<1>2. ASSUME NEW k \in Posts, NEW place \in Places, Handler(b, k, place)
      PROVE  /\ h'[<<b, k>>] = place
             /\ \A j \in Posts \ {k} : h'[<<b, j>>] = h[<<b, j>>]
             /\ \A d \in Bead \ {b} : \A j \in Posts : h'[<<d, j>>] = h[<<d, j>>]
  BY <1>0, <1>2 DEF Handler, Typed
<1>3. ASSUME EdgeFails(b) PROVE AccountInv'
  <2>1. /\ at[b] = "waiting" /\ faults' = faults + 1 /\ Refused(b)
        /\ UNCHANGED <<event, reported, h, decided, posts, bead>>
    BY <1>3 DEF EdgeFails, SpendFault, Answer
  <2>3. Only(b)
    BY <1>0, <1>1, <2>1 DEF Only, Typed
  <2>4. Wrong(b)' = Wrong(b) + 1
    <3>1. Refusals(b)' = Refusals(b)
      BY <2>1 DEF Refusals
    <3> QED BY <1>0, <2>1, <3>1 DEF Wrong, Typed
  <2>5. Answering(b)
    BY <1>0, <2>1, <2>4 DEF Answering, Typed
  <2>6. Account(b)'
    BY <1>0, <2>1, <2>4, <2>5, BadAnswerKeeps
  <2> QED BY <2>3, <2>6, OnlyOne
<1>4. ASSUME NEW k \in Posts, NEW place \in {"ended", "refused"},
             Handler(b, k, place),
             h[<<b, k>>] \in {"gate", "lookup", "save", "finish"},
             UNCHANGED <<event, reported>>, faults' = faults \/ faults' = faults + 1,
             \/ Answer(b, k, TRUE) /\ event[b] # None
             \/ Answer(b, k, FALSE) /\ (place = "refused" \/ faults' = faults + 1)
      PROVE  AccountInv'
  <2>0. /\ UNCHANGED <<decided, posts, bead>>
        /\ \/ at[b] = "waiting" /\ Does(b, <<"close">>) /\ event[b] # None
           \/ at[b] = "waiting" /\ Refused(b) /\ (place = "refused" \/ faults' = faults + 1)
           \/ UNCHANGED <<at, todo>> /\ (event[b] # None \/ place = "refused" \/ faults' = faults + 1)
    BY <1>4 DEF Answer
  <2>1. place \in Places /\ faults' >= faults /\ faults' \in Nat
    BY <1>0, <1>4 DEF Places, Typed
  <2>2. Moves(b, k, place)
    BY <1>2, <1>4, <2>1 DEF Moves
  <2>3. Only(b)
    BY <1>0, <1>1, <1>2, <1>4, <2>0, <2>1 DEF Only
  <2>4. /\ Wrong(b)' >= Wrong(b) /\ Wrong(b)' \in Nat
        /\ place = "refused" \/ faults' = faults + 1 => Wrong(b)' >= Wrong(b) + 1
    BY <1>0, <2>1, <2>2, MovesGrow
  <2>5. \A j \in Posts : h'[<<b, j>>] = h[<<b, j>>]
          \/ (h[<<b, j>>] # "none" /\ h'[<<b, j>>] \in {"ended", "refused"})
    BY <1>4, <2>2 DEF Moves
  <2>6. Answering(b)
    BY <1>0, <1>4, <2>0, <2>1, <2>4, <2>5 DEF Answering
  <2>7. Account(b)'
    BY <1>0, <2>0, <2>4, <2>6, GoodAnswerKeeps, BadAnswerKeeps, UnheardKeeps
  <2> QED BY <2>3, <2>7, OnlyOne
<1>5. ASSUME NEW k \in Posts, NEW place \in Places \ {"none", "refused"},
             Handler(b, k, place), h[<<b, k>>] \in {"gate", "lookup", "save"},
             UNCHANGED <<reported, at, decided, posts, todo, bead, faults>>,
             \/ event' = event /\ place # "finish"
             \/ event' = [event EXCEPT ![b] = OutcomeOf(decided[b])]
      PROVE  AccountInv'
  <2>1. Only(b)
    BY <1>0, <1>2, <1>5 DEF Only, Typed
  <2>2. /\ h'[<<b, k>>] = place /\ k <= posts[b]
        /\ \A j \in Posts \ {k} : h'[<<b, j>>] = h[<<b, j>>]
    BY <1>0, <1>2, <1>5 DEF Account, Handled, Typed
  <2>3. posts[b] # 0 /\ decided[b] # None
    BY <1>0, <2>2 DEF Account, Before
  <2>4. (event'[b] = event[b] /\ place # "finish") \/ event'[b] = OutcomeOf(decided[b])
    BY <1>0, <1>5 DEF Typed
  <2>5. Refusals(b)' = Refusals(b)
    BY <1>5, <2>2 DEF Refusals
  <2>6. Wrong(b)' = Wrong(b)
    BY <1>5, <2>5 DEF Wrong
  <2>7. OutcomeOf(decided[b]) # None
    BY ReleaseAssumption DEF OutcomeOf, Outcome
  <2>8. Before(b)' /\ Failed(b)' /\ LeftOut(b)'
    BY <1>0, <1>5, <2>3, <2>6 DEF Account, Before, Failed, LeftOut
  <2>9. Handled(b)'
    BY <1>0, <1>5, <2>2, <2>4, <2>7 DEF Account, Handled, Typed
  <2> QED BY <2>1, <2>8, <2>9, OnlyOne DEF Account
<1>6. ASSUME NEW k \in Posts, Gate(b, k) PROVE AccountInv'
  <2>1. CASE event[b] # None
    BY <1>4, <1>6, <2>1 DEF Gate
  <2>2. CASE event[b] = None
    <3>1. "lookup" \in Places \ {"none", "refused"}
      BY DEF Places
    <3> QED BY <1>5, <1>6, <2>2, <3>1 DEF Gate
  <2> QED BY <2>1, <2>2
<1>7. ASSUME NEW k \in Posts, Lookup(b, k) PROVE AccountInv'
  <2>1. CASE Matches(b)
    <3>1. "save" \in Places \ {"none", "refused"}
      BY DEF Places
    <3> QED BY <1>5, <1>7, <2>1, <3>1 DEF Lookup
  <2>2. CASE ~Matches(b)
    BY <1>4, <1>7, <2>2 DEF Lookup
  <2> QED BY <2>1, <2>2
<1>8. ASSUME NEW k \in Posts, SaveCompletion(b, k) PROVE AccountInv'
  <2>1. "finish" \in Places \ {"none", "refused"}
    BY DEF Places
  <2> QED BY <1>5, <1>8, <2>1 DEF SaveCompletion
<1>9. ASSUME NEW k \in Posts, Finish(b, k) PROVE AccountInv'
  <2>1. event[b] # None
    BY <1>0, <1>9 DEF Finish, Account, Handled
  <2> QED BY <1>4, <1>9, <2>1 DEF Finish, SpendFault
<1>10. ASSUME NEW k \in Posts, HandlerFails(b, k) PROVE AccountInv'
  BY <1>4, <1>10 DEF HandlerFails, SpendFault
<1> QED BY <1>3, <1>6, <1>7, <1>8, <1>9, <1>10 DEF Receive

LEMMA AccountInvStep == AccountInv /\ [Next]_vars => AccountInv'
<1> SUFFICES ASSUME AccountInv, [Next]_vars PROVE AccountInv'
  OBVIOUS
<1>1. Typed'
  BY TypedStep DEF AccountInv
<1>2. ASSUME NEW b \in Bead, FinishDispatch(b) PROVE AccountInv'
  <2>1. UNCHANGED <<event, reported, h, at, decided, posts, todo, bead>> /\ faults' >= faults
    BY <1>2 DEF FinishDispatch, SpendFault, AccountInv, Typed
  <2> QED BY <1>1, <2>1, NothingOf
<1>3. CASE ActivityExpires \/ ContainerCrashes
  <2>1. /\ UNCHANGED <<event, reported, h, decided, posts, todo, bead>> /\ faults' >= faults
        /\ \A b \in Bead : at'[b] \in {at[b], "killed"}
    BY <1>3 DEF ActivityExpires, ContainerCrashes, ContainerStops, SpendFault, AccountInv, Typed
  <2>2. ASSUME NEW b \in Bead PROVE Account(b)'
    BY <1>1, <2>1, <2>2, AccountKept DEF AccountInv
  <2> QED BY <1>1, <2>2 DEF AccountInv
<1>4. CASE UNCHANGED vars
  <2>1. UNCHANGED <<event, reported, h, at, decided, posts, todo, bead>> /\ faults' >= faults
    BY <1>4 DEF vars, AccountInv, Typed
  <2> QED BY <1>1, <2>1, NothingOf
<1> QED
  BY <1>1, <1>2, <1>3, <1>4, ScriptKeeps, ActKeeps, ReceiverKeeps DEF Next, Release

LEMMA AccountInvHolds == Spec => []AccountInv
<1>1. Init => AccountInv
  <2> SUFFICES ASSUME Init PROVE AccountInv
    OBVIOUS
  <2>1. Typed
    BY DEF Init, Typed, Places, Points, Todos
  <2>2. ASSUME NEW b \in Bead PROVE Account(b)
    <3>1. Before(b) /\ LeftOut(b)
      BY DEF Init, Before, LeftOut
    <3>2. Handled(b)
      BY Different DEF Init, Handled
    <3>3. Failed(b)
      BY DEF Init, Failed
    <3> QED BY <3>1, <3>2, <3>3 DEF Account
  <2> QED BY <2>1, <2>2 DEF AccountInv
<1> QED BY <1>1, AccountInvStep, PTL DEF Spec
----------------------------------------------------------------------------
\* Gas City closes a bead as done only if the Factory has recorded the very
\* outcome the driver decided: property ClosedIsRecorded.
THEOREM ReleaseClosedIsRecorded == Spec => []ClosedIsRecorded
<1>1. AccountInv => ClosedIsRecorded
  BY DEF AccountInv, Account, Handled, ClosedIsRecorded
<1> QED BY <1>1, AccountInvHolds, PTL

\* The two sides disagree on a bead only if both posts went wrong: property
\* OneFailureIsReconciled.
THEOREM ReleaseOneFailureIsReconciled == Spec => []OneFailureIsReconciled
<1>1. AccountInv => OneFailureIsReconciled
  BY DEF AccountInv, Account, Before, Failed, Wrong, OneFailureIsReconciled
<1> QED BY <1>1, AccountInvHolds, PTL

\* A script that runs to its end leaves the bead closed, blocked or reported,
\* unless its commands failed: property EndIsKnown.
THEOREM ReleaseEndIsKnown == Spec => []EndIsKnown
<1>1. AccountInv => EndIsKnown
  BY DEF AccountInv, Account, LeftOut, EndIsKnown
<1> QED BY <1>1, AccountInvHolds, PTL
----------------------------------------------------------------------------
(* The keep-alive count *)

\* Each start that the count stands for is in it, but for those that a stop
\* of another molecule took off.
Balance ==
  /\ count \in Nat /\ surplus \in Nat /\ counted \subseteq Bead
  /\ Cardinality(counted) <= count + surplus

LEMMA CountedFinite ==
  ASSUME counted \subseteq Bead
  PROVE  IsFiniteSet(counted) /\ Cardinality(counted) \in Nat
BY ReleaseAssumption, FS_Subset, FS_CardinalityType

LEMMA StartBalances == ASSUME Balance, NEW b \in Bead, StartKeepalive(b) PROVE Balance'
<1>1. IsFiniteSet(counted) /\ Cardinality(counted) \in Nat
  BY CountedFinite DEF Balance
<1>2. /\ count' = count + 1 /\ surplus' = surplus /\ counted' = counted \cup {b}
  BY DEF StartKeepalive
<1>3. Cardinality(counted') \in Nat /\ Cardinality(counted') <= Cardinality(counted) + 1
  BY <1>1, <1>2, FS_AddElement
<1> QED BY <1>1, <1>2, <1>3 DEF Balance

LEMMA StopBalances == ASSUME Balance, NEW b \in Bead, StopKeepalive(b) PROVE Balance'
<1>1. IsFiniteSet(counted) /\ Cardinality(counted) \in Nat
  BY CountedFinite DEF Balance
<1>2. count' \in Nat /\ count' >= count - 1
  BY DEF StopKeepalive, Larger, Balance
<1>3. CASE b \in counted
  <2>1. counted' = counted \ {b} /\ surplus' = surplus
    BY <1>3 DEF StopKeepalive
  <2>2. Cardinality(counted') = Cardinality(counted) - 1
    BY <1>1, <1>3, <2>1, FS_RemoveElement
  <2> QED BY <1>1, <1>2, <2>1, <2>2 DEF Balance
<1>4. CASE b \notin counted
  <2>1. counted' = counted /\ surplus' = surplus + 1
    BY <1>4 DEF StopKeepalive
  <2> QED BY <1>1, <1>2, <2>1 DEF Balance
<1> QED BY <1>3, <1>4

LEMMA BalanceHolds == Spec => []Balance
<1>1. Init => Balance
  BY FS_EmptySet DEF Init, Balance
<1>2. Balance /\ [Next]_vars => Balance'
  <2> SUFFICES ASSUME Balance, [Next]_vars PROVE Balance'
    OBVIOUS
  <2>1. ASSUME UNCHANGED <<count, counted, surplus>> PROVE Balance'
    BY <2>1 DEF Balance
  <2>2. ASSUME NEW b \in Bead, FinishDispatch(b) PROVE Balance'
    BY <2>1, <2>2, StartBalances DEF FinishDispatch
  <2>3. ASSUME NEW b \in Bead, NEW k \in Posts, Finish(b, k) PROVE Balance'
    BY <2>1, <2>3, StopBalances DEF Finish
  <2>4. CASE ContainerStops
    BY <2>4, FS_EmptySet DEF ContainerStops, Balance
  <2>5. ASSUME NEW b \in Bead, NEW k \in Posts,
               Gate(b, k) \/ Lookup(b, k) \/ SaveCompletion(b, k) \/ HandlerFails(b, k)
        PROVE  Balance'
    BY <2>1, <2>5 DEF Gate, Lookup, SaveCompletion, HandlerFails
  <2>6. ASSUME NEW b \in Bead,
               \/ \E a \in FirstAttempt : Sling(b, a)
               \/ Evaluate(b) \/ Release(b) \/ CurlFails(b) \/ EdgeFails(b)
        PROVE  Balance'
    BY <2>1, <2>6 DEF Sling, Evaluate, Unusable, FailClosed, DecideRelease, Rerun,
       Release, Post, Act, Exit, CurlFails, EdgeFails
  <2>7. CASE UNCHANGED vars
    BY <2>1, <2>7 DEF vars
  <2> QED
    BY <2>2, <2>3, <2>4, <2>5, <2>6, <2>7
    DEF Next, Receive, ActivityExpires, ContainerCrashes
<1> QED BY <1>1, <1>2, PTL DEF Spec

\* The container expires under a molecule at work only if that molecule's
\* start never counted or some stop was one too many: property
\* AwakeWhileAtWork.
THEOREM ReleaseAwakeWhileAtWork == Spec => AwakeWhileAtWork
<1>1. AccountInv /\ Balance /\ [Next]_vars =>
        (awake /\ ~awake' /\ faults' = faults =>
           \A b \in counted : AtWork(b) => surplus > 0)
  <2> SUFFICES ASSUME AccountInv, Balance, [Next]_vars, awake, ~awake', faults' = faults,
                      NEW b \in counted
               PROVE  surplus > 0
    OBVIOUS
  <2>1. faults \in Nat
    BY DEF AccountInv, Typed
  <2>2. ActivityExpires
    <3>1. ASSUME NEW c \in Bead, NEW a \in FirstAttempt, Sling(c, a) PROVE FALSE
      BY <3>1 DEF Sling
    <3>2. ASSUME NEW c \in Bead,
                 FinishDispatch(c) \/ Evaluate(c) \/ Release(c) \/ CurlFails(c) \/ EdgeFails(c)
          PROVE  FALSE
      BY <3>2 DEF FinishDispatch, StartKeepalive, Evaluate, Unusable, FailClosed,
         DecideRelease, Rerun, Release, Post, Act, Exit, CurlFails, EdgeFails
    <3>3. ASSUME NEW c \in Bead, NEW k \in Posts, Receive(c, k) \/ HandlerFails(c, k)
          PROVE  FALSE
      BY <3>3 DEF Receive, Gate, Lookup, SaveCompletion, Finish, StopKeepalive, HandlerFails
    <3>4. ~ContainerCrashes
      BY <2>1 DEF ContainerCrashes, SpendFault
    <3>5. ~UNCHANGED vars
      BY DEF vars
    <3> QED BY <3>1, <3>2, <3>3, <3>4, <3>5 DEF Next
  <2>3. count = 0
    BY <2>2 DEF ActivityExpires
  <2>4. Cardinality(counted) \in Nat /\ Cardinality(counted) # 0
    BY CountedFinite, FS_EmptySet DEF Balance
  <2> QED BY <2>3, <2>4 DEF Balance
<1> QED BY <1>1, AccountInvHolds, BalanceHolds, PTL DEF Spec, AwakeWhileAtWork
----------------------------------------------------------------------------
(* The other variables *)

\* The attempts within a molecule stop at the depth limit.
JobTyped ==
  /\ row \in [Bead -> {"absent", "pending", "dispatched", "unfinished"}]
  /\ sent \in [Bead -> FirstAttempt \cup {0}]
  /\ follow \in [Bead -> {"none", "signal", "incident"}]
  /\ job \in [Bead -> [attempt : Nat, prior : Nat \cup {None}]]
  /\ \A b \in Bead : job[b].attempt \in sent[b] .. Larger(sent[b], MaxDepth)
  /\ \A b \in Bead : job[b].prior \in {None} \cup 1 .. MaxFailing[b] + 1
  /\ runs \in [Bead -> Nat] /\ \A b \in Bead : runs[b] <= MaxIterations[b]
  /\ awake \in BOOLEAN
  /\ faults <= MaxFaults

JobVars == <<row, sent, follow, job, runs>>

LEMMA EvidenceLen ==
  ASSUME NEW b \in Bead, NEW failing \in Evidence(b)
  PROVE  Len(failing) \in 0 .. MaxFailing[b] + 1 /\ (failing # <<>> => Len(failing) # 0)
<1>1. PICK n \in 0 .. MaxFailing[b] : \E own \in [1 .. n -> GateClass] :
        failing = own \/ failing = <<"preflight">> \o own
  BY DEF Evidence, Failing
<1>2. MaxFailing[b] \in Nat
  BY ReleaseAssumption
<1>3. PICK own \in [1 .. n -> GateClass] :
        failing = own \/ failing = <<"preflight">> \o own
  BY <1>1
<1>4. own \in Seq(GateClass) /\ Len(own) = n
  BY <1>2
<1>5. /\ <<"preflight">> \o own \in Seq(GateClass)
      /\ Len(<<"preflight">> \o own) = n + 1
  BY <1>2, <1>4 DEF GateClass
<1>6. failing \in Seq(GateClass)
  BY <1>3, <1>4, <1>5
<1>7. failing # <<>> => Len(failing) # 0
  BY <1>6
<1> QED BY <1>2, <1>3, <1>4, <1>5, <1>7

LEMMA JobTypedStep == AccountInv /\ JobTyped /\ [Next]_vars => JobTyped'
<1> SUFFICES ASSUME AccountInv, JobTyped, [Next]_vars PROVE JobTyped'
  OBVIOUS
<1>0. faults \in Nat
  BY DEF AccountInv, Typed
<1>1. ASSUME UNCHANGED JobVars, awake' = awake \/ awake' = FALSE,
             faults' = faults \/ SpendFault
      PROVE  JobTyped'
  <2>1. awake' \in BOOLEAN
    BY <1>1 DEF JobTyped
  <2>2. faults' <= MaxFaults
    BY <1>0, <1>1, ReleaseAssumption DEF JobTyped, SpendFault
  <2>3. UNCHANGED <<row, sent, follow, job, runs>>
    BY <1>1 DEF JobVars
  <2> QED BY <2>1, <2>2, <2>3 DEF JobTyped
<1>2. ASSUME NEW b \in Bead, NEW a \in FirstAttempt, Sling(b, a) PROVE JobTyped'
  <2>1. /\ row' = [row EXCEPT ![b] = "pending"] /\ sent' = [sent EXCEPT ![b] = a]
        /\ job' = [job EXCEPT ![b].attempt = a] /\ awake' = TRUE
        /\ UNCHANGED <<follow, runs, faults>>
    BY <1>2 DEF Sling
  <2>2. a \in Nat /\ MaxDepth \in Nat
    BY ReleaseAssumption
  <2>3. /\ job' \in [Bead -> [attempt : Nat, prior : Nat \cup {None}]]
        /\ job'[b].attempt = a /\ job'[b].prior = job[b].prior /\ sent'[b] = a
        /\ \A d \in Bead \ {b} : job'[d] = job[d] /\ sent'[d] = sent[d]
    BY <2>1, <2>2 DEF JobTyped
  <2>4. a \in a .. Larger(a, MaxDepth)
    BY <2>2 DEF Larger
  <2>5. \A d \in Bead : job'[d].attempt \in sent'[d] .. Larger(sent'[d], MaxDepth)
    BY <2>3, <2>4 DEF JobTyped
  <2>6. \A d \in Bead : job'[d].prior \in {None} \cup 1 .. MaxFailing[d] + 1
    BY <2>3 DEF JobTyped
  <2> QED BY <2>1, <2>3, <2>5, <2>6 DEF JobTyped
<1>3. ASSUME NEW b \in Bead, FinishDispatch(b) PROVE JobTyped'
  <2>1. /\ row' \in [Bead -> {"absent", "pending", "dispatched", "unfinished"}]
        /\ UNCHANGED <<sent, follow, job, runs, awake>>
        /\ faults' = faults \/ SpendFault
    BY <1>3 DEF FinishDispatch, StartKeepalive, JobTyped
  <2> QED BY <1>0, <2>1, ReleaseAssumption DEF JobTyped, SpendFault
<1>4. ASSUME NEW b \in Bead, NEW failing \in Evidence(b), Rerun(b, failing)
      PROVE  JobTyped'
  <2>1. CASE runs[b] < MaxIterations[b]
    <3>1. PICK a \in {job[b].attempt, job[b].attempt + 1}, n \in {None, Len(failing)} :
            job' = [job EXCEPT ![b] = [attempt |-> a, prior |-> n]]
      BY <1>4, <2>1 DEF Rerun
    <3>2. runs' = [runs EXCEPT ![b] = runs[b] + 1]
          /\ UNCHANGED <<row, sent, follow, awake, faults>>
      BY <1>4, <2>1 DEF Rerun
    <3>3. failing # <<>> /\ ~AtDepth(job[b])
      BY <1>4, ReleaseAssumption DEF Rerun, Converge, Decision
    <3>4. Len(failing) \in 1 .. MaxFailing[b] + 1
      BY <3>3, EvidenceLen, ReleaseAssumption
    <3>5. job[b].attempt \in Nat /\ sent[b] \in Nat /\ MaxDepth \in Nat
          /\ job[b].attempt < MaxDepth /\ job[b].attempt >= sent[b]
      <4>1. job[b] \in [attempt : Nat, prior : Nat \cup {None}]
        BY DEF JobTyped
      <4>2. sent[b] \in Nat /\ MaxDepth \in Nat
        <5>1. sent[b] \in FirstAttempt \cup {0}
          BY DEF JobTyped
        <5>2. FirstAttempt \subseteq Nat \ {0} /\ MaxDepth \in Nat
          BY ReleaseAssumption
        <5>3. sent[b] \in FirstAttempt => sent[b] \in Nat \ {0}
          BY <5>2, Zenon
        <5> QED BY <5>1, <5>2, <5>3
      <4>3. job[b].attempt \in sent[b] .. Larger(sent[b], MaxDepth)
        BY DEF JobTyped
      <4> QED BY <3>3, <4>1, <4>2, <4>3 DEF AtDepth, Larger
    <3>6. a \in sent[b] .. Larger(sent[b], MaxDepth) /\ a \in Nat
      BY <3>5 DEF Larger
    <3>7. /\ job' \in [Bead -> [attempt : Nat, prior : Nat \cup {None}]]
          /\ job'[b].attempt = a /\ job'[b].prior = n
          /\ \A d \in Bead \ {b} : job'[d] = job[d]
      BY <3>1, <3>4, <3>6 DEF JobTyped
    <3>8. \A d \in Bead : job'[d].attempt \in sent[d] .. Larger(sent[d], MaxDepth)
      BY <3>6, <3>7 DEF JobTyped
    <3>9. \A d \in Bead : job'[d].prior \in {None} \cup 1 .. MaxFailing[d] + 1
      BY <3>4, <3>7 DEF JobTyped
    <3>10. runs' \in [Bead -> Nat] /\ \A d \in Bead : runs'[d] <= MaxIterations[d]
      <4>1. runs[b] \in Nat /\ MaxIterations[b] \in Nat /\ runs[b] + 1 <= MaxIterations[b]
        BY <2>1, ReleaseAssumption DEF JobTyped
      <4>2. runs'[b] = runs[b] + 1 /\ \A d \in Bead \ {b} : runs'[d] = runs[d]
        BY <3>2 DEF JobTyped
      <4>3. \A d \in Bead : runs'[d] <= MaxIterations[d]
        BY <4>1, <4>2 DEF JobTyped
      <4> QED BY <3>2, <4>1, <4>3 DEF JobTyped
    <3> QED BY <3>2, <3>7, <3>8, <3>9, <3>10 DEF JobTyped
  <2>2. CASE ~(runs[b] < MaxIterations[b])
    BY <1>1, <1>4, <2>2 DEF Rerun, JobVars
  <2> QED BY <2>1, <2>2
<1>5. ASSUME NEW b \in Bead, NEW k \in Posts, Finish(b, k) PROVE JobTyped'
  <2>1. follow' = [follow EXCEPT ![b] = FollowUp(b)]
        /\ UNCHANGED <<row, sent, job, runs, awake>> /\ (faults' = faults \/ SpendFault)
    BY <1>5 DEF Finish, Answer, StopKeepalive
  <2>2. FollowUp(b) \in {"none", "signal", "incident"}
    BY DEF FollowUp
  <2> QED BY <1>0, <2>1, <2>2, ReleaseAssumption DEF JobTyped, SpendFault
<1>6. ASSUME NEW b \in Bead, NEW k \in Posts,
             Gate(b, k) \/ Lookup(b, k) \/ SaveCompletion(b, k) \/ HandlerFails(b, k)
      PROVE  JobTyped'
  BY <1>1, <1>6 DEF Gate, Lookup, SaveCompletion, HandlerFails, Answer, JobVars
<1>7. ASSUME NEW b \in Bead,
             \/ \E failing \in Evidence(b) : DecideRelease(b, failing)
             \/ Unusable(b) \/ FailClosed(b) \/ Post(b) \/ Exit(b)
             \/ CurlFails(b) \/ EdgeFails(b)
      PROVE  JobTyped'
  BY <1>1, <1>7
  DEF DecideRelease, Unusable, FailClosed, Post, Exit, CurlFails, EdgeFails, Answer, JobVars
<1>8. ASSUME NEW b \in Bead, Act(b) PROVE JobTyped'
  <2>1. Head(todo[b]) \in Command
    BY <1>8, TodosTail DEF Act, AccountInv, Typed
  <2>2. UNCHANGED JobVars /\ awake' = awake /\ (faults' = faults \/ SpendFault)
    BY <1>8, <2>1 DEF Act, Command, JobVars
  <2> QED BY <1>1, <2>2
<1>9. CASE ActivityExpires \/ ContainerCrashes
  BY <1>1, <1>9 DEF ActivityExpires, ContainerCrashes, ContainerStops, JobVars
<1>10. CASE UNCHANGED vars
  BY <1>1, <1>10 DEF vars, JobVars
<1> QED
  BY <1>2, <1>3, <1>4, <1>5, <1>6, <1>7, <1>8, <1>9, <1>10
  DEF Next, Evaluate, Release, Receive

LEMMA TodosType == Todos \subseteq Seq(Command)
BY DEF Todos, Command

\* Every variable keeps its type; in particular the attempts made within a
\* molecule never pass the depth limit: property TypeOK.
THEOREM ReleaseTypeOK == Spec => []TypeOK
<1>1. Init => JobTyped
  <2> SUFFICES ASSUME Init PROVE JobTyped
    OBVIOUS
  <2>1. \A b \in Bead : job[b].attempt = 0 /\ job[b].prior = None /\ sent[b] = 0 /\ runs[b] = 0
    BY DEF Init
  <2>2. \A b \in Bead : job[b].attempt \in sent[b] .. Larger(sent[b], MaxDepth)
    BY <2>1, ReleaseAssumption DEF Larger
  <2>3. \A b \in Bead : runs[b] <= MaxIterations[b]
    BY <2>1, ReleaseAssumption
  <2>4. job \in [Bead -> [attempt : Nat, prior : Nat \cup {None}]]
    BY DEF Init
  <2>5. runs \in [Bead -> Nat] /\ faults <= MaxFaults
    BY ReleaseAssumption DEF Init
  <2>6. /\ row \in [Bead -> {"absent", "pending", "dispatched", "unfinished"}]
        /\ sent \in [Bead -> FirstAttempt \cup {0}]
        /\ follow \in [Bead -> {"none", "signal", "incident"}]
        /\ awake \in BOOLEAN
    BY DEF Init
  <2> QED BY <2>1, <2>2, <2>3, <2>4, <2>5, <2>6 DEF JobTyped
<1>2. AccountInv /\ JobTyped /\ Balance => TypeOK
  <2> SUFFICES ASSUME AccountInv, JobTyped, Balance PROVE TypeOK
    OBVIOUS
  <2>1. todo \in [Bead -> Seq(Command)]
    BY TodosType DEF AccountInv, Typed
  <2>2. /\ event \in [Bead -> Outcome \cup {None}] /\ reported \subseteq Bead
        /\ h \in [Bead \X {1, 2} -> Places] /\ at \in [Bead -> Points]
        /\ decided \in [Bead -> Decision \cup {None}] /\ posts \in [Bead -> 0 .. 2]
        /\ bead \in [Bead -> {"open", "closed", "blocked"}] /\ faults \in Nat
    BY DEF AccountInv, Typed
  <2>3. \A b \in Bead : runs[b] \in 0 .. MaxIterations[b]
    BY ReleaseAssumption DEF JobTyped
  <2>4. faults \in 0 .. MaxFaults
    BY <2>2, ReleaseAssumption DEF JobTyped
  <2> QED
    BY <2>1, <2>2, <2>3, <2>4 DEF TypeOK, JobTyped, Balance, Places, Points
<1> QED BY <1>1, <1>2, JobTypedStep, AccountInvHolds, BalanceHolds, PTL DEF Spec
=============================================================================
