----------------------------- MODULE LeasedQueue -----------------------------
(***************************************************************************)
(* What the agent queue promises to those who enqueue, whoever else uses   *)
(* the directory and dies in it: a process takes a known request, one at a *)
(* time and none twice, and only one nobody was given unless a lease ran   *)
(* out.  Of the request it has taken it opens one pull request at most,    *)
(* and may give its one answer, which is "completed" only after that.      *)
(* AgentQueue implements this specification.                               *)
(***************************************************************************)
CONSTANTS Process, Request, None, Known, Status

VARIABLES
  known,   \* the requests enqueued
  given,   \* the processes each was given to
  lapsed,  \* those a lease of which ran out
  held,    \* what each process has at hand
  opened,  \* the pull requests: request and process
  answer   \* the results

vars == <<known, given, lapsed, held, opened, answer>>

NoAnswer == [status |-> "absent", by |-> None]

Init ==
  /\ known = Known
  /\ given = [r \in Request |-> {}]
  /\ lapsed = {}
  /\ held = [p \in Process |-> None]
  /\ opened = {}
  /\ answer = [r \in Request |-> NoAnswer]

Enqueue(r) ==
  /\ known' = known \cup {r}
  /\ UNCHANGED <<given, lapsed, held, opened, answer>>

\* The command claim and run-single may get a request and leave it at that.
Take(p, r) ==
  /\ r \in known
  /\ held[p] = None /\ p \notin given[r]
  /\ given[r] = {} \/ r \in lapsed
  /\ given' = [given EXCEPT ![r] = @ \cup {p}]
  /\ held' \in {held, [held EXCEPT ![p] = r]}
  /\ UNCHANGED <<known, lapsed, opened, answer>>

Lapse(r) ==
  /\ given[r] # {}
  /\ lapsed' = lapsed \cup {r}
  /\ UNCHANGED <<known, given, held, opened, answer>>

Open(p, r) ==
  /\ held[p] = r /\ <<r, p>> \notin opened
  /\ opened' = opened \cup {<<r, p>>}
  /\ UNCHANGED <<known, given, lapsed, held, answer>>

Answer(p, r, s) ==
  /\ held[p] = r /\ answer[r] = NoAnswer
  /\ s = "completed" => <<r, p>> \in opened
  /\ answer' = [answer EXCEPT ![r] = [status |-> s, by |-> p]]
  /\ held' = [held EXCEPT ![p] = None]
  /\ UNCHANGED <<known, given, lapsed, opened>>

\* The process dies or gives up.
Drop(p) ==
  /\ held' = [held EXCEPT ![p] = None]
  /\ UNCHANGED <<known, given, lapsed, opened, answer>>

Next ==
  \/ \E r \in Request : Enqueue(r) \/ Lapse(r)
  \/ \E p \in Process, r \in Request :
       Take(p, r) \/ Open(p, r) \/ \E s \in Status : Answer(p, r, s)
  \/ \E p \in Process : Drop(p)

Spec == Init /\ [][Next]_vars
=============================================================================
