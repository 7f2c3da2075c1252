------------------------------ MODULE AgentQueue ------------------------------
(***************************************************************************)
(* packages/autonomous-scheduler: JsonlAgentQueue, a queue of AgentRequests *)
(* kept in the files of a directory, and the processes that share it, each *)
(* one command of cli.ts: enqueue, claim, heartbeat, run-single or daemon. *)
(* Nothing locks the directory.  A request is claimed by creating its claim *)
(* file exclusively; the claim holds a lease, and a claim whose lease has  *)
(* run out is taken over by whoever looks at it next.                      *)
(*                                                                         *)
(* fs.writeFile opens a file, which creates or empties it, and writes it   *)
(* later; whoever reads in between gets no JSON and JSON.parse throws.  A  *)
(* file in that state is "torn".  An exception is not caught anywhere: the *)
(* process ends.  A process that dies is not restarted here; a daemon      *)
(* started in its place is another member of Process.                      *)
(*                                                                         *)
(* Time is left out but for what it does to leases: an active one may run  *)
(* out at any moment.  Every process works in a clone of its own           *)
(* (--repo-root).  events.jsonl and the result bundles are left out: no    *)
(* operation of the queue reads them.                                      *)
(***************************************************************************)
EXTENDS Naturals, Sequences, FiniteSets

CONSTANTS
  Process,      \* invocations of cli.ts
  Request,      \* AgentRequest ids
  None,
  Command,      \* the commands they run
  Queued,       \* the requests enqueued before
  MaxCrashes    \* bound: processes killed, spawns and writes that throw

ASSUME QueueAssumption ==
  /\ None \notin Process \cup Request
  /\ Command \subseteq {"enqueue", "claim", "heartbeat", "single", "daemon"}
  /\ Queued \in Seq(Request)
  /\ MaxCrashes \in Nat

VARIABLES
  requests,     \* requests.jsonl
  claim,        \* claims/<request>.json
  result,       \* results/<request>.json: its status and whose it is
  lapsed,       \* history: the requests of which a lease has run out,
  taken,        \* and the processes claimNext gave each request to
  pulls,        \* GitHub: the pull requests opened, with the work in them
  pc,           \* where each process is,
  cmd,          \* and the command it runs
  todo,         \* claimNext: the requests it has still to look at,
  done,         \* and those it read results of
  job,          \* the request at hand
  dirty,        \* whose uncommitted work is in its clone
  work,         \* executeWorkerCommit: the work in the commit
  outcome,      \* resultExecution.status
  crashes

files  == <<requests, claim, result>>
memory == <<cmd, todo, done, job, dirty, work, outcome>>
ghosts == <<lapsed, taken>>
vars   == <<files, ghosts, pulls, pc, memory, crashes>>

Status == {"completed", "failed", "refused"}
Pull   == [request : Request, by : Process, work : SUBSET Request]
Place  == {"idle", "checking", "appending", "polling", "listing", "claiming",
           "examining", "reclaiming", "writing", "beating", "renewing",
           "rewriting", "preflight", "coding", "committing", "verifying",
           "publishing", "completing", "recording", "ended"}

FilesOK ==
  /\ requests \in Seq(Request)
  /\ claim \in [Request -> {"absent", "torn", "active", "expired"}]
  /\ result \in [Request -> [status : Status \cup {"absent", "torn"},
                             by : Process \cup {None}]]
  /\ lapsed \subseteq Request
  /\ taken \in [Request -> SUBSET Process]
  /\ pulls \subseteq Pull
  /\ crashes \in 0 .. MaxCrashes

MemoryOK ==
  /\ pc \in [Process -> Place]
  /\ cmd \in [Process -> {"none", "enqueue", "claim", "heartbeat", "single",
                          "daemon"}]
  /\ todo \in [Process -> Seq(Request)]
  /\ done \in [Process -> SUBSET Request]
  /\ job \in [Process -> Request \cup {None}]
  /\ dirty \in [Process -> SUBSET Request]
  /\ work \in [Process -> SUBSET Request]
  /\ outcome \in [Process -> Status]

\* Files, histories and the memory of every process keep their types.
TypeOK == FilesOK /\ MemoryOK

Init ==
  /\ requests = Queued
  /\ claim = [r \in Request |-> "absent"]
  /\ result = [r \in Request |-> [status |-> "absent", by |-> None]]
  /\ lapsed = {} /\ taken = [r \in Request |-> {}]
  /\ pulls = {}
  /\ pc = [p \in Process |-> "idle"]
  /\ cmd = [p \in Process |-> "none"]
  /\ todo = [p \in Process |-> <<>>]
  /\ done = [p \in Process |-> {}]
  /\ job = [p \in Process |-> None]
  /\ dirty = [p \in Process |-> {}]
  /\ work = [p \in Process |-> {}]
  /\ outcome = [p \in Process |-> "failed"]
  /\ crashes = 0

Enqueued(r) == \E k \in 1 .. Len(requests) : requests[k] = r
Recorded(r) == result[r].status \in Status

Goto(p, l) == pc' = [pc EXCEPT ![p] = l]
Move(p, l) == Goto(p, l) /\ UNCHANGED memory

\* The process ends, its memory with it, and nobody looks at its clone again.
Quit(p) ==
  /\ Goto(p, "ended")
  /\ cmd' = [cmd EXCEPT ![p] = "none"]
  /\ todo' = [todo EXCEPT ![p] = <<>>]
  /\ done' = [done EXCEPT ![p] = {}]
  /\ job' = [job EXCEPT ![p] = None]
  /\ dirty' = [dirty EXCEPT ![p] = {}]
  /\ work' = [work EXCEPT ![p] = {}]
  /\ outcome' = [outcome EXCEPT ![p] = "failed"]
----------------------------------------------------------------------------
(* cli.ts: which command, and JsonlAgentQueue.enqueue *)

Start(p, c, r) ==
  /\ pc[p] = "idle"
  /\ cmd' = [cmd EXCEPT ![p] = c]
  /\ job' = [job EXCEPT ![p] = IF c \in {"claim", "daemon"} THEN None ELSE r]
  /\ Goto(p, CASE c \in {"enqueue", "single"} -> "checking"
               [] c \in {"claim", "daemon"}   -> "polling"
               [] c = "heartbeat"             -> "beating")
  /\ UNCHANGED <<files, ghosts, pulls, todo, done, dirty, work, outcome, crashes>>

\* listRequests: a known id is refused.
Check(p) ==
  /\ pc[p] = "checking"
  /\ IF Enqueued(job[p]) THEN Quit(p) ELSE Move(p, "appending")
  /\ UNCHANGED <<files, ghosts, pulls, crashes>>

\* run-single goes on to claimNext.
AppendRequest(p) ==
  /\ pc[p] = "appending"
  /\ requests' = Append(requests, job[p])
  /\ IF cmd[p] = "single" THEN Move(p, "polling") ELSE Quit(p)
  /\ UNCHANGED <<claim, result, ghosts, pulls, crashes>>
----------------------------------------------------------------------------
(* JsonlAgentQueue.claimNext *)

ListRequests(p) ==
  /\ pc[p] = "polling"
  /\ todo' = [todo EXCEPT ![p] = requests]
  /\ Goto(p, "listing")
  /\ UNCHANGED <<files, ghosts, pulls, cmd, done, job, dirty, work, outcome, crashes>>

\* A torn result ends the process, whoever's it is.
ListResults(p) ==
  /\ pc[p] = "listing"
  /\ \/ (\E r \in Request : result[r].status = "torn") /\ Quit(p)
     \/ /\ \A r \in Request : result[r].status # "torn"
        /\ Goto(p, "claiming")
        /\ done' = [done EXCEPT ![p] = {r \in Request : Recorded(r)}]
        /\ UNCHANGED <<cmd, todo, job, dirty, work, outcome>>
  /\ UNCHANGED <<files, ghosts, pulls, crashes>>

\* claimNext returns null: the daemon sleeps and polls again.
NothingToClaim(p) ==
  /\ pc[p] = "claiming" /\ todo[p] = <<>>
  /\ IF cmd[p] = "daemon"
     THEN /\ Goto(p, "polling")
          /\ done' = [done EXCEPT ![p] = {}]
          /\ UNCHANGED <<cmd, todo, job, dirty, work, outcome>>
     ELSE Quit(p)
  /\ UNCHANGED <<files, ghosts, pulls, crashes>>

\* The loop goes on to the next request.
Skip(p) ==
  /\ todo' = [todo EXCEPT ![p] = Tail(@)]
  /\ Goto(p, "claiming")
  /\ UNCHANGED <<cmd, done, job, dirty, work, outcome>>

SkipCompleted(p) ==
  /\ pc[p] = "claiming" /\ todo[p] # <<>>
  /\ Head(todo[p]) \in done[p]
  /\ Skip(p)
  /\ UNCHANGED <<files, ghosts, pulls, crashes>>

\* Mutant: the claim file is opened without the exclusive flag.
CreateClaim_NotExclusive(p) ==
  /\ pc[p] = "claiming" /\ todo[p] # <<>>
  /\ Head(todo[p]) \notin done[p]
  /\ claim' = [claim EXCEPT ![Head(todo[p])] = "torn"]
  /\ Move(p, "writing")
  /\ UNCHANGED <<requests, result, ghosts, pulls, crashes>>

\* Mutant: whether the request has a result is not looked at.
CreateClaim_ResultsUnread(p) ==
  /\ pc[p] = "claiming" /\ todo[p] # <<>>
  /\ LET r == Head(todo[p]) IN
       IF claim[r] = "absent"
       THEN claim' = [claim EXCEPT ![r] = "torn"] /\ Move(p, "writing")
       ELSE Move(p, "examining") /\ UNCHANGED claim
  /\ UNCHANGED <<requests, result, ghosts, pulls, crashes>>

\* writeFile with flag wx opens the file.
CreateClaim(p) ==
  /\ pc[p] = "claiming" /\ todo[p] # <<>>
  /\ LET r == Head(todo[p]) IN
       /\ r \notin done[p]
       /\ IF claim[r] = "absent"
          THEN claim' = [claim EXCEPT ![r] = "torn"] /\ Move(p, "writing")
          ELSE Move(p, "examining") /\ UNCHANGED claim
  /\ UNCHANGED <<requests, result, ghosts, pulls, crashes>>

\* Mutants: a claim is for ever; an active one counts as free.
IsClaimExpired_Never(r) == FALSE
IsClaimExpired_OrActive(r) == claim[r] \in {"expired", "active"}

\* The opposite of isClaimActive.
IsClaimExpired(r) == claim[r] = "expired"

\* EEXIST: readClaim and isClaimActive.
ExamineClaim(p) ==
  /\ pc[p] = "examining"
  /\ LET r == Head(todo[p]) IN
       IF claim[r] = "torn" THEN Quit(p)
       ELSE IF IsClaimExpired(r) THEN Move(p, "reclaiming") ELSE Skip(p)
  /\ UNCHANGED <<files, ghosts, pulls, crashes>>

\* writeFile without a flag empties the claim.
Reclaim(p) ==
  /\ pc[p] = "reclaiming"
  /\ claim' = [claim EXCEPT ![Head(todo[p])] = "torn"]
  /\ Move(p, "writing")
  /\ UNCHANGED <<requests, result, ghosts, pulls, crashes>>

\* What a write leaves: of two that opened the file one after the other, the
\* shorter may leave the end of the longer behind it.
Written(r) == IF claim[r] = "torn" THEN {"active"} ELSE {"active", "torn"}

\* The content is written and claimNext returns.  run-single refuses any
\* request but its own, the command claim prints what it got.
WriteClaim(p) ==
  /\ pc[p] = "writing"
  /\ LET r == Head(todo[p]) IN
       /\ \E c \in Written(r) : claim' = [claim EXCEPT ![r] = c]
       /\ taken' = [taken EXCEPT ![r] = @ \cup {p}]
       /\ IF cmd[p] = "daemon" \/ (cmd[p] = "single" /\ job[p] = r)
          THEN /\ Goto(p, "beating")
               /\ job' = [job EXCEPT ![p] = r]
               /\ todo' = [todo EXCEPT ![p] = <<>>]
               /\ done' = [done EXCEPT ![p] = {}]
               /\ UNCHANGED <<cmd, dirty, work, outcome>>
          ELSE Quit(p)
  /\ UNCHANGED <<requests, result, lapsed, pulls, crashes>>
----------------------------------------------------------------------------
(* JsonlAgentQueue.heartbeat: the runner sends one, before it starts *)

ReadForHeartbeat(p) ==
  /\ pc[p] = "beating"
  /\ IF claim[job[p]] \in {"absent", "torn"} THEN Quit(p) ELSE Move(p, "renewing")
  /\ UNCHANGED <<files, ghosts, pulls, crashes>>

Heartbeat(p) ==
  /\ pc[p] = "renewing"
  /\ claim' = [claim EXCEPT ![job[p]] = "torn"]
  /\ Move(p, "rewriting")
  /\ UNCHANGED <<requests, result, ghosts, pulls, crashes>>

WriteHeartbeat(p) ==
  /\ pc[p] = "rewriting"
  /\ \E c \in Written(job[p]) : claim' = [claim EXCEPT ![job[p]] = c]
  /\ IF cmd[p] = "heartbeat" THEN Quit(p) ELSE Move(p, "preflight")
  /\ UNCHANGED <<requests, result, ghosts, pulls, crashes>>
----------------------------------------------------------------------------
(* runClaimedAgentRequest *)

\* The run is over with status s, or goes on to its next stage.
Ends(p, s) ==
  outcome' = [outcome EXCEPT ![p] = s] /\ Goto(p, "completing")
Goes(p, l) == Goto(p, l) /\ UNCHANGED outcome

\* git fetch, git switch -c, git status: a clone that is not clean is no
\* failure, and its changes go along to the new branch.
Preflight(p) ==
  /\ pc[p] = "preflight"
  /\ Goes(p, "coding") \/ Ends(p, "failed")
  /\ UNCHANGED <<files, ghosts, pulls, cmd, todo, done, job, dirty, work, crashes>>

\* codex exec, which may have changed files however it ends.
RunCodex(p) ==
  /\ pc[p] = "coding"
  /\ \E made \in {{}, {job[p]}} : dirty' = [dirty EXCEPT ![p] = @ \cup made]
  /\ Goes(p, "committing") \/ Ends(p, "failed") \/ Ends(p, "refused")
  /\ UNCHANGED <<files, ghosts, pulls, cmd, todo, done, job, work, crashes>>

\* executeWorkerCommit: every change git status lists is committed, and none
\* if there is none or one lies outside the policy.
CommitWork(p) ==
  /\ pc[p] = "committing"
  /\ \/ Ends(p, "failed") /\ UNCHANGED <<dirty, work>>
     \/ /\ dirty[p] # {}
        /\ dirty' = [dirty EXCEPT ![p] = {}]
        /\ work' = [work EXCEPT ![p] = dirty[p]]
        /\ Goes(p, "verifying") \/ Ends(p, "failed")
  /\ UNCHANGED <<files, ghosts, pulls, cmd, todo, done, job, crashes>>

\* executeRequiredCommands.
Verify(p) ==
  /\ pc[p] = "verifying"
  /\ Goes(p, "publishing") \/ Ends(p, "failed")
  /\ UNCHANGED <<files, ghosts, pulls, cmd, todo, done, job, dirty, work, crashes>>

PullOf(p) == [request |-> job[p], by |-> p, work |-> work[p]]

\* Mutant: an error of git push or gh is not turned into a failed result.
Publish_Ignored(p) ==
  /\ pc[p] = "publishing"
  /\ Ends(p, "completed")
  /\ pulls' = pulls \cup {PullOf(p)} \/ UNCHANGED pulls
  /\ UNCHANGED <<files, ghosts, cmd, todo, done, job, dirty, work, crashes>>

\* executePullRequestPlan: gh may open the pull request and still fail.
Publish(p) ==
  /\ pc[p] = "publishing"
  /\ \/ /\ pulls' = pulls \cup {PullOf(p)}
        /\ Ends(p, "completed") \/ Ends(p, "failed")
     \/ Ends(p, "failed") /\ UNCHANGED pulls
  /\ UNCHANGED <<files, ghosts, cmd, todo, done, job, dirty, work, crashes>>

\* Mutant: a result is written over an earlier one.
CreateResult_Overwrites(p) ==
  /\ pc[p] = "completing"
  /\ result' = [result EXCEPT ![job[p]] = [status |-> "torn", by |-> p]]
  /\ Move(p, "recording")
  /\ UNCHANGED <<requests, claim, ghosts, pulls, crashes>>

\* JsonlAgentQueue.complete: writeFile with flag wx, "already exists" is thrown.
CreateResult(p) ==
  /\ pc[p] = "completing"
  /\ IF result[job[p]].status = "absent"
     THEN /\ result' = [result EXCEPT ![job[p]] = [status |-> "torn", by |-> p]]
          /\ Move(p, "recording")
     ELSE Quit(p) /\ UNCHANGED result
  /\ UNCHANGED <<requests, claim, ghosts, pulls, crashes>>

WriteResult(p) ==
  /\ pc[p] = "recording"
  /\ result' = [result EXCEPT ![job[p]].status = outcome[p]]
  /\ IF cmd[p] = "daemon"
     THEN /\ Goto(p, "polling")
          /\ job' = [job EXCEPT ![p] = None]
          /\ work' = [work EXCEPT ![p] = {}]
          /\ outcome' = [outcome EXCEPT ![p] = "failed"]
          /\ UNCHANGED <<cmd, todo, done, dirty>>
     ELSE Quit(p)
  /\ UNCHANGED <<requests, claim, ghosts, pulls, crashes>>
----------------------------------------------------------------------------
(* Time, stops and crashes *)

\* The lease of a claim runs out.
LeaseRunsOut(r) ==
  /\ claim[r] = "active"
  /\ claim' = [claim EXCEPT ![r] = "expired"]
  /\ lapsed' = lapsed \cup {r}
  /\ UNCHANGED <<requests, result, taken, pulls, pc, memory, crashes>>

\* runQueueDaemon: shouldStop or maxIterations.
StopDaemon(p) ==
  /\ pc[p] = "polling" /\ cmd[p] = "daemon"
  /\ Quit(p)
  /\ UNCHANGED <<files, ghosts, pulls, crashes>>

Crash(p) ==
  /\ pc[p] \notin {"idle", "ended"}
  /\ crashes < MaxCrashes
  /\ crashes' = crashes + 1
  /\ Quit(p)
  /\ UNCHANGED <<files, ghosts, pulls>>

ClaimNext(p) ==
  \/ ListRequests(p) \/ ListResults(p) \/ NothingToClaim(p) \/ SkipCompleted(p)
  \/ CreateClaim(p) \/ ExamineClaim(p) \/ Reclaim(p) \/ WriteClaim(p)
SendHeartbeat(p) == ReadForHeartbeat(p) \/ Heartbeat(p) \/ WriteHeartbeat(p)
RunClaimed(p) ==
  \/ Preflight(p) \/ RunCodex(p) \/ CommitWork(p) \/ Verify(p) \/ Publish(p)
  \/ CreateResult(p) \/ WriteResult(p)

Step(p) ==
  Check(p) \/ AppendRequest(p) \/ ClaimNext(p) \/ SendHeartbeat(p) \/ RunClaimed(p)

Next ==
  \/ \E p \in Process, c \in Command, r \in Request : Start(p, c, r)
  \/ \E p \in Process : Step(p) \/ StopDaemon(p) \/ Crash(p)
  \/ \E r \in Request : LeaseRunsOut(r)

Spec == Init /\ [][Next]_vars

\* Every process is scheduled, and time passes.
FairSpec ==
  /\ Spec
  /\ \A p \in Process : WF_vars(Step(p))
  /\ \A r \in Request : WF_vars(LeaseRunsOut(r))
----------------------------------------------------------------------------
(* Properties *)

Claimants(r) ==
  taken[r] \cup {p \in Process : pc[p] = "writing" /\ Head(todo[p]) = r}

\* A request is given to a second process only after a lease of it has run
\* out, however many look at it at once and whichever of them dies
\* (claimNext: exclusive creation, isClaimActive).
OneClaimPerLease ==
  \A r \in Request \ lapsed : Cardinality(Claimants(r)) <= 1

\* Work may be repeated, its publication too, but only when a lease ran out:
\* no request has two pull requests otherwise, although a process may die, or
\* gh fail, after one was opened (runClaimedAgentRequest, claimNext).
OnePullRequest ==
  \A r \in Request \ lapsed : Cardinality({u \in pulls : u.request = r}) <= 1

\* A result says "completed" only if the very run that recorded it opened a
\* pull request, with work in it, whichever of several runs of the request
\* came first (runClaimedAgentRequest, complete).
CompletedIsPublished ==
  \A r \in Request : result[r].status = "completed" =>
    \E u \in pulls : u.request = r /\ u.by = result[r].by /\ u.work # {}

\* A recorded result is never touched again: of two runs of one request the
\* later finds it and gives up (complete).
ResultIsFinal ==
  [][\A r \in Request : Recorded(r) => result'[r] = result[r]]_vars

\* The refinement: from when claimNext gives it a request to when it records
\* the result, or ends, a process has that request at hand.
Holding(p) ==
  /\ cmd[p] # "heartbeat"
  /\ pc[p] \in {"beating", "renewing", "rewriting", "preflight", "coding", "committing",
                "verifying", "publishing", "completing", "recording"}

heldRequests == [p \in Process |-> IF Holding(p) THEN job[p] ELSE None]
answers      == [r \in Request |-> IF Recorded(r) THEN result[r]
                                   ELSE [status |-> "absent", by |-> None]]

Lease == INSTANCE LeasedQueue WITH
  Known  <- {Queued[k] : k \in 1 .. Len(Queued)},
  known  <- {requests[k] : k \in 1 .. Len(requests)},
  given  <- taken,
  held   <- heldRequests,
  opened <- {<<u.request, u.by>> : u \in pulls},
  answer <- answers

\* Claim files, leases, results and commands make a queue of leased requests:
\* a process has one request at a time, none twice, and answers it once.
ImplementsLeasedQueue == Lease!Spec

\* A file its writer left empty or garbled: claimNext throws on it for ever.
Writing(p) == pc[p] \in {"writing", "rewriting", "recording"}
Wedged ==
  /\ \E r \in Request : claim[r] = "torn" \/ result[r].status = "torn"
  /\ ~\E p \in Process : Writing(p)

DaemonAtWork ==
  \E p \in Process : cmd[p] = "daemon" /\ pc[p] # "ended"

\* A daemon that goes on polling answers every request of the queue, those
\* that others claimed and died with too, unless a writer died on an empty
\* file (claimNext, isClaimActive, runQueueDaemon).
EveryRequestAnswered ==
  <>[](DaemonAtWork /\ ~Wedged) =>
    \A r \in Request : Enqueued(r) ~> Recorded(r)
=============================================================================
