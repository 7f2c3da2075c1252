------------------------------ MODULE AgentLoop ------------------------------
(***************************************************************************)
(* The agent of packages/gdk-agent: the loop of runLoop (agent-loop.ts) as *)
(* an Agent (agent.ts) runs it, with its two queues of messages, its       *)
(* transcript and the tools that a run leaves to work side by side.        *)
(*                                                                         *)
(* The loop keeps a context of its own, copied from the transcript when a  *)
(* run begins: what the model is sent comes from the context, what the     *)
(* client sees and the next run starts from is the transcript, which grows *)
(* by the events.  Each step goes from one await to the next; the client   *)
(* may call the agent at any of them.  Model, tools, hooks and listeners   *)
(* are external.                                                           *)
(***************************************************************************)
EXTENDS Integers, FiniteSets, Sequences, SequencesExt

CONSTANTS
  None,
  MaxMessages, \* bound: messages the client sends, numbered as they come
  MaxCalls,    \* bound: tool calls the model makes altogether
  MaxFaults    \* bound: what throws, answers that fail, resets of a run

ASSUME AgentAssumption ==
  /\ MaxMessages \in Nat /\ MaxCalls \in Nat /\ MaxFaults \in Nat
  /\ None \notin 0 .. MaxMessages

VARIABLES
  pc,          \* where the run is, "idle" without one
  pending,     \* pendingMessages, or the prompts still to be emitted
  more,        \* hasMoreToolCalls
  skip,        \* skipInitialSteeringPoll
  parallel,    \* toolExecution, as the run found it
  context,     \* currentContext.messages
  transcript,  \* _state.messages
  queue,       \* steeringQueue and followUpQueue
  batch,       \* the tool calls of the last answer
  tool,        \* what has become of each call
  results,     \* the calls of the batch that are answered, as they were
  sent, faults,
  asked,       \* history: what was put into each queue since the last reset()
               \* and neither cleared away nor lost with a failing run,
  late,        \* what was queued since the last look at the steering queue,
  torn         \* and whether reset() has cut into a run

tools   == <<batch, tool, results>>
history == <<asked, late, torn>>
vars    == <<pc, pending, more, skip, parallel, context, transcript, queue,
             tools, sent, faults, history>>

Message  == 1 .. MaxMessages
Restored == 0   \* the message of a transcript the agent was made with
Queue  == {"steer", "follow"}
Call   == 1 .. MaxCalls
Status == {"none", "asked", "announced", "prepared", "running", "returned", "answered"}
Place  == {"idle", "prompting", "polling", "turn", "calling", "tools",
           "following", "ending", "failing"}

Entry ==
  [role : {"user", "assistant", "result", "error"},
   message : Message \cup {Restored, None}, calls : Seq(Call)]

User(m)        == [role |-> "user", message |-> m, calls |-> <<>>]
Assistant(cs)  == [role |-> "assistant", message |-> None, calls |-> cs]
Result(c)      == [role |-> "result", message |-> None, calls |-> <<c>>]
Failure        == [role |-> "error", message |-> None, calls |-> <<>>]
Users(ms)      == [i \in DOMAIN ms |-> User(ms[i])]
Results(cs)    == [i \in DOMAIN cs |-> Result(cs[i])]

\* Queues, transcripts, calls and histories keep their types, through resets.
TypeOK ==
  /\ pc \in Place /\ pending \in Seq(Message)
  /\ more \in BOOLEAN /\ skip \in BOOLEAN /\ parallel \in BOOLEAN
  /\ context \in Seq(Entry) /\ transcript \in Seq(Entry)
  /\ queue \in [Queue -> Seq(Message)]
  /\ batch \in Seq(Call) /\ tool \in [Call -> Status] /\ results \in Seq(Call)
  /\ sent \in 0 .. MaxMessages /\ faults \in 0 .. MaxFaults
  /\ asked \in [Queue -> SUBSET Message] /\ late \subseteq Message /\ torn \in BOOLEAN

Init ==
  /\ pc = "idle" /\ pending = <<>>
  /\ more = TRUE /\ skip = FALSE /\ parallel = TRUE
  /\ context = <<>> /\ transcript \in {<<>>, <<User(Restored)>>}
  /\ queue = [q \in Queue |-> <<>>]
  /\ batch = <<>> /\ tool = [c \in Call |-> "none"] /\ results = <<>>
  /\ sent = 0 /\ faults = 0
  /\ asked = [q \in Queue |-> {}] /\ late = {} /\ torn = FALSE

SpendFault == faults < MaxFaults /\ faults' = faults + 1
Send(m)   == m = sent + 1 /\ sent' = m
Drop(gone) == asked' = [q \in Queue |-> asked[q] \ gone]
----------------------------------------------------------------------------
(* PendingMessageQueue *)

\* steer(), followUp()
Enqueue(q, m) ==
  /\ Send(m)
  /\ queue' = [queue EXCEPT ![q] = Append(@, m)]
  /\ asked' = [asked EXCEPT ![q] = @ \cup {m}]
  /\ late' = late \cup {m}
  /\ UNCHANGED <<pc, pending, more, skip, parallel, context, transcript, tools,
                 faults, torn>>

\* clearSteeringQueue(), clearFollowUpQueue()
Clear(q) ==
  /\ queue[q] # <<>>
  /\ queue' = [queue EXCEPT ![q] = <<>>]
  /\ Drop(Range(queue[q]))
  /\ UNCHANGED <<pc, pending, more, skip, parallel, context, transcript, tools,
                 sent, faults, late, torn>>

\* Mutant: the first of an empty queue is taken.
Drains_Unchecked(s) == IF s = <<>> THEN {<<>>, <<None>>} ELSE {s, <<Head(s)>>}

\* What drain() may take: the mode, which may be set at any time, decides.
Drains(s) == IF s = <<>> THEN {<<>>} ELSE {s, <<Head(s)>>}

\* Mutant: the first message stays in the queue.
Drained_Kept(q, ms) == queue' = queue

Drained(q, ms) ==
  queue' = [queue EXCEPT ![q] = SubSeq(@, Len(ms) + 1, Len(@))]
----------------------------------------------------------------------------
(* Agent: a run begins and ends *)

\* runWithLifecycle with runAgentLoop, or runAgentLoopContinue if there are
\* no prompts: the context is a copy of the transcript, with the prompts.
Begin(prompts) ==
  /\ pc = "idle"
  /\ pc' = IF prompts = <<>> THEN "polling" ELSE "prompting"
  /\ pending' = prompts
  /\ more' = TRUE
  /\ parallel' \in BOOLEAN
  /\ context' = transcript \o Users(prompts)
  /\ UNCHANGED <<transcript, tools, faults, history>>

Prompt(m) ==
  /\ Send(m)
  /\ Begin(<<m>>)
  /\ skip' = FALSE
  /\ UNCHANGED queue

LastRole == IF transcript = <<>> THEN "none" ELSE Last(transcript).role

\* continue(): the queues first, once the model has had the last word.
ContinueQueued(q) ==
  /\ LastRole \in {"assistant", "error"}
  /\ q = "follow" => queue["steer"] = <<>>
  /\ queue[q] # <<>>
  /\ \E ms \in Drains(queue[q]) : Begin(ms) /\ Drained(q, ms)
  /\ skip' = (q = "steer")
  /\ UNCHANGED sent

Continue ==
  /\ LastRole \in {"user", "result"}
  /\ Begin(<<>>)
  /\ skip' = FALSE
  /\ UNCHANGED <<queue, sent>>

\* finishRun: nothing of the run is left but a tool that it started.
Finish ==
  /\ pc \in {"ending", "failing"}
  /\ pc' = "idle"
  /\ more' = TRUE /\ skip' = FALSE /\ parallel' = TRUE
  /\ context' = <<>> /\ batch' = <<>> /\ results' = <<>> /\ late' = {}
  /\ UNCHANGED <<pending, transcript, queue, tool, sent, faults, asked, torn>>

\* Mutant: the calls still to be prepared are forgotten.
Unanswered_Begun == {i \in DOMAIN batch : tool[batch[i]] \in {"running", "returned"}}

\* The loop waits for a tool; of several it takes the first in source order.
Unanswered == {i \in DOMAIN batch : tool[batch[i]] # "answered"}
First      == CHOOSE i \in Unanswered : \A j \in Unanswered : i <= j
Waits      == pc = "tools" /\ Unanswered # {} /\ tool[batch[First]] = "running"

\* A listener, a hook that has no guard, or the call of the model throws, and
\* handleRunFailure closes the run; tools that are running go on.
Throw ==
  /\ SpendFault
  /\ pc \notin {"idle", "failing"} /\ ~Waits
  /\ pc' = "failing"
  /\ transcript' = Append(transcript, Failure)
  /\ pending' = <<>>
  /\ Drop(Range(pending))
  /\ UNCHANGED <<more, skip, parallel, context, queue, tools, sent, late, torn>>

\* reset(), which does not ask whether there is a run.
Reset ==
  /\ transcript' = <<>>
  /\ queue' = [q \in Queue |-> <<>>]
  /\ Drop(Message \ Range(pending))
  /\ torn' = (pc # "idle")
  /\ IF pc = "idle" THEN UNCHANGED faults ELSE SpendFault
  /\ UNCHANGED <<pc, pending, more, skip, parallel, context, tools, sent, late>>
----------------------------------------------------------------------------
(* runLoop *)

Deliver(m) ==
  /\ transcript' = Append(transcript, User(m))
  /\ pending' = Tail(pending)

\* A prompt is emitted; the context has it already.
EmitPrompt ==
  /\ pc = "prompting"
  /\ Deliver(Head(pending))
  /\ pc' = IF Tail(pending) = <<>> THEN "polling" ELSE pc
  /\ UNCHANGED <<more, skip, parallel, context, queue, tools, sent, faults, history>>

\* Mutant: what the poll brings does not keep the loop going.
AfterPoll_ToolsOnly(ms) == IF ~more THEN "following" ELSE IF ms = <<>> THEN "calling" ELSE "turn"

\* The inner loop's condition.
AfterPoll(ms) ==
  IF ms # <<>> THEN "turn" ELSE IF more THEN "calling" ELSE "following"

\* getSteeringMessages
Poll ==
  /\ pc = "polling"
  /\ \E ms \in IF skip THEN {<<>>} ELSE Drains(queue["steer"]) :
       /\ pending' = ms
       /\ Drained("steer", ms)
       /\ pc' = AfterPoll(ms)
  /\ skip' = FALSE
  /\ late' = IF skip THEN late ELSE {}
  /\ UNCHANGED <<more, parallel, context, transcript, tools, sent, faults, asked,
                 torn>>

Injected(m) == context' = Append(context, User(m))

Inject ==
  /\ pc = "turn"
  /\ Deliver(Head(pending))
  /\ Injected(Head(pending))
  /\ pc' = IF Tail(pending) = <<>> THEN "calling" ELSE pc
  /\ UNCHANGED <<more, skip, parallel, queue, tools, sent, faults, history>>

\* streamAssistantResponse ends well, with the next unused calls.
Respond(cs) ==
  /\ pc = "calling"
  /\ context' = Append(context, Assistant(cs))
  /\ transcript' = Append(transcript, Assistant(cs))
  /\ more' = (cs # <<>>)
  /\ batch' = cs /\ results' = <<>>
  /\ tool' = [c \in Call |-> IF c \in Range(cs) THEN "asked" ELSE tool[c]]
  /\ pc' = IF cs = <<>> THEN "polling" ELSE "tools"
  /\ UNCHANGED <<pending, skip, parallel, queue, sent, faults, history>>

\* It ends in an error or because of abort(): so does the run.
RespondError ==
  /\ pc = "calling"
  /\ SpendFault
  /\ context' = Append(context, Failure)
  /\ transcript' = Append(transcript, Failure)
  /\ pc' = "ending"
  /\ UNCHANGED <<pending, more, skip, parallel, queue, tools, sent, history>>

\* Mutant: the loop goes on even if there is nothing.
AfterFollowUp_Spins(ms) == IF ms = <<>> THEN "following" ELSE "turn"

AfterFollowUp(ms) == IF ms = <<>> THEN "ending" ELSE "turn"

\* getFollowUpMessages: the outer loop goes on with them, or the run is over.
FollowUp ==
  /\ pc = "following"
  /\ \E ms \in Drains(queue["follow"]) :
       /\ pending' = ms
       /\ Drained("follow", ms)
       /\ pc' = AfterFollowUp(ms)
  /\ more' = TRUE
  /\ UNCHANGED <<skip, parallel, context, transcript, tools, sent, faults, history>>
----------------------------------------------------------------------------
(* executeToolCalls *)

Becomes(c, status) == tool' = [tool EXCEPT ![c] = status]

LoopKept ==
  UNCHANGED <<pc, pending, more, skip, parallel, context, queue, batch, sent, faults,
              history>>

\* emitToolCallOutcome
Answered(c) ==
  /\ Becomes(c, "answered")
  /\ results' = Append(results, c)
  /\ transcript' = Append(transcript, Result(c))

\* tool_execution_start of call i: one by one, and where tools are executed in
\* sequence after the answer to the call before.
Announce(i) ==
  /\ pc = "tools" /\ i \in DOMAIN batch
  /\ tool[batch[i]] = "asked"
  /\ \A j \in 1 .. i - 1 : tool[batch[j]] \in
       IF parallel THEN {"prepared", "answered"} ELSE {"answered"}
  /\ Becomes(batch[i], "announced")
  /\ LoopKept /\ UNCHANGED <<transcript, results>>

\* prepareToolCall: the call may run,
Prepare(i) ==
  /\ pc = "tools" /\ i \in DOMAIN batch
  /\ tool[batch[i]] = "announced"
  /\ Becomes(batch[i], "prepared")
  /\ LoopKept /\ UNCHANGED <<transcript, results>>

\* or it is answered at once: no such tool, bad arguments, blocked.
Refuse(i) ==
  /\ pc = "tools" /\ i \in DOMAIN batch
  /\ tool[batch[i]] = "announced"
  /\ Answered(batch[i])
  /\ LoopKept

\* All that are prepared begin together, or each as soon as it is.
Launch ==
  /\ pc = "tools"
  /\ \E c \in Range(batch) : tool[c] = "prepared"
  /\ parallel => \A c \in Range(batch) : tool[c] \in {"prepared", "answered"}
  /\ tool' = [c \in Call |-> IF c \in Range(batch) /\ tool[c] = "prepared"
                             THEN "running" ELSE tool[c]]
  /\ LoopKept /\ UNCHANGED <<transcript, results>>

\* execute() settles, perhaps after its run.
Return(c) ==
  /\ tool[c] = "running"
  /\ Becomes(c, "returned")
  /\ LoopKept /\ UNCHANGED <<transcript, results>>

\* finalizeExecutedToolCall: in source order.
Finalize(i) ==
  /\ pc = "tools" /\ i \in DOMAIN batch
  /\ tool[batch[i]] = "returned"
  /\ i = First
  /\ Answered(batch[i])
  /\ LoopKept

\* Mutant: the results are put back into source order.
Collected_Sorted == batch

Collected == results

\* The results go into the context and the turn ends.
EndTurn ==
  /\ pc = "tools" /\ Unanswered = {}
  /\ context' = context \o Results(Collected)
  /\ pc' = "polling"
  /\ UNCHANGED <<pending, more, skip, parallel, transcript, queue, tools, sent,
                 faults, history>>
----------------------------------------------------------------------------
\* Answers make the calls in order.
Made     == Cardinality({c \in Call : tool[c] # "none"})
NewCalls == {[i \in 1 .. n |-> Made + i] : n \in 0 .. MaxCalls - Made}

Answer == \E cs \in NewCalls : Respond(cs)

ToolStep ==
  \/ \E i \in DOMAIN batch : Announce(i) \/ Prepare(i) \/ Refuse(i) \/ Finalize(i)
  \/ Launch \/ EndTurn

RunStep == EmitPrompt \/ Poll \/ Inject \/ FollowUp \/ ToolStep \/ Finish

Client ==
  \/ \E m \in Message : Prompt(m) \/ \E q \in Queue : Enqueue(q, m)
  \/ \E q \in Queue : Clear(q) \/ ContinueQueued(q)
  \/ Continue \/ Reset

Next ==
  \/ Client \/ RunStep \/ Answer \/ RespondError \/ Throw
  \/ \E c \in Call : Return(c)

Spec == Init /\ [][Next]_vars

\* Promises of the loop settle, the model answers and tools return.
FairSpec ==
  /\ Spec
  /\ WF_vars(RunStep) /\ WF_vars(Answer)
  /\ \A c \in Call : WF_vars(Return(c))
----------------------------------------------------------------------------
(* Properties *)

\* Whenever the model is called it is sent the transcript the client sees,
\* though the two are kept apart and grow at different points of the loop; a
\* reset() during a run breaks this (currentContext, processEvents).
ContextIsTranscript == pc = "calling" /\ ~torn => context = transcript

\* What a conversation and the messages still to come make together.
Line(q) == transcript \o Users(pending) \o Users(queue[q])

\* Messages are numbered as they are sent: in order is by number.
SaidIn(s, ms) == {i \in DOMAIN s : s[i].role = "user" /\ s[i].message \in ms}
InOrderOnce(s, ms) ==
  /\ \A m \in ms : \E i \in SaidIn(s, ms) : s[i].message = m
  /\ \A i, j \in SaidIn(s, ms) : i < j => s[i].message < s[j].message

\* A message that was queued is in its queue, taken by the loop, or in the
\* conversation, once and in the order of the queue, however the runs end;
\* only clearing and a run that failed while it held the message lose it
\* (drain, pendingMessages, continue).
DeliveredOnceInOrder ==
  \A q \in Queue : InOrderOnce(Line(q), asked[q]) /\ Range(queue[q]) \subseteq asked[q]

RoleAt(s, i) == IF i \in DOMAIN s THEN s[i].role ELSE "none"

\* Entries i + 1 .. i + n are results of different calls of entry i.
Answers(s, i, n) ==
  /\ i + n <= Len(s)
  /\ \A j \in 1 .. n : \E c \in Range(s[i].calls) : s[i + j] = Result(c)
  /\ \A j, k \in 1 .. n : s[i + j] = s[i + k] => j = k

AnsweredAt(s, i) ==
  /\ s[i].role = "assistant" =>
       \E n \in 0 .. Len(s[i].calls) :
         /\ Answers(s, i, n)
         /\ RoleAt(s, i + n + 1) # "result"
         /\ n < Len(s[i].calls) => RoleAt(s, i + n + 1) = "error"
  /\ s[i].role = "result" => RoleAt(s, i - 1) \in {"assistant", "result"}

\* The model is never called with a call of its own left open: each answer's
\* calls are followed by a result for each, once, and by nothing else before;
\* only the failure of a run cuts this short (executeToolCalls, runLoop).
CallsAnswered ==
  pc = "calling" /\ ~torn => \A i \in DOMAIN context : AnsweredAt(context, i)

\* A run stops of its own accord only when nothing was left for it: no
\* follow-up, and no steering message but what came after its last look at
\* that queue, which then waits for another run (runLoop).
NoneOverlooked ==
  [][pc = "following" /\ pc' = "ending" =>
       queue["follow"] = <<>> /\ Range(queue["steer"]) \subseteq late]_vars

\* A run ends, whatever the client, its hooks and its tools do, if only the
\* model answers and tools return: the two queues, the tools in sequence or in
\* parallel and a listener that throws never leave it waiting (runLoop).
EveryRunEnds == pc # "idle" ~> pc = "idle"
=============================================================================
