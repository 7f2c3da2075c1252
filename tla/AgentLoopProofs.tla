---------------------------- MODULE AgentLoopProofs ----------------------------
(***************************************************************************)
(* The safety properties of AgentLoop, for any number of messages, tool    *)
(* calls and faults.                                                       *)
(*                                                                         *)
(* The context and the transcript grow at different points of the loop.    *)
(* Mirror says by how much they differ at each: by the prompts still to be *)
(* emitted, or by the tool results not yet collected; where the model is   *)
(* called, by nothing.                                                     *)
(*                                                                         *)
(* A run may only come to its end with a steering message in the queue if  *)
(* it looked before the message came.  The one poll that is skipped is no  *)
(* exception, because a run that skips it still has the model to call      *)
(* (Skipping).                                                             *)
(*                                                                         *)
(* What was queued moves from the queue to the messages the loop holds and *)
(* from there into the conversation, always from the head of one to the    *)
(* end of the other (Parts, Delivery).                                     *)
(*                                                                         *)
(* The conversation is closed, every call of the model answered, except    *)
(* while tools are at work: then it ends in the answer and as many results *)
(* as there are tools that were answered (Turn, Answering).                *)
(***************************************************************************)
EXTENDS AgentLoop, FiniteSetTheorems, SequenceTheorems, TLAPS

Typed ==
  /\ pc \in Place /\ pending \in Seq(Message)
  /\ context \in Seq(Entry) /\ transcript \in Seq(Entry)
  /\ queue \in [Queue -> Seq(Message)]
  /\ batch \in Seq(Call) /\ results \in Seq(Call)

\* A run that delivers messages has one to deliver.
HasPending == pc \in {"prompting", "turn"} => pending # <<>>

Mirror ==
  ~torn =>
    /\ pc = "prompting" => context = transcript \o Users(pending)
    /\ pc = "tools" => transcript = context \o Results(results)
    /\ pc \in {"polling", "turn", "calling", "following"} => context = transcript

Skipping == skip => more /\ pc \in {"prompting", "polling", "ending", "failing"}

\* Before a run looks at the follow-ups it looked at the steering queue.
Looked == pc = "following" => Range(queue["steer"]) \subseteq late

LoopInv == Typed /\ HasPending /\ Mirror /\ Skipping /\ Looked

USE DEF tools, history
----------------------------------------------------------------------------
(* Entries and sequences of them *)

LEMMA EntryTypes ==
  /\ \A m \in Message : User(m) \in Entry
  /\ \A c \in Call : Result(c) \in Entry
  /\ \A cs \in Seq(Call) : Assistant(cs) \in Entry
  /\ Failure \in Entry
  /\ User(Restored) \in Entry
BY DEF Entry, User, Result, Assistant, Failure, Restored

LEMMA UsersType == \A ms \in Seq(Message) : Users(ms) \in Seq(Entry) /\ Len(Users(ms)) = Len(ms)
<1> SUFFICES ASSUME NEW ms \in Seq(Message)
             PROVE  Users(ms) \in Seq(Entry) /\ Len(Users(ms)) = Len(ms)
  OBVIOUS
<1>1. DOMAIN ms = 1 .. Len(ms) /\ Len(ms) \in Nat
  OBVIOUS
<1>2. Users(ms) \in [1 .. Len(ms) -> Entry]
  BY <1>1, EntryTypes DEF Users
<1> QED BY <1>1, <1>2

LEMMA ResultsType == \A cs \in Seq(Call) : Results(cs) \in Seq(Entry) /\ Len(Results(cs)) = Len(cs)
<1> SUFFICES ASSUME NEW cs \in Seq(Call)
             PROVE  Results(cs) \in Seq(Entry) /\ Len(Results(cs)) = Len(cs)
  OBVIOUS
<1>1. DOMAIN cs = 1 .. Len(cs) /\ Len(cs) \in Nat
  OBVIOUS
<1>2. Results(cs) \in [1 .. Len(cs) -> Entry]
  BY <1>1, EntryTypes DEF Results
<1> QED BY <1>1, <1>2

\* One prompt after the other: the head is emitted, the tail remains.
LEMMA UsersHeadTail ==
  ASSUME NEW s \in Seq(Entry), NEW ms \in Seq(Message), ms # <<>>
  PROVE  s \o Users(ms) = Append(s, User(Head(ms))) \o Users(Tail(ms))
<1>1. /\ Tail(ms) \in Seq(Message) /\ Head(ms) \in Message
      /\ Len(Tail(ms)) = Len(ms) - 1 /\ Len(ms) \in Nat \ {0}
  OBVIOUS
<1>2. /\ Users(ms) \in Seq(Entry) /\ Len(Users(ms)) = Len(ms)
      /\ Users(Tail(ms)) \in Seq(Entry) /\ Len(Users(Tail(ms))) = Len(ms) - 1
  BY <1>1, UsersType
<1>3. \A i \in 1 .. Len(ms) : Users(ms)[i] = User(ms[i])
  BY DEF Users
<1>4. \A i \in 1 .. Len(ms) - 1 : Users(Tail(ms))[i] = User(ms[i + 1])
  BY <1>1 DEF Users
<1>5. Append(s, User(Head(ms))) \in Seq(Entry)
  BY <1>1, EntryTypes
<1> DEFINE l == s \o Users(ms)
           r == Append(s, User(Head(ms))) \o Users(Tail(ms))
<1>6. l \in Seq(Entry) /\ r \in Seq(Entry) /\ Len(l) = Len(s) + Len(ms) /\ Len(r) = Len(l)
  BY <1>1, <1>2, <1>5
<1>7. \A i \in 1 .. Len(l) : l[i] = r[i]
  <2> TAKE i \in 1 .. Len(l)
  <2>1. CASE i <= Len(s)
    BY <1>1, <1>2, <1>5, <1>6, <2>1
  <2>2. CASE i = Len(s) + 1
    BY <1>1, <1>2, <1>3, <1>5, <1>6, <2>2
  <2>3. CASE i > Len(s) + 1
    <3> DEFINE k == i - Len(s)
    <3>1. k \in 2 .. Len(ms)
      BY <1>1, <1>6, <2>3
    <3>2. l[i] = Users(ms)[k]
      BY <1>2, <1>6, <2>3, <3>1
    <3>3. r[i] = Users(Tail(ms))[k - 1]
      BY <1>1, <1>2, <1>5, <1>6, <2>3, <3>1
    <3>4. k \in 1 .. Len(ms) /\ k - 1 \in 1 .. Len(ms) - 1 /\ k - 1 + 1 = k
      BY <3>1, <1>1
    <3> QED BY <3>2, <3>3, <3>4, <1>3, <1>4
  <2> QED BY <1>6, <2>1, <2>2, <2>3
<1> QED BY <1>6, <1>7, SeqEqual

LEMMA ResultsAppend ==
  ASSUME NEW s \in Seq(Entry), NEW cs \in Seq(Call), NEW c \in Call
  PROVE  s \o Results(Append(cs, c)) = Append(s \o Results(cs), Result(c))
<1>1. Append(cs, c) \in Seq(Call) /\ Len(Append(cs, c)) = Len(cs) + 1 /\ Len(cs) \in Nat
  OBVIOUS
<1>2. /\ Results(cs) \in Seq(Entry) /\ Len(Results(cs)) = Len(cs)
      /\ Results(Append(cs, c)) \in Seq(Entry) /\ Len(Results(Append(cs, c))) = Len(cs) + 1
  BY <1>1, ResultsType
<1>3. Results(Append(cs, c)) = Append(Results(cs), Result(c))
  <2>1. Append(Results(cs), Result(c)) \in Seq(Entry)
    BY <1>2, EntryTypes
  <2>2. \A i \in 1 .. Len(cs) + 1 : Results(Append(cs, c))[i] = Result(Append(cs, c)[i])
    BY <1>1 DEF Results
  <2>3. \A i \in 1 .. Len(cs) : Results(cs)[i] = Result(cs[i])
    BY DEF Results
  <2>4. \A i \in 1 .. Len(cs) + 1 : Results(Append(cs, c))[i] = Append(Results(cs), Result(c))[i]
    <3> TAKE i \in 1 .. Len(cs) + 1
    <3>1. CASE i <= Len(cs)
      BY <1>1, <1>2, <2>2, <2>3, <3>1
    <3>2. CASE i = Len(cs) + 1
      BY <1>1, <1>2, <2>2, <3>2
    <3>3. i <= Len(cs) \/ i = Len(cs) + 1
      BY <1>1
    <3> QED BY <3>1, <3>2, <3>3
  <2>5. Len(Append(Results(cs), Result(c))) = Len(cs) + 1
    BY <1>2
  <2> QED BY <1>1, <1>2, <2>1, <2>4, <2>5, SeqEqual
<1>4. Result(c) \in Entry
  BY EntryTypes
<1> QED BY <1>2, <1>3, <1>4
----------------------------------------------------------------------------
LEMMA LoopInvInit == Init => LoopInv
<1> SUFFICES ASSUME Init PROVE LoopInv
  OBVIOUS
<1>1. transcript \in Seq(Entry)
  <2>1. <<>> \in Seq(Entry) /\ <<User(Restored)>> \in Seq(Entry)
    BY EntryTypes
  <2> QED BY <2>1 DEF Init
<1>2. Typed
  BY <1>1 DEF Init, Typed, Place
<1> QED BY <1>2 DEF Init, LoopInv, HasPending, Mirror, Skipping, Looked

----------------------------------------------------------------------------
(* What the queues give and keep *)

LEMMA DrainsType ==
  ASSUME NEW s \in Seq(Message), NEW ms \in Drains(s)
  PROVE  ms \in Seq(Message) /\ (ms = <<>> <=> s = <<>>)
<1>1. CASE s = <<>>
  BY <1>1 DEF Drains
<1>2. CASE s # <<>>
  <2>1. Head(s) \in Message
    BY <1>2
  <2>2. <<Head(s)>> \in Seq(Message) /\ <<Head(s)>> # <<>>
    BY <2>1
  <2>3. ms = s \/ ms = <<Head(s)>>
    BY <1>2 DEF Drains
  <2> QED BY <1>2, <2>2, <2>3, Zenon
<1> QED BY <1>1, <1>2

LEMMA DrainedType ==
  ASSUME Typed, NEW q \in Queue, NEW ms \in Drains(queue[q]), Drained(q, ms)
  PROVE  /\ queue' \in [Queue -> Seq(Message)]
         /\ ms = <<>> => queue' = queue
<1>1. queue[q] \in Seq(Message) /\ ms \in Seq(Message)
  BY DrainsType DEF Typed
<1>2. SubSeq(queue[q], Len(ms) + 1, Len(queue[q])) \in Seq(Message)
  <2>1. Len(ms) + 1 \in Int /\ Len(queue[q]) \in Int /\ Len(ms) + 1 >= 1
    BY <1>1
  <2>2. \A i \in Len(ms) + 1 .. Len(queue[q]) : queue[q][i] \in Message
    BY <1>1, <2>1
  <2> QED BY <2>1, <2>2, SubSeqProperties, Zenon
<1>3. queue' = [queue EXCEPT ![q] = SubSeq(queue[q], Len(ms) + 1, Len(queue[q]))]
  BY DEF Drained
<1>4. queue' \in [Queue -> Seq(Message)]
  BY <1>2, <1>3 DEF Typed
<1>5. ASSUME ms = <<>> PROVE queue' = queue
  <2>1. SubSeq(queue[q], 1, Len(queue[q])) = queue[q]
    BY <1>1, SubSeqFull
  <2>2. Len(ms) + 1 = 1
    BY <1>5
  <2> QED BY <1>3, <2>1, <2>2 DEF Typed
<1> QED BY <1>4, <1>5

LEMMA NewCallsType == NewCalls \subseteq Seq(Call)
<1>1. IsFiniteSet(Call)
  BY FS_Interval, AgentAssumption DEF Call
<1>2. Made \in Nat
  BY <1>1, FS_Subset, FS_CardinalityType DEF Made
<1> SUFFICES ASSUME NEW n \in 0 .. MaxCalls - Made
             PROVE  [i \in 1 .. n |-> Made + i] \in Seq(Call)
  BY DEF NewCalls
<1>3. n \in Nat /\ [i \in 1 .. n |-> Made + i] \in [1 .. n -> Call]
  BY <1>2, AgentAssumption DEF Call
<1> QED BY <1>3
----------------------------------------------------------------------------
(* Every step keeps the invariant *)

\* A run begins.
LEMMA BeginKeeps ==
  ASSUME LoopInv, NEW prompts \in Seq(Message), Begin(prompts),
         queue' \in [Queue -> Seq(Message)], skip' \in BOOLEAN
  PROVE  LoopInv'
<1>1. Users(prompts) \in Seq(Entry)
  BY UsersType
<1>2. Typed'
  BY <1>1 DEF Begin, LoopInv, Typed, Place
<1>3. HasPending'
  BY DEF Begin, HasPending
<1>4. Mirror'
  <2>1. CASE prompts # <<>>
    BY <2>1 DEF Begin, Mirror
  <2>2. CASE prompts = <<>>
    <3>1. Users(prompts) = <<>>
      <4>1. Len(Users(prompts)) = Len(prompts)
        BY UsersType
      <4>2. Len(prompts) = 0
        BY <2>2
      <4> QED BY <1>1, <4>1, <4>2, EmptySeq
    <3>2. context' = transcript
      BY <3>1 DEF Begin, LoopInv, Typed
    <3> QED BY <2>2, <3>2 DEF Begin, Mirror
  <2> QED BY <2>1, <2>2
<1>5. Skipping'
  BY DEF Begin, Skipping
<1>6. Looked'
  BY DEF Begin, Looked
<1> QED BY <1>2, <1>3, <1>4, <1>5, <1>6 DEF LoopInv

LEMMA ClientKeeps == LoopInv /\ Client => LoopInv'
<1> SUFFICES ASSUME LoopInv, Client PROVE LoopInv'
  OBVIOUS
<1>1. ASSUME NEW m \in Message, Prompt(m) PROVE LoopInv'
  <2>1. <<m>> \in Seq(Message)
    OBVIOUS
  <2> QED BY <1>1, <2>1, BeginKeeps DEF Prompt, LoopInv, Typed
<1>2. ASSUME NEW m \in Message, NEW q \in Queue, Enqueue(q, m) PROVE LoopInv'
  <2>1. Typed'
    BY <1>2 DEF Enqueue, LoopInv, Typed
  <2>2. Looked'
    <3> SUFFICES ASSUME pc = "following"
                 PROVE  Range(queue'["steer"]) \subseteq late'
      BY <1>2 DEF Enqueue, Looked
    <3>1. queue["steer"] \in Seq(Message) /\ Range(queue["steer"]) \subseteq late
      BY DEF LoopInv, Typed, Looked, Queue
    <3>2. queue'["steer"] \in {queue["steer"], Append(queue["steer"], m)}
      BY <1>2 DEF Enqueue, LoopInv, Typed, Queue
    <3>3. Range(Append(queue["steer"], m)) \subseteq Range(queue["steer"]) \cup {m}
      BY <3>1 DEF Range
    <3> QED BY <1>2, <3>1, <3>2, <3>3 DEF Enqueue
  <2> QED BY <1>2, <2>1, <2>2 DEF Enqueue, LoopInv, HasPending, Mirror, Skipping
<1>3. ASSUME NEW q \in Queue, Clear(q) PROVE LoopInv'
  <2>1. queue' = [queue EXCEPT ![q] = <<>>] /\ late' = late /\ pc' = pc
    BY <1>3 DEF Clear
  <2>2. Typed'
    BY <1>3, <2>1 DEF Clear, LoopInv, Typed
  <2>3. Looked'
    <3>1. queue'["steer"] \in {queue["steer"], <<>>}
      BY <2>1 DEF LoopInv, Typed, Queue
    <3>2. Range(<<>>) = {}
      BY DEF Range
    <3> QED BY <2>1, <3>1, <3>2 DEF Looked, LoopInv
  <2> QED BY <1>3, <2>2, <2>3 DEF Clear, LoopInv, HasPending, Mirror, Skipping
<1>4. ASSUME NEW q \in Queue, ContinueQueued(q) PROVE LoopInv'
  <2>1. PICK ms \in Drains(queue[q]) : Begin(ms) /\ Drained(q, ms)
    BY <1>4 DEF ContinueQueued
  <2>2. ms \in Seq(Message)
    BY DrainsType DEF LoopInv, Typed
  <2>3. queue' \in [Queue -> Seq(Message)]
    BY <2>1, DrainedType DEF LoopInv
  <2>4. skip' \in BOOLEAN
    BY <1>4 DEF ContinueQueued
  <2> QED BY <2>1, <2>2, <2>3, <2>4, BeginKeeps
<1>5. ASSUME Continue PROVE LoopInv'
  <2>1. <<>> \in Seq(Message)
    OBVIOUS
  <2> QED BY <1>5, <2>1, BeginKeeps DEF Continue, LoopInv, Typed
<1>6. ASSUME Reset PROVE LoopInv'
  <2>1. /\ transcript' = <<>> /\ queue' = [q \in Queue |-> <<>>]
        /\ torn' = (pc # "idle")
        /\ UNCHANGED <<pc, pending, more, skip, context, tools, late>>
    BY <1>6 DEF Reset
  <2>2. Typed'
    BY <2>1 DEF LoopInv, Typed
  <2>3. Mirror'
    BY <2>1 DEF Mirror
  <2>4. Looked'
    <3>1. queue'["steer"] = <<>> /\ Range(<<>>) = {}
      BY <2>1 DEF Queue, Range
    <3> QED BY <3>1 DEF Looked
  <2> QED BY <2>1, <2>2, <2>3, <2>4 DEF LoopInv, HasPending, Skipping
<1> QED BY <1>1, <1>2, <1>3, <1>4, <1>5, <1>6 DEF Client

\* Prompts, messages injected, polls: the run moves on by its messages.
LEMMA MessagesKeep == LoopInv /\ (EmitPrompt \/ Poll \/ Inject \/ FollowUp) => LoopInv'
<1> SUFFICES ASSUME LoopInv, EmitPrompt \/ Poll \/ Inject \/ FollowUp PROVE LoopInv'
  OBVIOUS
<1>1. CASE EmitPrompt
  <2>1. pending # <<>> /\ pending \in Seq(Message) /\ transcript \in Seq(Entry)
    BY <1>1 DEF EmitPrompt, LoopInv, HasPending, Typed
  <2>2. Head(pending) \in Message /\ Tail(pending) \in Seq(Message)
    BY <2>1
  <2>3. /\ transcript' = Append(transcript, User(Head(pending)))
        /\ pending' = Tail(pending)
        /\ pc = "prompting" /\ pc' = IF Tail(pending) = <<>> THEN "polling" ELSE pc
        /\ UNCHANGED <<more, skip, context, queue, tools, torn, late>>
    BY <1>1 DEF EmitPrompt, Deliver
  <2>4. transcript' \in Seq(Entry)
    BY <2>1, <2>2, <2>3, EntryTypes
  <2>5. Typed'
    BY <2>2, <2>3, <2>4 DEF LoopInv, Typed, Place
  <2>6. Mirror'
    <3> SUFFICES ASSUME ~torn
                 PROVE  /\ pc' = "prompting" => context = transcript' \o Users(pending')
                        /\ pc' = "polling" => context = transcript'
      BY <2>3 DEF Mirror
    <3>1. context = transcript' \o Users(pending')
      BY <2>1, <2>3, UsersHeadTail DEF LoopInv, Mirror
    <3>2. CASE Tail(pending) = <<>>
      <4>1. Users(pending') = <<>>
        BY <2>3, <3>2 DEF Users
      <4>2. transcript' \o <<>> = transcript'
        BY <2>4, ConcatEmptySeq
      <4> QED BY <2>3, <3>1, <3>2, <4>1, <4>2
    <3> QED BY <2>3, <3>1, <3>2
  <2> QED
    BY <2>3, <2>5, <2>6 DEF LoopInv, HasPending, Skipping, Looked
<1>2. CASE Poll
  <2>1. PICK ms \in IF skip THEN {<<>>} ELSE Drains(queue["steer"]) :
          pending' = ms /\ Drained("steer", ms) /\ pc' = AfterPoll(ms)
    BY <1>2 DEF Poll
  <2>2. /\ pc = "polling" /\ skip' = FALSE
        /\ late' = IF skip THEN late ELSE {}
        /\ UNCHANGED <<more, context, transcript, tools, torn>>
    BY <1>2 DEF Poll
  <2>3. /\ ms \in Seq(Message) /\ queue' \in [Queue -> Seq(Message)]
        /\ ~skip /\ ms = <<>> => queue["steer"] = <<>> /\ queue' = queue
    <3>1. queue["steer"] \in Seq(Message) /\ "steer" \in Queue
      BY DEF LoopInv, Typed, Queue
    <3>2. CASE skip
      <4>1. ms = <<>>
        BY <2>1, <3>2
      <4>2. queue' = [queue EXCEPT !["steer"] = SubSeq(queue["steer"], 1, Len(queue["steer"]))]
        BY <2>1, <4>1 DEF Drained
      <4>3. SubSeq(queue["steer"], 1, Len(queue["steer"])) = queue["steer"]
        BY <3>1, SubSeqFull
      <4>4. queue' = queue
        BY <4>2, <4>3 DEF LoopInv, Typed
      <4>5. ms \in Seq(Message) /\ queue' \in [Queue -> Seq(Message)]
        BY <4>1, <4>4 DEF LoopInv, Typed
      <4> QED BY <3>2, <4>5
    <3>3. CASE ~skip
      BY <2>1, <3>1, <3>3, DrainsType, DrainedType DEF LoopInv
    <3> QED BY <3>2, <3>3
  <2>4. pc' \in {"turn", "calling", "following"} /\ (pc' = "turn" <=> ms # <<>>)
    BY <2>1 DEF AfterPoll
  <2>5. Typed'
    BY <2>1, <2>2, <2>3, <2>4 DEF LoopInv, Typed, Place
  <2>6. Looked'
    <3> SUFFICES ASSUME pc' = "following" PROVE Range(queue'["steer"]) \subseteq late'
      BY DEF Looked
    <3>1. ms = <<>> /\ ~more
      BY <2>1 DEF AfterPoll
    <3>2. ~skip
      BY <3>1 DEF LoopInv, Skipping
    <3>3. queue'["steer"] = <<>> /\ Range(<<>>) = {}
      BY <2>3, <3>1, <3>2 DEF Range
    <3> QED BY <3>3
  <2>7. Mirror'
    BY <2>2, <2>4 DEF LoopInv, Mirror
  <2> QED
    BY <2>1, <2>2, <2>4, <2>5, <2>6, <2>7 DEF LoopInv, HasPending, Skipping
<1>3. CASE Inject
  <2>1. pending # <<>> /\ pending \in Seq(Message)
    BY <1>3 DEF Inject, LoopInv, HasPending, Typed
  <2>2. Head(pending) \in Message /\ Tail(pending) \in Seq(Message)
    BY <2>1
  <2>3. /\ transcript' = Append(transcript, User(Head(pending)))
        /\ context' = Append(context, User(Head(pending)))
        /\ pending' = Tail(pending)
        /\ pc = "turn" /\ pc' = IF Tail(pending) = <<>> THEN "calling" ELSE pc
        /\ UNCHANGED <<more, skip, queue, tools, torn, late>>
    BY <1>3 DEF Inject, Deliver, Injected
  <2>4. Typed'
    BY <2>2, <2>3, EntryTypes DEF LoopInv, Typed, Place
  <2>5. Mirror'
    BY <2>3 DEF LoopInv, Mirror
  <2> QED
    BY <2>3, <2>4, <2>5 DEF LoopInv, HasPending, Skipping, Looked
<1>4. CASE FollowUp
  <2>1. PICK ms \in Drains(queue["follow"]) :
          pending' = ms /\ Drained("follow", ms) /\ pc' = AfterFollowUp(ms)
    BY <1>4 DEF FollowUp
  <2>2. pc = "following" /\ more' = TRUE
        /\ UNCHANGED <<skip, context, transcript, tools, torn, late>>
    BY <1>4 DEF FollowUp
  <2>3. ms \in Seq(Message) /\ queue' \in [Queue -> Seq(Message)]
    BY <2>1, DrainsType, DrainedType DEF LoopInv, Typed, Queue
  <2>4. pc' \in {"turn", "ending"} /\ (pc' = "turn" <=> ms # <<>>)
    BY <2>1 DEF AfterFollowUp
  <2>5. Typed'
    BY <2>1, <2>2, <2>3, <2>4 DEF LoopInv, Typed, Place
  <2> QED
    BY <2>1, <2>2, <2>4, <2>5 DEF LoopInv, HasPending, Mirror, Skipping, Looked
<1> QED BY <1>1, <1>2, <1>3, <1>4

\* The answers of the model and of its tools.
LEMMA AnswersKeep == LoopInv /\ (Answer \/ RespondError \/ ToolStep) => LoopInv'
<1> SUFFICES ASSUME LoopInv, Answer \/ RespondError \/ ToolStep PROVE LoopInv'
  OBVIOUS
<1>1. ASSUME NEW cs \in NewCalls, Respond(cs) PROVE LoopInv'
  <2>1. cs \in Seq(Call)
    BY NewCallsType
  <2>2. /\ pc = "calling" /\ context' = Append(context, Assistant(cs))
        /\ transcript' = Append(transcript, Assistant(cs))
        /\ more' = (cs # <<>>) /\ batch' = cs /\ results' = <<>>
        /\ pc' = IF cs = <<>> THEN "polling" ELSE "tools"
        /\ UNCHANGED <<pending, skip, queue, torn, late>>
    BY <1>1 DEF Respond
  <2>3. Assistant(cs) \in Entry
    BY <2>1, EntryTypes
  <2>4. Typed'
    BY <2>1, <2>2, <2>3 DEF LoopInv, Typed, Place
  <2>5. Mirror'
    <3>1. Results(<<>>) = <<>>
      BY DEF Results
    <3>2. context' \o <<>> = context'
      BY <2>4, ConcatEmptySeq DEF Typed
    <3> QED BY <2>2, <3>1, <3>2 DEF LoopInv, Mirror
  <2> QED BY <2>2, <2>4, <2>5 DEF LoopInv, HasPending, Skipping, Looked
<1>2. CASE RespondError
  <2>1. Typed'
    BY <1>2, EntryTypes DEF RespondError, LoopInv, Typed, Place
  <2> QED
    BY <1>2, <2>1 DEF RespondError, LoopInv, HasPending, Mirror, Skipping, Looked
<1>3. ASSUME NEW i \in DOMAIN batch, Announce(i) \/ Prepare(i) PROVE LoopInv'
  <2>1. UNCHANGED <<pc, pending, more, skip, context, transcript, queue, batch,
                    results, torn, late>>
    BY <1>3 DEF Announce, Prepare, LoopKept
  <2> QED BY <2>1 DEF LoopInv, Typed, HasPending, Mirror, Skipping, Looked
<1>4. ASSUME NEW i \in DOMAIN batch, Refuse(i) \/ Finalize(i) PROVE LoopInv'
  <2>1. batch[i] \in Call
    BY DEF LoopInv, Typed
  <2>2. /\ pc = "tools" /\ results' = Append(results, batch[i])
        /\ transcript' = Append(transcript, Result(batch[i]))
        /\ UNCHANGED <<pc, pending, more, skip, context, queue, batch, torn, late>>
    BY <1>4 DEF Refuse, Finalize, Answered, LoopKept
  <2>3. Typed'
    BY <2>1, <2>2, EntryTypes DEF LoopInv, Typed
  <2>4. Mirror'
    BY <2>1, <2>2, ResultsAppend DEF LoopInv, Typed, Mirror
  <2> QED BY <2>2, <2>3, <2>4 DEF LoopInv, HasPending, Skipping, Looked
<1>5. CASE Launch
  BY <1>5 DEF Launch, LoopKept, LoopInv, Typed, HasPending, Mirror, Skipping, Looked
<1>6. CASE EndTurn
  <2>1. /\ pc = "tools" /\ context' = context \o Results(results) /\ pc' = "polling"
        /\ UNCHANGED <<pending, more, skip, transcript, queue, tools, torn, late>>
    BY <1>6 DEF EndTurn, Collected
  <2>2. Typed'
    BY <2>1, ResultsType DEF LoopInv, Typed, Place
  <2>3. Mirror'
    BY <2>1 DEF LoopInv, Mirror
  <2> QED BY <2>1, <2>2, <2>3 DEF LoopInv, HasPending, Skipping, Looked
<1> QED BY <1>1, <1>2, <1>3, <1>4, <1>5, <1>6 DEF Answer, ToolStep

LEMMA LoopInvStep == LoopInv /\ [Next]_vars => LoopInv'
<1> SUFFICES ASSUME LoopInv, [Next]_vars PROVE LoopInv'
  OBVIOUS
<1>1. CASE Finish
  <2>1. Typed'
    BY <1>1 DEF Finish, LoopInv, Typed, Place
  <2> QED BY <1>1, <2>1 DEF Finish, LoopInv, HasPending, Mirror, Skipping, Looked
<1>2. CASE Throw
  <2>1. Typed'
    BY <1>2, EntryTypes DEF Throw, LoopInv, Typed, Place
  <2>2. Skipping'
    BY <1>2 DEF Throw, LoopInv, Skipping
  <2> QED BY <1>2, <2>1, <2>2 DEF Throw, LoopInv, HasPending, Mirror, Looked
<1>3. ASSUME NEW c \in Call, Return(c) PROVE LoopInv'
  BY <1>3
  DEF Return, LoopKept, LoopInv, Typed, HasPending, Mirror, Skipping, Looked
<1>4. CASE UNCHANGED vars
  BY <1>4 DEF vars, LoopInv, Typed, HasPending, Mirror, Skipping, Looked
<1> QED
  BY <1>1, <1>2, <1>3, <1>4, ClientKeeps, MessagesKeep, AnswersKeep DEF Next, RunStep

LEMMA LoopInvHolds == Spec => []LoopInv
BY LoopInvInit, LoopInvStep, PTL DEF Spec
----------------------------------------------------------------------------
\* Whenever the model is called it is sent the transcript the client sees,
\* unless reset() has cut into a run: property ContextIsTranscript.
THEOREM AgentContextIsTranscript == Spec => []ContextIsTranscript
<1>1. LoopInv => ContextIsTranscript
  BY DEF LoopInv, Mirror, ContextIsTranscript
<1> QED BY <1>1, LoopInvHolds, PTL

\* A run that stops of its own accord leaves no follow-up, and no steering
\* message but what came after its last look at them: property NoneOverlooked.
THEOREM AgentNoneOverlooked == Spec => NoneOverlooked
<1>1. LoopInv /\ [Next]_vars =>
        (pc = "following" /\ pc' = "ending" =>
           queue["follow"] = <<>> /\ Range(queue["steer"]) \subseteq late)
  <2> SUFFICES ASSUME LoopInv, [Next]_vars, pc = "following", pc' = "ending"
               PROVE  queue["follow"] = <<>> /\ Range(queue["steer"]) \subseteq late
    OBVIOUS
  <2>1. FollowUp
    BY DEF Next, vars, Client, Prompt, ContinueQueued, Continue, Begin, Enqueue,
           Clear, Reset, RunStep, EmitPrompt, Poll, Inject, ToolStep, Announce,
           Prepare, Refuse, Launch, Finalize, EndTurn, LoopKept, Finish, Answer,
           Respond, RespondError, Throw, Return
  <2>2. PICK ms \in Drains(queue["follow"]) : pc' = AfterFollowUp(ms)
    BY <2>1 DEF FollowUp
  <2>3. ms = <<>>
    BY <2>2 DEF AfterFollowUp
  <2>4. queue["follow"] \in Seq(Message)
    BY DEF LoopInv, Typed, Queue
  <2> QED BY <2>2, <2>3, <2>4, DrainsType DEF LoopInv, Looked
<1> QED BY <1>1, LoopInvHolds, PTL DEF Spec, NoneOverlooked
----------------------------------------------------------------------------
(* What Typed leaves out of the type invariant. *)

Rest ==
  /\ more \in BOOLEAN /\ skip \in BOOLEAN /\ parallel \in BOOLEAN
  /\ tool \in [Call -> Status]
  /\ sent \in 0 .. MaxMessages /\ faults \in 0 .. MaxFaults
  /\ asked \in [Queue -> SUBSET Message] /\ late \subseteq Message /\ torn \in BOOLEAN

LEMMA RestInvariance == Spec => []Rest
<1>1. Init => Rest
  <2> SUFFICES ASSUME Init PROVE Rest
    OBVIOUS
  <2>1. /\ more = TRUE /\ skip = FALSE /\ parallel = TRUE /\ late = {} /\ torn = FALSE
        /\ tool = [c \in Call |-> "none"] /\ asked = [q \in Queue |-> {}]
    BY DEF Init
  <2>2. sent \in 0 .. MaxMessages /\ faults \in 0 .. MaxFaults
    BY AgentAssumption DEF Init
  <2>3. tool \in [Call -> Status]
    BY <2>1 DEF Status
  <2> QED BY <2>1, <2>2, <2>3 DEF Rest
<1>2. LoopInv /\ Rest /\ [Next]_vars => Rest'
  <2> SUFFICES ASSUME LoopInv, Rest, [Next]_vars PROVE Rest'
    OBVIOUS
  <2>1. ASSUME NEW m \in Message, Send(m) PROVE sent' \in 0 .. MaxMessages
    BY <2>1, AgentAssumption DEF Send, Message
  <2>2. ASSUME SpendFault PROVE faults' \in 0 .. MaxFaults
    BY <2>2, AgentAssumption DEF SpendFault, Rest
  <2>3. ASSUME NEW gone, Drop(gone) PROVE asked' \in [Queue -> SUBSET Message]
    BY <2>3 DEF Drop, Rest
  <2>4. ASSUME NEW m \in Message, Prompt(m) PROVE Rest'
    BY <2>1, <2>4 DEF Prompt, Begin, Rest
  <2>5. ASSUME NEW m \in Message, NEW q \in Queue, Enqueue(q, m) PROVE Rest'
    BY <2>1, <2>5 DEF Enqueue, Rest
  <2>6. ASSUME NEW q \in Queue, Clear(q) PROVE Rest'
    BY <2>3, <2>6 DEF Clear, Rest
  <2>7. ASSUME NEW q \in Queue, ContinueQueued(q) PROVE Rest'
    BY <2>7 DEF ContinueQueued, Begin, Rest
  <2>8. CASE Continue
    BY <2>8 DEF Continue, Begin, Rest
  <2>9. CASE Reset
    <3>1. faults' \in 0 .. MaxFaults
      BY <2>2, <2>9 DEF Reset, Rest
    <3>2. asked' \in [Queue -> SUBSET Message]
      BY <2>3, <2>9 DEF Reset
    <3> QED BY <2>9, <3>1, <3>2 DEF Reset, Rest
  <2>10. CASE EmitPrompt \/ Poll \/ Inject \/ FollowUp \/ Finish
    BY <2>10 DEF EmitPrompt, Poll, Inject, FollowUp, Finish, Rest
  <2>11. CASE Throw
    BY <2>2, <2>3, <2>11 DEF Throw, Rest
  <2>12. ASSUME NEW cs \in NewCalls, Respond(cs) PROVE Rest'
    <3>1. tool' \in [Call -> Status]
      BY <2>12 DEF Respond, Rest, Status
    <3> QED BY <2>12, <3>1 DEF Respond, Rest
  <2>13. CASE RespondError
    BY <2>2, <2>13 DEF RespondError, Rest
  <2>14. CASE ToolStep \/ \E c \in Call : Return(c)
    <3>1. tool' \in [Call -> Status]
      BY <2>14 DEF ToolStep, Announce, Prepare, Refuse, Finalize, Launch, EndTurn,
                   Return, Answered, Becomes, Rest, Status
    <3>2. UNCHANGED <<more, skip, parallel, sent, faults, history>>
      BY <2>14 DEF ToolStep, Announce, Prepare, Refuse, Finalize, Launch, EndTurn,
                   Return, LoopKept
    <3> QED BY <3>1, <3>2 DEF Rest
  <2>15. CASE UNCHANGED vars
    BY <2>15 DEF vars, Rest
  <2> QED
    BY <2>4, <2>5, <2>6, <2>7, <2>8, <2>9, <2>10, <2>11, <2>12, <2>13, <2>14, <2>15
    DEF Next, Client, RunStep, Answer
<1> QED BY <1>1, <1>2, LoopInvHolds, PTL DEF Spec

\* Queues, transcripts, calls and histories keep their types, whatever the
\* runs, their failures and reset() make of them: property TypeOK.
THEOREM AgentTypeOK == Spec => []TypeOK
<1>1. LoopInv /\ Rest => TypeOK
  BY DEF LoopInv, Typed, Rest, TypeOK
<1> QED BY <1>1, LoopInvHolds, RestInvariance, PTL
----------------------------------------------------------------------------
(* What was queued is delivered.  Line(q) is cut into its three parts: the *)
(* conversation t, what the loop holds p, and the queue u; ms is what was  *)
(* asked.  Each step moves messages from the head of one to the end of the *)
(* one before it.                                                          *)

Heard(t) == {m \in Message : \E i \in DOMAIN t : t[i].role = "user" /\ t[i].message = m}

Below(a, b) == \A m \in a, n \in b : m < n

Parts(t, p, u, ms) ==
  /\ ms \subseteq Heard(t) \cup Range(p) \cup Range(u)
  /\ Range(u) \subseteq ms
  /\ \A i, j \in SaidIn(t, ms) : i < j => t[i].message < t[j].message
  /\ \A i, j \in DOMAIN p : p[i] \in ms /\ p[j] \in ms /\ i < j => p[i] < p[j]
  /\ \A i, j \in DOMAIN u : i < j => u[i] < u[j]
  /\ Below(Heard(t) \cap ms, Range(p) \cap ms)
  /\ Below(Heard(t) \cap ms, Range(u))
  /\ Below(Range(p) \cap ms, Range(u))

LEMMA RangeType == \A s \in Seq(Message) : Range(s) \subseteq Message
BY DEF Range

LEMMA EmptyRange == Range(<<>>) = {}
BY DEF Range

LEMMA AppendRange ==
  ASSUME NEW s \in Seq(Message), NEW m \in Message
  PROVE  Range(Append(s, m)) = Range(s) \cup {m}
<1>1. Append(s, m) \in Seq(Message) /\ Len(Append(s, m)) = Len(s) + 1 /\ Len(s) \in Nat
  OBVIOUS
<1>2. DOMAIN s = 1 .. Len(s) /\ DOMAIN Append(s, m) = 1 .. Len(s) + 1
  BY <1>1
<1>3. \A i \in 1 .. Len(s) : Append(s, m)[i] = s[i]
  BY <1>1
<1>4. Append(s, m)[Len(s) + 1] = m
  BY <1>1
<1>5. \A i \in 1 .. Len(s) + 1 : i \in 1 .. Len(s) \/ i = Len(s) + 1
  BY <1>1
<1>6. 1 .. Len(s) \subseteq 1 .. Len(s) + 1 /\ Len(s) + 1 \in 1 .. Len(s) + 1
  BY <1>1
<1> QED BY <1>2, <1>3, <1>4, <1>5, <1>6 DEF Range

LEMMA AppendHeard ==
  ASSUME NEW t \in Seq(Entry), NEW e \in Entry
  PROVE  /\ e.role # "user" => Heard(Append(t, e)) = Heard(t)
         /\ \A m \in Message : e = User(m) => Heard(Append(t, e)) = Heard(t) \cup {m}
<1>1. Append(t, e) \in Seq(Entry) /\ Len(Append(t, e)) = Len(t) + 1 /\ Len(t) \in Nat
  OBVIOUS
<1>2. DOMAIN t = 1 .. Len(t) /\ DOMAIN Append(t, e) = 1 .. Len(t) + 1
  BY <1>1
<1>3. \A i \in 1 .. Len(t) : Append(t, e)[i] = t[i]
  BY <1>1
<1>4. Append(t, e)[Len(t) + 1] = e
  BY <1>1
<1>5. \A i \in 1 .. Len(t) + 1 : i \in 1 .. Len(t) \/ i = Len(t) + 1
  BY <1>1
<1>6. 1 .. Len(t) \subseteq 1 .. Len(t) + 1 /\ Len(t) + 1 \in 1 .. Len(t) + 1
  BY <1>1
<1>7. ASSUME e.role # "user" PROVE Heard(Append(t, e)) = Heard(t)
  BY <1>2, <1>3, <1>4, <1>5, <1>6, <1>7 DEF Heard
<1>8. ASSUME NEW m \in Message, e = User(m) PROVE Heard(Append(t, e)) = Heard(t) \cup {m}
  <2>1. e.role = "user" /\ e.message = m
    BY <1>8 DEF User
  <2> QED BY <2>1, <1>2, <1>3, <1>4, <1>5, <1>6 DEF Heard
<1> QED BY <1>7, <1>8

\* The places of the messages ms after an entry is appended.
LEMMA AppendSaid ==
  ASSUME NEW t \in Seq(Entry), NEW e \in Entry, NEW ms
  PROVE  /\ \A i \in SaidIn(Append(t, e), ms) :
              \/ i \in SaidIn(t, ms) /\ Append(t, e)[i] = t[i] /\ i < Len(t) + 1
              \/ i = Len(t) + 1 /\ e.role = "user" /\ e.message \in ms /\ Append(t, e)[i] = e
BY DEF SaidIn

\* The first message the loop holds is added to the conversation.
LEMMA PartsDeliver ==
  ASSUME NEW t \in Seq(Entry), NEW p \in Seq(Message), NEW u \in Seq(Message),
         NEW ms \in SUBSET Message, Parts(t, p, u, ms), p # <<>>
  PROVE  Parts(Append(t, User(Head(p))), Tail(p), u, ms)
<1> DEFINE m == Head(p)
           e == User(m)
<1>1. m \in Message /\ e \in Entry /\ e.role = "user" /\ e.message = m
  BY EntryTypes DEF User
<1>2. Heard(Append(t, e)) = Heard(t) \cup {m}
  BY <1>1, AppendHeard
<1>3. /\ Tail(p) \in Seq(Message) /\ Len(Tail(p)) = Len(p) - 1 /\ Len(p) \in Nat \ {0}
      /\ DOMAIN p = 1 .. Len(p) /\ DOMAIN Tail(p) = 1 .. Len(p) - 1
      /\ \A i \in 1 .. Len(p) - 1 : Tail(p)[i] = p[i + 1] /\ i + 1 \in 1 .. Len(p)
      /\ p[1] = m /\ 1 \in 1 .. Len(p)
  OBVIOUS
<1> HIDE DEF m, e
<1>4. Range(p) = Range(Tail(p)) \cup {m}
  <2>1. Range(Tail(p)) \subseteq Range(p) /\ m \in Range(p)
    BY <1>3 DEF Range
  <2>2. ASSUME NEW i \in 1 .. Len(p) PROVE p[i] \in Range(Tail(p)) \cup {m}
    <3>1. CASE i = 1
      BY <1>3, <3>1
    <3>2. CASE i # 1
      <4>1. i - 1 \in 1 .. Len(p) - 1 /\ (i - 1) + 1 = i
        BY <1>3, <3>2
      <4>2. Tail(p)[i - 1] = p[i]
        BY <1>3, <4>1
      <4> QED BY <1>3, <4>1, <4>2 DEF Range
    <3> QED BY <3>1, <3>2
  <2>3. Range(p) \subseteq Range(Tail(p)) \cup {m}
    BY <1>3, <2>2 DEF Range
  <2> QED BY <2>1, <2>3
<1>5. ms \subseteq Heard(Append(t, e)) \cup Range(Tail(p)) \cup Range(u)
  BY <1>2, <1>4 DEF Parts
<1>6. \A i, j \in SaidIn(Append(t, e), ms) :
        i < j => Append(t, e)[i].message < Append(t, e)[j].message
  <2> SUFFICES ASSUME NEW i \in SaidIn(Append(t, e), ms), NEW j \in SaidIn(Append(t, e), ms),
                      i < j
               PROVE  Append(t, e)[i].message < Append(t, e)[j].message
    OBVIOUS
  <2>0. \A k \in SaidIn(Append(t, e), ms) :
          \/ k \in SaidIn(t, ms) /\ Append(t, e)[k] = t[k] /\ k < Len(t) + 1
          \/ k = Len(t) + 1 /\ m \in ms /\ Append(t, e)[k] = e
    <3>1. \A k \in SaidIn(Append(t, e), ms) :
            \/ k \in SaidIn(t, ms) /\ Append(t, e)[k] = t[k] /\ k < Len(t) + 1
            \/ k = Len(t) + 1 /\ e.role = "user" /\ e.message \in ms /\ Append(t, e)[k] = e
      BY <1>1, AppendSaid, Zenon
    <3> QED BY <1>1, <3>1
  <2>1. i \in SaidIn(t, ms) /\ Append(t, e)[i] = t[i]
    <3>1. Len(t) \in Nat /\ SaidIn(t, ms) \subseteq Nat
      BY DEF SaidIn
    <3>2. j <= Len(t) + 1 /\ i \in Nat /\ j \in Nat
      BY <3>1, <2>0
    <3>3. i # Len(t) + 1
      BY <3>1, <3>2
    <3> QED BY <3>3, <2>0
  <2>2. CASE j \in SaidIn(t, ms) /\ Append(t, e)[j] = t[j]
    BY <2>1, <2>2 DEF Parts
  <2>3. CASE m \in ms /\ Append(t, e)[j] = e
    <3>1. t[i].message \in Heard(t) \cap ms
      BY <2>1 DEF SaidIn, Heard
    <3>2. m \in Range(p) \cap ms
      BY <1>4, <2>3
    <3> QED BY <3>1, <3>2, <2>1, <2>3, <1>1 DEF Parts, Below
  <2> QED BY <2>0, <2>2, <2>3
<1>7. \A i, j \in DOMAIN Tail(p) :
        Tail(p)[i] \in ms /\ Tail(p)[j] \in ms /\ i < j => Tail(p)[i] < Tail(p)[j]
  <2> SUFFICES ASSUME NEW i \in 1 .. Len(p) - 1, NEW j \in 1 .. Len(p) - 1,
                      Tail(p)[i] \in ms, Tail(p)[j] \in ms, i < j
               PROVE  Tail(p)[i] < Tail(p)[j]
    BY <1>3
  <2>1. i + 1 < j + 1
    BY <1>3
  <2> QED BY <1>3, <2>1 DEF Parts
<1>8. Below({m} \cap ms, Range(Tail(p)) \cap ms)
  <2> SUFFICES ASSUME m \in ms, NEW i \in 1 .. Len(p) - 1, Tail(p)[i] \in ms
               PROVE  m < Tail(p)[i]
    BY <1>3 DEF Below, Range
  <2>1. 1 < i + 1
    BY <1>3
  <2> QED BY <1>3, <2>1 DEF Parts
<1>9. Below({m} \cap ms, Range(u))
  BY <1>4 DEF Parts, Below
<1>10. Below(Heard(Append(t, e)) \cap ms, Range(Tail(p)) \cap ms)
  BY <1>2, <1>4, <1>8 DEF Parts, Below
<1>11. Below(Heard(Append(t, e)) \cap ms, Range(u))
  BY <1>2, <1>9 DEF Parts, Below
<1>12. Below(Range(Tail(p)) \cap ms, Range(u))
  BY <1>4 DEF Parts, Below
<1> QED
  BY <1>5, <1>6, <1>7, <1>10, <1>11, <1>12, Zenon DEF Parts, m, e

\* An answer or a failure is added to it.
LEMMA PartsEntry ==
  ASSUME NEW t \in Seq(Entry), NEW p \in Seq(Message), NEW u \in Seq(Message),
         NEW ms \in SUBSET Message, Parts(t, p, u, ms),
         NEW e \in Entry, e.role # "user"
  PROVE  Parts(Append(t, e), p, u, ms)
<1>1. Heard(Append(t, e)) = Heard(t)
  BY AppendHeard
<1>2. \A i, j \in SaidIn(Append(t, e), ms) :
        i < j => Append(t, e)[i].message < Append(t, e)[j].message
  BY AppendSaid DEF Parts
<1> QED BY <1>1, <1>2 DEF Parts

\* What remains of a queue whose first k messages are taken.
LEMMA Remains ==
  ASSUME NEW u \in Seq(Message), NEW k \in 0 .. Len(u)
  PROVE  /\ SubSeq(u, k + 1, Len(u)) \in Seq(Message)
         /\ Len(SubSeq(u, k + 1, Len(u))) = Len(u) - k
         /\ \A i \in 1 .. Len(u) - k : SubSeq(u, k + 1, Len(u))[i] = u[k + i]
<1>1. SubSeq(u, k + 1, Len(u)) \in Seq(Message)
  OBVIOUS
<1>2. Len(SubSeq(u, k + 1, Len(u))) = Len(u) - k
  OBVIOUS
<1>3. \A i \in 1 .. Len(u) - k : SubSeq(u, k + 1, Len(u))[i] = u[k + i]
  OBVIOUS
<1> QED BY <1>1, <1>2, <1>3

\* The loop takes all of the queue or its head.
LEMMA PartsDrain ==
  ASSUME NEW t \in Seq(Entry), NEW u \in Seq(Message),
         NEW ms \in SUBSET Message, Parts(t, <<>>, u, ms), NEW d \in Drains(u)
  PROVE  Parts(t, d, SubSeq(u, Len(d) + 1, Len(u)), ms)
<1> DEFINE v == SubSeq(u, Len(d) + 1, Len(u))
<1>1. d = u \/ (u # <<>> /\ d = <<Head(u)>>)
  BY DEF Drains
<1>2. d \in Seq(Message)
  BY DrainsType
<1>3. Len(u) \in Nat /\ DOMAIN u = 1 .. Len(u)
  OBVIOUS
<1>4. /\ Len(d) \in 0 .. Len(u) /\ DOMAIN d = 1 .. Len(d)
      /\ \A i \in 1 .. Len(d) : d[i] = u[i]
  <2>1. CASE d = u
    BY <2>1, <1>3
  <2>2. CASE u # <<>> /\ d = <<Head(u)>>
    <3>1. Len(u) >= 1 /\ Head(u) = u[1] /\ Len(d) = 1 /\ d[1] = Head(u)
      BY <2>2
    <3> QED BY <3>1, <2>2, <1>3
  <2> QED BY <1>1, <2>1, <2>2
<1>5. /\ v \in Seq(Message) /\ Len(v) = Len(u) - Len(d)
      /\ \A i \in 1 .. Len(u) - Len(d) : v[i] = u[Len(d) + i]
  BY <1>4, Remains
<1>6. DOMAIN v = 1 .. Len(u) - Len(d)
  BY <1>5
<1> HIDE DEF v
<1>7. Range(d) \cup Range(v) = Range(u)
  <2>1. Range(d) \subseteq Range(u)
    BY <1>3, <1>4 DEF Range
  <2>2. Range(v) \subseteq Range(u)
    <3>1. \A i \in 1 .. Len(u) - Len(d) : Len(d) + i \in 1 .. Len(u)
      BY <1>3, <1>4
    <3> QED BY <1>3, <1>5, <1>6, <3>1 DEF Range
  <2>3. Range(u) \subseteq Range(d) \cup Range(v)
    <3> SUFFICES ASSUME NEW i \in 1 .. Len(u) PROVE u[i] \in Range(d) \cup Range(v)
      BY <1>3 DEF Range
    <3>1. CASE i \in 1 .. Len(d)
      BY <1>4, <3>1 DEF Range
    <3>2. CASE i \notin 1 .. Len(d)
      <4>1. i - Len(d) \in 1 .. Len(u) - Len(d) /\ Len(d) + (i - Len(d)) = i
        BY <1>3, <1>4, <3>2
      <4>2. v[i - Len(d)] = u[i]
        BY <1>5, <4>1
      <4> QED BY <1>6, <4>1, <4>2 DEF Range
    <3> QED BY <3>1, <3>2
  <2> QED BY <2>1, <2>2, <2>3
<1>8. \A i, j \in DOMAIN d : i < j => d[i] < d[j]
  <2>1. 1 .. Len(d) \subseteq 1 .. Len(u)
    BY <1>3, <1>4
  <2> QED BY <1>3, <1>4, <2>1 DEF Parts
<1>9. \A i, j \in DOMAIN v : i < j => v[i] < v[j]
  <2> SUFFICES ASSUME NEW i \in 1 .. Len(u) - Len(d), NEW j \in 1 .. Len(u) - Len(d), i < j
               PROVE  v[i] < v[j]
    BY <1>6
  <2>1. Len(d) + i \in 1 .. Len(u) /\ Len(d) + j \in 1 .. Len(u) /\ Len(d) + i < Len(d) + j
    BY <1>3, <1>4
  <2> QED BY <1>3, <1>5, <2>1 DEF Parts
<1>10. Below(Range(d), Range(v))
  <2> SUFFICES ASSUME NEW i \in 1 .. Len(d), NEW j \in 1 .. Len(u) - Len(d)
               PROVE  d[i] < v[j]
    BY <1>4, <1>6 DEF Below, Range
  <2>1. i \in 1 .. Len(u) /\ Len(d) + j \in 1 .. Len(u) /\ i < Len(d) + j
    BY <1>3, <1>4
  <2> QED BY <1>3, <1>4, <1>5, <2>1 DEF Parts
<1>11. Parts(t, d, v, ms)
  BY <1>7, <1>8, <1>9, <1>10, EmptyRange DEF Parts, Below
<1> QED BY <1>11 DEF v

\* What it takes was not asked of this queue: it is the other one's, or a prompt.
LEMMA PartsOther ==
  ASSUME NEW t \in Seq(Entry), NEW u \in Seq(Message), NEW d \in Seq(Message),
         NEW ms \in SUBSET Message, Parts(t, <<>>, u, ms), Range(d) \cap ms = {}
  PROVE  Parts(t, d, u, ms)
<1>1. \A i \in DOMAIN d : d[i] \notin ms
  BY DEF Range
<1> QED BY <1>1, EmptyRange DEF Parts, Below

\* A message is queued.
LEMMA PartsEnqueue ==
  ASSUME NEW t \in Seq(Entry), NEW p \in Seq(Message), NEW u \in Seq(Message),
         NEW ms \in SUBSET Message, Parts(t, p, u, ms), NEW m \in Message,
         \A n \in Heard(t) \cup Range(p) \cup Range(u) : n < m
  PROVE  Parts(t, p, Append(u, m), ms \cup {m})
<1>1. Range(Append(u, m)) = Range(u) \cup {m}
  BY AppendRange
<1>2. m \notin Heard(t) \cup Range(p) \cup Range(u)
  BY DEF Message
<1>3. SaidIn(t, ms \cup {m}) = SaidIn(t, ms)
  <2>1. \A i \in SaidIn(t, {m}) : m \in Heard(t)
    BY DEF SaidIn, Heard
  <2> QED BY <1>2, <2>1 DEF SaidIn
<1>4. \A i \in DOMAIN p : p[i] # m
  BY <1>2 DEF Range
<1>5. \A i, j \in DOMAIN Append(u, m) : i < j => Append(u, m)[i] < Append(u, m)[j]
  <2> SUFFICES ASSUME NEW i \in DOMAIN Append(u, m), NEW j \in DOMAIN Append(u, m), i < j
               PROVE  Append(u, m)[i] < Append(u, m)[j]
    OBVIOUS
  <2>1. Len(u) \in Nat /\ i \in 1 .. Len(u) /\ i \in DOMAIN u /\ Append(u, m)[i] = u[i]
    OBVIOUS
  <2>2. CASE j \in 1 .. Len(u)
    <3>1. j \in DOMAIN u /\ Append(u, m)[j] = u[j]
      BY <2>1, <2>2
    <3> QED BY <2>1, <3>1 DEF Parts
  <2>3. CASE j = Len(u) + 1
    <3>1. Append(u, m)[j] = m /\ u[i] \in Range(u)
      BY <2>1, <2>3 DEF Range
    <3> QED BY <2>1, <3>1
  <2> QED BY <2>1, <2>2, <2>3
<1>6. \A i, j \in DOMAIN p :
        p[i] \in ms \cup {m} /\ p[j] \in ms \cup {m} /\ i < j => p[i] < p[j]
  BY <1>4 DEF Parts
<1>7. (Heard(t) \cap (ms \cup {m})) = Heard(t) \cap ms /\ (Range(p) \cap (ms \cup {m})) = Range(p) \cap ms
  BY <1>2
<1>8. /\ Below(Heard(t) \cap ms, Range(u) \cup {m})
      /\ Below(Range(p) \cap ms, Range(u) \cup {m})
  BY DEF Parts, Below
<1> QED BY <1>1, <1>3, <1>5, <1>6, <1>7, <1>8 DEF Parts

\* The queue is cleared; the run fails while it holds p; all is reset.
LEMMA PartsLost ==
  ASSUME NEW t \in Seq(Entry), NEW p \in Seq(Message), NEW u \in Seq(Message),
         NEW ms \in SUBSET Message, Parts(t, p, u, ms)
  PROVE  /\ Parts(t, p, <<>>, ms \ Range(u))
         /\ Parts(t, <<>>, u, ms \ Range(p))
         /\ Parts(<<>>, p, <<>>, ms \ (Message \ Range(p)))
<1>1. Range(u) \cap Range(p) = {}
  <2> SUFFICES ASSUME NEW m \in Range(u), m \in Range(p) PROVE FALSE
    OBVIOUS
  <2>1. m \in Nat /\ m \in ms
    BY RangeType DEF Parts, Message
  <2> QED BY <2>1 DEF Parts, Below
<1>2. \A a \in SUBSET ms : SaidIn(t, a) \subseteq SaidIn(t, ms)
  BY DEF SaidIn
<1>3. Parts(t, p, <<>>, ms \ Range(u))
  <2>1. SaidIn(t, ms \ Range(u)) \subseteq SaidIn(t, ms)
    BY <1>2
  <2>2. \A i, j \in SaidIn(t, ms \ Range(u)) : i < j => t[i].message < t[j].message
    BY <2>1 DEF Parts
  <2>3. ms \ Range(u) \subseteq Heard(t) \cup Range(p) \cup Range(<<>>)
    BY DEF Parts
  <2>4. \A i, j \in DOMAIN p :
          p[i] \in ms \ Range(u) /\ p[j] \in ms \ Range(u) /\ i < j => p[i] < p[j]
    BY DEF Parts
  <2>5. Below(Heard(t) \cap (ms \ Range(u)), Range(p) \cap (ms \ Range(u)))
    BY DEF Parts, Below
  <2>6. \A a : Below(a, Range(<<>>))
    BY EmptyRange DEF Below
  <2>7. /\ Range(<<>>) \subseteq ms \ Range(u)
        /\ \A i, j \in DOMAIN <<>> : i < j => <<>>[i] < <<>>[j]
    BY EmptyRange
  <2> QED BY <2>2, <2>3, <2>4, <2>5, <2>6, <2>7, Zenon DEF Parts
<1>4. Parts(t, <<>>, u, ms \ Range(p))
  <2>1. SaidIn(t, ms \ Range(p)) \subseteq SaidIn(t, ms)
    BY <1>2
  <2>2. \A i, j \in SaidIn(t, ms \ Range(p)) : i < j => t[i].message < t[j].message
    BY <2>1 DEF Parts
  <2>3. /\ ms \ Range(p) \subseteq Heard(t) \cup Range(<<>>) \cup Range(u)
        /\ Range(u) \subseteq ms \ Range(p)
    BY <1>1 DEF Parts
  <2>4. Below(Heard(t) \cap (ms \ Range(p)), Range(u))
    BY DEF Parts, Below
  <2>5. \A a : Below(a, Range(<<>>) \cap (ms \ Range(p)))
    BY EmptyRange DEF Below
  <2>6. Below(Range(<<>>) \cap (ms \ Range(p)), Range(u))
    BY EmptyRange DEF Below
  <2>7. \A i, j \in DOMAIN u : i < j => u[i] < u[j]
    BY DEF Parts
  <2>8. \A i, j \in DOMAIN <<>> :
          <<>>[i] \in ms \ Range(p) /\ <<>>[j] \in ms \ Range(p) /\ i < j => <<>>[i] < <<>>[j]
    OBVIOUS
  <2> QED BY <2>2, <2>3, <2>4, <2>5, <2>6, <2>7, <2>8, Zenon DEF Parts
<1>5. Parts(<<>>, p, <<>>, ms \ (Message \ Range(p)))
  <2> DEFINE kept == ms \ (Message \ Range(p))
  <2>1. SaidIn(<<>>, kept) = {} /\ Heard(<<>>) = {}
    BY DEF SaidIn, Heard
  <2>2. kept \subseteq Range(p) /\ kept \subseteq ms
    OBVIOUS
  <2> HIDE DEF kept
  <2>3. /\ kept \subseteq Heard(<<>>) \cup Range(p) \cup Range(<<>>)
        /\ Range(<<>>) \subseteq kept
    BY <2>2, EmptyRange
  <2>4. \A i, j \in SaidIn(<<>>, kept) : i < j => <<>>[i].message < <<>>[j].message
    BY <2>1
  <2>5. \A i, j \in DOMAIN p : p[i] \in kept /\ p[j] \in kept /\ i < j => p[i] < p[j]
    BY <2>2 DEF Parts
  <2>6. \A i, j \in DOMAIN <<>> : i < j => <<>>[i] < <<>>[j]
    OBVIOUS
  <2>7. /\ Below(Heard(<<>>) \cap kept, Range(p) \cap kept)
        /\ Below(Heard(<<>>) \cap kept, Range(<<>>))
        /\ Below(Range(p) \cap kept, Range(<<>>))
    BY <2>1, EmptyRange DEF Below
  <2>8. Parts(<<>>, p, <<>>, kept)
    BY <2>3, <2>4, <2>5, <2>6, <2>7, Zenon DEF Parts
  <2> QED BY <2>8 DEF kept
<1> QED BY <1>3, <1>4, <1>5

\* The three parts make the line.
LEMMA PartsLine ==
  ASSUME NEW t \in Seq(Entry), NEW p \in Seq(Message), NEW u \in Seq(Message),
         NEW ms \in SUBSET Message, Parts(t, p, u, ms)
  PROVE  InOrderOnce(t \o Users(p) \o Users(u), ms)
<1> DEFINE l == t \o Users(p) \o Users(u)
           a == Len(t)
           b == Len(t) + Len(p)
<1>1. /\ Users(p) \in Seq(Entry) /\ Len(Users(p)) = Len(p)
      /\ Users(u) \in Seq(Entry) /\ Len(Users(u)) = Len(u)
      /\ Len(t) \in Nat /\ Len(p) \in Nat /\ Len(u) \in Nat
  BY UsersType
<1>2. /\ \A i \in 1 .. Len(p) : Users(p)[i] = User(p[i])
      /\ \A i \in 1 .. Len(u) : Users(u)[i] = User(u[i])
  BY DEF Users
<1>3. DOMAIN t = 1 .. Len(t) /\ DOMAIN p = 1 .. Len(p) /\ DOMAIN u = 1 .. Len(u)
  OBVIOUS
<1>4. DOMAIN l = 1 .. b + Len(u)
  BY <1>1
<1>5. \A i \in 1 .. a : l[i] = t[i]
  BY <1>1
<1>6. \A i \in 1 .. Len(p) : l[a + i] = User(p[i])
  BY <1>1, <1>2
<1>7. \A i \in 1 .. Len(u) : l[b + i] = User(u[i])
  BY <1>1, <1>2
<1>8. /\ a \in Nat /\ b = a + Len(p) /\ b \in Nat
  BY <1>1
<1> HIDE DEF l, a, b
<1>9. \A m : User(m).role = "user" /\ User(m).message = m
  BY DEF User
<1>10. ASSUME NEW m \in ms PROVE \E i \in SaidIn(l, ms) : l[i].message = m
  <2>1. CASE m \in Heard(t)
    <3>1. PICK i \in 1 .. Len(t) : t[i].role = "user" /\ t[i].message = m
      BY <2>1, <1>3 DEF Heard
    <3>2. i \in DOMAIN l /\ l[i] = t[i]
      BY <1>1, <1>4, <1>5, <1>8, <3>1 DEF a
    <3> QED BY <3>1, <3>2 DEF SaidIn
  <2>2. CASE m \in Range(p)
    <3>1. PICK i \in 1 .. Len(p) : p[i] = m
      BY <2>2, <1>3 DEF Range
    <3>2. a + i \in DOMAIN l /\ l[a + i] = User(m)
      BY <1>1, <1>4, <1>6, <1>8, <3>1
    <3> QED BY <1>9, <3>2 DEF SaidIn
  <2>3. CASE m \in Range(u)
    <3>1. PICK i \in 1 .. Len(u) : u[i] = m
      BY <2>3, <1>3 DEF Range
    <3>2. b + i \in DOMAIN l /\ l[b + i] = User(m)
      BY <1>1, <1>4, <1>7, <1>8, <3>1
    <3> QED BY <1>9, <3>2 DEF SaidIn
  <2> QED BY <2>1, <2>2, <2>3 DEF Parts
<1> DEFINE InT(i) == i \in SaidIn(t, ms) /\ i <= a /\ l[i].message = t[i].message
           InP(i) == /\ i - a \in DOMAIN p /\ l[i].message = p[i - a]
                     /\ p[i - a] \in ms
           InU(i) == i - b \in DOMAIN u /\ l[i].message = u[i - b]
<1>11. ASSUME NEW i \in SaidIn(l, ms) PROVE i \in Nat /\ (InT(i) \/ InP(i) \/ InU(i))
  <2>1. i \in 1 .. b + Len(u) /\ l[i].role = "user" /\ l[i].message \in ms
    BY <1>4 DEF SaidIn
  <2>2. CASE i <= a
    <3>1. i \in 1 .. a /\ i \in DOMAIN t
      BY <2>1, <2>2, <1>3, <1>8 DEF a
    <3> QED BY <3>1, <2>1, <2>2, <1>5 DEF SaidIn
  <2>3. CASE a < i /\ i <= b
    <3>1. i - a \in 1 .. Len(p) /\ a + (i - a) = i
      BY <2>1, <2>3, <1>1, <1>8
    <3>2. l[i] = User(p[i - a])
      BY <3>1, <1>6
    <3> QED BY <3>1, <3>2, <2>1, <1>3, <1>9
  <2>4. CASE b < i
    <3>1. i - b \in 1 .. Len(u) /\ b + (i - b) = i
      BY <2>1, <2>4, <1>1, <1>8
    <3>2. l[i] = User(u[i - b])
      BY <3>1, <1>7
    <3> QED BY <3>1, <3>2, <2>1, <1>3, <1>9
  <2> QED BY <2>1, <2>2, <2>3, <2>4, <1>8
<1>12. /\ \A i : InT(i) => l[i].message \in Heard(t) \cap ms
       /\ \A i : InP(i) => l[i].message \in Range(p) \cap ms
       /\ \A i : InU(i) => l[i].message \in Range(u)
  BY DEF Heard, SaidIn, Range
<1>13. \A i, j \in SaidIn(l, ms) : i < j => l[i].message < l[j].message
  <2> SUFFICES ASSUME NEW i \in SaidIn(l, ms), NEW j \in SaidIn(l, ms), i < j
               PROVE  l[i].message < l[j].message
    OBVIOUS
  <2>1. i \in Nat /\ j \in Nat
    BY <1>11
  <2>2. CASE InT(i) /\ InT(j)
    BY <2>2 DEF Parts
  <2>3. CASE InP(i) /\ InP(j)
    <3>1. i - a < j - a
      BY <2>1, <1>8
    <3> QED BY <3>1, <2>3 DEF Parts
  <2>4. CASE InU(i) /\ InU(j)
    <3>1. i - b < j - b
      BY <2>1, <1>8
    <3> QED BY <3>1, <2>4 DEF Parts
  <2>5. CASE InT(i) /\ (InP(j) \/ InU(j))
    BY <2>5, <1>12 DEF Parts, Below
  <2>6. CASE InP(i) /\ InU(j)
    BY <2>6, <1>12 DEF Parts, Below
  <2>7. ~(InP(i) /\ InT(j)) /\ ~(InU(i) /\ InT(j)) /\ ~(InU(i) /\ InP(j))
    BY <2>1, <1>3, <1>8
  <2> QED BY <1>11, <2>2, <2>3, <2>4, <2>5, <2>6, <2>7
<1>14. InOrderOnce(l, ms)
  BY <1>10, <1>13 DEF InOrderOnce
<1> QED BY <1>14 DEF l
----------------------------------------------------------------------------
(* Every step keeps the parts in order: messages are numbered as they are  *)
(* sent, the two queues are asked for different ones, and the loop takes   *)
(* from a queue only when it has delivered what it holds.                  *)

Delivery ==
  /\ pending # <<>> => pc \in {"prompting", "turn"}
  /\ asked["steer"] \cap asked["follow"] = {}
  /\ \A q \in Queue : asked[q] \subseteq 1 .. sent
  /\ Heard(transcript) \cup Range(pending) \subseteq 1 .. sent
  /\ \A q \in Queue : Parts(transcript, pending, queue[q], asked[q])

\* The conversation grows by an answer or a failure, or not at all.
LEMMA DeliveryGrows ==
  ASSUME LoopInv, Rest, Delivery, NEW e \in Entry, e.role # "user",
         transcript' \in {transcript, Append(transcript, e)},
         UNCHANGED <<pending, queue, asked, sent>>,
         pending # <<>> => pc' \in {"prompting", "turn"}
  PROVE  Delivery'
<1>1. transcript \in Seq(Entry) /\ pending \in Seq(Message)
  BY DEF LoopInv, Typed
<1>2. Heard(transcript') = Heard(transcript)
  BY <1>1, AppendHeard
<1>3. ASSUME NEW q \in Queue PROVE Parts(transcript', pending, queue[q], asked[q])
  <2>1. queue[q] \in Seq(Message) /\ asked[q] \in SUBSET Message
    BY DEF LoopInv, Typed, Rest
  <2>2. Parts(transcript, pending, queue[q], asked[q])
    BY DEF Delivery
  <2>3. Parts(Append(transcript, e), pending, queue[q], asked[q])
    BY <1>1, <2>1, <2>2, PartsEntry
  <2> QED BY <2>2, <2>3
<1>4. \A q \in Queue : Parts(transcript', pending', queue'[q], asked'[q])
  BY <1>3
<1>5. Heard(transcript') \cup Range(pending') \subseteq 1 .. sent'
  BY <1>2 DEF Delivery
<1>6. \A q \in Queue : asked'[q] \subseteq 1 .. sent'
  BY DEF Delivery
<1>7. asked'["steer"] \cap asked'["follow"] = {} /\ pending' = pending
  BY DEF Delivery
<1> QED BY <1>4, <1>5, <1>6, <1>7, Zenon DEF Delivery

\* The loop, or the agent for it, takes messages from a queue.
LEMMA DeliveryDrains ==
  ASSUME LoopInv, Rest, Delivery, pending = <<>>,
         NEW q \in Queue, NEW ms \in Drains(queue[q]), Drained(q, ms), pending' = ms,
         UNCHANGED <<transcript, asked, sent>>,
         ms # <<>> => pc' \in {"prompting", "turn"}
  PROVE  Delivery'
<1>1. transcript \in Seq(Entry) /\ queue[q] \in Seq(Message) /\ asked[q] \in SUBSET Message
  BY DEF LoopInv, Typed, Rest
<1>2. ms \in Seq(Message)
  BY <1>1, DrainsType
<1>3. Parts(transcript, <<>>, queue[q], asked[q])
  BY DEF Delivery
<1>4. Parts(transcript, ms, SubSeq(queue[q], Len(ms) + 1, Len(queue[q])), asked[q])
  BY <1>1, <1>3, PartsDrain
<1>5. /\ queue'[q] = SubSeq(queue[q], Len(ms) + 1, Len(queue[q]))
      /\ \A r \in Queue \ {q} : queue'[r] = queue[r]
  BY DEF Drained, LoopInv, Typed
<1>6. Range(ms) \subseteq asked[q]
  <2>1. Range(ms) \subseteq Range(queue[q])
    <3>1. ms = queue[q] \/ (queue[q] # <<>> /\ ms = <<Head(queue[q])>>)
      BY DEF Drains
    <3>2. CASE ms = queue[q]
      BY <3>2
    <3>3. CASE queue[q] # <<>> /\ ms = <<Head(queue[q])>>
      <4>1. 1 \in DOMAIN queue[q] /\ Head(queue[q]) = queue[q][1]
        BY <1>1, <3>3
      <4>2. Range(ms) = {Head(queue[q])}
        BY <3>3 DEF Range
      <4> QED BY <4>1, <4>2 DEF Range
    <3> QED BY <3>1, <3>2, <3>3
  <2> QED BY <2>1, <1>3 DEF Parts
<1>7. ASSUME NEW r \in Queue PROVE Parts(transcript, ms, queue'[r], asked[r])
  <2>1. CASE r = q
    BY <2>1, <1>4, <1>5
  <2>2. CASE r # q
    <3>1. queue[r] \in Seq(Message) /\ asked[r] \in SUBSET Message
      BY DEF LoopInv, Typed, Rest
    <3>2. asked[q] \cap asked[r] = {}
      BY <2>2 DEF Delivery, Queue
    <3>3. Parts(transcript, <<>>, queue[r], asked[r])
      BY DEF Delivery
    <3>4. Parts(transcript, ms, queue[r], asked[r])
      BY <1>1, <1>2, <1>6, <3>1, <3>2, <3>3, PartsOther
    <3> QED BY <2>2, <3>4, <1>5
  <2> QED BY <2>1, <2>2
<1>8. \A r \in Queue : Parts(transcript', pending', queue'[r], asked'[r])
  BY <1>7
<1>9. Heard(transcript') \cup Range(pending') \subseteq 1 .. sent'
  BY <1>6 DEF Delivery
<1>10. \A r \in Queue : asked'[r] \subseteq 1 .. sent'
  BY DEF Delivery
<1>11. asked'["steer"] \cap asked'["follow"] = {} /\ (pending' # <<>> => pc' \in {"prompting", "turn"})
  BY DEF Delivery
<1> QED BY <1>8, <1>9, <1>10, <1>11, Zenon DEF Delivery

\* The loop delivers a message.
LEMMA DeliveryDelivers ==
  ASSUME LoopInv, Rest, Delivery, EmitPrompt \/ Inject
  PROVE  Delivery'
<1>1. /\ transcript \in Seq(Entry) /\ pending \in Seq(Message) /\ pending # <<>>
      /\ transcript' = Append(transcript, User(Head(pending)))
      /\ pending' = Tail(pending)
      /\ UNCHANGED <<queue, asked, sent>>
      /\ Tail(pending) # <<>> => pc' \in {"prompting", "turn"}
  BY DEF EmitPrompt, Inject, Deliver, LoopInv, Typed, HasPending
<1>2. Head(pending) \in Message /\ Tail(pending) \in Seq(Message)
  BY <1>1
<1>3. Heard(transcript') = Heard(transcript) \cup {Head(pending)}
  BY <1>1, <1>2, AppendHeard, EntryTypes
<1>4. Head(pending) \in Range(pending) /\ Range(Tail(pending)) \subseteq Range(pending)
  <2>1. /\ DOMAIN pending = 1 .. Len(pending) /\ Len(pending) \in Nat \ {0}
        /\ Head(pending) = pending[1] /\ DOMAIN Tail(pending) = 1 .. Len(pending) - 1
    BY <1>1
  <2>2. \A i \in 1 .. Len(pending) - 1 : Tail(pending)[i] = pending[i + 1] /\ i + 1 \in 1 .. Len(pending)
    BY <1>1
  <2>3. 1 \in 1 .. Len(pending)
    BY <2>1
  <2> QED BY <2>1, <2>2, <2>3 DEF Range
<1>5. ASSUME NEW q \in Queue PROVE Parts(transcript', pending', queue[q], asked[q])
  <2>1. queue[q] \in Seq(Message) /\ asked[q] \in SUBSET Message
    BY DEF LoopInv, Typed, Rest
  <2>2. Parts(transcript, pending, queue[q], asked[q])
    BY DEF Delivery
  <2> QED BY <1>1, <2>1, <2>2, PartsDeliver
<1>6. \A q \in Queue : Parts(transcript', pending', queue'[q], asked'[q])
  BY <1>1, <1>5
<1>7. Heard(transcript') \cup Range(pending') \subseteq 1 .. sent'
  BY <1>1, <1>3, <1>4 DEF Delivery
<1>8. \A q \in Queue : asked'[q] \subseteq 1 .. sent'
  BY <1>1 DEF Delivery
<1>9. asked'["steer"] \cap asked'["follow"] = {} /\ (pending' # <<>> => pc' \in {"prompting", "turn"})
  BY <1>1 DEF Delivery
<1> QED BY <1>6, <1>7, <1>8, <1>9, Zenon DEF Delivery

\* A message is queued.
LEMMA DeliveryEnqueues ==
  ASSUME LoopInv, Rest, Delivery, NEW q \in Queue, NEW m \in Message, Enqueue(q, m)
  PROVE  Delivery'
<1>1. /\ transcript \in Seq(Entry) /\ pending \in Seq(Message) /\ sent \in Nat
      /\ m = sent + 1 /\ sent' = m
      /\ UNCHANGED <<pc, transcript, pending>>
      /\ queue' = [queue EXCEPT ![q] = Append(@, m)]
      /\ asked' = [asked EXCEPT ![q] = @ \cup {m}]
  BY DEF Enqueue, Send, LoopInv, Typed, Rest
<1>2. /\ queue'[q] = Append(queue[q], m) /\ asked'[q] = asked[q] \cup {m}
      /\ \A r \in Queue \ {q} : queue'[r] = queue[r] /\ asked'[r] = asked[r]
  BY <1>1 DEF LoopInv, Typed, Rest
<1>3. \A r \in Queue : asked[r] \subseteq 1 .. sent /\ m \notin asked[r]
  BY <1>1 DEF Delivery
<1>4. ASSUME NEW r \in Queue PROVE Parts(transcript, pending, queue'[r], asked'[r])
  <2>1. Parts(transcript, pending, queue[r], asked[r])
    BY DEF Delivery
  <2>2. CASE r # q
    BY <2>1, <2>2, <1>2
  <2>3. CASE r = q
    <3>1. queue[q] \in Seq(Message) /\ asked[q] \in SUBSET Message
      BY DEF LoopInv, Typed, Rest
    <3>2. Range(queue[q]) \subseteq 1 .. sent
      BY <2>1, <2>3, <1>3 DEF Parts
    <3>3. \A n \in Heard(transcript) \cup Range(pending) \cup Range(queue[q]) : n < m
      BY <1>1, <3>2 DEF Delivery
    <3>4. Parts(transcript, pending, Append(queue[q], m), asked[q] \cup {m})
      BY <1>1, <2>1, <2>3, <3>1, <3>3, PartsEnqueue
    <3> QED BY <2>3, <3>4, <1>2
  <2> QED BY <2>2, <2>3
<1>5. \A r \in Queue : Parts(transcript', pending', queue'[r], asked'[r])
  BY <1>1, <1>4
<1>6. 1 .. sent \subseteq 1 .. sent' /\ m \in 1 .. sent'
  BY <1>1
<1>7. Heard(transcript') \cup Range(pending') \subseteq 1 .. sent'
  BY <1>1, <1>6 DEF Delivery
<1>8. \A r \in Queue : asked'[r] \subseteq 1 .. sent'
  BY <1>2, <1>3, <1>6
<1>9. asked'["steer"] \cap asked'["follow"] = {} /\ (pending' # <<>> => pc' \in {"prompting", "turn"})
  <2>1. \A r \in Queue : asked'[r] \subseteq asked[r] \cup {m} /\ (r # q => asked'[r] = asked[r])
    BY <1>2
  <2>2. "steer" \in Queue /\ "follow" \in Queue /\ (q = "steer" \/ q = "follow")
    BY DEF Queue
  <2> QED BY <1>1, <1>3, <2>1, <2>2 DEF Delivery
<1> QED BY <1>5, <1>7, <1>8, <1>9, Zenon DEF Delivery

\* Messages are cleared away, lost with a failing run, or reset.
LEMMA DeliveryLoses ==
  ASSUME LoopInv, Rest, Delivery, (\E q \in Queue : Clear(q)) \/ Throw \/ Reset
  PROVE  Delivery'
<1>1. transcript \in Seq(Entry) /\ pending \in Seq(Message)
  BY DEF LoopInv, Typed
<1>2. PICK gone : Drop(gone)
  BY DEF Clear, Throw, Reset
<1>3. \A q \in Queue : asked'[q] = asked[q] \ gone
  BY <1>2 DEF Drop
<1>4. /\ asked'["steer"] \cap asked'["follow"] = {}
      /\ sent' = sent
      /\ \A q \in Queue : asked'[q] \subseteq 1 .. sent'
  <2>1. sent' = sent
    BY DEF Clear, Throw, Reset
  <2>2. "steer" \in Queue /\ "follow" \in Queue
    BY DEF Queue
  <2> QED BY <1>3, <2>1, <2>2 DEF Delivery
<1>5. \A q \in Queue :
        /\ queue[q] \in Seq(Message) /\ asked[q] \in SUBSET Message
        /\ Parts(transcript, pending, queue[q], asked[q])
  BY DEF Delivery, LoopInv, Typed, Rest
<1>6. ASSUME NEW q \in Queue, Clear(q) PROVE Delivery'
  <2>1. /\ queue' = [queue EXCEPT ![q] = <<>>]
        /\ \A r \in Queue : asked'[r] = asked[r] \ Range(queue[q])
        /\ UNCHANGED <<pc, pending, transcript>>
    BY <1>6 DEF Clear, Drop
  <2>2. ASSUME NEW r \in Queue PROVE Parts(transcript, pending, queue'[r], asked'[r])
    <3>1. CASE r = q
      <4>1. queue'[r] = <<>> /\ asked'[r] = asked[r] \ Range(queue[r])
        BY <2>1, <3>1 DEF LoopInv, Typed
      <4>2. Parts(transcript, pending, <<>>, asked[r] \ Range(queue[r]))
        BY <1>1, <1>5, PartsLost
      <4> QED BY <4>1, <4>2
    <3>2. CASE r # q
      <4>1. queue'[r] = queue[r]
        BY <2>1, <3>2 DEF LoopInv, Typed
      <4>2. asked[q] \cap asked[r] = {}
        BY <3>2 DEF Delivery, Queue
      <4>3. asked'[r] = asked[r]
        BY <1>5, <2>1, <4>2 DEF Parts
      <4> QED BY <1>5, <4>1, <4>3
    <3> QED BY <3>1, <3>2
  <2>3. \A r \in Queue : Parts(transcript', pending', queue'[r], asked'[r])
    BY <2>1, <2>2
  <2>4. Heard(transcript') \cup Range(pending') \subseteq 1 .. sent'
    BY <1>4, <2>1 DEF Delivery
  <2>5. pending' # <<>> => pc' \in {"prompting", "turn"}
    BY <2>1 DEF Delivery
  <2> QED BY <1>4, <2>3, <2>4, <2>5, Zenon DEF Delivery
<1>7. CASE Throw
  <2>1. /\ transcript' = Append(transcript, Failure) /\ pending' = <<>> /\ queue' = queue
        /\ \A r \in Queue : asked'[r] = asked[r] \ Range(pending)
    BY <1>7 DEF Throw, Drop
  <2>2. Failure \in Entry /\ Failure.role # "user"
    BY EntryTypes DEF Failure
  <2>3. ASSUME NEW r \in Queue PROVE Parts(transcript', pending', queue'[r], asked'[r])
    <3>1. Parts(transcript, <<>>, queue[r], asked[r] \ Range(pending))
      BY <1>1, <1>5, PartsLost
    <3>2. asked[r] \ Range(pending) \in SUBSET Message /\ <<>> \in Seq(Message)
      BY <1>5
    <3>3. Parts(Append(transcript, Failure), <<>>, queue[r], asked[r] \ Range(pending))
      BY <1>1, <1>5, <2>2, <3>1, <3>2, PartsEntry
    <3> QED BY <2>1, <3>3
  <2>4. Heard(transcript') \cup Range(pending') \subseteq 1 .. sent'
    BY <1>1, <1>4, <2>1, <2>2, AppendHeard, EmptyRange DEF Delivery
  <2>5. pending' # <<>> => pc' \in {"prompting", "turn"}
    BY <2>1
  <2> QED BY <1>4, <2>3, <2>4, <2>5, Zenon DEF Delivery
<1>8. CASE Reset
  <2>1. /\ transcript' = <<>> /\ pending' = pending /\ pc' = pc
        /\ \A r \in Queue : queue'[r] = <<>>
        /\ \A r \in Queue : asked'[r] = asked[r] \ (Message \ Range(pending))
    BY <1>8 DEF Reset, Drop
  <2>2. ASSUME NEW r \in Queue PROVE Parts(transcript', pending', queue'[r], asked'[r])
    BY <1>1, <1>5, <2>1, PartsLost
  <2>3. Heard(<<>>) = {}
    BY DEF Heard
  <2>4. Heard(transcript') \cup Range(pending') \subseteq 1 .. sent'
    BY <1>4, <2>1, <2>3 DEF Delivery
  <2>5. pending' # <<>> => pc' \in {"prompting", "turn"}
    BY <2>1 DEF Delivery
  <2> QED BY <1>4, <2>2, <2>4, <2>5, Zenon DEF Delivery
<1> QED BY <1>6, <1>7, <1>8

\* A run begins with a prompt.
LEMMA DeliveryPrompts ==
  ASSUME LoopInv, Rest, Delivery, NEW m \in Message, Prompt(m)
  PROVE  Delivery'
<1>1. /\ pc = "idle" /\ pc' = "prompting" /\ pending' = <<m>>
      /\ UNCHANGED <<transcript, queue, asked>>
      /\ m = sent + 1 /\ sent' = m
  BY DEF Prompt, Begin, Send
<1>2. transcript \in Seq(Entry) /\ sent \in Nat /\ <<m>> \in Seq(Message) /\ pending = <<>>
  BY <1>1 DEF LoopInv, Typed, Rest, Delivery
<1>3. Range(<<m>>) = {m}
  BY DEF Range
<1>4. \A q \in Queue : asked[q] \subseteq 1 .. sent /\ m \notin asked[q]
  BY <1>1, <1>2 DEF Delivery
<1>5. ASSUME NEW q \in Queue PROVE Parts(transcript, <<m>>, queue[q], asked[q])
  <2>1. queue[q] \in Seq(Message) /\ asked[q] \in SUBSET Message
    BY DEF LoopInv, Typed, Rest
  <2>2. Parts(transcript, <<>>, queue[q], asked[q])
    BY <1>2 DEF Delivery
  <2> QED BY <1>2, <1>3, <1>4, <2>1, <2>2, PartsOther
<1>6. \A q \in Queue : Parts(transcript', pending', queue'[q], asked'[q])
  BY <1>1, <1>5
<1>7. 1 .. sent \subseteq 1 .. sent' /\ m \in 1 .. sent'
  BY <1>1, <1>2
<1>8. Heard(transcript') \cup Range(pending') \subseteq 1 .. sent'
  BY <1>1, <1>3, <1>7 DEF Delivery
<1>9. \A q \in Queue : asked'[q] \subseteq 1 .. sent'
  BY <1>1, <1>4, <1>7
<1>10. asked'["steer"] \cap asked'["follow"] = {} /\ (pending' # <<>> => pc' \in {"prompting", "turn"})
  BY <1>1 DEF Delivery
<1> QED BY <1>6, <1>8, <1>9, <1>10, Zenon DEF Delivery

LEMMA DeliveryInit == Init => Delivery
<1> SUFFICES ASSUME Init PROVE Delivery
  OBVIOUS
<1>1. /\ pending = <<>> /\ sent = 0 /\ asked = [q \in Queue |-> {}]
      /\ queue = [q \in Queue |-> <<>>]
  BY DEF Init
<1>2. \A i \in DOMAIN transcript : transcript[i] = User(Restored)
  BY DEF Init
<1>3. Heard(transcript) = {}
  BY <1>2 DEF Heard, User, Restored, Message
<1>4. \A q \in Queue : queue[q] = <<>> /\ asked[q] = {}
  BY <1>1
<1>5. SaidIn(transcript, {}) = {}
  BY DEF SaidIn
<1>6. Parts(transcript, <<>>, <<>>, {})
  BY <1>3, <1>5, EmptyRange DEF Parts, Below
<1>7. \A q \in Queue : Parts(transcript, pending, queue[q], asked[q])
  BY <1>1, <1>4, <1>6
<1>8. Heard(transcript) \cup Range(pending) \subseteq 1 .. sent
  BY <1>1, <1>3, EmptyRange
<1>9. asked["steer"] \cap asked["follow"] = {} /\ \A q \in Queue : asked[q] \subseteq 1 .. sent
  BY <1>4 DEF Queue
<1> QED BY <1>1, <1>7, <1>8, <1>9 DEF Delivery

LEMMA DeliveryStep == LoopInv /\ Rest /\ Delivery /\ [Next]_vars => Delivery'
<1> SUFFICES ASSUME LoopInv, Rest, Delivery, [Next]_vars PROVE Delivery'
  OBVIOUS
<1>1. /\ Failure \in Entry /\ Failure.role # "user"
      /\ \A c \in Call : Result(c) \in Entry /\ Result(c).role # "user"
      /\ \A cs \in Seq(Call) : Assistant(cs) \in Entry /\ Assistant(cs).role # "user"
  BY EntryTypes DEF Failure, Result, Assistant
<1>2. \A i \in DOMAIN batch : batch[i] \in Call
  BY DEF LoopInv, Typed
<1>3. ASSUME NEW cs \in NewCalls, Respond(cs) PROVE Delivery'
  <2>1. cs \in Seq(Call)
    BY NewCallsType
  <2>2. /\ pc = "calling" /\ transcript' = Append(transcript, Assistant(cs))
        /\ UNCHANGED <<pending, queue, asked, sent>>
    BY <1>3 DEF Respond
  <2>3. pending = <<>>
    BY <2>2 DEF Delivery
  <2> QED BY <1>1, <2>1, <2>2, <2>3, DeliveryGrows
<1>4. CASE RespondError
  <2>1. pending = <<>>
    BY <1>4 DEF RespondError, Delivery
  <2> QED BY <1>1, <1>4, <2>1, DeliveryGrows DEF RespondError
<1>5. ASSUME NEW i \in DOMAIN batch, Refuse(i) \/ Finalize(i) PROVE Delivery'
  BY <1>1, <1>2, <1>5, DeliveryGrows
  DEF Refuse, Finalize, Answered, LoopKept, Delivery
<1>6. ASSUME NEW i \in DOMAIN batch, Announce(i) \/ Prepare(i) PROVE Delivery'
  BY <1>1, <1>6, DeliveryGrows DEF Announce, Prepare, LoopKept, Delivery
<1>7. CASE Launch \/ EndTurn \/ \E c \in Call : Return(c)
  BY <1>1, <1>7, DeliveryGrows DEF Launch, EndTurn, Return, LoopKept, Delivery
<1>8. CASE Finish
  <2>1. pending = <<>>
    BY <1>8 DEF Finish, Delivery
  <2> QED BY <1>1, <1>8, <2>1, DeliveryGrows DEF Finish
<1>9. CASE Continue
  <2>1. pending = <<>>
    BY <1>9 DEF Continue, Begin, Delivery
  <2> QED BY <1>1, <1>9, <2>1, DeliveryGrows DEF Continue, Begin
<1>10. CASE UNCHANGED vars
  BY <1>1, <1>10, DeliveryGrows DEF vars, Delivery
<1>11. ASSUME NEW q \in Queue, ContinueQueued(q) PROVE Delivery'
  <2>1. PICK ms \in Drains(queue[q]) : Begin(ms) /\ Drained(q, ms)
    BY <1>11 DEF ContinueQueued
  <2>2. pending = <<>> /\ sent' = sent
    BY <1>11, <2>1 DEF ContinueQueued, Begin, Delivery
  <2> QED BY <2>1, <2>2, DeliveryDrains DEF Begin
<1>12. CASE Poll
  <2>1. PICK ms \in IF skip THEN {<<>>} ELSE Drains(queue["steer"]) :
          pending' = ms /\ Drained("steer", ms) /\ pc' = AfterPoll(ms)
    BY <1>12 DEF Poll
  <2>2. pending = <<>> /\ UNCHANGED <<transcript, asked, sent>> /\ "steer" \in Queue
    BY <1>12 DEF Poll, Delivery, Queue
  <2>3. ms # <<>> => pc' = "turn"
    BY <2>1 DEF AfterPoll
  <2>4. CASE ~skip
    BY <2>1, <2>2, <2>3, <2>4, DeliveryDrains
  <2>5. CASE skip
    <3>1. ms = <<>> /\ Len(<<>>) + 1 = 1
      BY <2>1, <2>5
    <3>2. queue["steer"] \in Seq(Message)
      BY <2>2 DEF LoopInv, Typed
    <3>3. SubSeq(queue["steer"], 1, Len(queue["steer"])) = queue["steer"]
      BY <3>2, SubSeqFull
    <3>4. queue' = queue
      BY <2>1, <3>1, <3>3 DEF Drained, LoopInv, Typed
    <3> QED BY <1>1, <2>1, <2>2, <3>1, <3>4, DeliveryGrows
  <2> QED BY <2>4, <2>5
<1>13. CASE FollowUp
  <2>1. PICK ms \in Drains(queue["follow"]) :
          pending' = ms /\ Drained("follow", ms) /\ pc' = AfterFollowUp(ms)
    BY <1>13 DEF FollowUp
  <2>2. pending = <<>> /\ UNCHANGED <<transcript, asked, sent>> /\ "follow" \in Queue
    BY <1>13 DEF FollowUp, Delivery, Queue
  <2>3. ms # <<>> => pc' = "turn"
    BY <2>1 DEF AfterFollowUp
  <2> QED BY <2>1, <2>2, <2>3, DeliveryDrains
<1> QED
  BY <1>3, <1>4, <1>5, <1>6, <1>7, <1>8, <1>9, <1>10, <1>11, <1>12, <1>13,
     DeliveryDelivers, DeliveryEnqueues, DeliveryLoses, DeliveryPrompts
  DEF Next, Client, RunStep, ToolStep, Answer

\* A message that was queued is delivered once and in the order of its queue,
\* unless it was cleared away or lost with a failing run that held it:
\* property DeliveredOnceInOrder.
THEOREM AgentDeliveredOnceInOrder == Spec => []DeliveredOnceInOrder
<1>1. LoopInv /\ Rest /\ Delivery => DeliveredOnceInOrder
  <2> SUFFICES ASSUME LoopInv, Rest, Delivery, NEW q \in Queue
               PROVE  InOrderOnce(Line(q), asked[q]) /\ Range(queue[q]) \subseteq asked[q]
    BY DEF DeliveredOnceInOrder
  <2>1. /\ transcript \in Seq(Entry) /\ pending \in Seq(Message)
        /\ queue[q] \in Seq(Message) /\ asked[q] \in SUBSET Message
        /\ Parts(transcript, pending, queue[q], asked[q])
    BY DEF LoopInv, Typed, Rest, Delivery
  <2> QED BY <2>1, PartsLine DEF Line, Parts
<1>2. Spec => []Delivery
  BY DeliveryInit, DeliveryStep, LoopInvHolds, RestInvariance, PTL DEF Spec
<1> QED BY <1>1, <1>2, LoopInvHolds, RestInvariance, PTL
----------------------------------------------------------------------------
(* No call of the model is left open in the conversation, except while its *)
(* tools are at work: then it ends in the calls and the results so far.    *)

Closed(s) == \A i \in DOMAIN s : AnsweredAt(s, i)

Once(s) == \A i, j \in DOMAIN s : s[i] = s[j] => i = j

\* A conversation that is closed, an answer and the results rs of its calls cs.
Turn(p, cs, rs) == Append(p, Assistant(cs)) \o Results(rs)

Answering ==
  /\ pc = "tools" =>
       /\ Once(batch) /\ Once(results)
       /\ Range(results) = {c \in Range(batch) : tool[c] = "answered"}
       /\ ~torn => \E p \in Seq(Entry) : transcript = Turn(p, batch, results) /\ Closed(p)
  /\ pc # "tools" /\ ~torn => Closed(transcript)

LEMMA EntryRoles ==
  /\ \A m : User(m).role = "user"
  /\ \A c : Result(c).role = "result"
  /\ \A cs : Assistant(cs).role = "assistant" /\ Assistant(cs).calls = cs
  /\ Failure.role = "error"
BY DEF User, Result, Assistant, Failure

\* Entries that do not begin with a result leave those before as they were.
LEMMA StillAnswered ==
  ASSUME NEW s \in Seq(Entry), NEW t \in Seq(Entry), Len(s) <= Len(t),
         \A k \in 1 .. Len(s) : t[k] = s[k],
         RoleAt(t, Len(s) + 1) # "result",
         NEW i \in DOMAIN s, AnsweredAt(s, i)
  PROVE  AnsweredAt(t, i)
<1>1. /\ Len(s) \in Nat /\ Len(t) \in Nat /\ i \in 1 .. Len(s) /\ t[i] = s[i]
      /\ DOMAIN s = 1 .. Len(s) /\ DOMAIN t = 1 .. Len(t)
  OBVIOUS
<1>2. \A k \in 1 .. Len(s) : RoleAt(t, k) = RoleAt(s, k)
  BY <1>1 DEF RoleAt
<1>3. ASSUME s[i].role = "assistant"
      PROVE  \E n \in 0 .. Len(s[i].calls) :
               /\ Answers(t, i, n)
               /\ RoleAt(t, i + n + 1) # "result"
               /\ n < Len(s[i].calls) => RoleAt(t, i + n + 1) = "error"
  <2>1. PICK n \in 0 .. Len(s[i].calls) :
          /\ Answers(s, i, n)
          /\ RoleAt(s, i + n + 1) # "result"
          /\ n < Len(s[i].calls) => RoleAt(s, i + n + 1) = "error"
    BY <1>3 DEF AnsweredAt
  <2>2. s[i].calls \in Seq(Call)
    <3>1. s[i] \in Entry
      OBVIOUS
    <3> QED BY <3>1 DEF Entry
  <2>3. n \in Nat /\ i + n <= Len(s)
    BY <2>1, <2>2 DEF Answers
  <2>4. \A j \in 1 .. n : i + j \in 1 .. Len(s) /\ t[i + j] = s[i + j]
    BY <1>1, <2>3
  <2>5. Answers(t, i, n)
    <3>1. i + n <= Len(t)
      BY <1>1, <2>3
    <3>2. \A j \in 1 .. n : \E c \in Range(t[i].calls) : t[i + j] = Result(c)
      BY <1>1, <2>1, <2>4 DEF Answers
    <3>3. \A j, k \in 1 .. n : t[i + j] = t[i + k] => j = k
      BY <2>1, <2>4 DEF Answers
    <3> QED BY <3>1, <3>2, <3>3 DEF Answers
  <2>6. CASE i + n + 1 \in 1 .. Len(s)
    BY <2>1, <2>5, <2>6, <1>2
  <2>7. CASE i + n + 1 \notin 1 .. Len(s)
    <3>1. i + n + 1 = Len(s) + 1
      BY <1>1, <2>3, <2>7
    <3>2. RoleAt(s, i + n + 1) = "none"
      BY <1>1, <2>7 DEF RoleAt
    <3>3. ~(n < Len(s[i].calls))
      BY <2>1, <3>2
    <3> QED BY <2>5, <3>1, <3>3
  <2> QED BY <2>6, <2>7
<1>4. ASSUME s[i].role = "result" PROVE RoleAt(t, i - 1) \in {"assistant", "result"}
  <2>1. RoleAt(s, i - 1) \in {"assistant", "result"}
    BY <1>4 DEF AnsweredAt
  <2>2. i - 1 \in 1 .. Len(s)
    BY <1>1, <2>1 DEF RoleAt
  <2> QED BY <2>1, <2>2, <1>2
<1> QED BY <1>1, <1>3, <1>4 DEF AnsweredAt

\* A message, a failure or an answer without calls closes a conversation again.
LEMMA ClosedAppend ==
  ASSUME NEW s \in Seq(Entry), Closed(s), NEW e \in Entry,
         e.role \in {"user", "error"} \/ e = Assistant(<<>>)
  PROVE  Closed(Append(s, e))
<1> DEFINE t == Append(s, e)
<1>1. /\ t \in Seq(Entry) /\ Len(t) = Len(s) + 1 /\ Len(s) \in Nat
      /\ DOMAIN t = 1 .. Len(s) + 1 /\ DOMAIN s = 1 .. Len(s)
      /\ \A k \in 1 .. Len(s) : t[k] = s[k]
      /\ t[Len(s) + 1] = e
  OBVIOUS
<1> HIDE DEF t
<1>2. RoleAt(t, Len(s) + 1) # "result" /\ e.role # "result"
  BY <1>1, EntryRoles DEF RoleAt
<1>3. \A i \in 1 .. Len(s) : AnsweredAt(t, i)
  BY <1>1, <1>2, StillAnswered DEF Closed
<1>4. AnsweredAt(t, Len(s) + 1)
  <2>1. CASE e.role \in {"user", "error"}
    BY <2>1, <1>1 DEF AnsweredAt
  <2>2. CASE e = Assistant(<<>>)
    <3>1. e.calls = <<>> /\ Len(<<>>) = 0
      BY <2>2, EntryRoles
    <3>2. Len(s) + 1 + 0 + 1 \notin DOMAIN t
      BY <1>1
    <3>3. RoleAt(t, Len(s) + 1 + 0 + 1) = "none"
      BY <3>2 DEF RoleAt
    <3>4. Answers(t, Len(s) + 1, 0)
      BY <1>1 DEF Answers
    <3> QED BY <1>1, <1>2, <3>1, <3>3, <3>4 DEF AnsweredAt
  <2> QED BY <2>1, <2>2
<1>5. \A i \in 1 .. Len(s) + 1 : i \in 1 .. Len(s) \/ i = Len(s) + 1
  BY <1>1
<1>6. Closed(t)
  BY <1>1, <1>3, <1>4, <1>5 DEF Closed
<1> QED BY <1>6 DEF t

\* There are no more different results than calls.
LEMMA NoMoreResults ==
  ASSUME NEW cs \in Seq(Call), NEW rs \in Seq(Call), Once(rs), Range(rs) \subseteq Range(cs)
  PROVE  Len(rs) <= Len(cs)
<1>1. /\ Len(cs) \in Nat /\ Len(rs) \in Nat
      /\ DOMAIN cs = 1 .. Len(cs) /\ DOMAIN rs = 1 .. Len(rs)
  OBVIOUS
<1> DEFINE f == [k \in 1 .. Len(rs) |-> CHOOSE i \in 1 .. Len(cs) : cs[i] = rs[k]]
<1>2. \A k \in 1 .. Len(rs) : f[k] \in 1 .. Len(cs) /\ cs[f[k]] = rs[k]
  <2> TAKE k \in 1 .. Len(rs)
  <2>1. \E i \in 1 .. Len(cs) : cs[i] = rs[k]
    BY <1>1 DEF Range
  <2> QED BY <2>1
<1>3. f \in [1 .. Len(rs) -> 1 .. Len(cs)]
  BY <1>2
<1> HIDE DEF f
<1>4. /\ IsFiniteSet(1 .. Len(cs)) /\ Cardinality(1 .. Len(cs)) = Len(cs)
      /\ IsFiniteSet(1 .. Len(rs)) /\ Cardinality(1 .. Len(rs)) = Len(rs)
  <2>1. \A k \in Int : /\ IsFiniteSet(1 .. k)
                       /\ Cardinality(1 .. k) = IF 1 > k THEN 0 ELSE k - 1 + 1
    BY FS_Interval
  <2>2. \A k \in Nat : (IF 1 > k THEN 0 ELSE k - 1 + 1) = k
    OBVIOUS
  <2> QED BY <1>1, <2>1, <2>2
<1>5. ASSUME Len(cs) < Len(rs) PROVE FALSE
  <2>1. \E x, y \in 1 .. Len(rs) : x # y /\ f[x] = f[y]
    BY <1>3, <1>4, <1>5, FS_PigeonHole, Zenon
  <2> QED BY <2>1, <1>1, <1>2 DEF Once
<1> QED BY <1>1, <1>5

LEMMA ConcatAt ==
  ASSUME NEW h \in Seq(Entry), NEW r \in Seq(Entry)
  PROVE  /\ h \o r \in Seq(Entry) /\ Len(h \o r) = Len(h) + Len(r)
         /\ \A k \in 1 .. Len(h) : (h \o r)[k] = h[k]
         /\ \A k \in 1 .. Len(r) : (h \o r)[Len(h) + k] = r[k]
<1>1. h \o r \in Seq(Entry) /\ Len(h \o r) = Len(h) + Len(r)
  OBVIOUS
<1>2. \A k \in 1 .. Len(h) : (h \o r)[k] = h[k]
  OBVIOUS
<1>3. \A k \in 1 .. Len(r) : (h \o r)[Len(h) + k] = r[k]
  OBVIOUS
<1> QED BY <1>1, <1>2, <1>3

LEMMA AppendAt ==
  ASSUME NEW h \in Seq(Entry), NEW e \in Entry
  PROVE  /\ Append(h, e) \in Seq(Entry) /\ Len(Append(h, e)) = Len(h) + 1
         /\ \A k \in 1 .. Len(h) : Append(h, e)[k] = h[k]
         /\ Append(h, e)[Len(h) + 1] = e
<1>1. Append(h, e) \in Seq(Entry) /\ Len(Append(h, e)) = Len(h) + 1
  OBVIOUS
<1>2. \A k \in 1 .. Len(h) : Append(h, e)[k] = h[k]
  OBVIOUS
<1>3. Append(h, e)[Len(h) + 1] = e
  OBVIOUS
<1> QED BY <1>1, <1>2, <1>3

\* Where the entries of a turn are.
LEMMA TurnShape ==
  ASSUME NEW p \in Seq(Entry), NEW cs \in Seq(Call), NEW rs \in Seq(Call)
  PROVE  /\ Turn(p, cs, rs) \in Seq(Entry)
         /\ Len(Turn(p, cs, rs)) = Len(p) + 1 + Len(rs)
         /\ \A k \in 1 .. Len(p) : Turn(p, cs, rs)[k] = p[k]
         /\ Turn(p, cs, rs)[Len(p) + 1] = Assistant(cs)
         /\ \A k \in 1 .. Len(rs) : Turn(p, cs, rs)[Len(p) + 1 + k] = Result(rs[k])
<1> DEFINE h == Append(p, Assistant(cs))
           r == Results(rs)
<1>1. Assistant(cs) \in Entry
  BY EntryTypes
<1>2. /\ h \in Seq(Entry) /\ Len(h) = Len(p) + 1
      /\ \A k \in 1 .. Len(p) : h[k] = p[k]
      /\ h[Len(p) + 1] = Assistant(cs)
  BY <1>1, AppendAt
<1>3. r \in Seq(Entry) /\ Len(r) = Len(rs) /\ \A k \in 1 .. Len(rs) : r[k] = Result(rs[k])
  <2>1. DOMAIN rs = 1 .. Len(rs)
    OBVIOUS
  <2>2. r = [k \in 1 .. Len(rs) |-> Result(rs[k])]
    BY <2>1 DEF Results
  <2> QED BY <2>2, ResultsType
<1>4. Turn(p, cs, rs) = h \o r
  BY DEF Turn
<1>5. Len(p) \in Nat
  OBVIOUS
<1> HIDE DEF h, r
<1>6. /\ h \o r \in Seq(Entry) /\ Len(h \o r) = Len(h) + Len(r)
      /\ \A k \in 1 .. Len(h) : (h \o r)[k] = h[k]
      /\ \A k \in 1 .. Len(r) : (h \o r)[Len(h) + k] = r[k]
  BY <1>2, <1>3, ConcatAt
<1>7. Len(p) + 1 \in 1 .. Len(p) + 1 /\ \A k \in 1 .. Len(p) : k \in 1 .. Len(p) + 1
  BY <1>5
<1> QED BY <1>2, <1>3, <1>4, <1>6, <1>7

\* A turn closes the conversation when its calls all have results, or when a
\* failure cuts it short.
LEMMA ClosedShape ==
  ASSUME NEW p \in Seq(Entry), Closed(p), NEW cs \in Seq(Call), NEW rs \in Seq(Call),
         Len(rs) <= Len(cs), Once(rs), Range(rs) \subseteq Range(cs),
         NEW t \in Seq(Entry),
         \A k \in 1 .. Len(p) : t[k] = p[k],
         t[Len(p) + 1] = Assistant(cs),
         \A k \in 1 .. Len(rs) : t[Len(p) + 1 + k] = Result(rs[k]),
         \/ Len(t) = Len(p) + 1 + Len(rs) /\ Len(rs) = Len(cs)
         \/ Len(t) = Len(p) + 1 + Len(rs) + 1 /\ t[Len(t)] = Failure
  PROVE  Closed(t)
<1> SUFFICES ASSUME NEW b \in Nat, NEW n \in Nat, NEW m \in Nat,
                    Len(p) = b, Len(rs) = n, Len(t) = m
             PROVE  Closed(t)
  <2>1. Len(p) \in Nat /\ Len(rs) \in Nat /\ Len(t) \in Nat
    OBVIOUS
  <2> QED BY <2>1
<1>0. /\ n <= Len(cs)
      /\ \A k \in 1 .. b : t[k] = p[k]
      /\ t[b + 1] = Assistant(cs)
      /\ \A k \in 1 .. n : t[b + 1 + k] = Result(rs[k])
      /\ \/ m = b + 1 + n /\ n = Len(cs)
         \/ m = b + 1 + n + 1 /\ t[m] = Failure
  OBVIOUS
<1>1. DOMAIN t = 1 .. m /\ DOMAIN p = 1 .. b /\ DOMAIN rs = 1 .. n
  OBVIOUS
<1>2. m \in {b + 1 + n, b + 1 + n + 1}
  OBVIOUS
<1>3. b + 1 \in 1 .. m /\ \A k \in 1 .. n : b + 1 + k \in 1 .. m
  BY <1>2
<1>4. RoleAt(t, b + 1) = "assistant"
  BY <1>1, <1>3, EntryRoles DEF RoleAt
<1>5. \A k \in 1 .. n : RoleAt(t, b + 1 + k) = "result"
  BY <1>1, <1>3, EntryRoles DEF RoleAt
<1>6. /\ RoleAt(t, b + 1 + n + 1) # "result"
      /\ n < Len(cs) => RoleAt(t, b + 1 + n + 1) = "error"
  <2>1. CASE m = b + 1 + n /\ n = Len(cs)
    <3>1. b + 1 + n + 1 \notin 1 .. m
      BY <2>1
    <3> QED BY <3>1, <1>1, <2>1 DEF RoleAt
  <2>2. CASE m = b + 1 + n + 1 /\ t[m] = Failure
    <3>1. m \in 1 .. m
      BY <2>2
    <3> QED BY <3>1, <1>1, <2>2, EntryRoles DEF RoleAt
  <2> QED BY <2>1, <2>2
<1>7. ASSUME NEW i \in 1 .. b PROVE AnsweredAt(t, i)
  <2>1. b <= m /\ RoleAt(t, b + 1) # "result"
    BY <1>2, <1>4
  <2> QED BY <1>1, <2>1, StillAnswered DEF Closed
<1>8. AnsweredAt(t, b + 1)
  <2>1. n \in 0 .. Len(cs)
    OBVIOUS
  <2>2. t[b + 1].role = "assistant" /\ t[b + 1].calls = cs
    BY EntryRoles
  <2>3. b + 1 + n <= Len(t)
    BY <1>2
  <2>4. \A j \in 1 .. n : rs[j] \in Range(cs)
    BY <1>1 DEF Range
  <2>5. \A c, d : Result(c) = Result(d) => c = d
    <3> SUFFICES ASSUME NEW c, NEW d, Result(c) = Result(d) PROVE c = d
      OBVIOUS
    <3>1. Result(c).calls = <<c>> /\ Result(d).calls = <<d>>
      BY DEF Result
    <3>2. <<c>> = <<d>>
      BY <3>1
    <3> QED BY <3>2
  <2>6. \A j, k \in 1 .. n : t[b + 1 + j] = t[b + 1 + k] => j = k
    <3> SUFFICES ASSUME NEW j \in 1 .. n, NEW k \in 1 .. n, t[b + 1 + j] = t[b + 1 + k]
                 PROVE  j = k
      OBVIOUS
    <3>1. Result(rs[j]) = Result(rs[k])
      BY <1>0
    <3>2. rs[j] = rs[k]
      BY <2>5, <3>1
    <3> QED BY <1>1, <3>2 DEF Once
  <2>7. Answers(t, b + 1, n)
    BY <2>2, <2>3, <2>4, <2>6 DEF Answers
  <2> QED BY <1>6, <2>1, <2>2, <2>7 DEF AnsweredAt
<1>9. ASSUME NEW k \in 1 .. n PROVE AnsweredAt(t, b + 1 + k)
  <2>1. t[b + 1 + k].role = "result"
    BY EntryRoles
  <2>2. RoleAt(t, (b + 1 + k) - 1) \in {"assistant", "result"}
    <3>1. CASE k = 1
      <4>1. (b + 1 + k) - 1 = b + 1
        BY <3>1
      <4> QED BY <4>1, <1>4
    <3>2. CASE k # 1
      <4>1. k - 1 \in 1 .. n /\ (b + 1 + k) - 1 = b + 1 + (k - 1)
        BY <3>2
      <4> QED BY <4>1, <1>5
    <3> QED BY <3>1, <3>2
  <2> QED BY <2>1, <2>2 DEF AnsweredAt
<1>10. m = b + 1 + n + 1 => AnsweredAt(t, m)
  <2> SUFFICES ASSUME m = b + 1 + n + 1 PROVE AnsweredAt(t, m)
    OBVIOUS
  <2>1. t[m] = Failure
    OBVIOUS
  <2>2. t[m].role = "error"
    BY <2>1, EntryRoles
  <2> QED BY <2>2 DEF AnsweredAt
<1>11. ASSUME NEW i \in 1 .. m PROVE AnsweredAt(t, i)
  <2>1. CASE i <= b
    BY <2>1, <1>7
  <2>2. CASE i = b + 1
    BY <2>2, <1>8
  <2>3. CASE b + 1 < i /\ i <= b + 1 + n
    <3>1. i - (b + 1) \in 1 .. n /\ b + 1 + (i - (b + 1)) = i
      BY <2>3
    <3> DEFINE k == i - (b + 1)
    <3> HIDE DEF k
    <3>2. k \in 1 .. n /\ b + 1 + k = i
      BY <3>1 DEF k
    <3>3. AnsweredAt(t, b + 1 + k)
      BY <3>2, <1>9
    <3> QED BY <3>2, <3>3
  <2>4. CASE i > b + 1 + n
    <3>1. i = m /\ m = b + 1 + n + 1
      BY <2>4, <1>2
    <3> QED BY <3>1, <1>10
  <2> QED BY <2>1, <2>2, <2>3, <2>4
<1> QED BY <1>1, <1>11 DEF Closed

LEMMA ClosedTurn ==
  ASSUME NEW p \in Seq(Entry), Closed(p), NEW cs \in Seq(Call), NEW rs \in Seq(Call),
         Once(rs), Range(rs) \subseteq Range(cs)
  PROVE  /\ Turn(p, cs, rs) \in Seq(Entry)
         /\ Len(rs) = Len(cs) => Closed(Turn(p, cs, rs))
         /\ Closed(Append(Turn(p, cs, rs), Failure))
<1> DEFINE u == Turn(p, cs, rs)
           t == Append(u, Failure)
<1>1. Len(rs) <= Len(cs)
  BY NoMoreResults
<1>2. /\ u \in Seq(Entry) /\ Len(u) = Len(p) + 1 + Len(rs)
      /\ \A k \in 1 .. Len(p) : u[k] = p[k]
      /\ u[Len(p) + 1] = Assistant(cs)
      /\ \A k \in 1 .. Len(rs) : u[Len(p) + 1 + k] = Result(rs[k])
  BY TurnShape
<1> HIDE DEF u
<1>3. ASSUME Len(rs) = Len(cs) PROVE Closed(u)
  BY <1>1, <1>2, <1>3, ClosedShape
<1>4. /\ t \in Seq(Entry) /\ Len(t) = Len(u) + 1
      /\ \A k \in 1 .. Len(u) : t[k] = u[k]
      /\ t[Len(u) + 1] = Failure
  BY <1>2, AppendAt, EntryTypes
<1> HIDE DEF t
<1>5. Len(p) \in Nat /\ Len(rs) \in Nat
  OBVIOUS
<1>6. /\ \A k \in 1 .. Len(p) : k \in 1 .. Len(u)
      /\ Len(p) + 1 \in 1 .. Len(u)
      /\ \A k \in 1 .. Len(rs) : Len(p) + 1 + k \in 1 .. Len(u)
  BY <1>2, <1>5
<1>7. /\ \A k \in 1 .. Len(p) : t[k] = p[k]
      /\ t[Len(p) + 1] = Assistant(cs)
      /\ \A k \in 1 .. Len(rs) : t[Len(p) + 1 + k] = Result(rs[k])
  BY <1>2, <1>4, <1>6
<1>8. Len(t) = Len(p) + 1 + Len(rs) + 1 /\ t[Len(t)] = Failure
  BY <1>2, <1>4
<1>9. Closed(t)
  BY <1>1, <1>4, <1>7, <1>8, ClosedShape
<1> QED BY <1>2, <1>3, <1>9 DEF t, u

LEMMA NewCallsOnce == \A cs \in NewCalls : Once(cs)
<1> SUFFICES ASSUME NEW n \in 0 .. MaxCalls - Made
             PROVE  Once([i \in 1 .. n |-> Made + i])
  BY DEF NewCalls
<1>1. Made \in Nat
  <2>1. IsFiniteSet(Call)
    BY FS_Interval, AgentAssumption DEF Call
  <2> QED BY <2>1, FS_Subset, FS_CardinalityType DEF Made
<1> QED BY <1>1 DEF Once

LEMMA OnceAppend ==
  ASSUME NEW s \in Seq(Call), Once(s), NEW c \in Call, c \notin Range(s)
  PROVE  Once(Append(s, c))
<1>1. Len(s) \in Nat /\ DOMAIN s = 1 .. Len(s) /\ DOMAIN Append(s, c) = 1 .. Len(s) + 1
  OBVIOUS
<1>2. \A i \in 1 .. Len(s) : Append(s, c)[i] = s[i] /\ s[i] # c
  BY <1>1 DEF Range
<1>3. Append(s, c)[Len(s) + 1] = c
  OBVIOUS
<1>4. \A i \in 1 .. Len(s) + 1 : i \in 1 .. Len(s) \/ i = Len(s) + 1
  BY <1>1
<1> QED BY <1>1, <1>2, <1>3, <1>4 DEF Once

LEMMA CallRange ==
  ASSUME NEW s \in Seq(Call), NEW c \in Call
  PROVE  Range(Append(s, c)) = Range(s) \cup {c}
<1>1. Len(s) \in Nat /\ DOMAIN s = 1 .. Len(s) /\ DOMAIN Append(s, c) = 1 .. Len(s) + 1
  OBVIOUS
<1>2. \A i \in 1 .. Len(s) : Append(s, c)[i] = s[i] /\ i \in 1 .. Len(s) + 1
  BY <1>1
<1>3. Append(s, c)[Len(s) + 1] = c /\ Len(s) + 1 \in 1 .. Len(s) + 1
  BY <1>1
<1>4. \A i \in 1 .. Len(s) + 1 : i \in 1 .. Len(s) \/ i = Len(s) + 1
  BY <1>1
<1> QED BY <1>1, <1>2, <1>3, <1>4 DEF Range

\* Away from its tools the run adds nothing that would be left open.
LEMMA AnsweringGrows ==
  ASSUME LoopInv, Answering, pc # "tools", pc' # "tools", torn' = torn,
         NEW e \in Entry, e.role \in {"user", "error"} \/ e = Assistant(<<>>),
         transcript' \in {transcript, Append(transcript, e)}
  PROVE  Answering'
<1> SUFFICES ASSUME ~torn PROVE Closed(transcript')
  BY DEF Answering
<1>1. transcript \in Seq(Entry) /\ Closed(transcript)
  BY DEF LoopInv, Typed, Answering
<1> QED BY <1>1, ClosedAppend

\* Nor do its tools as long as none of them is answered.
LEMMA AnsweringSame ==
  ASSUME LoopInv, Answering, UNCHANGED <<pc, batch, results, transcript, torn>>,
         \A c \in Range(batch) : tool'[c] = "answered" <=> tool[c] = "answered"
  PROVE  Answering'
<1>1. Range(batch') = Range(batch) /\ Range(results') = Range(results)
  OBVIOUS
<1>2. {c \in Range(batch') : tool'[c] = "answered"} = {c \in Range(batch) : tool[c] = "answered"}
  OBVIOUS
<1>3. CASE pc = "tools"
  <2>1. Once(batch') /\ Once(results')
    BY <1>3 DEF Answering
  <2>2. ~torn' => \E p \in Seq(Entry) : transcript' = Turn(p, batch', results') /\ Closed(p)
    BY <1>3 DEF Answering
  <2> QED BY <1>1, <1>2, <1>3, <2>1, <2>2 DEF Answering
<1>4. CASE pc # "tools"
  BY <1>4 DEF Answering
<1> QED BY <1>3, <1>4

LEMMA AnsweringResponds ==
  ASSUME LoopInv, Answering, NEW cs \in NewCalls, Respond(cs)
  PROVE  Answering'
<1>1. cs \in Seq(Call) /\ Once(cs)
  BY NewCallsType, NewCallsOnce
<1>2. /\ pc = "calling" /\ transcript' = Append(transcript, Assistant(cs))
      /\ batch' = cs /\ results' = <<>> /\ torn' = torn
      /\ tool' = [c \in Call |-> IF c \in Range(cs) THEN "asked" ELSE tool[c]]
      /\ pc' = IF cs = <<>> THEN "polling" ELSE "tools"
  BY DEF Respond
<1>3. Assistant(cs) \in Entry /\ transcript \in Seq(Entry)
  BY <1>1, EntryTypes DEF LoopInv, Typed
<1>4. CASE cs = <<>>
  BY <1>2, <1>3, <1>4, AnsweringGrows
<1>5. CASE cs # <<>>
  <2>1. Once(results')
    BY <1>2 DEF Once
  <2>2. Range(results') = {}
    BY <1>2 DEF Range
  <2>3. Range(cs) \subseteq Call
    BY <1>1 DEF Range
  <2>4. {c \in Range(batch') : tool'[c] = "answered"} = {}
    BY <1>2, <2>3
  <2>5. ASSUME ~torn PROVE transcript' = Turn(transcript, batch', results') /\ Closed(transcript)
    <3>1. Results(<<>>) = <<>>
      BY DEF Results
    <3>2. Append(transcript, Assistant(cs)) \in Seq(Entry)
      BY <1>3
    <3>3. Append(transcript, Assistant(cs)) \o <<>> = Append(transcript, Assistant(cs))
      BY <3>2, ConcatEmptySeq
    <3> QED BY <1>2, <2>5, <3>1, <3>3 DEF Turn, Answering
  <2> QED BY <1>1, <1>2, <1>3, <1>5, <2>1, <2>2, <2>4, <2>5 DEF Answering
<1> QED BY <1>4, <1>5

\* A call is answered: it was not before.
LEMMA AnsweringAnswers ==
  ASSUME LoopInv, Rest, Answering, NEW i \in DOMAIN batch, Refuse(i) \/ Finalize(i)
  PROVE  Answering'
<1> DEFINE c == batch[i]
<1>1. /\ pc = "tools" /\ pc' = "tools" /\ batch' = batch /\ torn' = torn
      /\ tool[c] # "answered" /\ tool' = [tool EXCEPT ![c] = "answered"]
      /\ results' = Append(results, c)
      /\ transcript' = Append(transcript, Result(c))
  BY DEF Refuse, Finalize, Answered, Becomes, LoopKept
<1>2. /\ batch \in Seq(Call) /\ results \in Seq(Call) /\ tool \in [Call -> Status]
      /\ c \in Call /\ c \in Range(batch) /\ Range(batch) \subseteq Call
  BY DEF LoopInv, Typed, Rest, Range
<1> HIDE DEF c
<1>3. /\ Once(batch) /\ Once(results)
      /\ Range(results) = {d \in Range(batch) : tool[d] = "answered"}
  BY <1>1 DEF Answering
<1>4. Once(results')
  BY <1>1, <1>2, <1>3, OnceAppend
<1>5. Range(results') = Range(results) \cup {c}
  BY <1>1, <1>2, CallRange
<1>6. \A d \in Range(batch) : tool'[d] = "answered" <=> (d = c \/ tool[d] = "answered")
  BY <1>1, <1>2
<1>7. Range(results') = {d \in Range(batch') : tool'[d] = "answered"}
  BY <1>1, <1>2, <1>3, <1>5, <1>6
<1>8. ASSUME ~torn
      PROVE  \E p \in Seq(Entry) : transcript' = Turn(p, batch, results') /\ Closed(p)
  <2>1. PICK p \in Seq(Entry) : transcript = Turn(p, batch, results) /\ Closed(p)
    BY <1>1, <1>8 DEF Answering
  <2>2. Append(p, Assistant(batch)) \in Seq(Entry)
    BY <1>2, EntryTypes
  <2>3. Turn(p, batch, results') = Append(transcript, Result(c))
    BY <1>1, <1>2, <2>1, <2>2, ResultsAppend DEF Turn
  <2> QED BY <1>1, <2>1, <2>3
<1> QED BY <1>1, <1>3, <1>4, <1>7, <1>8 DEF Answering

\* The turn ends when all are.
LEMMA AnsweringEnds ==
  ASSUME LoopInv, Answering, EndTurn
  PROVE  Answering'
<1>1. /\ pc = "tools" /\ pc' = "polling" /\ Unanswered = {}
      /\ UNCHANGED <<transcript, torn>>
  BY DEF EndTurn
<1>2. batch \in Seq(Call) /\ results \in Seq(Call)
  BY DEF LoopInv, Typed
<1>3. /\ Once(batch) /\ Once(results)
      /\ Range(results) = {c \in Range(batch) : tool[c] = "answered"}
  BY <1>1 DEF Answering
<1>4. Range(results) = Range(batch)
  BY <1>1, <1>3 DEF Unanswered, Range
<1>5. Len(results) <= Len(batch) /\ Len(batch) <= Len(results)
  BY <1>2, <1>3, <1>4, NoMoreResults
<1>6. Len(results) = Len(batch)
  BY <1>2, <1>5
<1>7. ASSUME ~torn PROVE Closed(transcript)
  <2>1. PICK p \in Seq(Entry) : transcript = Turn(p, batch, results) /\ Closed(p)
    BY <1>1, <1>7 DEF Answering
  <2> QED BY <1>2, <1>3, <1>4, <1>6, <2>1, ClosedTurn
<1> QED BY <1>1, <1>7 DEF Answering

\* A run that fails while its tools are at work closes the turn, too.
LEMMA AnsweringThrows ==
  ASSUME LoopInv, Answering, Throw
  PROVE  Answering'
<1>1. /\ pc' = "failing" /\ torn' = torn /\ transcript' = Append(transcript, Failure)
      /\ Failure \in Entry
  BY EntryTypes DEF Throw
<1>2. CASE pc # "tools"
  BY <1>1, <1>2, EntryRoles, AnsweringGrows
<1>3. CASE pc = "tools"
  <2>1. batch \in Seq(Call) /\ results \in Seq(Call)
    BY DEF LoopInv, Typed
  <2>2. Once(results) /\ Range(results) \subseteq Range(batch)
    BY <1>3 DEF Answering
  <2>3. ASSUME ~torn PROVE Closed(transcript')
    <3>1. PICK p \in Seq(Entry) : transcript = Turn(p, batch, results) /\ Closed(p)
      BY <1>3, <2>3 DEF Answering
    <3> QED BY <1>1, <2>1, <2>2, <3>1, ClosedTurn
  <2> QED BY <1>1, <2>3 DEF Answering
<1> QED BY <1>2, <1>3

LEMMA AnsweringInit == Init => Answering
<1> SUFFICES ASSUME Init PROVE Answering
  OBVIOUS
<1>1. pc = "idle" /\ transcript \in {<<>>, <<User(Restored)>>}
  BY DEF Init
<1>2. Closed(<<>>)
  BY DEF Closed
<1>3. <<>> \in Seq(Entry) /\ Append(<<>>, User(Restored)) = <<User(Restored)>>
  OBVIOUS
<1>4. Closed(<<User(Restored)>>)
  BY <1>2, <1>3, EntryTypes, EntryRoles, ClosedAppend
<1> QED BY <1>1, <1>2, <1>4 DEF Answering

LEMMA AnsweringStep == LoopInv /\ Rest /\ Answering /\ [Next]_vars => Answering'
<1> SUFFICES ASSUME LoopInv, Rest, Answering, [Next]_vars PROVE Answering'
  OBVIOUS
<1>1. Failure \in Entry /\ Failure.role = "error"
  BY EntryTypes, EntryRoles
<1>2. CASE UNCHANGED <<pc, tools, transcript, torn>>
  BY <1>2, AnsweringSame
<1>3. CASE EmitPrompt \/ Inject
  <2>1. pending # <<>> /\ pending \in Seq(Message)
    BY <1>3 DEF EmitPrompt, Inject, LoopInv, HasPending, Typed
  <2>2. User(Head(pending)) \in Entry /\ User(Head(pending)).role = "user"
    BY <2>1, EntryTypes, EntryRoles
  <2> QED BY <1>3, <2>2, AnsweringGrows DEF EmitPrompt, Inject, Deliver
<1>4. CASE Poll
  BY <1>1, <1>4, AnsweringGrows DEF Poll, AfterPoll
<1>5. CASE FollowUp
  BY <1>1, <1>5, AnsweringGrows DEF FollowUp, AfterFollowUp
<1>6. ASSUME NEW prompts, Begin(prompts) PROVE Answering'
  BY <1>1, <1>6, AnsweringGrows DEF Begin
<1>7. CASE Finish
  BY <1>1, <1>7, AnsweringGrows DEF Finish
<1>8. CASE RespondError
  BY <1>1, <1>8, AnsweringGrows DEF RespondError
<1>9. CASE Reset
  <2>1. transcript' = <<>> /\ torn' = (pc # "idle") /\ UNCHANGED <<pc, tools>>
    BY <1>9 DEF Reset
  <2>2. Closed(<<>>)
    BY DEF Closed
  <2>3. CASE pc = "tools"
    <3>1. torn'
      BY <2>1, <2>3
    <3>2. Once(batch') /\ Once(results')
      BY <2>1, <2>3 DEF Answering
    <3>3. Range(results') = {c \in Range(batch') : tool'[c] = "answered"}
      BY <2>1, <2>3 DEF Answering
    <3> QED BY <2>1, <2>3, <3>1, <3>2, <3>3 DEF Answering
  <2>4. CASE pc # "tools"
    BY <2>1, <2>2, <2>4 DEF Answering
  <2> QED BY <2>3, <2>4
<1>10. ASSUME NEW i \in DOMAIN batch, Announce(i) \/ Prepare(i) PROVE Answering'
  <2>1. /\ UNCHANGED <<pc, batch, results, transcript, torn>>
        /\ tool[batch[i]] # "answered"
        /\ \E s \in {"announced", "prepared"} : tool' = [tool EXCEPT ![batch[i]] = s]
    BY <1>10 DEF Announce, Prepare, Becomes, LoopKept
  <2>2. tool \in [Call -> Status] /\ Range(batch) \subseteq Call
    BY DEF LoopInv, Typed, Rest, Range
  <2>3. \A c \in Range(batch) : tool'[c] = "answered" <=> tool[c] = "answered"
    BY <2>1, <2>2
  <2> QED BY <2>1, <2>3, AnsweringSame
<1>11. CASE Launch
  <2>1. /\ UNCHANGED <<pc, batch, results, transcript, torn>>
        /\ tool' = [c \in Call |-> IF c \in Range(batch) /\ tool[c] = "prepared"
                                   THEN "running" ELSE tool[c]]
    BY <1>11 DEF Launch, LoopKept
  <2>2. Range(batch) \subseteq Call
    BY DEF LoopInv, Typed, Range
  <2>3. \A c \in Range(batch) : tool'[c] = "answered" <=> tool[c] = "answered"
    BY <2>1, <2>2
  <2> QED BY <2>1, <2>3, AnsweringSame
<1>12. ASSUME NEW d \in Call, Return(d) PROVE Answering'
  <2>1. /\ UNCHANGED <<pc, batch, results, transcript, torn>>
        /\ tool[d] = "running" /\ tool' = [tool EXCEPT ![d] = "returned"]
    BY <1>12 DEF Return, Becomes, LoopKept
  <2>2. tool \in [Call -> Status] /\ Range(batch) \subseteq Call
    BY DEF LoopInv, Typed, Rest, Range
  <2>3. \A c \in Range(batch) : tool'[c] = "answered" <=> tool[c] = "answered"
    BY <2>1, <2>2
  <2> QED BY <2>1, <2>3, AnsweringSame
<1>13. ASSUME NEW m \in Message, NEW q \in Queue, Enqueue(q, m) PROVE Answering'
  BY <1>2, <1>13 DEF Enqueue
<1>14. ASSUME NEW q \in Queue, Clear(q) PROVE Answering'
  BY <1>2, <1>14 DEF Clear
<1>15. CASE UNCHANGED vars
  BY <1>2, <1>15 DEF vars
<1>16. CASE (\E m \in Message : Prompt(m)) \/ (\E q \in Queue : ContinueQueued(q)) \/ Continue
  BY <1>6, <1>16 DEF Prompt, ContinueQueued, Continue
<1> QED
  BY <1>3, <1>4, <1>5, <1>7, <1>8, <1>9, <1>10, <1>11, <1>12, <1>13, <1>14, <1>15,
     <1>16, AnsweringResponds, AnsweringAnswers, AnsweringEnds, AnsweringThrows
  DEF Next, Client, RunStep, ToolStep, Answer

\* The model is never called with a call of its own left open, unless reset()
\* has cut into the run: property CallsAnswered.
THEOREM AgentCallsAnswered == Spec => []CallsAnswered
<1>1. LoopInv /\ Answering => CallsAnswered
  <2> SUFFICES ASSUME LoopInv, Answering, pc = "calling", ~torn
               PROVE  \A i \in DOMAIN context : AnsweredAt(context, i)
    BY DEF CallsAnswered
  <2>1. context = transcript
    BY DEF LoopInv, Mirror
  <2>2. Closed(transcript)
    BY DEF Answering
  <2> QED BY <2>1, <2>2 DEF Closed
<1>2. Spec => []Answering
  BY AnsweringInit, AnsweringStep, LoopInvHolds, RestInvariance, PTL DEF Spec
<1> QED BY <1>1, <1>2, LoopInvHolds, PTL
=============================================================================
