---------------------------- MODULE McpSessionProofs ----------------------------
(***************************************************************************)
(* The server answers every line it has read exactly once, in order and    *)
(* message by message (AnsweredOnce), and its logs are those the client    *)
(* asked for (LogsHeard); a job of the terminal exits with the code of its *)
(* worst child (WorstChild), and a suite that exits with 0 has seen all it *)
(* promised pass (SuitePasses); of the files every step changes those it   *)
(* was asked to change (NamedFiles); terminal and server give one answer   *)
(* to one question (OneAnswerForAll); and a drift check tells whether the  *)
(* models still promise what the last lock was made from (DriftHonest).    *)
(* All of it for every script of the terminal, every input of the client,  *)
(* every registry and every save.                                          *)
(***************************************************************************)
EXTENDS McpSession, SequenceTheorems, TLAPS

IsSequence(s) == \E S : s \in Seq(S)

(* What OneAnswerPerRequest rests on: the responses collected for an open  *)
(* line are those its handled messages are owed, and a suite that runs is  *)
(* the answer to a request of that line.                                   *)
Collected ==
  /\ scenario \in DOMAIN Scenarios
  /\ taken \in 0..Len(Here.inbox) /\ at \in Nat /\ open \in BOOLEAN
  /\ IsSequence(out) /\ IsSequence(replies)
  /\ open => /\ taken > 0
             /\ at <= Len(Line(taken).messages)
             /\ Answers(taken, at, replies)

IsRequestNow ==
  /\ open /\ at < Len(Line(taken).messages)
  /\ ~Malformed(Msg) /\ Msg.id # None

AnswerInv == Collected /\ OneAnswerPerRequest /\ (suite # None => IsRequestNow)

(* The steps, as far as answers go: a message that is answered, one that   *)
(* is not, and everything else.                                            *)
IsLog(logs) == logs = <<>> \/ \E l : l.kind = "log" /\ logs = <<l>>

Replied ==
  /\ open /\ at < Len(Line(taken).messages) /\ ~IsNotification(Msg)
  /\ at' = at + 1
  /\ \E r : r.at = at + 1 /\ r.id = IdOf(taken, at + 1) /\ replies' = Append(replies, r)
  /\ \E logs : IsLog(logs) /\ out' = out \o logs
  /\ UNCHANGED <<scenario, taken, open>>

Elsewhere == UNCHANGED <<scenario, taken, open, at, replies, out>>

-------------------------------------------------------------------------------
(* Appending to a sequence of anything.                                    *)
LEMMA AppendIsSequence ==
  ASSUME NEW s, IsSequence(s), NEW e
  PROVE  /\ IsSequence(Append(s, e))
         /\ Len(s) \in Nat /\ DOMAIN s = 1..Len(s)
         /\ DOMAIN Append(s, e) = 1..(Len(s) + 1)
         /\ \A i \in 1..Len(s) : Append(s, e)[i] = s[i]
         /\ Append(s, e)[Len(s) + 1] = e
<1>1. PICK S : s \in Seq(S)
  BY DEF IsSequence
<1>2. s \in Seq(S \cup {e})
  BY <1>1, SeqMonotonic
<1>3. Append(s, e) \in Seq(S \cup {e})
  BY <1>2
<1> QED
  BY <1>2, <1>3 DEF IsSequence

(* Log notifications behind the output so far.                             *)
LEMMA LogsAppended ==
  ASSUME NEW s, IsSequence(s), NEW logs, IsLog(logs)
  PROVE  /\ IsSequence(s \o logs)
         /\ Len(s) \in Nat /\ DOMAIN s = 1..Len(s)
         /\ Len(s \o logs) \in Nat /\ DOMAIN (s \o logs) = 1..Len(s \o logs)
         /\ Len(s) <= Len(s \o logs)
         /\ \A i \in 1..Len(s) : (s \o logs)[i] = s[i]
         /\ \A i \in 1..Len(s \o logs) : i > Len(s) => (s \o logs)[i].kind = "log"
<1>1. PICK S : s \in Seq(S)
  BY DEF IsSequence
<1>2. CASE logs = <<>>
  BY <1>1, <1>2, ConcatEmptySeq DEF IsSequence
<1>3. CASE \E l : l.kind = "log" /\ logs = <<l>>
  <2>1. PICK l : l.kind = "log" /\ logs = <<l>>
    BY <1>3
  <2> DEFINE T == S \cup {l}
  <2>2. s \in Seq(T) /\ logs \in Seq(T) /\ Len(logs) = 1 /\ logs[1] = l
    BY <1>1, <2>1, SeqMonotonic
  <2>3. /\ s \o logs \in Seq(T) /\ Len(s \o logs) = Len(s) + 1
        /\ \A i \in 1..Len(s) + 1 : (s \o logs)[i] = IF i <= Len(s) THEN s[i] ELSE logs[i - Len(s)]
    BY <2>2, ConcatProperties
  <2> QED
    BY <2>1, <2>2, <2>3 DEF IsSequence
<1> QED
  BY <1>2, <1>3 DEF IsLog

-------------------------------------------------------------------------------
(* A line of the input, its messages, and who is owed an answer.           *)
LEMMA LineShape ==
  ASSUME scenario \in DOMAIN Scenarios, NEW k \in 1..Len(Here.inbox)
  PROVE  /\ Len(Line(k).messages) \in Nat
         /\ DOMAIN Line(k).messages = 1..Len(Line(k).messages)
         /\ Line(k).form = "unparsable" => Len(Line(k).messages) = 0
         /\ \A i \in NeedsAnswer(k) : i \in Nat /\ i <= Len(Line(k).messages)
<1>1. /\ Here.inbox \in Seq(ToSet(Here.inbox))
      /\ \A j \in DOMAIN Here.inbox :
           /\ Here.inbox[j].messages \in Seq(ToSet(Here.inbox[j].messages))
           /\ Here.inbox[j].form = "unparsable" => Here.inbox[j].messages = <<>>
  BY InboxAssumption DEF Here
<1>2. k \in DOMAIN Here.inbox
  BY <1>1
<1>3. Line(k).messages \in Seq(ToSet(Line(k).messages))
  BY <1>1, <1>2 DEF Line
<1>4. Line(k).form = "unparsable" => Line(k).messages = <<>>
  BY <1>1, <1>2 DEF Line
<1> QED
  BY <1>3, <1>4 DEF NeedsAnswer

-------------------------------------------------------------------------------
(* At the start nothing was read, and nothing written.                     *)
LEMMA AnswerInit == Init => AnswerInv
<1> SUFFICES ASSUME Init PROVE AnswerInv
  OBVIOUS
<1>1. /\ taken = 0 /\ open = FALSE /\ at = 0 /\ replies = <<>> /\ out = <<>> /\ suite = None
      /\ scenario \in DOMAIN Scenarios
  BY DEF Init, WInit, MInit
<1>2. IsSequence(out) /\ IsSequence(replies) /\ Len(Here.inbox) \in Nat
  <2>1. <<>> \in Seq({})
    BY EmptySeq
  <2> QED
    BY <1>1, <2>1, InboxAssumption DEF IsSequence, Here
<1>3. Collected
  <2>1. taken \in 0..Len(Here.inbox) /\ at \in Nat
    BY <1>1, <1>2
  <2>2. open \in BOOLEAN /\ ~open
    BY <1>1
  <2> QED
    BY <1>1, <1>2, <2>1, <2>2, Zenon DEF Collected
<1>4. OneAnswerPerRequest
  BY <1>1 DEF OneAnswerPerRequest, Finished
<1> QED
  BY <1>1, <1>3, <1>4 DEF AnswerInv

(* What a line is owed depends on the input alone.                         *)
LEMMA SameInput ==
  ASSUME scenario' = scenario
  PROVE  /\ Here' = Here
         /\ \A k : Line(k)' = Line(k)
         /\ \A k : NeedsAnswer(k)' = NeedsAnswer(k)
         /\ \A k, i : IdOf(k, i)' = IdOf(k, i)
         /\ \A k, position, answers : Answers(k, position, answers)' = Answers(k, position, answers)
BY DEF Here, Line, NeedsAnswer, IdOf, Answers, IsNotification, Malformed

(* A step that reads nothing, handles nothing and writes nothing.          *)
LEMMA ElsewhereStep ==
  ASSUME Collected, OneAnswerPerRequest, Elsewhere
  PROVE  Collected' /\ OneAnswerPerRequest'
BY SameInput DEF Elsewhere, Collected, OneAnswerPerRequest, Finished

(* The output so far still answers the finished lines when logs follow.    *)
LEMMA LogsStep ==
  ASSUME IsSequence(out), OneAnswerPerRequest, UNCHANGED <<scenario, taken, open>>,
         NEW logs, IsLog(logs), out' = out \o logs
  PROVE  OneAnswerPerRequest' /\ IsSequence(out')
<1> DEFINE all == out \o logs
<1>1. /\ IsSequence(all) /\ DOMAIN out = 1..Len(out) /\ DOMAIN all = 1..Len(all)
      /\ Len(out) \in Nat /\ Len(all) \in Nat /\ Len(out) <= Len(all)
      /\ \A i \in 1..Len(out) : all[i] = out[i]
      /\ \A i \in 1..Len(all) : i > Len(out) => all[i].kind = "log"
  BY LogsAppended
<1>2. Finished' = Finished
  BY DEF Finished
<1>3. /\ \A i \in DOMAIN out : i \in DOMAIN out' /\ out'[i] = out[i]
      /\ \A i \in DOMAIN out' : out'[i].kind = "reply" => i \in DOMAIN out /\ out'[i] = out[i]
  BY <1>1
<1>4. out' = all
  OBVIOUS
<1>5. IsSequence(out')
  BY <1>1, <1>4, Zenon
<1>6. ASSUME NEW i \in DOMAIN out', out'[i].kind = "reply"
      PROVE  /\ out'[i].line \in 1..Finished
             /\ NeedsAnswer(out'[i].line) # {}
             /\ Answers(out'[i].line, Len(Line(out'[i].line).messages), out'[i].answers)
  BY <1>3, <1>6 DEF OneAnswerPerRequest
<1>7. ASSUME NEW i \in DOMAIN out', NEW j \in DOMAIN out', i < j,
             out'[i].kind = "reply", out'[j].kind = "reply"
      PROVE  out'[i].line < out'[j].line
  BY <1>3, <1>7 DEF OneAnswerPerRequest
<1>8. ASSUME NEW k \in 1..Finished, NeedsAnswer(k) # {}
      PROVE  \E i \in DOMAIN out' : out'[i].kind = "reply" /\ out'[i].line = k
  BY <1>3, <1>8 DEF OneAnswerPerRequest
<1> HIDE DEF all
<1>9. OneAnswerPerRequest'
  <2>1. ASSUME NEW i \in DOMAIN out', out'[i].kind = "reply"
        PROVE  (/\ out[i].line \in 1..Finished
                /\ NeedsAnswer(out[i].line) # {}
                /\ Answers(out[i].line, Len(Line(out[i].line).messages), out[i].answers))'
    <3>1. PICK e : e = out'[i]
      OBVIOUS
    <3>2. /\ e.line \in 1..Finished
          /\ NeedsAnswer(e.line) # {}
          /\ Answers(e.line, Len(Line(e.line).messages), e.answers)
      BY <1>6, <2>1, <3>1
    <3>3. /\ e.line \in 1..Finished'
          /\ NeedsAnswer(e.line)' # {}
          /\ Line(e.line)' = Line(e.line)
      BY <1>2, <3>2, SameInput
    <3>4. Answers(e.line, Len(Line(e.line).messages), e.answers)'
      BY <3>2, SameInput DEF Answers, Line, Here
    <3> QED
      BY <3>1, <3>3, <3>4
  <2>2. \A k \in 1..Finished' : NeedsAnswer(k)' # {}
           => \E i \in DOMAIN out' : out'[i].kind = "reply" /\ out'[i].line = k
    BY <1>2, <1>8, SameInput
  <2> QED
    BY <1>7, <2>1, <2>2 DEF OneAnswerPerRequest
<1> QED
  BY <1>5, <1>9

(* A message that is answered.                                             *)
LEMMA RepliedStep ==
  ASSUME Collected, OneAnswerPerRequest, Replied
  PROVE  Collected' /\ OneAnswerPerRequest'
<1> USE SameInput DEF Replied
<1>1. PICK r : r.at = at + 1 /\ r.id = IdOf(taken, at + 1) /\ replies' = Append(replies, r)
  OBVIOUS
<1>2. PICK logs : IsLog(logs) /\ out' = out \o logs
  OBVIOUS
<1>3. OneAnswerPerRequest' /\ IsSequence(out')
  BY <1>2, LogsStep DEF Collected
<1>4. taken \in 1..Len(Here.inbox) /\ at \in Nat /\ at + 1 <= Len(Line(taken).messages)
  BY LineShape DEF Collected
<1>5. at + 1 \in NeedsAnswer(taken) /\ Line(taken).form # "unparsable"
  BY <1>4, LineShape DEF NeedsAnswer, Msg, Collected
<1>6. /\ IsSequence(replies') /\ Len(replies) \in Nat
      /\ DOMAIN replies = 1..Len(replies) /\ DOMAIN replies' = 1..(Len(replies) + 1)
      /\ \A i \in 1..Len(replies) : replies'[i] = replies[i]
      /\ replies'[Len(replies) + 1] = r
  BY <1>1, AppendIsSequence DEF Collected
<1>7. Answers(taken, at + 1, replies')
  <2>1. Answers(taken, at, replies)
    BY DEF Collected
  <2>2. \A i \in DOMAIN replies : replies[i].at \in NeedsAnswer(taken) /\ replies[i].at <= at
    BY <2>1 DEF Answers
  <2>3. \A i \in NeedsAnswer(taken) : i \in Nat
    BY <1>4, LineShape DEF Collected
  <2>4. {replies'[i].at : i \in DOMAIN replies'} = {i \in NeedsAnswer(taken) : i <= at + 1}
    <3>1. ASSUME NEW i \in DOMAIN replies'
          PROVE  replies'[i].at \in NeedsAnswer(taken) /\ replies'[i].at <= at + 1
      BY <1>1, <1>4, <1>5, <1>6, <2>2, <2>3
    <3>2. ASSUME NEW n \in NeedsAnswer(taken), n <= at + 1
          PROVE  \E i \in DOMAIN replies' : replies'[i].at = n
      <4>1. CASE n = at + 1
        BY <1>1, <1>6, <4>1
      <4>2. CASE n <= at
        <5>1. n \in {replies[i].at : i \in DOMAIN replies}
          BY <2>1, <4>2 DEF Answers
        <5> QED
          BY <5>1, <1>6
      <4> QED
        BY <1>4, <2>3, <3>2, <4>1, <4>2
    <3> QED
      BY <3>1, <3>2
  <2>5. \A i, j \in DOMAIN replies' : i < j => replies'[i].at < replies'[j].at
    BY <1>1, <1>4, <1>6, <2>1, <2>2, <2>3 DEF Answers
  <2>6. \A i \in DOMAIN replies' : replies'[i].id = IdOf(taken, replies'[i].at)
    BY <1>1, <1>6, <2>1 DEF Answers
  <2> QED
    BY <2>4, <2>5, <2>6 DEF Answers
<1>8. Collected'
  BY <1>3, <1>4, <1>6, <1>7 DEF Collected
<1> QED
  BY <1>3, <1>8

(* A message that asks nothing.                                            *)
LEMMA NotifyStep ==
  ASSUME Collected, OneAnswerPerRequest, Notify
  PROVE  Collected' /\ OneAnswerPerRequest'
<1> USE SameInput
<1>1. /\ UNCHANGED <<scenario, taken, open, replies, out>>
      /\ at' = at + 1 /\ open /\ at < Len(Line(taken).messages) /\ IsNotification(Msg)
  BY DEF Notify, Pending, project
<1>2. taken \in 1..Len(Here.inbox) /\ at \in Nat /\ at + 1 <= Len(Line(taken).messages)
  BY <1>1, LineShape DEF Collected
<1>3. at + 1 \notin NeedsAnswer(taken)
  BY <1>1, <1>2, LineShape DEF NeedsAnswer, Msg, Collected
<1>4. \A i \in NeedsAnswer(taken) : i \in Nat /\ (i <= at + 1 <=> i <= at)
  BY <1>2, <1>3, LineShape DEF Collected
<1>5. Answers(taken, at + 1, replies)
  BY <1>1, <1>4 DEF Collected, Answers
<1>6. Collected'
  BY <1>1, <1>2, <1>5 DEF Collected
<1> QED
  BY <1>1, <1>6 DEF OneAnswerPerRequest, Finished

(* A line is opened with what it is owed before its first message.         *)
LEMMA TakeLineStep ==
  ASSUME Collected, OneAnswerPerRequest, TakeLine
  PROVE  Collected' /\ OneAnswerPerRequest'
<1> USE SameInput
<1> DEFINE opened == IF Line(taken + 1).form = "unparsable"
                       THEN <<ErrorResponse(0, None, -32700)>> ELSE <<>>
<1>1. /\ UNCHANGED <<scenario, out>>
      /\ ~open /\ taken < Len(Here.inbox)
      /\ taken' = taken + 1 /\ open' = TRUE /\ at' = 0 /\ replies' = opened
  BY DEF TakeLine, project
<1>2. taken \in Nat /\ taken + 1 \in 1..Len(Here.inbox)
  BY <1>1 DEF Collected
<1>3. /\ Len(Line(taken + 1).messages) \in Nat
      /\ DOMAIN Line(taken + 1).messages = 1..Len(Line(taken + 1).messages)
      /\ \A i \in NeedsAnswer(taken + 1) : i \in Nat
  BY <1>2, LineShape DEF Collected
<1>4. IsSequence(opened) /\ Answers(taken + 1, 0, opened)
  <2>1. CASE Line(taken + 1).form = "unparsable"
    <3>1. /\ opened \in Seq({ErrorResponse(0, None, -32700)})
          /\ DOMAIN opened = {1} /\ opened[1].at = 0 /\ opened[1].id = None
      BY <2>1 DEF ErrorResponse
    <3>2. NeedsAnswer(taken + 1) = {0} /\ IdOf(taken + 1, 0) = None
      BY <1>3, <2>1 DEF NeedsAnswer, IdOf
    <3> HIDE DEF opened
    <3> QED
      BY <3>1, <3>2 DEF IsSequence, Answers
  <2>2. CASE Line(taken + 1).form # "unparsable"
    <3>1. opened = <<>>
      BY <2>2
    <3>2. opened \in Seq({}) /\ DOMAIN opened = {}
      BY <3>1, EmptySeq
    <3>3. {i \in NeedsAnswer(taken + 1) : i <= 0} = {}
      BY <1>3, <2>2 DEF NeedsAnswer
    <3> HIDE DEF opened
    <3> QED
      BY <3>2, <3>3 DEF IsSequence, Answers
  <2> QED
    BY <2>1, <2>2
<1> HIDE DEF opened
<1>5. Collected'
  BY <1>1, <1>2, <1>3, <1>4 DEF Collected
<1>6. Finished' = Finished
  BY <1>1, <1>2 DEF Finished
<1> QED
  BY <1>1, <1>5, <1>6 DEF OneAnswerPerRequest

(* A line is closed with the responses collected for it, if there are any. *)
LEMMA FinishLineStep ==
  ASSUME Collected, OneAnswerPerRequest, FinishLine
  PROVE  Collected' /\ OneAnswerPerRequest'
<1> USE SameInput
<1>1. /\ UNCHANGED <<scenario, taken, at, replies>>
      /\ open /\ open' = FALSE /\ at = Len(Line(taken).messages)
  BY DEF FinishLine, Handled, project
<1>2. taken \in 1..Len(Here.inbox) /\ Finished = taken - 1 /\ Finished' = taken
  BY <1>1 DEF Collected, Finished
<1>3. {i \in NeedsAnswer(taken) : i <= at} = NeedsAnswer(taken)
  BY <1>1, <1>2, LineShape DEF Collected
<1>4. Answers(taken, Len(Line(taken).messages), replies)
      /\ {replies[i].at : i \in DOMAIN replies} = NeedsAnswer(taken)
  BY <1>1, <1>3 DEF Collected, Answers
<1>5. CASE replies = <<>>
  <2>1. out' = out /\ NeedsAnswer(taken) = {}
    <3>1. DOMAIN replies = {}
      BY <1>5, EmptySeq
    <3> QED
      BY <1>4, <1>5, <3>1 DEF FinishLine
  <2>2. Collected'
    BY <1>1, <2>1 DEF Collected
  <2>3. OneAnswerPerRequest'
    <3>1. 1..Finished' = 1..Finished \cup {taken}
      BY <1>2 DEF Collected
    <3>2. \A k \in 1..Finished' : NeedsAnswer(k)' # {}
             => \E i \in DOMAIN out' : out'[i].kind = "reply" /\ out'[i].line = k
      <4> SUFFICES ASSUME NEW k \in 1..Finished', NeedsAnswer(k)' # {}
                   PROVE  \E i \in DOMAIN out' : out'[i].kind = "reply" /\ out'[i].line = k
        OBVIOUS
      <4>1. NeedsAnswer(k) # {}
        BY <1>1
      <4>2. k \in 1..Finished
        BY <1>2, <2>1, <4>1
      <4> QED
        BY <2>1, <4>1, <4>2 DEF OneAnswerPerRequest
    <3>3. \A i \in DOMAIN out' : out'[i].kind = "reply" => out'[i].line \in 1..Finished'
      BY <2>1, <3>1 DEF OneAnswerPerRequest
    <3> QED
      BY <1>1, <2>1, <3>2, <3>3 DEF OneAnswerPerRequest
  <2> QED
    BY <2>2, <2>3
<1>6. CASE replies # <<>>
  <2> DEFINE entry == [kind |-> "reply", line |-> taken, answers |-> replies]
  <2>1. out' = Append(out, entry)
    BY <1>6 DEF FinishLine
  <2>2. /\ IsSequence(out') /\ Len(out) \in Nat
        /\ DOMAIN out = 1..Len(out) /\ DOMAIN out' = 1..(Len(out) + 1)
        /\ \A i \in 1..Len(out) : out'[i] = out[i]
        /\ out'[Len(out) + 1] = entry
    BY <2>1, AppendIsSequence DEF Collected
  <2>3. NeedsAnswer(taken) # {}
    <3>1. PICK S : replies \in Seq(S)
      BY DEF Collected, IsSequence
    <3>2. 1 \in DOMAIN replies
      BY <1>6, <3>1, EmptySeq, LenProperties
    <3> QED
      BY <1>4, <3>2
  <2>4. Collected'
    BY <1>1, <2>2 DEF Collected
  <2>5. ASSUME NEW i \in DOMAIN out', out'[i].kind = "reply"
        PROVE  (/\ out[i].line \in 1..Finished
                /\ NeedsAnswer(out[i].line) # {}
                /\ Answers(out[i].line, Len(Line(out[i].line).messages), out[i].answers))'
    <3>1. PICK e : e = out'[i]
      OBVIOUS
    <3>2. /\ e.line \in 1..taken
          /\ NeedsAnswer(e.line) # {}
          /\ Answers(e.line, Len(Line(e.line).messages), e.answers)
      <4>1. CASE i \in 1..Len(out)
        BY <1>2, <2>2, <2>5, <3>1, <4>1 DEF OneAnswerPerRequest
      <4>2. CASE i = Len(out) + 1
        BY <1>2, <1>4, <2>2, <2>3, <3>1, <4>2
      <4> QED
        BY <2>2, <4>1, <4>2
    <3>3. /\ e.line \in 1..Finished'
          /\ NeedsAnswer(e.line)' # {}
          /\ Line(e.line)' = Line(e.line)
      BY <1>1, <1>2, <3>2
    <3>4. Answers(e.line, Len(Line(e.line).messages), e.answers)'
      BY <1>1, <3>2 DEF Answers, Line, Here
    <3> QED
      BY <3>1, <3>3, <3>4
  <2>6. \A i, j \in DOMAIN out' : i < j /\ out'[i].kind = "reply" /\ out'[j].kind = "reply"
                                 => out'[i].line < out'[j].line
    <3> SUFFICES ASSUME NEW i \in DOMAIN out', NEW j \in DOMAIN out', i < j,
                        out'[i].kind = "reply", out'[j].kind = "reply"
                 PROVE  out'[i].line < out'[j].line
      OBVIOUS
    <3>1. i \in 1..Len(out) /\ out'[i] = out[i] /\ out[i].line \in 1..(taken - 1)
      BY <1>2, <2>2 DEF OneAnswerPerRequest
    <3>2. CASE j \in 1..Len(out)
      BY <2>2, <3>1, <3>2 DEF OneAnswerPerRequest
    <3>3. CASE j = Len(out) + 1
      BY <1>2, <2>2, <3>1, <3>3
    <3> QED
      BY <2>2, <3>2, <3>3
  <2>7. \A k \in 1..Finished' : NeedsAnswer(k)' # {}
           => \E i \in DOMAIN out' : out'[i].kind = "reply" /\ out'[i].line = k
    <3> SUFFICES ASSUME NEW k \in 1..Finished', NeedsAnswer(k)' # {}
                 PROVE  \E i \in DOMAIN out' : out'[i].kind = "reply" /\ out'[i].line = k
      OBVIOUS
    <3>1. NeedsAnswer(k) # {} /\ (k \in 1..Finished \/ k = taken)
      BY <1>1, <1>2
    <3>2. CASE k = taken
      BY <2>2, <3>2
    <3>3. CASE k \in 1..Finished
      BY <2>2, <3>1, <3>3 DEF OneAnswerPerRequest
    <3> QED
      BY <3>1, <3>2, <3>3
  <2> QED
    BY <2>4, <2>5, <2>6, <2>7 DEF OneAnswerPerRequest
<1> QED
  BY <1>5, <1>6

-------------------------------------------------------------------------------
(* Every other step either answers the message at hand or leaves it alone, *)
(* and a suite begins with a request and ends with its answer.             *)
Answering ==
  \/ Replied /\ suite' = None
  \/ Elsewhere /\ (suite' # None => IsRequestNow)

(* maybe_log appends one log or none.                                      *)
LEMMA MaybeLogIsLog == \A level : IsLog(MaybeLog(level))
BY DEF IsLog, MaybeLog

(* An answer, or an error, to the message at hand.                         *)
LEMMA ReplyReplies ==
  ASSUME open, at < Len(Line(taken).messages), ~IsNotification(Msg),
         NEW r, r.at = at + 1, r.id = IdOf(taken, at + 1),
         NEW logs, IsLog(logs), Reply(r, logs)
  PROVE  Replied
<1>1. /\ at' = at + 1 /\ replies' = Append(replies, r) /\ out' = out \o logs
      /\ UNCHANGED <<scenario, taken, open>>
  BY DEF Reply
<1> QED
  BY <1>1, Zenon DEF Replied

(* An answer, or a refusal, to the request at hand.                        *)
LEMMA RequestReplies ==
  ASSUME Collected, IsRequestNow,
         NEW logs, IsLog(logs),
         \/ \E result : Reply(Answer(result), logs)
         \/ \E code : Reply(Refuse(code), logs)
  PROVE  Replied
<1>1. open /\ at < Len(Line(taken).messages) /\ ~IsNotification(Msg)
  BY DEF IsRequestNow, IsNotification
<1>2. IdOf(taken, at + 1) = Msg.id
  <2>1. taken \in 1..Len(Here.inbox) /\ at \in Nat
    BY <1>1 DEF Collected
  <2>2. at + 1 \in DOMAIN Line(taken).messages
    BY <1>1, <2>1, LineShape DEF Collected
  <2> QED
    BY <2>2 DEF IdOf, IsRequestNow, Msg, Malformed
<1>3. CASE \E result : Reply(Answer(result), logs)
  BY <1>1, <1>2, <1>3, ReplyReplies DEF Answer, Response
<1>4. CASE \E code : Reply(Refuse(code), logs)
  BY <1>1, <1>2, <1>4, ReplyReplies DEF Refuse, ErrorResponse
<1> QED
  BY <1>3, <1>4

(* A method handles a request, outside of a suite.                         *)
LEMMA RequestsAdmit ==
  ASSUME NEW methods, Requests(methods)
  PROVE  IsRequestNow /\ suite = None
BY DEF Requests, Admitted, Pending, IsRequestNow

(* The methods that answer at once.                                        *)
LEMMA MethodSteps ==
  ASSUME Collected, Initialize \/ SetLevel \/ Ping \/ ListItems \/ ReadItem
  PROVE  Answering
<1>1. CASE Initialize
  BY <1>1, RequestsAdmit, RequestReplies, MaybeLogIsLog DEF Initialize, Answering
<1>2. CASE SetLevel
  BY <1>2, RequestsAdmit, RequestReplies DEF SetLevel, Answering, IsLog
<1>3. CASE Ping
  BY <1>3, RequestsAdmit, RequestReplies DEF Ping, Answering, IsLog
<1>4. CASE ListItems
  BY <1>4, RequestsAdmit, RequestReplies, MaybeLogIsLog DEF ListItems, Answering, IsLog
<1>5. CASE ReadItem
  BY <1>5, RequestsAdmit, RequestReplies, MaybeLogIsLog DEF ReadItem, Answering, IsLog
<1> QED
  BY <1>1, <1>2, <1>3, <1>4, <1>5

(* A message that is no request, or asks for a method that is not there.   *)
LEMMA RefuseStep ==
  ASSUME Collected, RefuseMessage
  PROVE  Answering
<1>1. /\ open /\ at < Len(Line(taken).messages) /\ ~IsNotification(Msg)
      /\ suite = None /\ suite' = suite
  BY DEF RefuseMessage, Pending
<1>2. at + 1 \in DOMAIN Line(taken).messages
  <2>1. taken \in 1..Len(Here.inbox) /\ at \in Nat
    BY <1>1 DEF Collected
  <2> QED
    BY <1>1, <2>1, LineShape DEF Collected
<1>3. PICK code : Reply(IF Msg.object THEN Refuse(code) ELSE ErrorResponse(at + 1, None, code), <<>>)
  BY DEF RefuseMessage
<1> DEFINE r == IF Msg.object THEN Refuse(code) ELSE ErrorResponse(at + 1, None, code)
<1>4. r.at = at + 1 /\ r.id = IdOf(taken, at + 1)
  BY <1>2 DEF Refuse, ErrorResponse, IdOf, Msg
<1>5. IsLog(<<>>)
  BY DEF IsLog
<1> HIDE DEF r
<1>6. Replied
  BY <1>1, <1>3, <1>4, <1>5, ReplyReplies DEF r
<1> QED
  BY <1>1, <1>6 DEF Answering

(* Tools, and the suite that takes several steps.                          *)
LEMMA CallReplies ==
  ASSUME Collected, IsRequestNow, NEW result, CallAnswered(result)
  PROVE  Replied
BY RequestReplies, MaybeLogIsLog DEF CallAnswered

(* Every step of a tool call answers its message or waits.                 *)
LEMMA ToolSteps ==
  ASSUME Collected, suite # None => IsRequestNow,
         CallTool \/ BeginSuite \/ InspectNext \/ ChooseRuns \/ RunNext \/ ReturnRows
  PROVE  Answering
<1>1. ASSUME IsRequestNow, NEW result, EndSuite(result) PROVE Answering
  BY <1>1, CallReplies DEF EndSuite, Answering
<1>2. ASSUME IsRequestNow, NEW next, Proceed(next) PROVE Answering
  BY <1>2 DEF Proceed, Answering, Elsewhere, project
<1>3. CASE CallTool
  <2>1. IsRequestNow /\ suite = None /\ suite' = suite
    BY <1>3, RequestsAdmit DEF CallTool, Calls
  <2>2. \E result : CallAnswered(result)
    BY <1>3, Zenon DEF CallTool
  <2> QED
    BY <2>1, <2>2, CallReplies DEF Answering
<1>4. CASE BeginSuite
  <2>1. IsRequestNow
    BY <1>4, RequestsAdmit DEF BeginSuite, Calls
  <2>2. (\E result : EndSuite(result)) \/ Elsewhere
    BY <1>4 DEF BeginSuite, Elsewhere, project
  <2> QED
    BY <1>1, <2>1, <2>2 DEF Answering
<1>5. CASE InspectNext \/ ChooseRuns \/ RunNext \/ ReturnRows
  <2>1. IsRequestNow
    BY <1>5 DEF InspectNext, ChooseRuns, RunNext, ReturnRows, InSuite
  <2>2. CASE InspectNext
    BY <1>1, <1>2, <2>1, <2>2 DEF InspectNext
  <2>3. CASE ChooseRuns
    BY <1>1, <1>2, <2>1, <2>3 DEF ChooseRuns
  <2>4. CASE RunNext
    BY <1>1, <1>2, <2>1, <2>4 DEF RunNext
  <2>5. CASE ReturnRows
    BY <1>1, <2>1, <2>5 DEF ReturnRows
  <2> QED
    BY <1>5, <2>2, <2>3, <2>4, <2>5
<1> QED
  BY <1>3, <1>4, <1>5

(* The developer, the terminal, and the start and the end of the server.   *)
LEMMA OutsideSteps ==
  ASSUME suite # None => IsRequestNow,
         \/ (Develop \/ WorkTerminal) /\ UNCHANGED dialogue
         \/ StartServer \/ StopServer \/ UNCHANGED vars
  PROVE  Answering
<1>1. scenario' = scenario
  BY DEF Develop, SaveCrate, SaveFile, WorkTerminal, StartCommands, RefuseSuite, StartSuite,
         FetchModels, RunRegistryChild, FailBuild, RunFileChild, RunClean, EndJob, Ran,
         StartServer, StopServer, vars, project
<1>2. UNCHANGED <<taken, open, at, replies, suite, out>>
  BY DEF StartServer, StopServer, vars, dialogue
<1> QED
  BY <1>1, <1>2 DEF Answering, Elsewhere

-------------------------------------------------------------------------------
(* Every step keeps what OneAnswerPerRequest rests on.                     *)
LEMMA AnswerNext == AnswerInv /\ [Next]_vars => AnswerInv'
<1> SUFFICES ASSUME AnswerInv, [Next]_vars PROVE AnswerInv'
  OBVIOUS
<1> USE DEF AnswerInv
<1>1. CASE TakeLine
  <2>1. suite' = None
    BY <1>1 DEF TakeLine, IsRequestNow
  <2> QED
    BY <1>1, <2>1, TakeLineStep
<1>2. CASE FinishLine
  <2>1. suite' = None
    BY <1>2 DEF FinishLine, Handled
  <2> QED
    BY <1>2, <2>1, FinishLineStep
<1>3. CASE Notify
  <2>1. suite' = None
    BY <1>3 DEF Notify, Pending
  <2> QED
    BY <1>3, <2>1, NotifyStep
<1>4. CASE Answering
  <2>1. CASE Replied /\ suite' = None
    BY <2>1, RepliedStep
  <2>2. CASE Elsewhere /\ (suite' # None => IsRequestNow)
    <3>1. Collected' /\ OneAnswerPerRequest'
      BY <2>2, ElsewhereStep
    <3>2. IsRequestNow => IsRequestNow'
      BY <2>2 DEF Elsewhere, IsRequestNow, Msg, Malformed, Line, Here
    <3> QED
      BY <2>2, <3>1, <3>2
  <2> QED
    BY <1>4, <2>1, <2>2 DEF Answering
<1>5. CASE HandleMessage /\ ~Notify
  BY <1>4, <1>5, RefuseStep, MethodSteps, ToolSteps DEF HandleMessage
<1>6. CASE ((Develop \/ WorkTerminal) /\ UNCHANGED dialogue) \/ StartServer \/ StopServer \/ UNCHANGED vars
  BY <1>4, <1>6, OutsideSteps
<1> QED
  BY <1>1, <1>2, <1>3, <1>5, <1>6 DEF Next, Work, Serve

(* Every line that was read is answered by exactly one response, message   *)
(* by message and under the ids of the requests, whatever happens to the   *)
(* registry, the files and the tools in between (serve_stdio).             *)
THEOREM AnsweredOnce == Spec => []OneAnswerPerRequest
<1>1. AnswerInv => OneAnswerPerRequest
  BY DEF AnswerInv
<1> QED
  BY AnswerInit, AnswerNext, <1>1, PTL DEF Spec

-------------------------------------------------------------------------------
(* What LogsAreHeard rests on.  The message at hand has the place Now; the *)
(* session is what the messages before it have made of it (Learnt).        *)
Now == <<taken, at + 1>>

Admits(p) == \E q \in Earlier(p) : IsRequest(q, "initialize")

Learnt ==
  /\ session \in [initialize_seen : BOOLEAN, client_initialized : BOOLEAN, log_level : ToSet(Levels)]
  /\ session.initialize_seen = Admits(Now)
  /\ session.client_initialized = Reported(Now)
  /\ session.log_level = AskedLevel(Now)
  /\ ~open => taken = 0 \/ at = Len(Line(taken).messages)

(* What was written is of messages already handled, and of closed lines.   *)
Place(entry) == <<entry.line, entry.at>>
WrittenPast ==
  \A i \in DOMAIN out : IF out[i].kind = "log" THEN Place(out[i]) \in Earlier(Now)
                                                ELSE out[i].line \in 1..Finished

(* The failures among the responses collected for the open line have been  *)
(* told of, to a client that listens and has not hung up.                  *)
IsFailure(k, answer) ==
  /\ answer.error = 0 /\ MessageAt(<<k, answer.at>>).method = "tools/call"
  /\ answer.result.isError /\ Heard(<<k, answer.at>>, "warning")
Told(k, answer, entries) ==
  \E j \in DOMAIN entries : /\ entries[j].kind = "log" /\ Place(entries[j]) = <<k, answer.at>>
                            /\ entries[j].level = "warning"
FailuresTold ==
  open /\ Listening => \A a \in DOMAIN replies : IsFailure(taken, replies[a]) => Told(taken, replies[a], out)

CallsSuite == suite # None => Msg.method = "tools/call"

LogInv == Learnt /\ WrittenPast /\ FailuresTold /\ CallsSuite /\ LogsAreHeard

-------------------------------------------------------------------------------
(* The judgements on a place are about the input alone.                    *)
LEMMA SameJudgement ==
  ASSUME scenario' = scenario
  PROVE  /\ \A p : Earlier(p)' = Earlier(p) /\ MessageAt(p)' = MessageAt(p)
         /\ \A p : Admits(p)' = Admits(p) /\ Reported(p)' = Reported(p)
         /\ \A p : AskedLevel(p)' = AskedLevel(p)
         /\ \A p, level : Heard(p, level)' = Heard(p, level)
         /\ \A k, answer : IsFailure(k, answer)' = IsFailure(k, answer)
<1>1. \A p : Earlier(p)' = Earlier(p) /\ MessageAt(p)' = MessageAt(p)
  BY DEF Earlier, MessageAt, Line, Here, Before
<1>2. \A p, method : IsRequest(p, method)' = IsRequest(p, method)
  BY <1>1 DEF IsRequest, Malformed
<1>3. \A p : Admits(p)' = Admits(p) /\ Reported(p)' = Reported(p)
  BY <1>1, <1>2 DEF Admits, Reported, IsNotification, Malformed
<1>4. \A p : AskedLevel(p)' = AskedLevel(p)
  BY DEF AskedLevel, Earlier, IsRequest, Before, MessageAt, Line, Here, Malformed
<1>5. \A p, level : Heard(p, level)' = Heard(p, level)
  BY <1>3, <1>4 DEF Heard
<1>6. \A k, answer : IsFailure(k, answer)' = IsFailure(k, answer)
  BY <1>1, <1>5 DEF IsFailure
<1> QED BY <1>1, <1>3, <1>4, <1>5, <1>6

(* The places before one.                                                  *)
LEMMA EarlierIs ==
  ASSUME NEW k, NEW n
  PROVE  \A p : p \in Earlier(<<k, n>>) <=>
           \E i \in 1..k : \E j \in DOMAIN Line(i).messages :
             p = <<i, j>> /\ (i < k \/ (i = k /\ j < n))
BY DEF Earlier, Before

(* Past one more message of a line.                                        *)
LEMMA EarlierNext ==
  ASSUME scenario \in DOMAIN Scenarios, NEW k \in 1..Len(Here.inbox),
         NEW n \in Nat, n < Len(Line(k).messages)
  PROVE  /\ Earlier(<<k, n + 2>>) = Earlier(<<k, n + 1>>) \cup {<<k, n + 1>>}
         /\ <<k, n + 1>> \notin Earlier(<<k, n + 1>>)
<1> DEFINE m == n + 1
           l == n + 2
<1>1. DOMAIN Line(k).messages = 1..Len(Line(k).messages) /\ Len(Line(k).messages) \in Nat
  BY LineShape
<1>2. m \in DOMAIN Line(k).messages
  BY <1>1
<1>3. \A j \in DOMAIN Line(k).messages : j < l <=> j < m \/ j = m
  BY <1>1
<1> HIDE DEF m, l
<1>4. k \in 1..k
  OBVIOUS
<1>5. \A p : p \in Earlier(<<k, l>>) <=> p \in Earlier(<<k, m>>) \/ p = <<k, m>>
  <2> TAKE p
  <2>1. ASSUME p \in Earlier(<<k, l>>) PROVE p \in Earlier(<<k, m>>) \/ p = <<k, m>>
    <3>1. PICK i, j : i \in 1..k /\ j \in DOMAIN Line(i).messages /\ p = <<i, j>> /\ (i < k \/ (i = k /\ j < l))
      BY <2>1, EarlierIs
    <3>2. i < k \/ (i = k /\ j < m) \/ (i = k /\ j = m)
      BY <1>3, <3>1
    <3> QED BY <3>1, <3>2, EarlierIs
  <2>2. ASSUME p \in Earlier(<<k, m>>) PROVE p \in Earlier(<<k, l>>)
    <3>1. PICK i, j : i \in 1..k /\ j \in DOMAIN Line(i).messages /\ p = <<i, j>> /\ (i < k \/ (i = k /\ j < m))
      BY <2>2, EarlierIs
    <3>2. i < k \/ (i = k /\ j < l)
      BY <1>3, <3>1
    <3> QED BY <3>1, <3>2, EarlierIs
  <2>3. <<k, m>> \in Earlier(<<k, l>>)
    BY <1>2, <1>3, <1>4, EarlierIs
  <2> QED BY <2>1, <2>2, <2>3
<1>6. <<k, m>> \notin Earlier(<<k, m>>)
  <2> SUFFICES ASSUME <<k, m>> \in Earlier(<<k, m>>) PROVE FALSE
    OBVIOUS
  <2>1. PICK i, j : i \in 1..k /\ j \in DOMAIN Line(i).messages /\
          <<k, m>> = <<i, j>> /\ (i < k \/ (i = k /\ j < m))
    BY EarlierIs
  <2>2. i = k /\ j = m
    BY <2>1
  <2> QED BY <1>1, <1>2, <2>1, <2>2
<1> QED BY <1>5, <1>6 DEF m, l

(* A line is behind all of the lines before it.                            *)
LEMMA EarlierLine ==
  ASSUME scenario \in DOMAIN Scenarios, NEW k \in 0..Len(Here.inbox), k < Len(Here.inbox),
         NEW n \in Nat, k = 0 \/ n = Len(Line(k).messages)
  PROVE  Earlier(<<k + 1, 1>>) = Earlier(<<k, n + 1>>)
<1> DEFINE c == k + 1
           m == n + 1
<1>1. \A i \in 1..Len(Here.inbox) :
        DOMAIN Line(i).messages = 1..Len(Line(i).messages) /\ Len(Line(i).messages) \in Nat
  BY LineShape
<1>2. \A i \in 1..k : i \in 1..c /\ i < c /\ (k # 0) /\ i \in 1..Len(Here.inbox)
  BY LineShape, InboxAssumption DEF Here
<1>3. \A i \in 1..c : i # c => i \in 1..k
  OBVIOUS
<1>4. c \in 1..Len(Here.inbox)
  BY InboxAssumption DEF Here
<1>5. \A i \in 1..k : \A j \in DOMAIN Line(i).messages : i < k \/ (i = k /\ j < m)
  <2> TAKE i \in 1..k
  <2> TAKE j \in DOMAIN Line(i).messages
  <2>1. CASE i # k
    BY <2>1
  <2>2. CASE i = k
    BY <1>1, <1>2, <2>2
  <2> QED BY <2>1, <2>2
<1>6. \A j \in DOMAIN Line(c).messages : ~(j < 1)
  BY <1>1, <1>4
<1>7. ~(c < c)
  OBVIOUS
<1> HIDE DEF c, m
<1>8. \A p : p \in Earlier(<<c, 1>>) <=> p \in Earlier(<<k, m>>)
  <2> TAKE p
  <2>1. ASSUME p \in Earlier(<<c, 1>>) PROVE p \in Earlier(<<k, m>>)
    <3>1. PICK i, j : i \in 1..c /\ j \in DOMAIN Line(i).messages /\ p = <<i, j>> /\ (i < c \/ (i = c /\ j < 1))
      BY <2>1, EarlierIs
    <3>2. i \in 1..k
      BY <1>3, <1>6, <1>7, <3>1
    <3> QED BY <1>5, <3>1, <3>2, EarlierIs
  <2>2. ASSUME p \in Earlier(<<k, m>>) PROVE p \in Earlier(<<c, 1>>)
    <3>1. PICK i, j : i \in 1..k /\ j \in DOMAIN Line(i).messages /\ p = <<i, j>>
      BY <2>2, EarlierIs
    <3> QED BY <1>2, <3>1, EarlierIs
  <2> QED BY <2>1, <2>2
<1> QED BY <1>8 DEF c, m

(* The level asked for last.                                               *)
Accepted(p) ==
  {q \in Earlier(p) : /\ IsRequest(q, "logging/setLevel") /\ MessageAt(q).params \in ToSet(Levels)
                      /\ Admits(q)}

(* The level asked for, of the requests accepted.                          *)
LEMMA AskedLevelIs ==
  ASSUME NEW p
  PROVE  AskedLevel(p) =
           IF Accepted(p) = {} THEN "info"
           ELSE MessageAt(CHOOSE q \in Accepted(p) : \A r \in Accepted(p) : r = q \/ Before(r, q)).params
BY DEF AskedLevel, Accepted, Admits

(* Past one more message, the level is the one it sets, or what it was.    *)
LEMMA LevelNext ==
  ASSUME NEW p, NEW q, Earlier(q) = Earlier(p) \cup {p}, p \notin Earlier(p),
         \A r \in Earlier(p) : Before(r, p) /\ ~Before(p, r)
  PROVE  AskedLevel(q) =
           IF IsRequest(p, "logging/setLevel") /\ MessageAt(p).params \in ToSet(Levels) /\ Admits(p)
             THEN MessageAt(p).params ELSE AskedLevel(p)
<1>1. CASE ~(IsRequest(p, "logging/setLevel") /\ MessageAt(p).params \in ToSet(Levels) /\ Admits(p))
  <2>1. Accepted(q) = Accepted(p)
    BY <1>1 DEF Accepted
  <2> QED BY <1>1, <2>1, AskedLevelIs
<1>2. CASE IsRequest(p, "logging/setLevel") /\ MessageAt(p).params \in ToSet(Levels) /\ Admits(p)
  <2>1. Accepted(q) = Accepted(p) \cup {p} /\ Accepted(p) \subseteq Earlier(p)
    BY <1>2 DEF Accepted
  <2>2. p \in Accepted(q) /\ \A r \in Accepted(q) : r = p \/ Before(r, p)
    BY <2>1
  <2>3. \A s \in Accepted(q) : (\A r \in Accepted(q) : r = s \/ Before(r, s)) => s = p
    BY <2>1
  <2> DEFINE last == CHOOSE s \in Accepted(q) : \A r \in Accepted(q) : r = s \/ Before(r, s)
  <2>4. last \in Accepted(q) /\ \A r \in Accepted(q) : r = last \/ Before(r, last)
    BY <2>2
  <2>5. AskedLevel(q) = MessageAt(last).params
    BY <2>2, AskedLevelIs
  <2> HIDE DEF last
  <2> QED BY <1>2, <2>3, <2>4, <2>5
<1> QED BY <1>1, <1>2

(* What is earlier comes before, and not behind.                           *)
LEMMA EarlierBefore ==
  ASSUME scenario \in DOMAIN Scenarios, NEW k \in 1..Len(Here.inbox), NEW n \in Nat,
         NEW r \in Earlier(<<k, n>>)
  PROVE  Before(r, <<k, n>>) /\ ~Before(<<k, n>>, r)
<1>1. PICK i, j : i \in 1..k /\ j \in DOMAIN Line(i).messages /\ r = <<i, j>> /\ (i < k \/ (i = k /\ j < n))
  BY EarlierIs
<1>2. i \in 1..Len(Here.inbox)
  BY <1>1, InboxAssumption DEF Here
<1>3. j \in Nat
  BY <1>1, <1>2, LineShape
<1>4. Before(<<i, j>>, <<k, n>>) /\ ~Before(<<k, n>>, <<i, j>>)
  BY <1>1, <1>3 DEF Before
<1> QED BY <1>1, <1>4

-------------------------------------------------------------------------------
(* The steps, as far as logs go.  A message that is handled has its effect *)
(* on the session, and a failure that is answered is told of.              *)
Learns ==
  /\ session'.client_initialized =
       (session.client_initialized \/
          (IsNotification(Msg) /\ Msg.method = "notifications/initialized"))
  /\ session'.initialize_seen =
       (session.initialize_seen \/ IsRequest(<<taken, at + 1>>, "initialize"))
  /\ session'.log_level =
       IF IsRequest(<<taken, at + 1>>, "logging/setLevel") /\ Msg.params \in ToSet(Levels)
            /\ session.initialize_seen
         THEN Msg.params ELSE session.log_level
  /\ session' \in [initialize_seen : BOOLEAN, client_initialized : BOOLEAN, log_level : ToSet(Levels)]

Handles ==
  /\ open /\ at < Len(Line(taken).messages) /\ at' = at + 1
  /\ UNCHANGED <<scenario, taken, open>>
  /\ Learns /\ suite' = None

LogNow(level) == [kind |-> "log", line |-> taken, at |-> at + 1, level |-> level]
Tells(logs) == logs = <<>> \/ \E level : Heard(Now, level) /\ logs = <<LogNow(level)>>

Speaks ==
  /\ Handles
  /\ \E logs : Tells(logs) /\ out' = out \o logs
       /\ \E r : /\ r.at = at + 1 /\ replies' = Append(replies, r)
                 /\ Listening /\ IsFailure(taken, r) => logs = <<LogNow("warning")>>

Waits ==
  /\ UNCHANGED <<scenario, session, taken, open, at, replies, out>>
  /\ suite' # None => Msg.method = "tools/call"

(* The level of a log is one of the eight.                                 *)
LEMMA Ranks ==
  /\ \A level \in ToSet(Levels) : Rank(level) \in 1..8
  /\ {"debug", "info", "warning"} \subseteq ToSet(Levels)
<1>1. DOMAIN Levels = 1..8
  BY DEF Levels
<1>2. \A level \in ToSet(Levels) : \E i \in DOMAIN Levels : Levels[i] = level
  BY DEF ToSet
<1>3. \A level \in ToSet(Levels) : Rank(level) \in DOMAIN Levels
  BY <1>2 DEF Rank
<1>4. Levels[1] = "debug" /\ Levels[2] = "info" /\ Levels[4] = "warning"
  BY DEF Levels
<1>5. {1, 2, 4} \subseteq DOMAIN Levels
  BY <1>1
<1> QED BY <1>1, <1>3, <1>4, <1>5 DEF ToSet

(* maybe_log writes what a client hears, and all of it.                    *)
LEMMA MaybeLogTells ==
  ASSUME Learnt, NEW level \in ToSet(Levels)
  PROVE  /\ Tells(MaybeLog(level))
         /\ Heard(Now, level) /\ Listening => MaybeLog(level) = <<LogNow(level)>>
<1>1. session.log_level \in ToSet(Levels) /\ session.log_level = AskedLevel(Now)
      /\ session.client_initialized = Reported(Now)
  BY DEF Learnt
<1>2. Rank(level) \in 1..8 /\ Rank(session.log_level) \in 1..8
  BY <1>1, Ranks
<1>3. Heard(Now, level) <=> ~(~session.client_initialized \/ Rank(level) < Rank(session.log_level))
  BY <1>1, <1>2 DEF Heard
<1> QED BY <1>3 DEF MaybeLog, Tells, LogNow

(* The place at hand, and what is behind it.                               *)
LEMMA PlaceNow ==
  ASSUME Collected, open, at < Len(Line(taken).messages)
  PROVE  /\ taken \in 1..Len(Here.inbox) /\ at \in Nat /\ Now = <<taken, at + 1>>
         /\ MessageAt(Now) = Msg
         /\ Earlier(<<taken, at + 2>>) = Earlier(Now) \cup {Now} /\ Now \notin Earlier(Now)
         /\ \A r \in Earlier(Now) : Before(r, Now) /\ ~Before(Now, r)
<1>1. taken \in 1..Len(Here.inbox) /\ at \in Nat /\ scenario \in DOMAIN Scenarios
  BY InboxAssumption DEF Collected, Here
<1> DEFINE m == at + 1
<1>2. m \in Nat
  BY <1>1
<1>3. MessageAt(Now) = Msg
  BY DEF MessageAt, Now, Msg
<1>4. \A r \in Earlier(<<taken, m>>) : Before(r, <<taken, m>>) /\ ~Before(<<taken, m>>, r)
  BY <1>1, <1>2, EarlierBefore
<1> QED BY <1>1, <1>3, <1>4, EarlierNext DEF Now

(* A handled message: the session is what it is to be at the next place.   *)
LEMMA LearntHandles ==
  ASSUME Collected, Learnt, Handles
  PROVE  Learnt' /\ Earlier(Now)' = Earlier(Now) \cup {Now}
<1> PICK q : q = <<taken, at + 2>>
  OBVIOUS
<1>1. open /\ at < Len(Line(taken).messages) /\ scenario' = scenario /\ open' /\ Learns
      /\ taken' = taken /\ at' = at + 1
  BY DEF Handles, Collected
<1>2. at \in Nat /\ Now = <<taken, at + 1>> /\ MessageAt(Now) = Msg
      /\ Earlier(q) = Earlier(Now) \cup {Now} /\ Now \notin Earlier(Now)
      /\ \A r \in Earlier(Now) : Before(r, Now) /\ ~Before(Now, r)
  BY <1>1, PlaceNow
<1>3. Now' = q
  BY <1>1, <1>2 DEF Now
<1>4. /\ Earlier(Now)' = Earlier(q) /\ Admits(Now)' = Admits(q) /\ Reported(Now)' = Reported(q)
      /\ AskedLevel(Now)' = AskedLevel(q)
  <2>1. /\ Earlier(Now)' = Earlier(q)' /\ Admits(Now)' = Admits(q)' /\ Reported(Now)' = Reported(q)'
        /\ AskedLevel(Now)' = AskedLevel(q)'
    BY <1>3
  <2> QED BY <1>1, <2>1, SameJudgement
<1>5. session'.initialize_seen = Admits(q)
  <2>1. Admits(q) <=> Admits(Now) \/ IsRequest(Now, "initialize")
    BY <1>2 DEF Admits
  <2>2. session.initialize_seen = Admits(Now) /\ session'.initialize_seen \in BOOLEAN
    BY <1>1 DEF Learnt, Learns
  <2>3. session'.initialize_seen = (Admits(Now) \/ IsRequest(Now, "initialize"))
    BY <1>1, <1>2, <2>2 DEF Learns
  <2>4. Admits(q) \in BOOLEAN
    BY DEF Admits
  <2> QED BY <2>1, <2>3, <2>4
<1>6. session'.client_initialized = Reported(q)
  <2>1. Reported(q) <=> Reported(Now) \/ (IsNotification(Msg) /\ Msg.method = "notifications/initialized")
    BY <1>2 DEF Reported
  <2>2. session.client_initialized = Reported(Now)
    BY DEF Learnt
  <2>3. Reported(q) \in BOOLEAN
    BY DEF Reported
  <2> QED BY <1>1, <2>1, <2>2, <2>3 DEF Learns
<1>7. session'.log_level = AskedLevel(q)
  <2>1. AskedLevel(q) =
          IF IsRequest(Now, "logging/setLevel") /\ Msg.params \in ToSet(Levels) /\ Admits(Now)
            THEN Msg.params ELSE AskedLevel(Now)
    BY <1>2, LevelNext
  <2>2. session.log_level = AskedLevel(Now) /\ session.initialize_seen = Admits(Now)
    BY DEF Learnt
  <2> QED BY <1>1, <1>2, <2>1, <2>2 DEF Learns
<1> QED BY <1>1, <1>2, <1>4, <1>5, <1>6, <1>7 DEF Learnt, Learns

-------------------------------------------------------------------------------
(* A handled message that is answered keeps the order of the logs.         *)
LEMMA OneLog ==
  ASSUME IsSequence(out), NEW logs, Tells(logs)
  PROVE  /\ IsLog(logs)
         /\ DOMAIN out = 1..Len(out) /\ Len(out) \in Nat
         /\ \A i \in DOMAIN out : i \in DOMAIN (out \o logs) /\ (out \o logs)[i] = out[i]
         /\ \A i \in DOMAIN (out \o logs) : i \in Nat /\ i > 0 /\
              (i \in DOMAIN out \/ \E level : /\ i = Len(out) + 1 /\ Heard(Now, level)
                                              /\ (out \o logs)[i] = LogNow(level))
         /\ \A level : logs = <<LogNow(level)>> =>
              \E i \in DOMAIN (out \o logs) : (out \o logs)[i] = LogNow(level)
<1>1. PICK S : out \in Seq(S)
  BY DEF IsSequence
<1>2. CASE logs = <<>>
  <2>1. out \o logs = out
    BY <1>1, <1>2, ConcatEmptySeq
  <2>2. \A level : logs # <<LogNow(level)>>
    BY <1>2
  <2> QED BY <1>1, <1>2, <2>1, <2>2 DEF IsLog
<1>3. CASE logs # <<>>
  <2>1. PICK level : Heard(Now, level) /\ logs = <<LogNow(level)>>
    BY <1>3 DEF Tells
  <2> DEFINE e == LogNow(level)
             T == S \cup {e}
  <2>2. out \in Seq(T) /\ logs \in Seq(T) /\ Len(logs) = 1 /\ logs[1] = e
    BY <1>1, <2>1, SeqMonotonic
  <2>3. /\ out \o logs \in Seq(T) /\ Len(out \o logs) = Len(out) + 1
        /\ \A i \in 1..Len(out) + 1 : (out \o logs)[i] = IF i <= Len(out) THEN out[i] ELSE logs[i - Len(out)]
    <3> HIDE DEF e, T
    <3>1. /\ out \o logs \in Seq(T) /\ Len(out \o logs) = Len(out) + Len(logs)
          /\ \A i \in 1..Len(out) + Len(logs) :
               (out \o logs)[i] = IF i <= Len(out) THEN out[i] ELSE logs[i - Len(out)]
      BY <2>2, ConcatProperties
    <3> QED BY <2>2, <3>1
  <2>4. DOMAIN (out \o logs) = 1..(Len(out) + 1) /\ DOMAIN out = 1..Len(out) /\ Len(out) \in Nat
    BY <1>1, <2>3
  <2>5. (out \o logs)[Len(out) + 1] = e
    BY <2>2, <2>3, <2>4
  <2>6. e.kind = "log"
    BY DEF LogNow
  <2>7. \A l : logs = <<LogNow(l)>> => LogNow(l) = e
    BY <2>2
  <2>8. IsLog(logs)
    BY <2>1, <2>6 DEF IsLog
  <2>9. \A i \in DOMAIN (out \o logs) : i \in DOMAIN out \/ i = Len(out) + 1
    BY <2>3, <2>4
  <2>10. Len(out) + 1 \in DOMAIN (out \o logs)
    BY <2>3, <2>4
  <2>11. \A i \in DOMAIN out : i \in DOMAIN (out \o logs) /\ (out \o logs)[i] = out[i]
    BY <2>3, <2>4
  <2>12. \A i \in DOMAIN (out \o logs) : i \in Nat /\ i > 0
    BY <2>3, <2>4
  <2> HIDE DEF e, T
  <2>13. \A l : logs = <<LogNow(l)>> => \E i \in DOMAIN (out \o logs) : (out \o logs)[i] = LogNow(l)
    BY <2>5, <2>7, <2>10
  <2>14. \A i \in DOMAIN (out \o logs) :
           i \in DOMAIN out \/ \E l : /\ i = Len(out) + 1 /\ Heard(Now, l) /\ (out \o logs)[i] = LogNow(l)
    BY <2>1, <2>5, <2>9 DEF e
  <2> QED BY <2>4, <2>8, <2>11, <2>12, <2>13, <2>14
<1> QED BY <1>2, <1>3

(* The two halves of LogsAreHeard, of any output.                          *)
LogsInOrder(entries) ==
  \A i \in DOMAIN entries : entries[i].kind = "log" =>
    /\ Heard(Place(entries[i]), entries[i].level)
    /\ \A j \in 1..(i - 1) : IF entries[j].kind = "log" THEN Before(Place(entries[j]), Place(entries[i]))
                                                         ELSE entries[j].line < entries[i].line
ToldBefore(k, answer, entries, n) ==
  \E j \in 1..(n - 1) : /\ entries[j].kind = "log" /\ Place(entries[j]) = <<k, answer.at>>
                        /\ entries[j].level = "warning"
AllTold(entries) ==
  \A i \in DOMAIN entries : entries[i].kind = "reply" => \A a \in DOMAIN entries[i].answers :
    IsFailure(entries[i].line, entries[i].answers[a])
      => ToldBefore(entries[i].line, entries[i].answers[a], entries, i)

(* LogsAreHeard is the two of them, of what was written.                   *)
LEMMA HeardHalves == LogsAreHeard <=> LogsInOrder(out) /\ AllTold(out)
BY DEF LogsAreHeard, LogsInOrder, AllTold, ToldBefore, IsFailure, Place

(* Both are about the input and the entries alone.                         *)
LEMMA SameHalves ==
  ASSUME scenario' = scenario
  PROVE  /\ \A entries : LogsInOrder(entries)' = LogsInOrder(entries)
         /\ \A entries : AllTold(entries)' = AllTold(entries)
<1>1. /\ \A p, level : Heard(p, level)' = Heard(p, level)
      /\ \A k, answer : IsFailure(k, answer)' = IsFailure(k, answer)
  BY SameJudgement
<1> QED BY <1>1 DEF LogsInOrder, AllTold, ToldBefore, Place, Before

-------------------------------------------------------------------------------
(* Whoever listens behind a log has listened before it.                    *)
LEMMA StillListening ==
  ASSUME Collected, scenario' = scenario, NEW logs, IsLog(logs), out' = out \o logs, Listening'
  PROVE  Listening
<1>1. Here' = Here /\ Here.accepts \in Nat
  BY InboxAssumption DEF Here, Collected
<1>2. Len(out) \in Nat /\ Len(out \o logs) \in Nat /\ Len(out) <= Len(out \o logs)
  BY LogsAppended DEF Collected
<1>3. Len(out \o logs) < Here.accepts
  BY <1>1 DEF Listening
<1> HIDE DEF Here
<1> QED BY <1>1, <1>2, <1>3 DEF Listening

(* A message that is handled and answered.                                 *)
LEMMA SpeaksStep ==
  ASSUME Collected, LogInv, Speaks
  PROVE  LogInv'
<1> USE DEF LogInv
<1>1. /\ open /\ open' /\ at < Len(Line(taken).messages) /\ at' = at + 1 /\ suite' = None
      /\ UNCHANGED <<scenario, taken>> /\ Handles /\ IsSequence(out) /\ IsSequence(replies)
  BY DEF Speaks, Handles, Collected
<1>2. PICK logs, r : /\ Tells(logs) /\ out' = out \o logs
                     /\ r.at = at + 1 /\ replies' = Append(replies, r)
                     /\ Listening /\ IsFailure(taken, r) => logs = <<LogNow("warning")>>
  BY DEF Speaks
<1>3. Learnt' /\ Earlier(Now)' = Earlier(Now) \cup {Now}
  BY <1>1, LearntHandles
<1>4. /\ taken \in 1..Len(Here.inbox) /\ at \in Nat /\ Now = <<taken, at + 1>>
      /\ \A p \in Earlier(Now) : Before(p, Now)
  BY <1>1, PlaceNow
<1>5. taken \in Nat /\ Finished = taken - 1 /\ Finished' = Finished
  BY <1>1, <1>4 DEF Finished, Collected
<1>6. LogsInOrder(out) /\ AllTold(out)
  BY HeardHalves
<1> PICK all : all = out \o logs
  OBVIOUS
<1>7. /\ DOMAIN out = 1..Len(out) /\ Len(out) \in Nat
      /\ \A i \in DOMAIN out : i \in DOMAIN all /\ all[i] = out[i]
      /\ \A i \in DOMAIN all : i \in Nat /\ i > 0 /\
           (i \in DOMAIN out
              \/ \E level : i = Len(out) + 1 /\ Heard(Now, level) /\ all[i] = LogNow(level))
      /\ \A level : logs = <<LogNow(level)>> => \E i \in DOMAIN all : all[i] = LogNow(level)
  BY <1>1, <1>2, OneLog
<1>8. \A level : /\ LogNow(level).kind = "log" /\ LogNow(level).level = level
                 /\ LogNow(level).line = taken /\ Place(LogNow(level)) = Now
  BY <1>4 DEF LogNow, Place
<1>9. \A i \in DOMAIN out : \A j \in 1..(i - 1) : j \in DOMAIN out
  BY <1>7
<1>10. LogsInOrder(all)
  <2> SUFFICES ASSUME NEW i \in DOMAIN all, all[i].kind = "log"
               PROVE  /\ Heard(Place(all[i]), all[i].level)
                      /\ \A j \in 1..(i - 1) :
                           IF all[j].kind = "log" THEN Before(Place(all[j]), Place(all[i]))
                                                  ELSE all[j].line < all[i].line
    BY DEF LogsInOrder
  <2>1. CASE i \in DOMAIN out
    <3>1. /\ all[i] = out[i] /\ Heard(Place(out[i]), out[i].level)
          /\ \A j \in 1..(i - 1) :
               IF out[j].kind = "log" THEN Before(Place(out[j]), Place(out[i]))
                                      ELSE out[j].line < out[i].line
      BY <1>6, <1>7, <2>1 DEF LogsInOrder
    <3>2. \A j \in 1..(i - 1) : all[j] = out[j]
      BY <1>7, <1>9, <2>1
    <3> QED BY <3>1, <3>2
  <2>2. CASE i \notin DOMAIN out
    <3> PICK level : i = Len(out) + 1 /\ Heard(Now, level) /\ all[i] = LogNow(level)
      BY <1>7, <2>2
    <3>1. \A j \in 1..(i - 1) : j \in DOMAIN out /\ all[j] = out[j]
      BY <1>7
    <3>2. ASSUME NEW j \in DOMAIN out
          PROVE  IF out[j].kind = "log" THEN Before(Place(out[j]), Now) ELSE out[j].line < taken
      <4>1. CASE out[j].kind = "log"
        BY <1>4, <4>1 DEF WrittenPast
      <4>2. CASE out[j].kind # "log"
        <5>1. out[j].line \in 1..(taken - 1)
          BY <1>5, <4>2 DEF WrittenPast
        <5> QED BY <1>5, <4>2, <5>1
      <4> QED BY <4>1, <4>2
    <3> QED BY <1>8, <3>1, <3>2
  <2> QED BY <2>1, <2>2
<1>11. AllTold(all)
  <2> SUFFICES ASSUME NEW i \in DOMAIN all, all[i].kind = "reply", NEW a \in DOMAIN all[i].answers,
                      IsFailure(all[i].line, all[i].answers[a])
               PROVE  ToldBefore(all[i].line, all[i].answers[a], all, i)
    BY DEF AllTold
  <2>1. i \in DOMAIN out /\ all[i] = out[i]
    BY <1>7, <1>8
  <2>2. ToldBefore(all[i].line, all[i].answers[a], out, i)
    BY <1>6, <2>1 DEF AllTold
  <2>3. \A j \in 1..(i - 1) : all[j] = out[j]
    BY <1>7, <1>9, <2>1
  <2> QED BY <2>2, <2>3 DEF ToldBefore
<1>12. out' = all
  BY <1>2
<1>13. LogsAreHeard'
  <2>1. LogsInOrder(out)' /\ AllTold(out)'
    <3>1. LogsInOrder(all)' /\ AllTold(all)'
      BY <1>1, <1>10, <1>11, SameHalves
    <3> QED BY <1>12, <3>1
  <2> QED BY <2>1, HeardHalves DEF LogsAreHeard, LogsInOrder, AllTold, ToldBefore, IsFailure, Place
<1>14. WrittenPast'
  <2> SUFFICES ASSUME NEW i \in DOMAIN all
               PROVE  IF all[i].kind = "log" THEN Place(all[i]) \in Earlier(Now)'
                                             ELSE all[i].line \in 1..Finished
    BY <1>5, <1>12 DEF WrittenPast, Place
  <2>1. CASE i \in DOMAIN out
    BY <1>3, <1>7, <2>1 DEF WrittenPast
  <2>2. CASE i \notin DOMAIN out
    BY <1>3, <1>7, <1>8, <2>2
  <2> QED BY <2>1, <2>2
<1>15. FailuresTold'
  <2> SUFFICES ASSUME Listening' PROVE FailuresTold'
    BY DEF FailuresTold
  <2>0. Listening
    <3>1. IsLog(logs)
      BY <1>2, <1>8 DEF Tells, IsLog
    <3> QED BY <1>1, <1>2, <3>1, StillListening
  <2> PICK more : more = Append(replies, r)
    OBVIOUS
  <2>1. /\ DOMAIN more = 1..(Len(replies) + 1) /\ DOMAIN replies = 1..Len(replies)
        /\ Len(replies) \in Nat
        /\ \A a \in DOMAIN replies : more[a] = replies[a]
        /\ more[Len(replies) + 1] = r
    BY <1>1, AppendIsSequence
  <2>2. \A k, answer : Told(k, answer, out) => Told(k, answer, all)
    BY <1>7 DEF Told
  <2>3. \A a \in DOMAIN more : IsFailure(taken, more[a]) => Told(taken, more[a], all)
    <3> SUFFICES ASSUME NEW a \in DOMAIN more, IsFailure(taken, more[a]) PROVE Told(taken, more[a], all)
      OBVIOUS
    <3>1. CASE a \in DOMAIN replies
      BY <1>1, <2>0, <2>1, <2>2, <3>1 DEF FailuresTold
    <3>2. CASE a = Len(replies) + 1
      <4>1. more[a] = r /\ logs = <<LogNow("warning")>>
        BY <1>2, <2>0, <2>1, <3>2
      <4>2. PICK i \in DOMAIN all : all[i] = LogNow("warning")
        BY <1>7, <4>1
      <4>3. <<taken, r.at>> = Now
        BY <1>2, <1>4
      <4> QED BY <1>8, <4>1, <4>2, <4>3 DEF Told
    <3> QED BY <2>1, <3>1, <3>2
  <2>4. \A k, answer : Told(k, answer, all)' = Told(k, answer, all)
    BY DEF Told, Place
  <2>5. \A a \in DOMAIN more : IsFailure(taken, more[a])' => Told(taken, more[a], all)'
    BY <1>1, <2>3, <2>4, SameJudgement
  <2>6. replies' = more
    BY <1>2
  <2> QED BY <1>1, <1>12, <2>5, <2>6 DEF FailuresTold
<1>16. CallsSuite'
  BY <1>1 DEF CallsSuite
<1> QED BY <1>3, <1>13, <1>14, <1>15, <1>16

(* A message that asks nothing, and nothing that is written.               *)
LEMMA SilentStep ==
  ASSUME Collected, LogInv, Handles, UNCHANGED <<replies, out>>
  PROVE  LogInv'
<1> USE DEF LogInv
<1>1. /\ open /\ open' /\ at < Len(Line(taken).messages) /\ suite' = None
      /\ UNCHANGED <<scenario, taken, replies, out>>
  BY DEF Handles, Collected
<1>2. Learnt' /\ Earlier(Now)' = Earlier(Now) \cup {Now}
  BY LearntHandles
<1>3. WrittenPast'
  BY <1>1, <1>2 DEF WrittenPast, Place, Finished
<1>4. FailuresTold' /\ LogsAreHeard'
  <2>1. LogsAreHeard'
    BY <1>1, SameJudgement DEF LogsAreHeard, Before, IsFailure
  <2>2. FailuresTold'
    BY <1>1, SameJudgement DEF FailuresTold, Told, Place, Listening, Here
  <2> QED BY <2>1, <2>2
<1> QED BY <1>1, <1>2, <1>3, <1>4 DEF CallsSuite

(* The place at hand is the same, or behind the same messages.             *)
LEMMA LearntStays ==
  ASSUME Learnt, scenario' = scenario, session' = session, Earlier(Now)' = Earlier(Now),
         ~open' => taken' = 0 \/ at' = Len(Line(taken).messages)'
  PROVE  Learnt'
<1> PICK q : q = Now'
  OBVIOUS
<1>1. Earlier(q) = Earlier(Now)
  <2>1. Earlier(Now)' = Earlier(q)'
    OBVIOUS
  <2> QED BY <2>1, SameJudgement
<1>2. /\ Admits(Now)' = Admits(q) /\ Reported(Now)' = Reported(q) /\ AskedLevel(Now)' = AskedLevel(q)
  <2>1. /\ Admits(Now)' = Admits(q)' /\ Reported(Now)' = Reported(q)' /\ AskedLevel(Now)' = AskedLevel(q)'
    OBVIOUS
  <2> QED BY <2>1, SameJudgement
<1>3. Admits(q) = Admits(Now) /\ Reported(q) = Reported(Now)
  BY <1>1 DEF Admits, Reported
<1>4. AskedLevel(q) = AskedLevel(Now)
  <2>1. Accepted(q) = Accepted(Now)
    BY <1>1 DEF Accepted
  <2> QED BY <2>1, AskedLevelIs
<1> QED BY <1>2, <1>3, <1>4 DEF Learnt

(* A line is opened: none of its messages has been handled.                *)
LEMMA OpenStep ==
  ASSUME Collected, LogInv, TakeLine, suite = None
  PROVE  LogInv'
<1> USE DEF LogInv
<1>1. /\ UNCHANGED <<scenario, session, out, suite>>
      /\ ~open /\ taken < Len(Here.inbox) /\ taken' = taken + 1 /\ open' = TRUE /\ at' = 0
      /\ replies' = IF Line(taken + 1).form = "unparsable"
                      THEN <<ErrorResponse(0, None, -32700)>> ELSE <<>>
  BY DEF TakeLine, project
<1>2. /\ taken \in 0..Len(Here.inbox) /\ at \in Nat /\ scenario \in DOMAIN Scenarios /\ taken \in Nat
      /\ (taken = 0 \/ at = Len(Line(taken).messages))
  BY <1>1, InboxAssumption DEF Collected, Learnt, Here
<1>3. Earlier(Now)' = Earlier(Now)
  <2>1. Earlier(<<taken + 1, 1>>) = Earlier(<<taken, at + 1>>)
    <3> PICK k, n : k = taken /\ n = at
      OBVIOUS
    <3>1. /\ k \in 0..Len(Here.inbox) /\ k < Len(Here.inbox) /\ n \in Nat
          /\ (k = 0 \/ n = Len(Line(k).messages))
      BY <1>1, <1>2
    <3>2. Earlier(<<k + 1, 1>>) = Earlier(<<k, n + 1>>)
      BY <1>2, <3>1, EarlierLine
    <3> QED BY <3>2
  <2> PICK q : q = <<taken + 1, 1>>
    OBVIOUS
  <2>2. Now' = q /\ Now = <<taken, at + 1>>
    BY <1>1 DEF Now
  <2>3. Earlier(Now)' = Earlier(q)'
    BY <2>2
  <2> QED BY <1>1, <2>1, <2>2, <2>3, SameJudgement
<1>4. Learnt'
  BY <1>1, <1>3, LearntStays
<1>5. WrittenPast'
  <2>1. Finished' = Finished
    BY <1>1, <1>2 DEF Finished
  <2> QED BY <1>1, <1>3, <2>1 DEF WrittenPast, Place
<1>6. FailuresTold'
  <2>1. \A a \in DOMAIN replies' : replies'[a].error # 0
    BY <1>1 DEF ErrorResponse
  <2> QED BY <2>1 DEF FailuresTold, IsFailure
<1>7. LogsAreHeard'
  <2>1. UNCHANGED <<scenario, out>>
    BY <1>1
  <2> QED BY <2>1, SameJudgement DEF LogsAreHeard, Before
<1> QED BY <1>1, <1>4, <1>5, <1>6, <1>7 DEF CallsSuite

(* A line is closed: what failed on it has been told of before.            *)
LEMMA CloseStep ==
  ASSUME Collected, LogInv, FinishLine
  PROVE  LogInv'
<1> USE DEF LogInv
<1>1. /\ UNCHANGED <<scenario, session, taken, at, replies, suite>> /\ suite = None
      /\ open /\ open' = FALSE /\ at = Len(Line(taken).messages)
      /\ out' = IF replies = <<>> THEN out
                ELSE Append(out, [kind |-> "reply", line |-> taken, answers |-> replies])
      /\ (replies = <<>> \/ Listening)
  BY DEF FinishLine, Handled, project
<1>2. taken \in 1..Len(Here.inbox) /\ taken \in Nat /\ Finished = taken - 1 /\ Finished' = taken
      /\ IsSequence(out)
  BY <1>1, InboxAssumption DEF Collected, Finished, Here
<1>3. Earlier(Now)' = Earlier(Now)
  BY <1>1, SameJudgement DEF Now
<1>4. Learnt'
  BY <1>1, <1>3, LearntStays, SameInput
<1>5. FailuresTold' /\ CallsSuite'
  BY <1>1 DEF FailuresTold, CallsSuite
<1> DEFINE entry == [kind |-> "reply", line |-> taken, answers |-> replies]
<1> PICK all : all = Append(out, entry)
  OBVIOUS
<1>6. /\ DOMAIN out = 1..Len(out) /\ DOMAIN all = 1..(Len(out) + 1) /\ Len(out) \in Nat
      /\ \A i \in DOMAIN out : all[i] = out[i]
      /\ all[Len(out) + 1] = entry
  BY <1>2, AppendIsSequence
<1>7. entry.kind = "reply" /\ entry.line = taken /\ entry.answers = replies
  OBVIOUS
<1> HIDE DEF entry
<1>8. \A i \in DOMAIN all : i \in Nat /\ (i \in DOMAIN out \/ (i = Len(out) + 1 /\ all[i] = entry))
  BY <1>6
<1>9. \A i \in DOMAIN all : \A j \in 1..(i - 1) : j \in DOMAIN out /\ all[j] = out[j]
  BY <1>6
<1>10. LogsInOrder(out) /\ AllTold(out)
  BY HeardHalves
<1>11. LogsInOrder(all)
  <2> SUFFICES ASSUME NEW i \in DOMAIN all, all[i].kind = "log"
               PROVE  /\ Heard(Place(all[i]), all[i].level)
                      /\ \A j \in 1..(i - 1) :
                           IF all[j].kind = "log" THEN Before(Place(all[j]), Place(all[i]))
                                                  ELSE all[j].line < all[i].line
    BY DEF LogsInOrder
  <2>1. i \in DOMAIN out /\ all[i] = out[i]
    BY <1>6, <1>7, <1>8
  <2>2. /\ Heard(Place(out[i]), out[i].level)
        /\ \A j \in 1..(i - 1) :
             IF out[j].kind = "log" THEN Before(Place(out[j]), Place(out[i]))
                                    ELSE out[j].line < out[i].line
    BY <1>10, <2>1 DEF LogsInOrder
  <2> QED BY <1>9, <2>1, <2>2
<1>12. AllTold(all)
  <2> SUFFICES ASSUME NEW i \in DOMAIN all, all[i].kind = "reply", NEW a \in DOMAIN all[i].answers,
                      IsFailure(all[i].line, all[i].answers[a])
               PROVE  ToldBefore(all[i].line, all[i].answers[a], all, i)
    BY DEF AllTold
  <2>1. ToldBefore(all[i].line, all[i].answers[a], out, i)
    <3>1. CASE i \in DOMAIN out
      BY <1>6, <1>10, <3>1 DEF AllTold
    <3>2. CASE i = Len(out) + 1 /\ all[i] = entry
      <4>1. Told(taken, replies[a], out)
        <5>1. a \in DOMAIN replies
          BY <1>7, <3>2
        <5>2. replies # <<>>
          BY <5>1, EmptySeq
        <5> QED BY <1>1, <1>7, <3>2, <5>1, <5>2 DEF FailuresTold
      <4>2. 1..(i - 1) = DOMAIN out
        BY <1>6, <3>2
      <4> QED BY <1>7, <3>2, <4>1, <4>2 DEF Told, ToldBefore
    <3> QED BY <1>8, <3>1, <3>2
  <2> QED BY <1>9, <2>1 DEF ToldBefore
<1>13. CASE replies = <<>>
  <2>1. WrittenPast'
    <3>1. 1..Finished \subseteq 1..Finished'
      BY <1>2
    <3> QED BY <1>1, <1>3, <1>13, <3>1 DEF WrittenPast, Place
  <2>2. LogsAreHeard'
    BY <1>1, <1>13, SameJudgement DEF LogsAreHeard, Before
  <2> QED BY <1>4, <1>5, <2>1, <2>2
<1>14. CASE replies # <<>>
  <2>1. out' = all
    BY <1>1, <1>14 DEF entry
  <2>2. LogsInOrder(all)' /\ AllTold(all)'
    BY <1>1, <1>11, <1>12, SameHalves
  <2>3. LogsInOrder(out)' /\ AllTold(out)'
    BY <2>1, <2>2
  <2>4. LogsAreHeard'
    BY <2>3, HeardHalves DEF LogsAreHeard, LogsInOrder, AllTold, ToldBefore, IsFailure, Place
  <2>5. WrittenPast'
    <3> SUFFICES ASSUME NEW i \in DOMAIN all
                 PROVE  IF all[i].kind = "log" THEN Place(all[i]) \in Earlier(Now)
                                               ELSE all[i].line \in 1..taken
      BY <1>2, <1>3, <2>1 DEF WrittenPast, Place
    <3>1. CASE i \in DOMAIN out
      <4>1. 1..Finished \subseteq 1..taken
        BY <1>2
      <4> QED BY <1>6, <3>1, <4>1 DEF WrittenPast
    <3>2. CASE all[i] = entry
      BY <1>2, <1>7, <3>2
    <3> QED BY <1>8, <3>1, <3>2
  <2> QED BY <1>4, <1>5, <2>4, <2>5
<1> QED BY <1>13, <1>14

(* Nothing is handled and nothing written.                                 *)
LEMMA WaitStep ==
  ASSUME LogInv, Waits
  PROVE  LogInv'
<1> USE DEF LogInv
<1>1. UNCHANGED <<scenario, session, taken, open, at, replies, out>>
  BY DEF Waits
<1>2. Earlier(Now)' = Earlier(Now)
  BY <1>1, SameJudgement DEF Now
<1>3. Learnt'
  BY <1>1, <1>2, LearntStays, SameInput DEF Learnt
<1>4. WrittenPast'
  BY <1>1, <1>2 DEF WrittenPast, Place, Finished
<1>5. FailuresTold'
  BY <1>1, SameJudgement DEF FailuresTold, Told, Place, Listening, Here
<1>6. LogsAreHeard'
  BY <1>1, SameJudgement DEF LogsAreHeard, Before
<1>7. CallsSuite'
  BY <1>1 DEF Waits, CallsSuite, Msg, Line, Here
<1> QED BY <1>3, <1>4, <1>5, <1>6, <1>7

-------------------------------------------------------------------------------
(* Every step of the server is one of those.  An answer that is none to a  *)
(* failure, or comes behind its warning.                                   *)
LEMMA ReplySpeaks ==
  ASSUME open, at < Len(Line(taken).messages), Learns, suite' = None, NEW logs, Tells(logs),
         NEW r, Reply(r, logs), r.at = at + 1,
         Listening /\ IsFailure(taken, r) => logs = <<LogNow("warning")>>
  PROVE  Speaks
<1>1. /\ at' = at + 1 /\ replies' = Append(replies, r) /\ out' = out \o logs
      /\ UNCHANGED <<scenario, taken, open>>
  BY DEF Reply
<1>2. Handles
  BY <1>1 DEF Handles
<1> QED BY <1>1, <1>2, Zenon DEF Speaks

(* A request that is answered.                                             *)
LEMMA RequestSpeaks ==
  ASSUME Collected, LogInv, IsRequestNow, Learns, suite' = None,
         NEW logs, Tells(logs),
         \/ \E result : /\ Reply(Answer(result), logs)
                        /\ (Msg.method = "tools/call" /\ result.isError /\ Heard(Now, "warning") /\ Listening)
                             => logs = <<LogNow("warning")>>
         \/ \E code : code # 0 /\ Reply(Refuse(code), logs)
  PROVE  Speaks
<1>1. open /\ at < Len(Line(taken).messages)
  BY DEF IsRequestNow
<1>2. Now = <<taken, at + 1>> /\ MessageAt(Now) = Msg
  BY <1>1, PlaceNow
<1>3. ASSUME NEW r, Reply(r, logs), r.at = at + 1,
             Listening /\ IsFailure(taken, r) => logs = <<LogNow("warning")>>
      PROVE  Speaks
  BY <1>1, <1>3, ReplySpeaks
<1>4. CASE \E result : /\ Reply(Answer(result), logs)
                       /\ (Msg.method = "tools/call" /\ result.isError /\ Heard(Now, "warning") /\ Listening)
                            => logs = <<LogNow("warning")>>
  <2> PICK result : /\ Reply(Answer(result), logs)
                    /\ (Msg.method = "tools/call" /\ result.isError /\ Heard(Now, "warning") /\ Listening)
                         => logs = <<LogNow("warning")>>
    BY <1>4
  <2> PICK r : r = Answer(result)
    OBVIOUS
  <2>1. r.at = at + 1 /\ r.result = result
    BY DEF Answer, Response
  <2>2. <<taken, r.at>> = Now
    BY <1>2, <2>1
  <2>3. Listening /\ IsFailure(taken, r) => logs = <<LogNow("warning")>>
    BY <1>2, <2>1, <2>2 DEF IsFailure
  <2> QED BY <1>3, <2>1, <2>3
<1>5. CASE \E code : code # 0 /\ Reply(Refuse(code), logs)
  <2> PICK code : code # 0 /\ Reply(Refuse(code), logs)
    BY <1>5
  <2> PICK r : r = Refuse(code)
    OBVIOUS
  <2>1. r.at = at + 1 /\ r.error = code
    BY DEF Refuse, ErrorResponse
  <2>2. ~IsFailure(taken, r)
    BY <2>1 DEF IsFailure
  <2> QED BY <1>3, <2>1, <2>2
<1> QED BY <1>4, <1>5

(* A request of another method than those that tell leaves the session.    *)
LEMMA LearnsNothing ==
  ASSUME Collected, LogInv, open, at < Len(Line(taken).messages), session' = session,
         \/ Malformed(Msg) \/ (Msg.id = None /\ Msg.method # "notifications/initialized")
         \/ /\ Msg.id # None
            /\ Msg.method # "initialize" \/ session.initialize_seen
            /\ \/ Msg.method # "logging/setLevel" \/ ~session.initialize_seen
               \/ Msg.params \notin ToSet(Levels)
  PROVE  Learns
<1>1. Now = <<taken, at + 1>> /\ MessageAt(Now) = Msg
  BY PlaceNow
<1>2. session \in [initialize_seen : BOOLEAN, client_initialized : BOOLEAN, log_level : ToSet(Levels)]
  BY DEF LogInv, Learnt
<1>3. session.initialize_seen \in BOOLEAN /\ session.client_initialized \in BOOLEAN
  BY <1>2
<1>4. ~(IsNotification(Msg) /\ Msg.method = "notifications/initialized")
  BY DEF IsNotification
<1>5. \A method : IsRequest(Now, method) <=> ~Malformed(Msg) /\ Msg.id # None /\ Msg.method = method
  BY <1>1 DEF IsRequest
<1>6. IsRequest(Now, "initialize") => session.initialize_seen
  BY <1>5
<1>7. ~(IsRequest(Now, "logging/setLevel") /\ Msg.params \in ToSet(Levels) /\ session.initialize_seen)
  BY <1>5
<1> QED BY <1>1, <1>2, <1>3, <1>4, <1>6, <1>7 DEF Learns

(* Requests of a method are admitted.                                      *)
LEMMA RequestNow ==
  ASSUME NEW methods, Requests(methods)
  PROVE  /\ IsRequestNow /\ suite = None /\ Msg.method \in methods
         /\ session.initialize_seen \/ Msg.method \in {"initialize", "ping"}
BY DEF Requests, Admitted, Pending, IsRequestNow

(* Silence tells nothing that is not heard.                                *)
LEMMA NothingTold == Tells(<<>>)
BY DEF Tells

(* An answer of another method than tools/call, whatever it logs.          *)
LEMMA MethodSpeaks ==
  ASSUME Collected, LogInv, IsRequestNow, Learns, suite' = None, Msg.method # "tools/call",
         NEW level \in ToSet(Levels),
         \/ \E result : Reply(Answer(result), MaybeLog(level)) \/ Reply(Answer(result), <<>>)
         \/ \E code : code # 0 /\ Reply(Refuse(code), <<>>)
  PROVE  Speaks
<1>1. Tells(MaybeLog(level)) /\ Tells(<<>>)
  BY MaybeLogTells, NothingTold DEF LogInv
<1>2. CASE \E result : Reply(Answer(result), MaybeLog(level))
  BY <1>1, <1>2, RequestSpeaks
<1>3. CASE \E result : Reply(Answer(result), <<>>)
  BY <1>1, <1>3, RequestSpeaks
<1>4. CASE \E code : code # 0 /\ Reply(Refuse(code), <<>>)
  BY <1>1, <1>4, RequestSpeaks
<1> QED BY <1>2, <1>3, <1>4

-------------------------------------------------------------------------------
(* The methods that answer at once.                                        *)
LEMMA MethodsSpeak ==
  ASSUME Collected, LogInv, Initialize \/ SetLevel \/ Ping \/ ListItems \/ ReadItem
  PROVE  Speaks
<1>1. "info" \in ToSet(Levels) /\ "debug" \in ToSet(Levels)
  BY Ranks
<1>2. session \in [initialize_seen : BOOLEAN, client_initialized : BOOLEAN, log_level : ToSet(Levels)]
  BY DEF LogInv, Learnt
<1>3. ASSUME IsRequestNow
      PROVE  /\ Now = <<taken, at + 1>> /\ MessageAt(Now) = Msg /\ open /\ Msg.id # None
             /\ at < Len(Line(taken).messages) /\ ~IsNotification(Msg)
             /\ \A method : IsRequest(Now, method) <=> Msg.method = method
  <2>1. open /\ at < Len(Line(taken).messages) /\ ~Malformed(Msg) /\ Msg.id # None
    BY <1>3 DEF IsRequestNow
  <2>2. Now = <<taken, at + 1>> /\ MessageAt(Now) = Msg
    BY <2>1, PlaceNow
  <2> QED BY <2>1, <2>2 DEF IsRequest, IsNotification
<1>4. CASE Initialize
  <2>1. /\ IsRequestNow /\ Msg.method = "initialize" /\ suite' = None
        /\ session' = [session EXCEPT !.initialize_seen = TRUE]
        /\ Reply(Answer("capabilities"), MaybeLog("info"))
    BY <1>4, RequestNow DEF Initialize
  <2>2. Learns
    BY <1>2, <1>3, <2>1 DEF Learns
  <2> QED BY <1>1, <2>1, <2>2, MethodSpeaks
<1>5. CASE SetLevel
  <2>1. IsRequestNow /\ Msg.method = "logging/setLevel" /\ suite' = None /\ session.initialize_seen
    BY <1>5, RequestNow DEF SetLevel
  <2>2. CASE Msg.params \in ToSet(Levels)
    <3>1. session' = [session EXCEPT !.log_level = Msg.params] /\ Reply(Answer("level"), <<>>)
      BY <1>5, <2>2 DEF SetLevel
    <3>2. Learns
      BY <1>2, <1>3, <2>1, <2>2, <3>1 DEF Learns
    <3> QED BY <1>1, <2>1, <3>1, <3>2, MethodSpeaks
  <2>3. CASE Msg.params \notin ToSet(Levels)
    <3>1. session' = session /\ Reply(Refuse(-32602), <<>>)
      BY <1>5, <2>3 DEF SetLevel
    <3>2. Learns
      BY <1>3, <2>1, <2>3, <3>1, LearnsNothing
    <3> QED BY <1>1, <2>1, <3>1, <3>2, MethodSpeaks
  <2> QED BY <2>2, <2>3
<1>6. ASSUME NEW methods, Requests(methods), session' = session, suite' = suite,
             "initialize" \notin methods, "logging/setLevel" \notin methods
      PROVE  Learns /\ IsRequestNow /\ suite' = None /\ Msg.method \in methods
  <2>1. /\ IsRequestNow /\ suite = None /\ Msg.method \in methods
    BY <1>6, RequestNow
  <2>2. Learns
    BY <1>3, <1>6, <2>1, LearnsNothing
  <2> QED BY <1>6, <2>1, <2>2
<1>7. CASE Ping
  <2>1. Requests({"ping"}) /\ Reply(Answer("pong"), <<>>) /\ session' = session /\ suite' = suite
    BY <1>7 DEF Ping
  <2>2. Learns /\ IsRequestNow /\ suite' = None /\ Msg.method # "tools/call"
    BY <1>6, <2>1
  <2> QED BY <1>1, <2>1, <2>2, MethodSpeaks
<1>8. CASE ListItems
  <2>1. /\ Requests({"tools/list", "resources/list", "prompts/list", "resources/templates/list"})
        /\ session' = session /\ suite' = suite
        /\ \/ Reply(Refuse(-32602), <<>>)
           \/ Reply(Answer("items"), <<>>) \/ Reply(Answer("items"), MaybeLog("debug"))
    BY <1>8 DEF ListItems
  <2>2. Learns /\ IsRequestNow /\ suite' = None /\ Msg.method # "tools/call"
    BY <1>6, <2>1
  <2> QED BY <1>1, <2>1, <2>2, MethodSpeaks
<1>9. CASE ReadItem
  <2>1. /\ Requests({"resources/read", "prompts/get"}) /\ session' = session /\ suite' = suite
        /\ Reply(Refuse(-32002), <<>>) \/ Reply(Answer("contents"), MaybeLog("info"))
    BY <1>9 DEF ReadItem
  <2>2. Learns /\ IsRequestNow /\ suite' = None /\ Msg.method # "tools/call"
    BY <1>6, <2>1
  <2> QED BY <1>1, <2>1, <2>2, MethodSpeaks
<1> QED BY <1>4, <1>5, <1>7, <1>8, <1>9

(* A message that is no request, or asks for what is not there.            *)
LEMMA RefusalSpeaks ==
  ASSUME Collected, LogInv, RefuseMessage
  PROVE  Speaks
<1>1. /\ open /\ at < Len(Line(taken).messages) /\ suite' = None /\ session' = session
      /\ ~IsNotification(Msg) /\ (Admitted(Msg) => Msg.method \notin Methods)
  BY DEF RefuseMessage, Pending
<1>2. Malformed(Msg) \/ Msg.id # None
  BY <1>1 DEF IsNotification
<1>3. ~Malformed(Msg) /\ ~Admitted(Msg) =>
         ~session.initialize_seen /\ Msg.method # "initialize"
  BY <1>2 DEF Admitted
<1>4. Admitted(Msg) => Msg.method # "initialize" /\ Msg.method # "logging/setLevel"
  BY <1>1 DEF Methods
<1>5. Learns
  BY <1>1, <1>2, <1>3, <1>4, LearnsNothing
<1>6. PICK code : /\ code # 0
                  /\ Reply(IF Msg.object THEN Refuse(code) ELSE ErrorResponse(at + 1, None, code), <<>>)
  <2> DEFINE c == CASE Malformed(Msg) -> -32600
                    [] ~Malformed(Msg) /\ ~Admitted(Msg) -> -32002
                    [] OTHER -> -32601
  <2>1. c # 0
    <3>1. c = IF Malformed(Msg) THEN -32600 ELSE IF ~Admitted(Msg) THEN -32002 ELSE -32601
      OBVIOUS
    <3> QED BY <3>1
  <2>2. Reply(IF Msg.object THEN Refuse(c) ELSE ErrorResponse(at + 1, None, c), <<>>)
    BY DEF RefuseMessage
  <2> HIDE DEF c
  <2> QED BY <2>1, <2>2
<1> PICK r : r = IF Msg.object THEN Refuse(code) ELSE ErrorResponse(at + 1, None, code)
  OBVIOUS
<1>7. r.at = at + 1 /\ r.error = code
  BY DEF Refuse, ErrorResponse
<1>8. ~IsFailure(taken, r)
  BY <1>6, <1>7 DEF IsFailure
<1> QED BY <1>1, <1>5, <1>6, <1>7, <1>8, NothingTold, ReplySpeaks

(* A notification tells the server, and is told nothing.                   *)
LEMMA NotifyLearns ==
  ASSUME Collected, LogInv, Notify
  PROVE  Handles /\ UNCHANGED <<replies, out>>
<1>1. /\ open /\ at < Len(Line(taken).messages) /\ at' = at + 1 /\ suite' = None /\ IsNotification(Msg)
      /\ UNCHANGED <<scenario, taken, open, replies, out>>
      /\ session' = IF Msg.method = "notifications/initialized"
                      THEN [session EXCEPT !.client_initialized = TRUE] ELSE session
  BY DEF Notify, Pending, project
<1>2. Now = <<taken, at + 1>> /\ MessageAt(Now) = Msg
  BY <1>1, PlaceNow
<1>3. session \in [initialize_seen : BOOLEAN, client_initialized : BOOLEAN, log_level : ToSet(Levels)]
  BY DEF LogInv, Learnt
<1>4. \A method : ~IsRequest(Now, method)
  BY <1>1, <1>2 DEF IsRequest, IsNotification
<1>5. Learns
  <2>1. CASE Msg.method = "notifications/initialized"
    BY <1>1, <1>2, <1>3, <1>4, <2>1 DEF Learns
  <2>2. CASE Msg.method # "notifications/initialized"
    BY <1>1, <1>2, <1>3, <1>4, <2>2 DEF Learns
  <2> QED BY <2>1, <2>2
<1> QED BY <1>1, <1>5 DEF Handles

(* A tool that fails warns.                                                *)
LEMMA CallSpeaks ==
  ASSUME Collected, LogInv, IsRequestNow, Msg.method = "tools/call", suite' = None,
         NEW result, CallAnswered(result)
  PROVE  Speaks
<1> DEFINE level == IF result.isError THEN "warning" ELSE "info"
           value == [isError |-> result.isError, value |-> result.value, of |-> bin]
<1>1. Reply(Answer(value), MaybeLog(level)) /\ session' = session
  BY DEF CallAnswered
<1>2. open /\ at < Len(Line(taken).messages) /\ Msg.id # None
  BY DEF IsRequestNow
<1>3. Learns
  BY <1>1, <1>2, LearnsNothing
<1>4. level \in ToSet(Levels)
  BY Ranks
<1>5. value.isError => level = "warning"
  OBVIOUS
<1> HIDE DEF level, value
<1>6. Tells(MaybeLog(level)) /\ (Heard(Now, level) /\ Listening => MaybeLog(level) = <<LogNow(level)>>)
  BY <1>4, MaybeLogTells DEF LogInv
<1>7. value.isError /\ Heard(Now, "warning") /\ Listening => MaybeLog(level) = <<LogNow("warning")>>
  BY <1>5, <1>6
<1> QED BY <1>1, <1>3, <1>6, <1>7, RequestSpeaks

(* Tools, and the suite that takes several steps.                          *)
LEMMA ToolsSpeak ==
  ASSUME Collected, LogInv, suite # None => IsRequestNow,
         CallTool \/ BeginSuite \/ InspectNext \/ ChooseRuns \/ RunNext \/ ReturnRows
  PROVE  Speaks \/ Waits
<1>1. ASSUME IsRequestNow, Msg.method = "tools/call", NEW result, EndSuite(result) PROVE Speaks
  BY <1>1, CallSpeaks DEF EndSuite
<1>2. ASSUME Msg.method = "tools/call", NEW next, Proceed(next) PROVE Waits
  BY <1>2 DEF Proceed, Waits, project
<1>3. CASE CallTool
  <2>1. IsRequestNow /\ suite = None /\ suite' = suite /\ Msg.method = "tools/call"
    BY <1>3, RequestNow DEF CallTool, Calls
  <2>2. \E result : CallAnswered(result)
    BY <1>3, Zenon DEF CallTool
  <2> QED BY <2>1, <2>2, CallSpeaks
<1>4. CASE BeginSuite
  <2>1. IsRequestNow /\ Msg.method = "tools/call"
    BY <1>4, RequestNow DEF BeginSuite, Calls
  <2>2. (\E result : EndSuite(result))
          \/ UNCHANGED <<scenario, session, taken, open, at, replies, out>>
    BY <1>4 DEF BeginSuite, project
  <2> QED BY <1>1, <2>1, <2>2 DEF Waits
<1>5. CASE InspectNext \/ ChooseRuns \/ RunNext \/ ReturnRows
  <2>1. IsRequestNow /\ Msg.method = "tools/call"
    BY <1>5 DEF InspectNext, ChooseRuns, RunNext, ReturnRows, InSuite, LogInv, CallsSuite
  <2>2. (\E result : EndSuite(result)) \/ (\E next : Proceed(next))
    <3>1. CASE InspectNext
      BY <3>1 DEF InspectNext
    <3>2. CASE ChooseRuns
      BY <3>2 DEF ChooseRuns
    <3>3. CASE RunNext
      BY <3>3 DEF RunNext
    <3>4. CASE ReturnRows
      BY <3>4 DEF ReturnRows
    <3> QED BY <1>5, <3>1, <3>2, <3>3, <3>4
  <2> QED BY <1>1, <1>2, <2>1, <2>2
<1> QED BY <1>3, <1>4, <1>5

(* The developer, the terminal, and the start and the end of the server.   *)
LEMMA OutsideWaits ==
  ASSUME LogInv,
         \/ (Develop \/ WorkTerminal) /\ UNCHANGED dialogue
         \/ StartServer \/ StopServer \/ UNCHANGED vars
  PROVE  Waits
<1>1. scenario' = scenario
  BY DEF Develop, SaveCrate, SaveFile, WorkTerminal, StartCommands, RefuseSuite, StartSuite,
         FetchModels, RunRegistryChild, FailBuild, RunFileChild, RunClean, EndJob, Ran,
         StartServer, StopServer, vars, project
<1>2. UNCHANGED <<session, taken, open, at, replies, suite, out>>
  BY DEF StartServer, StopServer, vars, dialogue
<1> QED BY <1>1, <1>2 DEF Waits, LogInv, CallsSuite

-------------------------------------------------------------------------------
(* Every step keeps what LogsAreHeard rests on.                            *)
LEMMA LogNext == AnswerInv /\ LogInv /\ [Next]_vars => LogInv'
<1> SUFFICES ASSUME AnswerInv, LogInv, [Next]_vars PROVE LogInv'
  OBVIOUS
<1>1. Collected /\ (suite # None => IsRequestNow)
  BY DEF AnswerInv
<1>2. CASE TakeLine
  <2>1. suite = None
    BY <1>1, <1>2 DEF TakeLine, IsRequestNow
  <2> QED BY <1>1, <1>2, <2>1, OpenStep
<1>3. CASE FinishLine
  BY <1>1, <1>3, CloseStep
<1>4. CASE Notify
  BY <1>1, <1>4, NotifyLearns, SilentStep
<1>5. CASE HandleMessage /\ ~Notify
  <2>1. Speaks \/ Waits
    BY <1>1, <1>5, RefusalSpeaks, MethodsSpeak, ToolsSpeak DEF HandleMessage
  <2> QED BY <1>1, <2>1, SpeaksStep, WaitStep
<1>6. CASE ((Develop \/ WorkTerminal) /\ UNCHANGED dialogue) \/ StartServer \/ StopServer \/ UNCHANGED vars
  BY <1>6, OutsideWaits, WaitStep
<1> QED BY <1>2, <1>3, <1>4, <1>5, <1>6 DEF Next, Work, Serve

(* At the start no message was handled.                                    *)
LEMMA LogInit == Init => LogInv
<1> SUFFICES ASSUME Init PROVE LogInv
  OBVIOUS
<1>1. /\ taken = 0 /\ open = FALSE /\ at = 0 /\ out = <<>> /\ suite = None
      /\ session = [initialize_seen |-> FALSE, client_initialized |-> FALSE, log_level |-> "info"]
  BY DEF Init, MInit
<1>2. Earlier(Now) = {}
  <2>1. Now = <<0, at + 1>> /\ 1..0 = {}
    BY <1>1 DEF Now
  <2> QED BY <2>1, EarlierIs
<1>3. Learnt
  <2>1. ~Admits(Now) /\ ~Reported(Now) /\ Accepted(Now) = {}
    BY <1>2 DEF Admits, Reported, Accepted
  <2>2. AskedLevel(Now) = "info" /\ "info" \in ToSet(Levels)
    BY <2>1, AskedLevelIs, Ranks
  <2>3. Admits(Now) \in BOOLEAN /\ Reported(Now) \in BOOLEAN
    BY DEF Admits, Reported
  <2> QED BY <1>1, <2>1, <2>2, <2>3 DEF Learnt
<1>4. DOMAIN out = {}
  BY <1>1
<1> QED BY <1>1, <1>3, <1>4 DEF LogInv, WrittenPast, FailuresTold, CallsSuite, LogsAreHeard

(* A log notification reaches only a client that has reported ready, at    *)
(* the level it asked for last, in order and before the response; and the  *)
(* failure of a tool is never kept from a client that listens (maybe_log). *)
THEOREM LogsHeard == Spec => []LogsAreHeard
<1>1. LogInv => LogsAreHeard
  BY DEF LogInv
<1> QED BY AnswerInit, AnswerNext, LogInit, LogNext, <1>1, PTL DEF Spec

-------------------------------------------------------------------------------
(* The worst of the codes of children: an error, else a failure, else an   *)
(* unknown.                                                                *)
WorstOf(codes) == IF 3 \in codes THEN 3 ELSE IF 1 \in codes THEN 1 ELSE IF 2 \in codes THEN 2 ELSE 0

(* Aggregate adds one code to the worst of the codes so far.               *)
LEMMA WorstAdds ==
  ASSUME NEW codes, NEW c \in 0..3
  PROVE  Aggregate(WorstOf(codes), c) = WorstOf(codes \cup {c})
<1>1. c = 0 \/ c = 1 \/ c = 2 \/ c = 3
  OBVIOUS
<1> QED BY <1>1 DEF WorstOf, Aggregate

(* to_exit_code gives one of four codes, and 0 for 0 alone.                *)
LEMMA ExitCodes ==
  ASSUME NEW code
  PROVE  ToExitCode(code) \in 0..3 /\ (ToExitCode(code) = 0 <=> code = 0)
<1>1. ToExitCode(code) = IF code \in {0, 1, 2, 3} THEN code ELSE IF code = 4 THEN 2
                         ELSE IF code \in {5, 6} THEN 1 ELSE 3
  BY DEF ToExitCode
<1>2. CASE code \in {0, 1, 2, 3}
  BY <1>1, <1>2
<1>3. CASE code \notin {0, 1, 2, 3}
  BY <1>1, <1>3
<1> QED BY <1>2, <1>3

(* The codes of ExitCode, and that of a panic.                             *)
Codes == {0, 1, 2, 3, 101}

(* What the ways a command ends make of its code and of the files.         *)
LEMMA DoneCode == \A code, out_, left : Done(code, out_, left).code = code /\ Done(code, out_, left).files = left
BY DEF Done

(* A message and no answer: an error.                                      *)
LEMMA MessageCode == \A left : MessageExit(left).code = 3 /\ MessageExit(left).files = left
BY DEF MessageExit, Done, ExitCode

(* A panic of the binary.                                                  *)
LEMMA PanicCode == \A left : Panic(left).code = 101 /\ Panic(left).files = left
BY DEF Panic, Done

(* from_check_outcome gives a code of ExitCode.                            *)
LEMMA OutcomeCode == \A verdict : FromCheckOutcome(verdict) \in Codes
BY DEF FromCheckOutcome, Codes

(* So do the commands that check, write or print what they generate.       *)
LEMMA CheckOrWriteCode ==
  ASSUME NEW drift, NEW generated, NEW path, NEW a, NEW left
  PROVE  CheckOrWrite(drift, generated, path, a, left).code \in Codes
<1>1. CheckOrWrite(drift, generated, path, a, left) =
        IF a.check THEN Done(IF drift = {} THEN ExitCode.Success ELSE ExitCode.Unknown, drift, left)
        ELSE IF a.write # None THEN Done(0, generated, Written(left, path, generated))
        ELSE Done(0, generated, left)
  BY DEF CheckOrWrite
<1> QED BY <1>1 DEF Done, ExitCode, Codes

(* So does the graph of a failure.                                         *)
LEMMA FailureGraphCode ==
  ASSUME NEW m, NEW verdict, NEW property, NEW left
  PROVE  FailureGraph(m, verdict, property, left).code \in Codes
<1>1. FailureGraph(m, verdict, property, left) =
        IF property # None /\ verdict = "panic" THEN Panic(left)
        ELSE IF property # None /\ verdict \notin {"panic", "ERROR"} /\ property \in m.traced
               THEN Done(0, <<Mermaid(m), property>>, left)
        ELSE MessageExit(left)
  BY DEF FailureGraph
<1> QED BY <1>1, DoneCode, MessageCode, PanicCode DEF Codes

(* So do the contract commands of a model file.                            *)
LEMMA FileContractCode ==
  ASSUME NEW m, NEW config, NEW a, NEW left
  PROVE  FileContract(m, config, a, left).code \in Codes
<1> DEFINE snapshot == SnapshotModel(m)
           path == OutputPath(a.write, LockPath)
           lock == ReadFile(left, path)
           expected == EntryOf(lock, m.id)
           drift == CompareSnapshot(expected[1], snapshot)
           report == [reports |-> <<drift>>, advice |-> <<RerunRecommendations(config, m.id)>>]
           locked == Done(0, LockFile(<<snapshot>>), Written(left, path, LockFile(<<snapshot>>)))
           reported == Done(IF drift.status = "unchanged" THEN ExitCode.Success ELSE ExitCode.Fail,
                            report, left)
           snapped == Done(0, snapshot, left)
           compared == IF lock.form = "corrupt" \/ expected = <<>> THEN MessageExit(left) ELSE reported
<1>1. FileContract(m, config, a, left) =
        CASE a.sub = "snapshot" -> snapped
          [] a.sub = "lock" -> locked
          [] a.sub = "drift" /\ a.write # None /\ lock # NoFile -> compared
          [] OTHER -> MessageExit(left)
  BY DEF FileContract
<1>2. /\ snapped.code \in Codes /\ locked.code \in Codes /\ compared.code \in Codes
      /\ MessageExit(left).code \in Codes
  BY MessageCode, DoneCode DEF Codes, ExitCode
<1> HIDE DEF snapped, locked, compared, lock
<1>3. FileContract(m, config, a, left) =
        IF a.sub = "snapshot" THEN snapped ELSE IF a.sub = "lock" THEN locked
        ELSE IF a.sub = "drift" /\ a.write # None /\ lock # NoFile THEN compared
        ELSE MessageExit(left)
  BY <1>1
<1> QED BY <1>2, <1>3

(* Every command of a model file exits with one of the codes of ExitCode.  *)
LEMMA FileCodes ==
  ASSUME NEW source, NEW config, NEW a, NEW left
  PROVE  FileCommand(source, config, a, left).code \in Codes
<1> DEFINE m == source.model
<1>1. FileCheck(m, a, left).code \in Codes
  BY OutcomeCode, DoneCode DEF FileCheck, CheckAnswer
<1>2. FileExplain(m, a, left).code \in Codes /\ FileTrace(m, a, left).code \in Codes
  BY MessageCode, DoneCode DEF FileExplain, FileTrace, Codes
<1>3. CmdInspect(m, left).code \in Codes /\ CmdLint(m, left).code \in Codes
  BY DoneCode DEF CmdInspect, CmdLint, LintExit, ExitCode, Codes
<1>4. FileGraph(m, a, left).code \in Codes
  BY DoneCode, FailureGraphCode DEF FileGraph, Codes
<1>5. FileDoc(source, a, left).code \in Codes
  BY CheckOrWriteCode DEF FileDoc, DocCommand
<1>6. FileHandoff(source, a, left).code \in Codes
  BY CheckOrWriteCode, MessageCode DEF FileHandoff, HandoffCommand, Codes
<1>7. FileContract(m, config, a, left).code \in Codes
  BY FileContractCode
<1>8. /\ FileTestgen(m, a, left).code \in Codes /\ FileReplay(m, a, left).code \in Codes
      /\ FileOrchestrate(m, a, left).code \in Codes /\ FileCoverage(m, a, left).code \in Codes
  BY DoneCode, MessageCode DEF FileTestgen, FileReplay, FileOrchestrate, FileCoverage, Codes
<1>9. MessageExit(left).code \in Codes
  BY MessageCode DEF Codes
<1> HIDE DEF m
<1> QED BY <1>1, <1>2, <1>3, <1>4, <1>5, <1>6, <1>7, <1>8, <1>9 DEF FileCommand, m

(* valid batch counts a model file's code as cargo valid does: the two     *)
(* conversions differ on codes no command of a model file exits with.      *)
LEMMA FileExits ==
  ASSUME NEW config, NEW a, NEW left
  PROVE  LET code == ModelFileCli(config, a, left).code IN ToFileExitCode(code) = ToExitCode(code)
<1> DEFINE source == ReadFile(left, a.file)
           code == ModelFileCli(config, a, left).code
<1>1. ModelFileCli(config, a, left) =
        IF source # NoFile /\ source.form = "broken" /\ a.command = "check"
          THEN CheckAnswer(a, a.property, "ERROR", left)
        ELSE IF source # NoFile /\ source.form = "model" THEN FileCommand(source, config, a, left)
        ELSE MessageExit(left)
  BY DEF ModelFileCli
<1>2. /\ CheckAnswer(a, a.property, "ERROR", left).code \in Codes
      /\ MessageExit(left).code \in Codes
  BY OutcomeCode, DoneCode, MessageCode DEF CheckAnswer, Codes
<1>3. code \in Codes
  BY <1>1, <1>2, FileCodes
<1>4. \A c \in Codes : ToFileExitCode(c) = ToExitCode(c)
  BY DEF ToFileExitCode, ToExitCode, Codes
<1> QED BY <1>3, <1>4

(* The commands a job was asked to run.                                    *)
Operations(j) == IF j.entry.kind \in {"command", "batch"} THEN j.entry.operations ELSE <<>>
StopsAtFailure(j) == j.entry.kind = "batch" /\ ~j.entry.continue

(* A job as the terminal keeps it.                                         *)
IsRecord(j) ==
  /\ j = [entry |-> j.entry, todo |-> j.todo, done |-> j.done, code |-> j.code, whole |-> j.whole]
  /\ j.entry \in ToSet(Here.script)
  /\ IsSequence(j.todo) /\ \A k \in 1..Len(j.todo) : IsArgs(j.todo[k])
  /\ IsSequence(j.done)

(* Its code is that of the worst of its children so far.                   *)
Weighed(j) == j.code = WorstOf(ToSet(Exits(j)))

(* The children that ran are the first of its operations, those to run the *)
(* rest; and a batch that is told to stop has seen no failure, or has      *)
(* stopped at it.                                                          *)
Onward(j) ==
  /\ Len(j.done) + Len(j.todo) = Len(Operations(j))
  /\ \A k \in 1..Len(j.todo) : j.todo[k] = Operations(j)[Len(j.done) + k]
  /\ StopsAtFailure(j) /\ j.todo # <<>> => \A i \in 1..Len(j.done) : Exits(j)[i] = 0
Halted(j) ==
  /\ StopsAtFailure(j) /\ j.todo = <<>> /\ Len(j.done) < Len(Operations(j))
  /\ \A i \in 1..Len(j.done) : (i = Len(j.done)) = (Exits(j)[i] # 0)
InTurn(j) ==
  j.entry.kind \in {"command", "batch"} =>
    /\ \A i \in 1..Len(j.done) : j.done[i].args = Operations(j)[i]
    /\ Onward(j) \/ Halted(j)

(* A child that has seen its pair pass, and one that is to check it.       *)
Passed(child, pair) ==
  LET m == FindModel(Registries[child.of], pair[1])
      a == WithDefaults(Config, child.args)
  IN  /\ child.args.model = pair[1] /\ m # <<>>
      /\ m[1].verdict[Adapter(a)][pair[2]] = "PASS"
Asks(a, pair) == a.command = "check" /\ a.model = pair[1] /\ a.property = pair[2] /\ a.file = None

(* As long as a suite's code is 0, every pair it promised has passed or is *)
(* still to be checked.                                                    *)
NoneForgotten(j) ==
  j.entry.kind = "suite" /\ j.code = 0 =>
    \A pair \in Promised(j.entry) : \/ \E i \in 1..Len(j.done) : Passed(j.done[i], pair)
                                    \/ \E k \in 1..Len(j.todo) : Asks(j.todo[k], pair)

(* The suite of a job is one valid.toml declares; and what is kept of a    *)
(* job that runs.                                                          *)
Declared(j) == j.entry.kind = "suite" => KnownSuite(Config, j.entry)
Sound(j) == IsRecord(j) /\ Weighed(j) /\ InTurn(j) /\ Declared(j) /\ NoneForgotten(j)

(* A job that ended, or that could not be started or finished.             *)
Ended(r) == (r.whole = TRUE /\ r.todo = <<>> /\ Sound(r)) \/ (r.whole = FALSE /\ r.code = 3)

(* The parts of the invariant: reports, the running job, the script.       *)
AllEnded(ended) == IsSequence(ended) /\ \A i \in 1..Len(ended) : Ended(ended[i])
InHand(j) == j # Idle => j.whole = TRUE /\ Sound(j)
ToDo(rest) == IsSequence(rest) /\ \A i \in 1..Len(rest) : rest[i] \in ToSet(Here.script)
JobInv ==
  /\ scenario \in DOMAIN Scenarios
  /\ crate \in DOMAIN Registries \cup {Broken}
  /\ ToDo(script)
  /\ InHand(job)
  /\ AllEnded(reports)

-------------------------------------------------------------------------------
(* The tail of a sequence.                                                 *)
LEMMA RestIsSequence ==
  ASSUME NEW s, IsSequence(s), s # <<>>
  PROVE  /\ IsSequence(Tail(s)) /\ Len(Tail(s)) = Len(s) - 1 /\ Len(s) \in Nat /\ Len(s) > 0
         /\ Head(s) = s[1]
         /\ \A k \in 1..(Len(s) - 1) : Tail(s)[k] = s[k + 1]
<1>1. PICK S : s \in Seq(S)
  BY DEF IsSequence
<1>2. Tail(s) \in Seq(S) /\ Len(s) \in Nat /\ Len(s) > 0
  BY <1>1
<1> QED BY <1>1, <1>2, HeadTailProperties DEF IsSequence

(* The empty one.                                                          *)
LEMMA NoneIsSequence == IsSequence(<<>>) /\ Len(<<>>) = 0
<1>1. <<>> \in Seq({})
  OBVIOUS
<1> QED BY <1>1 DEF IsSequence

(* What a job is after a child of it has run.                              *)
LEMMA AfterIs ==
  ASSUME NEW done, NEW code, IsRecord(job), job.todo # <<>>
  PROVE  LET q == After(done, code)
             stops == StopsAtFailure(job) /\ done.code # 0
         IN  /\ IsRecord(q) /\ q.entry = job.entry /\ q.whole = job.whole
             /\ q.code = Aggregate(job.code, code)
             /\ q.todo = IF stops THEN <<>> ELSE Tail(job.todo)
             /\ Len(job.done) \in Nat /\ Len(q.done) = Len(job.done) + 1
             /\ DOMAIN job.done = 1..Len(job.done) /\ DOMAIN q.done = 1..(Len(job.done) + 1)
             /\ \A i \in 1..Len(job.done) : q.done[i] = job.done[i]
             /\ q.done[Len(job.done) + 1] = Child(Head(job.todo), done)
<1> DEFINE q == After(done, code)
           stops == StopsAtFailure(job) /\ done.code # 0
           e == Child(Head(job.todo), done)
           rest == IF stops THEN <<>> ELSE Tail(job.todo)
<1>1. q = [job EXCEPT !.done = Append(@, e), !.todo = rest, !.code = Aggregate(@, code)]
  BY DEF After, StopsAtFailure
<1>2. job = [entry |-> job.entry, todo |-> job.todo, done |-> job.done, code |-> job.code,
             whole |-> job.whole]
  BY DEF IsRecord
<1> HIDE DEF e, rest, q
<1>3. q = [entry |-> job.entry, todo |-> rest, done |-> Append(job.done, e),
           code |-> Aggregate(job.code, code), whole |-> job.whole]
  BY <1>1, <1>2
<1>4. /\ q.entry = job.entry /\ q.whole = job.whole /\ q.code = Aggregate(job.code, code)
      /\ q.todo = rest /\ q.done = Append(job.done, e)
  BY <1>3
<1>5. IsSequence(job.done) /\ IsSequence(job.todo)
  BY DEF IsRecord
<1>6. /\ IsSequence(q.done) /\ Len(job.done) \in Nat /\ DOMAIN job.done = 1..Len(job.done)
      /\ DOMAIN q.done = 1..(Len(job.done) + 1)
      /\ \A i \in 1..Len(job.done) : q.done[i] = job.done[i]
      /\ q.done[Len(job.done) + 1] = e
  BY <1>4, <1>5, AppendIsSequence
<1>7. Len(q.done) = Len(job.done) + 1
  BY <1>4, <1>5 DEF IsSequence
<1>8. IsSequence(rest) /\ \A k \in 1..Len(rest) : IsArgs(rest[k])
  <2>1. CASE stops
    BY <2>1, NoneIsSequence DEF rest
  <2>2. CASE ~stops
    <3>1. \A k \in 1..Len(job.todo) : IsArgs(job.todo[k])
      BY DEF IsRecord
    <3>2. rest = Tail(job.todo)
      BY <2>2 DEF rest
    <3>3. \A k \in 1..Len(rest) : k + 1 \in 1..Len(job.todo) /\ rest[k] = job.todo[k + 1]
      BY <1>5, <3>2, RestIsSequence
    <3> QED BY <1>5, <3>1, <3>2, <3>3, RestIsSequence
  <2> QED BY <2>1, <2>2
<1>9. IsRecord(q)
  <2>1. q.entry \in ToSet(Here.script)
    BY <1>4 DEF IsRecord
  <2> QED BY <1>3, <1>4, <1>6, <1>8, <2>1 DEF IsRecord
<1> QED BY <1>4, <1>6, <1>7, <1>9 DEF q, rest, e

(* The codes of the children, and the worst of them.                       *)
LEMMA ExitsAfter ==
  ASSUME NEW done, NEW code, IsRecord(job), job.todo # <<>>, code = ToExitCode(done.code)
  PROVE  LET q == After(done, code)
         IN  /\ \A i \in 1..Len(job.done) : Exits(q)[i] = Exits(job)[i]
             /\ Exits(q)[Len(job.done) + 1] = code
             /\ ToSet(Exits(q)) = ToSet(Exits(job)) \cup {code}
<1> DEFINE q == After(done, code)  n == Len(job.done)
<1>1. /\ n \in Nat /\ DOMAIN job.done = 1..n /\ DOMAIN q.done = 1..(n + 1)
      /\ \A i \in 1..n : q.done[i] = job.done[i]
      /\ q.done[n + 1] = Child(Head(job.todo), done)
  BY AfterIs
<1>2. Child(Head(job.todo), done).code = done.code
  BY DEF Child
<1> HIDE DEF q, n
<1>3. /\ Exits(q) = [i \in 1..(n + 1) |-> ToExitCode(q.done[i].code)]
      /\ Exits(job) = [i \in 1..n |-> ToExitCode(job.done[i].code)]
  BY <1>1 DEF Exits
<1>4. \A i \in 1..n : Exits(q)[i] = Exits(job)[i] /\ i \in 1..(n + 1)
  BY <1>1, <1>3
<1>5. n + 1 \in 1..(n + 1) /\ Exits(q)[n + 1] = code
  BY <1>1, <1>2, <1>3
<1>6. DOMAIN Exits(q) = 1..(n + 1) /\ DOMAIN Exits(job) = 1..n
  BY <1>3
<1>7. 1..(n + 1) = (1..n) \cup {n + 1}
  BY <1>1
<1>8. ToSet(Exits(q)) = ToSet(Exits(job)) \cup {code}
  BY <1>4, <1>5, <1>6, <1>7 DEF ToSet
<1> QED BY <1>4, <1>5, <1>8 DEF q, n

(* The code of a job stays that of its worst child.                        *)
LEMMA WeighedAfter ==
  ASSUME NEW done, NEW code, IsRecord(job), Weighed(job), job.todo # <<>>, code = ToExitCode(done.code)
  PROVE  Weighed(After(done, code))
<1>1. code \in 0..3
  BY ExitCodes
<1>2. After(done, code).code = Aggregate(job.code, code)
  BY AfterIs
<1>3. ToSet(Exits(After(done, code))) = ToSet(Exits(job)) \cup {code}
  BY ExitsAfter
<1> QED BY <1>1, <1>2, <1>3, WorstAdds DEF Weighed

(* The operations of a batch go on in their order, or stop at the first    *)
(* that is no success.                                                     *)
LEMMA InTurnAfter ==
  ASSUME NEW done, NEW code, IsRecord(job), InTurn(job), job.todo # <<>>, code = ToExitCode(done.code)
  PROVE  InTurn(After(done, code))
<1> DEFINE q == After(done, code)  n == Len(job.done)  ops == Operations(job)
           stops == StopsAtFailure(job) /\ done.code # 0
<1>1. /\ q.entry = job.entry
      /\ q.todo = IF stops THEN <<>> ELSE Tail(job.todo)
      /\ n \in Nat /\ Len(q.done) = n + 1
      /\ \A i \in 1..n : q.done[i] = job.done[i]
      /\ q.done[n + 1] = Child(Head(job.todo), done)
  BY AfterIs
<1>2. /\ \A i \in 1..n : Exits(q)[i] = Exits(job)[i]
      /\ Exits(q)[n + 1] = code
  BY ExitsAfter
<1>3. Child(Head(job.todo), done).args = Head(job.todo)
  BY DEF Child
<1>4. /\ Len(job.todo) \in Nat /\ Len(job.todo) > 0 /\ Head(job.todo) = job.todo[1]
      /\ Len(Tail(job.todo)) = Len(job.todo) - 1
      /\ \A k \in 1..(Len(job.todo) - 1) : Tail(job.todo)[k] = job.todo[k + 1]
  BY RestIsSequence DEF IsRecord
<1>5. code = 0 <=> done.code = 0
  BY ExitCodes
<1>6. Operations(q) = ops /\ (StopsAtFailure(q) <=> StopsAtFailure(job))
  BY <1>1 DEF Operations, StopsAtFailure
<1> HIDE DEF q
<1> SUFFICES ASSUME job.entry.kind \in {"command", "batch"}
             PROVE  /\ \A i \in 1..Len(q.done) : q.done[i].args = ops[i]
                    /\ Onward(q) \/ Halted(q)
  BY <1>1, <1>6 DEF InTurn, q
<1>7. /\ \A i \in 1..n : job.done[i].args = ops[i]
      /\ n + Len(job.todo) = Len(ops)
      /\ \A k \in 1..Len(job.todo) : job.todo[k] = ops[n + k]
      /\ StopsAtFailure(job) => \A i \in 1..n : Exits(job)[i] = 0
  BY DEF InTurn, Onward, Halted
<1> HIDE DEF n, ops
<1>8. Len(ops) \in Nat /\ n + 1 <= Len(ops)
  BY <1>1, <1>4, <1>7
<1>9. ops[n + 1] = Head(job.todo)
  BY <1>1, <1>4, <1>7
<1>10. \A i \in 1..(n + 1) : i \in 1..n \/ i = n + 1
  BY <1>1
<1>11. \A i \in 1..Len(q.done) : q.done[i].args = ops[i]
  BY <1>1, <1>3, <1>7, <1>9, <1>10
<1>12. CASE stops /\ n + 1 < Len(ops)
  <2>1. \A i \in 1..n : Exits(q)[i] = 0 /\ i # n + 1
    BY <1>1, <1>2, <1>7, <1>12
  <2>2. Exits(q)[n + 1] # 0
    BY <1>2, <1>5, <1>12
  <2>3. \A i \in 1..Len(q.done) : (i = Len(q.done)) = (Exits(q)[i] # 0)
    BY <1>1, <1>10, <2>1, <2>2
  <2> QED BY <1>1, <1>6, <1>11, <1>12, <2>3 DEF Halted
<1>13. CASE stops /\ ~(n + 1 < Len(ops))
  <2>1. q.todo = <<>> /\ Len(q.todo) = 0 /\ Len(q.done) = n + 1
    BY <1>1, <1>13
  <2>2. n + 1 = Len(ops)
    BY <1>1, <1>8, <1>13
  <2> QED BY <1>6, <1>11, <2>1, <2>2 DEF Onward
<1>14. CASE ~stops
  <2>1. q.todo = Tail(job.todo) /\ Len(q.done) = n + 1 /\ Len(q.todo) = Len(job.todo) - 1
    BY <1>1, <1>4, <1>14
  <2>2. Len(q.done) + Len(q.todo) = Len(ops)
    <3>1. n \in Nat /\ Len(job.todo) \in Nat /\ n + Len(job.todo) = Len(ops)
      BY <1>1, <1>4, <1>7
    <3>2. Len(q.done) = n + 1 /\ Len(q.todo) = Len(job.todo) - 1
      BY <2>1
    <3>3. \A a, b \in Nat : (a + 1) + (b - 1) = a + b
      OBVIOUS
    <3> QED BY <3>1, <3>2, <3>3
  <2>3. ASSUME NEW k \in 1..Len(q.todo) PROVE q.todo[k] = ops[Len(q.done) + k]
    <3>1. k \in 1..(Len(job.todo) - 1) /\ k + 1 \in 1..Len(job.todo)
      BY <1>4, <2>1
    <3>2. q.todo[k] = job.todo[k + 1]
      BY <1>4, <2>1, <3>1
    <3>3. job.todo[k + 1] = ops[n + (k + 1)]
      BY <1>7, <3>1
    <3>4. n + (k + 1) = Len(q.done) + k
      BY <1>1, <2>1, <3>1
    <3> QED BY <3>2, <3>3, <3>4
  <2>4. ASSUME StopsAtFailure(job) PROVE \A i \in 1..Len(q.done) : Exits(q)[i] = 0
    <3>1. code = 0
      BY <1>5, <1>14, <2>4
    <3> QED BY <1>1, <1>2, <1>7, <1>10, <2>4, <3>1
  <2> QED BY <1>6, <1>11, <2>2, <2>3, <2>4 DEF Onward
<1> QED BY <1>12, <1>13, <1>14

(* A child that exits with 0 gives its pair what the suite promised.       *)
LEMMA NoneForgottenAfter ==
  ASSUME NEW done, NEW code, IsRecord(job), NoneForgotten(job), Weighed(job), job.todo # <<>>,
         code = ToExitCode(done.code),
         job.entry.kind = "suite" => \A pair \in Promised(job.entry) :
           Asks(Head(job.todo), pair) /\ done.code = 0 => Passed(Child(Head(job.todo), done), pair)
  PROVE  NoneForgotten(After(done, code))
<1> DEFINE q == After(done, code)  n == Len(job.done)
<1>1. /\ q.entry = job.entry /\ q.code = Aggregate(job.code, code)
      /\ q.todo = IF StopsAtFailure(job) /\ done.code # 0 THEN <<>> ELSE Tail(job.todo)
      /\ n \in Nat /\ Len(q.done) = n + 1
      /\ \A i \in 1..n : q.done[i] = job.done[i]
      /\ q.done[n + 1] = Child(Head(job.todo), done)
  BY AfterIs
<1> HIDE DEF q
<1> SUFFICES ASSUME job.entry.kind = "suite", q.code = 0, NEW pair \in Promised(job.entry)
             PROVE  \/ \E i \in 1..Len(q.done) : Passed(q.done[i], pair)
                    \/ \E k \in 1..Len(q.todo) : Asks(q.todo[k], pair)
  BY <1>1 DEF NoneForgotten, q
<1>2. job.code = 0 /\ code = 0
  <2>1. code \in 0..3 /\ job.code \in 0..3
    BY ExitCodes DEF Weighed, WorstOf
  <2> QED BY <1>1, <2>1 DEF Aggregate
<1>3. done.code = 0
  BY <1>2, ExitCodes
<1>4. q.todo = Tail(job.todo)
  BY <1>1 DEF StopsAtFailure
<1>5. /\ Len(job.todo) \in Nat /\ Head(job.todo) = job.todo[1]
      /\ Len(Tail(job.todo)) = Len(job.todo) - 1
      /\ \A k \in 1..(Len(job.todo) - 1) : Tail(job.todo)[k] = job.todo[k + 1]
  BY RestIsSequence DEF IsRecord
<1>6. \/ \E i \in 1..Len(job.done) : Passed(job.done[i], pair)
      \/ \E k \in 1..Len(job.todo) : Asks(job.todo[k], pair)
  BY <1>2 DEF NoneForgotten
<1>7. CASE \E i \in 1..Len(job.done) : Passed(job.done[i], pair)
  <2>1. PICK i \in 1..n : Passed(job.done[i], pair)
    BY <1>7
  <2>2. i \in 1..Len(q.done) /\ q.done[i] = job.done[i]
    BY <1>1
  <2> QED BY <2>1, <2>2
<1>8. CASE \E k \in 1..Len(job.todo) : Asks(job.todo[k], pair)
  <2>1. PICK k \in 1..Len(job.todo) : Asks(job.todo[k], pair)
    BY <1>8
  <2>2. CASE k = 1
    <3>1. Passed(Child(Head(job.todo), done), pair)
      BY <1>3, <1>5, <2>1, <2>2
    <3>2. n + 1 \in 1..Len(q.done)
      BY <1>1
    <3> QED BY <1>1, <3>1, <3>2
  <2>3. CASE k # 1
    <3>1. k - 1 \in 1..(Len(job.todo) - 1) /\ (k - 1) + 1 = k
      BY <1>5, <2>3
    <3>2. k - 1 \in 1..Len(q.todo) /\ q.todo[k - 1] = job.todo[k]
      BY <1>4, <1>5, <3>1
    <3> QED BY <2>1, <3>2
  <2> QED BY <2>2, <2>3
<1> QED BY <1>6, <1>7, <1>8

-------------------------------------------------------------------------------
(* Induction on the naturals, in the form the proofs of the transition     *)
(* system have it.                                                         *)
Counting == INSTANCE TransitionSystemProofs WITH States <- {}, NumActions <- 0, Disabled <- 0, Fault <- 1

(* A set of naturals with 0 and the successors of its members is Nat.      *)
LEMMA Induction == \A N \in SUBSET Nat : 0 \in N /\ (\A k \in N : k + 1 \in N) => N = Nat
BY Counting!InductionInSetForm

(* The partial concatenations that FlattenSeq chooses.                     *)
IsFlat(seqs, k, f) == f = [i \in 1..k |-> IF i = 1 THEN seqs[i] ELSE f[i - 1] \o seqs[i]]

(* There are such.                                                         *)
LEMMA FlatExists ==
  ASSUME NEW seqs, NEW k \in Nat
  PROVE  \E f : IsFlat(seqs, k, f)
<1> DEFINE T == {n \in Nat : \E f : IsFlat(seqs, n, f)}
<1>1. 0 \in T
  <2> DEFINE f == [i \in 1..0 |-> 0]
  <2>1. 1..0 = {}
    OBVIOUS
  <2>2. IsFlat(seqs, 0, f)
    BY <2>1 DEF IsFlat
  <2> QED BY <2>2
<1>2. ASSUME NEW n \in T PROVE n + 1 \in T
  <2>1. PICK f : IsFlat(seqs, n, f)
    OBVIOUS
  <2> DEFINE last == IF n = 0 THEN seqs[1] ELSE f[n] \o seqs[n + 1]
             g == [i \in 1..(n + 1) |-> IF i = n + 1 THEN last ELSE f[i]]
  <2>2. \A i \in 1..(n + 1) : i = n + 1 \/ (i \in 1..n /\ i # n + 1)
    OBVIOUS
  <2>3. \A i \in 1..n : f[i] = IF i = 1 THEN seqs[i] ELSE f[i - 1] \o seqs[i]
    BY <2>1 DEF IsFlat
  <2>4. ASSUME NEW i \in 1..(n + 1) PROVE g[i] = IF i = 1 THEN seqs[i] ELSE g[i - 1] \o seqs[i]
    <3>1. CASE i = n + 1 /\ n = 0
      BY <3>1
    <3>2. CASE i = n + 1 /\ n # 0
      <4>1. i # 1 /\ i - 1 = n /\ n \in 1..(n + 1) /\ n # n + 1
        BY <3>2
      <4>2. last = f[n] \o seqs[i]
        BY <3>2
      <4> HIDE DEF last
      <4>3. g[n] = f[n] /\ g[i] = last
        BY <3>2, <4>1
      <4> HIDE DEF g
      <4> QED BY <4>1, <4>2, <4>3
    <3>3. CASE i # n + 1 /\ i # 1
      <4>1. i \in 1..n /\ i - 1 \in 1..(n + 1) /\ i - 1 # n + 1
        BY <2>2, <3>3
      <4>2. g[i] = f[i] /\ g[i - 1] = f[i - 1]
        BY <3>3, <4>1
      <4> QED BY <2>3, <3>3, <4>1, <4>2
    <3>4. CASE i # n + 1 /\ i = 1
      <4>1. i \in 1..n /\ g[i] = f[i]
        BY <2>2, <3>4
      <4> QED BY <2>3, <3>4, <4>1
    <3> QED BY <3>1, <3>2, <3>3, <3>4
  <2>5. IsFlat(seqs, n + 1, g)
    <3>1. g = [i \in 1..(n + 1) |-> g[i]]
      OBVIOUS
    <3> HIDE DEF g
    <3> QED BY <2>4, <3>1 DEF IsFlat
  <2> QED BY <2>5
<1>3. T = Nat
  <2>1. T \subseteq Nat
    OBVIOUS
  <2> HIDE DEF T
  <2> QED BY <1>1, <1>2, <2>1, Induction
<1> QED BY <1>3

(* A flattened sequence has every member of every part.                    *)
LEMMA FlattenCovers ==
  ASSUME NEW S, NEW seqs \in Seq(Seq(S))
  PROVE  /\ FlattenSeq(seqs) \in Seq(S)
         /\ \A i \in 1..Len(seqs) : \A j \in 1..Len(seqs[i]) :
              \E p \in 1..Len(FlattenSeq(seqs)) : FlattenSeq(seqs)[p] = seqs[i][j]
<1> DEFINE n == Len(seqs)
<1>1. CASE n = 0
  <2>1. FlattenSeq(seqs) = seqs /\ seqs = <<>>
    BY <1>1 DEF FlattenSeq
  <2> QED BY <2>1
<1>2. CASE n # 0
  <2>1. PICK f : IsFlat(seqs, n, f) /\ FlattenSeq(seqs) = f[n]
    <3> DEFINE f == CHOOSE f : f = [i \in 1..Len(seqs) |->
                                   IF i = 1 THEN seqs[i] ELSE f[i - 1] \o seqs[i]]
    <3>1. FlattenSeq(seqs) = f[n]
      BY <1>2 DEF FlattenSeq
    <3>2. \E h : IsFlat(seqs, n, h)
      <4> HIDE DEF f
      <4>1. n \in Nat
        OBVIOUS
      <4> HIDE DEF n
      <4> QED BY <4>1, FlatExists
    <3>3. IsFlat(seqs, n, f)
      BY <3>2 DEF IsFlat
    <3> QED BY <3>1, <3>3
  <2>2. \A i \in 1..n : f[i] = IF i = 1 THEN seqs[i] ELSE f[i - 1] \o seqs[i]
    BY <2>1 DEF IsFlat
  <2> DEFINE Holds(k) == /\ f[k] \in Seq(S)
                         /\ \A i \in 1..k : \A j \in 1..Len(seqs[i]) :
                              \E p \in 1..Len(f[k]) : f[k][p] = seqs[i][j]
             T == {k \in Nat : k \in 1..n => Holds(k)}
  <2>3. 0 \in T
    OBVIOUS
  <2>4. ASSUME NEW k \in T PROVE k + 1 \in T
    <3> HIDE DEF Holds
    <3> SUFFICES ASSUME k + 1 \in 1..n PROVE Holds(k + 1)
      OBVIOUS
    <3> USE DEF Holds
    <3>1. seqs[k + 1] \in Seq(S)
      OBVIOUS
    <3>2. CASE k = 0
      <4>1. f[k + 1] = seqs[k + 1] /\ \A i \in 1..(k + 1) : i = k + 1
        BY <2>2, <3>2
      <4> QED BY <3>1, <4>1
    <3>3. CASE k # 0
      <4>1. k \in 1..n /\ k + 1 # 1 /\ (k + 1) - 1 = k
        BY <3>3
      <4>2. Holds(k)
        BY <4>1
      <4>3. f[k + 1] = f[k] \o seqs[k + 1]
        BY <2>2, <4>1
      <4>4. f[k + 1] \in Seq(S) /\ Len(f[k + 1]) = Len(f[k]) + Len(seqs[k + 1])
        BY <3>1, <4>2, <4>3, ConcatProperties
      <4> DEFINE head == f[k]  tail == seqs[k + 1]
      <4>8. head \in Seq(S) /\ tail \in Seq(S) /\ Len(head) \in Nat /\ Len(tail) \in Nat
        BY <3>1, <4>2
      <4> HIDE DEF head, tail
      <4>9. /\ Len(head \o tail) = Len(head) + Len(tail)
            /\ \A p \in 1..(Len(head) + Len(tail)) :
                 (head \o tail)[p] = IF p <= Len(head) THEN head[p] ELSE tail[p - Len(head)]
        BY <4>8, ConcatProperties
      <4>10. \A p \in 1..Len(head) : (head \o tail)[p] = head[p] /\ p \in 1..Len(head \o tail)
        BY <4>8, <4>9
      <4>11. ASSUME NEW p \in 1..Len(tail)
             PROVE  (head \o tail)[Len(head) + p] = tail[p] /\ Len(head) + p \in 1..Len(head \o tail)
        <5>1. Len(head) + p \in 1..(Len(head) + Len(tail)) /\ ~(Len(head) + p <= Len(head))
          BY <4>8
        <5>2. (Len(head) + p) - Len(head) = p
          BY <4>8
        <5> QED BY <4>9, <5>1, <5>2
      <4>5. \A p \in 1..Len(f[k]) : f[k + 1][p] = f[k][p] /\ p \in 1..Len(f[k + 1])
        BY <4>3, <4>10 DEF head, tail
      <4>6. \A p \in 1..Len(seqs[k + 1]) : /\ f[k + 1][Len(f[k]) + p] = seqs[k + 1][p]
                                            /\ Len(f[k]) + p \in 1..Len(f[k + 1])
        BY <4>3, <4>11 DEF head, tail
      <4>7. ASSUME NEW i \in 1..(k + 1), NEW j \in 1..Len(seqs[i])
            PROVE  \E p \in 1..Len(f[k + 1]) : f[k + 1][p] = seqs[i][j]
        <5>1. CASE i = k + 1
          BY <4>6, <5>1
        <5>2. CASE i # k + 1
          <6>1. i \in 1..k
            BY <5>2
          <6>2. PICK p \in 1..Len(f[k]) : f[k][p] = seqs[i][j]
            BY <4>2, <6>1
          <6> QED BY <4>5, <6>2
        <5> QED BY <5>1, <5>2
      <4> QED BY <4>4, <4>7
    <3> QED BY <3>2, <3>3
  <2> HIDE DEF Holds
  <2>5. T = Nat
    <3> HIDE DEF T
    <3>1. T \subseteq Nat
      BY DEF T
    <3>2. \A k \in T : k + 1 \in T
      BY <2>4
    <3>3. 0 \in T
      BY <2>3
    <3>5. T \in SUBSET Nat
      BY <3>1
    <3> QED BY <3>2, <3>3, <3>5, Induction
  <2>6. n \in T /\ n \in 1..n
    BY <1>2, <2>5
  <2>7. Holds(n)
    BY <2>6
  <2> QED BY <2>1, <2>7 DEF Holds
<1> QED BY <1>1, <1>2

-------------------------------------------------------------------------------
(* What is assumed of the project chosen.                                  *)
LEMMA HereFacts ==
  ASSUME scenario \in DOMAIN Scenarios
  PROVE  /\ {Here.crate} \cup Here.versions \subseteq DOMAIN Registries \cup {Broken}
         /\ IsSequence(Here.script) /\ \A entry \in ToSet(Here.script) : IsJob(entry)
         /\ IsSequence(Config.suiteModels) /\ IsSequence(Config.benchmarkModels)
         /\ IsPairs(Config.critical)
         /\ \A name \in DOMAIN Config.suites : IsPairs(Config.suites[name])
BY ScriptAssumption DEF Here, Config, IsSequence

(* A list of pairs is a sequence, and every pair names its property.       *)
LEMMA PairsFacts ==
  ASSUME NEW pairs, IsPairs(pairs)
  PROVE  /\ IsSequence(pairs) /\ DOMAIN pairs = 1..Len(pairs)
         /\ \A pair \in ToSet(pairs) : pair[2] # None
BY DEF IsPairs, IsSequence

(* Every critical property of a model is among the pairs for it.           *)
LEMMA OfModelCovers ==
  ASSUME NEW critical, IsPairs(critical), NEW name
  PROVE  /\ OfModel(critical, name) \in Seq(ToSet(critical))
         /\ \A pair \in ToSet(critical) : pair[1] = name =>
              \E p \in 1..Len(OfModel(critical, name)) : OfModel(critical, name)[p] = pair
<1> DEFINE S == ToSet(critical)
           seqs == [k \in DOMAIN critical |-> IF critical[k][1] = name THEN <<critical[k]>> ELSE <<>>]
<1>1. critical \in Seq(S) /\ DOMAIN critical = 1..Len(critical) /\ Len(critical) \in Nat
  BY DEF IsPairs
<1>2. \A k \in 1..Len(critical) : critical[k] \in S
  BY <1>1
<1>3. ASSUME NEW k \in 1..Len(critical) PROVE seqs[k] \in Seq(S)
  <2>1. seqs[k] = IF critical[k][1] = name THEN <<critical[k]>> ELSE <<>>
    BY <1>1
  <2>2. <<critical[k]>> \in Seq(S) /\ <<>> \in Seq(S)
    BY <1>2
  <2> QED BY <2>1, <2>2
<1>4. seqs \in Seq(Seq(S)) /\ Len(seqs) = Len(critical)
  <2>1. seqs = [k \in 1..Len(critical) |-> seqs[k]]
    BY <1>1
  <2> HIDE DEF seqs
  <2>2. seqs \in [1..Len(critical) -> Seq(S)]
    BY <1>3, <2>1
  <2> QED BY <1>1, <2>2
<1>5. OfModel(critical, name) = FlattenSeq(seqs)
  BY DEF OfModel
<1>6. ASSUME NEW pair \in S, pair[1] = name
      PROVE  \E k \in 1..Len(seqs) : \E j \in 1..Len(seqs[k]) : seqs[k][j] = pair
  <2>1. PICK k \in DOMAIN critical : critical[k] = pair
    BY DEF ToSet
  <2>2. k \in 1..Len(seqs)
    BY <1>1, <1>4
  <2>3. seqs[k] = <<pair>>
    BY <1>6, <2>1
  <2>4. 1 \in 1..Len(seqs[k]) /\ seqs[k][1] = pair
    BY <2>3
  <2> QED BY <2>2, <2>4
<1> HIDE DEF seqs, S
<1>7. FlattenSeq(seqs) \in Seq(S)
  BY <1>4, FlattenCovers
<1>8. \A i \in 1..Len(seqs) : \A j \in 1..Len(seqs[i]) :
        \E p \in 1..Len(FlattenSeq(seqs)) : FlattenSeq(seqs)[p] = seqs[i][j]
  BY <1>4, FlattenCovers
<1>9. ASSUME NEW pair \in S, pair[1] = name
      PROVE  \E p \in 1..Len(FlattenSeq(seqs)) : FlattenSeq(seqs)[p] = pair
  BY <1>6, <1>8, <1>9
<1> QED BY <1>5, <1>7, <1>9 DEF S

(* A run of every critical property the suite promises.                    *)
LEMMA CriticalCovers ==
  ASSUME NEW config, IsPairs(config.critical), IsSequence(config.suiteModels)
  PROVE  /\ IsSequence(CriticalRuns(config))
         /\ \A pair \in ToSet(config.critical) :
              config.suiteModels = <<>> \/ Contains(config.suiteModels, pair[1]) =>
              \E p \in 1..Len(CriticalRuns(config)) : CriticalRuns(config)[p] = pair
<1> DEFINE models == config.suiteModels  critical == config.critical  S == ToSet(critical)
           runs == CriticalRuns(config)
           seqs == [i \in DOMAIN models |-> OfModel(critical, models[i])]
<1>1. critical \in Seq(S) /\ DOMAIN critical = 1..Len(critical)
  BY DEF IsPairs
<1>2. CASE models = <<>>
  <2>1. runs = critical
    BY <1>2 DEF CriticalRuns
  <2>2. \A pair \in S : \E p \in 1..Len(critical) : critical[p] = pair
    BY <1>1 DEF ToSet
  <2> QED BY <1>1, <2>1, <2>2 DEF IsSequence
<1>3. CASE models # <<>>
  <2>1. runs = FlattenSeq(seqs)
    BY <1>3 DEF CriticalRuns
  <2>2. DOMAIN models = 1..Len(models) /\ Len(models) \in Nat
    BY DEF IsSequence
  <2>3. \A i \in 1..Len(models) : OfModel(critical, models[i]) \in Seq(S)
    BY OfModelCovers
  <2>4. seqs \in Seq(Seq(S)) /\ Len(seqs) = Len(models)
    BY <2>2, <2>3
  <2>5. \A i \in 1..Len(models) : seqs[i] = OfModel(critical, models[i])
    BY <2>2
  <2> HIDE DEF seqs
  <2>6. FlattenSeq(seqs) \in Seq(S)
    BY <2>4, FlattenCovers
  <2>7. \A i \in 1..Len(seqs) : \A j \in 1..Len(seqs[i]) :
          \E p \in 1..Len(FlattenSeq(seqs)) : FlattenSeq(seqs)[p] = seqs[i][j]
    BY <2>4, FlattenCovers
  <2>8. ASSUME NEW pair \in S, Contains(models, pair[1])
        PROVE  \E p \in 1..Len(FlattenSeq(seqs)) : FlattenSeq(seqs)[p] = pair
    <3>1. PICK i \in 1..Len(models) : models[i] = pair[1]
      BY <2>2, <2>8 DEF Contains
    <3>2. PICK j \in 1..Len(OfModel(critical, models[i])) : OfModel(critical, models[i])[j] = pair
      BY <3>1, OfModelCovers
    <3>3. i \in 1..Len(seqs) /\ j \in 1..Len(seqs[i]) /\ seqs[i][j] = pair
      BY <2>4, <2>5, <3>2
    <3> QED BY <2>7, <3>3
  <2> QED BY <1>3, <2>1, <2>6, <2>8 DEF IsSequence
<1> QED BY <1>2, <1>3

-------------------------------------------------------------------------------
(* The arguments of a check, as a suite gives them to its children.        *)
ChecksFor(a, name, property) ==
  [a EXCEPT !.command = "check", !.model = name, !.property = property]

(* They are those of a check of that pair.                                 *)
LEMMA CheckArgs ==
  ASSUME NEW a, IsArgs(a), NEW name, NEW property, NEW b, b = ChecksFor(a, name, property)
  PROVE  IsArgs(b) /\ b.command = "check" /\ b.model = name /\ b.property = property /\ b.file = a.file
<1>1. {"command", "model", "property", "file", "solver", "check"} \subseteq DOMAIN a
  BY DEF IsArgs, Fields
<1>2. DOMAIN b = DOMAIN a
  BY DEF ChecksFor
<1>3. b.command = "check" /\ b.model = name /\ b.property = property /\ b.file = a.file
  BY <1>1 DEF ChecksFor
<1>4. b.solver = a.solver /\ b.check = a.check
  BY <1>1 DEF ChecksFor
<1>5. IsArgs(b)
  BY <1>2, <1>4 DEF IsArgs
<1> QED BY <1>3, <1>5

(* The same of a benchmark's children.                                     *)
LEMMA BenchmarkArgs ==
  ASSUME NEW a, IsArgs(a), NEW name, NEW b, b = [a EXCEPT !.command = "benchmark", !.model = name]
  PROVE  IsArgs(b)
<1>1. {"command", "model", "solver", "check"} \subseteq DOMAIN a
  BY DEF IsArgs, Fields
<1>2. DOMAIN b = DOMAIN a
  OBVIOUS
<1>3. b.solver = a.solver /\ b.check = a.check
  BY <1>1
<1> QED BY <1>2, <1>3 DEF IsArgs

(* How a suite is selected.                                                *)
LEMMA ModeIs ==
  ASSUME NEW config, NEW entry, entry.critical \in BOOLEAN
  PROVE  LET name == EffectiveSuiteName(config, FALSE, entry.suite)
         IN  /\ entry.critical => SelectionMode(config, entry) = "critical"
             /\ ~entry.critical /\ name # None => SelectionMode(config, entry) = "named"
             /\ ~entry.critical /\ name = None => SelectionMode(config, entry) = "all"
             /\ ~entry.critical => EffectiveSuiteName(config, entry.critical, entry.suite) = name
BY DEF SelectionMode, EffectiveSuiteName

(* The runs of a suite: one for every pair it promises.                    *)
LEMMA SuiteCovers ==
  ASSUME scenario \in DOMAIN Scenarios, NEW entry, entry.critical \in BOOLEAN,
         KnownSuite(Config, entry), NEW models, IsSequence(models)
  PROVE  LET runs == SuiteRuns(Config, entry, models)
         IN  /\ IsSequence(runs)
             /\ \A pair \in Promised(entry) : \E p \in 1..Len(runs) : runs[p] = pair
<1> DEFINE runs == SuiteRuns(Config, entry, models)
           name == EffectiveSuiteName(Config, FALSE, entry.suite)
<1>1. /\ entry.critical => SelectionMode(Config, entry) = "critical"
      /\ ~entry.critical /\ name # None => SelectionMode(Config, entry) = "named"
      /\ ~entry.critical /\ name = None => SelectionMode(Config, entry) = "all"
      /\ ~entry.critical => EffectiveSuiteName(Config, entry.critical, entry.suite) = name
  BY DEF SelectionMode, EffectiveSuiteName
<1>2. CASE entry.critical
  <2>1. runs = CriticalRuns(Config)
    BY <1>1, <1>2 DEF SuiteRuns
  <2>2. IsPairs(Config.critical) /\ IsSequence(Config.suiteModels)
    BY HereFacts
  <2>3. Promised(entry) = {t \in ToSet(Config.critical) : \/ Config.suiteModels = <<>>
                                                          \/ Contains(Config.suiteModels, t[1])}
    BY <1>2 DEF Promised
  <2> QED BY <2>1, <2>2, <2>3, CriticalCovers
<1>3. CASE ~entry.critical /\ name # None
  <2>1. runs = Config.suites[name] /\ name \in DOMAIN Config.suites
    BY <1>1, <1>3 DEF SuiteRuns, KnownSuite
  <2>2. IsPairs(Config.suites[name])
    BY <2>1, HereFacts
  <2>3. IsSequence(runs) /\ DOMAIN runs = 1..Len(runs)
    BY <2>1, <2>2, PairsFacts
  <2>4. Promised(entry) = ToSet(runs)
    BY <1>1, <1>3, <2>1 DEF Promised
  <2> HIDE DEF runs
  <2>5. \A pair \in ToSet(runs) : \E p \in 1..Len(runs) : runs[p] = pair
    BY <2>3 DEF ToSet
  <2> QED BY <2>3, <2>4, <2>5 DEF runs
<1>4. CASE ~entry.critical /\ name = None
  <2>1. Promised(entry) = {}
    BY <1>1, <1>4 DEF Promised
  <2>2. runs = [i \in DOMAIN models |-> <<models[i], entry.args.property>>]
    BY <1>1, <1>4 DEF SuiteRuns
  <2>3. IsSequence(runs)
    <3>1. DOMAIN models = 1..Len(models) /\ Len(models) \in Nat
      BY DEF IsSequence
    <3> DEFINE S == {<<models[i], entry.args.property>> : i \in 1..Len(models)}
    <3>2. runs \in [1..Len(models) -> S]
      BY <2>2, <3>1
    <3>3. runs \in Seq(S)
      BY <3>1, <3>2
    <3> QED BY <3>3 DEF IsSequence
  <2> QED BY <2>1, <2>3
<1> QED BY <1>2, <1>3, <1>4

(* A function on the indices of a sequence is a sequence.                  *)
LEMMA MappedSequence ==
  ASSUME NEW s, IsSequence(s), NEW f, DOMAIN f = DOMAIN s, f = [i \in DOMAIN f |-> f[i]]
  PROVE  IsSequence(f) /\ Len(f) = Len(s) /\ DOMAIN f = 1..Len(s) /\ Len(s) \in Nat
<1>1. DOMAIN s = 1..Len(s) /\ Len(s) \in Nat
  BY DEF IsSequence
<1> DEFINE S == {f[i] : i \in 1..Len(s)}
<1>2. f \in [1..Len(s) -> S]
  BY <1>1
<1>3. f \in Seq(S) /\ Len(f) = Len(s)
  BY <1>1, <1>2
<1> QED BY <1>1, <1>3 DEF IsSequence

(* The children of a suite, or of a benchmark.                             *)
LEMMA ChildrenAsk ==
  ASSUME scenario \in DOMAIN Scenarios, NEW entry \in ToSet(Here.script),
         entry.kind \in {"suite", "benchmark"}, entry.kind = "suite" => KnownSuite(Config, entry),
         NEW models, IsSequence(models)
  PROVE  LET todo == Children(Config, entry, models)
         IN  /\ IsSequence(todo) /\ \A k \in 1..Len(todo) : IsArgs(todo[k])
             /\ entry.kind = "suite" =>
                  \A pair \in Promised(entry) : \E k \in 1..Len(todo) : Asks(todo[k], pair)
<1> DEFINE todo == Children(Config, entry, models)  a == entry.args
<1>1. entry.critical \in BOOLEAN /\ IsArgs(a) /\ a.file = None
  BY HereFacts DEF IsJob
<1>2. CASE entry.kind = "benchmark"
  <2>1. todo = [i \in DOMAIN models |-> [a EXCEPT !.command = "benchmark", !.model = models[i]]]
    BY <1>2 DEF Children
  <2> HIDE DEF todo
  <2>2. DOMAIN todo = DOMAIN models /\ todo = [i \in DOMAIN todo |-> todo[i]]
    BY <2>1
  <2>3. IsSequence(todo) /\ DOMAIN todo = 1..Len(todo)
    BY <2>2, MappedSequence
  <2>4. \A k \in 1..Len(todo) : IsArgs(todo[k])
    <3> TAKE k \in 1..Len(todo)
    <3> DEFINE model == models[k]
    <3> HIDE DEF model
    <3>1. todo[k] = [a EXCEPT !.command = "benchmark", !.model = model]
      BY <2>1, <2>2, <2>3 DEF model
    <3>2. IsArgs(a)
      BY <1>1
    <3> HIDE DEF a
    <3> QED BY <3>1, <3>2, BenchmarkArgs
  <2> QED BY <1>2, <2>3, <2>4 DEF todo
<1>3. CASE entry.kind = "suite"
  <2> DEFINE runs == SuiteRuns(Config, entry, models)
  <2>1. IsSequence(runs) /\ \A pair \in Promised(entry) : \E p \in 1..Len(runs) : runs[p] = pair
    BY <1>1, <1>3, SuiteCovers
  <2>2. todo = [i \in DOMAIN runs |-> [a EXCEPT !.command = "check", !.model = runs[i][1],
                                                !.property = runs[i][2]]]
    BY <1>3 DEF Children
  <2> HIDE DEF todo, runs
  <2>3. DOMAIN todo = DOMAIN runs /\ todo = [i \in DOMAIN todo |-> todo[i]]
    BY <2>2
  <2>4. IsSequence(todo) /\ DOMAIN todo = 1..Len(todo) /\ Len(todo) = Len(runs)
    BY <2>1, <2>3, MappedSequence
  <2>5. \A k \in 1..Len(todo) : IsArgs(todo[k]) /\ Asks(todo[k], runs[k])
    <3> TAKE k \in 1..Len(todo)
    <3>1. todo[k] = [a EXCEPT !.command = "check", !.model = runs[k][1], !.property = runs[k][2]]
      BY <2>2, <2>3, <2>4
    <3> DEFINE model == runs[k][1]  property == runs[k][2]
    <3> HIDE DEF model, property, a
    <3>3. todo[k] = ChecksFor(a, model, property)
      BY <3>1 DEF model, property, ChecksFor
    <3>5. IsArgs(a)
      BY <1>1
    <3>4. /\ IsArgs(todo[k]) /\ todo[k].command = "check" /\ todo[k].model = model
          /\ todo[k].property = property /\ todo[k].file = a.file
      BY <3>3, <3>5, CheckArgs
    <3>2. /\ IsArgs(todo[k]) /\ todo[k].command = "check" /\ todo[k].model = runs[k][1]
          /\ todo[k].property = runs[k][2] /\ todo[k].file = a.file
      BY <3>4 DEF model, property
    <3> QED BY <1>1, <3>2 DEF Asks
  <2>6. ASSUME NEW pair \in Promised(entry) PROVE \E k \in 1..Len(todo) : Asks(todo[k], pair)
    BY <2>1, <2>4, <2>5
  <2> QED BY <2>4, <2>5, <2>6 DEF todo
<1> QED BY <1>2, <1>3

-------------------------------------------------------------------------------
(* A check of the registry exits with 0 only where the model is there and  *)
(* the property it was asked about passes.                                 *)
LEMMA CheckPasses ==
  ASSUME NEW models, NEW config, NEW a, NEW left, a.command = "check", a.property # None,
         RegistryCli(models, config, a, left).code = 0
  PROVE  LET m == FindModel(models, a.model)
         IN  m # <<>> /\ m[1].verdict[Adapter(a)][a.property] = "PASS"
<1> DEFINE m == FindModel(models, a.model)  engine == Adapter(a)
           verdict == CheckMachine(m[1], engine, a.property)
           report == OutcomeJson(m[1].name, PropertyOrFirst(m[1], a.property), verdict)
<1>1. RegistryCli(models, config, a, left) =
        IF m = <<>> THEN MessageExit(left) ELSE ModelCommand(m[1], a, left)
  BY DEF RegistryCli
<1> HIDE DEF m
<1>2. ModelCommand(m[1], a, left) = CmdCheck(m[1], a, left)
  BY DEF ModelCommand
<1>3. m # <<>> /\ CmdCheck(m[1], a, left).code = 0
  BY <1>1, <1>2, MessageCode
<1> HIDE DEF engine
<1>4. CmdCheck(m[1], a, left) =
        IF verdict = "panic" THEN Panic(left) ELSE IF verdict = "refused" THEN MessageExit(left)
        ELSE Done(FromCheckOutcome(verdict), report, left)
  BY DEF CmdCheck, engine
<1> HIDE DEF verdict, report
<1>5. FromCheckOutcome(verdict) = 0
  BY <1>3, <1>4, MessageCode, PanicCode, DoneCode
<1>6. verdict = "PASS"
  BY <1>5 DEF FromCheckOutcome
<1>7. PropertyOrFirst(m[1], a.property) = a.property
  BY DEF PropertyOrFirst
<1> DEFINE told == m[1].verdict[engine][a.property]
<1>8. verdict = IF engine = "refused" \/ (engine = "solver" /\ ~m[1].lowers) THEN "refused"
                ELSE IF a.property \in PropertyIds(m[1]) THEN told
                ELSE IF engine = "solver" THEN "ERROR" ELSE "panic"
  BY <1>7 DEF verdict, CheckMachine
<1> HIDE DEF told
<1>9. told = "PASS"
  BY <1>6, <1>8
<1> QED BY <1>3, <1>9 DEF m, engine, told

(* What a check asks the registry after valid.toml and the option filter.  *)
LEMMA AskedAs ==
  ASSUME NEW config, NEW a, IsArgs(a), a.command = "check", a.property # None
  PROVE  LET b == RegistryArgs(WithDefaults(config, a))
         IN  /\ b.command = "check" /\ b.model = a.model /\ b.property = a.property
             /\ Adapter(b) = Adapter(WithDefaults(config, a))
<1> DEFINE w == WithDefaults(config, a)  b == RegistryArgs(w)
<1>1. {"command", "model", "property", "backend", "solver"} \subseteq DOMAIN a /\ a.solver \in BOOLEAN
  BY DEF IsArgs, Fields
<1>2. /\ DOMAIN w = DOMAIN a /\ w.command = "check" /\ w.model = a.model /\ w.property = a.property
      /\ w.solver = a.solver
  BY <1>1 DEF WithDefaults
<1> HIDE DEF w
<1>3. "check" \in TakesProperty /\ "check" \in TakesBackend
  BY DEF TakesProperty, TakesBackend
<1>4. /\ b.command = "check" /\ b.model = a.model /\ b.property = a.property
      /\ b.backend = w.backend
  BY <1>1, <1>2, <1>3 DEF RegistryArgs
<1>5. b.solver = w.solver
  BY <1>1, <1>2, <1>3 DEF RegistryArgs
<1> HIDE DEF b
<1>6. Adapter(b) = Adapter(w)
  BY <1>4, <1>5 DEF Adapter
<1> QED BY <1>4, <1>6 DEF b, w

(* A child of a suite that exits with 0.                                   *)
LEMMA ChildPasses ==
  ASSUME NEW a, IsArgs(a), NEW pair, Asks(a, pair), pair[2] # None, RegistryRun(a).code = 0
  PROVE  Passed(Child(a, RegistryRun(a)), pair)
<1> DEFINE done == RegistryRun(a)  b == RegistryArgs(WithDefaults(Config, a))
           m == FindModel(Registries[crate], b.model)
<1>1. a.command = "check" /\ a.model = pair[1] /\ a.property = pair[2]
  BY DEF Asks
<1>2. /\ b.command = "check" /\ b.model = a.model /\ b.property = a.property
      /\ Adapter(b) = Adapter(WithDefaults(Config, a))
  BY <1>1, AskedAs
<1>3. done = RegistryCli(Registries[crate], Config, b, files)
  BY DEF RegistryRun
<1> HIDE DEF done, b
<1>4. m # <<>> /\ m[1].verdict[Adapter(b)][b.property] = "PASS"
  BY <1>1, <1>2, <1>3, CheckPasses DEF done
<1>5. Child(a, done).args = a /\ Child(a, done).of = crate
  BY DEF Child
<1> QED BY <1>1, <1>2, <1>4, <1>5 DEF Passed, done

-------------------------------------------------------------------------------
(* What a suite promises are pairs that name their property.               *)
LEMMA PromisedNamed ==
  ASSUME scenario \in DOMAIN Scenarios, NEW entry \in ToSet(Here.script), entry.kind = "suite",
         KnownSuite(Config, entry), NEW pair \in Promised(entry)
  PROVE  pair[2] # None
<1> DEFINE name == EffectiveSuiteName(Config, FALSE, entry.suite)
<1>1. entry.critical \in BOOLEAN
  BY HereFacts DEF IsJob
<1>2. CASE entry.critical
  <2>1. pair \in ToSet(Config.critical)
    BY <1>2 DEF Promised
  <2> QED BY <2>1, HereFacts, PairsFacts
<1>3. CASE ~entry.critical /\ name # None
  <2>1. EffectiveSuiteName(Config, entry.critical, entry.suite) = name
    BY <1>1, <1>3 DEF EffectiveSuiteName
  <2>2. SelectionMode(Config, entry) = "named"
    BY <1>3 DEF SelectionMode
  <2>3. name \in DOMAIN Config.suites
    BY <2>2 DEF KnownSuite
  <2>4. pair \in ToSet(Config.suites[name])
    BY <1>3, <2>1 DEF Promised
  <2>5. IsPairs(Config.suites[name])
    BY <2>3, HereFacts
  <2> HIDE DEF name
  <2> QED BY <2>4, <2>5, PairsFacts
<1>4. CASE ~entry.critical /\ name = None
  <2>1. EffectiveSuiteName(Config, entry.critical, entry.suite) = name
    BY <1>1, <1>4 DEF EffectiveSuiteName
  <2> QED BY <1>4, <2>1 DEF Promised
<1> QED BY <1>2, <1>3, <1>4

(* A child whose code counts leaves a job in hand.                         *)
LEMMA ChildRan ==
  ASSUME JobInv, job # Idle, job.todo # <<>>, NEW done, NEW code, code = ToExitCode(done.code),
         job.entry.kind = "suite" => \A pair \in Promised(job.entry) :
           Asks(Head(job.todo), pair) /\ done.code = 0 => Passed(Child(Head(job.todo), done), pair)
  PROVE  InHand(After(done, code))
<1>1. job.whole = TRUE /\ Sound(job)
  BY DEF JobInv, InHand
<1>2. IsRecord(job) /\ Weighed(job) /\ InTurn(job) /\ Declared(job) /\ NoneForgotten(job)
  BY <1>1 DEF Sound
<1> DEFINE q == After(done, code)
<1>3. IsRecord(q) /\ q.entry = job.entry /\ q.whole = job.whole
  BY <1>2, AfterIs
<1>4. Weighed(q) /\ InTurn(q)
  BY <1>2, WeighedAfter, InTurnAfter
<1>5. NoneForgotten(q)
  BY <1>2, NoneForgottenAfter
<1>6. Declared(q)
  BY <1>2, <1>3 DEF Declared
<1> QED BY <1>1, <1>3, <1>4, <1>5, <1>6 DEF InHand, Sound

(* A job that has just begun.                                              *)
LEMMA JobBegins ==
  ASSUME NEW entry \in ToSet(Here.script), NEW todo, IsSequence(todo),
         \A k \in 1..Len(todo) : IsArgs(todo[k]),
         entry.kind \in {"command", "batch"} => todo = entry.operations,
         entry.kind = "suite" => /\ KnownSuite(Config, entry)
                                 /\ \A pair \in Promised(entry) : \E k \in 1..Len(todo) : Asks(todo[k], pair)
  PROVE  InHand(Job(entry, todo, TRUE))
<1> DEFINE q == Job(entry, todo, TRUE)
<1>1. q = [entry |-> entry, todo |-> todo, done |-> <<>>, code |-> 0, whole |-> TRUE]
  BY DEF Job, ExitCode
<1> HIDE DEF q
<1>2. q.entry = entry /\ q.todo = todo /\ q.done = <<>> /\ q.code = 0 /\ q.whole = TRUE
  BY <1>1
<1>3. IsRecord(q)
  BY <1>1, <1>2, NoneIsSequence DEF IsRecord
<1>4. Weighed(q)
  <2>1. DOMAIN Exits(q) = {}
    BY <1>2 DEF Exits
  <2>2. ToSet(Exits(q)) = {}
    BY <2>1 DEF ToSet
  <2> QED BY <1>2, <2>2 DEF Weighed, WorstOf
<1>5. InTurn(q)
  <2> SUFFICES ASSUME entry.kind \in {"command", "batch"}
               PROVE  (\A i \in 1..Len(q.done) : q.done[i].args = Operations(q)[i]) /\ Onward(q)
    BY <1>2 DEF InTurn
  <2>1. Operations(q) = todo
    BY <1>2 DEF Operations
  <2>2. Len(q.done) = 0 /\ 1..0 = {} /\ Len(todo) \in Nat
    BY <1>2, NoneIsSequence DEF IsSequence
  <2>3. \A k \in 1..Len(todo) : 0 + k = k
    BY <2>2
  <2>4. 0 + Len(todo) = Len(todo)
    BY <2>2
  <2> QED BY <1>2, <2>1, <2>2, <2>3, <2>4 DEF Onward
<1>6. Declared(q) /\ NoneForgotten(q)
  BY <1>2 DEF Declared, NoneForgotten
<1> QED BY <1>2, <1>3, <1>4, <1>5, <1>6 DEF InHand, Sound, q

(* One more report.                                                        *)
LEMMA ReportAdded ==
  ASSUME NEW r, Ended(r), AllEnded(reports)
  PROVE  AllEnded(Append(reports, r))
<1>1. IsSequence(reports)
  BY DEF AllEnded
<1> DEFINE q == Append(reports, r)
<1>2. /\ IsSequence(q) /\ Len(reports) \in Nat /\ DOMAIN q = 1..(Len(reports) + 1)
      /\ \A i \in 1..Len(reports) : q[i] = reports[i]
      /\ q[Len(reports) + 1] = r
  BY <1>1, AppendIsSequence
<1>3. Len(q) = Len(reports) + 1
  BY <1>1 DEF IsSequence
<1> HIDE DEF q
<1>4. \A i \in 1..Len(q) : i \in 1..Len(reports) \/ i = Len(reports) + 1
  BY <1>2, <1>3
<1>5. \A i \in 1..Len(reports) : Ended(reports[i])
  BY DEF AllEnded
<1> QED BY <1>2, <1>4, <1>5 DEF AllEnded, q

(* What is said of a job depends on the project that was chosen alone.     *)
LEMMA SameProject ==
  ASSUME UNCHANGED scenario
  PROVE  /\ Here' = Here
         /\ \A j : InHand(j)' <=> InHand(j)
         /\ \A ended : AllEnded(ended)' <=> AllEnded(ended)
         /\ \A rest : ToDo(rest)' <=> ToDo(rest)
<1>1. Here' = Here /\ Config' = Config
  BY DEF Here, Config
<1>2. \A j : IsRecord(j)' <=> IsRecord(j)
  BY <1>1 DEF IsRecord
<1>3. \A child, pair : Passed(child, pair)' <=> Passed(child, pair)
  BY <1>1 DEF Passed
<1>4. \A entry : Promised(entry)' = Promised(entry)
  BY <1>1 DEF Promised
<1>5. \A j : NoneForgotten(j)' <=> NoneForgotten(j)
  BY <1>3, <1>4 DEF NoneForgotten
<1>6. \A j : Declared(j)' <=> Declared(j)
  BY <1>1 DEF Declared
<1>7. \A j : Sound(j)' <=> Sound(j)
  BY <1>2, <1>5, <1>6 DEF Sound
<1>8. \A r : Ended(r)' <=> Ended(r)
  BY <1>7 DEF Ended
<1>9. \A j : InHand(j)' <=> InHand(j)
  BY <1>7 DEF InHand
<1>10. \A ended : AllEnded(ended)' <=> AllEnded(ended)
  BY <1>8 DEF AllEnded
<1>11. \A rest : ToDo(rest)' <=> ToDo(rest)
  BY <1>1 DEF ToDo
<1> QED BY <1>1, <1>9, <1>10, <1>11

(* The invariant after a step, told of the values it leaves.               *)
LEMMA JobInvAfter ==
  ASSUME JobInv, UNCHANGED scenario, crate' \in DOMAIN Registries \cup {Broken},
         NEW rest, rest = script', ToDo(rest), NEW hand, hand = job', InHand(hand),
         NEW ended, ended = reports', AllEnded(ended)
  PROVE  JobInv'
<1>1. ToDo(rest)' /\ InHand(hand)' /\ AllEnded(ended)'
  BY SameProject
<1>2. ToDo(script)' <=> ToDo(rest)'
  OBVIOUS
<1>3. InHand(job)' <=> InHand(hand)'
  OBVIOUS
<1>4. AllEnded(reports)' <=> AllEnded(ended)'
  OBVIOUS
<1>5. scenario' \in DOMAIN Scenarios
  BY DEF JobInv
<1> QED BY <1>1, <1>2, <1>3, <1>4, <1>5 DEF JobInv

(* A job in hand goes on: nothing else is touched.                         *)
LEMMA JobGoesOn ==
  ASSUME JobInv, UNCHANGED <<scenario, crate, script, reports>>, NEW hand, hand = job', InHand(hand)
  PROVE  JobInv'
<1>1. ToDo(script) /\ AllEnded(reports) /\ crate \in DOMAIN Registries \cup {Broken}
  BY DEF JobInv
<1>2. PICK rest, ended : rest = script' /\ ended = reports'
  OBVIOUS
<1>3. ToDo(rest) /\ AllEnded(ended)
  BY <1>1, <1>2
<1> QED BY <1>1, <1>2, <1>3, JobInvAfter

(* A step that leaves the terminal and the crate alone.                    *)
LEMMA TerminalRests == JobInv /\ UNCHANGED <<scenario, crate, terminal>> => JobInv'
<1> SUFFICES ASSUME JobInv, UNCHANGED <<scenario, crate, terminal>> PROVE JobInv'
  OBVIOUS
<1>1. PICK hand : hand = job'
  OBVIOUS
<1>2. InHand(job) /\ hand = job
  BY <1>1 DEF JobInv, terminal
<1>3. InHand(hand)
  BY <1>2
<1> QED BY <1>1, <1>3, JobGoesOn DEF terminal

(* The next job of the script.                                             *)
LEMMA ScriptFacts ==
  ASSUME JobInv, script # <<>>
  PROVE  /\ Head(script) \in ToSet(Here.script) /\ IsJob(Head(script))
         /\ ToDo(Tail(script))
<1>1. IsSequence(script) /\ \A i \in 1..Len(script) : script[i] \in ToSet(Here.script)
  BY DEF JobInv, ToDo
<1>2. /\ IsSequence(Tail(script)) /\ Len(Tail(script)) = Len(script) - 1 /\ Len(script) \in Nat
      /\ Len(script) > 0 /\ Head(script) = script[1]
      /\ \A k \in 1..(Len(script) - 1) : Tail(script)[k] = script[k + 1]
  BY <1>1, RestIsSequence
<1>3. Head(script) \in ToSet(Here.script)
  <2>1. 1 \in 1..Len(script)
    BY <1>2
  <2> QED BY <1>1, <1>2, <2>1
<1>4. IsJob(Head(script))
  BY <1>3, HereFacts DEF JobInv
<1>5. \A k \in 1..(Len(script) - 1) : k + 1 \in 1..Len(script)
  BY <1>2
<1> QED BY <1>1, <1>2, <1>3, <1>4, <1>5 DEF ToDo

(* A job starts.                                                           *)
LEMMA JobStarts ==
  ASSUME JobInv, script # <<>>, UNCHANGED <<scenario, crate, reports>>, script' = Tail(script),
         NEW hand, hand = job', InHand(hand)
  PROVE  JobInv'
<1>1. PICK rest, ended : rest = script' /\ ended = reports'
  OBVIOUS
<1>2. ToDo(rest)
  BY <1>1, ScriptFacts
<1>3. AllEnded(ended)
  BY <1>1 DEF JobInv
<1>4. crate' \in DOMAIN Registries \cup {Broken}
  BY DEF JobInv
<1> QED BY <1>1, <1>2, <1>3, <1>4, JobInvAfter

(* StartCommands: the operations are all to run.                           *)
LEMMA StartCommandsStep == JobInv /\ StartCommands => JobInv'
<1> SUFFICES ASSUME JobInv, StartCommands PROVE JobInv'
  OBVIOUS
<1> DEFINE entry == Head(script)
<1>1. /\ script # <<>> /\ entry.kind \in {"command", "batch"} /\ script' = Tail(script)
      /\ job' = Job(entry, entry.operations, TRUE)
      /\ UNCHANGED <<scenario, crate, reports>>
  BY DEF StartCommands, project
<1>2. entry \in ToSet(Here.script) /\ IsJob(entry)
  BY <1>1, ScriptFacts
<1> HIDE DEF entry
<1> DEFINE todo == entry.operations
<1>3. todo \in Seq(ToSet(todo)) /\ \A a \in ToSet(todo) : IsArgs(a)
  BY <1>1, <1>2 DEF IsJob
<1> HIDE DEF todo
<1>4. IsSequence(todo) /\ DOMAIN todo = 1..Len(todo)
  BY <1>3 DEF IsSequence
<1>5. \A k \in 1..Len(todo) : todo[k] \in ToSet(todo)
  BY <1>4 DEF ToSet
<1>6. InHand(Job(entry, todo, TRUE))
  BY <1>1, <1>2, <1>3, <1>4, <1>5, JobBegins DEF todo
<1>7. PICK hand : hand = job'
  OBVIOUS
<1> QED BY <1>1, <1>6, <1>7, JobStarts DEF todo

(* A suite, or a benchmark, starts with children for all it promises.      *)
LEMMA SuiteStarts ==
  ASSUME JobInv, script # <<>>, UNCHANGED <<scenario, crate, reports>>, script' = Tail(script),
         Head(script).kind \in {"suite", "benchmark"},
         Head(script).kind = "suite" => KnownSuite(Config, Head(script)),
         NEW models, IsSequence(models), job' = Job(Head(script), Children(Config, Head(script), models), TRUE)
  PROVE  JobInv'
<1> DEFINE entry == Head(script)  todo == Children(Config, entry, models)
<1>1. entry \in ToSet(Here.script) /\ scenario \in DOMAIN Scenarios
  BY ScriptFacts DEF JobInv
<1> HIDE DEF entry
<1>2. /\ IsSequence(todo) /\ \A k \in 1..Len(todo) : IsArgs(todo[k])
      /\ entry.kind = "suite" =>
           \A pair \in Promised(entry) : \E k \in 1..Len(todo) : Asks(todo[k], pair)
  BY <1>1, ChildrenAsk DEF entry
<1> HIDE DEF todo
<1>3. InHand(Job(entry, todo, TRUE))
  BY <1>1, <1>2, JobBegins DEF entry
<1>4. PICK hand : hand = job'
  OBVIOUS
<1> QED BY <1>3, <1>4, JobStarts DEF entry, todo

(* StartSuite, of the models valid.toml names.                             *)
LEMMA StartSuiteStep == JobInv /\ StartSuite => JobInv'
<1> SUFFICES ASSUME JobInv, StartSuite PROVE JobInv'
  OBVIOUS
<1> DEFINE entry == Head(script)  models == NamedModels(Config, entry)
<1>1. /\ script # <<>> /\ entry.kind \in {"suite", "benchmark"} /\ script' = Tail(script)
      /\ KnownSuite(Config, entry)
      /\ job' = Job(entry, Children(Config, entry, models), TRUE)
      /\ UNCHANGED <<scenario, crate, reports>>
  BY DEF StartSuite, Starts, project
<1>2. IsSequence(Config.suiteModels) /\ IsSequence(Config.benchmarkModels)
  BY HereFacts DEF JobInv
<1>3. IsSequence(models)
  BY <1>2 DEF NamedModels
<1> HIDE DEF models
<1> QED BY <1>1, <1>3, SuiteStarts

(* A job that was cut short reports an error.                              *)
LEMMA Unfinished ==
  ASSUME NEW r, r.whole = FALSE, r.code = 3
  PROVE  Ended(r)
BY DEF Ended

(* A job that ends, for good or ill, adds its report.                      *)
LEMMA JobReports ==
  ASSUME JobInv, UNCHANGED <<scenario, crate>>, NEW r, Ended(r), reports' = Append(reports, r),
         NEW rest, rest = script', ToDo(rest), NEW hand, hand = job', InHand(hand)
  PROVE  JobInv'
<1>1. AllEnded(Append(reports, r))
  BY ReportAdded DEF JobInv
<1>2. PICK ended : ended = reports'
  OBVIOUS
<1>3. AllEnded(ended)
  BY <1>1, <1>2
<1>4. crate' \in DOMAIN Registries \cup {Broken}
  BY DEF JobInv
<1> QED BY <1>2, <1>3, <1>4, JobInvAfter

(* A job that is refused before it has children.                           *)
LEMMA JobRefused ==
  ASSUME JobInv, script # <<>>, UNCHANGED <<scenario, crate, job>>, script' = Tail(script),
         reports' = Append(reports, [Job(Head(script), <<>>, FALSE) EXCEPT !.code = ExitCode.Error])
  PROVE  JobInv'
<1> DEFINE r == [Job(Head(script), <<>>, FALSE) EXCEPT !.code = ExitCode.Error]
<1>1. r.whole = FALSE /\ r.code = 3
  BY DEF Job, ExitCode
<1> HIDE DEF r
<1>2. Ended(r)
  BY <1>1, Unfinished
<1>3. PICK rest, hand : rest = script' /\ hand = job'
  OBVIOUS
<1>4. ToDo(rest)
  BY <1>3, ScriptFacts
<1>5. InHand(hand)
  BY <1>3 DEF JobInv
<1> QED BY <1>2, <1>3, <1>4, <1>5, JobReports DEF r

(* RefuseSuite.                                                            *)
LEMMA RefuseSuiteStep == JobInv /\ RefuseSuite => JobInv'
BY JobRefused DEF RefuseSuite, Starts, project

(* FetchModels: the models of the registry that was built, or an error.    *)
LEMMA FetchModelsStep == JobInv /\ FetchModels => JobInv'
<1> SUFFICES ASSUME JobInv, FetchModels PROVE JobInv'
  OBVIOUS
<1> DEFINE entry == Head(script)  models == ModelNames(Registries[crate])
<1>1. /\ script # <<>> /\ entry.kind \in {"suite", "benchmark"} /\ script' = Tail(script)
      /\ FetchesModels(Config, entry) /\ UNCHANGED <<scenario, crate>>
  BY DEF FetchModels, Starts
<1>2. CASE crate = Broken
  BY <1>1, <1>2, JobRefused DEF FetchModels
<1>3. CASE crate # Broken
  <2>1. job' = Job(entry, Children(Config, entry, models), TRUE) /\ UNCHANGED reports
    BY <1>3 DEF FetchModels
  <2> DEFINE registry == Registries[crate]
  <2>2. registry \in Seq(ToSet(registry))
    BY <1>3, ScriptAssumption DEF JobInv
  <2>3. models = [i \in DOMAIN registry |-> registry[i].name]
    BY DEF ModelNames
  <2> HIDE DEF models, registry
  <2>4. DOMAIN models = DOMAIN registry /\ models = [i \in DOMAIN models |-> models[i]]
    BY <2>3
  <2>5. IsSequence(models)
    BY <2>2, <2>4, MappedSequence DEF IsSequence
  <2>6. entry.kind = "suite" => KnownSuite(Config, entry)
    BY <1>1 DEF FetchesModels, KnownSuite
  <2> QED BY <1>1, <2>1, <2>5, <2>6, SuiteStarts DEF models
<1> QED BY <1>2, <1>3

-------------------------------------------------------------------------------
(* The children.                                                           *)
LEMMA ChildStep ==
  ASSUME JobInv, job # Idle, job.todo # <<>>, NEW done, NEW code, code = ToExitCode(done.code),
         job' = After(done, code), UNCHANGED <<scenario, crate, script, reports>>,
         job.entry.kind = "suite" => \A pair \in Promised(job.entry) :
           Asks(Head(job.todo), pair) /\ done.code = 0 => Passed(Child(Head(job.todo), done), pair)
  PROVE  JobInv'
<1>1. PICK hand : hand = job'
  OBVIOUS
<1>2. InHand(After(done, code))
  BY ChildRan
<1> QED BY <1>1, <1>2, JobGoesOn

(* The child at hand.                                                      *)
LEMMA ChildFacts ==
  ASSUME JobInv, job # Idle, job.todo # <<>>
  PROVE  /\ IsArgs(Head(job.todo))
         /\ job.entry.kind = "suite" => \A pair \in Promised(job.entry) : pair[2] # None
<1>1. Sound(job)
  BY DEF JobInv, InHand
<1>2. IsRecord(job) /\ Declared(job)
  BY <1>1 DEF Sound
<1>3. IsSequence(job.todo) /\ \A k \in 1..Len(job.todo) : IsArgs(job.todo[k])
  BY <1>2 DEF IsRecord
<1>4. Len(job.todo) \in Nat /\ Len(job.todo) > 0 /\ Head(job.todo) = job.todo[1]
  BY <1>3, RestIsSequence
<1>5. 1 \in 1..Len(job.todo)
  BY <1>4
<1>6. job.entry \in ToSet(Here.script)
  BY <1>2 DEF IsRecord
<1> QED BY <1>2, <1>3, <1>4, <1>5, <1>6, PromisedNamed DEF JobInv, Declared

(* RunRegistryChild: a check that exits with 0 has seen its pair pass.     *)
LEMMA RegistryStep == JobInv /\ RunRegistryChild => JobInv'
<1> SUFFICES ASSUME JobInv, RunRegistryChild PROVE JobInv'
  OBVIOUS
<1> DEFINE a == Head(job.todo)  done == RegistryRun(a)  code == ToExitCode(done.code)
<1>1. /\ job # Idle /\ job.todo # <<>> /\ job' = After(done, code)
      /\ UNCHANGED <<scenario, crate, script, reports>>
  BY DEF RunRegistryChild, Running, Ran
<1>2. IsArgs(a) /\ (job.entry.kind = "suite" => \A pair \in Promised(job.entry) : pair[2] # None)
  BY <1>1, ChildFacts
<1>3. job.entry.kind = "suite" => \A pair \in Promised(job.entry) :
        Asks(a, pair) /\ done.code = 0 => Passed(Child(a, done), pair)
  BY <1>2, ChildPasses
<1> HIDE DEF done
<1> QED BY <1>1, <1>3, ChildStep

(* RunFileChild: the one action that converts codes its own way.           *)
LEMMA FileChildStep == JobInv /\ RunFileChild => JobInv'
<1> SUFFICES ASSUME JobInv, RunFileChild PROVE JobInv'
  OBVIOUS
<1> DEFINE a == Head(job.todo)  done == ModelFileCli(Config, a, files)
<1>1. /\ job # Idle /\ job.todo # <<>> /\ job' = After(done, ToFileExitCode(done.code))
      /\ a.file # None /\ UNCHANGED <<scenario, crate, script, reports>>
  BY DEF RunFileChild, Running, Ran
<1>2. ToFileExitCode(done.code) = ToExitCode(done.code)
  BY FileExits
<1>3. \A pair : ~Asks(a, pair)
  BY <1>1 DEF Asks
<1> HIDE DEF done
<1> QED BY <1>1, <1>2, <1>3, ChildStep

(* RunClean.                                                               *)
LEMMA CleanStep == JobInv /\ RunClean => JobInv'
<1> SUFFICES ASSUME JobInv, RunClean PROVE JobInv'
  OBVIOUS
<1> DEFINE a == Head(job.todo)  done == CmdClean(a.sub, files)
<1>1. /\ job # Idle /\ job.todo # <<>> /\ job' = After(done, ToExitCode(done.code))
      /\ a.command = "clean" /\ UNCHANGED <<scenario, crate, script, reports>>
  BY DEF RunClean, Running, Ran
<1>2. \A pair : ~Asks(a, pair)
  BY <1>1 DEF Asks
<1> HIDE DEF done
<1> QED BY <1>1, <1>2, ChildStep

(* FailBuild: a suite is cut short, a batch has one failed child.          *)
LEMMA FailBuildStep == JobInv /\ FailBuild => JobInv'
<1> SUFFICES ASSUME JobInv, FailBuild PROVE JobInv'
  OBVIOUS
<1>1. job # Idle /\ job.todo # <<>> /\ UNCHANGED <<scenario, crate, script>>
  BY DEF FailBuild, Running, project
<1>2. CASE job.entry.kind \in {"suite", "benchmark"}
  <2> DEFINE r == [job EXCEPT !.code = ExitCode.Error, !.whole = FALSE]
  <2>1. reports' = Append(reports, r) /\ job' = Idle
    BY <1>2 DEF FailBuild
  <2>2. IsRecord(job)
    BY <1>1 DEF JobInv, InHand, Sound
  <2>3. {"code", "whole"} \subseteq DOMAIN job
    BY <2>2 DEF IsRecord
  <2>4. r.whole = FALSE /\ r.code = 3
    BY <2>3 DEF ExitCode
  <2> HIDE DEF r
  <2>5. Ended(r)
    BY <2>4, Unfinished
  <2>6. PICK rest, hand : rest = script' /\ hand = job'
    OBVIOUS
  <2>7. ToDo(rest) /\ InHand(hand)
    BY <1>1, <2>1, <2>6 DEF JobInv, InHand
  <2> QED BY <1>1, <2>1, <2>5, <2>6, <2>7, JobReports
<1>3. CASE job.entry.kind \notin {"suite", "benchmark"}
  <2> DEFINE done == MessageExit(files)
  <2>1. job' = After(done, ExitCode.Error) /\ UNCHANGED reports
    BY <1>3 DEF FailBuild
  <2>2. done.code = 3 /\ ExitCode.Error = 3
    BY MessageCode DEF ExitCode
  <2>3. ToExitCode(3) = 3
    BY DEF ToExitCode
  <2> HIDE DEF done
  <2> QED BY <1>1, <1>3, <2>1, <2>2, <2>3, ChildStep
<1> QED BY <1>2, <1>3

(* EndJob: nothing is left to run.                                         *)
LEMMA EndJobStep == JobInv /\ EndJob => JobInv'
<1> SUFFICES ASSUME JobInv, EndJob PROVE JobInv'
  OBVIOUS
<1>1. /\ job # Idle /\ job.todo = <<>> /\ reports' = Append(reports, job) /\ job' = Idle
      /\ UNCHANGED <<scenario, crate, script>>
  BY DEF EndJob, project
<1>2. job.whole = TRUE /\ Sound(job)
  BY <1>1 DEF JobInv, InHand
<1>3. Ended(job)
  BY <1>1, <1>2 DEF Ended
<1>4. PICK rest, hand : rest = script' /\ hand = job'
  OBVIOUS
<1>5. ToDo(rest) /\ InHand(hand)
  BY <1>1, <1>4 DEF JobInv, InHand
<1> QED BY <1>1, <1>3, <1>4, <1>5, JobReports

(* The terminal, action by action.                                         *)
LEMMA TerminalStep == JobInv /\ WorkTerminal => JobInv'
BY StartCommandsStep, RefuseSuiteStep, StartSuiteStep, FetchModelsStep, RegistryStep, FailBuildStep,
   FileChildStep, CleanStep, EndJobStep DEF WorkTerminal

(* The developer saves, the terminal rests.                                *)
LEMMA DeveloperStep == JobInv /\ Develop => JobInv'
<1> SUFFICES ASSUME JobInv, Develop PROVE JobInv'
  OBVIOUS
<1>1. CASE SaveCrate
  <2>1. UNCHANGED <<scenario, terminal>> /\ crate' \in Here.versions
    BY <1>1 DEF SaveCrate
  <2>2. crate' \in DOMAIN Registries \cup {Broken}
    BY <2>1, HereFacts DEF JobInv
  <2>3. PICK rest, hand, ended : rest = script' /\ hand = job' /\ ended = reports'
    OBVIOUS
  <2>4. script' = script /\ job' = job /\ reports' = reports
    BY <2>1 DEF terminal
  <2>5. ToDo(rest) /\ InHand(hand) /\ AllEnded(ended)
    BY <2>3, <2>4 DEF JobInv
  <2> QED BY <2>1, <2>2, <2>3, <2>5, JobInvAfter
<1>2. CASE SaveFile
  BY <1>2, TerminalRests DEF SaveFile
<1> QED BY <1>1, <1>2 DEF Develop

(* The server never touches the terminal or the crate.                     *)
LEMMA ServerStep == Serve => UNCHANGED <<scenario, crate, terminal>>
<1>1. \A reply, logs : Reply(reply, logs) => UNCHANGED <<scenario, crate, terminal>>
  BY DEF Reply
<1>2. StartServer \/ TakeLine \/ FinishLine \/ StopServer => UNCHANGED <<scenario, crate, terminal>>
  BY DEF StartServer, TakeLine, FinishLine, StopServer, project
<1>3. \A result : CallAnswered(result) => UNCHANGED <<scenario, crate, terminal>>
  BY <1>1 DEF CallAnswered
<1>4. \A result : EndSuite(result) => UNCHANGED <<scenario, crate, terminal>>
  BY <1>3 DEF EndSuite
<1>5. \A next : Proceed(next) => UNCHANGED <<scenario, crate, terminal>>
  BY DEF Proceed, project
<1>6. RefuseMessage \/ Initialize \/ Ping => UNCHANGED <<scenario, crate, terminal>>
  BY <1>1 DEF RefuseMessage, Initialize, Ping
<1>7. SetLevel \/ ListItems \/ ReadItem => UNCHANGED <<scenario, crate, terminal>>
  BY <1>1 DEF SetLevel, ListItems, ReadItem
<1>8. Notify => UNCHANGED <<scenario, crate, terminal>>
  BY DEF Notify, project
<1>9. CallTool => UNCHANGED <<scenario, crate, terminal>>
  BY <1>3 DEF CallTool
<1>10. BeginSuite => UNCHANGED <<scenario, crate, terminal>>
  BY <1>4 DEF BeginSuite, project
<1>11. InspectNext \/ ChooseRuns \/ RunNext \/ ReturnRows => UNCHANGED <<scenario, crate, terminal>>
  BY <1>4, <1>5 DEF InspectNext, ChooseRuns, RunNext, ReturnRows
<1> QED BY <1>2, <1>6, <1>7, <1>8, <1>9, <1>10, <1>11 DEF Serve, HandleMessage

(* Every step of the workspace and of the server.                          *)
LEMMA JobNext == JobInv /\ [Next]_vars => JobInv'
<1>1. JobInv /\ UNCHANGED vars => JobInv'
  BY TerminalRests DEF vars, project
<1> QED BY <1>1, TerminalStep, DeveloperStep, ServerStep, TerminalRests DEF Next, Work

(* At first nothing runs and nothing is reported.                          *)
LEMMA JobInit == Init => JobInv
<1> SUFFICES ASSUME Init PROVE JobInv
  OBVIOUS
<1>1. /\ scenario \in DOMAIN Scenarios /\ crate = Here.crate /\ script = Here.script
      /\ job = Idle /\ reports = <<>>
  BY DEF Init, WInit
<1>2. crate \in DOMAIN Registries \cup {Broken} /\ IsSequence(script)
  BY <1>1, HereFacts
<1>3. ToDo(script)
  <2>1. DOMAIN script = 1..Len(script)
    BY <1>2 DEF IsSequence
  <2> QED BY <1>1, <1>2, <2>1 DEF ToDo, ToSet
<1>4. InHand(job)
  BY <1>1 DEF InHand
<1>5. AllEnded(reports)
  BY <1>1, NoneIsSequence DEF AllEnded
<1> QED BY <1>1, <1>2, <1>3, <1>4, <1>5 DEF JobInv

(* The invariant.                                                          *)
LEMMA JobsStaySound == Spec => []JobInv
BY JobInit, JobNext, PTL DEF Spec

(* The reports of jobs that ended.                                         *)
LEMMA ReportFacts ==
  ASSUME JobInv, NEW i \in DOMAIN reports
  PROVE  Ended(reports[i])
<1>1. DOMAIN reports = 1..Len(reports)
  BY DEF JobInv, AllEnded, IsSequence
<1> QED BY <1>1 DEF JobInv, AllEnded

(* What it says of a report that is whole.                                 *)
LEMMA EndedInTurn ==
  ASSUME NEW r, Ended(r), r.whole = TRUE
  PROVE  LET codes == ToSet(Exits(r))
             intended == IF r.entry.kind \in {"command", "batch"} THEN r.entry.operations ELSE <<>>
         IN  /\ r.code = (IF 3 \in codes THEN 3 ELSE IF 1 \in codes THEN 1 ELSE IF 2 \in codes THEN 2 ELSE 0)
             /\ intended # <<>> =>
                  /\ \A i \in DOMAIN r.done : r.done[i].args = intended[i]
                  /\ Len(r.done) < Len(intended) =>
                       /\ r.entry.kind = "batch" /\ ~r.entry.continue
                       /\ \A i \in DOMAIN r.done : (i = Len(r.done)) = (Exits(r)[i] # 0)
<1>1. r.todo = <<>> /\ Sound(r)
  BY DEF Ended
<1>2. Weighed(r) /\ InTurn(r) /\ IsRecord(r)
  BY <1>1 DEF Sound
<1>3. r.code = WorstOf(ToSet(Exits(r)))
  BY <1>2 DEF Weighed
<1>4. IsSequence(r.done)
  BY <1>2 DEF IsRecord
<1>5. DOMAIN r.done = 1..Len(r.done) /\ Len(r.done) \in Nat
  BY <1>4 DEF IsSequence
<1>6. ASSUME r.entry.kind \in {"command", "batch"}
      PROVE  /\ \A i \in 1..Len(r.done) : r.done[i].args = r.entry.operations[i]
             /\ Len(r.done) < Len(r.entry.operations) =>
                  /\ r.entry.kind = "batch" /\ ~r.entry.continue
                  /\ \A i \in 1..Len(r.done) : (i = Len(r.done)) = (Exits(r)[i] # 0)
  <2>1. Operations(r) = r.entry.operations
    BY <1>6 DEF Operations
  <2>2. CASE Onward(r)
    <3>1. Len(r.done) + 0 = Len(r.entry.operations)
      BY <1>1, <2>1, <2>2, NoneIsSequence DEF Onward
    <3>2. ~(Len(r.done) < Len(r.entry.operations))
      BY <1>5, <3>1
    <3> QED BY <1>2, <1>6, <2>1, <3>2 DEF InTurn
  <2>3. CASE Halted(r)
    BY <1>2, <1>6, <2>1, <2>3 DEF InTurn, Halted, StopsAtFailure
  <2> QED BY <1>2, <1>6, <2>2, <2>3 DEF InTurn
<1>7. CASE r.entry.kind \in {"command", "batch"}
  BY <1>3, <1>5, <1>6, <1>7 DEF WorstOf
<1>8. CASE r.entry.kind \notin {"command", "batch"}
  BY <1>3, <1>8 DEF WorstOf
<1> QED BY <1>7, <1>8

(* A script that runs valid or cargo valid sees, of a job whose report is  *)
(* whole, the code of its worst child; a batch that stopped early stopped  *)
(* at its first child that was no success.                                 *)
THEOREM WorstChild == Spec => []WorstChildDecides
<1>1. JobInv => WorstChildDecides
  <2> SUFFICES ASSUME JobInv PROVE WorstChildDecides
    OBVIOUS
  <2>1. \A j \in DOMAIN reports : reports[j].whole => reports[j].whole = TRUE
    BY ReportFacts DEF Ended
  <2> QED BY <2>1, ReportFacts, EndedInTurn DEF WorstChildDecides
<1> QED BY <1>1, JobsStaySound, PTL

(* A suite that ended with 0 has nothing left to check.                    *)
LEMMA EndedPassed ==
  ASSUME NEW r, Ended(r), r.entry.kind = "suite", r.code = 0, NEW pair \in Promised(r.entry)
  PROVE  \E i \in DOMAIN r.done : Passed(r.done[i], pair)
<1>1. r.todo = <<>> /\ Sound(r)
  BY DEF Ended
<1>2. NoneForgotten(r) /\ IsRecord(r)
  BY <1>1 DEF Sound
<1>3. IsSequence(r.done)
  BY <1>2 DEF IsRecord
<1>4. DOMAIN r.done = 1..Len(r.done)
  BY <1>3 DEF IsSequence
<1>5. 1..Len(r.todo) = {}
  BY <1>1, NoneIsSequence
<1> QED BY <1>2, <1>4, <1>5 DEF NoneForgotten

(* A suite that exits with 0 has seen every pair it promised pass, each in *)
(* the version of the crate that was saved when its child ran.             *)
THEOREM SuitePasses == Spec => []SuiteMeansPass
<1>1. JobInv => SuiteMeansPass
  BY ReportFacts, EndedPassed DEF SuiteMeansPass, Passed
<1> QED BY <1>1, JobsStaySound, PTL

-------------------------------------------------------------------------------
(* What differs at a path.                                                 *)
Differs(before, after, p) == ReadFile(before, p) # ReadFile(after, p)

(* A file that is written is the only one that changes.                    *)
LEMMA WrittenDiffers ==
  ASSUME NEW left, NEW path, NEW content, NEW p, Differs(left, Written(left, path, content), p)
  PROVE  p = path
<1>1. Written(left, path, content) = [q \in DOMAIN left \cup {path} |-> IF q = path THEN content ELSE left[q]]
  BY DEF Written
<1> DEFINE after == Written(left, path, content)
<1>2. DOMAIN after = DOMAIN left \cup {path}
  BY <1>1
<1>3. ASSUME p # path PROVE ReadFile(after, p) = ReadFile(left, p)
  <2>1. p \in DOMAIN after <=> p \in DOMAIN left
    BY <1>2, <1>3
  <2>2. p \in DOMAIN left => after[p] = left[p]
    BY <1>1, <1>3
  <2> HIDE DEF after
  <2> QED BY <2>1, <2>2 DEF ReadFile
<1> HIDE DEF after
<1> QED BY <1>3 DEF Differs, after

(* Generated tests go to their directory.                                  *)
LEMMA TestsDiffer ==
  ASSUME NEW left, NEW vectors, NEW p, Differs(left, WriteGeneratedTests(left, vectors), p)
  PROVE  p[1] = "generated-tests"
<1> DEFINE paths == {<<"generated-tests", vectors[i].id>> : i \in DOMAIN vectors}
           after == WriteGeneratedTests(left, vectors)
<1>1. after = [q \in DOMAIN left \cup paths |-> IF q \in paths THEN q[2] ELSE left[q]]
  BY DEF WriteGeneratedTests
<1>2. \A q \in paths : q[1] = "generated-tests"
  OBVIOUS
<1> HIDE DEF paths, after
<1>3. ASSUME p \notin paths PROVE ReadFile(after, p) = ReadFile(left, p)
  <2>1. p \in DOMAIN after <=> p \in DOMAIN left
    BY <1>1, <1>3
  <2>2. p \in DOMAIN left => after[p] = left[p]
    BY <1>1, <1>3
  <2> QED BY <2>1, <2>2 DEF ReadFile
<1> QED BY <1>2, <1>3 DEF Differs, after

(* Files that are as they were differ nowhere.                             *)
LEMMA NothingDiffers == \A left, p : ~Differs(left, left, p)
BY DEF Differs

(* Of two steps, one makes the difference.                                 *)
LEMMA OneDiffers ==
  ASSUME NEW before, NEW between, NEW after, NEW p, Differs(before, after, p)
  PROVE  Differs(before, between, p) \/ Differs(between, after, p)
BY DEF Differs

(* A command that checks or writes what it generates writes only where it  *)
(* was told to.                                                            *)
LEMMA CheckOrWriteDiffers ==
  ASSUME NEW drift, NEW generated, NEW path, NEW a, NEW left, NEW p,
         Differs(left, CheckOrWrite(drift, generated, path, a, left).files, p)
  PROVE  a.write # None /\ ~a.check /\ p = path
<1>1. CheckOrWrite(drift, generated, path, a, left) =
        IF a.check THEN Done(IF drift = {} THEN ExitCode.Success ELSE ExitCode.Unknown, drift, left)
        ELSE IF a.write # None THEN Done(0, generated, Written(left, path, generated))
        ELSE Done(0, generated, left)
  BY DEF CheckOrWrite
<1>2. CASE a.check
  BY <1>1, <1>2, DoneCode, NothingDiffers
<1>3. CASE ~a.check /\ a.write = None
  BY <1>1, <1>3, DoneCode, NothingDiffers
<1>4. CASE ~a.check /\ a.write # None
  <2>1. CheckOrWrite(drift, generated, path, a, left).files = Written(left, path, generated)
    BY <1>1, <1>4, DoneCode
  <2> QED BY <1>4, <2>1, WrittenDiffers
<1> QED BY <1>2, <1>3, <1>4

(* The file --write names: its own path, or the default under artifacts.   *)
Named(a, p) == IF a.write = DefaultPath THEN p[1] = "artifacts" ELSE p = a.write

(* OutputPath is such a file.                                              *)
LEMMA NamedPath ==
  ASSUME NEW a, a.write # None, NEW default, default[1] = "artifacts"
  PROVE  Named(a, OutputPath(a.write, default))
BY DEF Named, OutputPath

(* MayChange, command by command.                                          *)
LEMMA Permits ==
  ASSUME NEW a, NEW p
  PROVE  /\ a.command \in {"testgen", "handoff"} /\ p[1] = "generated-tests" => MayChange(a, p)
         /\ a.command \in {"doc", "handoff"} /\ a.write # None /\ ~a.check /\ Named(a, p) => MayChange(a, p)
         /\ a.command = "migrate" /\ a.write # None /\ Named(a, p) => MayChange(a, p)
         /\ a.command = "benchmark" /\ a.baseline = "record" /\ p[1] = "artifacts" => MayChange(a, p)
         /\ a.command = "contract" /\ a.sub = "lock" /\ p = OutputPath(a.write, LockPath) => MayChange(a, p)
BY DEF MayChange, Named

(* doc and handoff, of the registry and of a model file.                   *)
LEMMA DocDiffers ==
  ASSUME NEW m, NEW source, NEW contract, NEW a, NEW left, NEW p, a.command = "doc",
         Differs(left, DocCommand(m, source, contract, a, left).files, p)
  PROVE  MayChange(a, p)
<1> DEFINE path == OutputPath(a.write, DocPath(m.id))
<1>1. a.write # None /\ ~a.check /\ p = path
  BY CheckOrWriteDiffers DEF DocCommand
<1>2. DocPath(m.id)[1] = "artifacts"
  BY DEF DocPath
<1>3. Named(a, path)
  BY <1>1, <1>2, NamedPath
<1> QED BY <1>1, <1>3, Permits

(* A handoff may write tests before it checks or writes its own file.      *)
LEMMA HandoffDiffers ==
  ASSUME NEW m, NEW runs, NEW explained, NEW source, NEW contract, NEW testgen, NEW a, NEW left, NEW p,
         a.command = "handoff",
         Differs(left, HandoffCommand(m, runs, explained, source, contract, testgen, a, left).files, p)
  PROVE  MayChange(a, p)
<1> DEFINE path == OutputPath(a.write, HandoffPath(m.id))
           generated == GenerateHandoff(m, runs, explained, source, contract, a.property, testgen)
           vectors == m.vectors[a.property]
           tested == IF testgen THEN WriteGeneratedTests(left, vectors) ELSE left
           drift == HandoffDrift(ReadFile(tested, path), generated)
<1>1. HandoffCommand(m, runs, explained, source, contract, testgen, a, left) =
        CheckOrWrite(drift, generated, path, a, tested)
  BY DEF HandoffCommand
<1> HIDE DEF drift, generated, vectors
<1>2. CASE Differs(left, tested, p)
  <2>1. p[1] = "generated-tests"
    BY <1>2, TestsDiffer, NothingDiffers
  <2> QED BY <2>1, Permits
<1>3. CASE Differs(tested, CheckOrWrite(drift, generated, path, a, tested).files, p)
  <2> HIDE DEF tested, path
  <2>1. a.write # None /\ ~a.check /\ p = path
    BY <1>3, CheckOrWriteDiffers
  <2>2. HandoffPath(m.id)[1] = "artifacts"
    BY DEF HandoffPath
  <2>3. Named(a, path)
    BY <2>1, <2>2, NamedPath DEF path
  <2> QED BY <2>1, <2>3, Permits
<1> HIDE DEF tested, path
<1> QED BY <1>1, <1>2, <1>3, OneDiffers

-------------------------------------------------------------------------------
(* The commands that leave every file as it was.                           *)
LEMMA QuietFailureGraph ==
  ASSUME NEW m, NEW verdict, NEW property, NEW left
  PROVE  FailureGraph(m, verdict, property, left).files = left
<1>1. FailureGraph(m, verdict, property, left) =
        IF property # None /\ verdict = "panic" THEN Panic(left)
        ELSE IF property # None /\ verdict \notin {"panic", "ERROR"} /\ property \in m.traced
               THEN Done(0, <<Mermaid(m), property>>, left)
        ELSE MessageExit(left)
  BY DEF FailureGraph
<1> QED BY <1>1, DoneCode, MessageCode, PanicCode

(* Those of the registry binary.                                           *)
LEMMA QuietCommands ==
  ASSUME NEW m, NEW a, NEW left
  PROVE  /\ CmdInspect(m, left).files = left /\ CmdLint(m, left).files = left
         /\ CmdExplain(m, left).files = left /\ CmdCoverage(m, left).files = left
         /\ CmdOrchestrate(m, a, left).files = left
         /\ CmdGraph(m, a, left).files = left /\ CmdCheck(m, a, left).files = left
         /\ CmdReplay(m, a, left).files = left
<1>1. /\ CmdInspect(m, left).files = left /\ CmdLint(m, left).files = left
      /\ CmdExplain(m, left).files = left /\ CmdCoverage(m, left).files = left
      /\ CmdOrchestrate(m, a, left).files = left
  BY DoneCode, MessageCode DEF CmdInspect, CmdLint, CmdExplain, CmdCoverage, CmdOrchestrate
<1>3. CmdGraph(m, a, left).files = left
  BY QuietFailureGraph, DoneCode DEF CmdGraph
<1>4. CmdCheck(m, a, left).files = left
  <2> DEFINE verdict == CheckMachine(m, Adapter(a), a.property)
             report == OutcomeJson(m.name, PropertyOrFirst(m, a.property), verdict)
  <2>1. CmdCheck(m, a, left) =
          IF verdict = "panic" THEN Panic(left) ELSE IF verdict = "refused" THEN MessageExit(left)
          ELSE Done(FromCheckOutcome(verdict), report, left)
    BY DEF CmdCheck
  <2> HIDE DEF verdict, report
  <2> QED BY <2>1, DoneCode, MessageCode, PanicCode
<1>5. CmdReplay(m, a, left).files = left
  <2>1. CmdReplay(m, a, left) =
          IF a.property \notin PropertyIds(m) \cup {None} THEN Panic(left)
          ELSE IF a.actions \in m.walks THEN Done(0, a.actions, left) ELSE MessageExit(left)
    BY DEF CmdReplay
  <2> QED BY <2>1, DoneCode, MessageCode, PanicCode
<1> QED BY <1>1, <1>3, <1>4, <1>5

(* The commands of the registry binary that change files, one by one.      *)
LEMMA CmdHandoffDiffers ==
  ASSUME NEW m, NEW a, NEW left, NEW p, a.command = "handoff", Differs(left, CmdHandoff(m, a, left).files, p)
  PROVE  MayChange(a, p)
<1> DEFINE engine == Adapter(a)  first == m.properties[1].id  contract == ContractHash(m, <<m.name>>)
           explained == {first} \cap m.traced \cap
                          (IF a.property = None THEN PropertyIds(m) ELSE {a.property})
           handed == HandoffCommand(m, Orchestrate(m, engine), explained, <<m.name, contract>>,
                                    contract, TRUE, a, left)
<1>1. CmdHandoff(m, a, left) =
        IF ~Orchestrates(m, engine) THEN MessageExit(left)
        ELSE IF a.property \notin PropertyIds(m) \cup {None} THEN Panic(left)
        ELSE handed
  BY DEF CmdHandoff
<1>2. Differs(left, handed.files, p) => MayChange(a, p)
  BY HandoffDiffers
<1> HIDE DEF handed
<1> QED BY <1>1, <1>2, MessageCode, PanicCode, NothingDiffers

(* benchmark records a baseline, if it is told to.                         *)
LEMMA CmdBenchmarkDiffers ==
  ASSUME NEW m, NEW a, NEW left, NEW p, a.command = "benchmark",
         Differs(left, CmdBenchmark(m, a, left).files, p)
  PROVE  MayChange(a, p)
<1> DEFINE verdict == CheckMachine(m, Adapter(a), a.property)
           summary == BenchmarkSummary(m, verdict, a.elapsed)
           path == BaselinePath(m, a)
           after == BaselineOutputs(summary, a.baseline, a.percent, path, left)
           exit == BenchmarkExit(verdict, a.baseline, after.regression)
<1>1. CmdBenchmark(m, a, left) =
        IF verdict = "panic" THEN Panic(left) ELSE IF verdict = "refused" THEN MessageExit(left)
        ELSE Done(exit, summary, after.files)
  BY DEF CmdBenchmark
<1>2. path[1] = "artifacts"
  BY DEF BaselinePath
<1> HIDE DEF summary, path, exit
<1>3. after.files = IF a.baseline = "record" THEN Written(left, path, summary) ELSE left
  BY DEF BaselineOutputs
<1> HIDE DEF after, verdict
<1>4. Differs(left, after.files, p)
  BY <1>1, DoneCode, MessageCode, PanicCode, NothingDiffers
<1>5. a.baseline = "record" /\ p = path
  BY <1>3, <1>4, WrittenDiffers, NothingDiffers
<1> QED BY <1>2, <1>5, Permits

(* migrate writes what it was told to write, checked or not.               *)
LEMMA CmdMigrateDiffers ==
  ASSUME NEW m, NEW a, NEW left, NEW p, a.command = "migrate", Differs(left, CmdMigrate(m, a, left).files, p)
  PROVE  MayChange(a, p)
<1> DEFINE default == <<"artifacts", "migration", m.name>>  path == OutputPath(a.write, default)
<1>1. CmdMigrate(m, a, left).files = IF a.write = None THEN left ELSE Written(left, path, m.snippets)
  BY DoneCode DEF CmdMigrate
<1>2. default[1] = "artifacts"
  OBVIOUS
<1> HIDE DEF default
<1>3. a.write # None => Named(a, path)
  BY <1>2, NamedPath
<1> HIDE DEF path
<1>4. a.write # None /\ p = path
  BY <1>1, WrittenDiffers, NothingDiffers
<1> QED BY <1>3, <1>4, Permits

(* testgen writes tests.                                                   *)
LEMMA CmdTestgenDiffers ==
  ASSUME NEW m, NEW a, NEW left, NEW p, a.command = "testgen", Differs(left, CmdTestgen(m, a, left).files, p)
  PROVE  MayChange(a, p)
<1> DEFINE vectors == m.vectors[a.property]
<1>1. CmdTestgen(m, a, left) = IF a.property \in PropertyIds(m) \cup {None}
                                 THEN Done(0, vectors, WriteGeneratedTests(left, vectors)) ELSE Panic(left)
  BY DEF CmdTestgen
<1> HIDE DEF vectors
<1>2. Differs(left, WriteGeneratedTests(left, vectors), p)
  BY <1>1, DoneCode, PanicCode, NothingDiffers
<1> QED BY <1>2, TestsDiffer, Permits

(* Of the contract commands only lock writes.                              *)
LEMMA CmdContractDiffers ==
  ASSUME NEW models, NEW config, NEW a, NEW left, NEW p, a.command = "contract",
         Differs(left, CmdContract(models, config, a, left).files, p)
  PROVE  MayChange(a, p)
<1> DEFINE snapshots == [i \in DOMAIN models |-> SnapshotModel(models[i])]
           path == OutputPath(a.write, LockPath)
           lock == ReadFile(left, path)
           reports_ == [i \in DOMAIN models |-> DriftReport(lock, snapshots[i])]
           drifted == \E i \in DOMAIN models : reports_[i].status # "unchanged"
           advice == [i \in DOMAIN models |-> RerunRecommendations(config, models[i].id)]
           lowers == \A i \in DOMAIN models : models[i].lowers
           locked == Done(0, LockFile(snapshots), Written(left, path, LockFile(snapshots)))
           compared == IF lock = NoFile \/ lock.form = "corrupt" THEN MessageExit(left)
                       ELSE Done(IF drifted THEN ExitCode.Fail ELSE ExitCode.Success,
                                 [reports |-> reports_, advice |-> advice], left)
           snapped == Done(0, snapshots, left)
<1>1. CmdContract(models, config, a, left) =
        CASE ~lowers -> MessageExit(left)
          [] lowers /\ a.sub = "snapshot" -> snapped
          [] lowers /\ a.sub = "lock" -> locked
          [] lowers /\ a.sub = "drift" -> compared
          [] OTHER -> MessageExit(left)
  BY DEF CmdContract
<1>2. snapped.files = left /\ compared.files = left /\ MessageExit(left).files = left
  BY DoneCode, MessageCode
<1>3. locked.files = Written(left, path, LockFile(snapshots))
  BY DoneCode
<1>4. Differs(left, locked.files, p) => p = path
  BY <1>3, WrittenDiffers
<1>5. lowers \in BOOLEAN
  OBVIOUS
<1> HIDE DEF locked, snapped, compared, lowers, path
<1>6. CmdContract(models, config, a, left) =
        IF ~lowers THEN MessageExit(left) ELSE IF a.sub = "snapshot" THEN snapped
        ELSE IF a.sub = "lock" THEN locked ELSE IF a.sub = "drift" THEN compared ELSE MessageExit(left)
  BY <1>1, <1>5
<1>7. a.sub = "lock" /\ p = path
  BY <1>2, <1>4, <1>6, NothingDiffers
<1> QED BY <1>7, Permits DEF path

(* A command of the registry changes what it may change.                   *)
LEMMA ModelCommandDiffers ==
  ASSUME NEW m, NEW a, NEW left, NEW p, Differs(left, ModelCommand(m, a, left).files, p)
  PROVE  MayChange(a, p)
<1>1. CASE a.command = "doc"
  <2>1. ModelCommand(m, a, left) = CmdDoc(m, a, left)
    BY <1>1 DEF ModelCommand
  <2> QED BY <1>1, <2>1, DocDiffers DEF CmdDoc
<1>2. CASE a.command = "handoff"
  <2>1. ModelCommand(m, a, left) = CmdHandoff(m, a, left)
    BY <1>2 DEF ModelCommand
  <2> QED BY <1>2, <2>1, CmdHandoffDiffers
<1>3. CASE a.command = "benchmark"
  <2>1. ModelCommand(m, a, left) = CmdBenchmark(m, a, left)
    BY <1>3 DEF ModelCommand
  <2> QED BY <1>3, <2>1, CmdBenchmarkDiffers
<1>4. CASE a.command = "migrate"
  <2>1. ModelCommand(m, a, left) = CmdMigrate(m, a, left)
    BY <1>4 DEF ModelCommand
  <2> QED BY <1>4, <2>1, CmdMigrateDiffers
<1>5. CASE a.command = "testgen"
  <2>1. ModelCommand(m, a, left) = CmdTestgen(m, a, left)
    BY <1>5 DEF ModelCommand
  <2> QED BY <1>5, <2>1, CmdTestgenDiffers
<1>6. CASE a.command \notin {"doc", "handoff", "benchmark", "migrate", "testgen"}
  <2> DEFINE others == {"inspect", "graph", "lint", "check", "explain", "coverage", "orchestrate", "replay"}
  <2>2. /\ a.command = "inspect" => ModelCommand(m, a, left) = CmdInspect(m, left)
        /\ a.command = "graph" => ModelCommand(m, a, left) = CmdGraph(m, a, left)
        /\ a.command = "lint" => ModelCommand(m, a, left) = CmdLint(m, left)
        /\ a.command = "check" => ModelCommand(m, a, left) = CmdCheck(m, a, left)
        /\ a.command = "explain" => ModelCommand(m, a, left) = CmdExplain(m, left)
        /\ a.command = "coverage" => ModelCommand(m, a, left) = CmdCoverage(m, left)
        /\ a.command = "orchestrate" => ModelCommand(m, a, left) = CmdOrchestrate(m, a, left)
        /\ a.command = "replay" => ModelCommand(m, a, left) = CmdReplay(m, a, left)
    BY DEF ModelCommand
  <2>3. a.command \notin others => ModelCommand(m, a, left) = MessageExit(left)
    BY <1>6 DEF ModelCommand
  <2>4. /\ CmdInspect(m, left).files = left /\ CmdGraph(m, a, left).files = left
        /\ CmdLint(m, left).files = left /\ CmdCheck(m, a, left).files = left
        /\ CmdExplain(m, left).files = left /\ CmdCoverage(m, left).files = left
        /\ CmdOrchestrate(m, a, left).files = left /\ CmdReplay(m, a, left).files = left
        /\ MessageExit(left).files = left
    BY QuietCommands, MessageCode
  <2>1. ModelCommand(m, a, left).files = left
    BY <2>2, <2>3, <2>4
  <2> QED BY <2>1, NothingDiffers
<1> QED BY <1>1, <1>2, <1>3, <1>4, <1>5, <1>6

(* The registry binary changes a file only if the command it runs may.     *)
LEMMA RegistryDiffers ==
  ASSUME NEW models, NEW config, NEW a, NEW left, NEW p, Differs(left, RegistryCli(models, config, a, left).files, p)
  PROVE  MayChange(a, p)
<1> DEFINE found == FindModel(models, a.model)
<1>1. CASE a.command = "list"
  <2>1. RegistryCli(models, config, a, left).files = left
    BY <1>1, DoneCode DEF RegistryCli, CmdList
  <2> QED BY <2>1, NothingDiffers
<1>2. CASE a.command = "contract"
  <2>1. RegistryCli(models, config, a, left) = CmdContract(models, config, a, left)
    BY <1>2 DEF RegistryCli
  <2> QED BY <1>2, <2>1, CmdContractDiffers
<1>3. CASE a.command \notin {"list", "contract"}
  <2>1. RegistryCli(models, config, a, left) =
          IF found = <<>> THEN MessageExit(left) ELSE ModelCommand(found[1], a, left)
    BY <1>3 DEF RegistryCli
  <2> HIDE DEF found
  <2> QED BY <2>1, ModelCommandDiffers, MessageCode, NothingDiffers
<1> QED BY <1>1, <1>2, <1>3

-------------------------------------------------------------------------------
(* The commands on a model file.                                           *)
LEMMA QuietOnFiles ==
  ASSUME NEW m, NEW a, NEW left
  PROVE  /\ FileCheck(m, a, left).files = left /\ FileExplain(m, a, left).files = left
         /\ FileTrace(m, a, left).files = left /\ FileGraph(m, a, left).files = left
         /\ FileReplay(m, a, left).files = left /\ FileOrchestrate(m, a, left).files = left
         /\ FileCoverage(m, a, left).files = left
<1>1. FileCheck(m, a, left).files = left
  BY DoneCode DEF FileCheck, CheckAnswer
<1>2. /\ FileExplain(m, a, left).files = left /\ FileTrace(m, a, left).files = left
      /\ FileReplay(m, a, left).files = left /\ FileOrchestrate(m, a, left).files = left
      /\ FileCoverage(m, a, left).files = left
  BY DoneCode, MessageCode DEF FileExplain, FileTrace, FileReplay, FileOrchestrate, FileCoverage
<1>3. FileGraph(m, a, left).files = left
  BY DoneCode, QuietFailureGraph DEF FileGraph
<1> QED BY <1>1, <1>2, <1>3

(* handoff of a model file.                                                *)
LEMMA FileHandoffDiffers ==
  ASSUME NEW source, NEW a, NEW left, NEW p, a.command = "handoff",
         Differs(left, FileHandoff(source, a, left).files, p)
  PROVE  MayChange(a, p)
<1> DEFINE m == source.model
           engine == Adapter(a)
           selected == IF a.property = None THEN PropertyIds(m) ELSE {a.property}
           explained == UNION {Explained(m, engine, q) : q \in selected}
           refused == engine = "refused" \/ (~Generates(m, engine, a.property) /\ m.traced \cup m.initial = {})
           handed == HandoffCommand(m, OrchestrateSource(m, engine), explained, SourceHash(source),
                                    SnapshotModel(m).contract_hash, Generates(m, engine, a.property), a, left)
<1>1. FileHandoff(source, a, left) = IF refused THEN MessageExit(left) ELSE handed
  BY DEF FileHandoff
<1>2. Differs(left, handed.files, p) => MayChange(a, p)
  BY HandoffDiffers
<1> HIDE DEF handed, refused
<1> QED BY <1>1, <1>2, MessageCode, NothingDiffers

(* contract lock of a model file.                                          *)
LEMMA FileContractDiffers ==
  ASSUME NEW m, NEW config, NEW a, NEW left, NEW p, a.command = "contract",
         Differs(left, FileContract(m, config, a, left).files, p)
  PROVE  MayChange(a, p)
<1> DEFINE snapshot == SnapshotModel(m)
           path == OutputPath(a.write, LockPath)
           lock == ReadFile(left, path)
           expected == EntryOf(lock, m.id)
           drift == CompareSnapshot(expected[1], snapshot)
           report == [reports |-> <<drift>>, advice |-> <<RerunRecommendations(config, m.id)>>]
           locked == Done(0, LockFile(<<snapshot>>), Written(left, path, LockFile(<<snapshot>>)))
           reported == Done(IF drift.status = "unchanged" THEN ExitCode.Success ELSE ExitCode.Fail,
                            report, left)
           snapped == Done(0, snapshot, left)
           compared == IF lock.form = "corrupt" \/ expected = <<>> THEN MessageExit(left) ELSE reported
<1>1. FileContract(m, config, a, left) =
        CASE a.sub = "snapshot" -> snapped
          [] a.sub = "lock" -> locked
          [] a.sub = "drift" /\ a.write # None /\ lock # NoFile -> compared
          [] OTHER -> MessageExit(left)
  BY DEF FileContract
<1>2. snapped.files = left /\ compared.files = left /\ MessageExit(left).files = left
  BY MessageCode, DoneCode
<1>3. locked.files = Written(left, path, LockFile(<<snapshot>>))
  BY DoneCode
<1>4. Differs(left, locked.files, p) => p = path
  BY <1>3, WrittenDiffers
<1> HIDE DEF snapped, locked, compared, lock, path
<1>5. FileContract(m, config, a, left) =
        IF a.sub = "snapshot" THEN snapped ELSE IF a.sub = "lock" THEN locked
        ELSE IF a.sub = "drift" /\ a.write # None /\ lock # NoFile THEN compared
        ELSE MessageExit(left)
  BY <1>1
<1>6. a.sub = "lock" /\ p = path
  BY <1>2, <1>4, <1>5, NothingDiffers
<1> QED BY <1>6, Permits DEF path

(* testgen of a model file.                                                *)
LEMMA FileTestgenDiffers ==
  ASSUME NEW m, NEW a, NEW left, NEW p, a.command = "testgen", Differs(left, FileTestgen(m, a, left).files, p)
  PROVE  MayChange(a, p)
<1> DEFINE vectors == m.vectors[a.property]
<1>1. FileTestgen(m, a, left) = IF ~Generates(m, Adapter(a), a.property) THEN MessageExit(left)
                                ELSE Done(0, vectors, WriteGeneratedTests(left, vectors))
  BY DEF FileTestgen
<1> HIDE DEF vectors
<1>2. Differs(left, WriteGeneratedTests(left, vectors), p)
  BY <1>1, DoneCode, MessageCode, NothingDiffers
<1> QED BY <1>2, TestsDiffer, Permits

(* A command on a model file that was read changes a file only if it may.  *)
LEMMA FileCommandDiffers ==
  ASSUME NEW source, NEW config, NEW a, NEW left, NEW p, Differs(left, FileCommand(source, config, a, left).files, p)
  PROVE  MayChange(a, p)
<1> DEFINE m == source.model
<1>1. CASE a.command = "doc"
  <2>1. FileCommand(source, config, a, left) = FileDoc(source, a, left)
    BY <1>1 DEF FileCommand
  <2> QED BY <1>1, <2>1, DocDiffers DEF FileDoc
<1>2. CASE a.command = "handoff"
  <2>1. FileCommand(source, config, a, left) = FileHandoff(source, a, left)
    BY <1>2 DEF FileCommand
  <2> QED BY <1>2, <2>1, FileHandoffDiffers
<1>3. CASE a.command = "contract"
  <2>1. FileCommand(source, config, a, left) = FileContract(m, config, a, left)
    BY <1>3 DEF FileCommand
  <2> QED BY <1>3, <2>1, FileContractDiffers
<1>4. CASE a.command = "testgen"
  <2>1. FileCommand(source, config, a, left) = FileTestgen(m, a, left)
    BY <1>4 DEF FileCommand
  <2> QED BY <1>4, <2>1, FileTestgenDiffers
<1>5. CASE a.command \notin {"doc", "handoff", "contract", "testgen"}
  <2> DEFINE others == {"check", "explain", "trace", "inspect", "graph", "lint", "replay", "orchestrate", "coverage"}
             done == FileCommand(source, config, a, left)
  <2>1. /\ a.command = "check" => done = FileCheck(m, a, left)
        /\ a.command = "explain" => done = FileExplain(m, a, left)
        /\ a.command = "trace" => done = FileTrace(m, a, left)
        /\ a.command = "inspect" => done = CmdInspect(m, left)
        /\ a.command = "graph" => done = FileGraph(m, a, left)
        /\ a.command = "lint" => done = CmdLint(m, left)
        /\ a.command = "replay" => done = FileReplay(m, a, left)
        /\ a.command = "orchestrate" => done = FileOrchestrate(m, a, left)
        /\ a.command = "coverage" => done = FileCoverage(m, a, left)
    BY DEF FileCommand
  <2>2. a.command \notin others => done = MessageExit(left)
    BY <1>5 DEF FileCommand
  <2>3. /\ FileCheck(m, a, left).files = left /\ FileExplain(m, a, left).files = left
        /\ FileTrace(m, a, left).files = left /\ FileGraph(m, a, left).files = left
        /\ FileReplay(m, a, left).files = left /\ FileOrchestrate(m, a, left).files = left
        /\ FileCoverage(m, a, left).files = left
    BY QuietOnFiles
  <2>5. CmdInspect(m, left).files = left /\ CmdLint(m, left).files = left
    BY QuietCommands
  <2>6. MessageExit(left).files = left
    BY MessageCode
  <2> HIDE DEF done
  <2>4. done.files = left
    BY <2>1, <2>2, <2>3, <2>5, <2>6
  <2> QED BY <2>4, NothingDiffers DEF done
<1> QED BY <1>1, <1>2, <1>3, <1>4, <1>5

(* So does valid on a model file, readable or not.                         *)
LEMMA ModelFileDiffers ==
  ASSUME NEW config, NEW a, NEW left, NEW p, Differs(left, ModelFileCli(config, a, left).files, p)
  PROVE  MayChange(a, p)
<1> DEFINE source == ReadFile(left, a.file)
<1>1. ModelFileCli(config, a, left) =
        IF source # NoFile /\ source.form = "broken" /\ a.command = "check"
          THEN CheckAnswer(a, a.property, "ERROR", left)
        ELSE IF source # NoFile /\ source.form = "model" THEN FileCommand(source, config, a, left)
        ELSE MessageExit(left)
  BY DEF ModelFileCli
<1>2. CheckAnswer(a, a.property, "ERROR", left).files = left /\ MessageExit(left).files = left
  BY DoneCode, MessageCode DEF CheckAnswer
<1> HIDE DEF source
<1> QED BY <1>1, <1>2, FileCommandDiffers, NothingDiffers

(* clean removes what is in the directories it was told to clean.          *)
LEMMA CleanDiffers ==
  ASSUME NEW a, NEW left, NEW p, a.command = "clean", Differs(left, CmdClean(a.sub, left).files, p)
  PROVE  MayChange(a, p)
<1> DEFINE directories == CASE a.sub \in {None, "all"} -> {"generated-tests", "artifacts"}
                            [] a.sub \in {"generated", "generated-tests"} -> {"generated-tests"}
                            [] a.sub = "artifacts" -> {"artifacts"}
                            [] OTHER -> {}
           kept == {q \in DOMAIN left : q[1] \notin directories}
           after == [q \in kept |-> left[q]]
<1>1. CmdClean(a.sub, left) = IF directories = {} THEN MessageExit(left) ELSE Done(0, DOMAIN left \ kept, after)
  BY DEF CmdClean
<1>2. \A q : q[1] \in directories =>
        \/ a.sub \in {None, "all", "generated", "generated-tests"} /\ q[1] = "generated-tests"
        \/ a.sub \in {None, "all", "artifacts"} /\ q[1] = "artifacts"
  OBVIOUS
<1> HIDE DEF directories
<1>3. ASSUME p[1] \notin directories PROVE ReadFile(after, p) = ReadFile(left, p)
  <2>1. p \in DOMAIN after <=> p \in DOMAIN left
    BY <1>3
  <2>2. p \in DOMAIN left => after[p] = left[p]
    BY <1>3
  <2> HIDE DEF after
  <2> QED BY <2>1, <2>2 DEF ReadFile
<1> HIDE DEF after, kept
<1>4. p[1] \in directories
  BY <1>1, <1>3, DoneCode, MessageCode, NothingDiffers DEF Differs
<1> QED BY <1>2, <1>4 DEF MayChange

(* What is handed to the registry keeps what decides over files.           *)
LEMMA SameOptions ==
  ASSUME NEW config, NEW a, IsArgs(a), NEW p, MayChange(RegistryArgs(WithDefaults(config, a)), p)
  PROVE  MayChange(a, p)
<1> DEFINE c == WithDefaults(config, a)
           b == RegistryArgs(c)
<1>1. Fields \subseteq DOMAIN a
  BY DEF IsArgs
<1>2. {"command", "write", "check", "baseline", "sub", "property", "backend", "solver"} \subseteq DOMAIN a
  BY <1>1 DEF Fields
<1>3. /\ DOMAIN c = DOMAIN a
      /\ c.command = a.command /\ c.write = a.write /\ c.check = a.check
      /\ c.baseline = a.baseline /\ c.sub = a.sub
  BY <1>2 DEF WithDefaults
<1> HIDE DEF c
<1>4. /\ b.command = c.command /\ b.write = c.write /\ b.check = c.check
      /\ b.baseline = c.baseline /\ b.sub = c.sub
  BY <1>2, <1>3 DEF RegistryArgs
<1> HIDE DEF b
<1>5. /\ b.command = a.command /\ b.write = a.write /\ b.check = a.check
      /\ b.baseline = a.baseline /\ b.sub = a.sub
  BY <1>3, <1>4
<1>6. MayChange(b, p)
  BY DEF b, c
<1> QED BY <1>5, <1>6 DEF MayChange

-------------------------------------------------------------------------------
(* The children of the terminal.                                           *)
TerminalChanges ==
  \A p : Differs(files, files', p) => job' # job /\ MayChange(Head(job.todo), p)

(* A child that has run is one more of its job.                            *)
LEMMA ChildRuns ==
  ASSUME JobInv, Running, NEW done, NEW code, Ran(done, code)
  PROVE  job' # job /\ files' = done.files
<1>1. IsRecord(job) /\ job.todo # <<>>
  BY DEF JobInv, InHand, Sound, Running
<1>2. /\ Len(After(done, code).done) = Len(job.done) + 1
      /\ Len(job.done) \in Nat
  BY <1>1, AfterIs
<1>3. job' = After(done, code) /\ files' = done.files
  BY DEF Ran
<1> QED BY <1>2, <1>3

(* A step of the terminal that changes a file is a child that may.         *)
LEMMA TerminalFiles == JobInv /\ WorkTerminal => TerminalChanges
<1> SUFFICES ASSUME JobInv, WorkTerminal, NEW p, Differs(files, files', p)
             PROVE  job' # job /\ MayChange(Head(job.todo), p)
  BY DEF TerminalChanges
<1> DEFINE a == Head(job.todo)
<1>1. CASE RunRegistryChild
  <2>1. Running /\ Ran(RegistryRun(a), ToExitCode(RegistryRun(a).code))
    BY <1>1 DEF RunRegistryChild
  <2>2. job' # job /\ files' = RegistryRun(a).files
    BY <2>1, ChildRuns
  <2>3. MayChange(RegistryArgs(WithDefaults(Config, a)), p)
    BY <2>2, RegistryDiffers DEF RegistryRun
  <2>4. IsArgs(a)
    BY <2>1, ChildFacts DEF Running
  <2> QED BY <2>2, <2>3, <2>4, SameOptions
<1>2. CASE RunFileChild
  <2> DEFINE done == ModelFileCli(Config, a, files)
  <2>1. Running /\ Ran(done, ToFileExitCode(done.code))
    BY <1>2 DEF RunFileChild
  <2>2. job' # job /\ files' = done.files
    BY <2>1, ChildRuns
  <2> QED BY <2>2, ModelFileDiffers
<1>3. CASE RunClean
  <2> DEFINE done == CmdClean(a.sub, files)
  <2>1. Running /\ Ran(done, ToExitCode(done.code)) /\ a.command = "clean"
    BY <1>3 DEF RunClean
  <2>2. job' # job /\ files' = done.files
    BY <2>1, ChildRuns
  <2> QED BY <2>1, <2>2, CleanDiffers
<1>4. CASE ~(RunRegistryChild \/ RunFileChild \/ RunClean)
  <2>1. files' = files
    BY <1>4 DEF WorkTerminal, StartCommands, RefuseSuite, StartSuite, FetchModels, FailBuild, EndJob, project
  <2> QED BY <2>1, NothingDiffers
<1> QED BY <1>1, <1>2, <1>3, <1>4

-------------------------------------------------------------------------------
(* A tool changes what the command behind it may change.                   *)
LEMMA Modes ==
  ASSUME NEW call, NEW server, NEW left
  PROVE  /\ Resolve(call, server, left).mode \in {"refused", "dsl", "registry"}
         /\ ResolveContract(call, server, left).mode \in {"refused", "dsl", "registry"}
<1>1. \A source, name : DslTarget(source, name).mode \in {"refused", "dsl"}
  BY DEF DslTarget, Refused
<1>2. Refused.mode = "refused" /\ \A model : RegistryTarget(model).mode = "registry"
  BY DEF Refused, RegistryTarget
<1>3. DefaultSource(call, server, left).mode \in {"refused", "dsl"}
  <2> DEFINE path == IF call.file = None THEN server.file ELSE call.file
  <2>1. DefaultSource(call, server, left) =
          IF call.source # None THEN DslTarget(call.source, call.file)
          ELSE IF path = None THEN Refused
          ELSE DslTarget(ReadFile(left, path), path)
    BY DEF DefaultSource
  <2> HIDE DEF path
  <2> QED BY <1>1, <1>2, <2>1
<1> DEFINE registry == call.registry \/ call.model # None
           dsl == call.file # None \/ call.source # None
<1>4. Resolve(call, server, left) =
        IF registry
          THEN IF dsl THEN Refused
               ELSE IF (call.registry \/ server.registry) /\ call.model # None
                      THEN RegistryTarget(call.model) ELSE Refused
          ELSE DefaultSource(call, server, left)
  BY DEF Resolve
<1>5. ResolveContract(call, server, left) =
        IF dsl /\ call.registry THEN Refused
        ELSE IF ~dsl /\ (call.registry \/ server.registry) THEN RegistryTarget(call.model)
        ELSE DefaultSource(call, server, left)
  BY DEF ResolveContract
<1> HIDE DEF registry, dsl
<1>6. Resolve(call, server, left).mode \in {"refused", "dsl", "registry"}
  BY <1>2, <1>3, <1>4
<1>7. ResolveContract(call, server, left).mode \in {"refused", "dsl", "registry"}
  BY <1>2, <1>3, <1>5
<1> QED BY <1>6, <1>7

(* The files of a result.                                                  *)
LEMMA ToolFiles ==
  \A value, left : ToolSuccess(value, left).files = left /\ ToolError(value, left).files = left
BY DEF ToolSuccess, ToolError

(* A tool that runs the registry binary changes what the command may.      *)
LEMMA RegistryToolDiffers ==
  ASSUME NEW args, NEW server, NEW world, NEW success, NEW p,
         Differs(world.files, RegistryToolResult(RunRegistry(args, server, world), success).files, p)
  PROVE  MayChange(args, p)
<1> DEFINE done == RunRegistry(args, server, world)
<1>1. RegistryToolResult(done, success).files = done.files
  BY ToolFiles DEF RegistryToolResult
<1>2. CASE world.models = None
  <2>1. done.files = world.files
    BY <1>2, MessageCode DEF RunRegistry
  <2> QED BY <1>1, <2>1, NothingDiffers
<1>3. CASE world.models # None
  <2>1. done = RegistryCli(world.models, server.config, args, world.files)
    BY <1>3 DEF RunRegistry
  <2> HIDE DEF done
  <2> QED BY <1>1, <2>1, RegistryDiffers DEF done
<1> QED BY <1>2, <1>3

(* So does one that calls the functions behind valid.                      *)
LEMMA DslToolDiffers ==
  ASSUME NEW command, NEW target, NEW call, NEW server, NEW world, NEW p,
         Differs(world.files, DslTool(command, target, call, server, world).files, p)
  PROVE  MayChange([call EXCEPT !.command = command, !.file = target.name], p)
<1> DEFINE args == [call EXCEPT !.command = command, !.file = target.name]
           done == FileCommand(target.source, server.config, args, world.files)
<1>1. DslTool(command, target, call, server, world) =
        IF done.code = ExitCode.Error THEN ToolError(done.out, done.files)
        ELSE ToolSuccess(done.out, done.files)
  BY DEF DslTool
<1> HIDE DEF done
<1>2. DslTool(command, target, call, server, world).files = done.files
  BY <1>1, ToolFiles
<1> HIDE DEF args
<1> QED BY <1>2, FileCommandDiffers DEF done, args

(* The arguments of a command that a call becomes.                         *)
As(command, call) == [call EXCEPT !.command = command]

(* Neither the model nor the file a call names decides what it may change. *)
LEMMA SameCommand ==
  ASSUME NEW call, IsArgs(call), NEW command, NEW value, NEW p,
         \/ MayChange([call EXCEPT !.command = command, !.file = value], p)
         \/ MayChange([call EXCEPT !.command = command, !.model = value], p)
  PROVE  MayChange(As(command, call), p)
<1>1. {"command", "write", "check", "baseline", "sub", "file", "model"} \subseteq DOMAIN call
  BY DEF IsArgs, Fields
<1> DEFINE b == [call EXCEPT !.command = command, !.file = value]
           c == [call EXCEPT !.command = command, !.model = value]
           d == As(command, call)
<1>2. /\ b.command = d.command /\ b.write = d.write /\ b.check = d.check
      /\ b.baseline = d.baseline /\ b.sub = d.sub
  BY <1>1 DEF As
<1>3. /\ c.command = d.command /\ c.write = d.write /\ c.check = d.check
      /\ c.baseline = d.baseline /\ c.sub = d.sub
  BY <1>1 DEF As
<1> HIDE DEF b, c, d
<1>4. MayChange(b, p) \/ MayChange(c, p)
  BY DEF b, c
<1>5. MayChange(d, p)
  BY <1>2, <1>3, <1>4 DEF MayChange
<1> QED BY <1>5 DEF d

(* So does a tool, wherever its call is sent.                              *)
LEMMA ToolDiffers ==
  ASSUME NEW call, IsArgs(call), NEW command, NEW server, NEW world, NEW success, NEW p,
         Differs(world.files, Tool(command, call, server, world, success).files, p)
  PROVE  MayChange(As(command, call), p)
<1> DEFINE target == Resolve(call, server, world.files)
           result == Tool(command, call, server, world, success)
<1>1. target.mode \in {"refused", "dsl", "registry"}
  BY Modes
<1>2. /\ target.mode = "refused" => result = ToolError(None, world.files)
      /\ target.mode = "registry" => result = RegistryTool(command, target, call, server, world, success)
      /\ target.mode = "dsl" =>
           result = IF target.source.form = "broken" THEN ToolError(None, world.files)
                    ELSE DslTool(command, target, call, server, world)
  BY DEF Tool
<1>3. ToolError(None, world.files).files = world.files
  BY ToolFiles
<1> HIDE DEF target
<1>4. CASE result = ToolError(None, world.files)
  BY <1>3, <1>4, NothingDiffers
<1>5. CASE result = RegistryTool(command, target, call, server, world, success)
  <2>1. MayChange([call EXCEPT !.command = command, !.model = target.model], p)
    BY <1>5, RegistryToolDiffers DEF RegistryTool
  <2> QED BY <2>1, SameCommand
<1>6. CASE result = DslTool(command, target, call, server, world)
  <2>1. MayChange([call EXCEPT !.command = command, !.file = target.name], p)
    BY <1>6, DslToolDiffers
  <2> QED BY <2>1, SameCommand
<1> HIDE DEF result
<1> QED BY <1>1, <1>2, <1>4, <1>5, <1>6

(* Of the commands tools stand for, two change files.                      *)
LEMMA ToolCommands ==
  ASSUME NEW call, IsArgs(call), NEW command, NEW p, MayChange(As(command, call), p),
         command \in {"inspect", "check", "explain", "coverage", "testgen", "replay", "lint", "graph"}
  PROVE  command = "testgen" /\ p[1] = "generated-tests"
<1>1. As(command, call).command = command
  BY DEF As, IsArgs, Fields
<1> QED BY <1>1 DEF MayChange

(* The handoff tool hands --write and --check on to no command.            *)
LEMMA HandoffTests ==
  ASSUME NEW call, IsArgs(call), NEW p, MayChange(As("handoff", BackendArgs(call)), p)
  PROVE  p[1] = "generated-tests"
<1> DEFINE a == As("handoff", BackendArgs(call))
<1>1. {"command", "write", "check", "profile"} \subseteq DOMAIN call
  BY DEF IsArgs, Fields
<1>2. a.command = "handoff" /\ a.write = None
  BY <1>1 DEF As, BackendArgs
<1> HIDE DEF a
<1> QED BY <1>2 DEF MayChange, a

(* What is handed on are the arguments of a command.                       *)
LEMMA HandedOn ==
  ASSUME NEW call, IsArgs(call)
  PROVE  /\ IsArgs(BasicArgs(call)) /\ IsArgs(BackendArgs(call))
         /\ IsArgs([call EXCEPT !.backend = None, !.solver = FALSE])
<1>1. {"property", "backend", "solver", "check", "write", "profile"} \subseteq DOMAIN call
  BY DEF IsArgs, Fields
<1>2. Fields \subseteq DOMAIN call /\ call.solver \in BOOLEAN /\ call.check \in BOOLEAN
  BY DEF IsArgs
<1>3. IsArgs(BasicArgs(call))
  <2> DEFINE b == BasicArgs(call)
  <2>1. DOMAIN b = DOMAIN call /\ b.solver = FALSE /\ b.check = call.check
    BY <1>1 DEF BasicArgs
  <2> HIDE DEF b
  <2> QED BY <1>2, <2>1 DEF IsArgs, b
<1>4. IsArgs(BackendArgs(call))
  <2> DEFINE b == BackendArgs(call)
  <2>1. DOMAIN b = DOMAIN call /\ b.solver = call.solver /\ b.check = FALSE
    BY <1>1 DEF BackendArgs
  <2> HIDE DEF b
  <2> QED BY <1>2, <2>1 DEF IsArgs, b
<1>5. IsArgs([call EXCEPT !.backend = None, !.solver = FALSE])
  <2> DEFINE b == [call EXCEPT !.backend = None, !.solver = FALSE]
  <2>1. DOMAIN b = DOMAIN call /\ b.solver = FALSE /\ b.check = call.check
    BY <1>1
  <2> HIDE DEF b
  <2>2. IsArgs(b)
    BY <1>2, <2>1 DEF IsArgs
  <2> QED BY <2>2 DEF b
<1> QED BY <1>3, <1>4, <1>5

(* The tools that report, on contracts, models and documents.              *)
LEMMA QuietTools ==
  ASSUME NEW call, NEW server, NEW world
  PROVE  /\ ContractSnapshotTool(call, server, world).files = world.files
         /\ ContractCheckTool(call, server, world).files = world.files
         /\ DistinguishTool(call, world).files = world.files
         /\ DocsTool(call, world.files).files = world.files
         /\ DslSuiteTool(call, server, world.files).files = world.files
<1> DEFINE target == ResolveContract(call, server, world.files)
<1>1. target.mode \in {"refused", "dsl", "registry"}
  BY Modes
<1>2. \A value, left : ToolSuccess(value, left).files = left /\ ToolError(value, left).files = left
  BY ToolFiles
<1>3. ContractSnapshotTool(call, server, world).files = world.files
  <2> DEFINE result == ContractSnapshotTool(call, server, world)
  <2>1. /\ target.mode = "refused" => \E value : result = ToolError(value, world.files)
        /\ target.mode = "dsl" => \E value : result \in {ToolError(value, world.files), ToolSuccess(value, world.files)}
        /\ target.mode = "registry" => \E value : result \in {ToolError(value, world.files), ToolSuccess(value, world.files)}
    BY DEF ContractSnapshotTool
  <2> HIDE DEF result, target
  <2> QED BY <1>1, <1>2, <2>1 DEF result
<1>4. ContractCheckTool(call, server, world).files = world.files
  <2> DEFINE result == ContractCheckTool(call, server, world)
  <2>1. /\ target.mode = "refused" => \E value : result = ToolError(value, world.files)
        /\ target.mode = "dsl" => result = DslContractCheck(target.source, call, server, world.files)
        /\ target.mode = "registry" => \E value : result \in {ToolError(value, world.files), ToolSuccess(value, world.files)}
    BY DEF ContractCheckTool
  <2>2. DslContractCheck(target.source, call, server, world.files).files = world.files
    BY <1>2 DEF DslContractCheck
  <2> HIDE DEF result, target
  <2> QED BY <1>1, <1>2, <2>1, <2>2 DEF result
<1>5. DistinguishTool(call, world).files = world.files
  BY <1>2 DEF DistinguishTool
<1>6. DocsTool(call, world.files).files = world.files
  BY <1>2 DEF DocsTool
<1>7. DslSuiteTool(call, server, world.files).files = world.files
  BY <1>2 DEF DslSuiteTool, DslSuite
<1> QED BY <1>3, <1>4, <1>5, <1>6, <1>7

(* valid_list_models runs list, which writes nothing.                      *)
LEMMA ListDiffers ==
  ASSUME NEW call, IsArgs(call), NEW server, NEW world, NEW p
  PROVE  ~Differs(world.files, ListModelsTool(call, server, world).files, p)
<1>1. CASE call.registry \/ server.registry
  <2> SUFFICES ASSUME Differs(world.files, ListModelsTool(call, server, world).files, p) PROVE FALSE
    OBVIOUS
  <2>1. MayChange([call EXCEPT !.command = "list"], p)
    BY <1>1, RegistryToolDiffers DEF ListModelsTool
  <2>2. [call EXCEPT !.command = "list"].command = "list"
    BY DEF IsArgs, Fields
  <2> QED BY <2>1, <2>2 DEF MayChange
<1>2. CASE ~(call.registry \/ server.registry)
  BY <1>2, ToolFiles, NothingDiffers DEF ListModelsTool
<1> QED BY <1>1, <1>2

(* A tool that stands for a command, with what it hands on.                *)
LEMMA StandsFor ==
  ASSUME NEW call, IsArgs(call), NEW command, NEW server, NEW world, NEW success, NEW p,
         command \in {"inspect", "check", "explain", "coverage", "testgen", "replay", "lint", "graph"},
         Differs(world.files, Tool(command, call, server, world, success).files, p)
  PROVE  command = "testgen" /\ p[1] = "generated-tests"
BY ToolDiffers, ToolCommands

(* Whatever tool is called, only those of testgen and handoff change a     *)
(* file, and only generated tests.                                         *)
LEMMA CallDiffers ==
  ASSUME NEW tool, NEW call, IsArgs(call), NEW server, NEW world, NEW p,
         Differs(world.files, HandleToolCall(tool, call, server, world).files, p)
  PROVE  tool \in {"valid_testgen", "valid_handoff"} /\ p[1] = "generated-tests"
<1> DEFINE result == HandleToolCall(tool, call, server, world)
           quiet == {"valid_contract_snapshot", "valid_contract_check", "valid_list_models",
                     "valid_distinguish", "valid_docs_get", "valid_example_get"}
           commands == {"valid_inspect", "valid_check", "valid_explain", "valid_coverage",
                        "valid_replay", "valid_lint", "valid_graph"}
<1>1. /\ IsArgs(BasicArgs(call)) /\ IsArgs(BackendArgs(call))
      /\ IsArgs([call EXCEPT !.backend = None, !.solver = FALSE])
  BY HandedOn
<1>2. tool \notin commands
  <2>1. tool = "valid_inspect" => result = InspectTool(call, server, world)
    BY DEF HandleToolCall
  <2>2. tool = "valid_check" => result = CheckTool(call, server, world)
    BY DEF HandleToolCall
  <2>3. tool = "valid_explain" => result = ExplainTool(call, server, world)
    BY DEF HandleToolCall
  <2>4. tool = "valid_coverage" => result = CoverageTool(call, server, world)
    BY DEF HandleToolCall
  <2>5. tool = "valid_replay" => result = ReplayTool(call, server, world)
    BY DEF HandleToolCall
  <2>6. tool = "valid_lint" => result = LintTool(call, server, world)
    BY DEF HandleToolCall
  <2>7. tool = "valid_graph" => result = GraphTool(call, server, world)
    BY DEF HandleToolCall
  <2>8. Differs(world.files, result.files, p)
    OBVIOUS
  <2> HIDE DEF result
  <2>9. tool # "valid_inspect" /\ tool # "valid_lint"
    BY <1>1, <2>1, <2>6, <2>8, StandsFor DEF InspectTool, LintTool
  <2>10. tool # "valid_check" /\ tool # "valid_explain" /\ tool # "valid_coverage"
    BY <1>1, <2>2, <2>3, <2>4, <2>8, StandsFor DEF CheckTool, ExplainTool, CoverageTool
  <2>11. tool # "valid_replay" /\ tool # "valid_graph"
    BY <1>1, <2>5, <2>7, <2>8, StandsFor DEF ReplayTool, GraphTool
  <2> QED BY <2>9, <2>10, <2>11
<1>3. CASE tool = "valid_testgen"
  <2>1. result = TestgenTool(call, server, world)
    BY <1>3 DEF HandleToolCall
  <2> HIDE DEF result
  <2>2. p[1] = "generated-tests"
    BY <1>1, <2>1, StandsFor DEF TestgenTool, result
  <2> QED BY <1>3, <2>2
<1>4. CASE tool = "valid_handoff"
  <2>1. result = HandoffTool(call, server, world)
    BY <1>4 DEF HandleToolCall
  <2>2. Differs(world.files, result.files, p)
    OBVIOUS
  <2> HIDE DEF result
  <2>3. MayChange(As("handoff", BackendArgs(call)), p)
    BY <1>1, <2>1, <2>2, ToolDiffers DEF HandoffTool
  <2> QED BY <1>4, <2>3, HandoffTests
<1>5. tool \notin quiet
  <2>1. tool = "valid_contract_snapshot" => result = ContractSnapshotTool(call, server, world)
    BY DEF HandleToolCall
  <2>2. tool = "valid_contract_check" => result = ContractCheckTool(call, server, world)
    BY DEF HandleToolCall
  <2>3. tool = "valid_list_models" => result = ListModelsTool(call, server, world)
    BY DEF HandleToolCall
  <2>4. tool = "valid_distinguish" => result = DistinguishTool(call, world)
    BY DEF HandleToolCall
  <2>5. tool \in {"valid_docs_get", "valid_example_get"} => result = DocsTool(call, world.files)
    BY DEF HandleToolCall
  <2>6. Differs(world.files, result.files, p)
    OBVIOUS
  <2> HIDE DEF result
  <2>7. tool # "valid_list_models"
    BY <2>3, <2>6, ListDiffers
  <2> QED BY <2>1, <2>2, <2>4, <2>5, <2>6, <2>7, QuietTools, NothingDiffers
<1>6. CASE tool \notin commands \cup quiet \cup {"valid_testgen", "valid_handoff"}
  <2>1. result = ToolError(None, world.files)
    BY <1>6 DEF HandleToolCall
  <2> QED BY <2>1, ToolFiles, NothingDiffers
<1> QED BY <1>2, <1>3, <1>4, <1>5, <1>6

-------------------------------------------------------------------------------
(* The server.                                                             *)
ServerChanges ==
  \A p : Differs(files, files', p) =>
    /\ replies' # replies /\ p[1] = "generated-tests"
    /\ Msg.params.tool \in {"valid_testgen", "valid_handoff"}

(* The message at hand is one of its line.                                 *)
LEMMA MessageCall ==
  ASSUME AnswerInv, scenario \in DOMAIN Scenarios, open, at < Len(Line(taken).messages),
         Msg.method = "tools/call", Msg.params # None
  PROVE  IsArgs(Msg.params.call)
<1>1. taken \in 1..Len(Here.inbox) /\ at \in Nat
  BY DEF AnswerInv, Collected
<1>2. at + 1 \in DOMAIN Line(taken).messages
  BY <1>1, LineShape DEF AnswerInv, Collected
<1>3. Msg \in ToSet(Line(taken).messages)
  BY <1>2 DEF Msg, ToSet
<1>4. Here.inbox \in Seq(ToSet(Here.inbox))
  BY InboxAssumption DEF Here
<1>5. taken \in DOMAIN Here.inbox
  BY <1>1, <1>4
<1> QED BY <1>3, <1>5, InboxAssumption DEF Here, Line

(* An answer is one more reply.                                            *)
LEMMA AnswerAdds ==
  ASSUME AnswerInv, NEW result, CallAnswered(result)
  PROVE  replies' # replies /\ files' = result.files
<1>1. PICK r : replies' = Append(replies, r)
  BY DEF CallAnswered, Reply
<1>2. IsSequence(replies)
  BY DEF AnswerInv, Collected
<1>3. /\ DOMAIN Append(replies, r) = 1..(Len(replies) + 1) /\ DOMAIN replies = 1..Len(replies)
      /\ Len(replies) \in Nat
  BY <1>2, AppendIsSequence
<1>4. Len(replies) + 1 \in DOMAIN Append(replies, r) /\ Len(replies) + 1 \notin DOMAIN replies
  BY <1>3
<1>5. Append(replies, r) # replies
  BY <1>4
<1>6. files' = result.files
  BY DEF CallAnswered
<1> QED BY <1>1, <1>5, <1>6

(* A step of the server that changes a file is a call of one of two tools. *)
LEMMA ServerFiles ==
  ASSUME AnswerInv, scenario \in DOMAIN Scenarios, Serve
  PROVE  ServerChanges
<1> SUFFICES ASSUME NEW p, Differs(files, files', p)
             PROVE  /\ replies' # replies /\ p[1] = "generated-tests"
                    /\ Msg.params.tool \in {"valid_testgen", "valid_handoff"}
  BY DEF ServerChanges
<1>1. CASE CallTool
  <2>1. /\ open /\ at < Len(Line(taken).messages) /\ Msg.method = "tools/call"
    BY <1>1 DEF CallTool, Calls, Requests, Pending
  <2>2. World.files = files
    BY DEF World
  <2>3. CASE Msg.params = None
    <3>1. files' = files
      BY <1>1, <2>3, AnswerAdds, ToolFiles DEF CallTool
    <3> QED BY <3>1, NothingDiffers
  <2>4. CASE Msg.params # None /\ Msg.params.tool = "valid_suite_run"
    <3>1. CallAnswered(DslSuiteTool(Msg.params.call, Server, files))
      BY <1>1, <2>4 DEF CallTool
    <3>2. files' = DslSuiteTool(Msg.params.call, Server, files).files
      BY <3>1, AnswerAdds
    <3>3. DslSuiteTool(Msg.params.call, Server, World.files).files = World.files
      BY QuietTools
    <3> QED BY <2>2, <3>2, <3>3, NothingDiffers
  <2>5. CASE Msg.params # None /\ Msg.params.tool # "valid_suite_run"
    <3> DEFINE result == HandleToolCall(Msg.params.tool, Msg.params.call, Server, World)
    <3>1. CallAnswered(result)
      BY <1>1, <2>5 DEF CallTool
    <3>2. replies' # replies /\ files' = result.files
      BY <3>1, AnswerAdds
    <3>3. IsArgs(Msg.params.call)
      BY <2>1, <2>5, MessageCall
    <3>4. Differs(World.files, result.files, p)
      BY <2>2, <3>2
    <3> QED BY <3>2, <3>3, <3>4, CallDiffers
  <2> QED BY <2>3, <2>4, <2>5
<1>2. CASE ~CallTool
  <2>1. \A reply, logs : Reply(reply, logs) => TRUE
    OBVIOUS
  <2>2. \A result : EndSuite(result) => files' = result.files
    BY AnswerAdds DEF EndSuite
  <2>3. \A next : Proceed(next) => files' = files
    BY DEF Proceed, project
  <2>4. \A value : ToolError(value, files).files = files /\ ToolSuccess(value, files).files = files
    BY ToolFiles
  <2>5. StartServer \/ TakeLine \/ FinishLine \/ StopServer \/ Notify => files' = files
    BY DEF StartServer, TakeLine, FinishLine, StopServer, Notify, project
  <2>6. RefuseMessage \/ Initialize \/ SetLevel \/ Ping \/ ListItems \/ ReadItem => files' = files
    BY DEF RefuseMessage, Initialize, SetLevel, Ping, ListItems, ReadItem
  <2>7. BeginSuite => files' = files
    BY <2>2, <2>4 DEF BeginSuite, project
  <2>8. InspectNext => files' = files
    BY <2>2, <2>3, <2>4 DEF InspectNext
  <2>9. ChooseRuns => files' = files
    BY <2>2, <2>3, <2>4 DEF ChooseRuns
  <2>10. RunNext => files' = files
    BY <2>2, <2>3, <2>4 DEF RunNext
  <2>11. ReturnRows => files' = files
    BY <2>2, <2>4 DEF ReturnRows
  <2>12. files' = files
    BY <1>2, <2>5, <2>6, <2>7, <2>8, <2>9, <2>10, <2>11 DEF Serve, HandleMessage
  <2> QED BY <2>12, NothingDiffers
<1> QED BY <1>1, <1>2

-------------------------------------------------------------------------------
(* The developer: every save is one less of those to come.                 *)
LEMMA EditsInit == Init => edits \in Nat
BY ScriptAssumption DEF Init, WInit, Here

(* Nobody else saves.                                                      *)
LEMMA EditsNext == edits \in Nat /\ [Next]_vars => edits' \in Nat
<1> SUFFICES ASSUME edits \in Nat, [Next]_vars PROVE edits' \in Nat
  OBVIOUS
<1>1. CASE Develop
  BY <1>1 DEF Develop, SaveCrate, SaveFile
<1>2. CASE WorkTerminal
  BY <1>2 DEF WorkTerminal, StartCommands, RefuseSuite, StartSuite, FetchModels, RunRegistryChild,
              FailBuild, RunFileChild, RunClean, EndJob, Ran, project
<1>3. CASE Serve
  <2>1. \A reply, logs : Reply(reply, logs) => edits' = edits
    BY DEF Reply
  <2>2. \A result : CallAnswered(result) => edits' = edits
    BY <2>1 DEF CallAnswered
  <2>3. \A result : EndSuite(result) => edits' = edits
    BY <2>2 DEF EndSuite
  <2>4. \A next : Proceed(next) => edits' = edits
    BY DEF Proceed, project
  <2>5. StartServer \/ TakeLine \/ FinishLine \/ StopServer \/ Notify => edits' = edits
    BY DEF StartServer, TakeLine, FinishLine, StopServer, Notify, project
  <2>6. RefuseMessage \/ Initialize \/ SetLevel \/ Ping \/ ListItems \/ ReadItem => edits' = edits
    BY <2>1 DEF RefuseMessage, Initialize, SetLevel, Ping, ListItems, ReadItem
  <2>7. CallTool \/ BeginSuite => edits' = edits
    BY <2>2, <2>3 DEF CallTool, BeginSuite, project
  <2>8. InspectNext \/ ChooseRuns \/ RunNext \/ ReturnRows => edits' = edits
    BY <2>3, <2>4 DEF InspectNext, ChooseRuns, RunNext, ReturnRows
  <2> QED BY <1>3, <2>5, <2>6, <2>7, <2>8 DEF Serve, HandleMessage
<1>4. CASE UNCHANGED vars
  BY <1>4 DEF vars, project
<1> QED BY <1>1, <1>2, <1>3, <1>4 DEF Next, Work

(* A file the developer changes costs a save.                              *)
LEMMA SavesFiles ==
  ASSUME edits \in Nat, Develop, files' # files
  PROVE  edits' # edits
BY DEF Develop, SaveCrate, SaveFile

(* Every step changes only the files it was asked to change.               *)
LEMMA FilesNext ==
  ASSUME AnswerInv, JobInv, edits \in Nat, [Next]_vars
  PROVE  NamedFilesChange
<1> SUFFICES ASSUME NEW p, Differs(files, files', p)
             PROVE  \/ edits' # edits
                    \/ job' # job /\ MayChange(Head(job.todo), p)
                    \/ /\ replies' # replies /\ p[1] = "generated-tests"
                       /\ Msg.params.tool \in {"valid_testgen", "valid_handoff"}
  BY DEF NamedFilesChange, Differs
<1>1. files' # files
  BY NothingDiffers
<1>2. CASE Develop
  BY <1>1, <1>2, SavesFiles
<1>3. CASE WorkTerminal
  BY <1>3, TerminalFiles DEF TerminalChanges
<1>4. CASE Serve
  BY <1>4, ServerFiles DEF ServerChanges, JobInv
<1>5. CASE UNCHANGED vars
  BY <1>1, <1>5 DEF vars, project
<1> QED BY <1>2, <1>3, <1>4, <1>5 DEF Next, Work

(* What the theorem rests on: who asks for what, and that saves are        *)
(* counted.                                                                *)
FilesInv == AnswerInv /\ JobInv /\ edits \in Nat

(* Every step keeps it, and changes named files only.                      *)
LEMMA FilesInvNext == FilesInv /\ [Next]_vars => FilesInv' /\ [NamedFilesChange]_vars
BY AnswerNext, JobNext, EditsNext, FilesNext DEF FilesInv

(* A step that changes a file is a save of the developer, a child of the   *)
(* terminal whose command may change that file, or a call of valid_testgen *)
(* or valid_handoff that writes a generated test.  No check, report, suite *)
(* or other tool touches anything, and none writes to where it was not     *)
(* told to.                                                                *)
THEOREM NamedFiles == Spec => OnlyNamedFilesChange
<1>1. Init => FilesInv
  BY AnswerInit, JobInit, EditsInit DEF FilesInv
<1> QED BY <1>1, FilesInvNext, PTL DEF Spec, OnlyNamedFilesChange

-------------------------------------------------------------------------------
(* What a check of a version of the crate answers, whoever asks.           *)
Asked(of, a) == PropertyOrFirst(FindModel(Registries[of], a.model)[1], a.property)

Answered(of, a) ==
  LET m == FindModel(Registries[of], a.model)[1]
  IN  OutcomeJson(m.name, Asked(of, a), CheckMachine(m, Adapter(a), a.property))

(* It depends on the version, the model, the property and the engine only. *)
LEMMA OneAnswer ==
  ASSUME NEW of, NEW a, NEW b, a.model = b.model, Adapter(a) = Adapter(b), Asked(of, a) = Asked(of, b)
  PROVE  Answered(of, a) = Answered(of, b)
<1> DEFINE m == FindModel(Registries[of], a.model)[1]
           n == FindModel(Registries[of], b.model)[1]
           engine == Adapter(a)
<1>1. m = n
  OBVIOUS
<1>2. PropertyOrFirst(m, a.property) = PropertyOrFirst(m, b.property)
  BY <1>1 DEF Asked
<1> HIDE DEF m, n, engine
<1>3. CheckMachine(m, engine, a.property) = CheckMachine(m, engine, b.property)
  BY <1>2 DEF CheckMachine
<1>4. OutcomeJson(m.name, Asked(of, a), CheckMachine(m, engine, a.property)) =
      OutcomeJson(n.name, Asked(of, b), CheckMachine(n, engine, b.property))
  BY <1>1, <1>3
<1> QED BY <1>4 DEF Answered, m, n, engine

(* It is about the property that was asked for.                            *)
LEMMA AnswersTheAsked == \A of, a : Answered(of, a).property = Asked(of, a)
BY DEF Answered, OutcomeJson

(* What a run prints.                                                      *)
LEMMA Outs ==
  \A code, value, left : /\ Done(code, value, left).out = value
                         /\ MessageExit(left).out = None /\ Panic(left).out = None
BY DEF Done, MessageExit, Panic

(* A check that prints something prints that answer.                       *)
LEMMA CheckAnswers ==
  ASSUME NEW of, NEW config, NEW a, NEW left, a.command = "check",
         RegistryCli(Registries[of], config, a, left).out # None
  PROVE  RegistryCli(Registries[of], config, a, left).out = Answered(of, a)
<1> DEFINE m == FindModel(Registries[of], a.model)  engine == Adapter(a)
           verdict == CheckMachine(m[1], engine, a.property)
           report == OutcomeJson(m[1].name, PropertyOrFirst(m[1], a.property), verdict)
           done == RegistryCli(Registries[of], config, a, left)
<1>1. done = IF m = <<>> THEN MessageExit(left) ELSE ModelCommand(m[1], a, left)
  BY DEF RegistryCli
<1>2. report = Answered(of, a)
  BY DEF Answered, Asked
<1> HIDE DEF m
<1>3. ModelCommand(m[1], a, left) = CmdCheck(m[1], a, left)
  BY DEF ModelCommand
<1> HIDE DEF engine
<1>4. CmdCheck(m[1], a, left) =
        IF verdict = "panic" THEN Panic(left) ELSE IF verdict = "refused" THEN MessageExit(left)
        ELSE Done(FromCheckOutcome(verdict), report, left)
  BY DEF CmdCheck, engine
<1> HIDE DEF verdict, report
<1>5. done.out # None
  OBVIOUS
<1> HIDE DEF done
<1>6. done.out = report
  BY <1>1, <1>3, <1>4, <1>5, Outs
<1> QED BY <1>2, <1>6 DEF done

(* The same for a command line, after valid.toml and the option filter.    *)
LEMMA FilterKeeps ==
  ASSUME NEW config, NEW a, IsArgs(a), a.command = "check"
  PROVE  LET w == WithDefaults(config, a)
             b == RegistryArgs(w)
         IN  b.command = "check" /\ b.model = w.model /\ b.property = w.property /\ Adapter(b) = Adapter(w)
<1> DEFINE w == WithDefaults(config, a)  b == RegistryArgs(w)
<1>1. {"command", "model", "property", "backend", "solver"} \subseteq DOMAIN a /\ a.solver \in BOOLEAN
  BY DEF IsArgs, Fields
<1>2. DOMAIN w = DOMAIN a /\ w.command = "check" /\ w.solver = a.solver
  BY <1>1 DEF WithDefaults
<1> HIDE DEF w
<1>3. "check" \in TakesProperty /\ "check" \in TakesBackend
  BY DEF TakesProperty, TakesBackend
<1>4. /\ b.command = "check" /\ b.model = w.model /\ b.property = w.property
      /\ b.backend = w.backend
  BY <1>1, <1>2, <1>3 DEF RegistryArgs
<1>5. b.solver = w.solver
  BY <1>1, <1>2, <1>3 DEF RegistryArgs
<1> HIDE DEF b
<1>6. Adapter(b) = Adapter(w)
  BY <1>4, <1>5 DEF Adapter
<1> QED BY <1>4, <1>6 DEF b, w

(* In particular on equal arguments.                                       *)
LEMMA SameAnswer ==
  ASSUME NEW of, NEW a, NEW b, a.model = b.model, a.property = b.property, Adapter(a) = Adapter(b)
  PROVE  Answered(of, a) = Answered(of, b)
BY OneAnswer DEF Asked

-------------------------------------------------------------------------------
(* What the terminal was told.                                             *)
Honest(child) ==
  child.args.command = "check" /\ child.args.file = None /\ child.out # None
    => child.out = Answered(child.of, WithDefaults(Config, child.args))

HonestJob(j) == IsSequence(j.done) /\ \A i \in DOMAIN j.done : Honest(j.done[i])
HonestJobs == (\A k \in DOMAIN reports : HonestJob(reports[k])) /\ (job # Idle => HonestJob(job))

(* The run of a registry binary.                                           *)
LEMMA HonestRun ==
  ASSUME NEW a, IsArgs(a)
  PROVE  Honest(Child(a, RegistryRun(a)))
<1> DEFINE done == RegistryRun(a)  w == WithDefaults(Config, a)  b == RegistryArgs(w)
<1>1. Child(a, done).args = a /\ Child(a, done).of = crate /\ Child(a, done).out = done.out
  BY DEF Child
<1>2. ASSUME a.command = "check", done.out # None PROVE done.out = Answered(crate, w)
  <2>1. b.command = "check" /\ b.model = w.model /\ b.property = w.property /\ Adapter(b) = Adapter(w)
    BY <1>2, FilterKeeps
  <2>2. done = RegistryCli(Registries[crate], Config, b, files)
    BY DEF RegistryRun
  <2> HIDE DEF b, w, done
  <2>3. done.out = Answered(crate, b)
    BY <1>2, <2>1, <2>2, CheckAnswers
  <2> QED BY <2>1, <2>3, SameAnswer
<1> HIDE DEF done
<1> QED BY <1>1, <1>2 DEF Honest, done

(* A child that has run is one more of its job.                            *)
LEMMA HonestAfter ==
  ASSUME JobInv, job # Idle, job.todo # <<>>, HonestJob(job), NEW done, NEW code,
         Honest(Child(Head(job.todo), done))
  PROVE  HonestJob(After(done, code))
<1> DEFINE q == After(done, code)
<1>1. IsRecord(job)
  BY DEF JobInv, InHand, Sound
<1>2. /\ Len(job.done) \in Nat
      /\ DOMAIN job.done = 1..Len(job.done) /\ DOMAIN q.done = 1..(Len(job.done) + 1)
      /\ \A i \in 1..Len(job.done) : q.done[i] = job.done[i]
      /\ q.done[Len(job.done) + 1] = Child(Head(job.todo), done)
  BY <1>1, AfterIs
<1> HIDE DEF q
<1>3. \A i \in 1..(Len(job.done) + 1) : i \in 1..Len(job.done) \/ i = Len(job.done) + 1
  BY <1>2
<1>4. IsSequence(q.done)
  BY <1>1, AfterIs DEF IsRecord, q
<1>5. \A i \in DOMAIN q.done : Honest(q.done[i])
  BY <1>2, <1>3 DEF HonestJob
<1> QED BY <1>4, <1>5 DEF HonestJob, q

(* Honesty depends on the project that was chosen alone.                   *)
LEMMA HonestStays == UNCHANGED scenario => \A j : HonestJob(j)' <=> HonestJob(j)
<1> SUFFICES ASSUME UNCHANGED scenario PROVE \A j : HonestJob(j)' <=> HonestJob(j)
  OBVIOUS
<1>1. Config' = Config
  BY DEF Config, Here
<1>2. \A child : Honest(child)' <=> Honest(child)
  BY <1>1 DEF Honest
<1> QED BY <1>2 DEF HonestJob

(* The invariant after a step, told of the values it leaves.               *)
LEMMA HonestThen ==
  ASSUME UNCHANGED scenario, NEW hand, hand = job', hand # Idle => HonestJob(hand),
         NEW ended, ended = reports', \A k \in DOMAIN ended : HonestJob(ended[k])
  PROVE  HonestJobs'
<1>1. \A j : HonestJob(j)' <=> HonestJob(j)
  BY HonestStays
<1>2. hand # Idle => HonestJob(hand)'
  BY <1>1
<1>3. HonestJob(hand)' <=> HonestJob(job)'
  OBVIOUS
<1>4. \A k \in DOMAIN ended : HonestJob(ended[k])'
  BY <1>1
<1>5. \A k \in DOMAIN reports' : HonestJob(reports[k])'
  BY <1>4
<1> QED BY <1>2, <1>3, <1>5 DEF HonestJobs

(* A job that ends is one more report.                                     *)
LEMMA HonestReports ==
  ASSUME JobInv, HonestJobs, NEW r, HonestJob(r)
  PROVE  \A k \in DOMAIN Append(reports, r) : HonestJob(Append(reports, r)[k])
<1>1. IsSequence(reports)
  BY DEF JobInv, AllEnded
<1>2. /\ DOMAIN reports = 1..Len(reports) /\ DOMAIN Append(reports, r) = 1..(Len(reports) + 1)
      /\ Len(reports) \in Nat
      /\ \A i \in 1..Len(reports) : Append(reports, r)[i] = reports[i]
      /\ Append(reports, r)[Len(reports) + 1] = r
  BY <1>1, AppendIsSequence
<1>3. \A k \in 1..(Len(reports) + 1) : k \in 1..Len(reports) \/ k = Len(reports) + 1
  BY <1>2
<1> QED BY <1>2, <1>3 DEF HonestJobs

(* A job that has run nothing, and one that was refused.                   *)
LEMMA HonestNew == \A entry, todo, whole : HonestJob(Job(entry, todo, whole))
<1>1. DOMAIN <<>> = {}
  OBVIOUS
<1> QED BY <1>1, NoneIsSequence DEF HonestJob, Job

(* A job that could not start has run nothing.                             *)
LEMMA HonestRefused ==
  ASSUME NEW entry, NEW code
  PROVE  HonestJob([Job(entry, <<>>, FALSE) EXCEPT !.code = code])
<1>1. DOMAIN <<>> = {}
  OBVIOUS
<1>2. [Job(entry, <<>>, FALSE) EXCEPT !.code = code].done = <<>>
  BY DEF Job
<1> QED BY <1>1, <1>2, NoneIsSequence DEF HonestJob

(* The steps of the terminal, one by one.                                  *)
LEMMA HonestTerminal == JobInv /\ HonestJobs /\ WorkTerminal => HonestJobs'
<1> SUFFICES ASSUME JobInv, HonestJobs, WorkTerminal PROVE HonestJobs'
  OBVIOUS
<1> DEFINE a == Head(job.todo)
<1>1. PICK hand, ended : hand = job' /\ ended = reports'
  OBVIOUS
<1>2. UNCHANGED scenario
  BY DEF WorkTerminal, StartCommands, RefuseSuite, StartSuite, FetchModels, RunRegistryChild, FailBuild,
         RunFileChild, RunClean, EndJob, Ran, project
<1>3. \A k \in DOMAIN reports : HonestJob(reports[k])
  BY DEF HonestJobs
<1>4. CASE StartCommands \/ StartSuite
  <2>1. UNCHANGED reports
    BY <1>4 DEF StartCommands, StartSuite
  <2>2. \E entry, todo : job' = Job(entry, todo, TRUE)
    BY <1>4, Zenon DEF StartCommands, StartSuite
  <2>3. HonestJob(hand)
    BY <1>1, <2>2, HonestNew
  <2> QED BY <1>1, <1>2, <1>3, <2>1, <2>3, HonestThen
<1>5. CASE RefuseSuite
  <2>1. job' = job /\ reports' = Append(reports, [Job(Head(script), <<>>, FALSE) EXCEPT !.code = ExitCode.Error])
    BY <1>5 DEF RefuseSuite
  <2>2. \A k \in DOMAIN ended : HonestJob(ended[k])
    BY <1>1, <2>1, HonestRefused, HonestReports
  <2>3. hand # Idle => HonestJob(hand)
    BY <1>1, <2>1 DEF HonestJobs
  <2> QED BY <1>1, <1>2, <2>2, <2>3, HonestThen
<1>6. CASE FetchModels
  <2>1. CASE crate = Broken
    <3>1. job' = job /\ reports' = Append(reports, [Job(Head(script), <<>>, FALSE) EXCEPT !.code = ExitCode.Error])
      BY <1>6, <2>1 DEF FetchModels
    <3>2. \A k \in DOMAIN ended : HonestJob(ended[k])
      BY <1>1, <3>1, HonestRefused, HonestReports
    <3>3. hand # Idle => HonestJob(hand)
      BY <1>1, <3>1 DEF HonestJobs
    <3> QED BY <1>1, <1>2, <3>2, <3>3, HonestThen
  <2>2. CASE crate # Broken
    <3>1. UNCHANGED reports
      BY <1>6, <2>2 DEF FetchModels
    <3>2. \E entry, todo : job' = Job(entry, todo, TRUE)
      BY <1>6, <2>2, Zenon DEF FetchModels
    <3>3. HonestJob(hand)
      BY <1>1, <3>2, HonestNew
    <3> QED BY <1>1, <1>2, <1>3, <3>1, <3>3, HonestThen
  <2> QED BY <2>1, <2>2
<1>7. ASSUME Running, NEW done, NEW code, job' = After(done, code), UNCHANGED reports, Honest(Child(a, done))
      PROVE  HonestJobs'
  <2>1. job # Idle /\ job.todo # <<>> /\ HonestJob(job)
    BY <1>7 DEF Running, HonestJobs
  <2>2. HonestJob(hand)
    BY <1>1, <1>7, <2>1, HonestAfter
  <2> QED BY <1>1, <1>2, <1>3, <1>7, <2>2, HonestThen
<1>8. CASE RunRegistryChild
  <2>1. Running /\ Ran(RegistryRun(a), ToExitCode(RegistryRun(a).code))
    BY <1>8 DEF RunRegistryChild
  <2>2. IsArgs(a)
    BY <2>1, ChildFacts DEF Running
  <2> QED BY <1>7, <2>1, <2>2, HonestRun DEF Ran
<1>9. CASE RunFileChild
  <2> DEFINE done == ModelFileCli(Config, a, files)
  <2>1. Running /\ Ran(done, ToFileExitCode(done.code)) /\ a.file # None
    BY <1>9 DEF RunFileChild
  <2>2. Honest(Child(a, done))
    BY <2>1 DEF Honest, Child
  <2> HIDE DEF done
  <2> QED BY <1>7, <2>1, <2>2 DEF Ran
<1>10. CASE RunClean
  <2> DEFINE done == CmdClean(a.sub, files)
  <2>1. Running /\ Ran(done, ToExitCode(done.code)) /\ a.command = "clean"
    BY <1>10 DEF RunClean
  <2>2. Honest(Child(a, done))
    BY <2>1 DEF Honest, Child
  <2> HIDE DEF done
  <2> QED BY <1>7, <2>1, <2>2 DEF Ran
<1>11. CASE FailBuild
  <2>1. CASE job.entry.kind \in {"suite", "benchmark"}
    <3> DEFINE r == [job EXCEPT !.code = ExitCode.Error, !.whole = FALSE]
    <3>1. job' = Idle /\ reports' = Append(reports, r) /\ job # Idle
      BY <1>11, <2>1 DEF FailBuild, Running
    <3>2. r.done = job.done
      BY <3>1 DEF JobInv, InHand, Sound, IsRecord
    <3>3. HonestJob(r)
      BY <3>1, <3>2 DEF HonestJob, HonestJobs
    <3> HIDE DEF r
    <3>4. \A k \in DOMAIN ended : HonestJob(ended[k])
      BY <1>1, <3>1, <3>3, HonestReports
    <3> QED BY <1>1, <1>2, <3>1, <3>4, HonestThen
  <2>2. CASE job.entry.kind \notin {"suite", "benchmark"}
    <3>1. Running /\ job' = After(MessageExit(files), ExitCode.Error) /\ UNCHANGED reports
      BY <1>11, <2>2 DEF FailBuild
    <3>2. Honest(Child(a, MessageExit(files)))
      BY Outs DEF Honest, Child
    <3> QED BY <1>7, <3>1, <3>2
  <2> QED BY <2>1, <2>2
<1>12. CASE EndJob
  <2>1. job # Idle /\ job' = Idle /\ reports' = Append(reports, job)
    BY <1>12 DEF EndJob
  <2>2. \A k \in DOMAIN ended : HonestJob(ended[k])
    BY <1>1, <2>1, HonestReports DEF HonestJobs
  <2> QED BY <1>1, <1>2, <2>1, <2>2, HonestThen
<1> QED BY <1>4, <1>5, <1>6, <1>8, <1>9, <1>10, <1>11, <1>12 DEF WorkTerminal

(* A step of the others.                                                   *)
LEMMA HonestRests == HonestJobs /\ UNCHANGED <<scenario, job, reports>> => HonestJobs'
<1> SUFFICES ASSUME HonestJobs, UNCHANGED <<scenario, job, reports>> PROVE HonestJobs'
  OBVIOUS
<1>1. PICK hand, ended : hand = job' /\ ended = reports'
  OBVIOUS
<1>2. (hand # Idle => HonestJob(hand)) /\ \A k \in DOMAIN ended : HonestJob(ended[k])
  BY <1>1 DEF HonestJobs
<1> QED BY <1>1, <1>2, HonestThen

(* Every step keeps the jobs honest.                                       *)
LEMMA HonestNext == JobInv /\ HonestJobs /\ [Next]_vars => HonestJobs'
<1>1. Develop => UNCHANGED <<scenario, job, reports>>
  BY DEF Develop, SaveCrate, SaveFile, terminal
<1>2. Serve => UNCHANGED <<scenario, job, reports>>
  BY ServerStep DEF terminal
<1>3. UNCHANGED vars => UNCHANGED <<scenario, job, reports>>
  BY DEF vars, project, terminal
<1> QED BY <1>1, <1>2, <1>3, HonestTerminal, HonestRests DEF Next, Work

(* No job has run at first.                                                *)
LEMMA HonestInit == Init => HonestJobs
<1> SUFFICES ASSUME Init PROVE HonestJobs
  OBVIOUS
<1>1. job = Idle /\ reports = <<>> /\ DOMAIN <<>> = {}
  BY DEF Init, WInit
<1> QED BY <1>1 DEF HonestJobs

(* A repeated pair runs once, where it comes first.                        *)
LEMMA FirstOf ==
  ASSUME NEW runs, NEW i \in Nat, i > 0
  PROVE  \E k \in 1..i : runs[k] = runs[i] /\ ~\E l \in 1..(k - 1) : runs[l] = runs[k]
<1> DEFINE First(n) == \E k \in 1..n : runs[k] = runs[n] /\ ~\E l \in 1..(k - 1) : runs[l] = runs[k]
           N == {n \in Nat : \A m \in 1..n : First(m)}
<1>1. 0 \in N
  OBVIOUS
<1>2. ASSUME NEW n \in N PROVE n + 1 \in N
  <2>1. n \in Nat /\ \A m \in 1..n : First(m)
    BY <1>2
  <2>2. First(n + 1)
    <3>1. CASE \E l \in 1..n : runs[l] = runs[n + 1]
      <4>1. PICK l \in 1..n : runs[l] = runs[n + 1]
        BY <3>1
      <4>2. PICK k \in 1..l : runs[k] = runs[l] /\ ~\E m \in 1..(k - 1) : runs[m] = runs[k]
        BY <2>1, <4>1
      <4>3. k \in 1..(n + 1) /\ runs[k] = runs[n + 1]
        BY <2>1, <4>1, <4>2
      <4> QED BY <4>2, <4>3
    <3>2. CASE ~\E l \in 1..n : runs[l] = runs[n + 1]
      <4>1. n + 1 \in 1..(n + 1) /\ (n + 1) - 1 = n
        BY <2>1
      <4>2. ~\E l \in 1..((n + 1) - 1) : runs[l] = runs[n + 1]
        BY <3>2, <4>1
      <4> QED BY <4>1, <4>2
    <3> QED BY <3>1, <3>2
  <2> HIDE DEF First
  <2>3. \A m \in 1..(n + 1) : m \in 1..n \/ m = n + 1
    BY <2>1
  <2> QED BY <2>1, <2>2, <2>3
<1> HIDE DEF First
<1>3. N = Nat
  <2>1. N \in SUBSET Nat
    OBVIOUS
  <2> HIDE DEF N
  <2> QED BY <1>1, <1>2, <2>1, Induction
<1>4. i \in 1..i
  OBVIOUS
<1>5. First(i)
  BY <1>3, <1>4
<1> QED BY <1>5 DEF First

(* So no pair is lost, and none is added.                                  *)
LEMMA ExpandKeeps ==
  ASSUME NEW runs, IsSequence(runs)
  PROVE  IsSequence(ExpandTargets(runs)) /\ ToSet(ExpandTargets(runs)) = ToSet(runs)
<1> DEFINE S == ToSet(runs)
           repeated(i) == \E k \in 1..(i - 1) : runs[k] = runs[i]
           seqs == [i \in DOMAIN runs |-> IF repeated(i) THEN <<>> ELSE <<runs[i]>>]
           flat == ExpandTargets(runs)
<1>1. DOMAIN runs = 1..Len(runs) /\ Len(runs) \in Nat
  BY DEF IsSequence
<1>2. \A i \in 1..Len(runs) : runs[i] \in S
  BY <1>1 DEF ToSet
<1>3. flat = FlattenSeq(seqs)
  BY DEF ExpandTargets
<1> HIDE DEF repeated, flat
<1>4. ASSUME NEW i \in 1..Len(runs) PROVE seqs[i] \in Seq(S)
  <2>1. seqs[i] = IF repeated(i) THEN <<>> ELSE <<runs[i]>>
    BY <1>1
  <2>2. <<runs[i]>> \in Seq(S) /\ <<>> \in Seq(S)
    BY <1>2
  <2> QED BY <2>1, <2>2
<1>5. seqs \in Seq(Seq(S)) /\ Len(seqs) = Len(runs)
  <2>1. seqs = [i \in 1..Len(runs) |-> seqs[i]]
    BY <1>1
  <2> HIDE DEF seqs
  <2>2. seqs \in [1..Len(runs) -> Seq(S)]
    BY <1>4, <2>1
  <2> QED BY <1>1, <2>2
<1>6. \A i \in 1..Len(runs) : ~repeated(i) => seqs[i] = <<runs[i]>>
  BY <1>1
<1> HIDE DEF seqs, S
<1>7. flat \in Seq(S)
  BY <1>3, <1>5, FlattenCovers
<1>8. \A i \in 1..Len(seqs) : \A j \in 1..Len(seqs[i]) : \E p \in 1..Len(flat) : flat[p] = seqs[i][j]
  BY <1>3, <1>5, FlattenCovers
<1>9. ASSUME NEW run \in S PROVE run \in ToSet(flat)
  <2>1. PICK i \in 1..Len(runs) : runs[i] = run
    BY <1>1 DEF S, ToSet
  <2>2. PICK k \in 1..i : runs[k] = runs[i] /\ ~\E l \in 1..(k - 1) : runs[l] = runs[k]
    BY <2>1, FirstOf
  <2>3. k \in 1..Len(runs)
    BY <1>1, <2>1, <2>2
  <2>4. ~repeated(k)
    BY <2>2 DEF repeated
  <2>5. seqs[k] = <<run>>
    BY <1>6, <2>1, <2>2, <2>3, <2>4
  <2>6. k \in 1..Len(seqs) /\ 1 \in 1..Len(seqs[k]) /\ seqs[k][1] = run
    BY <1>5, <2>3, <2>5
  <2>7. PICK p \in 1..Len(flat) : flat[p] = run
    BY <1>8, <2>6
  <2> QED BY <1>7, <2>7 DEF ToSet
<1>10. ToSet(flat) \subseteq S
  BY <1>7 DEF ToSet
<1> QED BY <1>7, <1>9, <1>10 DEF IsSequence, S, flat

(* What a suite selects are the pairs of valid.toml.                       *)
LEMMA SelectedPairs ==
  ASSUME scenario \in DOMAIN Scenarios, NEW call
  PROVE  LET runs == SelectSuiteRuns(call, Config)
         IN  IsSequence(runs) /\ \A run \in ToSet(runs) : run = <<run[1], run[2]>>
<1> DEFINE runs == SelectSuiteRuns(call, Config)  name == McpSuiteName(call, Config)
<1>1. runs = IF call.critical THEN Config.critical
             ELSE IF name # None /\ name \in DOMAIN Config.suites THEN Config.suites[name]
             ELSE <<>>
  BY DEF SelectSuiteRuns
<1>2. IsPairs(Config.critical) /\ \A n \in DOMAIN Config.suites : IsPairs(Config.suites[n])
  BY HereFacts
<1>3. IsPairs(<<>>)
  BY EmptySeq DEF IsPairs, ToSet
<1> HIDE DEF runs, name
<1>4. IsPairs(runs)
  BY <1>1, <1>2, <1>3
<1> QED BY <1>4 DEF IsPairs, IsSequence, runs

-------------------------------------------------------------------------------
(* What the server says.                                                   *)
RowOf(call, row) == [call EXCEPT !.model = row.model, !.property = row.property]
RightRows(call, rows) == \A i \in DOMAIN rows : rows[i].answer = Answered(rows[i].of, RowOf(call, rows[i]))
Covered(rows) == {<<rows[i].model, rows[i].property>> : i \in DOMAIN rows}

Right(params, result) ==
  /\ params.tool = "valid_check" /\ result.value # None /\ params.call.model # None
       => result.value = Answered(result.of, params.call)
  /\ params.tool = "valid_suite_run" /\ ~result.isError
       => /\ Covered(result.value.runs) = ToSet(SelectSuiteRuns(params.call, Config))
          /\ Server.registry => RightRows(params.call, result.value.runs)

AsksTool(place) == MessageAt(place).method = "tools/call" /\ MessageAt(place).params # None

RightAnswer(line, a) ==
  a.error = 0 /\ a.at > 0 /\ AsksTool(<<line, a.at>>) => Right(MessageAt(<<line, a.at>>).params, a.result)
RightAnswers(line, answers) == \A i \in DOMAIN answers : RightAnswer(line, answers[i])

Said(said) == \A k \in DOMAIN said : said[k].kind = "reply" => RightAnswers(said[k].line, said[k].answers)

(* The fields of a suite that count.                                       *)
IsSuite(s) == {"chosen", "todo", "rows"} \subseteq DOMAIN s

(* A suite that runs has a row for each pair it need not check any more.   *)
SuiteRight(s) ==
  /\ IsSuite(s)
  /\ Msg.method = "tools/call" /\ Msg.params # None /\ Msg.params.tool = "valid_suite_run"
  /\ IsSequence(s.rows) /\ IsSequence(s.todo) /\ RightRows(Msg.params.call, s.rows)
  /\ s.chosen => Covered(s.rows) \cup ToSet(s.todo) = ToSet(SelectSuiteRuns(Msg.params.call, Config))
  /\ ~s.chosen => s.rows = <<>>

SaidInv ==
  /\ Said(out)
  /\ open => RightAnswers(taken, replies)
  /\ suite # None => SuiteRight(suite)

(* Binaries answer for the version they were built from.                   *)
LEMMA BinaryAnswers ==
  ASSUME NEW args, args.command = "check", RunRegistry(args, Server, World).out # None
  PROVE  RunRegistry(args, Server, World).out = Answered(bin, args)
<1> DEFINE done == RunRegistry(args, Server, World)
<1>1. done = IF World.models = None THEN MessageExit(World.files)
             ELSE RegistryCli(World.models, Server.config, args, World.files)
  BY DEF RunRegistry
<1>2. World.models = IF bin = NoBinary THEN None ELSE Registries[bin]
  BY DEF World
<1>3. done.out # None
  OBVIOUS
<1> HIDE DEF done
<1>4. World.models = Registries[bin] /\ done = RegistryCli(Registries[bin], Server.config, args, World.files)
  BY <1>1, <1>2, <1>3, Outs
<1>5. done.out = Answered(bin, args)
  BY <1>3, <1>4, CheckAnswers
<1> QED BY <1>5 DEF done

(* valid_check, on the model of a registry.                                *)
LEMMA CheckToolAnswers ==
  ASSUME NEW call, IsArgs(call), call.model # None, CheckTool(call, Server, World).value # None
  PROVE  CheckTool(call, Server, World).value = Answered(bin, call)
<1> DEFINE b == BackendArgs(call)
           target == Resolve(b, Server, World.files)
           args == [b EXCEPT !.command = "check", !.model = target.model]
           done == RunRegistry(args, Server, World)
           result == CheckTool(call, Server, World)
<1>1. {"command", "model", "write", "check", "profile", "property", "backend", "solver"} \subseteq DOMAIN call
  BY DEF IsArgs, Fields
<1>2. /\ DOMAIN b = DOMAIN call /\ b.model = call.model /\ b.property = call.property
      /\ b.backend = call.backend /\ b.solver = call.solver
  BY <1>1 DEF BackendArgs
<1> HIDE DEF b
<1>3. target = Refused \/ target = RegistryTarget(call.model)
  BY <1>2 DEF Resolve
<1>4. Refused.mode = "refused" /\ RegistryTarget(call.model).mode = "registry"
      /\ RegistryTarget(call.model).model = call.model
  BY DEF Refused, RegistryTarget
<1>5. ToolError(None, World.files).value = None
  BY DEF ToolError
<1> HIDE DEF target
<1>6. result = Tool("check", b, Server, World, {0, 2, 4})
  BY DEF CheckTool, b
<1>7. target.mode = "refused" => result = ToolError(None, World.files)
  BY <1>6 DEF Tool, target
<1>8. target.mode = "registry" => result = RegistryTool("check", target, b, Server, World, {0, 2, 4})
  BY <1>6 DEF Tool, target
<1>9. result.value # None
  OBVIOUS
<1> HIDE DEF result
<1>10. target = RegistryTarget(call.model)
  BY <1>3, <1>4, <1>5, <1>7, <1>9
<1>11. result = RegistryToolResult(done, {0, 2, 4})
  BY <1>4, <1>8, <1>10 DEF RegistryTool
<1> HIDE DEF done
<1>12. result.value = done.out
  BY <1>11 DEF RegistryToolResult, ToolSuccess, ToolError
<1>13. /\ args.command = "check" /\ args.model = call.model /\ args.property = call.property
       /\ args.backend = call.backend /\ args.solver = call.solver
  BY <1>1, <1>2, <1>4, <1>10
<1> HIDE DEF args
<1>14. done.out = Answered(bin, args)
  BY <1>9, <1>12, <1>13, BinaryAnswers DEF done
<1>15. Adapter(args) = Adapter(call)
  BY <1>13 DEF Adapter
<1>16. Answered(bin, args) = Answered(bin, call)
  BY <1>13, <1>15, SameAnswer
<1> QED BY <1>12, <1>14, <1>16 DEF result

(* valid_suite_run, on a model file.                                       *)
LEMMA DslSuiteAnswers ==
  ASSUME scenario \in DOMAIN Scenarios, NEW call, ~DslSuiteTool(call, Server, files).isError
  PROVE  /\ ~(call.critical /\ call.suite # None)
         /\ Covered(DslSuiteTool(call, Server, files).value.runs) = ToSet(SelectSuiteRuns(call, Config))
<1> DEFINE target == Resolve(call, Server, files)
           result == DslSuiteTool(call, Server, files)
           source == target.source
           m == source.model
           runs == ExpandTargets(SelectSuiteRuns(call, Config))
           row(run) == SuiteRow(run[1], run[2], None,
                                OutcomeJson(m.id, run[2], FileVerdict(m, Adapter(call), run[2])))
           rows == [i \in DOMAIN runs |-> row(runs[i])]
<1>1. Server.config = Config
  BY DEF Server
<1>2. ToolError(None, files).isError = TRUE
  BY DEF ToolError
<1>3. result = IF SuiteChosen(call, Config) /\ target.mode = "dsl" THEN DslSuite(source, call, Server, files)
               ELSE ToolError(None, files)
  BY <1>1 DEF DslSuiteTool
<1>4. DslSuite(source, call, Server, files) =
        IF source.form = "broken" THEN ToolError(None, files)
        ELSE IF ~Expandable(runs, m.id :> PropertyIds(m)) THEN ToolError(None, files)
        ELSE ToolSuccess([runs |-> rows], files)
  BY <1>1 DEF DslSuite
<1>5. ~result.isError
  OBVIOUS
<1> HIDE DEF result, source, m, rows, target
<1>6. SuiteChosen(call, Config) /\ result = ToolSuccess([runs |-> rows], files)
  BY <1>2, <1>3, <1>4, <1>5
<1>7. result.value.runs = rows
  BY <1>6 DEF ToolSuccess
<1>8. IsSequence(SelectSuiteRuns(call, Config))
      /\ \A run \in ToSet(SelectSuiteRuns(call, Config)) : run = <<run[1], run[2]>>
  BY SelectedPairs
<1>9. ToSet(runs) = ToSet(SelectSuiteRuns(call, Config))
  BY <1>8, ExpandKeeps
<1> HIDE DEF runs
<1>10. DOMAIN rows = DOMAIN runs /\ \A i \in DOMAIN runs : rows[i].model = runs[i][1] /\ rows[i].property = runs[i][2]
  BY DEF rows, SuiteRow
<1>11. \A i \in DOMAIN runs : <<rows[i].model, rows[i].property>> = runs[i]
  BY <1>8, <1>9, <1>10 DEF ToSet
<1>12. Covered(rows) = ToSet(runs)
  BY <1>10, <1>11 DEF Covered, ToSet
<1> QED BY <1>6, <1>7, <1>9, <1>12 DEF SuiteChosen, result

(* What is right depends on the project that was chosen alone.             *)
LEMMA SaidStays ==
  ASSUME UNCHANGED scenario
  PROVE  /\ \A said : Said(said)' <=> Said(said)
         /\ \A line, answers : RightAnswers(line, answers)' <=> RightAnswers(line, answers)
<1>1. \A p : MessageAt(p)' = MessageAt(p)
  BY SameJudgement
<1>2. Config' = Config /\ Server' = Server
  BY DEF Config, Server, Here
<1>3. \A params, result : Right(params, result)' <=> Right(params, result)
  BY <1>2 DEF Right
<1>4. \A p : AsksTool(p)' <=> AsksTool(p)
  BY <1>1 DEF AsksTool
<1>5. \A line, a : RightAnswer(line, a)' <=> RightAnswer(line, a)
  BY <1>1, <1>3, <1>4 DEF RightAnswer
<1>6. \A line, answers : RightAnswers(line, answers)' <=> RightAnswers(line, answers)
  BY <1>5 DEF RightAnswers
<1>7. \A said : Said(said)' <=> Said(said)
  BY <1>6 DEF Said
<1> QED BY <1>6, <1>7

(* What is right for a suite depends on its call, too.                     *)
LEMMA SuiteStays ==
  ASSUME UNCHANGED <<scenario, taken, at>>
  PROVE  \A s : SuiteRight(s)' <=> SuiteRight(s)
<1>1. Config' = Config /\ Msg' = Msg
  BY DEF Config, Here, Msg, Line
<1> QED BY <1>1 DEF SuiteRight

(* The invariant after a step, told of the values it leaves.               *)
LEMMA SaidThen ==
  ASSUME UNCHANGED scenario, NEW said, said = out', Said(said),
         NEW line, line = taken', NEW collected, collected = replies', open' => RightAnswers(line, collected),
         NEW running, running = suite',
         running # None => UNCHANGED <<taken, at>> /\ SuiteRight(running)
  PROVE  SaidInv'
<1>1. Said(said)' /\ (open' => RightAnswers(line, collected)')
  BY SaidStays
<1>2. running # None => SuiteRight(running)'
  BY SuiteStays
<1>3. Said(said)' <=> Said(out)'
  OBVIOUS
<1>4. RightAnswers(line, collected)' <=> RightAnswers(taken, replies)'
  OBVIOUS
<1>5. SuiteRight(running)' <=> SuiteRight(suite)'
  OBVIOUS
<1> QED BY <1>1, <1>2, <1>3, <1>4, <1>5 DEF SaidInv

(* A step that says nothing; a suite may go on.                            *)
LEMMA SaidRests ==
  ASSUME SaidInv, UNCHANGED <<scenario, taken, open, at, replies, out>>,
         NEW running, running = suite', running # None => SuiteRight(running)
  PROVE  SaidInv'
<1>1. PICK said, line, collected : said = out' /\ line = taken' /\ collected = replies'
  OBVIOUS
<1>2. Said(said) /\ (open' => RightAnswers(line, collected))
  BY <1>1 DEF SaidInv
<1> QED BY <1>1, <1>2, SaidThen

(* A step of the others.                                                   *)
LEMMA SaidWaits ==
  ASSUME SaidInv, UNCHANGED <<scenario, taken, open, at, replies, suite, out>>
  PROVE  SaidInv'
<1>1. PICK running : running = suite'
  OBVIOUS
<1>2. running # None => SuiteRight(running)
  BY <1>1 DEF SaidInv
<1> QED BY <1>1, <1>2, SaidRests

(* Log notifications are no answers.                                       *)
LEMMA SaidLogs ==
  ASSUME Said(out), IsSequence(out), NEW logs, IsLog(logs)
  PROVE  Said(out \o logs)
<1>1. /\ DOMAIN out = 1..Len(out) /\ Len(out) \in Nat /\ Len(out \o logs) \in Nat
      /\ DOMAIN (out \o logs) = 1..Len(out \o logs)
      /\ \A i \in 1..Len(out) : (out \o logs)[i] = out[i]
      /\ \A i \in 1..Len(out \o logs) : i > Len(out) => (out \o logs)[i].kind = "log"
  BY LogsAppended
<1>2. ASSUME NEW k \in DOMAIN (out \o logs), (out \o logs)[k].kind = "reply"
      PROVE  k \in 1..Len(out)
  BY <1>1, <1>2
<1> QED BY <1>1, <1>2 DEF Said

(* A message is answered.                                                  *)
LEMMA SaidReply ==
  ASSUME AnswerInv, SaidInv, open, NEW r, NEW logs, IsLog(logs), Reply(r, logs), suite' = None,
         RightAnswer(taken, r)
  PROVE  SaidInv'
<1>1. /\ replies' = Append(replies, r) /\ out' = out \o logs /\ UNCHANGED <<scenario, taken, open>>
  BY DEF Reply
<1>2. PICK said, line, collected : said = out' /\ line = taken' /\ collected = replies'
  OBVIOUS
<1>3. Said(said)
  BY <1>1, <1>2, SaidLogs DEF SaidInv, AnswerInv, Collected
<1>4. RightAnswers(line, collected)
  <2>1. IsSequence(replies)
    BY DEF AnswerInv, Collected
  <2>2. /\ DOMAIN replies = 1..Len(replies) /\ DOMAIN collected = 1..(Len(replies) + 1)
        /\ Len(replies) \in Nat
        /\ \A i \in 1..Len(replies) : collected[i] = replies[i]
        /\ collected[Len(replies) + 1] = r
    BY <1>1, <1>2, <2>1, AppendIsSequence
  <2>3. \A i \in 1..(Len(replies) + 1) : i \in 1..Len(replies) \/ i = Len(replies) + 1
    BY <2>2
  <2>4. \A i \in 1..Len(replies) : RightAnswer(taken, replies[i])
    BY <2>2 DEF SaidInv, RightAnswers
  <2> QED BY <1>1, <1>2, <2>2, <2>3, <2>4 DEF RightAnswers
<1>5. PICK running : running = suite'
  OBVIOUS
<1> QED BY <1>1, <1>2, <1>3, <1>4, <1>5, SaidThen

(* Nothing to log.                                                         *)
LEMMA NoLog == IsLog(<<>>)
BY DEF IsLog

(* The message at hand, by its place.                                      *)
LEMMA MessageNow == MessageAt(<<taken, at + 1>>) = Msg
BY DEF MessageAt, Msg

(* An error, and an answer to what is no tool call.                        *)
LEMMA RefusalRight ==
  ASSUME NEW position, NEW id, NEW code, code # 0
  PROVE  \A line : RightAnswer(line, ErrorResponse(position, id, code))
BY DEF RightAnswer, ErrorResponse

(* The answer to another method is about no tool.                          *)
LEMMA OtherRight ==
  ASSUME NEW result, Msg.method # "tools/call"
  PROVE  RightAnswer(taken, Answer(result))
<1>1. Answer(result).at = at + 1
  BY DEF Answer, Response
<1> QED BY <1>1, MessageNow DEF RightAnswer, AsksTool

(* The methods that are no tools.                                          *)
LEMMA SaidMethods ==
  ASSUME AnswerInv, SaidInv, Initialize \/ SetLevel \/ Ping \/ ListItems \/ ReadItem
  PROVE  SaidInv'
<1>1. open /\ suite' = None /\ Msg.method # "tools/call"
  BY DEF Initialize, SetLevel, Ping, ListItems, ReadItem, Requests, Pending
<1>2. ASSUME NEW result, NEW logs, IsLog(logs), Reply(Answer(result), logs) PROVE SaidInv'
  BY <1>1, <1>2, OtherRight, SaidReply
<1>3. ASSUME NEW code, code # 0, Reply(Refuse(code), <<>>) PROVE SaidInv'
  BY <1>1, <1>3, NoLog, RefusalRight, SaidReply DEF Refuse
<1>4. \A level : IsLog(MaybeLog(level))
  BY MaybeLogIsLog
<1>5. CASE Initialize
  BY <1>2, <1>4, <1>5 DEF Initialize
<1>6. CASE SetLevel
  BY <1>2, <1>3, <1>6, NoLog DEF SetLevel
<1>7. CASE Ping
  BY <1>2, <1>7, NoLog DEF Ping
<1>8. CASE ListItems
  BY <1>2, <1>3, <1>4, <1>8, NoLog DEF ListItems
<1>9. CASE ReadItem
  BY <1>2, <1>3, <1>4, <1>9 DEF ReadItem
<1> QED BY <1>5, <1>6, <1>7, <1>8, <1>9

(* A message that is refused.                                              *)
LEMMA SaidRefusal == AnswerInv /\ SaidInv /\ RefuseMessage => SaidInv'
<1> SUFFICES ASSUME AnswerInv, SaidInv, RefuseMessage PROVE SaidInv'
  OBVIOUS
<1>1. open /\ suite' = None
  BY DEF RefuseMessage, Pending
<1>2. \E code : code \in {-32600, -32002, -32601}
                /\ Reply(IF Msg.object THEN Refuse(code) ELSE ErrorResponse(at + 1, None, code), <<>>)
  BY DEF RefuseMessage
<1>3. PICK code : code \in {-32600, -32002, -32601}
                  /\ Reply(IF Msg.object THEN Refuse(code) ELSE ErrorResponse(at + 1, None, code), <<>>)
  BY <1>2
<1>4. code # 0
  BY <1>3
<1> DEFINE r == IF Msg.object THEN Refuse(code) ELSE ErrorResponse(at + 1, None, code)
<1>5. RightAnswer(taken, r)
  BY <1>4, RefusalRight DEF Refuse
<1> HIDE DEF r
<1>6. Reply(r, <<>>)
  BY <1>3 DEF r
<1> QED BY <1>1, <1>5, <1>6, NoLog, SaidReply

(* A notification is not answered.                                         *)
LEMMA SaidNotify == AnswerInv /\ SaidInv /\ Notify => SaidInv'
<1> SUFFICES ASSUME AnswerInv, SaidInv, Notify PROVE SaidInv'
  OBVIOUS
<1>1. PICK said, line, collected, running :
        said = out' /\ line = taken' /\ collected = replies' /\ running = suite'
  OBVIOUS
<1>2. suite' = None /\ UNCHANGED <<scenario, taken, open, replies, out>>
  BY DEF Notify, Pending, project
<1>3. Said(said) /\ (open' => RightAnswers(line, collected))
  BY <1>1, <1>2 DEF SaidInv
<1> QED BY <1>1, <1>2, <1>3, SaidThen

(* A new line has no answers, or an error.                                 *)
LEMMA SaidTakeLine == AnswerInv /\ SaidInv /\ TakeLine => SaidInv'
<1> SUFFICES ASSUME AnswerInv, SaidInv, TakeLine PROVE SaidInv'
  OBVIOUS
<1>1. PICK said, line, collected, running :
        said = out' /\ line = taken' /\ collected = replies' /\ running = suite'
  OBVIOUS
<1>2. suite' = None /\ UNCHANGED <<scenario, out>>
  BY DEF TakeLine, AnswerInv, IsRequestNow, project
<1>3. collected = <<>> \/ collected = <<ErrorResponse(0, None, -32700)>>
  BY <1>1 DEF TakeLine
<1>4. \A i \in DOMAIN collected : collected[i] = ErrorResponse(0, None, -32700)
  BY <1>3
<1>5. RightAnswers(line, collected)
  BY <1>4, RefusalRight DEF RightAnswers
<1>6. Said(said)
  BY <1>1, <1>2 DEF SaidInv
<1> QED BY <1>1, <1>2, <1>5, <1>6, SaidThen

(* The answers to a line are written as they were collected.               *)
LEMMA SaidFinishLine == AnswerInv /\ SaidInv /\ FinishLine => SaidInv'
<1> SUFFICES ASSUME AnswerInv, SaidInv, FinishLine PROVE SaidInv'
  OBVIOUS
<1>1. PICK said, line, collected, running :
        said = out' /\ line = taken' /\ collected = replies' /\ running = suite'
  OBVIOUS
<1>2. suite' = None /\ open /\ open' = FALSE /\ UNCHANGED scenario
  BY DEF FinishLine, Handled, project
<1> DEFINE e == [kind |-> "reply", line |-> taken, answers |-> replies]
<1>3. said = out \/ said = Append(out, e)
  BY <1>1 DEF FinishLine
<1>4. RightAnswers(e.line, e.answers) /\ Said(out)
  BY <1>2 DEF SaidInv
<1>5. IsSequence(out)
  BY DEF AnswerInv, Collected
<1> HIDE DEF e
<1>6. Said(Append(out, e))
  <2>1. /\ DOMAIN out = 1..Len(out) /\ DOMAIN Append(out, e) = 1..(Len(out) + 1) /\ Len(out) \in Nat
        /\ \A i \in 1..Len(out) : Append(out, e)[i] = out[i]
        /\ Append(out, e)[Len(out) + 1] = e
    BY <1>5, AppendIsSequence
  <2>2. \A i \in 1..(Len(out) + 1) : i \in 1..Len(out) \/ i = Len(out) + 1
    BY <2>1
  <2> QED BY <1>4, <2>1, <2>2 DEF Said
<1>7. Said(said)
  BY <1>3, <1>4, <1>6
<1> QED BY <1>1, <1>2, <1>7, SaidThen

-------------------------------------------------------------------------------
(* A tool has answered.                                                    *)
Outcome(result) == [isError |-> result.isError, value |-> result.value, of |-> bin]

(* A tool answers what is right for its call.                              *)
LEMMA SaidCall ==
  ASSUME AnswerInv, SaidInv, open, suite' = None, NEW result, CallAnswered(result),
         Msg.params # None => Right(Msg.params, Outcome(result))
  PROVE  SaidInv'
<1>1. \E level : Reply(Answer(Outcome(result)), MaybeLog(level))
  <2>1. Reply(Answer(Outcome(result)), MaybeLog(IF result.isError THEN "warning" ELSE "info"))
    BY DEF CallAnswered, Outcome
  <2> QED BY <2>1
<1>2. PICK logs : IsLog(logs) /\ Reply(Answer(Outcome(result)), logs)
  BY <1>1, MaybeLogIsLog
<1>3. Answer(Outcome(result)).at = at + 1 /\ Answer(Outcome(result)).result = Outcome(result)
  BY DEF Answer, Response
<1>4. RightAnswer(taken, Answer(Outcome(result)))
  BY <1>3, MessageNow DEF RightAnswer, AsksTool
<1> QED BY <1>2, <1>4, SaidReply

(* A suite that fails promises nothing.                                    *)
LEMMA FailureRight ==
  ASSUME NEW params, params.tool = "valid_suite_run", NEW value, NEW left
  PROVE  Right(params, Outcome(ToolError(value, left)))
<1>1. Outcome(ToolError(value, left)).isError = TRUE
  BY DEF Outcome, ToolError
<1> QED BY <1>1 DEF Right

(* The tools that answer in one step.                                      *)
LEMMA SaidCallTool == AnswerInv /\ SaidInv /\ scenario \in DOMAIN Scenarios /\ CallTool => SaidInv'
<1> SUFFICES ASSUME AnswerInv, SaidInv, scenario \in DOMAIN Scenarios, CallTool PROVE SaidInv'
  OBVIOUS
<1>1. /\ open /\ at < Len(Line(taken).messages) /\ Msg.method = "tools/call" /\ suite' = None
  BY DEF CallTool, Calls, Requests, Pending
<1>2. CASE Msg.params = None
  <2>1. CallAnswered(ToolError(None, files))
    BY <1>2 DEF CallTool
  <2> QED BY <1>1, <1>2, <2>1, SaidCall
<1>3. CASE Msg.params # None /\ Msg.params.tool = "valid_suite_run"
  <2> DEFINE call == Msg.params.call
             result == DslSuiteTool(call, Server, files)
  <2>1. CallAnswered(result)
    BY <1>3 DEF CallTool
  <2>2. Server.registry => call.critical /\ call.suite # None
    BY <1>3 DEF CallTool, RunsSuite
  <2>3. ASSUME ~result.isError
        PROVE  /\ ~Server.registry
               /\ Covered(result.value.runs) = ToSet(SelectSuiteRuns(call, Config))
    BY <2>2, <2>3, DslSuiteAnswers
  <2> HIDE DEF result
  <2>4. Outcome(result).isError = result.isError /\ Outcome(result).value = result.value
    BY DEF Outcome
  <2>5. Right(Msg.params, Outcome(result))
    BY <1>3, <2>3, <2>4 DEF Right
  <2> QED BY <1>1, <2>1, <2>5, SaidCall
<1>4. CASE Msg.params # None /\ Msg.params.tool # "valid_suite_run"
  <2> DEFINE call == Msg.params.call
             result == HandleToolCall(Msg.params.tool, call, Server, World)
  <2>1. CallAnswered(result)
    BY <1>4 DEF CallTool
  <2>2. IsArgs(call)
    BY <1>1, <1>4, MessageCall
  <2>3. Msg.params.tool = "valid_check" => result = CheckTool(call, Server, World)
    BY DEF HandleToolCall
  <2> HIDE DEF result
  <2>4. Msg.params.tool = "valid_check" /\ call.model # None /\ result.value # None
          => result.value = Answered(bin, call)
    BY <2>2, <2>3, CheckToolAnswers
  <2>5. Outcome(result).of = bin /\ Outcome(result).value = result.value
    BY DEF Outcome
  <2>6. Right(Msg.params, Outcome(result))
    BY <1>4, <2>4, <2>5 DEF Right
  <2> QED BY <1>1, <2>1, <2>6, SaidCall
<1> QED BY <1>2, <1>3, <1>4

-------------------------------------------------------------------------------
(* A suite, from the call that begins it to its end.                       *)
LEMMA SaidFailed ==
  ASSUME AnswerInv, SaidInv, open, NEW value, NEW left, EndSuite(ToolError(value, left)),
         Msg.params # None => Msg.params.tool = "valid_suite_run"
  PROVE  SaidInv'
<1>1. CallAnswered(ToolError(value, left)) /\ suite' = None
  BY DEF EndSuite
<1>2. Msg.params # None => Right(Msg.params, Outcome(ToolError(value, left)))
  BY FailureRight
<1> QED BY <1>1, <1>2, SaidCall

(* A suite that goes on rightly.                                           *)
LEMMA SaidProceeds ==
  ASSUME SaidInv, NEW next, Proceed(next), SuiteRight(next)
  PROVE  SaidInv'
<1>1. UNCHANGED <<scenario, taken, open, at, replies, out>>
  BY DEF Proceed, project
<1>2. PICK running : running = suite'
  OBVIOUS
<1>3. running = next
  BY <1>2 DEF Proceed
<1> QED BY <1>1, <1>2, <1>3, SaidRests

(* A suite begins without rows.                                            *)
LEMMA SaidBeginSuite == AnswerInv /\ SaidInv /\ BeginSuite => SaidInv'
<1> SUFFICES ASSUME AnswerInv, SaidInv, BeginSuite PROVE SaidInv'
  OBVIOUS
<1> DEFINE list == RunRegistry([SuiteCall EXCEPT !.command = "list"], Server, World)
           first == [unread |-> list.out.models, catalog |-> <<>>, chosen |-> FALSE,
                     todo |-> <<>>, rows |-> <<>>]
<1>1. open /\ Msg.method = "tools/call" /\ Msg.params # None /\ Msg.params.tool = "valid_suite_run"
  BY DEF BeginSuite, RunsSuite, Calls, Requests, Pending
<1>2. \/ EndSuite(ToolError(None, files))
      \/ suite' = first /\ UNCHANGED <<scenario, taken, open, at, replies, out>>
  BY DEF BeginSuite, project
<1>3. SuiteRight(first)
  <2>1. first.todo = <<>> /\ first.rows = <<>> /\ first.chosen = FALSE /\ DOMAIN <<>> = {}
    OBVIOUS
  <2>2. IsSuite(first)
    BY DEF IsSuite
  <2> HIDE DEF first
  <2> QED BY <1>1, <2>1, <2>2, NoneIsSequence DEF SuiteRight, RightRows
<1> HIDE DEF first
<1>4. PICK running : running = suite'
  OBVIOUS
<1> QED BY <1>1, <1>2, <1>3, <1>4, SaidFailed, SaidRests

(* The pair at hand becomes a row.                                         *)
LEMMA RowAdds ==
  ASSUME NEW s, SuiteRight(s), s.chosen, s.todo # <<>>, scenario \in DOMAIN Scenarios, IsArgs(Msg.params.call),
         NEW check, check = RunRegistry([SuiteCall EXCEPT !.command = "check", !.model = Head(s.todo)[1],
                                                          !.property = Head(s.todo)[2]], Server, World),
         check.out # None,
         NEW next, IsSuite(next), next.chosen = s.chosen, next.todo = Tail(s.todo),
         next.rows = Append(s.rows, SuiteRow(Head(s.todo)[1], Head(s.todo)[2], bin, check.out))
  PROVE  SuiteRight(next)
<1> DEFINE call == Msg.params.call
           run == Head(s.todo)
           row == SuiteRow(run[1], run[2], bin, check.out)
           asked == ToSet(SelectSuiteRuns(call, Config))
           args == [call EXCEPT !.command = "check", !.model = run[1], !.property = run[2]]
           told == RowOf(call, row)
<1>1. /\ IsSequence(s.rows) /\ IsSequence(s.todo) /\ RightRows(call, s.rows)
      /\ Covered(s.rows) \cup ToSet(s.todo) = asked
  BY DEF SuiteRight
<1>2. /\ IsSequence(Tail(s.todo)) /\ Len(Tail(s.todo)) = Len(s.todo) - 1 /\ Len(s.todo) \in Nat
      /\ Len(s.todo) > 0 /\ run = s.todo[1]
      /\ \A k \in 1..Len(Tail(s.todo)) : k + 1 \in 1..Len(s.todo) /\ Tail(s.todo)[k] = s.todo[k + 1]
  BY <1>1, RestIsSequence
<1>3. DOMAIN s.todo = 1..Len(s.todo) /\ DOMAIN Tail(s.todo) = 1..Len(Tail(s.todo))
  BY <1>1, <1>2 DEF IsSequence
<1>4. ToSet(s.todo) = {run} \cup ToSet(Tail(s.todo))
  <2>1. \A k \in 1..Len(s.todo) : k = 1 \/ (k - 1 \in 1..Len(Tail(s.todo)) /\ Tail(s.todo)[k - 1] = s.todo[k])
    <3>1. \A k \in 1..Len(s.todo) : k = 1 \/ (k - 1 \in 1..Len(Tail(s.todo)) /\ (k - 1) + 1 = k)
      BY <1>2
    <3> QED BY <1>2, <3>1
  <2>2. 1 \in 1..Len(s.todo)
    BY <1>2
  <2> QED BY <1>2, <1>3, <2>1, <2>2 DEF ToSet
<1>5. run = <<run[1], run[2]>>
  <2>1. run \in asked
    BY <1>1, <1>4
  <2> QED BY <2>1, SelectedPairs
<1>6. row.model = run[1] /\ row.property = run[2] /\ row.of = bin /\ row.answer = check.out
  BY DEF SuiteRow
<1> HIDE DEF row, run
<1>7. /\ IsSequence(next.rows) /\ DOMAIN s.rows = 1..Len(s.rows) /\ Len(s.rows) \in Nat
      /\ DOMAIN next.rows = 1..(Len(s.rows) + 1)
      /\ \A i \in 1..Len(s.rows) : next.rows[i] = s.rows[i]
      /\ next.rows[Len(s.rows) + 1] = row
  BY <1>1, AppendIsSequence DEF row, run
<1>8. \A i \in 1..(Len(s.rows) + 1) : i \in 1..Len(s.rows) \/ i = Len(s.rows) + 1
  BY <1>7
<1>9. Covered(next.rows) = Covered(s.rows) \cup {run}
  <2>1. \A i \in 1..Len(s.rows) :
          <<next.rows[i].model, next.rows[i].property>> = <<s.rows[i].model, s.rows[i].property>>
    BY <1>7
  <2>2. <<next.rows[Len(s.rows) + 1].model, next.rows[Len(s.rows) + 1].property>> = run
    BY <1>5, <1>6, <1>7
  <2>3. Len(s.rows) + 1 \in 1..(Len(s.rows) + 1)
    BY <1>7
  <2>4. \A i \in 1..Len(s.rows) : i \in 1..(Len(s.rows) + 1)
    BY <1>7
  <2> DEFINE before(i) == <<s.rows[i].model, s.rows[i].property>>
             after(i) == <<next.rows[i].model, next.rows[i].property>>
  <2>5. Covered(s.rows) = {before(i) : i \in 1..Len(s.rows)}
    BY <1>7 DEF Covered
  <2>6. Covered(next.rows) = {after(i) : i \in 1..(Len(s.rows) + 1)}
    BY <1>7 DEF Covered
  <2>7. (\A i \in 1..Len(s.rows) : after(i) = before(i)) /\ after(Len(s.rows) + 1) = run
    BY <2>1, <2>2
  <2> HIDE DEF before, after
  <2> QED BY <1>8, <2>3, <2>4, <2>5, <2>6, <2>7
<1>10. check.out = Answered(bin, told)
  <2>1. {"command", "model", "property", "backend", "solver"} \subseteq DOMAIN call
    BY DEF IsArgs, Fields
  <2>2. /\ args.command = "check" /\ args.model = run[1] /\ args.property = run[2]
        /\ args.backend = call.backend /\ args.solver = call.solver
    BY <2>1
  <2>3. /\ told.model = run[1] /\ told.property = run[2]
        /\ told.backend = call.backend /\ told.solver = call.solver
    BY <1>6, <2>1 DEF RowOf
  <2>4. check = RunRegistry(args, Server, World)
    BY DEF SuiteCall, run
  <2> HIDE DEF args, told
  <2>5. Adapter(args) = Adapter(told)
    BY <2>2, <2>3 DEF Adapter
  <2>6. check.out = Answered(bin, args)
    BY <2>2, <2>4, BinaryAnswers
  <2> QED BY <2>2, <2>3, <2>5, <2>6, SameAnswer
<1>11. RightRows(call, next.rows)
  BY <1>1, <1>6, <1>7, <1>8, <1>10 DEF RightRows
<1>12. Covered(next.rows) \cup ToSet(next.todo) = asked
  BY <1>1, <1>4, <1>9 DEF run
<1> QED BY <1>2, <1>7, <1>11, <1>12 DEF SuiteRight

(* The steps of a suite: the inspections, the choice of the pairs, the     *)
(* checks, and the end, when no pair is left.                              *)
LEMMA SaidSuite ==
  ASSUME AnswerInv, SaidInv, scenario \in DOMAIN Scenarios,
         InspectNext \/ ChooseRuns \/ RunNext \/ ReturnRows
  PROVE  SaidInv'
<1> DEFINE call == Msg.params.call
<1>1. suite # None /\ SuiteRight(suite)
  BY DEF InspectNext, ChooseRuns, RunNext, ReturnRows, InSuite, SaidInv
<1>2. open /\ at < Len(Line(taken).messages)
  BY <1>1 DEF AnswerInv, IsRequestNow
<1>3. /\ Msg.method = "tools/call" /\ Msg.params # None /\ Msg.params.tool = "valid_suite_run"
      /\ IsSequence(suite.rows) /\ IsSequence(suite.todo) /\ RightRows(call, suite.rows)
      /\ ~suite.chosen => suite.rows = <<>>
  BY <1>1 DEF SuiteRight
<1>4. ASSUME EndSuite(ToolError(None, files)) PROVE SaidInv'
  BY <1>2, <1>3, <1>4, SaidFailed
<1>5. IsSuite(suite)
  BY <1>1 DEF SuiteRight
<1>6. CASE InspectNext
  <2>1. \E left, models : EndSuite(ToolError(None, files))
          \/ Proceed([suite EXCEPT !.unread = left, !.catalog = models])
    BY <1>5, <1>6, Zenon DEF InspectNext, IsSuite
  <2>2. PICK left, models : EndSuite(ToolError(None, files))
          \/ Proceed([suite EXCEPT !.unread = left, !.catalog = models])
    BY <2>1
  <2> DEFINE next == [suite EXCEPT !.unread = left, !.catalog = models]
  <2>3. /\ next.rows = suite.rows /\ next.todo = suite.todo /\ next.chosen = suite.chosen
        /\ IsSuite(next)
    BY <1>5 DEF IsSuite
  <2>4. EndSuite(ToolError(None, files)) \/ Proceed(next)
    BY <2>2
  <2> HIDE DEF next
  <2>5. SuiteRight(next)
    BY <1>1, <2>3 DEF SuiteRight
  <2> QED BY <1>4, <2>4, <2>5, SaidProceeds
<1>7. CASE ChooseRuns
  <2> DEFINE runs == SelectSuiteRuns(call, Config)
             next == [suite EXCEPT !.chosen = TRUE, !.todo = ExpandTargets(runs)]
  <2>1. ~suite.chosen /\ (EndSuite(ToolError(None, files)) \/ Proceed(next))
    BY <1>7 DEF ChooseRuns, SuiteCall
  <2>2. /\ next.rows = suite.rows /\ next.todo = ExpandTargets(runs) /\ next.chosen = TRUE
        /\ IsSuite(next)
    BY <1>5 DEF IsSuite
  <2>3. IsSequence(ExpandTargets(runs)) /\ ToSet(ExpandTargets(runs)) = ToSet(runs)
    BY SelectedPairs, ExpandKeeps
  <2>4. Covered(suite.rows) = {}
    <3>1. suite.rows = <<>> /\ DOMAIN <<>> = {}
      BY <1>3, <2>1
    <3> QED BY <3>1 DEF Covered
  <2> HIDE DEF next
  <2>5. SuiteRight(next)
    BY <1>3, <2>2, <2>3, <2>4 DEF SuiteRight
  <2> QED BY <1>4, <2>1, <2>5, SaidProceeds
<1>8. CASE RunNext
  <2> DEFINE run == Head(suite.todo)
             check == RunRegistry([SuiteCall EXCEPT !.command = "check", !.model = run[1],
                                                    !.property = run[2]], Server, World)
             row == SuiteRow(run[1], run[2], bin, check.out)
             next == [suite EXCEPT !.todo = Tail(@), !.rows = Append(@, row)]
  <2>1. /\ suite.chosen /\ suite.todo # <<>>
        /\ EndSuite(ToolError(None, files)) \/ (check.out # None /\ Proceed(next))
    BY <1>8 DEF RunNext
  <2>2. /\ next.rows = Append(suite.rows, row) /\ next.todo = Tail(suite.todo)
        /\ next.chosen = suite.chosen /\ IsSuite(next)
    BY <1>5 DEF IsSuite
  <2>3. IsArgs(call)
    BY <1>2, <1>3, MessageCall
  <2> HIDE DEF next
  <2>4. ASSUME check.out # None PROVE SuiteRight(next)
    BY <1>1, <2>1, <2>2, <2>3, <2>4, RowAdds
  <2> QED BY <1>4, <2>1, <2>4, SaidProceeds
<1>9. CASE ReturnRows
  <2> DEFINE result == ToolSuccess([runs |-> suite.rows], files)
  <2>1. suite.chosen /\ suite.todo = <<>> /\ EndSuite(result)
    BY <1>9 DEF ReturnRows
  <2>2. CallAnswered(result) /\ suite' = None
    BY <2>1 DEF EndSuite
  <2>3. Outcome(result).value.runs = suite.rows
    BY DEF Outcome, ToolSuccess
  <2>4. ToSet(suite.todo) = {}
    <3>1. DOMAIN <<>> = {}
      OBVIOUS
    <3> QED BY <2>1, <3>1 DEF ToSet
  <2>5. Covered(suite.rows) = ToSet(SelectSuiteRuns(call, Config))
    BY <1>1, <2>1, <2>4 DEF SuiteRight
  <2> HIDE DEF result
  <2>6. Right(Msg.params, Outcome(result))
    BY <1>3, <2>3, <2>5 DEF Right
  <2> QED BY <1>2, <2>2, <2>6, SaidCall
<1> QED BY <1>6, <1>7, <1>8, <1>9

(* The developer, the terminal, and the start and the end of the server.   *)
LEMMA SaidOutside ==
  ASSUME AnswerInv, SaidInv,
         \/ (Develop \/ WorkTerminal) /\ UNCHANGED dialogue
         \/ StartServer \/ StopServer \/ UNCHANGED vars
  PROVE  SaidInv'
<1>1. scenario' = scenario
  BY DEF Develop, SaveCrate, SaveFile, WorkTerminal, StartCommands, RefuseSuite, StartSuite,
         FetchModels, RunRegistryChild, FailBuild, RunFileChild, RunClean, EndJob, Ran,
         StartServer, StopServer, vars, project
<1>2. UNCHANGED <<taken, open, at, replies, suite, out>>
  BY DEF StartServer, StopServer, vars, dialogue
<1> QED BY <1>1, <1>2, SaidWaits

(* Every step keeps what the server said right.                            *)
LEMMA SaidNext == AnswerInv /\ SaidInv /\ scenario \in DOMAIN Scenarios /\ [Next]_vars => SaidInv'
BY SaidTakeLine, SaidFinishLine, SaidRefusal, SaidNotify, SaidMethods, SaidCallTool, SaidBeginSuite,
   SaidSuite, SaidOutside DEF Next, Work, Serve, HandleMessage

(* Nothing was said at first.                                              *)
LEMMA SaidInit == Init => SaidInv
<1> SUFFICES ASSUME Init PROVE SaidInv
  OBVIOUS
<1>1. out = <<>> /\ open = FALSE /\ suite = None /\ DOMAIN <<>> = {}
  BY DEF Init, MInit
<1> QED BY <1>1 DEF SaidInv, Said

-------------------------------------------------------------------------------
(* What holds of every child of every job holds of the history.            *)
LEMMA HonestHistory ==
  ASSUME JobInv, HonestJobs
  PROVE  IsSequence(History) /\ \A i \in DOMAIN History : Honest(History[i])
<1> DEFINE dones == [j \in DOMAIN reports |-> reports[j].done]
           before == FlattenSeq(dones)
           hand == IF job = Idle THEN <<>> ELSE job.done
           S == UNION {ToSet(reports[j].done) : j \in DOMAIN reports}
           T == {child \in S \cup ToSet(hand) : Honest(child)}
<1>1. DOMAIN reports = 1..Len(reports) /\ Len(reports) \in Nat
  BY DEF JobInv, AllEnded, IsSequence
<1>2. \A j \in DOMAIN reports : IsSequence(reports[j].done)
                                /\ \A i \in DOMAIN reports[j].done : Honest(reports[j].done[i])
  BY DEF HonestJobs, HonestJob
<1>3. IsSequence(hand) /\ \A i \in DOMAIN hand : Honest(hand[i])
  <2>1. DOMAIN <<>> = {}
    OBVIOUS
  <2> QED BY <2>1, NoneIsSequence DEF HonestJobs, HonestJob
<1> HIDE DEF hand
<1>4. \A s, U : IsSequence(s) /\ ToSet(s) \subseteq U => s \in Seq(U)
  <2> SUFFICES ASSUME NEW s, NEW U, IsSequence(s), ToSet(s) \subseteq U PROVE s \in Seq(U)
    OBVIOUS
  <2>1. /\ Len(s) \in Nat /\ s = [i \in 1..Len(s) |-> s[i]] /\ \A i \in 1..Len(s) : s[i] \in U
    BY DEF IsSequence, ToSet
  <2> QED BY <2>1
<1>5. ASSUME NEW j \in DOMAIN reports PROVE reports[j].done \in Seq(T)
  <2>1. ToSet(reports[j].done) \subseteq T
    BY <1>2 DEF ToSet
  <2> HIDE DEF T
  <2> QED BY <1>2, <1>4, <2>1
<1>6. hand \in Seq(T)
  <2>1. ToSet(hand) \subseteq T
    BY <1>3 DEF ToSet
  <2> HIDE DEF T
  <2> QED BY <1>3, <1>4, <2>1
<1>7. \A child \in T : Honest(child)
  OBVIOUS
<1> HIDE DEF T
<1>8. dones \in Seq(Seq(T))
  <2>1. dones \in [1..Len(reports) -> Seq(T)]
    BY <1>1, <1>5
  <2> QED BY <1>1, <2>1
<1>9. History = before \o hand
  BY DEF History, hand
<1> HIDE DEF dones, before
<1>10. before \in Seq(T)
  BY <1>8, FlattenCovers DEF before
<1>11. History \in Seq(T)
  BY <1>6, <1>9, <1>10
<1>12. \A i \in DOMAIN History : History[i] \in T
  BY <1>11
<1> QED BY <1>7, <1>11, <1>12 DEF IsSequence

(* What is said of a question is what a check answers to it.               *)
SaysRight(s) ==
  \E a : /\ s.model = a.model /\ s.engine = Adapter(a) /\ s.asked = Asked(s.of, a)
         /\ s.answer = Answered(s.of, a)

(* Such an answer makes a saying right.                                    *)
LEMMA SayingRight ==
  ASSUME NEW of, NEW a, NEW answer, answer = Answered(of, a)
  PROVE  SaysRight(Saying(of, a, answer))
<1> DEFINE s == Saying(of, a, answer)
<1>1. s.of = of /\ s.model = a.model /\ s.engine = Adapter(a) /\ s.asked = Asked(of, a) /\ s.answer = answer
  BY DEF Saying, Asked
<1> HIDE DEF s
<1>2. SaysRight(s)
  BY <1>1 DEF SaysRight
<1> QED BY <1>2 DEF s

(* The terminal says what is right.                                        *)
LEMMA TerminalRight ==
  ASSUME JobInv, HonestJobs, NEW s \in TerminalSays
  PROVE  SaysRight(s)
<1>1. PICK i \in DOMAIN History :
        /\ History[i].args.command = "check" /\ History[i].args.file = None /\ History[i].out # None
        /\ s = Saying(History[i].of, WithDefaults(Config, History[i].args), History[i].out)
  BY DEF TerminalSays
<1>2. Honest(History[i])
  BY HonestHistory
<1>3. History[i].out = Answered(History[i].of, WithDefaults(Config, History[i].args))
  BY <1>1, <1>2 DEF Honest
<1> QED BY <1>1, <1>3, SayingRight

(* Results are answers to calls.                                           *)
LEMMA ResultsRight ==
  ASSUME SaidInv, NEW r \in Results
  PROVE  Right(r.call, r.result)
<1>1. PICK e \in WrittenReplies : \E a \in ToSet(e.answers) :
        /\ a.error = 0 /\ a.at > 0 /\ MessageAt(<<e.line, a.at>>).method = "tools/call"
        /\ MessageAt(<<e.line, a.at>>).params # None
        /\ r = [call |-> MessageAt(<<e.line, a.at>>).params, result |-> a.result]
  BY DEF Results
<1>2. PICK a \in ToSet(e.answers) :
        /\ a.error = 0 /\ a.at > 0 /\ MessageAt(<<e.line, a.at>>).method = "tools/call"
        /\ MessageAt(<<e.line, a.at>>).params # None
        /\ r = [call |-> MessageAt(<<e.line, a.at>>).params, result |-> a.result]
  BY <1>1
<1>3. PICK k \in DOMAIN out : out[k] = e /\ e.kind = "reply"
  BY DEF WrittenReplies, ToSet
<1>4. PICK i \in DOMAIN e.answers : e.answers[i] = a
  BY DEF ToSet
<1>5. RightAnswer(e.line, a)
  BY <1>3, <1>4 DEF SaidInv, Said, RightAnswers
<1>6. Right(MessageAt(<<e.line, a.at>>).params, a.result)
  BY <1>2, <1>5 DEF RightAnswer, AsksTool
<1>7. r.call = MessageAt(<<e.line, a.at>>).params /\ r.result = a.result
  BY <1>2
<1> QED BY <1>6, <1>7

(* So does the server.                                                     *)
LEMMA ServerRight ==
  ASSUME SaidInv, NEW s \in ServerSays
  PROVE  SaysRight(s)
<1>1. CASE \E r \in Results : /\ r.call.tool = "valid_check" /\ r.result.value # None
                              /\ r.call.call.model # None
                              /\ s = Saying(r.result.of, r.call.call, r.result.value)
  <2>1. PICK r \in Results : /\ r.call.tool = "valid_check" /\ r.result.value # None
                              /\ r.call.call.model # None
                              /\ s = Saying(r.result.of, r.call.call, r.result.value)
    BY <1>1
  <2>2. Right(r.call, r.result)
    BY ResultsRight
  <2>3. r.result.value = Answered(r.result.of, r.call.call)
    BY <2>1, <2>2 DEF Right
  <2> QED BY <2>1, <2>3, SayingRight
<1>2. CASE \E r \in Results : /\ r.call.tool = "valid_suite_run" /\ ~r.result.isError /\ Server.registry
                              /\ \E row \in ToSet(r.result.value.runs) :
                                   s = Saying(row.of, RowOf(r.call.call, row), row.answer)
  <2>1. PICK r \in Results : /\ r.call.tool = "valid_suite_run" /\ ~r.result.isError /\ Server.registry
                              /\ \E row \in ToSet(r.result.value.runs) :
                                   s = Saying(row.of, RowOf(r.call.call, row), row.answer)
    BY <1>2
  <2>2. PICK row \in ToSet(r.result.value.runs) : s = Saying(row.of, RowOf(r.call.call, row), row.answer)
    BY <2>1
  <2>3. Right(r.call, r.result)
    BY ResultsRight
  <2>4. RightRows(r.call.call, r.result.value.runs)
    BY <2>1, <2>3 DEF Right
  <2>5. row.answer = Answered(row.of, RowOf(r.call.call, row))
    BY <2>4 DEF RightRows, ToSet
  <2> QED BY <2>2, <2>5, SayingRight
<1> QED BY <1>1, <1>2 DEF ServerSays, RowOf

(* What the two surfaces said is right, so they agree.                     *)
SaysInv == AnswerInv /\ JobInv /\ HonestJobs /\ SaidInv

(* What is right is one answer to one question.                            *)
LEMMA TheyAgree == SaysInv => SurfacesAgree
<1> SUFFICES ASSUME SaysInv PROVE SurfacesAgree
  OBVIOUS
<1>1. ASSUME NEW s, s \in TerminalSays \cup ServerSays PROVE SaysRight(s)
  BY <1>1, TerminalRight, ServerRight DEF SaysInv
<1>2. ASSUME NEW s \in TerminalSays \cup ServerSays, NEW t \in TerminalSays \cup ServerSays,
             s.of = t.of, s.model = t.model, s.asked = t.asked, s.engine = t.engine
      PROVE  s.answer = t.answer
  <2>1. PICK a : /\ s.model = a.model /\ s.engine = Adapter(a) /\ s.asked = Asked(s.of, a)
                 /\ s.answer = Answered(s.of, a)
    BY <1>1 DEF SaysRight
  <2>2. PICK b : /\ t.model = b.model /\ t.engine = Adapter(b) /\ t.asked = Asked(t.of, b)
                 /\ t.answer = Answered(t.of, b)
    BY <1>1 DEF SaysRight
  <2>3. PICK of : of = s.of
    OBVIOUS
  <2>4. a.model = b.model /\ Adapter(a) = Adapter(b) /\ Asked(of, a) = Asked(of, b)
    BY <1>2, <2>1, <2>2, <2>3
  <2>5. Answered(of, a) = Answered(of, b)
    BY <2>4, OneAnswer
  <2> QED BY <1>2, <2>1, <2>2, <2>3, <2>5
<1>3. ASSUME NEW s \in ServerSays PROVE s.answer.property = s.asked
  <2>1. PICK a : s.asked = Asked(s.of, a) /\ s.answer = Answered(s.of, a)
    BY <1>1 DEF SaysRight
  <2> QED BY <2>1, AnswersTheAsked
<1>4. ASSUME NEW r \in Results, r.call.tool = "valid_suite_run", ~r.result.isError
      PROVE  {<<row.model, row.property>> : row \in ToSet(r.result.value.runs)}
               = ToSet(SelectSuiteRuns(r.call.call, Config))
  <2>1. Right(r.call, r.result)
    BY ResultsRight DEF SaysInv
  <2>2. Covered(r.result.value.runs) = ToSet(SelectSuiteRuns(r.call.call, Config))
    BY <1>4, <2>1 DEF Right
  <2> QED BY <2>2 DEF Covered, ToSet
<1> QED BY <1>2, <1>3, <1>4 DEF SurfacesAgree

(* Every step keeps it.                                                    *)
LEMMA SaysNext == SaysInv /\ [Next]_vars => SaysInv'
BY AnswerNext, JobNext, HonestNext, SaidNext DEF SaysInv, JobInv

(* The terminal and the server give one answer to one question about one   *)
(* version, whoever asked first and however often the registry was rebuilt *)
(* in between, each about the property it was asked for; and a suite that  *)
(* came to its end has a row for each pair of it.                          *)
THEOREM OneAnswerForAll == Spec => []SurfacesAgree
<1>1. Init => SaysInv
  BY AnswerInit, JobInit, HonestInit, SaidInit DEF SaysInv
<1> QED BY <1>1, SaysNext, TheyAgree, PTL DEF Spec

-------------------------------------------------------------------------------
(* What drift makes of the lock files the terminal wrote.                  *)

(* What FlattenSeq chooses.                                                *)
LEMMA FlatOf ==
  ASSUME NEW seqs, Len(seqs) \in Nat, Len(seqs) # 0
  PROVE  \E f : IsFlat(seqs, Len(seqs), f) /\ FlattenSeq(seqs) = f[Len(seqs)]
<1> DEFINE n == Len(seqs)
           f == CHOOSE f : f = [i \in 1..Len(seqs) |-> IF i = 1 THEN seqs[i] ELSE f[i - 1] \o seqs[i]]
<1>1. FlattenSeq(seqs) = f[n]
  BY DEF FlattenSeq
<1>2. \E h : IsFlat(seqs, n, h)
  <2> HIDE DEF f, n
  <2>1. n \in Nat
    BY DEF n
  <2> QED BY <2>1, FlatExists
<1>3. IsFlat(seqs, n, f)
  BY <1>2 DEF IsFlat
<1> QED BY <1>1, <1>3

(* One more part is one more piece.                                        *)
LEMMA FlattenAppended ==
  ASSUME NEW S, NEW seqs \in Seq(Seq(S)), NEW last \in Seq(S)
  PROVE  FlattenSeq(Append(seqs, last)) = FlattenSeq(seqs) \o last
<1> DEFINE n == Len(seqs)  q == Append(seqs, last)
<1>1. n \in Nat /\ Len(q) = n + 1 /\ (\A i \in 1..n : q[i] = seqs[i]) /\ q[n + 1] = last
  OBVIOUS
<1> HIDE DEF q
<1>2. Len(q) \in Nat /\ Len(q) # 0
  BY <1>1
<1>3. PICK g : IsFlat(q, n + 1, g) /\ FlattenSeq(q) = g[n + 1]
  BY <1>1, <1>2, FlatOf
<1>4. \A i \in 1..(n + 1) : g[i] = IF i = 1 THEN q[i] ELSE g[i - 1] \o q[i]
  BY <1>3 DEF IsFlat
<1>5. n + 1 \in 1..(n + 1) /\ (n + 1) - 1 = n
  BY <1>1
<1>6. CASE n = 0
  <2>1. FlattenSeq(seqs) = seqs /\ seqs = <<>>
    BY <1>6 DEF FlattenSeq
  <2>2. FlattenSeq(q) = last
    BY <1>1, <1>3, <1>4, <1>5, <1>6
  <2> QED BY <2>1, <2>2, ConcatEmptySeq DEF q
<1>7. CASE n # 0
  <2>1. PICK f : IsFlat(seqs, n, f) /\ FlattenSeq(seqs) = f[n]
    BY <1>1, <1>7, FlatOf
  <2>2. \A i \in 1..n : f[i] = IF i = 1 THEN seqs[i] ELSE f[i - 1] \o seqs[i]
    BY <2>1 DEF IsFlat
  <2> DEFINE T == {k \in Nat : k \in 1..n => g[k] = f[k]}
  <2>3. 0 \in T
    OBVIOUS
  <2>4. ASSUME NEW k \in T, k + 1 \in 1..n PROVE g[k + 1] = f[k + 1]
    <3>1. k + 1 \in 1..(n + 1) /\ q[k + 1] = seqs[k + 1] /\ (k + 1) - 1 = k
      BY <1>1, <2>4
    <3>2. k + 1 # 1 => k \in 1..n
      BY <2>4
    <3>3. k + 1 # 1 => g[k] = f[k]
      BY <3>2
    <3>4. g[k + 1] = IF k + 1 = 1 THEN q[k + 1] ELSE g[k] \o q[k + 1]
      BY <1>4, <3>1
    <3>5. f[k + 1] = IF k + 1 = 1 THEN seqs[k + 1] ELSE f[k] \o seqs[k + 1]
      BY <2>2, <2>4, <3>1
    <3> QED BY <3>1, <3>3, <3>4, <3>5
  <2>5. T = Nat
    <3>1. T \subseteq Nat /\ \A k \in T : k + 1 \in T
      BY <2>4
    <3> HIDE DEF T
    <3> QED BY <2>3, <3>1, Induction
  <2>6. n \in 1..n /\ n \in T
    BY <1>1, <1>7, <2>5
  <2>7. g[n] = f[n]
    BY <2>6
  <2>8. g[n + 1] = g[n] \o q[n + 1]
    <3>1. n + 1 # 1
      BY <1>1, <1>7
    <3> HIDE DEF n
    <3> QED BY <1>4, <1>5, <3>1
  <2> QED BY <1>1, <1>3, <2>1, <2>7, <2>8 DEF q
<1> QED BY <1>6, <1>7

(* Of finitely many numbers one is the largest, and one the smallest.      *)
LEMMA Extremes ==
  ASSUME NEW n \in Nat
  PROVE  \A S \in SUBSET (1..n) : S # {} => /\ \E i \in S : \A k \in S : k <= i
                                           /\ \E i \in S : \A k \in S : i <= k
<1> DEFINE Holds(k) == \A S \in SUBSET (1..k) :
                         S # {} => (\E i \in S : \A j \in S : j <= i) /\ (\E i \in S : \A j \in S : i <= j)
           T == {k \in Nat : Holds(k)}
<1>1. 0 \in T
  <2>1. 1..0 = {}
    OBVIOUS
  <2> QED BY <2>1
<1>2. ASSUME NEW k \in T PROVE k + 1 \in T
  <2> SUFFICES ASSUME NEW S \in SUBSET (1..(k + 1)), S # {}
               PROVE  (\E i \in S : \A j \in S : j <= i) /\ (\E i \in S : \A j \in S : i <= j)
    OBVIOUS
  <2> DEFINE R == S \ {k + 1}
  <2>1. R \in SUBSET (1..k)
    OBVIOUS
  <2>2. R = {} => S = {k + 1}
    OBVIOUS
  <2>3. \A j \in S : j \in R \/ j = k + 1
    OBVIOUS
  <2>4. R # {} => (\E i \in R : \A j \in R : j <= i) /\ (\E i \in R : \A j \in R : i <= j)
    <3> HIDE DEF R
    <3> QED BY <2>1
  <2>5. k + 1 \in Nat /\ k + 1 <= k + 1 /\ \A j \in R : j <= k + 1 /\ j \in S
    BY <2>1
  <2> HIDE DEF R, T
  <2>6. CASE R = {}
    BY <2>2, <2>5, <2>6
  <2>7. CASE R # {}
    <3>1. \E i \in S : \A j \in S : i <= j
      BY <2>3, <2>4, <2>5, <2>7
    <3>2. \E i \in S : \A j \in S : j <= i
      <4>1. CASE k + 1 \in S
        BY <2>3, <2>5, <4>1
      <4>2. CASE k + 1 \notin S
        BY <2>3, <2>4, <2>5, <2>7, <4>2
      <4> QED BY <4>1, <4>2
    <3> QED BY <3>1, <3>2
  <2> QED BY <2>6, <2>7
<1>3. T = Nat
  <2>1. T \subseteq Nat
    OBVIOUS
  <2> HIDE DEF T
  <2> QED BY <1>1, <1>2, <2>1, Induction
<1> QED BY <1>3

(* The history, told of the reports and of the job at hand.                *)
Parts(ended) == [k \in DOMAIN ended |-> ended[k].done]
HandOf(j) == IF j = Idle THEN <<>> ELSE j.done
HistoryOf(ended, j) == FlattenSeq(Parts(ended)) \o HandOf(j)

AllOrdered(ended) == IsSequence(ended) /\ \A k \in DOMAIN ended : IsSequence(ended[k].done)

(* The children of finitely many jobs.                                     *)
LEMMA PartsOf ==
  ASSUME NEW ended, AllOrdered(ended), NEW some, IsSequence(some)
  PROVE  \E S : Parts(ended) \in Seq(Seq(S)) /\ some \in Seq(S)
<1> DEFINE R == UNION {ToSet(ended[k].done) : k \in DOMAIN ended}
           S == R \cup ToSet(some)
<1>1. \A s, U : IsSequence(s) /\ ToSet(s) \subseteq U => s \in Seq(U)
  <2> SUFFICES ASSUME NEW s, NEW U, IsSequence(s), ToSet(s) \subseteq U PROVE s \in Seq(U)
    OBVIOUS
  <2>1. /\ Len(s) \in Nat /\ s = [i \in 1..Len(s) |-> s[i]] /\ \A i \in 1..Len(s) : s[i] \in U
    BY DEF IsSequence, ToSet
  <2> QED BY <2>1
<1>2. DOMAIN ended = 1..Len(ended) /\ Len(ended) \in Nat
  BY DEF AllOrdered, IsSequence
<1>3. ASSUME NEW k \in DOMAIN ended PROVE ended[k].done \in Seq(S)
  <2>1. ToSet(ended[k].done) \subseteq S
    OBVIOUS
  <2> HIDE DEF S
  <2> QED BY <1>1, <2>1 DEF AllOrdered
<1>4. some \in Seq(S)
  <2>1. ToSet(some) \subseteq S
    <3> HIDE DEF R
    <3> QED OBVIOUS
  <2> HIDE DEF S
  <2> QED BY <1>1, <2>1
<1> HIDE DEF S
<1>5. Parts(ended) \in [1..Len(ended) -> Seq(S)]
  BY <1>2, <1>3 DEF Parts
<1>6. Parts(ended) \in Seq(Seq(S))
  BY <1>2, <1>5
<1> QED BY <1>4, <1>6

(* A report behind the others.                                             *)
LEMMA PartsAppended ==
  ASSUME NEW ended, AllOrdered(ended), NEW r, IsSequence(r.done)
  PROVE  FlattenSeq(Parts(Append(ended, r))) = FlattenSeq(Parts(ended)) \o r.done
<1> DEFINE q == Append(ended, r)  parts == Parts(ended)  e == r.done
<1>1. /\ DOMAIN q = 1..(Len(ended) + 1) /\ Len(ended) \in Nat /\ DOMAIN ended = 1..Len(ended)
      /\ (\A i \in 1..Len(ended) : q[i] = ended[i]) /\ q[Len(ended) + 1] = r
  BY AppendIsSequence DEF AllOrdered
<1>2. PICK S : parts \in Seq(Seq(S)) /\ e \in Seq(S)
  BY PartsOf
<1>3. DOMAIN parts = 1..Len(ended) /\ \A i \in 1..Len(ended) : parts[i] = ended[i].done
  BY <1>1 DEF Parts
<1> HIDE DEF parts, e
<1>4. Len(parts) = Len(ended)
  BY <1>1, <1>2, <1>3
<1>5. /\ Append(parts, e) = [i \in 1..(Len(ended) + 1) |-> Append(parts, e)[i]]
      /\ (\A i \in 1..Len(ended) : Append(parts, e)[i] = parts[i]) /\ Append(parts, e)[Len(ended) + 1] = e
  <2>1. \A s : IsSequence(s) => s = [i \in DOMAIN s |-> s[i]]
    BY DEF IsSequence
  <2>2. IsSequence(parts)
    BY <1>2 DEF IsSequence
  <2>3. Append(parts, e) = [i \in DOMAIN Append(parts, e) |-> Append(parts, e)[i]]
    <3> DEFINE z == Append(parts, e)
    <3>1. IsSequence(z)
      BY <2>2, AppendIsSequence
    <3> HIDE DEF z
    <3>2. z = [i \in DOMAIN z |-> z[i]]
      BY <2>1, <3>1
    <3> QED BY <3>2 DEF z
  <2> QED BY <1>4, <2>2, <2>3, AppendIsSequence
<1>6. \A i \in 1..(Len(ended) + 1) : i \in 1..Len(ended) \/ i = Len(ended) + 1
  BY <1>1
<1>7. \A i \in 1..(Len(ended) + 1) : q[i].done = Append(parts, e)[i]
  BY <1>1, <1>3, <1>5, <1>6 DEF e
<1>8. Parts(q) = [i \in 1..(Len(ended) + 1) |-> q[i].done]
  BY <1>1 DEF Parts
<1> HIDE DEF q
<1>9. Parts(q) = Append(parts, e)
  BY <1>5, <1>7, <1>8
<1> QED BY <1>2, <1>9, FlattenAppended DEF q, parts, e

(* A job ends, is refused, begins, and runs a child.                       *)
LEMMA HistoryMoves ==
  ASSUME NEW ended, AllOrdered(ended), NEW j, IsSequence(HandOf(j)), NEW next
  PROVE  /\ IsSequence(HistoryOf(ended, j))
         /\ next.done = HandOf(j) => HistoryOf(Append(ended, next), Idle) = HistoryOf(ended, j)
         /\ next.done = <<>> => HistoryOf(Append(ended, next), j) = HistoryOf(ended, j)
         /\ \A c : HandOf(next) = Append(HandOf(j), c) =>
                     HistoryOf(ended, next) = Append(HistoryOf(ended, j), c)
<1> DEFINE hand == HandOf(j)  before == FlattenSeq(Parts(ended))
<1>1. PICK S : Parts(ended) \in Seq(Seq(S)) /\ hand \in Seq(S)
  BY PartsOf
<1>2. before \in Seq(S)
  BY <1>1, FlattenCovers
<1>3. HistoryOf(ended, j) = before \o hand
  BY DEF HistoryOf
<1>4. HandOf(Idle) = <<>>
  BY DEF HandOf
<1>5. IsSequence(HistoryOf(ended, j))
  <2> HIDE DEF before, hand
  <2> QED BY <1>1, <1>2, <1>3, ConcatProperties DEF IsSequence
<1>6. ASSUME next.done = HandOf(j) PROVE HistoryOf(Append(ended, next), Idle) = HistoryOf(ended, j)
  <2>1. FlattenSeq(Parts(Append(ended, next))) = before \o hand
    BY <1>6, PartsAppended
  <2>2. HistoryOf(Append(ended, next), Idle) = (before \o hand) \o <<>>
    BY <1>4, <2>1 DEF HistoryOf
  <2>3. before \o hand \in Seq(S)
    <3> HIDE DEF before, hand
    <3> QED BY <1>1, <1>2, ConcatProperties
  <2> HIDE DEF before, hand
  <2> QED BY <1>3, <2>2, <2>3, ConcatEmptySeq
<1>7. ASSUME next.done = <<>> PROVE HistoryOf(Append(ended, next), j) = HistoryOf(ended, j)
  <2>1. FlattenSeq(Parts(Append(ended, next))) = before \o <<>>
    BY <1>7, NoneIsSequence, PartsAppended
  <2>2. before \o <<>> = before
    <3> HIDE DEF before
    <3> QED BY <1>2, ConcatEmptySeq
  <2> QED BY <2>1, <2>2 DEF HistoryOf
<1>8. ASSUME NEW c, HandOf(next) = Append(HandOf(j), c)
      PROVE  HistoryOf(ended, next) = Append(HistoryOf(ended, j), c)
  <2>1. HistoryOf(ended, next) = before \o Append(hand, c)
    BY <1>8 DEF HistoryOf
  <2> HIDE DEF before, hand
  <2> DEFINE U == S \cup {c}
  <2>2. before \in Seq(U) /\ hand \in Seq(U) /\ c \in U
    BY <1>1, <1>2, SeqMonotonic
  <2> HIDE DEF U
  <2>3. before \o Append(hand, c) = Append(before \o hand, c)
    <3>1. <<c>> \in Seq(U) /\ Append(hand, c) = hand \o <<c>>
      BY <2>2, AppendIsConcat
    <3>2. before \o hand \in Seq(U)
      BY <2>2, ConcatProperties
    <3>3. Append(before \o hand, c) = (before \o hand) \o <<c>>
      BY <2>2, <3>2, AppendIsConcat
    <3> QED BY <2>2, <3>1, <3>3, ConcatAssociative
  <2> QED BY <1>3, <2>1, <2>3
<1> QED BY <1>5, <1>6, <1>7, <1>8

(* The jobs of a reachable state.                                          *)
LEMMA JobsOrdered ==
  ASSUME JobInv, HonestJobs
  PROVE  /\ AllOrdered(reports) /\ IsSequence(HandOf(job)) /\ History = HistoryOf(reports, job)
         /\ IsSequence(History)
<1>1. AllOrdered(reports)
  BY DEF JobInv, AllEnded, HonestJobs, HonestJob, AllOrdered
<1>2. IsSequence(HandOf(job))
  BY NoneIsSequence DEF HonestJobs, HonestJob, HandOf
<1>3. History = HistoryOf(reports, job)
  BY DEF History, HistoryOf, Parts, HandOf
<1> QED BY <1>1, <1>2, <1>3, HistoryMoves

(* The history after a step, told of the values it leaves.                 *)
LEMMA HistoryThen == \A ended, hand : ended = reports' /\ hand = job' => History' = HistoryOf(ended, hand)
BY DEF History, HistoryOf, Parts, HandOf

(* The child at hand is the latest of the history once it has run.         *)
LEMMA HistoryGrows ==
  ASSUME JobInv, HonestJobs, Running, NEW done, NEW code, job' = After(done, code), UNCHANGED reports
  PROVE  History' = Append(History, Child(Head(job.todo), done))
<1> DEFINE c == Child(Head(job.todo), done)
<1>1. PICK ended, hand : ended = reports' /\ hand = job'
  OBVIOUS
<1>2. job # Idle /\ job.todo # <<>> /\ IsRecord(job)
  BY DEF Running, JobInv, InHand, Sound
<1>3. /\ IsRecord(hand) /\ Len(job.done) \in Nat
      /\ DOMAIN job.done = 1..Len(job.done) /\ DOMAIN hand.done = 1..(Len(job.done) + 1)
      /\ \A i \in 1..Len(job.done) : hand.done[i] = job.done[i]
      /\ hand.done[Len(job.done) + 1] = c
  BY <1>1, <1>2, AfterIs
<1>4. "todo" \in DOMAIN hand /\ DOMAIN Idle = {"done"}
  BY <1>3 DEF IsRecord, Idle
<1>5. HandOf(hand) = hand.done /\ HandOf(job) = job.done
  BY <1>2, <1>4 DEF HandOf
<1>6. hand.done = Append(job.done, c)
  <2>1. IsSequence(job.done) /\ IsSequence(hand.done)
    BY <1>2, <1>3 DEF IsRecord
  <2>2. \A i \in 1..(Len(job.done) + 1) : i \in 1..Len(job.done) \/ i = Len(job.done) + 1
    BY <1>3
  <2>3. DOMAIN Append(job.done, c) = DOMAIN hand.done
        /\ \A i \in DOMAIN hand.done : Append(job.done, c)[i] = hand.done[i]
    BY <1>3, <2>1, <2>2, AppendIsSequence
  <2>4. IsSequence(Append(job.done, c))
    BY <2>1, AppendIsSequence
  <2>5. \A s : IsSequence(s) => s = [i \in DOMAIN s |-> s[i]]
    BY DEF IsSequence
  <2> HIDE DEF c
  <2> QED BY <2>1, <2>3, <2>4, <2>5
<1>7. HistoryOf(reports, hand) = Append(HistoryOf(reports, job), c)
  BY <1>5, <1>6, JobsOrdered, HistoryMoves
<1>8. History' = HistoryOf(ended, hand) /\ ended = reports
  BY <1>1, HistoryThen
<1> QED BY <1>7, <1>8, JobsOrdered

(* Any other step of a terminal leaves it as it was.                       *)
LEMMA HistoryStays ==
  ASSUME JobInv, HonestJobs,
         StartCommands \/ RefuseSuite \/ StartSuite \/ FetchModels \/ EndJob
           \/ (FailBuild /\ job.entry.kind \in {"suite", "benchmark"})
  PROVE  History' = History
<1>1. PICK ended, hand : ended = reports' /\ hand = job'
  OBVIOUS
<1>2. /\ AllOrdered(reports) /\ IsSequence(HandOf(job)) /\ History = HistoryOf(reports, job)
      /\ History' = HistoryOf(ended, hand)
  BY <1>1, JobsOrdered, HistoryThen
<1>3. HandOf(Idle) = <<>>
  BY DEF HandOf
<1>4. ASSUME job = Idle, NEW entry, NEW todo, hand = Job(entry, todo, TRUE), ended = reports
      PROVE  History' = History
  <2>1. HandOf(hand) = <<>>
    BY <1>4 DEF HandOf, Job
  <2> QED BY <1>2, <1>3, <1>4, <2>1 DEF HistoryOf
<1>5. ASSUME NEW r, r.done = <<>>, ended = Append(reports, r), hand = job
      PROVE  History' = History
  BY <1>2, <1>5, HistoryMoves
<1>6. ASSUME NEW r, job # Idle, r.done = job.done, ended = Append(reports, r), hand = Idle
      PROVE  History' = History
  <2>1. r.done = HandOf(job)
    BY <1>6 DEF HandOf
  <2> QED BY <1>2, <1>6, <2>1, HistoryMoves
<1>7. CASE StartCommands \/ StartSuite
  <2>1. job = Idle /\ UNCHANGED reports
    BY <1>7 DEF StartCommands, StartSuite, Starts
  <2>2. \E entry, todo : job' = Job(entry, todo, TRUE)
    BY <1>7, Zenon DEF StartCommands, StartSuite
  <2> QED BY <1>1, <1>4, <2>1, <2>2
<1>8. \A entry : [Job(entry, <<>>, FALSE) EXCEPT !.code = ExitCode.Error].done = <<>>
  BY DEF Job
<1>9. CASE RefuseSuite
  <2>1. job' = job /\ reports' = Append(reports, [Job(Head(script), <<>>, FALSE) EXCEPT !.code = ExitCode.Error])
    BY <1>9 DEF RefuseSuite
  <2> QED BY <1>1, <1>5, <1>8, <2>1
<1>10. CASE FetchModels
  <2>1. CASE crate = Broken
    <3>1. job' = job /\ reports' = Append(reports, [Job(Head(script), <<>>, FALSE) EXCEPT !.code = ExitCode.Error])
      BY <1>10, <2>1 DEF FetchModels
    <3> QED BY <1>1, <1>5, <1>8, <3>1
  <2>2. CASE crate # Broken
    <3>1. job = Idle /\ UNCHANGED reports
      BY <1>10, <2>2 DEF FetchModels, Starts
    <3>2. \E entry, todo : job' = Job(entry, todo, TRUE)
      BY <1>10, <2>2, Zenon DEF FetchModels
    <3> QED BY <1>1, <1>4, <3>1, <3>2
  <2> QED BY <2>1, <2>2
<1>11. CASE FailBuild /\ job.entry.kind \in {"suite", "benchmark"}
  <2> DEFINE r == [job EXCEPT !.code = ExitCode.Error, !.whole = FALSE]
  <2>1. job' = Idle /\ reports' = Append(reports, r) /\ job # Idle
    BY <1>11 DEF FailBuild, Running
  <2>2. r.done = job.done
    BY <2>1 DEF JobInv, InHand, Sound, IsRecord
  <2> HIDE DEF r
  <2> QED BY <1>1, <1>6, <2>1, <2>2
<1>12. CASE EndJob
  <2>1. job # Idle /\ job' = Idle /\ reports' = Append(reports, job)
    BY <1>12 DEF EndJob
  <2> QED BY <1>1, <1>6, <2>1
<1> QED BY <1>7, <1>9, <1>10, <1>11, <1>12

(* What a lock keeps of models.                                            *)
Snapshots(models) == [k \in DOMAIN models |-> SnapshotModel(models[k])]

(* Two snapshots have one hash exactly if the models promise the same.     *)
LEMMA SameHash ==
  \A m, n : SnapshotModel(m).contract_hash = SnapshotModel(n).contract_hash <=> SameContract(m, n)
<1> SUFFICES ASSUME NEW m, NEW n
             PROVE  SnapshotModel(m).contract_hash = SnapshotModel(n).contract_hash <=> SameContract(m, n)
  OBVIOUS
<1> DEFINE F(x) == [i \in DOMAIN x.fields |-> <<x.fields[i].name, FieldTypeLabel(x.fields[i].type)>>]
<1>1. \A x : SnapshotModel(x).contract_hash = <<x.id, F(x), x.actions, x.properties>>
  BY DEF SnapshotModel
<1>2. F(m) = F(n) <=> /\ DOMAIN m.fields = DOMAIN n.fields
                      /\ \A i \in DOMAIN m.fields :
                           /\ m.fields[i].name = n.fields[i].name
                           /\ FieldTypeLabel(m.fields[i].type) = FieldTypeLabel(n.fields[i].type)
  <2>1. DOMAIN F(m) = DOMAIN m.fields /\ DOMAIN F(n) = DOMAIN n.fields
    OBVIOUS
  <2>2. \A x : \A i \in DOMAIN x.fields : F(x)[i] = <<x.fields[i].name, FieldTypeLabel(x.fields[i].type)>>
    OBVIOUS
  <2>3. ASSUME DOMAIN m.fields = DOMAIN n.fields,
               \A i \in DOMAIN m.fields :
                 /\ m.fields[i].name = n.fields[i].name
                 /\ FieldTypeLabel(m.fields[i].type) = FieldTypeLabel(n.fields[i].type)
        PROVE  F(m) = F(n)
    BY <2>3
  <2>4. ASSUME F(m) = F(n), NEW i \in DOMAIN m.fields
        PROVE  /\ m.fields[i].name = n.fields[i].name
               /\ FieldTypeLabel(m.fields[i].type) = FieldTypeLabel(n.fields[i].type)
    <3>1. F(m)[i] = F(n)[i] /\ i \in DOMAIN n.fields
      BY <2>1, <2>4
    <3> HIDE DEF F
    <3>2. <<m.fields[i].name, FieldTypeLabel(m.fields[i].type)>> =
          <<n.fields[i].name, FieldTypeLabel(n.fields[i].type)>>
      BY <2>2, <3>1
    <3> QED BY <3>2
  <2>5. F(m) = F(n) => DOMAIN m.fields = DOMAIN n.fields
    <3> HIDE DEF F
    <3> QED BY <2>1
  <2> HIDE DEF F
  <2> QED BY <2>3, <2>4, <2>5
<1> HIDE DEF F
<1>3. SnapshotModel(m).contract_hash = SnapshotModel(n).contract_hash
        <=> m.id = n.id /\ F(m) = F(n) /\ m.actions = n.actions /\ m.properties = n.properties
  <2> DEFINE f == F(m)  g == F(n)  a == SnapshotModel(m).contract_hash  b == SnapshotModel(n).contract_hash
  <2>1. a = <<m.id, f, m.actions, m.properties>> /\ b = <<n.id, g, n.actions, n.properties>>
    BY <1>1
  <2> HIDE DEF f, g, a, b
  <2>2. a = b <=> m.id = n.id /\ f = g /\ m.actions = n.actions /\ m.properties = n.properties
    BY <2>1
  <2> QED BY <2>2 DEF f, g, a, b
<1> QED BY <1>2, <1>3 DEF SameContract

(* Promising the same.                                                     *)
LEMMA ContractsEqual ==
  ASSUME NEW m, NEW n, SameContract(m, n)
  PROVE  /\ m.id = n.id /\ SameContract(n, m)
         /\ \A k : SameContract(n, k) => SameContract(m, k)
<1>1. m.id = n.id
  BY DEF SameContract
<1> QED BY <1>1, SameHash

(* What drift makes of a lock that was written from models, no two of them *)
(* under one id: a model is unchanged if one of them promised the same.    *)
LEMMA ReportIs ==
  ASSUME NEW models, NEW n \in Nat, DOMAIN models = 1..n, NEW m,
         \A x, y \in ToSet(models) : x.id = y.id => SameContract(x, y)
  PROVE  DriftReport(LockFile(Snapshots(models)), SnapshotModel(m)).status = "unchanged"
           <=> \E x \in ToSet(models) : SameContract(x, m)
<1> DEFINE lock == LockFile(Snapshots(models))
           same == {i \in DOMAIN lock.entries : lock.entries[i].model_id = m.id}
           report == DriftReport(lock, SnapshotModel(m))
<1>1. SnapshotModel(m).model_id = m.id
  BY DEF SnapshotModel
<1>2. lock.entries = Snapshots(models)
  BY DEF LockFile
<1>3. /\ DOMAIN lock.entries = 1..n
      /\ \A i \in 1..n : lock.entries[i] = SnapshotModel(models[i]) /\ lock.entries[i].model_id = models[i].id
  <2>1. DOMAIN Snapshots(models) = 1..n /\ \A i \in 1..n : Snapshots(models)[i] = SnapshotModel(models[i])
    BY DEF Snapshots
  <2>2. \A x : SnapshotModel(x).model_id = x.id
    BY DEF SnapshotModel
  <2> HIDE DEF lock
  <2> QED BY <1>2, <2>1, <2>2
<1>4. EntryOf(lock, SnapshotModel(m).model_id) = IF same = {} THEN <<>> ELSE <<lock.entries[Min(same)]>>
  BY <1>1 DEF EntryOf
<1>5. ToSet(models) = {models[i] : i \in 1..n}
  BY DEF ToSet
<1> HIDE DEF lock
<1>6. same = {i \in 1..n : models[i].id = m.id}
  BY <1>3
<1> HIDE DEF same
<1>7. CASE same = {}
  <2>1. report.status = "missing"
    <3>1. EntryOf(lock, SnapshotModel(m).model_id) = <<>>
      BY <1>4, <1>7
    <3> QED BY <3>1 DEF DriftReport
  <2>2. \A x \in ToSet(models) : x.id # m.id
    BY <1>5, <1>6, <1>7
  <2>3. \A x \in ToSet(models) : ~SameContract(x, m)
    BY <2>2 DEF SameContract
  <2> HIDE DEF report
  <2> QED BY <2>1, <2>3 DEF report, lock
<1>8. CASE same # {}
  <2> DEFINE first == Min(same)
  <2>1. first \in same
    <3>1. same \in SUBSET (1..n)
      BY <1>6
    <3>2. \E i \in same : \A k \in same : i <= k
      BY <1>8, <3>1, Extremes
    <3> QED BY <3>2 DEF Min
  <2> HIDE DEF first
  <2>2. first \in 1..n /\ models[first].id = m.id /\ models[first] \in ToSet(models)
    BY <1>5, <1>6, <2>1
  <2>3. EntryOf(lock, SnapshotModel(m).model_id) = <<SnapshotModel(models[first])>>
    BY <1>3, <1>4, <1>8, <2>2 DEF first
  <2>4. report = CompareSnapshot(SnapshotModel(models[first]), SnapshotModel(m))
    BY <2>3 DEF DriftReport
  <2>5. report.status = IF SnapshotModel(models[first]).contract_hash = SnapshotModel(m).contract_hash
                          THEN "unchanged" ELSE "changed"
    BY <2>4 DEF CompareSnapshot
  <2> HIDE DEF report
  <2>6. report.status = "unchanged" <=> SameContract(models[first], m)
    BY <2>5, SameHash
  <2>7. ASSUME NEW x \in ToSet(models), SameContract(x, m) PROVE SameContract(models[first], m)
    <3>1. x.id = m.id
      BY <2>7 DEF SameContract
    <3>2. SameContract(models[first], x)
      BY <2>2, <3>1
    <3> QED BY <2>7, <3>2, ContractsEqual
  <2> QED BY <2>2, <2>6, <2>7 DEF report, lock
<1> QED BY <1>7, <1>8

(* What a lock that succeeds leaves and says, and one that does not.       *)
LockEffect(c, before, after) ==
  c.args.command = "contract" /\ c.args.sub = "lock" =>
    IF c.code = 0
      THEN /\ ReadFile(after, OutputPath(c.args.write, LockPath)) = c.out
           /\ c.args.file = None => c.of \in DOMAIN Registries /\ c.out = LockFile(Snapshots(Registries[c.of]))
           /\ c.args.file # None =>
                LET source == ReadFile(before, c.args.file)
                IN  source # NoFile /\ source.form = "model" /\ c.out = LockFile(Snapshots(<<source.model>>))
      ELSE \A p : ~Differs(before, after, p)

(* What a drift check of the registry says.                                *)
Unchanged(lock, models) ==
  /\ lock # NoFile /\ lock.form # "corrupt"
  /\ \A m \in ToSet(models) : DriftReport(lock, SnapshotModel(m)).status = "unchanged"

DriftEffect(c, before) ==
  c.args.command = "contract" /\ c.args.sub = "drift" /\ c.args.file = None =>
    (c.code = 0 <=> /\ c.of # Broken
                    /\ \A m \in ToSet(Registries[c.of]) : m.lowers
                    /\ Unchanged(ReadFile(before, OutputPath(c.args.write, LockPath)), Registries[c.of]))

(* cmd_contract.                                                           *)
LEMMA ContractIs ==
  ASSUME NEW models, NEW config, NEW a, NEW left
  PROVE  LET done == CmdContract(models, config, a, left)
             path == OutputPath(a.write, LockPath)
             lowers == \A m \in ToSet(models) : m.lowers
             locked == LockFile(Snapshots(models))
         IN  /\ a.sub = "lock" => IF lowers THEN done.code = 0 /\ done.out = locked /\ done.files = Written(left, path, locked)
                                  ELSE done.code # 0 /\ done.files = left
             /\ a.sub = "drift" => /\ done.code = 0 <=> lowers /\ Unchanged(ReadFile(left, path), models)
                                   /\ done.files = left
<1> DEFINE snapshots == [i \in DOMAIN models |-> SnapshotModel(models[i])]
           path == OutputPath(a.write, LockPath)
           lock == ReadFile(left, path)
           reports_ == [i \in DOMAIN models |-> DriftReport(lock, snapshots[i])]
           drifted == \E i \in DOMAIN models : reports_[i].status # "unchanged"
           advice == [i \in DOMAIN models |-> RerunRecommendations(config, models[i].id)]
           lowers == \A i \in DOMAIN models : models[i].lowers
           locked == Done(0, LockFile(snapshots), Written(left, path, LockFile(snapshots)))
           code == IF drifted THEN ExitCode.Fail ELSE ExitCode.Success
           compared == IF lock = NoFile \/ lock.form = "corrupt" THEN MessageExit(left)
                       ELSE Done(code, [reports |-> reports_, advice |-> advice], left)
           done == CmdContract(models, config, a, left)
<1>1. /\ a.sub = "lock" => done = IF lowers THEN locked ELSE MessageExit(left)
      /\ a.sub = "drift" => done = IF lowers THEN compared ELSE MessageExit(left)
  BY DEF CmdContract
<1>2. snapshots = Snapshots(models)
  BY DEF Snapshots
<1>3. /\ locked.code = 0 /\ locked.out = LockFile(snapshots)
      /\ locked.files = Written(left, path, LockFile(snapshots))
  BY DoneCode, Outs
<1>4. MessageExit(left).code = 3 /\ MessageExit(left).files = left
  BY MessageCode
<1>5. lowers <=> \A m \in ToSet(models) : m.lowers
  BY DEF ToSet
<1>6. ~drifted <=> \A m \in ToSet(models) : DriftReport(lock, SnapshotModel(m)).status = "unchanged"
  <2>1. ToSet(models) = {models[i] : i \in DOMAIN models}
    BY DEF ToSet
  <2>2. \A i \in DOMAIN models : reports_[i] = DriftReport(lock, SnapshotModel(models[i]))
    BY DEF Snapshots
  <2> HIDE DEF reports_, lock
  <2> QED BY <2>1, <2>2
<1>7. code = IF drifted THEN 1 ELSE 0
  BY DEF ExitCode
<1>8. (compared.code = 0 <=> Unchanged(lock, models)) /\ compared.files = left
  <2> HIDE DEF drifted, lock, reports_, advice, code
  <2>1. lock = NoFile \/ lock.form = "corrupt" => compared = MessageExit(left)
    OBVIOUS
  <2>2. ~(lock = NoFile \/ lock.form = "corrupt") => compared.code = code /\ compared.files = left
    BY DoneCode
  <2> HIDE DEF compared
  <2> QED BY <1>4, <1>6, <1>7, <2>1, <2>2 DEF Unchanged
<1> HIDE DEF locked, compared, lowers, snapshots, done, lock, path
<1> QED BY <1>1, <1>2, <1>3, <1>4, <1>5, <1>8 DEF done, lock, path

(* A file is what was written to it.                                       *)
LEMMA WrittenReads == \A left, path, content : ReadFile(Written(left, path, content), path) = content
<1> SUFFICES ASSUME NEW left, NEW path, NEW content PROVE ReadFile(Written(left, path, content), path) = content
  OBVIOUS
<1> DEFINE after == Written(left, path, content)
<1>1. after = [q \in DOMAIN left \cup {path} |-> IF q = path THEN content ELSE left[q]]
  BY DEF Written
<1> HIDE DEF after
<1>2. path \in DOMAIN after /\ after[path] = content
  BY <1>1
<1> QED BY <1>2 DEF ReadFile, after

(* What a child does to the files, and what it says of them.               *)
Does(c, before, after) ==
  /\ \A p : Differs(before, after, p) => MayChange(c.args, p)
  /\ LockEffect(c, before, after)
  /\ DriftEffect(c, before)

(* The options contract is given reach it.                                 *)
LEMMA ContractOptions ==
  ASSUME NEW config, NEW a, IsArgs(a)
  PROVE  LET b == RegistryArgs(WithDefaults(config, a))
         IN  b.command = a.command /\ b.sub = a.sub /\ b.write = a.write
<1> DEFINE c == WithDefaults(config, a)
           b == RegistryArgs(c)
<1>1. {"command", "write", "sub", "property", "backend", "solver"} \subseteq DOMAIN a
  BY DEF IsArgs, Fields
<1>2. DOMAIN c = DOMAIN a /\ c.command = a.command /\ c.write = a.write /\ c.sub = a.sub
  BY <1>1 DEF WithDefaults
<1> HIDE DEF c
<1>3. b.command = c.command /\ b.write = c.write /\ b.sub = c.sub
  BY <1>1, <1>2 DEF RegistryArgs
<1> HIDE DEF b
<1> QED BY <1>2, <1>3 DEF b, c

(* The run of a registry binary.                                           *)
LEMMA RegistryDoes ==
  ASSUME NEW a, IsArgs(a), a.file = None, crate \in DOMAIN Registries, crate # Broken
  PROVE  Does(Child(a, RegistryRun(a)), files, RegistryRun(a).files)
<1> DEFINE done == RegistryRun(a)  b == RegistryArgs(WithDefaults(Config, a))  c == Child(a, done)
           path == OutputPath(a.write, LockPath)  models == Registries[crate]
<1>1. c.args = a /\ c.of = crate /\ c.code = done.code /\ c.out = done.out
  BY DEF Child
<1>2. b.command = a.command /\ b.sub = a.sub /\ b.write = a.write
  BY ContractOptions
<1>3. done = RegistryCli(models, Config, b, files)
  BY DEF RegistryRun
<1>4. ASSUME NEW p, Differs(files, done.files, p) PROVE MayChange(a, p)
  BY <1>4, RegistryDiffers, SameOptions DEF RegistryRun
<1> HIDE DEF c, done, b
<1>5. a.command = "contract" => done = CmdContract(models, Config, b, files)
  BY <1>2, <1>3 DEF RegistryCli
<1>6. OutputPath(b.write, LockPath) = path
  BY <1>2
<1>7. LockEffect(c, files, done.files)
  <2> SUFFICES ASSUME a.command = "contract", a.sub = "lock"
               PROVE  IF done.code = 0
                        THEN /\ ReadFile(done.files, path) = done.out
                             /\ done.out = LockFile(Snapshots(models))
                        ELSE \A p : ~Differs(files, done.files, p)
    BY <1>1 DEF LockEffect
  <2>1. \/ done.code = 0 /\ done.out = LockFile(Snapshots(models)) /\ done.files = Written(files, path, done.out)
        \/ done.code # 0 /\ done.files = files
    BY <1>2, <1>5, <1>6, ContractIs
  <2> HIDE DEF models, path
  <2> QED BY <2>1, WrittenReads, NothingDiffers
<1>8. DriftEffect(c, files)
  <2> SUFFICES ASSUME a.command = "contract", a.sub = "drift"
               PROVE  done.code = 0 <=> /\ crate # Broken
                                        /\ \A m \in ToSet(models) : m.lowers
                                        /\ Unchanged(ReadFile(files, path), models)
    BY <1>1 DEF DriftEffect
  <2> QED BY <1>2, <1>5, <1>6, ContractIs
<1> QED BY <1>1, <1>4, <1>7, <1>8 DEF Does, c, done

(* A command on a model file.                                              *)
LEMMA FileDoes ==
  ASSUME NEW a, a.file # None
  PROVE  Does(Child(a, ModelFileCli(Config, a, files)), files, ModelFileCli(Config, a, files).files)
<1> DEFINE done == ModelFileCli(Config, a, files)  c == Child(a, done)
           path == OutputPath(a.write, LockPath)  source == ReadFile(files, a.file)
           locked == LockFile(<<SnapshotModel(source.model)>>)
<1>1. c.args = a /\ c.of = crate /\ c.code = done.code /\ c.out = done.out
  BY DEF Child
<1>2. ASSUME NEW p, Differs(files, done.files, p) PROVE MayChange(a, p)
  BY <1>2, ModelFileDiffers
<1>3. DriftEffect(c, files)
  BY <1>1 DEF DriftEffect
<1>4. ASSUME a.command = "contract", a.sub = "lock"
      PROVE  \/ done = MessageExit(files)
             \/ /\ source # NoFile /\ source.form = "model"
                /\ done = Done(0, locked, Written(files, path, locked))
  <2>1. CASE source # NoFile /\ source.form = "model"
    <3>1. done = FileCommand(source, Config, a, files)
      BY <2>1 DEF ModelFileCli
    <3>2. FileCommand(source, Config, a, files) = FileContract(source.model, Config, a, files)
      BY <1>4 DEF FileCommand
    <3>3. FileContract(source.model, Config, a, files) = Done(0, locked, Written(files, path, locked))
      BY <1>4 DEF FileContract
    <3> QED BY <2>1, <3>1, <3>2, <3>3
  <2>2. CASE ~(source # NoFile /\ source.form = "model")
    <3>1. done = MessageExit(files)
      BY <1>4, <2>2 DEF ModelFileCli
    <3> QED BY <3>1
  <2> QED BY <2>1, <2>2
<1>5. Snapshots(<<source.model>>) = <<SnapshotModel(source.model)>>
  BY DEF Snapshots
<1> HIDE DEF c, done, locked, path, source
<1>6. LockEffect(c, files, done.files)
  <2> SUFFICES ASSUME a.command = "contract", a.sub = "lock"
               PROVE  IF done.code = 0
                        THEN /\ ReadFile(done.files, path) = done.out
                             /\ source # NoFile /\ source.form = "model" /\ done.out = LockFile(Snapshots(<<source.model>>))
                        ELSE \A p : ~Differs(files, done.files, p)
    BY <1>1 DEF LockEffect, path, source
  <2>1. CASE done = MessageExit(files)
    BY <2>1, MessageCode, NothingDiffers
  <2>2. CASE source # NoFile /\ source.form = "model" /\ done = Done(0, locked, Written(files, path, locked))
    <3>1. done.code = 0 /\ done.out = locked /\ done.files = Written(files, path, locked)
      BY <2>2, DoneCode, Outs
    <3> QED BY <1>5, <2>2, <3>1, WrittenReads DEF locked
  <2> QED BY <1>4, <2>1, <2>2
<1> QED BY <1>1, <1>2, <1>3, <1>6 DEF Does, c, done

(* A step of the terminal moves nothing, or runs a child.                  *)
LEMMA TerminalDoes ==
  ASSUME JobInv, HonestJobs, WorkTerminal
  PROVE  \/ History' = History /\ files' = files
         \/ \E c : History' = Append(History, c) /\ Does(c, files, files')
<1> DEFINE a == Head(job.todo)
<1>1. ASSUME Running, NEW done, NEW code, Ran(done, code), Does(Child(a, done), files, done.files)
      PROVE  \E c : History' = Append(History, c) /\ Does(c, files, files')
  <2>1. History' = Append(History, Child(a, done)) /\ files' = done.files
    BY <1>1, HistoryGrows DEF Ran
  <2> QED BY <1>1, <2>1
<1>2. CASE RunRegistryChild
  <2>1. Running /\ Ran(RegistryRun(a), ToExitCode(RegistryRun(a).code)) /\ a.file = None /\ crate # Broken
    BY <1>2 DEF RunRegistryChild
  <2>2. IsArgs(a) /\ crate \in DOMAIN Registries
    BY <2>1, ChildFacts DEF Running, JobInv
  <2> QED BY <1>1, <2>1, <2>2, RegistryDoes
<1>3. CASE RunFileChild
  <2> DEFINE done == ModelFileCli(Config, a, files)
  <2>1. Running /\ Ran(done, ToFileExitCode(done.code)) /\ a.file # None
    BY <1>3 DEF RunFileChild
  <2>2. Does(Child(a, done), files, done.files)
    BY <2>1, FileDoes
  <2> HIDE DEF done
  <2> QED BY <1>1, <2>1, <2>2
<1>4. CASE RunClean
  <2> DEFINE done == CmdClean(a.sub, files)
  <2>1. Running /\ Ran(done, ToExitCode(done.code)) /\ a.command = "clean"
    BY <1>4 DEF RunClean
  <2>2. \A p : Differs(files, done.files, p) => MayChange(a, p)
    BY <2>1, CleanDiffers
  <2>3. Does(Child(a, done), files, done.files)
    BY <2>1, <2>2 DEF Does, LockEffect, DriftEffect, Child
  <2> HIDE DEF done
  <2> QED BY <1>1, <2>1, <2>3
<1>5. CASE FailBuild /\ job.entry.kind \notin {"suite", "benchmark"}
  <2> DEFINE done == MessageExit(files)
  <2>1. Running /\ job' = After(done, ExitCode.Error) /\ UNCHANGED reports /\ files' = files /\ crate = Broken
    BY <1>5 DEF FailBuild, project
  <2>2. History' = Append(History, Child(a, done))
    BY <2>1, HistoryGrows
  <2>3. Child(a, done).args = a /\ Child(a, done).of = Broken /\ Child(a, done).code = 3
    BY <2>1, MessageCode DEF Child
  <2>4. Does(Child(a, done), files, files)
    BY <2>3, NothingDiffers DEF Does, LockEffect, DriftEffect
  <2> QED BY <2>1, <2>2, <2>4
<1>6. CASE \/ StartCommands \/ RefuseSuite \/ StartSuite \/ FetchModels \/ EndJob
           \/ (FailBuild /\ job.entry.kind \in {"suite", "benchmark"})
  <2>1. files' = files
    BY <1>6 DEF StartCommands, RefuseSuite, StartSuite, FetchModels, FailBuild, EndJob, project
  <2> QED BY <1>6, <2>1, HistoryStays
<1> QED BY <1>2, <1>3, <1>4, <1>5, <1>6 DEF WorkTerminal

(* What DriftIsHonest says of the first k children, told of a history.     *)
Quiet(h, p, k) == Aside(p) /\ \A i \in 1..k : ~MayChange(h[i].args, p)
LocksOnly(h, p, k) ==
  /\ Aside(p)
  /\ \A i \in 1..k : MayChange(h[i].args, p) => h[i].args.command = "contract" /\ h[i].args.sub = "lock"
LocksTo(h, p, k) == {i \in 1..k : Locks(h[i], p)}
LastLock(h, p, k) == h[CHOOSE i \in LocksTo(h, p, k) : \A l \in LocksTo(h, p, k) : l <= i]
KeptBy(lock) ==
  IF lock.args.file = None THEN ToSet(Registries[lock.of]) ELSE {ReadFile(Here.files, lock.args.file).model}
PathOf(c) == OutputPath(c.args.write, LockPath)

(* A drift check tells whether the models of now promise what kept ones do.*)
Agrees(d, kept) ==
  (d.code = 0) = (/\ d.of # Broken
                  /\ \A m \in ToSet(Registries[d.of]) : m.lowers /\ \E n \in kept : SameContract(n, m))

DriftRight(h, j) ==
  LET d == h[j]
      lock == LastLock(h, PathOf(d), j - 1)
  IN  /\ d.args.command = "contract" /\ d.args.sub = "drift" /\ d.args.file = None
      /\ LocksTo(h, PathOf(d), j - 1) # {} /\ LocksOnly(h, PathOf(d), j - 1)
      /\ lock.args.file # None => Quiet(h, lock.args.file, j - 1)
      /\ \A m, n \in KeptBy(lock) : m.id = n.id => SameContract(m, n)
      => Agrees(d, KeptBy(lock))

(* What it rests on: a file nobody may have changed is as it was at first, *)
(* a lock file only locks may have changed is that of the last one, and a  *)
(* lock has written snapshots of the models it was made from.              *)
FilesKept(h, left) == \A p : Quiet(h, p, Len(h)) => ReadFile(left, p) = ReadFile(Here.files, p)
LockKept(h, left) ==
  \A p : LocksOnly(h, p, Len(h)) /\ LocksTo(h, p, Len(h)) # {} => ReadFile(left, p) = LastLock(h, p, Len(h)).out
LockRight(h, i) ==
  /\ Locks(h[i], PathOf(h[i])) /\ (h[i].args.file # None => Quiet(h, h[i].args.file, i - 1))
  => \E models : /\ \E n \in Nat : DOMAIN models = 1..n
                 /\ ToSet(models) = KeptBy(h[i])
                 /\ h[i].out = LockFile(Snapshots(models)) /\ h[i].out # NoFile

HistoryRight(h, left) ==
  /\ FilesKept(h, left) /\ LockKept(h, left)
  /\ \A i \in DOMAIN h : LockRight(h, i) /\ DriftRight(h, i)

(* The last lock is one of them.                                           *)
LEMMA LastIs ==
  ASSUME NEW h, NEW p, NEW k \in Nat, LocksTo(h, p, k) # {}
  PROVE  \E i \in LocksTo(h, p, k) : /\ LastLock(h, p, k) = h[i] /\ i \in 1..k /\ Locks(h[i], p)
                                     /\ \A l \in LocksTo(h, p, k) : l <= i
<1> DEFINE L == LocksTo(h, p, k)  last == CHOOSE i \in L : \A l \in L : l <= i
<1>1. L \in SUBSET (1..k) /\ \A i \in L : Locks(h[i], p)
  BY DEF LocksTo
<1> HIDE DEF L
<1>2. \E i \in L : \A l \in L : l <= i
  BY <1>1, Extremes DEF L
<1>3. last \in L /\ \A l \in L : l <= last
  BY <1>2
<1>4. LastLock(h, p, k) = h[last]
  BY DEF LastLock, L
<1> HIDE DEF last
<1> QED BY <1>1, <1>3, <1>4 DEF L

(* What is said of the first k children does not depend on later ones.     *)
LEMMA SameBefore ==
  ASSUME NEW h, NEW q, NEW k \in Nat, \A i \in 1..k : q[i] = h[i], NEW p
  PROVE  /\ Quiet(q, p, k) <=> Quiet(h, p, k)
         /\ LocksOnly(q, p, k) <=> LocksOnly(h, p, k)
         /\ LocksTo(q, p, k) = LocksTo(h, p, k)
         /\ LocksTo(h, p, k) # {} => LastLock(q, p, k) = LastLock(h, p, k)
<1>1. Quiet(q, p, k) <=> Quiet(h, p, k)
  BY DEF Quiet
<1>2. LocksOnly(q, p, k) <=> LocksOnly(h, p, k)
  BY DEF LocksOnly
<1>3. LocksTo(q, p, k) = LocksTo(h, p, k)
  BY DEF LocksTo
<1>4. ASSUME LocksTo(h, p, k) # {} PROVE LastLock(q, p, k) = LastLock(h, p, k)
  <2> DEFINE L == LocksTo(h, p, k)  last == CHOOSE i \in L : \A l \in L : l <= i
  <2>1. L \in SUBSET (1..k)
    BY DEF LocksTo
  <2>2. LastLock(q, p, k) = q[last] /\ LastLock(h, p, k) = h[last]
    BY <1>3 DEF LastLock
  <2> HIDE DEF L
  <2>3. \E i \in L : \A l \in L : l <= i
    BY <1>4, <2>1, Extremes DEF L
  <2>4. last \in 1..k
    BY <2>1, <2>3
  <2> HIDE DEF last
  <2> QED BY <2>2, <2>4
<1> QED BY <1>1, <1>2, <1>3, <1>4

(* A lock, and a contract that is no lock, change nothing else.            *)
LEMMA LockChanges ==
  ASSUME NEW a, NEW p, a.command = "contract", MayChange(a, p)
  PROVE  a.sub = "lock" /\ p = OutputPath(a.write, LockPath)
BY DEF MayChange

(* A drift check of the registry that has just run.                        *)
LEMMA DriftNow ==
  ASSUME NEW h, NEW n \in Nat, NEW left, NEW c,
         FilesKept(h, left), LockKept(h, left), Len(h) = n, DOMAIN h = 1..n,
         \A i \in DOMAIN h : LockRight(h, i),
         DriftEffect(c, left),
         c.args.command = "contract", c.args.sub = "drift", c.args.file = None,
         NEW lock, lock = LastLock(h, PathOf(c), n),
         LocksTo(h, PathOf(c), n) # {}, LocksOnly(h, PathOf(c), n),
         lock.args.file # None => Quiet(h, lock.args.file, n),
         \A x, y \in KeptBy(lock) : x.id = y.id => SameContract(x, y)
  PROVE  Agrees(c, KeptBy(lock))
<1> DEFINE path == PathOf(c)
<1>1. ReadFile(left, path) = lock.out
  BY DEF LockKept
<1>2. PICK i \in 1..n : lock = h[i] /\ Locks(h[i], path)
  BY LastIs
<1>3. PathOf(h[i]) = path
  BY <1>2 DEF Locks, PathOf
<1>4. lock.args.file # None => Quiet(h, lock.args.file, i - 1)
  <2>1. \A k \in 1..(i - 1) : k \in 1..n
    BY <1>2
  <2> QED BY <2>1 DEF Quiet
<1>5. PICK models : /\ \E k \in Nat : DOMAIN models = 1..k
                    /\ ToSet(models) = KeptBy(lock)
                    /\ lock.out = LockFile(Snapshots(models)) /\ lock.out # NoFile
  BY <1>2, <1>3, <1>4 DEF LockRight
<1>6. \A m : DriftReport(lock.out, SnapshotModel(m)).status = "unchanged"
               <=> \E x \in KeptBy(lock) : SameContract(x, m)
  BY <1>5, ReportIs
<1>7. lock.out.form # "corrupt"
  BY <1>5 DEF LockFile
<1>8. Unchanged(ReadFile(left, path), Registries[c.of])
        <=> \A m \in ToSet(Registries[c.of]) : \E x \in KeptBy(lock) : SameContract(x, m)
  BY <1>1, <1>5, <1>6, <1>7 DEF Unchanged
<1>9. c.code = 0 <=> /\ c.of # Broken
                     /\ \A m \in ToSet(Registries[c.of]) : m.lowers
                     /\ Unchanged(ReadFile(left, path), Registries[c.of])
  BY DEF DriftEffect, PathOf
<1> QED BY <1>8, <1>9 DEF Agrees

(* A lock that has just run.                                               *)
LEMMA LockNow ==
  ASSUME scenario \in DOMAIN Scenarios, NEW h, NEW left, NEW after, NEW c, NEW k \in Nat, k = Len(h),
         FilesKept(h, left), LockEffect(c, left, after), Locks(c, PathOf(c)),
         c.args.file # None => Quiet(h, c.args.file, k)
  PROVE  \E models : /\ \E n \in Nat : DOMAIN models = 1..n
                     /\ ToSet(models) = KeptBy(c)
                     /\ c.out = LockFile(Snapshots(models)) /\ c.out # NoFile
<1>1. c.args.command = "contract" /\ c.args.sub = "lock" /\ c.code = 0
  BY DEF Locks
<1>2. CASE c.args.file = None
  <2> DEFINE models == Registries[c.of]
  <2>1. c.of \in DOMAIN Registries /\ c.out = LockFile(Snapshots(models))
    BY <1>1, <1>2 DEF LockEffect
  <2>2. models \in Seq(ToSet(models))
    BY <2>1, ScriptAssumption
  <2>3. \E n \in Nat : DOMAIN models = 1..n
    <3>1. Len(models) \in Nat /\ DOMAIN models = 1..Len(models)
      BY <2>2
    <3> QED BY <3>1
  <2>4. c.out # NoFile
    BY <2>1, LockAssumption DEF Snapshots
  <2>5. KeptBy(c) = ToSet(models)
    BY <1>2 DEF KeptBy
  <2> HIDE DEF models
  <2> QED BY <2>1, <2>3, <2>4, <2>5 DEF models
<1>3. CASE c.args.file # None
  <2> DEFINE p == c.args.file  source == ReadFile(Here.files, p)  models == <<source.model>>
  <2>1. ReadFile(left, p) = source
    BY <1>3 DEF FilesKept
  <2>2. source # NoFile /\ source.form = "model" /\ c.out = LockFile(Snapshots(models))
    BY <1>1, <1>3, <2>1 DEF LockEffect
  <2>3. p \in DOMAIN Here.files /\ source = Here.files[p]
    BY <2>2 DEF ReadFile
  <2>4. Snapshots(models) = <<SnapshotModel(source.model)>>
    <3> HIDE DEF source
    <3> QED BY DEF Snapshots
  <2>5. c.out # NoFile
    <3>1. Here = Scenarios[scenario]
      BY DEF Here
    <3> HIDE DEF source, models
    <3> QED BY <2>2, <2>3, <2>4, <3>1, LockAssumption
  <2>6. KeptBy(c) = {source.model}
    BY <1>3 DEF KeptBy
  <2>7. DOMAIN models = 1..1 /\ ToSet(models) = {source.model}
    BY DEF ToSet
  <2> HIDE DEF models, source
  <2> QED BY <2>2, <2>5, <2>6, <2>7
<1> QED BY <1>2, <1>3

(* One more child.                                                         *)
LEMMA RightGrows ==
  ASSUME scenario \in DOMAIN Scenarios, NEW h, IsSequence(h), NEW left, NEW after, NEW c,
         HistoryRight(h, left), Does(c, left, after)
  PROVE  HistoryRight(Append(h, c), after)
<1> DEFINE q == Append(h, c)  n == Len(h)
<1>1. /\ n \in Nat /\ DOMAIN h = 1..n /\ DOMAIN q = 1..(n + 1)
      /\ (\A i \in 1..n : q[i] = h[i]) /\ q[n + 1] = c
  BY AppendIsSequence
<1>2. Len(q) = n + 1
  BY <1>1, AppendIsSequence DEF IsSequence
<1> HIDE DEF q, n
<1>3. \A i \in 1..(n + 1) : i \in 1..n \/ i = n + 1
  BY <1>1
<1>4. ASSUME NEW k \in 0..n, NEW p
      PROVE  /\ Quiet(q, p, k) <=> Quiet(h, p, k)
             /\ LocksOnly(q, p, k) <=> LocksOnly(h, p, k)
             /\ LocksTo(q, p, k) = LocksTo(h, p, k)
             /\ LocksTo(h, p, k) # {} => LastLock(q, p, k) = LastLock(h, p, k)
  <2>1. k \in Nat /\ \A i \in 1..k : q[i] = h[i]
    BY <1>1
  <2> QED BY <2>1, SameBefore
<1>5. n \in 0..n /\ n + 1 \in 1..(n + 1) /\ (n + 1) - 1 = n
      /\ \A i \in 1..n : i \in 1..(n + 1) /\ i - 1 \in 0..n
  BY <1>1
<1>6. \A p : Differs(left, after, p) => MayChange(c.args, p)
  BY DEF Does
<1>7. FilesKept(h, left) /\ LockKept(h, left) /\ LockEffect(c, left, after) /\ DriftEffect(c, left)
      /\ \A i \in DOMAIN h : LockRight(h, i) /\ DriftRight(h, i)
  BY DEF Does, HistoryRight
<1>8. FilesKept(q, after)
  <2> SUFFICES ASSUME NEW p, Quiet(q, p, n + 1) PROVE ReadFile(after, p) = ReadFile(Here.files, p)
    BY <1>2 DEF FilesKept
  <2>1. Quiet(q, p, n) /\ ~MayChange(c.args, p)
    BY <1>1, <1>5 DEF Quiet
  <2>2. ReadFile(left, p) = ReadFile(Here.files, p)
    BY <1>4, <1>5, <1>7, <2>1 DEF FilesKept, n
  <2> QED BY <1>6, <2>1, <2>2 DEF Differs
<1>9. LockKept(q, after)
  <2> SUFFICES ASSUME NEW p, LocksOnly(q, p, n + 1), LocksTo(q, p, n + 1) # {}
               PROVE  ReadFile(after, p) = LastLock(q, p, n + 1).out
    BY <1>2 DEF LockKept
  <2>1. LocksOnly(h, p, n)
    <3>1. LocksOnly(q, p, n)
      BY <1>5 DEF LocksOnly
    <3> QED BY <1>4, <1>5, <3>1
  <2>2. PICK last \in 1..(n + 1) : /\ LastLock(q, p, n + 1) = q[last] /\ Locks(q[last], p)
                                   /\ \A l \in LocksTo(q, p, n + 1) : l <= last
    <3>1. n + 1 \in Nat
      BY <1>1
    <3> QED BY <3>1, LastIs
  <2>3. CASE Locks(c, p)
    <3>1. n + 1 \in LocksTo(q, p, n + 1)
      BY <1>1, <1>5, <2>3 DEF LocksTo
    <3>2. last = n + 1
      BY <1>1, <2>2, <3>1
    <3>3. PathOf(c) = p /\ c.args.command = "contract" /\ c.args.sub = "lock" /\ c.code = 0
      BY <2>3 DEF Locks, PathOf
    <3>4. ReadFile(after, p) = c.out
      BY <1>7, <3>3 DEF LockEffect, PathOf
    <3> QED BY <1>1, <2>2, <3>2, <3>4
  <2>4. CASE ~Locks(c, p)
    <3>1. LocksTo(q, p, n + 1) = LocksTo(q, p, n)
      BY <1>1, <1>3, <1>5, <2>4 DEF LocksTo
    <3>2. LastLock(q, p, n + 1) = LastLock(q, p, n)
      BY <3>1 DEF LastLock
    <3>3. LastLock(q, p, n) = LastLock(h, p, n) /\ LocksTo(h, p, n) # {}
      BY <1>4, <1>5, <3>1
    <3>4. ReadFile(left, p) = LastLock(h, p, n).out
      BY <1>7, <2>1, <3>3 DEF LockKept, n
    <3>5. ~Differs(left, after, p)
      <4> SUFFICES ASSUME Differs(left, after, p) PROVE FALSE
        OBVIOUS
      <4>1. MayChange(c.args, p)
        BY <1>6
      <4>2. c.args.command = "contract" /\ c.args.sub = "lock"
        BY <1>1, <1>5, <4>1 DEF LocksOnly
      <4>3. p = OutputPath(c.args.write, LockPath)
        BY <4>1, <4>2, LockChanges
      <4>4. c.code # 0
        BY <2>4, <4>2, <4>3 DEF Locks
      <4> QED BY <1>7, <4>2, <4>4 DEF LockEffect
    <3> QED BY <3>2, <3>3, <3>4, <3>5 DEF Differs
  <2> QED BY <2>3, <2>4
<1>10. ASSUME NEW i \in 1..n PROVE LockRight(q, i) /\ DriftRight(q, i)
  <2>1. q[i] = h[i] /\ i - 1 \in 0..n /\ LockRight(h, i) /\ DriftRight(h, i)
    BY <1>1, <1>5, <1>7
  <2>2. LockRight(q, i)
    BY <1>4, <2>1 DEF LockRight
  <2>3. DriftRight(q, i)
    <3> DEFINE p == PathOf(h[i])  k == i - 1
    <3>1. /\ LocksOnly(q, p, k) <=> LocksOnly(h, p, k)
          /\ LocksTo(q, p, k) = LocksTo(h, p, k)
          /\ LocksTo(h, p, k) # {} => LastLock(q, p, k) = LastLock(h, p, k)
      BY <1>4, <2>1
    <3>2. \A file : Quiet(q, file, k) <=> Quiet(h, file, k)
      BY <1>4, <2>1
    <3>3. PathOf(q[i]) = p
      BY <2>1
    <3> DEFINE d == h[i]  lock == LastLock(h, p, k)
               Meant(file) == /\ d.args.command = "contract" /\ d.args.sub = "drift" /\ d.args.file = None
                              /\ LocksTo(h, p, k) # {} /\ LocksOnly(h, p, k)
                              /\ file # None => Quiet(h, file, k)
                              /\ \A m, n_ \in KeptBy(lock) : m.id = n_.id => SameContract(m, n_)
               Verdict == Agrees(d, KeptBy(lock))
    <3>4. Meant(lock.args.file) => Verdict
      BY <2>1 DEF DriftRight
    <3>5. SUFFICES ASSUME Meant(lock.args.file) PROVE Verdict
      BY <2>1, <3>1, <3>2, <3>3 DEF DriftRight
    <3> QED BY <3>4, <3>5
  <2> QED BY <2>2, <2>3
<1>11. LockRight(q, n + 1)
  <2> SUFFICES ASSUME Locks(c, PathOf(c)), c.args.file # None => Quiet(q, c.args.file, n)
               PROVE  \E models : /\ \E k \in Nat : DOMAIN models = 1..k
                                  /\ ToSet(models) = KeptBy(c)
                                  /\ c.out = LockFile(Snapshots(models)) /\ c.out # NoFile
    BY <1>1, <1>5 DEF LockRight
  <2>1. c.args.file # None => Quiet(h, c.args.file, n)
    BY <1>4, <1>5
  <2> QED BY <1>1, <1>7, <2>1, LockNow DEF n
<1>12. DriftRight(q, n + 1)
  <2> DEFINE lock == LastLock(q, PathOf(c), n)
  <2> SUFFICES ASSUME c.args.command = "contract", c.args.sub = "drift", c.args.file = None,
                      LocksTo(q, PathOf(c), n) # {}, LocksOnly(q, PathOf(c), n),
                      lock.args.file # None => Quiet(q, lock.args.file, n),
                      \A x, y \in KeptBy(lock) : x.id = y.id => SameContract(x, y)
               PROVE  Agrees(c, KeptBy(lock))
    BY <1>1, <1>5 DEF DriftRight
  <2>1. /\ lock = LastLock(h, PathOf(c), n)
        /\ LocksTo(h, PathOf(c), n) # {} /\ LocksOnly(h, PathOf(c), n)
    BY <1>4, <1>5
  <2> HIDE DEF lock
  <2>2. lock.args.file # None => Quiet(h, lock.args.file, n)
    BY <1>4, <1>5
  <2>3. Len(h) = n /\ n \in Nat /\ DOMAIN h = 1..n /\ \A i \in DOMAIN h : LockRight(h, i)
    BY <1>1, <1>7 DEF n
  <2>4. FilesKept(h, left) /\ LockKept(h, left) /\ DriftEffect(c, left)
    BY <1>7
  <2> QED BY <2>1, <2>2, <2>3, <2>4, DriftNow
<1>13. \A i \in DOMAIN q : LockRight(q, i) /\ DriftRight(q, i)
  BY <1>1, <1>3, <1>10, <1>11, <1>12
<1> QED BY <1>8, <1>9, <1>13 DEF HistoryRight, q

(* What a history says does not depend on the time, only on the project.   *)
LEMMA RightStays ==
  ASSUME UNCHANGED scenario, NEW h, NEW left
  PROVE  HistoryRight(h, left)' <=> HistoryRight(h, left)
<1>1. Here' = Here
  BY DEF Here
<1>2. \A p : Aside(p)' <=> Aside(p)
  BY <1>1 DEF Aside
<1>3. \A lock : KeptBy(lock)' = KeptBy(lock)
  BY <1>1 DEF KeptBy
<1>4. \A p, k : (Quiet(h, p, k)' <=> Quiet(h, p, k)) /\ (LocksOnly(h, p, k)' <=> LocksOnly(h, p, k))
  BY <1>2 DEF Quiet, LocksOnly
<1>5. FilesKept(h, left)' <=> FilesKept(h, left)
  BY <1>1, <1>4 DEF FilesKept
<1>6. LockKept(h, left)' <=> LockKept(h, left)
  BY <1>4 DEF LockKept
<1>7. \A i : LockRight(h, i)' <=> LockRight(h, i)
  BY <1>3, <1>4 DEF LockRight
<1>8. \A i : DriftRight(h, i)' <=> DriftRight(h, i)
  BY <1>3, <1>4 DEF DriftRight
<1> QED BY <1>5, <1>6, <1>7, <1>8 DEF HistoryRight

(* A file somebody else changes is none of those the history tells of.     *)
LEMMA RightFiles ==
  ASSUME NEW h, NEW left, NEW after, HistoryRight(h, left),
         \A p : Differs(left, after, p) => ~Aside(p)
  PROVE  HistoryRight(h, after)
<1>1. FilesKept(h, after)
  BY DEF HistoryRight, FilesKept, Quiet, Differs
<1>2. LockKept(h, after)
  BY DEF HistoryRight, LockKept, LocksOnly, Differs
<1> QED BY <1>1, <1>2 DEF HistoryRight

DriftInv == AnswerInv /\ JobInv /\ HonestJobs /\ HistoryRight(History, files)

(* The invariant after a step, told of the values it leaves.               *)
LEMMA RightAfter ==
  ASSUME UNCHANGED scenario, NEW h, h = History', NEW left, left = files', HistoryRight(h, left)
  PROVE  HistoryRight(History, files)'
<1>1. HistoryRight(h, left)'
  BY RightStays
<1>2. HistoryRight(h, left)' <=> HistoryRight(History, files)'
  OBVIOUS
<1> QED BY <1>1, <1>2

(* A step of the developer or of the server runs no child.                 *)
LEMMA HistoryRests ==
  ASSUME JobInv, HonestJobs, UNCHANGED <<job, reports>>
  PROVE  History' = History
<1>1. PICK ended, hand : ended = reports' /\ hand = job'
  OBVIOUS
<1>2. History' = HistoryOf(ended, hand) /\ ended = reports /\ hand = job
  BY <1>1, HistoryThen
<1> QED BY <1>2, JobsOrdered

(* They change no file the history tells of.                               *)
LEMMA OthersAside ==
  ASSUME DriftInv, Develop \/ Serve \/ UNCHANGED vars
  PROVE  /\ UNCHANGED <<scenario, job, reports>>
         /\ \A p : Differs(files, files', p) => ~Aside(p)
<1>1. CASE SaveCrate \/ UNCHANGED vars
  <2>1. UNCHANGED <<scenario, job, reports>> /\ files' = files
    BY <1>1 DEF SaveCrate, terminal, vars, project
  <2> QED BY <2>1 DEF Differs
<1>2. CASE SaveFile
  <2>1. UNCHANGED <<scenario, job, reports>>
    BY <1>2 DEF SaveFile, terminal
  <2>2. PICK save \in Here.saves : files' = Written(files, save.path, save.content)
    BY <1>2 DEF SaveFile
  <2>3. \A p : Differs(files, files', p) => p = save.path
    BY <2>2, WrittenDiffers
  <2> QED BY <2>1, <2>3 DEF Aside
<1>3. CASE Serve
  <2>1. UNCHANGED <<scenario, job, reports>>
    BY <1>3, ServerStep DEF terminal
  <2>2. ServerChanges
    BY <1>3, ServerFiles DEF DriftInv, JobInv
  <2> QED BY <2>1, <2>2 DEF ServerChanges, Aside
<1> QED BY <1>1, <1>2, <1>3 DEF Develop

(* The terminal stays with its project.                                    *)
LEMMA TerminalHere == WorkTerminal => UNCHANGED scenario
<1>1. StartCommands \/ RefuseSuite \/ StartSuite \/ FetchModels => UNCHANGED scenario
  BY DEF StartCommands, RefuseSuite, StartSuite, FetchModels, project
<1>2. RunRegistryChild \/ RunFileChild \/ RunClean => UNCHANGED scenario
  <2>1. \A done, code : Ran(done, code) => UNCHANGED scenario
    BY DEF Ran
  <2> QED BY <2>1 DEF RunRegistryChild, RunFileChild, RunClean
<1>3. FailBuild \/ EndJob => UNCHANGED scenario
  BY DEF FailBuild, EndJob, project
<1> QED BY <1>1, <1>2, <1>3 DEF WorkTerminal

(* Every step keeps the history right.                                     *)
LEMMA DriftNext == DriftInv /\ [Next]_vars => DriftInv'
<1> SUFFICES ASSUME DriftInv, [Next]_vars PROVE DriftInv'
  OBVIOUS
<1>1. PICK h, left : h = History' /\ left = files'
  OBVIOUS
<1>2. scenario \in DOMAIN Scenarios /\ JobInv /\ HonestJobs /\ HistoryRight(History, files)
  BY DEF DriftInv, JobInv
<1>3. ASSUME Develop \/ Serve \/ UNCHANGED vars PROVE HistoryRight(History, files)'
  <2>1. UNCHANGED scenario /\ h = History /\ \A p : Differs(files, left, p) => ~Aside(p)
    BY <1>1, <1>2, <1>3, OthersAside, HistoryRests
  <2>2. HistoryRight(h, left)
    BY <1>2, <2>1, RightFiles
  <2> QED BY <1>1, <2>1, <2>2, RightAfter
<1>4. ASSUME WorkTerminal PROVE HistoryRight(History, files)'
  <2>1. UNCHANGED scenario
    BY <1>4, TerminalHere
  <2>2. ASSUME h = History, left = files PROVE HistoryRight(History, files)'
    BY <1>1, <1>2, <2>1, <2>2, RightAfter
  <2>3. ASSUME NEW c, h = Append(History, c), Does(c, files, left)
        PROVE  HistoryRight(History, files)'
    <3>1. IsSequence(History)
      BY <1>2, JobsOrdered
    <3>2. HistoryRight(h, left)
      BY <1>2, <2>3, <3>1, RightGrows
    <3> QED BY <1>1, <2>1, <3>2, RightAfter
  <2> QED BY <1>1, <1>2, <1>4, <2>2, <2>3, TerminalDoes
<1>5. HistoryRight(History, files)'
  BY <1>3, <1>4 DEF Next, Work
<1> QED BY <1>5, AnswerNext, JobNext, HonestNext DEF DriftInv, JobInv

(* No child has run at first, and the files are those of the project.      *)
LEMMA DriftInit == Init => HistoryRight(History, files)
<1> SUFFICES ASSUME Init PROVE HistoryRight(History, files)
  OBVIOUS
<1>1. job = Idle /\ reports = <<>> /\ files = Here.files
  BY DEF Init, WInit
<1>2. History = <<>>
  <2>1. Parts(reports) = <<>> /\ HandOf(job) = <<>>
    BY <1>1 DEF Parts, HandOf
  <2>2. FlattenSeq(<<>>) = <<>>
    BY DEF FlattenSeq
  <2> QED BY <2>1, <2>2 DEF History, Parts, HandOf
<1>3. Len(History) = 0 /\ DOMAIN History = {}
  BY <1>2
<1>4. FilesKept(History, files)
  BY <1>1 DEF FilesKept
<1>5. \A p : LocksTo(History, p, 0) = {}
  BY DEF LocksTo
<1>6. LockKept(History, files)
  BY <1>3, <1>5 DEF LockKept
<1> QED BY <1>3, <1>4, <1>6 DEF HistoryRight

(* The history of the children is that of DriftIsHonest.                   *)
LEMMA RightIsHonest == DriftInv => DriftIsHonest
<1> SUFFICES ASSUME DriftInv, NEW j \in DOMAIN History
             PROVE  LET d == History[j]
                        path == OutputPath(d.args.write, LockPath)
                        locks == {i \in 1..(j - 1) : Locks(History[i], path)}
                        lock == History[CHOOSE i \in locks : \A k \in locks : k <= i]
                        kept == IF lock.args.file = None THEN ToSet(Registries[lock.of])
                                ELSE {ReadFile(Here.files, lock.args.file).model}
                    IN  /\ d.args.command = "contract" /\ d.args.sub = "drift" /\ d.args.file = None
                        /\ locks # {} /\ OnlyLocked(path, j - 1)
                        /\ lock.args.file # None => Untouched(lock.args.file, j - 1)
                        /\ \A m, n \in kept : m.id = n.id => SameContract(m, n)
                        => Agrees(d, kept)
  BY DEF DriftIsHonest, Agrees
<1>1. DriftRight(History, j)
  BY DEF DriftInv, HistoryRight
<1>2. \A p, k : (Quiet(History, p, k) <=> Untouched(p, k)) /\ (LocksOnly(History, p, k) <=> OnlyLocked(p, k))
  BY DEF Quiet, LocksOnly, Untouched, OnlyLocked
<1> QED BY <1>1, <1>2 DEF DriftRight, PathOf, LocksTo, LastLock, KeptBy

(* A drift check of the registry exits with 0 exactly if the last lock to  *)
(* its path was written from models that promise what those of now do,     *)
(* whatever else was run, built, refused or called in between, as long as  *)
(* nobody else touches the lock file or the model file it was made from.   *)
THEOREM DriftHonest == Spec => []DriftIsHonest
<1>1. Init => DriftInv
  BY AnswerInit, JobInit, HonestInit, DriftInit DEF DriftInv
<1> QED BY <1>1, DriftNext, RightIsHonest, PTL DEF Spec
===============================================================================
