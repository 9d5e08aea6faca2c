----------------------------- MODULE Chat_proofs -----------------------------
(***************************************************************************)
(* Theorems about the assistant of the documentation site, for every       *)
(* number of questions and every length of the answers.                    *)
(*                                                                         *)
(* Flags that tell the truth and a Stop that reaches the request need only *)
(* that there is never a second request.  What the messages say needs to   *)
(* know where each of the texts that lie around comes from: the message    *)
(* list, the text ref and the timer of the typewriter, which are written   *)
(* by different callbacks.                                                 *)
(***************************************************************************)
EXTENDS Chat, SequenceTheorems, TLAPS

Message == [role : {"user", "assistant"}, of : 0..MaxSends, text : Texts, cut : BOOLEAN]

IsAnswer(m) == m.role = "assistant"

(* Message i of ms is, or comes after, the question q, with answers alone between. *)
Asked(ms, q, i) == \E j \in 1..i : ms[j] = Question(q) /\ \A k \in j+1..i : IsAnswer(ms[k])
-----------------------------------------------------------------------------
(* The inductive invariant. *)

Shape == TypeOK /\ messages # <<>>

(* Who runs: only a build with a key asks anybody, and nothing of an answer is
   shown before its response. *)
Keyed == \A r \in Requests : Running(r) => hasKey
Quiet == \A r \in Requests : phase[r] = "fetch" => ~streaming /\ ~added
Control == Keyed /\ StopReaches /\ SpinnerTrue /\ Quiet

(* Where the texts come from: requests that were answered, or ended, and for a
   request that is read, itself. *)
Heard(q) == q = Nobody \/ phase[q] \in {"read", "ended"}
SourcesHeard ==
  /\ Heard(streamed.from) /\ Heard(timer.from)
  /\ \A i \in 1..Len(messages) : IsAnswer(messages[i]) => Heard(messages[i].of)
  /\ \A t \in completed : t.from \in Requests /\ phase[t.from] = "ended"
SourceRead == \A r \in Requests : phase[r] = "read" => streamed.from = r
TimerOf ==
  /\ streamed.from = Nobody \/ ~hasKey => streamed = Idle
  /\ timer.from = Nobody => timer = Idle
  /\ timer.from = streamed.from => timer.length <= streamed.length
Sources == SourcesHeard /\ SourceRead /\ TimerOf

(* The question of a request that runs is the last one. *)
Asks == \A r \in Requests : Running(r) => Asked(messages, r, Len(messages))

(* What is still to be typed belongs to the last question, and to no answer that
   was settled. *)
Remainder ==
  Untyped => /\ IsAnswer(Last(messages)) => Asked(messages, streamed.from, Len(messages))
             /\ \A t \in completed : t.from # streamed.from

(* An answer stands under the question of its request, and holds text of that
   request alone. *)
Filed(ms) ==
  \A i \in 1..Len(ms) : IsAnswer(ms[i]) => /\ i # 1 => Asked(ms, ms[i].of, i)
                                          /\ ms[i].text.from \in {Nobody, ms[i].of}

(* A request that is read has the last message, or none yet. *)
OneAnswer ==
  \A r \in Requests : phase[r] = "read" =>
    /\ added => IsAnswer(Last(messages))
    /\ \A i \in 1..Len(messages) :
         IsAnswer(messages[i]) /\ messages[i].of = r => added /\ i = Len(messages)

(* WholeAnswer, of any messages and any set of texts that were read to the end. *)
Settled(ms, done) ==
  \A i \in 1..Len(ms), t \in done :
    IsAnswer(ms[i]) /\ ms[i].of = t.from => ms[i].text = t /\ ~ms[i].cut

Story == /\ Asks /\ Remainder /\ OneAnswer
         /\ Filed(messages) /\ Settled(messages, completed)

IInv == Shape /\ Control /\ Sources /\ (~mixed => Story)
-----------------------------------------------------------------------------
(* Appending a message. *)
LEMMA Appended ==
  ASSUME NEW ms \in Seq(Message), NEW m \in Message
  PROVE  LET ns == Append(ms, m) IN
         /\ ns \in Seq(Message) /\ ns # <<>> /\ Len(ns) = Len(ms) + 1
         /\ \A i \in 1..Len(ms) : ns[i] = ms[i]
         /\ ns[Len(ms) + 1] = m /\ Last(ns) = m
  BY AppendProperties DEF Last

(* setMessages on the last message touches its text and its mark, of an answer. *)
LEMMA RewriteKeeps ==
  ASSUME NEW ms \in Seq(Message), ms # <<>>, NEW t \in Texts
  PROVE  LET ns == Rewrite(ms, t) IN
         /\ ns \in Seq(Message) /\ ns # <<>> /\ Len(ns) = Len(ms)
         /\ \A i \in 1..Len(ms) : /\ ns[i].role = ms[i].role /\ ns[i].of = ms[i].of
                                  /\ ~IsAnswer(ms[i]) \/ i # Len(ms) => ns[i] = ms[i]
         /\ IsAnswer(Last(ms)) => ns[Len(ms)].text = t /\ ~ns[Len(ms)].cut
<1> DEFINE n == Len(ms)
           m == [ms[n] EXCEPT !.text = t, !.cut = FALSE]
<1>1. n \in Nat /\ n >= 1 /\ Last(ms) = ms[n] /\ ms[n] \in Message /\ \A i \in 1..n : ms[i] \in Message
  BY EmptySeq, ElementOfSeq DEF Last
<1>2. m \in Message /\ m.role = ms[n].role /\ m.of = ms[n].of /\ m.text = t /\ ~m.cut
  BY <1>1 DEF Message
<1>3. CASE IsAnswer(Last(ms))
  <2>1. Rewrite(ms, t) = [ms EXCEPT ![n] = m]
    BY <1>3 DEF Rewrite, IsAnswer
  <2>2. [ms EXCEPT ![n] = m] \in Seq(Message) /\ Len([ms EXCEPT ![n] = m]) = n
    BY <1>1, <1>2, ExceptSeq
  <2>3. \A i \in 1..n : [ms EXCEPT ![n] = m][i] = IF i = n THEN m ELSE ms[i]
    BY <1>1, <1>2, ExceptSeq
  <2> QED BY <1>1, <1>2, <1>3, <2>1, <2>2, <2>3, EmptySeq
<1>4. CASE ~IsAnswer(Last(ms))
  BY <1>4 DEF Rewrite, IsAnswer
<1> QED BY <1>3, <1>4

LEMMA CutKeeps ==
  ASSUME NEW ms \in Seq(Message), ms # <<>>
  PROVE  LET ns == Cut(ms) IN
         /\ ns \in Seq(Message) /\ ns # <<>> /\ Len(ns) = Len(ms)
         /\ \A i \in 1..Len(ms) : /\ ns[i].role = ms[i].role /\ ns[i].of = ms[i].of
                                  /\ ns[i].text = ms[i].text
                                  /\ ~IsAnswer(ms[i]) \/ i # Len(ms) => ns[i] = ms[i]
         /\ ~IsAnswer(Last(ms)) => ns = ms
<1> DEFINE n == Len(ms)
           m == [ms[n] EXCEPT !.cut = TRUE]
<1>1. n \in Nat /\ n >= 1 /\ Last(ms) = ms[n] /\ ms[n] \in Message /\ \A i \in 1..n : ms[i] \in Message
  BY EmptySeq, ElementOfSeq DEF Last
<1>2. m \in Message /\ m.role = ms[n].role /\ m.of = ms[n].of /\ m.text = ms[n].text
  BY <1>1 DEF Message
<1>3. CASE IsAnswer(Last(ms))
  <2>1. Cut(ms) = [ms EXCEPT ![n] = m]
    BY <1>3 DEF Cut, IsAnswer
  <2>2. [ms EXCEPT ![n] = m] \in Seq(Message) /\ Len([ms EXCEPT ![n] = m]) = n
    BY <1>1, <1>2, ExceptSeq
  <2>3. \A i \in 1..n : [ms EXCEPT ![n] = m][i] = IF i = n THEN m ELSE ms[i]
    BY <1>1, <1>2, ExceptSeq
  <2> QED BY <1>1, <1>2, <1>3, <2>1, <2>2, <2>3, EmptySeq
<1>4. CASE ~IsAnswer(Last(ms))
  BY <1>4 DEF Cut, IsAnswer
<1> QED BY <1>3, <1>4

(* Messages keep their question as long as questions and roles stay. *)
LEMMA AskedKept ==
  ASSUME NEW ms, NEW ns, NEW q, NEW i \in Nat,
         \A k \in 1..i : ns[k].role = ms[k].role /\ (~IsAnswer(ms[k]) => ns[k] = ms[k]),
         Asked(ms, q, i)
  PROVE  Asked(ns, q, i)
<1>1. PICK j \in 1..i : ms[j] = Question(q) /\ \A k \in j+1..i : IsAnswer(ms[k])
  BY DEF Asked
<1>2. ~IsAnswer(ms[j])
  BY <1>1 DEF Question, IsAnswer
<1> QED BY <1>1, <1>2 DEF Asked, IsAnswer

(* An answer that follows is under the same question. *)
LEMMA AskedNext ==
  ASSUME NEW ms, NEW q, NEW i \in Nat, Asked(ms, q, i), IsAnswer(ms[i+1])
  PROVE  Asked(ms, q, i+1)
<1>1. PICK j \in 1..i : ms[j] = Question(q) /\ \A k \in j+1..i : IsAnswer(ms[k])
  BY DEF Asked
<1>2. \A k \in j+1..i+1 : IsAnswer(ms[k])
  BY <1>1
<1>3. j \in 1..i+1
  BY <1>1
<1> QED BY <1>1, <1>2, <1>3 DEF Asked

(* There is one question to an answer. *)
LEMMA AskedOnce ==
  ASSUME NEW ms, NEW p, NEW q, NEW i \in Nat, Asked(ms, p, i), Asked(ms, q, i)
  PROVE  p = q
<1>1. PICK j \in 1..i : ms[j] = Question(p) /\ \A k \in j+1..i : IsAnswer(ms[k])
  BY DEF Asked
<1>2. PICK l \in 1..i : ms[l] = Question(q) /\ \A k \in l+1..i : IsAnswer(ms[k])
  BY DEF Asked
<1>3. j = l
  BY <1>1, <1>2 DEF Question, IsAnswer
<1> QED BY <1>1, <1>2, <1>3 DEF Question
-----------------------------------------------------------------------------
(* Types. *)

LEMMA Begins ==
  ASSUME NEW ms \in Seq(Message), ms # <<>>
  PROVE  ms[1] = [Greeting EXCEPT !.text = ms[1].text, !.cut = ms[1].cut]
           <=> IsAnswer(ms[1]) /\ ms[1].of = Nobody
<1>1. ms[1] \in Message
  BY EmptySeq, ElementOfSeq
<1>2. ms[1] = [role |-> ms[1].role, of |-> ms[1].of, text |-> ms[1].text, cut |-> ms[1].cut]
  BY <1>1 DEF Message
<1>3. [Greeting EXCEPT !.text = ms[1].text, !.cut = ms[1].cut]
        = [role |-> "assistant", of |-> Nobody, text |-> ms[1].text, cut |-> ms[1].cut]
  <2> DEFINE g == [role |-> "assistant", of |-> Nobody, text |-> Idle, cut |-> FALSE]
             h == [role |-> "assistant", of |-> Nobody, text |-> ms[1].text, cut |-> FALSE]
  <2>1. Greeting = g
    BY DEF Greeting, Answer
  <2>2. [g EXCEPT !.text = ms[1].text] = h
    <3>1. \A t, u, c : [[role |-> "assistant", of |-> Nobody, text |-> t, cut |-> c] EXCEPT !.text = u]
                        = [role |-> "assistant", of |-> Nobody, text |-> u, cut |-> c]
      OBVIOUS
    <3> QED BY <3>1
  <2>3. [h EXCEPT !.cut = ms[1].cut]
          = [role |-> "assistant", of |-> Nobody, text |-> ms[1].text, cut |-> ms[1].cut]
    OBVIOUS
  <2> HIDE DEF g, h
  <2> QED BY <2>1, <2>2, <2>3
<1> QED BY <1>2, <1>3 DEF IsAnswer

LEMMA MessagesAre ==
  /\ Idle \in Texts
  /\ \A r \in Requests : Question(r) \in Message /\ ~IsAnswer(Question(r))
  /\ \A r \in 0..MaxSends, t \in Texts : /\ Answer(r, t) \in Message /\ IsAnswer(Answer(r, t))
                                      /\ Answer(r, t).of = r /\ Answer(r, t).text = t
  /\ Greeting = Answer(0, Idle)
  /\ <<Greeting>> \in Seq(Message) /\ <<Greeting>> # <<>> /\ Len(<<Greeting>>) = 1
  /\ <<Greeting>>[1] = Greeting /\ Last(<<Greeting>>) = Greeting
<1>1. Idle \in Texts
  BY BoundsAssumption DEF Idle, Texts, Nobody
<1>2. \A r \in Requests : Question(r) \in Message /\ ~IsAnswer(Question(r))
  BY <1>1, BoundsAssumption DEF Question, Message, IsAnswer, Requests
<1>3. \A r \in 0..MaxSends, t \in Texts : /\ Answer(r, t) \in Message /\ IsAnswer(Answer(r, t))
                                      /\ Answer(r, t).of = r /\ Answer(r, t).text = t
  BY DEF Answer, Message, IsAnswer
<1>4. Greeting = Answer(0, Idle) /\ Greeting \in Message
  BY <1>1, <1>3, BoundsAssumption DEF Greeting, Nobody
<1>5. <<Greeting>> \in Seq(Message)
  BY <1>4
<1> QED BY <1>1, <1>2, <1>3, <1>4, <1>5 DEF Last

(* A list of messages that extends or rewrites ms, where the list may not be empty. *)
WellKept(ms, ns) ==
  /\ ns \in Seq(Message) /\ ns # <<>> /\ Len(ns) >= Len(ms)
  /\ \A i \in 1..Len(ms) : ns[i].role = ms[i].role /\ ns[i].of = ms[i].of

Good(ms) == /\ ms \in Seq(Message) /\ ms # <<>>
            /\ ms[1] = [Greeting EXCEPT !.text = ms[1].text, !.cut = ms[1].cut]

LEMMA GoodStart == Good(<<Greeting>>)
<1>1. IsAnswer(<<Greeting>>[1]) /\ <<Greeting>>[1].of = Nobody
  BY DEF Greeting, Answer, IsAnswer
<1>2. <<Greeting>> \in Seq(Message) /\ <<Greeting>> # <<>>
  BY MessagesAre
<1> QED BY <1>1, <1>2, Begins DEF Good

LEMMA GoodKept ==
  ASSUME NEW ms, NEW ns, Good(ms), WellKept(ms, ns)
  PROVE  Good(ns)
<1>1. Len(ms) \in Nat /\ Len(ms) >= 1
  BY EmptySeq DEF Good
<1>2. IsAnswer(ms[1]) /\ ms[1].of = Nobody
  BY Begins DEF Good
<1>3. IsAnswer(ns[1]) /\ ns[1].of = Nobody
  BY <1>1, <1>2 DEF WellKept, IsAnswer
<1> QED BY <1>3, Begins DEF Good, WellKept

LEMMA GoodAppend ==
  ASSUME NEW ms, Good(ms), NEW m \in Message
  PROVE  Good(Append(ms, m))
<1>1. ms \in Seq(Message) /\ Len(ms) \in Nat
  BY EmptySeq DEF Good
<1>2. WellKept(ms, Append(ms, m))
  BY <1>1, Appended DEF WellKept
<1> QED BY <1>2, GoodKept

LEMMA GoodRewrite ==
  ASSUME NEW ms, Good(ms), NEW t \in Texts
  PROVE  Good(Rewrite(ms, t))
<1>1. ms \in Seq(Message) /\ ms # <<>> /\ Len(ms) \in Nat
  BY EmptySeq DEF Good
<1>2. WellKept(ms, Rewrite(ms, t))
  BY <1>1, RewriteKeeps DEF WellKept
<1> QED BY <1>2, GoodKept

LEMMA GoodCut ==
  ASSUME NEW ms, Good(ms)
  PROVE  Good(Cut(ms))
<1>1. ms \in Seq(Message) /\ ms # <<>> /\ Len(ms) \in Nat
  BY EmptySeq DEF Good
<1>2. WellKept(ms, Cut(ms))
  BY <1>1, CutKeeps DEF WellKept
<1> QED BY <1>2, GoodKept

Phases == {"unsent", "fetch", "read", "ended"}

(* The types of everything but the messages. *)
Plain ==
  /\ hasKey \in BOOLEAN /\ loading \in BOOLEAN /\ streaming \in BOOLEAN /\ added \in BOOLEAN
  /\ controller \in 0..MaxSends
  /\ phase \in [Requests -> Phases]
  /\ streamed \in Texts /\ timer \in Texts
  /\ displayed \in Texts
  /\ rendered \in Texts \X BOOLEAN /\ seen \in Texts \X BOOLEAN
  /\ completed \subseteq Texts /\ pressed \subseteq Requests /\ mixed \in BOOLEAN

LEMMA ShapeIs == Shape <=> Plain /\ Good(messages)
BY DEF Shape, TypeOK, Plain, Good, Message, Phases

LEMMA ShapeInit == Init => Shape
<1> SUFFICES ASSUME Init PROVE Shape
  OBVIOUS
<1>1. Good(messages)
  BY GoodStart DEF Init
<1>3. streamed \in Texts /\ timer \in Texts
  BY MessagesAre DEF Init
<1>4. rendered \in Texts \X BOOLEAN /\ seen \in Texts \X BOOLEAN /\ displayed \in Texts
  BY MessagesAre DEF Init
<1>5. phase \in [Requests -> Phases] /\ controller \in 0..MaxSends
  BY BoundsAssumption DEF Init, Phases, Nobody
<1>6. Plain
  BY <1>3, <1>4, <1>5 DEF Init, Plain
<1> QED BY <1>1, <1>6, ShapeIs

(* What the timer writes is one piece longer than what its effect saw. *)
LEMMA NextTyped ==
  ASSUME timer \in Texts, seen \in Texts \X BOOLEAN, MoreToType
  PROVE  LET next == [timer EXCEPT !.length = seen[1].length + 1] IN
         next \in Texts /\ next.from = timer.from
BY BoundsAssumption DEF MoreToType, Texts

LEMMA ShapeStep ==
  ASSUME Shape, [Next]_vars
  PROVE  Shape'
<1> USE BoundsAssumption
<1>0. Plain /\ Good(messages)
  BY ShapeIs
<1>p. SUFFICES Plain' /\ Good(messages')
  <2>1. Shape' <=> Plain' /\ Good(messages')
    BY DEF Shape, TypeOK, Plain, Good, Message, Phases
  <2> QED BY <2>1
<1>1. ASSUME NEW r \in Requests, Send(r) PROVE Plain' /\ Good(messages')
  <2>0. r \in 0..MaxSends /\ Idle \in Texts /\ Question(r) \in Message /\ Answer(r, Idle) \in Message
    BY MessagesAre DEF Requests
  <2> DEFINE ms == Append(messages, Question(r))
  <2>1. Good(ms)
    BY <1>0, <2>0, GoodAppend
  <2>2. Good(Append(ms, Answer(r, Idle))) /\ Good(Cut(ms))
    BY <2>0, <2>1, GoodAppend, GoodCut
  <2>3. Good(messages')
    BY <1>1, <2>1, <2>2 DEF Send, Interrupted
  <2>4. Plain'
    BY <1>0, <1>1, <2>0 DEF Send, Interrupted, Finally, Ended, Plain, Phases, typing, flags
  <2> QED BY <2>3, <2>4
<1>2. ASSUME Stop PROVE Plain' /\ Good(messages')
  <2>1. Good(messages')
    BY <1>0, <1>2, GoodCut DEF Stop, Interrupted
  <2>2. Plain'
    <3>1. phase' \in [Requests -> Phases] /\ loading' = FALSE /\ streaming' = FALSE
      BY <1>0, <1>2 DEF Stop, Interrupted, Finally, Ended, Plain, Phases
    <3>2. controller' \in 0..MaxSends /\ UNCHANGED <<hasKey, added, typing, history>>
      BY <1>2 DEF Stop, Nobody
    <3> QED BY <1>0, <3>1, <3>2 DEF Plain, typing, history
  <2> QED BY <2>1, <2>2
<1>3. ASSUME Clear PROVE Plain' /\ Good(messages')
  <2>1. Good(messages')
    BY <1>3, GoodStart DEF Clear
  <2>2. Plain'
    BY <1>0, <1>3 DEF Clear, Plain, typing, flags
  <2> QED BY <2>1, <2>2
<1>4. ASSUME NEW r \in Requests, Respond(r) PROVE Plain' /\ Good(messages')
  <2>1. Idle \in Texts /\ [from |-> r, length |-> 0] \in Texts
    BY MessagesAre DEF Requests, Texts
  <2> QED BY <1>0, <1>4, <2>1 DEF Respond, Restart, Plain, Phases, history
<1>5. ASSUME NEW r \in Requests, Fail(r) PROVE Plain' /\ Good(messages')
  <2>0. Answer(r, Idle) \in Message
    BY MessagesAre DEF Requests
  <2>1. Good(messages')
    BY <1>0, <1>5, <2>0, GoodAppend DEF Fail
  <2>2. Leftover(r) \in BOOLEAN
    BY DEF Leftover
  <2>3. Plain'
    BY <1>0, <1>5, <2>2 DEF Fail, Finally, Ended, Plain, Phases, typing
  <2> QED BY <2>1, <2>3
<1>6. ASSUME NEW r \in Requests, Receive(r) PROVE Plain' /\ Good(messages')
  <2>0. [from |-> r, length |-> 0] \in Texts /\ r \in 0..MaxSends
    BY DEF Texts, Requests
  <2>1. Answer(r, [from |-> r, length |-> 0]) \in Message
    BY <2>0, MessagesAre
  <2>2. Good(messages')
    BY <1>0, <1>6, <2>1, GoodAppend DEF Receive
  <2>3. Plain'
    <3>1. streamed' \in Texts
      <4>1. streamed.length + 1 \in 0..MaxLength
        BY <1>0, <1>6 DEF Receive, Plain, Texts
      <4>2. streamed \in Texts /\ streamed' = [streamed EXCEPT !.length = @ + 1]
        BY <1>0, <1>6 DEF Receive, Plain
      <4> QED BY <4>1, <4>2 DEF Texts
    <3>2. added' \in BOOLEAN /\ loading' \in BOOLEAN
      BY <1>0, <1>6 DEF Receive, Plain
    <3> QED BY <1>0, <1>6, <3>1, <3>2 DEF Receive, Plain, history
  <2> QED BY <2>2, <2>3
<1>7. ASSUME NEW r \in Requests, Complete(r) PROVE Plain' /\ Good(messages')
  <2>0. Answer(r, Idle) \in Message
    BY MessagesAre DEF Requests
  <2>1. streamed \in Texts
    BY <1>0 DEF Plain
  <2>2. Good(IF added THEN messages ELSE Append(messages, Answer(r, Idle)))
    BY <1>0, <2>0, GoodAppend
  <2>3. Good(messages')
    BY <1>7, <2>1, <2>2, GoodRewrite DEF Complete, Settle
  <2>4. Idle \in Texts
    BY MessagesAre
  <2>5. Plain'
    BY <1>0, <1>7, <2>4 DEF Complete, Finally, Ended, Plain, Phases
  <2> QED BY <2>3, <2>5
<1>8. ASSUME Effect PROVE Plain' /\ Good(messages')
  <2>1. Idle \in Texts
    BY MessagesAre
  <2> QED BY <1>0, <1>8, <2>1 DEF Effect, Plain, flags, history
<1>9. ASSUME Type PROVE Plain' /\ Good(messages')
  <2>1. Idle \in Texts
    BY MessagesAre
  <2>2. CASE MoreToType
    <3>1. [timer EXCEPT !.length = seen[1].length + 1] \in Texts
      BY <1>0, <2>2, NextTyped DEF Plain
    <3>2. Good(messages')
      BY <1>0, <1>9, <2>2, <3>1, GoodRewrite DEF Type
    <3>3. Outdated \in BOOLEAN
      BY DEF Outdated
    <3> HIDE DEF Outdated
    <3>4. Plain'
      BY <1>0, <1>9, <2>1, <2>2, <3>1, <3>3 DEF Type, Plain, flags
    <3> QED BY <3>2, <3>4
  <2>3. CASE ~MoreToType
    BY <1>0, <1>9, <2>1, <2>3 DEF Type, Plain, flags, history
  <2> QED BY <2>2, <2>3
<1>10. ASSUME UNCHANGED vars PROVE Plain' /\ Good(messages')
  BY <1>0, <1>10 DEF vars, flags, typing, history, Plain
<1>11. ASSUME Render PROVE Plain' /\ Good(messages')
  BY <1>0, <1>11 DEF Render, flags, history, Plain
<1> QED BY <1>1, <1>2, <1>3, <1>4, <1>5, <1>6, <1>7, <1>8, <1>9, <1>10, <1>11 DEF Next, Network

(* TypeOK holds in every reachable state: what is shown is never longer than an
   answer, and a chat begins with the greeting. *)
THEOREM TypeInvariant == Spec => []TypeOK
<1>1. Shape => TypeOK
  BY DEF Shape
<1>2. Spec => []Shape
  BY ShapeInit, ShapeStep, PTL DEF Spec
<1> QED BY <1>1, <1>2, PTL
-----------------------------------------------------------------------------
(* One request at a time, and flags that are true. *)

LEMMA ControlInit == Init => Control
BY DEF Init, Control, Keyed, StopReaches, SpinnerTrue, Quiet, Running

(* Nobody runs but the request of the controller. *)
LEMMA OthersRest ==
  ASSUME Shape, Control
  PROVE  /\ \A r \in Requests : Running(r) => controller = r /\ Interrupts
         /\ ~Interrupts => ~loading /\ ~streaming
         /\ Interrupts => controller \in Requests
<1>1. \A r \in Requests : Running(r) => controller = r /\ r # Nobody
  BY DEF Control, StopReaches, Requests, Nobody
<1>2. \A r \in Requests : Running(r) => controller = r /\ Interrupts
  BY <1>1 DEF Interrupts
<1>3. Interrupts => controller \in Requests
  BY BoundsAssumption DEF Shape, TypeOK, Interrupts, Requests, Nobody
<1> QED BY <1>2, <1>3 DEF Control, SpinnerTrue

(* A request that ends takes the flags down with it. *)
LEMMA LastEnds ==
  ASSUME Shape, Control, NEW r \in Requests, Running(r), Ended(r), Finally
  PROVE  \A q \in Requests : ~Running(q)'
<1>1. \A q \in Requests : q # r => ~Running(q)
  BY OthersRest
<1>2. \A q \in Requests : phase'[q] = IF q = r THEN "ended" ELSE phase[q]
  BY DEF Ended, Shape, TypeOK
<1> QED BY <1>1, <1>2 DEF Running

LEMMA ControlStep ==
  ASSUME Shape, Control, [Next]_vars
  PROVE  Control'
<1>0. phase \in [Requests -> Phases] /\ Keyed /\ StopReaches /\ SpinnerTrue /\ Quiet
  BY ShapeIs DEF Control, Plain
<1>1. ASSUME NEW r \in Requests, Send(r) PROVE Control'
  <2>0. phase[r] = "unsent" /\ ~Running(r) /\ controller' = r /\ added' = FALSE /\ hasKey' = hasKey
    BY <1>1 DEF Send, Running
  <2>1. CASE ~hasKey
    <3>1. \A q \in Requests : ~Running(q)
      BY <1>0, <2>1 DEF Keyed
    <3>2. phase' = [phase EXCEPT ![r] = "ended"] /\ UNCHANGED flags
      BY <1>1, <2>1 DEF Send, Ended
    <3>3. \A q \in Requests : ~Running(q)' /\ phase'[q] # "fetch"
      BY <1>0, <3>1, <3>2 DEF Running
    <3>4. ~loading /\ ~streaming
      BY <1>0, <3>1 DEF SpinnerTrue
    <3> QED BY <3>2, <3>3, <3>4 DEF Control, Keyed, StopReaches, SpinnerTrue, Quiet, Running, flags
  <2>2. CASE hasKey /\ Interrupts
    <3>1. phase' = [phase EXCEPT ![r] = "fetch", ![controller] = "ended"] /\ Finally
          /\ pressed' = pressed \cup {r}
      BY <1>1, <2>2 DEF Send, Interrupted
    <3>2. controller \in Requests /\ controller # r /\ \A q \in Requests : q # controller => ~Running(q)
      BY <2>0, <2>2, OthersRest DEF Interrupts
    <3>3. \A q \in Requests : phase'[q] = IF q = controller THEN "ended"
                                         ELSE IF q = r THEN "fetch" ELSE phase[q]
      BY <1>0, <3>1, <3>2
    <3>4. \A q \in Requests : Running(q)' => q = r /\ phase'[q] = "fetch"
      BY <3>2, <3>3 DEF Running
    <3> QED BY <2>0, <2>2, <3>1, <3>4
            DEF Control, Keyed, StopReaches, SpinnerTrue, Quiet, Running, Finally
  <2>3. CASE hasKey /\ ~Interrupts
    <3>1. phase' = [phase EXCEPT ![r] = "fetch"] /\ loading' = TRUE /\ streaming' = streaming
      BY <1>1, <2>3 DEF Send
    <3>2. (\A q \in Requests : ~Running(q)) /\ ~streaming
      BY <2>3, OthersRest
    <3>3. \A q \in Requests : Running(q)' => q = r /\ phase'[q] = "fetch"
      BY <1>0, <3>1, <3>2 DEF Running
    <3>4. phase'[r] = "fetch"
      BY <1>0, <3>1
    <3> QED BY <2>0, <2>3, <3>1, <3>2, <3>3, <3>4
            DEF Control, Keyed, StopReaches, SpinnerTrue, Quiet, Running
  <2> QED BY <2>1, <2>2, <2>3
<1>2. ASSUME Stop PROVE Control'
  <2>1. \A q \in Requests : ~Running(q)'
    <3>1. CASE Interrupts
      <4>1. controller \in Requests /\ Running(controller) /\ Ended(controller) /\ Finally
        BY <1>2, <3>1, OthersRest DEF Stop, Interrupts, Interrupted
      <4> QED BY <4>1, LastEnds
    <3>2. CASE ~Interrupts
      BY <1>2, <3>2, OthersRest DEF Stop, Running
    <3> QED BY <3>1, <3>2
  <2>2. Finally
    BY <1>2 DEF Stop, Interrupted
  <2> QED BY <2>1, <2>2 DEF Control, Keyed, StopReaches, SpinnerTrue, Quiet, Running, Finally
<1>3. ASSUME Clear PROVE Control'
  BY <1>0, <1>3 DEF Clear, flags, Control, Keyed, StopReaches, SpinnerTrue, Quiet, Running
<1>4. ASSUME NEW r \in Requests, Respond(r) PROVE Control'
  <2>1. \A q \in Requests : q # r => ~Running(q)
    BY <1>4, OthersRest DEF Respond, Running
  <2>2. \A q \in Requests : phase'[q] = IF q = r THEN "read" ELSE phase[q]
    BY <1>0, <1>4 DEF Respond
  <2>3. controller = r /\ hasKey
    BY <1>4, <1>0 DEF Respond, Running, StopReaches, Keyed
  <2>4. streaming' = TRUE /\ UNCHANGED <<hasKey, loading, controller, added, pressed>>
    BY <1>4 DEF Respond, history
  <2>5. \A q \in Requests : Running(q)' => q = r /\ phase'[q] = "read"
    BY <2>1, <2>2 DEF Running
  <2> QED BY <2>2, <2>3, <2>4, <2>5 DEF Control, Keyed, StopReaches, SpinnerTrue, Quiet, Running
<1>5. ASSUME NEW r \in Requests, Fail(r) PROVE Control'
  <2>1. Finally /\ \A q \in Requests : ~Running(q)'
    BY <1>5, LastEnds DEF Fail
  <2> QED BY <2>1 DEF Control, Keyed, StopReaches, SpinnerTrue, Quiet, Running, Finally
<1>6. ASSUME NEW r \in Requests, Receive(r) PROVE Control'
  <2>1. \A q \in Requests : q # r => ~Running(q)
    BY <1>6, OthersRest DEF Receive, Running
  <2>2. phase[r] = "read" /\ streaming
    BY <1>0, <1>6 DEF Receive, SpinnerTrue
  <2>3. UNCHANGED <<hasKey, streaming, controller, phase, pressed>>
    BY <1>6 DEF Receive, history
  <2>4. \A q \in Requests : phase[q] # "fetch"
    BY <2>1, <2>2 DEF Running
  <2> QED BY <1>0, <2>2, <2>3, <2>4 DEF Control, Keyed, StopReaches, SpinnerTrue, Quiet, Running
<1>7. ASSUME NEW r \in Requests, Complete(r) PROVE Control'
  <2>1. Finally /\ \A q \in Requests : ~Running(q)'
    BY <1>7, LastEnds DEF Complete, Running
  <2> QED BY <2>1 DEF Control, Keyed, StopReaches, SpinnerTrue, Quiet, Running, Finally
<1>8. ASSUME Effect PROVE Control'
  BY <1>0, <1>8 DEF Effect, flags, history, Control, Keyed, StopReaches, SpinnerTrue, Quiet, Running
<1>9. ASSUME Type PROVE Control'
  BY <1>0, <1>9 DEF Type, flags, Control, Keyed, StopReaches, SpinnerTrue, Quiet, Running
<1>10. ASSUME UNCHANGED vars PROVE Control'
  BY <1>0, <1>10 DEF vars, flags, history, Control, Keyed, StopReaches, SpinnerTrue, Quiet, Running
<1>11. ASSUME Render PROVE Control'
  BY <1>0, <1>11 DEF Render, flags, history, Control, Keyed, StopReaches, SpinnerTrue, Quiet, Running
<1> QED BY <1>1, <1>2, <1>3, <1>4, <1>5, <1>6, <1>7, <1>8, <1>9, <1>10, <1>11 DEF Next, Network

LEMMA ControlHolds == Spec => [](Shape /\ Control)
<1>1. Init => Shape /\ Control
  BY ShapeInit, ControlInit
<1>2. Shape /\ Control /\ [Next]_vars => (Shape /\ Control)'
  BY ShapeStep, ControlStep
<1> QED BY <1>1, <1>2, PTL DEF Spec

(* The request that runs is the one of the abort controller, so that Stop reaches
   it: there is never a second one that nothing can stop. *)
THEOREM StopAlwaysReaches == Spec => []StopReaches
<1>1. Shape /\ Control => StopReaches
  BY DEF Control
<1> QED BY <1>1, ControlHolds, PTL

(* The two lines of progress are true: no flag is up without a request that runs,
   and none that runs is without its flag. *)
THEOREM SpinnersAreTrue == Spec => []SpinnerTrue
<1>1. Shape /\ Control => SpinnerTrue
  BY DEF Control
<1> QED BY <1>1, ControlHolds, PTL
-----------------------------------------------------------------------------
(* Where the texts come from. *)

(* No request goes back. *)
LEMMA PhaseMoves ==
  ASSUME Shape, Control, [Next]_vars
  PROVE  \A q \in Requests : /\ phase[q] = "ended" => phase'[q] = "ended"
                             /\ phase[q] = "read" => phase'[q] \in {"read", "ended"}
<1>0. phase \in [Requests -> Phases] /\ (Interrupts => controller \in Requests /\ Running(controller))
  BY ShapeIs, OthersRest DEF Plain, Interrupts
<1> DEFINE Goal == \A q \in Requests : /\ phase[q] = "ended" => phase'[q] = "ended"
                                       /\ phase[q] = "read" => phase'[q] \in {"read", "ended"}
<1>1. ASSUME NEW r \in Requests, Send(r) PROVE Goal
  <2>1. phase[r] = "unsent"
    BY <1>1 DEF Send
  <2>2. \/ phase' = [phase EXCEPT ![r] = "ended"] \/ phase' = [phase EXCEPT ![r] = "fetch"]
        \/ Interrupts /\ phase' = [phase EXCEPT ![r] = "fetch", ![controller] = "ended"]
    BY <1>1 DEF Send, Ended
  <2>3. CASE Interrupts /\ phase' = [phase EXCEPT ![r] = "fetch", ![controller] = "ended"]
    <3>1. \A q \in Requests : phase'[q] = IF q = controller THEN "ended"
                                         ELSE IF q = r THEN "fetch" ELSE phase[q]
      BY <1>0, <2>3
    <3> QED BY <2>1, <3>1
  <2> QED BY <1>0, <2>1, <2>2, <2>3
<1>2. ASSUME Stop PROVE Goal
  <2>1. phase' = phase \/ (Interrupts /\ phase' = [phase EXCEPT ![controller] = "ended"])
    BY <1>2 DEF Stop, Ended
  <2> QED BY <1>0, <2>1
<1>4. ASSUME NEW r \in Requests, Respond(r) PROVE Goal
  BY <1>0, <1>4 DEF Respond
<1>5. ASSUME NEW r \in Requests, Fail(r) \/ Complete(r) PROVE Goal
  BY <1>0, <1>5 DEF Fail, Complete, Ended
<1>6. CASE phase' = phase
  BY <1>6
<1>7. (Clear \/ (\E r \in Requests : Receive(r)) \/ Render \/ Effect \/ Type \/ UNCHANGED vars)
        => phase' = phase
  BY DEF Clear, Receive, Render, Effect, Type, vars
<1> QED BY <1>1, <1>2, <1>4, <1>5, <1>6, <1>7 DEF Next, Network

LEMMA HeardStays ==
  ASSUME Shape, Control, [Next]_vars, NEW q \in 0..MaxSends, Heard(q)
  PROVE  Heard(q)'
<1>1. q = Nobody \/ q \in Requests
  BY DEF Nobody, Requests
<1> QED BY <1>1, PhaseMoves DEF Heard, Nobody, Requests

LEMMA SourcesInit == Init => Sources
<1> SUFFICES ASSUME Init PROVE Sources
  OBVIOUS
<1>1. messages = <<Greeting>> /\ Len(messages) = 1 /\ messages[1].of = Nobody
  BY DEF Init, Greeting, Answer
<1>2. SourcesHeard
  BY <1>1 DEF Init, SourcesHeard, Heard, Idle
<1>3. SourceRead /\ TimerOf
  BY DEF Init, SourceRead, TimerOf, Idle
<1> QED BY <1>2, <1>3 DEF Sources

(* The messages after a step: each is one of before with its role and request, or
   the greeting, or a question, or the answer of a request that was heard of. *)
Descend(ms) ==
  \A i \in 1..Len(ms) : IsAnswer(ms[i]) =>
    \/ ms[i].of = Nobody
    \/ i \in 1..Len(messages) /\ IsAnswer(messages[i]) /\ ms[i].of = messages[i].of
    \/ ms[i].of \in Requests /\ phase'[ms[i].of] \in {"read", "ended"}

LEMMA MessagesDescend ==
  ASSUME Shape, Control, [Next]_vars
  PROVE  Descend(messages')
<1>0. /\ phase \in [Requests -> Phases] /\ messages \in Seq(Message) /\ messages # <<>>
      /\ streamed \in Texts /\ timer \in Texts /\ seen \in Texts \X BOOLEAN
      /\ Len(messages) \in Nat
  BY ShapeIs, EmptySeq DEF Plain, Good
<1>a. ASSUME NEW ms \in Seq(Message), ms # <<>>, Descend(ms), NEW m \in Message,
             IsAnswer(m) => m.of \in Requests /\ phase'[m.of] \in {"read", "ended"}
      PROVE  Descend(Append(ms, m))
  <2>1. Len(ms) \in Nat
    BY <1>a, EmptySeq
  <2> QED BY <1>a, <2>1, Appended DEF Descend
<1>b. ASSUME NEW ms \in Seq(Message), ms # <<>>, Descend(ms) PROVE Descend(Cut(ms))
  BY <1>b, CutKeeps DEF Descend, IsAnswer
<1>c. ASSUME NEW ms \in Seq(Message), ms # <<>>, Descend(ms), NEW t \in Texts PROVE Descend(Rewrite(ms, t))
  BY <1>c, RewriteKeeps DEF Descend, IsAnswer
<1>d. Descend(messages)
  BY DEF Descend
<1>1. ASSUME NEW r \in Requests, Send(r) PROVE Descend(messages')
  <2> DEFINE ms == Append(messages, Question(r))
  <2>1. ms \in Seq(Message) /\ ms # <<>> /\ Descend(ms)
    BY <1>0, <1>a, <1>d, MessagesAre, Appended
  <2>2. ASSUME ~hasKey PROVE Descend(messages')
    <3>1. messages' = Append(ms, Answer(r, Idle)) /\ phase' = [phase EXCEPT ![r] = "ended"]
      BY <1>1, <2>2 DEF Send, Ended
    <3>2. Answer(r, Idle) \in Message /\ Answer(r, Idle).of = r /\ phase'[r] = "ended"
      BY <1>0, <3>1, MessagesAre DEF Requests
    <3> HIDE DEF ms
    <3> QED BY <1>a, <2>1, <3>1, <3>2
  <2>3. ASSUME hasKey PROVE messages' = ms \/ messages' = Cut(ms)
    BY <1>1, <2>3 DEF Send, Interrupted
  <2> HIDE DEF ms
  <2> QED BY <1>b, <2>1, <2>2, <2>3
<1>2. ASSUME Stop PROVE Descend(messages')
  <2>1. messages' = messages \/ messages' = Cut(messages)
    BY <1>2 DEF Stop, Interrupted
  <2> QED BY <1>0, <1>b, <1>d, <2>1
<1>3. ASSUME Clear PROVE Descend(messages')
  BY <1>3 DEF Clear, Descend, Greeting, Answer
<1>4. ASSUME NEW r \in Requests, Fail(r) \/ Receive(r) PROVE Descend(messages')
  <2>1. PICK t \in Texts : messages' = messages \/ messages' = Append(messages, Answer(r, t))
    <3>1. Idle \in Texts /\ [from |-> r, length |-> 0] \in Texts
      BY MessagesAre, BoundsAssumption DEF Texts, Requests
    <3> QED BY <1>4, <3>1 DEF Fail, Receive
  <2>2. phase'[r] \in {"read", "ended"}
    BY <1>0, <1>4 DEF Fail, Receive, Ended
  <2>3. Answer(r, t) \in Message /\ Answer(r, t).of = r
    BY MessagesAre DEF Requests
  <2> QED BY <1>0, <1>a, <1>d, <2>1, <2>2, <2>3
<1>5. ASSUME NEW r \in Requests, Complete(r) PROVE Descend(messages')
  <2> DEFINE ms == IF added THEN messages ELSE Append(messages, Answer(r, Idle))
  <2>1. messages' = Rewrite(ms, streamed) /\ phase'[r] = "ended"
    BY <1>0, <1>5 DEF Complete, Settle, Ended
  <2>2. Answer(r, Idle) \in Message /\ Answer(r, Idle).of = r
    BY MessagesAre DEF Requests
  <2>3. ms \in Seq(Message) /\ ms # <<>> /\ Descend(ms)
    BY <1>0, <1>a, <1>d, <2>1, <2>2, Appended
  <2> HIDE DEF ms
  <2> QED BY <1>0, <1>c, <2>1, <2>3
<1>6. ASSUME Type PROVE Descend(messages')
  <2>1. CASE MoreToType
    <3>1. [timer EXCEPT !.length = seen[1].length + 1] \in Texts
      BY <1>0, <2>1, NextTyped
    <3> QED BY <1>0, <1>6, <1>c, <1>d, <2>1, <3>1 DEF Type
  <2>2. CASE ~MoreToType
    BY <1>6, <1>d, <2>2 DEF Type
  <2> QED BY <2>1, <2>2
<1>7. ASSUME Render \/ Effect \/ (\E r \in Requests : Respond(r)) \/ UNCHANGED vars
      PROVE  messages' = messages
  BY <1>7 DEF Render, Effect, Respond, vars
<1> QED BY <1>1, <1>2, <1>3, <1>4, <1>5, <1>6, <1>7, <1>d DEF Next, Network

(* A step leaves every text where it is known from. *)
LEMMA HeardStep ==
  ASSUME Shape, Control, Sources, [Next]_vars
  PROVE  SourcesHeard'
<1>0. /\ phase \in [Requests -> Phases] /\ streamed \in Texts /\ timer \in Texts
      /\ messages \in Seq(Message) /\ SourcesHeard /\ SourceRead
  BY ShapeIs DEF Plain, Good, Sources
<1>1. \A q \in 0..MaxSends : Heard(q) => Heard(q)'
  BY HeardStays
<1>2. Heard(streamed.from)' /\ Heard(timer.from)'
  <2>1. streamed.from \in 0..MaxSends /\ timer.from \in 0..MaxSends
    BY <1>0 DEF Texts
  <2>2. Heard(streamed'.from)
        \/ \E r \in Requests : streamed' = [from |-> r, length |-> 0] /\ phase'[r] = "read"
    <3>1. ASSUME NEW r \in Requests, Respond(r)
          PROVE  streamed' = [from |-> r, length |-> 0] /\ phase'[r] = "read"
      BY <1>0, <3>1 DEF Respond, Restart
    <3>2. ASSUME NEW r \in Requests, Receive(r) PROVE streamed'.from = streamed.from
      BY <1>0, <3>2 DEF Receive, Texts
    <3>3. (\A r \in Requests : ~Respond(r) /\ ~Receive(r)) => streamed' = streamed
      BY DEF Next, Network, Send, Stop, Clear, Fail, Complete, Render, Effect, Type, vars, typing
    <3> QED BY <1>0, <3>1, <3>2, <3>3 DEF SourcesHeard
  <2>3. timer' \in {timer, streamed, Idle}
    BY DEF Next, Network, Send, Stop, Clear, Respond, Fail, Receive, Complete, Render, Effect, Type,
           vars, typing
  <2>4. streamed'.from \in 0..MaxSends
    <3>1. streamed' \in Texts
      BY ShapeStep DEF Shape, TypeOK
    <3> QED BY <3>1 DEF Texts
  <2>5. Heard(streamed.from)'
    BY <1>1, <2>2, <2>4 DEF Heard
  <2>6. Heard(timer.from)'
    BY <1>0, <1>1, <2>1, <2>3 DEF SourcesHeard, Heard, Idle
  <2> QED BY <2>5, <2>6
<1>3. ASSUME NEW i \in 1..Len(messages'), IsAnswer(messages'[i])
      PROVE  Heard(messages[i].of)'
  <2>1. \/ messages'[i].of = Nobody
        \/ i \in 1..Len(messages) /\ IsAnswer(messages[i]) /\ messages'[i].of = messages[i].of
        \/ messages'[i].of \in Requests /\ phase'[messages'[i].of] \in {"read", "ended"}
    BY <1>3, MessagesDescend DEF Descend
  <2>2. CASE i \in 1..Len(messages) /\ IsAnswer(messages[i]) /\ messages'[i].of = messages[i].of
    <3>1. messages[i].of \in 0..MaxSends /\ Heard(messages[i].of)
      <4>1. messages[i] \in Message
        BY <1>0, <2>2, ElementOfSeq
      <4>2. messages[i].of \in 0..MaxSends
        BY <4>1 DEF Message
      <4> QED BY <1>0, <2>2, <4>2 DEF SourcesHeard
    <3> QED BY <1>1, <2>2, <3>1 DEF Heard
  <2> QED BY <2>1, <2>2 DEF Heard
<1>4. \A t \in completed' : t.from \in Requests /\ phase'[t.from] = "ended"
  <2>1. completed' = completed
        \/ \E r \in Requests : Complete(r) /\ completed' = completed \cup {streamed}
    BY DEF Next, Network, Send, Stop, Clear, Respond, Fail, Receive, Complete, Render, Effect, Type,
           vars, history
  <2>2. ASSUME NEW r \in Requests, Complete(r) PROVE streamed.from = r /\ phase'[r] = "ended"
    BY <1>0, <2>2 DEF Complete, Ended, SourceRead
  <2> QED BY <1>0, <2>1, <2>2, PhaseMoves DEF SourcesHeard
<1> QED BY <1>2, <1>3, <1>4 DEF SourcesHeard

LEMMA SourcesStep ==
  ASSUME Shape, Control, Sources, [Next]_vars
  PROVE  Sources'
<1>0. /\ phase \in [Requests -> Phases] /\ streamed \in Texts /\ timer \in Texts
      /\ SourcesHeard /\ SourceRead /\ TimerOf /\ Keyed
  BY ShapeIs DEF Plain, Sources, Control
<1> SUFFICES SourceRead' /\ TimerOf'
  BY HeardStep DEF Sources
<1>1. ASSUME NEW r \in Requests, Send(r) PROVE SourceRead' /\ TimerOf'
  <2>1. UNCHANGED <<hasKey, streamed, timer>>
    BY <1>1 DEF Send, typing
  <2>2. \A q \in Requests : phase'[q] = "read" => phase[q] = "read"
    <3>0. Interrupts => controller \in Requests
      BY OthersRest
    <3>1. \/ phase' = [phase EXCEPT ![r] = "ended"] \/ phase' = [phase EXCEPT ![r] = "fetch"]
          \/ phase' = [phase EXCEPT ![r] = "fetch", ![controller] = "ended"]
      BY <1>1 DEF Send, Ended
    <3> QED BY <1>0, <3>0, <3>1
  <2> QED BY <1>0, <2>1, <2>2 DEF SourceRead, TimerOf
<1>2. ASSUME Stop PROVE SourceRead' /\ TimerOf'
  <2>1. UNCHANGED <<hasKey, streamed, timer>>
    BY <1>2 DEF Stop, typing
  <2>2. \A q \in Requests : phase'[q] = "read" => phase[q] = "read"
    <3>1. phase' = phase \/ phase' = [phase EXCEPT ![controller] = "ended"]
      BY <1>2 DEF Stop, Ended
    <3> QED BY <1>0, <3>1
  <2> QED BY <1>0, <2>1, <2>2 DEF SourceRead, TimerOf
<1>3. ASSUME NEW r \in Requests, Respond(r) PROVE SourceRead' /\ TimerOf'
  <2>1. streamed' = [from |-> r, length |-> 0] /\ timer' = timer /\ hasKey' = hasKey /\ hasKey
    BY <1>0, <1>3 DEF Respond, Restart, Keyed, Running
  <2>2. \A q \in Requests : q # r => phase[q] # "read"
    BY <1>3, OthersRest DEF Respond, Running
  <2>3. \A q \in Requests : phase'[q] = "read" => q = r
    BY <1>0, <1>3, <2>2 DEF Respond
  <2>4. timer.from # r /\ r # Nobody
    BY <1>0, <1>3 DEF SourcesHeard, Heard, Respond, Requests, Nobody
  <2> QED BY <1>0, <2>1, <2>3, <2>4 DEF SourceRead, TimerOf
<1>4. ASSUME NEW r \in Requests, Fail(r) \/ Complete(r) PROVE SourceRead' /\ TimerOf'
  <2>1. UNCHANGED <<hasKey, streamed, timer>>
    BY <1>4 DEF Fail, Complete, typing
  <2>2. \A q \in Requests : phase'[q] = "read" => phase[q] = "read"
    BY <1>0, <1>4 DEF Fail, Complete, Ended
  <2> QED BY <1>0, <2>1, <2>2 DEF SourceRead, TimerOf
<1>5. ASSUME NEW r \in Requests, Receive(r) PROVE SourceRead' /\ TimerOf'
  <2>1. /\ streamed'.from = streamed.from /\ streamed'.length = streamed.length + 1
        /\ UNCHANGED <<hasKey, timer, phase>>
    BY <1>0, <1>5 DEF Receive, Texts
  <2>2. streamed.from = r /\ r # Nobody /\ hasKey
    BY <1>0, <1>5 DEF Receive, SourceRead, Requests, Nobody, Keyed, Running
  <2>3. timer.length \in Nat /\ streamed.length \in Nat
    BY <1>0, BoundsAssumption DEF Texts
  <2> QED BY <1>0, <2>1, <2>2, <2>3 DEF SourceRead, TimerOf
<1>6. ASSUME UNCHANGED <<hasKey, streamed, phase>>, timer' \in {timer, streamed, Idle}
      PROVE  SourceRead' /\ TimerOf'
  <2>1. Idle.from = Nobody /\ Idle.length = 0 /\ streamed.length \in Nat
    BY <1>0, BoundsAssumption DEF Idle, Texts
  <2> QED BY <1>0, <1>6, <2>1 DEF SourceRead, TimerOf
<1>7. Clear \/ Render \/ Effect \/ Type \/ UNCHANGED vars
        => UNCHANGED <<hasKey, streamed, phase>> /\ timer' \in {timer, streamed, Idle}
  BY DEF Clear, Render, Effect, Type, vars, typing
<1> QED BY <1>1, <1>2, <1>3, <1>4, <1>5, <1>6, <1>7 DEF Next, Network
-----------------------------------------------------------------------------
(* What a new list of messages keeps of an old one. *)

LEMMA FiledAppend ==
  ASSUME NEW ms \in Seq(Message), Filed(ms), NEW m \in Message, ms # <<>>,
         IsAnswer(m) => /\ Asked(ms, m.of, Len(ms))
                        /\ m.text.from \in {Nobody, m.of}
  PROVE  Filed(Append(ms, m))
<1> DEFINE ns == Append(ms, m)
           n == Len(ms)
<1>1. n \in Nat /\ Len(ns) = n + 1 /\ ns[n+1] = m /\ \A i \in 1..n : ns[i] = ms[i]
  BY Appended, EmptySeq
<1> HIDE DEF ns, n
<1>2. ASSUME NEW q, NEW i \in 1..n, Asked(ms, q, i) PROVE Asked(ns, q, i)
  <2>1. i \in Nat /\ \A k \in 1..i : ns[k] = ms[k]
    BY <1>1
  <2> QED BY <1>2, <2>1, AskedKept
<1>3. ASSUME NEW i \in 1..n, IsAnswer(ns[i])
      PROVE  (i # 1 => Asked(ns, ns[i].of, i)) /\ ns[i].text.from \in {Nobody, ns[i].of}
  BY <1>1, <1>2, <1>3 DEF Filed, n
<1>4. ASSUME IsAnswer(m)
      PROVE  Asked(ns, m.of, n+1) /\ m.text.from \in {Nobody, m.of}
  <2>1. Asked(ms, m.of, n)
    BY <1>4 DEF n
  <2>2. Asked(ns, m.of, n)
    BY <1>1, <2>1, AskedKept
  <2> QED BY <1>1, <1>4, <2>2, AskedNext
<1>5. Filed(ns)
  BY <1>1, <1>3, <1>4 DEF Filed
<1> QED BY <1>5 DEF ns

(* Messages rewritten in place: by Rewrite and Cut. *)
InPlace(ms, ns) ==
  /\ ms \in Seq(Message) /\ ms # <<>> /\ ns \in Seq(Message) /\ ns # <<>> /\ Len(ns) = Len(ms)
  /\ \A i \in 1..Len(ms) : /\ ns[i].role = ms[i].role /\ ns[i].of = ms[i].of
                           /\ (~IsAnswer(ms[i]) \/ i # Len(ms)) => ns[i] = ms[i]

LEMMA InPlaceLast ==
  ASSUME NEW ms, NEW ns, InPlace(ms, ns)
  PROVE  /\ Len(ms) \in Nat /\ Len(ms) >= 1 /\ Last(ms) = ms[Len(ms)] /\ Last(ns) = ns[Len(ms)]
         /\ IsAnswer(Last(ns)) <=> IsAnswer(Last(ms))
         /\ \A i \in 1..Len(ms) : IsAnswer(ns[i]) <=> IsAnswer(ms[i])
<1>1. Len(ms) \in Nat /\ Len(ms) >= 1 /\ Last(ms) = ms[Len(ms)] /\ Last(ns) = ns[Len(ms)]
  BY EmptySeq DEF InPlace, Last
<1> QED BY <1>1 DEF InPlace, IsAnswer

LEMMA InPlaceAsked ==
  ASSUME NEW ms, NEW ns, InPlace(ms, ns), NEW q, NEW i \in 1..Len(ms), Asked(ms, q, i)
  PROVE  Asked(ns, q, i)
<1>1. i \in Nat /\ \A k \in 1..i : k \in 1..Len(ms)
  BY InPlaceLast
<1>2. \A k \in 1..i : ns[k].role = ms[k].role /\ (~IsAnswer(ms[k]) => ns[k] = ms[k])
  BY <1>1 DEF InPlace
<1> QED BY <1>1, <1>2, AskedKept

LEMMA InPlaceFiled ==
  ASSUME NEW ms, NEW ns, InPlace(ms, ns), Filed(ms),
         IsAnswer(Last(ms)) => Last(ns).text.from \in {Nobody, Last(ms).of}
  PROVE  Filed(ns)
<1> SUFFICES ASSUME NEW i \in 1..Len(ns), IsAnswer(ns[i])
             PROVE  (i # 1 => Asked(ns, ns[i].of, i)) /\ ns[i].text.from \in {Nobody, ns[i].of}
  BY DEF Filed
<1>1. i \in 1..Len(ms) /\ IsAnswer(ms[i]) /\ ns[i].of = ms[i].of
  BY InPlaceLast DEF InPlace
<1>2. i # 1 => Asked(ns, ns[i].of, i)
  BY <1>1, InPlaceAsked DEF Filed
<1>3. ns[i].text.from \in {Nobody, ns[i].of}
  <2>1. CASE i = Len(ms)
    BY <1>1, <2>1, InPlaceLast
  <2>2. CASE i # Len(ms)
    BY <1>1, <2>2 DEF Filed, InPlace
  <2> QED BY <2>1, <2>2
<1> QED BY <1>2, <1>3

LEMMA InPlaceSettled ==
  ASSUME NEW ms, NEW ns, InPlace(ms, ns), NEW done, Settled(ms, done),
         IsAnswer(Last(ms)) => \A t \in done : t.from # Last(ms).of
  PROVE  Settled(ns, done)
<1> SUFFICES ASSUME NEW i \in 1..Len(ns), NEW t \in done, IsAnswer(ns[i]), ns[i].of = t.from
             PROVE  ns[i].text = t /\ ~ns[i].cut
  BY DEF Settled
<1>1. i \in 1..Len(ms) /\ IsAnswer(ms[i]) /\ ms[i].of = t.from
  BY InPlaceLast DEF InPlace
<1>2. i # Len(ms)
  BY <1>1, InPlaceLast
<1>3. ns[i] = ms[i]
  BY <1>1, <1>2 DEF InPlace
<1> QED BY <1>1, <1>3 DEF Settled

LEMMA SettledAppend ==
  ASSUME NEW ms \in Seq(Message), NEW done, Settled(ms, done), NEW m \in Message,
         IsAnswer(m) => \A t \in done : t.from # m.of
  PROVE  Settled(Append(ms, m), done)
<1>1. Len(ms) \in Nat
  OBVIOUS
<1> QED BY <1>1, Appended DEF Settled

LEMMA RewriteInPlace ==
  ASSUME NEW ms \in Seq(Message), ms # <<>>, NEW t \in Texts
  PROVE  InPlace(ms, Rewrite(ms, t)) /\ (IsAnswer(Last(ms)) => Last(Rewrite(ms, t)).text = t
                                                               /\ ~Last(Rewrite(ms, t)).cut)
<1>1. InPlace(ms, Rewrite(ms, t))
  BY RewriteKeeps DEF InPlace
<1>2. Last(Rewrite(ms, t)) = Rewrite(ms, t)[Len(ms)]
  BY <1>1, InPlaceLast
<1> QED BY <1>1, <1>2, RewriteKeeps

LEMMA CutInPlace ==
  ASSUME NEW ms \in Seq(Message), ms # <<>>
  PROVE  InPlace(ms, Cut(ms)) /\ Last(Cut(ms)).text = Last(ms).text
<1>1. InPlace(ms, Cut(ms))
  BY CutKeeps DEF InPlace
<1>2. /\ Last(Cut(ms)) = Cut(ms)[Len(ms)] /\ Last(ms) = ms[Len(ms)]
      /\ Len(ms) \in Nat /\ Len(ms) >= 1
  BY <1>1, InPlaceLast
<1> QED BY <1>1, <1>2, CutKeeps

(* The last answer is the answer to the last question. *)
LEMMA LastAnswers ==
  ASSUME NEW ms, Good(ms), Filed(ms), NEW q, Asked(ms, q, Len(ms)), IsAnswer(Last(ms))
  PROVE  Last(ms).of = q
<1>1. Len(ms) \in Nat /\ Len(ms) >= 1 /\ Last(ms) = ms[Len(ms)]
  BY EmptySeq DEF Good, Last
<1>2. Len(ms) # 1
  <2>1. SUFFICES ASSUME Len(ms) = 1 PROVE FALSE
    OBVIOUS
  <2>2. ms[1] = Question(q)
    BY <2>1 DEF Asked
  <2> QED BY <1>1, <2>1, <2>2 DEF Question, IsAnswer
<1>3. Asked(ms, Last(ms).of, Len(ms))
  <2>1. IsAnswer(ms[Len(ms)]) /\ Len(ms) \in 1..Len(ms)
    BY <1>1
  <2>2. Asked(ms, ms[Len(ms)].of, Len(ms))
    BY <1>2, <2>1 DEF Filed
  <2> QED BY <1>1, <2>2
<1> QED BY <1>1, <1>3, AskedOnce
-----------------------------------------------------------------------------
(* The story: what is written where, as long as no answer was left to be typed
   into the messages of another. *)

LEMMA StoryInit == Init => Story
<1> SUFFICES ASSUME Init PROVE Story
  OBVIOUS
<1>1. messages = <<Greeting>> /\ Len(messages) = 1 /\ messages[1] = Greeting
  BY DEF Init
<1>2. ~Untyped
  BY DEF Init, Untyped, Idle
<1>3. \A r \in Requests : ~Running(r) /\ phase[r] # "read"
  BY DEF Init, Running
<1>4. Filed(messages)
  BY <1>1 DEF Filed, Greeting, Answer, Idle
<1>5. Settled(messages, completed)
  BY DEF Init, Settled
<1> QED BY <1>2, <1>3, <1>4, <1>5 DEF Story, Asks, Remainder, OneAnswer

(* What the proofs of the steps have in common. *)
LEMMA Around ==
  ASSUME IInv
  PROVE  /\ phase \in [Requests -> Phases]
         /\ messages \in Seq(Message) /\ messages # <<>> /\ Good(messages)
         /\ Len(messages) \in Nat /\ Len(messages) >= 1 /\ Last(messages) = messages[Len(messages)]
         /\ streamed \in Texts /\ timer \in Texts
         /\ seen \in Texts \X BOOLEAN /\ displayed \in Texts
         /\ SourcesHeard /\ SourceRead /\ TimerOf
         /\ Shape /\ Control /\ Sources
         /\ \A r \in Requests : Question(r) \in Message /\ ~IsAnswer(Question(r)) /\ r # Nobody
         /\ \A r \in Requests, t \in Texts : /\ Answer(r, t) \in Message /\ IsAnswer(Answer(r, t))
                                             /\ Answer(r, t).of = r /\ Answer(r, t).text = t
         /\ Idle \in Texts /\ Idle.from = Nobody
<1>1. phase \in [Requests -> Phases] /\ streamed \in Texts /\ timer \in Texts
      /\ seen \in Texts \X BOOLEAN /\ displayed \in Texts
  BY ShapeIs DEF IInv, Plain
<1>2. messages \in Seq(Message) /\ messages # <<>> /\ Good(messages)
  BY ShapeIs DEF IInv, Good
<1>3. Len(messages) \in Nat /\ Len(messages) >= 1 /\ Last(messages) = messages[Len(messages)]
  BY <1>2, EmptySeq DEF Last
<1>4. \A r \in Requests : r \in 0..MaxSends /\ r # Nobody
  BY DEF Requests, Nobody
<1>5. Idle.from = Nobody
  BY DEF Idle
<1> QED BY <1>1, <1>2, <1>3, <1>4, <1>5, MessagesAre DEF IInv, Sources

LEMMA StorySend ==
  ASSUME IInv, ~mixed, NEW r \in Requests, Send(r)
  PROVE  Story'
<1>0. Story
  BY DEF IInv
<1>1. /\ phase[r] = "unsent"
      /\ UNCHANGED <<streamed, displayed, completed>>
  BY DEF Send, typing
<1>3. \A t \in completed : t.from # r
  BY <1>1, Around DEF SourcesHeard
<1> DEFINE ms == Append(messages, Question(r))
<1>4. /\ ms \in Seq(Message) /\ ms # <<>> /\ Last(ms) = Question(r) /\ ~IsAnswer(Last(ms))
      /\ Len(ms) = Len(messages) + 1 /\ ms[Len(ms)] = Question(r)
  BY Appended, Around
<1>5. Filed(ms)
  BY <1>0, Around, FiledAppend DEF Story
<1>6. Settled(ms, completed)
  BY <1>0, Around, SettledAppend DEF Story
<1>7. Asked(ms, r, Len(ms))
  BY <1>4, Around DEF Asked
<1> HIDE DEF ms
<1>8. CASE ~hasKey
  <2>1. messages' = Append(ms, Answer(r, Idle)) /\ phase' = [phase EXCEPT ![r] = "ended"]
    BY <1>8 DEF Send, Ended, ms
  <2>2. \A q \in Requests : ~Running(q)' /\ phase'[q] # "read"
    <3>1. \A q \in Requests : ~Running(q)
      BY <1>8, Around DEF Control, Keyed
    <3> QED BY <2>1, <3>1, Around DEF Running
  <2>3. ~Untyped'
    <3>1. streamed.length = 0
      BY <1>8, Around DEF TimerOf, Idle
    <3>2. displayed.length \in Nat
      BY Around, BoundsAssumption DEF Texts
    <3> QED BY <1>1, <3>1, <3>2 DEF Untyped
  <2>4. Filed(messages')
    BY <1>4, <1>5, <1>7, <2>1, Around, FiledAppend
  <2>5. Settled(messages', completed')
    BY <1>1, <1>3, <1>4, <1>6, <2>1, Around, SettledAppend
  <2> QED BY <2>2, <2>3, <2>4, <2>5 DEF Story, Asks, Remainder, OneAnswer
<1>9. CASE hasKey
  <2>1. messages' = ms
    BY <1>4, <1>9, CutKeeps DEF Send, Interrupted, ms
  <2>2. \A q \in Requests : Running(q)' => q = r /\ phase'[q] = "fetch"
    <3>1. \A q \in Requests : Running(q) => controller = q /\ Interrupts
      BY Around, OthersRest
    <3>2. CASE Interrupts
      <4>1. phase' = [phase EXCEPT ![r] = "fetch", ![controller] = "ended"] /\ controller \in Requests
        BY <1>9, <3>2, Around, OthersRest DEF Send
      <4>2. \A q \in Requests : phase'[q] = IF q = controller THEN "ended"
                                           ELSE IF q = r THEN "fetch" ELSE phase[q]
        BY <4>1, Around
      <4> QED BY <3>1, <4>2 DEF Running
    <3>3. CASE ~Interrupts
      <4>1. phase' = [phase EXCEPT ![r] = "fetch"]
        BY <1>9, <3>3 DEF Send
      <4> QED BY <3>1, <3>3, <4>1, Around DEF Running
    <3> QED BY <3>2, <3>3
  <2>3. Asks'
    BY <1>7, <2>1, <2>2 DEF Asks
  <2>4. Remainder'
    BY <1>0, <1>1, <1>4, <2>1 DEF Story, Remainder, Untyped
  <2>5. OneAnswer'
    <3>1. \A q \in Requests : phase'[q] # "read"
      BY <2>2 DEF Running
    <3> QED BY <3>1 DEF OneAnswer
  <2> QED BY <1>1, <1>5, <1>6, <2>1, <2>3, <2>4, <2>5 DEF Story
<1> QED BY <1>8, <1>9

LEMMA StoryStop ==
  ASSUME IInv, ~mixed, Stop
  PROVE  Story'
<1>0. Story
  BY DEF IInv
<1>1. UNCHANGED <<streamed, displayed, completed>>
  BY DEF Stop, typing, history
<1>3. \A q \in Requests : ~Running(q)' /\ phase'[q] # "read"
  <2>1. CASE Interrupts
    <3>1. controller \in Requests /\ Running(controller) /\ Ended(controller) /\ Finally
      BY <2>1, Around, OthersRest DEF Stop, Interrupts, Interrupted
    <3> QED BY <3>1, Around, LastEnds DEF Running
  <2>2. CASE ~Interrupts
    BY <2>2, Around, OthersRest DEF Stop, Running
  <2> QED BY <2>1, <2>2
<1>4. CASE messages' = messages
  BY <1>0, <1>1, <1>3, <1>4 DEF Story, Asks, Remainder, OneAnswer, Untyped
<1>5. CASE Interrupts /\ messages' = Cut(messages)
  <2>1. InPlace(messages, messages') /\ Last(messages').text = Last(messages).text
    BY <1>5, Around, CutInPlace
  <2>2. controller \in Requests /\ Running(controller) /\ Asked(messages, controller, Len(messages))
    BY <1>0, <1>5, Around, OthersRest DEF Story, Asks, Interrupts
  <2>3. IsAnswer(Last(messages)) => Last(messages).of = controller
    BY <1>0, <2>2, Around, LastAnswers DEF Story
  <2>4. \A t \in completed : t.from # controller
    BY <2>2, Around DEF SourcesHeard, Running
  <2>5. Settled(messages', completed')
    BY <1>0, <1>1, <2>1, <2>3, <2>4, InPlaceSettled DEF Story
  <2>6. Filed(messages')
    <3>1. IsAnswer(Last(messages)) => Last(messages).text.from \in {Nobody, Last(messages).of}
      <4>1. Len(messages) \in 1..Len(messages)
        BY Around
      <4>2. Filed(messages) /\ Last(messages) = messages[Len(messages)]
        BY <1>0, Around DEF Story
      <4> QED BY <4>1, <4>2 DEF Filed
    <3> QED BY <1>0, <2>1, <3>1, InPlaceFiled DEF Story
  <2>7. Remainder'
    <3>1. IsAnswer(Last(messages')) => IsAnswer(Last(messages))
      BY <2>1, InPlaceLast
    <3>2. Asked(messages, streamed.from, Len(messages)) => Asked(messages', streamed.from, Len(messages'))
      <4>1. Len(messages) \in 1..Len(messages) /\ Len(messages') = Len(messages)
        BY <2>1, Around DEF InPlace
      <4> QED BY <2>1, <4>1, InPlaceAsked
    <3> QED BY <1>0, <1>1, <3>1, <3>2 DEF Story, Remainder, Untyped
  <2> QED BY <1>3, <2>5, <2>6, <2>7 DEF Story, Asks, OneAnswer
<1> QED BY <1>4, <1>5 DEF Stop, Interrupted

LEMMA StoryClear ==
  ASSUME IInv, Clear, ~mixed'
  PROVE  Story'
<1>1. /\ ~mixed /\ ~Untyped /\ \A r \in Requests : ~Running(r)
  BY DEF Clear
<1>2. Story
  BY <1>1 DEF IInv
<1>3. /\ messages' = <<Greeting>>
      /\ UNCHANGED <<phase, added, streamed, displayed, completed>>
  BY DEF Clear, typing
<1>4. Remainder' /\ Asks' /\ OneAnswer'
  BY <1>1, <1>2, <1>3 DEF Remainder, Asks, OneAnswer, Untyped, Running
<1>5. Filed(messages')
  BY <1>3 DEF Filed, Greeting, Answer, Idle
<1>6. Settled(messages', completed')
  <2>1. \A t \in completed : t.from # Nobody
    BY Around DEF SourcesHeard
  <2>2. Len(messages') = 1 /\ messages'[1].of = Nobody
    BY <1>3 DEF Greeting, Answer
  <2> QED BY <1>3, <2>1, <2>2 DEF Settled
<1> QED BY <1>4, <1>5, <1>6 DEF Story

LEMMA StoryRespond ==
  ASSUME IInv, ~mixed, NEW r \in Requests, Respond(r)
  PROVE  Story'
<1>0. Story /\ Control
  BY DEF IInv
<1>1. /\ phase[r] = "fetch" /\ phase' = [phase EXCEPT ![r] = "read"]
      /\ streamed' = [from |-> r, length |-> 0] /\ displayed' = Idle
      /\ UNCHANGED <<messages, added, completed>>
  BY DEF Respond, Restart, history
<1>2. ~streaming /\ ~added
  BY <1>0, <1>1 DEF Control, Quiet
<1>4. \A q \in Requests : Running(q)' => q = r
  <2>1. \A q \in Requests : Running(q) => q = r
    BY <1>1, Around, OthersRest DEF Running
  <2> QED BY <1>1, <2>1, Around DEF Running
<1>5. Asks'
  <2>1. Asked(messages, r, Len(messages))
    BY <1>0, <1>1 DEF Story, Asks, Running
  <2> QED BY <1>1, <1>4, <2>1 DEF Asks
<1>6. Remainder'
  BY <1>1 DEF Remainder, Untyped, Idle
<1>7. OneAnswer'
  <2>1. \A i \in 1..Len(messages) : IsAnswer(messages[i]) => messages[i].of # r
    BY <1>1, Around DEF SourcesHeard, Heard
  <2>2. \A q \in Requests : phase'[q] = "read" => q = r
    BY <1>4 DEF Running
  <2> QED BY <1>1, <1>2, <2>1, <2>2 DEF OneAnswer
<1> QED BY <1>0, <1>1, <1>5, <1>6, <1>7 DEF Story

(* A request that ends: nobody runs, and an earlier answer is not left to be typed. *)
LEMMA StoryFail ==
  ASSUME IInv, NEW r \in Requests, Fail(r), ~mixed'
  PROVE  Story'
<1>0. ~mixed /\ ~Leftover(r)
  BY DEF Fail
<1>1. Story
  BY <1>0 DEF IInv
<1>2. /\ Running(r) /\ messages' = Append(messages, Answer(r, Idle))
      /\ UNCHANGED <<streamed, displayed, completed>>
  BY DEF Fail, typing
<1>4. \A q \in Requests : ~Running(q)' /\ phase'[q] # "read"
  <2>1. \A q \in Requests : ~Running(q)'
    BY Around, LastEnds DEF Fail
  <2> QED BY <2>1 DEF Running
<1>5. Asked(messages, r, Len(messages))
  BY <1>1, <1>2 DEF Story, Asks
<1>6. Filed(messages')
  BY <1>1, <1>2, <1>5, Around, FiledAppend DEF Story
<1>7. Settled(messages', completed')
  <2>1. \A t \in completed : t.from # r
    BY <1>2, Around DEF SourcesHeard, Running
  <2> QED BY <1>1, <1>2, <2>1, Around, SettledAppend DEF Story
<1>8. Remainder'
  <2>1. Untyped => streamed.from = r
    BY <1>0 DEF Leftover
  <2>2. Asked(messages', r, Len(messages'))
    <3>1. /\ Len(messages') = Len(messages) + 1 /\ IsAnswer(messages'[Len(messages) + 1])
          /\ \A i \in 1..Len(messages) : messages'[i] = messages[i]
      BY <1>2, Around, Appended
    <3>2. Asked(messages', r, Len(messages))
      BY <1>5, <3>1, Around, AskedKept
    <3> QED BY <3>1, <3>2, Around, AskedNext
  <2> QED BY <1>1, <1>2, <2>1, <2>2 DEF Story, Remainder, Untyped
<1> QED BY <1>4, <1>6, <1>7, <1>8 DEF Story, Asks, OneAnswer

LEMMA StoryReceive ==
  ASSUME IInv, ~mixed, NEW r \in Requests, Receive(r)
  PROVE  Story'
<1>0. Story
  BY DEF IInv
<1>1. /\ phase[r] = "read" /\ Running(r) /\ streamed'.from = streamed.from /\ streamed.from = r
      /\ UNCHANGED <<phase, displayed, completed>>
  BY Around DEF Receive, history, Running, SourceRead, Texts
<1>3. \A q \in Requests : Running(q) => q = r
  BY <1>1, Around, OthersRest
<1>4. Asked(messages, r, Len(messages)) /\ \A t \in completed : t.from # r
  BY <1>0, <1>1, Around DEF Story, Asks, SourcesHeard
<1>5. CASE added
  <2>1. UNCHANGED <<messages, added>>
    BY <1>5 DEF Receive
  <2>2. Asks' /\ OneAnswer'
    BY <1>0, <1>1, <2>1 DEF Story, Asks, OneAnswer, Running
  <2>3. Remainder'
    BY <1>1, <1>4, <2>1 DEF Remainder
  <2> QED BY <1>0, <1>1, <2>1, <2>2, <2>3 DEF Story
<1>6. CASE ~added
  <2> DEFINE text == [from |-> r, length |-> 0]
  <2>0. text \in Texts /\ text.from = r
    BY BoundsAssumption DEF Texts, Requests
  <2>1. messages' = Append(messages, Answer(r, text)) /\ added' = TRUE
    BY <1>6 DEF Receive
  <2> HIDE DEF text
  <2>2. /\ Answer(r, text) \in Message /\ IsAnswer(Answer(r, text)) /\ Answer(r, text).of = r
        /\ Answer(r, text).text.from = r
    BY <2>0, Around
  <2>3. /\ Len(messages') = Len(messages) + 1 /\ messages'[Len(messages) + 1] = Answer(r, text)
        /\ Last(messages') = Answer(r, text)
        /\ \A i \in 1..Len(messages) : messages'[i] = messages[i]
    BY <2>1, <2>2, Around, Appended
  <2>4. Asked(messages', r, Len(messages'))
    <3>1. Asked(messages', r, Len(messages))
      BY <1>4, <2>3, Around, AskedKept
    <3> QED BY <2>2, <2>3, <3>1, Around, AskedNext
  <2>5. Asks' /\ Remainder'
    BY <1>1, <1>3, <1>4, <2>4 DEF Asks, Remainder, Running
  <2>6. OneAnswer'
    <3>1. \A i \in 1..Len(messages) : IsAnswer(messages[i]) => messages[i].of # r
      BY <1>0, <1>1, <1>6 DEF Story, OneAnswer
    <3>2. \A q \in Requests : phase'[q] = "read" => q = r
      BY <1>1, <1>3 DEF Running
    <3>3. \A i \in 1..Len(messages') : i \in 1..Len(messages) \/ i = Len(messages')
      BY <2>3, Around
    <3> QED BY <2>1, <2>2, <2>3, <3>1, <3>2, <3>3 DEF OneAnswer
  <2>7. Filed(messages')
    BY <1>0, <1>4, <2>1, <2>2, Around, FiledAppend DEF Story
  <2>8. Settled(messages', completed')
    BY <1>0, <1>1, <1>4, <2>1, <2>2, Around, SettledAppend DEF Story
  <2> QED BY <2>5, <2>6, <2>7, <2>8 DEF Story
<1> QED BY <1>5, <1>6

LEMMA StoryComplete ==
  ASSUME IInv, ~mixed, NEW r \in Requests, Complete(r)
  PROVE  Story'
<1>1. Story
  BY DEF IInv
<1> DEFINE ms == IF added THEN messages ELSE Append(messages, Answer(r, Idle))
<1>2. /\ phase[r] = "read" /\ Running(r) /\ streamed.from = r /\ messages' = Rewrite(ms, streamed)
      /\ displayed' = (IF streamed.length = 0 THEN Idle ELSE streamed)
      /\ completed' = completed \cup {streamed} /\ streamed' = streamed
  BY Around DEF Complete, Settle, Running, SourceRead
<1>4. \A q \in Requests : ~Running(q)' /\ phase'[q] # "read"
  <2>1. \A q \in Requests : ~Running(q)'
    BY <1>2, Around, LastEnds DEF Complete
  <2> QED BY <2>1 DEF Running
<1>5. Remainder'
  BY <1>2, Around DEF Remainder, Untyped, Texts, Idle
<1>6. Asked(messages, r, Len(messages)) /\ \A t \in completed : t.from # r
  BY <1>1, <1>2, Around DEF Story, Asks, SourcesHeard
<1>7. /\ Good(ms) /\ Filed(ms) /\ Settled(ms, completed) /\ IsAnswer(Last(ms))
      /\ Asked(ms, r, Len(ms))
      /\ \A i \in 1..Len(ms) : IsAnswer(ms[i]) /\ ms[i].of = r => i = Len(ms)
  <2>1. CASE added
    BY <1>1, <1>2, <1>6, <2>1, Around DEF Story, OneAnswer
  <2>2. CASE ~added
    <3>1. ms = Append(messages, Answer(r, Idle))
      BY <2>2
    <3>2. /\ Len(ms) = Len(messages) + 1 /\ ms[Len(messages) + 1] = Answer(r, Idle)
          /\ Last(ms) = Answer(r, Idle) /\ \A i \in 1..Len(messages) : ms[i] = messages[i]
      BY <3>1, Around, Appended
    <3>3. Good(ms)
      BY <3>1, Around, GoodAppend
    <3>4. Filed(ms)
      BY <1>1, <1>6, <3>1, Around, FiledAppend DEF Story
    <3>5. Settled(ms, completed)
      BY <1>1, <1>6, <3>1, Around, SettledAppend DEF Story
    <3>6. Asked(ms, r, Len(ms))
      <4>1. Asked(ms, r, Len(messages))
        BY <1>6, <3>2, Around, AskedKept
      <4>2. IsAnswer(ms[Len(messages) + 1]) /\ Len(messages) \in Nat
        BY <3>2, Around
      <4> HIDE DEF ms
      <4> QED BY <3>2, <4>1, <4>2, AskedNext
    <3>7. \A i \in 1..Len(ms) : IsAnswer(ms[i]) /\ ms[i].of = r => i = Len(ms)
      <4>1. \A i \in 1..Len(messages) : IsAnswer(messages[i]) => messages[i].of # r
        BY <1>1, <1>2, <2>2 DEF Story, OneAnswer
      <4>2. \A i \in 1..Len(ms) : i \in 1..Len(messages) \/ i = Len(ms)
        BY <3>2, Around
      <4> QED BY <3>2, <4>1, <4>2
    <3> QED BY <3>2, <3>3, <3>4, <3>5, <3>6, <3>7, Around
  <2> QED BY <2>1, <2>2
<1> HIDE DEF ms
<1>8. /\ InPlace(ms, messages') /\ Last(messages').text = streamed /\ ~Last(messages').cut
      /\ Len(ms) \in Nat /\ Last(messages') = messages'[Len(ms)] /\ Last(ms).of = r
      /\ Last(ms) = ms[Len(ms)]
  <2>1. InPlace(ms, messages') /\ Last(messages').text = streamed /\ ~Last(messages').cut
    BY <1>2, <1>7, Around, RewriteInPlace DEF Good
  <2> QED BY <1>7, <2>1, InPlaceLast, LastAnswers
<1>9. Filed(messages')
  BY <1>2, <1>7, <1>8, InPlaceFiled
<1>10. Settled(messages', completed')
  <2> SUFFICES ASSUME NEW i \in 1..Len(messages'), NEW t \in completed \cup {streamed},
                      IsAnswer(messages'[i]), messages'[i].of = t.from
               PROVE  messages'[i].text = t /\ ~messages'[i].cut
    BY <1>2 DEF Settled
  <2>1. i \in 1..Len(ms) /\ IsAnswer(ms[i]) /\ ms[i].of = t.from
    BY <1>8, InPlaceLast DEF InPlace
  <2>2. CASE t = streamed
    <3>1. i = Len(ms)
      BY <1>2, <1>7, <2>1, <2>2
    <3> QED BY <1>8, <2>2, <3>1
  <2>3. CASE t \in completed
    <3>1. i # Len(ms)
      BY <1>6, <1>8, <2>1, <2>3
    <3>2. messages'[i] = ms[i]
      BY <1>8, <2>1, <3>1 DEF InPlace
    <3> QED BY <1>7, <2>1, <2>3, <3>2 DEF Settled
  <2> QED BY <2>2, <2>3
<1> QED BY <1>4, <1>5, <1>9, <1>10 DEF Story, Asks, OneAnswer

LEMMA StoryRender ==
  ASSUME IInv, ~mixed, Render \/ Effect
  PROVE  Story'
<1>1. Story
  BY DEF IInv
<1>2. UNCHANGED <<messages, phase, added, streamed, displayed, completed>>
  BY DEF Render, Effect, history
<1> QED BY <1>1, <1>2 DEF Story, Asks, Remainder, OneAnswer, Untyped, Running

(* The typewriter writes into the last message, which is then the answer of the
   request whose text it copies, unless that text is outdated. *)
LEMMA StoryType ==
  ASSUME IInv, ~mixed, Type, ~mixed'
  PROVE  Story'
<1>0. Story
  BY DEF IInv
<1>1. timer # Idle /\ UNCHANGED <<phase, added, streamed, completed>>
  BY DEF Type
<1>3. CASE ~MoreToType
  <2>1. UNCHANGED <<messages, displayed>>
    BY <1>3 DEF Type
  <2> QED BY <1>0, <1>1, <2>1 DEF Story, Asks, Remainder, OneAnswer, Untyped, Running
<1>4. CASE MoreToType
  <2> DEFINE t == [timer EXCEPT !.length = seen[1].length + 1]
  <2>1. messages' = Rewrite(messages, t)
    BY <1>4 DEF Type
  <2>2. t \in Texts /\ t.from = timer.from
    BY <1>4, Around, NextTyped
  <2>3. timer.from = streamed.from /\ Untyped
    BY <1>4 DEF Type, Outdated
  <2> HIDE DEF t
  <2>5. /\ InPlace(messages, messages') /\ Len(messages') = Len(messages)
        /\ IsAnswer(Last(messages)) => Last(messages').text = t
    <3>1. messages \in Seq(Message) /\ messages # <<>>
      BY Around
    <3>2. InPlace(messages, messages')
      BY <2>1, <2>2, <3>1, RewriteInPlace
    <3>3. IsAnswer(Last(messages)) => Last(messages').text = t
      BY <2>1, <2>2, <3>1, RewriteInPlace
    <3> QED BY <3>2, <3>3 DEF InPlace
  <2>6. ASSUME IsAnswer(Last(messages))
        PROVE  Asked(messages, streamed.from, Len(messages)) /\ Last(messages).of = streamed.from
    BY <1>0, <2>3, <2>6, Around, LastAnswers DEF Story, Remainder
  <2>7. \A q : Asked(messages, q, Len(messages)) => Asked(messages', q, Len(messages'))
    BY <2>5, Around, InPlaceAsked
  <2>8. Asks'
    BY <1>0, <1>1, <2>7 DEF Story, Asks, Running
  <2>9. Remainder'
    <3>1. IsAnswer(Last(messages')) => IsAnswer(Last(messages))
      BY <2>5, InPlaceLast
    <3> QED BY <1>0, <1>1, <2>3, <2>7, <3>1 DEF Story, Remainder
  <2>10. OneAnswer'
    <3>1. /\ IsAnswer(Last(messages')) <=> IsAnswer(Last(messages))
          /\ \A i \in 1..Len(messages) : /\ IsAnswer(messages'[i]) <=> IsAnswer(messages[i])
                                         /\ messages'[i].of = messages[i].of
      BY <2>5, InPlaceLast DEF InPlace
    <3> QED BY <1>0, <1>1, <2>5, <3>1 DEF Story, OneAnswer
  <2>11. Filed(messages')
    BY <1>0, <2>2, <2>3, <2>5, <2>6, InPlaceFiled DEF Story
  <2>12. Settled(messages', completed')
    <3>1. IsAnswer(Last(messages)) => \A u \in completed : u.from # Last(messages).of
      BY <1>0, <2>3, <2>6 DEF Story, Remainder
    <3> QED BY <1>0, <1>1, <2>5, <3>1, InPlaceSettled DEF Story
  <2> QED BY <2>8, <2>9, <2>10, <2>11, <2>12 DEF Story
<1> QED BY <1>3, <1>4

LEMMA StoryStep ==
  ASSUME IInv, [Next]_vars, ~mixed'
  PROVE  Story'
<1>1. ~mixed
  BY DEF Next, Network, Send, Stop, Clear, Respond, Fail, Receive, Complete, Render,
         Effect, Type, vars, history
<1>2. ASSUME UNCHANGED vars PROVE Story'
  BY <1>1, <1>2 DEF IInv, vars, flags, typing, history, Story, Asks, Remainder,
                    OneAnswer, Untyped, Running
<1> QED BY <1>1, <1>2, StorySend, StoryStop, StoryClear, StoryRespond, StoryFail, StoryReceive,
           StoryComplete, StoryRender, StoryType DEF Next, Network

LEMMA Invariant == Spec => []IInv
<1>1. Init => IInv
  BY ShapeInit, ControlInit, SourcesInit, StoryInit DEF IInv
<1>2. IInv /\ [Next]_vars => IInv'
  <2> SUFFICES ASSUME IInv, [Next]_vars PROVE IInv'
    OBVIOUS
  <2>1. Shape' /\ Control' /\ Sources'
    BY ShapeStep, ControlStep, SourcesStep DEF IInv
  <2>2. ~mixed' => Story'
    BY StoryStep
  <2> QED BY <2>1, <2>2 DEF IInv
<1> QED BY <1>1, <1>2, PTL DEF Spec

(* The typewriter writes into whatever message is the last, its timer is not ordered
   with the rendering, and requests are stopped, fail and are overtaken: no answer is
   shown under another question, unless the messages were cleared or a request failed
   before an earlier answer was typed, or a timer that was set for an earlier answer,
   or for less than is displayed, fired before its effect had cleared it. *)
THEOREM AnswersUnderTheirQuestion == Spec => []AnswersItsQuestion
<1>1. IInv => AnswersItsQuestion
  <2> SUFFICES ASSUME IInv, ~mixed, NEW i \in 1..Len(messages),
                      messages[i].role = "assistant" /\ messages[i].text.from # Nobody
               PROVE  \E j \in 1..i-1 : /\ messages[j] = Question(messages[i].text.from)
                                        /\ \A k \in j+1..i : messages[k].role = "assistant"
    BY DEF AnswersItsQuestion
  <2>1. Filed(messages) /\ IsAnswer(messages[i])
    BY DEF IInv, Story, IsAnswer
  <2>2. messages[i].text.from = messages[i].of
    BY <2>1 DEF Filed
  <2>3. i # 1
    <3>1. messages[1].of = Nobody
      BY Around, Begins DEF Good
    <3> QED BY <2>2, <3>1
  <2>4. Asked(messages, messages[i].text.from, i)
    BY <2>1, <2>2, <2>3 DEF Filed
  <2>5. PICK j \in 1..i : messages[j] = Question(messages[i].text.from)
                          /\ \A k \in j+1..i : IsAnswer(messages[k])
    BY <2>4 DEF Asked
  <2>6. j # i
    BY <2>1, <2>5 DEF Question, IsAnswer
  <2>7. j \in 1..i-1
    BY <2>5, <2>6
  <2> QED BY <2>5, <2>7 DEF IsAnswer
<1> QED BY <1>1, Invariant, PTL

(* A request whose stream was read to its end shows the whole answer for ever, not
   marked as interrupted: no Stop, failure or later question takes any of it away, nor
   a timer that was still to fire when it ended, if its effect cleared it in time. *)
THEOREM AnswersStayWhole == Spec => []WholeAnswer
<1>1. IInv => WholeAnswer
  BY DEF IInv, Story, Settled, WholeAnswer, IsAnswer
<1> QED BY <1>1, Invariant, PTL
=============================================================================
