-------------------------------- MODULE Chat --------------------------------
(***************************************************************************)
(* The assistant of the documentation site: Chatbox                        *)
(* (components/Chatbox.tsx), with its requests, the reader's Stop, Clear   *)
(* and Enter, and the typewriter that copies the answer into the last      *)
(* message.                                                                *)
(*                                                                         *)
(* What is set is rendered some time later (a click's changes at once, but *)
(* the model lets them take their time, too), and the effect of the        *)
(* typewriter, which clears the timer before it sets one, runs some time   *)
(* after that.  An aborted request rejects what it waits for               *)
(* before the next event, so that its catch and finally belong to the step *)
(* that aborts it.  A text is the request it came from and the number of   *)
(* its pieces; the messages of the program itself are empty.               *)
(***************************************************************************)
EXTENDS Naturals, Sequences, SequencesExt

CONSTANTS
  MaxSends,  \* bound: questions sent
  MaxLength  \* bound: pieces of an answer

ASSUME BoundsAssumption == MaxSends \in Nat /\ MaxLength \in Nat

Requests == 1..MaxSends
Nobody == 0
Idle == [from |-> Nobody, length |-> 0]

VARIABLES
  hasKey,     \* VITE_OPENROUTER_API_KEY was given to the build
  loading,    \* isLoading
  streaming,  \* isStreaming
  messages,
  controller, \* the request of abortControllerRef, or Nobody
  phase,      \* request -> "unsent", "fetch", "read" or "ended"
  added,      \* hasAddedAssistantMessage of the request that runs
  streamed,   \* streamingTextRef
  displayed,  \* displayedText
  rendered,   \* displayed and streaming as last rendered
  seen,       \* rendered when the typewriter's effect last ran
  timer       \* the text its timer will copy from, or Idle: no timer

(* History, read by properties and by no guard. *)
VARIABLES
  completed,  \* the requests whose stream was read to its end
  pressed,    \* the requests sent while another ran
  mixed       \* the messages were cleared, or a request failed, while an answer was
              \* still to come or to be typed; or a timer typed an outdated text

flags   == <<loading, streaming>>
typing  == <<streamed, displayed, rendered, seen, timer>>
history == <<completed, pressed, mixed>>
vars    == <<hasKey, flags, messages, controller, phase, added, typing, history>>

Running(r) == phase[r] \in {"fetch", "read"}
Ended(r) == phase' = [phase EXCEPT ![r] = "ended"]
-----------------------------------------------------------------------------
Question(r) == [role |-> "user", of |-> r, text |-> Idle, cut |-> FALSE]
Answer(r, t) == [role |-> "assistant", of |-> r, text |-> t, cut |-> FALSE]
Greeting == Answer(Nobody, Idle)

(* setMessages(prev => ...) on the last message, if it is the assistant's. *)
Rewrite(ms, t) ==
  IF Last(ms).role = "assistant" THEN [ms EXCEPT ![Len(ms)] = [@ EXCEPT !.text = t, !.cut = FALSE]]
                                 ELSE ms
Cut(ms) ==
  IF Last(ms).role = "assistant" THEN [ms EXCEPT ![Len(ms)] = [@ EXCEPT !.cut = TRUE]] ELSE ms

Init ==
  /\ hasKey \in BOOLEAN
  /\ loading = FALSE /\ streaming = FALSE
  /\ messages = <<Greeting>>
  /\ controller = Nobody
  /\ phase = [r \in Requests |-> "unsent"]
  /\ added = FALSE
  /\ streamed = Idle /\ displayed = Idle
  /\ rendered = <<Idle, FALSE>> /\ seen = rendered /\ timer = Idle
  /\ completed = {} /\ pressed = {} /\ mixed = FALSE

Untyped == displayed.length < streamed.length

(* Mutant of Rerun: the effect depends on displayedText only. *)
RerunOnText == seen[1] # rendered[1]
Rerun == seen # rendered

(* An earlier answer is still to be typed when request r ends. *)
Leftover(r) == Untyped /\ streamed.from # r

(* Mutant of Finally: isStreaming is forgotten. *)
FinallyLoading == loading' = FALSE /\ UNCHANGED streaming
Finally == loading' = FALSE /\ streaming' = FALSE

(* The catch of an AbortError and the finally, with what the handler that aborts
   does to the messages before. *)
Interrupted(ms) == messages' = Cut(ms) /\ Finally

(* Mutant of Interrupts: nothing is aborted. *)
NeverInterrupts == FALSE
Interrupts == controller # Nobody /\ Running(controller)

(* handleSendMessage up to its first await; then what it has aborted ends.  Enter
   sends while an answer is streaming, too. *)
Send(r) ==
  /\ ~loading
  /\ phase[r] = "unsent" /\ \A q \in Requests : q < r => phase[q] # "unsent"
  /\ controller' = r
  /\ added' = FALSE
  /\ LET ms == Append(messages, Question(r)) IN
     \/ /\ ~hasKey
        /\ Ended(r)
        /\ messages' = Append(ms, Answer(r, Idle))
        /\ UNCHANGED <<flags, pressed>>
     \/ /\ hasKey /\ Interrupts
        /\ phase' = [phase EXCEPT ![r] = "fetch", ![controller] = "ended"]
        /\ Interrupted(ms)
        /\ pressed' = pressed \cup {r}
     \/ /\ hasKey /\ ~Interrupts
        /\ phase' = [phase EXCEPT ![r] = "fetch"]
        /\ messages' = ms
        /\ loading' = TRUE
        /\ UNCHANGED <<streaming, pressed>>
  /\ UNCHANGED <<hasKey, typing, completed, mixed>>

(* handleStopStreaming; the button may still be there for a stream that has ended. *)
Stop ==
  /\ loading \/ streaming \/ rendered[2]
  /\ controller' = Nobody
  /\ IF Interrupts THEN Ended(controller) /\ Interrupted(messages)
                   ELSE Finally /\ UNCHANGED <<phase, messages>>
  /\ UNCHANGED <<hasKey, added, typing, history>>

(* handleClear leaves a request that runs, and the typewriter, alone. *)
Clear ==
  /\ messages' = <<Greeting>>
  /\ mixed' = (mixed \/ Untyped \/ \E r \in Requests : Running(r))
  /\ UNCHANGED <<hasKey, flags, controller, phase, added, typing, completed, pressed>>

(* Mutant of Restart: streamingTextRef keeps the text of the last answer. *)
KeepText(r) ==
  streamed' = IF streamed = Idle THEN [from |-> r, length |-> 0] ELSE streamed
Restart(r) == streamed' = [from |-> r, length |-> 0]

(* The response has a stream. *)
Respond(r) ==
  /\ phase[r] = "fetch"
  /\ phase' = [phase EXCEPT ![r] = "read"]
  /\ streaming' = TRUE
  /\ Restart(r)
  /\ displayed' = Idle
  /\ UNCHANGED <<hasKey, loading, messages, controller, added, rendered, seen, timer, history>>

(* fetch or read rejects, or the response is not ok. *)
Fail(r) ==
  /\ Running(r) /\ Ended(r)
  /\ messages' = Append(messages, Answer(r, Idle))
  /\ Finally
  /\ mixed' = (mixed \/ Leftover(r))
  /\ UNCHANGED <<hasKey, controller, added, typing, completed, pressed>>

(* A piece arrives; the first one adds the message. *)
Receive(r) ==
  /\ phase[r] = "read" /\ streamed.length < MaxLength
  /\ streamed' = [streamed EXCEPT !.length = @ + 1]
  /\ IF added THEN UNCHANGED <<messages, loading, added>>
              ELSE /\ messages' = Append(messages, Answer(r, [from |-> r, length |-> 0]))
                   /\ loading' = FALSE /\ added' = TRUE
  /\ UNCHANGED <<hasKey, streaming, controller, phase, displayed, rendered, seen, timer,
                 history>>

(* Mutant of Settle: what was typed by then stays. *)
AsTyped(ms) == ms
Settle(ms) == Rewrite(ms, streamed)

(* The stream ends: the last message gets the whole text. *)
Complete(r) ==
  /\ phase[r] = "read" /\ Ended(r)
  /\ messages' = Settle(IF added THEN messages ELSE Append(messages, Answer(r, Idle)))
  /\ added' = TRUE
  /\ displayed' = IF streamed.length = 0 THEN Idle ELSE streamed
  /\ Finally
  /\ completed' = completed \cup {streamed}
  /\ UNCHANGED <<hasKey, controller, streamed, rendered, seen, timer, pressed, mixed>>
-----------------------------------------------------------------------------
(* The effects of one rendering run before the next. *)
Render ==
  /\ ~Rerun
  /\ rendered # <<displayed, streaming>>
  /\ rendered' = <<displayed, streaming>>
  /\ UNCHANGED <<hasKey, flags, messages, controller, phase, added, streamed, displayed, seen,
                 timer, history>>

(* The effect of the typewriter depends on displayedText and isStreaming alone; its
   timer keeps the text there is when it is set. *)
Effect ==
  /\ Rerun
  /\ seen' = rendered
  /\ timer' = IF rendered[1].length < streamed.length \/ rendered[2] THEN streamed ELSE Idle
  /\ UNCHANGED <<hasKey, flags, messages, controller, phase, added, streamed, displayed,
                 rendered, history>>

(* Mutant of MoreToType: the length of the text is not looked at. *)
AlwaysMore == TRUE
MoreToType == seen[1].length < timer.length

(* The timer copies from the text of an earlier request, or what is already displayed. *)
Outdated == timer.from # streamed.from \/ ~Untyped

(* The timer fires, whatever has been set and not yet rendered since it was made. *)
Type ==
  /\ timer # Idle
  /\ timer' = Idle
  /\ IF MoreToType
     THEN LET next == [timer EXCEPT !.length = seen[1].length + 1] IN
          /\ displayed' = next
          /\ messages' = Rewrite(messages, next)
          /\ mixed' = (mixed \/ Outdated)
     ELSE UNCHANGED <<displayed, messages, mixed>>
  /\ UNCHANGED <<hasKey, flags, controller, phase, added, streamed, rendered, seen, completed,
                 pressed>>

Network(r) == Respond(r) \/ Fail(r) \/ Receive(r) \/ Complete(r)

Next ==
  \/ \E r \in Requests : Send(r) \/ Network(r)
  \/ Stop \/ Clear \/ Render \/ Effect \/ Type

Spec == Init /\ [][Next]_vars

(* The browser renders and runs effects and timers, and a stream goes on until it ends; what
   the reader does is not counted on. *)
FairSpec ==
  /\ Spec
  /\ WF_vars(Render) /\ WF_vars(Effect) /\ WF_vars(Type)
  /\ \A r \in Requests : WF_vars(Network(r))
-----------------------------------------------------------------------------
Texts == [from : 0..MaxSends, length : 0..MaxLength]

(* Types of the state; a chat begins with the greeting. *)
TypeOK ==
  /\ hasKey \in BOOLEAN /\ loading \in BOOLEAN /\ streaming \in BOOLEAN /\ added \in BOOLEAN
  /\ messages \in Seq([role : {"user", "assistant"}, of : 0..MaxSends, text : Texts, cut : BOOLEAN])
  /\ messages[1] = [Greeting EXCEPT !.text = messages[1].text, !.cut = messages[1].cut]
  /\ controller \in 0..MaxSends
  /\ phase \in [Requests -> {"unsent", "fetch", "read", "ended"}]
  /\ streamed \in Texts /\ timer \in Texts
  /\ displayed \in Texts
  /\ rendered \in Texts \X BOOLEAN /\ seen \in Texts \X BOOLEAN
  /\ completed \subseteq Texts /\ pressed \subseteq Requests /\ mixed \in BOOLEAN

(* A request that runs is the one Stop aborts: a question that is sent in the
   middle of an answer leaves no request behind that nothing can stop. *)
StopReaches == \A r \in Requests : Running(r) => controller = r

(* "Retrieving framework context" and "Generating response" are true: the flags
   are up for a request that runs, and every request that runs has its flag up,
   except that a question sent in the middle of an answer is not shown as loading
   (the finally of the request it aborted takes the flag down). *)
SpinnerTrue ==
  /\ loading \/ streaming => \E r \in Requests : Running(r)
  /\ \A r \in Requests : phase[r] = "fetch" => loading \/ r \in pressed
  /\ \A r \in Requests : phase[r] = "read" => streaming

(* No answer under another question, though requests are stopped, fail and are
   overtaken, and the typewriter writes into whatever message is the last: unless the
   messages were cleared, or a request failed, before all was typed, or a timer with an
   outdated text came first. *)
AnswersItsQuestion ==
  ~mixed =>
  \A i \in 1..Len(messages) :
    messages[i].role = "assistant" /\ messages[i].text.from # Nobody =>
       \E j \in 1..i-1 : /\ messages[j] = Question(messages[i].text.from)
                         /\ \A k \in j+1..i : messages[k].role = "assistant"

(* The message of a request that was read to its end holds the whole answer, and
   nothing that happens later shortens it or marks it as interrupted, with the same
   exceptions. *)
WholeAnswer ==
  ~mixed =>
  \A i \in 1..Len(messages), t \in completed :
    messages[i].role = "assistant" /\ messages[i].of = t.from =>
      messages[i].text = t /\ ~messages[i].cut

(* The typewriter catches up with what was received, once it has been rendered that
   an answer is coming. *)
Typed == Untyped /\ rendered[2] ~> ~Untyped
=============================================================================
