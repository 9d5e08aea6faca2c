----------------------------- MODULE DocPreview -----------------------------
(***************************************************************************)
(* The preview panel of the documentation site: DocPreviewProvider         *)
(* (context/DocPreviewContext.tsx), the terms that open it                 *)
(* (components/docPreview/DocTerm.tsx) and the panel itself                *)
(* (DocPreviewPanel.tsx).                                                  *)
(*                                                                         *)
(* The handlers are functions on the state of the provider, and an event   *)
(* of the browser applies them in the order in which it dispatches them.   *)
(* The page is rendered again before the next event, and a panel that      *)
(* closes is gone at once (its animation is left out).                     *)
(***************************************************************************)
CONSTANTS
  Terms,    \* the DocTerm buttons
  Entity,   \* term -> the entity it names: several may name one
  Page,     \* term -> the page it is on
  None

Pages == {Page[t] : t \in Terms}
Entities == {Entity[t] : t \in Terms}

ASSUME NoneAssumption == None \notin Terms \cup Entities \cup {"panel", "out"}
ASSUME PlacesAssumption == Terms \cap {"panel", "out"} = {}

VARIABLES
  isTouch,  \* (hover: none) and (pointer: coarse)
  ui,       \* the provider: what is shown, its timers, lastAnchorRef
  pointer,  \* the term the mouse is on, "panel" or "out"
  focus,    \* the term that has the focus, "panel" or "out"
  page,     \* location.pathname
  arrived   \* the effect of the last change of location has run

vars == <<isTouch, ui, pointer, focus, page, arrived>>

Here == {t \in Terms : Page[t] = page}
Closed == ui.anchor = None
Shows(s, e) == s.anchor # None /\ Entity[s.anchor] = e

(* Where the pointer or the focus is once the panel may have gone. *)
Remains(where) == IF where = "panel" /\ ui'.anchor = None THEN "out" ELSE where
-----------------------------------------------------------------------------
(* astray is history: a scheduleHide for another entity than the one shown, or a
   focus that left through the panel, has happened since the panel opened. *)
Init ==
  /\ isTouch \in BOOLEAN
  /\ ui = [anchor |-> None, reason |-> "none", open |-> None, hide |-> None,
           last |-> None, astray |-> FALSE]
  /\ pointer = "out" /\ focus = "out"
  /\ page \in Pages
  /\ arrived = TRUE

(* Mutant of Close: the reason stays. *)
CloseEntity(s) == [s EXCEPT !.anchor = None, !.astray = FALSE]

Close(s) == [s EXCEPT !.anchor = None, !.reason = "none", !.astray = FALSE]
Open(s, t, r) == [s EXCEPT !.anchor = t, !.reason = r, !.astray = FALSE]

(* Mutant of hideImmediately: the timers run on. *)
HideOnly(s) == Close(s)
HideImmediately(s) == Close([s EXCEPT !.open = None, !.hide = None])

Show(s, t, r) ==
  LET u == [s EXCEPT !.hide = None, !.last = t] IN
  IF r = "hover" THEN [u EXCEPT !.open = t]
                 ELSE Open([u EXCEPT !.open = None], t, r)

Other(s, e) == s.anchor # None /\ ~Shows(s, e)

(* Mutant of Unopen: scheduleHide lets the panel open later. *)
KeepOpening(s, e) == [s EXCEPT !.astray = @ \/ Other(s, e)]

(* No panel opens for a term that was left. *)
Unopen(s, e) == [s EXCEPT !.open = None, !.astray = @ \/ Other(s, e)]

ScheduleHide(s, e, r) ==
  LET u == Unopen(s, e) IN
  CASE r = "focus" -> IF Shows(s, e) THEN Close(u) ELSE u
    [] r = "hover" -> [u EXCEPT !.hide = e]
    [] OTHER       -> u

CancelHide(s) == [s EXCEPT !.hide = None]
-----------------------------------------------------------------------------
(* Mutant of LeavePanel: the panel does not notice that the pointer leaves. *)
IgnoreLeave(s) == s
LeavePanel(s) == ScheduleHide(s, Entity[s.anchor], s.reason)

Leave(s, x) ==
  IF x \in Terms THEN ScheduleHide(s, Entity[x], "hover")
                 ELSE IF x = "panel" THEN LeavePanel(s) ELSE s

Enter(s, x) ==
  IF x \in Terms THEN Show(s, x, "hover")
                 ELSE IF x = "panel" THEN CancelHide(s) ELSE s

(* onBlur does nothing when the focus moves into the panel, which has no handler
   of its own for the focus that leaves it. *)
Blur(s, x, to) ==
  IF x \in Terms /\ to # "panel" THEN ScheduleHide(s, Entity[x], "focus")
  ELSE IF x = "panel" /\ s.anchor # None THEN [s EXCEPT !.astray = TRUE] ELSE s

Refocus(s, to) ==
  IF to = focus THEN s
                ELSE LET u == Blur(s, focus, to) IN IF to \in Terms THEN Show(u, to, "focus") ELSE u

(* The mouse moves: the place it leaves is told before the one it enters. *)
PointerMove(to) ==
  /\ ~isTouch /\ to # pointer
  /\ ui' = Enter(Leave(ui, pointer), to)
  /\ pointer' = to
  /\ focus' = Remains(focus)
  /\ UNCHANGED <<isTouch, page, arrived>>

(* Tab, or a click on the panel or beside it. *)
FocusMove(to) ==
  /\ ~isTouch /\ to # focus
  /\ ui' = Refocus(ui, to)
  /\ focus' = to
  /\ pointer' = Remains(pointer)
  /\ UNCHANGED <<isTouch, page, arrived>>

(* The mouse button goes down on a term. *)
Press(t) ==
  /\ ~isTouch /\ pointer = t
  /\ ui' = Refocus(CancelHide(ui), t)
  /\ focus' = t
  /\ UNCHANGED <<isTouch, pointer, page, arrived>>

(* The listener of the document, for a panel that a tap opened. *)
TapOutside(s, x) ==
  IF s.reason = "touch" /\ x \notin {s.anchor, "panel"} THEN HideImmediately(s) ELSE s

(* Pointerdown, the focus where the browser gives it to a button that is tapped,
   click. *)
TapTerm(t) ==
  /\ isTouch
  /\ \E focuses \in BOOLEAN :
       LET down == CancelHide(TapOutside(ui, t))
           s    == IF focuses THEN Refocus(down, t) ELSE down
       IN  /\ ui' = IF s.anchor = t THEN ScheduleHide(s, Entity[t], "hover")
                                    ELSE Show(s, t, "touch")
           /\ focus' = IF focuses THEN t ELSE Remains(focus)
  /\ UNCHANGED <<isTouch, pointer, page, arrived>>

(* The finger enters the panel and leaves it; then the panel may get the focus. *)
TapPanel ==
  /\ isTouch /\ ~Closed
  /\ ui' = LeavePanel(CancelHide(ui))
  /\ focus' \in {Remains(focus), Remains("panel")}
  /\ UNCHANGED <<isTouch, pointer, page, arrived>>

TapElsewhere ==
  /\ isTouch
  /\ \/ /\ ui' = Refocus(TapOutside(ui, "out"), "out")
        /\ focus' = "out"
     \/ /\ ui' = TapOutside(ui, "out")
        /\ focus' = Remains(focus)
  /\ UNCHANGED <<isTouch, pointer, page, arrived>>

(* Mutant of WantsFocus: a panel the mouse opened gives the focus away, too. *)
AlwaysRefocus(s) == s.last \in Here
WantsFocus(s) == s.reason = "focus" /\ s.last \in Here

(* The trigger that gets the focus back is told so like any other. *)
Escape ==
  /\ ~Closed
  /\ IF WantsFocus(ui)
     THEN ui' = Refocus(HideImmediately(ui), ui.last) /\ focus' = ui.last
     ELSE ui' = HideImmediately(ui) /\ focus' = Remains(focus)
  /\ pointer' = Remains(pointer)
  /\ UNCHANGED <<isTouch, page, arrived>>

CloseButton ==
  /\ ~Closed /\ (isTouch \/ "panel" \in {pointer, focus})
  /\ ui' = HideImmediately(ui)
  /\ pointer' = Remains(pointer) /\ focus' = Remains(focus)
  /\ UNCHANGED <<isTouch, page, arrived>>

(* The location changes and the terms of the old page are unmounted; a link in
   the panel closes it first. *)
Navigate(p) ==
  /\ p # page /\ page' = p
  /\ arrived' = FALSE
  /\ \/ UNCHANGED ui
     \/ ~Closed /\ ui' = HideImmediately(ui)
  /\ pointer' = IF pointer \in Terms THEN "out" ELSE Remains(pointer)
  /\ focus' = IF focus \in Terms THEN "out" ELSE Remains(focus)
  /\ UNCHANGED isTouch

Arrive ==
  /\ ~arrived /\ arrived' = TRUE
  /\ ui' = HideImmediately(ui)
  /\ pointer' = Remains(pointer) /\ focus' = Remains(focus)
  /\ UNCHANGED <<isTouch, page>>
-----------------------------------------------------------------------------
OpenFires ==
  /\ ui.open # None
  /\ ui' = Open([ui EXCEPT !.open = None], ui.open, "hover")
  /\ UNCHANGED <<isTouch, pointer, focus, page, arrived>>

(* Mutant of HideShown: the timer only forgets itself. *)
ForgetTimer(s) == [s EXCEPT !.hide = None]
HideShown(s) == IF Shows(s, s.hide) THEN Close([s EXCEPT !.hide = None])
                                    ELSE [s EXCEPT !.hide = None]

HideFires ==
  /\ ui.hide # None
  /\ ui' = HideShown(ui)
  /\ pointer' = Remains(pointer) /\ focus' = Remains(focus)
  /\ UNCHANGED <<isTouch, page, arrived>>

Places == Here \cup {"out"} \cup IF Closed THEN {} ELSE {"panel"}

Next ==
  \/ \E x \in Places : PointerMove(x) \/ FocusMove(x)
  \/ \E t \in Here : Press(t) \/ TapTerm(t)
  \/ TapPanel \/ TapElsewhere \/ Escape \/ CloseButton
  \/ \E p \in Pages : Navigate(p)
  \/ Arrive \/ OpenFires \/ HideFires

Spec == Init /\ [][Next]_vars

(* The browser runs timers and effects; what the reader does is not counted on. *)
FairSpec == Spec /\ WF_vars(OpenFires) /\ WF_vars(HideFires) /\ WF_vars(Arrive)
-----------------------------------------------------------------------------
UI == [anchor : Terms \cup {None}, reason : {"none", "hover", "focus", "touch"},
       open : Terms \cup {None}, hide : Entities \cup {None},
       last : Terms \cup {None}, astray : BOOLEAN]

(* Types of the state. *)
TypeOK ==
  /\ isTouch \in BOOLEAN /\ arrived \in BOOLEAN /\ page \in Pages
  /\ ui \in UI
  /\ Closed <=> ui.reason = "none"
  /\ pointer \in Here \cup {"panel", "out"}
  /\ focus \in Here \cup {"panel", "out"}
  /\ Closed => pointer # "panel" /\ focus # "panel"

(* The two timers never race: an open and a close are not both pending. *)
OneTimer == ui.open = None \/ ui.hide = None

(* "Navigating to a new page always closes any open preview" (DocPreviewContext),
   and none opens later for a term that is gone. *)
OnPage == arrived => {ui.anchor, ui.open} \subseteq Here \cup {None}

(* A preview has a cause: the pointer or the focus is on its term or in it, a timer
   is about to replace it by the term under the pointer, or one is about to close
   it.  Excepted are previews on whose watch the pointer passed over another term,
   or the focus left through the panel. *)
Attended ==
  arrived /\ ~ui.astray =>
    /\ ui.reason = "hover" =>
         \/ pointer \in {ui.anchor, "panel"}
         \/ ui.open # None /\ pointer = ui.open
         \/ pointer = "out" /\ Shows(ui, ui.hide)
    /\ ui.reason = "focus" =>
         \/ focus = "panel"
         \/ focus \in Terms /\ Shows(ui, Entity[focus])

(* A preview the mouse opened closes once the mouse stays away, with the same
   exceptions. *)
HoverCloses ==
  ui.reason = "hover" /\ pointer = "out"
    ~> ui.reason # "hover" \/ pointer # "out" \/ ui.astray

(* "Escape closes" (DocPreviewContext), except where the trigger takes the focus
   back and its own handler opens the preview again. *)
EscapeCloses ==
  [][Escape => ui'.anchor = None \/ (ui.reason = "focus" /\ focus # ui.last)]_vars
=============================================================================
