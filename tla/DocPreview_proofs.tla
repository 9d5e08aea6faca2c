-------------------------- MODULE DocPreview_proofs --------------------------
(* Proofs about DocPreview, for every set of terms, entities and pages. *)
EXTENDS DocPreview, TLAPS

(* What the handlers keep of the provider's state, whatever the reader does. *)
Good(s) == /\ s \in UI
           /\ s.anchor = None <=> s.reason = "none"
           /\ s.open = None \/ s.hide = None

Is(s, anchor, reason, open, hide) ==
  s.anchor = anchor /\ s.reason = reason /\ s.open = open /\ s.hide = hide

(* A mouse and a finger open previews in different ways. *)
OneInput == IF isTouch THEN pointer = "out" /\ ui.open = None /\ ui.reason # "hover"
                       ELSE ui.reason # "touch"

(* A preview opens only for the term the pointer is still on. *)
OpensUnderPointer == arrived /\ ui.open # None => pointer = ui.open

IInv == TypeOK /\ OneTimer /\ OnPage /\ OneInput /\ OpensUnderPointer /\ Attended
-----------------------------------------------------------------------------
LEMMA EntityOf == \A t \in Terms : Entity[t] \in Entities /\ t # None /\ Entity[t] # None
  BY NoneAssumption DEF Entities

LEMMA CloseIs ==
  ASSUME NEW s, Good(s)
  PROVE  /\ Good(Close(s)) /\ ~Close(s).astray
         /\ Is(Close(s), None, "none", s.open, s.hide) /\ Close(s).last = s.last
  BY DEF Good, UI, Is, Close

LEMMA OpenIs ==
  ASSUME NEW s, Good(s), NEW t \in Terms, NEW r \in {"hover", "focus", "touch"}
  PROVE  /\ Good(Open(s, t, r)) /\ ~Open(s, t, r).astray
         /\ Is(Open(s, t, r), t, r, s.open, s.hide) /\ Open(s, t, r).last = s.last
  BY EntityOf DEF Good, UI, Is, Open

LEMMA HideImmediatelyIs ==
  ASSUME NEW s, Good(s)
  PROVE  /\ Good(HideImmediately(s)) /\ HideImmediately(s).last = s.last
         /\ Is(HideImmediately(s), None, "none", None, None)
  BY DEF Good, UI, Is, HideImmediately, Close

LEMMA CancelHideIs ==
  ASSUME NEW s, Good(s)
  PROVE  /\ Good(CancelHide(s)) /\ Is(CancelHide(s), s.anchor, s.reason, s.open, None)
         /\ CancelHide(s).last = s.last /\ CancelHide(s).astray = s.astray
  BY DEF Good, UI, Is, CancelHide

LEMMA ShowIs ==
  ASSUME NEW s, Good(s), NEW t \in Terms, NEW r \in {"hover", "focus", "touch"}
  PROVE  /\ Good(Show(s, t, r)) /\ Show(s, t, r).last = t
         /\ r = "hover" => /\ Is(Show(s, t, r), s.anchor, s.reason, t, None)
                           /\ Show(s, t, r).astray = s.astray
         /\ r # "hover" => /\ Is(Show(s, t, r), t, r, None, None)
                           /\ ~Show(s, t, r).astray
  BY EntityOf DEF Good, UI, Is, Show, Open

LEMMA ScheduleHideIs ==
  ASSUME NEW s, Good(s), NEW t \in Terms, NEW r \in {"hover", "focus", "touch"}
  PROVE  LET e == Entity[t]
             u == ScheduleHide(s, e, r)
         IN  /\ Good(u) /\ u.last = s.last
             /\ r = "hover" => /\ Is(u, s.anchor, s.reason, None, e)
                               /\ u.astray = (s.astray \/ Other(s, e))
             /\ r = "touch" => /\ Is(u, s.anchor, s.reason, None, s.hide)
                               /\ u.astray = (s.astray \/ Other(s, e))
             /\ r = "focus" /\ Shows(s, e) => Is(u, None, "none", None, s.hide)
             /\ r = "focus" /\ ~Shows(s, e) =>
                  /\ Is(u, s.anchor, s.reason, None, s.hide)
                  /\ u.astray = (s.astray \/ Other(s, e))
<1> DEFINE e == Entity[t]
           u == Unopen(s, e)
<1>1. /\ Good(u) /\ Is(u, s.anchor, s.reason, None, s.hide)
      /\ u.last = s.last /\ u.astray = (s.astray \/ Other(s, e))
  BY DEF Good, UI, Is, Unopen, Other, Shows
<1>2. CASE r = "focus" /\ Shows(s, e)
  <2>1. ScheduleHide(s, e, r) = Close(u)
    BY <1>2 DEF ScheduleHide
  <2> HIDE DEF u
  <2> QED
    BY <1>1, <1>2, <2>1, CloseIs DEF Is
<1>3. CASE (r = "focus" /\ ~Shows(s, e)) \/ r = "touch"
  <2>1. ScheduleHide(s, e, r) = u
    BY <1>3 DEF ScheduleHide
  <2> HIDE DEF u
  <2> QED
    BY <1>1, <1>3, <2>1
<1>4. CASE r = "hover"
  <2>1. ScheduleHide(s, e, r) = [u EXCEPT !.hide = e]
    BY <1>4 DEF ScheduleHide
  <2> HIDE DEF u
  <2> QED
    BY <1>1, <1>4, <2>1, EntityOf DEF Good, UI, Is
<1> QED
  BY <1>2, <1>3, <1>4
-----------------------------------------------------------------------------
(* What the provider's state is to the rest: the part of the invariant that does
   not speak of the pointer and the focus. *)
LEMMA InvGood == ASSUME IInv PROVE Good(ui)
  BY DEF IInv, TypeOK, OneTimer, Good, Closed

LEMMA PlaceTypes ==
  /\ Here \subseteq Terms
  /\ \A t \in Terms : t # "panel" /\ t # "out"
  /\ None # "panel" /\ None # "out"
  BY NoneAssumption, PlacesAssumption DEF Here

LEMMA TypesAgain ==
  ASSUME Good(ui'), isTouch' \in BOOLEAN, arrived' \in BOOLEAN, page' \in Pages,
         pointer' \in Here' \cup {"panel", "out"}, focus' \in Here' \cup {"panel", "out"},
         ui'.anchor = None => pointer' # "panel" /\ focus' # "panel"
  PROVE  TypeOK' /\ OneTimer'
  BY DEF TypeOK, OneTimer, Good, Closed

LEMMA RemainsIs ==
  ASSUME NEW S, NEW where \in S \cup {"panel", "out"}
  PROVE  /\ Remains(where) \in S \cup {"panel", "out"}
         /\ Remains(where) = IF where = "panel" /\ ui'.anchor = None THEN "out" ELSE where
  BY DEF Remains

(* The mouse has left the place it was on. *)
LEMMA LeaveIs ==
  ASSUME IInv, ~isTouch
  PROVE  LET u == Leave(ui, pointer)
         IN  /\ Good(u)
             /\ u.anchor = None \/ (u.anchor = ui.anchor /\ u.reason = ui.reason)
             /\ pointer # "panel" => u.anchor = ui.anchor
             /\ pointer \in Terms => u.hide = Entity[pointer] /\ u.open = None
             /\ pointer \in Terms /\ ~u.astray => ~ui.astray /\ ~Other(ui, Entity[pointer])
             /\ pointer = "panel" /\ u.reason = "hover" => Shows(u, u.hide) /\ ~Other(u, u.hide)
             /\ pointer = "panel" => u.open = None /\ u.reason \in {"none", "hover"}
             /\ pointer = "out" => u = ui
<1> USE InvGood, PlaceTypes
<1>1. CASE pointer \in Terms
  BY <1>1, ScheduleHideIs DEF Leave, Is
<1>2. CASE pointer = "panel"
  <2>1. ui.anchor \in Terms /\ ui.reason \in {"hover", "focus"}
    BY <1>2 DEF IInv, TypeOK, Closed, OneInput, UI
  <2>2. Leave(ui, pointer) = ScheduleHide(ui, Entity[ui.anchor], ui.reason)
    BY <1>2 DEF Leave, LeavePanel
  <2>3. Shows(ui, Entity[ui.anchor]) /\ ~Other(ui, Entity[ui.anchor])
    BY <2>1, EntityOf DEF Shows, Other
  <2>4. CASE ui.reason = "hover"
    <3> DEFINE e == Entity[ui.anchor]
               v == ScheduleHide(ui, e, "hover")
    <3>1. Good(v) /\ Is(v, ui.anchor, ui.reason, None, e)
      BY <2>1, ScheduleHideIs
    <3>2. Leave(ui, pointer) = v
      BY <2>2, <2>4
    <3> HIDE DEF v
    <3> QED
      BY <1>2, <2>1, <2>3, <2>4, <3>1, <3>2, EntityOf DEF Is, Shows, Other
  <2>5. CASE ui.reason = "focus"
    <3> DEFINE v == ScheduleHide(ui, Entity[ui.anchor], "focus")
    <3>1. Good(v) /\ Is(v, None, "none", None, ui.hide)
      BY <2>1, <2>3, ScheduleHideIs
    <3>2. Leave(ui, pointer) = v
      BY <2>2, <2>5
    <3> HIDE DEF v
    <3> QED
      BY <1>2, <2>1, <3>1, <3>2 DEF Is
  <2> QED
    BY <2>1, <2>4, <2>5
<1>3. CASE pointer = "out"
  BY <1>3 DEF Leave
<1> QED
  BY <1>1, <1>2, <1>3 DEF IInv, TypeOK

(* The mouse comes to a place. *)
LEMMA EnterIs ==
  ASSUME NEW u, Good(u), NEW to \in Terms \cup {"panel", "out"}
  PROVE  LET v == Enter(u, to)
         IN  /\ Good(v) /\ v.anchor = u.anchor /\ v.reason = u.reason /\ v.astray = u.astray
             /\ to \in Terms => v.open = to /\ v.hide = None
             /\ to = "panel" => v.open = u.open /\ v.hide = None
             /\ to = "out" => v = u
  BY PlaceTypes, ShowIs, CancelHideIs DEF Enter, Is

LEMMA PointerMoveStep ==
  ASSUME IInv, NEW to \in Places, PointerMove(to)
  PROVE  IInv'
<1> DEFINE u == Leave(ui, pointer)
           v == Enter(u, to)
<1> USE PlaceTypes
<1>1. ~isTouch /\ to # pointer /\ ui' = v /\ pointer' = to
  BY DEF PointerMove
<1>2. to \in Here \cup {"panel", "out"} /\ (to = "panel" => ~Closed)
  BY DEF Places
<1>3. Good(u) /\ Good(v)
  BY <1>1, <1>2, LeaveIs, EnterIs
<1>4. v.anchor = None \/ (v.anchor = ui.anchor /\ v.reason = ui.reason)
  BY <1>1, <1>2, <1>3, LeaveIs, EnterIs
<1>5. focus' = IF focus = "panel" /\ v.anchor = None THEN "out" ELSE focus
  BY <1>1 DEF PointerMove, Remains
<1>6. UNCHANGED <<isTouch, page, arrived, Here>>
  BY DEF PointerMove, Here
<1>7. TypeOK' /\ OneTimer'
  <2>1. focus' \in Here' \cup {"panel", "out"} /\ (v.anchor = None => focus' # "panel")
    BY <1>5, <1>6 DEF IInv, TypeOK
  <2>2. v.anchor = None => to # "panel"
    BY <1>1, <1>2, <1>3, LeaveIs, EnterIs DEF Closed
  <2> QED
    BY <1>1, <1>2, <1>3, <1>6, <2>1, <2>2, TypesAgain DEF IInv, TypeOK
<1>8. v.open = u.open \/ v.open \in Here
  BY <1>2, <1>3, EnterIs
<1>9. /\ u.open = ui.open \/ u.open = None
      /\ arrived => u.open = None
  <2>1. CASE pointer = "out"
    BY <1>1, <2>1, LeaveIs DEF IInv, OpensUnderPointer, TypeOK, UI
  <2>2. CASE pointer # "out"
    BY <1>1, <2>2, LeaveIs DEF IInv, TypeOK
  <2> QED
    BY <2>1, <2>2
<1>10. OnPage'
  BY <1>1, <1>4, <1>6, <1>8, <1>9 DEF IInv, OnPage
<1>11. OneInput' /\ OpensUnderPointer'
  BY <1>1, <1>2, <1>3, <1>4, <1>6, <1>9, EnterIs DEF IInv, OneInput, OpensUnderPointer, Good
<1>12. ASSUME arrived, ~v.astray, v.anchor # None
       PROVE  /\ v.reason = "hover" =>
                   \/ to \in {v.anchor, "panel"}
                   \/ v.open # None /\ to = v.open
                   \/ to = "out" /\ Shows(v, v.hide)
              /\ v.reason = "focus" =>
                   focus' = "panel" \/ (focus' \in Terms /\ Shows(v, Entity[focus']))
  <2>1. /\ v.anchor = ui.anchor /\ v.reason = ui.reason /\ ~u.astray
        /\ u.anchor = v.anchor /\ u.reason = v.reason
    BY <1>2, <1>3, <1>4, <1>12, EnterIs
  <2>2. focus' = focus
    BY <1>5, <1>12
  <2>3. ASSUME v.reason = "hover", to = "out"
        PROVE  Shows(v, v.hide)
    <3>1. u = v
      BY <1>2, <1>3, <2>3, EnterIs
    <3>2. CASE pointer = "panel"
      BY <1>1, <2>3, <3>1, <3>2, LeaveIs
    <3>3. CASE pointer \in Terms
      BY <1>1, <1>12, <2>1, <3>1, <3>3, LeaveIs DEF Other, Shows
    <3> QED
      BY <1>1, <2>3, <3>2, <3>3 DEF IInv, TypeOK
  <2>4. ASSUME v.reason = "focus"
        PROVE  focus = "panel" \/ (focus \in Terms /\ Shows(v, Entity[focus]))
    <3>1. ~ui.astray
      BY <1>1, <2>1, <2>4, LeaveIs DEF IInv, TypeOK
    <3> QED
      BY <1>12, <2>1, <2>4, <3>1 DEF IInv, Attended, Shows
  <2>5. to \in Terms => v.open # None /\ to = v.open
    BY <1>2, <1>3, EnterIs, EntityOf
  <2>6. to \in Terms \/ to \in {"panel", "out"}
    BY <1>2
  <2> QED
    BY <2>2, <2>3, <2>4, <2>5, <2>6
<1>13. Attended'
  BY <1>1, <1>3, <1>6, <1>12 DEF Attended, Good, Shows
<1> QED
  BY <1>7, <1>10, <1>11, <1>13 DEF IInv
-----------------------------------------------------------------------------
(* The focus has moved. *)
LEMMA RefocusIs ==
  ASSUME NEW s, Good(s), NEW to \in Terms \cup {"panel", "out"},
         focus \in Terms \cup {"panel", "out"}
  PROVE  LET w == Refocus(s, to)
         IN  /\ Good(w)
             /\ to = focus => w = s
             /\ to # focus /\ to \in Terms =>
                  Is(w, to, "focus", None, None) /\ ~w.astray
             /\ to = "panel" => w = s
             /\ to # focus /\ to = "out" =>
                  /\ w.anchor = None \/ (w.anchor = s.anchor /\ w.reason = s.reason /\ w.astray)
                  /\ w.open \in {s.open, None} /\ w.hide = s.hide
<1> USE PlaceTypes
<1> DEFINE u == Blur(s, focus, to)
<1>1. CASE to = focus
  BY <1>1 DEF Refocus
<1>2. CASE to # focus /\ to = "panel"
  BY <1>2 DEF Refocus, Blur
<1>3. CASE to # focus /\ to # "panel"
  <2>1. /\ Good(u)
        /\ to = "out" =>
             /\ u.anchor = None \/ (u.anchor = s.anchor /\ u.reason = s.reason /\ u.astray)
             /\ u.open \in {s.open, None} /\ u.hide = s.hide
    <3>1. CASE focus \in Terms
      <4> DEFINE e == Entity[focus]
                 v == ScheduleHide(s, e, "focus")
      <4>1. /\ Good(v)
            /\ Shows(s, e) => Is(v, None, "none", None, s.hide)
            /\ ~Shows(s, e) => Is(v, s.anchor, s.reason, None, s.hide)
                              /\ v.astray = (s.astray \/ Other(s, e))
        BY <3>1, ScheduleHideIs
      <4>2. u = v
        BY <1>3, <3>1 DEF Blur
      <4> HIDE DEF u, v
      <4> QED
        BY <1>3, <4>1, <4>2 DEF Is, Other
    <3>2. CASE focus = "panel"
      BY <3>2 DEF Blur, Good, UI
    <3>3. CASE focus = "out"
      BY <1>3, <3>3 DEF Blur
    <3> QED
      BY <3>1, <3>2, <3>3
  <2>2. CASE to \in Terms
    BY <1>3, <2>1, <2>2, ShowIs DEF Refocus
  <2>3. CASE to = "out"
    BY <1>3, <2>1, <2>3 DEF Refocus
  <2> QED
    BY <1>3, <2>2, <2>3
<1> QED
  BY <1>1, <1>2, <1>3

LEMMA FocusMoveStep ==
  ASSUME IInv, NEW to \in Places, FocusMove(to)
  PROVE  IInv'
<1> DEFINE w == Refocus(ui, to)
<1> USE PlaceTypes
<1>1. ~isTouch /\ to # focus /\ ui' = w /\ focus' = to
  BY DEF FocusMove
<1>2. to \in Here \cup {"panel", "out"} /\ (to = "panel" => ~Closed)
  BY DEF Places
<1>3. pointer' = IF pointer = "panel" /\ w.anchor = None THEN "out" ELSE pointer
  BY <1>1 DEF FocusMove, Remains
<1>4. UNCHANGED <<isTouch, page, arrived, Here>>
  BY DEF FocusMove, Here
<1>5. focus \in Terms \cup {"panel", "out"} /\ pointer \in Here \cup {"panel", "out"}
  BY DEF IInv, TypeOK
<1>6. /\ Good(w)
      /\ to \in Terms => Is(w, to, "focus", None, None)
      /\ to = "panel" => w = ui
      /\ to = "out" => /\ \/ w.anchor = None
                          \/ w.anchor = ui.anchor /\ w.reason = ui.reason /\ w.astray
                       /\ w.open \in {ui.open, None}
  BY <1>1, <1>2, <1>5, InvGood, RefocusIs
<1>7. TypeOK' /\ OneTimer'
  <2>1. w.anchor = None => to # "panel"
    BY <1>2, <1>6 DEF Closed
  <2> QED
    BY <1>1, <1>2, <1>3, <1>4, <1>5, <1>6, <2>1, TypesAgain DEF IInv, TypeOK
<1>8. OnPage'
  <2>1. {w.anchor, w.open} \subseteq Here \cup {None, ui.anchor, ui.open}
    BY <1>2, <1>6 DEF Is
  <2> QED
    BY <1>1, <1>4, <2>1 DEF IInv, OnPage
<1>9. OneInput' /\ OpensUnderPointer'
  <2>1. w.reason # "touch"
    BY <1>1, <1>2, <1>6 DEF IInv, OneInput, Is, Good
  <2>2. w.open \in {ui.open, None} /\ (w.open # None /\ pointer \in Terms => pointer' = pointer)
    BY <1>2, <1>3, <1>6 DEF Is
  <2>3. arrived /\ w.open # None => pointer = w.open /\ pointer \in Terms
    BY <2>2, InvGood DEF IInv, OpensUnderPointer, Good, UI
  <2> QED
    BY <1>1, <1>4, <2>1, <2>2, <2>3 DEF OneInput, OpensUnderPointer
<1>10. Attended'
  <2>1. CASE to \in Terms
    BY <1>1, <1>6, <2>1, EntityOf DEF Attended, Is, Shows
  <2>2. CASE to = "panel"
    <3>1. ui' = ui
      BY <1>1, <1>6, <2>2
    <3>2. pointer' = pointer
      BY <1>1, <1>2, <1>3, <2>2, <3>1 DEF Closed
    <3> QED
      BY <1>1, <1>4, <2>2, <3>1, <3>2 DEF IInv, Attended, Shows
  <2>3. CASE to = "out"
    BY <1>1, <1>6, <2>3 DEF Attended, Good
  <2> QED
    BY <1>2, <2>1, <2>2, <2>3
<1> QED
  BY <1>7, <1>8, <1>9, <1>10 DEF IInv

LEMMA PressStep ==
  ASSUME IInv, NEW t \in Here, Press(t)
  PROVE  IInv'
<1> DEFINE s == CancelHide(ui)
           w == Refocus(s, t)
<1> USE PlaceTypes
<1>1. /\ ~isTouch /\ pointer = t /\ ui' = w /\ focus' = t
      /\ UNCHANGED <<isTouch, page, arrived, pointer, Here>>
  BY DEF Press, Here
<1>2. /\ Good(s) /\ Is(s, ui.anchor, ui.reason, ui.open, None) /\ s.astray = ui.astray
  BY InvGood, CancelHideIs
<1>3. /\ Good(w)
      /\ t = focus => w = s
      /\ t # focus => Is(w, t, "focus", None, None)
  BY <1>2, RefocusIs DEF IInv, TypeOK
<1>4. TypeOK' /\ OneTimer'
  BY <1>1, <1>3, TypesAgain DEF IInv, TypeOK
<1>5. CASE t = focus
  BY <1>1, <1>2, <1>3, <1>4, <1>5, InvGood
     DEF IInv, OnPage, OneInput, OpensUnderPointer, Attended, Is, Shows
<1>6. CASE t # focus
  BY <1>1, <1>3, <1>4, <1>6, EntityOf
     DEF IInv, OnPage, OneInput, OpensUnderPointer, Attended, Is, Shows
<1> QED
  BY <1>5, <1>6

-----------------------------------------------------------------------------
(* The finger taps a term. *)
LEMMA TapTermStep ==
  ASSUME IInv, NEW t \in Here, TapTerm(t)
  PROVE  IInv'
<1> DEFINE down == CancelHide(TapOutside(ui, t))
<1> USE PlaceTypes
<1>1. PICK focuses \in BOOLEAN :
        LET s == IF focuses THEN Refocus(down, t) ELSE down
        IN  /\ ui' = IF s.anchor = t THEN ScheduleHide(s, Entity[t], "hover")
                                     ELSE Show(s, t, "touch")
            /\ focus' = IF focuses THEN t ELSE Remains(focus)
  BY DEF TapTerm
<1> DEFINE s == IF focuses THEN Refocus(down, t) ELSE down
<1>2. isTouch /\ UNCHANGED <<isTouch, pointer, page, arrived, Here>>
  BY DEF TapTerm, Here
<1>3. /\ Good(down) /\ down.open = None
      /\ \/ Is(down, None, "none", None, None)
         \/ Is(down, ui.anchor, ui.reason, None, None) /\ down.astray = ui.astray
  BY <1>2, InvGood, HideImmediatelyIs, CancelHideIs
     DEF TapOutside, Is, IInv, OneInput
<1>4. /\ Good(s)
      /\ focuses /\ t # focus => Is(s, t, "focus", None, None)
      /\ ~focuses \/ t = focus => s = down
  BY <1>3, RefocusIs DEF IInv, TypeOK
<1>5. s.open = None /\ s.reason # "hover"
  BY <1>2, <1>3, <1>4 DEF Is, IInv, OneInput
<1>6. ui' = IF s.anchor = t THEN ScheduleHide(s, Entity[t], "hover") ELSE Show(s, t, "touch")
  BY <1>1
<1>7. /\ Good(ui') /\ ui'.anchor = t /\ ui'.open = None /\ ui'.reason # "hover"
      /\ \/ ui'.reason = "touch"
         \/ /\ s.anchor = t /\ ui'.reason = s.reason /\ ui'.astray = s.astray
  <2>1. CASE s.anchor = t
    <3>1. ~Other(s, Entity[t])
      BY <2>1, EntityOf DEF Other, Shows
    <3>2. /\ Good(ui') /\ Is(ui', s.anchor, s.reason, None, Entity[t])
          /\ ui'.astray = (s.astray \/ Other(s, Entity[t]))
      BY <1>4, <1>6, <2>1, ScheduleHideIs
    <3> QED
      BY <1>4, <1>5, <2>1, <3>1, <3>2 DEF Is, Good, UI
  <2>2. CASE s.anchor # t
    BY <1>4, <1>6, <2>2, ShowIs DEF Is
  <2> QED
    BY <2>1, <2>2
<1>8. focus' = IF focuses THEN t ELSE focus
  BY <1>1, <1>7, EntityOf DEF Remains
<1>9. TypeOK' /\ OneTimer'
  BY <1>2, <1>7, <1>8, EntityOf, TypesAgain DEF IInv, TypeOK
<1>10. OnPage' /\ OneInput' /\ OpensUnderPointer'
  BY <1>2, <1>7 DEF IInv, OnPage, OneInput, OpensUnderPointer
<1>11. ASSUME arrived, ~ui'.astray, ui'.reason = "focus"
       PROVE  focus' = "panel" \/ (focus' \in Terms /\ Shows(ui', Entity[focus']))
  <2>1. CASE focuses
    BY <1>7, <1>8, <2>1, EntityOf DEF Shows
  <2>2. CASE ~focuses
    <3>1. ui.anchor = t /\ ui.reason = "focus" /\ ~ui.astray
      BY <1>3, <1>4, <1>7, <1>11, <2>2 DEF Is
    <3> QED
      BY <1>7, <1>8, <1>11, <2>2, <3>1 DEF IInv, Attended, Shows
  <2> QED
    BY <2>1, <2>2
<1>12. Attended'
  BY <1>2, <1>7, <1>11 DEF Attended
<1> QED
  BY <1>9, <1>10, <1>12 DEF IInv

LEMMA TapPanelStep ==
  ASSUME IInv, TapPanel
  PROVE  IInv'
<1> DEFINE s == CancelHide(ui)
<1> USE PlaceTypes
<1>1. /\ isTouch /\ ui.anchor # None /\ ui' = LeavePanel(s)
      /\ focus' \in {Remains(focus), Remains("panel")}
      /\ UNCHANGED <<isTouch, pointer, page, arrived, Here>>
  BY DEF TapPanel, Closed, Here
<1>2. /\ Good(s) /\ Is(s, ui.anchor, ui.reason, None, None)
      /\ ui.anchor \in Terms /\ ui.reason \in {"focus", "touch"}
  BY <1>1, InvGood, CancelHideIs DEF Is, IInv, OneInput, Good, UI
<1>3. /\ Good(ui') /\ ui'.open = None
      /\ \/ ui'.anchor = None
         \/ ui'.anchor = ui.anchor /\ ui'.reason = "touch"
  <2> DEFINE e == Entity[ui.anchor]
             v == ScheduleHide(s, e, ui.reason)
  <2>1. Shows(s, e)
    BY <1>2, NoneAssumption DEF Is, Shows
  <2>2. /\ Good(v)
        /\ ui.reason = "touch" => Is(v, s.anchor, s.reason, None, s.hide)
        /\ ui.reason = "focus" => Is(v, None, "none", None, s.hide)
    BY <1>2, <2>1, ScheduleHideIs
  <2>3. ui' = v
    BY <1>1, <1>2 DEF LeavePanel, Is
  <2> HIDE DEF v
  <2> QED
    BY <1>2, <2>2, <2>3 DEF Is
<1>4. /\ focus' \in Here \cup {"panel", "out"}
      /\ ui'.anchor = None => focus' # "panel"
  BY <1>1 DEF Remains, IInv, TypeOK
<1>5. TypeOK' /\ OneTimer'
  BY <1>1, <1>3, <1>4, TypesAgain DEF IInv, TypeOK, OneInput
<1> QED
  BY <1>1, <1>3, <1>5 DEF IInv, OnPage, OneInput, OpensUnderPointer, Attended, Good

LEMMA TapElsewhereStep ==
  ASSUME IInv, TapElsewhere
  PROVE  IInv'
<1> DEFINE s == TapOutside(ui, "out")
           w == Refocus(s, "out")
<1> USE PlaceTypes
<1>1. /\ isTouch
      /\ (ui' = w /\ focus' = "out") \/ (ui' = s /\ focus' = Remains(focus))
      /\ UNCHANGED <<isTouch, pointer, page, arrived, Here>>
  BY DEF TapElsewhere, Here
<1>2. /\ Good(s)
      /\ s = ui \/ Is(s, None, "none", None, None)
  BY InvGood, HideImmediatelyIs DEF TapOutside
<1>3. /\ Good(w)
      /\ focus = "out" => w = s
      /\ focus # "out" =>
           /\ w.anchor = None \/ (w.anchor = s.anchor /\ w.reason = s.reason /\ w.astray)
           /\ w.open \in {s.open, None}
  BY <1>2, RefocusIs DEF IInv, TypeOK
<1>4. /\ Good(ui') /\ ui'.open = None /\ ui'.anchor \in {None, ui.anchor}
      /\ ui'.anchor = None \/ ui'.reason = ui.reason
  BY <1>1, <1>2, <1>3 DEF Is, IInv, OneInput
<1>5. /\ focus' \in Here \cup {"panel", "out"}
      /\ ui'.anchor = None => focus' # "panel"
  BY <1>1 DEF Remains, IInv, TypeOK
<1>6. TypeOK' /\ OneTimer'
  BY <1>1, <1>4, <1>5, TypesAgain DEF IInv, TypeOK, OneInput
<1>7. OnPage' /\ OneInput' /\ OpensUnderPointer'
  BY <1>1, <1>4 DEF IInv, OnPage, OneInput, OpensUnderPointer, Good
<1>8. ASSUME arrived, ~ui'.astray, ui'.reason = "focus"
      PROVE  focus' = "panel" \/ (focus' \in Terms /\ Shows(ui', Entity[focus']))
  <2>1. ui'.anchor # None
    BY <1>4, <1>8 DEF Good
  <2>2. ui' = ui
    BY <1>1, <1>2, <1>3, <1>8, <2>1 DEF Is
  <2>3. focus = "panel" \/ (focus \in Terms /\ Shows(ui, Entity[focus]))
    BY <1>8, <2>2 DEF IInv, Attended
  <2>4. focus' = focus
    BY <1>1, <1>2, <1>3, <1>8, <2>1, <2>2, <2>3 DEF Remains, Is
  <2> QED
    BY <2>2, <2>3, <2>4
<1>9. Attended'
  BY <1>1, <1>4, <1>7, <1>8 DEF Attended, OneInput
<1> QED
  BY <1>6, <1>7, <1>9 DEF IInv
-----------------------------------------------------------------------------
(* Everything is hidden at once: the close button, the effect of a new location. *)
LEMMA HiddenStep ==
  ASSUME IInv, ui' = HideImmediately(ui), isTouch' = isTouch, page' = page,
         arrived' \in BOOLEAN, pointer' = Remains(pointer), focus' = Remains(focus)
  PROVE  IInv'
<1> USE PlaceTypes
<1>1. Good(ui') /\ Is(ui', None, "none", None, None)
  BY InvGood, HideImmediatelyIs
<1>2. /\ pointer' = IF pointer = "panel" THEN "out" ELSE pointer
      /\ focus' = IF focus = "panel" THEN "out" ELSE focus
      /\ Here' = Here
  BY <1>1 DEF Remains, Is, Here
<1>3. TypeOK' /\ OneTimer'
  BY <1>1, <1>2, TypesAgain DEF IInv, TypeOK
<1> QED
  BY <1>1, <1>2, <1>3
     DEF IInv, OnPage, OneInput, OpensUnderPointer, Attended, Is

LEMMA EscapeStep ==
  ASSUME IInv, Escape
  PROVE  IInv'
<1> DEFINE s == HideImmediately(ui)
           w == Refocus(s, ui.last)
<1> USE PlaceTypes
<1>1. CASE ~WantsFocus(ui)
  BY <1>1, HiddenStep DEF Escape, IInv, TypeOK
<1>2. CASE WantsFocus(ui)
  <2>1. /\ ui.last \in Here /\ ui' = w /\ focus' = ui.last /\ pointer' = Remains(pointer)
        /\ UNCHANGED <<isTouch, page, arrived, Here>>
    BY <1>2 DEF Escape, WantsFocus, Here
  <2>2. Good(s) /\ Is(s, None, "none", None, None)
    BY InvGood, HideImmediatelyIs
  <2>3. /\ Good(w) /\ w.open = None
        /\ w.anchor = None \/ (w.anchor = ui.last /\ w.reason = "focus")
    BY <2>1, <2>2, RefocusIs DEF Is, IInv, TypeOK
  <2>4. /\ pointer' \in Here \cup {"panel", "out"} /\ (w.anchor = None => pointer' # "panel")
        /\ pointer = "out" => pointer' = "out"
    BY <2>1 DEF Remains, IInv, TypeOK
  <2>5. TypeOK' /\ OneTimer'
    BY <2>1, <2>3, <2>4, TypesAgain DEF IInv, TypeOK
  <2>6. OnPage' /\ OneInput' /\ OpensUnderPointer'
    BY <2>1, <2>3, <2>4 DEF IInv, OnPage, OneInput, OpensUnderPointer, Good
  <2>7. Attended'
    BY <2>1, <2>3, EntityOf DEF Attended, Shows, Good
  <2> QED
    BY <2>5, <2>6, <2>7 DEF IInv
<1> QED
  BY <1>1, <1>2

LEMMA NavigateStep ==
  ASSUME IInv, NEW p \in Pages, Navigate(p)
  PROVE  IInv'
<1> USE PlaceTypes
<1>1. Good(ui') /\ (ui' = ui \/ Is(ui', None, "none", None, None))
  BY InvGood, HideImmediatelyIs DEF Navigate
<1>2. /\ pointer' = IF pointer \in Terms THEN "out" ELSE Remains(pointer)
      /\ focus' = IF focus \in Terms THEN "out" ELSE Remains(focus)
      /\ page' = p /\ ~arrived' /\ isTouch' = isTouch /\ arrived' = FALSE
  BY DEF Navigate
<1>3. /\ pointer' \in {"panel", "out"} /\ focus' \in {"panel", "out"}
      /\ ui'.anchor = None => pointer' # "panel" /\ focus' # "panel"
      /\ pointer = "out" => pointer' = "out"
  BY <1>2 DEF Remains, IInv, TypeOK
<1>4. TypeOK' /\ OneTimer'
  BY <1>1, <1>2, <1>3, TypesAgain DEF IInv, TypeOK
<1>5. OneInput'
  BY <1>1, <1>2, <1>3 DEF IInv, OneInput, Is
<1> QED
  BY <1>2, <1>4, <1>5 DEF IInv, OnPage, OpensUnderPointer, Attended

LEMMA OpenFiresStep ==
  ASSUME IInv, OpenFires
  PROVE  IInv'
<1> DEFINE s == [ui EXCEPT !.open = None]
<1>1. /\ ui.open \in Terms /\ ui' = Open(s, ui.open, "hover")
      /\ UNCHANGED <<isTouch, pointer, focus, page, arrived, Here>>
  BY InvGood DEF OpenFires, Here, Good, UI
<1>2. Good(s) /\ s.open = None
  BY InvGood DEF Good, UI
<1>3. Good(ui') /\ ui'.anchor = ui.open /\ ui'.reason = "hover" /\ ui'.open = None
  <2> HIDE DEF s
  <2>1. Good(ui') /\ Is(ui', ui.open, "hover", s.open, s.hide)
    BY <1>1, <1>2, OpenIs
  <2> QED
    BY <1>2, <2>1 DEF Is
<1>4. TypeOK' /\ OneTimer'
  BY <1>1, <1>3, EntityOf, TypesAgain DEF IInv, TypeOK
<1>5. OnPage' /\ OneInput' /\ OpensUnderPointer'
  BY <1>1, <1>3, EntityOf DEF IInv, OnPage, OneInput, OpensUnderPointer
<1>6. Attended'
  BY <1>1, <1>3, EntityOf DEF IInv, OpensUnderPointer, Attended
<1> QED
  BY <1>4, <1>5, <1>6 DEF IInv

LEMMA HideFiresStep ==
  ASSUME IInv, HideFires
  PROVE  IInv'
<1> DEFINE s == [ui EXCEPT !.hide = None]
<1> USE PlaceTypes
<1>1. /\ ui' = HideShown(ui) /\ ui.hide # None /\ ui.open = None
      /\ pointer' = Remains(pointer) /\ focus' = Remains(focus)
      /\ UNCHANGED <<isTouch, page, arrived, Here>>
  BY DEF HideFires, Here, IInv, OneTimer
<1>2. /\ Good(s) /\ Is(s, ui.anchor, ui.reason, None, None) /\ s.astray = ui.astray
  BY <1>1, InvGood DEF Good, UI, Is
<1>3. CASE Shows(ui, ui.hide)
  <2>1. Good(ui') /\ Is(ui', None, "none", None, None)
    BY <1>1, <1>2, <1>3, CloseIs DEF HideShown, Is
  <2>2. /\ pointer' = IF pointer = "panel" THEN "out" ELSE pointer
        /\ focus' = IF focus = "panel" THEN "out" ELSE focus
    BY <1>1, <2>1 DEF Remains, Is
  <2>3. TypeOK' /\ OneTimer'
    BY <1>1, <2>1, <2>2, TypesAgain DEF IInv, TypeOK
  <2> QED
    BY <1>1, <2>1, <2>2, <2>3
       DEF IInv, OnPage, OneInput, OpensUnderPointer, Attended, Is
<1>4. CASE ~Shows(ui, ui.hide)
  <2>1. ui' = s
    BY <1>1, <1>4 DEF HideShown
  <2>2. pointer' = pointer /\ focus' = focus
    BY <1>1, <1>2, <2>1 DEF Remains, Is, IInv, TypeOK, Closed
  <2>3. TypeOK' /\ OneTimer'
    BY <1>1, <1>2, <2>1, <2>2, TypesAgain DEF IInv, TypeOK, Closed, Is
  <2>4. OnPage' /\ OneInput' /\ OpensUnderPointer'
    BY <1>1, <1>2, <2>1, <2>2 DEF IInv, OnPage, OneInput, OpensUnderPointer, Is
  <2>5. Attended'
    BY <1>1, <1>2, <1>4, <2>1, <2>2 DEF IInv, Attended, Is, Shows
  <2> QED
    BY <2>3, <2>4, <2>5 DEF IInv
<1> QED
  BY <1>3, <1>4
-----------------------------------------------------------------------------
LEMMA InitInv == Init => IInv
<1> SUFFICES ASSUME Init PROVE IInv
  OBVIOUS
<1> USE PlaceTypes
<1>1. Good(ui) /\ Is(ui, None, "none", None, None)
  BY DEF Init, Good, UI, Is
<1>2. TypeOK /\ OneTimer
  BY <1>1 DEF Init, TypeOK, OneTimer, Good, Closed
<1> QED
  BY <1>1, <1>2
     DEF Init, IInv, OnPage, OneInput, OpensUnderPointer, Attended, Is

LEMMA NextInv == IInv /\ [Next]_vars => IInv'
<1> SUFFICES ASSUME IInv, [Next]_vars PROVE IInv'
  OBVIOUS
<1>1. ASSUME NEW x \in Places, PointerMove(x) PROVE IInv'
  BY <1>1, PointerMoveStep
<1>2. ASSUME NEW x \in Places, FocusMove(x) PROVE IInv'
  BY <1>2, FocusMoveStep
<1>3. ASSUME NEW t \in Here, Press(t) PROVE IInv'
  BY <1>3, PressStep
<1>4. ASSUME NEW t \in Here, TapTerm(t) PROVE IInv'
  BY <1>4, TapTermStep
<1>5. CASE TapPanel
  BY <1>5, TapPanelStep
<1>6. CASE TapElsewhere
  BY <1>6, TapElsewhereStep
<1>7. CASE Escape
  BY <1>7, EscapeStep
<1>8. CASE CloseButton
  BY <1>8, HiddenStep DEF CloseButton, IInv, TypeOK
<1>9. ASSUME NEW p \in Pages, Navigate(p) PROVE IInv'
  BY <1>9, NavigateStep
<1>10. CASE Arrive
  BY <1>10, HiddenStep DEF Arrive
<1>11. CASE OpenFires
  BY <1>11, OpenFiresStep
<1>12. CASE HideFires
  BY <1>12, HideFiresStep
<1>13. CASE UNCHANGED vars
  BY <1>13 DEF vars, IInv, TypeOK, OneTimer, OnPage, OneInput, OpensUnderPointer,
               Attended, Here, Closed, Shows
<1> QED
  BY <1>1, <1>2, <1>3, <1>4, <1>5, <1>6, <1>7, <1>8, <1>9, <1>10, <1>11, <1>12, <1>13
     DEF Next

(* The five parts of the invariant hold in every reachable state. *)
LEMMA Invariant == Spec => []IInv
  BY InitInv, NextInv, PTL DEF Spec

(* Types of the state, whatever handlers run in whatever order: above all, a panel
   that is gone keeps neither the pointer nor the focus. *)
THEOREM TypeInvariant == Spec => []TypeOK
  BY Invariant, PTL DEF IInv

(* show and scheduleHide leave one timer at most: an open and a close are never
   both pending. *)
THEOREM NeverTwoTimers == Spec => []OneTimer
  BY Invariant, PTL DEF IInv

(* A page that has been navigated to shows nothing of the page before, and no timer
   of that page opens anything on it. *)
THEOREM NothingFromElsewhere == Spec => []OnPage
  BY Invariant, PTL DEF IInv

(* A preview that nobody points at or has focused is about to close, outside the
   excepted cases. *)
THEOREM EveryPreviewAttended == Spec => []Attended
  BY Invariant, PTL DEF IInv

(* Escape closes the preview, or gives the focus back to the trigger of a preview
   that the focus opened. *)
THEOREM EscapeAlwaysCloses == Spec => EscapeCloses
<1>1. ASSUME IInv, [Next]_vars, Escape
      PROVE  ui'.anchor = None \/ (ui.reason = "focus" /\ focus # ui.last)
  <2>1. Is(HideImmediately(ui), None, "none", None, None)
    BY <1>1, InvGood, HideImmediatelyIs
  <2> QED
    BY <1>1, <2>1 DEF Escape, WantsFocus, Refocus, Is
<1> QED
  BY <1>1, Invariant, PTL DEF Spec, EscapeCloses
=============================================================================
