---------------------------- MODULE PanelPosition ----------------------------
(***************************************************************************)
(* computePosition of the documentation site (lib/docPreview/position.ts): *)
(* where the preview panel goes, beside its anchor and inside the          *)
(* viewport.  Lengths are whole pixels; the offset of the caret is left    *)
(* out.                                                                    *)
(***************************************************************************)
EXTENDS Integers, TLAPS

VIEWPORT_PADDING == 12
ANCHOR_GAP == 10

Rect == [top : Int, left : Int, bottom : Int]
Size == [width : Nat, height : Nat]
Placement == {"top", "bottom"}

Larger(a, b) == IF a > b THEN a ELSE b
Smaller(a, b) == IF a < b THEN a ELSE b

SpaceBelow(anchor, viewport) == viewport.height - anchor.bottom - VIEWPORT_PADDING
SpaceAbove(anchor) == anchor.top - VIEWPORT_PADDING
FitsBelow(anchor, panel, viewport) == SpaceBelow(anchor, viewport) >= panel.height + ANCHOR_GAP
FitsAbove(anchor, panel) == SpaceAbove(anchor) >= panel.height + ANCHOR_GAP

Side(anchor, panel, viewport, preferred) ==
  IF preferred = "bottom" /\ ~FitsBelow(anchor, panel, viewport) /\ FitsAbove(anchor, panel) THEN "top"
  ELSE IF preferred = "top" /\ ~FitsAbove(anchor, panel) /\ FitsBelow(anchor, panel, viewport) THEN "bottom"
  ELSE IF ~FitsBelow(anchor, panel, viewport) /\ ~FitsAbove(anchor, panel)
       THEN IF SpaceAbove(anchor) > SpaceBelow(anchor, viewport) THEN "top" ELSE "bottom"
  ELSE preferred

Top(anchor, panel, viewport, preferred) ==
  Larger(VIEWPORT_PADDING,
         IF Side(anchor, panel, viewport, preferred) = "bottom"
         THEN Smaller(anchor.bottom + ANCHOR_GAP, viewport.height - VIEWPORT_PADDING - panel.height)
         ELSE anchor.top - ANCHOR_GAP - panel.height)

Left(anchor, panel, viewport) ==
  Smaller(Larger(anchor.left, VIEWPORT_PADDING),
          Larger(VIEWPORT_PADDING, viewport.width - VIEWPORT_PADDING - panel.width))
-----------------------------------------------------------------------------
(* "Handles viewport-aware flip and shift clamping" (position.ts): a panel that is
   not larger than the viewport lies inside it on all four sides, padding
   included, wherever a visible anchor is. *)
THEOREM InsideViewport ==
  ASSUME NEW anchor \in Rect, NEW panel \in Size, NEW viewport \in Size,
         NEW preferred \in Placement,
         panel.width + 2 * VIEWPORT_PADDING <= viewport.width,
         panel.height + 2 * VIEWPORT_PADDING <= viewport.height,
         anchor.top < anchor.bottom, anchor.top + 2 < viewport.height
  PROVE  /\ Left(anchor, panel, viewport) >= VIEWPORT_PADDING
         /\ Left(anchor, panel, viewport) + panel.width <= viewport.width - VIEWPORT_PADDING
         /\ Top(anchor, panel, viewport, preferred) >= VIEWPORT_PADDING
         /\ Top(anchor, panel, viewport, preferred) + panel.height
              <= viewport.height - VIEWPORT_PADDING
<1> DEFINE side == Side(anchor, panel, viewport, preferred)
<1> USE DEF Rect, Size, VIEWPORT_PADDING, ANCHOR_GAP
<1>1. /\ Left(anchor, panel, viewport) >= VIEWPORT_PADDING
      /\ Left(anchor, panel, viewport) + panel.width <= viewport.width - VIEWPORT_PADDING
  BY DEF Left, Larger, Smaller
<1>2. Top(anchor, panel, viewport, preferred) >= VIEWPORT_PADDING
  <2>1. CASE side = "bottom" BY <2>1 DEF Top, Larger, Smaller
  <2>2. CASE side # "bottom" BY <2>2 DEF Top, Larger
  <2> QED BY <2>1, <2>2
<1>3. Top(anchor, panel, viewport, preferred) + panel.height <= viewport.height - VIEWPORT_PADDING
  <2>1. CASE side = "bottom" BY <2>1 DEF Top, Larger, Smaller
  <2>2. CASE side # "bottom" BY <2>2 DEF Top, Larger
  <2> QED BY <2>1, <2>2
<1> QED BY <1>1, <1>2, <1>3

(* A panel that fits above or below its anchor does not cover it, whichever side
   was preferred: the pointer that opened the panel is not under it. *)
THEOREM BesideAnchor ==
  ASSUME NEW anchor \in Rect, NEW panel \in Size, NEW viewport \in Size,
         NEW preferred \in Placement,
         FitsBelow(anchor, panel, viewport) \/ FitsAbove(anchor, panel)
  PROVE  \/ Top(anchor, panel, viewport, preferred) >= anchor.bottom + ANCHOR_GAP
         \/ Top(anchor, panel, viewport, preferred) + panel.height <= anchor.top - ANCHOR_GAP
<1> DEFINE side == Side(anchor, panel, viewport, preferred)
<1> USE DEF Rect, Size, VIEWPORT_PADDING, ANCHOR_GAP
<1>1. \/ side = "bottom" /\ FitsBelow(anchor, panel, viewport)
      \/ side = "top" /\ FitsAbove(anchor, panel)
  BY DEF Side, Placement
<1>2. CASE side = "bottom" /\ FitsBelow(anchor, panel, viewport)
  BY <1>2 DEF Top, Larger, Smaller, FitsBelow, SpaceBelow
<1>3. CASE side = "top" /\ FitsAbove(anchor, panel)
  BY <1>3 DEF Top, Larger, FitsAbove, SpaceAbove
<1> QED BY <1>1, <1>2, <1>3
=============================================================================
