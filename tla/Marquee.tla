------------------------------- MODULE Marquee -------------------------------
(***************************************************************************)
(* The marquee (rubber-band) selection of the card view                    *)
(* (content/cardview/CardView.tsx): a left press on the empty area clears  *)
(* the selection and starts a drag; a move of at least MinDelta on either  *)
(* axis from the press draws the box from the press to the pointer and     *)
(* replaces the selection with the cards whose cell the box overlaps       *)
(* (rectsOverlap); the release recomputes it from the last box drawn and   *)
(* ends the drag.  Screen coordinates are a small grid of integers and a   *)
(* card's cell a rectangle on it.                                          *)
(***************************************************************************)
EXTENDS Integers, FiniteSets

CONSTANTS
    Cards,     \* the cards rendered
    Cell,      \* Cell[c]: [left, top, right, bottom] of the card's grid cell
    Coords,    \* the screen coordinates, on each axis
    MinDelta,  \* MARQUEE_MIN_DELTA
    None

VARIABLES
    dragStart, \* the press that started the drag, or None
    marquee,   \* [start, cur]: the box drawn, or None
    selected,  \* the selection, as the set of cards it holds
    drawn      \* (ghost) the box of the last marquee drawn, or None

vars == <<dragStart, marquee, selected, drawn>>

Points == Coords \X Coords

Abs(n) == IF n < 0 THEN -n ELSE n

\* a point inside a card (closest('[data-selection-card]'))
OnCard(p) == \E c \in Cards : Cell[c].left <= p[1] /\ p[1] <= Cell[c].right
                              /\ Cell[c].top <= p[2] /\ p[2] <= Cell[c].bottom

\* the threshold test of onMouseMove and onMouseUp
Far(a, b) == Abs(b[1] - a[1]) >= MinDelta \/ Abs(b[2] - a[2]) >= MinDelta

\* left, right, top, bottom of the box from start to cur
BoxOf(m) ==
    [left |-> IF m.start[1] < m.cur[1] THEN m.start[1] ELSE m.cur[1],
     right |-> IF m.start[1] < m.cur[1] THEN m.cur[1] ELSE m.start[1],
     top |-> IF m.start[2] < m.cur[2] THEN m.start[2] ELSE m.cur[2],
     bottom |-> IF m.start[2] < m.cur[2] THEN m.cur[2] ELSE m.start[2]]

\* mutant: boxes that only touch at an edge do not overlap
RectsOverlapStrict(box, rect) ==
    ~(rect.right <= box.left \/ rect.left >= box.right \/ rect.bottom <= box.top \/ rect.top >= box.bottom)

\* the separating-axis test
RectsOverlap(box, rect) ==
    ~(rect.right < box.left \/ rect.left > box.right \/ rect.bottom < box.top \/ rect.top > box.bottom)

\* updateSelectionForBox: replaceSelection with the cards the box overlaps
UpdateSelectionForBox(box) == {c \in Cards : RectsOverlap(box, Cell[c])}

Init == dragStart = None /\ marquee = None /\ selected = {} /\ drawn = None

\* onMouseDown with the left button on the empty area
MouseDown(p) ==
    /\ dragStart = None /\ ~OnCard(p)
    /\ selected' = {} /\ dragStart' = p /\ drawn' = None
    /\ UNCHANGED marquee

\* onMouseMove far enough from the press; a nearer move changes nothing
MouseMove(p) ==
    /\ dragStart # None /\ Far(dragStart, p)
    /\ LET next == [start |-> IF marquee = None THEN dragStart ELSE marquee.start, cur |-> p]
       IN /\ marquee' = next /\ drawn' = BoxOf(next)
          /\ selected' = UpdateSelectionForBox(BoxOf(next))
    /\ UNCHANGED dragStart

\* onMouseUp: the last marquee, if past the threshold, is applied again
MouseUp ==
    /\ dragStart # None
    /\ IF marquee # None /\ Far(marquee.start, marquee.cur)
       THEN selected' = UpdateSelectionForBox(BoxOf(marquee))
       ELSE UNCHANGED selected
    /\ dragStart' = None /\ marquee' = None
    /\ UNCHANGED drawn

Next == \E p \in Points : MouseDown(p) \/ MouseMove(p) \/ MouseUp

Spec == Init /\ [][Next]_vars

TypeOK ==
    /\ dragStart \in Points \cup {None} /\ selected \subseteq Cards
    /\ marquee \in [start : Points, cur : Points] \cup {None}

(***************************************************************************)
(* Properties.                                                             *)
(***************************************************************************)

\* the points of a rectangle
Covers(r) == {p \in Points : r.left <= p[1] /\ p[1] <= r.right /\ r.top <= p[2] /\ p[2] <= r.bottom}

(* The selection holds exactly the cards whose cell shares a point with    *)
(* the last box drawn (none since the press, when none was drawn), during *)
(* the drag and after the release (spec 4.3: every move replaces the      *)
(* selection with the intersecting cards, the release recomputes it).     *)
(* It checks rectsOverlap against the intersection of point sets.          *)
SelectionIsBox ==
    selected = IF drawn = None THEN {}
               ELSE {c \in Cards : Covers(drawn) \cap Covers(Cell[c]) # {}}

(* A drag is promoted to a marquee only once the pointer has moved more    *)
(* than MinDelta on an axis (spec 4.3: "exceeds 5 px"); onMouseMove tests  *)
(* >= MARQUEE_MIN_DELTA.                                                   *)
PromotedBeyondThreshold ==
    [][marquee = None /\ marquee' # None =>
         Abs(marquee'.cur[1] - marquee'.start[1]) > MinDelta
         \/ Abs(marquee'.cur[2] - marquee'.start[2]) > MinDelta]_vars
=============================================================================
