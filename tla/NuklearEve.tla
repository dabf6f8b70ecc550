----------------------------- MODULE NuklearEve -----------------------------
(***************************************************************************)
(* nk_eve_cb_render of nuklear_eve.c: the drawing of one frame of Nuklear's*)
(* command list with the graphics engine.  The commands are not drawn one  *)
(* by one as Nuklear lists them.  A rectangle and its outline are fused    *)
(* into two filled rectangles; polygons and outlines are drawn through     *)
(* the stencil, which each leaves as it happens to be for the next; and    *)
(* clipping is a scissor that polygons narrow and put back.                *)
(*                                                                         *)
(* The screen is one row of pixels: the code treats both axes alike.  A    *)
(* command says which columns of the row it touches.  A pixel is the       *)
(* sequence of what was drawn on it since it was last covered opaquely.    *)
(***************************************************************************)
EXTENDS Integers, Sequences, FiniteSets, FiniteSetsExt

CONSTANTS
  Commands,     \* what Nuklear may list
  MaxCommands,  \* bound: commands in a frame
  Width,        \* pixels in the row
  Opaque,       \* the colours of alpha 255; all others shine through
  Background    \* the colour the frame is cleared to

Colours == { c.colour : c \in { d \in Commands : d.kind # "scissor" } }

ASSUME NuklearAssumption ==
  /\ Width \in Nat \ {0} /\ MaxCommands \in Nat
  /\ Background \in Opaque
  /\ \A c \in Commands :
       /\ c.kind \in {"scissor", "rect", "rect_filled", "polygon_filled", "line"}
       /\ c.kind # "polygon_filled" => c.x \in Int /\ c.w \in Nat
       /\ c.kind \in {"rect", "rect_filled"} => c.rounding \in Nat
       /\ c.kind = "rect" => c.thickness \in Nat
       /\ c.kind = "polygon_filled" => c.edges \in Seq([from : Int, to : Int])

VARIABLES
  cmds,         \* the commands to come
  scissor,      \* the scissor of the engine, and of the optimizer's cache
  pixels,       \* what is drawn on each pixel
  stencil,      \* the stencil buffer
  drawn,        \* the frame is over
  \* history
  clip,         \* the columns Nuklear last said to draw in
  asked,        \* the pixels as Nuklear asked for them
  behind        \* the columns the shortcut for an outline behind has drawn on

vars == <<cmds, scissor, pixels, stencil, drawn, clip, asked, behind>>

Row  == 0 .. Width - 1
Base == [x |-> 0, w |-> Width]        \* eve.scissor: what the frame starts with

Init ==
  /\ cmds \in UNION { [1 .. n -> Commands] : n \in 0 .. MaxCommands }
  /\ scissor = Base
  /\ pixels = [p \in Row |-> <<Background>>] /\ stencil = [p \in Row |-> 0]
  /\ drawn = FALSE
  /\ clip = Row /\ asked = pixels /\ behind = {}

-----------------------------------------------------------------------------
(* The graphics engine (external).  It draws within the scissor. *)
Scissored(s) == Row \cap s.x .. s.x + s.w - 1

Painted(px, cols, colour) ==
  [p \in Row |-> IF p \notin cols THEN px[p]
                 ELSE IF colour \in Opaque THEN <<colour>> ELSE Append(px[p], colour)]

StencilPut(st, cols, value) == [p \in Row |-> IF p \in cols THEN value ELSE st[p]]
StencilInvert(st, cols)     == [p \in Row |-> IF p \in cols THEN 255 - st[p] ELSE st[p]]

-----------------------------------------------------------------------------
(* The scissor.  Adjust is Esd_Scissor_Adjust: a rectangle cut to another.
   Nuklear's clip is one larger than its width, and always cut to the one
   the frame started with. *)
\* Wrong on purpose: a rectangle beside the other one keeps a negative width.
AdjustUnclamped(rect, state) ==
  LET x == Max({state.x, rect.x})
  IN  [x |-> x, w |-> Min({rect.x + rect.w, state.x + state.w}) - x]

Adjust(rect, state) ==
  LET x == Max({state.x, rect.x})
      w == Min({rect.x + rect.w, state.x + state.w}) - x
  IN  [x |-> x, w |-> Max({w, 0})]

Clip(c) == [x |-> c.x, w |-> c.w + 1]

\* nk_eve_scissor
Scissor(c) ==
  /\ c.kind = "scissor"
  /\ scissor' = Adjust(Clip(c), Base)
  /\ clip' = Row \cap c.x .. c.x + c.w
  /\ UNCHANGED <<pixels, stencil, asked, behind>>
  /\ cmds' = Tail(cmds)

-----------------------------------------------------------------------------
(* Filled rectangles.  nk_eve_fill_rect takes an unsigned 16-bit rounding
   and makes a rectangle of line width r + 1/2 between two points r inside
   the corners; the line width has 12 bits, 4 of them for the fraction, and a
   vertex 15 bits. *)
Signed15(n) == ((n + 2 ^ 14) % 2 ^ 15) - 2 ^ 14

FillRect(x, w, rounding) ==
  LET r    == Max({rounding % 2 ^ 16, 1})
      line == (16 * r + 8) % 2 ^ 12
      x0   == Signed15(x + r)
      x1   == Signed15(x + w - 1 - r)
  IN  (16 * x0 - line + 15) \div 16 .. (16 * x1 + line) \div 16

(* Outlines.  Esd_Render_Rect_Stroke reckons in sixteenths of a pixel.  It
   writes 0 into the stencil under the outer rectangle and 1 under the
   inner one, and draws the outer one where the stencil is not 1. *)
Edges(c) ==
  LET offset == IF c.thickness % 2 = 1 THEN 0 ELSE 8
      x0     == 16 * c.x - offset
      x1     == 16 * (c.x + c.w) - 16 + offset
      border == 16 * c.thickness
      \* the pixels whose middle lies in a rectangle that is n wider
      Within(n) == (x0 - n + 15) \div 16 .. (x1 + n) \div 16
      inner  == - (border \div 2)
  IN  [outer |-> Within(inner + border), inner |-> Within(inner)]

-----------------------------------------------------------------------------
(* What Nuklear means by each command, for the history.  The outline lies
   across the edge of the rectangle, half a thickness (rounded down) outside;
   a polygon is what an odd number of its edges lies above. *)
Border(c) ==
  LET half == c.thickness \div 2
      left == c.x - half .. c.x - half + c.thickness - 1
      right == c.x + c.w + half - c.thickness .. c.x + c.w + half - 1
  IN  left \cup right

Above(c, p) == Cardinality({ e \in DOMAIN c.edges : p \in c.edges[e].from .. c.edges[e].to - 1 })

Meant(c) ==
  CASE c.kind = "rect"           -> Border(c)
    [] c.kind = "polygon_filled" -> { p \in Row : Above(c, p) % 2 = 1 }
    [] OTHER                     -> c.x .. c.x + c.w - 1

Asked(px, c) == Painted(px, clip \cap Meant(c), c.colour)

-----------------------------------------------------------------------------
(* The shortcuts for a rectangle with an outline: r now and rs next. *)
Fuses(r, kind) ==
  /\ Len(cmds) > 1 /\ cmds[2].kind = kind
  /\ r.colour \in Opaque /\ cmds[2].colour \in Opaque
  /\ <<cmds[2].x, cmds[2].w, cmds[2].rounding>> = <<r.x, r.w, r.rounding>>

(* The outer rectangle of an outline of thickness t, with its rounding. *)
Outer(r, t) ==
  LET half == t \div 2
  IN  FillRect(r.x - half, r.w + 2 * half, r.rounding - half + t)

Inner(r, t) ==
  LET half == t \div 2
  IN  FillRect(r.x - half + t, r.w + 2 * half - 2 * t, r.rounding - half)

Draws(cols, px, colour) == Painted(px, cols \cap Scissored(scissor), colour)

Drew == /\ cmds' = Tail(cmds)
        /\ asked' = Asked(asked, cmds[1])
        /\ UNCHANGED <<scissor, clip, behind>>

DrewBoth == /\ cmds' = Tail(Tail(cmds))
            /\ asked' = Asked(Asked(asked, cmds[1]), cmds[2])
            /\ UNCHANGED <<scissor, stencil, clip>>

(* NK_COMMAND_RECT_FILLED, its outline to follow. *)
FillWithOutline(r) ==
  /\ r.kind = "rect_filled" /\ Fuses(r, "rect")
  /\ LET rs == cmds[2]
     IN  pixels' = Draws(Inner(r, rs.thickness),
                         Draws(Outer(r, rs.thickness), pixels, rs.colour), r.colour)
  /\ DrewBoth /\ UNCHANGED behind

Fill(r) ==
  /\ r.kind = "rect_filled" /\ ~Fuses(r, "rect")
  /\ pixels' = Draws(FillRect(r.x, r.w, r.rounding), pixels, r.colour)
  /\ Drew /\ UNCHANGED stencil

(* NK_COMMAND_RECT, a filled rectangle to follow: both are drawn in the
   colour of the filled one. *)
OutlineBehind(r) ==
  /\ r.kind = "rect" /\ Fuses(r, "rect_filled")
  /\ LET rs == cmds[2]
     IN  pixels' = Draws(FillRect(rs.x, rs.w, rs.rounding),
                         Draws(Outer(r, r.thickness), pixels, rs.colour), rs.colour)
  /\ behind' = behind \cup Outer(r, r.thickness)
  /\ DrewBoth

Outline(r) ==
  /\ r.kind = "rect" /\ ~Fuses(r, "rect_filled")
  /\ LET e   == Edges(r)
         st1 == StencilPut(stencil, e.outer \cap Scissored(scissor), 0)
         st2 == StencilPut(st1, e.inner \cap Scissored(scissor), 1)
     IN  IF r.thickness = 0 THEN UNCHANGED <<pixels, stencil>>
         ELSE /\ pixels' = Draws({ p \in e.outer \cap Row : st2[p] # 1 }, pixels, r.colour)
              /\ stencil' = st2
  /\ Drew

-----------------------------------------------------------------------------
(* nk_eve_fill_polygon.  Every edge inverts the stencil below it, within a
   scissor around the polygon; what is left inverted is inside.  The search
   for the leftmost point starts at 4095, that for the rightmost at 0. *)
Boundary(c) ==
  LET ends  == { c.edges[e].from : e \in DOMAIN c.edges } \cup { c.edges[e].to : e \in DOMAIN c.edges }
      left  == Min(ends \cup {4095})
      right == Max(ends \cup {0})
  IN  [x |-> left, w |-> right - left]

Inverted(st, c, n) ==
  LET cols[e \in 0 .. Len(c.edges)] ==
        IF e = 0 THEN st
        ELSE StencilInvert(cols[e - 1],
                           Scissored(n) \cap c.edges[e].from .. c.edges[e].to - 1)
  IN  cols[Len(c.edges)]

\* Wrong on purpose: the stencil is inverted as the commands before left it.
PolygonUncleared(c) ==
  /\ c.kind = "polygon_filled"
  /\ LET narrow == Adjust(Boundary(c), scissor)
         st     == Inverted(stencil, c, narrow)
     IN  /\ pixels' = Painted(pixels, { p \in Scissored(narrow) : st[p] = 255 }, c.colour)
         /\ stencil' = st
  /\ Drew

\* Wrong on purpose: the scissor stays around the polygon.
PolygonKeepsScissor(c) ==
  /\ c.kind = "polygon_filled"
  /\ scissor' = Adjust(Boundary(c), scissor)
  /\ LET st == Inverted(StencilPut(stencil, Scissored(scissor'), 0), c, scissor')
     IN  /\ pixels' = Painted(pixels, { p \in Scissored(scissor') : st[p] = 255 }, c.colour)
         /\ stencil' = st
  /\ cmds' = Tail(cmds) /\ asked' = Asked(asked, c) /\ UNCHANGED <<clip, behind>>

Polygon(c) ==
  /\ c.kind = "polygon_filled"
  /\ LET narrow == Adjust(Boundary(c), scissor)
         clear  == StencilPut(stencil, Scissored(narrow), 0)
         st     == Inverted(clear, c, narrow)
     IN  /\ pixels' = Painted(pixels, { p \in Scissored(narrow) : st[p] = 255 }, c.colour)
         /\ stencil' = st
  /\ Drew

(* nk_eve_stroke_line along the row, one pixel thick. *)
Line(c) ==
  /\ c.kind = "line"
  /\ pixels' = Draws(c.x .. c.x + c.w - 1, pixels, c.colour)
  /\ Drew /\ UNCHANGED stencil

-----------------------------------------------------------------------------
Command ==
  /\ cmds # <<>>
  /\ drawn' = FALSE
  /\ LET c == cmds[1]
     IN  \/ Scissor(c)
         \/ FillWithOutline(c)
         \/ Fill(c)
         \/ OutlineBehind(c)
         \/ Outline(c)
         \/ Polygon(c)
         \/ Line(c)

(* The list is drawn: the scissor is put back. *)
End ==
  /\ cmds = <<>> /\ ~drawn
  /\ drawn' = TRUE /\ scissor' = Base
  /\ UNCHANGED <<cmds, pixels, stencil, clip, asked, behind>>

Next == Command \/ End

Spec == Init /\ [][Next]_vars

-----------------------------------------------------------------------------
(* Every variable has its type; a scissor is never of negative size, and the
   stencil holds what outlines and polygons put there. *)
TypeOK ==
  /\ cmds \in Seq(Commands)
  /\ scissor \in [x : Int, w : Nat]
  /\ pixels \in [Row -> Seq(Colours \cup {Background})]
  /\ stencil \in [Row -> {0, 1, 254, 255}]
  /\ drawn \in BOOLEAN
  /\ clip \subseteq Row
  /\ asked \in [Row -> Seq(Colours \cup {Background})]

(* The scissor of Esd_Scissor.c is at every command the screen cut to what
   Nuklear last asked for, whatever polygons did to it in between, and after
   the frame what the frame found. *)
ScissorIsRight == Scissored(scissor) = IF drawn THEN Row ELSE clip

(* Fusing, the stencil and the scissor do not show: every pixel has what
   Nuklear asked for, in that order, clipped as it asked.  Where an outline
   was to be behind a rectangle the code knowingly takes a shortcut, and
   OutlineBehindKept says what becomes of it. *)
PaintedAsAsked == \A p \in Row \ behind : pixels[p] = asked[p]

(* "Optimization for rect with outline behind" (nuklear_eve.c:594): the
   optimization does not change what is drawn either. *)
OutlineBehindKept == pixels = asked
=============================================================================
