-------------------------------- MODULE Gpu --------------------------------
(***************************************************************************)
(* What the graphics engine does with display list commands, as far as     *)
(* the optimizer of EVE_CoDl.h depends on it.  The engine is not part of   *)
(* the repository: these operators follow from what the host code relies   *)
(* on, and from the depth of four of the engine's context stack.           *)
(*                                                                         *)
(* A graphics state `now` holds the registers the optimizer caches and the *)
(* bitmap transform matrix.  SAVE_CONTEXT and RESTORE_CONTEXT keep it on   *)
(* a stack; the primitive in force is not part of it.                      *)
(***************************************************************************)
EXTENDS Naturals, Sequences

CONSTANTS
  Regs,       \* the cached registers: "Handle", "Cell", "ColorRGB", ...
  Values,     \* the values a register may take
  Default,    \* Default[r]: the value of register r in a new display list
  Matrices,   \* the bitmap transform matrices told apart
  Identity,   \* the identity among them
  Singles,    \* primitives of one vertex: BITMAPS, POINTS
  Pairs,      \* primitives of two vertices: LINES, RECTS
  Strips,     \* primitives that join every vertex to the one before
  NoPrim,     \* no primitive begun
  OtherPrim,  \* whatever primitive a widget of the coprocessor left behind
  HwDepth     \* how many graphics states the engine's stack holds

Prims == Singles \cup Pairs \cup Strips

ASSUME GpuAssumption ==
  /\ Default \in [Regs -> Values]
  /\ Identity \in Matrices
  /\ HwDepth \in Nat \ {0}
  /\ NoPrim \notin Prims
  /\ OtherPrim \notin Prims \cup {NoPrim}
  /\ \A p, q \in {Singles, Pairs, Strips} : p # q => p \cap q = {}

States == [reg : [Regs -> Values], matrix : Matrices]

\* `pending` counts the vertices the next one would be joined to.
Gpus == [now : States, saved : Seq(States),
         prim : Prims \cup {NoPrim, OtherPrim}, pending : {0, 1}]

FreshState == [reg |-> Default, matrix |-> Identity]
Fresh == [now |-> FreshState, saved |-> <<>>, prim |-> NoPrim, pending |-> 0]

PutReg(g, r, v) == [g EXCEPT !.now.reg[r] = v]
PutMatrix(g, m) == [g EXCEPT !.now.matrix = m]

\* A full stack forgets its oldest entry, an empty one restores the default.
Push(g) ==
  [g EXCEPT !.saved = Append(IF Len(@) < HwDepth THEN @ ELSE Tail(@), g.now)]
Pop(g) ==
  IF g.saved = <<>> THEN [g EXCEPT !.now = FreshState]
  ELSE [g EXCEPT !.now = g.saved[Len(g.saved)],
                 !.saved = SubSeq(@, 1, Len(@) - 1)]

StartPrim(g, p) == [g EXCEPT !.prim = p, !.pending = 0]
PutVertex(g) ==
  [g EXCEPT !.pending = IF g.prim \in Pairs THEN 1 - @
                        ELSE IF g.prim \in Strips THEN 1 ELSE 0]

(***************************************************************************)
(* The coprocessor's own state: the colours of its widgets and the matrix  *)
(* its transform commands compose.                                         *)
(***************************************************************************)
CONSTANTS Colours, FgDefault, BgDefault

ASSUME CoAssumption == FgDefault \in Colours /\ BgDefault \in Colours

CoStates == [fg : Colours, bg : Colours, matrix : Matrices]
Cold == [fg |-> FgDefault, bg |-> BgDefault, matrix |-> Identity]
=============================================================================
