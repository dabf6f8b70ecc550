----------------------------- MODULE CoDlProofs -----------------------------
(***************************************************************************)
(* Proofs about CoDl, for every set of registers, values and primitives    *)
(* and every size of the two stacks.                                       *)
(***************************************************************************)
EXTENDS CoDl, SequenceTheorems, TLAPS

(***************************************************************************)
(* The graphics engine: what each command does to each part of it, that it *)
(* stays an engine, and that no command but BEGIN and VERTEX2F looks at    *)
(* the primitive.                                                          *)
(***************************************************************************)
NothingBegun(g) == StartPrim(g, NoPrim)

LEMMA ColdTyped == Cold \in CoStates
BY GpuAssumption, CoAssumption DEF Cold, CoStates

LEMMA PutRegIs ==
  ASSUME NEW g \in Gpus, NEW r \in Regs, NEW v \in Values
  PROVE  /\ PutReg(g, r, v) \in Gpus
         /\ PutReg(g, r, v).now.reg = [g.now.reg EXCEPT ![r] = v]
         /\ PutReg(g, r, v).now.matrix = g.now.matrix
         /\ PutReg(g, r, v).saved = g.saved
         /\ PutReg(g, r, v).prim = g.prim
         /\ PutReg(g, r, v).pending = g.pending
         /\ NothingBegun(PutReg(g, r, v)) = PutReg(NothingBegun(g), r, v)
BY DEF PutReg, Gpus, States, NothingBegun, StartPrim

LEMMA PutRegSame ==
  ASSUME NEW g \in Gpus, NEW r \in Regs, NEW v \in Values, g.now.reg[r] = v
  PROVE  PutReg(g, r, v) = g
BY DEF PutReg, Gpus, States

LEMMA PutMatrixIs ==
  ASSUME NEW g \in Gpus, NEW m \in Matrices
  PROVE  /\ PutMatrix(g, m) \in Gpus
         /\ PutMatrix(g, m).now.reg = g.now.reg
         /\ PutMatrix(g, m).now.matrix = m
         /\ PutMatrix(g, m).saved = g.saved
         /\ PutMatrix(g, m).prim = g.prim
         /\ PutMatrix(g, m).pending = g.pending
         /\ NothingBegun(PutMatrix(g, m)) = PutMatrix(NothingBegun(g), m)
         /\ g.now.matrix = m => PutMatrix(g, m) = g
BY DEF PutMatrix, Gpus, States, NothingBegun, StartPrim

LEMMA StartPrimIs ==
  ASSUME NEW g \in Gpus, NEW p \in Prims \cup {NoPrim, OtherPrim}
  PROVE  /\ StartPrim(g, p) \in Gpus
         /\ StartPrim(g, p).now = g.now
         /\ StartPrim(g, p).saved = g.saved
         /\ StartPrim(g, p).prim = p
         /\ StartPrim(g, p).pending = 0
         /\ NothingBegun(StartPrim(g, p)) = NothingBegun(g)
         /\ StartPrim(NothingBegun(g), p) = StartPrim(g, p)
         /\ g.prim = p /\ g.pending = 0 => StartPrim(g, p) = g
BY DEF StartPrim, Gpus, NothingBegun

LEMMA PutVertexIs ==
  ASSUME NEW g \in Gpus
  PROVE  /\ PutVertex(g) \in Gpus
         /\ PutVertex(g).now = g.now
         /\ PutVertex(g).saved = g.saved
         /\ PutVertex(g).prim = g.prim
         /\ PutVertex(g).pending # 0 => g.prim \in Pairs \cup Strips
BY DEF PutVertex, Gpus

LEMMA PushIs ==
  ASSUME NEW g \in Gpus
  PROVE  /\ Push(g) \in Gpus
         /\ Push(g).now = g.now
         /\ Len(g.saved) < HwDepth => Push(g).saved = Append(g.saved, g.now)
         /\ Push(g).prim = g.prim
         /\ Push(g).pending = g.pending
         /\ NothingBegun(Push(g)) = Push(NothingBegun(g))
<1> DEFINE kept == IF Len(g.saved) < HwDepth THEN g.saved ELSE Tail(g.saved)
           stack == Append(kept, g.now)
<1>1. g.saved \in Seq(States) /\ g.now \in States /\ HwDepth \in Nat \ {0}
  BY GpuAssumption DEF Gpus
<1>2. kept \in Seq(States)
  <2>1. CASE Len(g.saved) < HwDepth
    BY <1>1, <2>1
  <2>2. CASE ~(Len(g.saved) < HwDepth)
    <3>1. g.saved # <<>>
      BY <1>1, <2>2, EmptySeq
    <3>. QED
      BY <1>1, <2>2, <3>1, HeadTailProperties
  <2>. QED
    BY <2>1, <2>2
<1>3. stack \in Seq(States)
  BY <1>1, <1>2, AppendProperties
<1>4. Len(g.saved) < HwDepth => stack = Append(g.saved, g.now)
  OBVIOUS
<1>5. /\ Push(g) = [g EXCEPT !.saved = stack]
      /\ NothingBegun(g).saved = g.saved /\ NothingBegun(g).now = g.now
  BY DEF Push, NothingBegun, StartPrim, Gpus
<1>6. Push(NothingBegun(g)) = [NothingBegun(g) EXCEPT !.saved = stack]
  BY <1>5 DEF Push
<1> HIDE DEF stack, kept
<1>. QED
  BY <1>3, <1>4, <1>5, <1>6 DEF Gpus, NothingBegun, StartPrim

LEMMA PopIs ==
  ASSUME NEW g \in Gpus
  PROVE  /\ Pop(g) \in Gpus
         /\ Len(g.saved) > 0 =>
              /\ Pop(g).now = g.saved[Len(g.saved)]
              /\ Pop(g).saved = SubSeq(g.saved, 1, Len(g.saved) - 1)
         /\ Pop(g).prim = g.prim
         /\ Pop(g).pending = g.pending
         /\ NothingBegun(Pop(g)) = Pop(NothingBegun(g))
<1>1. g.saved \in Seq(States) /\ FreshState \in States
  BY GpuAssumption DEF Gpus, FreshState, States
<1>2. NothingBegun(g).saved = g.saved
  BY DEF NothingBegun, StartPrim, Gpus
<1>3. CASE g.saved = <<>>
  <2>1. /\ Pop(g) = [g EXCEPT !.now = FreshState]
        /\ Pop(NothingBegun(g)) = [NothingBegun(g) EXCEPT !.now = FreshState]
    BY <1>2, <1>3 DEF Pop
  <2>2. ~(Len(g.saved) > 0)
    BY <1>3
  <2>. QED
    BY <1>1, <2>1, <2>2 DEF Gpus, NothingBegun, StartPrim
<1>4. CASE g.saved # <<>>
  <2> DEFINE top == g.saved[Len(g.saved)]
             rest == SubSeq(g.saved, 1, Len(g.saved) - 1)
  <2>1. Len(g.saved) \in Nat /\ Len(g.saved) > 0
    BY <1>1, <1>4
  <2>2. top \in States /\ rest \in Seq(States)
    BY <1>1, <2>1
  <2>3. /\ Pop(g) = [g EXCEPT !.now = top, !.saved = rest]
        /\ Pop(NothingBegun(g)) = [NothingBegun(g) EXCEPT !.now = top, !.saved = rest]
    BY <1>2, <1>4 DEF Pop
  <2> HIDE DEF top, rest
  <2>4. /\ Pop(g) \in Gpus /\ Pop(g).now = top /\ Pop(g).saved = rest
        /\ Pop(g).prim = g.prim /\ Pop(g).pending = g.pending
        /\ NothingBegun(Pop(g)) = Pop(NothingBegun(g))
    BY <2>2, <2>3 DEF Gpus, NothingBegun, StartPrim
  <2>. QED
    BY <2>4 DEF top, rest
<1>. QED
  BY <1>3, <1>4

LEMMA FreshIs ==
  /\ Fresh \in Gpus
  /\ Fresh.now = FreshState /\ Fresh.saved = <<>>
  /\ Fresh.prim = NoPrim /\ Fresh.pending = 0
  /\ NothingBegun(Fresh) = Fresh
<1>1. /\ Fresh \in Gpus
      /\ Fresh.now = FreshState /\ Fresh.saved = <<>>
      /\ Fresh.prim = NoPrim /\ Fresh.pending = 0
  BY GpuAssumption DEF Fresh, FreshState, Gpus, States
<1>2. NothingBegun(Fresh) = Fresh
  BY <1>1, StartPrimIs DEF NothingBegun
<1>. QED
  BY <1>1, <1>2

(***************************************************************************)
(* The steps, with the ten cached registers and the raw commands as one    *)
(* case each.                                                              *)
(***************************************************************************)
LEMMA Steps ==
  ASSUME Next
  PROVE  \/ \E r \in Regs, v \in Values : SetReg(r, v) \/ RawDl(r, v)
         \/ \E v \in Values : SetFont(v)
         \/ \E m \in Matrices : BitmapTransform(m) \/ Transform(m)
         \/ BitmapTransformIdentity \/ SetMatrix \/ LoadIdentity
         \/ SaveContext \/ RestoreContext
         \/ \E p \in Prims : Begin(p)
         \/ End \/ Vertex \/ Widget
         \/ \E c \in Colours : FgColor(c) \/ BgColor(c)
         \/ ColdStart \/ DlStart \/ Swap \/ Fault \/ ResetCoprocessor
<1>1. \A r, v : SetReg(r, v) => r \in Regs
  BY DEF SetReg
<1>2. ASSUME NEW v \in Values,
             \/ ColorRgb(v) \/ ColorA(v) \/ BitmapHandle(v) \/ Cell(v)
             \/ PointSize(v) \/ LineWidth(v) \/ ScissorXY(v) \/ ScissorSize(v)
             \/ VertexFormat(v) \/ PaletteSource(v)
      PROVE  \E r \in Regs : SetReg(r, v)
  BY <1>1, <1>2 DEF ColorRgb, ColorA, BitmapHandle, Cell, PointSize, LineWidth,
                    ScissorXY, ScissorSize, VertexFormat, PaletteSource
<1>. QED
  BY <1>2 DEF Next

(***************************************************************************)
(* Types.                                                                  *)
(***************************************************************************)
LEMMA IndexInRange ==
  ASSUME TypeOK
  PROVE  /\ NextState \in 0 .. StackSize - 1
         /\ PrevState \in 0 .. StackSize - 1
         /\ DlState \in CacheStates
         /\ Depth \in Nat
BY CoDlAssumption DEF TypeOK, NextState, PrevState, DlState, Depth

LEMMA SendTyped ==
  ASSUME TypeOK, NEW g \in Gpus, Send(g) \/ SendNothing
  PROVE  gpu' \in Gpus /\ co' \in CoStates /\ faulted' \in BOOLEAN
BY DEF TypeOK, Send, SendNothing, chip

LEMMA AskTyped ==
  ASSUME TypeOK, NEW g \in Gpus, Ask(g)
  PROVE  asked' \in [gpu : Gpus, co : CoStates]
BY DEF TypeOK, Ask

LEMMA TellTyped ==
  ASSUME TypeOK, NEW c \in CoStates, NEW d \in CoStates,
         Tell(c) \/ SendNothing, AskCo(d)
  PROVE  /\ gpu' \in Gpus /\ co' \in CoStates /\ faulted' \in BOOLEAN
         /\ asked' \in [gpu : Gpus, co : CoStates]
BY DEF TypeOK, Tell, AskCo, SendNothing, chip

LEMMA CacheTyped ==
  ASSUME TypeOK
  PROVE  /\ \A r \in Regs, v \in Values :
              CacheReg(r, v) => dlState' \in [0 .. StackSize - 1 -> CacheStates]
         /\ \A b \in BOOLEAN :
              TransformFlag(b) => dlState' \in [0 .. StackSize - 1 -> CacheStates]
         /\ Saved \in [0 .. StackSize - 1 -> CacheStates]
<1>0. /\ dlState \in [0 .. StackSize - 1 -> CacheStates]
      /\ dlStateIndex \in 0 .. StackSize - 1
      /\ NextState \in 0 .. StackSize - 1
      /\ DlState \in CacheStates
  BY IndexInRange DEF TypeOK
<1>1. ASSUME NEW r \in Regs, NEW v \in Values, CacheReg(r, v)
      PROVE  dlState' \in [0 .. StackSize - 1 -> CacheStates]
  <2>1. [DlState EXCEPT !.reg[r] = v] \in CacheStates
    BY <1>0 DEF CacheStates, CacheRegs
  <2>2. dlState' = [dlState EXCEPT ![dlStateIndex] = [DlState EXCEPT !.reg[r] = v]]
    BY <1>1 DEF CacheReg, DlState
  <2>. QED
    BY <1>0, <2>1, <2>2
<1>2. ASSUME NEW b \in BOOLEAN, TransformFlag(b)
      PROVE  dlState' \in [0 .. StackSize - 1 -> CacheStates]
  <2>1. [DlState EXCEPT !.transform = b] \in CacheStates
    BY <1>0 DEF CacheStates
  <2>2. dlState' = [dlState EXCEPT ![dlStateIndex] = [DlState EXCEPT !.transform = b]]
    BY <1>2 DEF TransformFlag, DlState
  <2>. QED
    BY <1>0, <2>1, <2>2
<1>3. Saved \in [0 .. StackSize - 1 -> CacheStates]
  BY <1>0 DEF Saved
<1>. QED
  BY <1>1, <1>2, <1>3

LEMMA TypedInit == Init => TypeOK
<1> SUFFICES ASSUME Init PROVE TypeOK
  OBVIOUS
<1>1. dlState \in [0 .. StackSize - 1 -> CacheStates]
  BY CoDlAssumption DEF Init, CacheStates, CacheRegs
<1>2. dlStateIndex \in 0 .. StackSize - 1
  BY CoDlAssumption DEF Init
<1>3. coState \in [fg : Colours, bg : Colours, transform : BOOLEAN]
  BY CoAssumption DEF Init, NoColours
<1>4. raw \in Seq(SUBSET Regs)
  BY DEF Init
<1>. QED
  BY <1>1, <1>2, <1>3, <1>4, FreshIs, ColdTyped DEF Init, TypeOK

LEMMA TypedStep == TypeOK /\ [Next]_vars => TypeOK'
<1> SUFFICES ASSUME TypeOK, [Next]_vars PROVE TypeOK'
  OBVIOUS
<1>0. /\ gpu \in Gpus /\ asked.gpu \in Gpus
      /\ co \in CoStates /\ asked.co \in CoStates
      /\ raw \in Seq(SUBSET Regs)
  BY DEF TypeOK
<1>1. ASSUME NEW r \in Regs, NEW v \in Values, SetReg(r, v)
      PROVE  TypeOK'
  BY <1>0, <1>1, PutRegIs, SendTyped, AskTyped, CacheTyped DEF SetReg, TypeOK, app
<1>2. ASSUME NEW r \in Regs, NEW v \in Values, RawDl(r, v)
      PROVE  TypeOK'
  <2>1. raw' \in Seq(SUBSET Regs)
    BY <1>0, <1>2 DEF RawDl, Depth
  <2>. QED
    BY <1>0, <1>2, <2>1, PutRegIs, SendTyped, AskTyped DEF RawDl, TypeOK, cache
<1>3. ASSUME NEW v \in Values, SetFont(v)
      PROVE  TypeOK'
  BY <1>0, <1>3, PutRegIs, SendTyped, AskTyped, CacheTyped DEF SetFont, TypeOK, app
<1>4. ASSUME NEW m \in Matrices, BitmapTransform(m)
      PROVE  TypeOK'
  BY <1>0, <1>4, PutMatrixIs, SendTyped, AskTyped, CacheTyped
     DEF BitmapTransform, TypeOK, app
<1>5. CASE BitmapTransformIdentity
  <2>1. Identity \in Matrices
    BY GpuAssumption
  <2>2. asked' \in [gpu : Gpus, co : CoStates]
    BY <1>0, <1>5, <2>1, PutMatrixIs, AskTyped DEF BitmapTransformIdentity
  <2>3. gpu' \in Gpus /\ co' \in CoStates /\ faulted' \in BOOLEAN
    BY <1>0, <1>5, <2>1, PutMatrixIs, SendTyped DEF BitmapTransformIdentity
  <2>4. dlState' \in [0 .. StackSize - 1 -> CacheStates]
    BY <1>5, CacheTyped DEF BitmapTransformIdentity, TypeOK
  <2>. QED
    BY <1>5, <2>2, <2>3, <2>4 DEF BitmapTransformIdentity, TypeOK, app
<1>6. CASE SetMatrix
  <2>1. /\ co.matrix \in Matrices /\ asked.co.matrix \in Matrices
        /\ coState.transform \in BOOLEAN
    BY DEF TypeOK, CoStates
  <2>. QED
    BY <1>0, <1>6, <2>1, PutMatrixIs, SendTyped, AskTyped, CacheTyped
       DEF SetMatrix, TypeOK, app
<1>7. CASE SaveContext
  <2>1. raw' \in Seq(SUBSET Regs)
    <3>1. (IF Depth > 0 THEN raw[Depth] ELSE {}) \in SUBSET Regs
      BY <1>0 DEF Depth
    <3>. QED
      BY <1>0, <1>7, <3>1, AppendProperties DEF SaveContext
  <2>. QED
    BY <1>0, <1>7, <2>1, PushIs, SendTyped, AskTyped, CacheTyped, IndexInRange
       DEF SaveContext, TypeOK
<1>8. CASE RestoreContext
  <2>1. raw' \in Seq(SUBSET Regs)
    BY <1>0, <1>8 DEF RestoreContext, Depth
  <2>. QED
    BY <1>0, <1>8, <2>1, PopIs, SendTyped, AskTyped, IndexInRange
       DEF RestoreContext, TypeOK
<1>9. ASSUME NEW p \in Prims, Begin(p)
      PROVE  TypeOK'
  BY <1>0, <1>9, StartPrimIs, SendTyped, AskTyped DEF Begin, TypeOK
<1>10. CASE End
  BY <1>0, <1>10, StartPrimIs, AskTyped DEF End, TypeOK, cache, chip
<1>11. CASE Vertex
  BY <1>0, <1>11, PutVertexIs, SendTyped, AskTyped DEF Vertex, TypeOK, cache, app
<1>12. CASE Widget
  BY <1>0, <1>12, StartPrimIs, SendTyped, AskTyped DEF Widget, AfterWidget, TypeOK
<1>13. ASSUME NEW c \in Colours, FgColor(c)
       PROVE  TypeOK'
  <2>1. [co EXCEPT !.fg = c] \in CoStates /\ [asked.co EXCEPT !.fg = c] \in CoStates
    BY <1>0 DEF CoStates
  <2>. QED
    BY <1>13, <2>1, TellTyped DEF FgColor, TypeOK, app
<1>14. ASSUME NEW c \in Colours, BgColor(c)
       PROVE  TypeOK'
  <2>1. [co EXCEPT !.bg = c] \in CoStates /\ [asked.co EXCEPT !.bg = c] \in CoStates
    BY <1>0 DEF CoStates
  <2>. QED
    BY <1>14, <2>1, TellTyped DEF BgColor, TypeOK, app
<1>15. CASE LoadIdentity
  <2>1. /\ [co EXCEPT !.matrix = Identity] \in CoStates
        /\ [asked.co EXCEPT !.matrix = Identity] \in CoStates
    BY <1>0, GpuAssumption DEF CoStates
  <2>. QED
    BY <1>15, <2>1, TellTyped DEF LoadIdentity, TypeOK, app
<1>16. ASSUME NEW m \in Matrices, Transform(m)
       PROVE  TypeOK'
  <2>1. /\ [co EXCEPT !.matrix = m] \in CoStates
        /\ [asked.co EXCEPT !.matrix = m] \in CoStates
    BY <1>0 DEF CoStates
  <2>. QED
    BY <1>16, <2>1, TellTyped DEF Transform, TypeOK, app
<1>17. NoColours \in [fg : Colours, bg : Colours, transform : BOOLEAN]
  BY CoAssumption DEF NoColours
<1>18. CASE ColdStart
  BY <1>17, <1>18, ColdTyped, TellTyped DEF ColdStart, ResetCoState, TypeOK, app
<1>19. CASE DlStart
  <2>1. ResetState \in CacheStates
    BY GpuAssumption DEF ResetState, CacheStates, CacheRegs
  <2>2. dlState' \in [0 .. StackSize - 1 -> CacheStates] /\ 0 \in 0 .. StackSize - 1
    BY <1>19, <2>1, CoDlAssumption DEF DlStart, ResetDlState, TypeOK
  <2>3. /\ dlStateIndex' = 0 /\ dlPrimitive' = NoPrim /\ gpu' = Fresh
        /\ raw' = <<>> /\ started' = TRUE /\ begun' = FALSE
        /\ UNCHANGED <<co, faulted, coState, uses>>
    BY <1>19 DEF DlStart, ResetDlState
  <2>4. asked' \in [gpu : Gpus, co : CoStates]
    BY <1>19, FreshIs DEF DlStart, TypeOK
  <2>5. <<>> \in Seq(SUBSET Regs) /\ Fresh \in Gpus
    BY FreshIs
  <2>. QED
    BY <2>2, <2>3, <2>4, <2>5 DEF TypeOK
<1>20. CASE Swap
  BY <1>20, FreshIs DEF Swap, TypeOK, cache
<1>21. CASE Fault
  BY <1>21, FreshIs, ColdTyped DEF Fault, TypeOK, cache, app
<1>22. CASE ResetCoprocessor
  BY <1>17, <1>22 DEF ResetCoprocessor, ResetCoState, TypeOK
<1>23. CASE UNCHANGED vars
  BY <1>23 DEF vars, cache, chip, app, TypeOK
<1>. QED
  BY <1>1, <1>2, <1>3, <1>4, <1>5, <1>6, <1>7, <1>8, <1>9, <1>10, <1>11, <1>12,
     <1>13, <1>14, <1>15, <1>16, <1>18, <1>19, <1>20, <1>21, <1>22, <1>23, Steps

(***************************************************************************)
(* TypeOK is an invariant, whatever the sizes of the two stacks: the cache *)
(* holds register values or the invalid handle, and DlStateIndex stays     *)
(* within the cache also when contexts are nested too deep.                *)
(***************************************************************************)
THEOREM TypeCorrect == Spec => []TypeOK
BY TypedInit, TypedStep, PTL DEF Spec

(***************************************************************************)
(* The primitive and the coprocessor.  To be inductive, PrimitiveIsRight   *)
(* and CoStateIsRight need to know that the host starts over with a fresh  *)
(* engine, and DrawsAsAsked also which primitives join vertices.           *)
(***************************************************************************)
EngineShape ==
  /\ gpu.pending # 0 => gpu.prim \in Pairs \cup Strips
  /\ ~Open => gpu = Fresh
  /\ faulted => co = Cold

Basic == TypeOK /\ EngineShape /\ PrimitiveIsRight /\ CoStateIsRight

\* A step that concerns neither the primitive nor the coprocessor.
StateStep ==
  /\ UNCHANGED <<dlPrimitive, coState, co, faulted, started, begun>>
  /\ gpu'.prim = gpu.prim /\ gpu'.pending = gpu.pending
  /\ ~Open => gpu' = gpu

\* A step that concerns the coprocessor only.
CoStep == UNCHANGED <<dlState, dlStateIndex, dlPrimitive, gpu, faulted, app>>

LEMMA StateSteps ==
  ASSUME TypeOK,
         \/ \E r \in Regs, v \in Values : SetReg(r, v) \/ RawDl(r, v)
         \/ \E v \in Values : SetFont(v)
         \/ \E m \in Matrices : BitmapTransform(m)
         \/ BitmapTransformIdentity \/ SetMatrix \/ SaveContext \/ RestoreContext
  PROVE  StateStep
<1>0. gpu \in Gpus /\ co.matrix \in Matrices /\ Identity \in Matrices
  BY GpuAssumption DEF TypeOK, CoStates
<1>1. ASSUME NEW r \in Regs, NEW v \in Values, SetReg(r, v)
      PROVE  StateStep
  <2>1. /\ UNCHANGED <<dlPrimitive, coState, co, faulted, started, begun>>
        /\ gpu' = gpu \/ (Open /\ gpu' = PutReg(gpu, r, v))
    BY <1>1 DEF SetReg, Send, SendNothing, chip, app
  <2>2. PutReg(gpu, r, v).prim = gpu.prim /\ PutReg(gpu, r, v).pending = gpu.pending
    BY <1>0, PutRegIs
  <2>. QED
    BY <2>1, <2>2 DEF StateStep
<1>2. ASSUME NEW r \in Regs, NEW v \in Values, RawDl(r, v)
      PROVE  StateStep
  BY <1>0, <1>2, PutRegIs DEF RawDl, Send, StateStep, cache
<1>3. ASSUME NEW v \in Values, SetFont(v)
      PROVE  StateStep
  BY <1>0, <1>3, PutRegIs DEF SetFont, Send, StateStep, app
<1>4. ASSUME NEW m \in Matrices, BitmapTransform(m)
      PROVE  StateStep
  BY <1>0, <1>4, PutMatrixIs DEF BitmapTransform, Send, StateStep, app
<1>5. CASE BitmapTransformIdentity
  <2>1. /\ UNCHANGED <<dlPrimitive, coState, co, faulted, started, begun>>
        /\ gpu' = gpu \/ (Open /\ gpu' = PutMatrix(gpu, Identity))
    BY <1>5 DEF BitmapTransformIdentity, Send, SendNothing, chip, app
  <2>2. /\ PutMatrix(gpu, Identity).prim = gpu.prim
        /\ PutMatrix(gpu, Identity).pending = gpu.pending
    BY <1>0, PutMatrixIs
  <2>. QED
    BY <2>1, <2>2 DEF StateStep
<1>6. CASE SetMatrix
  BY <1>0, <1>6, PutMatrixIs DEF SetMatrix, Send, SendNothing, StateStep, chip, app
<1>7. CASE SaveContext
  BY <1>0, <1>7, PushIs DEF SaveContext, Send, StateStep
<1>8. CASE RestoreContext
  BY <1>0, <1>8, PopIs DEF RestoreContext, Send, StateStep
<1>. QED
  BY <1>1, <1>2, <1>3, <1>4, <1>5, <1>6, <1>7, <1>8

LEMMA CoSteps ==
  ASSUME CoStateIsRight, EngineShape, TypeOK,
         \/ LoadIdentity \/ ColdStart
         \/ \E m \in Matrices : Transform(m)
         \/ \E c \in Colours : FgColor(c) \/ BgColor(c)
  PROVE  CoStep /\ CoStateIsRight' /\ (faulted => co' = co)
<1>0. co \in CoStates /\ coState \in [fg : Colours, bg : Colours, transform : BOOLEAN]
  BY DEF TypeOK
<1>1. CASE LoadIdentity
  BY <1>0, <1>1 DEF LoadIdentity, Tell, CoStep, CoStateIsRight, CoStates
<1>2. ASSUME NEW m \in Matrices, Transform(m)
      PROVE  CoStep /\ CoStateIsRight' /\ (faulted => co' = co)
  BY <1>0, <1>2 DEF Transform, Tell, CoStep, CoStateIsRight, CoStates
<1>3. ASSUME NEW c \in Colours, FgColor(c)
      PROVE  CoStep /\ CoStateIsRight' /\ (faulted => co' = co)
  BY <1>0, <1>3 DEF FgColor, Tell, SendNothing, chip, CoStep, CoStateIsRight, CoStates
<1>4. ASSUME NEW c \in Colours, BgColor(c)
      PROVE  CoStep /\ CoStateIsRight' /\ (faulted => co' = co)
  BY <1>0, <1>4 DEF BgColor, Tell, SendNothing, chip, CoStep, CoStateIsRight, CoStates
<1>5. CASE ColdStart
  BY <1>0, <1>5 DEF ColdStart, Tell, CoStep, CoStateIsRight, CoStates,
                    ResetCoState, NoColours, Cold
<1>. QED
  BY <1>1, <1>2, <1>3, <1>4, <1>5

LEMMA BasicInit == Init => Basic
BY TypedInit, FreshIs DEF Init, Basic, EngineShape, PrimitiveIsRight, CoStateIsRight,
                          Open, NoColours, Cold

LEMMA BasicStep == Basic /\ [Next]_vars => Basic'
<1> SUFFICES ASSUME Basic, [Next]_vars PROVE EngineShape' /\ PrimitiveIsRight' /\ CoStateIsRight'
  BY TypedStep DEF Basic
<1>0. TypeOK /\ gpu \in Gpus
  BY DEF Basic, TypeOK
<1> USE DEF Basic
<1>1. CASE StateStep
  BY <1>1 DEF StateStep, EngineShape, PrimitiveIsRight, CoStateIsRight, Open
<1>2. CASE CoStep /\ CoStateIsRight' /\ (faulted => co' = co)
  BY <1>2 DEF CoStep, app, EngineShape, PrimitiveIsRight, Open
<1>3. ASSUME NEW p \in Prims, Begin(p)
      PROVE  EngineShape' /\ PrimitiveIsRight' /\ CoStateIsRight'
  <2>1. UNCHANGED <<coState, co, faulted, started>>
    BY <1>3 DEF Begin, Send, SendNothing, chip
  <2>2. CoStateIsRight' /\ (faulted' => co' = Cold)
    BY <2>1 DEF CoStateIsRight, EngineShape
  <2>3. CASE Open
    BY <1>0, <1>3, <2>1, <2>2, <2>3, StartPrimIs
       DEF Begin, Send, SendNothing, chip, EngineShape, PrimitiveIsRight, Open
  <2>4. CASE ~Open
    BY <1>3, <2>1, <2>2, <2>4
       DEF Begin, Send, SendNothing, chip, EngineShape, PrimitiveIsRight, Open
  <2>. QED
    BY <2>3, <2>4
<1>4. CASE End
  BY <1>4 DEF End, cache, chip, EngineShape, PrimitiveIsRight, CoStateIsRight, Open
<1>5. CASE Vertex
  BY <1>0, <1>5, PutVertexIs
     DEF Vertex, Send, cache, app, EngineShape, PrimitiveIsRight, CoStateIsRight, Open
<1>6. CASE Widget
  BY <1>0, <1>6, StartPrimIs
     DEF Widget, AfterWidget, Send, EngineShape, PrimitiveIsRight, CoStateIsRight, Open
<1>7. CASE DlStart
  BY <1>7, FreshIs
     DEF DlStart, ResetDlState, EngineShape, PrimitiveIsRight, CoStateIsRight, Open
<1>8. CASE Swap
  BY <1>8, FreshIs
     DEF Swap, cache, EngineShape, PrimitiveIsRight, CoStateIsRight, Open
<1>9. CASE Fault
  BY <1>9, FreshIs
     DEF Fault, cache, app, EngineShape, PrimitiveIsRight, CoStateIsRight, Open
<1>10. CASE ResetCoprocessor
  BY <1>10 DEF ResetCoprocessor, ResetCoState, NoColours, Cold, EngineShape,
               PrimitiveIsRight, CoStateIsRight, Open
<1>11. CASE UNCHANGED vars
  BY <1>11 DEF vars, cache, chip, app, EngineShape, PrimitiveIsRight, CoStateIsRight, Open
<1>. QED
  BY <1>0, <1>1, <1>2, <1>3, <1>4, <1>5, <1>6, <1>7, <1>8, <1>9, <1>10, <1>11,
     Steps, StateSteps, CoSteps

LEMMA SpecBasic == Spec => []Basic
BY BasicInit, BasicStep, PTL DEF Spec

(***************************************************************************)
(* The cached primitive is right, for any sets of primitives: although END *)
(* is never sent, no widget and no lost command leaves the host believing  *)
(* in a primitive that is not in force.                                    *)
(***************************************************************************)
THEOREM PrimitiveRight == Spec => []PrimitiveIsRight
<1>1. Basic => PrimitiveIsRight
  BY DEF Basic
<1>. QED
  BY <1>1, SpecBasic, PTL

(***************************************************************************)
(* The cached colours and matrix flag are right about a coprocessor that   *)
(* works, through faults, resets and cold starts.                          *)
(***************************************************************************)
THEOREM CoStateRight == Spec => []CoStateIsRight
<1>1. Basic => CoStateIsRight
  BY DEF Basic
<1>. QED
  BY <1>1, SpecBasic, PTL

(***************************************************************************)
(* The context stack.  Nested no deeper than both stacks hold, the index   *)
(* never wraps and the engine forgets nothing.                             *)
(***************************************************************************)
NestingFits == MaxDepth < StackSize /\ MaxDepth <= HwDepth

Nested == Depth <= MaxDepth

LEMMA NestedStep ==
  ASSUME TypeOK, Nested, [Next]_vars
  PROVE  Nested'
<1>0. raw \in Seq(SUBSET Regs) /\ Depth \in Nat /\ MaxDepth \in Nat
  BY CoDlAssumption DEF TypeOK, Depth
<1>1. CASE UNCHANGED raw
  BY <1>1 DEF Nested, Depth
<1>2. ASSUME NEW r \in Regs, NEW v \in Values, RawDl(r, v)
      PROVE  Nested'
  BY <1>0, <1>2 DEF RawDl, Nested, Depth
<1>3. CASE SaveContext
  <2>1. Len(raw') = Len(raw) + 1
    BY <1>0, <1>3 DEF SaveContext
  <2>. QED
    BY <1>0, <1>3, <2>1 DEF SaveContext, Nested, Depth
<1>4. CASE RestoreContext
  <2>1. Depth > 0 /\ raw' = SubSeq(raw, 1, Depth - 1)
    BY <1>4 DEF RestoreContext
  <2>2. \A i \in 1 .. Depth - 1 : raw[i] \in SUBSET Regs
    BY <1>0 DEF Depth
  <2>3. Len(SubSeq(raw, 1, Depth - 1)) = IF 1 <= Depth - 1 THEN (Depth - 1) - 1 + 1 ELSE 0
    BY <1>0, <2>2, SubSeqProperties
  <2>4. Len(raw') = Depth - 1
    BY <1>0, <2>1, <2>3
  <2>. QED
    BY <1>0, <2>4 DEF Nested, Depth
<1>5. CASE DlStart
  BY <1>0, <1>5 DEF DlStart, Nested, Depth
<1>6. ASSUME NEW r \in Regs, NEW v \in Values, SetReg(r, v)
      PROVE  UNCHANGED raw
  BY <1>6 DEF SetReg, app
<1>7. ASSUME NEW m \in Matrices, BitmapTransform(m) \/ Transform(m)
      PROVE  UNCHANGED raw
  BY <1>7 DEF BitmapTransform, Transform, app
<1>8. ASSUME NEW v \in Values, SetFont(v)
      PROVE  UNCHANGED raw
  BY <1>8 DEF SetFont, app
<1>9. ASSUME NEW p \in Prims, Begin(p)
      PROVE  UNCHANGED raw
  BY <1>9 DEF Begin
<1>10. ASSUME NEW c \in Colours, FgColor(c) \/ BgColor(c)
       PROVE  UNCHANGED raw
  BY <1>10 DEF FgColor, BgColor, app
<1>11. CASE \/ BitmapTransformIdentity \/ SetMatrix \/ LoadIdentity \/ ColdStart
            \/ End \/ Vertex \/ Widget
            \/ Swap \/ Fault \/ ResetCoprocessor \/ UNCHANGED vars
  <2>1. UNCHANGED raw
    BY <1>11 DEF BitmapTransformIdentity, SetMatrix, LoadIdentity, ColdStart, End,
                 Vertex, Widget, Swap, Fault, ResetCoprocessor, vars, app
  <2>. QED
    BY <1>1, <2>1
<1>. QED
  BY <1>1, <1>2, <1>3, <1>4, <1>5, <1>6, <1>7, <1>8, <1>9, <1>10, <1>11, Steps

LEMMA StackKept ==
  ASSUME StackIsRight, Open' => Open, UNCHANGED <<dlState, dlStateIndex, raw>>,
         gpu'.now = gpu.now, gpu'.saved = gpu.saved
  PROVE  StackIsRight'
BY DEF StackIsRight, Level, Around, Depth

\* Only the current state changes, in the cache as in the engine.
LEMMA NowChanges ==
  ASSUME TypeOK, StackIsRight, Open, Open', UNCHANGED dlStateIndex,
         Len(raw') = Len(raw), gpu'.saved = gpu.saved,
         \A i \in 0 .. Depth - 1 : dlState'[i] = dlState[i] /\ Around(i)' = Around(i),
         RightAbout(dlState'[Depth], gpu'.now, Around(Depth)')
  PROVE  StackIsRight'
<1>1. Depth \in Nat /\ Depth' = Depth
  BY DEF TypeOK, Depth
<1>2. ASSUME NEW i \in 0 .. Depth'
      PROVE  RightAbout(dlState'[i], Level(i)', Around(i)')
  <2>1. CASE i = Depth
    BY <1>1, <2>1 DEF Level
  <2>2. CASE i \in 0 .. Depth - 1
    <3>1. RightAbout(dlState[i], Level(i), Around(i))
      BY <1>1, <2>2 DEF StackIsRight
    <3>2. Level(i)' = Level(i)
      BY <1>1, <2>2 DEF Level
    <3>. QED
      BY <2>2, <3>1, <3>2
  <2>. QED
    BY <1>1, <1>2, <2>1, <2>2
<1>3. Len(gpu'.saved) = Depth' /\ dlStateIndex' = Depth'
  BY <1>1 DEF StackIsRight
<1>. QED
  BY <1>2, <1>3 DEF StackIsRight

\* The level in use is within the cache.
LEMMA DepthInCache ==
  ASSUME NestingFits, TypeOK, Nested, StackIsRight, Open
  PROVE  /\ Depth \in 0 .. StackSize - 1
         /\ dlStateIndex = Depth /\ Len(gpu.saved) = Depth
         /\ DlState = dlState[Depth] /\ DlState \in CacheStates
         /\ RightAbout(DlState, gpu.now, Around(Depth))
<1>1. Depth \in Nat /\ MaxDepth \in Nat /\ StackSize \in Nat
  BY CoDlAssumption DEF TypeOK, Depth
<1>2. Depth \in 0 .. StackSize - 1
  BY <1>1 DEF Nested, NestingFits
<1>3. dlStateIndex = Depth /\ Len(gpu.saved) = Depth
  BY DEF StackIsRight
<1>4. DlState = dlState[Depth] /\ DlState \in CacheStates
  BY <1>3, IndexInRange DEF DlState
<1>5. RightAbout(dlState[Depth], Level(Depth), Around(Depth))
  BY <1>1 DEF StackIsRight
<1>. QED
  BY <1>2, <1>3, <1>4, <1>5 DEF Level

\* What a new cache entry says of a new engine state, register by register.
LEMMA RightAfterPut ==
  ASSUME NEW c \in CacheStates, NEW g \in Gpus, NEW around, RightAbout(c, g.now, around)
  PROVE  /\ \A r \in Regs, v \in Values :
              /\ RightAbout([c EXCEPT !.reg[r] = v], PutReg(g, r, v).now, around)
              /\ RightAbout(c, PutReg(g, r, v).now, around \cup {r})
         /\ \A m \in Matrices, b \in BOOLEAN : (~b => m = Identity) =>
              RightAbout([c EXCEPT !.transform = b], PutMatrix(g, m).now, around)
<1>1. /\ c \in [reg : CacheRegs, transform : BOOLEAN]
      /\ g.now.reg \in [Regs -> Values]
  BY DEF CacheStates, Gpus, States
<1>2. ASSUME NEW r \in Regs, NEW v \in Values
      PROVE  /\ RightAbout([c EXCEPT !.reg[r] = v], PutReg(g, r, v).now, around)
             /\ RightAbout(c, PutReg(g, r, v).now, around \cup {r})
  <2>1. /\ PutReg(g, r, v).now.reg = [g.now.reg EXCEPT ![r] = v]
        /\ PutReg(g, r, v).now.matrix = g.now.matrix
    BY PutRegIs
  <2>2. /\ [c EXCEPT !.reg[r] = v].reg = [c.reg EXCEPT ![r] = v]
        /\ [c EXCEPT !.reg[r] = v].transform = c.transform
        /\ c.reg \in [Regs -> Values \cup {InvalidHandle}]
    BY <1>1 DEF CacheRegs
  <2>. QED
    BY <1>1, <2>1, <2>2 DEF RightAbout
<1>3. ASSUME NEW m \in Matrices, NEW b \in BOOLEAN, ~b => m = Identity
      PROVE  RightAbout([c EXCEPT !.transform = b], PutMatrix(g, m).now, around)
  <2>1. PutMatrix(g, m).now.reg = g.now.reg /\ PutMatrix(g, m).now.matrix = m
    BY PutMatrixIs
  <2>2. /\ [c EXCEPT !.transform = b].reg = c.reg
        /\ [c EXCEPT !.transform = b].transform = b
    BY <1>1
  <2>. QED
    BY <1>3, <2>1, <2>2 DEF RightAbout
<1>. QED
  BY <1>2, <1>3

\* The cache after a call that sent a register or a matrix.
LEMMA StackAfterPut ==
  ASSUME NestingFits, TypeOK, Nested, StackIsRight, Open, Open',
         UNCHANGED <<dlStateIndex, raw>>,
         \/ \E r \in Regs, v \in Values : CacheReg(r, v) /\ gpu' = PutReg(gpu, r, v)
         \/ \E m \in Matrices, b \in BOOLEAN :
              (~b => m = Identity) /\ TransformFlag(b) /\ gpu' = PutMatrix(gpu, m)
  PROVE  StackIsRight'
<1>0. /\ gpu \in Gpus /\ dlState \in [0 .. StackSize - 1 -> CacheStates]
      /\ Depth \in 0 .. StackSize - 1 /\ dlStateIndex = Depth
      /\ DlState = dlState[Depth] /\ DlState \in CacheStates
      /\ RightAbout(DlState, gpu.now, Around(Depth))
  BY DepthInCache DEF TypeOK
<1>1. /\ gpu'.saved = gpu.saved
      /\ RightAbout(dlState'[Depth], gpu'.now, Around(Depth))
      /\ \A i \in 0 .. Depth - 1 : dlState'[i] = dlState[i]
  <2>1. ASSUME NEW r \in Regs, NEW v \in Values, CacheReg(r, v), gpu' = PutReg(gpu, r, v)
        PROVE  <1>1
    <3>1. dlState' = [dlState EXCEPT ![Depth] = [DlState EXCEPT !.reg[r] = v]]
      BY <1>0, <2>1 DEF CacheReg
    <3>2. RightAbout([DlState EXCEPT !.reg[r] = v], PutReg(gpu, r, v).now, Around(Depth))
      BY <1>0, RightAfterPut
    <3>3. PutReg(gpu, r, v).saved = gpu.saved
      BY <1>0, PutRegIs
    <3>4. /\ dlState'[Depth] = [DlState EXCEPT !.reg[r] = v]
          /\ \A i \in 0 .. Depth - 1 : dlState'[i] = dlState[i]
      BY <1>0, <3>1
    <3>. QED
      BY <2>1, <3>2, <3>3, <3>4
  <2>2. ASSUME NEW m \in Matrices, NEW b \in BOOLEAN, ~b => m = Identity,
               TransformFlag(b), gpu' = PutMatrix(gpu, m)
        PROVE  <1>1
    <3>1. dlState' = [dlState EXCEPT ![Depth] = [DlState EXCEPT !.transform = b]]
      BY <1>0, <2>2 DEF TransformFlag
    <3>. QED
      BY <1>0, <2>2, <3>1, PutMatrixIs, RightAfterPut
  <2>. QED
    BY <2>1, <2>2
<1>2. /\ \A i \in 0 .. Depth - 1 : Around(i)' = Around(i)
      /\ Around(Depth)' = Around(Depth) /\ Len(raw') = Len(raw)
  BY DEF Around, Depth
<1>. QED
  BY <1>1, <1>2, NowChanges

LEMMA RawStack ==
  ASSUME NestingFits, TypeOK, Nested, StackIsRight, Open, Open',
         NEW r \in Regs, NEW v \in Values, RawDl(r, v)
  PROVE  StackIsRight'
<1>0. /\ gpu \in Gpus /\ raw \in Seq(SUBSET Regs)
      /\ Depth = Len(raw) /\ Depth \in Nat /\ Depth > 0
      /\ DlState = dlState[Depth] /\ DlState \in CacheStates
      /\ RightAbout(DlState, gpu.now, Around(Depth))
  BY DepthInCache DEF TypeOK, RawDl, Depth
<1>1. /\ raw' = [raw EXCEPT ![Depth] = @ \cup {r}] /\ gpu' = PutReg(gpu, r, v)
      /\ UNCHANGED <<dlState, dlStateIndex>>
  BY DEF RawDl, Send, cache
<1>2. Len(raw') = Len(raw) /\ Depth' = Depth
  BY <1>0, <1>1 DEF Depth
<1>3. /\ \A i \in 0 .. Depth - 1 : Around(i)' = Around(i)
      /\ Around(Depth)' = Around(Depth) \cup {r}
  BY <1>0, <1>1, <1>2 DEF Around
<1>4. RightAbout(DlState, PutReg(gpu, r, v).now, Around(Depth) \cup {r})
  BY <1>0, RightAfterPut
<1>5. gpu'.saved = gpu.saved
  BY <1>0, <1>1, PutRegIs
<1>. QED
  BY <1>0, <1>1, <1>2, <1>3, <1>4, <1>5, NowChanges

LEMMA SavedStack ==
  ASSUME NestingFits, TypeOK, Nested, StackIsRight, Open, Open', SaveContext
  PROVE  StackIsRight'
<1>0. /\ gpu \in Gpus /\ gpu.saved \in Seq(States) /\ gpu.now \in States
      /\ raw \in Seq(SUBSET Regs) /\ Len(raw) = Depth
      /\ dlState \in [0 .. StackSize - 1 -> CacheStates]
      /\ Depth \in Nat /\ dlStateIndex = Depth /\ Len(gpu.saved) = Depth
      /\ DlState = dlState[Depth]
      /\ StackSize \in Nat /\ HwDepth \in Nat /\ MaxDepth \in Nat
  BY DepthInCache, CoDlAssumption, GpuAssumption DEF TypeOK, Gpus, Depth
<1>1. Depth + 1 \in 0 .. StackSize - 1 /\ Depth < HwDepth
  BY <1>0 DEF SaveContext, NestingFits
<1>2. NextState = Depth + 1
  BY <1>0, <1>1 DEF NextState
<1>3. Around(Depth) = (IF Depth > 0 THEN raw[Depth] ELSE {}) /\ Around(Depth) \in SUBSET Regs
  BY <1>0 DEF Around
<1>4. /\ raw' = Append(raw, Around(Depth))
      /\ gpu'.now = gpu.now /\ gpu'.saved = Append(gpu.saved, gpu.now)
      /\ dlState' = [dlState EXCEPT ![Depth + 1] = dlState[Depth]]
      /\ dlStateIndex' = Depth + 1
  BY <1>0, <1>1, <1>2, <1>3, PushIs DEF SaveContext, Send, Saved
<1>5. /\ Len(raw') = Depth + 1 /\ Depth' = Depth + 1
      /\ \A i \in 1 .. Depth : raw'[i] = raw[i]
      /\ raw'[Depth + 1] = Around(Depth)
  BY <1>0, <1>3, <1>4, AppendProperties DEF Depth
<1>6. /\ Len(gpu'.saved) = Depth + 1
      /\ \A i \in 1 .. Depth : gpu'.saved[i] = gpu.saved[i]
      /\ gpu'.saved[Depth + 1] = gpu.now
  <2> DEFINE longer == Append(gpu.saved, gpu.now)
  <2>1. /\ Len(longer) = Len(gpu.saved) + 1
        /\ \A i \in 1 .. Len(gpu.saved) : longer[i] = gpu.saved[i]
        /\ longer[Len(gpu.saved) + 1] = gpu.now
    BY <1>0, AppendProperties
  <2> HIDE DEF longer
  <2>. QED
    BY <1>0, <1>4, <2>1 DEF longer
<1>7. ASSUME NEW i \in 0 .. Depth'
      PROVE  RightAbout(dlState'[i], Level(i)', Around(i)')
  <2>1. CASE i \in 0 .. Depth
    <3>1. RightAbout(dlState[i], Level(i), Around(i))
      BY <2>1 DEF StackIsRight
    <3>2. dlState'[i] = dlState[i]
      BY <1>0, <1>1, <1>4, <2>1
    <3>3. Around(i)' = Around(i)
      BY <1>0, <1>5, <2>1 DEF Around
    <3>4. Level(i)' = Level(i)
      BY <1>0, <1>5, <1>6, <2>1 DEF Level
    <3>. QED
      BY <3>1, <3>2, <3>3, <3>4
  <2>2. CASE i = Depth + 1
    <3>1. RightAbout(dlState[Depth], gpu.now, Around(Depth))
      BY <1>0, DepthInCache
    <3>2. dlState'[i] = dlState[Depth]
      BY <1>0, <1>1, <1>4, <2>2
    <3>3. Around(i)' = Around(Depth)
      BY <1>0, <1>5, <2>2 DEF Around
    <3>4. Level(i)' = gpu.now
      BY <1>4, <1>5, <2>2 DEF Level
    <3>. QED
      BY <3>1, <3>2, <3>3, <3>4
  <2>. QED
    BY <1>0, <1>5, <1>7, <2>1, <2>2
<1>. QED
  BY <1>4, <1>5, <1>6, <1>7 DEF StackIsRight

LEMMA RestoredStack ==
  ASSUME NestingFits, TypeOK, Nested, StackIsRight, Open, Open', RestoreContext
  PROVE  StackIsRight'
<1>0. /\ gpu \in Gpus /\ gpu.saved \in Seq(States)
      /\ raw \in Seq(SUBSET Regs) /\ Len(raw) = Depth
      /\ Depth \in 1 .. StackSize - 1
      /\ dlStateIndex = Depth /\ Len(gpu.saved) = Depth
      /\ StackSize \in Nat
  BY DepthInCache, CoDlAssumption DEF TypeOK, Gpus, Depth, RestoreContext
<1>1. PrevState = Depth - 1
  <2>1. Depth + StackSize - 1 = StackSize + (Depth - 1)
    BY <1>0
  <2>2. (StackSize + (Depth - 1)) % StackSize = Depth - 1
    BY <1>0
  <2>. QED
    BY <1>0, <2>1, <2>2 DEF PrevState
<1>2. /\ raw' = SubSeq(raw, 1, Depth - 1)
      /\ gpu'.now = gpu.saved[Depth] /\ gpu'.saved = SubSeq(gpu.saved, 1, Depth - 1)
      /\ dlState' = dlState /\ dlStateIndex' = Depth - 1
  BY <1>0, <1>1, PopIs DEF RestoreContext, Send
<1>3. /\ Len(raw') = Depth - 1 /\ Depth' = Depth - 1
      /\ \A i \in 1 .. Depth - 1 : raw'[i] = raw[i]
  <2>1. \A i \in 1 .. Depth - 1 : raw[i] \in SUBSET Regs
    BY <1>0
  <2>2. /\ Len(raw') = IF 1 <= Depth - 1 THEN (Depth - 1) - 1 + 1 ELSE 0
        /\ \A i \in 1 .. (Depth - 1) - 1 + 1 : raw'[i] = raw[1 + i - 1]
    BY <1>0, <1>2, <2>1, SubSeqProperties
  <2>. QED
    BY <1>0, <2>2 DEF Depth
<1>4. /\ Len(gpu'.saved) = Depth - 1
      /\ \A i \in 1 .. Depth - 1 : gpu'.saved[i] = gpu.saved[i]
  <2>1. \A i \in 1 .. Depth - 1 : gpu.saved[i] \in States
    BY <1>0
  <2>2. /\ Len(gpu'.saved) = IF 1 <= Depth - 1 THEN (Depth - 1) - 1 + 1 ELSE 0
        /\ \A i \in 1 .. (Depth - 1) - 1 + 1 : gpu'.saved[i] = gpu.saved[1 + i - 1]
    BY <1>0, <1>2, <2>1, SubSeqProperties
  <2>. QED
    BY <1>0, <2>2
<1>5. ASSUME NEW i \in 0 .. Depth'
      PROVE  RightAbout(dlState'[i], Level(i)', Around(i)')
  <2>1. i \in 0 .. Depth - 1
    BY <1>3, <1>5
  <2>2. RightAbout(dlState[i], Level(i), Around(i))
    BY <1>0, <2>1 DEF StackIsRight
  <2>3. Around(i)' = Around(i)
    BY <1>0, <1>3, <2>1 DEF Around
  <2>4. Level(i)' = Level(i)
    BY <1>0, <1>2, <1>3, <1>4, <2>1 DEF Level
  <2>. QED
    BY <1>2, <2>2, <2>3, <2>4
<1>. QED
  BY <1>2, <1>3, <1>4, <1>5 DEF StackIsRight

LEMMA StartedStack ==
  ASSUME TypeOK, DlStart
  PROVE  StackIsRight'
<1>1. /\ raw' = <<>> /\ gpu' = Fresh /\ dlStateIndex' = 0
      /\ dlState' = [dlState EXCEPT ![0] = ResetState]
  BY DEF DlStart, ResetDlState
<1>2. Len(raw') = 0 /\ Depth' = 0 /\ Len(gpu'.saved) = 0 /\ gpu'.now = FreshState
  BY <1>1, FreshIs DEF Depth
<1>3. dlState'[0] = ResetState
  BY <1>1, CoDlAssumption DEF TypeOK
<1>4. RightAbout(ResetState, FreshState, {})
  BY DEF RightAbout, ResetState, FreshState
<1>. QED
  BY <1>1, <1>2, <1>3, <1>4 DEF StackIsRight, Level, Around

(***************************************************************************)
(* A suppressed command would have changed nothing: whether it is sent or  *)
(* not, an open list is left as the command leaves it.                     *)
(***************************************************************************)
CacheRight == NestingFits /\ Basic /\ Nested /\ StackIsRight

LEMMA RegisterSet ==
  ASSUME CacheRight, NEW r \in Regs, NEW v \in Values, SetReg(r, v)
  PROVE  gpu' = IF Open THEN PutReg(gpu, r, v) ELSE gpu
<1>0. gpu \in Gpus /\ TypeOK
  BY DEF CacheRight, Basic, TypeOK
<1>1. CASE DlState.reg[r] # v
  BY <1>1 DEF SetReg, Send
<1>2. CASE DlState.reg[r] = v /\ Open
  <2>1. RightAbout(DlState, gpu.now, Around(Depth)) /\ Depth \in Nat
    BY <1>2, DepthInCache DEF CacheRight, Basic
  <2>2. r \notin Around(Depth)
    BY <2>1 DEF SetReg, IsRaw, Around
  <2>3. v # InvalidHandle
    BY CoDlAssumption
  <2>4. gpu.now.reg[r] = v
    BY <1>2, <2>1, <2>2, <2>3 DEF RightAbout
  <2>5. gpu' = gpu
    BY <1>2 DEF SetReg, SendNothing, chip
  <2>6. PutReg(gpu, r, v) = gpu
    BY <1>0, <2>4, PutRegSame
  <2>. QED
    BY <1>2, <2>5, <2>6
<1>3. CASE DlState.reg[r] = v /\ ~Open
  BY <1>3 DEF SetReg, SendNothing, chip
<1>. QED
  BY <1>1, <1>2, <1>3

LEMMA IdentitySet ==
  ASSUME CacheRight, BitmapTransformIdentity
  PROVE  gpu' = IF Open THEN PutMatrix(gpu, Identity) ELSE gpu
<1>0. gpu \in Gpus /\ Identity \in Matrices
  BY GpuAssumption DEF CacheRight, Basic, TypeOK
<1>1. CASE DlState.transform
  BY <1>1 DEF BitmapTransformIdentity, Send
<1>2. CASE ~DlState.transform
  <2>1. gpu' = gpu
    BY <1>2 DEF BitmapTransformIdentity, SendNothing, chip
  <2>2. Open => gpu.now.matrix = Identity
    BY <1>2, DepthInCache DEF CacheRight, Basic, RightAbout
  <2>. QED
    BY <1>0, <2>1, <2>2, PutMatrixIs
<1>. QED
  BY <1>1, <1>2

LEMMA MatrixSet ==
  ASSUME CacheRight, SetMatrix
  PROVE  gpu' = IF Open THEN PutMatrix(gpu, co.matrix) ELSE gpu
<1>0. gpu \in Gpus /\ co.matrix \in Matrices
  BY DEF CacheRight, Basic, TypeOK, CoStates
<1>1. CASE MatrixMatters
  BY <1>1 DEF SetMatrix, Send
<1>2. CASE ~MatrixMatters
  <2>1. gpu' = gpu
    BY <1>2 DEF SetMatrix, SendNothing, chip
  <2>2. ~coState.transform /\ ~DlState.transform
    BY <1>2 DEF MatrixMatters
  <2>3. ASSUME Open
        PROVE  gpu.now.matrix = Identity /\ co.matrix = Identity
    <3>1. gpu.now.matrix = Identity
      BY <2>2, <2>3, DepthInCache DEF CacheRight, Basic, RightAbout
    <3>2. co.matrix = Identity
      BY <2>2, <2>3 DEF CacheRight, Basic, CoStateIsRight, Open
    <3>. QED
      BY <3>1, <3>2
  <2>. QED
    BY <1>0, <2>1, <2>3, PutMatrixIs
<1>. QED
  BY <1>1, <1>2

LEMMA PrimitiveBegun ==
  ASSUME Basic, NEW p \in Prims, Begin(p)
  PROVE  gpu' = IF Open THEN StartPrim(gpu, p) ELSE gpu
<1>0. gpu \in Gpus /\ gpu.pending \in {0, 1}
  BY DEF Basic, TypeOK, Gpus
<1>1. CASE p # OldPrim
  BY <1>1 DEF Begin, Send
<1>2. CASE p = OldPrim /\ Open
  <2>1. p # NoPrim
    BY GpuAssumption
  <2>2. dlPrimitive = p /\ p \notin Strips
    BY <1>2, <2>1 DEF OldPrim
  <2>3. gpu.prim = p
    BY <1>2, <2>1, <2>2 DEF Basic, PrimitiveIsRight
  <2>4. gpu.pending = 0
    BY <1>0, <2>2, <2>3 DEF Begin, PairDone, Basic, EngineShape
  <2>5. gpu' = gpu
    BY <1>2 DEF Begin, SendNothing, chip
  <2>. QED
    BY <1>0, <1>2, <2>3, <2>4, <2>5, StartPrimIs
<1>3. CASE p = OldPrim /\ ~Open
  BY <1>3 DEF Begin, SendNothing, chip
<1>. QED
  BY <1>1, <1>2, <1>3

LEMMA StackStep ==
  ASSUME CacheRight, [Next]_vars
  PROVE  StackIsRight'
<1>0. NestingFits /\ TypeOK /\ Nested /\ StackIsRight /\ gpu \in Gpus
  BY DEF CacheRight, Basic, TypeOK
<1>1. ASSUME NEW r \in Regs, NEW v \in Values, SetReg(r, v)
      PROVE  StackIsRight'
  <2>1. UNCHANGED <<dlStateIndex, raw, started, faulted>>
    BY <1>1 DEF SetReg, Send, SendNothing, chip, app
  <2>2. CASE DlState.reg[r] = v \/ ~Open
    <3>1. ~Open => StackIsRight'
      BY <2>1 DEF StackIsRight, Open
    <3>2. DlState.reg[r] = v => UNCHANGED <<gpu, dlState>>
      BY <1>1 DEF SetReg, SendNothing, chip
    <3>. QED
      BY <1>0, <2>1, <2>2, <3>1, <3>2, StackKept DEF Open
  <2>3. CASE DlState.reg[r] # v /\ Open
    <3>1. CacheReg(r, v) /\ gpu' = PutReg(gpu, r, v)
      BY <1>1, <2>3 DEF SetReg, Send
    <3>2. Open'
      BY <2>1, <2>3 DEF Open
    <3>. QED
      BY <1>0, <2>1, <2>3, <3>1, <3>2, StackAfterPut
  <2>. QED
    BY <2>2, <2>3
<1>2. ASSUME NEW r \in Regs, NEW v \in Values, RawDl(r, v)
      PROVE  StackIsRight'
  <2>1. Open' = Open
    BY <1>2 DEF RawDl, Send, Open
  <2>. QED
    BY <1>0, <1>2, <2>1, RawStack DEF StackIsRight
<1>3. ASSUME NEW v \in Values, SetFont(v)
      PROVE  StackIsRight'
  <2>1. /\ UNCHANGED <<dlStateIndex, raw>> /\ Open' = Open
        /\ "Handle" \in Regs /\ CacheReg("Handle", v)
        /\ Open => gpu' = PutReg(gpu, "Handle", v)
    BY <1>3 DEF SetFont, Send, app, Open
  <2>. QED
    BY <1>0, <2>1, StackAfterPut DEF StackIsRight
<1>4. ASSUME NEW m \in Matrices, BitmapTransform(m)
      PROVE  StackIsRight'
  <2>1. /\ UNCHANGED <<dlStateIndex, raw>> /\ Open' = Open /\ TransformFlag(TRUE)
        /\ Open => gpu' = PutMatrix(gpu, m)
    BY <1>4 DEF BitmapTransform, Send, app, Open
  <2>. QED
    BY <1>0, <2>1, StackAfterPut DEF StackIsRight
<1>5. CASE BitmapTransformIdentity
  <2>1. UNCHANGED <<dlStateIndex, raw>> /\ Open' = Open /\ Identity \in Matrices
    BY <1>5, GpuAssumption DEF BitmapTransformIdentity, Send, SendNothing, chip, app, Open
  <2>2. CASE DlState.transform
    <3>1. TransformFlag(FALSE) /\ (Open => gpu' = PutMatrix(gpu, Identity))
      BY <1>5, <2>2 DEF BitmapTransformIdentity, Send
    <3>. QED
      BY <1>0, <2>1, <3>1, StackAfterPut DEF StackIsRight
  <2>3. CASE ~DlState.transform
    <3>1. UNCHANGED <<gpu, dlState>>
      BY <1>5, <2>3 DEF BitmapTransformIdentity, SendNothing, chip
    <3>. QED
      BY <1>0, <2>1, <3>1, StackKept
  <2>. QED
    BY <2>2, <2>3
<1>6. CASE SetMatrix
  <2>1. /\ UNCHANGED <<dlStateIndex, raw>> /\ Open' = Open
        /\ co.matrix \in Matrices /\ coState.transform \in BOOLEAN
    BY <1>0, <1>6 DEF SetMatrix, Send, SendNothing, chip, app, Open, TypeOK, CoStates
  <2>2. CASE MatrixMatters
    <3>1. TransformFlag(coState.transform) /\ (Open => gpu' = PutMatrix(gpu, co.matrix))
      BY <1>6, <2>2 DEF SetMatrix, Send
    <3>2. Open /\ ~coState.transform => co.matrix = Identity
      BY DEF CacheRight, Basic, CoStateIsRight, Open
    <3>. QED
      BY <1>0, <2>1, <3>1, <3>2, StackAfterPut DEF StackIsRight
  <2>3. CASE ~MatrixMatters
    <3>1. UNCHANGED <<gpu, dlState>>
      BY <1>6, <2>3 DEF SetMatrix, SendNothing, chip
    <3>. QED
      BY <1>0, <2>1, <3>1, StackKept
  <2>. QED
    BY <2>2, <2>3
<1>7. CASE SaveContext
  <2>1. Open' = Open
    BY <1>7 DEF SaveContext, Send, Open
  <2>. QED
    BY <1>0, <1>7, <2>1, SavedStack DEF StackIsRight
<1>8. CASE RestoreContext
  <2>1. Open' = Open
    BY <1>8 DEF RestoreContext, Send, Open
  <2>. QED
    BY <1>0, <1>8, <2>1, RestoredStack DEF StackIsRight
<1>9. ASSUME NEW p \in Prims, Begin(p)
      PROVE  StackIsRight'
  <2>1. UNCHANGED <<dlState, dlStateIndex, raw>> /\ Open' = Open
    BY <1>9 DEF Begin, Send, SendNothing, chip, Open
  <2>2. gpu' \in {gpu, StartPrim(gpu, p)}
    BY <1>9 DEF Begin, Send, SendNothing, chip
  <2>3. gpu'.now = gpu.now /\ gpu'.saved = gpu.saved
    BY <1>0, <2>2, StartPrimIs
  <2>. QED
    BY <1>0, <2>1, <2>3, StackKept
<1>10. CASE End
  BY <1>0, <1>10, StackKept DEF End, cache, chip, Open
<1>11. CASE Vertex
  <2>1. UNCHANGED <<dlState, dlStateIndex, raw>> /\ Open' = Open
    BY <1>11 DEF Vertex, Send, cache, app, Open
  <2>2. gpu' \in {gpu, PutVertex(gpu)}
    BY <1>11 DEF Vertex, Send
  <2>. QED
    BY <1>0, <2>1, <2>2, PutVertexIs, StackKept
<1>12. CASE Widget
  <2>1. UNCHANGED <<dlState, dlStateIndex, raw>> /\ Open' = Open
    BY <1>12 DEF Widget, Send, Open
  <2>2. gpu' \in {gpu, StartPrim(gpu, OtherPrim)}
    BY <1>12 DEF Widget, Send
  <2>. QED
    BY <1>0, <2>1, <2>2, StartPrimIs, StackKept
<1>13. CASE CoStep
  BY <1>0, <1>13, StackKept DEF CoStep, app, Open
<1>14. CASE DlStart
  BY <1>0, <1>14, StartedStack
<1>15. CASE Swap \/ Fault \/ ResetCoprocessor
  BY <1>15 DEF Swap, Fault, ResetCoprocessor, StackIsRight, Open
<1>16. CASE UNCHANGED vars
  BY <1>0, <1>16, StackKept DEF vars, cache, chip, app, Open
<1>. QED
  BY <1>0, <1>1, <1>2, <1>3, <1>4, <1>5, <1>6, <1>7, <1>8, <1>9, <1>10, <1>11,
     <1>12, <1>13, <1>14, <1>15, <1>16, Steps, CoSteps DEF CacheRight, Basic

LEMMA SpecCacheRight == NestingFits /\ Spec => []CacheRight
<1>1. NestingFits /\ Init => CacheRight
  <2>1. Init => Nested /\ StackIsRight
    BY CoDlAssumption DEF Init, Nested, Depth, StackIsRight, Open
  <2>. QED
    BY <2>1, BasicInit DEF CacheRight
<1>2. CacheRight /\ [Next]_vars => CacheRight'
  <2>1. CacheRight => TypeOK
    BY DEF CacheRight, Basic
  <2>2. NestingFits => NestingFits'
    BY DEF NestingFits
  <2>. QED
    BY <2>1, <2>2, BasicStep, NestedStep, StackStep DEF CacheRight
<1>. QED
  BY <1>1, <1>2, PTL DEF Spec

(***************************************************************************)
(* Nested no deeper than MaxDepth < StackSize, the cache is right about    *)
(* the engine at every level of the context stack, for any number of       *)
(* registers and any sizes of the two stacks.                              *)
(***************************************************************************)
THEOREM StackRight == NestingFits /\ Spec => []StackIsRight
<1>1. CacheRight => StackIsRight
  BY DEF CacheRight
<1>. QED
  BY <1>1, SpecCacheRight, PTL

(***************************************************************************)
(* The optimizer cannot be noticed.  Each lemma below is about one shape   *)
(* of step; what a suppressed command would have done was shown above.     *)
(***************************************************************************)
LEMMA SeenIs ==
  ASSUME TypeOK, EngineShape, DrawsAsAsked
  PROVE  /\ gpu \in Gpus /\ asked.co = co
         /\ asked.gpu = IF begun THEN gpu ELSE NothingBegun(gpu)
         /\ ~Open => asked.gpu = Fresh
         /\ NothingBegun(asked.gpu) = NothingBegun(gpu)
<1>1. gpu \in Gpus /\ asked.co = co /\ asked.gpu = IF begun THEN gpu ELSE NothingBegun(gpu)
  BY DEF TypeOK, DrawsAsAsked, Seen, NothingBegun
<1>2. ~Open => asked.gpu = Fresh
  BY <1>1, FreshIs DEF EngineShape
<1>3. NothingBegun(NothingBegun(gpu)) = NothingBegun(gpu)
  BY <1>1, StartPrimIs DEF NothingBegun
<1>. QED
  BY <1>1, <1>2, <1>3

\* What is asked of a list that is not open, or of a coprocessor, is asked
\* of nothing else.
LEMMA AskIs ==
  ASSUME TypeOK, NEW g, Ask(g)
  PROVE  asked'.co = asked.co /\ asked'.gpu = IF Open THEN g ELSE asked.gpu
BY DEF TypeOK, Ask

LEMMA DrawsStay ==
  ASSUME DrawsAsAsked, UNCHANGED <<gpu, co, begun, asked>>
  PROVE  DrawsAsAsked'
BY DEF DrawsAsAsked, Seen

LEMMA DrawsRegister ==
  ASSUME TypeOK, EngineShape, DrawsAsAsked, UNCHANGED <<begun, co>>,
         NEW r \in Regs, NEW v \in Values, Ask(PutReg(asked.gpu, r, v)),
         gpu' = IF Open THEN PutReg(gpu, r, v) ELSE gpu
  PROVE  DrawsAsAsked'
<1>1. /\ gpu \in Gpus /\ asked.co = co
      /\ asked.gpu = IF begun THEN gpu ELSE NothingBegun(gpu)
  BY SeenIs
<1>2. NothingBegun(PutReg(gpu, r, v)) = PutReg(NothingBegun(gpu), r, v)
  BY <1>1, PutRegIs
<1>3. asked'.co = co' /\ asked'.gpu = IF Open THEN PutReg(asked.gpu, r, v) ELSE asked.gpu
  BY <1>1, AskIs
<1>4. asked'.gpu = IF begun THEN gpu' ELSE NothingBegun(gpu')
  BY <1>1, <1>2, <1>3
<1>. QED
  BY <1>3, <1>4 DEF DrawsAsAsked, Seen, NothingBegun

LEMMA DrawsMatrix ==
  ASSUME TypeOK, EngineShape, DrawsAsAsked, UNCHANGED <<begun, co>>,
         NEW m \in Matrices, Ask(PutMatrix(asked.gpu, m)),
         gpu' = IF Open THEN PutMatrix(gpu, m) ELSE gpu
  PROVE  DrawsAsAsked'
BY SeenIs, AskIs, PutMatrixIs DEF DrawsAsAsked, Seen, NothingBegun

LEMMA DrawsStep ==
  ASSUME CacheRight, DrawsAsAsked, [Next]_vars
  PROVE  DrawsAsAsked'
<1>0. /\ TypeOK /\ EngineShape /\ Basic
      /\ gpu \in Gpus /\ asked.gpu \in Gpus /\ co \in CoStates /\ asked.co = co
      /\ begun \in BOOLEAN
      /\ asked.gpu = IF begun THEN gpu ELSE NothingBegun(gpu)
      /\ NothingBegun(asked.gpu) = NothingBegun(gpu)
  BY SeenIs DEF CacheRight, Basic, TypeOK
<1>1. ASSUME NEW r \in Regs, NEW v \in Values, SetReg(r, v)
      PROVE  DrawsAsAsked'
  <2>1. UNCHANGED <<begun, co>> /\ Ask(PutReg(asked.gpu, r, v))
    BY <1>1 DEF SetReg, Send, SendNothing, chip, app
  <2>. QED
    BY <1>0, <1>1, <2>1, RegisterSet, DrawsRegister
<1>2. ASSUME NEW r \in Regs, NEW v \in Values, RawDl(r, v)
      PROVE  DrawsAsAsked'
  BY <1>0, <1>2, DrawsRegister DEF RawDl, Send
<1>3. ASSUME NEW v \in Values, SetFont(v)
      PROVE  DrawsAsAsked'
  BY <1>0, <1>3, DrawsRegister DEF SetFont, Send, app
<1>4. ASSUME NEW m \in Matrices, BitmapTransform(m)
      PROVE  DrawsAsAsked'
  BY <1>0, <1>4, DrawsMatrix DEF BitmapTransform, Send, app
<1>5. CASE BitmapTransformIdentity
  <2>1. UNCHANGED <<begun, co>> /\ Ask(PutMatrix(asked.gpu, Identity)) /\ Identity \in Matrices
    BY <1>5, GpuAssumption DEF BitmapTransformIdentity, Send, SendNothing, chip, app
  <2>. QED
    BY <1>0, <1>5, <2>1, IdentitySet, DrawsMatrix
<1>6. CASE SetMatrix
  <2>1. UNCHANGED <<begun, co>> /\ Ask(PutMatrix(asked.gpu, co.matrix)) /\ co.matrix \in Matrices
    BY <1>0, <1>6 DEF SetMatrix, Send, SendNothing, chip, app, CoStates
  <2>. QED
    BY <1>0, <1>6, <2>1, MatrixSet, DrawsMatrix
<1>7. CASE SaveContext
  <2>1. UNCHANGED <<begun, co>> /\ Ask(Push(asked.gpu)) /\ gpu' = IF Open THEN Push(gpu) ELSE gpu
    BY <1>7 DEF SaveContext, Send
  <2>. QED
    BY <1>0, <2>1, AskIs, PushIs DEF DrawsAsAsked, Seen, NothingBegun
<1>8. CASE RestoreContext
  <2>1. UNCHANGED <<begun, co>> /\ Ask(Pop(asked.gpu)) /\ gpu' = IF Open THEN Pop(gpu) ELSE gpu
    BY <1>8 DEF RestoreContext, Send
  <2>. QED
    BY <1>0, <2>1, AskIs, PopIs DEF DrawsAsAsked, Seen, NothingBegun
<1>9. ASSUME NEW p \in Prims, Begin(p)
      PROVE  DrawsAsAsked'
  <2>1. begun' = TRUE /\ UNCHANGED co /\ Ask(StartPrim(asked.gpu, p))
    BY <1>9 DEF Begin, Send, SendNothing, chip
  <2>2. gpu' = IF Open THEN StartPrim(gpu, p) ELSE gpu
    BY <1>0, <1>9, PrimitiveBegun
  <2>3. StartPrim(asked.gpu, p) = StartPrim(gpu, p)
    BY <1>0, StartPrimIs
  <2>4. ~Open => asked.gpu = Fresh /\ gpu = Fresh
    BY <1>0, SeenIs DEF EngineShape
  <2>. QED
    BY <1>0, <2>1, <2>2, <2>3, <2>4, AskIs DEF DrawsAsAsked, Seen
<1>10. CASE End
  <2>1. begun' = FALSE /\ UNCHANGED <<gpu, co>> /\ Ask(NothingBegun(asked.gpu))
    BY <1>10 DEF End, chip, NothingBegun
  <2>2. ~Open => asked.gpu = NothingBegun(gpu)
    BY <1>0, SeenIs, FreshIs DEF EngineShape
  <2>. QED
    BY <1>0, <2>1, <2>2, AskIs DEF DrawsAsAsked, Seen, NothingBegun
<1>11. CASE Vertex
  <2>1. begun /\ UNCHANGED <<begun, co>> /\ Ask(PutVertex(asked.gpu))
        /\ gpu' = IF Open THEN PutVertex(gpu) ELSE gpu
    BY <1>11 DEF Vertex, Send, app
  <2>. QED
    BY <1>0, <2>1, AskIs DEF DrawsAsAsked, Seen
<1>12. CASE Widget
  <2>1. /\ begun' = FALSE /\ UNCHANGED co /\ Ask(NothingBegun(asked.gpu))
        /\ gpu' = IF Open THEN StartPrim(gpu, OtherPrim) ELSE gpu
    BY <1>12 DEF Widget, Send, NothingBegun
  <2>2. NothingBegun(StartPrim(gpu, OtherPrim)) = NothingBegun(gpu)
    BY <1>0, StartPrimIs
  <2>3. ~Open => asked.gpu = NothingBegun(gpu)
    BY <1>0, SeenIs, FreshIs DEF EngineShape
  <2>. QED
    BY <1>0, <2>1, <2>2, <2>3, AskIs DEF DrawsAsAsked, Seen, NothingBegun
<1>13. CASE \/ LoadIdentity \/ ColdStart
            \/ \E m \in Matrices : Transform(m)
            \/ \E c \in Colours : FgColor(c) \/ BgColor(c)
  <2>1. UNCHANGED <<gpu, begun>>
    BY <1>0, <1>13, CoSteps DEF CoStep, app, Basic
  <2>2. asked'.gpu = asked.gpu /\ asked'.co = co'
    <3>1. ASSUME NEW d, Tell(d), AskCo(d)
          PROVE  asked'.gpu = asked.gpu /\ asked'.co = co'
      BY <1>0, <3>1 DEF Tell, AskCo, TypeOK
    <3>2. CASE LoadIdentity
      BY <1>0, <3>1, <3>2 DEF LoadIdentity
    <3>3. CASE ColdStart
      BY <3>1, <3>3 DEF ColdStart
    <3>4. ASSUME NEW m \in Matrices, Transform(m)
          PROVE  asked'.gpu = asked.gpu /\ asked'.co = co'
      BY <1>0, <3>1, <3>4 DEF Transform
    <3>5. ASSUME NEW c \in Colours, FgColor(c)
          PROVE  asked'.gpu = asked.gpu /\ asked'.co = co'
      <4>1. CASE coState.fg # c
        BY <1>0, <3>1, <3>5, <4>1 DEF FgColor
      <4>2. CASE coState.fg = c
        <5>1. UNCHANGED co /\ AskCo([co EXCEPT !.fg = c])
          BY <1>0, <3>5, <4>2 DEF FgColor, SendNothing, chip
        <5>2. ~faulted => [co EXCEPT !.fg = c] = co
          BY <1>0, <4>2 DEF Basic, CoStateIsRight, CoStates
        <5>. QED
          BY <1>0, <5>1, <5>2 DEF AskCo, TypeOK
      <4>. QED
        BY <4>1, <4>2
    <3>6. ASSUME NEW c \in Colours, BgColor(c)
          PROVE  asked'.gpu = asked.gpu /\ asked'.co = co'
      <4>1. CASE coState.bg # c
        BY <1>0, <3>1, <3>6, <4>1 DEF BgColor
      <4>2. CASE coState.bg = c
        <5>1. UNCHANGED co /\ AskCo([co EXCEPT !.bg = c])
          BY <1>0, <3>6, <4>2 DEF BgColor, SendNothing, chip
        <5>2. ~faulted => [co EXCEPT !.bg = c] = co
          BY <1>0, <4>2 DEF Basic, CoStateIsRight, CoStates
        <5>. QED
          BY <1>0, <5>1, <5>2 DEF AskCo, TypeOK
      <4>. QED
        BY <4>1, <4>2
    <3>. QED
      BY <1>13, <3>2, <3>3, <3>4, <3>5, <3>6
  <2>. QED
    BY <2>1, <2>2 DEF DrawsAsAsked, Seen
<1>14. CASE DlStart \/ Swap
  <2>1. /\ begun' = FALSE /\ gpu' = Fresh /\ UNCHANGED co
        /\ asked'.gpu = Fresh /\ asked'.co = asked.co
    BY <1>0, <1>14 DEF DlStart, Swap, TypeOK
  <2>. QED
    BY <1>0, <2>1, FreshIs DEF DrawsAsAsked, Seen, NothingBegun
<1>15. CASE Fault
  BY <1>15, FreshIs DEF Fault, DrawsAsAsked, Seen, NothingBegun
<1>16. CASE ResetCoprocessor
  <2>1. begun' = FALSE /\ UNCHANGED <<gpu, co, asked>> /\ ~Open
    BY <1>16 DEF ResetCoprocessor, Open
  <2>. QED
    BY <1>0, <2>1, SeenIs, FreshIs DEF EngineShape, DrawsAsAsked, Seen, NothingBegun
<1>17. CASE UNCHANGED vars
  BY <1>17, DrawsStay DEF vars, chip, app
<1>. QED
  BY <1>1, <1>2, <1>3, <1>4, <1>5, <1>6, <1>7, <1>8, <1>9, <1>10, <1>11, <1>12,
     <1>13, <1>14, <1>15, <1>16, <1>17, Steps

(***************************************************************************)
(* Nested no deeper than MaxDepth < StackSize, the engine and the          *)
(* coprocessor are always where they would be had every call sent its      *)
(* command: no command the optimizer suppresses is missed.                 *)
(***************************************************************************)
THEOREM DrawnAsAsked == NestingFits /\ Spec => []DrawsAsAsked
<1>1. Init => DrawsAsAsked
  BY FreshIs DEF Init, DrawsAsAsked, Seen, NothingBegun
<1>2. CacheRight /\ DrawsAsAsked /\ [Next]_vars => DrawsAsAsked'
  BY DrawsStep
<1>. QED
  BY <1>1, <1>2, SpecCacheRight, PTL DEF Spec
=============================================================================
