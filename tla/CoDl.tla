-------------------------------- MODULE CoDl --------------------------------
(***************************************************************************)
(* The display list optimizer of EVE_CoDl.h, EVE_CoDl.c and EVE_CoCmd.h,   *)
(* as built by default (EVE_DL_OPTIMIZE, EVE_DL_CACHE_SCISSOR, no END      *)
(* commands), for the chips from FT810 on.                                 *)
(*                                                                         *)
(* The host keeps what it believes the graphics state to be and sends a    *)
(* command only when it would change that.  The belief is a stack of four  *)
(* states, the primitive begun last, and the coprocessor's colours and     *)
(* whether its matrix may differ from the identity.                        *)
(*                                                                         *)
(* A fault of the coprocessor loses every command until it is reset; the   *)
(* host goes on changing its cache meanwhile.                              *)
(***************************************************************************)
EXTENDS Gpu

CONSTANTS
  Zero,           \* the value 0, to which the context is cleared at first
  InvalidHandle,  \* 0x3F, no bitmap handle, never equal to one asked for
  StackSize,      \* EVE_DL_STATE_STACK_SIZE
  MaxDepth,       \* bound: how deep the application nests saved contexts
  Uses            \* bound: the sets of features an application may use

Features == Regs \cup {"matrix", "primitive", "colours"}
NoColours == [fg |-> FgDefault, bg |-> BgDefault, transform |-> FALSE]

ASSUME CoDlAssumption ==
  /\ Zero \in Values
  /\ InvalidHandle \notin Values
  /\ StackSize \in Nat \ {0}
  /\ MaxDepth \in Nat
  /\ Uses \subseteq SUBSET Features

VARIABLES
  dlState,      \* DlState: the cached graphics states
  dlStateIndex, \* DlStateIndex: which of them is current
  dlPrimitive,  \* DlPrimitive: the primitive begun last, if known
  coState,      \* CoFgColor, CoBgColor, CoBitmapTransform
  gpu,          \* the graphics state at the end of the list being written
  co,           \* the coprocessor's own state
  faulted,      \* the coprocessor has faulted and ignores every command
  started,      \* the application has started the list it is writing
  begun,        \* the application is between begin and end
  raw,          \* for each saved context, the registers set around the cache
  uses,         \* bound: the features this application uses
  asked         \* what the application asked for: gpu and co as they would be
                \* if every call sent its command

cache == <<dlState, dlStateIndex, dlPrimitive, coState>>
chip == <<gpu, co, faulted>>
app == <<started, begun, raw, uses>>
vars == <<cache, chip, app, asked>>

CacheRegs == [Regs -> Values \cup {InvalidHandle}]
CacheStates == [reg : CacheRegs, transform : BOOLEAN]

DlState == dlState[dlStateIndex]
Open == started /\ ~faulted
Depth == Len(raw)
IsRaw(r) == Depth > 0 /\ r \in raw[Depth]

(***************************************************************************)
(* EVE_CoDlImpl_resetDlState.  The handle is invalid so that the first     *)
(* EVE_CoDl_bitmapHandle is always sent.                                   *)
(***************************************************************************)
ResetState ==
  [reg |-> [r \in Regs |-> IF r = "Handle" THEN InvalidHandle ELSE Default[r]],
   transform |-> FALSE]

ResetDlState ==
  /\ dlStateIndex' = 0
  /\ dlState' = [dlState EXCEPT ![0] = ResetState]
  /\ dlPrimitive' = NoPrim

\* The context is cleared when it is opened, the coprocessor has been started.
Init ==
  /\ dlState = [i \in 0 .. StackSize - 1 |->
                  [reg |-> [r \in Regs |-> Zero], transform |-> FALSE]]
  /\ dlStateIndex = 0
  /\ dlPrimitive = NoPrim
  /\ coState = NoColours
  /\ gpu = Fresh
  /\ co = Cold
  /\ faulted = FALSE
  /\ started = FALSE
  /\ begun = FALSE
  /\ raw = <<>>
  /\ uses \in Uses
  /\ asked = [gpu |-> Fresh, co |-> Cold]

(***************************************************************************)
(* EVE_CoCmd_dl: a command reaches the open list, or nothing.              *)
(***************************************************************************)
Send(g) == gpu' = (IF Open THEN g ELSE gpu) /\ UNCHANGED <<co, faulted>>
SendNothing == UNCHANGED chip

\* What the call means, sent or not.
Ask(g) == asked' = [asked EXCEPT !.gpu = IF Open THEN g ELSE @]
AskCo(c) == asked' = [asked EXCEPT !.co = IF faulted THEN @ ELSE c]

(***************************************************************************)
(* The cached registers: EVE_CoDl_colorRgb_ex, colorA, bitmapHandle, cell, *)
(* pointSize, lineWidth, scissorXY, scissorSize, vertexFormat and          *)
(* paletteSource, all of one form.                                         *)
(***************************************************************************)
CacheReg(r, v) == dlState' = [dlState EXCEPT ![dlStateIndex].reg[r] = v]

SetReg(r, v) ==
  /\ r \in uses \cap Regs
  /\ ~IsRaw(r)
  /\ IF DlState.reg[r] # v
     THEN Send(PutReg(gpu, r, v)) /\ CacheReg(r, v)
     ELSE SendNothing /\ UNCHANGED dlState
  /\ Ask(PutReg(asked.gpu, r, v))
  /\ UNCHANGED <<dlStateIndex, dlPrimitive, coState, app>>

ColorRgb(v) == SetReg("ColorRGB", v)
ColorA(v) == SetReg("ColorA", v)
BitmapHandle(v) == SetReg("Handle", v)
Cell(v) == SetReg("Cell", v)
PointSize(v) == SetReg("PointSize", v)
LineWidth(v) == SetReg("LineWidth", v)
ScissorXY(v) == SetReg("ScissorXY", v)
ScissorSize(v) == SetReg("ScissorSize", v)
VertexFormat(v) == SetReg("VertexFormat", v)
PaletteSource(v) == SetReg("PaletteSource", v)

\* EVE_CoCmd_setFont2 and EVE_CoCmd_romFont select a handle on the way.
SetFont(v) ==
  /\ "Handle" \in uses \cap Regs
  /\ Send(PutReg(gpu, "Handle", v))
  /\ CacheReg("Handle", v)
  /\ Ask(PutReg(asked.gpu, "Handle", v))
  /\ UNCHANGED <<dlStateIndex, dlPrimitive, coState, app>>

(***************************************************************************)
(* EVE_CoCmd_dl called directly.  Its documentation allows that for cached *)
(* state only inside a saved context; what was set so is set so again      *)
(* until the context is restored.                                          *)
(***************************************************************************)
RawDl(r, v) ==
  /\ r \in uses \cap Regs
  /\ Depth > 0
  /\ Send(PutReg(gpu, r, v))
  /\ raw' = [raw EXCEPT ![Depth] = @ \cup {r}]
  /\ Ask(PutReg(asked.gpu, r, v))
  /\ UNCHANGED <<cache, started, begun, uses>>

(***************************************************************************)
(* The bitmap transform matrix.  Coefficients are always sent, and only    *)
(* the flag "may differ from the identity" is cached.                      *)
(***************************************************************************)
TransformFlag(b) == dlState' = [dlState EXCEPT ![dlStateIndex].transform = b]

BitmapTransform(m) ==
  /\ "matrix" \in uses
  /\ Send(PutMatrix(gpu, m))
  /\ TransformFlag(TRUE)
  /\ Ask(PutMatrix(asked.gpu, m))
  /\ UNCHANGED <<dlStateIndex, dlPrimitive, coState, app>>

BitmapTransformIdentity ==
  /\ "matrix" \in uses
  /\ IF DlState.transform
     THEN Send(PutMatrix(gpu, Identity)) /\ TransformFlag(FALSE)
     ELSE SendNothing /\ UNCHANGED dlState
  /\ Ask(PutMatrix(asked.gpu, Identity))
  /\ UNCHANGED <<dlStateIndex, dlPrimitive, coState, app>>

\* EVE_CoCmd_setMatrix writes the coprocessor's matrix to the list.
MatrixMattersToCo == coState.transform  \* a slip: the list's flag is ignored
MatrixMatters == coState.transform \/ DlState.transform

SetMatrix ==
  /\ "matrix" \in uses
  /\ IF MatrixMatters
     THEN Send(PutMatrix(gpu, co.matrix)) /\ TransformFlag(coState.transform)
     ELSE SendNothing /\ UNCHANGED dlState
  /\ Ask(PutMatrix(asked.gpu, asked.co.matrix))
  /\ UNCHANGED <<dlStateIndex, dlPrimitive, coState, app>>

(***************************************************************************)
(* The context stack.                                                      *)
(***************************************************************************)
NextState == (dlStateIndex + 1) % StackSize
PrevState == (dlStateIndex + StackSize - 1) % StackSize

SavedNot == dlState  \* a slip: the state is not copied up
Saved == [dlState EXCEPT ![NextState] = DlState]

SaveContext ==
  /\ Depth < MaxDepth
  /\ Send(Push(gpu))
  /\ dlState' = Saved
  /\ dlStateIndex' = NextState
  /\ raw' = Append(raw, IF Depth > 0 THEN raw[Depth] ELSE {})
  /\ Ask(Push(asked.gpu))
  /\ UNCHANGED <<dlPrimitive, coState, started, begun, uses>>

RestoreContext ==
  /\ Depth > 0
  /\ Send(Pop(gpu))
  /\ dlStateIndex' = PrevState
  /\ raw' = SubSeq(raw, 1, Depth - 1)
  /\ Ask(Pop(asked.gpu))
  /\ UNCHANGED <<dlState, dlPrimitive, coState, started, begun, uses>>

(***************************************************************************)
(* Primitives.  The application finishes a pair of vertices before it      *)
(* begins or ends anything, and draws only what it has begun.              *)
(***************************************************************************)
PairDone == gpu.prim \in Pairs => gpu.pending = 0

\* A strip begun again is a new strip, and its BEGIN is always sent.
OldPrimWhole == dlPrimitive  \* a slip: strips are treated like the others
OldPrim == IF dlPrimitive \in Strips THEN NoPrim ELSE dlPrimitive

Begin(p) ==
  /\ "primitive" \in uses
  /\ PairDone
  /\ IF p # OldPrim
     THEN Send(StartPrim(gpu, p)) /\ dlPrimitive' = p
     ELSE SendNothing /\ UNCHANGED dlPrimitive
  /\ begun' = TRUE
  /\ Ask(StartPrim(asked.gpu, p))
  /\ UNCHANGED <<dlState, dlStateIndex, coState, started, raw, uses>>

\* EVE_CoDl_end sends nothing and caches nothing (EVE_DL_END_PRIMITIVE is 0).
End ==
  /\ begun
  /\ PairDone
  /\ begun' = FALSE
  /\ Ask(StartPrim(asked.gpu, NoPrim))
  /\ UNCHANGED <<cache, chip, started, raw, uses>>

Vertex ==
  /\ begun
  /\ Send(PutVertex(gpu))
  /\ Ask(PutVertex(asked.gpu))
  /\ UNCHANGED <<cache, app>>

\* A widget drawn by the coprocessor begins primitives of its own.
AfterWidgetKept == dlPrimitive  \* a slip: the widget's primitives are forgotten
AfterWidget == NoPrim

Widget ==
  /\ "primitive" \in uses
  /\ Send(StartPrim(gpu, OtherPrim))
  /\ dlPrimitive' = AfterWidget
  /\ begun' = FALSE
  /\ Ask(StartPrim(asked.gpu, NoPrim))
  /\ UNCHANGED <<dlState, dlStateIndex, coState, started, raw, uses>>

(***************************************************************************)
(* The coprocessor's own state: EVE_CoCmd_fgColor, bgColor, loadIdentity,  *)
(* translate, scale, rotate, rotateAround, coldStart.                      *)
(***************************************************************************)
Tell(c) == co' = (IF faulted THEN co ELSE c) /\ UNCHANGED <<gpu, faulted>>

FgColor(c) ==
  /\ "colours" \in uses
  /\ IF coState.fg # c
     THEN Tell([co EXCEPT !.fg = c]) /\ coState' = [coState EXCEPT !.fg = c]
     ELSE SendNothing /\ UNCHANGED coState
  /\ AskCo([asked.co EXCEPT !.fg = c])
  /\ UNCHANGED <<dlState, dlStateIndex, dlPrimitive, app>>

BgColor(c) ==
  /\ "colours" \in uses
  /\ IF coState.bg # c
     THEN Tell([co EXCEPT !.bg = c]) /\ coState' = [coState EXCEPT !.bg = c]
     ELSE SendNothing /\ UNCHANGED coState
  /\ AskCo([asked.co EXCEPT !.bg = c])
  /\ UNCHANGED <<dlState, dlStateIndex, dlPrimitive, app>>

LoadIdentity ==
  /\ "matrix" \in uses
  /\ Tell([co EXCEPT !.matrix = Identity])
  /\ coState' = [coState EXCEPT !.transform = FALSE]
  /\ AskCo([asked.co EXCEPT !.matrix = Identity])
  /\ UNCHANGED <<dlState, dlStateIndex, dlPrimitive, app>>

Transform(m) ==
  /\ "matrix" \in uses
  /\ Tell([co EXCEPT !.matrix = m])
  /\ coState' = [coState EXCEPT !.transform = TRUE]
  /\ AskCo([asked.co EXCEPT !.matrix = m])
  /\ UNCHANGED <<dlState, dlStateIndex, dlPrimitive, app>>

\* EVE_CoDlImpl_resetCoState
ResetCoStateNot == coState  \* a slip: the cache outlives the coprocessor's state
ResetCoState == NoColours

ColdStart ==
  /\ Tell(Cold)
  /\ coState' = ResetCoState
  /\ AskCo(Cold)
  /\ UNCHANGED <<dlState, dlStateIndex, dlPrimitive, app>>

(***************************************************************************)
(* The frame.  EVE_CoCmd_dlStart resets the cache whether or not its       *)
(* command arrives; EVE_CoCmd_swap caches nothing.                         *)
(***************************************************************************)
DlStart ==
  /\ gpu' = Fresh
  /\ asked' = [asked EXCEPT !.gpu = Fresh]
  /\ UNCHANGED <<co, faulted>>
  /\ ResetDlState
  /\ UNCHANGED coState
  /\ started' = TRUE
  /\ begun' = FALSE
  /\ raw' = <<>>
  /\ UNCHANGED uses

Swap ==
  /\ started
  /\ gpu' = Fresh
  /\ asked' = [asked EXCEPT !.gpu = Fresh]
  /\ UNCHANGED <<co, faulted>>
  /\ started' = FALSE
  /\ begun' = FALSE
  /\ UNCHANGED <<cache, raw, uses>>

Fault ==
  /\ ~faulted
  /\ faulted' = TRUE
  /\ gpu' = Fresh
  /\ co' = Cold
  /\ asked' = [gpu |-> Fresh, co |-> Cold]
  /\ UNCHANGED <<cache, app>>

\* EVE_Util_resetCoprocessor puts the coprocessor's cached state back, but not
\* the display list's, which has to wait for the next EVE_CoCmd_dlStart.
ResetCoprocessor ==
  /\ faulted
  /\ faulted' = FALSE
  /\ UNCHANGED <<gpu, co, asked>>
  /\ coState' = ResetCoState
  /\ started' = FALSE
  /\ begun' = FALSE
  /\ UNCHANGED <<dlState, dlStateIndex, dlPrimitive, raw, uses>>

Next ==
  \/ \E v \in Values :
       \/ ColorRgb(v) \/ ColorA(v) \/ BitmapHandle(v) \/ Cell(v)
       \/ PointSize(v) \/ LineWidth(v) \/ ScissorXY(v) \/ ScissorSize(v)
       \/ VertexFormat(v) \/ PaletteSource(v) \/ SetFont(v)
       \/ \E r \in Regs : RawDl(r, v)
  \/ \E m \in Matrices : BitmapTransform(m) \/ Transform(m)
  \/ BitmapTransformIdentity \/ SetMatrix \/ LoadIdentity
  \/ SaveContext \/ RestoreContext
  \/ \E p \in Prims : Begin(p)
  \/ End \/ Vertex \/ Widget
  \/ \E c \in Colours : FgColor(c) \/ BgColor(c)
  \/ ColdStart \/ DlStart \/ Swap \/ Fault \/ ResetCoprocessor

Spec == Init /\ [][Next]_vars

(***************************************************************************)
(* Properties.                                                             *)
(***************************************************************************)

\* Every variable stays in its range: the cache holds values a register may
\* have or the invalid handle, the stack index stays within the stack.
TypeOK ==
  /\ dlState \in [0 .. StackSize - 1 -> CacheStates]
  /\ dlStateIndex \in 0 .. StackSize - 1
  /\ dlPrimitive \in Prims \cup {NoPrim}
  /\ coState \in [fg : Colours, bg : Colours, transform : BOOLEAN]
  /\ gpu \in Gpus
  /\ co \in CoStates
  /\ faulted \in BOOLEAN
  /\ started \in BOOLEAN
  /\ begun \in BOOLEAN
  /\ raw \in Seq(SUBSET Regs)
  /\ uses \in Uses
  /\ asked \in [gpu : Gpus, co : CoStates]

\* A cached state is right about a graphics state of the engine, except for
\* the registers set around it.
RightAbout(c, s, around) ==
  /\ \A r \in Regs \ around : c.reg[r] \in {s.reg[r], InvalidHandle}
  /\ ~c.transform => s.matrix = Identity

\* The registers set around the cache in the i-th saved context, if any.
Around(i) == IF i = 0 THEN {} ELSE raw[i]

\* The graphics state of the engine in the i-th saved context.
Level(i) == IF i = Depth THEN gpu.now ELSE gpu.saved[i + 1]

\* While a list is open, the host is right about the engine at every level of
\* the context stack: not only now, but also after every restoreContext to
\* come, however deep contexts were nested and whatever was set inside them
\* (EVE_CoDl_saveContext, EVE_CoDl_restoreContext and every cached call).
StackIsRight ==
  Open => /\ Len(gpu.saved) = Depth
          /\ dlStateIndex = Depth
          /\ \A i \in 0 .. Depth : RightAbout(dlState[i], Level(i), Around(i))

\* A primitive the host would not begin again is the one in force, although
\* END is never sent and widgets begin primitives of their own.
PrimitiveIsRight == Open => dlPrimitive \in {gpu.prim, NoPrim}

\* What the host believes of the coprocessor's colours and matrix is true of
\* a coprocessor that works, also after a reset and a cold start.
CoStateIsRight ==
  ~faulted => /\ coState.fg = co.fg
              /\ coState.bg = co.bg
              /\ ~coState.transform => co.matrix = Identity

\* The optimizer cannot be noticed: the engine and the coprocessor are where
\* they would be had every call sent its command, so suppressing a command
\* never changes what the next vertex, widget or restored context draws with.
\* An application that has begun no primitive cannot see which is in force.
Seen == IF begun THEN gpu ELSE StartPrim(gpu, NoPrim)
DrawsAsAsked == Seen = asked.gpu /\ co = asked.co
=============================================================================
