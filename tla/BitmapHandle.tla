---------------------------- MODULE BitmapHandle ----------------------------
(***************************************************************************)
(* The bitmap handles of Esd_BitmapHandle.c and the drawing of bitmaps     *)
(* through them (Esd_Render_Bitmap.c).                                     *)
(*                                                                         *)
(* A handle of the graphics engine keeps what was last set up on it over   *)
(* the display lists.  Esd_HandleState records what that is, so that a     *)
(* bitmap is set up again only when its handle was taken, its data has     *)
(* moved or was loaded anew, or the frame that set it up was lost.  When   *)
(* every handle is in use the scratch handle is set up for each draw.      *)
(*                                                                         *)
(* The host writes the display list while the engine still shows the one   *)
(* before: "list" is how the engine's handles are left by the commands     *)
(* written so far, "engine" how the list on the screen leaves them.        *)
(***************************************************************************)
EXTENDS Integers, FiniteSets, FiniteSetsExt

CONSTANTS
  HandleNb,     \* ESD_BITMAPHANDLE_NB
  Scratch,      \* ESD_SCRATCHHANDLE
  Bitmaps,      \* the Esd_BitmapInfo there are
  Additional,   \* their AdditionalInfo (Nobody: none)
  RomFonts,     \* the ROM fonts in use, by number
  Addresses,    \* where in RAM_G a bitmap may lie
  Pages,        \* the pages of 128 cells that are drawn
  MaxDraws,     \* bound on the draws of one frame
  Nobody        \* NULL

ASSUME HandleAssumption ==
  /\ HandleNb \in Nat /\ Scratch \in 0 .. HandleNb - 1
  /\ RomFonts \subseteq Nat /\ Bitmaps \cap RomFonts = {}
  /\ Nobody \notin Bitmaps \cup RomFonts
  /\ Additional \in [Bitmaps -> Bitmaps \cup {Nobody}]
  /\ 0 \notin Addresses
  /\ Pages \subseteq Nat /\ 0 \in Pages
  /\ MaxDraws \in Nat

Handles == 0 .. HandleNb - 1
Shown   == Bitmaps \cup RomFonts                \* what a handle is set up for
Invalid == 0                                    \* GA_INVALID

VARIABLES
  handleState,  \* Esd_HandleState: Info, Address, GpuHandle, Use, Resized, Page
  bitmapHandle, \* BitmapHandle of every bitmap and font
  where,        \* the address each bitmap's GpuHandle leads to
  gpuSeq,       \* the Seq of its GpuHandle, modulo 2
  list,         \* the engine's handles after the list being written
  engine,       \* the engine's handles after the list on the screen
  phase,        \* of the frame: "shown", "update", "render" or "crashed"
  drawn         \* the draws of the frame, and whether each shows what it should

vars == <<handleState, bitmapHandle, where, gpuSeq, list, engine, phase, drawn>>

(* A handle as nobody has set it up, and as the set-up commands leave it. *)
Unset   == [of |-> Nobody, source |-> <<Nobody, Invalid, 0>>, scaled |-> FALSE]
SetFor(r, addr) == [of |-> r, source |-> <<r, addr, 0>>, scaled |-> FALSE]

(* Esd_BitmapHandle_Reset: the structure is zeroed. *)
Reset == [Info |-> [h \in Handles |-> Nobody], Address |-> [h \in Handles |-> 0],
          GpuHandle |-> [h \in Handles |-> <<Nobody, 0>>],
          Use |-> [h \in Handles |-> 0],
          Resized |-> [h \in Handles |-> FALSE], Page |-> [h \in Handles |-> 0]]

Init ==
  /\ handleState = Reset
  /\ bitmapHandle = [r \in Shown |-> HandleNb]            \* ~0: not valid
  /\ where = [b \in Bitmaps |-> Invalid]
  /\ gpuSeq = [b \in Bitmaps |-> 0]
  /\ list = [h \in Handles |-> Unset] /\ engine = list
  /\ phase = "shown"
  /\ drawn = {}

-----------------------------------------------------------------------------
(* The draw functions change several of the variables one after another:   *)
(* they are operators on the record Now of what they touch.                *)
Now(places, seqs) ==
  [st |-> handleState, bh |-> bitmapHandle, eng |-> list, ok |-> TRUE,
   where |-> places, seq |-> seqs, drawn |-> drawn]

GpuHandleOf(s, r) == IF r \in RomFonts THEN <<r, 0>> ELSE <<r, s.seq[r]>>
AddressOf(s, r)   == IF r \in RomFonts THEN Invalid ELSE s.where[r]

(* What the handle's recorded GpuHandle leads to (Esd_GpuAlloc_Get). *)
Get(s, g) == IF g[1] \in Bitmaps /\ s.seq[g[1]] = g[2] THEN s.where[g[1]] ELSE Invalid

(* Wrong on purpose: a bitmap loaded anew at the same address passes. *)
StillSetAnySeq(s, r) ==
  LET h == s.bh[r] IN
  /\ h \in Handles /\ h # Scratch
  /\ s.st.Info[h] = r
  /\ r \in Bitmaps => s.st.Address[h] = AddressOf(s, r)

(* The handle of r is still set up for it.  A ROM font has no address.     *)
StillSet(s, r) ==
  LET h == s.bh[r] IN
  /\ h \in Handles /\ h # Scratch
  /\ s.st.Info[h] = r
  /\ r \in Bitmaps => s.st.Address[h] = AddressOf(s, r)
  /\ s.st.GpuHandle[h] = GpuHandleOf(s, r)

(* The handle to set up for r: a ROM font prefers the one of its own       *)
(* number, otherwise it is the first that is not in use, or the scratch.   *)
HandleFor(s, r) ==
  LET unused == {h \in Handles \ {Scratch} : s.st.Use[h] = 0} IN
  CASE r \in RomFonts \cap unused -> r
    [] unused = {}                -> Scratch
    [] OTHER                      -> Min(unused)

(* Take handle h for r; the scratch handle belongs to nobody. *)
Attach(s, h, r) ==
  IF h = Scratch THEN s
  ELSE [s EXCEPT !.st.Info[h] = r, !.st.GpuHandle[h] = GpuHandleOf(s, r),
                 !.st.Address[h] = IF r \in Bitmaps THEN AddressOf(s, r) ELSE @]

(* Set up handle h for r: CMD_SETBITMAP, or CMD_ROMFONT. *)
SetUp(s, h, r) ==
  [Attach(s, h, r) EXCEPT !.bh[r] = h, !.eng[h] = SetFor(r, AddressOf(s, r)),
                          !.st.Resized[h] = FALSE, !.st.Page[h] = 0]

MarkUsed(s, r) == IF s.bh[r] = Scratch THEN s ELSE [s EXCEPT !.st.Use[s.bh[r]] = 2]

(* Wrong on purpose: a handle found to be set up is not marked as used. *)
SetupForgets(s, r) ==
  IF StillSet(s, r) THEN s ELSE MarkUsed(SetUp(s, HandleFor(s, r), r), r)

(* Esd_CoDl_SetupBitmap, Esd_CoDl_SetupFont; the handle is bh[r] after it. *)
Setup(s, r) ==
  MarkUsed(IF StillSet(s, r) THEN s ELSE SetUp(s, HandleFor(s, r), r), r)

(* Esd_CoDl_BitmapSize, Esd_CoDl_BitmapWidthHeight *)
Resize(s, h, scaled) == [s EXCEPT !.eng[h].scaled = scaled, !.st.Resized[h] = TRUE]

(* Esd_CoDl_BitmapSizeReset *)
SizeReset(s, h) ==
  IF s.st.Resized[h] THEN [Resize(s, h, FALSE) EXCEPT !.st.Resized[h] = FALSE] ELSE s

(* Esd_CoDl_PagedBitmapSource: the page is found from the bitmap recorded  *)
(* for the handle, and nothing is recorded for the scratch handle.         *)
PagedSource(s, h, p) ==
  CASE s.st.Page[h] = p -> s
    [] s.st.Page[h] # p /\ s.st.Info[h] = Nobody -> [s EXCEPT !.ok = FALSE]
    [] OTHER -> [s EXCEPT !.eng[h].source = <<s.st.Info[h], Get(s, s.st.GpuHandle[h]), p>>,
                          !.st.Page[h] = p]

(* Esd_CoDl_Bitmap_Vertex draws a cell of page p of r through handle h. *)
Vertex(s, h, r, p, scaled, pair) ==
  LET t == PagedSource(s, h, p) IN
  [t EXCEPT !.drawn = @ \cup
     {[handle |-> h, of |-> r, pair |-> pair,
       right |-> t.eng[h] = [of |-> r, source |-> <<r, AddressOf(s, r), p>>,
                             scaled |-> scaled]]}]

(* The size of the handle of b: as it is, or scaled (Esd_Render_Bitmap and *)
(* Esd_Render_Bitmap_Scaled).                                              *)
Sized(s, b, scaled) ==
  IF scaled THEN Resize(s, s.bh[b], TRUE) ELSE SizeReset(s, s.bh[b])

(* A bitmap of its own. *)
RenderOne(s, b, p, scaled) ==
  LET t == Setup(s, b) IN
  Vertex(Sized(t, b, scaled), t.bh[b], b, p, scaled, FALSE)

(* A bitmap with its additional one, which only DXT1 bitmaps have: both    *)
(* are set up, then drawn a few times (Esd_CoDl_Bitmap_Vertex_DXT1).  The  *)
(* cell is on page p, its second half, cell + cells, on page q.            *)
RenderPair(s, b, p, q, format, scaled) ==
  LET a == Additional[b]
      t == Setup(Setup(s, b), a)
      Cell(u, r, page) == Vertex(u, t.bh[r], r, page, scaled, TRUE)
      sized == Resize(Sized(t, b, scaled), t.bh[a], scaled)
      first == Cell(sized, b, p)
      opacity == IF format = "DXT1" THEN Cell(first, b, q) ELSE first
  IN  Cell(Cell(opacity, a, q), a, p)

-----------------------------------------------------------------------------
(* Where the bitmaps of bs that are not loaded may get to: Esd_LoadBitmap  *)
(* allocates, and may find no memory or no file.                           *)
Loads(bs) ==
  LET missing == {b \in bs : where[b] = Invalid}
      taken   == {where[b] : b \in Bitmaps}
  IN  {w \in [Bitmaps -> Addresses \cup {Invalid}] :
         /\ \A b \in Bitmaps \ missing : w[b] = where[b]
         /\ \A b \in missing : w[b] # Invalid =>
              w[b] \notin taken /\ \A c \in missing \ {b} : w[c] # w[b]}

SeqsAfter(places) ==
  [b \in Bitmaps |-> IF places[b] = where[b] THEN gpuSeq[b] ELSE 1 - gpuSeq[b]]

Take(s) ==
  /\ handleState' = s.st /\ bitmapHandle' = s.bh /\ list' = s.eng
  /\ where' = s.where /\ gpuSeq' = s.seq /\ drawn' = s.drawn
  /\ phase' = IF s.ok THEN phase ELSE "crashed"
  /\ UNCHANGED engine

(* Esd_Render_Bitmap, Esd_Render_Bitmap_Scaled: nothing is drawn when the  *)
(* bitmap does not load, and no additional one when that does not.         *)
RenderBitmap(b, p, scaled) ==
  /\ phase = "render" /\ Cardinality(drawn) < MaxDraws
  /\ \E places \in Loads({b, Additional[b]} \ {Nobody}) :
       LET s == Now(places, SeqsAfter(places))
           paired == Additional[b] # Nobody /\ places[Additional[b]] # Invalid
       IN  /\ places[b] # Invalid
           /\ \/ ~paired /\ Take(RenderOne(s, b, p, scaled))
              \/ /\ paired
                 /\ \E q \in {page \in Pages : page >= p}, format \in {"DXT1", "DXT1L2"} :
                      Take(RenderPair(s, b, p, q, format, scaled))

(* A text in a ROM font. *)
RenderText(f) ==
  /\ phase = "render" /\ Cardinality(drawn) < MaxDraws
  /\ LET s == Setup(Now(where, gpuSeq), f) IN
     Take(Vertex(s, s.bh[f], f, 0, FALSE, FALSE))

-----------------------------------------------------------------------------
(* Wrong on purpose: counted down below zero. *)
KeptDown(u) == u - 1

(* Esd_Update starts the frame: a handle used in the last frame is kept    *)
(* for this one (Esd_BitmapHandle_FrameStart).                             *)
Kept(u) == IF u < 2 THEN 0 ELSE u - 1

FrameStart ==
  /\ phase = "shown"
  /\ handleState' = [handleState EXCEPT !.Use = [h \in Handles |-> Kept(@[h])]]
  /\ phase' = "update"
  /\ list' = engine /\ drawn' = {}
  /\ UNCHANGED <<bitmapHandle, where, gpuSeq, engine>>

(* Esd_GpuAlloc_Update moves bitmaps and frees those not drawn lately. *)
Move(b, addr) ==
  /\ phase = "update"
  /\ where[b] # Invalid /\ \A c \in Bitmaps : where[c] # addr
  /\ where' = [where EXCEPT ![b] = addr]
  /\ UNCHANGED <<handleState, bitmapHandle, gpuSeq, list, engine, phase, drawn>>

Free(b) ==
  /\ phase = "update"
  /\ where[b] # Invalid
  /\ where' = [where EXCEPT ![b] = Invalid]
  /\ UNCHANGED <<handleState, bitmapHandle, gpuSeq, list, engine, phase, drawn>>

Render ==
  /\ phase = "update"
  /\ phase' = "render"
  /\ UNCHANGED <<handleState, bitmapHandle, where, gpuSeq, list, engine, drawn>>

(* The frame is swapped in. *)
Swap ==
  /\ phase = "render"
  /\ phase' = "shown" /\ engine' = list /\ drawn' = {}
  /\ UNCHANGED <<handleState, bitmapHandle, where, gpuSeq, list>>

(* The coprocessor faulted in the frame, before or after its list was      *)
(* swapped in: Esd_WaitSwap forgets every handle.                          *)
Lose ==
  /\ phase = "render"
  /\ phase' = "shown" /\ handleState' = Reset /\ drawn' = {}
  /\ engine' \in {engine, list}
  /\ list' = engine'
  /\ UNCHANGED <<bitmapHandle, where, gpuSeq>>

Next ==
  \/ FrameStart \/ Render \/ Swap \/ Lose
  \/ \E b \in Bitmaps : Free(b) \/ \E addr \in Addresses : Move(b, addr)
  \/ \E b \in Bitmaps, p \in Pages, scaled \in BOOLEAN : RenderBitmap(b, p, scaled)
  \/ \E f \in RomFonts : RenderText(f)

Spec == Init /\ [][Next]_vars

-----------------------------------------------------------------------------
(* The state of the handle cache and of the engine. *)
TypeOK ==
  /\ handleState \in
       [Info : [Handles -> Shown \cup {Nobody}],
        Address : [Handles -> Addresses \cup {0}],
        GpuHandle : [Handles -> (Shown \cup {Nobody}) \X {0, 1}],
        Use : [Handles -> 0 .. 2],
        Resized : [Handles -> BOOLEAN], Page : [Handles -> Pages]]
  /\ bitmapHandle \in [Shown -> 0 .. HandleNb]
  /\ where \in [Bitmaps -> Addresses \cup {Invalid}]
  /\ gpuSeq \in [Bitmaps -> {0, 1}]
  /\ phase \in {"shown", "update", "render", "crashed"}

(* Every draw goes through a handle that the engine has set up for that    *)
(* bitmap, at the address it has now, on the page of the cell and in the   *)
(* size asked for, whatever earlier frames, moves, reloads and lost frames *)
(* left on it.  Only a bitmap drawn together with its additional one may   *)
(* miss out, when both have to share the scratch handle.                   *)
DrawnRight ==
  phase # "crashed" =>
    \A d \in drawn : d.right \/ (d.pair /\ d.handle = Scratch)

(* A handle a frame has drawn through is not given to another bitmap in    *)
(* that frame: the engine runs the list again for every line of the        *)
(* screen, so the earlier draw would show the other bitmap.                *)
HandleStaysTaken ==
  \A d \in drawn, e \in drawn : d.handle = e.handle /\ d.handle # Scratch => d.of = e.of
=============================================================================
