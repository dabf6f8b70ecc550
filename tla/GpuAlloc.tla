------------------------------ MODULE GpuAlloc ------------------------------
(***************************************************************************)
(* The RAM_G allocator of Esd_GpuAlloc.c, in the frame loop it lives in:   *)
(* between two swaps of the display the application's resources allocate,  *)
(* look up and free blocks; at the start of each frame Update collects     *)
(* what the last frame did not use and moves at most one block.            *)
(*                                                                         *)
(* Addresses are in bytes.  A block's contents are the resource that was   *)
(* loaded there, word by word.                                             *)
(***************************************************************************)
EXTENDS Integers, FiniteSets, FiniteSetsExt

CONSTANTS
  MaxAllocs,     \* MAX_NUM_ALLOCATIONS
  RamGSize,      \* the size of RAM_G
  SeqCount,      \* the handle's Seq counts modulo this (24 bits)
  Resources,     \* what the application keeps in RAM_G
  SizeOf,        \* the size each asks for
  FlagsOf,       \* the flags each asks with
  TruncateSizes, \* the sizes passed to Esd_GpuAlloc_Truncate
  CopyFails,     \* a defragmenting copy may fail: coprocessor fault or abort
  FramesLost,    \* a frame may end without a swap, after a coprocessor fault
  MaxSeq         \* bound: handles are issued up to this Seq

ASSUME GpuAllocAssumption ==
  /\ MaxAllocs \in 2 .. 64
  /\ RamGSize \in Nat \ {0} /\ RamGSize % 4 = 0
  /\ SeqCount \in Nat /\ SeqCount > 2
  /\ IsFiniteSet(Resources) /\ "none" \notin Resources
  /\ SizeOf \in [Resources -> Nat \ {0}]
  /\ FlagsOf \in [Resources -> SUBSET {"gc", "fixed"}]
  /\ TruncateSizes \subseteq Nat
  /\ CopyFails \in BOOLEAN /\ FramesLost \in BOOLEAN

VARIABLES
  ga,        \* Esd_GpuAlloc: AllocRefs, AllocEntries, NbAllocEntries
  ramg,      \* the resource each word of RAM_G holds, or "none"
  handle,    \* the GpuHandle each resource keeps
  size,      \* the size each resource needs, after Truncate
  phase,     \* "frame", or the loop of Update: "sweep", then "defrag"
  sweepIdx,  \* idx in the first loop of Update
  drawing,   \* resources and addresses in the display list being built
  shown,     \* those in the display list on the screen
  wild       \* a table was indexed out of bounds: nothing is known any more

vars == <<ga, ramg, handle, size, phase, sweepIdx, drawing, shown, wild>>

Ids      == 0 .. MaxAllocs - 1
NoId     == MaxAllocs
WordAddr == {a \in 0 .. RamGSize - 1 : a % 4 = 0}
Align4(n) == 4 * ((n + 3) \div 4)
Words(address, length) ==
  {a \in WordAddr : address <= a /\ a < address + length}

InvalidHandle == [id |-> NoId, seq |-> 0]
IsFree(e)     == e.id = NoId
NextSeq(s)    == IF s + 1 = SeqCount THEN 1 ELSE s + 1  \* zero is skipped

FreeEntry(address, length) ==
  [address |-> address, length |-> length, id |-> NoId, flags |-> {}]

----------------------------------------------------------------------------
(* The operations on the tables.  t is an Esd_GpuAlloc.                    *)

\* Wrong on purpose: a reset starts counting again.
ResetSeqToOne(seq) == 1

ResetSeq(seq) == NextSeq(seq)

Cleared(refs) ==
  [refs    |-> [i \in Ids |-> [idx |-> NoId, seq |-> ResetSeq(refs[i].seq)]],
   entries |-> [i \in Ids |-> IF i = 0 THEN FreeEntry(0, RamGSize)
                                       ELSE FreeEntry(RamGSize, 0)],
   nb      |-> 1]

\* Wrong on purpose: the references are not moved along with the entries.
RefsStay(t, at) == t.refs

(* The references of the entries from at on move one step up with them.    *)
RefsMoveUp(t, at) ==
  [i \in Ids |-> IF \E j \in at .. t.nb - 1 : t.entries[j].id = i
                 THEN [t.refs[i] EXCEPT !.idx = @ + 1] ELSE t.refs[i]]

(* The new free entry begins where the entry before it ends.               *)
InsertFree(t, at, length) ==
  [refs    |-> RefsMoveUp(t, at),
   entries |-> [i \in Ids |->
     IF i = at
     THEN FreeEntry(t.entries[at - 1].address + t.entries[at - 1].length, length)
     ELSE IF i \in at + 1 .. t.nb THEN t.entries[i - 1] ELSE t.entries[i]],
   nb      |-> t.nb + 1]

OpenEntries(t, length) ==
  {i \in 0 .. t.nb - 1 : IsFree(t.entries[i]) /\ t.entries[i].length >= length}
UnusedIds(t) == {i \in Ids : t.refs[i].idx = NoId}

CanAlloc(t, bytes) ==
  /\ t.nb < MaxAllocs
  /\ OpenEntries(t, Align4(bytes)) # {} /\ UnusedIds(t) # {}

(* What Alloc returns, and the tables it leaves, when CanAlloc.            *)
NewHandle(t) == LET id == Min(UnusedIds(t))
                IN  [id |-> id, seq |-> NextSeq(t.refs[id].seq)]

\* Wrong on purpose: what remains is counted from the size before alignment.
RemainingUnaligned(length, bytes) == length - bytes

Remaining(length, bytes) == length - Align4(bytes)

Alloc(t, bytes, flags) ==
  LET length    == Align4(bytes)
      idx       == Min(OpenEntries(t, length))
      new       == NewHandle(t)
      remaining == Remaining(t.entries[idx].length, bytes)
      taken     == [t EXCEPT
                      !.entries[idx] = [@ EXCEPT !.length = length, !.id = new.id,
                                                 !.flags = flags \cup {"used"}],
                      !.refs[new.id] = [idx |-> idx, seq |-> new.seq]]
  IN  IF remaining = 0 THEN taken ELSE InsertFree(taken, idx + 1, remaining)

\* Wrong on purpose: what lies past the last entry is taken for an entry.
NextLooksFree(t, at) == at + 1 < MaxAllocs /\ IsFree(t.entries[at + 1])

NextIsFree(t, at) == at + 1 < t.nb /\ IsFree(t.entries[at + 1])
PrevIsFree(t, at) == at > 0 /\ IsFree(t.entries[at - 1])

(* A free entry takes in its free neighbours, and the entries after them   *)
(* move down, their references with them.                                  *)
CollapseFree(t, at) ==
  LET shift  == (IF NextIsFree(t, at) THEN 1 ELSE 0) + (IF PrevIsFree(t, at) THEN 1 ELSE 0)
      low    == IF PrevIsFree(t, at) THEN at - 1 ELSE at
      grown  == IF NextIsFree(t, at)
                THEN [t.entries EXCEPT ![at].length = @ + t.entries[at + 1].length]
                ELSE t.entries
      joined == IF low < at
                THEN [grown EXCEPT ![low].length = @ + grown[at].length] ELSE grown
      nb     == t.nb - shift
      moved  == [i \in Ids |-> IF i \in low + 1 .. nb - 1 THEN joined[i + shift] ELSE joined[i]]
  IN  [refs    |-> [i \in Ids |->
         IF \E j \in low + 1 .. nb - 1 : moved[j].id = i
         THEN [t.refs[i] EXCEPT !.idx = CHOOSE j \in low + 1 .. nb - 1 : moved[j].id = i]
         ELSE t.refs[i]],
       entries |-> moved, nb |-> nb]

FreeId(t, id) ==
  LET idx == t.refs[id].idx
  IN  CollapseFree([t EXCEPT !.refs[id] = [idx |-> NoId, seq |-> NextSeq(@.seq)],
                             !.entries[idx] = [@ EXCEPT !.id = NoId, !.flags = {}]], idx)

(* A handle resolves while its id still has its sequence number.           *)
Resolves(t, h) == h.id < MaxAllocs /\ t.refs[h.id].seq = h.seq
EntryOf(t, h)  == t.entries[t.refs[h.id].idx]

Free(t, h) == IF Resolves(t, h) THEN FreeId(t, h.id) ELSE t

MarkUsed(t, h) == [t EXCEPT !.entries[t.refs[h.id].idx].flags = @ \cup {"used"}]

----------------------------------------------------------------------------
Init ==
  /\ ga = Cleared([i \in Ids |-> [idx |-> NoId, seq |-> 0]])
  /\ ramg = [a \in WordAddr |-> "none"]
  /\ handle = [r \in Resources |-> InvalidHandle]
  /\ size = SizeOf
  /\ phase = "frame" /\ sweepIdx = 0
  /\ drawing = {} /\ shown = {} /\ wild = FALSE

----------------------------------------------------------------------------
(* The application, while it updates and renders a frame.                  *)

Address(t, r) == EntryOf(t, handle[r]).address
Length(t, r)  == EntryOf(t, handle[r]).length

(* A resource that is still loaded is looked up and drawn.                 *)
UseLoaded(r) ==
  /\ Resolves(ga, handle[r])
  /\ ga' = MarkUsed(ga, handle[r])
  /\ drawing' = drawing \cup {[resource |-> r, address |-> Address(ga, r)]}
  /\ UNCHANGED <<ramg, handle, size>>

(* One that is not is given a new block and loaded into it, which may      *)
(* fail; it may find no room.                                              *)
LoadAgain(r) ==
  /\ ~Resolves(ga, handle[r]) /\ CanAlloc(ga, SizeOf[r])
  /\ NewHandle(ga).seq <= MaxSeq
  /\ LET new == NewHandle(ga)
         t   == Alloc(ga, SizeOf[r], FlagsOf[r])
         e   == EntryOf(t, new)
         mem == Words(e.address, e.length)
     IN  /\ handle' = [handle EXCEPT ![r] = new]
         /\ \/ /\ ga' = t
               /\ ramg' = [a \in WordAddr |-> IF a \in mem THEN r ELSE ramg[a]]
               /\ drawing' = drawing \cup {[resource |-> r, address |-> e.address]}
               /\ size' = [size EXCEPT ![r] = SizeOf[r]]
            \/ /\ ga' = Free(t, new)
               /\ ramg' = [a \in WordAddr |-> IF a \in mem THEN "none" ELSE ramg[a]]
               /\ UNCHANGED <<drawing, size>>

NoRoom(r) ==
  /\ ~Resolves(ga, handle[r]) /\ ~CanAlloc(ga, SizeOf[r])
  /\ handle' = [handle EXCEPT ![r] = InvalidHandle]
  /\ UNCHANGED <<ga, ramg, drawing, size>>

LoadResource(r) ==
  /\ phase = "frame" /\ ~wild
  /\ UseLoaded(r) \/ LoadAgain(r) \/ NoRoom(r)
  /\ UNCHANGED <<phase, sweepIdx, shown, wild>>

(* The application gives a resource up, and whatever still shows it.       *)
FreeResource(r) ==
  /\ phase = "frame" /\ ~wild
  /\ ga' = Free(ga, handle[r])
  /\ handle' = [handle EXCEPT ![r] = InvalidHandle]
  /\ drawing' = {d \in drawing : d.resource # r}
  /\ shown' = {d \in shown : d.resource # r}
  /\ UNCHANGED <<ramg, size, phase, sweepIdx, wild>>

(* What Truncate does with a handle that resolves, when the table is full. *)
TruncateFull(r, bytes) ==
  LET idx  == ga.refs[handle[r].id].idx
      used == MarkUsed(ga, handle[r])
      diff == Length(ga, r) - bytes
  IN  \/ /\ diff <= 0 /\ ga' = used /\ UNCHANGED wild
      \/ /\ diff > 0 /\ idx + 1 < MaxAllocs /\ IsFree(ga.entries[idx + 1])
         /\ ga' = [used EXCEPT !.entries[idx].length = bytes,
                              !.entries[idx + 1].address = @ - diff]
         /\ UNCHANGED wild
      \* there is no entry left to insert
      \/ /\ diff > 0 /\ ~(idx + 1 < MaxAllocs /\ IsFree(ga.entries[idx + 1]))
         /\ wild' = TRUE /\ UNCHANGED ga

Truncate(r, bytes) ==
  /\ phase = "frame" /\ ~wild
  /\ bytes < size[r]
  /\ size' = [size EXCEPT ![r] = bytes]
  /\ IF ga.nb >= MaxAllocs /\ Resolves(ga, handle[r])
     THEN TruncateFull(r, bytes)
     ELSE UNCHANGED <<ga, wild>>
  /\ UNCHANGED <<ramg, handle, phase, sweepIdx, drawing, shown>>

(* The logo (Esd_BeginLogo, Esd_EndLogo) and the video player              *)
(* (PlayVideoFile) take all of RAM_G, and the display with it.             *)
TakeOver(flags) ==
  /\ phase = "frame" /\ ~wild
  /\ \A i \in Ids : ga.refs[i].seq + 2 <= MaxSeq
  /\ ga' = Alloc(Cleared(ga.refs), RamGSize, flags)
  /\ ramg' = [a \in WordAddr |-> "none"]
  /\ drawing' = {} /\ shown' = {}
  /\ UNCHANGED <<handle, size, phase, sweepIdx, wild>>

(* Esd_EndLogo hands it back.                                              *)
Reset ==
  /\ phase = "frame" /\ ~wild
  /\ \A i \in Ids : ga.refs[i].seq < MaxSeq
  /\ ga' = Cleared(ga.refs)
  /\ drawing' = {} /\ shown' = {}
  /\ UNCHANGED <<ramg, handle, size, phase, sweepIdx, wild>>

(* The frame is swapped to the display, or lost to a coprocessor fault;    *)
(* the next frame begins with Update.                                      *)
EndFrame ==
  /\ phase = "frame" /\ ~wild
  /\ shown' = drawing \/ (FramesLost /\ shown' = shown)
  /\ drawing' = {} /\ phase' = "sweep" /\ sweepIdx' = 0
  /\ UNCHANGED <<ga, ramg, handle, size, wild>>

----------------------------------------------------------------------------
(* Update, first loop: a block with the GC flag that the last frame did    *)
(* not use is freed; the others have to be used again to stay.             *)

\* Wrong on purpose: a lookup in the last frame does not keep a block.
UnusedOrNot(e) == "gc" \in e.flags

Unused(e) == "gc" \in e.flags /\ "used" \notin e.flags

Sweeping == phase = "sweep" /\ ~wild /\ sweepIdx < ga.nb

(* After a free the same index holds another entry.                        *)
SweepFree ==
  /\ Sweeping
  /\ ~IsFree(ga.entries[sweepIdx]) /\ Unused(ga.entries[sweepIdx])
  /\ ga' = FreeId(ga, ga.entries[sweepIdx].id)
  /\ UNCHANGED <<ramg, handle, size, phase, sweepIdx, drawing, shown, wild>>

\* Wrong on purpose: a block that was used once stays used.
SweepKeepUsed ==
  /\ Sweeping
  /\ IsFree(ga.entries[sweepIdx]) \/ ~Unused(ga.entries[sweepIdx])
  /\ sweepIdx' = sweepIdx + 1
  /\ UNCHANGED <<ga, ramg, handle, size, phase, drawing, shown, wild>>

SweepKeep ==
  /\ Sweeping
  /\ IsFree(ga.entries[sweepIdx]) \/ ~Unused(ga.entries[sweepIdx])
  /\ ga' = [ga EXCEPT !.entries[sweepIdx].flags = @ \ {"used"}]
  /\ sweepIdx' = sweepIdx + 1
  /\ UNCHANGED <<ramg, handle, size, phase, drawing, shown, wild>>

SweepDone ==
  /\ phase = "sweep" /\ ~wild /\ sweepIdx >= ga.nb
  /\ phase' = "defrag" /\ sweepIdx' = 0
  /\ UNCHANGED <<ga, ramg, handle, size, drawing, shown, wild>>

----------------------------------------------------------------------------
(* Update, defragmentation: one block moves into the first free space.     *)

LeftIdx(t) == Min({i \in 0 .. t.nb - 1 : IsFree(t.entries[i])} \cup {t.nb})

MayMove(e) == "fixed" \notin e.flags

Movable(t) ==
  {i \in LeftIdx(t) + 1 .. t.nb - 1 :
     /\ ~IsFree(t.entries[i]) /\ MayMove(t.entries[i])
     /\ t.entries[i].length <= t.entries[LeftIdx(t)].length}

(* The space moving entry i leaves; i + 1 may be past the last entry.      *)
Space(t, i) ==
  (IF i > LeftIdx(t) + 1 THEN t.entries[i].length ELSE 0)
  + (IF IsFree(t.entries[i - 1]) THEN t.entries[i - 1].length ELSE 0)
  + (IF i + 1 < MaxAllocs /\ IsFree(t.entries[i + 1]) THEN t.entries[i + 1].length ELSE 0)

Fragmented(t) == \E i \in Movable(t) : Space(t, i) > 0

LargestIdx(t) == Min({i \in Movable(t) : \A j \in Movable(t) : Space(t, j) <= Space(t, i)})

NothingToMove ==
  /\ phase = "defrag" /\ ~wild /\ ~Fragmented(ga)
  /\ phase' = "frame"
  /\ UNCHANGED <<ga, ramg, handle, size, sweepIdx, drawing, shown, wild>>

\* Wrong on purpose: the old address is left to whoever allocated it.
OldStays(flags) == flags

(* The old address is collected by the next Update.                        *)
OldFlags(flags) == flags \cup {"gc"}

(* The handle of the moved block and the one of its new place trade        *)
(* entries.                                                                *)
SwapHandles(t, id, new) ==
  LET idx    == t.refs[id].idx
      newIdx == t.refs[new].idx
      old    == t.entries[idx]
      dest   == t.entries[newIdx]
  IN  [t EXCEPT !.entries[newIdx] = [dest EXCEPT !.id = id, !.flags = dest.flags \ {"used"}],
                !.entries[idx]    = [old EXCEPT !.id = new, !.flags = OldFlags(old.flags)],
                !.refs[id].idx = newIdx, !.refs[new].idx = idx]

\* Wrong on purpose: the copy goes the wrong way.
CopiedBack(from, to, length) ==
  [a \in WordAddr |-> IF a \in Words(from, length) THEN ramg[to + (a - from)] ELSE ramg[a]]

Copied(from, to, length) ==
  [a \in WordAddr |-> IF a \in Words(to, length) THEN ramg[from + (a - to)] ELSE ramg[a]]

(* The block is copied by the coprocessor before its handle moves.  When   *)
(* the copy fails the new block stays as it is.                            *)
MoveBlock ==
  /\ phase = "defrag" /\ ~wild /\ Fragmented(ga)
  /\ LET e == ga.entries[LargestIdx(ga)]
         t == Alloc(ga, e.length, e.flags)
         n == NewHandle(ga)
         to == EntryOf(t, n).address
     IN  IF CanAlloc(ga, e.length)
         THEN /\ \/ /\ ga' = SwapHandles(t, e.id, n.id)
                    /\ ramg' = Copied(e.address, to, e.length)
                 \/ /\ CopyFails /\ n.seq <= MaxSeq
                    /\ ga' = t
                    /\ ramg' = [a \in WordAddr |->
                                  IF a \in Words(to, e.length) THEN "none" ELSE ramg[a]]
              /\ UNCHANGED wild
         \* Alloc returned an invalid handle: AllocRefs is read past its end
         ELSE wild' = TRUE /\ UNCHANGED <<ga, ramg>>
  /\ phase' = "frame"
  /\ UNCHANGED <<handle, size, sweepIdx, drawing, shown>>

----------------------------------------------------------------------------
Update == SweepFree \/ SweepKeep \/ SweepDone \/ NothingToMove \/ MoveBlock

Application ==
  \/ \E r \in Resources : LoadResource(r) \/ FreeResource(r)
  \/ \E r \in Resources, bytes \in TruncateSizes : Truncate(r, bytes)
  \/ \E flags \in {{}, {"gc"}} : TakeOver(flags)
  \/ Reset

Next == Application \/ EndFrame \/ Update

(* Esd_Loop runs frame after frame.                                        *)
Fairness == WF_vars(EndFrame \/ Update)

Spec == Init /\ [][Next]_vars /\ Fairness

----------------------------------------------------------------------------
Entries == 0 .. ga.nb - 1
Held    == {r \in Resources : Resolves(ga, handle[r])}

Flags == {"gc", "used", "fixed"}

TypeOK ==
  /\ ga \in [refs    : [Ids -> [idx : 0 .. MaxAllocs, seq : 0 .. SeqCount - 1]],
             entries : [Ids -> [address : 0 .. RamGSize, length : 0 .. RamGSize,
                                id : 0 .. MaxAllocs, flags : SUBSET Flags]],
             nb      : 1 .. MaxAllocs]
  /\ ramg \in [WordAddr -> Resources \cup {"none"}]
  /\ handle \in [Resources -> [id : 0 .. MaxAllocs, seq : 0 .. SeqCount - 1]]
  /\ size \in [Resources -> Nat]
  /\ phase \in {"frame", "sweep", "defrag"} /\ sweepIdx \in 0 .. MaxAllocs
  /\ drawing \in SUBSET [resource : Resources, address : 0 .. RamGSize]
  /\ shown \in SUBSET [resource : Resources, address : 0 .. RamGSize]
  /\ wild \in BOOLEAN

(* The entries lie end to end and cover RAM_G exactly: no byte is lost and *)
(* no two blocks share one, through every split, merge and move.  Free     *)
(* space is never split between neighbouring entries either, so the table  *)
(* does not fill up with fragments.                                        *)
Tiled ==
  /\ ga.entries[0].address = 0
  /\ \A i \in Entries :
       ga.entries[i].address + ga.entries[i].length =
         IF i + 1 < ga.nb THEN ga.entries[i + 1].address ELSE RamGSize
  /\ \A i \in Entries : i + 1 < ga.nb =>
       ~(IsFree(ga.entries[i]) /\ IsFree(ga.entries[i + 1]))

(* The reference table and the entry table point at each other, although   *)
(* every insertion and removal renumbers the entries.                      *)
RefsMatch ==
  /\ \A i \in Entries : ~IsFree(ga.entries[i]) => ga.refs[ga.entries[i].id].idx = i
  /\ \A id \in Ids : ga.refs[id].idx # NoId =>
       ga.refs[id].idx \in Entries /\ ga.entries[ga.refs[id].idx].id = id

(* As long as a handle resolves, its address leads to the resource's own   *)
(* data and all the room it asked for, wherever Update has moved it.       *)
ContentKept ==
  \A r \in Held : /\ Length(ga, r) >= size[r]
                  /\ \A a \in Words(Address(ga, r), size[r]) : ramg[a] = r

(* What the screen shows, and what is drawn to be shown next, still lies   *)
(* at the address it was drawn with: moving or collecting a block does not *)
(* disturb the frame on display.                                           *)
FrameIntact == \A d \in drawing \cup shown : ramg[d.address] = d.resource

(* A handle that has stopped resolving never resolves again, to nobody's   *)
(* block, however often its id is reused.                                  *)
StaleStaysStale ==
  [][\A r \in Resources :
       handle'[r] = handle[r] /\ ~Resolves(ga, handle[r]) => ~Resolves(ga', handle[r])]_vars

(* Memory nobody can reach any more, such as the old address of a moved    *)
(* block, goes back to the free space.  (A block over all of RAM_G is the  *)
(* logo's own.)                                                            *)
Orphans == {i \in Entries : /\ ga.nb > 1 /\ ~IsFree(ga.entries[i])
                            /\ \A r \in Held : handle[r].id # ga.entries[i].id}

OrphansGo == Orphans # {} ~> Orphans = {}

(* A resource with the GC flag that is no longer drawn is collected.       *)
UndrawnGoes ==
  \A r \in Resources : "gc" \in FlagsOf[r] =>
    (<>[](\A d \in drawing : d.resource # r) => <>[](r \notin Held))
=============================================================================
