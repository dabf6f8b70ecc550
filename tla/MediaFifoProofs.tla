-------------------------- MODULE MediaFifoProofs --------------------------
(***************************************************************************)
(* Proofs about MediaFifo, for every size of the media FIFO, length of the *)
(* file and sizes of the writes.                                           *)
(***************************************************************************)
EXTENDS MediaFifo, TLAPS

(***************************************************************************)
(* Circular addresses.                                                     *)
(***************************************************************************)
LEMMA Parameters ==
  /\ Size \in Nat /\ Size >= 16 /\ Size % 4 = 0
  /\ HalfSize \in Nat /\ HalfSize >= 4 /\ HalfSize % 4 = 0 /\ HalfSize <= Size - 4
  /\ 0 \in WordAddr
BY SizeAssumption DEF HalfSize, WordAddr

LEMMA Wraps ==
  ASSUME NEW x \in -Size .. 2 * Size - 1
  PROVE  x % Size = IF x < 0 THEN x + Size ELSE IF x >= Size THEN x - Size ELSE x
<1> DEFINE q == x \div Size
           m == x % Size
<1>1. Size \in Nat /\ Size >= 16
  BY Parameters
<1>2. q \in Int /\ x = Size * q + m /\ m \in 0 .. Size - 1
  BY <1>1
<1> HIDE DEF q, m
<1>3. q < 2 /\ q > -2
  BY <1>1, <1>2
<1>4. q \in {-1, 0, 1}
  BY <1>2, <1>3
<1>5. m = IF x < 0 THEN x + Size ELSE IF x >= Size THEN x - Size ELSE x
  BY <1>1, <1>2, <1>4
<1>. QED
  BY <1>5 DEF m

(* How far w is ahead of r, and what lies i bytes ahead of r.              *)
Gap(r, w) == (w - r) % Size
At(r, i)  == (r + i) % Size

LEMMA Distance ==
  ASSUME NEW r \in WordAddr, NEW w \in WordAddr
  PROVE  /\ Gap(r, w) = IF w >= r THEN w - r ELSE w - r + Size
         /\ Gap(r, w) \in WordAddr
<1>1. w - r \in -Size .. 2 * Size - 1 /\ Size \in Nat /\ Size % 4 = 0
  BY Parameters DEF WordAddr
<1>2. Gap(r, w) = IF w - r < 0 THEN w - r + Size
                  ELSE IF w - r >= Size THEN w - r - Size ELSE w - r
  BY <1>1, Wraps DEF Gap
<1>3. Gap(r, w) = IF w >= r THEN w - r ELSE w - r + Size
  BY <1>1, <1>2 DEF WordAddr
<1>. QED
  BY <1>1, <1>3 DEF WordAddr

LEMMA Ahead ==
  ASSUME NEW r \in WordAddr, NEW i \in WordAddr
  PROVE  /\ At(r, i) = IF r + i < Size THEN r + i ELSE r + i - Size
         /\ At(r, i) \in WordAddr
<1> DEFINE x == r + i
<1>1. x \in -Size .. 2 * Size - 1 /\ x >= 0 /\ Size \in Nat /\ Size % 4 = 0
  BY Parameters DEF WordAddr
<1>0. At(r, i) = x % Size
  BY DEF At
<1> HIDE DEF x
<1>2. At(r, i) = IF x < 0 THEN x + Size ELSE IF x >= Size THEN x - Size ELSE x
  BY <1>0, <1>1, Wraps
<1>3. At(r, i) = IF r + i < Size THEN r + i ELSE r + i - Size
  BY <1>1, <1>2 DEF WordAddr, x
<1>. QED
  BY <1>1, <1>3 DEF WordAddr

(* The read pointer advances by a word.                                    *)
LEMMA ReaderAdvances ==
  ASSUME NEW r \in WordAddr, NEW w \in WordAddr, r # w
  PROVE  LET r2 == At(r, 4)
         IN  /\ r2 \in WordAddr
             /\ Gap(r2, w) = Gap(r, w) - 4
             /\ \A i \in WordAddr : i + 4 < Size =>
                  i + 4 \in WordAddr /\ At(r2, i) = At(r, i + 4)
<1> DEFINE r2 == At(r, 4)
<1>1. Size \in Nat /\ Size >= 16 /\ Size % 4 = 0 /\ 4 \in WordAddr
  BY Parameters DEF WordAddr
<1>2. r2 \in WordAddr /\ r2 = IF r + 4 < Size THEN r + 4 ELSE r + 4 - Size
  BY <1>1, Ahead
<1> HIDE DEF r2
<1>3. Gap(r2, w) = Gap(r, w) - 4
  <2>1. Gap(r2, w) = IF w >= r2 THEN w - r2 ELSE w - r2 + Size
    BY <1>2, Distance
  <2>2. Gap(r, w) = IF w >= r THEN w - r ELSE w - r + Size
    BY Distance
  <2>. QED
    BY <1>1, <1>2, <2>1, <2>2 DEF WordAddr
<1>4. ASSUME NEW i \in WordAddr, i + 4 < Size
      PROVE  i + 4 \in WordAddr /\ At(r2, i) = At(r, i + 4)
  <2>1. i + 4 \in WordAddr
    BY <1>1, <1>4 DEF WordAddr
  <2>2. At(r2, i) = IF r2 + i < Size THEN r2 + i ELSE r2 + i - Size
    BY <1>2, Ahead
  <2>3. At(r, i + 4) = IF r + (i + 4) < Size THEN r + (i + 4) ELSE r + (i + 4) - Size
    BY <2>1, Ahead
  <2>. QED
    BY <1>1, <1>2, <2>1, <2>2, <2>3 DEF WordAddr
<1>. QED
  BY <1>2, <1>3, <1>4 DEF r2

(* The write pointer advances into the free space.                         *)
LEMMA WriterAdvances ==
  ASSUME NEW r \in WordAddr, NEW w \in WordAddr, NEW n \in WordAddr,
         n <= Size - 4 - Gap(r, w)
  PROVE  /\ Advanced(w, n) \in WordAddr
         /\ Gap(r, Advanced(w, n)) = Gap(r, w) + n
         /\ \A i \in WordAddr : i >= Gap(r, w) /\ i < Gap(r, w) + n =>
              /\ i - Gap(r, w) \in WordAddr
              /\ At(r, i) = At(w, i - Gap(r, w))
<1> DEFINE d  == Gap(r, w)
           w2 == Advanced(w, n)
<1>1. Size \in Nat /\ Size >= 16 /\ Size % 4 = 0
  BY Parameters
<1>2. d \in WordAddr /\ d = IF w >= r THEN w - r ELSE w - r + Size
  BY Distance
<1>3. w2 = IF w + n >= Size THEN w + n - Size ELSE w + n
  BY DEF Advanced
<1>0. n <= Size - 4 - d
  OBVIOUS
<1> HIDE DEF w2, d
<1>4. w2 \in WordAddr
  BY <1>1, <1>3 DEF WordAddr
<1>5. Gap(r, w2) = d + n
  <2>1. Gap(r, w2) = IF w2 >= r THEN w2 - r ELSE w2 - r + Size
    BY <1>4, Distance
  <2>. QED
    BY <1>0, <1>1, <1>2, <1>3, <1>4, <2>1 DEF WordAddr
<1>6. ASSUME NEW i \in WordAddr, i >= d, i < d + n
      PROVE  i - d \in WordAddr /\ At(r, i) = At(w, i - d)
  <2>1. i - d \in WordAddr
    BY <1>1, <1>2, <1>6 DEF WordAddr
  <2>2. At(r, i) = IF r + i < Size THEN r + i ELSE r + i - Size
    BY Ahead
  <2>3. At(w, i - d) = IF w + (i - d) < Size THEN w + (i - d) ELSE w + (i - d) - Size
    BY <2>1, Ahead
  <2>. QED
    BY <1>1, <1>2, <2>1, <2>2, <2>3 DEF WordAddr
<1>. QED
  BY <1>4, <1>5, <1>6 DEF d, w2

(* What is written from w on lies outside of what is unread.               *)
LEMMA FreeIsFree ==
  ASSUME NEW r \in WordAddr, NEW w \in WordAddr, NEW n \in WordAddr,
         n <= Size - 4 - Gap(r, w)
  PROVE  /\ \A i \in WordAddr : Gap(w, At(w, i)) = i
         /\ \A i \in WordAddr : i < Gap(r, w) =>
              ~(Gap(w, At(r, i)) < n)
<1> DEFINE d == Gap(r, w)
<1>1. Size \in Nat /\ Size >= 16 /\ Size % 4 = 0
  BY Parameters
<1>2. d \in WordAddr /\ d = IF w >= r THEN w - r ELSE w - r + Size
  BY Distance
<1>0. n <= Size - 4 - d
  OBVIOUS
<1> HIDE DEF d
<1>3. ASSUME NEW i \in WordAddr
      PROVE  Gap(w, At(w, i)) = i
  <2> DEFINE a == At(w, i)
  <2>1. a \in WordAddr /\ a = IF w + i < Size THEN w + i ELSE w + i - Size
    BY Ahead
  <2> HIDE DEF a
  <2>2. Gap(w, a) = IF a >= w THEN a - w ELSE a - w + Size
    BY <2>1, Distance
  <2>3. Gap(w, a) = i
    BY <1>1, <2>1, <2>2 DEF WordAddr
  <2>. QED
    BY <2>3 DEF a
<1>4. ASSUME NEW i \in WordAddr, i < d
      PROVE  ~(Gap(w, At(r, i)) < n)
  <2> DEFINE a == At(r, i)
  <2>1. a \in WordAddr /\ a = IF r + i < Size THEN r + i ELSE r + i - Size
    BY Ahead
  <2> HIDE DEF a
  <2>2. Gap(w, a) = IF a >= w THEN a - w ELSE a - w + Size
    BY <2>1, Distance
  <2>3. ~(Gap(w, a) < n)
    BY <1>0, <1>1, <1>2, <1>4, <2>1, <2>2 DEF WordAddr
  <2>. QED
    BY <2>3 DEF a
<1>. QED
  BY <1>3, <1>4 DEF d

(***************************************************************************)
(* The inductive invariant.                                                *)
(***************************************************************************)
(* The file is a whole number of words: what loadMediaFile puts back of a  *)
(* last block includes the bytes that pad it.                              *)
WholeWords == FileLen % 4 = 0

Commands == {"fifo", "media", "other"}

TypeCo ==
  /\ cmds \in Seq(Commands) /\ Len(cmds) <= CmdSlots
  /\ need \in Nat \cup {NotRunning} /\ fault \in BOOLEAN
  /\ mrp \in WordAddr /\ taken \in Nat

TypeStream == DOMAIN ram = WordAddr /\ mwp \in WordAddr /\ sent \in Nat

TypeFlags ==
  /\ fifoSet \in BOOLEAN /\ cmdFault \in BOOLEAN /\ handle \in BOOLEAN
  /\ playing \in BOOLEAN /\ ptr \in BOOLEAN
  /\ caller \in Callers /\ pc \in Pcs

TypeFile ==
  /\ filePos \in 0 .. FileLen /\ remaining \in 0 .. FileLen
  /\ size \in Nat /\ base \in 0 .. FileLen /\ done \in 0 .. size
  /\ space \in 0 .. Size - 4

Typed == TypeCo /\ TypeStream /\ TypeFlags /\ TypeFile

InWrite == {"poll", "polled", "put", "publish", "early", "written"}
InLoad  == InWrite \cup {"block", "loaded", "flush", "drain", "drained"}

(* Who is where: the media FIFO stays open during a feed, only the         *)
(* background video keeps its file open between two of them, and only it   *)
(* and "direct" are told how much was written.                             *)
Roles ==
  /\ pc \in InLoad => fifoSet
  /\ pc \in {"set", "check", "force"} => ~fifoSet /\ ~playing /\ ~handle
  /\ caller = "direct" => pc \in InWrite \cup {"ready", "set"} /\ ~handle
  /\ caller = "frame" /\ pc # "set" /\ (pc = "ready" => fifoSet) => ptr
  /\ caller = "video" /\ pc \notin {"ready", "set"} => ~ptr
  /\ pc \in {"drain", "drained"} => ~ptr
  /\ caller = "video" /\ pc = "ready" => ~fifoSet
  /\ playing => caller = "frame"
  /\ handle /\ pc \in {"ready", "queue", "load"} => playing

(* The buffer that is being written, and where it lies in the stream.      *)
Buffer ==
  /\ filePos % 4 = 0 /\ remaining % 4 = 0
  /\ pc \in InWrite =>
       /\ size % 4 = 0 /\ done % 4 = 0 /\ size > 0
       /\ base + size <= FileLen /\ sent = base + done
       /\ caller = "direct" => filePos = base
       /\ caller # "direct" => filePos = base + size /\ filePos + remaining = FileLen
  /\ pc \in {"poll", "polled", "put", "publish"} => done < size /\ (Whole => done = 0)
  /\ pc = "early" => ~Whole

(* Between two buffers the file stands where the stream ends.              *)
Position ==
  /\ pc = "ready" /\ fifoSet => filePos = sent
  /\ pc \in {"queue", "load"} /\ fifoSet =>
       filePos = sent /\ (~handle /\ ~playing => sent = 0)
  /\ pc = "block" => filePos = sent /\ filePos + remaining = FileLen
  /\ pc \in {"loaded", "flush"} /\ ptr => filePos = sent /\ filePos + remaining = FileLen
  /\ handle /\ pc \in {"ready", "queue", "load"} => filePos + remaining = FileLen

(* The space found by a wait is still there when it is used.               *)
Room ==
  /\ pc = "polled" => space <= Size - 4 - Gap(mrp, mwp)
  /\ pc \in {"put", "publish"} => Chunk <= Size - 4 - Gap(mrp, mwp)

(* What is about to be published is in place.                              *)
Filled == pc = "publish" => \A i \in WordAddr : i < Chunk => ram[At(mwp, i)] = sent + i

(* CMD_MEDIAFIFO is not executed again while the media FIFO is set, and    *)
(* has run when EVE_MediaFifo_set finds the command FIFO empty.            *)
NotReset == fifoSet => \A i \in 1 .. Len(cmds) : cmds[i] # "fifo"

SetQueued ==
  pc = "set" => IF cmds = <<>> THEN mrp = 0 /\ mwp = 0 /\ taken = 0 /\ sent = 0
                               ELSE cmds[Len(cmds)] = "fifo"

(* StreamInOrder, in terms of Gap and At.                                  *)
Ordered ==
  fifoSet =>
    /\ taken + Gap(mrp, mwp) = sent
    /\ \A i \in WordAddr : i < Gap(mrp, mwp) => ram[At(mrp, i)] = taken + i

HostInv == Roles /\ Buffer /\ Position
FifoInv == Room /\ Filled /\ NotReset /\ SetQueued /\ Ordered
Inv     == HostInv /\ FifoInv

LEMMA TypedIsTypeOK == Typed => TypeOK
BY DEF Typed, TypeCo, TypeStream, TypeFlags, TypeFile, TypeOK, Commands

LEMMA OrderedIsStreamInOrder == Ordered => StreamInOrder
BY DEF Ordered, StreamInOrder, Used, Gap, At

(***************************************************************************)
(* The space, and the part of the buffer that is written next.             *)
(***************************************************************************)
LEMMA SpaceIs ==
  ASSUME Typed
  PROVE  Space = Size - 4 - Gap(mrp, mwp) /\ Space \in 0 .. Size - 4
<1>1. mrp \in WordAddr /\ mwp \in WordAddr
  BY DEF Typed, TypeCo, TypeStream
<1>2. /\ Gap(mrp, mwp) = IF mwp >= mrp THEN mwp - mrp ELSE mwp - mrp + Size
      /\ Gap(mrp, mwp) \in WordAddr
  BY <1>1, Distance
<1>. QED
  BY <1>1, <1>2, Parameters DEF Space, WordAddr

LEMMA ChunkIs ==
  ASSUME Typed, Buffer, pc \in {"poll", "polled", "put", "publish"}
  PROVE  /\ Chunk \in WordAddr /\ Chunk > 0 /\ done + Chunk <= size
         /\ Whole => done + Chunk = size
<1>1. size \in Nat /\ done \in 0 .. size /\ size % 4 = 0 /\ done % 4 = 0 /\ done < size
      /\ (Whole => done = 0)
  BY DEF Typed, TypeFile, Buffer, InWrite
<1>. QED
  BY <1>1, Parameters DEF Chunk, Whole, Lesser, WordAddr

(***************************************************************************)
(* The commands in the command FIFO.                                       *)
(***************************************************************************)
LEMMA Queued ==
  ASSUME NEW q \in Seq(Commands), NEW c \in Commands
  PROVE  /\ Append(q, c) \in Seq(Commands) /\ Len(Append(q, c)) = Len(q) + 1
         /\ Append(q, c) # <<>> /\ Append(q, c)[Len(Append(q, c))] = c
         /\ \A i \in 1 .. Len(Append(q, c)) :
              Append(q, c)[i] = c \/ (i \in 1 .. Len(q) /\ Append(q, c)[i] = q[i])
OBVIOUS

LEMMA Executed ==
  ASSUME NEW q \in Seq(Commands), q # <<>>
  PROVE  /\ Tail(q) \in Seq(Commands) /\ Len(Tail(q)) = Len(q) - 1
         /\ \A i \in 1 .. Len(Tail(q)) : i + 1 \in 1 .. Len(q) /\ Tail(q)[i] = q[i + 1]
         /\ Tail(q) # <<>> => Tail(q)[Len(Tail(q))] = q[Len(q)]
         /\ Tail(q) = <<>> => q[Len(q)] = Head(q)
         /\ Head(q) = q[1] /\ 1 \in 1 .. Len(q)
<1>1. Tail(q) \in Seq(Commands) /\ Len(Tail(q)) = Len(q) - 1 /\ Len(q) \in Nat \ {0}
  OBVIOUS
<1>2. \A i \in 1 .. Len(Tail(q)) : i + 1 \in 1 .. Len(q) /\ Tail(q)[i] = q[i + 1]
  BY <1>1
<1>3. Tail(q) # <<>> => Tail(q)[Len(Tail(q))] = q[Len(q)]
  <2>1. Tail(q) # <<>> => Len(Tail(q)) \in 1 .. Len(Tail(q))
    BY <1>1
  <2>2. Len(Tail(q)) + 1 = Len(q)
    BY <1>1
  <2>. QED
    BY <1>2, <2>1, <2>2
<1>4. Tail(q) = <<>> => q[Len(q)] = Head(q)
  BY <1>1
<1>. QED
  BY <1>1, <1>2, <1>3, <1>4

(***************************************************************************)
(* The steps of the coprocessor.                                           *)
(***************************************************************************)
(* What it does leaves the host's own variables as they are.               *)
LEMMA HostKeeps ==
  ASSUME Typed, HostInv, UNCHANGED <<HostKept, sent>>
  PROVE  TypeFlags' /\ TypeFile' /\ HostInv'
<1>1. /\ fifoSet' = fifoSet /\ cmdFault' = cmdFault /\ handle' = handle /\ playing' = playing
      /\ filePos' = filePos /\ remaining' = remaining /\ size' = size /\ base' = base
      /\ done' = done /\ caller' = caller /\ pc' = pc /\ ptr' = ptr /\ space' = space
      /\ sent' = sent
  BY DEF HostKept, hal, file, buffer, call
<1>2. TypeFlags' /\ TypeFile'
  BY <1>1 DEF Typed, TypeFlags, TypeFile
<1>3. Roles' /\ Position'
  BY <1>1 DEF HostInv, Roles, Position
<1>4. Buffer'
  BY <1>1 DEF HostInv, Buffer, Whole
<1>. QED
  BY <1>2, <1>3, <1>4 DEF HostInv

LEMMA ChunkKept ==
  ASSUME size' = size, done' = done
  PROVE  Chunk' = Chunk
BY DEF Chunk, Whole

LEMMA ExecMediaFifoKeeps ==
  ASSUME Typed, Inv, ExecMediaFifo
  PROVE  Typed' /\ Inv'
<1>1. /\ cmds # <<>> /\ Head(cmds) = "fifo" /\ cmds' = Tail(cmds)
      /\ mrp' = 0 /\ mwp' = 0 /\ taken' = 0 /\ sent' = 0
      /\ UNCHANGED <<need, fault, ram, HostKept>>
  BY DEF ExecMediaFifo, Running
<1>2. cmds \in Seq(Commands) /\ Len(cmds) <= CmdSlots
  BY DEF Typed, TypeCo
<1>3. ~fifoSet
  BY <1>1, <1>2, Executed DEF Inv, FifoInv, NotReset
<1>4. pc \notin InLoad
  BY <1>3 DEF Inv, HostInv, Roles
<1>5. TypeCo' /\ TypeStream'
  BY <1>1, <1>2, Executed, Parameters, SizeAssumption DEF Typed, TypeCo, TypeStream
<1>6. /\ fifoSet' = fifoSet /\ cmdFault' = cmdFault /\ handle' = handle /\ playing' = playing
      /\ filePos' = filePos /\ remaining' = remaining /\ size' = size /\ base' = base
      /\ done' = done /\ caller' = caller /\ pc' = pc /\ ptr' = ptr /\ space' = space
  BY <1>1 DEF HostKept, hal, file, buffer, call
<1>7. TypeFlags' /\ TypeFile'
  BY <1>6 DEF Typed, TypeFlags, TypeFile
<1>8. HostInv'
  BY <1>3, <1>4, <1>6 DEF Inv, HostInv, Roles, Buffer, Position, InLoad, InWrite
<1>9. Room' /\ Filled' /\ NotReset' /\ Ordered'
  BY <1>3, <1>4, <1>6 DEF Room, Filled, NotReset, Ordered, InLoad, InWrite
<1>10. SetQueued'
  BY <1>1, <1>2, <1>6, Executed DEF Inv, FifoInv, SetQueued
<1>. QED
  BY <1>5, <1>7, <1>8, <1>9, <1>10 DEF Typed, Inv, FifoInv

(* A command is executed, or only part of it, without touching the media   *)
(* FIFO.                                                                   *)
LEMMA CommandKeeps ==
  ASSUME Typed, Inv, UNCHANGED <<mrp, taken, stream, HostKept>>,
         \/ cmds # <<>> /\ Head(cmds) # "fifo" /\ cmds' = Tail(cmds)
         \/ cmds' = cmds,
         need' \in Nat \cup {NotRunning}, fault' \in BOOLEAN
  PROVE  Typed' /\ Inv'
<1>1. ram' = ram /\ mwp' = mwp /\ sent' = sent /\ mrp' = mrp /\ taken' = taken
  BY DEF stream
<1>2. cmds \in Seq(Commands) /\ Len(cmds) <= CmdSlots
  BY DEF Typed, TypeCo
<1>3. /\ cmds' \in Seq(Commands) /\ Len(cmds') <= CmdSlots
      /\ \A i \in 1 .. Len(cmds') : \E j \in 1 .. Len(cmds) : cmds'[i] = cmds[j]
      /\ cmds # <<>> /\ cmds[Len(cmds)] = "fifo" =>
           cmds' # <<>> /\ cmds'[Len(cmds')] = "fifo"
      /\ cmds = <<>> => cmds' = <<>>
  <2>1. CASE cmds # <<>> /\ Head(cmds) # "fifo" /\ cmds' = Tail(cmds)
    BY <1>2, <2>1, Executed, SizeAssumption
  <2>2. CASE cmds' = cmds
    BY <1>2, <2>2
  <2>. QED
    BY <2>1, <2>2
<1>4. TypeCo' /\ TypeStream'
  BY <1>1, <1>3 DEF Typed, TypeCo, TypeStream
<1>5. TypeFlags' /\ TypeFile' /\ HostInv'
  BY <1>1, HostKeeps DEF Inv
<1>6. /\ fifoSet' = fifoSet /\ size' = size /\ done' = done /\ pc' = pc /\ space' = space
  BY DEF HostKept, hal, buffer, call
<1>7. Chunk' = Chunk
  BY <1>6, ChunkKept
<1>8. Room' /\ Filled' /\ Ordered'
  BY <1>1, <1>6, <1>7 DEF Inv, FifoInv, Room, Filled, Ordered
<1>9. NotReset' /\ SetQueued'
  BY <1>1, <1>3, <1>6 DEF Inv, FifoInv, NotReset, SetQueued
<1>. QED
  BY <1>4, <1>5, <1>8, <1>9 DEF Typed, Inv, FifoInv

(* A media command reads the oldest word of the stream.                    *)
LEMMA MediaReadKeeps ==
  ASSUME Typed, Inv, MediaRead
  PROVE  Typed' /\ Inv'
<1>1. /\ cmds # <<>> /\ need > 0 /\ mrp # mwp /\ need' = need - 1
      /\ mrp' = At(mrp, 4) /\ taken' = taken + 4 /\ cmds' = cmds /\ fault' = fault
      /\ ram' = ram /\ mwp' = mwp /\ sent' = sent /\ UNCHANGED HostKept
  BY DEF MediaRead, Running, At
<1>2. mrp \in WordAddr /\ mwp \in WordAddr
  BY DEF Typed, TypeCo, TypeStream
<1>3. /\ mrp' \in WordAddr /\ Gap(mrp', mwp) = Gap(mrp, mwp) - 4
      /\ \A i \in WordAddr : i + 4 < Size => i + 4 \in WordAddr /\ At(mrp', i) = At(mrp, i + 4)
  BY <1>1, <1>2, ReaderAdvances
<1>4. Gap(mrp, mwp) \in WordAddr
  BY <1>2, Distance
<1>5. TypeCo' /\ TypeStream'
  BY <1>1, <1>3 DEF Typed, TypeCo, TypeStream, NotRunning
<1>6. TypeFlags' /\ TypeFile' /\ HostInv'
  BY <1>1, HostKeeps DEF Inv
<1>7. /\ fifoSet' = fifoSet /\ size' = size /\ done' = done /\ pc' = pc /\ space' = space
  BY <1>1 DEF HostKept, hal, buffer, call
<1>8. Chunk' = Chunk
  BY <1>7, ChunkKept
<1>9. Filled' /\ NotReset' /\ SetQueued'
  BY <1>1, <1>7, <1>8 DEF Inv, FifoInv, Filled, NotReset, SetQueued
<1>10. Gap(mrp', mwp') = Gap(mrp, mwp) - 4 /\ Gap(mrp, mwp) \in Nat /\ Size \in Nat
       /\ Gap(mrp, mwp) < Size
  BY <1>1, <1>3, <1>4, Parameters DEF WordAddr
<1>11. Room'
  <2>1. pc' = "polled" => space <= Size - 4 - Gap(mrp', mwp')
    BY <1>7, <1>10 DEF Inv, FifoInv, Room, Typed, TypeFile
  <2>2. pc' \in {"put", "publish"} => Chunk <= Size - 4 - Gap(mrp', mwp')
    BY <1>7, <1>10, ChunkIs DEF Inv, HostInv, FifoInv, Room, WordAddr
  <2>. QED
    BY <1>7, <1>8, <2>1, <2>2 DEF Room
<1>12. Ordered'
  <2>1. taken \in Nat /\ sent \in Nat
    BY DEF Typed, TypeCo, TypeStream
  <2>2. ASSUME fifoSet
        PROVE  taken' + Gap(mrp', mwp') = sent'
    BY <1>1, <1>10, <2>1, <2>2 DEF Inv, FifoInv, Ordered
  <2>3. ASSUME fifoSet, NEW i \in WordAddr, i < Gap(mrp', mwp')
        PROVE  ram'[At(mrp', i)] = taken' + i
    <3>1. i \in Nat /\ i + 4 < Gap(mrp, mwp) /\ i + 4 < Size
      BY <1>10, <2>3 DEF WordAddr
    <3>2. i + 4 \in WordAddr /\ At(mrp', i) = At(mrp, i + 4)
      BY <1>3, <3>1
    <3>3. ram[At(mrp, i + 4)] = taken + (i + 4)
      BY <2>3, <3>1, <3>2 DEF Inv, FifoInv, Ordered
    <3>. QED
      BY <1>1, <2>1, <3>1, <3>2, <3>3
  <2>. QED
    BY <1>7, <2>2, <2>3 DEF Ordered
<1>. QED
  BY <1>5, <1>6, <1>9, <1>11, <1>12 DEF Typed, Inv, FifoInv

LEMMA CoprocessorKeeps ==
  ASSUME Typed, Inv, Coprocessor \/ Crash
  PROVE  Typed' /\ Inv'
<1>1. CASE ExecMediaFifo
  BY <1>1, ExecMediaFifoKeeps
<1>2. CASE MediaRead
  BY <1>2, MediaReadKeeps
<1>3. CASE ExecOther
  <2>1. cmds # <<>> /\ Head(cmds) # "fifo"
    BY <1>3 DEF ExecOther, Running
  <2>. QED
    BY <1>3, <2>1, CommandKeeps DEF ExecOther, Typed, TypeCo
<1>4. CASE MediaStart
  <2>1. need' \in Nat
    BY <1>4, SizeAssumption DEF MediaStart
  <2>. QED
    BY <1>4, <2>1, CommandKeeps DEF MediaStart, Typed, TypeCo
<1>5. CASE MediaEnd
  <2>1. cmds # <<>> /\ Head(cmds) # "fifo"
    BY <1>5 DEF MediaEnd, Running
  <2>. QED
    BY <1>5, <2>1, CommandKeeps DEF MediaEnd, Typed, TypeCo
<1>6. CASE Crash
  BY <1>6, CommandKeeps DEF Crash, Typed, TypeCo
<1>. QED
  BY <1>1, <1>2, <1>3, <1>4, <1>5, <1>6 DEF Coprocessor

(***************************************************************************)
(* The steps of the host.                                                  *)
(***************************************************************************)
(* Those that leave the FIFO alone, and do not use the space they found.   *)
LEMMA FifoKept ==
  ASSUME Typed, FifoInv, UNCHANGED <<mrp, taken, stream>>,
         pc' \notin {"polled", "put", "publish", "set"}, fifoSet' => fifoSet,
         \A i \in 1 .. Len(cmds') : \/ cmds'[i] # "fifo"
                                    \/ i \in 1 .. Len(cmds) /\ cmds'[i] = cmds[i]
  PROVE  FifoInv'
<1>1. ram' = ram /\ mwp' = mwp /\ sent' = sent /\ mrp' = mrp /\ taken' = taken
  BY DEF stream
<1>2. Ordered' /\ NotReset'
  BY <1>1 DEF FifoInv, Ordered, NotReset
<1>3. Room' /\ Filled' /\ SetQueued'
  BY DEF Room, Filled, SetQueued
<1>. QED
  BY <1>2, <1>3 DEF FifoInv

LEMMA CoprocKept ==
  ASSUME Typed, UNCHANGED <<need, fault, mrp, taken, stream>>, UNCHANGED cmds
  PROVE  TypeCo' /\ TypeStream' /\ \A i \in 1 .. Len(cmds') : i \in 1 .. Len(cmds) /\ cmds'[i] = cmds[i]
BY DEF Typed, TypeCo, TypeStream, stream

LEMMA CoprocQueued ==
  ASSUME Typed, UNCHANGED <<need, fault, mrp, taken, stream>>,
         NEW c \in Commands, ~CmdFull, cmds' = Append(cmds, c)
  PROVE  /\ TypeCo' /\ TypeStream' /\ cmds' # <<>> /\ cmds'[Len(cmds')] = c
         /\ \A i \in 1 .. Len(cmds') :
              cmds'[i] = c \/ (i \in 1 .. Len(cmds) /\ cmds'[i] = cmds[i])
<1>1. cmds \in Seq(Commands) /\ Len(cmds) \in Nat /\ Len(cmds) <= CmdSlots /\ CmdSlots \in Nat
      /\ Len(cmds) # CmdSlots
  BY SizeAssumption DEF Typed, TypeCo, CmdFull
<1>2. /\ cmds' \in Seq(Commands) /\ Len(cmds') = Len(cmds) + 1
      /\ cmds' # <<>> /\ cmds'[Len(cmds')] = c
      /\ \A i \in 1 .. Len(cmds') :
           cmds'[i] = c \/ (i \in 1 .. Len(cmds) /\ cmds'[i] = cmds[i])
  BY <1>1, Queued
<1>3. Len(cmds') <= CmdSlots
  BY <1>1, <1>2
<1>. QED
  BY <1>2, <1>3 DEF Typed, TypeCo, TypeStream, stream

LEMMA SetKeeps ==
  ASSUME Typed, Inv, Set
  PROVE  Typed' /\ Inv'
<1>1. /\ pc = "ready" /\ ~fifoSet /\ ~playing /\ ~CmdFull /\ caller' \in Callers
      /\ cmds' = Append(cmds, "fifo") /\ pc' = "set"
      /\ UNCHANGED <<need, fault, mrp, taken, stream, hal, file, buffer, ptr, space>>
  BY DEF Set
<1>2. "fifo" \in Commands
  BY DEF Commands
<1>3. TypeCo' /\ TypeStream' /\ cmds' # <<>> /\ cmds'[Len(cmds')] = "fifo"
  BY <1>1, <1>2, CoprocQueued
<1>4. /\ fifoSet' = fifoSet /\ cmdFault' = cmdFault /\ handle' = handle /\ playing' = playing
      /\ filePos' = filePos /\ remaining' = remaining /\ size' = size /\ base' = base
      /\ done' = done /\ ptr' = ptr /\ space' = space
  BY <1>1 DEF hal, file, buffer
<1>5. TypeFlags' /\ TypeFile'
  BY <1>1, <1>4 DEF Typed, TypeFlags, TypeFile, Pcs
<1>6. Roles'
  BY <1>1, <1>4 DEF Inv, HostInv, Roles, InLoad, InWrite
<1>7. Buffer' /\ Position'
  BY <1>1, <1>4 DEF Inv, HostInv, Buffer, Position, InWrite
<1>8. FifoInv'
  BY <1>1, <1>3, <1>4 DEF FifoInv, Room, Filled, NotReset, SetQueued, Ordered
<1>. QED
  BY <1>3, <1>5, <1>6, <1>7, <1>8 DEF Typed, Inv, HostInv

(* The media FIFO is set: it is empty, and its stream begins.              *)
LEMMA SetReturnsOpen ==
  ASSUME Typed, Inv, pc = "set", CmdIdle, SetReturn(TRUE), UNCHANGED cmdFault
  PROVE  Typed' /\ Inv'
<1>1. /\ fifoSet' = TRUE /\ filePos' = 0 /\ ptr' = (caller = "frame")
      /\ pc' = IF caller = "direct" THEN "ready" ELSE "queue"
      /\ UNCHANGED <<coproc, stream, handle, playing, remaining, buffer, caller, space>>
  BY DEF SetReturn
<1>2. /\ cmds' = cmds /\ mrp' = mrp /\ taken' = taken /\ ram' = ram /\ mwp' = mwp /\ sent' = sent
      /\ need' = need /\ fault' = fault /\ handle' = handle /\ playing' = playing
      /\ remaining' = remaining /\ size' = size /\ base' = base
      /\ done' = done /\ caller' = caller /\ space' = space /\ cmdFault' = cmdFault
  BY <1>1 DEF coproc, stream, buffer
<1>a. fifoSet' /\ ptr' \in BOOLEAN /\ (ptr' <=> caller = "frame")
  BY <1>1
<1>b. caller = "direct" \/ caller = "frame" \/ caller = "video"
  BY SizeAssumption DEF Typed, TypeFlags
<1>3. cmds = <<>> /\ mrp = 0 /\ mwp = 0 /\ taken = 0 /\ sent = 0
  BY DEF CmdIdle, Inv, FifoInv, SetQueued
<1>4. TypeCo' /\ TypeStream'
  BY <1>2 DEF Typed, TypeCo, TypeStream
<1>5. TypeFlags' /\ TypeFile'
  BY <1>1, <1>2, <1>a, SizeAssumption DEF Typed, TypeFlags, TypeFile, Pcs
<1>c. ~handle /\ ~playing
  BY DEF Inv, HostInv, Roles
<1>6. Roles'
  BY <1>1, <1>2, <1>a, <1>b, <1>c DEF Roles, InLoad, InWrite
<1>7. Buffer' /\ Position'
  BY <1>1, <1>2, <1>3 DEF Inv, HostInv, Roles, Buffer, Position, InWrite
<1>8. Gap(0, 0) = 0
  BY Parameters, Distance
<1>9. Ordered'
  BY <1>2, <1>3, <1>8 DEF Ordered, WordAddr
<1>10. Room' /\ Filled' /\ NotReset' /\ SetQueued'
  BY <1>1, <1>2, <1>3 DEF Room, Filled, NotReset, SetQueued
<1>. QED
  BY <1>4, <1>5, <1>6, <1>7, <1>9, <1>10 DEF Typed, Inv, HostInv, FifoInv

LEMMA SetReturnsClosed ==
  ASSUME Typed, Inv, pc = "set", SetReturn(FALSE), cmdFault' \in BOOLEAN
  PROVE  Typed' /\ Inv'
<1>1. /\ fifoSet' = FALSE /\ filePos' = 0 /\ ptr' = (caller = "frame")
      /\ pc' = IF caller = "direct" \/ caller = "frame" THEN "ready" ELSE "queue"
      /\ UNCHANGED <<coproc, stream, handle, playing, remaining, buffer, caller, space>>
  BY DEF SetReturn
<1>2. /\ handle' = handle /\ playing' = playing
      /\ remaining' = remaining /\ size' = size /\ base' = base
      /\ done' = done /\ caller' = caller /\ space' = space
      /\ UNCHANGED <<need, fault, mrp, taken, stream>> /\ UNCHANGED cmds
  BY <1>1 DEF coproc, buffer
<1>3. TypeCo' /\ TypeStream'
  BY <1>2, CoprocKept
<1>a. ~fifoSet' /\ fifoSet' \in BOOLEAN /\ ptr' \in BOOLEAN /\ (ptr' <=> caller = "frame")
  BY <1>1
<1>b. caller = "direct" \/ caller = "frame" \/ caller = "video"
  BY SizeAssumption DEF Typed, TypeFlags
<1>c. ~handle /\ ~playing
  BY DEF Inv, HostInv, Roles
<1>4. TypeFlags' /\ TypeFile'
  BY <1>1, <1>2, <1>a, SizeAssumption DEF Typed, TypeFlags, TypeFile, Pcs
<1>5. Roles'
  BY <1>1, <1>2, <1>a, <1>b, <1>c DEF Roles, InLoad, InWrite
<1>6. Buffer' /\ Position'
  BY <1>1, <1>2 DEF Inv, HostInv, Roles, Buffer, Position, InWrite
<1>7. FifoInv'
  BY <1>1, <1>2, CoprocKept, FifoKept DEF Inv
<1>. QED
  BY <1>3, <1>4, <1>5, <1>6, <1>7 DEF Typed, Inv, HostInv

LEMMA QueueMediaKeeps ==
  ASSUME Typed, Inv, QueueMedia \/ QueueAborted
  PROVE  Typed' /\ Inv'
<1>1. /\ pc = "queue" /\ pc' = "load"
      /\ \/ cmds' = Append(cmds, "media") /\ ~CmdFull
         \/ cmds' = cmds
      /\ cmdFault' \in BOOLEAN
      /\ UNCHANGED <<need, fault, mrp, taken, stream, fifoSet, handle, playing,
                     file, buffer, caller, ptr, space>>
  BY DEF QueueMedia, QueueAborted, Typed, TypeFlags, coproc, hal, file, buffer
<1>2. "media" \in Commands
  BY DEF Commands
<1>3. /\ TypeCo' /\ TypeStream'
      /\ \A i \in 1 .. Len(cmds') : \/ cmds'[i] # "fifo"
                                    \/ i \in 1 .. Len(cmds) /\ cmds'[i] = cmds[i]
  <2>1. CASE cmds' = Append(cmds, "media") /\ ~CmdFull
    BY <1>1, <1>2, <2>1, CoprocQueued
  <2>2. CASE cmds' = cmds
    BY <1>1, <2>2, CoprocKept
  <2>. QED
    BY <1>1, <2>1, <2>2
<1>4. /\ fifoSet' = fifoSet /\ handle' = handle /\ playing' = playing
      /\ filePos' = filePos /\ remaining' = remaining /\ size' = size /\ base' = base
      /\ done' = done /\ caller' = caller /\ ptr' = ptr /\ space' = space /\ sent' = sent
  BY <1>1 DEF file, buffer, stream
<1>5. TypeFlags' /\ TypeFile'
  BY <1>1, <1>4 DEF Typed, TypeFlags, TypeFile, Pcs
<1>6. Roles' /\ Buffer' /\ Position'
  BY <1>1, <1>4 DEF Inv, HostInv, Roles, Buffer, Position, InLoad, InWrite
<1>7. FifoInv'
  BY <1>1, <1>3, <1>4, FifoKept DEF Inv
<1>. QED
  BY <1>3, <1>5, <1>6, <1>7 DEF Typed, Inv, HostInv

LEMMA QueueOtherKeeps ==
  ASSUME Typed, Inv, QueueOther
  PROVE  Typed' /\ Inv'
<1>1. PICK cmd \in {"other", "media"} : cmds' = Append(cmds, cmd)
  BY DEF QueueOther
<1>2. /\ pc = "ready" /\ ~CmdFull
      /\ UNCHANGED <<need, fault, mrp, taken, stream, HostKept>>
  BY DEF QueueOther
<1>3. cmd \in Commands /\ cmd # "fifo"
  BY DEF Commands
<1>4. /\ TypeCo' /\ TypeStream'
      /\ \A i \in 1 .. Len(cmds') : \/ cmds'[i] # "fifo"
                                    \/ i \in 1 .. Len(cmds) /\ cmds'[i] = cmds[i]
  BY <1>1, <1>2, <1>3, CoprocQueued
<1>5. TypeFlags' /\ TypeFile' /\ HostInv'
  BY <1>2, HostKeeps DEF Inv, stream
<1>6. pc' = pc /\ fifoSet' = fifoSet
  BY <1>2 DEF HostKept, call, hal
<1>7. FifoInv'
  BY <1>2, <1>4, <1>6, FifoKept DEF Inv
<1>. QED
  BY <1>4, <1>5, <1>7 DEF Typed, Inv

(* Steps of the host that do not write commands or data.                   *)
LEMMA HostOnly ==
  ASSUME Typed, UNCHANGED <<coproc, stream>>
  PROVE  /\ TypeCo' /\ TypeStream'
         /\ sent' = sent /\ mrp' = mrp /\ mwp' = mwp
         /\ UNCHANGED <<mrp, taken, stream>>
         /\ \A i \in 1 .. Len(cmds') : i \in 1 .. Len(cmds) /\ cmds'[i] = cmds[i]
BY DEF Typed, TypeCo, TypeStream, coproc, stream

LEMMA CallerIs ==
  ASSUME Typed
  PROVE  caller = "direct" \/ caller = "frame" \/ caller = "video"
BY SizeAssumption DEF Typed, TypeFlags

LEMMA NextFrameKeeps ==
  ASSUME Typed, Inv, NextFrame
  PROVE  Typed' /\ Inv'
<1>1. /\ pc = "ready" /\ playing
      /\ UNCHANGED <<coproc, stream, cmdFault, file, buffer, caller, ptr, space>>
      /\ \/ Stop /\ pc' = pc
         \/ fifoSet /\ pc' = "queue" /\ UNCHANGED <<handle, playing, fifoSet>>
  BY DEF NextFrame
<1>2. /\ cmdFault' = cmdFault /\ filePos' = filePos /\ remaining' = remaining
      /\ size' = size /\ base' = base
      /\ done' = done /\ caller' = caller /\ ptr' = ptr /\ space' = space /\ sent' = sent
  BY <1>1, HostOnly DEF file, buffer
<1>3. TypeFlags' /\ TypeFile'
  BY <1>1, <1>2 DEF Stop, Typed, TypeFlags, TypeFile, Pcs
<1>4. caller = "frame"
  BY <1>1 DEF Inv, HostInv, Roles
<1>5. Roles' /\ Buffer' /\ Position'
  <2>1. CASE ~fifoSet' /\ ~handle' /\ ~playing' /\ pc' = "ready"
    BY <1>1, <1>2, <1>4, <2>1 DEF Inv, HostInv, Roles, Buffer, Position, InLoad, InWrite
  <2>2. CASE fifoSet /\ pc' = "queue" /\ UNCHANGED <<handle, playing, fifoSet>>
    BY <1>1, <1>2, <1>4, <2>2 DEF Inv, HostInv, Roles, Buffer, Position, InLoad, InWrite
  <2>. QED
    BY <1>1, <2>1, <2>2 DEF Stop
<1>6. FifoInv'
  <2>1. fifoSet' => fifoSet
    BY <1>1 DEF Stop
  <2>2. pc' \notin {"polled", "put", "publish", "set"}
    BY <1>1
  <2>. QED
    BY <1>1, <2>1, <2>2, HostOnly, FifoKept DEF Inv
<1>. QED
  BY <1>1, <1>3, <1>5, <1>6, HostOnly DEF Typed, Inv, HostInv

(* How a load returns, which is told apart by what its callers do.         *)
Returned ==
  /\ pc' = "ready"
  /\ IF playing /\ ~handle
       THEN Stop
       ELSE playing' = TRUE /\ UNCHANGED <<handle, fifoSet>>

Failed == pc' = "check" /\ Stop

LEMMA LoadReturns ==
  ASSUME Typed, Inv, Failed \/ (Returned /\ caller = "frame" /\ pc = "flush"),
         pc \in {"load", "flush", "drain", "drained"}, fifoSet, cmdFault' \in BOOLEAN,
         UNCHANGED <<coproc, stream, file, buffer, caller, ptr, space>>
  PROVE  Typed' /\ Inv'
<1>1. /\ filePos' = filePos /\ remaining' = remaining /\ size' = size /\ base' = base
      /\ done' = done /\ caller' = caller /\ ptr' = ptr /\ space' = space /\ sent' = sent
  BY HostOnly DEF file, buffer
<1>2. /\ fifoSet' \in BOOLEAN /\ handle' \in BOOLEAN /\ playing' \in BOOLEAN
      /\ pc' \in {"ready", "check"}
  BY DEF Failed, Returned, Stop, Typed, TypeFlags
<1>3. TypeFlags' /\ TypeFile'
  BY <1>1, <1>2 DEF Typed, TypeFlags, TypeFile, Pcs
<1>4. caller # "direct"
  BY DEF Inv, HostInv, Roles, InWrite
<1>5. Roles' /\ Position' /\ Buffer'
  <2>1. CASE Failed
    <3>1. ~fifoSet' /\ ~handle' /\ ~playing' /\ pc' = "check"
      BY <2>1 DEF Failed, Stop
    <3>. QED
      BY <1>1, <1>4, <3>1 DEF Inv, HostInv, Roles, Buffer, Position, InLoad, InWrite
  <2>2. CASE Returned /\ caller = "frame" /\ pc = "flush"
    <3>1. pc' = "ready" /\ caller' = "frame"
      BY <1>1, <2>2 DEF Returned
    <3>2. ptr /\ filePos = sent /\ filePos + remaining = FileLen
      BY <2>2 DEF Inv, HostInv, Roles, Position
    <3>3. handle' => playing'
      BY <2>2 DEF Returned, Stop
    <3>. QED
      BY <1>1, <3>1, <3>2, <3>3 DEF Inv, HostInv, Roles, Buffer, Position, InLoad, InWrite
  <2>. QED
    BY <2>1, <2>2
<1>6. FifoInv'
  BY <1>2, HostOnly, FifoKept DEF Inv
<1>. QED
  BY <1>3, <1>5, <1>6, HostOnly DEF Typed, Inv, HostInv

LEMMA LoadStartKeeps ==
  ASSUME WholeWords, Typed, Inv, LoadStart
  PROVE  Typed' /\ Inv'
<1>1. /\ pc = "load"
      /\ UNCHANGED <<coproc, stream, buffer, caller, ptr, space>>
  BY DEF LoadStart
<1>2. /\ size' = size /\ base' = base
      /\ done' = done /\ caller' = caller /\ ptr' = ptr /\ space' = space /\ sent' = sent
  BY <1>1, HostOnly DEF buffer
<1>3. CASE /\ ~fifoSet /\ pc' = "overrun"
           /\ UNCHANGED <<hal, file>>
  <2>1. /\ fifoSet' = fifoSet /\ cmdFault' = cmdFault /\ handle' = handle /\ playing' = playing
        /\ filePos' = filePos /\ remaining' = remaining
    BY <1>3 DEF hal, file
  <2>2. TypeFlags' /\ TypeFile'
    BY <1>2, <1>3, <2>1 DEF Typed, TypeFlags, TypeFile, Pcs
  <2>3. Roles' /\ Buffer' /\ Position'
    BY <1>1, <1>2, <1>3, <2>1 DEF Inv, HostInv, Roles, Buffer, Position, InLoad, InWrite
  <2>4. FifoInv'
    BY <1>1, <1>3, <2>1, HostOnly, FifoKept DEF Inv
  <2>. QED
    BY <1>1, <2>2, <2>3, <2>4, HostOnly DEF Typed, Inv, HostInv
<1>4. CASE /\ fifoSet /\ ~cmdFault /\ (playing => handle)
           /\ handle' = ptr
           /\ IF handle THEN UNCHANGED file
                        ELSE filePos' = 0 /\ remaining' = FileLen
           /\ pc' = "block"
           /\ UNCHANGED <<fifoSet, cmdFault, playing>>
  <2>1. /\ filePos' \in 0 .. FileLen /\ remaining' \in 0 .. FileLen
        /\ filePos' = sent /\ filePos' + remaining' = FileLen
        /\ filePos' % 4 = 0 /\ remaining' % 4 = 0
    <3>1. CASE handle
      BY <1>1, <1>4, <3>1 DEF file, Inv, HostInv, Buffer, Position, Typed, TypeFile
    <3>2. CASE ~handle
      <4>1. sent = 0
        BY <1>1, <1>4, <3>2 DEF Inv, HostInv, Position
      <4>. QED
        BY <1>4, <3>2, <4>1, SizeAssumption DEF WholeWords
    <3>. QED
      BY <3>1, <3>2
  <2>2. TypeFlags' /\ TypeFile'
    BY <1>2, <1>4, <2>1 DEF Typed, TypeFlags, TypeFile, Pcs
  <2>3. caller # "direct" /\ (caller = "frame" => ptr) /\ (caller = "video" => ~ptr)
        /\ (playing => caller = "frame")
    BY <1>1 DEF Inv, HostInv, Roles, InWrite
  <2>4. Roles' /\ Position'
    BY <1>2, <1>4, <2>1, <2>3 DEF Roles, Position, InLoad, InWrite
  <2>5. Buffer'
    BY <1>4, <2>1 DEF Buffer, InWrite
  <2>6. FifoInv'
    BY <1>1, <1>4, HostOnly, FifoKept DEF Inv
  <2>. QED
    BY <1>1, <2>2, <2>4, <2>5, <2>6, HostOnly DEF Typed, Inv, HostInv
<1>5. CASE /\ fifoSet /\ LoadReturn(FALSE)
           /\ UNCHANGED <<cmdFault, file>>
  <2>1. Failed
    BY <1>5 DEF LoadReturn, Failed
  <2>. QED
    BY <1>1, <1>5, <2>1, LoadReturns DEF Typed, TypeFlags
<1>. QED
  BY <1>3, <1>4, <1>5 DEF LoadStart

(* A cast to 16 bits keeps whole words whole and does not enlarge.         *)
LEMMA CastIs ==
  ASSUME NEW n \in Nat, n % 4 = 0
  PROVE  /\ Uint16(n) \in Nat /\ Uint16(n) < 65536 /\ Uint16(n) <= n
         /\ Uint16(n) % 4 = 0
BY DEF Uint16

LEMMA LoadBlockKeeps ==
  ASSUME WholeWords, Typed, Inv, LoadBlock
  PROVE  Typed' /\ Inv'
<1> DEFINE n == Uint16(Lesser(HalfSize, remaining))
<1>1. /\ pc = "block" /\ remaining > 0
      /\ filePos' = filePos + n /\ remaining' = remaining - n
      /\ size' = Uint16(Align4(n)) /\ n > 0
      /\ base' = filePos /\ done' = 0 /\ pc' = "poll"
      /\ UNCHANGED <<coproc, stream, hal, caller, ptr, space>>
  BY DEF LoadBlock
<1>2. /\ fifoSet' = fifoSet /\ cmdFault' = cmdFault /\ handle' = handle /\ playing' = playing
      /\ caller' = caller /\ ptr' = ptr /\ space' = space /\ sent' = sent
  BY <1>1, HostOnly DEF hal
<1>3. /\ filePos \in 0 .. FileLen /\ remaining \in 0 .. FileLen /\ FileLen \in Nat
      /\ filePos % 4 = 0 /\ remaining % 4 = 0
      /\ filePos = sent /\ filePos + remaining = FileLen
  BY <1>1, SizeAssumption DEF Typed, TypeFile, Inv, HostInv, Buffer, Position
<1>4. n \in Nat /\ n < 65536 /\ n % 4 = 0 /\ n <= remaining
  <2> DEFINE m == Lesser(HalfSize, remaining)
  <2>1. m \in Nat /\ m % 4 = 0 /\ m <= remaining
    BY <1>1, <1>3, Parameters DEF Lesser
  <2>2. n = Uint16(m) /\ remaining \in Nat
    BY <1>3
  <2> HIDE DEF m, n
  <2>3. n \in Nat /\ n < 65536 /\ n % 4 = 0 /\ n <= m
    BY <2>1, <2>2, CastIs
  <2>. QED
    BY <2>1, <2>2, <2>3
<1> HIDE DEF n
<1>5. size' = n
  <2>1. Align4(n) = n
    BY <1>4 DEF Align4
  <2>. QED
    BY <1>1, <1>4, <2>1 DEF Uint16
<1>6. /\ filePos' \in 0 .. FileLen /\ remaining' \in 0 .. FileLen
      /\ filePos' % 4 = 0 /\ remaining' % 4 = 0
  BY <1>1, <1>3, <1>4
<1>7. TypeFlags' /\ TypeFile'
  BY <1>1, <1>2, <1>3, <1>4, <1>5, <1>6 DEF Typed, TypeFlags, TypeFile, Pcs
<1>8. Roles' /\ Position'
  BY <1>1, <1>2 DEF Inv, HostInv, Roles, Position, InLoad, InWrite
<1>9. Buffer'
  BY <1>1, <1>2, <1>3, <1>4, <1>5, <1>6 DEF Inv, HostInv, Roles, Buffer, InWrite
<1>10. FifoInv'
  BY <1>1, <1>2, HostOnly, FifoKept DEF Inv
<1>. QED
  BY <1>1, <1>7, <1>8, <1>9, <1>10, HostOnly DEF Typed, Inv, HostInv

LEMMA LoadEndKeeps ==
  ASSUME Typed, Inv, LoadEnd
  PROVE  Typed' /\ Inv'
<1>1. /\ pc \in {"block", "loaded"} /\ pc' \in {"flush", "drain"}
      /\ pc' = IF ptr THEN "flush" ELSE "drain"
      /\ UNCHANGED <<coproc, stream, fifoSet, cmdFault, playing, file, buffer,
                     caller, ptr, space>>
  BY DEF LoadEnd
<1>2. /\ fifoSet' = fifoSet /\ cmdFault' = cmdFault /\ playing' = playing
      /\ filePos' = filePos /\ remaining' = remaining /\ size' = size /\ base' = base
      /\ done' = done /\ caller' = caller /\ ptr' = ptr /\ space' = space /\ sent' = sent
  BY <1>1, HostOnly DEF file, buffer
<1>3. handle' \in BOOLEAN
  BY DEF LoadEnd
<1>4. TypeFlags' /\ TypeFile'
  BY <1>1, <1>2, <1>3 DEF Typed, TypeFlags, TypeFile, Pcs
<1>5. Roles' /\ Buffer' /\ Position'
  BY <1>1, <1>2 DEF Inv, HostInv, Roles, Buffer, Position, InLoad, InWrite
<1>6. FifoInv'
  BY <1>1, <1>2, HostOnly, FifoKept DEF Inv
<1>. QED
  BY <1>1, <1>4, <1>5, <1>6, HostOnly DEF Typed, Inv, HostInv

LEMMA LoadFlushKeeps ==
  ASSUME Typed, Inv, LoadFlush \/ LoadFlushAborted
  PROVE  Typed' /\ Inv'
<1>1. /\ pc = "flush" /\ cmdFault' \in BOOLEAN
      /\ LoadReturn(TRUE) \/ LoadReturn(FALSE)
      /\ UNCHANGED <<coproc, stream, file, buffer, caller, ptr, space>>
  <2>1. CASE LoadFlush
    <3>1. CmdIdle \in BOOLEAN
      BY DEF CmdIdle
    <3>. QED
      BY <2>1, <3>1 DEF LoadFlush, Typed, TypeCo
  <2>2. CASE LoadFlushAborted
    BY <2>2 DEF LoadFlushAborted, Typed, TypeFlags
  <2>. QED
    BY <2>1, <2>2
<1>2. Failed \/ (Returned /\ caller = "frame")
  BY <1>1 DEF LoadReturn, Failed, Returned
<1>3. fifoSet
  BY <1>1 DEF Inv, HostInv, Roles, InLoad
<1>. QED
  BY <1>1, <1>2, <1>3, LoadReturns

LEMMA CheckKeeps ==
  ASSUME Typed, Inv, Check
  PROVE  Typed' /\ Inv'
<1>1. /\ pc = "check" /\ pc' \in {"ready", "force"}
      /\ UNCHANGED <<coproc, stream, hal, file, buffer, caller, ptr, space>>
  BY DEF Check
<1>2. /\ fifoSet' = fifoSet /\ cmdFault' = cmdFault /\ handle' = handle /\ playing' = playing
      /\ filePos' = filePos /\ remaining' = remaining /\ size' = size /\ base' = base
      /\ done' = done /\ caller' = caller /\ ptr' = ptr /\ space' = space /\ sent' = sent
  BY <1>1, HostOnly DEF hal, file, buffer
<1>3. TypeFlags' /\ TypeFile'
  BY <1>1, <1>2 DEF Typed, TypeFlags, TypeFile, Pcs
<1>4. Roles' /\ Buffer' /\ Position'
  BY <1>1, <1>2 DEF Inv, HostInv, Roles, Buffer, Position, InLoad, InWrite
<1>5. FifoInv'
  BY <1>1, <1>2, HostOnly, FifoKept DEF Inv
<1>. QED
  BY <1>1, <1>3, <1>4, <1>5, HostOnly DEF Typed, Inv, HostInv

LEMMA ForceFaultKeeps ==
  ASSUME Typed, Inv, ForceFault
  PROVE  Typed' /\ Inv'
<1>1. /\ pc = "force" /\ pc' = "ready" /\ fault' \in BOOLEAN /\ cmdFault' \in BOOLEAN
      /\ UNCHANGED <<cmds, need, mrp, taken, stream, fifoSet, handle, playing,
                     file, buffer, caller, ptr, space>>
  BY DEF ForceFault
<1>2. /\ fifoSet' = fifoSet /\ handle' = handle /\ playing' = playing
      /\ filePos' = filePos /\ remaining' = remaining /\ size' = size /\ base' = base
      /\ done' = done /\ caller' = caller /\ ptr' = ptr /\ space' = space /\ sent' = sent
  BY <1>1 DEF stream, file, buffer
<1>3. TypeCo' /\ TypeStream'
  BY <1>1 DEF Typed, TypeCo, TypeStream, stream
<1>4. TypeFlags' /\ TypeFile'
  BY <1>1, <1>2 DEF Typed, TypeFlags, TypeFile, Pcs
<1>5. Roles' /\ Buffer' /\ Position'
  BY <1>1, <1>2 DEF Inv, HostInv, Roles, Buffer, Position, InLoad, InWrite
<1>6. FifoInv'
  BY <1>1, <1>2, FifoKept DEF Inv
<1>. QED
  BY <1>3, <1>4, <1>5, <1>6 DEF Typed, Inv, HostInv

LEMMA WriteKeeps ==
  ASSUME Typed, Inv, Write
  PROVE  Typed' /\ Inv'
<1>1. /\ pc = "ready" /\ caller = "direct" /\ fifoSet
      /\ size' \in WriteSizes /\ filePos + size' <= FileLen
      /\ ptr' \in BOOLEAN /\ base' = filePos /\ done' = 0 /\ pc' = "poll"
      /\ UNCHANGED <<coproc, stream, hal, file, caller, space>>
  BY DEF Write
<1>2. /\ fifoSet' = fifoSet /\ cmdFault' = cmdFault /\ handle' = handle /\ playing' = playing
      /\ filePos' = filePos /\ remaining' = remaining
      /\ caller' = caller /\ space' = space /\ sent' = sent
  BY <1>1, HostOnly DEF hal, file
<1>3. size' \in Nat /\ size' > 0 /\ size' % 4 = 0
  <2>1. \A n \in WriteSizes : n \in Nat \ {0} /\ n % 4 = 0
    BY SizeAssumption, Zenon
  <2>2. PICK n \in WriteSizes : size' = n
    BY <1>1
  <2>3. n \in Nat /\ n > 0 /\ n % 4 = 0
    BY <2>1
  <2>. QED
    BY <2>2, <2>3
<1>4. filePos \in 0 .. FileLen /\ filePos = sent /\ filePos % 4 = 0 /\ remaining % 4 = 0
  BY <1>1 DEF Typed, TypeFile, Inv, HostInv, Buffer, Position
<1>5. TypeFlags' /\ TypeFile'
  BY <1>1, <1>2, <1>3 DEF Typed, TypeFlags, TypeFile, Pcs
<1>6. Roles' /\ Position'
  BY <1>1, <1>2 DEF Inv, HostInv, Roles, Position, InLoad, InWrite
<1>7. Buffer'
  <2>1. /\ filePos' % 4 = 0 /\ remaining' % 4 = 0 /\ done' % 4 = 0 /\ done' < size'
        /\ base' + size' <= FileLen /\ sent' = base' + done' /\ filePos' = base'
    BY <1>1, <1>2, <1>3, <1>4
  <2>2. caller' = "direct" /\ pc' = "poll" /\ done' = 0
    BY <1>1, <1>2
  <2>. QED
    BY <1>3, <2>1, <2>2 DEF Buffer, InWrite
<1>8. FifoInv'
  BY <1>1, <1>2, HostOnly, FifoKept DEF Inv
<1>. QED
  BY <1>1, <1>5, <1>6, <1>7, <1>8, HostOnly DEF Typed, Inv, HostInv

(* Returning from wrMem, finished or not, leaves the file where the stream *)
(* ends.                                                                   *)
LEMMA WrMemReturns ==
  ASSUME Typed, Inv, NEW ok \in BOOLEAN, WrMemReturn(ok), pc \in InWrite,
         cmdFault' \in BOOLEAN,
         UNCHANGED <<coproc, stream, handle, playing, buffer, caller, ptr, space>>
  PROVE  Typed' /\ Inv'
<1>1. /\ handle' = handle /\ playing' = playing
      /\ size' = size /\ base' = base
      /\ done' = done /\ caller' = caller /\ ptr' = ptr /\ space' = space /\ sent' = sent
  BY HostOnly DEF buffer
<1>2. /\ size \in Nat /\ done \in 0 .. size /\ base \in 0 .. FileLen /\ FileLen \in Nat
      /\ size % 4 = 0 /\ done % 4 = 0
      /\ base + size <= FileLen /\ sent = base + done
      /\ filePos \in 0 .. FileLen /\ remaining \in 0 .. FileLen
      /\ filePos % 4 = 0 /\ remaining % 4 = 0
  BY SizeAssumption DEF Typed, TypeFile, Inv, HostInv, Buffer
<1>3. fifoSet /\ TypeCo' /\ TypeStream'
  BY HostOnly DEF Inv, HostInv, Roles, InLoad
<1>4. CASE /\ caller = "direct" /\ filePos' = filePos + done
           /\ fifoSet' = (ok \/ ptr) /\ pc' = "ready" /\ remaining' = remaining
  <2>1. filePos = base /\ ~handle /\ ~playing
    BY <1>4 DEF Inv, HostInv, Buffer, Roles
  <2>2. filePos' = sent /\ filePos' \in 0 .. FileLen /\ filePos' % 4 = 0
    BY <1>2, <1>4, <2>1
  <2>3. fifoSet' \in BOOLEAN
    BY <1>4
  <2>4. TypeFlags' /\ TypeFile'
    BY <1>1, <1>2, <1>4, <2>2, <2>3 DEF Typed, TypeFlags, TypeFile, Pcs
  <2>5. Roles' /\ Buffer' /\ Position'
    BY <1>1, <1>2, <1>4, <2>1, <2>2 DEF Roles, Buffer, Position, InLoad, InWrite
  <2>6. FifoInv'
    BY <1>3, <1>4, HostOnly, FifoKept DEF Inv
  <2>. QED
    BY <1>3, <2>4, <2>5, <2>6 DEF Typed, Inv, HostInv
<1>5. CASE /\ caller # "direct" /\ fifoSet' = fifoSet
           /\ pc' = IF ok /\ done = size THEN "block" ELSE "loaded"
           /\ IF ptr /\ done < size THEN SeekBack ELSE UNCHANGED file
  <2>1. filePos = base + size /\ filePos + remaining = FileLen
    BY <1>5 DEF Inv, HostInv, Buffer
  <2>2. /\ filePos' \in 0 .. FileLen /\ remaining' \in 0 .. FileLen
        /\ filePos' % 4 = 0 /\ remaining' % 4 = 0
        /\ filePos' + remaining' = FileLen
        /\ ptr \/ done = size => filePos' = sent
    <3>1. CASE ptr /\ done < size
      <4>1. filePos' = filePos - (size - done) /\ remaining' = remaining + (size - done)
        BY <1>5, <3>1 DEF SeekBack
      <4>. QED
        BY <1>2, <2>1, <4>1
    <3>2. CASE ~(ptr /\ done < size)
      <4>1. filePos' = filePos /\ remaining' = remaining
        BY <1>5, <3>2 DEF file
      <4>2. ptr => done = size
        BY <1>2, <3>2
      <4>. QED
        BY <1>2, <2>1, <4>1, <4>2
    <3>. QED
      BY <3>1, <3>2
  <2>3. pc' \in {"block", "loaded"} /\ (pc' = "block" => done = size)
    BY <1>5
  <2>4. TypeFlags' /\ TypeFile'
    BY <1>1, <1>5, <2>2, <2>3 DEF Typed, TypeFlags, TypeFile, Pcs
  <2>5. Roles'
    BY <1>1, <1>5, <2>3 DEF Inv, HostInv, Roles, InLoad, InWrite
  <2>6. Buffer'
    BY <2>2, <2>3 DEF Buffer, InWrite
  <2>8. Position'
    <3>1. pc' = "block" \/ ptr => filePos' = sent'
      BY <1>1, <2>2, <2>3
    <3>. QED
      BY <1>1, <2>2, <2>3, <3>1 DEF Position
  <2>7. FifoInv'
    BY <1>3, <1>5, <2>3, HostOnly, FifoKept DEF Inv
  <2>. QED
    BY <1>3, <2>4, <2>5, <2>6, <2>7, <2>8 DEF Typed, Inv, HostInv
<1>. QED
  BY <1>4, <1>5 DEF WrMemReturn

LEMMA WrittenKeeps ==
  ASSUME Typed, Inv, Written
  PROVE  Typed' /\ Inv'
<1>1. /\ pc \in InWrite /\ WrMemReturn(TRUE)
      /\ UNCHANGED <<coproc, stream, handle, playing, buffer, caller, ptr, space>>
      /\ cmdFault' \in BOOLEAN
  BY DEF Written, InWrite, Typed, TypeFlags
<1>. QED
  BY <1>1, WrMemReturns

(* A wait for space in the media FIFO that fails.                          *)
LEMMA WaitFailsKeeps ==
  ASSUME Typed, Inv, WaitFails, pc \in {"poll", "polled", "drain", "drained"},
         cmdFault' \in BOOLEAN, UNCHANGED <<coproc, stream, buffer, caller, ptr, space>>
  PROVE  Typed' /\ Inv'
<1>1. CASE pc \in {"drain", "drained"}
  <2>1. Failed /\ UNCHANGED file
    BY <1>1 DEF WaitFails, LoadReturn, Failed
  <2>2. fifoSet
    BY <1>1 DEF Inv, HostInv, Roles, InLoad
  <2>. QED
    BY <1>1, <2>1, <2>2, LoadReturns
<1>2. CASE pc \in {"poll", "polled"}
  <2>1. WrMemReturn(FALSE) /\ UNCHANGED <<handle, playing>> /\ pc \in InWrite
    BY <1>2 DEF WaitFails, InWrite
  <2>. QED
    BY <2>1, WrMemReturns
<1>. QED
  BY <1>1, <1>2

LEMMA PollSpaceKeeps ==
  ASSUME Typed, Inv, PollSpace
  PROVE  Typed' /\ Inv'
<1>1. /\ pc \in {"poll", "drain"} /\ space' = Space
      /\ pc' = IF pc = "poll" THEN "polled" ELSE "drained"
      /\ UNCHANGED <<coproc, stream, hal, file, buffer, caller, ptr>>
  BY DEF PollSpace
<1>2. /\ fifoSet' = fifoSet /\ cmdFault' = cmdFault /\ handle' = handle /\ playing' = playing
      /\ filePos' = filePos /\ remaining' = remaining /\ size' = size /\ base' = base
      /\ done' = done /\ caller' = caller /\ ptr' = ptr /\ sent' = sent
  BY <1>1, HostOnly DEF hal, file, buffer
<1>3. /\ cmds' = cmds /\ mrp' = mrp /\ taken' = taken /\ ram' = ram /\ mwp' = mwp
  BY <1>1 DEF coproc, stream
<1>4. TypeFlags' /\ TypeFile'
  BY <1>1, <1>2, SpaceIs DEF Typed, TypeFlags, TypeFile, Pcs
<1>5. Roles' /\ Position'
  BY <1>1, <1>2 DEF Inv, HostInv, Roles, Position, InLoad, InWrite
<1>6. Whole' = Whole
  BY <1>2 DEF Whole
<1>7. Buffer'
  BY <1>1, <1>2, <1>6 DEF Inv, HostInv, Buffer, InWrite
<1>8. Room' /\ Filled' /\ SetQueued'
  <2>1. space' = Size - 4 - Gap(mrp', mwp')
    BY <1>1, <1>3, SpaceIs
  <2>2. space' <= Size - 4 - Gap(mrp', mwp')
    BY <1>4, <2>1 DEF TypeFile
  <2>. QED
    BY <1>1, <2>2 DEF Room, Filled, SetQueued
<1>9. Ordered' /\ NotReset'
  BY <1>2, <1>3 DEF Inv, FifoInv, Ordered, NotReset
<1>. QED
  BY <1>1, <1>4, <1>5, <1>7, <1>8, <1>9, HostOnly DEF Typed, Inv, HostInv, FifoInv

LEMMA PollAbortedKeeps ==
  ASSUME Typed, Inv, PollAborted
  PROVE  Typed' /\ Inv'
<1>1. /\ pc \in {"poll", "polled", "drain", "drained"} /\ WaitFails /\ cmdFault' \in BOOLEAN
      /\ UNCHANGED <<coproc, stream, buffer, caller, ptr, space>>
  BY DEF PollAborted, Typed, TypeFlags
<1>. QED
  BY <1>1, WaitFailsKeeps

LEMMA PollCmdKeeps ==
  ASSUME Typed, Inv, PollCmd
  PROVE  Typed' /\ Inv'
<1>1. /\ pc \in {"polled", "drained"} /\ cmdFault' \in BOOLEAN
      /\ UNCHANGED <<coproc, stream, buffer, caller, ptr, space>>
  BY DEF PollCmd, Typed, TypeCo
<1>2. CASE WaitFails
  BY <1>1, <1>2, WaitFailsKeeps
<1>3. CASE pc = "drained" /\ LoadReturn(TRUE) /\ UNCHANGED file
  <2>1. caller = "video" /\ fifoSet
    BY <1>3, CallerIs DEF Inv, HostInv, Roles, InLoad, InWrite
  <2>2. Failed
    BY <1>3, <2>1 DEF LoadReturn, Failed
  <2>. QED
    BY <1>1, <1>3, <2>1, <2>2, LoadReturns
<1>4. CASE /\ \/ pc = "polled" /\ pc' = "poll"
              \/ pc = "drained" /\ pc' = "drain"
              \/ pc = "polled" /\ pc' = "put" /\ ~(space < Wanted)
           /\ UNCHANGED <<handle, playing, fifoSet, file>>
  <2>1. /\ fifoSet' = fifoSet /\ handle' = handle /\ playing' = playing
        /\ filePos' = filePos /\ remaining' = remaining /\ size' = size /\ base' = base
        /\ done' = done /\ caller' = caller /\ ptr' = ptr /\ space' = space /\ sent' = sent
    BY <1>1, <1>4, HostOnly DEF file, buffer
  <2>2. TypeFlags' /\ TypeFile'
    BY <1>1, <1>4, <2>1 DEF Typed, TypeFlags, TypeFile, Pcs
  <2>3. Roles' /\ Position'
    BY <1>1, <1>4, <2>1 DEF Inv, HostInv, Roles, Position, InLoad, InWrite
  <2>4. Whole' = Whole /\ Chunk' = Chunk
    BY <2>1, ChunkKept DEF Whole
  <2>5. Buffer'
    BY <1>4, <2>1, <2>4 DEF Inv, HostInv, Buffer, InWrite
  <2>6. FifoInv'
    <3>1. CASE pc' \in {"poll", "drain"}
      BY <1>1, <2>1, <3>1, HostOnly, FifoKept DEF Inv
    <3>2. CASE pc = "polled" /\ pc' = "put" /\ ~(space < Wanted)
      <4>1. Wanted = Chunk
        BY <3>2 DEF Wanted
      <4>2. space <= Size - 4 - Gap(mrp, mwp)
        BY <3>2 DEF Inv, FifoInv, Room
      <4>3. /\ space \in Nat /\ Chunk \in Nat /\ Gap(mrp, mwp) \in Nat /\ Size \in Nat
        <5>1. Chunk \in WordAddr
          BY <3>2, ChunkIs DEF Inv, HostInv
        <5>2. Gap(mrp, mwp) \in WordAddr
          BY Distance DEF Typed, TypeCo, TypeStream
        <5>. QED
          BY <5>1, <5>2, Parameters DEF WordAddr, Typed, TypeFile
      <4>4. Chunk <= Size - 4 - Gap(mrp, mwp)
        BY <3>2, <4>1, <4>2, <4>3
      <4>5. mrp' = mrp /\ mwp' = mwp /\ cmds' = cmds /\ taken' = taken /\ ram' = ram
        BY <1>1 DEF coproc, stream
      <4>6. Room' /\ Filled' /\ SetQueued'
        BY <2>4, <3>2, <4>4, <4>5 DEF Room, Filled, SetQueued
      <4>7. Ordered' /\ NotReset'
        BY <2>1, <4>5 DEF Inv, FifoInv, Ordered, NotReset
      <4>. QED
        BY <4>6, <4>7 DEF FifoInv
    <3>. QED
      BY <1>4, <3>1, <3>2
  <2>. QED
    BY <1>1, <2>2, <2>3, <2>5, <2>6, HostOnly DEF Typed, Inv, HostInv
<1>. QED
  BY <1>1, <1>2, <1>3, <1>4 DEF PollCmd

LEMMA PutKeeps ==
  ASSUME Typed, Inv, Put
  PROVE  Typed' /\ Inv'
<1>1. /\ pc = "put" /\ pc' = "publish" /\ ram' = Copied(base + done)
      /\ UNCHANGED <<coproc, mwp, sent, hal, file, buffer, caller, ptr, space>>
  BY DEF Put
<1>2. /\ fifoSet' = fifoSet /\ cmdFault' = cmdFault /\ handle' = handle /\ playing' = playing
      /\ filePos' = filePos /\ remaining' = remaining /\ size' = size /\ base' = base
      /\ done' = done /\ caller' = caller /\ ptr' = ptr /\ space' = space /\ sent' = sent
      /\ cmds' = cmds /\ need' = need /\ fault' = fault /\ mrp' = mrp /\ mwp' = mwp
      /\ taken' = taken
  BY <1>1 DEF coproc, hal, file, buffer
<1>3. TypeCo' /\ TypeStream' /\ TypeFlags' /\ TypeFile'
  BY <1>1, <1>2 DEF Copied, Typed, TypeCo, TypeStream, TypeFlags, TypeFile, Pcs
<1>4. Whole' = Whole /\ Chunk' = Chunk
  BY <1>2, ChunkKept DEF Whole
<1>5. Roles' /\ Buffer' /\ Position'
  BY <1>1, <1>2, <1>4 DEF Inv, HostInv, Roles, Buffer, Position, InLoad, InWrite
<1>6. /\ mrp \in WordAddr /\ mwp \in WordAddr
      /\ Chunk \in WordAddr /\ Chunk <= Size - 4 - Gap(mrp, mwp)
  BY <1>1, ChunkIs DEF Typed, TypeCo, TypeStream, Inv, HostInv, FifoInv, Room
<1>7. sent = base + done
  BY <1>1 DEF Inv, HostInv, Buffer, InWrite
<1>8. \A a \in WordAddr :
        ram'[a] = IF Gap(mwp, a) < Chunk THEN sent + Gap(mwp, a) ELSE ram[a]
  BY <1>1, <1>7 DEF Copied, Gap
<1>9. Filled'
  <2>1. ASSUME NEW i \in WordAddr, i < Chunk
        PROVE  ram'[At(mwp, i)] = sent + i
    BY <1>6, <1>8, <2>1, Ahead, FreeIsFree
  <2>. QED
    BY <1>2, <1>4, <2>1 DEF Filled
<1>10. Ordered'
  <2>1. ASSUME NEW i \in WordAddr, i < Gap(mrp, mwp)
        PROVE  ram'[At(mrp, i)] = ram[At(mrp, i)]
    BY <1>6, <1>8, <2>1, Ahead, FreeIsFree
  <2>. QED
    BY <1>2, <2>1 DEF Inv, FifoInv, Ordered
<1>11. Room' /\ NotReset' /\ SetQueued'
  BY <1>1, <1>2, <1>4, <1>6 DEF Room, NotReset, SetQueued, Inv, FifoInv
<1>. QED
  BY <1>3, <1>5, <1>9, <1>10, <1>11 DEF Typed, Inv, HostInv, FifoInv

LEMMA PublishKeeps ==
  ASSUME Typed, Inv, Publish
  PROVE  Typed' /\ Inv'
<1> DEFINE n == Chunk
           d == Gap(mrp, mwp)
<1>1. /\ pc = "publish" /\ mwp' = Advanced(mwp, n) /\ sent' = sent + n /\ done' = done + n
      /\ pc' = IF Whole \/ (~ptr /\ done' = size) THEN "written"
               ELSE IF ptr THEN "early" ELSE "poll"
      /\ UNCHANGED <<coproc, ram, hal, file, size, base, caller, ptr, space>>
  BY DEF Publish
<1>2. /\ fifoSet' = fifoSet /\ cmdFault' = cmdFault /\ handle' = handle /\ playing' = playing
      /\ filePos' = filePos /\ remaining' = remaining /\ size' = size /\ base' = base
      /\ caller' = caller /\ ptr' = ptr /\ space' = space /\ ram' = ram
      /\ cmds' = cmds /\ need' = need /\ fault' = fault /\ mrp' = mrp /\ taken' = taken
  BY <1>1 DEF coproc, hal, file
<1>3. n \in WordAddr /\ n > 0 /\ done + n <= size /\ (Whole => done + n = size)
  BY <1>1, ChunkIs DEF Inv, HostInv
<1>4. /\ mrp \in WordAddr /\ mwp \in WordAddr /\ n <= Size - 4 - d /\ sent \in Nat
      /\ taken \in Nat /\ done \in 0 .. size /\ size \in Nat
  BY <1>1 DEF Typed, TypeCo, TypeStream, TypeFile, Inv, FifoInv, Room
<1>5. d \in WordAddr
  BY <1>4, Distance
<1>6. /\ mwp' \in WordAddr /\ Gap(mrp, mwp') = d + n
      /\ \A i \in WordAddr : i >= d /\ i < d + n =>
           i - d \in WordAddr /\ At(mrp, i) = At(mwp, i - d)
  BY <1>1, <1>3, <1>4, WriterAdvances
<1>7. /\ fifoSet => taken + d = sent /\ \A i \in WordAddr : i < d => ram[At(mrp, i)] = taken + i
      /\ \A i \in WordAddr : i < n => ram[At(mwp, i)] = sent + i
  BY <1>1 DEF Inv, FifoInv, Ordered, Filled
<1> HIDE DEF n, d
<1>8. n \in Nat /\ d \in Nat /\ n % 4 = 0
  BY <1>3, <1>5 DEF WordAddr
<1>9. TypeCo' /\ TypeStream'
  BY <1>1, <1>2, <1>4, <1>6, <1>8 DEF Typed, TypeCo, TypeStream
<1>10. TypeFlags' /\ TypeFile'
  <2>1. done' \in 0 .. size'
    BY <1>1, <1>2, <1>3, <1>4, <1>8
  <2>2. pc' \in {"written", "early", "poll"}
    BY <1>1
  <2>. QED
    BY <1>2, <2>1, <2>2 DEF Typed, TypeFlags, TypeFile, Pcs
<1>11. Whole' = Whole
  BY <1>2 DEF Whole
<1>12. Roles' /\ Position'
  BY <1>1, <1>2 DEF Inv, HostInv, Roles, Position, InLoad, InWrite
<1>13. Buffer'
  <2>1. /\ filePos % 4 = 0 /\ remaining % 4 = 0
        /\ size % 4 = 0 /\ done % 4 = 0 /\ size > 0
        /\ base + size <= FileLen /\ sent = base + done
        /\ (caller = "direct" => filePos = base)
        /\ (caller # "direct" => filePos = base + size /\ filePos + remaining = FileLen)
    BY <1>1 DEF Inv, HostInv, Buffer, InWrite
  <2>2. done' % 4 = 0 /\ sent' = base' + done'
    BY <1>1, <1>2, <1>4, <1>8, <2>1 DEF Typed, TypeFile
  <2>3. pc' = "poll" => done' < size /\ ~Whole
    <3>1. pc' = "poll" => done' # size /\ ~Whole
      BY <1>1
    <3>. QED
      BY <1>1, <1>3, <1>4, <1>8, <3>1
  <2>4. pc' = "early" => ~Whole
    BY <1>1
  <2>5. pc' \notin {"polled", "put", "publish"}
    BY <1>1
  <2>. QED
    BY <1>2, <1>11, <2>1, <2>2, <2>3, <2>4, <2>5 DEF Buffer
<1>14. Ordered'
  <2>1. ASSUME fifoSet
        PROVE  taken + (d + n) = sent'
    BY <1>1, <1>4, <1>7, <1>8, <2>1
  <2>2. ASSUME fifoSet, NEW i \in WordAddr, i < d + n
        PROVE  ram[At(mrp, i)] = taken + i
    <3>1. CASE i < d
      BY <1>7, <2>2, <3>1
    <3>2. CASE ~(i < d)
      <4>1. i - d \in WordAddr /\ At(mrp, i) = At(mwp, i - d) /\ i - d < n /\ i \in Nat
        BY <1>6, <1>8, <2>2, <3>2 DEF WordAddr
      <4>2. ram[At(mrp, i)] = sent + (i - d)
        BY <1>7, <4>1
      <4>. QED
        BY <1>4, <1>7, <1>8, <2>2, <4>1, <4>2
    <3>. QED
      BY <3>1, <3>2
  <2>. QED
    BY <1>2, <1>6, <2>1, <2>2 DEF Ordered
<1>15. Room' /\ Filled' /\ NotReset' /\ SetQueued'
  BY <1>1, <1>2 DEF Room, Filled, NotReset, SetQueued, Inv, FifoInv
<1>. QED
  BY <1>9, <1>10, <1>12, <1>13, <1>14, <1>15 DEF Typed, Inv, HostInv, FifoInv

LEMMA EarlyExitKeeps ==
  ASSUME Typed, Inv, EarlyExit
  PROVE  Typed' /\ Inv'
<1>1. /\ pc = "early" /\ pc' \in {"written", "poll"} /\ (pc' = "poll" => done # size)
      /\ UNCHANGED <<coproc, stream, hal, file, buffer, caller, ptr, space>>
  BY DEF EarlyExit
<1>2. /\ fifoSet' = fifoSet /\ cmdFault' = cmdFault /\ handle' = handle /\ playing' = playing
      /\ filePos' = filePos /\ remaining' = remaining /\ size' = size /\ base' = base
      /\ done' = done /\ caller' = caller /\ ptr' = ptr /\ space' = space /\ sent' = sent
  BY <1>1, HostOnly DEF hal, file, buffer
<1>3. TypeFlags' /\ TypeFile'
  BY <1>1, <1>2 DEF Typed, TypeFlags, TypeFile, Pcs
<1>4. Roles' /\ Position'
  BY <1>1, <1>2 DEF Inv, HostInv, Roles, Position, InLoad, InWrite
<1>5. Buffer'
  <2>1. Whole' = Whole /\ ~Whole
    BY <1>1, <1>2 DEF Whole, Inv, HostInv, Buffer
  <2>2. pc' = "poll" => done < size
    BY <1>1 DEF Typed, TypeFile
  <2>. QED
    BY <1>1, <1>2, <2>1, <2>2 DEF Inv, HostInv, Buffer, InWrite
<1>6. FifoInv'
  BY <1>1, <1>2, HostOnly, FifoKept DEF Inv
<1>. QED
  BY <1>1, <1>3, <1>4, <1>5, <1>6, HostOnly DEF Typed, Inv, HostInv

(* What the application does about a fault, and closing the FIFO.          *)
LEMMA ResetCoprocessorKeeps ==
  ASSUME Typed, Inv, ResetCoprocessor
  PROVE  Typed' /\ Inv'
<1>1. /\ pc = "ready" /\ fault' = FALSE /\ cmdFault' = FALSE
      /\ cmds' = <<>> /\ need' = NotRunning /\ fifoSet' = FALSE
      /\ UNCHANGED <<mrp, taken, stream, handle, playing, file, buffer, call>>
  BY DEF ResetCoprocessor
<1>2. /\ handle' = handle /\ playing' = playing
      /\ filePos' = filePos /\ remaining' = remaining /\ size' = size /\ base' = base
      /\ done' = done /\ caller' = caller /\ ptr' = ptr /\ space' = space /\ sent' = sent
      /\ pc' = pc
  BY <1>1 DEF stream, file, buffer, call
<1>3. TypeCo' /\ TypeStream'
  <2>1. <<>> \in Seq(Commands) /\ Len(<<>>) = 0 /\ 0 <= CmdSlots
    BY SizeAssumption
  <2>. QED
    BY <1>1, <2>1 DEF Typed, TypeCo, TypeStream, stream
<1>4. ~fifoSet' /\ fifoSet' \in BOOLEAN /\ cmdFault' \in BOOLEAN
  BY <1>1
<1>5. TypeFlags' /\ TypeFile'
  BY <1>2, <1>4 DEF Typed, TypeFlags, TypeFile
<1>6. Roles' /\ Buffer' /\ Position'
  BY <1>1, <1>2, <1>4 DEF Inv, HostInv, Roles, Buffer, Position, InLoad, InWrite
<1>7. FifoInv'
  <2>1. Len(cmds') = 0
    BY <1>1
  <2>2. pc' \notin {"polled", "put", "publish", "set"}
    BY <1>1, <1>2
  <2>. QED
    BY <1>1, <1>4, <2>1, <2>2, FifoKept DEF Inv
<1>. QED
  BY <1>3, <1>5, <1>6, <1>7 DEF Typed, Inv, HostInv

LEMMA BetweenFeedsKeep ==
  ASSUME Typed, Inv, Close \/ NoticeFault
  PROVE  Typed' /\ Inv'
<1>1. /\ pc = "ready" /\ (fifoSet' = fifoSet \/ (fifoSet' = FALSE /\ caller = "direct"))
      /\ UNCHANGED <<coproc, stream, handle, playing, file, buffer, call>>
      /\ cmdFault' \in BOOLEAN
  BY DEF Close, NoticeFault, Typed, TypeFlags
<1>2. /\ handle' = handle /\ playing' = playing
      /\ filePos' = filePos /\ remaining' = remaining /\ size' = size /\ base' = base
      /\ done' = done /\ caller' = caller /\ ptr' = ptr /\ space' = space /\ sent' = sent
      /\ pc' = pc
  BY <1>1, HostOnly DEF file, buffer, call
<1>3. fifoSet' \in BOOLEAN /\ (fifoSet' => fifoSet)
  <2>1. CASE fifoSet' = fifoSet
    BY <2>1 DEF Typed, TypeFlags
  <2>2. CASE fifoSet' = FALSE
    BY <2>2
  <2>. QED
    BY <1>1, <2>1, <2>2
<1>4. TypeFlags' /\ TypeFile'
  BY <1>1, <1>2, <1>3 DEF Typed, TypeFlags, TypeFile
<1>5. Roles' /\ Buffer' /\ Position'
  <2>1. CASE fifoSet' = fifoSet
    BY <1>1, <1>2, <2>1 DEF Inv, HostInv, Roles, Buffer, Position, InLoad, InWrite
  <2>2. CASE ~fifoSet' /\ caller = "direct"
    BY <1>1, <1>2, <2>2 DEF Inv, HostInv, Roles, Buffer, Position, InLoad, InWrite
  <2>. QED
    BY <1>1, <2>1, <2>2
<1>6. FifoInv'
  BY <1>1, <1>2, <1>3, HostOnly, FifoKept DEF Inv
<1>. QED
  BY <1>1, <1>4, <1>5, <1>6, HostOnly DEF Typed, Inv, HostInv

LEMMA SetWaitKeeps ==
  ASSUME Typed, Inv, SetWait \/ SetAborted
  PROVE  Typed' /\ Inv'
<1>1. CASE pc = "set" /\ CmdIdle /\ SetReturn(TRUE) /\ UNCHANGED cmdFault
  BY <1>1, SetReturnsOpen
<1>2. CASE pc = "set" /\ SetReturn(FALSE) /\ cmdFault' \in BOOLEAN
  BY <1>2, SetReturnsClosed
<1>. QED
  BY <1>1, <1>2 DEF SetWait, SetAborted, Typed, TypeFlags

(***************************************************************************)
(* The theorems.                                                           *)
(***************************************************************************)
LEMMA InitTyped ==
  ASSUME WholeWords, Init
  PROVE  Typed /\ Inv
<1>1. /\ 0 \in WordAddr /\ FileLen \in Nat \ {0} /\ Size \in Nat /\ Size >= 16
      /\ CmdSlots \in Nat /\ Gap(0, 0) = 0
  BY Parameters, Distance, SizeAssumption
<1>2. <<>> \in Seq(Commands) /\ Len(<<>>) = 0
  OBVIOUS
<1>3. TypeCo /\ TypeStream
  BY <1>1, <1>2 DEF Init, TypeCo, TypeStream
<1>4. TypeFlags /\ TypeFile
  BY <1>1 DEF Init, TypeFlags, TypeFile, Pcs
<1>5. HostInv
  BY <1>1 DEF Init, HostInv, Roles, Buffer, Position, InLoad, InWrite
<1>6. FifoInv
  BY <1>1 DEF Init, FifoInv, Room, Filled, NotReset, SetQueued, Ordered
<1>. QED
  BY <1>3, <1>4, <1>5, <1>6 DEF Typed, Inv

LEMMA StutterKeeps ==
  ASSUME Typed, Inv, UNCHANGED vars
  PROVE  Typed' /\ Inv'
<1>1. /\ UNCHANGED <<HostKept, sent>> /\ UNCHANGED <<coproc, stream>>
  BY DEF vars, HostKept, stream
<1>2. TypeFlags' /\ TypeFile' /\ HostInv'
  BY <1>1, HostKeeps DEF Inv
<1>3. TypeCo' /\ TypeStream'
  BY <1>1, HostOnly
<1>4. FifoInv'
  <2>1. /\ pc' = pc /\ size' = size /\ done' = done /\ space' = space /\ sent' = sent
        /\ fifoSet' = fifoSet
    BY <1>1 DEF HostKept, call, buffer, hal
  <2>2. mrp' = mrp /\ mwp' = mwp /\ cmds' = cmds /\ taken' = taken /\ ram' = ram
    BY <1>1 DEF coproc, stream
  <2>3. Chunk' = Chunk
    BY <2>1, ChunkKept
  <2>. QED
    BY <2>1, <2>2, <2>3 DEF Inv, FifoInv, Room, Filled, NotReset, SetQueued, Ordered
<1>. QED
  BY <1>2, <1>3, <1>4 DEF Typed, Inv

LEMMA NextKeeps ==
  ASSUME WholeWords, Typed, Inv, [Next]_vars
  PROVE  Typed' /\ Inv'
<1>1. CASE App
  BY <1>1, SetKeeps, NextFrameKeeps, WriteKeeps, QueueOtherKeeps, BetweenFeedsKeep DEF App
<1>2. CASE Host
  BY <1>2, SetWaitKeeps, QueueMediaKeeps, LoadStartKeeps, LoadBlockKeeps, LoadEndKeeps,
     LoadFlushKeeps, CheckKeeps, ForceFaultKeeps, PollSpaceKeeps, PollCmdKeeps, PutKeeps,
     PublishKeeps, EarlyExitKeeps, WrittenKeeps, ResetCoprocessorKeeps, BetweenFeedsKeep
     DEF Host
<1>3. CASE Abort
  BY <1>3, SetWaitKeeps, QueueMediaKeeps, LoadFlushKeeps, PollAbortedKeeps DEF Abort
<1>4. CASE Coprocessor \/ Crash
  BY <1>4, CoprocessorKeeps
<1>5. CASE UNCHANGED vars
  BY <1>5, StutterKeeps
<1>. QED
  BY <1>1, <1>2, <1>3, <1>4, <1>5 DEF Next

LEMMA Invariant == WholeWords /\ Spec => [](WholeWords /\ Typed /\ Inv)
<1>1. WholeWords /\ Init => Typed /\ Inv
  BY InitTyped
<1>2. (WholeWords /\ Typed /\ Inv) /\ [Next]_vars => (WholeWords /\ Typed /\ Inv)'
  <2>1. WholeWords => WholeWords'
    BY DEF WholeWords
  <2>. QED
    BY <2>1, NextKeeps
<1>. QED
  BY <1>1, <1>2, PTL DEF Spec

(* Every variable has its type: both pointers of the media FIFO stay       *)
(* inside it, and the position in the file stays inside the file, whatever *)
(* is read, put back after a feed that stopped early, aborted or fed again *)
(* (EVE_MediaFifo_wrMem, EVE_Util_loadMediaFile).                          *)
THEOREM TypeCorrect == WholeWords /\ Spec => []TypeOK
BY Invariant, TypedIsTypeOK, PTL

(* What the coprocessor has not read yet is exactly the stretch of the     *)
(* stream that follows what it has read: no word is lost, repeated,        *)
(* overwritten or out of place (EVE_MediaFifo_wrMem, its two memcpys and   *)
(* the register write that publishes them).                                *)
THEOREM NothingLostOrRepeated == WholeWords /\ Spec => []StreamInOrder
<1>1. Inv => StreamInOrder
  BY OrderedIsStreamInOrder DEF Inv, FifoInv
<1>. QED
  BY <1>1, Invariant, PTL

(* Between two feeds the file stands at the first byte that was not yet    *)
(* written to the media FIFO, and what is left of it is remembered         *)
(* (the seek back at the end of EVE_Util_loadMediaFile).                   *)
THEOREM FeedsResume == WholeWords /\ Spec => []ResumesWhereStopped
<1>1. Typed /\ Inv => ResumesWhereStopped
  BY SizeAssumption DEF Inv, HostInv, Position, ResumesWhereStopped, Typed, TypeFile
<1>. QED
  BY <1>1, Invariant, PTL

(***************************************************************************)
(* The media FIFO is a queue of the words of the stream.                   *)
(***************************************************************************)
(* The refinement mapping of StreamQueue, and what the invariant says of   *)
(* it: the queue holds consecutive words of the stream.                    *)
QPending == IF fault \/ ~fifoSet THEN <<>>
            ELSE [i \in 1 .. Used \div 4 |-> ram[(mrp + 4 * (i - 1)) % Size]]
QVisible == IF fault \/ ~fifoSet THEN 0 ELSE Used \div 4

Stretch(n, from) == [i \in 1 .. n \div 4 |-> from + 4 * (i - 1)]

(* The steps of CmdQueue, in terms of the mapping.                         *)
QPut ==
  /\ ~fault
  /\ Len(QPending') \in Len(QPending) + 1 .. Size \div 4 - 1
  /\ QPending' \in Seq(0 .. FileLen + 3)
  /\ SubSeq(QPending', 1, Len(QPending)) = QPending
  /\ QVisible' \in {QVisible, Len(QPending')}
  /\ fault' = fault

QTake ==
  /\ ~fault /\ QVisible > 0
  /\ QPending' = Tail(QPending)
  /\ QVisible' = QVisible - 1
  /\ fault' = fault

QHalt  == ~fault /\ fault' = TRUE /\ QPending' = <<>> /\ QVisible' = 0
QReset == Restarting /\ fault' = FALSE /\ QPending' = <<>> /\ QVisible' = 0
QStays == QPending' = QPending /\ QVisible' = QVisible /\ fault' = fault

QStep == QPut \/ QTake \/ QHalt \/ QReset \/ QStays

LEMMA QStepIsQueueStep ==
  QStep => [Queue!Next]_(Queue!vars) /\ [Queue!Serve \/ Restarting]_(Queue!vars)
<1>1. QPut \/ QTake \/ QHalt => Queue!Serve
  BY DEF QPut, QTake, QHalt, QPending, QVisible,
         Queue!Serve, Queue!Put, Queue!Take, Queue!Halt
<1>2. QReset => Queue!Reset /\ Restarting
  BY DEF QReset, QPending, QVisible, Queue!Reset
<1>3. QStays => UNCHANGED Queue!vars
  BY DEF QStays, QPending, QVisible, Queue!vars
<1>. QED
  BY <1>1, <1>2, <1>3 DEF QStep, Queue!Next

LEMMA InitIsQueueInit ==
  ASSUME Init
  PROVE  Queue!Init
BY DEF Init, Queue!Init

LEMMA QueueIsStretch ==
  ASSUME Typed, Inv, fifoSet, ~fault
  PROVE  /\ QPending = Stretch(Gap(mrp, mwp), taken)
         /\ QVisible = Gap(mrp, mwp) \div 4
<1>1. Used = Gap(mrp, mwp)
  BY DEF Used, Gap
<1>2. Gap(mrp, mwp) \in WordAddr /\ Size \in Nat
  BY Distance, Parameters DEF Typed, TypeCo, TypeStream
<1>3. \A a \in WordAddr : a < Gap(mrp, mwp) => ram[At(mrp, a)] = taken + a
  BY DEF Inv, FifoInv, Ordered
<1> DEFINE d == Gap(mrp, mwp)
<1> HIDE DEF d
<1>4. ASSUME NEW i \in 1 .. d \div 4
      PROVE  ram[(mrp + 4 * (i - 1)) % Size] = taken + 4 * (i - 1)
  <2>1. 4 * (i - 1) \in WordAddr /\ 4 * (i - 1) < d
    BY <1>2, <1>4 DEF WordAddr, d
  <2>. QED
    BY <1>3, <2>1 DEF d, At
<1>5. [i \in 1 .. d \div 4 |-> ram[(mrp + 4 * (i - 1)) % Size]] = Stretch(d, taken)
  BY <1>4 DEF Stretch
<1>. QED
  BY <1>1, <1>5 DEF QPending, QVisible, d

LEMMA StretchIs ==
  ASSUME NEW n \in Nat, n % 4 = 0, NEW f \in Nat
  PROVE  /\ Stretch(n, f) \in Seq(Nat) /\ Len(Stretch(n, f)) = n \div 4
         /\ \A i \in 1 .. n \div 4 : Stretch(n, f)[i] = f + 4 * (i - 1)
         /\ n = 0 => Stretch(n, f) = <<>>
<1> DEFINE q == n \div 4
<1>1. q \in Nat /\ n = 4 * q
  OBVIOUS
<1> HIDE DEF q
<1>2. [i \in 1 .. q |-> f + 4 * (i - 1)] \in [1 .. q -> Nat]
  <2>1. ASSUME NEW i \in 1 .. q
        PROVE  f + 4 * (i - 1) \in Nat
    BY <1>1
  <2>. QED
    BY <2>1
<1>3. Stretch(n, f) = [i \in 1 .. q |-> f + 4 * (i - 1)]
  BY DEF Stretch, q
<1>4. Stretch(n, f) \in Seq(Nat) /\ Len(Stretch(n, f)) = q
  BY <1>1, <1>2, <1>3
<1>5. n = 0 => Stretch(n, f) = <<>>
  BY <1>1, <1>4
<1>. QED
  BY <1>3, <1>4, <1>5 DEF q

LEMMA StretchTaken ==
  ASSUME NEW n \in Nat, n % 4 = 0, n > 0, NEW f \in Nat
  PROVE  Tail(Stretch(n, f)) = Stretch(n - 4, f + 4)
<1> DEFINE q == n \div 4
           s == Stretch(n, f)
           t == Stretch(n - 4, f + 4)
<1>1. /\ q \in Nat /\ q > 0 /\ n = 4 * q /\ n - 4 \in Nat /\ (n - 4) % 4 = 0
      /\ (n - 4) \div 4 = q - 1 /\ f + 4 \in Nat
  OBVIOUS
<1>2. /\ s \in Seq(Nat) /\ Len(s) = q
      /\ \A i \in 1 .. q : s[i] = f + 4 * (i - 1)
  BY StretchIs
<1>3. /\ t \in Seq(Nat) /\ Len(t) = q - 1
      /\ \A i \in 1 .. q - 1 : t[i] = (f + 4) + 4 * (i - 1)
  BY <1>1, StretchIs
<1> HIDE DEF q, s, t
<1>4. Tail(s) \in Seq(Nat) /\ Len(Tail(s)) = q - 1
      /\ \A i \in 1 .. q - 1 : Tail(s)[i] = s[i + 1]
  BY <1>1, <1>2
<1>5. ASSUME NEW i \in 1 .. q - 1
      PROVE  Tail(s)[i] = t[i]
  <2>1. i + 1 \in 1 .. q /\ s[i + 1] = f + 4 * ((i + 1) - 1)
    BY <1>1, <1>2, <1>5
  <2>. QED
    BY <1>1, <1>3, <1>4, <1>5, <2>1
<1>6. Tail(s) = t
  <2> DEFINE u == Tail(s)
  <2>1. u \in Seq(Nat) /\ t \in Seq(Nat) /\ Len(u) = Len(t)
    BY ONLY <1>3, <1>4
  <2>2. \A i \in 1 .. Len(u) : u[i] = t[i]
    BY ONLY <1>4, <1>5
  <2> HIDE DEF u
  <2>3. u = t
    BY ONLY <2>1, <2>2
  <2>. QED
    BY ONLY <2>3 DEF u
<1>. QED
  BY <1>6 DEF s, t

LEMMA StretchGrown ==
  ASSUME NEW n \in Nat, n % 4 = 0, NEW m \in Nat, m % 4 = 0, NEW f \in Nat
  PROVE  /\ Len(Stretch(n + m, f)) = n \div 4 + m \div 4
         /\ SubSeq(Stretch(n + m, f), 1, Len(Stretch(n, f))) = Stretch(n, f)
         /\ \A w \in Nat : f + n + m <= w + 1 => Stretch(n + m, f) \in Seq(0 .. w)
<1> DEFINE q == n \div 4
           r == m \div 4
           s == Stretch(n, f)
           t == Stretch(n + m, f)
<1>1. /\ q \in Nat /\ n = 4 * q /\ r \in Nat /\ m = 4 * r
      /\ n + m \in Nat /\ (n + m) % 4 = 0 /\ (n + m) \div 4 = q + r
  OBVIOUS
<1>2. /\ s \in Seq(Nat) /\ Len(s) = q
      /\ \A i \in 1 .. q : s[i] = f + 4 * (i - 1)
  BY StretchIs
<1>3. /\ t \in Seq(Nat) /\ Len(t) = q + r
      /\ \A i \in 1 .. q + r : t[i] = f + 4 * (i - 1)
  <2> DEFINE k == n + m
  <2>1. k \in Nat /\ k % 4 = 0 /\ k \div 4 = q + r /\ t = Stretch(k, f)
    BY ONLY <1>1
  <2> HIDE DEF k, q, r, t
  <2>. QED
    BY ONLY <2>1, StretchIs
<1> HIDE DEF q, r, s, t
<1>4. SubSeq(t, 1, q) = s
  <2>1. SubSeq(t, 1, q) \in Seq(Nat) /\ Len(SubSeq(t, 1, q)) = q
        /\ \A i \in 1 .. q : SubSeq(t, 1, q)[i] = t[i]
    BY <1>1, <1>3
  <2>2. \A i \in 1 .. q : t[i] = s[i]
    BY <1>1, <1>2, <1>3
  <2>. QED
    BY <1>1, <1>2, <2>1, <2>2
<1>5. ASSUME NEW w \in Nat, f + n + m <= w + 1
      PROVE  t \in Seq(0 .. w)
  <2>1. ASSUME NEW i \in 1 .. q + r
        PROVE  t[i] \in 0 .. w
    BY <1>1, <1>3, <1>5, <2>1
  <2>. QED
    BY <1>1, <1>3, <2>1
<1>. QED
  BY <1>2, <1>3, <1>4, <1>5 DEF q, r, s, t

LEMMA QueueClosed ==
  ASSUME fault \/ ~fifoSet
  PROVE  QPending = <<>> /\ QVisible = 0
BY DEF QPending, QVisible

LEMMA QueueClosedNext ==
  ASSUME fault' \/ ~fifoSet'
  PROVE  QPending' = <<>> /\ QVisible' = 0
BY DEF QPending, QVisible

LEMMA QueueIsStretchNext ==
  ASSUME Typed', Inv', fifoSet', ~fault'
  PROVE  /\ QPending' = Stretch(Gap(mrp', mwp'), taken')
         /\ QVisible' = Gap(mrp', mwp') \div 4
<1>1. (Typed /\ Inv /\ fifoSet /\ ~fault =>
         /\ QPending = Stretch(Gap(mrp, mwp), taken)
         /\ QVisible = Gap(mrp, mwp) \div 4)'
  BY QueueIsStretch, PTL
<1>. QED
  BY <1>1 DEF Gap, Stretch

(* A step that leaves the pointers and the coprocessor's fault alone, and  *)
(* does not open the FIFO, changes the queue only by closing it.           *)
LEMMA QueueHostStep ==
  ASSUME Typed, Inv, Typed', Inv', UNCHANGED <<fault, mrp, mwp, taken>>, fifoSet' => fifoSet
  PROVE  QStep
<1>1. CASE fault
  BY <1>1, QueueClosed, QueueClosedNext DEF QStep, QStays
<1>2. CASE ~fault /\ ~fifoSet'
  <2>1. fault' = FALSE
    BY <1>2 DEF Typed, TypeCo
  <2>2. CASE fifoSet
    BY <1>2, <2>1, <2>2, QueueClosedNext DEF QStep, QReset, Restarting
  <2>3. CASE ~fifoSet
    BY <1>2, <2>3, QueueClosed, QueueClosedNext DEF QStep, QStays
  <2>. QED
    BY <2>2, <2>3
<1>3. CASE ~fault /\ fifoSet'
  <2>1. QPending' = Stretch(Gap(mrp, mwp), taken) /\ QVisible' = Gap(mrp, mwp) \div 4
    BY <1>3, QueueIsStretchNext
  <2>. QED
    BY <1>3, <2>1, QueueIsStretch DEF QStep, QStays
<1>. QED
  BY <1>1, <1>2, <1>3

LEMMA QueueMediaRead ==
  ASSUME Typed, Inv, Typed', Inv', MediaRead
  PROVE  QStep
<1>1. /\ ~fault /\ mrp # mwp /\ mrp' = At(mrp, 4) /\ taken' = taken + 4
      /\ fault' = fault /\ mwp' = mwp /\ fifoSet' = fifoSet
  BY DEF MediaRead, Running, HostKept, hal, At
<1>2. CASE ~fifoSet
  BY <1>1, <1>2, QueueClosed, QueueClosedNext DEF QStep, QStays
<1>3. CASE fifoSet
  <2> DEFINE d == Gap(mrp, mwp)
  <2>1. mrp \in WordAddr /\ mwp \in WordAddr /\ taken \in Nat
    BY DEF Typed, TypeCo, TypeStream
  <2>2. Gap(mrp', mwp') = d - 4
    BY <1>1, <2>1, ReaderAdvances
  <2>3. d \in WordAddr /\ d - 4 \in WordAddr
    BY <1>1, <2>1, <2>2, Distance DEF Typed, TypeCo, TypeStream
  <2>4. QPending = Stretch(d, taken) /\ QVisible = d \div 4
    BY <1>1, <1>3, QueueIsStretch
  <2>5. QPending' = Stretch(d - 4, taken + 4) /\ QVisible' = (d - 4) \div 4
    BY <1>1, <1>3, <2>2, QueueIsStretchNext
  <2> HIDE DEF d
  <2>6. d \in Nat /\ d % 4 = 0 /\ d > 0 /\ (d - 4) \div 4 = d \div 4 - 1 /\ d \div 4 > 0
    BY <2>3 DEF WordAddr
  <2>7. Tail(QPending) = QPending'
    BY <2>1, <2>4, <2>5, <2>6, StretchTaken
  <2>. QED
    BY <1>1, <2>4, <2>5, <2>6, <2>7 DEF QStep, QTake
<1>. QED
  BY <1>2, <1>3

LEMMA QueuePublish ==
  ASSUME Typed, Inv, Typed', Inv', Publish
  PROVE  QStep
<1> DEFINE n == Chunk
           d == Gap(mrp, mwp)
<1>1. /\ pc = "publish" /\ mwp' = Advanced(mwp, n) /\ sent' = sent + n
      /\ fault' = fault /\ mrp' = mrp /\ taken' = taken /\ fifoSet' = fifoSet
  BY DEF Publish, coproc, hal
<1>2. CASE fault
  BY <1>1, <1>2, QueueClosed, QueueClosedNext DEF QStep, QStays
<1>3. CASE ~fault
  <2>0. fifoSet
    BY <1>1 DEF Inv, HostInv, Roles, InLoad, InWrite
  <2>1. mrp \in WordAddr /\ mwp \in WordAddr /\ taken \in Nat
    BY DEF Typed, TypeCo, TypeStream
  <2>2. n \in WordAddr /\ n > 0 /\ done + n <= size
    BY <1>1, ChunkIs DEF Inv, HostInv
  <2>3. n <= Size - 4 - d
    BY <1>1 DEF Inv, FifoInv, Room
  <2>4. Gap(mrp', mwp') = d + n
    BY <1>1, <2>1, <2>2, <2>3, WriterAdvances
  <2>5. d \in WordAddr
    BY <2>1, Distance
  <2>6. QPending = Stretch(d, taken) /\ QVisible = d \div 4
    BY <1>3, <2>0, QueueIsStretch
  <2>7. QPending' = Stretch(d + n, taken) /\ QVisible' = (d + n) \div 4
    BY <1>1, <1>3, <2>0, <2>4, QueueIsStretchNext
  <2>8. taken + d + n <= FileLen
    <3>1. taken + d = sent
      BY <2>0 DEF Inv, FifoInv, Ordered
    <3>2. sent = base + done /\ base + size <= FileLen
      BY <1>1 DEF Inv, HostInv, Buffer, InWrite
    <3>. QED
      BY <2>1, <2>2, <2>5, <3>1, <3>2, SizeAssumption DEF Typed, TypeFile, WordAddr
  <2> HIDE DEF n, d
  <2>9. /\ d \in Nat /\ d % 4 = 0 /\ n \in Nat /\ n % 4 = 0
        /\ n \div 4 >= 1 /\ d \div 4 >= 0
        /\ (d + n) \div 4 = d \div 4 + n \div 4 /\ d \div 4 + n \div 4 <= Size \div 4 - 1
        /\ taken + d + n <= (FileLen + 3) + 1 /\ FileLen + 3 \in Nat
    BY <2>1, <2>2, <2>3, <2>5, <2>8, Parameters, SizeAssumption DEF WordAddr
  <2>10. Len(QPending) = d \div 4
    BY <2>1, <2>6, <2>9, StretchIs
  <2>11. /\ Len(QPending') = d \div 4 + n \div 4
         /\ SubSeq(QPending', 1, Len(QPending)) = QPending
         /\ QPending' \in Seq(0 .. FileLen + 3)
    BY <2>1, <2>6, <2>7, <2>9, StretchGrown
  <2>12. Len(QPending') \in Len(QPending) + 1 .. Size \div 4 - 1
    BY <2>9, <2>10, <2>11, Parameters
  <2>. QED
    BY <1>1, <1>3, <2>7, <2>9, <2>11, <2>12 DEF QStep, QPut
<1>. QED
  BY <1>2, <1>3 DEF Typed, TypeCo

LEMMA QueueSetOpen ==
  ASSUME Typed, Inv, Typed', Inv', pc = "set", CmdIdle, SetReturn(TRUE)
  PROVE  QStep
<1>1. /\ fifoSet' /\ ~fault /\ cmds = <<>>
      /\ fault' = fault /\ mrp' = mrp /\ mwp' = mwp /\ taken' = taken
  BY DEF SetReturn, CmdIdle, coproc, stream
<1>2. ~fifoSet /\ mrp = 0 /\ mwp = 0 /\ taken = 0
  BY <1>1 DEF Inv, HostInv, Roles, FifoInv, SetQueued
<1>3. Gap(0, 0) = 0
  BY Parameters, Distance
<1>4. QPending' = Stretch(0, 0) /\ QVisible' = 0
  BY <1>1, <1>2, <1>3, QueueIsStretchNext
<1>5. Stretch(0, 0) = <<>>
  BY StretchIs
<1>. QED
  BY <1>1, <1>2, <1>4, <1>5, QueueClosed DEF QStep, QStays

LEMMA QueueCoprocessor ==
  ASSUME Typed, Inv, Typed', Inv', Coprocessor \/ Crash
  PROVE  QStep
<1>1. CASE ExecMediaFifo
  <2>1. /\ cmds # <<>> /\ Head(cmds) = "fifo" /\ fifoSet' = fifoSet /\ fault' = fault
    BY <1>1 DEF ExecMediaFifo, Running, HostKept, hal
  <2>2. ~fifoSet
    BY <2>1, Executed DEF Typed, TypeCo, Inv, FifoInv, NotReset
  <2>. QED
    BY <2>1, <2>2, QueueClosed, QueueClosedNext DEF QStep, QStays
<1>2. CASE ExecOther \/ MediaStart \/ MediaEnd
  BY <1>2, QueueHostStep DEF ExecOther, MediaStart, MediaEnd, stream, HostKept, hal
<1>3. CASE MediaRead
  BY <1>3, QueueMediaRead
<1>4. CASE Crash
  BY <1>4, QueueClosedNext DEF Crash, QStep, QHalt
<1>. QED
  BY <1>1, <1>2, <1>3, <1>4 DEF Coprocessor

LEMMA QueueNext ==
  ASSUME WholeWords, Typed, Inv, Typed', Inv', [Next]_vars
  PROVE  QStep
<1> DEFINE Quiet == UNCHANGED <<fault, mrp, mwp, taken>> /\ (fifoSet' => fifoSet)
<1>1. Quiet => QStep
  BY QueueHostStep
<1>2. CASE App
  <2>1. Quiet
    BY <1>2 DEF App, Set, NextFrame, Stop, Write, QueueOther, Close, coproc, stream, hal, HostKept
  <2>. QED
    BY <1>1, <2>1
<1>3. CASE SetWait \/ SetAborted
  <2>1. CASE pc = "set" /\ CmdIdle /\ SetReturn(TRUE)
    BY <2>1, QueueSetOpen
  <2>2. CASE SetReturn(FALSE)
    <3>1. Quiet
      BY <2>2 DEF SetReturn, coproc, stream
    <3>. QED
      BY <1>1, <3>1
  <2>. QED
    BY <1>3, <2>1, <2>2 DEF SetWait, SetAborted
<1>4. CASE \/ QueueMedia \/ QueueAborted \/ LoadStart \/ LoadBlock \/ LoadEnd
           \/ LoadFlush \/ LoadFlushAborted \/ Check
  <2>1. Quiet
    BY <1>4 DEF QueueMedia, QueueAborted, LoadStart, LoadBlock, LoadEnd, LoadFlush,
                LoadFlushAborted, Check, LoadReturn, Stop, coproc, stream, hal
  <2>. QED
    BY <1>1, <2>1
<1>5. CASE ForceFault
  <2>1. /\ ~fifoSet /\ fifoSet' = fifoSet /\ fault' \in BOOLEAN /\ (fault => fault')
    BY <1>5 DEF ForceFault, Inv, HostInv, Roles
  <2>2. QPending = <<>> /\ QVisible = 0 /\ QPending' = <<>> /\ QVisible' = 0
    BY <2>1, QueueClosed, QueueClosedNext
  <2>3. CASE fault' = fault
    BY <2>2, <2>3 DEF QStep, QStays
  <2>4. CASE ~fault /\ fault' = TRUE
    BY <2>2, <2>4 DEF QStep, QHalt
  <2>. QED
    BY <2>1, <2>3, <2>4 DEF Typed, TypeCo
<1>6. CASE PollSpace \/ PollAborted \/ PollCmd \/ Put \/ EarlyExit \/ Written
  <2>1. pc \in InLoad
    BY <1>6 DEF PollSpace, PollAborted, PollCmd, Put, EarlyExit, Written, InLoad, InWrite
  <2>2. fifoSet
    BY <2>1 DEF Inv, HostInv, Roles
  <2>3. Quiet
    BY <1>6, <2>2 DEF PollSpace, PollAborted, PollCmd, Put, EarlyExit, Written, coproc, stream
  <2>. QED
    BY <1>1, <2>3
<1>7. CASE Publish
  BY <1>7, QueuePublish
<1>8. CASE ResetCoprocessor
  <2>1. fault' = FALSE /\ ~fifoSet'
    BY <1>8 DEF ResetCoprocessor
  <2>2. CASE fault \/ fifoSet
    BY <2>1, <2>2, QueueClosedNext DEF QStep, QReset, Restarting
  <2>3. CASE ~fault /\ ~fifoSet
    <3>1. fault' = fault
      BY <2>1, <2>3 DEF Typed, TypeCo
    <3>. QED
      BY <2>1, <2>3, <3>1, QueueClosed, QueueClosedNext DEF QStep, QStays
  <2>. QED
    BY <2>2, <2>3
<1>9. CASE NoticeFault \/ UNCHANGED vars
  <2>1. Quiet
    BY <1>9 DEF NoticeFault, vars, coproc, stream, hal
  <2>. QED
    BY <1>1, <2>1
<1>10. CASE Coprocessor \/ Crash
  BY <1>10, QueueCoprocessor
<1>. QED
  BY <1>2, <1>3, <1>4, <1>5, <1>6, <1>7, <1>8, <1>9, <1>10 DEF Next, Host, Abort

(* The media FIFO implements the queue of CmdQueue: the words of the       *)
(* stream come out in order and exactly once, and are only dropped by      *)
(* closing the FIFO, by a fault and by the reset that ends it              *)
(* (EVE_MediaFifo.c).                                                      *)
THEOREM ImplementsQueue == WholeWords /\ Spec => StreamQueue
<1>1. Init => Queue!Init
  BY InitIsQueueInit
<1>2. /\ (WholeWords /\ Typed /\ Inv) /\ (WholeWords /\ Typed /\ Inv)'
      /\ [Next]_vars
      => [Queue!Next]_(Queue!vars) /\ [Queue!Serve \/ Restarting]_(Queue!vars)
  BY QueueNext, QStepIsQueueStep
<1>. QED
  BY <1>1, <1>2, Invariant, PTL DEF Spec, StreamQueue, Queue!Spec

=============================================================================
