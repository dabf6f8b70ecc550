---------------------------- MODULE EveCmdProofs ----------------------------
(***************************************************************************)
(* What holds of the command FIFO for every FIFO size, every payload and   *)
(* every set of request sizes.                                             *)
(***************************************************************************)
EXTENDS EveCmd, TLAPS

----------------------------------------------------------------------------
(* Circular addresses.                                                     *)

LEMMA FifoBounds ==
  /\ Uint16 \in Nat /\ Uint16 > 0
  /\ FifoSize \in Nat /\ FifoSize >= 8 /\ FifoSize <= Uint16 /\ FifoSize % 8 = 0
<1>1. Uint16 \in Nat /\ Uint16 > 0
  BY SMT DEF Uint16
<1>. QED
  BY <1>1, FifoAssumption

LEMMA MaskRange ==
  ASSUME NEW x \in Int
  PROVE  Mask(x) \in 0 .. FifoSize - 1
  BY FifoBounds DEF Mask

LEMMA MaskCases ==
  ASSUME NEW x \in -FifoSize .. 2 * FifoSize - 1
  PROVE  Mask(x) = IF x < 0 THEN x + FifoSize
                   ELSE IF x >= FifoSize THEN x - FifoSize ELSE x
<1> DEFINE q == x \div FifoSize
<1>1. q \in Int /\ x = FifoSize * q + Mask(x) /\ Mask(x) \in 0 .. FifoSize - 1
  BY FifoBounds DEF Mask
<1> HIDE DEF q
<1>2. FifoSize \in Nat /\ FifoSize >= 8
  BY FifoBounds
<1>3. q < 2
  BY <1>1, <1>2
<1>4. q > -2
  BY <1>1, <1>2
<1>5. q \in {-1, 0, 1}
  BY <1>1, <1>3, <1>4
<1>. QED
  BY <1>1, <1>2, <1>5

LEMMA MaskIs ==
  ASSUME NEW x \in 0 .. FifoSize - 1
  PROVE  Mask(x) = x
<1>1. x \in -FifoSize .. 2 * FifoSize - 1
  BY FifoBounds
<1>2. Mask(x) = IF x < 0 THEN x + FifoSize
                ELSE IF x >= FifoSize THEN x - FifoSize ELSE x
  BY <1>1, MaskCases
<1>. QED
  BY <1>2, FifoBounds

LEMMA MaskWraps ==
  ASSUME NEW x \in Int, NEW y \in Int, y = x - FifoSize, y >= 0, y < FifoSize
  PROVE  Mask(x) = y
<1>1. x \in -FifoSize .. 2 * FifoSize - 1
  BY FifoBounds
<1>2. Mask(x) = IF x < 0 THEN x + FifoSize
                ELSE IF x >= FifoSize THEN x - FifoSize ELSE x
  BY <1>1, MaskCases
<1>. QED
  BY <1>2, FifoBounds

(* A multiple of four stays one.                                           *)
LEMMA MaskWord ==
  ASSUME NEW x \in Int, x % 4 = 0
  PROVE  Mask(x) \in WordAddr
<1> DEFINE q == x \div FifoSize
           k == 2 * (FifoSize \div 8)
           j == x \div 4
<1>1. q \in Int /\ x = FifoSize * q + Mask(x) /\ Mask(x) \in 0 .. FifoSize - 1
  BY FifoBounds DEF Mask
<1> HIDE DEF q
<1>2a. k \in Int /\ FifoSize = 4 * k
  <2>1. FifoSize \in Nat /\ FifoSize % 8 = 0
    BY FifoBounds
  <2>. QED
    BY <2>1
<1>2b. j \in Int /\ x = 4 * j
  OBVIOUS
<1> HIDE DEF k, j
<1>2. k \in Int /\ FifoSize = 4 * k /\ j \in Int /\ x = 4 * j
  BY <1>2a, <1>2b
<1>3. FifoSize * q = 4 * (k * q) /\ k * q \in Int
  BY <1>1, <1>2
<1>4. Mask(x) = 4 * (j - k * q) /\ j - k * q \in Int
  BY <1>1, <1>2, <1>3
<1>5. Mask(x) % 4 = 0
  <2> DEFINE m == j - k * q
  <2>1. m \in Int /\ Mask(x) = 4 * m
    BY <1>4
  <2> HIDE DEF m
  <2>. QED
    BY <2>1
<1>. QED
  BY <1>1, <1>5 DEF WordAddr

LEMMA AlignRange ==
  ASSUME NEW n \in Nat
  PROVE  /\ Align4(n) \in Nat /\ Align4(n) % 4 = 0
         /\ n <= Align4(n) /\ Align4(n) <= n + 3
  BY DEF Align4

(* Rounding up to a word does not pass a bound that is a whole word.       *)
LEMMA AlignBound ==
  ASSUME NEW n \in Nat, NEW s \in Nat, s % 4 = 0, n <= s
  PROVE  Align4(n) <= s
  BY DEF Align4

LEMMA ChunkWords ==
  ASSUME TypeOK, call.op = "string" \/ call.done <= call.size, NEW n \in Chunks
  PROVE  n \in Nat /\ n % 4 = 0
<1>1. CASE call.op = "string"
  <2>1. PICK k \in 0 .. call.size : n = Align4(k + 1)
    BY <1>1 DEF Chunks
  <2>2. k + 1 \in Nat
    OBVIOUS
  <2>. QED
    BY <2>1, <2>2, AlignRange
<1>2. CASE call.op # "string"
  <2>1. n = Align4(Smaller(call.size - call.done, cmdSpace))
    BY <1>2 DEF Chunks
  <2>2. /\ call.size \in Nat /\ call.done \in Nat /\ cmdSpace \in Nat
        /\ call.done <= call.size
    BY <1>2, FifoBounds DEF TypeOK
  <2>3. Smaller(call.size - call.done, cmdSpace) \in Nat
    BY <2>2 DEF Smaller
  <2>. QED
    BY <2>1, <2>3, AlignRange
<1>. QED
  BY <1>1, <1>2

(* With four-byte multiples alone in the FIFO, a chunk has a start in it.  *)
LEMMA ChunkData ==
  ASSUME TypeOK, NEW n \in Nat, n % 4 = 0, NEW ws \in [0 .. n \div 4 - 1 -> Words],
         NEW w \in WordAddr
  PROVE  [a \in WordAddr |-> IF Mask(a - w) < n THEN ws[Mask(a - w) \div 4]
                             ELSE ram[a]] \in [WordAddr -> Words]
<1>1. ASSUME NEW a \in WordAddr, Mask(a - w) < n
      PROVE  ws[Mask(a - w) \div 4] \in Words
  <2>1. Mask(a - w) \in 0 .. FifoSize - 1
    BY FifoBounds DEF Mask, WordAddr
  <2>2. Mask(a - w) \div 4 \in 0 .. n \div 4 - 1
    <3> DEFINE m == Mask(a - w)
    <3>1. m \in Nat /\ m < n
      BY <2>1, <1>1
    <3> HIDE DEF m
    <3>2. m \div 4 \in 0 .. n \div 4 - 1
      BY <3>1
    <3>. QED
      BY <3>2 DEF m
  <2>. QED
    BY <2>2
<1>. QED
  <2>. ram \in [WordAddr -> Words]
    BY DEF TypeOK
  <2>. QED
    BY <1>1
----------------------------------------------------------------------------
(* The inductive invariant: what the parts below say together, every step  *)
(* preserves.                                                              *)

(* Which call stands at which register access.                             *)
CallShape ==
  /\ pc = "ready" => call.op = "none"
  /\ pc \in {"need", "put", "publish", "trap"} => call.op \in WriteOps
  /\ pc \in {"space", "spaceRp"} => call.op \in WriteOps \cup {"space", "query", "moveWp"}
  /\ pc \in {"flushRp", "flushWp"} => call.op \in FlushOps
  /\ pc = "move" => call.op = "moveWp"
  /\ call.op = "mem" /\ pc # "publish" => call.done < call.size
  /\ call.op = "string" /\ pc # "publish" => call.done = 0 /\ call.size \in StringSizes
  /\ call.op = "string" /\ pc = "publish" => call.done = call.size
  /\ call.op = "moveWp" => call.size \in MoveSizes

(* Where the function, the transfer and the write pointer stand, and what  *)
(* has been read of the registers so far.                                  *)
PointerShape ==
  /\ status = "writing" => cmdFunc
  /\ pc = "publish" => ~cmdFunc /\ ~supportCmdB
  /\ pc = "spaceRp" => /\ ~supportCmdB /\ status = "opened"
                       /\ seen = regWp /\ cmdWp = regWp
  /\ pc = "flushWp" => status = "opened"
  /\ pc = "flushWp" /\ ~fault =>
       seen \in WordAddr /\ Mask(regWp - rp) <= Mask(regWp - seen)
  /\ call.op = "reset" => ~cmdFunc /\ ~fault /\ rp = 0 /\ regWp = 0
  /\ call.op = "reset" /\ pc = "flushWp" => seen = 0
  /\ pc \in {"need", "put", "publish", "move"} => moved = 0

(* The cached space against the pointers.                                  *)
SpaceShape ==
  ~fault /\ call.op # "reset" =>
    /\ cmdSpace % 4 = 0 /\ cmdSpace <= FifoSize - 4
    /\ Mask(regWp - rp) <= Used
    /\ pc = "put" => Request <= cmdSpace
    /\ pc = "move" => call.size <= cmdSpace

Typed == TypeOK /\ CallShape

Sound == ClosedIsPublished /\ FaultIsReal /\ PointerShape /\ SpaceShape /\ SpaceSound

----------------------------------------------------------------------------
(* Types, and which call stands where.                                     *)

LEMMA NoCallTyped == NoCall \in [op : Ops, size : Nat, done : Nat]
<1>1. "none" \in Ops
  BY DEF Ops
<1>. QED
  BY <1>1 DEF NoCall

LEMMA TypedInit == Init => Typed
<1> SUFFICES ASSUME Init PROVE Typed
  OBVIOUS
<1>0. FifoSize \in Nat /\ FifoSize >= 8 /\ FifoSize <= Uint16
  BY FifoBounds
<1>1. 0 \in WordAddr /\ 0 \in 0 .. FifoSize - 1 /\ 0 \in 0 .. FifoSize
  BY <1>0 DEF WordAddr
<1>2. FifoSize - 4 \in 0 .. Uint16 - 1 /\ 0 \in 0 .. 3
  BY <1>0, FifoBounds
<1>3. NoCall \in [op : Ops, size : Nat, done : Nat]
  BY NoCallTyped
<1>4. TypeOK
  BY <1>1, <1>2, <1>3 DEF Init, TypeOK, Pcs, Returns
<1>5. CallShape
  BY DEF Init, CallShape, NoCall, WriteOps, FlushOps
<1>. QED
  BY <1>4, <1>5 DEF Typed

LEMMA RegistersInRange ==
  ASSUME TypeOK
  PROVE  RegCmdRead \in 0 .. FifoSize - 1 /\ RegCmdbSpace \in 0 .. FifoSize - 1
<1>1. FifoSize \in Nat /\ FifoSize >= 8
  BY FifoBounds
<1>2. RegCmdRead \in 0 .. FifoSize - 1
  BY <1>1 DEF TypeOK, RegCmdRead, WordAddr
<1>3. RegCmdRead - regWp - 4 \in Int
  BY <1>2 DEF TypeOK, WordAddr
<1>. QED
  BY <1>2, <1>3, MaskRange DEF RegCmdbSpace

(* What the wait for space does with the space it has read.                *)
LEMMA GotSpaceCases ==
  ASSUME NEW space, GotSpace(space)
  PROVE  /\ cmdSpace' = space /\ moved' = 0 /\ seen' = 0 /\ firstPoll' = FALSE
         /\ cmdWaiting' = FALSE \/ cmdWaiting' = cmdWaiting
         /\ \/ /\ pc' = "ready" /\ call' = NoCall
               /\ \/ ret' = "fault" /\ CmdFaultBits(space)
                  \/ ret' \in {"abort", "true", "refused"}
            \/ /\ pc' = "put" /\ call' = call /\ ret' = ret
               /\ call.op \in WriteOps /\ ~CmdFaultBits(space) /\ space >= Request
            \/ /\ pc' = "move" /\ call' = call /\ ret' = ret
               /\ call.op = "moveWp" /\ ~CmdFaultBits(space) /\ space >= Request
            \/ pc' = "space" /\ call' = call /\ ret' = ret
<1>1. CASE CmdFaultBits(space) /\ Return("fault") /\ cmdWaiting' = FALSE
  BY <1>1 DEF Return, GotSpace
<1>2. CASE Return("abort") /\ cmdWaiting' = FALSE
  BY <1>2 DEF Return, GotSpace
<1>3. CASE (call.op = "query" \/ (~CmdFaultBits(space) /\ space >= Request)) /\ Granted
  <2>1. CASE call.op \in WriteOps
    BY <1>3, <2>1 DEF Granted, EndWait, GotSpace, WriteOps
  <2>2. CASE call.op = "moveWp"
    BY <1>3, <2>2 DEF Granted, EndWait, GotSpace, WriteOps
  <2>3. CASE call.op \notin WriteOps /\ call.op # "moveWp"
    BY <1>3, <2>3 DEF Granted, Return, GotSpace
  <2>. QED
    BY <2>1, <2>2, <2>3
<1>4. CASE /\ firstPoll' = FALSE /\ pc' = "space" /\ seen' = 0
           /\ UNCHANGED <<cmdWaiting, call, ret>>
  BY <1>4 DEF GotSpace
<1>. QED
  BY <1>1, <1>2, <1>3, <1>4 DEF GotSpace

LEMMA GotSpaceTyped ==
  ASSUME Typed, NEW space \in 0 .. FifoSize - 1, GotSpace(space),
         pc \in {"space", "spaceRp"}
  PROVE  /\ cmdSpace' \in 0 .. Uint16 - 1 /\ cmdWaiting' \in BOOLEAN
         /\ pc' \in Pcs /\ ret' \in Returns /\ firstPoll' \in BOOLEAN
         /\ call' \in [op : Ops, size : Nat, done : Nat]
         /\ seen' \in 0 .. FifoSize - 1 /\ moved' \in 0 .. FifoSize
         /\ CallShape'
<1>0. FifoSize \in Nat /\ FifoSize >= 8 /\ FifoSize <= Uint16
  BY FifoBounds
<1>1. /\ cmdSpace' \in 0 .. Uint16 - 1
      /\ seen' \in 0 .. FifoSize - 1 /\ moved' \in 0 .. FifoSize
  <2>1. cmdSpace' = space /\ seen' = 0 /\ moved' = 0
    BY GotSpaceCases
  <2>. QED
    BY <1>0, <2>1, FifoBounds
<1>2. cmdWaiting' \in BOOLEAN /\ firstPoll' \in BOOLEAN
  BY GotSpaceCases DEF Typed, TypeOK
<1>3. pc' \in Pcs /\ ret' \in Returns
  BY GotSpaceCases DEF Typed, TypeOK, Pcs, PollPcs, Returns
<1>4. call' \in [op : Ops, size : Nat, done : Nat]
  BY NoCallTyped, GotSpaceCases DEF Typed, TypeOK
<1>5. CallShape'
  <2>1. call' = NoCall /\ pc' = "ready" => CallShape'
    BY DEF CallShape, NoCall, WriteOps, FlushOps
  <2>2. ASSUME call' = call, pc' \in {"put", "move", "space"},
               pc' = "put" => call.op \in WriteOps,
               pc' = "move" => call.op = "moveWp"
        PROVE  CallShape'
    BY <2>2 DEF Typed, CallShape, WriteOps, FlushOps
  <2>. QED
    BY <2>1, <2>2, GotSpaceCases
<1>. QED
  BY <1>1, <1>2, <1>3, <1>4, <1>5

(* The end of a chunk: the call goes on, or returns.                       *)
LEMMA AfterChunkTyped ==
  ASSUME Typed, pc \in {"put", "publish"},
         NEW done \in Nat, NEW size \in Nat, AfterChunk(done, size),
         call.op = "mem" => size = call.size,
         call.op = "string" => done = size
  PROVE  /\ call' \in [op : Ops, size : Nat, done : Nat]
         /\ pc' \in {"need", "ready"} /\ pc' \in Pcs /\ ret' \in Returns
         /\ firstPoll' \in BOOLEAN /\ seen' \in 0 .. FifoSize - 1
         /\ CallShape'
<1>1. /\ {"need", "ready"} \subseteq Pcs /\ {"true", "miscount"} \subseteq Returns
      /\ 0 \in 0 .. FifoSize - 1
  BY FifoBounds DEF Pcs, Returns
<1>2. call.op \in WriteOps
  BY DEF Typed, CallShape
<1>3. CASE done < size
  <2>1. /\ pc' = "need" /\ call' = [call EXCEPT !.done = done]
        /\ UNCHANGED <<ret, seen, firstPoll>>
    BY <1>3 DEF AfterChunk
  <2>2. CallShape'
    BY <1>2, <1>3, <2>1 DEF Typed, TypeOK, CallShape, WriteOps
  <2>. QED
    BY <1>1, <2>1, <2>2 DEF Typed, TypeOK
<1>4. CASE ~(done < size)
  <2>1. /\ pc' = "ready" /\ call' = NoCall /\ ret' \in {"true", "miscount"}
        /\ seen' = 0 /\ firstPoll' = FALSE
    BY <1>4 DEF AfterChunk, Return
  <2>2. CallShape'
    BY <2>1 DEF CallShape, NoCall
  <2>. QED
    BY <1>1, <2>1, <2>2, NoCallTyped
<1>. QED
  BY <1>3, <1>4

LEMMA TypedStep == Typed /\ [Next]_vars => Typed'
<1> SUFFICES ASSUME Typed, [Next]_vars PROVE Typed'
  OBVIOUS
<1> USE DEF Typed
<1>0. CASE UNCHANGED vars
  BY <1>0 DEF TypeOK, CallShape, vars, device, hal, thread
<1>1. CASE Consume
  <2>1. rp + 4 \in Int /\ (rp + 4) % 4 = 0
    BY DEF TypeOK, WordAddr
  <2>2. rp' \in WordAddr
    BY <1>1, <2>1, MaskWord DEF Consume
  <2>3. TypeOK'
    BY <1>1, <2>2 DEF Consume, TypeOK, hal, thread
  <2>. QED
    BY <1>1, <2>3 DEF Consume, CallShape, thread
<1>2. CASE Crash
  BY <1>2 DEF Crash, TypeOK, CallShape, hal, thread
<1>3. CASE StartFunc
  BY <1>3 DEF StartFunc, TypeOK, CallShape, device, Returns
<1>4. CASE EndFunc
  BY <1>4 DEF EndFunc, CloseTransfer, TypeOK, CallShape, Returns
<1>5. ASSUME NEW op \in {"mem", "string"}, NEW n \in MemSizes \cup StringSizes \cup {4},
             op = "string" => n \in StringSizes, WriteCall(op, n)
      PROVE  Typed'
  <2>1. n \in Nat /\ n > 0
    BY SizesAssumption, FifoBounds
  <2>2. op \in Ops /\ "need" \in Pcs /\ "none" \in Returns
    BY DEF Ops, WriteOps, Pcs, Returns
  <2>3. call' = [op |-> op, size |-> n, done |-> 0] /\ pc' = "need" /\ ret' = "none"
    BY <1>5 DEF WriteCall, Begin
  <2>4. TypeOK'
    BY <1>5, <2>1, <2>2, <2>3 DEF WriteCall, TypeOK, device, hal
  <2>5. CallShape'
    BY <1>5, <2>1, <2>3 DEF CallShape, WriteOps, FlushOps
  <2>. QED
    BY <2>4, <2>5
<1>6. ASSUME NEW n \in SmallSizes, WrSmall(n) PROVE Typed'
  <2>1. n \in {1, 2}
    BY SizesAssumption
  <2>2. cmdBufferIndex' \in 0 .. 3
    BY <1>6, <2>1 DEF WrSmall, TypeOK
  <2>3. /\ "mem" \in Ops /\ "mem" \in WriteOps /\ "need" \in Pcs
        /\ "none" \in Returns /\ "true" \in Returns
    BY DEF Ops, WriteOps, Pcs, Returns
  <2>4. CASE call' = [op |-> "mem", size |-> 4, done |-> 0] /\ pc' = "need" /\ ret' = "none"
    <3>1. TypeOK'
      BY <1>6, <2>2, <2>3, <2>4 DEF WrSmall, TypeOK, device
    <3>2. CallShape'
      BY <2>3, <2>4 DEF CallShape
    <3>. QED
      BY <3>1, <3>2
  <2>5. CASE ret' = "true" /\ pc' = pc /\ call' = call
    BY <1>6, <2>2, <2>3, <2>5 DEF WrSmall, TypeOK, CallShape, device
  <2>. QED
    BY <1>6, <2>4, <2>5 DEF WrSmall, Begin
<1>7. ASSUME NEW n \in SpaceSizes, WaitSpace(n) PROVE Typed'
  <2>1. n \in Nat /\ "space" \in Ops /\ "space" \in Pcs /\ "ready" \in Pcs
    BY SizesAssumption DEF Ops, Pcs, PollPcs
  <2>2. {"none", "refused", "fault", "true"} \subseteq Returns
    BY DEF Returns
  <2>a. /\ cmdWaiting' = cmdWaiting \/ cmdWaiting' = TRUE
        /\ firstPoll' = FALSE \/ firstPoll' = TRUE
        /\ seen' = 0 \/ seen' = seen
    BY <1>7 DEF WaitSpace, SpaceCall, Return, StartWait
  <2>3. cmdWaiting' \in BOOLEAN /\ firstPoll' \in BOOLEAN /\ seen' \in 0 .. FifoSize - 1
    <3>1. cmdWaiting' \in BOOLEAN /\ firstPoll' \in BOOLEAN
      BY <2>a DEF TypeOK
    <3>2. 0 \in 0 .. FifoSize - 1
      BY FifoBounds
    <3>3. seen' \in 0 .. FifoSize - 1
      BY <2>a, <3>2 DEF TypeOK
    <3>. QED
      BY <3>1, <3>3
  <2>4. CASE pc' = "ready" /\ call' = NoCall /\ ret' \in {"refused", "fault", "true"}
    <3>1. TypeOK'
      BY <1>7, <2>1, <2>2, <2>3, <2>4, NoCallTyped DEF WaitSpace, SpaceCall, TypeOK, device
    <3>2. CallShape'
      BY <2>4 DEF CallShape, NoCall
    <3>. QED
      BY <3>1, <3>2
  <2>5. CASE /\ pc' = "space" /\ ret' = "none"
             /\ call' = [op |-> "space", size |-> n, done |-> 0]
    <3>1. TypeOK'
      BY <1>7, <2>1, <2>2, <2>3, <2>5 DEF WaitSpace, SpaceCall, TypeOK, device
    <3>2. CallShape'
      BY <2>5 DEF CallShape
    <3>. QED
      BY <3>1, <3>2
  <2>. QED
    BY <1>7, <2>4, <2>5 DEF WaitSpace, SpaceCall, Return, StartWait
<1>8. ASSUME NEW n \in MoveSizes, MoveWp(n) PROVE Typed'
  <2>1. n \in Nat /\ "moveWp" \in Ops /\ {"space", "move", "ready"} \subseteq Pcs
    BY SizesAssumption, FifoBounds DEF Ops, Pcs, PollPcs
  <2>2. {"none", "refused", "fault"} \subseteq Returns
    BY DEF Returns
  <2>a. /\ cmdWaiting' = cmdWaiting \/ cmdWaiting' = TRUE
        /\ firstPoll' = FALSE \/ firstPoll' = TRUE \/ firstPoll' = firstPoll
        /\ seen' = 0 \/ seen' = seen
    BY <1>8 DEF MoveWp, SpaceCall, Return, StartWait
  <2>3. cmdWaiting' \in BOOLEAN /\ firstPoll' \in BOOLEAN /\ seen' \in 0 .. FifoSize - 1
    <3>1. cmdWaiting' \in BOOLEAN /\ firstPoll' \in BOOLEAN
      BY <2>a DEF TypeOK
    <3>2. 0 \in 0 .. FifoSize - 1
      BY FifoBounds
    <3>3. seen' \in 0 .. FifoSize - 1
      BY <2>a, <3>2 DEF TypeOK
    <3>. QED
      BY <3>1, <3>3
  <2>4. CASE pc' = "ready" /\ call' = NoCall /\ ret' \in {"refused", "fault"}
    <3>1. TypeOK'
      BY <1>8, <2>1, <2>2, <2>3, <2>4, NoCallTyped DEF MoveWp, SpaceCall, TypeOK, device
    <3>2. CallShape'
      BY <2>4 DEF CallShape, NoCall
    <3>. QED
      BY <3>1, <3>2
  <2>5. CASE /\ pc' \in {"space", "move"} /\ ret' = "none"
             /\ call' = [op |-> "moveWp", size |-> n, done |-> 0]
    <3>1. TypeOK'
      BY <1>8, <2>1, <2>2, <2>3, <2>5 DEF MoveWp, SpaceCall, TypeOK, device
    <3>2. CallShape'
      BY <2>5 DEF CallShape
    <3>. QED
      BY <3>1, <3>2
  <2>. QED
    BY <1>8, <2>4, <2>5 DEF MoveWp, SpaceCall, Return, StartWait, Begin
<1>9. CASE Query
  <2>1. /\ {"query", "busy"} \subseteq Ops /\ {"space", "flushRp"} \subseteq Pcs
        /\ "none" \in Returns /\ "busy" \in FlushOps
    BY DEF Ops, FlushOps, Pcs, PollPcs, Returns
  <2>2. TypeOK'
    BY <1>9, <2>1 DEF Query, Begin, TypeOK, device, hal
  <2>3. CallShape'
    BY <1>9, <2>1 DEF Query, Begin, CallShape
  <2>. QED
    BY <2>2, <2>3
<1>10. ASSUME NEW op \in {"flush", "read32"}, WaitFlush(op) PROVE Typed'
  <2>1. op \in Ops /\ "flushRp" \in Pcs /\ "none" \in Returns /\ op \in FlushOps
    BY DEF Ops, FlushOps, Pcs, PollPcs, Returns
  <2>2. TypeOK'
    BY <1>10, <2>1 DEF WaitFlush, StartWait, TypeOK, device
  <2>3. CallShape'
    BY <1>10, <2>1 DEF WaitFlush, StartWait, CallShape
  <2>. QED
    BY <2>2, <2>3
<1>11. CASE ResetCoprocessor
  <2>1. /\ "reset" \in Ops /\ "flushRp" \in Pcs /\ "none" \in Returns
        /\ "reset" \in FlushOps
    BY DEF Ops, FlushOps, Pcs, PollPcs, Returns
  <2>2. 0 \in WordAddr
    BY FifoBounds DEF WordAddr
  <2>3. TypeOK'
    BY <1>11, <2>1, <2>2 DEF ResetCoprocessor, StartWait, TypeOK
  <2>4. CallShape'
    BY <1>11, <2>1 DEF ResetCoprocessor, StartWait, CallShape
  <2>. QED
    BY <2>3, <2>4
<1>12. CASE Reserve
  <2>1. {"space", "put"} \subseteq Pcs
    BY DEF Pcs, PollPcs
  <2>2. pc' \in {"space", "put"} /\ call' = call
    BY <1>12 DEF Reserve, StartWait
  <2>3. firstPoll' \in BOOLEAN /\ cmdWaiting' \in BOOLEAN
    BY <1>12 DEF Reserve, StartWait, TypeOK
  <2>4. TypeOK'
    BY <1>12, <2>1, <2>2, <2>3 DEF Reserve, TypeOK, device
  <2>5. CallShape'
    BY <1>12, <2>2 DEF Reserve, CallShape
  <2>. QED
    BY <2>4, <2>5
<1>13. CASE Put
  <2>1. PICK n \in Chunks : AssertFails(n) \/ PutChunk(n)
    BY <1>13 DEF Put
  <2>2. pc = "put" /\ call.op \in WriteOps
    BY <1>13 DEF Put, CallShape
  <2>3. n \in Nat /\ n % 4 = 0
    <3>1. call.op = "string" \/ call.done <= call.size
      BY <2>2 DEF CallShape, WriteOps, TypeOK
    <3>. QED
      BY <3>1, ChunkWords
  <2>4. /\ {"trap", "publish", "need", "ready"} \subseteq Pcs
        /\ {"true", "miscount"} \subseteq Returns
    BY DEF Pcs, Returns
  <2>5. CASE AssertFails(n)
    <3>1. TypeOK'
      BY <1>13, <2>4, <2>5 DEF Put, AssertFails, TypeOK
    <3>2. CallShape'
      BY <2>2, <2>5 DEF AssertFails, CallShape
    <3>. QED
      BY <3>1, <3>2
  <2>6. CASE PutChunk(n)
    <3>1. ram' \in [WordAddr -> Words]
      <4>1. HostWp \in WordAddr
        BY DEF HostWp, TypeOK
      <4>. QED
        BY <2>6, <2>3, <4>1, ChunkData DEF PutChunk
    <3>2. cmdSpace' \in 0 .. Uint16 - 1
      <4>1. cmdSpace' = (cmdSpace - n) % Uint16
        BY <2>6 DEF PutChunk
      <4>2. cmdSpace - n \in Int
        BY <2>3, FifoBounds DEF TypeOK
      <4>. QED
        BY <4>1, <4>2, FifoBounds
    <3>3. regWp' \in WordAddr /\ cmdWp' \in WordAddr
      <4>1. /\ regWp + n \in Int /\ (regWp + n) % 4 = 0
            /\ cmdWp + n \in Int /\ (cmdWp + n) % 4 = 0
        BY <2>3 DEF TypeOK, WordAddr
      <4>2. Mask(regWp + n) \in WordAddr /\ Mask(cmdWp + n) \in WordAddr
        BY <4>1, MaskWord
      <4>3. regWp' \in {regWp, Mask(regWp + n)} /\ cmdWp' \in {cmdWp, Mask(cmdWp + n)}
        BY <2>6 DEF PutChunk
      <4>. QED
        BY <4>2, <4>3 DEF TypeOK
    <3>4. PICK done \in Nat, size \in Nat :
             /\ call.op = "mem" => size = call.size
             /\ call.op = "string" => done = size
             /\ \/ AfterChunk(done, size)
                \/ /\ pc' = "publish" /\ UNCHANGED <<ret, seen, firstPoll>>
                   /\ call' = [call EXCEPT !.done = done, !.size = size]
      <4> DEFINE d == call.done + n
                 z == IF call.op = "string" THEN d ELSE call.size
      <4>1. d \in Nat /\ z \in Nat
        BY <2>3 DEF TypeOK
      <4>2. /\ call.op = "mem" => z = call.size
            /\ call.op = "string" => d = z
        OBVIOUS
      <4>3. \/ AfterChunk(d, z)
            \/ /\ pc' = "publish" /\ UNCHANGED <<ret, seen, firstPoll>>
               /\ call' = [call EXCEPT !.done = d, !.size = z]
        BY <2>6 DEF PutChunk
      <4> HIDE DEF d, z
      <4>. QED
        BY <4>1, <4>2, <4>3
    <3>5. CASE /\ pc' = "publish" /\ UNCHANGED <<ret, seen, firstPoll>>
               /\ call' = [call EXCEPT !.done = done, !.size = size]
      <4>1. TypeOK'
        BY <1>13, <2>4, <2>6, <3>1, <3>2, <3>3, <3>5 DEF Put, PutChunk, TypeOK
      <4>2. CallShape'
        <5>1. /\ call'.op = call.op /\ call'.done = done /\ call'.size = size
              /\ pc' = "publish"
          BY <3>5 DEF TypeOK
        <5>. QED
          BY <2>2, <3>4, <5>1 DEF CallShape, WriteOps
      <4>. QED
        BY <4>1, <4>2
    <3>6. CASE AfterChunk(done, size)
      <4>1. /\ call' \in [op : Ops, size : Nat, done : Nat] /\ pc' \in Pcs /\ ret' \in Returns
            /\ CallShape'
        BY <1>13, <3>4, <3>6, AfterChunkTyped DEF Put
      <4>2. firstPoll' \in BOOLEAN /\ seen' \in 0 .. FifoSize - 1
        BY <1>13, <3>4, <3>6, AfterChunkTyped DEF Put
      <4>3. TypeOK'
        BY <1>13, <2>6, <3>1, <3>2, <3>3, <4>1, <4>2 DEF Put, PutChunk, TypeOK
      <4>. QED
        BY <4>1, <4>3
    <3>. QED
      BY <3>4, <3>5, <3>6
  <2>. QED
    BY <2>1, <2>5, <2>6
<1>14. CASE Publish
  <2>1. /\ AfterChunk(call.done, call.size) /\ pc = "publish"
        /\ call.done \in Nat /\ call.size \in Nat
        /\ call.op = "string" => call.done = call.size
    BY <1>14 DEF Publish, CallShape, TypeOK
  <2>2. /\ call' \in [op : Ops, size : Nat, done : Nat] /\ pc' \in Pcs /\ ret' \in Returns
        /\ firstPoll' \in BOOLEAN /\ seen' \in 0 .. FifoSize - 1
        /\ CallShape'
    BY <2>1, AfterChunkTyped
  <2>3. TypeOK'
    BY <1>14, <2>2 DEF Publish, TypeOK, hal
  <2>. QED
    BY <2>2, <2>3
<1>15. CASE Move
  <2>1. /\ pc' = "ready" /\ call' = NoCall /\ ret' = "true"
        /\ seen' = 0 /\ firstPoll' = FALSE
    BY <1>15 DEF Move, Return
  <2>2. /\ "ready" \in Pcs /\ "true" \in Returns /\ 0 \in 0 .. FifoSize - 1
    BY FifoBounds DEF Pcs, Returns
  <2>3. call.size \in MoveSizes /\ call.size \in Nat /\ call.size % 4 = 0
    BY <1>15, SizesAssumption DEF Move, CallShape, TypeOK
  <2>4. regWp' \in WordAddr /\ cmdWp' \in WordAddr
    <3>1. PICK w \in WordAddr : /\ regWp' = Mask(w + call.size)
                                /\ cmdWp' = cmdWp \/ cmdWp' = regWp'
      BY <1>15 DEF Move, TypeOK
    <3>2. w + call.size \in Int /\ (w + call.size) % 4 = 0
      BY <2>3 DEF WordAddr
    <3>3. Mask(w + call.size) \in WordAddr
      BY <3>2, MaskWord
    <3>. QED
      BY <3>1, <3>3 DEF TypeOK
  <2>5. moved' \in 0 .. FifoSize
    BY <1>15, <2>3, FifoBounds DEF Move, Smaller, TypeOK
  <2>6. TypeOK'
    BY <1>15, <2>1, <2>2, <2>4, <2>5, NoCallTyped DEF Move, TypeOK
  <2>7. CallShape'
    BY <2>1 DEF CallShape, NoCall
  <2>. QED
    BY <2>6, <2>7
<1>16. CASE PollClose
  <2>1. status' = "opened" /\ (regWp' = regWp \/ regWp' = cmdWp)
    BY <1>16 DEF PollClose, CloseTransfer
  <2>2. TypeOK'
    BY <1>16, <2>1 DEF PollClose, TypeOK, thread
  <2>3. CallShape'
    BY <1>16 DEF PollClose, CallShape, thread
  <2>. QED
    BY <2>2, <2>3
<1>17. CASE PollCmdbSpace
  <2>1. pc = "space" /\ GotSpace(RegCmdbSpace)
    BY <1>17 DEF PollCmdbSpace
  <2>2. RegCmdbSpace \in 0 .. FifoSize - 1
    BY RegistersInRange
  <2>3. /\ cmdSpace' \in 0 .. Uint16 - 1 /\ cmdWaiting' \in BOOLEAN
        /\ pc' \in Pcs /\ ret' \in Returns /\ firstPoll' \in BOOLEAN
        /\ call' \in [op : Ops, size : Nat, done : Nat]
        /\ seen' \in 0 .. FifoSize - 1 /\ moved' \in 0 .. FifoSize
        /\ CallShape'
    BY <2>1, <2>2, GotSpaceTyped
  <2>4. cmdFault' \in BOOLEAN
    BY <1>17 DEF PollCmdbSpace, TypeOK
  <2>5. TypeOK'
    BY <1>17, <2>3, <2>4 DEF PollCmdbSpace, TypeOK, device
  <2>. QED
    BY <2>3, <2>5
<1>18. CASE PollSpaceWp
  <2>1. "spaceRp" \in Pcs /\ regWp \in 0 .. FifoSize - 1
    BY DEF Pcs, PollPcs, TypeOK, WordAddr
  <2>2. TypeOK'
    BY <1>18, <2>1 DEF PollSpaceWp, TypeOK, device
  <2>3. CallShape'
    BY <1>18 DEF PollSpaceWp, CallShape
  <2>. QED
    BY <2>2, <2>3
<1>19. CASE PollSpaceRp
  <2>1. pc = "spaceRp" /\ GotSpace(Mask(RegCmdRead - seen - 4))
    BY <1>19 DEF PollSpaceRp
  <2>2. Mask(RegCmdRead - seen - 4) \in 0 .. FifoSize - 1
    <3>1. RegCmdRead - seen - 4 \in Int
      BY RegistersInRange, FifoBounds DEF TypeOK
    <3>. QED
      BY <3>1, MaskRange
  <2>3. /\ cmdSpace' \in 0 .. Uint16 - 1 /\ cmdWaiting' \in BOOLEAN
        /\ pc' \in Pcs /\ ret' \in Returns /\ firstPoll' \in BOOLEAN
        /\ call' \in [op : Ops, size : Nat, done : Nat]
        /\ seen' \in 0 .. FifoSize - 1 /\ moved' \in 0 .. FifoSize
        /\ CallShape'
    BY <2>1, <2>2, GotSpaceTyped
  <2>4. cmdFault' \in BOOLEAN
    BY <1>19 DEF PollSpaceRp, TypeOK
  <2>5. TypeOK'
    BY <1>19, <2>3, <2>4 DEF PollSpaceRp, TypeOK, device
  <2>. QED
    BY <2>3, <2>5
<1>20. CASE PollFlushRp
  <2>1. "flushWp" \in Pcs /\ RegCmdRead \in 0 .. FifoSize - 1
    BY RegistersInRange DEF Pcs, PollPcs
  <2>2. cmdFault' \in BOOLEAN
    BY <1>20 DEF PollFlushRp, TypeOK
  <2>3. TypeOK'
    BY <1>20, <2>1, <2>2 DEF PollFlushRp, TypeOK, device
  <2>4. CallShape'
    BY <1>20 DEF PollFlushRp, CallShape
  <2>. QED
    BY <2>3, <2>4
<1>21. CASE PollFlushWp
  <2>1. /\ {"ready", "flushRp"} \subseteq Pcs
        /\ {"true", "fault", "abort", "absent"} \subseteq Returns
        /\ 0 \in 0 .. FifoSize - 1 /\ 0 \in 0 .. FifoSize
    BY FifoBounds DEF Pcs, PollPcs, Returns
  <2>2. Mask(seen - regWp - 4) \in 0 .. Uint16 - 1 /\ FifoSize - 4 \in 0 .. Uint16 - 1
    <3>1. seen - regWp - 4 \in Int
      BY FifoBounds DEF TypeOK, WordAddr
    <3>. QED
      BY <3>1, MaskRange, FifoBounds
  <2>3. /\ cmdSpace' = FifoSize - 4 \/ cmdSpace' = Mask(seen - regWp - 4)
          \/ cmdSpace' = cmdSpace
        /\ cmdWaiting' = FALSE \/ cmdWaiting' = cmdWaiting
        /\ moved' = 0 \/ moved' = moved
        /\ firstPoll' = FALSE \/ firstPoll' = firstPoll
        /\ seen' = 0
        /\ \/ pc' = "flushRp" /\ call' = call /\ ret' = ret
           \/ pc' = "ready" /\ call' = NoCall /\ ret' \in {"true", "fault", "abort", "absent"}
    BY <1>21 DEF PollFlushWp, Flushed, FlushFailed, FlushAgain, ReadFound, Return
  <2>4. cmdWaiting' \in BOOLEAN /\ firstPoll' \in BOOLEAN
    BY <2>3 DEF TypeOK
  <2>5. pc' \in Pcs /\ ret' \in Returns
        /\ call' \in [op : Ops, size : Nat, done : Nat]
    BY <2>1, <2>3, NoCallTyped DEF TypeOK
  <2>6. cmdSpace' \in 0 .. Uint16 - 1 /\ moved' \in 0 .. FifoSize
        /\ seen' \in 0 .. FifoSize - 1
    BY <2>1, <2>2, <2>3 DEF TypeOK
  <2>7. cmdWp' = cmdWp \/ cmdWp' = regWp
    BY <1>21 DEF PollFlushWp
  <2>8. TypeOK'
    BY <1>21, <2>4, <2>5, <2>6, <2>7 DEF PollFlushWp, TypeOK, device
  <2>9. CallShape'
    BY <1>21, <2>3 DEF PollFlushWp, CallShape, NoCall
  <2>. QED
    BY <2>8, <2>9
<1>. QED
  <2>1. CASE Call
    BY <1>3, <1>4, <1>5, <1>6, <1>7, <1>8, <1>9, <1>10, <1>11, <2>1
    DEF Call, Wr32, WrMem, WrString
  <2>2. CASE Continue
    BY <1>12, <1>13, <1>14, <1>15, <1>16, <1>17, <1>18, <1>19, <1>20, <1>21, <2>2
    DEF Continue, Poll
  <2>. QED
    BY <1>0, <1>1, <1>2, <2>1, <2>2 DEF Next

(* The variables keep their types, and a call stands only where its code   *)
(* can be (EVE_Cmd.c), whatever the sizes requested.                       *)
THEOREM TypeCorrect == Spec => []TypeOK
<1>1. Spec => []Typed
  BY TypedInit, TypedStep, PTL DEF Spec
<1>2. Typed => TypeOK
  BY DEF Typed
<1>. QED
  BY <1>1, <1>2, PTL

----------------------------------------------------------------------------
(* Distances on the circle, between a reader a and a writer b.             *)

LEMMA Distance ==
  ASSUME NEW a \in WordAddr, NEW b \in WordAddr
  PROVE  /\ Mask(b - a) = IF a <= b THEN b - a ELSE b - a + FifoSize
         /\ Mask(b - a) \in 0 .. FifoSize - 4 /\ Mask(b - a) % 4 = 0
         /\ Mask(a - b - 4) = FifoSize - 4 - Mask(b - a)
<1>1. /\ a \in 0 .. FifoSize - 4 /\ b \in 0 .. FifoSize - 4
      /\ a % 4 = 0 /\ b % 4 = 0
  BY FifoBounds DEF WordAddr
<1>2. b - a \in -FifoSize .. 2 * FifoSize - 1 /\ a - b - 4 \in -FifoSize .. 2 * FifoSize - 1
  BY <1>1, FifoBounds
<1>3. Mask(b - a) = IF b - a < 0 THEN b - a + FifoSize
                    ELSE IF b - a >= FifoSize THEN b - a - FifoSize ELSE b - a
  BY <1>2, MaskCases
<1>4. Mask(a - b - 4) = IF a - b - 4 < 0 THEN a - b - 4 + FifoSize
                        ELSE IF a - b - 4 >= FifoSize THEN a - b - 4 - FifoSize
                        ELSE a - b - 4
  BY <1>2, MaskCases
<1>5. Mask(b - a) = IF a <= b THEN b - a ELSE b - a + FifoSize
  BY <1>1, <1>3, FifoBounds
<1>6. Mask(b - a) \in 0 .. FifoSize - 4 /\ Mask(b - a) % 4 = 0
  BY <1>1, <1>5, FifoBounds
<1>7. Mask(a - b - 4) = FifoSize - 4 - Mask(b - a)
  BY <1>1, <1>4, <1>5, FifoBounds
<1>. QED
  BY <1>5, <1>6, <1>7

LEMMA WriterAdvances ==
  ASSUME NEW a \in WordAddr, NEW b \in WordAddr, NEW n \in Nat, n % 4 = 0,
         Mask(b - a) + n < FifoSize
  PROVE  Mask(Mask(b + n) - a) = Mask(b - a) + n
<1>1. /\ a \in 0 .. FifoSize - 1 /\ b \in 0 .. FifoSize - 1
      /\ a % 4 = 0 /\ b % 4 = 0
  BY FifoBounds DEF WordAddr
<1>2. Mask(b - a) = IF a <= b THEN b - a ELSE b - a + FifoSize
  BY Distance
<1>3. b + n \in -FifoSize .. 2 * FifoSize - 1
  BY <1>1, <1>2, FifoBounds
<1>4. Mask(b + n) = IF b + n >= FifoSize THEN b + n - FifoSize ELSE b + n
  <2>1. CASE b + n >= FifoSize
    <3>1. /\ b + n - FifoSize >= 0 /\ b + n - FifoSize < FifoSize
          /\ b + n \in Int /\ b + n - FifoSize \in Int
      BY <1>1, <1>3, <2>1, FifoBounds
    <3>2. Mask(b + n) = b + n - FifoSize
      BY <1>1, <3>1, MaskWraps, FifoBounds
    <3>. QED
      BY <2>1, <3>2
  <2>2. CASE b + n < FifoSize
    <3>1. b + n \in 0 .. FifoSize - 1
      BY <1>1, <1>3, <2>2, FifoBounds
    <3>2. Mask(b + n) = b + n
      BY <3>1, MaskIs
    <3>. QED
      BY <2>2, <3>1, <3>2, FifoBounds
  <2>. QED
    BY <1>1, <2>1, <2>2, FifoBounds
<1>5. Mask(b + n) \in WordAddr
  <2>1. b + n \in Int /\ (b + n) % 4 = 0
    BY <1>1
  <2>. QED
    BY <2>1, MaskWord
<1> DEFINE c == Mask(b + n)
<1> HIDE DEF c
<1>6. Mask(c - a) = IF a <= c THEN c - a ELSE c - a + FifoSize
  BY <1>5, Distance DEF c
<1>7. c = IF b + n >= FifoSize THEN b + n - FifoSize ELSE b + n
  BY <1>4 DEF c
<1>8. Mask(c - a) = Mask(b - a) + n
  BY <1>1, <1>2, <1>6, <1>7, FifoBounds
<1>. QED
  BY <1>8 DEF c

LEMMA ReaderAdvances ==
  ASSUME NEW a \in WordAddr, NEW b \in WordAddr, Mask(b - a) >= 4
  PROVE  Mask(b - Mask(a + 4)) = Mask(b - a) - 4
<1>1. /\ a \in 0 .. FifoSize - 4 /\ b \in 0 .. FifoSize - 4
      /\ a % 4 = 0 /\ b % 4 = 0
  BY FifoBounds DEF WordAddr
<1>2. Mask(b - a) = IF a <= b THEN b - a ELSE b - a + FifoSize
  BY Distance
<1>3. a + 4 \in -FifoSize .. 2 * FifoSize - 1 /\ (a + 4) \in Int /\ (a + 4) % 4 = 0
  BY <1>1, FifoBounds
<1>4. Mask(a + 4) = IF a + 4 >= FifoSize THEN a + 4 - FifoSize ELSE a + 4
  <2>1. CASE a + 4 >= FifoSize
    <3>1. /\ a + 4 - FifoSize >= 0 /\ a + 4 - FifoSize < FifoSize
          /\ a + 4 \in Int /\ a + 4 - FifoSize \in Int
      BY <1>1, <1>3, <2>1, FifoBounds
    <3>2. Mask(a + 4) = a + 4 - FifoSize
      BY <1>1, <3>1, MaskWraps, FifoBounds
    <3>. QED
      BY <2>1, <3>2
  <2>2. CASE a + 4 < FifoSize
    <3>1. a + 4 \in 0 .. FifoSize - 1
      BY <1>1, <1>3, <2>2, FifoBounds
    <3>2. Mask(a + 4) = a + 4
      BY <3>1, MaskIs
    <3>. QED
      BY <2>2, <3>1, <3>2, FifoBounds
  <2>. QED
    BY <1>1, <2>1, <2>2, FifoBounds
<1>5. Mask(a + 4) \in WordAddr
  BY <1>3, MaskWord
<1> DEFINE c == Mask(a + 4)
<1> HIDE DEF c
<1>6. Mask(b - c) = IF c <= b THEN b - c ELSE b - c + FifoSize
  BY <1>5, Distance DEF c
<1>7. c = IF a + 4 >= FifoSize THEN a + 4 - FifoSize ELSE a + 4
  BY <1>4 DEF c
<1>8. Mask(b - c) = Mask(b - a) - 4
  BY <1>1, <1>2, <1>6, <1>7, FifoBounds
<1>. QED
  BY <1>8 DEF c

(* Not zero and a multiple of four.                                        *)
LEMMA DistanceSteps ==
  ASSUME NEW a \in WordAddr, NEW b \in WordAddr
  PROVE  /\ a # b => Mask(b - a) >= 4
         /\ a = b <=> Mask(b - a) = 0
<1>1. Mask(b - a) = IF a <= b THEN b - a ELSE b - a + FifoSize
  BY Distance
<1>2. /\ a \in 0 .. FifoSize - 4 /\ b \in 0 .. FifoSize - 4
      /\ a % 4 = 0 /\ b % 4 = 0
  BY FifoBounds DEF WordAddr
<1>. QED
  BY <1>1, <1>2, FifoBounds

----------------------------------------------------------------------------
(* The cached space.  From here on a caller of EVE_Cmd_moveWp waits for    *)
(* its result (~NullResult) before it writes again.                        *)

LEMMA Pointers ==
  ASSUME TypeOK
  PROVE  /\ rp \in WordAddr /\ regWp \in WordAddr /\ cmdWp \in WordAddr
         /\ HostWp \in WordAddr
         /\ Used \in 0 .. FifoSize - 4 /\ Used % 4 = 0
         /\ Mask(regWp - rp) \in 0 .. FifoSize - 4
<1>1. rp \in WordAddr /\ regWp \in WordAddr /\ cmdWp \in WordAddr
  BY DEF TypeOK
<1>2. HostWp \in WordAddr
  BY <1>1 DEF HostWp
<1>3. Used \in 0 .. FifoSize - 4 /\ Used % 4 = 0
  BY <1>1, <1>2, Distance DEF Used
<1>4. Mask(regWp - rp) \in 0 .. FifoSize - 4
  BY <1>1, Distance
<1>. QED
  BY <1>1, <1>2, <1>3, <1>4

LEMMA SoundInit == Init => Sound
<1> SUFFICES ASSUME Init PROVE Sound
  OBVIOUS
<1>1. TypeOK
  BY TypedInit DEF Typed
<1>2. rp \in WordAddr /\ regWp \in WordAddr /\ HostWp \in WordAddr
  BY <1>1, Pointers
<1>3. HostWp = rp /\ regWp = rp
  BY DEF Init, HostWp
<1>4. Used = 0 /\ Mask(regWp - rp) = 0
  BY <1>2, <1>3, DistanceSteps DEF Used
<1>5. SpaceShape /\ SpaceSound
  <2>1. cmdSpace = FifoSize - 4 /\ moved = 0 /\ pc = "ready"
    BY DEF Init
  <2>2. cmdSpace % 4 = 0
    BY <2>1, FifoBounds
  <2>. QED
    BY <1>4, <2>1, <2>2, FifoBounds DEF SpaceShape, SpaceSound
<1>6. ClosedIsPublished /\ FaultIsReal /\ PointerShape
  BY DEF Init, ClosedIsPublished, FaultIsReal, PointerShape, NoCall
<1>. QED
  BY <1>5, <1>6 DEF Sound

(* A step that leaves the device, the pointers and the cache alone.        *)
LEMMA QuietStep ==
  ASSUME Sound,
         UNCHANGED <<rp, regWp, fault, supportCmdB, status, cmdWp, cmdSpace, cmdFault, moved>>,
         cmdFunc' = cmdFunc \/ cmdFunc' = TRUE,
         call.op # "reset", call'.op # "reset",
         pc # "publish", pc' \notin {"publish", "spaceRp", "flushWp"},
         ret' = "fault" => fault,
         pc' \in {"need", "put", "move"} => moved = 0,
         ~fault /\ pc' = "put" => Request' <= cmdSpace,
         ~fault /\ pc' = "move" => call'.size <= cmdSpace
  PROVE  Sound'
<1>1. HostWp' = HostWp
  BY DEF HostWp
<1>2. Used' = Used /\ Mask(regWp - rp)' = Mask(regWp - rp)
  BY <1>1 DEF Used, Mask
<1>3. ClosedIsPublished'
  BY DEF Sound, ClosedIsPublished
<1>4. FaultIsReal'
  BY DEF Sound, FaultIsReal
<1>5. PointerShape'
  BY DEF Sound, PointerShape
<1>6. SpaceShape'
  BY <1>2 DEF Sound, SpaceShape
<1>7. SpaceSound'
  BY <1>2 DEF Sound, SpaceSound
<1>. QED
  BY <1>3, <1>4, <1>5, <1>6, <1>7 DEF Sound

LEMMA ConsumeSound == Typed /\ Sound /\ Consume => Sound'
<1> SUFFICES ASSUME Typed, Sound, Consume PROVE Sound'
  OBVIOUS
<1>1. /\ rp \in WordAddr /\ regWp \in WordAddr /\ HostWp \in WordAddr
      /\ Used \in 0 .. FifoSize - 4 /\ Mask(regWp - rp) \in 0 .. FifoSize - 4
  BY Pointers DEF Typed
<1>2. /\ rp' = Mask(rp + 4) /\ ~fault /\ rp # regWp
      /\ UNCHANGED <<regWp, fault, hal, thread>>
  BY DEF Consume
<1>3. Mask(regWp - rp) >= 4
  BY <1>1, <1>2, DistanceSteps
<1>4. Mask(regWp - Mask(rp + 4)) = Mask(regWp - rp) - 4
  BY <1>1, <1>3, ReaderAdvances
<1>5. HostWp' = HostWp
  BY <1>2 DEF HostWp, hal, thread
<1>6. call.op # "reset"
  BY <1>2 DEF Sound, PointerShape
<1>7. Mask(regWp - rp) <= Used
  BY <1>2, <1>6 DEF Sound, SpaceShape
<1>8. Used' = Used - 4
  <2>1. Mask(HostWp - rp) >= 4
    BY <1>1, <1>3, <1>7 DEF Used
  <2>2. Mask(HostWp - Mask(rp + 4)) = Mask(HostWp - rp) - 4
    BY <1>1, <2>1, ReaderAdvances
  <2>. QED
    BY <1>2, <1>5, <2>2 DEF Used
<1>9. Mask(regWp' - rp') = Mask(regWp - rp) - 4
  BY <1>2, <1>4
<1>10. ClosedIsPublished' /\ FaultIsReal'
  BY <1>2 DEF Sound, ClosedIsPublished, FaultIsReal, hal, thread
<1>11. PointerShape'
  <2>1. pc = "flushWp" => seen \in WordAddr /\ Mask(regWp - rp) <= Mask(regWp - seen)
    BY <1>2 DEF Sound, PointerShape
  <2>2. pc = "flushWp" => Mask(regWp - seen) \in 0 .. FifoSize - 4
    BY <1>1, <2>1, Distance
  <2>3. pc = "flushWp" => Mask(regWp' - rp') <= Mask(regWp' - seen')
    BY <1>1, <1>2, <1>9, <2>1, <2>2, FifoBounds DEF hal, thread
  <2>. QED
    BY <1>2, <1>6, <2>1, <2>3 DEF Sound, PointerShape, hal, thread
<1>12. SpaceShape' /\ SpaceSound'
  <2>1. UNCHANGED <<cmdSpace, pc, call, moved, Request>>
    BY <1>2 DEF hal, thread, Request
  <2>2. /\ cmdSpace % 4 = 0 /\ cmdSpace <= FifoSize - 4
        /\ pc = "put" => Request <= cmdSpace
        /\ pc = "move" => call.size <= cmdSpace
        /\ cmdSpace + Used <= FifoSize - 4 + moved
    BY <1>2, <1>6 DEF Sound, SpaceShape, SpaceSound
  <2>3. Mask(regWp' - rp') <= Used'
    BY <1>1, <1>7, <1>8, <1>9, FifoBounds
  <2>4. cmdSpace + Used' <= FifoSize - 4 + moved
    BY <1>1, <1>8, <2>2, FifoBounds DEF Typed, TypeOK
  <2>. QED
    BY <2>1, <2>2, <2>3, <2>4 DEF SpaceShape, SpaceSound
<1>. QED
  BY <1>10, <1>11, <1>12 DEF Sound

LEMMA CrashSound == Typed /\ Sound /\ Crash => Sound'
<1> SUFFICES ASSUME Typed, Sound, Crash PROVE Sound'
  OBVIOUS
<1>1. fault' = TRUE /\ ~fault /\ rp # regWp /\ UNCHANGED <<rp, regWp, hal, thread>>
  BY DEF Crash
<1>2. call.op # "reset"
  BY <1>1 DEF Sound, PointerShape
<1>. QED
  BY <1>1, <1>2 DEF Sound, ClosedIsPublished, FaultIsReal, PointerShape, SpaceShape,
                    SpaceSound, hal, thread

(* The calls up to their first register access.                            *)
LEMMA CallSound ==
  ASSUME ~NullResult, Typed, Sound, Call, ~EndFunc, ~ResetCoprocessor
  PROVE  Sound'
<1>1. CASE StartFunc
  <2>1. /\ pc = "ready" /\ pc' = pc /\ call' = call /\ ret' = "none" /\ cmdFunc' = TRUE
        /\ UNCHANGED <<rp, regWp, fault, supportCmdB, status, cmdWp, cmdSpace, cmdFault, moved>>
    BY <1>1 DEF StartFunc, device
  <2>2. call.op = "none"
    BY <2>1 DEF Typed, CallShape
  <2>. QED
    BY <2>1, <2>2, QuietStep
<1>2. ASSUME NEW op \in {"mem", "string"}, NEW n, WriteCall(op, n) PROVE Sound'
  <2>1. /\ pc = "ready" /\ pc' = "need" /\ ret' = "none" /\ moved = 0
        /\ call' = [op |-> op, size |-> n, done |-> 0] /\ cmdFunc' = cmdFunc
        /\ UNCHANGED <<rp, regWp, fault, supportCmdB, status, cmdWp, cmdSpace, cmdFault, moved>>
    BY <1>2 DEF WriteCall, Begin, MayWrite, device, hal
  <2>2. call.op = "none"
    BY <2>1 DEF Typed, CallShape
  <2>. QED
    BY <2>1, <2>2, QuietStep
<1>3. ASSUME NEW n \in SmallSizes, WrSmall(n) PROVE Sound'
  <2>1. /\ pc = "ready" /\ moved = 0 /\ cmdFunc' = cmdFunc
        /\ UNCHANGED <<rp, regWp, fault, supportCmdB, status, cmdWp, cmdSpace, cmdFault, moved>>
    BY <1>3 DEF WrSmall, MayWrite, device
  <2>2. call.op = "none"
    BY <2>1 DEF Typed, CallShape
  <2>3. \/ pc' = "need" /\ ret' = "none" /\ call' = [op |-> "mem", size |-> 4, done |-> 0]
        \/ pc' = pc /\ ret' = "true" /\ call' = call
    BY <1>3 DEF WrSmall, Begin
  <2>. QED
    BY <2>1, <2>2, <2>3, QuietStep
<1>4. ASSUME NEW n \in SpaceSizes, WaitSpace(n) PROVE Sound'
  <2>1. /\ pc = "ready" /\ cmdFunc' = cmdFunc
        /\ UNCHANGED <<rp, regWp, fault, supportCmdB, status, cmdWp, cmdSpace, cmdFault, moved>>
    BY <1>4 DEF WaitSpace, SpaceCall, device
  <2>2. call.op = "none"
    BY <2>1 DEF Typed, CallShape
  <2>3. /\ pc' \in {"ready", "space"} /\ call'.op # "reset"
        /\ ret' = "fault" => CmdFaultBits(cmdSpace)
    BY <1>4 DEF WaitSpace, SpaceCall, Return, StartWait, NoCall
  <2>4. ret' = "fault" => fault
    BY <2>2, <2>3 DEF Sound, SpaceShape, CmdFaultBits
  <2>. QED
    BY <2>1, <2>2, <2>3, <2>4, QuietStep
<1>5. ASSUME NEW n \in MoveSizes, MoveWp(n) PROVE Sound'
  <2>1. /\ pc = "ready" /\ cmdFunc' = cmdFunc /\ moved = 0
        /\ UNCHANGED <<rp, regWp, fault, supportCmdB, status, cmdWp, cmdSpace, cmdFault, moved>>
    BY <1>5 DEF MoveWp, SpaceCall, MayWrite, device
  <2>2. call.op = "none"
    BY <2>1 DEF Typed, CallShape
  <2>3. /\ pc' \in {"ready", "space", "move"} /\ call'.op # "reset"
        /\ ret' = "fault" => CmdFaultBits(cmdSpace)
        /\ pc' = "move" => call'.size = n /\ cmdSpace >= n
    BY <1>5 DEF MoveWp, SpaceCall, Return, StartWait, NoCall, Begin
  <2>4. ret' = "fault" => fault
    BY <2>2, <2>3 DEF Sound, SpaceShape, CmdFaultBits
  <2>5. pc' = "move" => call'.size <= cmdSpace
    <3>1. n \in Int /\ cmdSpace \in Int
      BY SizesAssumption, FifoBounds DEF Typed, TypeOK
    <3>. QED
      BY <2>3, <3>1
  <2>. QED
    BY <2>1, <2>2, <2>3, <2>4, <2>5, QuietStep
<1>6. CASE Query
  <2>1. /\ pc = "ready" /\ cmdFunc' = cmdFunc /\ pc' \in {"space", "flushRp"}
        /\ ret' = "none" /\ call'.op # "reset"
        /\ UNCHANGED <<rp, regWp, fault, supportCmdB, status, cmdWp, cmdSpace, cmdFault, moved>>
    BY <1>6 DEF Query, Begin, device, hal
  <2>2. call.op = "none"
    BY <2>1 DEF Typed, CallShape
  <2>. QED
    BY <2>1, <2>2, QuietStep
<1>7. ASSUME NEW op \in {"flush", "read32"}, WaitFlush(op) PROVE Sound'
  <2>1. /\ pc = "ready" /\ cmdFunc' = cmdFunc /\ pc' = "flushRp"
        /\ ret' = "none" /\ call'.op # "reset"
        /\ UNCHANGED <<rp, regWp, fault, supportCmdB, status, cmdWp, cmdSpace, cmdFault, moved>>
    BY <1>7 DEF WaitFlush, StartWait, device
  <2>2. call.op = "none"
    BY <2>1 DEF Typed, CallShape
  <2>. QED
    BY <2>1, <2>2, QuietStep
<1>. QED
  BY <1>1, <1>2, <1>3, <1>4, <1>5, <1>6, <1>7 DEF Call, Wr32, WrMem, WrString

LEMMA ReserveSound == Typed /\ Sound /\ Reserve => Sound'
<1> SUFFICES ASSUME Typed, Sound, Reserve PROVE Sound'
  OBVIOUS
<1>1. /\ pc = "need" /\ cmdFunc' = cmdFunc /\ pc' \in {"space", "put"}
      /\ ret' = ret /\ call' = call
      /\ pc' = "put" => ~(cmdSpace < Request)
      /\ UNCHANGED <<rp, regWp, fault, supportCmdB, status, cmdWp, cmdSpace, cmdFault, moved>>
  BY DEF Reserve, StartWait, device
<1>2. call.op \in WriteOps
  BY <1>1 DEF Typed, CallShape
<1>3. Request' = Request /\ Request \in Int
  BY <1>1, <1>2, FifoBounds DEF Request, Smaller, Typed, TypeOK, WriteOps
<1>4. pc' = "put" => Request' <= cmdSpace
  BY <1>1, <1>3, FifoBounds DEF Typed, TypeOK
<1>5. moved = 0 /\ (ret' = "fault" => fault)
  BY <1>1 DEF Sound, PointerShape, FaultIsReal
<1>. QED
  BY <1>1, <1>2, <1>4, <1>5, QuietStep DEF WriteOps

(* Closing the transfer publishes what the host has written.               *)
LEMMA CloseSound ==
  ASSUME Typed, Sound, CloseTransfer, call.op # "reset",
         pc \notin {"publish", "spaceRp", "flushWp"},
         UNCHANGED <<rp, fault, supportCmdB, cmdWp, cmdSpace, cmdFault, pc, call, moved>>,
         ret' = "none" \/ ret' = ret
  PROVE  Sound'
<1>1. /\ status' = "opened"
      /\ regWp' = IF supportCmdB \/ status # "writing" THEN regWp ELSE cmdWp
  BY DEF CloseTransfer
<1>2. ~supportCmdB => regWp' = cmdWp
  BY <1>1 DEF Sound, ClosedIsPublished, Typed, TypeOK
<1>3. supportCmdB => regWp' = regWp
  BY <1>1
<1>4. HostWp' = HostWp /\ Used' = Used
  <2>1. HostWp' = HostWp
    BY <1>3 DEF HostWp
  <2>. QED
    BY <2>1 DEF Used
<1>5. Mask(regWp' - rp') = Used'
  BY <1>2, <1>3 DEF Used, HostWp
<1>6. ClosedIsPublished'
  BY <1>2 DEF ClosedIsPublished
<1>7. FaultIsReal'
  BY DEF Sound, FaultIsReal
<1>8. PointerShape'
  BY <1>1 DEF Sound, PointerShape
<1>9. Used \in 0 .. FifoSize - 4
  BY Pointers DEF Typed
<1>10. Request' = Request
  BY DEF Request
<1>11. SpaceShape'
  <2>1. Mask(regWp' - rp') <= Used'
    BY <1>4, <1>5, <1>9
  <2>. QED
    BY <1>10, <2>1 DEF Sound, SpaceShape
<1>12. SpaceSound'
  BY <1>4 DEF Sound, SpaceSound
<1>. QED
  BY <1>6, <1>7, <1>8, <1>11, <1>12 DEF Sound

LEMMA EndFuncSound == Typed /\ Sound /\ EndFunc => Sound'
<1> SUFFICES ASSUME Typed, Sound, EndFunc PROVE Sound'
  OBVIOUS
<1>1. /\ pc = "ready" /\ CloseTransfer /\ ret' = "none"
      /\ UNCHANGED <<rp, fault, supportCmdB, cmdWp, cmdSpace, cmdFault, pc, call, moved>>
  BY DEF EndFunc
<1>2. call.op = "none"
  BY <1>1 DEF Typed, CallShape
<1>. QED
  BY <1>1, <1>2, CloseSound

LEMMA PollCloseSound == Typed /\ Sound /\ PollClose => Sound'
<1> SUFFICES ASSUME Typed, Sound, PollClose PROVE Sound'
  OBVIOUS
<1>1. /\ pc \in PollPcs /\ CloseTransfer /\ ret' = ret /\ status = "writing"
      /\ UNCHANGED <<rp, fault, supportCmdB, cmdWp, cmdSpace, cmdFault, pc, call, moved>>
  BY DEF PollClose, thread
<1>2. pc \notin {"publish", "spaceRp", "flushWp"} /\ call.op # "reset"
  BY <1>1 DEF Sound, PointerShape, PollPcs
<1>. QED
  BY <1>1, <1>2, CloseSound

LEMMA ResetSound == Typed /\ Sound /\ ResetCoprocessor => Sound'
<1> SUFFICES ASSUME Typed, Sound, ResetCoprocessor PROVE Sound'
  OBVIOUS
<1>1. /\ ~cmdFunc /\ rp' = 0 /\ regWp' = 0 /\ fault' = FALSE /\ cmdFault' = FALSE
      /\ call' = [op |-> "reset", size |-> 0, done |-> 0] /\ ret' = "none"
      /\ pc' = "flushRp" /\ UNCHANGED <<status, cmdFunc>>
  BY DEF ResetCoprocessor, StartWait
<1>. QED
  BY <1>1 DEF Sound, ClosedIsPublished, FaultIsReal, PointerShape, SpaceShape, SpaceSound

(* A chunk and its padding fit the space the request has secured.          *)
LEMMA ChunkFits ==
  ASSUME Typed, Sound, pc = "put", ~fault, NEW n \in Chunks
  PROVE  n \in Nat /\ n % 4 = 0 /\ n <= cmdSpace
<1>1. call.op \in WriteOps
  BY DEF Typed, CallShape
<1>2. /\ cmdSpace % 4 = 0 /\ cmdSpace \in Nat /\ Request <= cmdSpace
  BY <1>1, FifoBounds DEF Sound, SpaceShape, Typed, TypeOK, WriteOps
<1>3. call.size \in Nat /\ call.done \in Nat
  BY DEF Typed, TypeOK
<1>4. CASE call.op = "string"
  <2>1. call.done = 0 /\ call.size \in 1 .. FifoSize \div 2 - 1
    BY <1>4, SizesAssumption DEF Typed, CallShape
  <2>2. call.size + 1 <= cmdSpace
    <3>1. Request = Smaller(call.size - call.done + 1, FifoSize \div 2)
      BY <1>4 DEF Request
    <3>2. Request = call.size + 1
      BY <1>3, <2>1, <3>1, FifoBounds DEF Smaller
    <3>. QED
      BY <1>2, <3>2
  <2>3. PICK k \in 0 .. call.size : n = Align4(k + 1)
    BY <1>4 DEF Chunks
  <2>4. k + 1 \in Nat /\ k + 1 <= cmdSpace
    BY <1>2, <1>3, <2>2, <2>3
  <2>. QED
    BY <1>2, <2>3, <2>4, AlignRange, AlignBound
<1>5. CASE call.op = "mem"
  <2>1. call.done < call.size
    BY <1>5 DEF Typed, CallShape
  <2>2. n = Align4(Smaller(call.size - call.done, cmdSpace))
    BY <1>5 DEF Chunks
  <2>3. /\ Smaller(call.size - call.done, cmdSpace) \in Nat
        /\ Smaller(call.size - call.done, cmdSpace) <= cmdSpace
    BY <1>2, <1>3, <2>1 DEF Smaller
  <2>. QED
    BY <1>2, <2>2, <2>3, AlignRange, AlignBound
<1>. QED
  BY <1>1, <1>4, <1>5 DEF WriteOps

LEMMA PutSound == Typed /\ Sound /\ Put => Sound'
<1> SUFFICES ASSUME Typed, Sound, Put PROVE Sound'
  OBVIOUS
<1>1. PICK n \in Chunks : AssertFails(n) \/ PutChunk(n)
  BY DEF Put
<1>2. /\ pc = "put"
      /\ UNCHANGED <<rp, fault, supportCmdB, cmdFunc, cmdFault, cmdWaiting,
                     cmdBufferIndex, moved>>
  BY DEF Put
<1>3. call.op \in WriteOps /\ moved = 0
  BY <1>2 DEF Typed, CallShape, Sound, PointerShape
<1>4. CASE AssertFails(n)
  <2>1. pc' = "trap" /\ UNCHANGED <<regWp, status, cmdWp, cmdSpace, call, ret>>
    BY <1>4 DEF AssertFails
  <2>2. ret' = "fault" => fault
    BY <2>1 DEF Sound, FaultIsReal
  <2>. QED
    BY <1>2, <1>3, <2>1, <2>2, QuietStep DEF WriteOps
<1>5. CASE PutChunk(n)
  <2>1. /\ call'.op # "reset" /\ pc' \in {"need", "ready", "publish"}
        /\ ret' = "fault" => ret = "fault"
    <3>1. PICK d, z :
             \/ AfterChunk(d, z)
             \/ /\ pc' = "publish" /\ ret' = ret
                /\ call' = [call EXCEPT !.done = d, !.size = z]
      BY <1>5 DEF PutChunk
    <3>2. call \in [op : Ops, size : Nat, done : Nat]
      BY DEF Typed, TypeOK
    <3>3. CASE AfterChunk(d, z)
      <4>1. CASE call' = [call EXCEPT !.done = d] /\ pc' = "need" /\ ret' = ret
        BY <1>3, <3>2, <4>1 DEF WriteOps
      <4>2. CASE call' = NoCall /\ pc' = "ready" /\ ret' \in {"true", "miscount"}
        BY <4>2 DEF NoCall
      <4>. QED
        BY <3>3, <4>1, <4>2 DEF AfterChunk, Return
    <3>4. CASE /\ pc' = "publish" /\ ret' = ret
               /\ call' = [call EXCEPT !.done = d, !.size = z]
      <4>1. call'.op = call.op
        BY <3>2, <3>4
      <4>. QED
        BY <1>3, <3>4, <4>1 DEF WriteOps
    <3>. QED
      BY <3>1, <3>3, <3>4
  <2>2. /\ supportCmdB => regWp' = Mask(regWp + n) /\ cmdWp' = cmdWp
        /\ ~supportCmdB => cmdWp' = Mask(cmdWp + n) /\ regWp' = regWp
    BY <1>5 DEF PutChunk
  <2>3. pc' = "publish" <=> ~supportCmdB /\ ~cmdFunc
    BY <1>5 DEF PutChunk, AfterChunk, Return
  <2>4. status' = IF cmdFunc THEN "writing" ELSE "opened"
    BY <1>5 DEF PutChunk
  <2>5. ClosedIsPublished'
    BY <1>2, <2>3, <2>4 DEF ClosedIsPublished
  <2>6. FaultIsReal'
    BY <1>2, <2>1 DEF Sound, FaultIsReal
  <2>7. PointerShape'
    BY <1>2, <1>3, <2>1, <2>3, <2>4 DEF PointerShape
  <2>8. SpaceShape' /\ SpaceSound'
    <3>1. CASE fault
      BY <1>2, <3>1 DEF SpaceShape, SpaceSound
    <3>2. CASE ~fault
      <4>1. n \in Nat /\ n % 4 = 0 /\ n <= cmdSpace
        BY <1>2, <3>2, ChunkFits
      <4>2. /\ cmdSpace \in 0 .. FifoSize - 4 /\ cmdSpace % 4 = 0
            /\ cmdSpace + Used <= FifoSize - 4
            /\ Mask(regWp - rp) <= Used
        BY <1>3, <3>2, FifoBounds
        DEF Sound, SpaceShape, SpaceSound, Typed, TypeOK, WriteOps
      <4>3. /\ rp \in WordAddr /\ regWp \in WordAddr /\ HostWp \in WordAddr
            /\ Used \in 0 .. FifoSize - 4 /\ Mask(regWp - rp) \in 0 .. FifoSize - 4
        BY Pointers DEF Typed
      <4>4. HostWp' = Mask(HostWp + n)
        BY <1>2, <1>3, <2>1, <2>2 DEF HostWp, WriteOps
      <4>5. Mask(HostWp - rp) + n < FifoSize
        BY <4>1, <4>2, <4>3, FifoBounds DEF Used
      <4>6. Mask(Mask(HostWp + n) - rp) = Mask(HostWp - rp) + n
        BY <4>1, <4>3, <4>5, WriterAdvances
      <4>7. Used' = Used + n
        BY <1>2, <4>4, <4>6 DEF Used
      <4>8. cmdSpace' = cmdSpace - n
        <5>1. cmdSpace' = (cmdSpace - n) % Uint16
          BY <1>5 DEF PutChunk
        <5>2. cmdSpace - n \in 0 .. Uint16 - 1
          BY <4>1, <4>2, FifoBounds
        <5>. QED
          BY <5>1, <5>2, FifoBounds
      <4>9. Mask(regWp' - rp') <= Used'
        <5>1. CASE supportCmdB
          <6>1. regWp' = HostWp'
            BY <1>2, <2>1, <5>1 DEF HostWp
          <6>2. Mask(regWp' - rp') = Used' /\ Used' \in Int
            BY <4>1, <4>3, <4>7, <6>1, FifoBounds DEF Used
          <6>. QED
            BY <6>2
        <5>2. CASE ~supportCmdB
          <6>1. Mask(regWp' - rp') = Mask(regWp - rp)
            BY <1>2, <2>2, <5>2
          <6>. QED
            BY <4>1, <4>2, <4>3, <4>7, <6>1, FifoBounds
        <5>. QED
          BY <5>1, <5>2
      <4>10. cmdSpace' % 4 = 0 /\ cmdSpace' <= FifoSize - 4
             /\ cmdSpace' + Used' <= FifoSize - 4 + moved'
        BY <1>2, <1>3, <4>1, <4>2, <4>3, <4>7, <4>8, FifoBounds
      <4>. QED
        BY <2>1, <4>9, <4>10 DEF SpaceShape, SpaceSound
    <3>. QED
      BY <3>1, <3>2
  <2>. QED
    BY <2>5, <2>6, <2>7, <2>8 DEF Sound
<1>. QED
  BY <1>1, <1>4, <1>5

LEMMA PublishSound == Typed /\ Sound /\ Publish => Sound'
<1> SUFFICES ASSUME Typed, Sound, Publish PROVE Sound'
  OBVIOUS
<1>1. /\ pc = "publish" /\ regWp' = cmdWp /\ UNCHANGED <<rp, fault, hal, moved>>
      /\ pc' \in {"need", "ready"} /\ (ret' = "fault" => ret = "fault")
      /\ call'.op = call.op \/ call'.op = "none"
  BY DEF Publish, AfterChunk, Return, NoCall, Typed, TypeOK
<1>2. call.op # "reset" /\ call'.op # "reset" /\ moved = 0 /\ ~supportCmdB /\ ~cmdFunc
  BY <1>1 DEF Typed, CallShape, WriteOps, Sound, PointerShape
<1>3. HostWp' = HostWp /\ HostWp = cmdWp
  BY <1>1, <1>2 DEF HostWp, hal
<1>4. Used' = Used /\ Mask(regWp' - rp') = Used'
  BY <1>1, <1>3 DEF Used
<1>5. Used \in 0 .. FifoSize - 4
  BY Pointers DEF Typed
<1>6. ClosedIsPublished' /\ FaultIsReal' /\ PointerShape'
  BY <1>1, <1>2 DEF Sound, ClosedIsPublished, FaultIsReal, PointerShape, hal
<1>7. Mask(regWp' - rp') <= Used'
  BY <1>4, <1>5
<1>8. SpaceShape' /\ SpaceSound'
  BY <1>1, <1>2, <1>4, <1>7 DEF Sound, SpaceShape, SpaceSound, hal
<1>. QED
  BY <1>6, <1>8 DEF Sound

LEMMA MoveSound == Typed /\ Sound /\ Move => Sound'
<1> SUFFICES ASSUME Typed, Sound, Move PROVE Sound'
  OBVIOUS
<1>1. /\ pc = "move" /\ pc' = "ready" /\ call' = NoCall /\ ret' = "true"
      /\ status' = "opened" /\ moved' = Smaller(moved + call.size, FifoSize)
      /\ UNCHANGED <<rp, fault, supportCmdB, cmdSpace, cmdFunc, cmdFault>>
  BY DEF Move, Return
<1>2. call.op = "moveWp" /\ moved = 0
  BY <1>1 DEF Typed, CallShape, Sound, PointerShape
<1>3. call.size \in 4 .. FifoSize - 4 /\ call.size % 4 = 0
  BY <1>2, SizesAssumption DEF Typed, CallShape
<1>4. regWp' = Mask(HostWp + call.size) /\ (supportCmdB \/ cmdWp' = regWp')
  BY <1>1, <1>2 DEF Move, HostWp, Sound, ClosedIsPublished, Typed, TypeOK
<1>5. ClosedIsPublished'
  BY <1>1, <1>4 DEF ClosedIsPublished
<1>6. FaultIsReal' /\ PointerShape'
  BY <1>1 DEF Sound, FaultIsReal, PointerShape, NoCall
<1>7. HostWp' = regWp'
  BY <1>1, <1>4 DEF HostWp
<1>8. CASE fault
  BY <1>1, <1>5, <1>6, <1>8 DEF Sound, SpaceShape, SpaceSound
<1>9. CASE ~fault
  <2>1. /\ cmdSpace \in 0 .. FifoSize - 4 /\ cmdSpace % 4 = 0
        /\ cmdSpace + Used <= FifoSize - 4 /\ call.size <= cmdSpace
    BY <1>1, <1>2, <1>9, FifoBounds DEF Sound, SpaceShape, SpaceSound, Typed, TypeOK
  <2>2. rp \in WordAddr /\ HostWp \in WordAddr /\ Used \in 0 .. FifoSize - 4
    BY Pointers DEF Typed
  <2>3. Mask(HostWp - rp) + call.size < FifoSize /\ call.size \in Nat
    BY <1>3, <2>1, <2>2, FifoBounds DEF Used
  <2>4. Mask(Mask(HostWp + call.size) - rp) = Mask(HostWp - rp) + call.size
    BY <1>3, <2>2, <2>3, WriterAdvances
  <2>5. Used' = Used + call.size /\ Mask(regWp' - rp') = Used'
    BY <1>1, <1>4, <1>7, <2>4 DEF Used
  <2>6. moved' = call.size
    <3> DEFINE y == call.size
    <3>1. y \in 4 .. FifoSize - 4
      BY <1>3
    <3>2. moved' = IF 0 + y < FifoSize THEN 0 + y ELSE FifoSize
      BY <1>1, <1>2 DEF Smaller
    <3> HIDE DEF y
    <3>3. moved' = y
      BY <3>1, <3>2, FifoBounds
    <3>. QED
      BY <3>3 DEF y
  <2>7. /\ cmdSpace' + Used' <= FifoSize - 4 + moved'
        /\ Mask(regWp' - rp') <= Used'
    BY <1>1, <1>3, <2>1, <2>2, <2>5, <2>6, FifoBounds
  <2>8. SpaceShape' /\ SpaceSound'
    BY <1>1, <2>1, <2>7 DEF SpaceShape, SpaceSound
  <2>. QED
    BY <1>5, <1>6, <2>8 DEF Sound
<1>. QED
  BY <1>8, <1>9

(* A wait for space has read the space there is.                           *)
LEMMA GotSpaceSound ==
  ASSUME Typed, Sound, NEW space \in 0 .. FifoSize - 1, GotSpace(space),
         call.op # "reset", pc \in {"space", "spaceRp"}, status # "writing",
         UNCHANGED <<rp, regWp, fault, supportCmdB, status, cmdWp, cmdFunc>>,
         cmdFault' => cmdFault \/ fault,
         CmdFaultBits(space) => fault,
         ~fault => space = FifoSize - 4 - Mask(regWp - rp)
  PROVE  Sound'
<1>1. /\ cmdSpace' = space /\ moved' = 0 /\ pc' \in {"ready", "put", "move", "space"}
      /\ ret' = "fault" => CmdFaultBits(space) \/ ret = "fault"
      /\ call' = call \/ call' = NoCall
      /\ pc' \in {"put", "move"} => space >= Request /\ call' = call
      /\ pc' = "put" => call.op \in WriteOps
      /\ pc' = "move" => call.op = "moveWp"
  BY GotSpaceCases
<1>2. call'.op # "reset"
  BY <1>1 DEF NoCall
<1>3. ~supportCmdB => cmdWp = regWp
  BY DEF Sound, ClosedIsPublished, Typed, TypeOK
<1>4. HostWp' = regWp
  BY <1>2, <1>3 DEF HostWp
<1>5. Used' = Mask(regWp - rp) /\ Mask(regWp' - rp') = Mask(regWp - rp)
  BY <1>4 DEF Used
<1>6. ClosedIsPublished'
  BY <1>3 DEF ClosedIsPublished
<1>7. FaultIsReal'
  BY <1>1 DEF Sound, FaultIsReal
<1>8. PointerShape'
  BY <1>1, <1>2 DEF Sound, PointerShape
<1>9. Mask(regWp - rp) \in 0 .. FifoSize - 4 /\ Mask(regWp - rp) % 4 = 0
  BY Distance DEF Typed, TypeOK
<1>10. SpaceShape' /\ SpaceSound'
  <2>1. ~fault => space % 4 = 0 /\ space <= FifoSize - 4
                    /\ space + Mask(regWp - rp) <= FifoSize - 4
    BY <1>9, FifoBounds
  <2>2. pc' = "put" => Request' <= space
    <3>1. pc' = "put" => Request' = Request /\ Request \in Int
      BY <1>1, FifoBounds DEF Request, Smaller, Typed, TypeOK, WriteOps
    <3>. QED
      BY <1>1, <3>1
  <2>3. pc' = "move" => call'.size <= space
    <3>1. pc' = "move" => call' = call /\ Request = call.size /\ call.size \in Int
      BY <1>1 DEF Request, Typed, TypeOK
    <3>. QED
      BY <1>1, <3>1
  <2>4. Mask(regWp' - rp') <= Used'
    BY <1>5, <1>9
  <2>. QED
    BY <1>1, <1>5, <2>1, <2>2, <2>3, <2>4, FifoBounds DEF SpaceShape, SpaceSound
<1>. QED
  BY <1>6, <1>7, <1>8, <1>10 DEF Sound

LEMMA PollCmdbSpaceSound == Typed /\ Sound /\ PollCmdbSpace => Sound'
<1> SUFFICES ASSUME Typed, Sound, PollCmdbSpace PROVE Sound'
  OBVIOUS
<1>1. /\ pc = "space" /\ status # "writing" /\ supportCmdB /\ GotSpace(RegCmdbSpace)
      /\ cmdFault' = (cmdFault \/ CmdFaultBits(RegCmdbSpace))
      /\ UNCHANGED <<rp, regWp, fault, supportCmdB, status, cmdWp, cmdFunc>>
  BY DEF PollCmdbSpace, device
<1>2. call.op # "reset"
  BY <1>1 DEF Typed, CallShape, WriteOps
<1>3. RegCmdbSpace \in 0 .. FifoSize - 1
  BY RegistersInRange DEF Typed
<1>4. ~fault => RegCmdbSpace = FifoSize - 4 - Mask(regWp - rp)
  <2>1. Mask(rp - regWp - 4) = FifoSize - 4 - Mask(regWp - rp)
    BY Distance DEF Typed, TypeOK
  <2>. QED
    BY <2>1 DEF RegCmdbSpace, RegCmdRead
<1>5. CmdFaultBits(RegCmdbSpace) => fault
  <2>1. Mask(regWp - rp) \in 0 .. FifoSize - 4 /\ Mask(regWp - rp) % 4 = 0
    BY Distance DEF Typed, TypeOK
  <2>2. ~fault => RegCmdbSpace % 4 = 0
    BY <1>4, <2>1, FifoBounds
  <2>. QED
    BY <2>2 DEF CmdFaultBits
<1>. QED
  BY <1>1, <1>2, <1>3, <1>4, <1>5, GotSpaceSound

LEMMA PollSpaceWpSound == Typed /\ Sound /\ PollSpaceWp => Sound'
<1> SUFFICES ASSUME Typed, Sound, PollSpaceWp PROVE Sound'
  OBVIOUS
<1>1. /\ pc = "space" /\ status # "writing" /\ ~supportCmdB
      /\ cmdWp' = regWp /\ seen' = regWp /\ pc' = "spaceRp"
      /\ UNCHANGED <<rp, regWp, fault, supportCmdB, status, cmdSpace, cmdFunc, cmdFault,
                     call, ret, moved>>
  BY DEF PollSpaceWp, device
<1>2. call.op # "reset" /\ status = "opened"
  BY <1>1 DEF Typed, CallShape, WriteOps, TypeOK
<1>3. cmdWp = regWp
  BY <1>1, <1>2 DEF Sound, ClosedIsPublished
<1>4. HostWp' = HostWp /\ Used' = Used /\ Mask(regWp' - rp') = Mask(regWp - rp)
  <2>1. HostWp' = HostWp
    BY <1>1, <1>3 DEF HostWp
  <2>. QED
    BY <1>1, <2>1 DEF Used
<1>5. ClosedIsPublished' /\ FaultIsReal'
  BY <1>1 DEF Sound, ClosedIsPublished, FaultIsReal
<1>6. PointerShape'
  BY <1>1, <1>2 DEF Sound, PointerShape
<1>7. SpaceShape' /\ SpaceSound'
  BY <1>1, <1>4 DEF Sound, SpaceShape, SpaceSound
<1>. QED
  BY <1>5, <1>6, <1>7 DEF Sound

LEMMA PollSpaceRpSound == Typed /\ Sound /\ PollSpaceRp => Sound'
<1> SUFFICES ASSUME Typed, Sound, PollSpaceRp PROVE Sound'
  OBVIOUS
<1> DEFINE space == Mask(RegCmdRead - seen - 4)
<1>1. /\ pc = "spaceRp" /\ status # "writing" /\ GotSpace(space)
      /\ cmdFault' = (cmdFault \/ CmdFaultBits(RegCmdRead))
      /\ UNCHANGED <<rp, regWp, fault, supportCmdB, status, cmdWp, cmdFunc>>
  BY DEF PollSpaceRp, device
<1>2. call.op # "reset" /\ seen = regWp
  BY <1>1 DEF Typed, CallShape, WriteOps, Sound, PointerShape
<1>3. space \in 0 .. FifoSize - 1
  <2>1. RegCmdRead - seen - 4 \in Int
    BY RegistersInRange, FifoBounds DEF Typed, TypeOK
  <2>. QED
    BY <2>1, MaskRange
<1>4. ~fault => space = FifoSize - 4 - Mask(regWp - rp)
  <2>1. Mask(rp - regWp - 4) = FifoSize - 4 - Mask(regWp - rp)
    BY Distance DEF Typed, TypeOK
  <2>. QED
    BY <1>2, <2>1 DEF RegCmdRead
<1> HIDE DEF space
<1>5. ~fault => ~CmdFaultBits(space) /\ ~CmdFaultBits(RegCmdRead)
  <2>1. Mask(regWp - rp) \in 0 .. FifoSize - 4 /\ Mask(regWp - rp) % 4 = 0
    BY Distance DEF Typed, TypeOK
  <2>2. ~fault => space % 4 = 0
    BY <1>4, <2>1, FifoBounds
  <2>3. ~fault => RegCmdRead % 4 = 0
    BY DEF RegCmdRead, Typed, TypeOK, WordAddr
  <2>. QED
    BY <2>2, <2>3 DEF CmdFaultBits
<1>6. cmdFault' => cmdFault \/ fault
  BY <1>1, <1>5
<1>. QED
  BY <1>1, <1>2, <1>3, <1>4, <1>5, <1>6, GotSpaceSound

LEMMA PollFlushRpSound == Typed /\ Sound /\ PollFlushRp => Sound'
<1> SUFFICES ASSUME Typed, Sound, PollFlushRp PROVE Sound'
  OBVIOUS
<1>1. /\ pc = "flushRp" /\ status # "writing" /\ seen' = RegCmdRead /\ pc' = "flushWp"
      /\ cmdFault' = (cmdFault \/ CmdFaultBits(RegCmdRead))
      /\ UNCHANGED <<rp, regWp, fault, supportCmdB, status, cmdWp, cmdSpace, cmdFunc,
                     call, ret, moved>>
  BY DEF PollFlushRp, device
<1>2. ~fault => RegCmdRead = rp
  BY DEF RegCmdRead
<1>3. HostWp' = HostWp /\ Used' = Used /\ Mask(regWp' - rp') = Mask(regWp - rp)
  <2>1. HostWp' = HostWp
    BY <1>1 DEF HostWp
  <2>. QED
    BY <1>1, <2>1 DEF Used
<1>4. ClosedIsPublished'
  BY <1>1 DEF Sound, ClosedIsPublished
<1>5. FaultIsReal'
  <2>1. ~fault => ~CmdFaultBits(RegCmdRead)
    BY <1>2 DEF CmdFaultBits, Typed, TypeOK, WordAddr
  <2>. QED
    BY <1>1, <2>1 DEF Sound, FaultIsReal
<1>6. PointerShape'
  <2>1. ~fault => seen' \in WordAddr /\ Mask(regWp' - seen') = Mask(regWp' - rp')
    BY <1>1, <1>2 DEF Typed, TypeOK
  <2>2. Mask(regWp' - rp') \in Int
    BY <1>3, Pointers, FifoBounds DEF Typed
  <2>3. ~fault => Mask(regWp' - rp') <= Mask(regWp' - seen')
    BY <2>1, <2>2
  <2>4. status' = "opened"
    BY <1>1 DEF Typed, TypeOK
  <2>. QED
    BY <1>1, <1>2, <2>1, <2>3, <2>4 DEF Sound, PointerShape
<1>7. SpaceShape' /\ SpaceSound'
  BY <1>1, <1>3 DEF Sound, SpaceShape, SpaceSound
<1>. QED
  BY <1>4, <1>5, <1>6, <1>7 DEF Sound

LEMMA PollFlushWpSound == Typed /\ Sound /\ PollFlushWp => Sound'
<1> SUFFICES ASSUME Typed, Sound, PollFlushWp PROVE Sound'
  OBVIOUS
<1>1. /\ pc = "flushWp" /\ status = "opened"
      /\ cmdWp' = IF supportCmdB THEN cmdWp ELSE regWp
      /\ UNCHANGED <<rp, regWp, fault, supportCmdB, status, cmdFunc, cmdFault>>
  BY DEF PollFlushWp, device, Typed, TypeOK
<1>2. /\ \/ cmdSpace' = cmdSpace /\ moved' = moved /\ (call.op = "reset" => seen # regWp)
         \/ seen = regWp /\ cmdSpace' = FifoSize - 4 /\ moved' = 0
         \/ seen # regWp /\ cmdSpace' = Mask(seen - regWp - 4) /\ moved' = 0
      /\ pc' \in {"ready", "flushRp"}
      /\ call' = NoCall \/ (call' = call /\ seen # regWp)
      /\ ret' = "fault" => ret = "fault" \/ CmdFaultBits(seen)
  BY DEF PollFlushWp, Flushed, FlushFailed, FlushAgain, ReadFound, Return
<1>3. call.op = "reset" => seen = regWp /\ regWp = rp /\ ~fault
  BY <1>1 DEF Sound, PointerShape
<1>4. call'.op # "reset"
  BY <1>2, <1>3 DEF NoCall
<1>5. /\ rp \in WordAddr /\ regWp \in WordAddr
      /\ Mask(regWp - rp) \in 0 .. FifoSize - 4 /\ Mask(regWp - rp) % 4 = 0
  BY Distance DEF Typed, TypeOK
<1>6. HostWp' = regWp
  BY <1>1, <1>4 DEF HostWp
<1>7. Used' = Mask(regWp - rp) /\ Mask(regWp' - rp') = Mask(regWp - rp)
  BY <1>1, <1>6 DEF Used
<1>8. ~fault => seen \in WordAddr /\ Mask(regWp - rp) <= Mask(regWp - seen)
  BY <1>1 DEF Sound, PointerShape
<1>9. ClosedIsPublished'
  BY <1>1 DEF ClosedIsPublished
<1>10. FaultIsReal'
  <2>1. ~fault => ~CmdFaultBits(seen)
    BY <1>8 DEF CmdFaultBits, WordAddr
  <2>. QED
    BY <1>1, <1>2, <2>1 DEF Sound, FaultIsReal
<1>11. PointerShape'
  BY <1>1, <1>2, <1>4 DEF Sound, PointerShape
<1>12. ~fault => /\ cmdSpace' % 4 = 0 /\ cmdSpace' <= FifoSize - 4
                 /\ cmdSpace' + Mask(regWp - rp) <= FifoSize - 4 + moved'
  <2> SUFFICES ASSUME ~fault
               PROVE  /\ cmdSpace' % 4 = 0 /\ cmdSpace' <= FifoSize - 4
                      /\ cmdSpace' + Mask(regWp - rp) <= FifoSize - 4 + moved'
    OBVIOUS
  <2>1. CASE cmdSpace' = cmdSpace /\ moved' = moved /\ (call.op = "reset" => seen # regWp)
    <3>1. call.op # "reset"
      BY <1>3, <2>1
    <3>2. Used = Mask(regWp - rp)
      BY <1>1, <3>1 DEF Used, HostWp, Sound, ClosedIsPublished
    <3>. QED
      BY <2>1, <3>1, <3>2 DEF Sound, SpaceShape, SpaceSound
  <2>2. CASE seen = regWp /\ cmdSpace' = FifoSize - 4 /\ moved' = 0
    <3>1. Mask(regWp - seen) = 0
      BY <1>5, <2>2, DistanceSteps
    <3>2. Mask(regWp - rp) = 0
      BY <1>5, <1>8, <3>1
    <3>3. (FifoSize - 4) % 4 = 0
      BY FifoBounds
    <3>. QED
      BY <2>2, <3>2, <3>3, FifoBounds
  <2>3. CASE seen # regWp /\ cmdSpace' = Mask(seen - regWp - 4) /\ moved' = 0
    <3>1. /\ Mask(regWp - seen) \in 0 .. FifoSize - 4 /\ Mask(regWp - seen) % 4 = 0
          /\ cmdSpace' = FifoSize - 4 - Mask(regWp - seen)
      BY <1>5, <1>8, <2>3, Distance
    <3>. QED
      BY <1>5, <1>8, <2>3, <3>1, FifoBounds
  <2>. QED
    BY <1>2, <2>1, <2>2, <2>3
<1>13. Mask(regWp' - rp') <= Used'
  BY <1>5, <1>7
<1>14. SpaceShape' /\ SpaceSound'
  BY <1>1, <1>2, <1>7, <1>12, <1>13 DEF SpaceShape, SpaceSound
<1>. QED
  BY <1>9, <1>10, <1>11, <1>14 DEF Sound

LEMMA SoundStep == ~NullResult /\ Typed /\ Sound /\ [Next]_vars => Sound'
<1> SUFFICES ASSUME ~NullResult, Typed, Sound, [Next]_vars PROVE Sound'
  OBVIOUS
<1>1. CASE UNCHANGED vars
  BY <1>1 DEF Sound, ClosedIsPublished, FaultIsReal, PointerShape, SpaceShape, SpaceSound,
              Used, HostWp, Request, vars, device, hal, thread
<1>2. CASE Call
  BY <1>2, CallSound, EndFuncSound, ResetSound
<1>3. CASE Continue
  BY <1>3, ReserveSound, PutSound, PublishSound, MoveSound, PollCloseSound,
     PollCmdbSpaceSound, PollSpaceWpSound, PollSpaceRpSound, PollFlushRpSound,
     PollFlushWpSound DEF Continue, Poll
<1>. QED
  BY <1>1, <1>2, <1>3, ConsumeSound, CrashSound DEF Next

LEMMA SpecSound == ~NullResult /\ Spec => [](Typed /\ Sound)
<1> SUFFICES ASSUME ~NullResult PROVE Spec => [](Typed /\ Sound)
  OBVIOUS
<1>1. Init => Typed /\ Sound
  BY TypedInit, SoundInit
<1>2. (Typed /\ Sound) /\ [Next]_vars => (Typed /\ Sound)'
  BY TypedStep, SoundStep
<1>. QED
  BY <1>1, <1>2, PTL DEF Spec

(* The host never believes in more free space than the FIFO has, whatever  *)
(* the coprocessor does between two register accesses (EVE_Cmd_space,      *)
(* EVE_Cmd_waitSpace, wrBuffer).                                           *)
THEOREM SpaceIsSound == ~NullResult /\ Spec => []SpaceSound
<1>1. Typed /\ Sound => SpaceSound
  BY DEF Sound
<1>. QED
  BY <1>1, SpecSound, PTL

(* Closing a transfer always publishes all the host has written (endFunc). *)
THEOREM ClosedPublishes == ~NullResult /\ Spec => []ClosedIsPublished
<1>1. Typed /\ Sound => ClosedIsPublished
  BY DEF Sound
<1>. QED
  BY <1>1, SpecSound, PTL

(* A reported fault is one of the coprocessor (EVE_CMD_FAULT).             *)
THEOREM FaultsAreReal == ~NullResult /\ Spec => []FaultIsReal
<1>1. Typed /\ Sound => FaultIsReal
  BY DEF Sound
<1>. QED
  BY <1>1, SpecSound, PTL

----------------------------------------------------------------------------
(* No unread word is lost.                                                 *)

(* A word between the reader r and the writer w lies that far beyond w.    *)
LEMMA UnreadIsAhead ==
  ASSUME NEW a \in WordAddr, NEW r \in WordAddr, NEW w \in WordAddr,
         Mask(a - r) < Mask(w - r)
  PROVE  Mask(a - w) = Mask(a - r) + FifoSize - Mask(w - r)
<1>1. /\ a \in 0 .. FifoSize - 4 /\ r \in 0 .. FifoSize - 4 /\ w \in 0 .. FifoSize - 4
  BY FifoBounds DEF WordAddr
<1>2. Mask(a - r) = IF r <= a THEN a - r ELSE a - r + FifoSize
  BY Distance
<1>3. Mask(w - r) = IF r <= w THEN w - r ELSE w - r + FifoSize
  BY Distance
<1>4. Mask(a - w) = IF w <= a THEN a - w ELSE a - w + FifoSize
  BY Distance
<1>. QED
  BY <1>1, <1>2, <1>3, <1>4, FifoBounds

(* Only a chunk and EVE_Cmd_moveWp move the host's write pointer.          *)
LEMMA WriterKept ==
  ASSUME Typed, Sound, [Next]_vars, ~fault, call.op # "reset", call'.op # "reset",
         ~Put, ~Move
  PROVE  HostWp' = HostWp /\ ram' = ram
<1>1. /\ supportCmdB' = supportCmdB /\ ram' = ram
      /\ supportCmdB => regWp' = regWp
      /\ cmdWp' = cmdWp \/ (cmdWp' = regWp /\ status # "writing" /\ pc # "publish")
  <2>1. CASE UNCHANGED vars
    BY <2>1 DEF vars, device, hal
  <2>2. CASE Consume \/ Crash
    BY <2>2 DEF Consume, Crash, hal
  <2>3. CASE Call
    <3>1. ~ResetCoprocessor
      BY DEF ResetCoprocessor
    <3>. QED
      BY <2>3, <3>1 DEF Call, StartFunc, EndFunc, CloseTransfer, Wr32, WrMem, WrString,
         WriteCall, WrSmall, WaitSpace, MoveWp, SpaceCall, Query, WaitFlush, device, hal
  <2>4. CASE Reserve
    BY <2>4 DEF Reserve, device
  <2>5. CASE Publish
    BY <2>5 DEF Publish, hal, Sound, PointerShape
  <2>6. CASE PollClose
    BY <2>6 DEF PollClose, CloseTransfer
  <2>7. CASE PollCmdbSpace \/ PollSpaceWp \/ PollSpaceRp
    BY <2>7 DEF PollCmdbSpace, PollSpaceWp, PollSpaceRp, device
  <2>8. CASE PollFlushRp \/ PollFlushWp
    BY <2>8 DEF PollFlushRp, PollFlushWp, device
  <2>. QED
    BY <2>1, <2>2, <2>3, <2>4, <2>5, <2>6, <2>7, <2>8 DEF Next, Continue, Poll
<1>2. ~supportCmdB => cmdWp' = cmdWp
  <2>1. status = "opened" \/ status = "writing"
    BY DEF Typed, TypeOK
  <2>. QED
    BY <1>1, <2>1 DEF Sound, ClosedIsPublished
<1>. QED
  BY <1>1, <1>2 DEF HostWp

LEMMA UnreadKeptStep ==
  ASSUME Typed, Sound, [Next]_vars, ~fault, call.op # "reset", call'.op # "reset",
         NEW a \in Unread
  PROVE  ram'[a] = ram[a] /\ (a \in Unread' \/ rp' # rp)
<1>1. /\ a \in WordAddr /\ Mask(a - rp) < Used
      /\ rp \in WordAddr /\ HostWp \in WordAddr /\ Used \in 0 .. FifoSize - 4
      /\ Mask(a - rp) \in 0 .. FifoSize - 4
  BY Pointers, Distance DEF Unread, Typed
<1>2. CASE ~Put /\ ~Move
  <2>1. HostWp' = HostWp /\ ram' = ram
    BY <1>2, WriterKept
  <2>2. rp' = rp => Used' = Used
    BY <2>1 DEF Used
  <2>. QED
    BY <1>1, <2>1, <2>2 DEF Unread
<1>3. CASE Move
  <2>1. /\ pc = "move" /\ call' = NoCall /\ status' = "opened"
        /\ UNCHANGED <<ram, rp, fault, supportCmdB, cmdSpace>>
    BY <1>3 DEF Move, Return
  <2>2. call.op = "moveWp" /\ moved = 0
    BY <2>1 DEF Typed, CallShape, Sound, PointerShape
  <2>3. call.size \in 4 .. FifoSize - 4 /\ call.size % 4 = 0
    BY <2>2, SizesAssumption DEF Typed, CallShape
  <2>4. HostWp' = Mask(HostWp + call.size)
    BY <1>3, <2>1, <2>2 DEF Move, HostWp, NoCall, Sound, ClosedIsPublished, Typed, TypeOK
  <2>5. Mask(HostWp - rp) + call.size < FifoSize /\ call.size \in Nat
    BY <1>1, <2>1, <2>2, <2>3, FifoBounds
    DEF Sound, SpaceShape, SpaceSound, Used, Typed, TypeOK
  <2>6. Mask(Mask(HostWp + call.size) - rp) = Mask(HostWp - rp) + call.size
    BY <1>1, <2>3, <2>5, WriterAdvances
  <2>7. Used' = Used + call.size
    BY <2>1, <2>4, <2>6 DEF Used
  <2>8. Mask(a - rp') < Used'
    BY <1>1, <2>1, <2>3, <2>7
  <2>. QED
    BY <1>1, <2>1, <2>8 DEF Unread
<1>4. CASE Put
  <2>1. PICK n \in Chunks : AssertFails(n) \/ PutChunk(n)
    BY <1>4 DEF Put
  <2>2. pc = "put" /\ UNCHANGED <<rp, fault, supportCmdB, moved>>
    BY <1>4 DEF Put
  <2>3. call.op \in WriteOps /\ moved = 0
    BY <2>2 DEF Typed, CallShape, Sound, PointerShape
  <2>4. CASE AssertFails(n)
    <3>1. UNCHANGED <<ram, regWp, cmdWp, call>>
      BY <2>4 DEF AssertFails
    <3>2. HostWp' = HostWp
      BY <2>2, <3>1 DEF HostWp
    <3>3. Used' = Used
      BY <2>2, <3>2 DEF Used
    <3>. QED
      BY <1>1, <2>2, <3>1, <3>3 DEF Unread
  <2>5. CASE PutChunk(n)
    <3>1. n \in Nat /\ n % 4 = 0 /\ n <= cmdSpace
      BY <2>2, ChunkFits
    <3>2. Used + n < FifoSize
      BY <1>1, <2>3, <3>1, FifoBounds
      DEF Sound, SpaceShape, SpaceSound, Typed, TypeOK
    <3>3. Mask(a - HostWp) = Mask(a - rp) + FifoSize - Used
      BY <1>1, UnreadIsAhead DEF Used
    <3>4. ~(Mask(a - HostWp) < n)
      BY <1>1, <3>1, <3>2, <3>3, FifoBounds
    <3>5. ram'[a] = ram[a]
      <4>1. PICK ws : ram' = [b \in WordAddr |->
                 IF Mask(b - HostWp) < n THEN ws[Mask(b - HostWp) \div 4] ELSE ram[b]]
        BY <2>5 DEF PutChunk
      <4>. QED
        BY <1>1, <3>4, <4>1
    <3>6. HostWp' = Mask(HostWp + n)
      BY <2>2, <2>3, <2>5 DEF PutChunk, HostWp, WriteOps
    <3>7. Mask(Mask(HostWp + n) - rp) = Mask(HostWp - rp) + n
      BY <1>1, <3>1, <3>2, WriterAdvances DEF Used
    <3>8. Used' = Used + n
      BY <2>2, <3>6, <3>7 DEF Used
    <3>9. Mask(a - rp') < Used'
      BY <1>1, <2>2, <3>1, <3>8
    <3>. QED
      BY <1>1, <3>5, <3>9 DEF Unread
  <2>. QED
    BY <2>1, <2>4, <2>5
<1>. QED
  BY <1>2, <1>3, <1>4

(* A word that has been accepted stays in RAM_CMD, and in front of the     *)
(* write pointer, until the coprocessor has read it (wrBuffer, wr32,       *)
(* moveWp, endFunc).                                                       *)
THEOREM UnreadIsKept == ~NullResult /\ Spec => UnreadKept
<1>1. (Typed /\ Sound) /\ [Next]_vars =>
        [~fault /\ "reset" \notin {call.op, call'.op} =>
           \A a \in Unread : ram'[a] = ram[a] /\ (a \in Unread' \/ rp' # rp)]_vars
  BY UnreadKeptStep
<1>. QED
  BY <1>1, SpecSound, PTL DEF Spec, UnreadKept

----------------------------------------------------------------------------
(* Waiting for the FIFO to drain.  Between the two reads of a poll only    *)
(* the coprocessor moves: had the first one found the reader at the write  *)
(* pointer, it has nothing left to execute, nor to fault on.               *)
FlushShape ==
  /\ pc = "flushWp" => status = "opened"
  /\ pc = "flushWp" /\ seen = regWp => rp = regWp
  /\ call.op = "flush" => ret # "true"

LEMMA FlushInit == Init => FlushShape
BY DEF Init, FlushShape, NoCall

LEMMA FlushOtherStep ==
  ASSUME FlushShape, pc' # "flushWp", call'.op # "flush" \/ (call' = call /\ ret' = ret) \/ ret' = "none"
  PROVE  FlushShape'
BY DEF FlushShape

LEMMA FlushStep == Typed /\ FlushShape /\ [Next]_vars => FlushShape'
<1> SUFFICES ASSUME Typed, FlushShape, [Next]_vars PROVE FlushShape'
  OBVIOUS
<1>1. CASE UNCHANGED vars
  BY <1>1 DEF FlushShape, vars, device, hal, thread
<1>2. CASE Consume
  BY <1>2 DEF Consume, FlushShape, hal, thread
<1>3. CASE Crash
  BY <1>3 DEF Crash, FlushShape, hal, thread
<1>4. CASE Call
  <2>1. pc = "ready" /\ call.op = "none"
    <3>1. pc = "ready"
      BY <1>4 DEF Call, StartFunc, EndFunc, Wr32, WrMem, WrString, WriteCall, WrSmall,
         WaitSpace, MoveWp, SpaceCall, Query, WaitFlush, ResetCoprocessor
    <3>. QED
      BY <3>1 DEF Typed, CallShape
  <2>2. CASE StartFunc \/ EndFunc
    BY <2>1, <2>2, FlushOtherStep DEF StartFunc, EndFunc
  <2>3. CASE Wr32 \/ (\E n \in MemSizes : WrMem(n)) \/ (\E n \in StringSizes : WrString(n))
    BY <2>3, FlushOtherStep DEF Wr32, WrMem, WrString, WriteCall, Begin
  <2>4. ASSUME NEW n \in SmallSizes, WrSmall(n) PROVE FlushShape'
    BY <2>1, <2>4, FlushOtherStep DEF WrSmall, Begin
  <2>5. ASSUME NEW n \in SpaceSizes, WaitSpace(n) PROVE FlushShape'
    BY <2>1, <2>5, FlushOtherStep DEF WaitSpace, SpaceCall, Return, StartWait, NoCall
  <2>6. ASSUME NEW n \in MoveSizes, MoveWp(n) PROVE FlushShape'
    BY <2>1, <2>6, FlushOtherStep DEF MoveWp, SpaceCall, Return, Begin, StartWait, NoCall
  <2>7. CASE Query
    BY <2>7, FlushOtherStep DEF Query, Begin
  <2>8. ASSUME NEW op, WaitFlush(op) PROVE FlushShape'
    BY <2>8, FlushOtherStep DEF WaitFlush, StartWait
  <2>9. CASE ResetCoprocessor
    BY <2>9, FlushOtherStep DEF ResetCoprocessor, StartWait
  <2>. QED
    BY <1>4, <2>2, <2>3, <2>4, <2>5, <2>6, <2>7, <2>8, <2>9 DEF Call
<1>5. CASE Reserve
  BY <1>5, FlushOtherStep DEF Reserve, StartWait
<1>6. CASE Put \/ Publish
  <2>1. call.op \in WriteOps /\ call \in [op : Ops, size : Nat, done : Nat]
    BY <1>6 DEF Put, Publish, Typed, TypeOK, CallShape
  <2>2. \A d, z : AfterChunk(d, z) => pc' # "flushWp" /\ call'.op # "flush"
    BY <2>1 DEF AfterChunk, Return, NoCall, WriteOps
  <2>3. \A d, z : call' = [call EXCEPT !.done = d, !.size = z] => call'.op # "flush"
    BY <2>1 DEF WriteOps
  <2>4. call' = call => call'.op # "flush"
    BY <2>1 DEF WriteOps
  <2>5. CASE Put
    <3>1. PICK n \in Chunks : AssertFails(n) \/ PutChunk(n)
      BY <2>5 DEF Put
    <3>2. pc' # "flushWp" /\ call'.op # "flush"
      BY <2>2, <2>3, <2>4, <3>1 DEF AssertFails, PutChunk
    <3>. QED
      BY <3>2, FlushOtherStep
  <2>6. CASE Publish
    <3>1. pc' # "flushWp" /\ call'.op # "flush"
      BY <2>2, <2>6 DEF Publish
    <3>. QED
      BY <3>1, FlushOtherStep
  <2>. QED
    BY <1>6, <2>5, <2>6
<1>7. CASE Move
  BY <1>7, FlushOtherStep DEF Move, Return, NoCall
<1>8. CASE PollClose
  <2>1. pc # "flushWp"
    BY <1>8 DEF PollClose, FlushShape
  <2>. QED
    BY <1>8, <2>1, FlushOtherStep DEF PollClose, thread
<1>9. CASE PollCmdbSpace \/ PollSpaceRp
  <2>1. PICK space : GotSpace(space)
    BY <1>9 DEF PollCmdbSpace, PollSpaceRp
  <2>2. pc' # "flushWp" /\ (call' = NoCall \/ (call' = call /\ ret' = ret))
    BY <2>1, GotSpaceCases
  <2>. QED
    BY <2>2, FlushOtherStep DEF NoCall
<1>10. CASE PollSpaceWp
  BY <1>10, FlushOtherStep DEF PollSpaceWp
<1>11. CASE PollFlushRp
  <2>1. /\ seen' = RegCmdRead /\ call' = call /\ ret' = ret
        /\ status # "writing" /\ status' = status /\ UNCHANGED <<rp, regWp>>
    BY <1>11 DEF PollFlushRp, device
  <2>2. status' = "opened"
    BY <2>1 DEF Typed, TypeOK
  <2>3. seen' = regWp => rp = regWp
    <3>1. regWp \in WordAddr
      BY DEF Typed, TypeOK
    <3>2. FifoSize - 1 \notin WordAddr
      BY FifoBounds DEF WordAddr
    <3>. QED
      BY <2>1, <3>1, <3>2 DEF RegCmdRead
  <2>. QED
    BY <2>1, <2>2, <2>3 DEF FlushShape
<1>12. CASE PollFlushWp
  <2>1. \/ pc' = "ready" /\ call' = NoCall
        \/ pc' = "flushRp" /\ call' = call /\ ret' = ret
    BY <1>12 DEF PollFlushWp, Flushed, FlushFailed, FlushAgain, ReadFound, Return
  <2>. QED
    BY <2>1, FlushOtherStep DEF NoCall
<1>. QED
  BY <1>1, <1>2, <1>3, <1>4, <1>5, <1>6, <1>7, <1>8, <1>9, <1>10, <1>11, <1>12
  DEF Next, Continue, Poll

LEMMA FlushEmptiesStep ==
  ASSUME Typed, FlushShape, [Next]_vars, call.op = "flush", ret' = "true"
  PROVE  Used' = 0 /\ cmdSpace' = FifoSize - 4
<1>1. pc \in {"flushRp", "flushWp"}
  BY DEF Typed, TypeOK, CallShape, Pcs, PollPcs, WriteOps
<1>2. ret # "true"
  BY DEF FlushShape
<1>3. PollFlushWp
  <2>1. ~Call
    BY <1>1 DEF Call, StartFunc, EndFunc, Wr32, WrMem, WrString, WriteCall, WrSmall,
       WaitSpace, MoveWp, SpaceCall, Query, WaitFlush, ResetCoprocessor
  <2>2. ~Consume /\ ~Crash /\ ~UNCHANGED vars
    BY <1>2 DEF Consume, Crash, vars, thread
  <2>3. ~Reserve /\ ~Put /\ ~Publish /\ ~Move
    BY <1>1 DEF Reserve, Put, Publish, Move
  <2>4. ~PollClose /\ ~PollCmdbSpace /\ ~PollSpaceWp /\ ~PollSpaceRp /\ ~PollFlushRp
    BY <1>1, <1>2 DEF PollClose, PollCmdbSpace, PollSpaceWp, PollSpaceRp, PollFlushRp, thread
  <2>. QED
    BY <2>1, <2>2, <2>3, <2>4 DEF Next, Continue, Poll
<1>4. /\ pc = "flushWp" /\ cmdWp' = (IF supportCmdB THEN cmdWp ELSE regWp)
      /\ UNCHANGED <<rp, regWp, supportCmdB>>
  BY <1>3 DEF PollFlushWp, device
<1>5. Flushed
  BY <1>2, <1>3 DEF PollFlushWp, FlushFailed, FlushAgain, ReadFound, Return
<1>6. seen = regWp /\ cmdSpace' = FifoSize - 4 /\ call' = NoCall
  BY <1>5 DEF Flushed, Return
<1>7. rp = regWp
  BY <1>4, <1>6 DEF FlushShape
<1>8. HostWp' = regWp /\ rp' = regWp
  BY <1>4, <1>6, <1>7 DEF HostWp, NoCall
<1>9. Used' = Mask(regWp - regWp)
  BY <1>8 DEF Used, Mask
<1>10. regWp \in WordAddr
  BY DEF Typed, TypeOK
<1>. QED
  BY <1>6, <1>9, <1>10, DistanceSteps

(* EVE_Cmd_waitFlush returns true only when the coprocessor has executed   *)
(* everything that was written, whatever it did between the two register   *)
(* reads of a poll and however the wait was left before, and the cached    *)
(* space is then the whole FIFO.                                           *)
THEOREM FlushEmpties == Spec => FlushIsEmpty
<1>1. Init => Typed /\ FlushShape
  BY TypedInit, FlushInit
<1>2. Typed /\ FlushShape /\ [Next]_vars => (Typed /\ FlushShape)'
  BY TypedStep, FlushStep
<1>3. Typed /\ FlushShape /\ [Next]_vars =>
        [call.op = "flush" /\ ret' = "true" => Used' = 0 /\ cmdSpace' = FifoSize - 4]_vars
  BY FlushEmptiesStep
<1>. QED
  BY <1>1, <1>2, <1>3, PTL DEF Spec, FlushIsEmpty

----------------------------------------------------------------------------
(***************************************************************************)
(* EVE_Cmd implements the queue of CmdQueue.                               *)
(***************************************************************************)
(* The u bytes of the FIFO that start at r, as words.                      *)
Pieces(m, r, u) == [i \in 1 .. u \div 4 |-> m[Mask(r + 4 * (i - 1))]]

QPending == IF fault THEN <<>> ELSE Pieces(ram, rp, Used)
QVisible == IF fault THEN 0 ELSE Mask(regWp - rp) \div 4

(* The steps of CmdQueue, in terms of the mapping.                         *)
QPut ==
  /\ ~fault
  /\ Len(QPending') \in Len(QPending) + 1 .. FifoSize \div 4 - 1
  /\ QPending' \in Seq(Words)
  /\ SubSeq(QPending', 1, Len(QPending)) = QPending
  /\ QVisible' \in {QVisible, Len(QPending')}
  /\ fault' = fault

QPublish ==
  /\ ~fault
  /\ QVisible' = Len(QPending)
  /\ QPending' = QPending /\ fault' = fault

QTake ==
  /\ ~fault /\ QVisible > 0
  /\ QPending' = Tail(QPending)
  /\ QVisible' = QVisible - 1
  /\ fault' = fault

QHalt  == ~fault /\ fault' = TRUE /\ QPending' = <<>> /\ QVisible' = 0
QReset == Restarting /\ fault' = FALSE /\ QPending' = <<>> /\ QVisible' = 0
QStays == QPending' = QPending /\ QVisible' = QVisible /\ fault' = fault

QStep == QPut \/ QPublish \/ QTake \/ QHalt \/ QReset \/ QStays

LEMMA QStepIsQueueStep ==
  QStep => [Queue!Next]_(Queue!vars) /\ [Queue!Serve \/ Restarting]_(Queue!vars)
<1>1. QPut \/ QPublish \/ QTake \/ QHalt => Queue!Serve
  BY DEF QPut, QPublish, QTake, QHalt, QPending, QVisible, Pieces,
         Queue!Serve, Queue!Put, Queue!Publish, Queue!Take, Queue!Halt
<1>2. QReset => Queue!Reset /\ Restarting
  BY DEF QReset, QPending, QVisible, Pieces, Queue!Reset
<1>3. QStays => UNCHANGED Queue!vars
  BY DEF QStays, QPending, QVisible, Pieces, Queue!vars
<1>. QED
  BY <1>1, <1>2, <1>3 DEF QStep, Queue!Next

(* Where the word k bytes beyond the reader lies.                          *)
LEMMA PieceAddress ==
  ASSUME NEW r \in WordAddr, NEW k \in WordAddr
  PROVE  Mask(r + k) \in WordAddr /\ Mask(Mask(r + k) - r) = k
<1>1. r \in Nat /\ k \in Nat /\ k % 4 = 0 /\ r % 4 = 0 /\ k < FifoSize
  BY FifoBounds DEF WordAddr
<1>2. Mask(r - r) = 0
  BY DistanceSteps
<1>3. Mask(r + k) \in WordAddr
  <2>1. r + k \in Int /\ (r + k) % 4 = 0
    BY <1>1
  <2>. QED
    BY <2>1, MaskWord
<1>4. Mask(r - r) + k < FifoSize
  BY <1>1, <1>2
<1>5. Mask(Mask(r + k) - r) = Mask(r - r) + k
  BY <1>1, <1>4, WriterAdvances
<1>. QED
  BY <1>1, <1>2, <1>3, <1>5

LEMMA PiecesAre ==
  ASSUME NEW m \in [WordAddr -> Words], NEW r \in WordAddr,
         NEW u \in 0 .. FifoSize - 4, u % 4 = 0
  PROVE  /\ Pieces(m, r, u) \in Seq(Words) /\ Len(Pieces(m, r, u)) = u \div 4
         /\ \A i \in 1 .. u \div 4 : /\ 4 * (i - 1) \in WordAddr /\ 4 * (i - 1) < u
                                     /\ Pieces(m, r, u)[i] = m[Mask(r + 4 * (i - 1))]
         /\ u = 0 => Pieces(m, r, u) = <<>>
<1> DEFINE q == u \div 4
<1>1. q \in Nat /\ u = 4 * q
  BY FifoBounds
<1>2. Pieces(m, r, u) = [i \in 1 .. q |-> m[Mask(r + 4 * (i - 1))]]
  BY DEF Pieces
<1> HIDE DEF q
<1>3. ASSUME NEW i \in 1 .. q
      PROVE  /\ 4 * (i - 1) \in WordAddr /\ 4 * (i - 1) < u
             /\ m[Mask(r + 4 * (i - 1))] \in Words
  <2>1. 4 * (i - 1) \in WordAddr /\ 4 * (i - 1) < u
    <3> DEFINE j == i - 1
    <3>1. j \in Nat /\ j < q
      BY <1>1, <1>3
    <3> HIDE DEF j
    <3>2. 4 * j \in WordAddr /\ 4 * j < u
      BY <1>1, <3>1, FifoBounds DEF WordAddr
    <3>. QED
      BY <3>2 DEF j
  <2>2. Mask(r + 4 * (i - 1)) \in WordAddr
    BY <2>1, PieceAddress
  <2>. QED
    BY <2>1, <2>2
<1>4. [i \in 1 .. q |-> m[Mask(r + 4 * (i - 1))]] \in [1 .. q -> Words]
  BY <1>3
<1>5. Pieces(m, r, u) \in Seq(Words) /\ Len(Pieces(m, r, u)) = q
  BY <1>1, <1>2, <1>4
<1>6. u = 0 => Pieces(m, r, u) = <<>>
  BY <1>1, <1>5
<1>. QED
  BY <1>2, <1>3, <1>5, <1>6 DEF q

LEMMA PiecesTaken ==
  ASSUME NEW m \in [WordAddr -> Words], NEW r \in WordAddr,
         NEW u \in 4 .. FifoSize - 4, u % 4 = 0
  PROVE  Tail(Pieces(m, r, u)) = Pieces(m, Mask(r + 4), u - 4)
<1> DEFINE q == u \div 4
           n == Mask(r + 4)
           s == Pieces(m, r, u)
           t == Pieces(m, n, u - 4)
<1>1. /\ q \in Nat /\ q > 0 /\ u = 4 * q /\ (u - 4) % 4 = 0 /\ (u - 4) \div 4 = q - 1
      /\ u - 4 \in 0 .. FifoSize - 4 /\ u \in 0 .. FifoSize - 4
  BY FifoBounds
<1>2. 4 \in WordAddr
  BY FifoBounds DEF WordAddr
<1>3. n \in WordAddr
  BY <1>2, PieceAddress
<1>4. /\ s \in Seq(Words) /\ Len(s) = q
      /\ \A i \in 1 .. q : 4 * (i - 1) \in WordAddr /\ s[i] = m[Mask(r + 4 * (i - 1))]
  BY <1>1, PiecesAre
<1>5. /\ t \in Seq(Words) /\ Len(t) = q - 1
      /\ \A i \in 1 .. q - 1 : t[i] = m[Mask(n + 4 * (i - 1))]
  BY <1>1, <1>3, PiecesAre
<1> HIDE DEF q, s, t
<1>6. Tail(s) \in Seq(Words) /\ Len(Tail(s)) = q - 1
      /\ \A i \in 1 .. q - 1 : Tail(s)[i] = s[i + 1]
  BY <1>1, <1>4
<1>7. ASSUME NEW i \in 1 .. q - 1
      PROVE  Mask(n + 4 * (i - 1)) = Mask(r + 4 * ((i + 1) - 1))
  <2> DEFINE k == 4 * (i - 1)
  <2>1. k \in Nat /\ k + 8 <= FifoSize /\ 4 * ((i + 1) - 1) = k + 4
    BY <1>1, <1>7, FifoBounds
  <2> HIDE DEF k
  <2>2. r \in Nat /\ r < FifoSize
    BY FifoBounds DEF WordAddr
  <2>3. n = IF r + 4 >= FifoSize THEN r + 4 - FifoSize ELSE r + 4
    <3>1. r + 4 \in -FifoSize .. 2 * FifoSize - 1
      BY <2>2, FifoBounds
    <3>. QED
      BY <2>2, <3>1, MaskCases, FifoBounds
  <2> HIDE DEF n
  <2>4. Mask(n + k) = IF n + k >= FifoSize THEN n + k - FifoSize ELSE n + k
    <3> DEFINE x == n + k
    <3>1. x \in -FifoSize .. 2 * FifoSize - 1 /\ ~(x < 0)
      BY <2>1, <2>2, <2>3, FifoBounds
    <3> HIDE DEF x
    <3>2. Mask(x) = IF x < 0 THEN x + FifoSize
                    ELSE IF x >= FifoSize THEN x - FifoSize ELSE x
      BY <3>1, MaskCases
    <3>3. Mask(x) = IF x >= FifoSize THEN x - FifoSize ELSE x
      BY <3>1, <3>2
    <3>4. n \in Int /\ k \in Int
      BY <2>1, <2>2, <2>3, FifoBounds
    <3>. QED
      BY <3>3, <3>4, FifoBounds DEF x
  <2>5. Mask(r + (k + 4)) = IF r + (k + 4) >= FifoSize THEN r + (k + 4) - FifoSize ELSE r + (k + 4)
    <3>1. r + (k + 4) \in -FifoSize .. 2 * FifoSize - 1 /\ r + (k + 4) >= 0
      BY <2>1, <2>2, FifoBounds
    <3>. QED
      BY <2>1, <2>2, <3>1, MaskCases, FifoBounds
  <2>6. Mask(n + k) = Mask(r + (k + 4))
    BY <2>1, <2>2, <2>3, <2>4, <2>5, FifoBounds
  <2>. QED
    BY <2>1, <2>6 DEF k
<1>8. ASSUME NEW i \in 1 .. q - 1
      PROVE  Tail(s)[i] = t[i]
  <2>1. i + 1 \in 1 .. q /\ s[i + 1] = m[Mask(r + 4 * ((i + 1) - 1))]
    BY <1>1, <1>4, <1>8
  <2>. QED
    BY <1>5, <1>6, <1>7, <1>8, <2>1
<1>9. Tail(s) = t
  BY <1>1, <1>5, <1>6, <1>8
<1>. QED
  BY <1>9 DEF s, t, n

LEMMA PiecesGrown ==
  ASSUME NEW m \in [WordAddr -> Words], NEW p \in [WordAddr -> Words], NEW r \in WordAddr,
         NEW u \in 0 .. FifoSize - 4, u % 4 = 0,
         NEW v \in 0 .. FifoSize - 4, v % 4 = 0, u <= v,
         \A a \in WordAddr : Mask(a - r) < u => p[a] = m[a]
  PROVE  SubSeq(Pieces(p, r, v), 1, Len(Pieces(m, r, u))) = Pieces(m, r, u)
<1> DEFINE q == u \div 4
           w == v \div 4
           s == Pieces(m, r, u)
           t == Pieces(p, r, v)
<1>1. q \in Nat /\ w \in Nat /\ q <= w
  BY FifoBounds
<1>2. /\ s \in Seq(Words) /\ Len(s) = q
      /\ \A i \in 1 .. q : 4 * (i - 1) \in WordAddr /\ 4 * (i - 1) < u
                           /\ s[i] = m[Mask(r + 4 * (i - 1))]
  BY PiecesAre
<1>3. /\ t \in Seq(Words) /\ Len(t) = w
      /\ \A i \in 1 .. w : t[i] = p[Mask(r + 4 * (i - 1))]
  BY PiecesAre
<1> HIDE DEF q, w, s, t
<1>4. ASSUME NEW i \in 1 .. q
      PROVE  t[i] = s[i]
  <2> DEFINE a == Mask(r + 4 * (i - 1))
  <2>1. a \in WordAddr /\ Mask(a - r) < u
    BY <1>2, <1>4, PieceAddress
  <2>2. p[a] = m[a]
    BY <2>1
  <2>3. i \in 1 .. w
    BY <1>1, <1>4
  <2>. QED
    BY <1>2, <1>3, <1>4, <2>2, <2>3
<1>5. SubSeq(t, 1, q) \in Seq(Words) /\ Len(SubSeq(t, 1, q)) = q
      /\ \A i \in 1 .. q : SubSeq(t, 1, q)[i] = t[i]
  BY <1>1, <1>3
<1>6. SubSeq(t, 1, q) = s
  BY <1>1, <1>2, <1>4, <1>5
<1>. QED
  BY <1>2, <1>6 DEF s, t

(* The mapping in terms of the pointers, before and after a step.          *)
LEMMA QueueIs ==
  ASSUME Typed, ~fault
  PROVE  /\ QPending = Pieces(ram, rp, Used) /\ QVisible = Mask(regWp - rp) \div 4
         /\ QPending \in Seq(Words) /\ Len(QPending) = Used \div 4
         /\ Used = 0 => QPending = <<>>
<1>1. ram \in [WordAddr -> Words] /\ rp \in WordAddr
      /\ Used \in 0 .. FifoSize - 4 /\ Used % 4 = 0
  BY Pointers DEF Typed, TypeOK
<1>2. QPending = Pieces(ram, rp, Used) /\ QVisible = Mask(regWp - rp) \div 4
  BY DEF QPending, QVisible
<1>. QED
  BY <1>1, <1>2, PiecesAre

LEMMA QueueIsNext ==
  ASSUME Typed', ~fault'
  PROVE  /\ QPending' = Pieces(ram', rp', Used')
         /\ QVisible' = Mask(regWp' - rp') \div 4
         /\ QPending' \in Seq(Words) /\ Len(QPending') = Used' \div 4
         /\ Used' = 0 => QPending' = <<>>
<1>1. (Typed /\ ~fault =>
         /\ QPending = Pieces(ram, rp, Used) /\ QVisible = Mask(regWp - rp) \div 4
         /\ QPending \in Seq(Words) /\ Len(QPending) = Used \div 4
         /\ (Used = 0 => QPending = <<>>))'
  BY QueueIs, PTL
<1>. QED
  BY <1>1 DEF Pieces, Mask

LEMMA QueueFaulted ==
  ASSUME fault
  PROVE  QPending = <<>> /\ QVisible = 0
BY DEF QPending, QVisible

LEMMA QueueFaultedNext ==
  ASSUME fault'
  PROVE  QPending' = <<>> /\ QVisible' = 0
BY DEF QPending, QVisible

LEMMA QueueConsume ==
  ASSUME Typed, Sound, Typed', Consume
  PROVE  QStep
<1>1. /\ rp' = Mask(rp + 4) /\ ~fault /\ fault' = fault /\ rp # regWp
      /\ UNCHANGED <<ram, regWp, hal, thread>>
  BY DEF Consume
<1>2. /\ rp \in WordAddr /\ regWp \in WordAddr /\ HostWp \in WordAddr
      /\ Used \in 0 .. FifoSize - 4 /\ Used % 4 = 0
      /\ Mask(regWp - rp) \in 0 .. FifoSize - 4 /\ ram \in [WordAddr -> Words]
  BY Pointers DEF Typed, TypeOK
<1>3. Mask(regWp - rp) >= 4 /\ Mask(regWp - rp) % 4 = 0
  BY <1>1, <1>2, DistanceSteps, Distance
<1>4. Mask(regWp - Mask(rp + 4)) = Mask(regWp - rp) - 4
  BY <1>2, <1>3, ReaderAdvances
<1>5. call.op # "reset"
  BY <1>1 DEF Sound, PointerShape
<1>6. Used >= 4
  BY <1>1, <1>2, <1>3, <1>5, FifoBounds DEF Sound, SpaceShape
<1>7. Used' = Used - 4
  <2>1. HostWp' = HostWp
    BY <1>1 DEF HostWp, hal, thread
  <2>2. Mask(HostWp - Mask(rp + 4)) = Mask(HostWp - rp) - 4
    BY <1>2, <1>6, ReaderAdvances DEF Used
  <2>. QED
    BY <1>1, <2>1, <2>2 DEF Used
<1> DEFINE u == Used
           d == Mask(regWp - rp)
<1>8. /\ u \in 4 .. FifoSize - 4 /\ u % 4 = 0
      /\ d \in Nat /\ d >= 4 /\ d % 4 = 0
  BY <1>2, <1>3, <1>6, FifoBounds
<1>9. QPending = Pieces(ram, rp, u) /\ QVisible = d \div 4
  BY <1>1, QueueIs
<1>10. QPending' = Pieces(ram, Mask(rp + 4), u - 4) /\ QVisible' = (d - 4) \div 4
  BY <1>1, <1>4, <1>7, QueueIsNext
<1> HIDE DEF u, d
<1>11. QPending' = Tail(QPending)
  BY <1>2, <1>8, <1>9, <1>10, PiecesTaken
<1>12. QVisible > 0 /\ QVisible' = QVisible - 1
  BY <1>8, <1>9, <1>10
<1>. QED
  BY <1>1, <1>11, <1>12 DEF QStep, QTake

(* A step that accepts no word and does not touch the reader hands over    *)
(* everything accepted so far, or nothing.                                 *)
LEMMA QueueQuiet ==
  ASSUME Typed, Typed', UNCHANGED <<ram, rp, fault, HostWp>>,
         regWp' = regWp \/ regWp' = HostWp
  PROVE  QStep
<1>1. CASE fault
  BY <1>1, QueueFaulted, QueueFaultedNext DEF QStep, QStays
<1>2. CASE ~fault
  <2>1. Used' = Used
    BY DEF Used
  <2>2. QPending' = QPending
    BY <1>2, <2>1, QueueIs, QueueIsNext
  <2>3. CASE regWp' = regWp
    BY <1>2, <2>2, <2>3, QueueIs, QueueIsNext DEF QStep, QStays
  <2>4. CASE regWp' = HostWp
    <3>1. QVisible' = Len(QPending)
      BY <1>2, <2>4, QueueIs, QueueIsNext DEF Used
    <3>. QED
      BY <1>2, <2>2, <3>1 DEF QStep, QPublish
  <2>. QED
    BY <2>3, <2>4
<1>. QED
  BY <1>1, <1>2

(* A step by which the host writes n bytes beyond what it has written.     *)
LEMMA QueueGrows ==
  ASSUME Typed, Typed', ~fault, NEW n \in Nat, n % 4 = 0, n >= 4,
         UNCHANGED <<rp, fault>>, HostWp' = Mask(HostWp + n), Used + n <= FifoSize - 4,
         \A a \in Unread : ram'[a] = ram[a],
         regWp' = regWp \/ regWp' = HostWp'
  PROVE  QStep
<1>1. /\ rp \in WordAddr /\ HostWp \in WordAddr /\ ram \in [WordAddr -> Words]
      /\ ram' \in [WordAddr -> Words] /\ Used \in 0 .. FifoSize - 4 /\ Used % 4 = 0
  BY Pointers DEF Typed, TypeOK
<1>2. Used' = Used + n
  <2>1. Mask(HostWp - rp) + n < FifoSize
    BY <1>1, FifoBounds DEF Used
  <2>2. Mask(Mask(HostWp + n) - rp) = Mask(HostWp - rp) + n
    BY <1>1, <2>1, WriterAdvances
  <2>. QED
    BY <2>2 DEF Used
<1>3. /\ QPending = Pieces(ram, rp, Used) /\ QVisible = Mask(regWp - rp) \div 4
      /\ Len(QPending) = Used \div 4
  BY QueueIs
<1>4. /\ QPending' = Pieces(ram', rp, Used + n) /\ QPending' \in Seq(Words)
      /\ QVisible' = Mask(regWp' - rp) \div 4 /\ Len(QPending') = (Used + n) \div 4
  BY <1>2, QueueIsNext
<1>5. QVisible' \in {QVisible, Len(QPending')}
  <2>1. CASE regWp' = regWp
    BY <1>3, <1>4, <2>1
  <2>2. CASE regWp' = HostWp'
    BY <1>2, <1>4, <2>2 DEF Used
  <2>. QED
    BY <2>1, <2>2
<1>6. \A a \in WordAddr : Mask(a - rp) < Used => ram'[a] = ram[a]
  BY DEF Unread
<1> DEFINE u == Used
           v == u + n
<1>7. /\ u \in 0 .. FifoSize - 4 /\ u % 4 = 0 /\ v \in 0 .. FifoSize - 4 /\ v % 4 = 0
      /\ u <= v /\ v \div 4 \in u \div 4 + 1 .. FifoSize \div 4 - 1
  <2>1. u \in 0 .. FifoSize - 4 /\ u % 4 = 0 /\ u + n <= FifoSize - 4
    BY <1>1
  <2> HIDE DEF u
  <2>. QED
    BY <2>1, FifoBounds
<1>8. \A a \in WordAddr : Mask(a - rp) < u => ram'[a] = ram[a]
  BY <1>6
<1>9. QPending = Pieces(ram, rp, u) /\ QPending' = Pieces(ram', rp, v)
      /\ Len(QPending) = u \div 4 /\ Len(QPending') = v \div 4
  BY <1>3, <1>4
<1> HIDE DEF u, v
<1>10. SubSeq(QPending', 1, Len(QPending)) = QPending
  BY <1>1, <1>7, <1>8, <1>9, PiecesGrown
<1>11. Len(QPending') \in Len(QPending) + 1 .. FifoSize \div 4 - 1
  BY <1>7, <1>9
<1>. QED
  BY <1>4, <1>5, <1>10, <1>11 DEF QStep, QPut

(* A chunk is at least one word.                                           *)
LEMMA ChunkNotEmpty ==
  ASSUME Typed, Sound, pc = "put", ~fault, NEW n \in Chunks
  PROVE  n >= 4
<1>1. n \in Nat /\ n % 4 = 0
  BY ChunkFits
<1>2. call.op \in WriteOps
  BY DEF Typed, CallShape
<1>3. call.size \in Nat /\ call.done \in Nat /\ cmdSpace \in Nat /\ Request <= cmdSpace
  BY <1>2, FifoBounds DEF Sound, SpaceShape, Typed, TypeOK, WriteOps
<1>4. n >= 1
  <2>1. CASE call.op = "string"
    <3>1. PICK k \in 0 .. call.size : n = Align4(k + 1)
      BY <2>1 DEF Chunks
    <3>2. k + 1 \in Nat /\ k + 1 >= 1
      BY <1>3
    <3>3. k + 1 <= n
      BY <3>1, <3>2, AlignRange
    <3>. QED
      BY <1>1, <3>2, <3>3
  <2>2. CASE call.op = "mem"
    <3> DEFINE x == Smaller(call.size - call.done, cmdSpace)
    <3>1. call.done < call.size
      BY <2>2 DEF Typed, CallShape
    <3>2. Request = Smaller(call.size - call.done, FifoSize \div 2)
      BY <2>2 DEF Request
    <3>3. Request >= 1
      <4>1. call.size - call.done \in Int /\ call.size - call.done >= 1
        BY <1>3, <3>1
      <4>2. FifoSize \div 2 \in Int /\ FifoSize \div 2 >= 1
        BY FifoBounds
      <4>. QED
        BY <3>2, <4>1, <4>2 DEF Smaller
    <3>4. x \in Nat /\ x >= 1
      <4>1. call.size - call.done \in Int /\ call.size - call.done >= 1
        BY <1>3, <3>1
      <4>2. Request \in Int
        BY <1>3, <3>2, FifoBounds DEF Smaller
      <4>3. cmdSpace >= 1
        BY <1>3, <3>3, <4>2
      <4>. QED
        BY <1>3, <4>1, <4>3 DEF Smaller
    <3>5. n = Align4(x)
      BY <2>2 DEF Chunks
    <3> HIDE DEF x
    <3>6. x <= n
      BY <3>4, <3>5, AlignRange
    <3>. QED
      BY <1>1, <3>4, <3>6
  <2>. QED
    BY <1>2, <2>1, <2>2 DEF WriteOps
<1>. QED
  BY <1>1, <1>4

LEMMA QueuePut ==
  ASSUME Typed, Sound, Typed', [Next]_vars, Put
  PROVE  QStep
<1>1. /\ pc = "put" /\ UNCHANGED <<rp, fault, supportCmdB, cmdFunc, moved>>
  BY DEF Put
<1>2. PICK n \in Chunks : AssertFails(n) \/ PutChunk(n)
  BY DEF Put
<1>3. call.op \in WriteOps /\ moved = 0
  BY <1>1 DEF Typed, CallShape, Sound, PointerShape
<1>4. CASE fault
  BY <1>1, <1>4, QueueFaulted, QueueFaultedNext DEF QStep, QStays
<1>5. CASE AssertFails(n)
  <2>1. UNCHANGED <<ram, regWp, cmdWp, call>>
    BY <1>5 DEF AssertFails
  <2>2. HostWp' = HostWp
    BY <1>1, <2>1 DEF HostWp
  <2>. QED
    BY <1>1, <2>1, <2>2, QueueQuiet
<1>6. CASE ~fault /\ PutChunk(n)
  <2>1. n \in Nat /\ n % 4 = 0 /\ n <= cmdSpace /\ n >= 4
    BY <1>1, <1>6, ChunkFits, ChunkNotEmpty
  <2>2. call'.op # "reset"
    <3>1. PICK d, z :
             \/ AfterChunk(d, z)
             \/ call' = [call EXCEPT !.done = d, !.size = z]
      BY <1>6 DEF PutChunk
    <3>2. call \in [op : Ops, size : Nat, done : Nat]
      BY DEF Typed, TypeOK
    <3>3. \/ call' = [call EXCEPT !.done = d]
          \/ call' = NoCall
          \/ call' = [call EXCEPT !.done = d, !.size = z]
      BY <3>1 DEF AfterChunk, Return
    <3>4. call'.op = call.op \/ call'.op = "none"
      <4>1. CASE call' = [call EXCEPT !.done = d]
        BY <3>2, <4>1
      <4>2. CASE call' = NoCall
        BY <4>2 DEF NoCall
      <4>3. CASE call' = [call EXCEPT !.done = d, !.size = z]
        BY <3>2, <4>3
      <4>. QED
        BY <3>3, <4>1, <4>2, <4>3
    <3>. QED
      BY <1>3, <3>4 DEF WriteOps
  <2>3. /\ supportCmdB => regWp' = Mask(regWp + n)
        /\ ~supportCmdB => cmdWp' = Mask(cmdWp + n) /\ regWp' = regWp
    BY <1>6 DEF PutChunk
  <2>4. HostWp' = Mask(HostWp + n) /\ (regWp' = regWp \/ regWp' = HostWp')
    BY <1>1, <1>3, <2>2, <2>3 DEF HostWp, WriteOps
  <2>5. Used + n <= FifoSize - 4
    <3>1. cmdSpace + Used <= FifoSize - 4
      BY <1>3, <1>6, FifoBounds DEF Sound, SpaceSound, WriteOps
    <3>2. cmdSpace \in Nat /\ Used \in Nat
      BY Pointers, FifoBounds DEF Typed, TypeOK
    <3>. QED
      BY <2>1, <3>1, <3>2, FifoBounds
  <2>6. \A a \in Unread : ram'[a] = ram[a]
    BY <1>3, <1>6, <2>2, UnreadKeptStep DEF WriteOps
  <2>. QED
    BY <1>1, <1>6, <2>1, <2>4, <2>5, <2>6, QueueGrows
<1>. QED
  BY <1>2, <1>4, <1>5, <1>6

LEMMA QueueMove ==
  ASSUME Typed, Sound, Typed', Move
  PROVE  QStep
<1>1. /\ pc = "move" /\ call' = NoCall
      /\ UNCHANGED <<ram, rp, fault, supportCmdB>>
  BY DEF Move, Return
<1>2. call.op = "moveWp" /\ moved = 0
  BY <1>1 DEF Typed, CallShape, Sound, PointerShape
<1>3. call.size \in 4 .. FifoSize - 4 /\ call.size % 4 = 0
  BY <1>2, SizesAssumption DEF Typed, CallShape
<1>4. regWp' = Mask(HostWp + call.size) /\ (supportCmdB \/ cmdWp' = regWp')
  BY <1>1, <1>2 DEF Move, HostWp, Sound, ClosedIsPublished, Typed, TypeOK
<1>5. HostWp' = regWp'
  BY <1>1, <1>4 DEF HostWp
<1>6. CASE fault
  BY <1>1, <1>6, QueueFaulted, QueueFaultedNext DEF QStep, QStays
<1>7. CASE ~fault
  <2>1. cmdSpace + Used <= FifoSize - 4 /\ call.size <= cmdSpace
    BY <1>1, <1>2, <1>7, FifoBounds DEF Sound, SpaceShape, SpaceSound
  <2>2. cmdSpace \in Nat /\ Used \in Nat
    BY Pointers, FifoBounds DEF Typed, TypeOK
  <2>3. Used + call.size <= FifoSize - 4
    BY <1>3, <2>1, <2>2, FifoBounds
  <2>4. call.size \in Nat /\ call.size >= 4
    BY <1>3, FifoBounds
  <2>5. \A a \in Unread : ram'[a] = ram[a]
    BY <1>1
  <2>. QED
    BY <1>1, <1>3, <1>4, <1>5, <1>7, <2>3, <2>4, <2>5, QueueGrows
<1>. QED
  BY <1>6, <1>7

(* The steps that accept no word leave the reader alone, and move the      *)
(* published pointer up to the host's own or not at all.                   *)
LEMMA QueueOther ==
  ASSUME Typed, Sound, [Next]_vars, ~Put, ~Move, ~Consume, ~Crash, ~ResetCoprocessor
  PROVE  /\ UNCHANGED <<rp, fault>>
         /\ \/ regWp' = regWp
            \/ regWp' = cmdWp /\ ~supportCmdB /\ call.op # "reset"
         /\ call'.op = "reset" => call.op = "reset"
<1>0. call \in [op : Ops, size : Nat, done : Nat]
  BY DEF Typed, TypeOK
<1>1. CASE UNCHANGED vars
  BY <1>1 DEF vars, device, thread
<1>2. CASE StartFunc
  BY <1>2 DEF StartFunc, device
<1>3. CASE EndFunc
  BY <1>3 DEF EndFunc, CloseTransfer, Typed, CallShape
<1>4. CASE \E op \in {"mem", "string"} : \E n : WriteCall(op, n)
  BY <1>4 DEF WriteCall, Begin, device
<1>5. CASE \E n \in SmallSizes : WrSmall(n)
  BY <1>5 DEF WrSmall, Begin, device
<1>6. CASE \E n : WaitSpace(n) \/ MoveWp(n)
  BY <1>6 DEF WaitSpace, MoveWp, SpaceCall, Begin, Return, NoCall, device
<1>7. CASE Query \/ \E op \in {"flush", "read32"} : WaitFlush(op)
  BY <1>7 DEF Query, Begin, WaitFlush, device
<1>8. CASE Reserve
  BY <1>8 DEF Reserve, device
<1>9. CASE Publish
  <2>1. pc = "publish" /\ regWp' = cmdWp /\ UNCHANGED <<rp, fault>>
        /\ AfterChunk(call.done, call.size)
    BY <1>9 DEF Publish
  <2>2. call.op \in WriteOps /\ ~supportCmdB
    BY <2>1 DEF Typed, CallShape, Sound, PointerShape
  <2>3. call'.op = call.op \/ call'.op = "none"
    BY <1>0, <2>1 DEF AfterChunk, Return, NoCall
  <2>. QED
    BY <2>1, <2>2, <2>3 DEF WriteOps
<1>10. CASE PollClose
  <2>1. /\ CloseTransfer /\ status = "writing" /\ UNCHANGED <<rp, fault, call>>
    BY <1>10 DEF PollClose, thread
  <2>2. call.op # "reset"
    BY <2>1 DEF Sound, PointerShape
  <2>. QED
    BY <2>1, <2>2 DEF CloseTransfer
<1>11. CASE PollCmdbSpace \/ PollSpaceRp
  <2>1. PICK space : GotSpace(space)
    BY <1>11 DEF PollCmdbSpace, PollSpaceRp
  <2>2. call' = call \/ call' = NoCall
    BY <2>1, GotSpaceCases
  <2>3. UNCHANGED <<rp, fault, regWp>>
    BY <1>11 DEF PollCmdbSpace, PollSpaceRp, device
  <2>. QED
    BY <2>2, <2>3 DEF NoCall
<1>12. CASE PollSpaceWp \/ PollFlushRp
  BY <1>12 DEF PollSpaceWp, PollFlushRp, device
<1>13. CASE PollFlushWp
  BY <1>13 DEF PollFlushWp, Flushed, FlushFailed, FlushAgain, ReadFound, Return, NoCall, device
<1>14. CASE Call
  BY <1>2, <1>3, <1>4, <1>5, <1>6, <1>7, <1>14 DEF Call, Wr32, WrMem, WrString
<1>15. CASE Continue
  BY <1>8, <1>9, <1>10, <1>11, <1>12, <1>13, <1>15 DEF Continue, Poll
<1>. QED
  BY <1>1, <1>14, <1>15 DEF Next

(* While EVE_Util_resetCoprocessor refreshes the pointers both are zero    *)
(* and the queue is empty.                                                 *)
LEMMA QueueRefresh ==
  ASSUME Typed, Sound, Typed', [Next]_vars, call.op = "reset"
  PROVE  QStep
<1>1. /\ ~fault /\ rp = 0 /\ regWp = 0 /\ pc \in {"flushRp", "flushWp"} /\ status # "writing"
  BY DEF Sound, PointerShape, Typed, TypeOK, CallShape, WriteOps, Pcs, PollPcs
<1>2. ~Put /\ ~Move /\ ~Consume /\ ~Crash /\ ~ResetCoprocessor
  BY <1>1 DEF Put, Move, Consume, Crash, ResetCoprocessor
<1>3. UNCHANGED <<rp, fault>> /\ regWp' = regWp
  BY <1>2, QueueOther
<1>4. HostWp' = 0
  <2>1. CASE call'.op = "reset"
    BY <1>1, <1>3, <2>1 DEF HostWp
  <2>2. CASE call'.op # "reset"
    <3>1. PollFlushWp
      <4>1. ~Call
        BY <1>1, <1>2 DEF Call, StartFunc, EndFunc, Wr32, WrMem, WrString, WriteCall, WrSmall,
           WaitSpace, MoveWp, SpaceCall, Query, WaitFlush
      <4>2. ~Reserve /\ ~Publish /\ ~PollClose /\ ~PollCmdbSpace /\ ~PollSpaceWp /\ ~PollSpaceRp
        BY <1>1 DEF Reserve, Publish, PollClose, PollCmdbSpace, PollSpaceWp, PollSpaceRp
      <4>3. ~PollFlushRp /\ ~UNCHANGED vars
        BY <2>2 DEF PollFlushRp, vars, thread
      <4>. QED
        BY <1>2, <4>1, <4>2, <4>3 DEF Next, Continue, Poll
    <3>2. cmdWp' = (IF supportCmdB THEN cmdWp ELSE regWp) /\ supportCmdB' = supportCmdB
      BY <3>1 DEF PollFlushWp
    <3>. QED
      BY <1>1, <1>3, <3>2, <2>2 DEF HostWp, Typed, TypeOK
  <2>. QED
    BY <2>1, <2>2
<1>5. Used = 0 /\ Used' = 0 /\ Mask(regWp - rp) = 0 /\ Mask(regWp' - rp') = 0
  <2>1. Mask(0 - 0) = 0
    BY FifoBounds, MaskIs
  <2>. QED
    BY <1>1, <1>3, <1>4, <2>1 DEF Used, HostWp
<1>6. QPending = <<>> /\ QPending' = <<>> /\ QVisible' = QVisible
  BY <1>1, <1>3, <1>5, QueueIs, QueueIsNext
<1>. QED
  BY <1>3, <1>6 DEF QStep, QStays

LEMMA QueueNext ==
  ASSUME Typed, Sound, Typed', [Next]_vars
  PROVE  QStep
<1>1. CASE Put
  BY <1>1, QueuePut
<1>2. CASE Move
  BY <1>2, QueueMove
<1>3. CASE Consume
  BY <1>3, QueueConsume
<1>4. CASE Crash
  BY <1>4, QueueFaultedNext DEF Crash, QStep, QHalt
<1>5. CASE ResetCoprocessor
  <2>1. /\ fault' = FALSE /\ rp' = 0 /\ regWp' = 0 /\ pc = "ready"
        /\ call'.op = "reset"
    BY <1>5 DEF ResetCoprocessor
  <2>2. Mask(0 - 0) = 0
    BY FifoBounds, MaskIs
  <2>3. Used' = 0 /\ Mask(regWp' - rp') = 0
    BY <2>1, <2>2 DEF Used, HostWp
  <2>. QED
    BY <2>1, <2>3, QueueIsNext DEF QStep, QReset, Restarting
<1>6. CASE call.op = "reset"
  BY <1>6, QueueRefresh
<1>7. CASE ~Put /\ ~Move /\ ~Consume /\ ~Crash /\ ~ResetCoprocessor /\ call.op # "reset"
  <2>1. /\ UNCHANGED <<rp, fault>>
        /\ regWp' = regWp \/ (regWp' = cmdWp /\ ~supportCmdB)
        /\ call'.op # "reset"
    BY <1>7, QueueOther
  <2>2. CASE fault
    BY <2>1, <2>2, QueueFaulted, QueueFaultedNext DEF QStep, QStays
  <2>3. CASE ~fault
    <3>1. HostWp' = HostWp /\ ram' = ram
      BY <1>7, <2>1, <2>3, WriterKept
    <3>2. regWp' = regWp \/ regWp' = HostWp
      BY <1>7, <2>1 DEF HostWp
    <3>. QED
      BY <2>1, <3>1, <3>2, QueueQuiet
  <2>. QED
    BY <2>2, <2>3
<1>. QED
  BY <1>1, <1>2, <1>3, <1>4, <1>5, <1>6, <1>7

LEMMA QueueInit == Init => Queue!Init
<1> SUFFICES ASSUME Init PROVE Queue!Init
  OBVIOUS
<1>1. Typed /\ ~fault /\ fault = FALSE
  BY TypedInit DEF Init
<1>2. rp = 0 /\ regWp = 0 /\ HostWp = 0
  BY DEF Init, HostWp
<1>3. Mask(0 - 0) = 0
  BY FifoBounds, MaskIs
<1>4. Used = 0 /\ QVisible = 0
  BY <1>1, <1>2, <1>3, QueueIs DEF Used
<1>5. QPending = <<>>
  BY <1>1, <1>4, QueueIs
<1>. QED
  BY <1>1, <1>4, <1>5 DEF QPending, QVisible, Pieces, Queue!Init

(* The command FIFO is a bounded first-in first-out queue of words between *)
(* the host and the coprocessor: what the host has accepted is executed in *)
(* order and exactly once, never before it is published, and is dropped    *)
(* only by a fault or by EVE_Util_resetCoprocessor (EVE_Cmd.c).            *)
THEOREM ImplementsQueue == ~NullResult /\ Spec => QueueSpec
<1>1. Init => Queue!Init
  BY QueueInit
<1>2. (Typed /\ Sound) /\ (Typed /\ Sound)' /\ [Next]_vars
      => [Queue!Next]_(Queue!vars) /\ [Queue!Serve \/ Restarting]_(Queue!vars)
  BY QueueNext, QStepIsQueueStep
<1>. QED
  BY <1>1, <1>2, SpecSound, PTL DEF Spec, QueueSpec, Queue!Spec
=============================================================================
