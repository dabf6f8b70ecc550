------------------------------- MODULE EveCmd -------------------------------
(***************************************************************************)
(* The command FIFO protocol of EVE_Cmd.c: one host thread, which caches   *)
(* the free space and (without CMDB) the write pointer, against the        *)
(* coprocessor, which consumes published words or faults at any moment     *)
(* between two register accesses of the host.                              *)
(*                                                                         *)
(* Addresses and sizes are in bytes, as in the code: a faulted coprocessor *)
(* shows itself by a read pointer that is not a multiple of four.          *)
(***************************************************************************)
EXTENDS Integers, Sequences

CONSTANTS
  FifoSize,     \* EVE_CMD_FIFO_SIZE
  Words,        \* the payloads of a command word
  MemSizes,     \* the sizes passed to EVE_Cmd_wrMem and EVE_Cmd_wrProgMem
  StringSizes,  \* the maxLength passed to EVE_Cmd_wrString
  MoveSizes,    \* the sizes passed to EVE_Cmd_moveWp
  SmallSizes,   \* of EVE_Cmd_wr8 (1) and EVE_Cmd_wr16 (2), those used
  SpaceSizes,   \* the sizes passed to EVE_Cmd_waitSpace
  AssertTraps,  \* eve_assert stops the program (_DEBUG), or does nothing
  NullResult    \* whether a caller of EVE_Cmd_moveWp may skip reading the result

Uint16 == 65536               \* the pointers and CmdSpace are uint16_t

ASSUME FifoAssumption == FifoSize \in 8 .. Uint16 /\ FifoSize % 8 = 0

ASSUME SizesAssumption ==
  /\ MemSizes \subseteq Nat \ {0}
  /\ StringSizes \subseteq 1 .. FifoSize \div 2 - 1
  /\ MoveSizes \subseteq {n \in 4 .. FifoSize - 4 : n % 4 = 0}
  /\ SmallSizes \subseteq {1, 2}
  /\ SpaceSizes \subseteq Nat
  /\ AssertTraps \in BOOLEAN /\ NullResult \in BOOLEAN

VARIABLES
  \* the coprocessor and its registers
  ram,          \* RAM_CMD
  rp,           \* the coprocessor's own read position
  regWp,        \* REG_CMD_WRITE (moved by the hardware itself with CMDB)
  fault,        \* the coprocessor has faulted
  \* EVE_HalContext
  supportCmdB,  \* EVE_Hal_supportCmdB: fixed by the chip
  status,       \* EVE_STATUS_OPENED or EVE_STATUS_WRITING
  cmdWp, cmdSpace, cmdFunc, cmdFault, cmdWaiting, cmdBufferIndex,
  \* the host thread
  pc,           \* the next register access of the call in progress
  call,         \* the call in progress
  seen,         \* the register value the call has read last
  firstPoll,    \* the wait has not entered its loop yet
  ret,          \* how the last call returned
  moved         \* bytes reserved by moveWp since CmdSpace was last read back

device == <<ram, rp, regWp, fault>>
hal    == <<supportCmdB, status, cmdWp, cmdSpace, cmdFunc, cmdFault,
            cmdWaiting, cmdBufferIndex>>
thread == <<pc, call, seen, firstPoll, ret, moved>>
vars   == <<device, hal, thread>>

----------------------------------------------------------------------------
Mask(x)   == x % FifoSize                       \* x & EVE_CMD_FIFO_MASK
Align4(n) == 4 * ((n + 3) \div 4)
WordAddr  == {a \in 0 .. FifoSize - 1 : a % 4 = 0}
Smaller(a, b) == IF a < b THEN a ELSE b

CmdFaultBits(v) == v % 4 # 0                    \* EVE_CMD_FAULT

WriteOps == {"mem", "string"}
FlushOps == {"flush", "reset", "read32", "busy"}
Ops      == WriteOps \cup FlushOps \cup {"none", "space", "query", "moveWp"}
PollPcs  == {"space", "spaceRp", "flushRp", "flushWp"}
Pcs      == {"ready", "need", "put", "publish", "move", "trap"} \cup PollPcs
Returns  == {"none", "true", "fault", "abort", "refused", "absent", "miscount"}

NoCall == [op |-> "none", size |-> 0, done |-> 0]

(* What the host reads from REG_CMD_READ and REG_CMDB_SPACE.               *)
RegCmdRead   == IF fault THEN FifoSize - 1 ELSE rp
RegCmdbSpace == Mask(RegCmdRead - regWp - 4)

(* Where the next word the host writes goes.                               *)
HostWp == IF supportCmdB \/ call.op = "reset" THEN regWp ELSE cmdWp

Used   == Mask(HostWp - rp)   \* bytes accepted and not consumed
Unread == {a \in WordAddr : Mask(a - rp) < Used}

----------------------------------------------------------------------------
Init ==
  /\ ram \in [WordAddr -> Words]
  /\ \A a, b \in WordAddr : ram[a] = ram[b]
  /\ rp = 0 /\ regWp = 0 /\ fault = FALSE
  /\ supportCmdB \in BOOLEAN
  /\ status = "opened"
  /\ cmdWp = 0 /\ cmdSpace = FifoSize - 4
  /\ cmdFunc = FALSE /\ cmdFault = FALSE /\ cmdWaiting = FALSE
  /\ cmdBufferIndex = 0
  /\ pc = "ready" /\ call = NoCall /\ seen = 0 /\ firstPoll = FALSE
  /\ ret = "none" /\ moved = 0

----------------------------------------------------------------------------
(* The coprocessor (hardware, as EVE_Cmd.c uses it).                       *)

Consume ==
  /\ ~fault /\ rp # regWp
  /\ rp' = Mask(rp + 4)
  /\ UNCHANGED <<ram, regWp, fault, hal, thread>>

Crash ==
  /\ ~fault /\ rp # regWp
  /\ fault' = TRUE
  /\ UNCHANGED <<ram, rp, regWp, hal, thread>>

----------------------------------------------------------------------------
(* How a call begins and how it returns.                                   *)

Begin(op, size, next) ==
  /\ call' = [op |-> op, size |-> size, done |-> 0]
  /\ pc' = next
  /\ ret' = "none"

(* The locals of the call (seen, firstPoll) end with it.                   *)
Return(how) ==
  /\ pc' = "ready" /\ call' = NoCall /\ ret' = how
  /\ seen' = 0 /\ firstPoll' = FALSE

(* A caller of moveWp has to wait for the result before it writes again.   *)
MayWrite == moved = 0 \/ NullResult

\* Wrong on purpose: the write pointer of an open function is not published.
CloseTransferOnly == status' = "opened" /\ UNCHANGED regWp

(* endFunc: closes an open transfer and publishes the write pointer.       *)
CloseTransfer ==
  /\ status' = "opened"
  /\ regWp' = IF supportCmdB \/ status # "writing" THEN regWp ELSE cmdWp

StartFunc ==
  /\ pc = "ready" /\ cmdBufferIndex = 0 /\ ~cmdFunc /\ MayWrite
  /\ cmdFunc' = TRUE /\ ret' = "none"
  /\ UNCHANGED <<device, supportCmdB, status, cmdWp, cmdSpace, cmdFault,
                 cmdWaiting, cmdBufferIndex, pc, call, seen, firstPoll, moved>>

EndFunc ==
  /\ pc = "ready" /\ cmdBufferIndex = 0 /\ cmdFunc
  /\ CloseTransfer
  /\ cmdFunc' = FALSE /\ ret' = "none"
  /\ UNCHANGED <<ram, rp, fault, supportCmdB, cmdWp, cmdSpace, cmdFault,
                 cmdWaiting, cmdBufferIndex, pc, call, seen, firstPoll, moved>>

----------------------------------------------------------------------------
(* Waiting.  A call that needs space enters the wait at "space", one that  *)
(* waits for the FIFO to drain at "flushRp".                               *)

StartWait(next) == cmdWaiting' = TRUE /\ firstPoll' = TRUE /\ pc' = next

(* Every poll first closes the transfer a function has left open.          *)
PollClose ==
  /\ pc \in PollPcs /\ status = "writing"
  /\ CloseTransfer
  /\ UNCHANGED <<ram, rp, fault, supportCmdB, cmdWp, cmdSpace, cmdFunc,
                 cmdFault, cmdWaiting, cmdBufferIndex, thread>>

(* The size waitSpace waits for: wrBuffer asks for at most half the FIFO.  *)
Request ==
  CASE call.op = "mem"    -> Smaller(call.size - call.done, FifoSize \div 2)
    [] call.op = "string" -> Smaller(call.size - call.done + 1, FifoSize \div 2)
    [] OTHER              -> call.size

EndWait == seen' = 0 /\ firstPoll' = FALSE /\ UNCHANGED <<call, ret>>

Granted ==
  /\ cmdWaiting' = FALSE
  /\ CASE call.op \in WriteOps -> pc' = "put" /\ EndWait
       [] call.op = "moveWp"   -> pc' = "move" /\ EndWait
       \* EVE_Cmd_waitSpace returns the space itself: zero reads as a failure
       [] OTHER -> Return(IF call.op = "space" /\ cmdSpace' = 0 THEN "refused" ELSE "true")

(* checkWait and handleWait on the space just read, and the loop of        *)
(* waitSpace; EVE_Cmd_space alone ("query") just stores it.  The wait ends *)
(* in the same way when CbCmdWait ends it and when the host interface has  *)
(* failed ("abort").                                                       *)
GotSpace(space) ==
  /\ cmdSpace' = space
  /\ moved' = 0
  /\ \/ /\ call.op # "query" /\ CmdFaultBits(space)
        /\ cmdWaiting' = FALSE /\ Return("fault")
     \/ /\ call.op # "query" /\ ~CmdFaultBits(space) /\ ~firstPoll
        /\ cmdWaiting' = FALSE /\ Return("abort")
     \/ /\ call.op = "query" \/ (~CmdFaultBits(space) /\ space >= Request)
        /\ Granted
     \/ /\ call.op # "query" /\ ~CmdFaultBits(space) /\ space < Request
        /\ firstPoll' = FALSE /\ pc' = "space" /\ seen' = 0
        /\ UNCHANGED <<cmdWaiting, call, ret>>

(* EVE_Cmd_space with CMDB: one register.                                  *)
PollCmdbSpace ==
  /\ pc = "space" /\ status # "writing" /\ supportCmdB
  /\ cmdFault' = (cmdFault \/ CmdFaultBits(RegCmdbSpace))
  /\ GotSpace(RegCmdbSpace)
  /\ UNCHANGED <<device, supportCmdB, status, cmdWp, cmdFunc, cmdBufferIndex>>

\* Wrong on purpose: the word that tells a full FIFO from an empty one is used.
PollSpaceRpWhole ==
  /\ pc = "spaceRp" /\ status # "writing"
  /\ cmdFault' = (cmdFault \/ CmdFaultBits(RegCmdRead))
  /\ GotSpace(Mask(RegCmdRead - seen))
  /\ UNCHANGED <<device, supportCmdB, status, cmdWp, cmdFunc, cmdBufferIndex>>

(* EVE_Cmd_space without CMDB: the write pointer, then the read pointer.   *)
PollSpaceWp ==
  /\ pc = "space" /\ status # "writing" /\ ~supportCmdB
  /\ cmdWp' = regWp /\ seen' = regWp
  /\ pc' = "spaceRp"
  /\ UNCHANGED <<device, supportCmdB, status, cmdSpace, cmdFunc, cmdFault,
                 cmdWaiting, cmdBufferIndex, call, firstPoll, ret, moved>>

PollSpaceRp ==
  /\ pc = "spaceRp" /\ status # "writing"
  /\ cmdFault' = (cmdFault \/ CmdFaultBits(RegCmdRead))
  /\ GotSpace(Mask(RegCmdRead - seen - 4))
  /\ UNCHANGED <<device, supportCmdB, status, cmdWp, cmdFunc, cmdBufferIndex>>

(* waitFlush and waitRead32: the read pointer, then the write pointer.     *)
PollFlushRp ==
  /\ pc = "flushRp" /\ status # "writing"
  /\ cmdFault' = (cmdFault \/ CmdFaultBits(RegCmdRead))
  /\ seen' = RegCmdRead
  /\ pc' = "flushWp"
  /\ UNCHANGED <<device, supportCmdB, status, cmdWp, cmdSpace, cmdFunc,
                 cmdWaiting, cmdBufferIndex, call, firstPoll, ret, moved>>

\* Wrong on purpose: the last word is taken for executed.
FlushedButOne ==
  /\ Mask(regWp - seen) \in {0, 4}
  /\ cmdSpace' = FifoSize - 4 /\ moved' = 0
  /\ cmdWaiting' = FALSE
  /\ \/ Return("true")
     \/ call.op = "read32" /\ Return("absent")

(* The FIFO was empty: the whole FIFO is free, whatever the cache said.    *)
Flushed ==
  /\ seen = regWp
  /\ cmdSpace' = FifoSize - 4 /\ moved' = 0
  /\ cmdWaiting' = FALSE
  /\ \/ Return("true")
     \/ call.op = "read32" /\ Return("absent")

\* Wrong on purpose: a failed wait leaves the cache as if the FIFO had drained.
FlushFailedAsEmpty ==
  /\ seen # regWp
  /\ cmdSpace' = FifoSize - 4 /\ moved' = 0
  /\ cmdWaiting' = FALSE
  /\ IF CmdFaultBits(seen) THEN Return("fault") ELSE Return("abort")

\* Wrong on purpose: the loop goes on after a fault.
FlushAgainOnFault ==
  /\ seen # regWp
  /\ pc' = "flushRp" /\ seen' = 0
  /\ UNCHANGED <<cmdSpace, cmdWaiting, call, ret, moved, firstPoll>>

(* handleWait failed: the fault bits were set, or CbCmdWait said no.       *)
FlushFailed ==
  /\ seen # regWp
  /\ cmdSpace' = Mask(seen - regWp - 4) /\ moved' = 0
  /\ cmdWaiting' = FALSE
  /\ IF CmdFaultBits(seen) THEN Return("fault") ELSE Return("abort")

FlushAgain ==
  /\ seen # regWp /\ ~CmdFaultBits(seen)
  /\ pc' = "flushRp" /\ seen' = 0
  /\ UNCHANGED <<cmdSpace, cmdWaiting, call, ret, moved, firstPoll>>

(* waitRead32 finds the value the coprocessor was asked to write.          *)
ReadFound ==
  /\ call.op = "read32" /\ seen # regWp
  /\ cmdWaiting' = FALSE /\ Return("true")
  /\ UNCHANGED <<cmdSpace, moved>>

PollFlushWp ==
  /\ pc = "flushWp" /\ status # "writing"
  /\ cmdWp' = IF supportCmdB THEN cmdWp ELSE regWp
  /\ IF call.op = "busy"
     THEN Return("true") /\ UNCHANGED <<cmdSpace, cmdWaiting, moved>>
     ELSE Flushed \/ FlushFailed \/ FlushAgain \/ ReadFound
  /\ UNCHANGED <<device, supportCmdB, status, cmdFunc, cmdFault,
                 cmdBufferIndex>>

Poll == PollClose \/ PollCmdbSpace \/ PollSpaceWp \/ PollSpaceRp
          \/ PollFlushRp \/ PollFlushWp

----------------------------------------------------------------------------
(* Writing.                                                                *)

(* EVE_Cmd_wrMem, wrProgMem and wrString; EVE_Cmd_wr32 is a write of four  *)
(* bytes through the same steps.                                           *)
WriteCall(op, size) ==
  /\ pc = "ready" /\ cmdBufferIndex = 0 /\ MayWrite
  /\ Begin(op, size, "need")
  /\ UNCHANGED <<device, hal, seen, firstPoll, moved>>

Wr32         == WriteCall("mem", 4)
WrMem(n)     == WriteCall("mem", n)
WrString(n)  == WriteCall("string", n)

(* EVE_Cmd_wr8 and wr16 collect four bytes before they write.              *)
WrSmall(n) ==
  /\ pc = "ready" /\ cmdBufferIndex + n <= 4 /\ MayWrite
  /\ cmdBufferIndex' = (cmdBufferIndex + n) % 4
  /\ IF cmdBufferIndex + n = 4
     THEN Begin("mem", 4, "need")
     ELSE ret' = "true" /\ UNCHANGED <<pc, call>>
  /\ UNCHANGED <<device, supportCmdB, status, cmdWp, cmdSpace, cmdFunc,
                 cmdFault, cmdWaiting, seen, firstPoll, moved>>

(* The top of wrBuffer's loop: is the space already known to be enough?    *)
Reserve ==
  /\ pc = "need"
  /\ IF cmdSpace < Request
     THEN StartWait("space")
     ELSE pc' = "put" /\ UNCHANGED <<cmdWaiting, firstPoll>>
  /\ UNCHANGED <<device, supportCmdB, status, cmdWp, cmdSpace, cmdFunc,
                 cmdFault, cmdBufferIndex, call, seen, ret, moved>>

(* A string ends at its terminator, anywhere up to maxLength.              *)
Chunks ==
  IF call.op = "string"
  THEN {Align4(n + 1) : n \in 0 .. call.size}
  ELSE {Align4(Smaller(call.size - call.done, cmdSpace))}

AfterChunk(done, size) ==
  IF done < size
  THEN pc' = "need" /\ call' = [call EXCEPT !.done = done]
       /\ UNCHANGED <<ret, seen, firstPoll>>
  ELSE Return(IF done = size THEN "true" ELSE "miscount")

(* The assertion that a chunk and its padding fit the cached space.        *)
AssertFails(n) ==
  /\ AssertTraps /\ n > cmdSpace
  /\ pc' = "trap"
  /\ UNCHANGED <<ram, regWp, status, cmdWp, cmdSpace, call, seen, firstPoll, ret>>

(* One chunk goes into the FIFO; outside a function it is published next.  *)
PutChunk(n) ==
  /\ ~AssertTraps \/ n <= cmdSpace
  /\ \E ws \in [0 .. n \div 4 - 1 -> Words] :
       ram' = [a \in WordAddr |->
                 IF Mask(a - HostWp) < n THEN ws[Mask(a - HostWp) \div 4] ELSE ram[a]]
  /\ status' = IF cmdFunc THEN "writing" ELSE "opened"
  /\ cmdSpace' = (cmdSpace - n) % Uint16
  /\ IF supportCmdB
     THEN regWp' = Mask(regWp + n) /\ UNCHANGED cmdWp
     ELSE cmdWp' = Mask(cmdWp + n) /\ UNCHANGED regWp
  /\ LET done == call.done + n
         size == IF call.op = "string" THEN done ELSE call.size
     IN  IF supportCmdB \/ cmdFunc
         THEN AfterChunk(done, size)
         ELSE /\ pc' = "publish" /\ UNCHANGED <<ret, seen, firstPoll>>
              /\ call' = [call EXCEPT !.done = done, !.size = size]

Put ==
  /\ pc = "put"
  /\ \E n \in Chunks : AssertFails(n) \/ PutChunk(n)
  /\ UNCHANGED <<rp, fault, supportCmdB, cmdFunc, cmdFault, cmdWaiting,
                 cmdBufferIndex, moved>>

Publish ==
  /\ pc = "publish"
  /\ regWp' = cmdWp
  /\ AfterChunk(call.done, call.size)
  /\ UNCHANGED <<ram, rp, fault, hal, moved>>

----------------------------------------------------------------------------
(* The other calls.                                                        *)

(* waitSpace up to its loop: a size the FIFO can never have free is        *)
(* refused, and the cached space is only read back when it is not enough.  *)
SpaceCall(op, size, granted) ==
  /\ pc = "ready" /\ MayWrite
  /\ \/ /\ size > FifoSize - 4
        /\ Return("refused") /\ UNCHANGED cmdWaiting
     \/ /\ size <= FifoSize - 4 /\ (cmdSpace < size \/ size = 0)
        /\ call' = [op |-> op, size |-> size, done |-> 0] /\ ret' = "none"
        /\ StartWait("space") /\ UNCHANGED seen
     \/ /\ size \in 1 .. FifoSize - 4 /\ cmdSpace >= size /\ CmdFaultBits(cmdSpace)
        /\ Return("fault") /\ UNCHANGED cmdWaiting
     \/ /\ size \in 1 .. FifoSize - 4 /\ cmdSpace >= size /\ ~CmdFaultBits(cmdSpace)
        /\ granted /\ UNCHANGED cmdWaiting
  /\ UNCHANGED <<device, supportCmdB, status, cmdWp, cmdSpace, cmdFunc,
                 cmdFault, cmdBufferIndex, moved>>

WaitSpace(n) == SpaceCall("space", n, Return("true"))

MoveWp(n) == cmdBufferIndex = 0 /\ SpaceCall("moveWp", n, Begin("moveWp", n, "move") /\ UNCHANGED <<seen, firstPoll>>)

\* Wrong on purpose: the moved write pointer runs past the end of the FIFO.
MoveUnmasked ==
  /\ pc = "move"
  /\ LET prevWp == IF supportCmdB THEN regWp
                   ELSE IF status = "writing" THEN cmdWp ELSE regWp
         wp     == prevWp + call.size
     IN  regWp' = wp /\ cmdWp' = IF supportCmdB THEN cmdWp ELSE wp
  /\ status' = "opened"
  /\ moved' = Smaller(moved + call.size, FifoSize)
  /\ Return("true")
  /\ UNCHANGED <<ram, rp, fault, supportCmdB, cmdSpace, cmdFunc, cmdFault,
                 cmdWaiting, cmdBufferIndex>>

(* EVE_Cmd_wp publishes and reads back, then REG_CMD_WRITE moves on.  The  *)
(* cached space is left as it was.                                         *)
Move ==
  /\ pc = "move"
  /\ LET prevWp == IF supportCmdB THEN regWp
                   ELSE IF status = "writing" THEN cmdWp ELSE regWp
         wp     == Mask(prevWp + call.size)
     IN  regWp' = wp /\ cmdWp' = IF supportCmdB THEN cmdWp ELSE wp
  /\ status' = "opened"
  /\ moved' = Smaller(moved + call.size, FifoSize)
  /\ Return("true")
  /\ UNCHANGED <<ram, rp, fault, supportCmdB, cmdSpace, cmdFunc, cmdFault,
                 cmdWaiting, cmdBufferIndex>>

(* EVE_Cmd_space, and a caller comparing EVE_Cmd_rp with EVE_Cmd_wp.       *)
Query ==
  /\ pc = "ready"
  /\ \/ Begin("query", 0, "space")
     \/ Begin("busy", 0, "flushRp")
  /\ UNCHANGED <<device, hal, seen, firstPoll, moved>>

WaitFlush(op) ==
  /\ pc = "ready"
  /\ call' = [op |-> op, size |-> 0, done |-> 0] /\ ret' = "none"
  /\ StartWait("flushRp")
  /\ UNCHANGED <<device, supportCmdB, status, cmdWp, cmdSpace, cmdFunc,
                 cmdFault, cmdBufferIndex, seen, moved>>

\* Wrong on purpose: the sticky fault flag survives the reset.
ResetKeepsFault ==
  /\ pc = "ready" /\ ~cmdFunc /\ cmdBufferIndex = 0
  /\ rp' = 0 /\ regWp' = 0 /\ fault' = FALSE
  /\ call' = [op |-> "reset", size |-> 0, done |-> 0] /\ ret' = "none"
  /\ StartWait("flushRp")
  /\ UNCHANGED <<ram, supportCmdB, status, cmdWp, cmdSpace, cmdFunc, cmdFault,
                 cmdBufferIndex, seen, moved>>

(* EVE_Util_resetCoprocessor up to "Refresh fifo"; what it writes after    *)
(* that are ordinary calls.                                                *)
ResetCoprocessor ==
  /\ pc = "ready" /\ ~cmdFunc /\ cmdBufferIndex = 0
  /\ rp' = 0 /\ regWp' = 0 /\ fault' = FALSE
  /\ cmdFault' = FALSE
  /\ call' = [op |-> "reset", size |-> 0, done |-> 0] /\ ret' = "none"
  /\ StartWait("flushRp")
  /\ UNCHANGED <<ram, supportCmdB, status, cmdWp, cmdSpace, cmdFunc,
                 cmdBufferIndex, seen, moved>>

----------------------------------------------------------------------------
Call ==
  \/ StartFunc \/ EndFunc
  \/ Wr32
  \/ \E n \in MemSizes : WrMem(n)
  \/ \E n \in StringSizes : WrString(n)
  \/ \E n \in SmallSizes : WrSmall(n)
  \/ \E n \in SpaceSizes : WaitSpace(n)
  \/ \E n \in MoveSizes : MoveWp(n)
  \/ Query
  \/ \E op \in {"flush", "read32"} : WaitFlush(op)
  \/ ResetCoprocessor

(* The steps of the call in progress.                                      *)
Continue == Reserve \/ Put \/ Publish \/ Move \/ Poll

Next == Call \/ Continue \/ Consume \/ Crash

(* The host thread runs, and a coprocessor that has not faulted executes.  *)
Fairness == WF_vars(Continue) /\ WF_vars(Consume)

Spec == Init /\ [][Next]_vars /\ Fairness

----------------------------------------------------------------------------
TypeOK ==
  /\ ram \in [WordAddr -> Words]
  /\ rp \in WordAddr /\ regWp \in WordAddr /\ cmdWp \in WordAddr
  /\ fault \in BOOLEAN /\ supportCmdB \in BOOLEAN
  /\ status \in {"opened", "writing"}
  /\ cmdSpace \in 0 .. Uint16 - 1
  /\ cmdFunc \in BOOLEAN /\ cmdFault \in BOOLEAN /\ cmdWaiting \in BOOLEAN
  /\ cmdBufferIndex \in 0 .. 3
  /\ pc \in Pcs /\ ret \in Returns /\ firstPoll \in BOOLEAN
  /\ call \in [op : Ops, size : Nat, done : Nat]
  /\ seen \in 0 .. FifoSize - 1
  /\ moved \in 0 .. FifoSize

(* The cached free space never promises more than there is: the words the  *)
(* coprocessor still has to read and the space the host believes in fit in *)
(* the FIFO together, however far the coprocessor has got meanwhile        *)
(* (EVE_Cmd.c: CmdSpace is only refreshed when it runs out).               *)
SpaceSound ==
  ~fault /\ call.op # "reset" => cmdSpace + Used <= FifoSize - 4 + moved

(* Nothing written is forgotten: with the transfer closed, REG_CMD_WRITE   *)
(* equals the host's own write pointer, so EVE_Cmd_wp, which overwrites    *)
(* the latter by the former, loses no word.                                *)
ClosedIsPublished ==
  ~supportCmdB /\ status = "opened" /\ pc # "publish" /\ call.op # "reset"
    => regWp = cmdWp

(* A word the coprocessor has not read is never overwritten, nor skipped   *)
(* because the write pointer caught up with the read pointer (EVE_Cmd.h:   *)
(* writes wait if there is not enough space in the command buffer).        *)
UnreadKept ==
  [][~fault /\ "reset" \notin {call.op, call'.op} =>
       \A a \in Unread : ram'[a] = ram[a] /\ (a \in Unread' \/ rp' # rp)]_vars

(* A call that reports a coprocessor fault, and a set CmdFault, never      *)
(* raise a false alarm, even right after a reset.                          *)
FaultIsReal == (ret = "fault" \/ cmdFault) => fault

(* waitFlush returns true only once everything written has been executed,  *)
(* and then the cached space is exact.                                     *)
FlushIsEmpty ==
  [][call.op = "flush" /\ ret' = "true" => Used' = 0 /\ cmdSpace' = FifoSize - 4]_vars

(* Every call returns: a wait, also one inside a function whose words are  *)
(* not published yet, ends because the coprocessor drains or faults.       *)
CallsReturn == pc \notin {"ready", "trap"} ~> pc \in {"ready", "trap"}

(* The queue EVE_Cmd promises: in order, once, bounded, lost only to a     *)
(* fault or to a call of EVE_Util_resetCoprocessor.                        *)
Queue == INSTANCE CmdQueue WITH
  Capacity <- FifoSize \div 4 - 1,
  pending  <- IF fault THEN <<>>
              ELSE [i \in 1 .. Used \div 4 |-> ram[Mask(rp + 4 * (i - 1))]],
  visible  <- IF fault THEN 0 ELSE Mask(regWp - rp) \div 4,
  halted   <- fault

Restarting == pc = "ready" /\ call'.op = "reset"

QueueSpec == Queue!Spec /\ [][Queue!Serve \/ Restarting]_(Queue!vars)
=============================================================================
