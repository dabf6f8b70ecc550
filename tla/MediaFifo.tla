----------------------------- MODULE MediaFifo -----------------------------
(***************************************************************************)
(* The media FIFO of EVE_MediaFifo.c and the file loader that feeds it     *)
(* (EVE_Util_loadMediaFile): a second ring buffer, in RAM_G, from which a  *)
(* coprocessor command reads its data.  The host waits on it and on the    *)
(* command FIFO at once, since the command that empties it may end first.  *)
(*                                                                         *)
(* The callers are those of Esd_CoWidget.c: "frame" feeds one video frame  *)
(* per CMD_VIDEOFRAME and resumes where it stopped (PlayBgVideo,           *)
(* LoadBgVideoFrame), "video" feeds a whole file (PlayVideoFile), and      *)
(* "direct" calls EVE_MediaFifo_wrMem itself.  A word of data is           *)
(* represented by its position in the stream.                              *)
(***************************************************************************)
EXTENDS Integers, Sequences

CONSTANTS
  Size,        \* MediaFifoSize
  FileLen,     \* the bytes of the file or stream that is fed
  Callers,     \* which of "frame", "video" and "direct" there are
  WriteSizes,  \* the sizes passed to EVE_MediaFifo_wrMem by "direct"
  Needs,       \* the words one media command may read
  CmdSlots,    \* the commands the command FIFO holds
  MayAbort     \* CbCmdWait may end a wait

ASSUME SizeAssumption ==
  /\ Size \in Nat /\ Size >= 16 /\ Size % 4 = 0
  /\ FileLen \in Nat \ {0}
  /\ Callers \subseteq {"frame", "video", "direct"}
  /\ WriteSizes \subseteq {n \in Nat \ {0} : n % 4 = 0}
  /\ Needs \subseteq Nat
  /\ CmdSlots \in Nat /\ CmdSlots >= 2
  /\ MayAbort \in BOOLEAN

VARIABLES
  \* the coprocessor
  cmds,       \* the commands in its FIFO: "fifo", "media" or "other"
  need,       \* words the running media command still reads, or NotRunning
  fault,      \* it has faulted
  ram,        \* RAM_G from MediaFifoAddress on
  mrp, mwp,   \* REG_MEDIAFIFO_READ, REG_MEDIAFIFO_WRITE
  taken,      \* the bytes of the stream it has read since CMD_MEDIAFIFO
  \* EVE_HalContext
  fifoSet,    \* MediaFifoSize is not zero
  cmdFault,   \* CmdFault
  handle,     \* LoadFileHandle is not NULL
  playing,    \* Esd_Context.BgVideoInfo is not NULL
  filePos,    \* where the next fread starts ("direct": the next byte to write)
  remaining,  \* of loadMediaFile, kept in LoadFileRemaining between its calls
  \* the host thread
  caller, pc,
  ptr,        \* transfered is not NULL
  size,       \* the bytes of the buffer EVE_MediaFifo_wrMem was given
  base,       \* the position of its first byte
  done,       \* how many of them are written
  space,      \* what EVE_MediaFifo_space returned last
  sent        \* bytes of the stream published since CMD_MEDIAFIFO

coproc == <<cmds, need, fault, mrp, taken>>
stream == <<ram, mwp, sent>>
hal    == <<fifoSet, cmdFault, handle, playing>>
file   == <<filePos, remaining>>
buffer == <<size, base, done>>
call   == <<caller, pc, ptr, space>>
vars   == <<coproc, stream, hal, file, buffer, call>>

----------------------------------------------------------------------------
NotRunning  == -1
Nothing     == -1
WordAddr    == {a \in 0 .. Size - 1 : a % 4 = 0}
Align4(n)   == 4 * ((n + 3) \div 4)
Lesser(a, b) == IF a < b THEN a ELSE b
Uint16(n)   == n % 65536

HalfSize == 4 * (Size \div 8) - 4      \* ((MediaFifoSize >> 3) << 2) - 4
Whole    == size <= Size - 4           \* the buffer is written at once

(* The bytes written to the FIFO next.                                     *)
Chunk == IF Whole THEN size ELSE Lesser(HalfSize, size - done)

(* EVE_MediaFifo_space.                                                    *)
Space == IF mrp > mwp THEN mrp - mwp - 4 ELSE mrp + Size - mwp - 4

WantedSome == 4                                        \* Wrong on purpose

(* The space the current wait asks for.                                    *)
Wanted == IF pc \in {"drain", "drained"} THEN Size - 4 ELSE Chunk

Used    == (mwp - mrp) % Size
CmdIdle == ~fault /\ cmds = <<>>       \* REG_CMD_READ = REG_CMD_WRITE
CmdFull == Len(cmds) = CmdSlots

----------------------------------------------------------------------------
Init ==
  /\ cmds = <<>> /\ need = NotRunning /\ fault = FALSE
  /\ ram = [a \in WordAddr |-> Nothing]
  /\ mrp = 0 /\ mwp = 0 /\ taken = 0
  /\ fifoSet = FALSE /\ cmdFault = FALSE /\ handle = FALSE /\ playing = FALSE
  /\ filePos = 0 /\ remaining = 0
  /\ caller \in Callers /\ pc = "ready" /\ ptr = FALSE
  /\ size = 0 /\ base = 0 /\ done = 0 /\ space = 0 /\ sent = 0

----------------------------------------------------------------------------
(* The coprocessor (hardware, as EVE_MediaFifo.c uses it).                 *)

Running(cmd) == ~fault /\ cmds # <<>> /\ cmd = Head(cmds)

HostKept == <<hal, file, buffer, call>>

ExecMediaFifo ==
  /\ Running("fifo")
  /\ cmds' = Tail(cmds)
  /\ mrp' = 0 /\ mwp' = 0 /\ taken' = 0 /\ sent' = 0
  /\ UNCHANGED <<need, fault, ram, HostKept>>

ExecOther ==
  /\ Running("other")
  /\ cmds' = Tail(cmds)
  /\ UNCHANGED <<need, fault, mrp, taken, stream, HostKept>>

MediaStart ==
  /\ Running("media") /\ need = NotRunning
  /\ need' \in Needs
  /\ UNCHANGED <<cmds, fault, mrp, taken, stream, HostKept>>

MediaRead ==
  /\ Running("media") /\ need > 0 /\ mrp # mwp
  /\ need' = need - 1
  /\ mrp' = (mrp + 4) % Size
  /\ taken' = taken + 4
  /\ UNCHANGED <<cmds, fault, ram, mwp, sent, HostKept>>

MediaEnd ==
  /\ Running("media") /\ need = 0
  /\ cmds' = Tail(cmds) /\ need' = NotRunning
  /\ UNCHANGED <<fault, mrp, taken, stream, HostKept>>

Crash ==
  /\ ~fault /\ cmds # <<>>
  /\ fault' = TRUE
  /\ UNCHANGED <<cmds, need, mrp, taken, stream, HostKept>>

Coprocessor == ExecMediaFifo \/ ExecOther \/ MediaStart \/ MediaRead \/ MediaEnd

----------------------------------------------------------------------------
(* EVE_MediaFifo_set, up to its wait for the command FIFO to empty, for a  *)
(* FIFO that is closed: its address differs and the command is always      *)
(* sent.  A file played during a background video finds it set and is left *)
(* out (~playing), as is an abort while CMD_MEDIAFIFO waits for space.     *)
Set ==
  /\ pc = "ready" /\ ~fifoSet /\ ~playing /\ ~cmdFault /\ ~fault /\ ~CmdFull
  /\ caller' \in Callers
  /\ cmds' = Append(cmds, "fifo")
  /\ pc' = "set"
  /\ UNCHANGED <<need, fault, mrp, taken, stream, hal, file, buffer, ptr, space>>

(* It returns; PlayVideoFile does not look at what.                        *)
SetReturn(ok) ==
  /\ fifoSet' = ok
  /\ filePos' = 0
  /\ ptr' = (caller = "frame")
  /\ pc' = IF caller = "direct" \/ (caller = "frame" /\ ~ok) THEN "ready" ELSE "queue"
  /\ UNCHANGED <<coproc, stream, handle, playing, remaining, buffer, caller, space>>

SetWait ==
  /\ pc = "set"
  /\ \/ CmdIdle /\ SetReturn(TRUE) /\ UNCHANGED cmdFault
     \/ fault /\ SetReturn(FALSE) /\ cmdFault' = TRUE

(* CbCmdWait ends the wait.                                                *)
SetAborted ==
  /\ pc = "set" /\ ~fault /\ ~CmdIdle
  /\ SetReturn(FALSE)
  /\ UNCHANGED cmdFault

(* The command that is going to read from the media FIFO.                  *)
QueueMedia ==
  /\ pc = "queue"
  /\ \/ ~fault /\ ~CmdFull /\ cmds' = Append(cmds, "media") /\ UNCHANGED cmdFault
     \/ fault /\ cmdFault' = TRUE /\ UNCHANGED cmds
  /\ pc' = "load"
  /\ UNCHANGED <<need, fault, mrp, taken, stream, fifoSet, handle, playing,
                 file, buffer, caller, ptr, space>>

(* CbCmdWait ends its wait for space: it is lost, and the feed goes on.    *)
QueueAborted ==
  /\ pc = "queue" /\ ~fault /\ CmdFull
  /\ pc' = "load"
  /\ UNCHANGED <<coproc, stream, hal, file, buffer, caller, ptr, space>>

(* Commands the application writes between two feeds.                      *)
QueueOther ==
  /\ pc = "ready" /\ ~fault /\ ~CmdFull
  /\ \E cmd \in {"other", "media"} :
       /\ cmd = "media" => caller = "direct" /\ fifoSet
       /\ cmds' = Append(cmds, cmd)
  /\ UNCHANGED <<need, fault, mrp, taken, stream, HostKept>>

----------------------------------------------------------------------------
(* Esd_CoWidget_StopBgVideo: closes the file and the media FIFO.           *)
Stop == handle' = FALSE /\ playing' = FALSE /\ fifoSet' = FALSE

(* Esd_CoWidget_LoadBgVideoFrame, as the application renders a frame.      *)
NextFrame ==
  /\ pc = "ready" /\ playing
  /\ IF cmdFault \/ ~fifoSet
       THEN Stop /\ UNCHANGED pc
       ELSE pc' = "queue" /\ UNCHANGED <<handle, playing, fifoSet>>
  /\ UNCHANGED <<coproc, stream, cmdFault, file, buffer, caller, ptr, space>>

(* How loadMediaFile returns to PlayVideoFile, PlayBgVideo or              *)
(* LoadBgVideoFrame, which stops when it fails or no file is left.         *)
LoadReturn(ok) ==
  IF ok /\ caller = "frame"
    THEN /\ pc' = "ready"
         /\ IF playing /\ ~handle
              THEN Stop
              ELSE playing' = TRUE /\ UNCHANGED <<handle, fifoSet>>
    ELSE pc' = "check" /\ Stop

(* EVE_Util_loadMediaFile up to its loop.  Without a media FIFO its block  *)
(* size wraps around, and the buffer it takes from the stack overruns it.  *)
(* LoadBgVideoFrame gives no name: only a file kept open can be read.      *)
LoadStart ==
  /\ pc = "load"
  /\ \/ /\ ~fifoSet
        /\ pc' = "overrun"
        /\ UNCHANGED <<hal, file>>
     \/ /\ fifoSet /\ ~cmdFault /\ (playing => handle)
        /\ handle' = ptr
        /\ IF handle THEN UNCHANGED file
                     ELSE filePos' = 0 /\ remaining' = FileLen
        /\ pc' = "block"
        /\ UNCHANGED <<fifoSet, cmdFault, playing>>
     \/ /\ fifoSet /\ (cmdFault \/ ~handle)
        /\ LoadReturn(FALSE)
        /\ UNCHANGED <<cmdFault, file>>
  /\ UNCHANGED <<coproc, stream, buffer, caller, ptr, space>>

(* One turn of its loop: a block is read and passed to wrMem, padded.      *)
LoadBlock ==
  /\ pc = "block" /\ remaining > 0
  /\ LET blocklen == Uint16(Lesser(HalfSize, remaining)) IN
       /\ blocklen > 0
       /\ filePos' = filePos + blocklen
       /\ remaining' = remaining - blocklen
       /\ size' = Uint16(Align4(blocklen))
  /\ base' = filePos /\ done' = 0
  /\ pc' = "poll"
  /\ UNCHANGED <<coproc, stream, hal, caller, ptr, space>>

(* The loop ends: all is read, fread returned nothing, or wrMem said so.   *)
LoadEnd ==
  /\ pc \in {"block", "loaded"}
  /\ handle' = (handle /\ remaining > 0)
  /\ pc' = IF ptr THEN "flush" ELSE "drain"
  /\ UNCHANGED <<coproc, stream, fifoSet, cmdFault, playing, file, buffer, caller, ptr, space>>

(* Its last statement, if transfered is set: EVE_Cmd_waitFlush.            *)
LoadFlush ==
  /\ pc = "flush"
  /\ CmdIdle \/ fault
  /\ LoadReturn(CmdIdle)
  /\ cmdFault' = fault
  /\ UNCHANGED <<coproc, stream, file, buffer, caller, ptr, space>>

LoadFlushAborted ==
  /\ pc = "flush" /\ ~fault /\ ~CmdIdle
  /\ LoadReturn(FALSE)
  /\ UNCHANGED <<coproc, stream, cmdFault, file, buffer, caller, ptr, space>>

(* The callers, after a failure or a whole video: if the command is still  *)
(* there it is given up.                                                   *)
Check ==
  /\ pc = "check"
  /\ pc' = IF CmdIdle THEN "ready" ELSE "force"
  /\ UNCHANGED <<coproc, stream, hal, file, buffer, caller, ptr, space>>

(* EVE_Util_forceFault: EVE_Cmd_waitSpace(0) is zero when the command FIFO *)
(* is full as well as after a fault.                                       *)
ForceFault ==
  /\ pc = "force"
  /\ fault' = (fault \/ ~CmdFull)
  /\ cmdFault' = fault'
  /\ pc' = "ready"
  /\ UNCHANGED <<cmds, need, mrp, taken, stream, fifoSet, handle, playing,
                 file, buffer, caller, ptr, space>>

----------------------------------------------------------------------------
(* EVE_MediaFifo_wrMem, called directly with a part of a longer stream.    *)
Write ==
  /\ pc = "ready" /\ caller = "direct" /\ fifoSet
  /\ size' \in {n \in WriteSizes : filePos + n <= FileLen}
  /\ ptr' \in BOOLEAN
  /\ base' = filePos /\ done' = 0
  /\ pc' = "poll"
  /\ UNCHANGED <<coproc, stream, hal, file, caller, space>>

SeekBackOnly ==                                        \* Wrong on purpose
  filePos' = filePos - (size - done) /\ UNCHANGED remaining

(* What was read from the file and not written will be read again.         *)
SeekBack ==
  /\ filePos' = filePos - (size - done)
  /\ remaining' = remaining + (size - done)

(* How wrMem returns, done being *transfered.  Without transfered, the     *)
(* caller of a failed write cannot tell how much was written.              *)
WrMemReturn(ok) ==
  \/ /\ caller = "direct"
     /\ filePos' = filePos + done
     /\ fifoSet' = (ok \/ ptr)
     /\ pc' = "ready"
     /\ UNCHANGED remaining
  \/ /\ caller # "direct"
     /\ pc' = IF ok /\ done = size THEN "block" ELSE "loaded"
     /\ IF ptr /\ done < size THEN SeekBack ELSE UNCHANGED file
     /\ UNCHANGED fifoSet

(* EVE_MediaFifo_waitSpace returns zero to wrMem, or to loadMediaFile.     *)
WaitFails ==
  IF pc \in {"drain", "drained"}
    THEN LoadReturn(FALSE) /\ UNCHANGED file
    ELSE WrMemReturn(FALSE) /\ UNCHANGED <<handle, playing>>

(* One turn of its loop reads the media FIFO's registers, lets CbCmdWait   *)
(* end the wait, then reads the command FIFO's space.                      *)
PollSpace ==
  /\ pc \in {"poll", "drain"}
  /\ space' = Space
  /\ pc' = IF pc = "poll" THEN "polled" ELSE "drained"
  /\ UNCHANGED <<coproc, stream, hal, file, buffer, caller, ptr>>

PollAborted ==
  /\ pc \in {"poll", "drain"}
  /\ WaitFails
  /\ UNCHANGED <<coproc, stream, cmdFault, buffer, caller, ptr, space>>

PollIgnoresEnd == fault \/ CmdFull                      \* Wrong on purpose

(* A command FIFO without space is taken for a fault.                      *)
PollFails == fault \/ CmdFull \/ (ptr /\ pc = "polled" /\ cmds = <<>>)

PollCmd ==
  /\ pc \in {"polled", "drained"}
  /\ cmdFault' = fault
  /\ \/ PollFails /\ WaitFails
     \/ /\ ~PollFails
        /\ IF space < Wanted
             THEN /\ pc' = IF pc = "polled" THEN "poll" ELSE "drain"
                  /\ UNCHANGED <<handle, playing, fifoSet, file>>
             ELSE IF pc = "polled"
                    THEN pc' = "put" /\ UNCHANGED <<handle, playing, fifoSet, file>>
                    ELSE LoadReturn(TRUE) /\ UNCHANGED file
  /\ UNCHANGED <<coproc, stream, buffer, caller, ptr, space>>

CopiedFromStart(from) ==                               \* Wrong on purpose
  [a \in WordAddr |->
     LET i == (a - mwp) % Size
     IN IF i >= Chunk THEN ram[a] ELSE IF a < mwp THEN from + a ELSE from + i]

(* The data, in two parts if it wraps around.                              *)
Copied(from) ==
  [a \in WordAddr |->
     LET i == (a - mwp) % Size
     IN IF i < Chunk THEN from + i ELSE ram[a]]

Put ==
  /\ pc = "put"
  /\ ram' = Copied(base + done)
  /\ pc' = "publish"
  /\ UNCHANGED <<coproc, mwp, sent, hal, file, buffer, caller, ptr, space>>

AdvancedLate(wp, n) == IF wp + n > Size THEN wp + n - Size ELSE wp + n
                                                       \* Wrong on purpose
Advanced(wp, n) == IF wp + n >= Size THEN wp + n - Size ELSE wp + n

(* REG_MEDIAFIFO_WRITE is written.                                         *)
Publish ==
  /\ pc = "publish"
  /\ mwp' = Advanced(mwp, Chunk)
  /\ sent' = sent + Chunk
  /\ done' = done + Chunk
  /\ pc' = IF Whole \/ (~ptr /\ done' = size) THEN "written"
           ELSE IF ptr THEN "early" ELSE "poll"
  /\ UNCHANGED <<coproc, ram, hal, file, size, base, caller, ptr, space>>

(* A long write stops when the command that reads it has ended.            *)
EarlyExit ==
  /\ pc = "early"
  /\ pc' = IF CmdIdle \/ done = size THEN "written" ELSE "poll"
  /\ UNCHANGED <<coproc, stream, hal, file, buffer, caller, ptr, space>>

Written ==
  /\ pc = "written"
  /\ WrMemReturn(TRUE)
  /\ UNCHANGED <<coproc, stream, cmdFault, handle, playing, buffer, caller, ptr, space>>

----------------------------------------------------------------------------
(* EVE_Util_resetCoprocessor, once a fault is known (Esd_WaitSwap).        *)
ResetCoprocessor ==
  /\ pc = "ready" /\ cmdFault
  /\ fault' = FALSE /\ cmdFault' = FALSE
  /\ cmds' = <<>> /\ need' = NotRunning
  /\ fifoSet' = FALSE
  /\ UNCHANGED <<mrp, taken, stream, handle, playing, file, buffer, call>>

(* Between feeds a direct caller closes its FIFO, and the wait for the     *)
(* swap finds a fault.                                                     *)
Close ==
  /\ pc = "ready" /\ caller = "direct" /\ fifoSet
  /\ fifoSet' = FALSE
  /\ UNCHANGED <<coproc, stream, cmdFault, handle, playing, file, buffer, call>>

NoticeFault ==
  /\ pc = "ready" /\ fault /\ ~cmdFault
  /\ cmdFault' = TRUE
  /\ UNCHANGED <<coproc, stream, fifoSet, handle, playing, file, buffer, call>>

App == Set \/ NextFrame \/ Write \/ QueueOther \/ Close

Host ==
  \/ SetWait \/ QueueMedia \/ LoadStart \/ LoadBlock \/ LoadEnd \/ LoadFlush
  \/ Check \/ ForceFault \/ PollSpace \/ PollCmd \/ Put \/ Publish \/ EarlyExit
  \/ Written \/ ResetCoprocessor \/ NoticeFault

Abort == MayAbort /\ (SetAborted \/ QueueAborted \/ LoadFlushAborted \/ PollAborted)

Next == App \/ Host \/ Abort \/ Coprocessor \/ Crash

(* The coprocessor works while it has work, the host runs while a call is  *)
(* in progress; the application calls, the user aborts and a fault happens *)
(* whenever they do.                                                       *)
Fairness == WF_vars(Coprocessor) /\ WF_vars(Host)

Spec == Init /\ [][Next]_vars /\ Fairness

----------------------------------------------------------------------------
Pcs == {"ready", "set", "queue", "load", "block", "poll", "polled", "put",
        "publish", "early", "written", "loaded", "flush", "drain", "drained",
        "check", "force", "overrun"}

(* The types of the variables; in particular both pointers of the media    *)
(* FIFO stay inside it, as the assertions of EVE_MediaFifo_set and _wrMem  *)
(* require.                                                                *)
TypeOK ==
  /\ cmds \in Seq({"fifo", "media", "other"}) /\ Len(cmds) <= CmdSlots
  /\ need \in Needs \cup Nat \cup {NotRunning} /\ fault \in BOOLEAN
  /\ DOMAIN ram = WordAddr
  /\ mrp \in WordAddr /\ mwp \in WordAddr
  /\ {fifoSet, cmdFault, handle, playing, ptr} \subseteq BOOLEAN
  /\ filePos \in 0 .. FileLen /\ remaining \in 0 .. FileLen
  /\ caller \in Callers /\ pc \in Pcs
  /\ size \in Nat /\ base \in 0 .. FileLen /\ done \in 0 .. size
  /\ space \in 0 .. Size - 4
  /\ sent \in Nat /\ taken \in Nat

(* What the coprocessor has not read yet is exactly the stretch of the     *)
(* stream that follows what it has read: whatever wraps, stops early, is   *)
(* aborted and is fed again, no word is lost, repeated, overwritten or out *)
(* of place (EVE_MediaFifo_wrMem, loadMediaFile).                          *)
StreamInOrder ==
  fifoSet =>
    /\ taken + Used = sent
    /\ \A i \in {a \in WordAddr : a < Used} : ram[(mrp + i) % Size] = taken + i

(* Between two feeds of a stream the next byte to read from the file is    *)
(* the first one not yet written to the FIFO, and what is left of the file *)
(* is remembered: a feed resumes exactly where the last one stopped.       *)
ResumesWhereStopped ==
  (pc = "ready" /\ fifoSet) =>
    /\ caller \in {"frame", "direct"} => filePos = sent
    /\ handle => remaining = FileLen - filePos

(* A media command that waits for data which the FIFO does not hold.       *)
Starved == Running("media") /\ need > 0 /\ mrp = mwp

(* Every feed returns, also when the command it feeds ends early or its    *)
(* coprocessor faults.  It can only wait for ever, as the code documents,  *)
(* in a wait for the command FIFO while the command asks for more data     *)
(* than there is, and without transfered when no command reads the FIFO.   *)
FeedReturns ==
  []<>(\/ pc \in {"ready", "overrun"}
       \/ pc \in {"set", "queue", "flush"} /\ Starved
       \/ pc \in {"poll", "polled", "drain", "drained"} /\ ~ptr /\ CmdIdle)

(* The media FIFO is a bounded first-in first-out queue of the words of    *)
(* the stream: unread words are dropped only by a fault, by closing the    *)
(* FIFO and by the reset that ends a fault.                                *)
Queue == INSTANCE CmdQueue WITH
  Words    <- 0 .. FileLen + 3,
  Capacity <- Size \div 4 - 1,
  pending  <- IF fault \/ ~fifoSet THEN <<>>
              ELSE [i \in 1 .. Used \div 4 |-> ram[(mrp + 4 * (i - 1)) % Size]],
  visible  <- IF fault \/ ~fifoSet THEN 0 ELSE Used \div 4,
  halted   <- fault

Restarting == (fifoSet /\ ~fifoSet') \/ (fault /\ ~fault')

StreamQueue == Queue!Spec /\ [][Queue!Serve \/ Restarting]_(Queue!vars)
=============================================================================
