----------------------------- MODULE FrameLoop -----------------------------
(***************************************************************************)
(* The main loop of Esd_Context.c: update, render, wait for the swap, and  *)
(* what the logo, the popup spinner, a coprocessor fault and a request to  *)
(* stop make of it.  The host writes commands to a short FIFO while the    *)
(* coprocessor executes them, faults, or waits for the display.            *)
(*                                                                         *)
(* The picture of a frame is two drawing commands, which carry the parity  *)
(* of the frame; a display list that mixes frames or lacks a part shows.   *)
(***************************************************************************)
EXTENDS Integers, Sequences

CONSTANTS
  FifoSlots,    \* the commands the command FIFO holds
  MayPopup,     \* the application uses Esd_CoWidget_PopupSpinner
  MayShowLogo,  \* the application uses Esd_ShowLogo
  MayFault      \* the coprocessor may fault

ASSUME FrameAssumption ==
  /\ FifoSlots \in Nat \ {0}
  /\ {MayPopup, MayShowLogo, MayFault} \subseteq BOOLEAN

VARIABLES
  \* the coprocessor and the display
  fifo,         \* commands written and not executed
  fault,        \* the coprocessor has faulted: it also stops the display
  dl,           \* the display list that is being built
  swapped,      \* the display list that is shown next
  swapPending,  \* REG_DLSWAP is not zero
  shown,        \* the display list on the screen
  atZero,       \* REG_CMD_READ and REG_CMD_WRITE are zero
  spinning,     \* CMD_SPINNER is running
  \* EVE_HalContext and Esd_Context
  cmdFault,
  parity,       \* Frame
  requestStop, showLogo, showingLogo, spinnerPopup, spinnerPopped,
  hasReset,
  \* the host thread
  pc,
  todo,         \* the commands the current function still writes
  next          \* where the host goes on after them

coproc  == <<fifo, fault, dl, swapped, swapPending, shown, atZero, spinning>>
flags   == <<requestStop, showLogo, spinnerPopup>>
context == <<parity, showingLogo, spinnerPopped, hasReset>>
thread  == <<pc, todo, next>>
vars    == <<coproc, flags, context, cmdFault, thread>>

----------------------------------------------------------------------------
Draws   == {<<"draw", 0>>, <<"draw", 1>>}
Draw    == <<"draw", parity>>
White   == <<"white">>
DlStart == <<"dlStart">>
Swap    == <<"swap">>
Load    == <<"load">>
Logo    == <<"logo">>
Spinner == <<"spinner">>
CmdStop == <<"stop">>

Commands  == Draws \cup {White, DlStart, Swap, Load, Logo, Spinner, CmdStop}
DlMax == 4     \* longer display lists are cut: none of them is whole

Picture(p) == << <<"draw", p>>, <<"draw", p>> >>

Init ==
  /\ fifo = <<>> /\ fault = FALSE /\ dl = <<>>
  /\ swapped = <<White>> /\ swapPending = FALSE /\ shown = <<White>>
  /\ atZero = TRUE /\ spinning = FALSE
  /\ cmdFault = FALSE /\ parity = 0
  /\ requestStop = FALSE /\ showLogo = FALSE /\ showingLogo = FALSE
  /\ spinnerPopup = FALSE /\ spinnerPopped = FALSE
  /\ hasReset = FALSE
  /\ pc = "loop" /\ todo = <<>> /\ next = "loop"

----------------------------------------------------------------------------
(* The coprocessor and the display (hardware, as the loop uses them).      *)

HostKept == <<flags, context, cmdFault, thread>>

(* CMD_DLSTART and CMD_SWAP wait for the display to take the last list.    *)
Execute ==
  /\ ~fault /\ fifo # <<>>
  /\ Head(fifo) \in {DlStart, Swap} => ~swapPending
  /\ fifo' = IF Head(fifo) = Logo THEN <<>> ELSE Tail(fifo)
  /\ atZero' = (Head(fifo) = Logo)
  /\ dl' = CASE Head(fifo) = DlStart -> <<>>
             [] Head(fifo) \in Draws \cup {White} /\ Len(dl) < DlMax -> Append(dl, Head(fifo))
             [] OTHER -> dl
  /\ IF Head(fifo) = Swap
       THEN swapped' = dl /\ swapPending' = TRUE
       ELSE UNCHANGED <<swapped, swapPending>>
  /\ shown' = IF Head(fifo) \in {Logo, Spinner} THEN <<Head(fifo)>> ELSE shown
  /\ spinning' = (Head(fifo) = Spinner \/ (spinning /\ Head(fifo) \notin {Logo, CmdStop}))
  /\ UNCHANGED <<fault, HostKept>>

(* The display takes the list at the end of a scan.                        *)
Display ==
  /\ swapPending /\ ~fault
  /\ swapPending' = FALSE /\ shown' = swapped
  /\ UNCHANGED <<fifo, fault, dl, swapped, atZero, spinning, HostKept>>

Crash ==
  /\ MayFault /\ ~fault /\ fifo # <<>>
  /\ fault' = TRUE
  /\ UNCHANGED <<fifo, dl, swapped, swapPending, shown, atZero, spinning, HostKept>>

----------------------------------------------------------------------------
(* The application sets a flag, from one of its callbacks or elsewhere.    *)
SetFlags ==
  /\ pc # "stopped"
  /\ \/ requestStop' = TRUE /\ UNCHANGED <<showLogo, spinnerPopup>>
     \/ MayShowLogo /\ showLogo' = TRUE /\ UNCHANGED <<requestStop, spinnerPopup>>
     \/ MayPopup /\ spinnerPopup' = TRUE /\ UNCHANGED <<requestStop, showLogo>>
  /\ UNCHANGED <<coproc, context, cmdFault, thread>>

----------------------------------------------------------------------------
(* Writing commands and waiting for them.                                  *)

Commit(cmds, then) == pc' = "write" /\ todo' = cmds /\ next' = then

Aborts == requestStop                     \* cbCmdWait returns false

HasSpaceLate == Len(fifo) <= FifoSlots                 \* Wrong on purpose
HasSpace     == Len(fifo) < FifoSlots

(* A command is written, or dropped when the wait for its space fails.     *)
WriteCommand ==
  /\ pc = "write" /\ todo # <<>>
  /\ \/ /\ HasSpace
        /\ IF fault THEN UNCHANGED <<fifo, atZero>>
                    ELSE fifo' = Append(fifo, Head(todo)) /\ atZero' = FALSE
        /\ UNCHANGED cmdFault
     \/ /\ ~HasSpace /\ (fault \/ Aborts)
        /\ cmdFault' = (cmdFault \/ fault)
        /\ UNCHANGED <<fifo, atZero>>
  /\ todo' = Tail(todo)
  /\ UNCHANGED <<fault, dl, swapped, swapPending, shown, spinning, flags, parity, showingLogo,
                 spinnerPopped, hasReset, pc, next>>

WriteDone ==
  /\ pc = "write" /\ todo = <<>>
  /\ pc' = next
  /\ UNCHANGED <<coproc, flags, context, cmdFault, todo, next>>

Flushed == fifo = <<>> \/ fault \/ Aborts
NotesFault == cmdFault' = (cmdFault \/ fault)

----------------------------------------------------------------------------
(* Esd_Loop.                                                               *)
Loop ==
  /\ pc = "loop"
  /\ pc' = IF requestStop THEN "stopped" ELSE "update"
  /\ UNCHANGED <<coproc, flags, context, cmdFault, todo, next>>

(* Esd_Update returns early when the logo is to be shown.                  *)
Update ==
  /\ pc = "update"
  /\ pc' = IF showLogo THEN "render" ELSE "appUpdate"
  /\ UNCHANGED <<coproc, flags, context, cmdFault, todo, next>>

(* The application's Update, which may have the coprocessor do something   *)
(* and wait for it (loading a bitmap).                                     *)
AppUpdate ==
  /\ pc = "appUpdate"
  /\ \/ pc' = "render" /\ UNCHANGED <<todo, next>>
     \/ Commit(<<Load>>, "loading")
  /\ UNCHANGED <<coproc, flags, context, cmdFault>>

Loading ==
  /\ pc = "loading" /\ Flushed
  /\ NotesFault
  /\ pc' = "render"
  /\ UNCHANGED <<coproc, flags, context, todo, next>>

----------------------------------------------------------------------------
FrameUnstarted == <<Draw, Draw>>                       \* Wrong on purpose

(* The commands of a frame: EVE_CoCmd_dlStart and what is drawn.           *)
Frame == <<DlStart, Draw, Draw>>

(* Esd_Render does not draw over a fault that Update has noticed.          *)
RenderRefused == cmdFault

(* Esd_Render, up to the end of the application's Render.                  *)
Render ==
  /\ pc = "render"
  /\ \/ /\ showLogo                            \* Esd_BeginLogo
        /\ showLogo' = FALSE /\ showingLogo' = TRUE
        /\ Commit(<<DlStart, White, Swap, DlStart, White, Swap, DlStart, White>>, "logoFlush")
     \/ /\ ~showLogo /\ showingLogo            \* Esd_EndLogo
        /\ showingLogo' = FALSE
        /\ Commit(<<DlStart, White, Swap>>, "endLogo")
        /\ UNCHANGED showLogo
     \/ /\ ~showLogo /\ ~showingLogo
        /\ IF RenderRefused
             THEN pc' = "waitSwap" /\ UNCHANGED <<todo, next>>
             ELSE Commit(Frame, "popup")
        /\ UNCHANGED <<showLogo, showingLogo>>
  /\ UNCHANGED <<coproc, requestStop, spinnerPopup, parity, spinnerPopped,
                 hasReset, cmdFault>>

LogoFlush ==
  /\ pc = "logoFlush" /\ Flushed
  /\ NotesFault
  /\ Commit(<<Logo>>, "waitLogo")
  /\ UNCHANGED <<coproc, flags, context>>

LogoOverAtZero == atZero                               \* Wrong on purpose

(* EVE_Cmd_waitLogo waits for both pointers to be zero.                    *)
LogoOver == atZero \/ fault \/ Aborts

(* EVE_Cmd_waitLogo, then a pause of three seconds.                        *)
WaitLogo ==
  /\ pc = "waitLogo" /\ LogoOver
  /\ NotesFault
  /\ pc' = "waitSwap"
  /\ UNCHANGED <<coproc, flags, context, todo, next>>

(* The end of Esd_EndLogo, after which Esd_Render goes on.                 *)
EndLogo ==
  /\ pc = "endLogo" /\ Flushed
  /\ cmdFault' = (cmdFault \/ fault)
  /\ IF cmdFault'
       THEN pc' = "waitSwap" /\ UNCHANGED <<todo, next>>
       ELSE Commit(Frame, "popup")
  /\ UNCHANGED <<coproc, flags, parity, showingLogo, spinnerPopped, hasReset>>

StopForgotten == <<Swap>>                              \* Wrong on purpose

(* What Esd_Render writes last when no spinner pops up.                    *)
LastCommands == IF spinnerPopped THEN <<CmdStop, Swap>> ELSE <<Swap>>

(* The end of Esd_Render.                                                  *)
Popup ==
  /\ pc = "popup"
  /\ spinnerPopup' = FALSE
  /\ spinnerPopped' = spinnerPopup
  /\ Commit(IF spinnerPopup THEN <<Spinner>> ELSE LastCommands, "waitSwap")
  /\ parity' = 1 - parity
  /\ UNCHANGED <<coproc, requestStop, showLogo, showingLogo, hasReset, cmdFault>>

----------------------------------------------------------------------------
ResetNever == FALSE                                    \* Wrong on purpose

(* Whether Esd_WaitSwap resets the coprocessor.                            *)
ResetNeeded == cmdFault \/ fault

(* Esd_WaitSwap: the flush, then the reset after a fault.                  *)
WaitSwap ==
  /\ pc = "waitSwap" /\ Flushed
  /\ hasReset' = ResetNeeded
  /\ IF ResetNeeded
       THEN /\ cmdFault' = FALSE /\ fault' = FALSE
            /\ fifo' = <<>> /\ atZero' = TRUE /\ spinning' = FALSE
            /\ Commit(<<DlStart, Load>>, "resetFlush")   \* CMD_COLDSTART
       ELSE /\ pc' = "swap"
            /\ UNCHANGED <<cmdFault, fault, fifo, atZero, spinning, todo, next>>
  /\ UNCHANGED <<dl, swapped, swapPending, shown, flags, parity, showingLogo,
                 spinnerPopped>>

(* The flush at the end of EVE_Util_resetCoprocessor.                      *)
ResetFlush ==
  /\ pc = "resetFlush" /\ Flushed
  /\ NotesFault
  /\ pc' = "loop"
  /\ UNCHANGED <<coproc, flags, context, todo, next>>

(* REG_DLSWAP is polled; no callback can end this wait.                    *)
SwapDone ==
  /\ pc = "swap" /\ ~swapPending
  /\ pc' = "loop"
  /\ UNCHANGED <<coproc, flags, context, cmdFault, todo, next>>

Host ==
  \/ WriteCommand \/ WriteDone \/ Loop \/ Update \/ AppUpdate \/ Loading
  \/ Render \/ LogoFlush \/ WaitLogo \/ EndLogo \/ Popup
  \/ WaitSwap \/ ResetFlush \/ SwapDone

Next == Execute \/ Display \/ Crash \/ SetFlags \/ Host

(* The loop runs, the coprocessor executes what it is given and the        *)
(* display scans; nothing is assumed of the application or of faults.      *)
Fairness == WF_vars(Execute) /\ WF_vars(Display) /\ WF_vars(Host)

Spec == Init /\ [][Next]_vars /\ Fairness

----------------------------------------------------------------------------
Pcs == {"loop", "update", "appUpdate", "loading", "render", "logoFlush",
        "waitLogo", "endLogo", "popup", "waitSwap", "resetFlush", "swap",
        "write", "stopped"}

(* The types of the variables; the FIFO never holds more than it can.      *)
TypeOK ==
  /\ fifo \in Seq(Commands) /\ Len(fifo) <= FifoSlots
  /\ {dl, swapped, shown, todo} \subseteq Seq(Commands)
  /\ {fault, swapPending, atZero, spinning, cmdFault, requestStop, showLogo,
      showingLogo, spinnerPopup, spinnerPopped, hasReset} \subseteq BOOLEAN
  /\ parity \in {0, 1} /\ {pc, next} \subseteq Pcs

Pictures == {Picture(p) : p \in {0, 1}}

(* Until a stop is requested the screen shows whole pictures: no fault in  *)
(* update or render, no reset and no logo lets it show part of a frame or  *)
(* parts of two (Esd_Render, Esd_WaitSwap).                                *)
ShownWhole ==
  requestStop \/ shown \in Pictures \cup {<<White>>, <<Logo>>, <<Spinner>>}

(* Until a stop is requested, once the loop has swapped in a frame the     *)
(* spinner is no longer running and would not draw over it (SpinnerPopped  *)
(* in Esd_Render).                                                         *)
SpinnerStopped == requestStop \/ (shown \in Pictures => ~spinning)

(* Frame after frame is shown, whatever faults have happened before:       *)
(* unless the loop is stopped, or there is no end of new faults, logos or  *)
(* spinners, pictures of both parities appear on the screen for ever.      *)
FramesKeepComing ==
  \A p \in {0, 1} :
    \/ []<>(shown = Picture(p))
    \/ []<>fault /\ []<>~fault
    \/ []<>showLogo /\ []<>~showLogo
    \/ []<>spinnerPopup /\ []<>~spinnerPopup
    \/ <>requestStop

(* A request to stop ends the loop from wherever it is waiting; only the   *)
(* poll of REG_DLSWAP can hold it, when a fault has stopped the display    *)
(* after an aborted flush (the TODO at Esd_Context.c:523).                 *)
StopEnds ==
  requestStop ~> (pc = "stopped" \/ (pc = "swap" /\ fault))
=============================================================================
