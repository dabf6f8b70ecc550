-------------------------- MODULE FrameLoopProofs --------------------------
(***************************************************************************)
(* Proofs about FrameLoop, for every length of the command FIFO.           *)
(***************************************************************************)
EXTENDS FrameLoop, SequenceTheorems, TLAPS

(***************************************************************************)
(* The inductive invariant.  Each function of the loop writes a program, a *)
(* fixed list of commands, and the functions wait for the FIFO to empty    *)
(* often enough that only one program is ever under way: what it still     *)
(* writes (todo) follows what is in the FIFO, which follows the c commands *)
(* of the program that are executed already.  Only the end of a frame      *)
(* continues what the frame has begun.                                     *)
(***************************************************************************)
Frames == {"frame", "swap", "stop", "spin"}
Kinds  == Frames \cup {"none", "load", "lists", "logo", "white", "reset"}

Body(k, p) ==
  CASE k = "load"  -> <<Load>>
    [] k = "lists" -> <<DlStart, White, Swap, DlStart, White, Swap, DlStart, White>>
    [] k = "logo"  -> <<Logo>>
    [] k = "white" -> <<DlStart, White, Swap>>
    [] k = "reset" -> <<DlStart, Load>>
    [] k = "frame" -> <<DlStart, <<"draw", p>>, <<"draw", p>> >>
    [] k = "swap"  -> <<DlStart, <<"draw", p>>, <<"draw", p>>, Swap>>
    [] k = "stop"  -> <<DlStart, <<"draw", p>>, <<"draw", p>>, CmdStop, Swap>>
    [] k = "spin"  -> <<DlStart, <<"draw", p>>, <<"draw", p>>, Spinner>>
    [] OTHER       -> <<>>

(* Which program is under way while the host is writing for, or at, stage. *)
AllowedAt(stage) ==
  CASE stage = "loading"    -> {"load"}
    [] stage = "logoFlush"  -> {"lists"}
    [] stage = "waitLogo"   -> {"logo"}
    [] stage = "endLogo"    -> {"white"}
    [] stage = "popup"      -> {"frame"}
    [] stage = "waitSwap"   -> {"none", "logo", "swap", "stop", "spin"}
    [] stage = "resetFlush" -> {"reset"}
    [] OTHER                -> {"none"}

Stage == IF pc = "write" THEN next ELSE pc

Pending(body, c) ==
  /\ Len(fifo) + Len(todo) + c = Len(body)
  /\ \A i \in 1 .. Len(fifo) : fifo[i] = body[c + i]
  /\ \A i \in 1 .. Len(todo) : todo[i] = body[c + Len(fifo) + i]

(* The display list when c commands are executed.                          *)
Built(k, p, c) ==
  /\ k \in Frames => /\ c = 1 => dl = <<>>
                     /\ c = 2 => dl = << <<"draw", p>> >>
                     /\ c >= 3 => dl = Picture(p)
  /\ k \in {"lists", "white"} => /\ c \in {1, 4, 7} => dl = <<>>
                                 /\ c \in {2, 3, 5, 6, 8} => dl = <<White>>

(* A spinner that runs will be stopped by the next frame that is swapped   *)
(* in, and none starts while a picture waits to be shown.                  *)
Spins(k, c) ==
  /\ spinning => spinnerPopped \/ (k = "stop" /\ c < 4)
  /\ k = "spin" => spinnerPopped
  /\ k \in {"swap", "stop"} => ~spinnerPopped
  /\ k \in Frames /\ c \in 1 .. 3 => ~swapPending

Program(k, p, c) == Pending(Body(k, p), c) /\ Built(k, p, c) /\ Spins(k, c)

UnderWay == \E k \in AllowedAt(Stage), p \in {0, 1}, c \in Nat : Program(k, p, c)

Screens == Pictures \cup {<<White>>, <<Logo>>, <<Spinner>>}

(* Once a stop is requested every wait may end early, and after a fault    *)
(* nothing more is executed before the reset.                              *)
Sound ==
  /\ pc # "write" => todo = <<>>
  /\ ~requestStop =>
       /\ shown \in Screens
       /\ swapped \in Pictures \cup {<<White>>}
       /\ spinning => shown \notin Pictures
       /\ ~fault => /\ spinning /\ swapPending => swapped \notin Pictures
                    /\ UnderWay

(***************************************************************************)
(* Types.                                                                  *)
(***************************************************************************)
LEMMA CommandsTyped ==
  /\ {White, DlStart, Swap, Load, Logo, Spinner, CmdStop} \subseteq Commands
  /\ \A p \in {0, 1} : <<"draw", p>> \in Commands
BY DEF Commands, Draws

LEMMA BodyTyped ==
  ASSUME NEW k \in Kinds, NEW p \in {0, 1}
  PROVE  Body(k, p) \in Seq(Commands)
BY CommandsTyped DEF Kinds, Frames, Body

LEMMA WrittenTyped ==
  /\ <<>> \in Seq(Commands) /\ <<White>> \in Seq(Commands)
  /\ <<Load>> \in Seq(Commands) /\ <<Logo>> \in Seq(Commands)
  /\ <<Spinner>> \in Seq(Commands) /\ <<Swap>> \in Seq(Commands)
  /\ <<CmdStop, Swap>> \in Seq(Commands) /\ <<DlStart, Load>> \in Seq(Commands)
  /\ <<DlStart, White, Swap>> \in Seq(Commands)
  /\ <<DlStart, White, Swap, DlStart, White, Swap, DlStart, White>> \in Seq(Commands)
  /\ parity \in {0, 1} => Frame \in Seq(Commands)
<1>1. \A a, b, c \in Commands : /\ <<a>> \in Seq(Commands) /\ <<a, b>> \in Seq(Commands)
                                /\ <<a, b, c>> \in Seq(Commands)
  OBVIOUS
<1>2. \A a, b, c, d, e, f, g, h \in Commands : <<a, b, c, d, e, f, g, h>> \in Seq(Commands)
  OBVIOUS
<1>. QED
  BY <1>1, <1>2, CommandsTyped DEF Frame, Draw

(* TypeOK in parts: what the sequences, the flags and the rest are.        *)
Lists ==
  /\ fifo \in Seq(Commands) /\ Len(fifo) <= FifoSlots
  /\ dl \in Seq(Commands) /\ swapped \in Seq(Commands)
  /\ shown \in Seq(Commands) /\ todo \in Seq(Commands)

Bools ==
  /\ fault \in BOOLEAN /\ swapPending \in BOOLEAN /\ atZero \in BOOLEAN
  /\ spinning \in BOOLEAN /\ cmdFault \in BOOLEAN /\ requestStop \in BOOLEAN
  /\ showLogo \in BOOLEAN /\ showingLogo \in BOOLEAN /\ spinnerPopup \in BOOLEAN
  /\ spinnerPopped \in BOOLEAN /\ hasReset \in BOOLEAN

Rest == parity \in {0, 1} /\ pc \in Pcs /\ next \in Pcs

LEMMA TypeParts == TypeOK <=> Lists /\ Bools /\ Rest
BY DEF TypeOK, Lists, Bools, Rest

LEMMA ListsStep ==
  ASSUME Lists, Rest, [Next]_vars
  PROVE  Lists'
<1> USE FrameAssumption
<1>1. CASE Execute
  <2> USE <1>1 DEF Execute, HostKept, thread
  <2>1. Head(fifo) \in Commands /\ Tail(fifo) \in Seq(Commands) /\ Len(Tail(fifo)) <= FifoSlots
    BY DEF Lists
  <2>2. fifo' \in Seq(Commands) /\ Len(fifo') <= FifoSlots
    BY <2>1 DEF Lists
  <2>3. dl' \in Seq(Commands) /\ shown' \in Seq(Commands) /\ swapped' \in Seq(Commands)
    BY <2>1 DEF Lists
  <2>. QED
    BY <2>2, <2>3 DEF Lists
<1>2. CASE Display \/ Crash \/ SetFlags
  BY <1>2 DEF Lists, Display, Crash, SetFlags, HostKept, thread, coproc
<1>3. CASE WriteCommand
  <2> USE <1>3 DEF WriteCommand
  <2>1. Head(todo) \in Commands /\ todo' \in Seq(Commands)
    BY DEF Lists
  <2>2. fifo' = fifo \/ (Len(fifo) < FifoSlots /\ fifo' = Append(fifo, Head(todo)))
    BY DEF HasSpace
  <2>3. fifo' \in Seq(Commands) /\ Len(fifo') <= FifoSlots
    <3>1. CASE fifo' = fifo
      BY <3>1 DEF Lists
    <3>2. CASE Len(fifo) < FifoSlots /\ fifo' = Append(fifo, Head(todo))
      <4>1. fifo' \in Seq(Commands) /\ Len(fifo') = Len(fifo) + 1
        BY <2>1, <3>2, AppendProperties DEF Lists
      <4>. QED
        BY <3>2, <4>1, LenProperties DEF Lists
    <3>. QED
      BY <2>2, <3>1, <3>2
  <2>. QED
    BY <2>1, <2>3 DEF Lists
<1>4. CASE WriteDone \/ Loop \/ Update \/ Loading \/ ResetFlush \/ SwapDone \/ WaitLogo
  BY <1>4 DEF Lists, WriteDone, Loop, Update, Loading, ResetFlush, SwapDone, WaitLogo, coproc
<1>5. CASE AppUpdate \/ Render \/ LogoFlush \/ EndLogo \/ Popup
  <2>1. /\ UNCHANGED <<fifo, dl, swapped, shown>>
        /\ \/ todo' = todo
           \/ todo' \in {<<Load>>, <<Logo>>, <<DlStart, White, Swap>>, Frame, <<Spinner>>,
                        <<CmdStop, Swap>>, <<Swap>>,
                        <<DlStart, White, Swap, DlStart, White, Swap, DlStart, White>>}
    BY <1>5 DEF AppUpdate, Render, LogoFlush, EndLogo, Popup, LastCommands, Commit, coproc
  <2>2. todo' \in Seq(Commands)
    BY <2>1, WrittenTyped DEF Lists, Rest
  <2>. QED
    BY <2>1, <2>2 DEF Lists
<1>6. CASE WaitSwap
  <2>1. todo' \in {todo, <<DlStart, Load>>} /\ fifo' \in {fifo, <<>>}
        /\ UNCHANGED <<dl, swapped, shown>>
    BY <1>6 DEF WaitSwap, Commit
  <2>. QED
    <3>1. todo' \in Seq(Commands)
      BY <2>1, WrittenTyped DEF Lists
    <3>2. CASE fifo' = fifo
      BY <2>1, <3>1, <3>2 DEF Lists
    <3>3. CASE fifo' = <<>>
      <4>1. fifo' \in Seq(Commands) /\ Len(fifo') <= FifoSlots
        BY <3>3
      <4>. QED
        BY <2>1, <3>1, <4>1 DEF Lists
    <3>. QED
      BY <2>1, <3>2, <3>3
<1>7. CASE UNCHANGED vars
  BY <1>7 DEF Lists, vars, coproc, thread
<1>. QED
  BY <1>1, <1>2, <1>3, <1>4, <1>5, <1>6, <1>7 DEF Next, Host

LEMMA BoolsStep ==
  ASSUME Bools, [Next]_vars
  PROVE  Bools'
<1>1. CASE Execute
  <2>1. atZero' \in BOOLEAN /\ spinning' \in BOOLEAN /\ swapPending' \in BOOLEAN
    BY <1>1, Zenon DEF Bools, Execute
  <2>2. UNCHANGED <<fault, cmdFault, requestStop, showLogo, showingLogo,
                    spinnerPopup, spinnerPopped, hasReset>>
    BY ONLY <1>1 DEF Execute, HostKept, flags, context
  <2>. QED
    BY ONLY Bools, <2>1, <2>2 DEF Bools
<1>2. CASE Display \/ Crash \/ SetFlags
  <2>1. CASE Display
    BY <2>1 DEF Bools, Display, HostKept, flags, context
  <2>2. CASE Crash
    BY <2>2 DEF Bools, Crash, HostKept, flags, context
  <2>3. CASE SetFlags
    BY <2>3 DEF Bools, SetFlags, coproc, context
  <2>. QED
    BY <1>2, <2>1, <2>2, <2>3
<1>3. CASE WriteCommand
  BY <1>3 DEF Bools, WriteCommand, flags
<1>4. CASE WriteDone \/ Loop \/ Update \/ AppUpdate \/ SwapDone
  BY <1>4 DEF Bools, WriteDone, Loop, Update, AppUpdate, SwapDone, coproc, flags, context
<1>5. CASE Loading \/ LogoFlush \/ WaitLogo \/ ResetFlush
  BY <1>5 DEF Bools, Loading, LogoFlush, WaitLogo, ResetFlush, NotesFault, coproc, flags, context
<1>6. CASE Render
  BY <1>6 DEF Bools, Render, coproc
<1>7. CASE EndLogo
  BY <1>7 DEF Bools, EndLogo, coproc, flags
<1>8. CASE Popup
  BY <1>8 DEF Bools, Popup, coproc
<1>9. CASE WaitSwap
  BY <1>9 DEF Bools, WaitSwap, ResetNeeded, flags
<1>10. CASE UNCHANGED vars
  BY <1>10 DEF Bools, vars, coproc, flags, context
<1>. QED
  BY <1>1, <1>2, <1>3, <1>4, <1>5, <1>6, <1>7, <1>8, <1>9, <1>10 DEF Next, Host

LEMMA RestStep ==
  ASSUME Rest, [Next]_vars
  PROVE  Rest'
<1> USE DEF Rest, Pcs
<1>1. CASE Execute \/ Display \/ Crash \/ SetFlags
  BY <1>1 DEF Execute, Display, Crash, SetFlags, HostKept, context, thread
<1>2. CASE WriteCommand \/ WriteDone \/ Loop \/ Update \/ SwapDone
  BY <1>2 DEF WriteCommand, WriteDone, Loop, Update, SwapDone, context
<1>3. CASE AppUpdate \/ Loading \/ LogoFlush \/ WaitLogo \/ ResetFlush
  BY <1>3 DEF AppUpdate, Loading, LogoFlush, WaitLogo, ResetFlush, Commit, context
<1>4. CASE Render \/ EndLogo \/ Popup \/ WaitSwap
  BY <1>4 DEF Render, EndLogo, Popup, WaitSwap, Commit
<1>5. CASE UNCHANGED vars
  BY <1>5 DEF vars, context, thread
<1>. QED
  BY <1>1, <1>2, <1>3, <1>4, <1>5 DEF Next, Host

LEMMA TypeStep ==
  ASSUME TypeOK, [Next]_vars
  PROVE  TypeOK'
<1>1. Lists /\ Bools /\ Rest
  BY TypeParts
<1>2. Lists' /\ Bools' /\ Rest'
  BY <1>1, ListsStep, BoolsStep, RestStep
<1>. QED
  BY <1>2 DEF TypeOK, Lists, Bools, Rest

(* The variables keep their types and the command FIFO its size.           *)
THEOREM TypeCorrect == Spec => []TypeOK
<1>1. Init => TypeOK
  <2>1. Init => Lists /\ Bools /\ Rest
    <3>1. Init => Lists
      BY FrameAssumption, WrittenTyped DEF Init, Lists
    <3>2. Init => Bools
      BY DEF Init, Bools
    <3>3. Init => Rest
      BY DEF Init, Rest, Pcs
    <3>. QED
      BY <3>1, <3>2, <3>3
  <2>. QED
    BY <2>1, TypeParts
<1>2. TypeOK /\ [Next]_vars => TypeOK'
  BY TypeStep
<1>. QED
  BY <1>1, <1>2, PTL DEF Spec

(***************************************************************************)
(* The commands differ from one another, and the screens too.              *)
(***************************************************************************)
LEMMA CommandsDiffer ==
  /\ \A d \in Draws : d \notin {White, DlStart, Swap, Load, Logo, Spinner, CmdStop}
  /\ White \notin {DlStart, Swap, Load, Logo, Spinner, CmdStop}
  /\ DlStart \notin {Swap, Load, Logo, Spinner, CmdStop}
  /\ Swap \notin {Load, Logo, Spinner, CmdStop}
  /\ Load \notin {Logo, Spinner, CmdStop}
  /\ Logo \notin {Spinner, CmdStop} /\ Spinner # CmdStop
BY DEF Draws, White, DlStart, Swap, Load, Logo, Spinner, CmdStop

LEMMA ScreensDiffer ==
  /\ <<White>> \notin Pictures /\ <<Logo>> \notin Pictures /\ <<Spinner>> \notin Pictures
  /\ \A p \in {0, 1} : Picture(p) \in Pictures
BY DEF Pictures, Picture

(***************************************************************************)
(* The program under way: a command is executed, a command is written.     *)
(***************************************************************************)
LEMMA PendingTakes ==
  ASSUME Lists, NEW body \in Seq(Commands), NEW c \in Nat, Pending(body, c),
         fifo # <<>>
  PROVE  /\ c < Len(body) /\ Head(fifo) = body[c + 1]
         /\ fifo' = Tail(fifo) /\ todo' = todo => Pending(body, c + 1)'
<1>1. /\ Len(fifo) \in Nat \ {0} /\ Len(todo) \in Nat /\ Head(fifo) = fifo[1]
      /\ Len(Tail(fifo)) = Len(fifo) - 1
      /\ \A i \in 1 .. Len(Tail(fifo)) : Tail(fifo)[i] = fifo[i + 1]
  BY EmptySeq, HeadTailProperties, LenProperties DEF Lists
<1>2. c < Len(body) /\ Head(fifo) = body[c + 1]
  BY <1>1 DEF Pending
<1>3. ASSUME fifo' = Tail(fifo), todo' = todo
      PROVE  Pending(body, c + 1)'
  <2>1. Len(fifo') = Len(fifo) - 1 /\ Len(todo') = Len(todo)
        /\ \A i \in 1 .. Len(fifo') : fifo'[i] = fifo[i + 1]
    BY ONLY <1>1, <1>3
  <2>2. Len(fifo') + Len(todo') + (c + 1) = Len(body)
    BY ONLY Pending(body, c), c \in Nat, <1>1, <2>1 DEF Pending
  <2>3. ASSUME NEW i \in 1 .. Len(fifo')
        PROVE  fifo'[i] = body[(c + 1) + i]
    <3>1. i + 1 \in 1 .. Len(fifo) /\ c + (i + 1) = (c + 1) + i
      BY ONLY c \in Nat, <1>1, <2>1, <2>3
    <3>. QED
      BY ONLY Pending(body, c), <2>1, <2>3, <3>1 DEF Pending
  <2>4. ASSUME NEW i \in 1 .. Len(todo')
        PROVE  todo'[i] = body[(c + 1) + Len(fifo') + i]
    <3>1. i \in 1 .. Len(todo) /\ c + Len(fifo) + i = (c + 1) + Len(fifo') + i
      BY ONLY c \in Nat, <1>1, <2>1, <2>4
    <3>. QED
      BY ONLY Pending(body, c), <1>3, <3>1 DEF Pending
  <2>. QED
    BY ONLY <2>2, <2>3, <2>4 DEF Pending
<1>. QED
  BY <1>2, <1>3

LEMMA PendingWrites ==
  ASSUME Lists, NEW body \in Seq(Commands), NEW c \in Nat, Pending(body, c),
         todo # <<>>, fifo' = Append(fifo, Head(todo)), todo' = Tail(todo)
  PROVE  Pending(body, c)'
<1>1. /\ Len(fifo) \in Nat /\ Len(todo) \in Nat \ {0} /\ Head(todo) = todo[1]
      /\ Head(todo) \in Commands
      /\ Len(Tail(todo)) = Len(todo) - 1
      /\ \A i \in 1 .. Len(Tail(todo)) : Tail(todo)[i] = todo[i + 1]
  BY EmptySeq, HeadTailProperties, LenProperties DEF Lists
<1>2. /\ Len(fifo') = Len(fifo) + 1 /\ fifo'[Len(fifo) + 1] = Head(todo)
      /\ \A i \in 1 .. Len(fifo) : fifo'[i] = fifo[i]
  BY <1>1, AppendProperties DEF Lists
<1>3. Len(fifo') + Len(todo') + c = Len(body)
  BY <1>1, <1>2 DEF Pending
<1>4. ASSUME NEW i \in 1 .. Len(fifo')
      PROVE  fifo'[i] = body[c + i]
  <2>1. CASE i = Len(fifo) + 1
    <3>1. todo[1] = body[c + Len(fifo) + 1]
      BY <1>1 DEF Pending
    <3>. QED
      BY <1>1, <1>2, <2>1, <3>1
  <2>2. CASE i \in 1 .. Len(fifo)
    BY <1>2, <2>2 DEF Pending
  <2>. QED
    BY <1>1, <1>2, <2>1, <2>2
<1>5. ASSUME NEW i \in 1 .. Len(todo')
      PROVE  todo'[i] = body[c + Len(fifo') + i]
  BY <1>1, <1>2 DEF Pending
<1>. QED
  BY <1>3, <1>4, <1>5 DEF Pending

LEMMA PendingBegins ==
  ASSUME NEW body \in Seq(Commands), fifo' = <<>>, todo' = body
  PROVE  Pending(body, 0)'
BY LenProperties DEF Pending

(* A program that has been written is continued by a longer one.           *)
LEMMA PendingContinues ==
  ASSUME Lists, NEW body \in Seq(Commands), NEW more \in Seq(Commands), NEW c \in Nat,
         Pending(body, c), todo = <<>>, fifo' = fifo,
         NEW n \in Nat, Len(todo') = n, Len(more) = Len(body) + n,
         \A i \in 1 .. Len(body) : more[i] = body[i],
         \A i \in 1 .. n : more[Len(body) + i] = todo'[i]
  PROVE  Pending(more, c)'
<1>1. Len(todo) = 0 /\ Len(fifo) \in Nat /\ Len(body) \in Nat /\ Len(more) \in Nat
  BY EmptySeq, LenProperties DEF Lists
<1>2. Len(fifo) + c = Len(body) /\ \A i \in 1 .. Len(fifo) : fifo[i] = body[c + i]
  BY <1>1 DEF Pending
<1>3. ASSUME NEW i \in 1 .. Len(fifo)
      PROVE  fifo[i] = more[c + i]
  <2>1. c + i \in 1 .. Len(body)
    BY <1>1, <1>2
  <2>. QED
    BY <1>2, <2>1
<1>4. ASSUME NEW i \in 1 .. n
      PROVE  todo'[i] = more[c + Len(fifo) + i]
  <2>1. c + Len(fifo) = Len(body)
    BY <1>1, <1>2
  <2>. QED
    BY <2>1
<1>5. Len(fifo) + n + c = Len(more)
  BY <1>1, <1>2
<1>6. Len(fifo') = Len(fifo)
  OBVIOUS
<1>7. Len(fifo') + Len(todo') + c = Len(more)
  BY <1>5, <1>6
<1>8. \A i \in 1 .. Len(fifo') : fifo'[i] = more[c + i]
  BY <1>3
<1>9. \A i \in 1 .. Len(todo') : todo'[i] = more[c + Len(fifo') + i]
  BY <1>4, <1>6
<1>. QED
  BY <1>7, <1>8, <1>9 DEF Pending

LEMMA NothingPending ==
  ASSUME Lists, NEW p \in {0, 1}, NEW c \in Nat, Pending(Body("none", p), c)
  PROVE  fifo = <<>> /\ todo = <<>> /\ c = 0
<1>1. Len(Body("none", p)) = 0
  BY EmptySeq DEF Body
<1>2. Len(fifo) \in Nat /\ Len(todo) \in Nat
  BY LenProperties DEF Lists
<1>. QED
  BY <1>1, <1>2, EmptySeq DEF Pending, Lists

(***************************************************************************)
(* What executing one command does, by the command.                        *)
(***************************************************************************)
LEMMA Executed ==
  ASSUME Lists, Execute
  PROVE  /\ Head(fifo) # Logo => fifo' = Tail(fifo)
         /\ Head(fifo) = Logo => fifo' = <<>> /\ shown' = <<Logo>> /\ spinning' = FALSE
         /\ Head(fifo) = DlStart => dl' = <<>> /\ ~swapPending
         /\ Head(fifo) \in Draws \cup {White} /\ Len(dl) < 4 => dl' = Append(dl, Head(fifo))
         /\ Head(fifo) \in {Swap, Load, Logo, Spinner, CmdStop} => dl' = dl
         /\ Head(fifo) = Swap => ~swapPending /\ swapped' = dl /\ swapPending' = TRUE
         /\ Head(fifo) # Swap => swapped' = swapped /\ swapPending' = swapPending
         /\ Head(fifo) = Spinner => shown' = <<Spinner>> /\ spinning' = TRUE
         /\ Head(fifo) = CmdStop => shown' = shown /\ spinning' = FALSE
         /\ Head(fifo) \notin {Logo, Spinner, CmdStop} => shown' = shown /\ (spinning' <=> spinning)
<1> USE CommandsDiffer DEF Execute, DlMax
<1>1. /\ Head(fifo) # Logo => fifo' = Tail(fifo)
      /\ Head(fifo) = Logo => fifo' = <<>> /\ shown' = <<Logo>>
      /\ Head(fifo) = Swap => ~swapPending /\ swapped' = dl /\ swapPending' = TRUE
      /\ Head(fifo) # Swap => swapped' = swapped /\ swapPending' = swapPending
      /\ Head(fifo) = Spinner => shown' = <<Spinner>>
      /\ Head(fifo) \notin {Logo, Spinner} => shown' = shown
  OBVIOUS
<1>2. /\ Head(fifo) = DlStart => dl' = <<>> /\ ~swapPending
      /\ Head(fifo) \in Draws \cup {White} /\ Len(dl) < 4 => dl' = Append(dl, Head(fifo))
      /\ Head(fifo) \in {Swap, Load, Logo, Spinner, CmdStop} => dl' = dl
  OBVIOUS
<1>3. /\ Head(fifo) = Logo => spinning' = FALSE
      /\ Head(fifo) = Spinner => spinning' = TRUE
      /\ Head(fifo) = CmdStop => spinning' = FALSE
      /\ Head(fifo) \notin {Logo, Spinner, CmdStop} => (spinning' <=> spinning)
  OBVIOUS
<1>. QED
  BY <1>1, <1>2, <1>3

LEMMA AppendTo ==
  ASSUME NEW d \in Draws
  PROVE  /\ Append(<<>>, d) = <<d>> /\ Append(<<d>>, d) = <<d, d>>
         /\ Len(<<>>) < 4 /\ Len(<<d>>) < 4
<1>1. <<>> \in Seq(Draws) /\ <<d>> \in Seq(Draws) /\ <<d, d>> \in Seq(Draws)
  OBVIOUS
<1>2. /\ Append(<<d>>, d) \in Seq(Draws)
      /\ Len(Append(<<d>>, d)) = 2 /\ Append(<<d>>, d)[1] = d /\ Append(<<d>>, d)[2] = d
  BY <1>1, AppendProperties
<1>3. Len(<<d, d>>) = 2 /\ <<d, d>>[1] = d /\ <<d, d>>[2] = d
  OBVIOUS
<1>4. \A i \in 1 .. 2 : Append(<<d>>, d)[i] = <<d, d>>[i]
  BY <1>2, <1>3
<1>5. Append(<<d>>, d) = <<d, d>>
  BY <1>1, <1>2, <1>3, <1>4, SeqEqual
<1>6. Append(<<>>, d) = <<d>> /\ Len(<<>>) < 4 /\ Len(<<d>>) < 4
  OBVIOUS
<1>. QED
  BY <1>5, <1>6

(***************************************************************************)
(* A program goes on as its commands are executed: the display list is     *)
(* built up as it should, is complete when it is swapped, and no spinner   *)
(* runs then.                                                              *)
(***************************************************************************)
LEMMA ExecuteProgram ==
  ASSUME Lists, Execute, NEW k \in Kinds, NEW p \in {0, 1}, NEW c \in Nat,
         Pending(Body(k, p), c), Built(k, p, c), Spins(k, c)
  PROVE  /\ Pending(Body(k, p), c + 1)' /\ Built(k, p, c + 1)' /\ Spins(k, c + 1)'
         /\ Head(fifo) = Swap => /\ dl \in Pictures \cup {<<White>>}
                                 /\ spinning => dl \notin Pictures
         /\ Head(fifo) = Spinner => ~swapPending
<1> DEFINE d == <<"draw", p>>
           cmd == Head(fifo)
<1>1. /\ Body(k, p) \in Seq(Commands) /\ c < Len(Body(k, p)) /\ cmd = Body(k, p)[c + 1]
      /\ UNCHANGED <<todo, spinnerPopped>> /\ d \in Draws
  BY BodyTyped, PendingTakes DEF Execute, HostKept, thread, context, Draws
<1>2. cmd # Logo => Pending(Body(k, p), c + 1)'
  BY <1>1, Executed, PendingTakes DEF Execute
<1> HIDE DEF d, cmd
<1>3. CASE k = "none"
  BY <1>1, <1>3, EmptySeq DEF Body
<1>4. CASE k \in {"load", "reset"}
  <2>1. cmd \in {Load, DlStart}
    BY <1>1, <1>4 DEF Body
  <2>. QED
    BY <1>1, <1>2, <1>4, <2>1, Executed, CommandsDiffer DEF cmd, Built, Spins, Frames
<1>5. CASE k = "logo"
  <2>1. cmd = Logo /\ c = 0 /\ Len(Body(k, p)) = 1
    BY <1>1, <1>5 DEF Body
  <2>2. fifo' = <<>> /\ Len(todo) = 0 /\ Len(todo') = 0
    BY <1>1, <2>1, Executed, LenProperties, EmptySeq DEF cmd, Pending, Lists, Execute
  <2>3. Pending(Body(k, p), c + 1)'
    BY <2>1, <2>2 DEF Pending
  <2>. QED
    BY <1>1, <1>5, <2>1, <2>3, Executed, CommandsDiffer DEF cmd, Built, Spins, Frames
<1>6. CASE k \in {"lists", "white"}
  <2>1. \/ c \in {0, 3, 6} /\ cmd = DlStart
        \/ c \in {1, 4, 7} /\ cmd = White
        \/ c \in {2, 5} /\ cmd = Swap
    BY <1>1, <1>6 DEF Body
  <2>2. CASE c \in {0, 3, 6} /\ cmd = DlStart
    BY <1>1, <1>2, <1>6, <2>2, Executed, CommandsDiffer DEF cmd, Built, Spins, Frames
  <2>3. CASE c \in {1, 4, 7} /\ cmd = White
    <3>1. dl = <<>> /\ Append(<<>>, White) = <<White>>
      BY <1>6, <2>3 DEF Built
    <3>2. dl' = <<White>>
      BY <2>3, <3>1, Executed DEF cmd
    <3>. QED
      BY <1>1, <1>2, <1>6, <2>3, <3>2, Executed, CommandsDiffer DEF cmd, Built, Spins, Frames
  <2>4. CASE c \in {2, 5} /\ cmd = Swap
    <3>1. dl = <<White>> /\ dl' = dl
      BY <1>6, <2>4, Executed DEF cmd, Built
    <3>. QED
      BY <1>1, <1>2, <1>6, <2>4, <3>1, Executed, CommandsDiffer, ScreensDiffer
         DEF cmd, Built, Spins, Frames
  <2>. QED
    BY <2>1, <2>2, <2>3, <2>4
<1>7. CASE k \in Frames
  <2>1. \/ c = 0 /\ cmd = DlStart
        \/ c \in {1, 2} /\ cmd = d
        \/ c = 3 /\ k = "swap" /\ cmd = Swap
        \/ c = 3 /\ k = "stop" /\ cmd = CmdStop
        \/ c = 4 /\ k = "stop" /\ cmd = Swap
        \/ c = 3 /\ k = "spin" /\ cmd = Spinner
    BY <1>1, <1>7 DEF Body, Frames, d
  <2>2. CASE c = 0 /\ cmd = DlStart
    BY <1>1, <1>2, <1>7, <2>2, Executed, CommandsDiffer DEF cmd, Built, Spins, Frames
  <2>3. CASE c \in {1, 2} /\ cmd = d
    <3>0. /\ c = 1 => dl = <<>>
          /\ c = 2 => dl = <<d>>
      BY <1>7, <2>3 DEF Built, d
    <3>a. Len(dl) < 4 /\ Append(<<>>, d) = <<d>> /\ Append(<<d>>, d) = <<d, d>>
      BY <1>1, <2>3, <3>0, AppendTo
    <3>1. dl' = Append(dl, d)
      BY <1>1, <2>3, <3>a, Executed DEF cmd
    <3>2. c = 1 => dl' = <<d>>
      BY <3>0, <3>a, <3>1
    <3>3. c = 2 => dl' = Picture(p)
      BY <3>0, <3>a, <3>1 DEF Picture, d
    <3>4. cmd \in Draws
      BY <1>7, <2>3 DEF d, Draws
    <3>5. cmd \notin {Logo, Spinner, CmdStop, Swap}
      BY ONLY <3>4, CommandsDiffer
    <3>6. Pending(Body(k, p), c + 1)'
      BY ONLY <1>2, <3>5
    <3>7. Built(k, p, c + 1)'
      BY ONLY <1>7, <2>3, <3>2, <3>3 DEF Built, Frames, d
    <3>8. (spinning' <=> spinning) /\ swapPending' = swapPending
      BY <3>5, Executed DEF cmd
    <3>9. Spins(k, c + 1)'
      BY ONLY Spins(k, c), <1>1, <1>7, <2>3, <3>8 DEF Spins, Frames
    <3>. QED
      BY ONLY <3>5, <3>6, <3>7, <3>9 DEF cmd
  <2>4. CASE c \in {3, 4} /\ k \in {"swap", "stop"} /\ cmd = Swap /\ (k = "stop" => c = 4)
    <3>1. dl = Picture(p) /\ dl' = dl /\ ~spinning
      BY <1>1, <1>7, <2>4, Executed DEF cmd, Built, Spins
    <3>. QED
      BY <1>1, <1>2, <1>7, <2>4, <3>1, Executed, CommandsDiffer, ScreensDiffer
         DEF cmd, Built, Spins, Frames
  <2>5. CASE c = 3 /\ k = "stop" /\ cmd = CmdStop
    BY <1>1, <1>2, <1>7, <2>5, Executed, CommandsDiffer DEF cmd, Built, Spins, Frames
  <2>6. CASE c = 3 /\ k = "spin" /\ cmd = Spinner
    BY <1>1, <1>2, <1>7, <2>6, Executed, CommandsDiffer DEF cmd, Built, Spins, Frames
  <2>. QED
    BY <2>1, <2>2, <2>3, <2>4, <2>5, <2>6
<1>. QED
  BY <1>3, <1>4, <1>5, <1>6, <1>7 DEF Kinds

(***************************************************************************)
(* Sound is inductive.                                                     *)
(***************************************************************************)
LEMMA AllowedKinds == \A stage \in Pcs : AllowedAt(stage) \subseteq Kinds
BY DEF Pcs, AllowedAt, Kinds, Frames

LEMMA ProgramStays ==
  ASSUME NEW k, NEW p, NEW c, Program(k, p, c),
         UNCHANGED <<fifo, todo, dl, spinning, spinnerPopped>>, swapPending' => swapPending
  PROVE  Program(k, p, c)'
BY DEF Program, Pending, Built, Spins

LEMMA ProgramBegins ==
  ASSUME NEW k \in Kinds \ {"swap", "stop", "spin"}, NEW p \in {0, 1},
         fifo' = <<>>, todo' = Body(k, p), spinning' => spinnerPopped'
  PROVE  Program(k, p, 0)'
BY BodyTyped, PendingBegins DEF Program, Built, Spins

LEMMA StageKept == pc = "write" /\ pc' = next /\ next' = next => Stage' = Stage
BY DEF Stage

(* When a function has waited for the FIFO to empty, its program is over.  *)
LEMMA ProgramOver ==
  ASSUME Lists, Rest, UnderWay, fifo = <<>>, todo = <<>>
  PROVE  spinning => spinnerPopped
<1>1. PICK k \in AllowedAt(Stage), p \in {0, 1}, c \in Nat : Program(k, p, c)
  BY DEF UnderWay
<1>2. k = "stop" => c = 5
  BY <1>1, EmptySeq DEF Program, Pending, Body
<1>. QED
  BY <1>1, <1>2 DEF Program, Spins

LEMMA WaitedFor ==
  ASSUME Flushed, ~fault, ~requestStop
  PROVE  fifo = <<>>
BY DEF Flushed, Aborts

LEMMA ProgramStep ==
  ASSUME Lists, Bools, Rest, Sound, [Next]_vars, ~requestStop, ~fault, ~fault'
  PROVE  UnderWay'
<1>1. Stage \in Pcs /\ UnderWay /\ (pc # "write" => todo = <<>>)
  BY DEF Rest, Stage, Sound
<1>2. PICK k \in AllowedAt(Stage), p \in {0, 1}, c \in Nat : Program(k, p, c)
  BY <1>1 DEF UnderWay
<1>3. k \in Kinds /\ parity \in {0, 1}
  BY <1>1, <1>2, AllowedKinds DEF Rest
<1>4. CASE Execute
  <2>1. Program(k, p, c + 1)' /\ Stage' = Stage
    BY <1>2, <1>3, <1>4, ExecuteProgram DEF Program, Stage, Execute, HostKept, thread
  <2>. QED
    BY <1>2, <2>1 DEF UnderWay
<1>5. CASE Display \/ Crash \/ SetFlags \/ UNCHANGED vars
  <2>1. /\ UNCHANGED <<fifo, todo, dl, spinning, spinnerPopped>>
        /\ swapPending' => swapPending
        /\ Stage' = Stage
    BY <1>5 DEF Display, Crash, SetFlags, HostKept, vars, coproc, context, thread, Stage
  <2>. QED
    BY <1>2, <2>1, ProgramStays DEF UnderWay
<1>6. CASE WriteCommand
  <2>1. HasSpace /\ fifo' = Append(fifo, Head(todo)) /\ todo' = Tail(todo) /\ Stage' = Stage
        /\ todo # <<>> /\ UNCHANGED <<dl, spinning, spinnerPopped, swapPending>>
    BY <1>6 DEF WriteCommand, Aborts, Stage
  <2>2. Program(k, p, c)'
    BY <1>2, <1>3, <2>1, BodyTyped, PendingWrites DEF Program, Built, Spins
  <2>. QED
    BY <1>2, <2>1, <2>2 DEF UnderWay
<1>7. CASE WriteDone
  <2>1. UNCHANGED <<fifo, todo, dl, spinning, spinnerPopped, swapPending>> /\ Stage' = Stage
    BY <1>7, StageKept DEF WriteDone, coproc, context
  <2>. QED
    BY <1>2, <2>1, ProgramStays DEF UnderWay
<1>8. CASE Loop \/ Update \/ (AppUpdate /\ pc' = "render") \/ (Render /\ pc' = "waitSwap")
            \/ SwapDone
  <2>1. UNCHANGED <<fifo, todo, dl, spinning, spinnerPopped, swapPending>>
    BY <1>8 DEF Loop, Update, AppUpdate, Render, SwapDone, Commit, coproc, context
  <2>2. Stage \in {"loop", "update", "appUpdate", "render", "swap"}
        /\ Stage' \in {"stopped", "update", "render", "appUpdate", "waitSwap", "loop"}
    BY <1>8 DEF Loop, Update, AppUpdate, Render, SwapDone, Commit, Stage
  <2>3. k = "none" /\ "none" \in AllowedAt(Stage')
    BY <1>2, <2>2 DEF AllowedAt
  <2>4. Program(k, p, c)'
    BY <1>2, <2>1, ProgramStays
  <2>. QED
    BY <2>3, <2>4 DEF UnderWay
<1>9. CASE Loading \/ ResetFlush \/ (EndLogo /\ pc' = "waitSwap")
            \/ (WaitSwap /\ pc' = "swap")
  <2>1. Flushed /\ pc # "write" /\ UNCHANGED <<fifo, todo, dl, spinning, spinnerPopped, swapPending>>
        /\ pc' \in {"render", "loop", "waitSwap", "swap"}
    BY <1>9 DEF Loading, ResetFlush, EndLogo, WaitSwap, Commit, coproc, context
  <2>2. fifo' = <<>> /\ todo' = Body("none", 0) /\ "none" \in AllowedAt(Stage')
    BY <1>1, <2>1, WaitedFor DEF Body, AllowedAt, Stage
  <2>3. spinning' => spinnerPopped'
    BY <1>1, <2>1, WaitedFor, ProgramOver
  <2>4. Program("none", 0, 0)'
    BY <2>2, <2>3, ProgramBegins DEF Kinds
  <2>. QED
    BY <2>2, <2>4 DEF UnderWay
<1>10. CASE WaitLogo
  <2>1. UNCHANGED <<fifo, todo, dl, spinning, spinnerPopped, swapPending>>
        /\ pc = "waitLogo" /\ pc' = "waitSwap"
    BY <1>10 DEF WaitLogo, coproc, context
  <2>2. k = "logo" /\ "logo" \in AllowedAt(Stage')
    BY <1>2, <2>1 DEF AllowedAt, Stage
  <2>. QED
    BY <1>2, <2>1, <2>2, ProgramStays DEF UnderWay
<1>11. CASE (AppUpdate \/ Render \/ LogoFlush \/ EndLogo \/ WaitSwap) /\ pc' = "write"
  <2>1. pc # "write" /\ pc' = "write"
        /\ \E j \in Kinds \ {"swap", "stop", "spin"}, q \in {0, 1} :
              todo' = Body(j, q) /\ j \in AllowedAt(next')
    BY <1>3, <1>11 DEF AppUpdate, Render, LogoFlush, EndLogo, WaitSwap, Commit, Frame, Draw, Body,
                 AllowedAt, Kinds, Frames
  <2>2. todo = <<>>
    BY <1>1, <2>1
  <2>3. fifo' = <<>>
    <3>1. CASE AppUpdate \/ Render
      <4>1. k = "none" /\ fifo' = fifo
        BY <1>2, <3>1 DEF AppUpdate, Render, Stage, AllowedAt, coproc
      <4>. QED
        BY <1>2, <4>1, NothingPending DEF Program
    <3>2. CASE LogoFlush \/ EndLogo
      BY <3>2, WaitedFor DEF LogoFlush, EndLogo, coproc
    <3>3. CASE WaitSwap
      BY <3>3, WaitedFor DEF WaitSwap
    <3>. QED
      BY <1>11, <3>1, <3>2, <3>3
  <2>4. spinning' => spinnerPopped'
    <3>1. fifo = <<>> => (spinning => spinnerPopped)
      BY <1>1, <2>2, ProgramOver
    <3>2. spinnerPopped' = spinnerPopped /\ (spinning' => spinning)
      BY <1>11 DEF AppUpdate, Render, LogoFlush, EndLogo, WaitSwap, coproc, context
    <3>3. spinning' => fifo = <<>>
      BY <1>11, <2>3, WaitedFor DEF AppUpdate, Render, LogoFlush, EndLogo, WaitSwap, coproc
    <3>. QED
      BY <3>1, <3>2, <3>3
  <2>5. PICK j \in Kinds \ {"swap", "stop", "spin"}, q \in {0, 1} :
          todo' = Body(j, q) /\ j \in AllowedAt(next')
    BY <2>1
  <2>6. Program(j, q, 0)'
    BY <2>3, <2>4, <2>5, ProgramBegins
  <2>. QED
    BY <1>3, <2>1, <2>5, <2>6 DEF UnderWay, Stage
<1>12. CASE Popup
  <2>1. /\ pc = "popup" /\ todo = <<>> /\ UNCHANGED <<fifo, dl, spinning, swapPending>>
        /\ pc' = "write" /\ next' = "waitSwap"
    BY <1>1, <1>12 DEF Popup, Commit, coproc
  <2>2. k = "frame"
    BY <1>2, <2>1 DEF AllowedAt, Stage
  <2>3. Pending(Body("frame", p), c) /\ (c >= 4 => FALSE)
    <3>1. Pending(Body("frame", p), c) /\ Len(Body("frame", p)) = 3
      BY <1>2, <2>2 DEF Program, Body
    <3>2. Len(fifo) \in Nat /\ Len(todo) \in Nat
      BY LenProperties DEF Lists
    <3>3. Len(fifo) + Len(todo) + c = 3
      BY <3>1 DEF Pending
    <3>. QED
      BY <3>1, <3>2, <3>3
  <2>4. \E j \in {"swap", "stop", "spin"} : Program(j, p, c)'
    <3>1. todo' = IF spinnerPopup THEN <<Spinner>>
                  ELSE IF spinnerPopped THEN <<CmdStop, Swap>> ELSE <<Swap>>
      BY <1>12 DEF Popup, Commit, LastCommands
    <3>2. spinnerPopped' = spinnerPopup /\ (spinning => spinnerPopped)
      BY <1>2, <1>12, <2>2 DEF Popup, Program, Spins
    <3>3. Built("frame", p, c) /\ (c \in 1 .. 3 => ~swapPending)
      BY <1>2, <2>2 DEF Program, Spins, Frames
    <3>7. Body("frame", p) \in Seq(Commands) /\ Len(Body("frame", p)) = 3
      BY BodyTyped DEF Kinds, Frames, Body
    <3>4. CASE spinnerPopup
      <4>0. /\ Len(Body("spin", p)) = 4
            /\ \A i \in 1 .. 3 : Body("spin", p)[i] = Body("frame", p)[i]
            /\ Len(todo') = 1 /\ todo'[1] = Spinner /\ Body("spin", p)[4] = Spinner
        BY <3>1, <3>4 DEF Body
      <4>b. Body("spin", p) \in Seq(Commands)
        BY BodyTyped DEF Kinds, Frames
      <4>c. /\ Len(Body("spin", p)) = Len(Body("frame", p)) + 1
            /\ \A i \in 1 .. Len(Body("frame", p)) : Body("spin", p)[i] = Body("frame", p)[i]
        <5>1. Len(Body("frame", p)) = 3 /\ Len(Body("spin", p)) = 3 + 1
          BY <3>7, <4>0
        <5>2. \A i \in 1 .. 3 : Body("spin", p)[i] = Body("frame", p)[i]
          BY <4>0
        <5>. QED
          BY <5>1, <5>2
      <4>d. \A i \in 1 .. 1 : Body("spin", p)[Len(Body("frame", p)) + i] = todo'[i]
        <5>1. Body("spin", p)[3 + 1] = todo'[1]
          BY <4>0
        <5>2. \A i \in 1 .. 1 : i = 1
          OBVIOUS
        <5>. QED
          BY <3>7, <5>1, <5>2
      <4>1. Pending(Body("spin", p), c)'
        BY <2>1, <2>3, <3>7, <4>0, <4>b, <4>c, <4>d, PendingContinues
      <4>2. Built("spin", p, c)' /\ Spins("spin", c)'
        BY <2>1, <3>2, <3>3, <3>4 DEF Built, Spins, Frames
      <4>. QED
        BY <4>1, <4>2 DEF Program
    <3>5. CASE ~spinnerPopup /\ spinnerPopped
      <4>0. /\ Len(Body("stop", p)) = 5
            /\ \A i \in 1 .. 3 : Body("stop", p)[i] = Body("frame", p)[i]
            /\ Len(todo') = 2 /\ todo'[1] = CmdStop /\ todo'[2] = Swap
            /\ Body("stop", p)[4] = CmdStop /\ Body("stop", p)[5] = Swap
        BY <3>1, <3>5 DEF Body
      <4>b. Body("stop", p) \in Seq(Commands)
        BY BodyTyped DEF Kinds, Frames
      <4>c. /\ Len(Body("stop", p)) = Len(Body("frame", p)) + 2
            /\ \A i \in 1 .. Len(Body("frame", p)) : Body("stop", p)[i] = Body("frame", p)[i]
        <5>1. Len(Body("frame", p)) = 3 /\ Len(Body("stop", p)) = 3 + 2
          BY <3>7, <4>0
        <5>2. \A i \in 1 .. 3 : Body("stop", p)[i] = Body("frame", p)[i]
          BY <4>0
        <5>. QED
          BY <5>1, <5>2
      <4>d. \A i \in 1 .. 2 : Body("stop", p)[Len(Body("frame", p)) + i] = todo'[i]
        <5>1. Body("stop", p)[3 + 1] = todo'[1] /\ Body("stop", p)[3 + 2] = todo'[2]
          BY <4>0
        <5>2. \A i \in 1 .. 2 : i = 1 \/ i = 2
          OBVIOUS
        <5>. QED
          BY <3>7, <5>1, <5>2
      <4>1. Pending(Body("stop", p), c)'
        BY <2>1, <2>3, <3>7, <4>0, <4>b, <4>c, <4>d, PendingContinues
      <4>2. Built("stop", p, c)' /\ Spins("stop", c)'
        BY <2>1, <2>3, <3>2, <3>3, <3>5, LenProperties DEF Built, Spins, Frames, Lists
      <4>. QED
        BY <4>1, <4>2 DEF Program
    <3>6. CASE ~spinnerPopup /\ ~spinnerPopped
      <4>0. /\ Len(Body("swap", p)) = 4
            /\ \A i \in 1 .. 3 : Body("swap", p)[i] = Body("frame", p)[i]
            /\ Len(todo') = 1 /\ todo'[1] = Swap /\ Body("swap", p)[4] = Swap
        BY <3>1, <3>6 DEF Body
      <4>b. Body("swap", p) \in Seq(Commands)
        BY BodyTyped DEF Kinds, Frames
      <4>c. /\ Len(Body("swap", p)) = Len(Body("frame", p)) + 1
            /\ \A i \in 1 .. Len(Body("frame", p)) : Body("swap", p)[i] = Body("frame", p)[i]
        <5>1. Len(Body("frame", p)) = 3 /\ Len(Body("swap", p)) = 3 + 1
          BY <3>7, <4>0
        <5>2. \A i \in 1 .. 3 : Body("swap", p)[i] = Body("frame", p)[i]
          BY <4>0
        <5>. QED
          BY <5>1, <5>2
      <4>d. \A i \in 1 .. 1 : Body("swap", p)[Len(Body("frame", p)) + i] = todo'[i]
        <5>1. Body("swap", p)[3 + 1] = todo'[1]
          BY <4>0
        <5>2. \A i \in 1 .. 1 : i = 1
          OBVIOUS
        <5>. QED
          BY <3>7, <5>1, <5>2
      <4>1. Pending(Body("swap", p), c)'
        BY <2>1, <2>3, <3>7, <4>0, <4>b, <4>c, <4>d, PendingContinues
      <4>2. Built("swap", p, c)' /\ Spins("swap", c)'
        BY <2>1, <3>2, <3>3, <3>6 DEF Built, Spins, Frames
      <4>. QED
        BY <4>1, <4>2 DEF Program
    <3>. QED
      BY <3>4, <3>5, <3>6
  <2>5. {"swap", "stop", "spin"} \subseteq AllowedAt("waitSwap")
    BY DEF AllowedAt
  <2>. QED
    BY <2>1, <2>4, <2>5 DEF UnderWay, Stage
<1>. QED
  BY <1>4, <1>5, <1>6, <1>7, <1>8, <1>9, <1>10, <1>11, <1>12
     DEF Next, Host, AppUpdate, Render, LogoFlush, EndLogo, WaitSwap, Commit

(* A reset throws away what was in the FIFO and begins anew.               *)
LEMMA ResetBegins ==
  ASSUME [Next]_vars, fault, ~fault'
  PROVE  UnderWay' /\ spinning' = FALSE /\ UNCHANGED <<shown, swapped>>
<1>1. WaitSwap /\ ResetNeeded
  BY DEF Next, Host, Execute, Display, Crash, SetFlags, WriteCommand, WriteDone, Loop, Update,
         AppUpdate, Loading, Render, LogoFlush, WaitLogo, EndLogo, Popup, WaitSwap, ResetNeeded,
         ResetFlush, SwapDone, vars, coproc
<1>2. fifo' = <<>> /\ todo' = <<DlStart, Load>> /\ spinning' = FALSE
      /\ pc' = "write" /\ next' = "resetFlush" /\ UNCHANGED <<shown, swapped>>
  BY <1>1 DEF WaitSwap, Commit
<1>3. todo' = Body("reset", 0) /\ "reset" \in AllowedAt(Stage')
  BY <1>2 DEF Body, AllowedAt, Stage
<1>4. Program("reset", 0, 0)'
  BY <1>2, <1>3, ProgramBegins DEF Kinds
<1>. QED
  BY <1>2, <1>3, <1>4 DEF UnderWay

LEMMA TodoStep ==
  ASSUME pc # "write" => todo = <<>>, Rest, [Next]_vars
  PROVE  pc' # "write" => todo' = <<>>
<1>1. CASE Execute \/ Display \/ Crash \/ SetFlags \/ UNCHANGED vars
  BY <1>1 DEF Execute, Display, Crash, SetFlags, HostKept, vars, thread
<1>2. CASE WriteCommand \/ WriteDone
  BY <1>2 DEF WriteCommand, WriteDone
<1>3. CASE Loop \/ Update \/ Loading \/ WaitLogo \/ ResetFlush \/ SwapDone
  BY <1>3 DEF Loop, Update, Loading, WaitLogo, ResetFlush, SwapDone
<1>4. CASE AppUpdate \/ Render \/ LogoFlush \/ EndLogo \/ Popup \/ WaitSwap
  BY <1>4 DEF AppUpdate, Render, LogoFlush, EndLogo, Popup, WaitSwap, Commit
<1>. QED
  BY <1>1, <1>2, <1>3, <1>4 DEF Next, Host

(* What is on the screen, what is shown next, and the spinner.             *)
OnScreen ==
  /\ shown \in Screens
  /\ swapped \in Pictures \cup {<<White>>}
  /\ spinning => shown \notin Pictures

NoneWaits == spinning /\ swapPending => swapped \notin Pictures

LEMMA ScreenStep ==
  ASSUME Lists, Bools, Rest, Sound, [Next]_vars, ~requestStop
  PROVE  OnScreen' /\ (~fault' => NoneWaits')
<1>1. OnScreen /\ (~fault => NoneWaits /\ UnderWay)
  BY DEF Sound, OnScreen, NoneWaits
<1>2. CASE Execute
  <2>1. ~fault /\ Stage \in Pcs
    BY <1>2 DEF Execute, Rest, Stage
  <2>2. PICK k \in AllowedAt(Stage), p \in {0, 1}, c \in Nat : Program(k, p, c)
    BY <1>1, <2>1 DEF UnderWay
  <2>3. /\ Head(fifo) = Swap => /\ dl \in Pictures \cup {<<White>>}
                                /\ spinning => dl \notin Pictures
        /\ Head(fifo) = Spinner => ~swapPending
    BY <1>2, <2>1, <2>2, AllowedKinds, ExecuteProgram DEF Program
  <2>4. CASE Head(fifo) = Swap
    <3>1. swapped' = dl /\ shown' = shown /\ (spinning' <=> spinning)
      BY <1>2, <2>4, Executed, CommandsDiffer
    <3>2. /\ swapped' \in Pictures \cup {<<White>>}
          /\ spinning' => swapped' \notin Pictures
      <4>1. dl \in Pictures \cup {<<White>>} /\ (spinning => dl \notin Pictures)
        BY <2>3, <2>4
      <4>2. (spinning' => spinning) /\ swapped' = dl
        BY <3>1
      <4>3. spinning' => dl \notin Pictures
        BY <4>1, <4>2
      <4>. QED
        BY <4>1, <4>2, <4>3
    <3>3. shown' \in Screens /\ (spinning' => shown' \notin Pictures)
      BY <1>1, <3>1 DEF OnScreen
    <3>. QED
      BY <3>2, <3>3 DEF OnScreen, NoneWaits
  <2>5. CASE Head(fifo) = Spinner
    <3>1. shown' = <<Spinner>> /\ swapped' = swapped /\ swapPending' = swapPending
      BY <1>2, <2>5, Executed, CommandsDiffer
    <3>. QED
      <4>1. shown' \in Screens /\ shown' \notin Pictures /\ ~swapPending'
        BY <2>3, <2>5, <3>1, ScreensDiffer DEF Screens
      <4>. QED
        BY <1>1, <3>1, <4>1 DEF OnScreen, NoneWaits
  <2>6. CASE Head(fifo) \in {Logo, CmdStop}
    <3>1. shown' \in {shown, <<Logo>>} /\ swapped' = swapped /\ spinning' = FALSE
      BY <1>2, <2>6, Executed, CommandsDiffer
    <3>. QED
      BY <1>1, <3>1 DEF OnScreen, NoneWaits, Screens
  <2>7. CASE Head(fifo) \notin {Swap, Logo, Spinner, CmdStop}
    <3>1. /\ shown' = shown /\ swapped' = swapped /\ swapPending' = swapPending
          /\ (spinning' <=> spinning)
      BY <1>2, <2>7, Executed
    <3>. QED
      BY <1>1, <2>1, <3>1 DEF OnScreen, NoneWaits
  <2>. QED
    BY <2>4, <2>5, <2>6, <2>7
<1>3. CASE Display
  <2>1. ~fault /\ swapPending /\ shown' = swapped /\ swapPending' = FALSE
        /\ UNCHANGED <<swapped, spinning>>
    BY <1>3 DEF Display
  <2>. QED
    BY <1>1, <2>1 DEF OnScreen, NoneWaits, Screens
<1>4. CASE fault /\ ~fault'
  <2>1. spinning' = FALSE /\ UNCHANGED <<shown, swapped>>
    BY <1>4, ResetBegins
  <2>. QED
    BY <1>1, <2>1 DEF OnScreen, NoneWaits
<1>5. CASE ~Execute /\ ~Display /\ ~(fault /\ ~fault')
  <2>1. UNCHANGED <<shown, swapped, swapPending>> /\ (spinning' => spinning)
    <3>1. CASE Crash \/ SetFlags \/ UNCHANGED vars
      BY <3>1 DEF Crash, SetFlags, vars, coproc
    <3>2. CASE WriteCommand \/ WriteDone \/ Loop \/ Update \/ AppUpdate \/ Loading \/ Render
      BY <3>2 DEF WriteCommand, WriteDone, Loop, Update, AppUpdate, Loading, Render, coproc
    <3>3. CASE LogoFlush \/ WaitLogo \/ EndLogo \/ Popup \/ WaitSwap \/ ResetFlush \/ SwapDone
      BY <3>3 DEF LogoFlush, WaitLogo, EndLogo, Popup, WaitSwap, ResetFlush, SwapDone, coproc
    <3>. QED
      BY <1>5, <3>1, <3>2, <3>3 DEF Next, Host
  <2>. QED
    BY <1>1, <1>5, <2>1 DEF OnScreen, NoneWaits
<1>. QED
  BY <1>2, <1>3, <1>4, <1>5

LEMMA StopIsFinal ==
  ASSUME [Next]_vars, requestStop
  PROVE  requestStop'
<1>1. CASE Execute \/ Display \/ Crash \/ SetFlags \/ UNCHANGED vars
  BY <1>1 DEF Execute, Display, Crash, SetFlags, HostKept, vars, flags
<1>2. CASE WriteCommand \/ WriteDone \/ Loop \/ Update \/ AppUpdate \/ Loading \/ Render
  BY <1>2 DEF WriteCommand, WriteDone, Loop, Update, AppUpdate, Loading, Render, flags
<1>3. CASE LogoFlush \/ WaitLogo \/ EndLogo \/ Popup \/ WaitSwap \/ ResetFlush \/ SwapDone
  BY <1>3 DEF LogoFlush, WaitLogo, EndLogo, Popup, WaitSwap, ResetFlush, SwapDone, flags
<1>. QED
  BY <1>1, <1>2, <1>3 DEF Next, Host

LEMMA SoundStep ==
  ASSUME TypeOK, Sound, [Next]_vars
  PROVE  Sound'
<1>1. Lists /\ Bools /\ Rest
  BY TypeParts
<1>2. pc' # "write" => todo' = <<>>
  BY <1>1, TodoStep DEF Sound
<1>3. ASSUME ~requestStop
      PROVE  OnScreen' /\ (~fault' => NoneWaits' /\ UnderWay')
  BY <1>1, <1>3, ScreenStep, ProgramStep, ResetBegins
<1>4. ~requestStop' => ~requestStop
  BY StopIsFinal
<1>. QED
  BY <1>2, <1>3, <1>4 DEF Sound, OnScreen, NoneWaits

LEMMA SoundInit == Init => Sound
<1> SUFFICES ASSUME Init PROVE Sound
  OBVIOUS
<1>1. Program("none", 0, 0)
  BY EmptySeq DEF Init, Program, Pending, Built, Spins, Body, Frames
<1>2. UnderWay
  BY <1>1 DEF Init, UnderWay, AllowedAt, Stage
<1>. QED
  BY <1>2 DEF Init, Sound, Screens

LEMMA SoundAlways == Spec => []Sound
<1>1. Init => Sound
  BY SoundInit
<1>2. TypeOK /\ Sound /\ [Next]_vars => Sound'
  BY SoundStep
<1>. QED
  BY <1>1, <1>2, TypeCorrect, PTL DEF Spec

(***************************************************************************)
(* What the user sees.                                                     *)
(***************************************************************************)
(* Until a stop is requested the screen shows whole pictures, whatever     *)
(* faults, resets, logos and loads happen, for every size of the FIFO      *)
(* (Esd_Render, Esd_WaitSwap).                                             *)
THEOREM ShownIsWhole == Spec => []ShownWhole
<1>1. Sound => ShownWhole
  BY DEF Sound, ShownWhole, Screens
<1>. QED
  BY <1>1, SoundAlways, PTL

(* Until a stop is requested the spinner does not run any more while a     *)
(* picture is shown (SpinnerPopped in Esd_Render).                         *)
THEOREM SpinnerIsStopped == Spec => []SpinnerStopped
<1>1. Sound => SpinnerStopped
  BY DEF Sound, SpinnerStopped
<1>. QED
  BY <1>1, SoundAlways, PTL
=============================================================================
