------------------------------ MODULE CmdQueue ------------------------------
(***************************************************************************)
(* What EVE_Cmd promises to the code above it: a bounded first-in          *)
(* first-out queue of command words between the host and the coprocessor.  *)
(* Accepted words become visible to the coprocessor when they are          *)
(* published, are executed in order and exactly once, and are only ever    *)
(* dropped by a coprocessor fault.  EveCmd is shown to implement this.     *)
(***************************************************************************)
EXTENDS Naturals, Sequences

CONSTANTS Words,     \* the payloads of a command word
          Capacity   \* the most words accepted and not yet executed

VARIABLES pending,   \* accepted words, oldest first
          visible,   \* how many of them the coprocessor may execute
          halted     \* the coprocessor has faulted

vars == <<pending, visible, halted>>

Init == pending = <<>> /\ visible = 0 /\ halted = FALSE

(* The host appends words, at most as many as there is room for.           *)
Put ==
  /\ ~halted
  /\ Len(pending') \in Len(pending) + 1 .. Capacity
  /\ pending' \in Seq(Words)
  /\ SubSeq(pending', 1, Len(pending)) = pending
  /\ visible' \in {visible, Len(pending')}
  /\ UNCHANGED halted

(* All accepted words are handed to the coprocessor.                       *)
Publish ==
  /\ ~halted
  /\ visible' = Len(pending)
  /\ UNCHANGED <<pending, halted>>

(* The coprocessor executes the oldest word.                               *)
Take ==
  /\ ~halted /\ visible > 0
  /\ pending' = Tail(pending)
  /\ visible' = visible - 1
  /\ UNCHANGED halted

(* A fault stops the coprocessor and drops what it had not executed.       *)
Halt == ~halted /\ halted' = TRUE /\ pending' = <<>> /\ visible' = 0

(* A coprocessor reset starts over with an empty queue.                    *)
Reset == halted' = FALSE /\ pending' = <<>> /\ visible' = 0

(* A reset may come at any time; when it does is for an implementation to  *)
(* say: all its other steps are among these.                               *)
Serve == Put \/ Publish \/ Take \/ Halt

Next == Serve \/ Reset

Spec == Init /\ [][Next]_vars
=============================================================================
