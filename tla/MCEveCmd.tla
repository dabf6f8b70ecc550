------------------------------ MODULE MCEveCmd ------------------------------
(* The command FIFO of EveCmd on a FIFO of four words.                     *)
EXTENDS EveCmd

CONSTANTS a, b   \* command words: the protocol never looks at them

Payloads == {a, b}
=============================================================================
