------------------------- MODULE MCTerminalStream -------------------------
(* A small instance of TerminalStream by itself, for the claim the code does *)
(* not keep; what it does keep is checked with MCWorkbench.                  *)
EXTENDS TerminalStream
=============================================================================
