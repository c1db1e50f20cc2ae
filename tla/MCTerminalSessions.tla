------------------------- MODULE MCTerminalSessions -------------------------
(* Small instances of TerminalSessions.                                      *)
EXTENDS TerminalSessions
=============================================================================
