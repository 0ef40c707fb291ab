--------------------------- MODULE MCTerminalSync ---------------------------
(* TLC instances of TerminalSync: the bounds and the races are in the      *)
(* configurations.                                                         *)
EXTENDS TerminalSync
=============================================================================
