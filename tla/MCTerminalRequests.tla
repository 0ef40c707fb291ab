------------------------- MODULE MCTerminalRequests -------------------------
(* TLC instances of TerminalRequests: bounds and races are in the          *)
(* configurations.                                                         *)
EXTENDS TerminalRequests
=============================================================================
