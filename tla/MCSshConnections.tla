-------------------------- MODULE MCSshConnections --------------------------
(* TLC instance of SshConnections: a target reached through a jump host,   *)
(* or one host on its own.                                                 *)
EXTENDS SshConnections
Bounds == [h \in {"target", "jump"} |-> IF h = "target" THEN 3 ELSE 2]
TargetViaJump == [h \in {"target"} |-> "jump"]
=============================================================================
