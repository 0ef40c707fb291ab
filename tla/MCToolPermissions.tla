------------------------- MODULE MCToolPermissions -------------------------
(* TLC instances of ToolPermissions: which Sessions, and what their agents *)
(* may ask for, are named by the configurations.                           *)
EXTENDS ToolPermissions, TLC

Of(task, tool, level, recognized, key) ==
  [task |-> task, tool |-> tool, level |-> level, recognized |-> recognized, key |-> key]

\* A Session that asks about most things, and one that asks about little.
TwoModes == ("edit" :> "edit") @@ ("auto" :> "auto")

\* Commands with one key and several levels, as find has with and without
\* -delete; a file to write, and what the tool's policy allows or forbids.
Commands ==
  {Of("edit", "other", "R2", FALSE, "find"), Of("edit", "other", "R3", FALSE, "find"),
   Of("auto", "other", "R1", FALSE, "find"), Of("auto", "other", "R2", FALSE, "find"),
   Of("edit", "other", "R4", FALSE, "sudo"), Of("auto", "write", "R1", FALSE, "patch"),
   Of("edit", "autoAllow", "R3", FALSE, "send")}
=============================================================================
