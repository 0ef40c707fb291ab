------------------------------ MODULE MCInbox ------------------------------
(* Model values and bounds for the runs of Inbox.                            *)
EXTENDS Inbox

MCNotices == {"inbox", "resume"}
=============================================================================
