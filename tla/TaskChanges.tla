---------------------------- MODULE TaskChanges ----------------------------
(***************************************************************************)
(* The change service (packages/change-service/src/change-service.ts) of   *)
(* one task, on the file and the document of Documents: the baseline kept  *)
(* before the first touch, patches checked against the text they were made *)
(* from, the change log, and what the reviewer may do with the result      *)
(* (reject a hunk, revert the file, roll the task back).                   *)
(*                                                                         *)
(* A task performs one operation at a time; the user, the watcher and      *)
(* other programs act between its steps.  A process that dies leaves the   *)
(* file, the baseline and the log.                                         *)
(***************************************************************************)
EXTENDS Documents

VARIABLES
  call,      \* the operation under way
  baseline,  \* the text kept before the task's first touch
  expected   \* the text the change log says the task has left on disk

vars == <<docVars, call, baseline, expected>>

-----------------------------------------------------------------------------
Nothing == -1
Known(x) == x # Nothing

Ops == {"patch", "create", "delete", "reject", "revert", "rollback", "force"}

\* The operations that tell an open document of the write they have made.
Notifying == {"delete", "reject", "revert", "rollback", "force"}

NoCall == [op |-> "none", pc |-> "idle", text |-> NoFile, saw |-> NoFile]

TypeOK ==
  /\ DocsTypeOK
  /\ call \in [op : Ops \cup {"none"},
               pc : {"idle", "check", "save", "write", "notify", "record"},
               text : Texts \cup {NoFile}, saw : Texts \cup {NoFile}]
  /\ reads["patch"] # Idle <=> call.pc = "save"
  /\ reads["notify"] # Idle => call.pc = "notify"
  /\ {baseline, expected} \subseteq Texts \cup {NoFile, Nothing}

Init ==
  /\ DocsInit
  /\ call = NoCall
  /\ baseline = Nothing
  /\ expected = Nothing

Free == call.op = "none"

\* readLogical: the text of the open document, else of the file.
Logical == IF doc.open THEN doc.text ELSE disk
Exists == doc.open \/ disk # NoFile

\* Slip: the row is replaced.
CapturedAgain == disk

\* ensureBaseline: the text on disk at the first touch.  INSERT OR IGNORE
\* keeps the first one.
Captured == IF Known(baseline) THEN baseline ELSE disk

Goes(pc) == call' = [call EXCEPT !.pc = pc]
Ends == call' = NoCall

-----------------------------------------------------------------------------
(* Operations of the agent. *)

\* A patch of the text the agent has read, once the baseline is kept.
PatchBegin ==
  /\ Free
  /\ baseline' = Captured
  /\ call' = [op |-> "patch", pc |-> "check", text |-> NoFile, saw |-> Logical]
  /\ UNCHANGED <<docVars, expected>>

\* The patch is for another text, or the file is gone.
Stale == ~Exists \/ call.saw # Logical

PatchRefused ==
  /\ call.pc = "check"
  /\ Stale
  /\ Ends
  /\ UNCHANGED <<docVars, baseline, expected>>

\* writeThrough: an open document takes the text and is then saved; a closed
\* file is written later and not compared again.
PatchDocument ==
  /\ call.pc = "check"
  /\ ~Stale /\ doc.open
  /\ made < MaxText
  /\ made' = made + 1
  /\ doc' = Edited(doc, made + 1)
  /\ Read("patch")
  /\ call' = [call EXCEPT !.pc = "save", !.text = made + 1]
  /\ UNCHANGED <<disk, noticed, outside, writer, unseen,
                 baseline, expected>>

PatchFile ==
  /\ call.pc = "check"
  /\ ~Stale /\ ~doc.open
  /\ made < MaxText
  /\ made' = made + 1
  /\ call' = [call EXCEPT !.pc = "write", !.text = made + 1]
  /\ UNCHANGED <<disk, doc, reads, noticed, outside, writer, unseen,
                 baseline, expected>>

\* What is saved is the document's text, to which the user may have added.
PatchSaved ==
  /\ SaveDone("patch", IF doc.text = call.text THEN "unlogged" ELSE "user")
  /\ Goes("record")
  /\ UNCHANGED <<baseline, expected>>

\* CHG_VERSION_CONFLICT, or the error of the write.
PatchNotSaved ==
  /\ SaveRefused("patch") \/ SaveFailed("patch")
  /\ Ends
  /\ UNCHANGED <<baseline, expected>>

\* create_file, of a file that is not there.
CreateBegin ==
  /\ Free
  /\ disk = NoFile
  /\ made < MaxText
  /\ made' = made + 1
  /\ baseline' = Captured
  /\ call' = [op |-> "create", pc |-> "write", text |-> made + 1, saw |-> NoFile]
  /\ UNCHANGED <<disk, doc, reads, noticed, outside, writer, unseen,
                 expected>>

\* delete_file; it fails when only the document is left.
DeleteBegin ==
  /\ Free
  /\ baseline' = Captured
  /\ IF disk # NoFile
     THEN call' = [op |-> "delete", pc |-> "write", text |-> NoFile, saw |-> NoFile]
     ELSE UNCHANGED call
  /\ UNCHANGED <<docVars, expected>>

-----------------------------------------------------------------------------
(* Operations of the reviewer, who has seen the logical text. *)

\* A hunk of the net diff is undone.
RejectBegin ==
  /\ Free
  /\ Known(baseline) /\ Exists /\ Logical # baseline
  /\ made < MaxText
  /\ made' = made + 1
  /\ call' = [op |-> "reject", pc |-> "write", text |-> made + 1, saw |-> NoFile]
  /\ UNCHANGED <<disk, doc, reads, noticed, outside, writer, unseen,
                 baseline, expected>>

\* The file is given its baseline back, or removed.
RevertBegin ==
  /\ Free
  /\ Known(baseline) /\ disk # baseline
  /\ call' = [op |-> "revert", pc |-> "write", text |-> baseline, saw |-> NoFile]
  /\ UNCHANGED <<docVars, baseline, expected>>

\* Slip: what the log says is not compared.
ForeignIfGone == disk = NoFile /\ baseline # NoFile

\* rollbackPreflight: the file is neither as the task found it nor as the
\* log says it left it.
Foreign == disk # baseline /\ Known(expected) /\ disk # expected

\* rollback; the conflict ends one that is not forced.
RollbackBegin(op) ==
  /\ Free
  /\ Known(baseline)
  /\ op = "force" \/ ~Foreign
  /\ call' = [op |-> op, pc |-> "write", text |-> baseline, saw |-> disk]
  /\ UNCHANGED <<docVars, baseline, expected>>

-----------------------------------------------------------------------------
(* The write, what follows it, and what interrupts it. *)

\* writeBytes (or rm, which fails when the file is gone): the file is
\* replaced as it is by now.
WriteBytes ==
  /\ call.pc = "write"
  /\ call.op \in {"delete", "revert"} /\ call.text = NoFile => disk # NoFile
  /\ Write(call.text, IF call.op \in {"rollback", "force"} THEN "restored" ELSE "unlogged")
  /\ unseen' = (call.text \notin {NoFile, doc.known})
  /\ Goes(IF doc.open /\ call.op \in Notifying THEN "notify" ELSE "record")
  /\ UNCHANGED <<doc, reads, made, outside, baseline, expected>>

WriteFailed ==
  /\ call.pc = "write"
  /\ Ends
  /\ UNCHANGED <<docVars, baseline, expected>>

\* The open document is told; one that has been closed since is not.
NotifyBegin ==
  /\ call.pc = "notify"
  /\ IF doc.open
     THEN Read("notify") /\ UNCHANGED call
     ELSE UNCHANGED reads /\ Goes("record")
  /\ UNCHANGED <<disk, doc, noticed, made, outside, writer, unseen,
                 baseline, expected>>

NotifyEnd ==
  /\ call.pc = "notify"
  /\ HandleExternalChange("notify")
  /\ Goes("record")
  /\ UNCHANGED <<baseline, expected>>

\* Slip: a file that is reverted is not logged either.
RecordUnlessReverted ==
  /\ call.pc = "record"
  /\ expected' = IF call.op \in {"rollback", "force", "revert"} THEN expected ELSE call.text
  /\ writer' = IF writer = "unlogged" THEN "task" ELSE writer
  /\ Ends
  /\ UNCHANGED <<disk, doc, reads, noticed, made, outside, unseen, baseline>>

\* recordChange, which a rollback does not make.
Record ==
  /\ call.pc = "record"
  /\ expected' = IF call.op \in {"rollback", "force"} THEN expected ELSE call.text
  /\ writer' = IF writer = "unlogged" THEN "task" ELSE writer
  /\ Ends
  /\ UNCHANGED <<disk, doc, reads, noticed, made, outside, unseen,
                 baseline>>

\* The process dies, and is started again.
Crash ==
  /\ doc' = Closed
  /\ reads' = [r \in Readers |-> Idle]
  /\ noticed' = FALSE
  /\ call' = NoCall
  /\ writer' = IF writer = "unlogged" THEN "lost" ELSE writer
  /\ UNCHANGED <<disk, made, outside, unseen, baseline, expected>>

UserActs == DocsNext /\ UNCHANGED <<call, baseline, expected>>

Next ==
  \/ UserActs
  \/ PatchBegin \/ PatchRefused \/ PatchDocument \/ PatchFile
  \/ PatchSaved \/ PatchNotSaved
  \/ CreateBegin \/ DeleteBegin \/ RejectBegin \/ RevertBegin
  \/ \E op \in {"rollback", "force"} : RollbackBegin(op)
  \/ WriteBytes \/ WriteFailed \/ NotifyBegin \/ NotifyEnd \/ Record \/ Crash

Spec == Init /\ [][Next]_vars

-----------------------------------------------------------------------------
(* Properties. *)

\* Text the user has typed and not saved stays in the document until the
\* user types more, takes the text on disk or closes it, or the agent patches
\* that very text (handleExternalChange decides after its read, save writes
\* the text of that moment, a patch is compared with the document).
EditsKept ==
  [][doc.open /\ doc.dirty /\ doc'.open /\ doc'.text # doc.text =>
       \/ made' = made + 1 /\ (call.pc = "check" /\ call'.pc = "save" => call.saw = doc.text)
       \/ doc.ext # "clean" /\ doc' = Resolved(doc, "reload")]_vars

\* A save that is not forced writes over a text the document has never read,
\* and which was there when the save looked ...
SavesOver ==
  /\ unseen /\ disk # NoFile
  /\ \E r \in {"save", "patch"} : reads[r] = disk /\ reads'[r] = Idle
  /\ disk' # disk

\* ... only when the document took the file for deleted ...
SavesSpareUnseen == [][SavesOver => doc.known = NoFile]_vars

\* Neither the user's text nor another program's is lost silently.
NoTextIsLost == EditsKept /\ SavesSpareUnseen

\* A save never overwrites unread text, not even of a file made again.
SavesSpareRecreated == [][~SavesOver]_vars

\* When nothing is under way, an open document without edits and without a
\* mark shows what is on disk.
CleanShowsDisk ==
  /\ doc.open /\ ~doc.dirty /\ doc.ext = "clean"
  /\ ~noticed /\ \A r \in Readers : reads[r] = Idle
  /\ call.pc # "notify"
  => doc.text = disk

\* The baseline is a text from before the task or from outside it, in
\* whatever order its operations, failures and restarts come: a rollback
\* never gives the task's own work back as the original.
BaselineIsOriginal == Known(baseline) => baseline \in outside \cup {NoFile, 1}

\* What the task wrote and logged is what a rollback expects to find: without
\* another writer it meets no conflict.
LogTellsDisk == writer = "task" => disk = expected

\* A rollback that is not forced writes over a text of the user or another
\* program that was there when it looked ("Review the conflicts - rollback
\* will not overwrite them silently") ...
RollsOver ==
  /\ call.op = "rollback" /\ call.pc = "write" /\ call'.pc # "write"
  /\ disk \in outside /\ disk = call.saw /\ disk' # disk

\* ... never where the log has a change of the task ...
RollbackSparesOthers == [][RollsOver => ~Known(expected)]_vars

\* ... nor where it has none.
RollbackSparesUntouched == [][~RollsOver]_vars

\* A patch that is refused because the file changed has changed nothing
\* ("Nothing was overwritten").
RefusedPatchIsGone ==
  [][call.pc = "save" /\ call'.pc = "idle" /\ doc'.open /\ doc'.ext = "modified"
       => doc'.text # call.text]_vars

=============================================================================
