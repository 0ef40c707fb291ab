----------------------------- MODULE Documents -----------------------------
(***************************************************************************)
(* The document store (packages/document-service/src/document-store.ts) on *)
(* one file: the text on disk, the document the editor has open, the file  *)
(* watcher that reports changes of the file, and the other programs that   *)
(* change it.                                                              *)
(*                                                                         *)
(* A text is a number, new for every edit; hashes are compared only for    *)
(* equality, so a text stands for its hash too.  Every method that awaits  *)
(* a read of the file is two steps: the read, kept in reads, and what the  *)
(* method does with the text once it has it.  Everything after the last    *)
(* await is one step, as it is in the one JavaScript thread; in save that  *)
(* includes the write, which is synchronous.                               *)
(***************************************************************************)
EXTENDS Integers

CONSTANTS
  MaxText,  \* bound on the texts made
  Races     \* "staleRead": the file may change between a read that is to
            \* update the document and its use; "reloadInPatch": the user may
            \* resolve a conflict while a patch is being saved

ASSUME DocumentsAssumption == MaxText \in Nat \ {0} /\ Races \subseteq {"staleRead", "reloadInPatch"}

VARIABLES
  disk,     \* the text of the file, or NoFile
  doc,      \* the entry of the document in DocumentStore.docs
  reads,    \* for every reader the text it has read and not used yet
  noticed,  \* the file watcher has a change of the file to report
  made,     \* the number of texts made so far
  outside,  \* those of them made by the user and other programs
  writer,   \* who has put the text on disk there
  unseen    \* the text on disk was put there behind the document's back, and
            \* the document has not read it yet

docVars == <<disk, doc, reads, noticed, made, outside, writer, unseen>>

-----------------------------------------------------------------------------
Texts == 1 .. MaxText
NoFile == 0
Idle == -1

\* Who reads the file in order to act on the document.
Readers == {"watch", "save", "patch", "notify"}

\* What the document takes over from the file: these reads update it.
Updaters == {"watch", "notify"}

Writers == {"start", "foreign", "user", "unlogged", "task", "restored", "lost"}

Closed == [open |-> FALSE, text |-> NoFile, dirty |-> FALSE, known |-> NoFile,
           ext |-> "clean", own |-> NoFile]

\* The entry open() makes of the text it has read.
Opened(text) == [Closed EXCEPT !.open = TRUE, !.text = text, !.known = text]

DocsTypeOK ==
  /\ disk \in Texts \cup {NoFile}
  /\ doc \in [open : BOOLEAN, text : Texts \cup {NoFile}, dirty : BOOLEAN,
              known : Texts \cup {NoFile},
              ext : {"clean", "modified", "deleted"}, own : Texts \cup {NoFile}]
  /\ doc.open \/ doc = Closed
  /\ reads \in [Readers -> Texts \cup {NoFile, Idle}]
  /\ made \in Texts
  /\ outside \subseteq 1 .. made
  /\ writer \in Writers
  /\ {noticed, unseen} \subseteq BOOLEAN

DocsInit ==
  /\ disk \in {1, NoFile}
  /\ doc = Closed
  /\ reads = [r \in Readers |-> Idle]
  /\ noticed = FALSE
  /\ made = 1
  /\ outside = {}
  /\ writer = "start"
  /\ unseen = FALSE

-----------------------------------------------------------------------------
(* The file. *)

\* Without the race, a text read to update the document is used before the
\* file changes.
Still == "staleRead" \in Races \/ \A r \in Updaters : reads[r] = Idle

\* The file becomes text, which the watcher will report.
Write(text, by) ==
  /\ Still
  /\ disk' = text
  /\ writer' = IF text = disk THEN writer ELSE by
  /\ noticed' = TRUE

\* A new text of the user or of another program.
MadeOutside ==
  /\ made < MaxText
  /\ made' = made + 1
  /\ outside' = outside \cup {made + 1}

\* Another program writes the file, or deletes it.
ForeignWrite ==
  /\ MadeOutside
  /\ Write(made + 1, "foreign")
  /\ unseen' = TRUE
  /\ UNCHANGED <<doc, reads>>

ForeignDelete ==
  /\ disk # NoFile
  /\ Write(NoFile, "foreign")
  /\ unseen' = FALSE
  /\ UNCHANGED <<doc, reads, made, outside>>

\* A method reads the file.
Read(r) ==
  /\ reads[r] = Idle
  /\ reads' = [reads EXCEPT ![r] = disk]

Used(r) == reads' = [reads EXCEPT ![r] = Idle]

\* The document has read the text that is on disk, or an older one.
Noted(saw) == unseen' = (unseen /\ saw # disk)

-----------------------------------------------------------------------------
(* Opening, typing and closing. *)

Open ==
  /\ ~doc.open
  /\ disk # NoFile
  /\ doc' = Opened(disk)
  /\ Noted(disk)
  /\ UNCHANGED <<disk, reads, noticed, made, outside, writer>>

\* updateBuffer: the entry whose text becomes another.
Edited(d, text) == [d EXCEPT !.text = text, !.dirty = TRUE]

Type ==
  /\ doc.open
  /\ MadeOutside
  /\ doc' = Edited(doc, made + 1)
  /\ UNCHANGED <<disk, reads, noticed, writer, unseen>>

\* Not while a save is under way.  What was read for the entry is dropped
\* with it.
Close ==
  /\ doc.open
  /\ reads["save"] = Idle /\ reads["patch"] = Idle
  /\ doc' = Closed
  /\ reads' = [r \in Readers |-> Idle]
  /\ UNCHANGED <<disk, noticed, made, outside, writer, unseen>>

\* 2.5 s after a save the entry no longer recognises its own write.
Expire ==
  /\ doc.own # NoFile
  /\ doc' = [doc EXCEPT !.own = NoFile]
  /\ UNCHANGED <<disk, reads, noticed, made, outside, writer, unseen>>

-----------------------------------------------------------------------------
(* Saving. *)

\* The file is not what the document takes it for.
Drifted(d, saw) ==
  d.ext = "modified" \/ (saw # NoFile /\ d.known # NoFile /\ saw # d.known)

Conflicted(d) == [d EXCEPT !.ext = "modified"]

\* The entry after its text has been written.
Saved(d) ==
  [d EXCEPT !.dirty = FALSE, !.known = d.text, !.ext = "clean", !.own = d.text]

SaveBegin ==
  /\ doc.open
  /\ Read("save")
  /\ UNCHANGED <<disk, doc, noticed, made, outside, writer, unseen>>

\* What a save does once it has read the file: it refuses, or it writes the
\* text the document has by now.
SaveRefused(r) ==
  /\ reads[r] # Idle
  /\ Drifted(doc, reads[r])
  /\ doc' = Conflicted(doc)
  /\ Noted(reads[r])
  /\ Used(r)
  /\ UNCHANGED <<disk, noticed, made, outside, writer>>

SaveDone(r, by) ==
  /\ reads[r] # Idle
  /\ ~Drifted(doc, reads[r])
  /\ Write(doc.text, by)
  /\ doc' = Saved(doc)
  /\ unseen' = FALSE
  /\ Used(r)
  /\ UNCHANGED <<made, outside>>

\* The write fails, after which nothing has changed.
SaveFailed(r) ==
  /\ reads[r] # Idle
  /\ ~Drifted(doc, reads[r])
  /\ Used(r)
  /\ UNCHANGED <<disk, doc, noticed, made, outside, writer, unseen>>

ForceSave ==
  /\ doc.open
  /\ Write(doc.text, "user")
  /\ doc' = Saved(doc)
  /\ unseen' = FALSE
  /\ UNCHANGED <<reads, made, outside>>

-----------------------------------------------------------------------------
(* Changes of the file. *)

\* The watcher's batch: handleExternalChange reads the file of a document
\* that is open, and the report is dropped when it is not.
WatchBegin ==
  /\ noticed
  /\ noticed' = FALSE
  /\ IF doc.open THEN Read("watch") ELSE UNCHANGED reads
  /\ UNCHANGED <<disk, doc, made, outside, writer, unseen>>

\* Slip: within its time any change is taken for the entry's own.
ReportedOwn(d, saw) ==
  IF saw # NoFile /\ d.own # NoFile THEN [d EXCEPT !.own = NoFile]
  ELSE IF saw = NoFile THEN [d EXCEPT !.ext = "deleted", !.known = NoFile, !.dirty = TRUE]
  ELSE IF saw = d.known THEN d
  ELSE IF ~d.dirty THEN [d EXCEPT !.text = saw, !.known = saw, !.ext = "clean"]
  ELSE [d EXCEPT !.ext = "modified", !.known = saw]

\* Slip: a text typed since is not looked for.
ReportedOver(d, saw) ==
  IF saw # NoFile /\ d.own # NoFile /\ saw = d.own THEN [d EXCEPT !.own = NoFile]
  ELSE IF saw = NoFile THEN [d EXCEPT !.ext = "deleted", !.known = NoFile, !.dirty = TRUE]
  ELSE IF saw = d.known THEN d
  ELSE [Opened(saw) EXCEPT !.own = d.own]

\* A clean document takes the text over, one with edits is marked; a change
\* of its own, once, and no change at all are passed over.
Reported(d, saw) ==
  IF saw # NoFile /\ d.own # NoFile /\ saw = d.own THEN [d EXCEPT !.own = NoFile]
  ELSE IF saw = NoFile THEN [d EXCEPT !.ext = "deleted", !.known = NoFile, !.dirty = TRUE]
  ELSE IF saw = d.known THEN d
  ELSE IF ~d.dirty THEN [d EXCEPT !.text = saw, !.known = saw, !.ext = "clean"]
  ELSE [d EXCEPT !.ext = "modified", !.known = saw]

HandleExternalChange(r) ==
  /\ reads[r] # Idle
  /\ doc' = Reported(doc, reads[r])
  /\ Noted(reads[r])
  /\ Used(r)
  /\ UNCHANGED <<disk, noticed, made, outside, writer>>

\* resolveExternal: take the text on disk, or keep the document's.
Resolved(d, choice) ==
  IF choice = "reload"
  THEN [d EXCEPT !.text = disk, !.known = disk, !.dirty = FALSE, !.ext = "clean"]
  ELSE [d EXCEPT !.known = disk, !.dirty = TRUE, !.ext = "clean"]

ResolveExternal(choice) ==
  /\ doc.open
  /\ doc.ext # "clean"
  /\ choice = "reload" => disk # NoFile
  /\ "reloadInPatch" \in Races \/ reads["patch"] = Idle
  /\ doc' = Resolved(doc, choice)
  /\ Noted(disk)
  /\ UNCHANGED <<disk, reads, noticed, made, outside, writer>>

DocsNext ==
  \/ ForeignWrite \/ ForeignDelete
  \/ Open \/ Type \/ Close \/ Expire
  \/ SaveBegin \/ SaveRefused("save") \/ SaveDone("save", "user") \/ SaveFailed("save")
  \/ ForceSave
  \/ WatchBegin \/ HandleExternalChange("watch")
  \/ \E choice \in {"reload", "keep"} : ResolveExternal(choice)

=============================================================================
