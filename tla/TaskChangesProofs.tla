-------------------------- MODULE TaskChangesProofs --------------------------
(***************************************************************************)
(* What holds of TaskChanges for any number of texts: its types, that the  *)
(* baseline is the original, that a rollback writes over no work but the   *)
(* task's where the log knows of the file, that neither a save nor the     *)
(* watcher loses text, and, when no report is used late, that the log and  *)
(* an open document without edits agree with the file.                     *)
(*                                                                         *)
(* The argument is an order on texts: each is made once, the outside makes *)
(* its own, and while the task has no baseline all texts after the first   *)
(* are from outside.                                                       *)
(***************************************************************************)
EXTENDS TaskChanges, TLAPS

\* The entries of the store over a set of texts.
Entries(T) == [open : BOOLEAN, text : T, dirty : BOOLEAN, known : T,
               ext : {"clean", "modified", "deleted"}, own : T]

MadeTexts == 0 .. made

\* The strengthened type invariant of Documents: nothing refers to a text
\* that has not been made, and who has read the file has a document to update.
FileGood ==
  /\ made \in Texts /\ outside \subseteq 1 .. made
  /\ disk \in MadeTexts
  /\ writer \in Writers
  /\ noticed \in BOOLEAN /\ unseen \in BOOLEAN

DocGood == doc \in Entries(MadeTexts) /\ (doc.open \/ doc = Closed)

ReadsGood ==
  /\ reads \in [Readers -> MadeTexts \cup {Idle}]
  /\ \A r \in Readers : reads[r] # Idle => doc.open

\* A text put on disk behind the document's back is not the one it knows.
UnseenIsNew == unseen => disk # NoFile /\ disk # doc.known

DocsGood == FileGood /\ DocGood /\ ReadsGood /\ UnseenIsNew

-----------------------------------------------------------------------------
(* The operators on an entry. *)

LEMMA ClosedIsEntry ==
  ASSUME NEW T, NoFile \in T
  PROVE  Closed \in Entries(T) /\ Closed.open = FALSE /\ Closed.known = NoFile
  BY DEF Closed, Entries

LEMMA OpenedIsEntry ==
  ASSUME NEW T, NoFile \in T, NEW text \in T
  PROVE  Opened(text) \in Entries(T) /\ Opened(text).open = TRUE /\ Opened(text).known = text
  BY DEF Opened, Closed, Entries

LEMMA EditedIsEntry ==
  ASSUME NEW T, NEW d \in Entries(T), NEW text \in T
  PROVE  /\ Edited(d, text) \in Entries(T)
         /\ Edited(d, text).open = d.open /\ Edited(d, text).known = d.known
         /\ Edited(d, text).text = text /\ Edited(d, text).dirty = TRUE
  BY DEF Edited, Entries

LEMMA SavedIsEntry ==
  ASSUME NEW T, NEW d \in Entries(T)
  PROVE  /\ Saved(d) \in Entries(T) /\ Saved(d).open = d.open
         /\ Saved(d).text = d.text /\ Saved(d).dirty = FALSE
  BY DEF Saved, Entries

LEMMA ConflictedIsEntry ==
  ASSUME NEW T, NEW d \in Entries(T)
  PROVE  /\ Conflicted(d) \in Entries(T)
         /\ Conflicted(d).open = d.open /\ Conflicted(d).known = d.known
         /\ Conflicted(d).text = d.text /\ Conflicted(d).dirty = d.dirty
  BY DEF Conflicted, Entries

LEMMA ReportedIsEntry ==
  ASSUME NEW T, NoFile \in T, NEW d \in Entries(T), NEW saw \in T
  PROVE  /\ Reported(d, saw) \in Entries(T) /\ Reported(d, saw).open = d.open
         /\ Reported(d, saw).known \in {d.known, saw}
         /\ d.dirty => Reported(d, saw).text = d.text /\ Reported(d, saw).dirty
         /\ Reported(d, saw).text \in {d.text, saw}
  BY DEF Reported, Entries

LEMMA ResolvedIsEntry ==
  ASSUME NEW T, NEW d \in Entries(T), disk \in T, NEW choice
  PROVE  /\ Resolved(d, choice) \in Entries(T) /\ Resolved(d, choice).open = d.open
         /\ Resolved(d, choice).known = disk
  BY DEF Resolved, Entries

\* What is typed for n texts is typed for more.
LEMMA EntriesGrow ==
  ASSUME NEW S, NEW T, S \subseteq T, NEW d \in Entries(S)
  PROVE  d \in Entries(T)
  BY DEF Entries

-----------------------------------------------------------------------------
(* The steps of the store. *)

\* A text is made, by the user or another program, or by the task.
LEMMA MakingKeepsTexts ==
  ASSUME DocsGood, made < MaxText, made' = made + 1
  PROVE  /\ made' \in Texts /\ MadeTexts \subseteq MadeTexts' /\ made + 1 \in MadeTexts'
         /\ made + 1 \notin MadeTexts /\ made + 1 \notin outside /\ made + 1 # NoFile
         /\ outside \subseteq 1 .. made' /\ outside \cup {made + 1} \subseteq 1 .. made'
         /\ doc \in Entries(MadeTexts') /\ reads \in [Readers -> MadeTexts' \cup {Idle}]
         /\ NoFile \in MadeTexts'
  <1>1. made \in Nat /\ MaxText \in Nat /\ made \in Texts
    BY DocumentsAssumption DEF DocsGood, FileGood, Texts
  <1>2. MadeTexts \subseteq MadeTexts' /\ made + 1 \in MadeTexts' /\ made + 1 \notin MadeTexts
    BY <1>1 DEF MadeTexts
  <1>3. made' \in Texts
    BY <1>1, DocumentsAssumption DEF Texts
  <1>4. outside \subseteq 1 .. made
    BY DEF DocsGood, FileGood
  <1>5. /\ made + 1 \notin outside /\ made + 1 # NoFile
        /\ outside \subseteq 1 .. made' /\ outside \cup {made + 1} \subseteq 1 .. made'
    BY <1>1, <1>4 DEF NoFile
  <1>6. doc \in Entries(MadeTexts')
    BY <1>2, EntriesGrow DEF DocsGood, DocGood
  <1>7. reads \in [Readers -> MadeTexts' \cup {Idle}]
    BY <1>2 DEF DocsGood, ReadsGood
  <1>8. NoFile \in MadeTexts'
    BY <1>1 DEF MadeTexts, NoFile
  <1> QED BY <1>2, <1>3, <1>5, <1>6, <1>7, <1>8

LEMMA MadeTextsBasics ==
  ASSUME DocsGood
  PROVE  NoFile \in MadeTexts /\ made \in Nat /\ made < MaxText + 1
  BY DocumentsAssumption DEF DocsGood, FileGood, MadeTexts, Texts, NoFile

LEMMA ForeignWriteGood == ASSUME DocsGood, ForeignWrite PROVE DocsGood'
  <1>1. made < MaxText /\ made' = made + 1 /\ outside' = outside \cup {made + 1}
    BY DEF ForeignWrite, MadeOutside
  <1>2. disk' = made + 1 /\ noticed' = TRUE /\ unseen' = TRUE /\ UNCHANGED <<doc, reads>>
    BY DEF ForeignWrite, Write
  <1>3. writer' \in {writer, "foreign"}
    BY DEF ForeignWrite, Write
  <1>4. /\ made' \in Texts /\ made + 1 \in MadeTexts' /\ made + 1 \notin MadeTexts
        /\ made + 1 # NoFile /\ outside' \subseteq 1 .. made'
        /\ doc \in Entries(MadeTexts') /\ reads \in [Readers -> MadeTexts' \cup {Idle}]
    BY <1>1, MakingKeepsTexts
  <1>5. FileGood'
    <2>1. writer' \in Writers
      BY <1>3 DEF DocsGood, FileGood, Writers
    <2>2. noticed' \in BOOLEAN /\ unseen' \in BOOLEAN
      BY <1>2, Zenon
    <2> QED BY <1>1, <1>2, <1>4, <2>1, <2>2 DEF FileGood
  <1>6. DocGood' /\ ReadsGood'
    BY <1>2, <1>4 DEF DocsGood, DocGood, ReadsGood
  <1>7. doc.known \in MadeTexts
    BY DEF DocsGood, DocGood, Entries
  <1>8. UnseenIsNew'
    BY <1>2, <1>4, <1>7 DEF UnseenIsNew
  <1> QED BY <1>5, <1>6, <1>8 DEF DocsGood

\* The steps that make no text.

LEMMA WrittenGood ==
  ASSUME FileGood, NEW text \in MadeTexts, NEW by \in Writers, Write(text, by),
         UNCHANGED <<made, outside>>, unseen' \in BOOLEAN
  PROVE  FileGood' /\ disk' = text
  <1>1. disk' = text /\ noticed' \in BOOLEAN
    BY Zenon DEF Write
  <1>2. writer' \in Writers
    BY DEF Write, FileGood
  <1> QED BY <1>1, <1>2 DEF FileGood, MadeTexts

\* One reader is done; the others have what they have read.
LEMMA UsedGood ==
  ASSUME ReadsGood, NEW r \in Readers, Used(r), made' = made, doc'.open = doc.open
  PROVE  ReadsGood'
  BY DEF ReadsGood, Used, MadeTexts

LEMMA ReadGood ==
  ASSUME ReadsGood, NEW r \in Readers, Read(r), made' = made, disk \in MadeTexts,
         doc.open, doc'.open
  PROVE  ReadsGood'
  BY DEF ReadsGood, Read, MadeTexts

LEMMA SameFileGood ==
  ASSUME FileGood, UNCHANGED <<disk, made, outside, writer>>,
         noticed' \in BOOLEAN, unseen' \in BOOLEAN
  PROVE  FileGood'
  BY DEF FileGood, MadeTexts

LEMMA NotedIsBoolean ==
  ASSUME NEW saw, Noted(saw)
  PROVE  unseen' \in BOOLEAN /\ (unseen' => unseen /\ saw # disk)
  BY Zenon DEF Noted

LEMMA FileIsMade == ASSUME DocsGood PROVE disk \in MadeTexts /\ NoFile \in MadeTexts
  BY MadeTextsBasics DEF DocsGood, FileGood

LEMMA DocIsEntry ==
  ASSUME DocsGood
  PROVE  doc \in Entries(MadeTexts) /\ doc.text \in MadeTexts /\ doc.known \in MadeTexts
  BY DEF DocsGood, DocGood, Entries

LEMMA ForeignDeleteGood == ASSUME DocsGood, ForeignDelete PROVE DocsGood'
  <1>1. /\ Write(NoFile, "foreign") /\ UNCHANGED <<doc, reads, made, outside>>
        /\ unseen' = FALSE
    BY DEF ForeignDelete
  <1>2. unseen' \in BOOLEAN
    BY <1>1, Zenon
  <1>3. FileGood'
    BY <1>1, <1>2, FileIsMade, WrittenGood DEF DocsGood, Writers
  <1> QED BY <1>1, <1>3 DEF DocsGood, DocGood, ReadsGood, UnseenIsNew, MadeTexts

LEMMA OpenGood == ASSUME DocsGood, Open PROVE DocsGood'
  <1>1. /\ doc' = Opened(disk) /\ Noted(disk) /\ ~doc.open
        /\ UNCHANGED <<disk, reads, noticed, made, outside, writer>>
    BY DEF Open
  <1>2. unseen' = FALSE
    BY <1>1 DEF Noted
  <1>3. doc' \in Entries(MadeTexts') /\ doc'.open = TRUE
    BY <1>1, FileIsMade, OpenedIsEntry DEF MadeTexts
  <1>4. FileGood'
    BY <1>1, NotedIsBoolean, SameFileGood DEF DocsGood, FileGood
  <1>5. ReadsGood'
    BY <1>1, <1>3 DEF DocsGood, ReadsGood, MadeTexts
  <1> QED BY <1>2, <1>3, <1>4, <1>5 DEF DocsGood, DocGood, UnseenIsNew

LEMMA TypeGood == ASSUME DocsGood, Type PROVE DocsGood'
  <1>1. made < MaxText /\ made' = made + 1 /\ outside' = outside \cup {made + 1}
    BY DEF Type, MadeOutside
  <1>2. /\ doc' = Edited(doc, made + 1) /\ doc.open
        /\ UNCHANGED <<disk, reads, noticed, writer, unseen>>
    BY DEF Type
  <1>3. /\ made' \in Texts /\ MadeTexts \subseteq MadeTexts' /\ made + 1 \in MadeTexts'
        /\ outside' \subseteq 1 .. made'
        /\ doc \in Entries(MadeTexts') /\ reads \in [Readers -> MadeTexts' \cup {Idle}]
    BY <1>1, MakingKeepsTexts
  <1>4. doc' \in Entries(MadeTexts') /\ doc'.open = doc.open /\ doc'.known = doc.known
    <2>1. doc \in Entries(MadeTexts') /\ made + 1 \in MadeTexts'
      BY <1>3
    <2>2. /\ Edited(doc, made + 1) \in Entries(MadeTexts')
          /\ Edited(doc, made + 1).open = doc.open /\ Edited(doc, made + 1).known = doc.known
      BY <2>1, EditedIsEntry
    <2> QED BY <1>2, <2>2
  <1>5. FileGood'
    BY <1>2, <1>3 DEF DocsGood, FileGood
  <1> QED BY <1>2, <1>3, <1>4, <1>5 DEF DocsGood, DocGood, ReadsGood, UnseenIsNew

LEMMA CloseGood == ASSUME DocsGood, Close PROVE DocsGood'
  <1>1. /\ doc' = Closed /\ reads' = [r \in Readers |-> Idle]
        /\ UNCHANGED <<disk, noticed, made, outside, writer, unseen>>
    BY DEF Close
  <1>2. doc' \in Entries(MadeTexts') /\ doc'.known = NoFile
    BY <1>1, FileIsMade, ClosedIsEntry DEF MadeTexts
  <1>3. FileGood' /\ ReadsGood'
    BY <1>1 DEF DocsGood, FileGood, ReadsGood, MadeTexts
  <1> QED BY <1>1, <1>2, <1>3 DEF DocsGood, DocGood, UnseenIsNew

LEMMA ExpireGood == ASSUME DocsGood, Expire PROVE DocsGood'
  <1>1. /\ doc' = [doc EXCEPT !.own = NoFile] /\ doc.own # NoFile
        /\ UNCHANGED <<disk, reads, noticed, made, outside, writer, unseen>>
    BY DEF Expire
  <1>2. doc.open
    BY <1>1 DEF DocsGood, DocGood, Closed
  <1>3. doc' \in Entries(MadeTexts') /\ doc'.open = doc.open /\ doc'.known = doc.known
    BY <1>1, FileIsMade DEF DocsGood, DocGood, Entries, MadeTexts
  <1> QED BY <1>1, <1>2, <1>3 DEF DocsGood, DocGood, FileGood, ReadsGood, UnseenIsNew, MadeTexts

LEMMA SaveBeginGood == ASSUME DocsGood, SaveBegin PROVE DocsGood'
  <1>1. doc.open /\ Read("save") /\ UNCHANGED <<disk, doc, noticed, made, outside, writer, unseen>>
    BY DEF SaveBegin
  <1>2. ReadsGood'
    BY <1>1, ReadGood DEF DocsGood, FileGood, Readers
  <1> QED BY <1>1, <1>2 DEF DocsGood, DocGood, FileGood, UnseenIsNew, MadeTexts

\* The next lemmas hold for the user's save and for the agent's.
LEMMA SaveRefusedGood == ASSUME DocsGood, NEW r \in Readers, SaveRefused(r) PROVE DocsGood'
  <1>1. /\ doc' = Conflicted(doc) /\ Noted(reads[r]) /\ Used(r) /\ reads[r] # Idle
        /\ UNCHANGED <<disk, noticed, made, outside, writer>>
    BY DEF SaveRefused
  <1>2. /\ doc' \in Entries(MadeTexts') /\ doc'.open = doc.open /\ doc'.known = doc.known
    BY <1>1, ConflictedIsEntry DEF DocsGood, DocGood, MadeTexts
  <1>3. FileGood'
    BY <1>1, NotedIsBoolean, SameFileGood DEF DocsGood, FileGood
  <1>4. ReadsGood'
    BY <1>1, <1>2, UsedGood DEF DocsGood
  <1>5. UnseenIsNew'
    BY <1>1, <1>2, NotedIsBoolean DEF DocsGood, UnseenIsNew
  <1>6. doc.open
    BY <1>1 DEF DocsGood, ReadsGood
  <1> QED BY <1>2, <1>3, <1>4, <1>5, <1>6 DEF DocsGood, DocGood

LEMMA SaveDoneGood ==
  ASSUME DocsGood, NEW r \in Readers, NEW by \in Writers, SaveDone(r, by) PROVE DocsGood'
  <1>1. /\ Write(doc.text, by) /\ doc' = Saved(doc) /\ unseen' = FALSE /\ Used(r)
        /\ reads[r] # Idle /\ UNCHANGED <<made, outside>>
    BY DEF SaveDone
  <1>2. doc' \in Entries(MadeTexts') /\ doc'.open = doc.open /\ doc.text \in MadeTexts
    BY <1>1, DocIsEntry, SavedIsEntry DEF MadeTexts
  <1>3. unseen' \in BOOLEAN
    BY <1>1, Zenon
  <1>4. FileGood'
    BY <1>1, <1>2, <1>3, WrittenGood DEF DocsGood
  <1>5. ReadsGood' /\ doc.open
    BY <1>1, <1>2, UsedGood DEF DocsGood, ReadsGood
  <1> QED BY <1>1, <1>2, <1>4, <1>5 DEF DocsGood, DocGood, UnseenIsNew

LEMMA SaveFailedGood == ASSUME DocsGood, NEW r \in Readers, SaveFailed(r) PROVE DocsGood'
  <1>1. Used(r) /\ UNCHANGED <<disk, doc, noticed, made, outside, writer, unseen>>
    BY DEF SaveFailed
  <1>2. ReadsGood'
    BY <1>1, UsedGood DEF DocsGood
  <1> QED BY <1>1, <1>2 DEF DocsGood, DocGood, FileGood, UnseenIsNew, MadeTexts

LEMMA ForceSaveGood == ASSUME DocsGood, ForceSave PROVE DocsGood'
  <1>1. /\ Write(doc.text, "user") /\ doc' = Saved(doc) /\ unseen' = FALSE
        /\ doc.open /\ UNCHANGED <<reads, made, outside>>
    BY DEF ForceSave
  <1>2. doc' \in Entries(MadeTexts') /\ doc'.open = doc.open /\ doc.text \in MadeTexts
    BY <1>1, DocIsEntry, SavedIsEntry DEF MadeTexts
  <1>3. unseen' \in BOOLEAN
    BY <1>1, Zenon
  <1>4. FileGood'
    BY <1>1, <1>2, <1>3, WrittenGood DEF DocsGood, Writers
  <1> QED BY <1>1, <1>2, <1>4 DEF DocsGood, DocGood, ReadsGood, UnseenIsNew, MadeTexts

LEMMA WatchBeginGood == ASSUME DocsGood, WatchBegin PROVE DocsGood'
  <1>1. /\ noticed' = FALSE /\ UNCHANGED <<disk, doc, made, outside, writer, unseen>>
        /\ (doc.open /\ Read("watch")) \/ reads' = reads
    BY DEF WatchBegin
  <1>2. ReadsGood'
    BY <1>1, ReadGood DEF DocsGood, FileGood, ReadsGood, Readers, MadeTexts
  <1>3. noticed' \in BOOLEAN
    BY <1>1, Zenon
  <1>4. FileGood'
    BY <1>1, <1>3, SameFileGood DEF DocsGood, FileGood
  <1> QED BY <1>1, <1>2, <1>4 DEF DocsGood, DocGood, UnseenIsNew, MadeTexts

LEMMA HandleExternalChangeGood ==
  ASSUME DocsGood, NEW r \in Readers, HandleExternalChange(r) PROVE DocsGood'
  <1>1. /\ doc' = Reported(doc, reads[r]) /\ Noted(reads[r]) /\ Used(r) /\ reads[r] # Idle
        /\ UNCHANGED <<disk, noticed, made, outside, writer>>
    BY DEF HandleExternalChange
  <1>2. reads[r] \in MadeTexts /\ doc.open
    BY <1>1 DEF DocsGood, ReadsGood
  <1>3. /\ doc' \in Entries(MadeTexts') /\ doc'.open = doc.open
        /\ doc'.known \in {doc.known, reads[r]}
    <2>1. doc \in Entries(MadeTexts) /\ NoFile \in MadeTexts
      BY DocIsEntry, FileIsMade
    <2>2. /\ Reported(doc, reads[r]) \in Entries(MadeTexts) /\ Reported(doc, reads[r]).open = doc.open
          /\ Reported(doc, reads[r]).known \in {doc.known, reads[r]}
      BY <1>2, <2>1, ReportedIsEntry, ZenonT(60)
    <2>3. MadeTexts' = MadeTexts
      BY <1>1 DEF MadeTexts
    <2> QED BY <1>1, <2>2, <2>3
  <1>4. FileGood'
    BY <1>1, NotedIsBoolean, SameFileGood DEF DocsGood, FileGood
  <1>5. ReadsGood'
    BY <1>1, <1>3, UsedGood DEF DocsGood
  <1>6. UnseenIsNew'
    BY <1>1, <1>3, NotedIsBoolean DEF DocsGood, UnseenIsNew
  <1> QED BY <1>2, <1>3, <1>4, <1>5, <1>6 DEF DocsGood, DocGood

LEMMA ResolveExternalGood ==
  ASSUME DocsGood, NEW choice, ResolveExternal(choice) PROVE DocsGood'
  <1>1. /\ doc' = Resolved(doc, choice) /\ Noted(disk) /\ doc.open
        /\ UNCHANGED <<disk, reads, noticed, made, outside, writer>>
    BY DEF ResolveExternal
  <1>2. doc' \in Entries(MadeTexts') /\ doc'.open = doc.open
    BY <1>1, FileIsMade, ResolvedIsEntry DEF DocsGood, DocGood, MadeTexts
  <1>3. FileGood'
    BY <1>1, NotedIsBoolean, SameFileGood DEF DocsGood, FileGood
  <1>4. UnseenIsNew'
    BY <1>1, NotedIsBoolean DEF UnseenIsNew
  <1> QED BY <1>1, <1>2, <1>3, <1>4 DEF DocsGood, DocGood, ReadsGood, MadeTexts

\* What the user, the watcher and other programs do leaves the reads of the
\* agent's operation alone, or ends them with the document.
Outsiders ==
  /\ \/ made' = made /\ outside' = outside
     \/ made < MaxText /\ made' = made + 1 /\ outside' = outside \cup {made + 1}
  /\ reads'["patch"] = reads["patch"]
  /\ reads'["notify"] \in {reads["notify"], Idle}

LEMMA DocsStep == ASSUME DocsGood, DocsNext PROVE DocsGood' /\ Outsiders
  <1>1. "watch" \in Readers /\ "save" \in Readers /\ "user" \in Writers
    BY DEF Readers, Writers
  <1>2. DocsGood'
    BY <1>1, ForeignWriteGood, ForeignDeleteGood, OpenGood, TypeGood, CloseGood, ExpireGood,
       SaveBeginGood, SaveRefusedGood, SaveDoneGood, SaveFailedGood, ForceSaveGood,
       WatchBeginGood, HandleExternalChangeGood, ResolveExternalGood DEF DocsNext
  <1>3. reads \in [Readers -> MadeTexts \cup {Idle}]
    BY DEF DocsGood, ReadsGood
  <1>4. /\ reads'["patch"] = reads["patch"]
        /\ reads'["notify"] \in {reads["notify"], Idle}
    BY <1>3 DEF DocsNext, ForeignWrite, ForeignDelete, Open, Type, Close, Expire, SaveBegin,
       SaveRefused, SaveDone, SaveFailed, ForceSave, WatchBegin, HandleExternalChange,
       ResolveExternal, Read, Used, Readers
  <1>5. \/ made' = made /\ outside' = outside
        \/ made < MaxText /\ made' = made + 1 /\ outside' = outside \cup {made + 1}
    BY DEF DocsNext, ForeignWrite, ForeignDelete, Open, Type, Close, Expire, SaveBegin,
       SaveRefused, SaveDone, SaveFailed, ForceSave, WatchBegin, HandleExternalChange,
       ResolveExternal, MadeOutside
  <1> QED BY <1>2, <1>4, <1>5 DEF Outsiders

-----------------------------------------------------------------------------
(* The operation, the baseline and the log. *)

Calls(T) == [op : Ops \cup {"none"},
             pc : {"idle", "check", "save", "write", "notify", "record"},
             text : T, saw : T]

CallGood ==
  /\ call \in Calls(MadeTexts)
  /\ baseline \in MadeTexts \cup {Nothing} /\ expected \in MadeTexts \cup {Nothing}
  /\ call.op = "none" <=> call.pc = "idle"
  /\ reads["patch"] # Idle <=> call.pc = "save"
  /\ reads["notify"] # Idle => call.pc = "notify"
  /\ call.pc \in {"check", "save"} => call.op = "patch"

\* The task makes texts only once it has its baseline.
BaselineFirst ==
  /\ call.op # "none" \/ Known(expected) => Known(baseline)
  /\ ~Known(baseline) => \A t \in 2 .. made : t \in outside

\* What the task writes and logs is its own, or the baseline.
OwnWork ==
  /\ call.text \in outside => call.text = baseline
  /\ expected \in outside => expected = baseline
  /\ call.op \in {"rollback", "force"} => call.text = baseline
  /\ call.op = "rollback" /\ call.pc = "write" =>
       call.saw = baseline \/ ~Known(expected) \/ call.saw = expected

Good == DocsGood /\ CallGood /\ BaselineFirst /\ OwnWork

\* A step that makes no text and leaves the baseline alone.
SameTexts == UNCHANGED <<made, outside, baseline>>

LEMMA NothingIsNoText ==
  ASSUME DocsGood
  PROVE  Nothing \notin MadeTexts /\ Nothing \notin outside /\ NoFile \notin outside
  BY MadeTextsBasics DEF Nothing, NoFile, MadeTexts, DocsGood, FileGood

LEMMA UserActsGood == ASSUME Good, UserActs PROVE Good'
  <1>1. DocsGood' /\ Outsiders /\ UNCHANGED <<call, baseline, expected>>
    BY DocsStep DEF Good, UserActs
  <1>2. CASE made' = made /\ outside' = outside
    <2>1. CallGood'
      BY <1>1, <1>2 DEF Good, CallGood, Outsiders, MadeTexts, Calls
    <2> QED BY <1>1, <1>2, <2>1 DEF Good, BaselineFirst, OwnWork
  <1>3. CASE made < MaxText /\ made' = made + 1 /\ outside' = outside \cup {made + 1}
    <2>1. MadeTexts \subseteq MadeTexts' /\ made + 1 \notin MadeTexts
      BY <1>3, MakingKeepsTexts DEF Good
    <2>2. CallGood'
      BY <1>1, <2>1 DEF Good, CallGood, Outsiders, Calls
    <2>3. BaselineFirst'
      <3>1. made \in Nat
        BY MadeTextsBasics DEF Good
      <3>2. \A t \in 2 .. made' : t \in 2 .. made \/ t = made + 1
        BY <1>3, <3>1
      <3> QED BY <1>1, <1>3, <3>2 DEF Good, BaselineFirst
    <2>4. call.text \in MadeTexts /\ expected # made + 1
      <3>1. made + 1 # Nothing
        BY MadeTextsBasics DEF Good, Nothing
      <3> QED BY <2>1, <3>1 DEF Good, CallGood, Calls
    <2>5. OwnWork'
      BY <1>1, <1>3, <2>1, <2>4 DEF Good, OwnWork
    <2> QED BY <1>1, <2>2, <2>3, <2>5 DEF Good
  <1> QED BY <1>1, <1>2, <1>3 DEF Outsiders

\* An operation begins without making a text.
LEMMA BeginGood ==
  ASSUME Good, Free, UNCHANGED <<docVars, expected>>,
         NEW o \in Ops, NEW p \in {"check", "write"}, NEW text \in MadeTexts, NEW saw \in MadeTexts,
         call' = [op |-> o, pc |-> p, text |-> text, saw |-> saw],
         p = "check" => o = "patch",
         baseline' = Captured,
         text = NoFile \/ text = baseline',
         o \in {"rollback", "force"} => text = baseline',
         o = "rollback" => saw = baseline' \/ ~Known(expected) \/ saw = expected
  PROVE  Good'
  <1>1. UNCHANGED <<disk, doc, reads, noticed, made, outside, writer, unseen>>
    BY DEF docVars
  <1>2. DocsGood'
    BY <1>1 DEF Good, DocsGood, FileGood, DocGood, ReadsGood, UnseenIsNew, MadeTexts
  <1>3. disk \in MadeTexts /\ Nothing \notin MadeTexts /\ NoFile \notin outside
    BY FileIsMade, NothingIsNoText DEF Good
  <1>4. Known(baseline') /\ (Known(baseline) => baseline' = baseline) /\ baseline' \in MadeTexts
    BY <1>3 DEF Captured, Known, Good, CallGood
  <1>5. call.op = "none" /\ call.pc = "idle" /\ reads["patch"] = Idle /\ reads["notify"] = Idle
    BY DEF Free, Good, CallGood
  <1>6. /\ call'.op = o /\ call'.pc = p /\ call'.text = text /\ call'.saw = saw
        /\ call' \in Calls(MadeTexts) /\ o # "none" /\ p # "idle" /\ p # "save"
    BY DEF Calls, Ops
  <1>7. CallGood'
    BY <1>1, <1>4, <1>5, <1>6 DEF Good, CallGood, MadeTexts
  <1>8. BaselineFirst'
    BY <1>4 DEF BaselineFirst, Known
  <1>9. OwnWork'
    <2>1. Known(expected) => baseline' = baseline
      BY <1>4 DEF Good, BaselineFirst
    <2>2. expected \in outside => Known(expected)
      BY NothingIsNoText DEF Good, Known
    <2> QED BY <1>1, <1>3, <1>6, <2>1, <2>2 DEF Good, OwnWork, Known
  <1> QED BY <1>2, <1>7, <1>8, <1>9 DEF Good

\* An operation makes the text it is going to write.
LEMMA MakeGood ==
  ASSUME Good, made < MaxText, made' = made + 1,
         UNCHANGED <<disk, doc, reads, noticed, outside, writer, unseen, expected>>,
         reads["patch"] = Idle, reads["notify"] = Idle,
         Known(baseline'), Known(baseline) => baseline' = baseline,
         baseline' \in MadeTexts,
         call' \in Calls(MadeTexts'), call'.op \in {"patch", "create", "reject"},
         call'.pc = "write", call'.text = made + 1
  PROVE  Good'
  <1>1. /\ made' \in Texts /\ MadeTexts \subseteq MadeTexts' /\ made + 1 \in MadeTexts'
        /\ made + 1 \notin outside /\ outside \subseteq 1 .. made'
        /\ doc \in Entries(MadeTexts') /\ reads \in [Readers -> MadeTexts' \cup {Idle}]
    BY MakingKeepsTexts DEF Good
  <1>2. DocsGood'
    BY <1>1 DEF Good, DocsGood, FileGood, DocGood, ReadsGood, UnseenIsNew
  <1>3. CallGood'
    BY <1>1 DEF Good, CallGood
  <1>4. BaselineFirst'
    BY DEF BaselineFirst
  <1>5. OwnWork'
    <2>1. expected \in outside => Known(expected)
      BY NothingIsNoText DEF Good, Known
    <2> QED BY <1>1, <2>1 DEF Good, OwnWork, BaselineFirst
  <1> QED BY <1>2, <1>3, <1>4, <1>5 DEF Good

LEMMA CapturedIsKnown ==
  ASSUME Good
  PROVE  Known(Captured) /\ Captured \in MadeTexts /\ (Known(baseline) => Captured = baseline)
  <1>1. disk \in MadeTexts /\ Nothing \notin MadeTexts
    BY FileIsMade, NothingIsNoText DEF Good
  <1> QED BY <1>1 DEF Captured, Known, Good, CallGood

LEMMA IdleIsFree ==
  ASSUME Good, Free
  PROVE  call.pc = "idle" /\ reads["patch"] = Idle /\ reads["notify"] = Idle
  BY DEF Free, Good, CallGood

LEMMA LogicalIsMade == ASSUME Good PROVE Logical \in MadeTexts
  BY FileIsMade, DocIsEntry DEF Good, Logical

LEMMA PatchBeginGood == ASSUME Good, PatchBegin PROVE Good'
  <1>1. /\ Free /\ baseline' = Captured /\ UNCHANGED <<docVars, expected>>
        /\ call' = [op |-> "patch", pc |-> "check", text |-> NoFile, saw |-> Logical]
    BY DEF PatchBegin
  <1>2. NoFile \in MadeTexts /\ Logical \in MadeTexts
    BY FileIsMade, LogicalIsMade DEF Good
  <1>3. "patch" \in Ops /\ "check" \in {"check", "write"} /\ "patch" \notin {"rollback", "force"}
        /\ "patch" # "rollback" /\ ("check" = "check" => "patch" = "patch")
    BY DEF Ops
  <1> QED BY <1>1, <1>2, <1>3, BeginGood

LEMMA CreateBeginGood == ASSUME Good, CreateBegin PROVE Good'
  <1>1. /\ Free /\ baseline' = Captured /\ made < MaxText /\ made' = made + 1
        /\ UNCHANGED <<disk, doc, reads, noticed, outside, writer, unseen, expected>>
        /\ call' = [op |-> "create", pc |-> "write", text |-> made + 1, saw |-> NoFile]
    BY DEF CreateBegin
  <1>2. made + 1 \in MadeTexts' /\ NoFile \in MadeTexts'
    BY <1>1, MakingKeepsTexts DEF Good
  <1>3. call' \in Calls(MadeTexts') /\ call'.op = "create" /\ call'.pc = "write" /\ call'.text = made + 1
    BY <1>1, <1>2 DEF Calls, Ops
  <1> QED BY <1>1, <1>3, IdleIsFree, CapturedIsKnown, MakeGood

LEMMA RejectBeginGood == ASSUME Good, RejectBegin PROVE Good'
  <1>1. /\ Free /\ Known(baseline) /\ baseline' = baseline /\ made < MaxText /\ made' = made + 1
        /\ UNCHANGED <<disk, doc, reads, noticed, outside, writer, unseen, expected>>
        /\ call' = [op |-> "reject", pc |-> "write", text |-> made + 1, saw |-> NoFile]
    BY DEF RejectBegin
  <1>2. made + 1 \in MadeTexts' /\ NoFile \in MadeTexts'
    BY <1>1, MakingKeepsTexts DEF Good
  <1>3. call' \in Calls(MadeTexts') /\ call'.op = "reject" /\ call'.pc = "write" /\ call'.text = made + 1
    BY <1>1, <1>2 DEF Calls, Ops
  <1>4. Captured = baseline
    BY <1>1 DEF Captured
  <1> QED BY <1>1, <1>3, <1>4, IdleIsFree, CapturedIsKnown, MakeGood

LEMMA PatchFileGood == ASSUME Good, PatchFile PROVE Good'
  <1>1. /\ call.pc = "check" /\ baseline' = baseline /\ made < MaxText /\ made' = made + 1
        /\ UNCHANGED <<disk, doc, reads, noticed, outside, writer, unseen, expected>>
        /\ call' = [call EXCEPT !.pc = "write", !.text = made + 1]
    BY DEF PatchFile
  <1>2. made + 1 \in MadeTexts' /\ MadeTexts \subseteq MadeTexts'
    BY <1>1, MakingKeepsTexts DEF Good
  <1>3. call \in Calls(MadeTexts) /\ call.op = "patch" /\ reads["patch"] = Idle /\ reads["notify"] = Idle
    BY <1>1 DEF Good, CallGood
  <1>4. call' \in Calls(MadeTexts') /\ call'.op = "patch" /\ call'.pc = "write" /\ call'.text = made + 1
    BY <1>1, <1>2, <1>3 DEF Calls
  <1>5. Known(baseline)
    BY <1>3 DEF Good, BaselineFirst
  <1>6. Captured = baseline
    BY <1>5 DEF Captured
  <1> QED BY <1>1, <1>3, <1>4, <1>5, <1>6, CapturedIsKnown, MakeGood

LEMMA PatchDocumentGood == ASSUME Good, PatchDocument PROVE Good'
  <1>1. /\ call.pc = "check" /\ baseline' = baseline /\ made < MaxText /\ made' = made + 1
        /\ doc' = Edited(doc, made + 1) /\ doc.open /\ Read("patch")
        /\ call' = [call EXCEPT !.pc = "save", !.text = made + 1]
        /\ UNCHANGED <<disk, noticed, outside, writer, unseen, expected>>
    BY DEF PatchDocument
  <1>2. /\ made' \in Texts /\ MadeTexts \subseteq MadeTexts' /\ made + 1 \in MadeTexts'
        /\ made + 1 \notin outside /\ outside \subseteq 1 .. made'
        /\ doc \in Entries(MadeTexts') /\ reads \in [Readers -> MadeTexts' \cup {Idle}]
    BY <1>1, MakingKeepsTexts DEF Good
  <1>3. doc' \in Entries(MadeTexts') /\ doc'.open = doc.open /\ doc'.known = doc.known
    <2>1. doc' = Edited(doc, made + 1)
      BY <1>1
    <2>2. doc \in Entries(MadeTexts') /\ made + 1 \in MadeTexts'
      BY <1>2
    <2> QED BY <2>1, <2>2, EditedIsEntry, ZenonT(60)
  <1>4. disk \in MadeTexts /\ disk # Idle
    BY FileIsMade, NothingIsNoText DEF Good, Nothing, Idle
  <1>5. /\ reads' = [reads EXCEPT !["patch"] = disk] /\ "patch" \in Readers /\ "notify" \in Readers
        /\ reads["notify"] = Idle
    BY <1>1 DEF Read, Readers, Good, CallGood
  <1>6. DocsGood'
    <2>1. FileGood' /\ DocGood' /\ UnseenIsNew'
      BY <1>1, <1>2, <1>3 DEF Good, DocsGood, FileGood, DocGood, UnseenIsNew
    <2>2. ReadsGood'
      BY <1>1, <1>2, <1>3, <1>4, <1>5 DEF Good, DocsGood, ReadsGood
    <2> QED BY <2>1, <2>2 DEF DocsGood
  <1>7. call \in Calls(MadeTexts) /\ call.op = "patch"
    BY <1>1 DEF Good, CallGood
  <1>8. call' \in Calls(MadeTexts') /\ call'.op = "patch" /\ call'.pc = "save" /\ call'.text = made + 1
    BY <1>1, <1>2, <1>7 DEF Calls
  <1>9. reads'["patch"] # Idle /\ reads'["notify"] = Idle
    BY <1>2, <1>4, <1>5
  <1>10. CallGood'
    BY <1>1, <1>2, <1>8, <1>9 DEF Good, CallGood
  <1>11. BaselineFirst'
    BY <1>1, <1>7 DEF Good, BaselineFirst
  <1>12. OwnWork'
    BY <1>1, <1>2, <1>8 DEF Good, OwnWork
  <1> QED BY <1>6, <1>10, <1>11, <1>12 DEF Good

\* An operation ends, or goes on to its next phase, on the texts there are.
LEMMA EndsGood ==
  ASSUME Good, DocsGood', SameTexts, Ends,
         expected' \in MadeTexts \cup {Nothing},
         Known(expected') => Known(baseline), expected' \in outside => expected' = baseline,
         reads'["patch"] = Idle, reads'["notify"] = Idle
  PROVE  Good'
  <1>1. /\ call' = NoCall /\ NoCall.op = "none" /\ NoCall.pc = "idle" /\ NoCall.text = NoFile
        /\ made' = made /\ outside' = outside /\ baseline' = baseline
    BY DEF Ends, NoCall, SameTexts
  <1>2. NoCall \in Calls(MadeTexts)
    BY FileIsMade DEF NoCall, Calls, Good
  <1>3. CallGood'
    BY <1>1, <1>2 DEF Good, CallGood, MadeTexts
  <1>4. BaselineFirst'
    BY <1>1 DEF Good, BaselineFirst
  <1>5. OwnWork'
    BY <1>1, NothingIsNoText DEF Good, OwnWork
  <1> QED BY <1>3, <1>4, <1>5 DEF Good

LEMMA GoesGood ==
  ASSUME Good, DocsGood', SameTexts, expected' = expected, call.op # "none",
         NEW p \in {"notify", "record"}, Goes(p),
         reads'["patch"] = Idle, reads'["notify"] # Idle => p = "notify"
  PROVE  Good'
  <1>1. /\ made' = made /\ outside' = outside /\ baseline' = baseline
        /\ call' = [call EXCEPT !.pc = p] /\ call \in Calls(MadeTexts)
    BY DEF Goes, SameTexts, Good, CallGood
  <1>2. /\ call' \in Calls(MadeTexts) /\ call'.pc = p
        /\ call'.op = call.op /\ call'.text = call.text /\ call'.saw = call.saw
    BY <1>1 DEF Calls
  <1>3. CallGood'
    BY <1>1, <1>2 DEF Good, CallGood, MadeTexts
  <1>4. BaselineFirst' /\ OwnWork'
    BY <1>1, <1>2 DEF Good, BaselineFirst, OwnWork
  <1> QED BY <1>3, <1>4 DEF Good

LEMMA DocsUnchanged == ASSUME DocsGood, UNCHANGED docVars PROVE DocsGood'
  BY DEF docVars, DocsGood, FileGood, DocGood, ReadsGood, UnseenIsNew, MadeTexts

LEMMA PatchRefusedGood == ASSUME Good, PatchRefused PROVE Good'
  <1>1. /\ UNCHANGED <<docVars, baseline, expected>> /\ Ends /\ call.pc = "check"
    BY DEF PatchRefused
  <1>2. DocsGood' /\ UNCHANGED <<made, outside, reads>>
    BY <1>1, DocsUnchanged DEF Good, docVars
  <1>3. reads["patch"] = Idle /\ reads["notify"] = Idle
    BY <1>1 DEF Good, CallGood
  <1> QED BY <1>1, <1>2, <1>3, EndsGood DEF SameTexts, Good, CallGood, BaselineFirst, OwnWork

\* A patch that was being saved has a baseline, and nobody is being told.
LEMMA SavingIsKnown ==
  ASSUME Good, reads["patch"] # Idle
  PROVE  call.pc = "save" /\ call.op = "patch" /\ reads["notify"] = Idle /\ Known(baseline)
  BY DEF Good, CallGood, BaselineFirst

LEMMA UsedPatch ==
  ASSUME Good, Used("patch")
  PROVE  reads'["patch"] = Idle /\ reads'["notify"] = reads["notify"]
  BY DEF Good, DocsGood, ReadsGood, Used, Readers

LEMMA PatchSavedGood == ASSUME Good, PatchSaved PROVE Good'
  <1> DEFINE by == IF doc.text = call.text THEN "unlogged" ELSE "user"
  <1>1. /\ SaveDone("patch", by) /\ Goes("record") /\ UNCHANGED <<baseline, expected>>
    BY DEF PatchSaved
  <1>2. by \in Writers /\ "patch" \in Readers
    BY DEF Writers, Readers
  <1> HIDE DEF by
  <1>3. DocsGood' /\ Used("patch") /\ reads["patch"] # Idle /\ UNCHANGED <<made, outside>>
    BY <1>1, <1>2, SaveDoneGood DEF Good, SaveDone
  <1>4. /\ reads'["patch"] = Idle /\ reads'["notify"] = Idle /\ call.op # "none"
    BY <1>3, SavingIsKnown, UsedPatch
  <1> QED BY <1>1, <1>3, <1>4, GoesGood DEF SameTexts

LEMMA PatchNotSavedGood == ASSUME Good, PatchNotSaved PROVE Good'
  <1>1. /\ SaveRefused("patch") \/ SaveFailed("patch")
        /\ Ends /\ UNCHANGED <<baseline, expected>>
    BY DEF PatchNotSaved
  <1>2. "patch" \in Readers
    BY DEF Readers
  <1>3. DocsGood'
    BY <1>1, <1>2, SaveRefusedGood, SaveFailedGood DEF Good
  <1>4. Used("patch") /\ reads["patch"] # Idle /\ UNCHANGED <<made, outside>>
    BY <1>1 DEF SaveRefused, SaveFailed
  <1>5. reads'["patch"] = Idle /\ reads'["notify"] = Idle
    BY <1>4, SavingIsKnown, UsedPatch
  <1> QED BY <1>1, <1>3, <1>4, <1>5, EndsGood DEF SameTexts, Good, CallGood, BaselineFirst, OwnWork

LEMMA DeleteBeginGood == ASSUME Good, DeleteBegin PROVE Good'
  <1>1. Free /\ baseline' = Captured /\ UNCHANGED <<docVars, expected>>
    BY DEF DeleteBegin
  <1>2. CASE disk # NoFile
    <2>1. call' = [op |-> "delete", pc |-> "write", text |-> NoFile, saw |-> NoFile]
      BY <1>2 DEF DeleteBegin
    <2>2. "delete" \in Ops /\ "delete" \notin {"rollback", "force"} /\ NoFile \in MadeTexts
      BY FileIsMade DEF Ops, Good
    <2> QED BY <1>1, <2>1, <2>2, BeginGood
  <1>3. CASE disk = NoFile
    <2>1. call' = call
      BY <1>3 DEF DeleteBegin
    <2>2. DocsGood' /\ UNCHANGED <<made, outside, reads>>
      BY <1>1, DocsUnchanged DEF Good, docVars
    <2>3. Known(baseline') /\ baseline' \in MadeTexts /\ (Known(baseline) => baseline' = baseline)
      BY <1>1, CapturedIsKnown
    <2>4. CallGood'
      BY <1>1, <2>1, <2>2, <2>3 DEF Good, CallGood, MadeTexts
    <2>5. BaselineFirst'
      BY <2>3 DEF BaselineFirst
    <2>6. OwnWork'
      <3>1. expected \in outside => Known(expected)
        BY NothingIsNoText DEF Good, Known
      <3>2. call.text \in outside => Known(baseline)
        BY NothingIsNoText DEF Good, OwnWork, Known
      <3>3. call.op = "none"
        BY <1>1 DEF Free
      <3> QED BY <1>1, <2>1, <2>2, <2>3, <3>1, <3>2, <3>3 DEF Good, OwnWork, BaselineFirst
    <2> QED BY <2>2, <2>4, <2>5, <2>6 DEF Good
  <1> QED BY <1>2, <1>3

LEMMA RevertBeginGood == ASSUME Good, RevertBegin PROVE Good'
  <1>1. /\ Free /\ Known(baseline) /\ baseline' = baseline /\ UNCHANGED <<docVars, expected>>
        /\ call' = [op |-> "revert", pc |-> "write", text |-> baseline, saw |-> NoFile]
    BY DEF RevertBegin
  <1>2. Captured = baseline /\ baseline \in MadeTexts /\ NoFile \in MadeTexts
    BY <1>1, CapturedIsKnown, FileIsMade DEF Captured, Good
  <1>3. "revert" \in Ops /\ "revert" \notin {"rollback", "force"}
    BY DEF Ops
  <1> QED BY <1>1, <1>2, <1>3, BeginGood

LEMMA RollbackBeginGood ==
  ASSUME Good, NEW o \in {"rollback", "force"}, RollbackBegin(o) PROVE Good'
  <1>1. /\ Free /\ Known(baseline) /\ baseline' = baseline /\ UNCHANGED <<docVars, expected>>
        /\ call' = [op |-> o, pc |-> "write", text |-> baseline, saw |-> disk]
        /\ o = "force" \/ ~Foreign
    BY DEF RollbackBegin
  <1>2. Captured = baseline /\ baseline \in MadeTexts /\ disk \in MadeTexts
    BY <1>1, CapturedIsKnown, FileIsMade DEF Captured, Good
  <1>3. o \in Ops
    BY DEF Ops
  <1>4. o = "rollback" => disk = baseline' \/ ~Known(expected) \/ disk = expected
    BY <1>1 DEF Foreign
  <1> QED BY <1>1, <1>2, <1>3, <1>4, BeginGood

LEMMA WriteBytesGood == ASSUME Good, WriteBytes PROVE Good'
  <1> DEFINE by == IF call.op \in {"rollback", "force"} THEN "restored" ELSE "unlogged"
             next == IF doc.open /\ call.op \in Notifying THEN "notify" ELSE "record"
  <1>1. /\ call.pc = "write" /\ Write(call.text, by) /\ Goes(next)
        /\ unseen' = (call.text \notin {NoFile, doc.known})
        /\ UNCHANGED <<doc, reads, made, outside, baseline, expected>>
    BY DEF WriteBytes
  <1>2. by \in Writers /\ next \in {"notify", "record"}
    BY DEF Writers
  <1> HIDE DEF by, next
  <1>3. call.text \in MadeTexts /\ call.op # "none" /\ reads["patch"] = Idle /\ reads["notify"] = Idle
    BY <1>1 DEF Good, CallGood, Calls
  <1>4. unseen' \in BOOLEAN
    BY <1>1, Zenon
  <1>5. FileGood' /\ disk' = call.text
    BY <1>1, <1>2, <1>3, <1>4, WrittenGood DEF Good, DocsGood
  <1>6. DocGood' /\ ReadsGood' /\ UnseenIsNew'
    BY <1>1, <1>5 DEF Good, DocsGood, DocGood, ReadsGood, UnseenIsNew, MadeTexts
  <1> QED BY <1>1, <1>2, <1>3, <1>5, <1>6, GoesGood DEF SameTexts, DocsGood

LEMMA WriteFailedGood == ASSUME Good, WriteFailed PROVE Good'
  <1>1. UNCHANGED <<docVars, baseline, expected>> /\ Ends /\ call.pc = "write"
    BY DEF WriteFailed
  <1>2. DocsGood' /\ UNCHANGED <<made, outside, reads>>
    BY <1>1, DocsUnchanged DEF Good, docVars
  <1>3. reads["patch"] = Idle /\ reads["notify"] = Idle
    BY <1>1 DEF Good, CallGood
  <1> QED BY <1>1, <1>2, <1>3, EndsGood DEF SameTexts, Good, CallGood, BaselineFirst, OwnWork

LEMMA NotifyBeginGood == ASSUME Good, NotifyBegin PROVE Good'
  <1>1. /\ call.pc = "notify"
        /\ UNCHANGED <<disk, doc, noticed, made, outside, writer, unseen, baseline, expected>>
    BY DEF NotifyBegin
  <1>2. call.op # "none" /\ reads["patch"] = Idle /\ "notify" \in Readers /\ "patch" \in Readers
    BY <1>1 DEF Good, CallGood, Readers
  <1>3. CASE doc.open
    <2>1. Read("notify") /\ call' = call
      BY <1>3 DEF NotifyBegin
    <2>2. ReadsGood' /\ reads'["patch"] = Idle
      BY <1>1, <1>2, <1>3, <2>1, ReadGood, FileIsMade DEF Good, DocsGood, ReadsGood, Read
    <2>3. DocsGood'
      BY <1>1, <2>2 DEF Good, DocsGood, FileGood, DocGood, UnseenIsNew, MadeTexts
    <2>4. CallGood' /\ BaselineFirst' /\ OwnWork'
      BY <1>1, <2>1, <2>2 DEF Good, CallGood, BaselineFirst, OwnWork, MadeTexts
    <2> QED BY <2>3, <2>4 DEF Good
  <1>4. CASE ~doc.open
    <2>1. reads' = reads /\ Goes("record")
      BY <1>4 DEF NotifyBegin
    <2>2. DocsGood'
      BY <1>1, <2>1, DocsUnchanged DEF Good, docVars
    <2>3. reads["notify"] = Idle
      BY <1>2, <1>4 DEF Good, DocsGood, ReadsGood
    <2> QED BY <1>1, <1>2, <2>1, <2>2, <2>3, GoesGood DEF SameTexts
  <1> QED BY <1>3, <1>4

LEMMA NotifyEndGood == ASSUME Good, NotifyEnd PROVE Good'
  <1>1. /\ call.pc = "notify" /\ HandleExternalChange("notify") /\ Goes("record")
        /\ UNCHANGED <<baseline, expected>>
    BY DEF NotifyEnd
  <1>2. call.op # "none" /\ reads["patch"] = Idle /\ "notify" \in Readers /\ "patch" \in Readers
    BY <1>1 DEF Good, CallGood, Readers
  <1>3. DocsGood' /\ UNCHANGED <<made, outside>> /\ Used("notify")
    BY <1>1, <1>2, HandleExternalChangeGood DEF Good, HandleExternalChange
  <1>4. reads'["patch"] = Idle /\ reads'["notify"] = Idle
    BY <1>2, <1>3 DEF Good, DocsGood, ReadsGood, Used
  <1> QED BY <1>1, <1>2, <1>3, <1>4, GoesGood DEF SameTexts

LEMMA RecordGood == ASSUME Good, Record PROVE Good'
  <1>1. /\ call.pc = "record" /\ Ends
        /\ expected' = IF call.op \in {"rollback", "force"} THEN expected ELSE call.text
        /\ writer' = IF writer = "unlogged" THEN "task" ELSE writer
        /\ UNCHANGED <<disk, doc, reads, noticed, made, outside, unseen, baseline>>
    BY DEF Record
  <1>2. /\ reads["patch"] = Idle /\ reads["notify"] = Idle /\ call.text \in MadeTexts
        /\ Known(baseline)
    BY <1>1 DEF Good, CallGood, Calls, BaselineFirst
  <1>3. writer' \in Writers
    BY <1>1 DEF Good, DocsGood, FileGood, Writers
  <1>4. DocsGood'
    BY <1>1, <1>3 DEF Good, DocsGood, FileGood, DocGood, ReadsGood, UnseenIsNew, MadeTexts
  <1>5. expected' \in MadeTexts \cup {Nothing} /\ (expected' \in outside => expected' = baseline)
    BY <1>1, <1>2 DEF Good, CallGood, OwnWork
  <1> QED BY <1>1, <1>2, <1>4, <1>5, EndsGood DEF SameTexts

LEMMA CrashGood == ASSUME Good, Crash PROVE Good'
  <1>1. /\ doc' = Closed /\ reads' = [r \in Readers |-> Idle] /\ noticed' = FALSE
        /\ Ends /\ writer' = (IF writer = "unlogged" THEN "lost" ELSE writer)
        /\ UNCHANGED <<disk, made, outside, unseen, baseline, expected>>
    BY DEF Crash, Ends
  <1>2. doc' \in Entries(MadeTexts') /\ doc'.known = NoFile
    BY <1>1, FileIsMade, ClosedIsEntry DEF MadeTexts, Good
  <1>3. writer' \in Writers
    BY <1>1 DEF Good, DocsGood, FileGood, Writers
  <1>4. noticed' \in BOOLEAN
    BY <1>1, Zenon
  <1>5. FileGood'
    BY <1>1, <1>3, <1>4 DEF Good, DocsGood, FileGood, MadeTexts
  <1>6. ReadsGood' /\ reads'["patch"] = Idle /\ reads'["notify"] = Idle
    BY <1>1 DEF ReadsGood, Readers, MadeTexts
  <1>7. DocsGood'
    BY <1>1, <1>2, <1>5, <1>6 DEF Good, DocsGood, DocGood, UnseenIsNew
  <1> QED BY <1>1, <1>6, <1>7, EndsGood DEF SameTexts, Good, CallGood, BaselineFirst, OwnWork

-----------------------------------------------------------------------------
LEMMA InitGood == Init => Good
  <1> SUFFICES ASSUME Init PROVE Good
    OBVIOUS
  <1>1. /\ disk \in {1, NoFile} /\ doc = Closed /\ reads = [r \in Readers |-> Idle]
        /\ made = 1 /\ outside = {} /\ writer = "start"
        /\ call = NoCall /\ baseline = Nothing /\ expected = Nothing
    BY DEF Init, DocsInit
  <1>2. noticed \in BOOLEAN /\ unseen \in BOOLEAN /\ ~unseen
    BY Zenon DEF Init, DocsInit
  <1>3. NoFile \in MadeTexts /\ 1 \in MadeTexts /\ made \in Texts
    BY <1>1, DocumentsAssumption DEF MadeTexts, NoFile, Texts
  <1>4. FileGood
    BY <1>1, <1>2, <1>3 DEF FileGood, Writers
  <1>5. DocGood /\ ReadsGood /\ UnseenIsNew
    BY <1>1, <1>2, <1>3, ClosedIsEntry DEF DocGood, ReadsGood, UnseenIsNew
  <1>6. call.op = "none" /\ call.pc = "idle" /\ call.text = NoFile /\ call \in Calls(MadeTexts)
    BY <1>1, <1>3 DEF NoCall, Calls
  <1>7. CallGood
    BY <1>1, <1>6 DEF CallGood, Readers
  <1>8. BaselineFirst /\ OwnWork
    BY <1>1, <1>6 DEF BaselineFirst, OwnWork, Known
  <1> QED BY <1>4, <1>5, <1>7, <1>8 DEF Good, DocsGood

LEMMA StepGood == Good /\ [Next]_vars => Good'
  <1> SUFFICES ASSUME Good, [Next]_vars PROVE Good'
    OBVIOUS
  <1>1. CASE UNCHANGED vars
    <2>1. UNCHANGED docVars /\ UNCHANGED <<call, baseline, expected, reads, made, outside>>
      BY <1>1 DEF vars, docVars
    <2>2. DocsGood'
      BY <2>1, DocsUnchanged DEF Good
    <2> QED BY <2>1, <2>2 DEF Good, CallGood, BaselineFirst, OwnWork, MadeTexts
  <1>2. CASE Next
    BY <1>2, UserActsGood, PatchBeginGood, PatchRefusedGood, PatchDocumentGood, PatchFileGood,
       PatchSavedGood, PatchNotSavedGood, CreateBeginGood, DeleteBeginGood, RejectBeginGood,
       RevertBeginGood, RollbackBeginGood, WriteBytesGood, WriteFailedGood, NotifyBeginGood,
       NotifyEndGood, RecordGood, CrashGood DEF Next
  <1> QED BY <1>1, <1>2

LEMMA GoodHolds == Spec => []Good
  BY InitGood, StepGood, PTL DEF Spec

\* In any interleaving of the user, the watcher, other programs and the task's
\* operations, crashes included, every entry, read and operation keeps its type.
THEOREM TypeCorrect == Spec => []TypeOK
  <1>1. Good => TypeOK
    <2> SUFFICES ASSUME Good PROVE TypeOK
      OBVIOUS
    <2>1. made \in Texts /\ MadeTexts \subseteq Texts \cup {NoFile} /\ made \in Nat
      BY DocumentsAssumption, MadeTextsBasics DEF Good, DocsGood, FileGood, MadeTexts, Texts, NoFile
    <2>2. disk \in Texts \cup {NoFile} /\ outside \subseteq 1 .. made /\ writer \in Writers
      BY <2>1 DEF Good, DocsGood, FileGood
    <2>3. doc \in Entries(Texts \cup {NoFile}) /\ (doc.open \/ doc = Closed)
      BY <2>1, EntriesGrow DEF Good, DocsGood, DocGood
    <2>4. reads \in [Readers -> Texts \cup {NoFile, Idle}]
      BY <2>1 DEF Good, DocsGood, ReadsGood
    <2>5. {noticed, unseen} \subseteq BOOLEAN
      BY Zenon DEF Good, DocsGood, FileGood
    <2>6. DocsTypeOK
      BY <2>1, <2>2, <2>3, <2>4, <2>5 DEF DocsTypeOK, Entries
    <2>7. call \in Calls(Texts \cup {NoFile})
      BY <2>1 DEF Good, CallGood, Calls
    <2>8. {baseline, expected} \subseteq Texts \cup {NoFile, Nothing}
      BY <2>1 DEF Good, CallGood
    <2> QED BY <2>6, <2>7, <2>8 DEF TypeOK, Calls, Good, CallGood
  <1> QED BY <1>1, GoodHolds, PTL

\* The baseline never is a text the task has made, whatever operations failed
\* before it was kept and however often the process died (ensureBaseline).
THEOREM RollbackRestoresTheOriginal == Spec => []BaselineIsOriginal
  <1> DEFINE Original == \A t \in MadeTexts : t \in outside \cup {NoFile, 1}
             Kept == Good /\ (Known(baseline) => baseline \in outside \cup {NoFile, 1})
  <1>1. Good /\ ~Known(baseline) => Original
    BY MadeTextsBasics DEF Good, BaselineFirst, MadeTexts, NoFile
  <1>2. Init => Kept
    BY InitGood DEF Init, Known
  <1>3. Kept /\ [Next]_vars => Kept'
    <2> SUFFICES ASSUME Kept, [Next]_vars PROVE Kept'
      OBVIOUS
    <2>1. Good'
      BY StepGood
    <2>2. outside \subseteq outside' /\ baseline' \in {baseline, Captured}
      BY DEF Next, UserActs, DocsNext, ForeignWrite, ForeignDelete, Open, Type, Close,
         Expire, SaveBegin, SaveRefused, SaveDone, SaveFailed, ForceSave, WatchBegin,
         HandleExternalChange, ResolveExternal, MadeOutside, vars, docVars,
         PatchBegin, PatchRefused, PatchDocument, PatchFile, PatchSaved, PatchNotSaved,
         CreateBegin, DeleteBegin, RejectBegin, RevertBegin, RollbackBegin, WriteBytes,
         WriteFailed, NotifyBegin, NotifyEnd, Record, Crash
    <2>3. Captured \in {baseline, disk} /\ (Captured = disk => ~Known(baseline) \/ Captured = baseline)
      BY DEF Captured
    <2>4. disk \in MadeTexts
      BY FileIsMade DEF Good
    <2>5. Known(baseline') => baseline' \in outside' \cup {NoFile, 1}
      BY <1>1, <2>2, <2>3, <2>4 DEF Captured
    <2> QED BY <2>1, <2>5
  <1>4. Kept => BaselineIsOriginal
    BY DEF BaselineIsOriginal
  <1> QED BY <1>2, <1>3, <1>4, PTL DEF Spec

-----------------------------------------------------------------------------
(* What a step may do to a text. *)

\* The steps that change the file.
LEMMA WhoWrites ==
  ASSUME Next, disk' # disk
  PROVE  \/ ForeignWrite \/ ForeignDelete \/ ForceSave
         \/ SaveDone("save", "user") /\ call' = call
         \/ PatchSaved \/ WriteBytes
  BY DEF Next, UserActs, DocsNext, ForeignWrite, ForeignDelete, Open, Type, Close,
     Expire, SaveBegin, SaveRefused, SaveDone, SaveFailed, ForceSave, WatchBegin,
     HandleExternalChange, ResolveExternal, docVars,
     PatchBegin, PatchRefused, PatchDocument, PatchFile, PatchSaved, PatchNotSaved,
     CreateBegin, DeleteBegin, RejectBegin, RevertBegin, RollbackBegin, WriteBytes,
     WriteFailed, NotifyBegin, NotifyEnd, Record, Crash

\* A save that is not forced compares the file with what the document has
\* read last: it writes over an unseen text only if the document took the file
\* for deleted (save, isOwnWrite, handleExternalChange).
THEOREM SavesLookFirst == Spec => SavesSpareUnseen
  <1>1. Good /\ [Next]_vars => [SavesOver => doc.known = NoFile]_vars
    <2> SUFFICES ASSUME Good, Next, SavesOver PROVE doc.known = NoFile
      OBVIOUS
    <2>1. /\ unseen /\ disk # NoFile /\ disk' # disk
          /\ disk # doc.known /\ disk # Idle
      BY FileIsMade, NothingIsNoText DEF SavesOver, Good, DocsGood, UnseenIsNew, Nothing, Idle
    <2>2. PICK r \in {"save", "patch"} : reads[r] = disk /\ reads'[r] = Idle
      BY DEF SavesOver
    <2>3. ~ForeignWrite /\ ~ForeignDelete /\ ~ForceSave /\ ~WriteBytes
      BY <2>1, <2>2 DEF ForeignWrite, ForeignDelete, ForceSave, WriteBytes
    <2>4. PICK s \in {"save", "patch"} : SaveDone(s, "user") \/ SaveDone(s, "unlogged")
      BY <2>1, <2>3, WhoWrites DEF PatchSaved
    <2>5. s = r
      BY <2>1, <2>2, <2>4 DEF SaveDone, Used, Good, DocsGood, ReadsGood, Readers
    <2>6. ~Drifted(doc, disk)
      BY <2>2, <2>4, <2>5 DEF SaveDone
    <2> QED BY <2>1, <2>6 DEF Drifted
  <1> QED BY <1>1, GoodHolds, PTL DEF Spec, SavesSpareUnseen

\* Where the log has a change of the task, a rollback that is not forced finds
\* the baseline or what the task has left, or it refuses (rollbackPreflight).
THEOREM RollbackLooksFirst == Spec => RollbackSparesOthers
  <1>1. Good /\ [Next]_vars => [RollsOver => ~Known(expected)]_vars
    <2> SUFFICES ASSUME Good, Next, RollsOver, Known(expected) PROVE FALSE
      OBVIOUS
    <2>1. /\ call.op = "rollback" /\ call.pc = "write" /\ call'.pc # "write"
          /\ disk \in outside /\ disk = call.saw /\ disk' # disk
      BY DEF RollsOver
    <2>2. reads["patch"] = Idle
      BY <2>1 DEF Good, CallGood
    <2>3. ~PatchSaved /\ call' # call
      BY <2>1, <2>2 DEF PatchSaved, SaveDone
    <2>4. WriteBytes
      <3>1. CASE UserActs
        BY <2>3, <3>1 DEF UserActs
      <3>2. CASE ~UserActs
        <4>1. disk' = disk \/ WriteBytes
          BY <2>3, <3>2 DEF Next, docVars, PatchBegin, PatchRefused, PatchDocument, PatchFile,
             PatchNotSaved, SaveRefused, SaveFailed, CreateBegin, DeleteBegin, RejectBegin,
             RevertBegin, RollbackBegin, WriteFailed, NotifyBegin, NotifyEnd,
             HandleExternalChange, Record, Crash
        <4> QED BY <2>1, <4>1
      <3> QED BY <3>1, <3>2
    <2>5. disk' = baseline
      BY <2>1, <2>4 DEF WriteBytes, Write, Good, OwnWork
    <2>6. disk = baseline \/ disk = expected
      BY <2>1 DEF Good, OwnWork
    <2> QED BY <2>1, <2>5, <2>6 DEF Good, OwnWork
  <1> QED BY <1>1, GoodHolds, PTL DEF Spec, RollbackSparesOthers

\* The steps that change the text of an open document.
LEMMA WhoEdits ==
  ASSUME Next, doc.open, doc'.open, doc' # doc
  PROVE  \/ Type \/ Expire \/ ForceSave \/ PatchDocument
         \/ \E r \in Readers : \/ SaveRefused(r) \/ HandleExternalChange(r)
                               \/ \E by \in Writers : SaveDone(r, by)
         \/ \E choice \in {"reload", "keep"} : ResolveExternal(choice)
  <1>1. {"save", "patch", "watch", "notify"} \subseteq Readers /\ {"user", "unlogged"} \subseteq Writers
    BY DEF Readers, Writers
  <1>2. ~Open /\ ~Close /\ ~Crash
    BY ClosedIsEntry DEF Open, Close, Crash, Closed
  <1>3. CASE UserActs
    BY <1>1, <1>2, <1>3 DEF UserActs, DocsNext, ForeignWrite, ForeignDelete, SaveBegin, SaveFailed, WatchBegin
  <1>4. CASE PatchSaved
    <2>1. \E by \in Writers : SaveDone("patch", by)
      BY <1>1, <1>4 DEF PatchSaved
    <2> QED BY <1>1, <2>1
  <1>5. CASE ~UserActs /\ ~PatchSaved
    BY <1>1, <1>2, <1>5 DEF Next, docVars, PatchBegin, PatchRefused, PatchFile,
       PatchNotSaved, SaveFailed, CreateBegin, DeleteBegin, RejectBegin,
       RevertBegin, RollbackBegin, WriteBytes, WriteFailed, NotifyBegin, NotifyEnd, Record
  <1> QED BY <1>3, <1>4, <1>5

\* Unsaved text gives way to typing, to a patch of that very text or to the
\* user's word, never to a report of the watcher that was read before it was
\* typed (handleExternalChange, writeThrough, resolveExternal).
THEOREM TypedTextStays == Spec => EditsKept
  <1> DEFINE Kept ==
        doc.open /\ doc.dirty /\ doc'.open /\ doc'.text # doc.text =>
          \/ made' = made + 1 /\ (call.pc = "check" /\ call'.pc = "save" => call.saw = doc.text)
          \/ doc.ext # "clean" /\ doc' = Resolved(doc, "reload")
  <1>1. Good /\ [Next]_vars => [Kept]_vars
    <2> SUFFICES ASSUME Good, Next, doc.open, doc.dirty, doc'.open, doc'.text # doc.text
                 PROVE  \/ /\ made' = made + 1
                           /\ call.pc = "check" /\ call'.pc = "save" => call.saw = doc.text
                        \/ doc.ext # "clean" /\ doc' = Resolved(doc, "reload")
      OBVIOUS
    <2>0. doc \in Entries(MadeTexts) /\ NoFile \in MadeTexts
      BY DocIsEntry, FileIsMade DEF Good
    <2>1. ~Expire /\ ~ForceSave
      <3>1. [doc EXCEPT !.own = NoFile].text = doc.text
        BY <2>0 DEF Entries
      <3>2. Saved(doc).text = doc.text
        BY <2>0, SavedIsEntry
      <3> QED BY <3>1, <3>2 DEF Expire, ForceSave
    <2>2. ASSUME NEW r \in Readers PROVE ~SaveRefused(r) /\ \A by : ~SaveDone(r, by)
      BY <2>0, SavedIsEntry, ConflictedIsEntry DEF SaveRefused, SaveDone
    <2>3. ASSUME NEW r \in Readers PROVE ~HandleExternalChange(r)
      <3> SUFFICES ASSUME HandleExternalChange(r) PROVE FALSE
        OBVIOUS
      <3>1. reads[r] \in MadeTexts /\ doc' = Reported(doc, reads[r])
        BY DEF HandleExternalChange, Good, DocsGood, ReadsGood
      <3> QED BY <2>0, <3>1, ReportedIsEntry
    <2>4. CASE Type
      <3>1. made' = made + 1
        BY <2>4 DEF Type, MadeOutside
      <3>2. ~(call.pc = "check" /\ call'.pc = "save")
        <4>1. reads' = reads
          BY <2>4 DEF Type
        <4>2. call'.pc = "save" => call.pc = "save"
          BY <4>1, StepGood DEF Good, CallGood
        <4> QED BY <4>2
      <3> QED BY <3>1, <3>2
    <2>5. CASE PatchDocument
      BY <2>5 DEF PatchDocument, Stale, Logical
    <2>6. CASE \E choice \in {"reload", "keep"} : ResolveExternal(choice)
      <3>1. PICK choice \in {"reload", "keep"} : ResolveExternal(choice)
        BY <2>6
      <3>2. choice # "keep"
        BY <2>0, <3>1 DEF ResolveExternal, Resolved, Entries
      <3> QED BY <3>1, <3>2 DEF ResolveExternal
    <2>7. doc' # doc
      OBVIOUS
    <2> QED BY <2>1, <2>2, <2>3, <2>4, <2>5, <2>6, <2>7, WhoEdits
  <1> QED BY <1>1, GoodHolds, PTL DEF Spec, EditsKept

\* So no text is lost silently, neither the user's nor another program's.
THEOREM TextIsKept == Spec => NoTextIsLost
  BY TypedTextStays, SavesLookFirst DEF NoTextIsLost

-----------------------------------------------------------------------------
(* What the log says of the disk, when no conflict is resolved while a patch *)
(* is being saved and no report is outrun by the next change.                *)

\* What the task has written and not logged is about to be.
WorkIsLogged ==
  writer = "unlogged" => call.pc \in {"notify", "record"} /\ call.op \notin {"rollback", "force"}

\* Until then, what is the task's on disk is what this operation has written.
WorkIsTheCall ==
  call.pc \in {"notify", "record"} /\ call.op \notin {"rollback", "force"}
    /\ writer \in {"unlogged", "task"} => disk = call.text

\* While a patch is being saved the document has the patch, or what came later.
PatchIsAhead ==
  call.pc = "save" =>
    /\ doc.text >= call.text
    /\ writer = "task" => disk < call.text
    /\ doc.dirty \/ disk = NoFile \/ disk >= call.text

FreshReads == \A r \in Updaters : reads[r] # Idle => reads[r] = disk

LogGood == WorkIsLogged /\ WorkIsTheCall /\ LogTellsDisk /\ PatchIsAhead /\ FreshReads

\* Saving, the document is open and its text, as the patch's, a number.
LEMMA SavingBasics ==
  ASSUME Good
  PROVE  /\ doc.text \in Int /\ call.text \in Int /\ disk \in Int /\ made \in Int
         /\ doc.text <= made /\ call.text <= made /\ disk <= made
         /\ call.pc = "save" => doc.open /\ reads["patch"] # Idle
         /\ disk # Idle
  <1>1. doc.text \in MadeTexts /\ disk \in MadeTexts /\ made \in Nat
    BY DocIsEntry, FileIsMade, MadeTextsBasics DEF Good
  <1>2. call.text \in MadeTexts
    BY DEF Good, CallGood, Calls
  <1>3. call.pc = "save" => doc.open /\ reads["patch"] # Idle
    BY DEF Good, CallGood, DocsGood, ReadsGood, Readers
  <1> QED BY <1>1, <1>2, <1>3 DEF MadeTexts, Idle

\* A write of the user or of another program.
LEMMA OutsiderWrites ==
  ASSUME Races = {}, Good, LogGood, NEW text, NEW by \in {"user", "foreign"}, Write(text, by),
         UNCHANGED <<call, expected>>,
         \A r \in Updaters : reads'[r] \in {Idle, reads[r]},
         call.pc = "save" => /\ text \in Int /\ (text = NoFile \/ text >= call.text)
                             /\ doc'.text >= call.text
                             /\ text = disk => writer # "task"
  PROVE  LogGood'
  <1>1. /\ disk' = text /\ writer' = (IF text = disk THEN writer ELSE by)
        /\ \A r \in Updaters : reads[r] = Idle
    BY DEF Write, Still
  <1>2. WorkIsLogged' /\ WorkIsTheCall' /\ LogTellsDisk'
    BY <1>1 DEF LogGood, WorkIsLogged, WorkIsTheCall, LogTellsDisk
  <1>3. PatchIsAhead'
    BY <1>1, SavingBasics DEF LogGood, PatchIsAhead
  <1>4. FreshReads'
    BY <1>1 DEF FreshReads
  <1> QED BY <1>2, <1>3, <1>4 DEF LogGood

\* A step that writes nothing.
LEMMA NothingWritten ==
  ASSUME Good, LogGood, UNCHANGED <<disk, writer, call, expected>>,
         \A r \in Updaters : reads'[r] \in {Idle, disk, reads[r]},
         call.pc = "save" => /\ doc'.text >= call.text
                             /\ doc'.dirty \/ (~doc.dirty /\ doc.dirty = doc'.dirty)
  PROVE  LogGood'
  <1>1. WorkIsLogged' /\ WorkIsTheCall' /\ LogTellsDisk' /\ FreshReads'
    BY DEF LogGood, WorkIsLogged, WorkIsTheCall, LogTellsDisk, FreshReads
  <1>2. PatchIsAhead'
    BY DEF LogGood, PatchIsAhead
  <1> QED BY <1>1, <1>2 DEF LogGood

LEMMA UserActsLogged == ASSUME Races = {}, Good, LogGood, UserActs PROVE LogGood'
  <1>0. /\ UNCHANGED <<call, expected>> /\ DocsNext
        /\ doc \in Entries(MadeTexts) /\ NoFile \in MadeTexts
        /\ reads \in [Readers -> MadeTexts \cup {Idle}]
        /\ Updaters \subseteq Readers /\ "save" \in Readers /\ "save" \notin Updaters
    BY DocIsEntry, FileIsMade DEF UserActs, Good, DocsGood, ReadsGood, Updaters, Readers
  <1>1. CASE ForeignWrite
    <2>1. /\ Write(made + 1, "foreign") /\ UNCHANGED <<doc, reads>>
      BY <1>1 DEF ForeignWrite
    <2> QED BY <1>0, <2>1, SavingBasics, OutsiderWrites DEF LogGood, PatchIsAhead
  <1>2. CASE ForeignDelete
    <2>1. Write(NoFile, "foreign") /\ UNCHANGED <<doc, reads>> /\ disk # NoFile
      BY <1>2 DEF ForeignDelete
    <2> QED BY <1>0, <2>1, SavingBasics, OutsiderWrites DEF LogGood, PatchIsAhead, NoFile
  <1>3. CASE Open
    <2>1. UNCHANGED <<disk, writer, reads>> /\ ~doc.open
      BY <1>3 DEF Open
    <2> QED BY <1>0, <2>1, SavingBasics, NothingWritten
  <1>4. CASE Type
    <2>1. UNCHANGED <<disk, writer, reads>> /\ doc' = Edited(doc, made + 1)
      BY <1>4 DEF Type
    <2>2. doc'.text = made + 1 /\ doc'.dirty = TRUE
      BY <1>0, <2>1 DEF Edited, Entries
    <2> QED BY <1>0, <2>1, <2>2, SavingBasics, NothingWritten
  <1>5. CASE Close
    <2>1. UNCHANGED <<disk, writer>> /\ reads' = [r \in Readers |-> Idle] /\ reads["patch"] = Idle
      BY <1>5 DEF Close
    <2> QED BY <1>0, <2>1, SavingBasics, NothingWritten
  <1>6. CASE Expire
    <2>1. UNCHANGED <<disk, writer, reads>> /\ doc' = [doc EXCEPT !.own = NoFile]
      BY <1>6 DEF Expire
    <2>2. doc'.text = doc.text /\ doc'.dirty = doc.dirty /\ doc.dirty \in BOOLEAN
      BY <1>0, <2>1 DEF Entries
    <2> QED BY <1>0, <2>1, <2>2, NothingWritten DEF LogGood, PatchIsAhead
  <1>7. CASE SaveBegin \/ SaveFailed("save") \/ WatchBegin
    <2>1. UNCHANGED <<disk, writer, doc>>
      BY <1>7 DEF SaveBegin, SaveFailed, WatchBegin
    <2>2. \A r \in Updaters : reads'[r] \in {disk, reads[r]}
      BY <1>0, <1>7 DEF SaveBegin, SaveFailed, WatchBegin, Read, Used
    <2>3. doc.dirty \in BOOLEAN
      BY <1>0 DEF Entries
    <2> QED BY <1>0, <2>1, <2>2, <2>3, NothingWritten DEF LogGood, PatchIsAhead
  <1>8. CASE SaveRefused("save")
    <2>1. UNCHANGED <<disk, writer>> /\ doc' = Conflicted(doc) /\ Used("save")
      BY <1>8 DEF SaveRefused
    <2>2. doc'.text = doc.text /\ doc'.dirty = doc.dirty /\ doc.dirty \in BOOLEAN
      BY <1>0, <2>1 DEF Conflicted, Entries
    <2>3. \A r \in Updaters : reads'[r] = reads[r]
      BY <1>0, <2>1 DEF Used
    <2> QED BY <1>0, <2>1, <2>2, <2>3, NothingWritten DEF LogGood, PatchIsAhead
  <1>9. CASE SaveDone("save", "user") \/ ForceSave
    <2>1. Write(doc.text, "user") /\ doc' = Saved(doc)
      BY <1>9 DEF SaveDone, ForceSave
    <2>2. doc'.text = doc.text
      BY <1>0, <2>1 DEF Saved, Entries
    <2>3. \A r \in Updaters : reads'[r] = reads[r]
      BY <1>0, <1>9 DEF SaveDone, ForceSave, Used
    <2> QED BY <1>0, <2>1, <2>2, <2>3, SavingBasics, OutsiderWrites DEF LogGood, PatchIsAhead
  <1>10. CASE HandleExternalChange("watch")
    <2>1. /\ UNCHANGED <<disk, writer>> /\ doc' = Reported(doc, reads["watch"]) /\ Used("watch")
          /\ reads["watch"] # Idle
      BY <1>10 DEF HandleExternalChange
    <2>2. "watch" \in Updaters /\ reads["watch"] = disk
      BY <2>1 DEF Updaters, LogGood, FreshReads
    <2>3. \A r \in Updaters : reads'[r] \in {Idle, reads[r]}
      BY <1>0, <2>1 DEF Used
    <2>4. disk \in MadeTexts /\ doc.dirty \in BOOLEAN
      BY <1>0, FileIsMade DEF Good, Entries
    <2>5. \/ doc'.text = doc.text
          \/ doc'.text = disk /\ ~doc.dirty /\ disk # NoFile
      BY <1>0, <2>1, <2>2, <2>4 DEF Reported, Entries
    <2>6. doc'.dirty = doc.dirty \/ doc'.dirty = TRUE
      BY <1>0, <2>1, <2>2, <2>4 DEF Reported, Entries
    <2>7. call.pc = "save" => doc'.text >= call.text
      BY <2>5, SavingBasics DEF LogGood, PatchIsAhead
    <2> QED BY <1>0, <2>1, <2>3, <2>4, <2>6, <2>7, NothingWritten
  <1>11. CASE \E choice \in {"reload", "keep"} : ResolveExternal(choice)
    <2>1. UNCHANGED <<disk, writer, reads>> /\ reads["patch"] = Idle
      BY <1>11 DEF ResolveExternal
    <2> QED BY <1>0, <2>1, SavingBasics, NothingWritten
  <1> QED BY <1>0, <1>1, <1>2, <1>3, <1>4, <1>5, <1>6, <1>7, <1>8, <1>9, <1>10, <1>11 DEF DocsNext

\* A step of the operation that writes nothing and goes to no phase in which
\* there is work to be logged.
LEMMA StepLogged ==
  ASSUME Good, LogGood, UNCHANGED <<disk, writer, expected>>,
         \A r \in Updaters : reads'[r] = reads[r],
         call.pc \notin {"notify", "record"}, call'.pc \notin {"notify", "record", "save"}
  PROVE  LogGood'
  BY DEF LogGood, WorkIsLogged, WorkIsTheCall, LogTellsDisk, FreshReads, PatchIsAhead

LEMMA PatchDocumentLogged == ASSUME Good, LogGood, PatchDocument PROVE LogGood'
  <1>1. /\ call.pc = "check" /\ doc' = Edited(doc, made + 1) /\ Read("patch")
        /\ call' = [call EXCEPT !.pc = "save", !.text = made + 1]
        /\ UNCHANGED <<disk, writer, expected>>
    BY DEF PatchDocument
  <1>2. call \in Calls(MadeTexts) /\ doc \in Entries(MadeTexts)
        /\ reads \in [Readers -> MadeTexts \cup {Idle}]
    BY DocIsEntry DEF Good, CallGood, DocsGood, ReadsGood
  <1>3. call'.pc = "save" /\ call'.text = made + 1
    BY <1>1, <1>2 DEF Calls
  <1>4. doc'.text = made + 1 /\ doc'.dirty = TRUE
    BY <1>1, <1>2 DEF Edited, Entries
  <1>5. \A r \in Updaters : reads'[r] = reads[r]
    BY <1>1, <1>2 DEF Read, Updaters, Readers
  <1>6. WorkIsLogged' /\ WorkIsTheCall' /\ LogTellsDisk' /\ FreshReads'
    BY <1>1, <1>3, <1>5 DEF LogGood, WorkIsLogged, WorkIsTheCall, LogTellsDisk, FreshReads
  <1>7. PatchIsAhead'
    BY <1>1, <1>3, <1>4, SavingBasics DEF PatchIsAhead
  <1> QED BY <1>6, <1>7 DEF LogGood

LEMMA PatchSavedLogged == ASSUME Races = {}, Good, LogGood, PatchSaved PROVE LogGood'
  <1>1. /\ Write(doc.text, IF doc.text = call.text THEN "unlogged" ELSE "user")
        /\ reads["patch"] # Idle /\ Used("patch") /\ Goes("record") /\ expected' = expected
    BY DEF PatchSaved, SaveDone
  <1>2. call.pc = "save" /\ call.op = "patch" /\ call \in Calls(MadeTexts)
        /\ reads \in [Readers -> MadeTexts \cup {Idle}]
    BY <1>1 DEF Good, CallGood, DocsGood, ReadsGood
  <1>3. call'.pc = "record" /\ call'.op = "patch" /\ call'.text = call.text
    BY <1>1, <1>2 DEF Goes, Calls
  <1>4. /\ disk' = doc.text
        /\ writer' = IF doc.text = disk THEN writer
                     ELSE IF doc.text = call.text THEN "unlogged" ELSE "user"
        /\ \A r \in Updaters : reads[r] = Idle
    BY <1>1 DEF Write, Still
  <1>5. writer # "unlogged"
    BY <1>2 DEF LogGood, WorkIsLogged
  <1>6. writer = "task" => doc.text # disk
    BY <1>2, SavingBasics DEF LogGood, PatchIsAhead
  <1>7. writer' \in {"unlogged", "task"} => writer' = "unlogged" /\ doc.text = call.text
    BY <1>4, <1>5, <1>6
  <1>8. FreshReads'
    BY <1>1, <1>2, <1>4 DEF FreshReads, Used, Updaters, Readers
  <1> QED BY <1>3, <1>4, <1>7, <1>8
       DEF LogGood, WorkIsLogged, WorkIsTheCall, LogTellsDisk, PatchIsAhead

LEMMA WriteBytesLogged == ASSUME Races = {}, Good, LogGood, WriteBytes PROVE LogGood'
  <1> DEFINE by == IF call.op \in {"rollback", "force"} THEN "restored" ELSE "unlogged"
             next == IF doc.open /\ call.op \in Notifying THEN "notify" ELSE "record"
  <1>1. /\ call.pc = "write" /\ Write(call.text, by) /\ Goes(next)
        /\ UNCHANGED <<reads, expected>> /\ call \in Calls(MadeTexts)
    BY DEF WriteBytes, Good, CallGood
  <1>2. call'.pc \in {"notify", "record"} /\ call'.op = call.op /\ call'.text = call.text
    BY <1>1 DEF Goes, Calls
  <1>3. /\ disk' = call.text /\ writer' = (IF call.text = disk THEN writer ELSE by)
        /\ \A r \in Updaters : reads[r] = Idle
    BY <1>1 DEF Write, Still
  <1>4. writer # "unlogged"
    BY <1>1 DEF LogGood, WorkIsLogged
  <1> QED BY <1>1, <1>2, <1>3, <1>4
       DEF LogGood, WorkIsLogged, WorkIsTheCall, LogTellsDisk, PatchIsAhead, FreshReads

LEMMA NotifyLogged == ASSUME Good, LogGood, NotifyBegin \/ NotifyEnd PROVE LogGood'
  <1>1. /\ call.pc = "notify" /\ UNCHANGED <<disk, writer, expected>>
        /\ call' = call \/ Goes("record")
    BY DEF NotifyBegin, NotifyEnd, HandleExternalChange
  <1>2. call \in Calls(MadeTexts) /\ reads \in [Readers -> MadeTexts \cup {Idle}]
    BY DEF Good, CallGood, DocsGood, ReadsGood
  <1>3. call'.pc \in {"notify", "record"} /\ call'.op = call.op /\ call'.text = call.text
    BY <1>1, <1>2 DEF Goes, Calls
  <1>4. \A r \in Updaters : reads'[r] \in {Idle, disk, reads[r]}
    BY <1>2 DEF NotifyBegin, NotifyEnd, HandleExternalChange, Read, Used, Updaters, Readers
  <1> QED BY <1>1, <1>3, <1>4
       DEF LogGood, WorkIsLogged, WorkIsTheCall, LogTellsDisk, PatchIsAhead, FreshReads

LEMMA RecordLogged == ASSUME Good, LogGood, Record PROVE LogGood'
  <1>1. /\ call.pc = "record" /\ call' = NoCall /\ UNCHANGED <<disk, reads>>
        /\ expected' = IF call.op \in {"rollback", "force"} THEN expected ELSE call.text
        /\ writer' = IF writer = "unlogged" THEN "task" ELSE writer
    BY DEF Record, Ends
  <1>2. call'.pc = "idle"
    BY <1>1 DEF NoCall
  <1>3. LogTellsDisk'
    BY <1>1 DEF LogGood, WorkIsLogged, WorkIsTheCall, LogTellsDisk
  <1> QED BY <1>1, <1>2, <1>3 DEF LogGood, WorkIsLogged, WorkIsTheCall, PatchIsAhead, FreshReads

LEMMA OtherStepsLogged ==
  ASSUME Good, LogGood,
         \/ PatchBegin \/ PatchRefused \/ PatchFile \/ PatchNotSaved \/ CreateBegin \/ DeleteBegin
         \/ RejectBegin \/ RevertBegin \/ (\E op \in {"rollback", "force"} : RollbackBegin(op))
         \/ WriteFailed
  PROVE  LogGood'
  <1>1. call \in Calls(MadeTexts) /\ reads \in [Readers -> MadeTexts \cup {Idle}]
    BY DEF Good, CallGood, DocsGood, ReadsGood
  <1>2. UNCHANGED <<disk, writer, expected>>
    BY DEF PatchBegin, PatchRefused, PatchFile, PatchNotSaved, SaveRefused, SaveFailed,
       CreateBegin, DeleteBegin, RejectBegin, RevertBegin, RollbackBegin, WriteFailed, docVars
  <1>3. \A r \in Updaters : reads'[r] = reads[r]
    BY <1>1 DEF PatchBegin, PatchRefused, PatchFile, PatchNotSaved, SaveRefused, SaveFailed,
       CreateBegin, DeleteBegin, RejectBegin, RevertBegin, RollbackBegin, WriteFailed, docVars,
       Used, Updaters, Readers
  <1>4. call.pc \in {"idle", "check", "save", "write"}
    <2>1. Free => call.pc = "idle"
      BY IdleIsFree
    <2>2. PatchNotSaved => call.pc = "save"
      BY SavingIsKnown DEF PatchNotSaved, SaveRefused, SaveFailed
    <2> QED BY <2>1, <2>2 DEF PatchBegin, PatchRefused, PatchFile,
       CreateBegin, DeleteBegin, RejectBegin, RevertBegin, RollbackBegin, WriteFailed
  <1>5. call'.pc \in {"idle", "check", "write"}
    <2>1. Free /\ call' = call => call'.pc = "idle"
      BY IdleIsFree
    <2>2. Ends => call'.pc = "idle"
      BY DEF Ends, NoCall
    <2>3. PatchFile => call'.pc = "write"
      BY <1>1 DEF PatchFile, Calls
    <2> QED BY <2>1, <2>2, <2>3 DEF PatchBegin, PatchRefused, PatchNotSaved,
       CreateBegin, DeleteBegin, RejectBegin, RevertBegin, RollbackBegin, WriteFailed
  <1> QED BY <1>2, <1>3, <1>4, <1>5, StepLogged

LEMMA CrashLogged == ASSUME LogGood, Crash PROVE LogGood'
  <1>1. /\ call' = NoCall /\ reads' = [r \in Readers |-> Idle] /\ UNCHANGED <<disk, expected>>
        /\ writer' = IF writer = "unlogged" THEN "lost" ELSE writer
    BY DEF Crash
  <1>2. call'.pc = "idle"
    BY <1>1 DEF NoCall
  <1> QED BY <1>1, <1>2 DEF LogGood, WorkIsLogged, WorkIsTheCall, LogTellsDisk, PatchIsAhead,
       FreshReads, Updaters, Readers

LEMMA LogStep == ASSUME Races = {}, Good, LogGood, [Next]_vars PROVE LogGood'
  <1>1. CASE UNCHANGED vars
    BY <1>1 DEF vars, docVars, LogGood, WorkIsLogged, WorkIsTheCall, LogTellsDisk, PatchIsAhead,
       FreshReads
  <1>2. CASE Next
    BY <1>2, UserActsLogged, PatchDocumentLogged, PatchSavedLogged, WriteBytesLogged,
       NotifyLogged, RecordLogged, OtherStepsLogged, CrashLogged DEF Next
  <1> QED BY <1>1, <1>2

\* What is on disk by the task's hand alone is what its log says, through
\* failed operations, crashes between the write and the record, and the user's
\* saves over it; so a rollback of untouched work meets no conflict.
THEOREM LogIsTrue == ASSUME Races = {} PROVE Spec => []LogTellsDisk
  <1>1. Init => LogGood
    <2>1. NoCall.pc = "idle"
      BY DEF NoCall
    <2> QED BY <2>1 DEF Init, DocsInit, LogGood, WorkIsLogged, WorkIsTheCall, LogTellsDisk,
         PatchIsAhead, FreshReads, Updaters, Readers
  <1>2. Good /\ LogGood /\ [Next]_vars => LogGood'
    BY LogStep
  <1>3. LogGood => LogTellsDisk
    BY DEF LogGood
  <1> QED BY <1>1, <1>2, <1>3, GoodHolds, PTL DEF Spec

-----------------------------------------------------------------------------
(* What an open document shows of the file. *)

Clean == doc.open /\ ~doc.dirty /\ doc.ext = "clean"
Watched == noticed \/ reads["watch"] # Idle
Told == call.pc = "notify"

CleanIsKnown == Clean => doc.text = doc.known

\* A clean document that is behind the file is about to hear of it, and twice
\* when it will take the first report for that of its own write.
IsTold ==
  Clean /\ doc.text # disk =>
    /\ Watched \/ Told
    /\ doc.own = disk /\ disk # NoFile => Watched /\ Told

\* The text of a patch or of a new file is neither on disk nor in the document
\* before it is written.
Around == {disk, doc.text, doc.own, NoFile}
UnwrittenIsNew == call.pc = "write" /\ call.op \in {"patch", "create"} => call.text \notin Around

Follows == CleanIsKnown /\ IsTold /\ FreshReads /\ UnwrittenIsNew

-----------------------------------------------------------------------------
LEMMA FileIsNotIdle == ASSUME Good PROVE disk # Idle /\ NoFile # Idle /\ {"watch", "notify"} = Updaters
  BY FileIsMade, NothingIsNoText DEF Good, Nothing, Idle, Updaters

\* A step that leaves the file and what the document shows of it.
LEMMA QuietFollows ==
  ASSUME Good, Follows, disk' = disk, doc' = doc, reads \in [Readers -> MadeTexts \cup {Idle}],
         doc.open => (Watched => Watched') /\ (Told => Told'),
         \A u \in Updaters : reads'[u] \in {reads[u], Idle, disk},
         call'.pc = "write" /\ call'.op \in {"patch", "create"} =>
            call'.text = made + 1 \/ (call' = call)
  PROVE  Follows'
  <1>1. CleanIsKnown' /\ IsTold'
    BY DEF Follows, CleanIsKnown, IsTold, Clean
  <1>2. FreshReads'
    BY DEF Follows, FreshReads
  <1>3. Around' = Around /\ made + 1 \notin Around
    <2>1. made \in Nat /\ Around \subseteq MadeTexts
      BY FileIsMade, DocIsEntry, MadeTextsBasics DEF Good, Around, Entries
    <2> QED BY <2>1 DEF Around, MadeTexts
  <1>4. UnwrittenIsNew'
    BY <1>3 DEF Follows, UnwrittenIsNew
  <1> QED BY <1>1, <1>2, <1>4 DEF Follows

\* A step that changes the document, or the file from outside the task.
LEMMA ShownFollows ==
  ASSUME Good, Follows, CleanIsKnown', IsTold', FreshReads',
         Around' \subseteq Around \cup {made + 1},
         call'.pc = "write" /\ call'.op \in {"patch", "create"} => call' = call
  PROVE  Follows'
  <1>1. UnwrittenIsNew'
    <2>1. call.text # made + 1
      BY MadeTextsBasics DEF Good, CallGood, Calls, MadeTexts
    <2> QED BY <2>1 DEF Follows, UnwrittenIsNew
  <1> QED BY <1>1 DEF Follows

LEMMA EntryFacts ==
  ASSUME Good PROVE /\ doc \in Entries(MadeTexts) /\ doc.own \in MadeTexts /\ made + 1 \notin MadeTexts
                    /\ reads \in [Readers -> MadeTexts \cup {Idle}]
  BY DocIsEntry, MadeTextsBasics DEF Good, DocsGood, ReadsGood, Entries, MadeTexts

\* A change of the file by another program.
LEMMA ForeignFollows ==
  ASSUME Good, Follows, "staleRead" \notin Races, ForeignWrite \/ ForeignDelete, call' = call
  PROVE  Follows'
  <1>1. /\ disk' \in {made + 1, NoFile} /\ noticed' = TRUE /\ doc' = doc /\ reads' = reads /\ Still
    BY DEF ForeignWrite, ForeignDelete, Write
  <1>2. CleanIsKnown'
    BY <1>1 DEF Follows, CleanIsKnown, Clean
  <1>3. IsTold'
    BY <1>1, EntryFacts DEF IsTold, Watched
  <1>4. FreshReads'
    BY <1>1 DEF FreshReads, Still
  <1>5. Around' \subseteq Around \cup {made + 1}
    BY <1>1 DEF Around
  <1> QED BY <1>2, <1>3, <1>4, <1>5, ShownFollows

\* A save, which writes what the document shows.
LEMMA SavingFollows ==
  ASSUME Good, Follows, "staleRead" \notin Races, NEW by,
         Write(doc.text, by), doc' = Saved(doc), \A u \in Updaters : reads'[u] = reads[u],
         call'.pc = "write" /\ call'.op \in {"patch", "create"} => call' = call
  PROVE  Follows'
  <1>1. disk' = doc.text /\ Still
    BY DEF Write
  <1>2. /\ doc'.text = doc.text /\ doc'.known = doc.text /\ doc'.own = doc.text
    BY EntryFacts DEF Saved, Entries
  <1>3. FreshReads'
    BY <1>1 DEF FreshReads, Still
  <1>4. CleanIsKnown' /\ IsTold'
    BY <1>1, <1>2 DEF CleanIsKnown, IsTold
  <1>5. Around' \subseteq Around
    BY <1>1, <1>2 DEF Around
  <1> QED BY <1>3, <1>4, <1>5, ShownFollows

\* The document becomes one with edits, marked, closed, or shows the file.
LEMMA EditFollows ==
  ASSUME Good, Follows, disk' = disk, Clean' => doc'.text = disk /\ doc'.known = disk,
         {doc'.text, doc'.own} \subseteq Around \cup {made + 1},
         \A u \in Updaters : reads'[u] \in {reads[u], Idle},
         call'.pc = "write" /\ call'.op \in {"patch", "create"} => call' = call
  PROVE  Follows'
  <1>1. CleanIsKnown' /\ IsTold'
    BY DEF CleanIsKnown, IsTold
  <1>2. FreshReads'
    BY DEF Follows, FreshReads
  <1>3. Around' \subseteq Around \cup {made + 1}
    BY DEF Around
  <1> QED BY <1>1, <1>2, <1>3, ShownFollows

\* A report of the text that is on disk.
LEMMA ReportFollows ==
  ASSUME Good, Follows, NEW r \in Updaters, HandleExternalChange(r),
         r = "watch" => call' = call,
         r = "notify" => call'.pc = "record"
  PROVE  Follows'
  <1>1. /\ disk' = disk /\ noticed' = noticed /\ doc' = Reported(doc, disk) /\ reads[r] = disk
        /\ reads' = [reads EXCEPT ![r] = Idle]
    BY DEF HandleExternalChange, Used, Follows, FreshReads
  <1>2. doc \in Entries(MadeTexts) /\ reads \in [Readers -> MadeTexts \cup {Idle}] /\ Updaters \subseteq Readers
    BY EntryFacts DEF Updaters, Readers
  <1>3. \A u \in Updaters : u # r => reads'[u] = reads[u]
    BY <1>1, <1>2
  <1>4. call'.pc = "write" /\ call'.op \in {"patch", "create"} => call' = call
    BY DEF Updaters
  <1>5. \A u \in Updaters : reads'[u] \in {reads[u], Idle}
    BY <1>1, <1>2
  <1>6. CASE disk # NoFile /\ doc.own # NoFile /\ disk = doc.own
    <2>1. doc' = [doc EXCEPT !.own = NoFile]
      BY <1>1, <1>6 DEF Reported
    <2>2. /\ doc'.text = doc.text /\ doc'.known = doc.known /\ doc'.own = NoFile
          /\ (Clean' <=> Clean)
      BY <1>2, <2>1 DEF Entries, Clean
    <2>3. CleanIsKnown'
      BY <2>2 DEF Follows, CleanIsKnown
    <2>4. FreshReads'
      BY <1>1, <1>5 DEF Follows, FreshReads
    <2>5. Clean /\ doc.text # disk => Watched /\ Told
      BY <1>6 DEF Follows, IsTold
    <2>6. (r = "watch" => Told' = Told) /\ (r = "notify" => (Watched => Watched'))
      BY <1>1, <1>3 DEF Told, Watched, Updaters
    <2>7. IsTold'
      BY <1>1, <2>2, <2>5, <2>6 DEF IsTold, Updaters
    <2>8. Around' \subseteq Around
      BY <1>1, <2>2 DEF Around
    <2> QED BY <1>4, <2>3, <2>4, <2>7, <2>8, ShownFollows
  <1>7. CASE ~(disk # NoFile /\ doc.own # NoFile /\ disk = doc.own)
    <2>1. Clean' => doc'.text = disk /\ doc'.known = disk
      <3>1. CASE disk = NoFile
        <4>1. doc'.dirty = TRUE
          BY <1>1, <1>2, <1>7, <3>1 DEF Reported, Entries
        <4> QED BY <4>1 DEF Clean
      <3>2. CASE disk # NoFile /\ disk = doc.known
        <4>1. doc' = doc
          BY <1>1, <1>7, <3>2 DEF Reported
        <4> QED BY <3>2, <4>1 DEF Follows, CleanIsKnown, Clean
      <3>3. CASE disk # NoFile /\ disk # doc.known /\ ~doc.dirty
        BY <1>1, <1>2, <1>7, <3>3 DEF Reported, Entries
      <3>4. CASE disk # NoFile /\ disk # doc.known /\ doc.dirty
        <4>1. doc'.ext = "modified"
          BY <1>1, <1>2, <1>7, <3>4 DEF Reported, Entries
        <4> QED BY <4>1 DEF Clean
      <3> QED BY <3>1, <3>2, <3>3, <3>4
    <2>2. doc'.text \in {doc.text, disk} /\ doc'.own = doc.own
      BY <1>1, <1>2, <1>7 DEF Reported, Entries
    <2>3. {doc'.text, doc'.own} \subseteq Around
      BY <2>2 DEF Around
    <2> QED BY <1>1, <1>4, <1>5, <2>1, <2>3, EditFollows
  <1> QED BY <1>6, <1>7

LEMMA SameCallFollows ==
  ASSUME Good, Follows, "staleRead" \notin Races, DocsNext, call' = call
  PROVE  Follows'
  <1>1. /\ doc \in Entries(MadeTexts) /\ disk # Idle /\ {"watch", "notify"} = Updaters
        /\ reads \in [Readers -> MadeTexts \cup {Idle}] /\ NoFile # Idle
    BY EntryFacts, FileIsNotIdle
  <1>2. CASE ForeignWrite \/ ForeignDelete
    BY <1>2, ForeignFollows
  <1>3. CASE Open
    <2>1. disk' = disk /\ reads' = reads /\ doc'.text = disk /\ doc'.known = disk /\ doc'.own = NoFile
      BY <1>3 DEF Open, Opened, Closed
    <2> QED BY <2>1, EditFollows DEF Around
  <1>4. CASE Type
    <2>1. disk' = disk /\ reads' = reads /\ doc'.text = made + 1 /\ doc'.own = doc.own /\ doc'.dirty = TRUE
      BY <1>1, <1>4 DEF Type, Edited, Entries
    <2> QED BY <2>1, EditFollows DEF Around, Clean
  <1>5. CASE Close
    <2>1. disk' = disk /\ doc'.open = FALSE /\ doc'.text = NoFile /\ doc'.own = NoFile
          /\ \A r \in Readers : reads'[r] = Idle
      BY <1>5 DEF Close, Closed
    <2>2. ~Clean'
      BY <2>1 DEF Clean
    <2> QED BY <1>1, <2>1, <2>2, EditFollows DEF Around, Readers
  <1>6. CASE Expire
    <2>1. /\ disk' = disk /\ reads' = reads /\ noticed' = noticed
          /\ doc'.text = doc.text /\ doc'.known = doc.known /\ doc'.own = NoFile /\ (Clean' <=> Clean)
      BY <1>1, <1>6 DEF Expire, Entries, Clean
    <2>2. CleanIsKnown' /\ IsTold' /\ FreshReads'
      BY <2>1 DEF Follows, CleanIsKnown, IsTold, FreshReads, Watched, Told
    <2> QED BY <2>1, <2>2, ShownFollows DEF Around
  <1>7. CASE SaveBegin \/ SaveFailed("save") \/ WatchBegin
    <2>1. doc' = doc /\ disk' = disk /\ \A u \in Updaters : reads'[u] \in {reads[u], Idle, disk}
      BY <1>1, <1>7 DEF SaveBegin, SaveFailed, WatchBegin, Read, Used, Readers
    <2>2. doc.open => (Watched => Watched')
      BY <1>1, <1>7 DEF SaveBegin, SaveFailed, WatchBegin, Read, Used, Watched, Readers
    <2> QED BY <1>1, <2>1, <2>2, QuietFollows DEF Told
  <1>8. CASE SaveRefused("save")
    <2>1. /\ disk' = disk /\ doc'.ext = "modified" /\ doc'.text = doc.text /\ doc'.own = doc.own
          /\ \A u \in Updaters : reads'[u] = reads[u]
      BY <1>1, <1>8 DEF SaveRefused, Conflicted, Entries, Used
    <2> QED BY <2>1, EditFollows DEF Around, Clean
  <1>9. CASE SaveDone("save", "user") \/ ForceSave
    <2>1. Write(doc.text, "user") /\ doc' = Saved(doc) /\ \A u \in Updaters : reads'[u] = reads[u]
      BY <1>1, <1>9 DEF SaveDone, ForceSave, Used, Readers
    <2> QED BY <2>1, SavingFollows
  <1>10. CASE HandleExternalChange("watch")
    BY <1>1, <1>10, ReportFollows
  <1>11. CASE \E choice \in {"reload", "keep"} : ResolveExternal(choice)
    <2>1. PICK choice \in {"reload", "keep"} : ResolveExternal(choice)
      BY <1>11
    <2>2. /\ disk' = disk /\ reads' = reads /\ doc'.known = disk /\ doc'.own = doc.own
          /\ doc'.text \in {doc.text, disk} /\ (doc'.dirty \/ doc'.text = disk)
      BY <1>1, <2>1 DEF ResolveExternal, Resolved, Entries
    <2> QED BY <2>2, EditFollows DEF Around, Clean
  <1> QED BY <1>2, <1>3, <1>4, <1>5, <1>6, <1>7, <1>8, <1>9, <1>10, <1>11 DEF DocsNext

\* The operations of the task.
LEMMA TaskFollows ==
  ASSUME Good, Follows, "staleRead" \notin Races, Next, ~UserActs
  PROVE  Follows'
  <1>1. /\ doc \in Entries(MadeTexts) /\ disk # Idle /\ {"watch", "notify"} = Updaters
        /\ reads \in [Readers -> MadeTexts \cup {Idle}] /\ NoFile # Idle
    BY EntryFacts, FileIsNotIdle
  <1>2. CASE PatchBegin \/ PatchRefused \/ PatchFile \/ CreateBegin \/ DeleteBegin \/ RejectBegin
             \/ RevertBegin \/ (\E op \in {"rollback", "force"} : RollbackBegin(op))
             \/ WriteFailed \/ Record
    <2>1. doc' = doc /\ disk' = disk /\ reads' = reads /\ noticed' = noticed /\ call.pc # "notify"
      <3>1. doc' = doc /\ disk' = disk /\ reads' = reads /\ noticed' = noticed
        BY <1>2 DEF PatchBegin, PatchRefused, PatchFile, CreateBegin, DeleteBegin, RejectBegin,
           RevertBegin, RollbackBegin, WriteFailed, Record, docVars
      <3>2. Free => call.pc = "idle"
        BY IdleIsFree
      <3>3. call.pc # "notify"
        BY <1>2, <3>2 DEF PatchBegin, PatchRefused, PatchFile, CreateBegin, DeleteBegin, RejectBegin,
           RevertBegin, RollbackBegin, WriteFailed, Record
      <3> QED BY <3>1, <3>3
    <2>2. call'.pc = "write" /\ call'.op \in {"patch", "create"} => call'.text = made + 1 \/ call' = call
      <3>1. PatchBegin => call'.pc = "check"
        BY DEF PatchBegin
      <3>2. PatchRefused \/ WriteFailed \/ Record => call'.pc = "idle"
        BY DEF PatchRefused, WriteFailed, Record, Ends, NoCall
      <3>3. PatchFile \/ CreateBegin => call'.text = made + 1
        <4>1. call \in Calls(MadeTexts)
          BY DEF Good, CallGood
        <4>2. PatchFile => call'.text = made + 1
          BY <4>1 DEF PatchFile, Calls
        <4> QED BY <4>2 DEF CreateBegin
      <3>4. DeleteBegin => call'.op = "delete" \/ call' = call
        BY DEF DeleteBegin
      <3>5. RejectBegin => call'.op = "reject"
        BY DEF RejectBegin
      <3>6. RevertBegin => call'.op = "revert"
        BY DEF RevertBegin
      <3>7. \A op \in {"rollback", "force"} : RollbackBegin(op) => call'.op = op
        BY DEF RollbackBegin
      <3> QED BY <1>2, <3>1, <3>2, <3>3, <3>4, <3>5, <3>6, <3>7
    <2> QED BY <1>1, <2>1, <2>2, QuietFollows DEF Watched, Told
  <1>3. CASE PatchDocument
    <2>1. /\ disk' = disk /\ doc'.text = made + 1 /\ doc'.own = doc.own /\ doc'.dirty = TRUE
          /\ \A u \in Updaters : reads'[u] = reads[u]
      BY <1>1, <1>3 DEF PatchDocument, Edited, Entries, Read
    <2>2. call'.pc = "save"
      BY <1>3 DEF PatchDocument, Good, CallGood, Calls
    <2> QED BY <2>1, <2>2, EditFollows DEF Around, Clean
  <1>4. CASE PatchSaved
    <2>1. PICK by : SaveDone("patch", by) /\ Goes("record")
      BY <1>4 DEF PatchSaved
    <2>2. Write(doc.text, by) /\ doc' = Saved(doc) /\ \A u \in Updaters : reads'[u] = reads[u]
      BY <1>1, <2>1 DEF SaveDone, Used
    <2>3. call'.pc = "record"
      BY <2>1 DEF Goes, Good, CallGood, Calls
    <2> QED BY <2>2, <2>3, SavingFollows
  <1>5. CASE PatchNotSaved
    <2>1. call'.pc = "idle" /\ call.pc = "save"
      BY <1>5, SavingIsKnown DEF PatchNotSaved, Ends, NoCall, SaveRefused, SaveFailed
    <2>2. CASE SaveRefused("patch")
      <3>1. /\ disk' = disk /\ doc'.ext = "modified" /\ doc'.text = doc.text /\ doc'.own = doc.own
            /\ \A u \in Updaters : reads'[u] = reads[u]
        BY <1>1, <2>2 DEF SaveRefused, Conflicted, Entries, Used
      <3> QED BY <2>1, <3>1, EditFollows DEF Around, Clean
    <2>3. CASE SaveFailed("patch")
      <3>1. doc' = doc /\ disk' = disk /\ noticed' = noticed /\ \A u \in Updaters : reads'[u] = reads[u]
        BY <1>1, <2>3 DEF SaveFailed, Used
      <3> QED BY <1>1, <2>1, <3>1, QuietFollows DEF Watched, Told
    <2> QED BY <1>5, <2>2, <2>3 DEF PatchNotSaved
  <1>6. CASE WriteBytes
    <2>1. /\ call.pc = "write" /\ disk' = call.text /\ noticed' = TRUE /\ Still
          /\ doc' = doc /\ reads' = reads
          /\ Goes(IF doc.open /\ call.op \in Notifying THEN "notify" ELSE "record")
      BY <1>6 DEF WriteBytes, Write
    <2>2. call'.pc = IF doc.open /\ call.op \in Notifying THEN "notify" ELSE "record"
      BY <2>1 DEF Goes, Good, CallGood, Calls
    <2>3. CleanIsKnown' /\ FreshReads'
      BY <2>1 DEF Follows, CleanIsKnown, Clean, FreshReads, Still
    <2>4. doc.open /\ doc.own = call.text /\ call.text # NoFile => call'.pc = "notify"
      <3>1. call.op \in Ops
        BY <2>1 DEF Good, CallGood, Calls
      <3>2. call.op \in {"patch", "create"} => call.text # doc.own
        BY <2>1 DEF Follows, UnwrittenIsNew, Around
      <3> QED BY <2>2, <3>1, <3>2 DEF Ops, Notifying
    <2>5. IsTold'
      BY <2>1, <2>4 DEF IsTold, Clean, Watched, Told
    <2> QED BY <2>2, <2>3, <2>5 DEF Follows, UnwrittenIsNew
  <1>7. CASE NotifyBegin
    <2>1. doc' = doc /\ disk' = disk /\ noticed' = noticed /\ call.pc = "notify"
          /\ reads'["watch"] = reads["watch"] /\ reads'["notify"] \in {reads["notify"], disk}
          /\ (doc.open => call' = call) /\ call'.pc # "write"
      BY <1>1, <1>7 DEF NotifyBegin, Read, Goes, Good, CallGood, Calls, Readers
    <2> QED BY <1>1, <2>1, QuietFollows DEF Watched, Told
  <1>8. CASE NotifyEnd
    <2>1. HandleExternalChange("notify") /\ call'.pc = "record"
      BY <1>8 DEF NotifyEnd, Goes, Good, CallGood, Calls
    <2> QED BY <1>1, <2>1, ReportFollows
  <1>9. CASE Crash
    <2>1. disk' = disk /\ doc'.open = FALSE /\ doc'.text = NoFile /\ doc'.own = NoFile
          /\ (\A r \in Readers : reads'[r] = Idle) /\ call'.pc = "idle"
      BY <1>9 DEF Crash, Closed, NoCall
    <2> QED BY <1>1, <2>1, EditFollows DEF Around, Clean, Readers
  <1> QED BY <1>2, <1>3, <1>4, <1>5, <1>6, <1>7, <1>8, <1>9 DEF Next

\* A document without edits follows the file, whatever writes it and however
\* the reports of the watcher and of the task's own writes interleave; that one
\* of them is mistaken for the echo of a save is made good by the other - as
\* long as no report is used after the file has changed again
\* (handleExternalChange, isOwnWrite).
THEOREM CleanFollowsDisk == ASSUME "staleRead" \notin Races PROVE Spec => []CleanShowsDisk
  <1>1. Init => Follows
    <2> SUFFICES ASSUME Init PROVE Follows
      OBVIOUS
    <2>1. doc.open = FALSE /\ call.pc = "idle" /\ \A r \in Readers : reads[r] = Idle
      BY DEF Init, DocsInit, Closed, NoCall
    <2> QED BY <2>1 DEF Follows, CleanIsKnown, IsTold, FreshReads, UnwrittenIsNew, Clean,
                        Readers, Updaters
  <1>2. Good /\ Follows /\ [Next]_vars => Follows'
    <2> SUFFICES ASSUME Good, Follows, [Next]_vars PROVE Follows'
      OBVIOUS
    <2>1. CASE UNCHANGED vars
      <3>1. UNCHANGED <<disk, doc, reads, noticed, call>>
        BY <2>1 DEF vars, docVars
      <3> QED BY <3>1, QuietFollows, EntryFacts DEF Watched, Told
    <2>2. CASE UserActs
      BY <2>2, SameCallFollows DEF UserActs
    <2>3. CASE Next /\ ~UserActs
      BY <2>3, TaskFollows
    <2> QED BY <2>1, <2>2, <2>3
  <1>3. Follows => CleanShowsDisk
    BY DEF Follows, IsTold, CleanShowsDisk, Clean, Watched, Told, Readers
  <1> QED BY <1>1, <1>2, <1>3, GoodHolds, PTL DEF Spec
=============================================================================
