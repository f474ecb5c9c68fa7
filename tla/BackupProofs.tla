---------------------------- MODULE BackupProofs ----------------------------
(***************************************************************************)
(* Proofs about backup and restore: they keep their types, each of their   *)
(* calls is a transaction of the store, and whatever is written meanwhile  *)
(* neither of them publishes a draft.                                      *)
(*                                                                         *)
(* The invariant behind all three: a restore reads only entries its backup *)
(* has, and no zip has private contents among its pages.                   *)
(*                                                                         *)
(* Then, how far a restore and a dump have come at each of their calls: a  *)
(* restore brings back what is in its zip, and a zip has what stayed as it *)
(* was while it was written.                                               *)
(***************************************************************************)
EXTENDS Backup, StoreProofs

RestoreReadsEntries ==
    restore # NoRestore =>
        /\ dump = NoDump
        /\ archive # NoArchive
        /\ restore.pc = "pages" =>
            \A p \in restore.todo : archive.pages[p] # NoPage
        /\ restore.pc = "drafts" =>
            \A p \in restore.todo : archive.drafts[p] # NoDraft
        /\ \A p \in Paths, k \in KVKeys :
            <<p, k>> \in restore.rows => archive.data[p][k] # NoValue

DumpIsPublic ==
    dump # NoDump => \A p \in Paths : dump.zip.pages[p] \notin PrivateContents

BackupInv ==
    TypeOK /\ BackupTypeOK /\ RestoreReadsEntries /\ DumpIsPublic
        /\ DraftsStayDrafts

\* No private content stands for a missing page.
LEMMA NoPageIsPublic == NoPage \notin PrivateContents
  BY BackupAssumption

LEMMA BackupInitially ==
    ASSUME BackupInit
    PROVE  BackupInv
<1>1. TypeOK
  BY TypeInit DEF BackupInit
<1>2. Unpublished(PrivateContents)
  BY DEF BackupInit, Init, Unpublished, Exists
<1>3. QED
  BY <1>1, <1>2
     DEF BackupInit, BackupInv, BackupTypeOK, RestoreReadsEntries,
         DumpIsPublic, DraftsStayDrafts

-----------------------------------------------------------------------------
(***************************************************************************)
(* What a step asks of the store.                                          *)
(***************************************************************************)

\* One transaction, which publishes nothing private.
Call(p) ==
    \/ \E c \in Contents \ PrivateContents, m \in Mimes : SavePage(p, c, m)
    \/ \E c \in Contents, m \in Mimes : SaveDraft(p, c, m)
    \/ \E q \in Paths : RenamePage(p, q)
    \/ DeletePage(p)
    \/ DiscardDraft(p)
    \/ ScriptOp(p)

Calls == UNCHANGED vars \/ \E p \in Paths : Call(p)

\* A restore writes pages with the public contents of the zip, drafts and data
\* with its values, and deletes (backup.go:252).
LEMMA RestoreCalls ==
    ASSUME BackupInv, RestoreStep
    PROVE  Calls
<1>. BackupTypeOK /\ RestoreReadsEntries /\ DraftsStayDrafts
  BY DEF BackupInv
<1>m. \A p \in Paths : MimeFor[p] \in Mimes
  BY BackupAssumption
<1>a. At("pages") \/ At("drafts") \/ At("data") => archive \in Archive
  BY DEF BackupTypeOK, RestoreReadsEntries, At
<1>1. CASE \E p \in Paths : RestorePage(p)
  <2>1. PICK p \in Paths : RestorePage(p)
    BY <1>1
  <2>2. archive.pages[p] \in Contents \ PrivateContents
    BY <2>1, <1>a
       DEF RestorePage, At, RestoreReadsEntries, Archive, DraftsStayDrafts
  <2>3. QED
    BY <2>1, <2>2, <1>m DEF RestorePage, Calls, Call
<1>2. CASE \E p \in Paths : RestoreDraft(p)
  <2>1. PICK p \in Paths : RestoreDraft(p)
    BY <1>2
  <2>2. archive.drafts[p] \in Contents
    BY <2>1, <1>a DEF RestoreDraft, At, RestoreReadsEntries, Archive
  <2>3. QED
    BY <2>1, <2>2, <1>m DEF RestoreDraft, Calls, Call
<1>3. CASE \E p \in Paths, k \in KVKeys : RestoreData(p, k)
  <2>1. PICK p \in Paths, k \in KVKeys : RestoreData(p, k)
    BY <1>3
  <2>2. archive.data[p][k] \in KVValues
    BY <2>1, <1>a DEF RestoreData, At, RestoreReadsEntries, Archive
  <2>3. ScriptOp(p)
    BY <2>1, <2>2 DEF RestoreData, ScriptOp
  <2>4. QED
    BY <2>3 DEF Calls, Call
<1>4. CASE \E p \in Paths : DeleteUnseen(p)
  BY <1>4 DEF DeleteUnseen, Calls, Call
<1>5. CASE (\E replace \in BOOLEAN : StartRestore(replace))
              \/ SkipEntry \/ NextPart \/ Answer
  BY <1>5 DEF StartRestore, SkipEntry, NextPart, Answer, Calls
<1>6. QED
  BY <1>1, <1>2, <1>3, <1>4, <1>5 DEF RestoreStep

\* So every step makes one call of the store, or none.
LEMMA StepCalls ==
    ASSUME BackupInv, [BackupNext]_backupVars
    PROVE  Calls
<1>1. CASE DumpStep
  BY <1>1 DEF DumpStep, StartDump, DumpPage, ListDrafts, DraftsToDump,
              DumpDraft, DumpData, DumpBreaksOff, Calls
<1>2. CASE RestoreStep
  BY <1>2, RestoreCalls
<1>3. CASE ServerStops
  BY <1>3 DEF ServerStops, Calls
<1>4. CASE Elsewhere
  <2>1. CASE \E p \in Paths : WriteElsewhere(p)
    <3>1. PICK p \in Paths : WriteElsewhere(p)
      BY <2>1
    <3>2. PrivateContents \subseteq Contents
      BY BackupAssumption
    <3>3. Call(p)
      BY <3>1, <3>2 DEF WriteElsewhere, Call
    <3>4. QED
      BY <3>3 DEF Calls
  <2>2. CASE \E p, q \in Paths : RenamePage(p, q)
    BY <2>2 DEF Calls, Call
  <2>3. QED
    BY <1>4, <2>1, <2>2 DEF Elsewhere
<1>5. CASE UNCHANGED backupVars
  BY <1>5 DEF backupVars, Calls
<1>6. QED
  BY <1>1, <1>2, <1>3, <1>4, <1>5 DEF BackupNext

\* Calls keep the store's types.
LEMMA CallsType ==
    ASSUME TypeOK, Calls
    PROVE  TypeOK'
<1>1. CASE UNCHANGED vars
  BY <1>1, TypeStep
<1>2. ASSUME NEW p \in Paths, Call(p)
      PROVE  TypeOK'
  BY <1>2, SavePageType, SaveDraftType, RenamePageType, DeletePageType,
     DiscardDraftType, ScriptOpType DEF Call
<1>3. QED
  BY <1>1, <1>2 DEF Calls

\* Calls publish nothing private.
LEMMA CallsKeepUnpublished ==
    ASSUME TypeOK, Unpublished(PrivateContents), Calls
    PROVE  Unpublished(PrivateContents)'
<1>1. CASE UNCHANGED vars
  BY <1>1, OtherStepsKeepUnpublished DEF vars, pageVars
<1>2. ASSUME NEW p \in Paths, Call(p)
      PROVE  Unpublished(PrivateContents)'
  <2>1. ASSUME NEW c \in Contents \ PrivateContents, NEW m \in Mimes,
               SavePage(p, c, m)
        PROVE  Unpublished(PrivateContents)'
    BY <2>1, SavePageKeepsUnpublished
  <2>2. ASSUME NEW q \in Paths, RenamePage(p, q)
        PROVE  Unpublished(PrivateContents)'
    BY <2>2, RenamePageKeepsUnpublished
  <2>3. CASE DeletePage(p)
    BY <2>3, DeletePageKeepsUnpublished
  <2>4. CASE (\E c \in Contents, m \in Mimes : SaveDraft(p, c, m))
                \/ DiscardDraft(p) \/ ScriptOp(p)
    <3>1. UNCHANGED pageVars
      BY <2>4 DEF SaveDraft, DiscardDraft, ScriptOp, ScriptKVSet,
                  ScriptKVDelete
    <3>2. QED
      BY <3>1, OtherStepsKeepUnpublished
  <2>5. QED
    BY <1>2, <2>1, <2>2, <2>3, <2>4 DEF Call
<1>3. QED
  BY <1>1, <1>2 DEF Calls

-----------------------------------------------------------------------------
(***************************************************************************)
(* The steps of a backup and of a restore.                                 *)
(***************************************************************************)

\* What a backup reads of the store are entries of a zip.
LEMMA EntriesType ==
    ASSUME TypeOK, NEW p \in Paths
    PROVE  /\ PageText(p) \in Contents \cup {NoPage}
           /\ DraftText(p) \in Contents \cup {NoDraft}
  BY DEF TypeOK, Exists, HasDraft, PageRow, Document, PageText, DraftText

\* A backup's step.
LEMMA DumpInv ==
    ASSUME BackupInv, DumpStep
    PROVE  /\ BackupTypeOK'
           /\ RestoreReadsEntries'
           /\ DumpIsPublic'
           /\ archive' # NoArchive =>
                \A p \in Paths : archive'.pages[p] \notin PrivateContents
<1>. /\ TypeOK /\ BackupTypeOK /\ RestoreReadsEntries /\ DumpIsPublic
     /\ DraftsStayDrafts
  BY DEF BackupInv
<1>. /\ UNCHANGED restore
     /\ dump # NoDump => dump \in Dump
  BY DEF DumpStep, StartDump, DumpPage, ListDrafts, DraftsToDump, DumpDraft,
         DumpData, DumpBreaksOff, BackupTypeOK
<1>1. CASE StartDump
  <2>1. EmptyZip \in Archive
    BY DEF EmptyZip, Archive, EmptyKV
  <2>2. dump' \in Dump
    BY <1>1, <2>1 DEF StartDump, Dump
  <2>3. \A p \in Paths : dump'.zip.pages[p] = NoPage
    BY <1>1 DEF StartDump, EmptyZip
  <2>4. QED
    BY <1>1, <2>2, <2>3, NoPageIsPublic
       DEF StartDump, BackupTypeOK, RestoreReadsEntries, DumpIsPublic,
           DraftsStayDrafts
<1>2. CASE \E p \in Paths : DumpPage(p)
  <2>1. PICK p \in Paths : DumpPage(p)
    BY <1>2
  <2>2. /\ PageText(p) \in Contents \cup {NoPage}
        /\ PageText(p) \notin PrivateContents
    BY EntriesType, NoPageIsPublic DEF DraftsStayDrafts, Unpublished, PageText
  <2>3. /\ dump \in Dump
        /\ \E e \in {PageText(p), NoPage},
              unread \in {dump.unread, dump.unread \cup {<<"page", p>>}} :
                dump' = [dump EXCEPT !.todo = @ \ {p}, !.zip.pages[p] = e,
                                     !.unread = unread]
    BY <2>1 DEF DumpPage
  <2>. PICK e \in {PageText(p), NoPage},
            unread \in {dump.unread, dump.unread \cup {<<"page", p>>}} :
                dump' = [dump EXCEPT !.todo = @ \ {p}, !.zip.pages[p] = e,
                                     !.unread = unread]
    BY <2>3
  <2>a. e \in Contents \cup {NoPage} /\ e \notin PrivateContents
    BY <2>2, NoPageIsPublic
  <2>b. unread \subseteq {"page", "draft"} \X Paths
    BY <2>3 DEF Dump
  <2>4. dump' \in Dump
    BY <2>a, <2>b, <2>3 DEF Dump, Archive
  <2>5. \A q \in Paths : dump'.zip.pages[q] \notin PrivateContents
    <3>1. dump.zip.pages \in [Paths -> Contents \cup {NoPage}]
      BY <2>3 DEF Dump, Archive
    <3>2. dump'.zip.pages = [dump.zip.pages EXCEPT ![p] = e]
      BY <2>3 DEF Dump, Archive
    <3>3. \A q \in Paths : dump.zip.pages[q] \notin PrivateContents
      BY <2>1 DEF DumpPage, DumpIsPublic
    <3>4. QED
      BY <2>a, <3>1, <3>2, <3>3
  <2>6. QED
    BY <2>1, <2>4, <2>5
       DEF DumpPage, BackupTypeOK, RestoreReadsEntries, DumpIsPublic,
           DraftsStayDrafts
<1>3. CASE ListDrafts
  <2>. DEFINE listed == {p \in Paths : HasDraft(p)}
  <2>1. dump # NoDump /\ dump \in Dump
    BY <1>3 DEF ListDrafts, DraftsToDump
  <2>2. PICK todo \in SUBSET Paths,
             unread \in {dump.unread, dump.unread \cup ({"draft"} \X listed)} :
                dump' = [dump EXCEPT !.pc = "drafts", !.todo = todo,
                                     !.unread = unread]
    BY <1>3 DEF ListDrafts, DraftsToDump
  <2>3. unread \subseteq {"page", "draft"} \X Paths
    BY <2>1 DEF Dump
  <2>4. dump' \in Dump /\ dump'.zip = dump.zip
    BY <2>1, <2>2, <2>3 DEF Dump
  <2>5. QED
    BY <1>3, <2>1, <2>4
       DEF ListDrafts, DraftsToDump, BackupTypeOK, RestoreReadsEntries,
           DumpIsPublic, DraftsStayDrafts
<1>4. CASE \E p \in Paths : DumpDraft(p)
  <2>1. PICK p \in Paths : DumpDraft(p)
    BY <1>4
  <2>3. /\ dump \in Dump
        /\ \E e \in {DraftText(p), NoDraft},
              unread \in {dump.unread, dump.unread \cup {<<"draft", p>>}} :
                dump' = [dump EXCEPT !.todo = @ \ {p}, !.zip.drafts[p] = e,
                                     !.unread = unread]
    BY <2>1 DEF DumpDraft
  <2>. PICK e \in {DraftText(p), NoDraft},
            unread \in {dump.unread, dump.unread \cup {<<"draft", p>>}} :
                dump' = [dump EXCEPT !.todo = @ \ {p}, !.zip.drafts[p] = e,
                                     !.unread = unread]
    BY <2>3
  <2>a. e \in Contents \cup {NoDraft}
    BY EntriesType
  <2>b. unread \subseteq {"page", "draft"} \X Paths
    BY <2>3 DEF Dump
  <2>4. dump' \in Dump /\ dump'.zip.pages = dump.zip.pages
    BY <2>a, <2>b, <2>3 DEF Dump, Archive
  <2>5. QED
    BY <2>1, <2>4
       DEF DumpDraft, BackupTypeOK, RestoreReadsEntries, DumpIsPublic,
           DraftsStayDrafts
<1>5. CASE DumpData
  <2>1. /\ dump \in Dump
        /\ \E data \in {scriptKV, dump.zip.data} :
                archive' = [dump.zip EXCEPT !.data = data]
    BY <1>5 DEF DumpData
  <2>2. archive' \in Archive /\ archive'.pages = dump.zip.pages
    BY <2>1 DEF Dump, Archive, TypeOK
  <2>3. QED
    BY <1>5, <2>2
       DEF DumpData, BackupTypeOK, RestoreReadsEntries, DumpIsPublic
<1>6. CASE DumpBreaksOff
  BY <1>6 DEF DumpBreaksOff, BackupTypeOK, RestoreReadsEntries, DumpIsPublic,
              DraftsStayDrafts
<1>7. QED
  BY <1>1, <1>2, <1>3, <1>4, <1>5, <1>6 DEF DumpStep

\* A restore's step.
LEMMA RestoreInv ==
    ASSUME BackupInv, RestoreStep
    PROVE  /\ BackupTypeOK'
           /\ RestoreReadsEntries'
           /\ UNCHANGED <<dump, archive>>
<1>. BackupTypeOK /\ RestoreReadsEntries
  BY DEF BackupInv
<1>. /\ UNCHANGED <<dump, archive>>
     /\ restore # NoRestore => restore \in Restore
  BY DEF RestoreStep, StartRestore, RestorePage, RestoreDraft, RestoreData,
         DeleteUnseen, SkipEntry, NextPart, Answer, BackupTypeOK
<1>1. ASSUME NEW replace \in BOOLEAN, StartRestore(replace)
      PROVE  BackupTypeOK' /\ RestoreReadsEntries'
  <2>1. restore' \in Restore
    BY <1>1 DEF StartRestore, Restore
  <2>2. QED
    BY <1>1, <2>1 DEF StartRestore, BackupTypeOK, RestoreReadsEntries
<1>2. ASSUME NEW todo \in SUBSET restore.todo, NEW rows \in SUBSET restore.rows,
             NEW seen \in SUBSET Paths, NEW clean \in BOOLEAN,
             restore # NoRestore,
             restore' = [restore EXCEPT !.todo = todo, !.rows = rows,
                                        !.seen = seen, !.clean = clean]
      PROVE  BackupTypeOK' /\ RestoreReadsEntries'
  <2>1. restore' \in Restore
    BY <1>2 DEF Restore
  <2>2. /\ restore'.pc = restore.pc
        /\ restore'.todo \subseteq restore.todo
        /\ restore'.rows \subseteq restore.rows
    BY <1>2 DEF Restore
  <2>3. QED
    BY <1>2, <2>1, <2>2 DEF BackupTypeOK, RestoreReadsEntries
<1>3. ASSUME NEW p \in Paths,
             RestorePage(p) \/ RestoreDraft(p) \/ DeleteUnseen(p)
      PROVE  BackupTypeOK' /\ RestoreReadsEntries'
  <2>1. restore # NoRestore /\ restore \in Restore
    BY <1>3 DEF RestorePage, RestoreDraft, DeleteUnseen, At
  <2>2. PICK seen \in SUBSET Paths, clean \in BOOLEAN :
            restore' = [restore EXCEPT !.todo = @ \ {p}, !.seen = seen,
                                       !.clean = clean]
    <3>1. /\ restore.seen \in SUBSET Paths
          /\ restore.seen \cup {p} \in SUBSET Paths
          /\ restore.clean \in BOOLEAN
      BY <2>1 DEF Restore
    <3>2. CASE restore' = [restore EXCEPT !.todo = @ \ {p}]
      <4>1. restore' = [restore EXCEPT !.todo = @ \ {p}, !.seen = restore.seen,
                                       !.clean = restore.clean]
        BY <2>1, <3>2 DEF Restore
      <4>2. QED
        BY <3>1, <4>1
    <3>3. CASE restore' = [restore EXCEPT !.todo = @ \ {p},
                                          !.seen = @ \cup {p}]
      <4>1. restore' = [restore EXCEPT !.todo = @ \ {p},
                                       !.seen = restore.seen \cup {p},
                                       !.clean = restore.clean]
        BY <2>1, <3>3 DEF Restore
      <4>2. QED
        BY <3>1, <4>1
    <3>4. CASE restore' = [restore EXCEPT !.todo = @ \ {p}, !.clean = FALSE]
      <4>1. restore' = [restore EXCEPT !.todo = @ \ {p}, !.seen = restore.seen,
                                       !.clean = FALSE]
        BY <2>1, <3>4 DEF Restore
      <4>2. QED
        BY <3>1, <4>1
    <3>5. QED
      BY <1>3, <3>2, <3>3, <3>4 DEF RestorePage, RestoreDraft, DeleteUnseen
  <2>3. restore' = [restore EXCEPT !.todo = restore.todo \ {p},
                                   !.rows = restore.rows,
                                   !.seen = seen, !.clean = clean]
    BY <2>1, <2>2 DEF Restore
  <2>4. QED
    BY <1>2, <2>1, <2>3
<1>4. ASSUME NEW p \in Paths, NEW k \in KVKeys, RestoreData(p, k)
      PROVE  BackupTypeOK' /\ RestoreReadsEntries'
  <2>1. restore # NoRestore /\ restore \in Restore
    BY <1>4 DEF RestoreData, At
  <2>2. restore' = [restore EXCEPT !.todo = restore.todo,
                                   !.rows = restore.rows \ {<<p, k>>},
                                   !.seen = restore.seen,
                                   !.clean = restore.clean]
    BY <1>4, <2>1 DEF RestoreData, Restore
  <2>3. restore.seen \in SUBSET Paths /\ restore.clean \in BOOLEAN
    BY <2>1 DEF Restore
  <2>4. QED
    BY <1>2, <2>1, <2>2, <2>3
<1>5. CASE SkipEntry
  <2>1. restore # NoRestore /\ restore \in Restore
    BY <1>5 DEF SkipEntry, At
  <2>2. PICK todo \in SUBSET restore.todo, rows \in SUBSET restore.rows :
            \/ restore' = [restore EXCEPT !.todo = todo, !.clean = FALSE]
            \/ restore' = [restore EXCEPT !.rows = rows, !.clean = FALSE]
    BY <1>5 DEF SkipEntry
  <2>3. \/ restore' = [restore EXCEPT !.todo = todo, !.rows = restore.rows,
                                      !.seen = restore.seen, !.clean = FALSE]
        \/ restore' = [restore EXCEPT !.todo = restore.todo, !.rows = rows,
                                      !.seen = restore.seen, !.clean = FALSE]
    BY <2>1, <2>2 DEF Restore
  <2>4. restore.seen \in SUBSET Paths
    BY <2>1 DEF Restore
  <2>5. QED
    BY <1>2, <2>1, <2>3, <2>4
<1>6. CASE NextPart
  <2>1. restore # NoRestore /\ restore \in Restore
    BY <1>6 DEF NextPart, At
  <2>. DEFINE kept == {p \in Paths : archive.drafts[p] # NoDraft}
             rows == {row \in Paths \X KVKeys :
                        archive.data[row[1]][row[2]] # NoValue}
             unseen == {p \in Paths : Exists(p)} \ restore.seen
  <2>2. kept \in SUBSET Paths /\ unseen \in SUBSET Paths
    OBVIOUS
  <2>3. /\ rows \in SUBSET (Paths \X KVKeys)
        /\ \A p \in Paths, k \in KVKeys :
                <<p, k>> \in rows => archive.data[p][k] # NoValue
    OBVIOUS
  <2>4. \/ restore' = [restore EXCEPT !.pc = "drafts", !.todo = kept]
        \/ restore' = [restore EXCEPT !.pc = "data", !.rows = rows]
        \/ restore' = [restore EXCEPT !.pc = "delete", !.todo = unseen]
        \/ restore' = [restore EXCEPT !.pc = "answer"]
        \/ restore' = [restore EXCEPT !.pc = "answer", !.clean = FALSE]
    BY <1>6 DEF NextPart, At
  <2>5. \A p \in kept : archive.drafts[p] # NoDraft
    OBVIOUS
  <2>. HIDE DEF kept, rows, unseen
  <2>6. restore' \in Restore
    BY <2>1, <2>2, <2>3, <2>4 DEF Restore
  <2>7. \/ restore'.pc = "drafts" /\ restore'.todo = kept
           /\ restore'.rows = restore.rows
        \/ restore'.pc = "data" /\ restore'.rows = rows
        \/ restore'.pc \in {"delete", "answer"} /\ restore'.rows = restore.rows
    BY <2>1, <2>4 DEF Restore
  <2>8. RestoreReadsEntries'
    BY <2>1, <2>3, <2>5, <2>7 DEF RestoreReadsEntries
  <2>9. QED
    BY <2>6, <2>8 DEF BackupTypeOK
<1>7. CASE Answer
  BY <1>7 DEF Answer, BackupTypeOK, RestoreReadsEntries
<1>8. QED
  BY <1>1, <1>3, <1>4, <1>5, <1>6, <1>7 DEF RestoreStep

\* A write elsewhere only marks what is under way.
LEMMA ElsewhereInv ==
    ASSUME BackupInv, Elsewhere
    PROVE  BackupTypeOK' /\ RestoreReadsEntries' /\ DumpIsPublic'
<1>. BackupTypeOK /\ RestoreReadsEntries /\ DumpIsPublic
  BY DEF BackupInv
<1>1. PICK ps \in SUBSET Paths : Wrote(ps)
  BY DEF Elsewhere
<1>2. /\ dump' \in Dump \cup {NoDump}
      /\ dump = NoDump => dump' = NoDump
      /\ dump' # NoDump => dump # NoDump /\ dump'.zip = dump.zip
  BY <1>1 DEF Wrote, BackupTypeOK, Dump
<1>3. /\ restore' \in Restore \cup {NoRestore}
      /\ restore' # NoRestore =>
            /\ restore # NoRestore
            /\ restore'.pc = restore.pc
            /\ restore'.todo = restore.todo
            /\ restore'.rows = restore.rows
  BY DEF Elsewhere, BackupTypeOK, Restore
<1>4. archive' = archive
  BY DEF Elsewhere
<1>5. QED
  BY <1>2, <1>3, <1>4 DEF BackupTypeOK, RestoreReadsEntries, DumpIsPublic

-----------------------------------------------------------------------------
(***************************************************************************)
(* Together.                                                               *)
(***************************************************************************)

LEMMA BackupStep ==
    ASSUME BackupInv, [BackupNext]_backupVars
    PROVE  BackupInv'
<1>. /\ TypeOK /\ BackupTypeOK /\ RestoreReadsEntries /\ DumpIsPublic
     /\ DraftsStayDrafts /\ Unpublished(PrivateContents)
  BY DEF BackupInv, DraftsStayDrafts
<1>1. TypeOK' /\ Unpublished(PrivateContents)'
  BY StepCalls, CallsType, CallsKeepUnpublished
<1>2. CASE DumpStep
  BY <1>1, <1>2, DumpInv DEF BackupInv, DraftsStayDrafts
<1>3. CASE RestoreStep
  BY <1>1, <1>3, RestoreInv DEF BackupInv, DraftsStayDrafts, DumpIsPublic
<1>4. CASE ServerStops
  BY <1>1, <1>4 DEF ServerStops, BackupInv, BackupTypeOK, RestoreReadsEntries,
                    DumpIsPublic, DraftsStayDrafts
<1>5. CASE Elsewhere
  <2>1. UNCHANGED archive
    BY <1>5 DEF Elsewhere
  <2>2. QED
    BY <1>1, <1>5, <2>1, ElsewhereInv DEF BackupInv, DraftsStayDrafts
<1>6. CASE UNCHANGED backupVars
  BY <1>1, <1>6 DEF backupVars, BackupInv, BackupTypeOK, RestoreReadsEntries,
                    DumpIsPublic, DraftsStayDrafts
<1>7. QED
  BY <1>2, <1>3, <1>4, <1>5, <1>6 DEF BackupNext

\* What is under way and the last backup keep their types.
THEOREM BackupTypeCorrect == BackupSpec => []BackupTypeOK
<1>1. BackupInv => BackupTypeOK
  BY DEF BackupInv
<1>2. QED
  BY BackupInitially, BackupStep, <1>1, PTL DEF BackupSpec

\* Neither a backup nor a restore, cut short or not and whoever writes
\* meanwhile, brings a draft's contents into a page, the search index, the
\* history or the pages of a zip.
THEOREM DraftsComeBackAsDrafts == BackupSpec => []DraftsStayDrafts
<1>1. BackupInv => DraftsStayDrafts
  BY DEF BackupInv
<1>2. QED
  BY BackupInitially, BackupStep, <1>1, PTL DEF BackupSpec

\* Backup, restore and the other doors implement the store.
THEOREM BackupImplementsStore ==
    ASSUME DraftPaths = Paths
    PROVE  BackupSpec => Spec
<1>1. BackupInv /\ [BackupNext]_backupVars => [Next]_vars
  <2>1. ASSUME NEW p \in Paths, Call(p)
        PROVE  Next
    <3>1. ScriptOp(p) => Next
      BY DEF Next
    <3>2. QED
      BY <2>1, <3>1, StoreCalls DEF Call
  <2>2. QED
    BY <2>1, StepCalls DEF Calls
<1>2. BackupInit => Init
  BY DEF BackupInit
<1>3. QED
  BY <1>1, <1>2, BackupInitially, BackupStep, PTL DEF BackupSpec, Spec

\* So what readers and search see during a restore is still a published site.
COROLLARY BackupImplementsSite ==
    ASSUME DraftPaths = Paths
    PROVE  BackupSpec => ImplementsPublishedSite
  BY BackupImplementsStore, StoreImplementsSite

-----------------------------------------------------------------------------
(***************************************************************************)
(* What a restore brings back.  Pages, drafts and data come one after the  *)
(* other and each call writes one of them only, so that what is back stays *)
(* back; the deletions at the end spare the paths of the pages in the zip. *)
(***************************************************************************)

InZip == {p \in Paths : archive.pages[p] # NoPage}

DraftIsBack(p) == archive.drafts[p] # NoDraft => DraftText(p) = archive.drafts[p]

ValueIsBack(p, k) ==
    archive.data[p][k] # NoValue => scriptKV[p][k] = archive.data[p][k]

WorkIsBack(p) == DraftIsBack(p) /\ \A k \in KVKeys : ValueIsBack(p, k)

\* How far a restore that nobody disturbed has come.
RestoreSoFar ==
    restore # NoRestore /\ restore.clean =>
        /\ \A p \in restore.seen : PageText(p) = archive.pages[p]
        /\ restore.seen = IF restore.pc = "pages" THEN InZip \ restore.todo
                          ELSE InZip
        /\ restore.pc = "drafts" => \A p \in Paths \ restore.todo : DraftIsBack(p)
        /\ restore.pc = "data" =>
            \A p \in Paths :
                /\ DraftIsBack(p)
                /\ \A k \in KVKeys : <<p, k>> \in restore.rows \/ ValueIsBack(p, k)
        /\ restore.pc = "delete" =>
            /\ restore.replace /\ restore.seen # {}
            /\ \A p \in Paths : Exists(p) => p \in restore.seen \cup restore.todo
            /\ restore.todo \cap restore.seen = {}
            /\ \A p \in restore.seen : WorkIsBack(p)
        /\ restore.pc = "answer" =>
            IF restore.replace /\ restore.seen # {}
            THEN /\ \A p \in Paths : Exists(p) => p \in restore.seen
                 /\ \A p \in restore.seen : WorkIsBack(p)
            ELSE \A p \in Paths : WorkIsBack(p)

\* Saving a page says what it says, and touches no other page and no work.
LEMMA SavePageSays ==
    ASSUME TypeOK, NEW p \in Paths, NEW c \in Contents, NEW m \in Mimes,
           SavePage(p, c, m)
    PROVE  /\ PageText(p)' = c
           /\ \A q \in Paths \ {p} : PageText(q)' = PageText(q)
           /\ UNCHANGED <<drafts, scriptKV>>
<1>1. CASE InsertPage(p, c, m)
  <2>1. PICK i \in PageIds :
          pages' = [pages EXCEPT ![p] = [id |-> i, title |-> DerivedTitle(p, c, m),
                                         content |-> c, mime |-> m]]
    BY <1>1 DEF InsertPage
  <2>. DEFINE row == [id |-> i, title |-> DerivedTitle(p, c, m),
                      content |-> c, mime |-> m]
  <2>2. row \in PageRow /\ row.content = c
    BY DerivedTitleType DEF PageRow
  <2>3. pages' = [pages EXCEPT ![p] = row]
    BY <2>1
  <2>. HIDE DEF row
  <2>4. QED
    BY <2>2, <2>3, SentinelsAssumption DEF TypeOK, PageText, Exists, SavePage
<1>2. CASE UpdatePage(p, c, m)
  <2>. DEFINE row == [pages[p] EXCEPT !.title = DerivedTitle(p, c, m),
                                      !.content = c, !.mime = m]
  <2>1. pages[p] \in PageRow
    BY <1>2 DEF TypeOK, UpdatePage, Exists
  <2>2. row \in PageRow /\ row.content = c
    BY <2>1, DerivedTitleType DEF PageRow
  <2>3. pages' = [pages EXCEPT ![p] = row]
    BY <1>2 DEF UpdatePage
  <2>. HIDE DEF row
  <2>4. QED
    BY <2>2, <2>3, SentinelsAssumption DEF TypeOK, PageText, Exists, SavePage
<1>3. QED
  BY <1>1, <1>2 DEF SavePage

\* Saving a draft touches no other draft, no page and no data.
LEMMA SaveDraftSays ==
    ASSUME TypeOK, NEW p \in Paths, NEW c \in Contents, NEW m \in Mimes,
           SaveDraft(p, c, m)
    PROVE  /\ DraftText(p)' = c
           /\ \A q \in Paths \ {p} : DraftText(q)' = DraftText(q)
           /\ UNCHANGED <<pages, scriptKV>>
<1>. DEFINE d == [content |-> c, mime |-> m]
<1>1. d \in Document /\ d.content = c
  BY DEF Document
<1>2. drafts' = [drafts EXCEPT ![p] = d]
  BY DEF SaveDraft
<1>. HIDE DEF d
<1>3. QED
  BY <1>1, <1>2, SentinelsAssumption
     DEF TypeOK, DraftText, HasDraft, SaveDraft, pageVars

\* Deleting a page takes its work with it, and nothing of any other path.
LEMMA DeletePageSpares ==
    ASSUME TypeOK, NEW p \in Paths, DeletePage(p)
    PROVE  /\ ~ Exists(p)'
           /\ \A q \in Paths \ {p} :
                /\ Exists(q)' = Exists(q)
                /\ PageText(q)' = PageText(q)
                /\ DraftText(q)' = DraftText(q)
                /\ scriptKV'[q] = scriptKV[q]
BY DEF TypeOK, DeletePage, Exists, PageText, HasDraft, DraftText

\* A restore under way has a zip, and keeps it.
LEMMA ZipIsThere ==
    ASSUME BackupInv, restore # NoRestore
    PROVE  /\ restore \in Restore
           /\ archive \in Archive
           /\ \A p \in Paths : archive.pages[p] # NoPage =>
                archive.pages[p] \in Contents
           /\ \A p \in Paths : archive.drafts[p] # NoDraft =>
                archive.drafts[p] \in Contents
BY DEF BackupInv, BackupTypeOK, RestoreReadsEntries, Archive

LEMMA PageComesBack ==
    ASSUME BackupInv, RestoreSoFar, NEW p \in Paths, RestorePage(p)
    PROVE  RestoreSoFar'
<1>1. /\ restore # NoRestore /\ restore.pc = "pages" /\ p \in restore.todo
      /\ SavePage(p, archive.pages[p], MimeFor[p])
      /\ restore' = [restore EXCEPT !.todo = @ \ {p}, !.seen = @ \cup {p}]
      /\ archive' = archive
  BY DEF RestorePage, At
<1>2. archive.pages[p] # NoPage /\ archive.pages[p] \in Contents
  BY <1>1, ZipIsThere DEF BackupInv, RestoreReadsEntries
<1>3. /\ restore'.pc = "pages" /\ restore'.clean = restore.clean
      /\ restore'.todo = restore.todo \ {p}
      /\ restore'.seen = restore.seen \cup {p}
  BY <1>1, ZipIsThere DEF Restore
<1>4. /\ PageText(p)' = archive.pages[p]
      /\ \A q \in Paths \ {p} : PageText(q)' = PageText(q)
  BY <1>1, <1>2, SavePageSays, BackupAssumption DEF BackupInv
<1>5. restore.seen \subseteq Paths /\ p \in InZip /\ InZip' = InZip
  BY <1>1, <1>2, ZipIsThere DEF Restore, InZip
<1>6. QED
  BY <1>1, <1>3, <1>4, <1>5 DEF RestoreSoFar

LEMMA DraftComesBack ==
    ASSUME BackupInv, RestoreSoFar, NEW p \in Paths, RestoreDraft(p)
    PROVE  RestoreSoFar'
<1>1. /\ restore # NoRestore /\ restore.pc = "drafts" /\ p \in restore.todo
      /\ SaveDraft(p, archive.drafts[p], MimeFor[p])
      /\ restore' = [restore EXCEPT !.todo = @ \ {p}]
      /\ archive' = archive
  BY DEF RestoreDraft, At
<1>2. archive.drafts[p] # NoDraft /\ archive.drafts[p] \in Contents
  BY <1>1, ZipIsThere DEF BackupInv, RestoreReadsEntries
<1>3. /\ restore'.pc = "drafts" /\ restore'.clean = restore.clean
      /\ restore'.todo = restore.todo \ {p}
      /\ restore'.seen = restore.seen
  BY <1>1, ZipIsThere DEF Restore
<1>4. /\ DraftText(p)' = archive.drafts[p]
      /\ \A q \in Paths \ {p} : DraftText(q)' = DraftText(q)
      /\ UNCHANGED pages
  BY <1>1, <1>2, SaveDraftSays, BackupAssumption DEF BackupInv
<1>5. \A q \in Paths : PageText(q)' = PageText(q)
  BY <1>4 DEF PageText, Exists
<1>6. restore.seen \subseteq Paths /\ InZip' = InZip
  BY <1>1, ZipIsThere DEF Restore, InZip
<1>7. QED
  BY <1>1, <1>3, <1>4, <1>5, <1>6 DEF RestoreSoFar, DraftIsBack

LEMMA ValueComesBack ==
    ASSUME BackupInv, RestoreSoFar, NEW p \in Paths, NEW k \in KVKeys,
           RestoreData(p, k)
    PROVE  RestoreSoFar'
<1>1. /\ restore # NoRestore /\ restore.pc = "data"
      /\ scriptKV' = [scriptKV EXCEPT ![p][k] = archive.data[p][k]]
      /\ restore' = [restore EXCEPT !.rows = @ \ {<<p, k>>}]
      /\ UNCHANGED <<archive, pages, drafts>>
  BY DEF RestoreData, At, ScriptKVSet, pageVars, draftVars
<1>2. /\ restore'.pc = "data" /\ restore'.clean = restore.clean
      /\ restore'.rows = restore.rows \ {<<p, k>>}
      /\ restore'.seen = restore.seen
  BY <1>1, ZipIsThere DEF Restore
<1>3. /\ scriptKV'[p][k] = archive.data[p][k]
      /\ \A q \in Paths, l \in KVKeys :
            <<q, l>> # <<p, k>> => scriptKV'[q][l] = scriptKV[q][l]
  BY <1>1 DEF BackupInv, TypeOK
<1>4. \A q \in Paths : PageText(q)' = PageText(q) /\ DraftText(q)' = DraftText(q)
  BY <1>1 DEF PageText, Exists, DraftText, HasDraft
<1>5. restore.seen \subseteq Paths /\ InZip' = InZip
  BY <1>1, ZipIsThere DEF Restore, InZip
<1>6. QED
  BY <1>1, <1>2, <1>3, <1>4, <1>5 DEF RestoreSoFar, DraftIsBack, ValueIsBack

LEMMA UnseenGo ==
    ASSUME BackupInv, RestoreSoFar, NEW p \in Paths, DeleteUnseen(p)
    PROVE  RestoreSoFar'
<1>1. /\ restore # NoRestore /\ restore.pc = "delete" /\ p \in restore.todo
      /\ archive' = archive
  BY DEF DeleteUnseen, At
<1>. SUFFICES ASSUME restore'.clean, restore' # NoRestore
              PROVE  RestoreSoFar'
  BY DEF RestoreSoFar
<1>2. restore' = [restore EXCEPT !.todo = @ \ {p}]
      /\ (DeletePage(p) \/ (~ Exists(p) /\ UNCHANGED vars))
  BY <1>1, ZipIsThere DEF DeleteUnseen, Restore
<1>3. /\ restore'.pc = "delete" /\ restore.clean
      /\ restore'.todo = restore.todo \ {p}
      /\ restore'.seen = restore.seen /\ restore'.replace = restore.replace
  BY <1>1, <1>2, ZipIsThere DEF Restore
<1>4. p \notin restore.seen
  BY <1>1, <1>3 DEF RestoreSoFar
<1>5. /\ ~ Exists(p)'
      /\ \A q \in Paths \ {p} :
            /\ Exists(q)' = Exists(q)
            /\ PageText(q)' = PageText(q)
            /\ DraftText(q)' = DraftText(q)
            /\ scriptKV'[q] = scriptKV[q]
  <2>1. CASE DeletePage(p)
    BY <2>1, DeletePageSpares DEF BackupInv
  <2>2. CASE ~ Exists(p) /\ UNCHANGED vars
    BY <2>2 DEF vars, Exists, PageText, HasDraft, DraftText
  <2>3. QED
    BY <1>2, <2>1, <2>2
<1>6. restore.seen \subseteq Paths /\ InZip' = InZip
  BY <1>1, ZipIsThere DEF Restore, InZip
<1>7. \A q \in restore.seen : WorkIsBack(q)' = WorkIsBack(q)
  BY <1>1, <1>4, <1>5, <1>6 DEF WorkIsBack, DraftIsBack, ValueIsBack
<1>8. QED
  BY <1>1, <1>3, <1>4, <1>5, <1>6, <1>7 DEF RestoreSoFar

\* From one part to the next nothing is written, and every entry of the part
\* has come back.
LEMMA PartsFollow ==
    ASSUME BackupInv, RestoreSoFar, NextPart
    PROVE  RestoreSoFar'
<1>1. /\ restore # NoRestore /\ restore \in Restore /\ archive \in Archive
      /\ UNCHANGED <<vars, archive>>
  BY ZipIsThere DEF NextPart, At
<1>2. /\ InZip' = InZip
      /\ \A p \in Paths :
            /\ Exists(p)' = Exists(p)
            /\ PageText(p)' = PageText(p)
            /\ DraftIsBack(p)' = DraftIsBack(p)
            /\ \A k \in KVKeys : ValueIsBack(p, k)' = ValueIsBack(p, k)
  BY <1>1 DEF vars, Exists, PageText, HasDraft, DraftText, InZip, DraftIsBack,
              ValueIsBack
<1>3. \A p \in Paths : WorkIsBack(p)' = WorkIsBack(p)
  BY <1>2 DEF WorkIsBack
<1>4. restore.seen \subseteq Paths
  BY <1>1 DEF Restore
<1>. SUFFICES ASSUME restore'.clean
              PROVE  RestoreSoFar'
  BY DEF RestoreSoFar
<1>5. CASE restore.pc = "pages"
  <2>1. /\ restore' = [restore EXCEPT
                !.pc = "drafts",
                !.todo = {p \in Paths : archive.drafts[p] # NoDraft}]
        /\ restore.todo = {}
    BY <1>5 DEF NextPart, At
  <2>2. /\ restore'.pc = "drafts" /\ restore.clean /\ restore'.seen = restore.seen
        /\ restore'.todo = {p \in Paths : archive.drafts[p] # NoDraft}
    BY <1>1, <2>1 DEF Restore
  <2>3. restore.seen = InZip
    BY <1>1, <1>5, <2>1, <2>2 DEF RestoreSoFar
  <2>4. \A p \in Paths \ restore'.todo : DraftIsBack(p)
    BY <2>2 DEF DraftIsBack
  <2>5. QED
    BY <1>1, <1>2, <1>4, <2>2, <2>3, <2>4 DEF RestoreSoFar
<1>6. CASE restore.pc = "drafts"
  <2>. DEFINE all == {row \in Paths \X KVKeys :
                        archive.data[row[1]][row[2]] # NoValue}
  <2>1. /\ restore' = [restore EXCEPT !.pc = "data", !.rows = all]
        /\ restore.todo = {}
    BY <1>6 DEF NextPart, At
  <2>2. \A p \in Paths, k \in KVKeys : <<p, k>> \in all \/ ValueIsBack(p, k)
    BY DEF ValueIsBack
  <2>. HIDE DEF all
  <2>3. /\ restore'.pc = "data" /\ restore.clean /\ restore'.seen = restore.seen
        /\ restore'.rows = all
    BY <1>1, <2>1 DEF Restore
  <2>4. restore.seen = InZip /\ \A p \in Paths : DraftIsBack(p)
    BY <1>1, <1>6, <2>1, <2>3 DEF RestoreSoFar
  <2>5. QED
    BY <1>1, <1>2, <1>4, <2>2, <2>3, <2>4 DEF RestoreSoFar
<1>7. CASE restore.pc = "data"
  <2>0. restore' # [restore EXCEPT !.pc = "answer", !.clean = FALSE]
    BY <1>1 DEF Restore
  <2>1. /\ restore.rows = {}
        /\ \/ /\ restore.replace /\ restore.seen # {}
              /\ restore' = [restore EXCEPT
                    !.pc = "delete",
                    !.todo = {p \in Paths : Exists(p)} \ restore.seen]
           \/ /\ ~ restore.replace \/ restore.seen = {}
              /\ restore' = [restore EXCEPT !.pc = "answer"]
    BY <1>7, <2>0 DEF NextPart, At
  <2>2. /\ restore.clean /\ restore'.seen = restore.seen
        /\ restore'.replace = restore.replace
        /\ \/ /\ restore.replace /\ restore.seen # {} /\ restore'.pc = "delete"
              /\ restore'.todo = {p \in Paths : Exists(p)} \ restore.seen
           \/ /\ ~ restore.replace \/ restore.seen = {}
              /\ restore'.pc = "answer"
    BY <1>1, <2>1 DEF Restore
  <2>3. restore.seen = InZip /\ \A p \in Paths : WorkIsBack(p)
    BY <1>1, <1>7, <2>1, <2>2 DEF RestoreSoFar, WorkIsBack
  <2>4. QED
    BY <1>1, <1>2, <1>3, <1>4, <2>2, <2>3 DEF RestoreSoFar
<1>8. CASE restore.pc = "delete"
  <2>1. /\ restore.todo = {}
        /\ restore' = [restore EXCEPT !.pc = "answer"]
    BY <1>8 DEF NextPart, At
  <2>2. /\ restore.clean /\ restore'.pc = "answer"
        /\ restore'.seen = restore.seen /\ restore'.replace = restore.replace
    BY <1>1, <2>1 DEF Restore
  <2>3. QED
    BY <1>1, <1>2, <1>3, <1>4, <1>8, <2>1, <2>2 DEF RestoreSoFar
<1>9. QED
  BY <1>5, <1>6, <1>7, <1>8 DEF NextPart, At

LEMMA RestoreStarts ==
    ASSUME BackupInv, NEW replace \in BOOLEAN, StartRestore(replace)
    PROVE  RestoreSoFar'
BY DEF StartRestore, RestoreSoFar, InZip

\* A restore that is disturbed or over is not spoken of.
LEMMA DisturbedOrOver ==
    ASSUME BackupInv, restore' # NoRestore => ~ restore'.clean
    PROVE  RestoreSoFar'
BY DEF RestoreSoFar

\* Without a restore under way a step starts none, except the one that does.
LEMMA NoRestoreStarts ==
    ASSUME restore' = restore, restore = NoRestore
    PROVE  RestoreSoFar'
BY DEF RestoreSoFar

LEMMA SoFarStep ==
    ASSUME BackupInv, RestoreSoFar, [BackupNext]_backupVars
    PROVE  RestoreSoFar'
<1>1. CASE DumpStep
  <2>1. restore' = restore
    BY <1>1 DEF DumpStep, StartDump, DumpPage, ListDrafts, DraftsToDump,
                DumpDraft, DumpData, DumpBreaksOff
  <2>2. restore = NoRestore
    BY <1>1 DEF DumpStep, StartDump, DumpPage, ListDrafts, DraftsToDump,
                DumpDraft, DumpData, DumpBreaksOff, BackupInv,
                RestoreReadsEntries
  <2>3. QED
    BY <2>1, <2>2, NoRestoreStarts
<1>2. CASE RestoreStep
  <2>1. CASE SkipEntry
    <3>1. restore \in Restore /\ restore' # NoRestore => restore'.clean = FALSE
      BY <2>1 DEF SkipEntry, Restore
    <3>2. QED
      BY <2>1, <3>1, ZipIsThere, DisturbedOrOver DEF SkipEntry, At
  <2>2. CASE Answer
    BY <2>2, DisturbedOrOver DEF Answer
  <2>3. QED
    BY <1>2, <2>1, <2>2, PageComesBack, DraftComesBack, ValueComesBack,
       UnseenGo, PartsFollow, RestoreStarts DEF RestoreStep
<1>3. CASE ServerStops
  BY <1>3, DisturbedOrOver DEF ServerStops
<1>4. CASE Elsewhere
  <2>1. restore' # NoRestore => ~ restore'.clean
    BY <1>4, ZipIsThere DEF Elsewhere, Restore
  <2>2. QED
    BY <2>1, DisturbedOrOver
<1>5. CASE UNCHANGED backupVars
  <2>1. \A p \in Paths :
            /\ Exists(p)' = Exists(p) /\ PageText(p)' = PageText(p)
            /\ DraftIsBack(p)' = DraftIsBack(p) /\ WorkIsBack(p)' = WorkIsBack(p)
            /\ \A k \in KVKeys : ValueIsBack(p, k)' = ValueIsBack(p, k)
    BY <1>5 DEF backupVars, vars, Exists, PageText, HasDraft, DraftText,
                DraftIsBack, ValueIsBack, WorkIsBack
  <2>2. UNCHANGED <<restore, archive>> /\ InZip' = InZip
    BY <1>5 DEF backupVars, InZip
  <2>3. restore # NoRestore => restore.seen \subseteq Paths
    BY ZipIsThere DEF Restore
  <2>4. QED
    BY <2>1, <2>2, <2>3 DEF RestoreSoFar
<1>6. QED
  BY <1>1, <1>2, <1>3, <1>4, <1>5 DEF BackupNext

LEMMA FaithfulAtTheEnd ==
    ASSUME BackupInv, RestoreSoFar
    PROVE  RestoreIsFaithful
<1>. SUFFICES ASSUME At("answer"), restore.clean, restore.seen # {},
                     NEW p \in Paths
              PROVE  /\ archive.pages[p] # NoPage => PageText(p) = archive.pages[p]
                     /\ restore.replace /\ Exists(p) => archive.pages[p] # NoPage
                     /\ ~ restore.replace \/ archive.pages[p] # NoPage =>
                            WorkIsBack(p)
  BY DEF RestoreIsFaithful, WorkIsBack, DraftIsBack, ValueIsBack
<1>1. restore.seen = InZip
  BY DEF RestoreSoFar, At
<1>2. QED
  BY <1>1 DEF RestoreSoFar, At, InZip

\* A restore that nothing disturbed and in which nothing failed brings back
\* each page of the zip with its draft and its data, when it merges all other
\* drafts and data too, and when it replaces it leaves no other page
\* (backup.go:72), in whatever order the entries come.
THEOREM RestoresAreFaithful == BackupSpec => []RestoreIsFaithful
<1>1. BackupInit => RestoreSoFar
  BY DEF BackupInit, RestoreSoFar
<1>2. QED
  BY <1>1, BackupInitially, BackupStep, SoFarStep, FaithfulAtTheEnd, PTL
     DEF BackupSpec

\* Every draft of the zip is there after an undisturbed restore, if it merges,
\* if no page was written, or if the zip has a page at its path: the finding on
\* RestoredDraftsSurvive is the only way to lose one (backup.go:139).
THEOREM SparedDraftsSurvive ==
    BackupSpec =>
        [](At("answer") /\ restore.clean =>
            \A p \in Paths :
                /\ archive.drafts[p] # NoDraft
                /\ ~ restore.replace \/ restore.seen = {}
                     \/ archive.pages[p] # NoPage
                => DraftText(p) = archive.drafts[p])
<1>. DEFINE Survive ==
        At("answer") /\ restore.clean =>
            \A p \in Paths :
                /\ archive.drafts[p] # NoDraft
                /\ ~ restore.replace \/ restore.seen = {}
                     \/ archive.pages[p] # NoPage
                => DraftText(p) = archive.drafts[p]
<1>1. BackupInit => RestoreSoFar
  BY DEF BackupInit, RestoreSoFar
<1>2. RestoreSoFar => Survive
  BY DEF RestoreSoFar, At, InZip, WorkIsBack, DraftIsBack
<1>3. QED
  BY <1>1, <1>2, BackupInitially, BackupStep, SoFarStep, PTL DEF BackupSpec

-----------------------------------------------------------------------------
(***************************************************************************)
(* What a restore deletes.  It has written, or passed over, every page of  *)
(* the zip before it lists what to delete, and lists nothing it has        *)
(* written; all of this whether or not it is disturbed.                    *)
(***************************************************************************)

DeletesSoFar ==
    restore # NoRestore =>
        /\ restore.pc = "delete" =>
            restore.replace /\ restore.todo \cap restore.seen = {}
        /\ ~ EntriesFail =>
            InZip \subseteq
                restore.seen \cup (IF restore.pc = "pages" THEN restore.todo ELSE {})

\* Only a page that the restore has not written goes, in a restore that
\* replaces.
OnlyUnwrittenPagesAreDeleted ==
    [][At("delete") /\ restore' # NoRestore /\ restore'.todo # restore.todo =>
        \A p \in Paths :
            Exists(p) /\ pages'[p] = NoPage =>
                restore.replace /\ p \notin restore.seen]_backupVars

LEMMA DeletesStep ==
    ASSUME BackupInv, DeletesSoFar, [BackupNext]_backupVars
    PROVE  DeletesSoFar'
<1>1. CASE restore = NoRestore
  <2>1. CASE \E replace \in BOOLEAN : StartRestore(replace)
    BY <2>1 DEF StartRestore, DeletesSoFar, InZip
  <2>2. CASE restore' = NoRestore
    BY <2>2 DEF DeletesSoFar
  <2>3. QED
    BY <1>1, <2>1, <2>2
       DEF BackupNext, backupVars, DumpStep, StartDump, DumpPage, ListDrafts,
           DraftsToDump, DumpDraft, DumpData, DumpBreaksOff, RestoreStep,
           RestorePage, RestoreDraft, RestoreData, DeleteUnseen, SkipEntry,
           NextPart, Answer, At, ServerStops, Elsewhere
<1>2. CASE restore # NoRestore
  <2>. SUFFICES ASSUME restore' # NoRestore
                PROVE  DeletesSoFar'
    BY DEF DeletesSoFar
  <2>1. restore \in Restore /\ dump = NoDump
    BY <1>2, ZipIsThere DEF BackupInv, RestoreReadsEntries
  <2>2. archive' = archive
    BY <1>2, <2>1
       DEF BackupNext, backupVars, DumpStep, StartDump, DumpPage, ListDrafts,
           DraftsToDump, DumpDraft, DumpData, DumpBreaksOff, RestoreStep,
           StartRestore, RestorePage, RestoreDraft, RestoreData, DeleteUnseen,
           SkipEntry, NextPart, Answer, ServerStops, Elsewhere
  <2>3. InZip' = InZip
    BY <2>2 DEF InZip
  <2>4. CASE \E p \in Paths : RestorePage(p)
    BY <1>2, <2>1, <2>3, <2>4 DEF RestorePage, At, DeletesSoFar, Restore
  <2>5. CASE NextPart
    <3>1. CASE restore.pc = "pages"
      BY <1>2, <2>1, <2>3, <2>5, <3>1 DEF NextPart, At, DeletesSoFar, Restore
    <3>2. CASE restore.pc = "data" /\ restore.replace
      <4>1. \/ restore' = [restore EXCEPT !.pc = "answer"]
            \/ restore' = [restore EXCEPT !.pc = "answer", !.clean = FALSE]
            \/ restore' = [restore EXCEPT
                    !.pc = "delete",
                    !.todo = {p \in Paths : Exists(p)} \ restore.seen]
        BY <2>5, <3>2 DEF NextPart, At
      <4>2. /\ restore'.seen = restore.seen /\ restore'.replace
            /\ restore'.pc \in {"answer", "delete"}
            /\ restore'.pc = "delete" => restore'.todo \cap restore.seen = {}
        BY <2>1, <3>2, <4>1 DEF Restore
      <4>3. QED
        BY <1>2, <2>3, <3>2, <4>2 DEF DeletesSoFar
    <3>3. CASE restore.pc # "pages" /\ ~ (restore.pc = "data" /\ restore.replace)
      BY <1>2, <2>1, <2>3, <2>5, <3>3 DEF NextPart, At, DeletesSoFar, Restore
    <3>4. QED
      BY <3>1, <3>2, <3>3
  <2>6. CASE SkipEntry
    BY <1>2, <2>1, <2>3, <2>6 DEF SkipEntry, At, DeletesSoFar, Restore
  <2>7. CASE /\ restore'.pc = restore.pc /\ restore'.replace = restore.replace
             /\ restore'.seen = restore.seen
             /\ restore'.todo = restore.todo \/
                  \E p \in restore.todo :
                      restore.pc # "pages" /\ restore'.todo = restore.todo \ {p}
    BY <1>2, <2>1, <2>3, <2>7 DEF DeletesSoFar
  <2>8. CASE \E p \in Paths : RestoreDraft(p) \/ DeleteUnseen(p)
    BY <1>2, <2>1, <2>7, <2>8 DEF RestoreDraft, DeleteUnseen, At, Restore
  <2>9. CASE Elsewhere \/ UNCHANGED backupVars
             \/ \E p \in Paths, k \in KVKeys : RestoreData(p, k)
    BY <1>2, <2>1, <2>7, <2>9 DEF Elsewhere, backupVars, RestoreData, At, Restore
  <2>10. QED
    BY <1>2, <2>1, <2>4, <2>5, <2>6, <2>8, <2>9
       DEF BackupNext, RestoreStep, StartRestore, Answer, ServerStops, DumpStep,
           StartDump, DumpPage, ListDrafts, DraftsToDump, DumpDraft, DumpData,
           DumpBreaksOff
<1>3. QED
  BY <1>1, <1>2

\* The step that deletes.
LEMMA WhatIsDeleted ==
    ASSUME BackupInv, [BackupNext]_backupVars, At("delete"),
           restore' # NoRestore, restore'.todo # restore.todo,
           NEW p \in Paths, Exists(p), pages'[p] = NoPage
    PROVE  p \in restore.todo
<1>1. restore \in Restore /\ restore # NoRestore /\ restore.pc = "delete"
      /\ dump = NoDump
  BY ZipIsThere DEF At, BackupInv, RestoreReadsEntries
<1>2. PICK q \in Paths : DeleteUnseen(q)
  BY <1>1 DEF BackupNext, backupVars, DumpStep, StartDump, DumpPage,
              ListDrafts, DraftsToDump, DumpDraft, DumpData, DumpBreaksOff,
              RestoreStep, StartRestore, RestorePage, RestoreDraft,
              RestoreData, SkipEntry, NextPart, Answer, At, ServerStops,
              Elsewhere, Restore
<1>3. q \in restore.todo
  BY <1>2 DEF DeleteUnseen
<1>4. CASE UNCHANGED vars
  BY <1>4 DEF vars, Exists
<1>5. CASE DeletePage(q)
  <2>1. \A r \in Paths \ {q} : Exists(r)' = Exists(r)
    BY <1>5, DeletePageSpares DEF BackupInv
  <2>2. ~ Exists(p)'
    BY DEF Exists
  <2>3. QED
    BY <1>3, <2>1, <2>2
<1>6. QED
  BY <1>2, <1>4, <1>5 DEF DeleteUnseen

\* A restore that replaces never deletes a page it has written (backup.go:333),
\* and one that merges deletes none, whoever writes and whatever fails meanwhile.
THEOREM WrittenPagesStay == BackupSpec => OnlyUnwrittenPagesAreDeleted
<1>1. BackupInit => DeletesSoFar
  BY DEF BackupInit, DeletesSoFar
<1>2. BackupInv /\ DeletesSoFar /\ [BackupNext]_backupVars =>
        [At("delete") /\ restore' # NoRestore /\ restore'.todo # restore.todo =>
            \A p \in Paths :
                Exists(p) /\ pages'[p] = NoPage =>
                    restore.replace /\ p \notin restore.seen]_backupVars
  BY WhatIsDeleted DEF DeletesSoFar, At
<1>3. QED
  BY <1>1, <1>2, BackupInitially, BackupStep, DeletesStep, PTL
     DEF BackupSpec, OnlyUnwrittenPagesAreDeleted

\* Where every entry can be read and no call of the store fails, a restore that
\* replaces deletes only what the zip has not, as backup.go:73 says: entries
\* that are skipped are all there is to the finding on it.
THEOREM ReadableZipsAreSpared ==
    ASSUME ~ EntriesFail
    PROVE  BackupSpec => OnlyMissingPagesAreDeleted
<1>1. BackupInit => DeletesSoFar
  BY DEF BackupInit, DeletesSoFar
<1>2. BackupInv /\ DeletesSoFar /\ [BackupNext]_backupVars =>
        [At("delete") /\ restore' # NoRestore /\ restore'.todo # restore.todo =>
            \A p \in Paths :
                Exists(p) /\ pages'[p] = NoPage => archive.pages[p] = NoPage
        ]_backupVars
  BY WhatIsDeleted DEF DeletesSoFar, At, InZip
<1>3. QED
  BY <1>1, <1>2, BackupInitially, BackupStep, DeletesStep, PTL
     DEF BackupSpec, OnlyMissingPagesAreDeleted

-----------------------------------------------------------------------------
(***************************************************************************)
(* What a dump has.  Its listings are old when it reads, but a path that   *)
(* nobody has written to since it began is as the listing says.            *)
(***************************************************************************)

PageIn(p) == IF <<"page", p>> \in dump.unread THEN NoPage ELSE PageText(p)

DraftIn(p) == IF <<"draft", p>> \in dump.unread THEN NoDraft ELSE DraftText(p)

DumpSoFar ==
    dump # NoDump =>
        /\ \A p \in Paths \ dump.touched :
            /\ IF dump.pc = "pages" /\ p \in dump.todo
               THEN <<"page", p>> \notin dump.unread
               ELSE dump.zip.pages[p] = PageIn(p)
            /\ IF dump.pc = "pages"
               THEN /\ <<"draft", p>> \notin dump.unread
                    /\ dump.zip.drafts[p] = NoDraft
               ELSE IF p \in dump.todo
               THEN <<"draft", p>> \notin dump.unread
               ELSE dump.zip.drafts[p] = DraftIn(p)
        /\ dump.zip.data = EmptyZip.data

Stays(p) == PageText(p)' = PageText(p) /\ DraftText(p)' = DraftText(p)

\* A write of another door is to the paths it is marked with.
LEMMA OthersStay ==
    ASSUME TypeOK, Elsewhere
    PROVE  \E ps \in SUBSET Paths :
                Wrote(ps) /\ \A q \in Paths \ ps : Stays(q)
<1>1. ASSUME NEW p \in Paths, WriteElsewhere(p), NEW q \in Paths \ {p}
      PROVE  Stays(q)
  <2>1. ASSUME NEW c \in Contents, NEW m \in Mimes, SavePage(p, c, m)
        PROVE  Stays(q)
    BY <2>1, SavePageSays DEF Stays, DraftText, HasDraft
  <2>2. ASSUME NEW c \in Contents, NEW m \in Mimes, SaveDraft(p, c, m)
        PROVE  Stays(q)
    BY <2>2, SaveDraftSays DEF Stays, PageText, Exists
  <2>3. CASE DeletePage(p)
    BY <2>3, DeletePageSpares DEF Stays
  <2>4. CASE DiscardDraft(p)
    BY <2>4 DEF DiscardDraft, pageVars, Stays, PageText, Exists, DraftText,
                HasDraft, TypeOK
  <2>5. CASE ScriptOp(p)
    BY <2>5 DEF ScriptOp, ScriptKVSet, ScriptKVDelete, pageVars, draftVars,
                Stays, PageText, Exists, DraftText, HasDraft
  <2>6. PrivateContents \subseteq Contents
    BY BackupAssumption
  <2>7. QED
    BY <1>1, <2>1, <2>2, <2>3, <2>4, <2>5, <2>6 DEF WriteElsewhere
<1>2. ASSUME NEW p \in Paths, NEW q \in Paths, RenamePage(p, q),
             NEW r \in Paths \ {p, q}
      PROVE  Stays(r)
  <2>1. pages'[r] = pages[r]
    BY <1>2 DEF RenamePage, TypeOK
  <2>2. drafts'[r] = drafts[r]
    BY <1>2 DEF RenamePage, MoveDraft, TypeOK
  <2>3. QED
    BY <2>1, <2>2 DEF Stays, PageText, Exists, DraftText, HasDraft
<1>3. CASE \E p \in Paths : WriteElsewhere(p) /\ Wrote({p})
  BY <1>1, <1>3
<1>4. CASE \E p, q \in Paths : RenamePage(p, q) /\ Wrote({p, q})
  <2>1. PICK p \in Paths, q \in Paths : RenamePage(p, q) /\ Wrote({p, q})
    BY <1>4
  <2>2. {p, q} \in SUBSET Paths
    OBVIOUS
  <2>3. QED
    BY <1>2, <2>1, <2>2
<1>5. QED
  BY <1>3, <1>4 DEF Elsewhere

\* A dump's own steps write nothing.
LEMMA DumpGoesOn ==
    ASSUME BackupInv, DumpSoFar, DumpStep
    PROVE  DumpSoFar'
<1>1. /\ UNCHANGED vars
      /\ \A p \in Paths : Stays(p) /\ Exists(p)' = Exists(p)
                          /\ HasDraft(p)' = HasDraft(p)
  BY DEF DumpStep, StartDump, DumpPage, ListDrafts, DraftsToDump, DumpDraft,
         DumpData, DumpBreaksOff, vars, Stays, PageText, Exists, DraftText,
         HasDraft
<1>2. dump # NoDump => dump \in Dump /\ dump.zip \in Archive
  BY DEF BackupInv, BackupTypeOK, Dump
<1>3. CASE StartDump
  <2>1. dump' = [pc |-> "pages", todo |-> {p \in Paths : Exists(p)},
                 zip |-> EmptyZip, touched |-> {}, unread |-> {}]
    BY <1>3 DEF StartDump
  <2>2. \A p \in Paths :
            EmptyZip.pages[p] = NoPage /\ EmptyZip.drafts[p] = NoDraft
    BY DEF EmptyZip
  <2>3. EmptyZip' = EmptyZip
    BY DEF EmptyZip, EmptyKV
  <2>4. QED
    BY <1>1, <2>1, <2>2, <2>3 DEF DumpSoFar, PageIn, Stays, PageText
<1>e. (EmptyZip.data)' = EmptyZip.data
  BY DEF EmptyZip, EmptyKV
<1>4. ASSUME NEW p \in Paths, DumpPage(p) PROVE DumpSoFar'
  <2>1. /\ dump # NoDump /\ dump.pc = "pages" /\ p \in dump.todo
        /\ \E read \in BOOLEAN :
            dump' = [dump EXCEPT
                !.todo = @ \ {p},
                !.zip.pages[p] = IF read THEN PageText(p) ELSE NoPage,
                !.unread = IF read THEN @ ELSE @ \cup {<<"page", p>>}]
    BY <1>4 DEF DumpPage, Reads
  <2>. PICK read \in BOOLEAN :
            dump' = [dump EXCEPT
                !.todo = @ \ {p},
                !.zip.pages[p] = IF read THEN PageText(p) ELSE NoPage,
                !.unread = IF read THEN @ ELSE @ \cup {<<"page", p>>}]
    BY <2>1
  <2>. DEFINE e == IF read THEN PageText(p) ELSE NoPage
  <2>2. /\ dump'.pc = "pages" /\ dump'.todo = dump.todo \ {p}
        /\ dump'.touched = dump.touched
        /\ dump'.zip.drafts = dump.zip.drafts
        /\ dump'.zip.data = dump.zip.data
        /\ dump'.unread = IF read THEN dump.unread
                          ELSE dump.unread \cup {<<"page", p>>}
        /\ dump'.zip.pages = [dump.zip.pages EXCEPT ![p] = e]
    BY <1>2, <2>1 DEF Dump, Archive
  <2>3. dump.zip.pages \in [Paths -> Contents \cup {NoPage}]
    BY <1>2, <2>1 DEF Archive
  <2>4. /\ \A q \in Paths \ {p} : /\ dump'.zip.pages[q] = dump.zip.pages[q]
                                  /\ <<"page", q>> \in dump'.unread
                                        <=> <<"page", q>> \in dump.unread
        /\ \A q \in Paths : <<"draft", q>> \in dump'.unread
                                <=> <<"draft", q>> \in dump.unread
        /\ dump'.zip.pages[p] = e
        /\ ~ read => <<"page", p>> \in dump'.unread
        /\ read => dump'.unread = dump.unread
    BY <2>2, <2>3
  <2>5. ASSUME NEW q \in Paths \ dump.touched
        PROVE  /\ IF q \in dump'.todo
                  THEN <<"page", q>> \notin dump'.unread
                  ELSE dump'.zip.pages[q] = PageIn(q)'
               /\ <<"draft", q>> \notin dump'.unread
               /\ dump'.zip.drafts[q] = NoDraft
    <3>1. PageText(q)' = PageText(q)
      BY <1>1 DEF Stays
    <3>2. <<"draft", q>> \notin dump.unread /\ dump.zip.drafts[q] = NoDraft
      BY <2>1, <2>5 DEF DumpSoFar
    <3>3. CASE q # p
      BY <2>1, <2>2, <2>4, <2>5, <3>1, <3>2, <3>3 DEF DumpSoFar, PageIn
    <3>4. CASE q = p
      <4>1. <<"page", p>> \notin dump.unread
        BY <2>1, <2>5, <3>4 DEF DumpSoFar
      <4>2. QED
        BY <2>2, <2>4, <3>1, <3>2, <3>4, <4>1 DEF PageIn
    <3>5. QED
      BY <3>3, <3>4
  <2>6. QED
    BY <1>e, <2>1, <2>2, <2>5 DEF DumpSoFar
<1>5. CASE ListDrafts
  <2>. DEFINE listed == {p \in Paths : HasDraft(p)}
  <2>1. /\ dump # NoDump /\ dump.pc = "pages" /\ dump.todo = {}
        /\ \E read \in BOOLEAN :
            dump' = [dump EXCEPT
                !.pc = "drafts",
                !.todo = IF read THEN listed ELSE {},
                !.unread = IF read THEN @ ELSE @ \cup ({"draft"} \X listed)]
    BY <1>5 DEF ListDrafts, DraftsToDump, Reads
  <2>. PICK read \in BOOLEAN :
            dump' = [dump EXCEPT
                !.pc = "drafts",
                !.todo = IF read THEN listed ELSE {},
                !.unread = IF read THEN @ ELSE @ \cup ({"draft"} \X listed)]
    BY <2>1
  <2>2. /\ dump'.pc = "drafts" /\ dump'.zip = dump.zip
        /\ dump'.touched = dump.touched
        /\ dump'.todo = IF read THEN listed ELSE {}
        /\ dump'.unread = IF read THEN dump.unread
                          ELSE dump.unread \cup ({"draft"} \X listed)
    BY <1>2, <2>1 DEF Dump
  <2>3. \A q \in Paths :
            /\ <<"page", q>> \in dump'.unread <=> <<"page", q>> \in dump.unread
            /\ <<"draft", q>> \in dump'.unread
                    <=> <<"draft", q>> \in dump.unread \/ (~ read /\ q \in listed)
    <3>. HIDE DEF listed
    <3>1. CASE read
      BY <2>2, <3>1
    <3>2. CASE ~ read
      BY <2>2, <3>2
    <3>3. QED
      BY <3>1, <3>2
  <2>4. ASSUME NEW q \in Paths \ dump.touched
        PROVE  /\ dump'.zip.pages[q] = PageIn(q)'
               /\ IF q \in dump'.todo
                  THEN <<"draft", q>> \notin dump'.unread
                  ELSE dump'.zip.drafts[q] = DraftIn(q)'
    <3>1. PageText(q)' = PageText(q) /\ DraftText(q)' = DraftText(q)
      BY <1>1 DEF Stays
    <3>2. /\ <<"draft", q>> \notin dump.unread /\ dump.zip.drafts[q] = NoDraft
          /\ dump.zip.pages[q] = PageIn(q)
      BY <2>1, <2>4 DEF DumpSoFar
    <3>3. dump'.zip.pages[q] = PageIn(q)'
      BY <2>2, <2>3, <3>1, <3>2 DEF PageIn
    <3>4. CASE HasDraft(q)
      BY <2>2, <2>3, <3>2, <3>3, <3>4 DEF DraftIn
    <3>5. CASE ~ HasDraft(q)
      BY <2>2, <2>3, <3>1, <3>2, <3>3, <3>5 DEF DraftIn, DraftText
    <3>6. QED
      BY <3>4, <3>5
  <2>5. QED
    BY <1>e, <2>1, <2>2, <2>4 DEF DumpSoFar
<1>6. ASSUME NEW p \in Paths, DumpDraft(p) PROVE DumpSoFar'
  <2>1. /\ dump # NoDump /\ dump.pc = "drafts" /\ p \in dump.todo
        /\ \E read \in BOOLEAN :
            dump' = [dump EXCEPT
                !.todo = @ \ {p},
                !.zip.drafts[p] = IF read THEN DraftText(p) ELSE NoDraft,
                !.unread = IF read THEN @ ELSE @ \cup {<<"draft", p>>}]
    BY <1>6 DEF DumpDraft, Reads
  <2>. PICK read \in BOOLEAN :
            dump' = [dump EXCEPT
                !.todo = @ \ {p},
                !.zip.drafts[p] = IF read THEN DraftText(p) ELSE NoDraft,
                !.unread = IF read THEN @ ELSE @ \cup {<<"draft", p>>}]
    BY <2>1
  <2>. DEFINE e == IF read THEN DraftText(p) ELSE NoDraft
  <2>2. /\ dump'.pc = "drafts" /\ dump'.todo = dump.todo \ {p}
        /\ dump'.touched = dump.touched
        /\ dump'.zip.pages = dump.zip.pages
        /\ dump'.zip.data = dump.zip.data
        /\ dump'.unread = IF read THEN dump.unread
                          ELSE dump.unread \cup {<<"draft", p>>}
        /\ dump'.zip.drafts = [dump.zip.drafts EXCEPT ![p] = e]
    BY <1>2, <2>1 DEF Dump, Archive
  <2>3. dump.zip.drafts \in [Paths -> Contents \cup {NoDraft}]
    BY <1>2, <2>1 DEF Archive
  <2>4. /\ \A q \in Paths \ {p} :
            /\ dump'.zip.drafts[q] = dump.zip.drafts[q]
            /\ <<"draft", q>> \in dump'.unread <=> <<"draft", q>> \in dump.unread
        /\ \A q \in Paths :
            <<"page", q>> \in dump'.unread <=> <<"page", q>> \in dump.unread
        /\ dump'.zip.drafts[p] = e
        /\ ~ read => <<"draft", p>> \in dump'.unread
        /\ read => dump'.unread = dump.unread
    BY <2>2, <2>3
  <2>5. ASSUME NEW q \in Paths \ dump.touched
        PROVE  /\ dump'.zip.pages[q] = PageIn(q)'
               /\ IF q \in dump'.todo
                  THEN <<"draft", q>> \notin dump'.unread
                  ELSE dump'.zip.drafts[q] = DraftIn(q)'
    <3>1. PageText(q)' = PageText(q) /\ DraftText(q)' = DraftText(q)
      BY <1>1 DEF Stays
    <3>2. dump.zip.pages[q] = PageIn(q)
      BY <2>1, <2>5 DEF DumpSoFar
    <3>3. dump'.zip.pages[q] = PageIn(q)'
      BY <2>2, <2>4, <3>1, <3>2 DEF PageIn
    <3>4. CASE q # p
      BY <2>1, <2>2, <2>4, <2>5, <3>1, <3>3, <3>4 DEF DumpSoFar, DraftIn
    <3>5. CASE q = p
      <4>1. <<"draft", p>> \notin dump.unread
        BY <2>1, <2>5, <3>5 DEF DumpSoFar
      <4>2. QED
        BY <2>2, <2>4, <3>1, <3>3, <3>5, <4>1 DEF DraftIn
    <3>6. QED
      BY <3>4, <3>5
  <2>6. QED
    BY <1>e, <2>1, <2>2, <2>5 DEF DumpSoFar
<1>7. CASE DumpData \/ DumpBreaksOff
  BY <1>7 DEF DumpData, DumpBreaksOff, DumpSoFar
<1>8. QED
  BY <1>3, <1>4, <1>5, <1>6, <1>7 DEF DumpStep

LEMMA DumpSoFarStep ==
    ASSUME BackupInv, DumpSoFar, [BackupNext]_backupVars
    PROVE  DumpSoFar'
<1>1. CASE DumpStep
  BY <1>1, DumpGoesOn
<1>2. CASE RestoreStep
  <2>1. dump = NoDump /\ dump' = dump
    BY <1>2, RestoreInv
       DEF RestoreStep, StartRestore, RestorePage, RestoreDraft, RestoreData,
           DeleteUnseen, SkipEntry, NextPart, Answer, At, BackupInv,
           RestoreReadsEntries
  <2>2. QED
    BY <2>1 DEF DumpSoFar
<1>3. CASE ServerStops
  BY <1>3 DEF ServerStops, DumpSoFar
<1>4. CASE Elsewhere
  <2>1. PICK ps \in SUBSET Paths : Wrote(ps) /\ \A q \in Paths \ ps : Stays(q)
    BY <1>4, OthersStay DEF BackupInv
  <2>2. CASE dump = NoDump
    BY <2>1, <2>2 DEF Wrote, DumpSoFar
  <2>3. CASE dump # NoDump
    <3>1. dump' = [dump EXCEPT !.touched = @ \cup ps]
      BY <2>1, <2>3 DEF Wrote
    <3>2. /\ dump'.pc = dump.pc /\ dump'.todo = dump.todo
          /\ dump'.zip = dump.zip /\ dump'.touched = dump.touched \cup ps
          /\ dump'.unread = dump.unread
      BY <2>3, <3>1 DEF BackupInv, BackupTypeOK, Dump
    <3>3. (EmptyZip.data)' = EmptyZip.data
      BY DEF EmptyZip, EmptyKV
    <3>4. QED
      BY <2>1, <2>3, <3>2, <3>3 DEF DumpSoFar, PageIn, DraftIn, Stays
  <2>4. QED
    BY <2>2, <2>3
<1>5. CASE UNCHANGED backupVars
  BY <1>5 DEF backupVars, vars, DumpSoFar, PageIn, DraftIn, PageText, Exists,
              DraftText, HasDraft, EmptyZip, EmptyKV
<1>6. QED
  BY <1>1, <1>2, <1>3, <1>4, <1>5 DEF BackupNext

\* A dump that is downloaded is closed by the step that reads the data.
LEMMA DownloadIsWhole ==
    ASSUME BackupInv, DumpSoFar, [BackupNext]_backupVars, Downloads
    PROVE  /\ \A p \in Paths \ dump.touched : Whole(p)
           /\ \/ archive'.data = scriptKV
              \/ ReadsFail /\ archive'.data = EmptyZip.data
<1>1. dump # NoDump /\ archive' # archive
  BY DEF Downloads
<1>2. ~ RestoreStep /\ ~ Elsewhere /\ ~ ServerStops /\ ~ UNCHANGED backupVars
  BY <1>1, RestoreInv DEF Elsewhere, ServerStops, backupVars
<1>3. DumpData
  BY <1>1, <1>2 DEF BackupNext, DumpStep, StartDump, DumpPage, ListDrafts,
                    DraftsToDump, DraftsToDump, DumpDraft, DumpBreaksOff
<1>4. /\ dump.pc = "drafts" /\ dump.todo = {} /\ dump.zip \in Archive
      /\ \E read \in Reads :
            archive' = [dump.zip EXCEPT !.data = IF read THEN scriptKV ELSE @]
  BY <1>1, <1>3 DEF DumpData, BackupInv, BackupTypeOK, Dump
<1>5. /\ archive'.pages = dump.zip.pages /\ archive'.drafts = dump.zip.drafts
      /\ \/ archive'.data = scriptKV
         \/ ReadsFail /\ archive'.data = dump.zip.data
  BY <1>4 DEF Archive, Reads
<1>6. QED
  BY <1>1, <1>4, <1>5 DEF DumpSoFar, Whole, PageIn, DraftIn

\* A backup taken while others write has the page and the draft of every path
\* that nobody wrote to meanwhile (backup.go:129), but for those it failed to
\* read, and the data of one moment or none, for any number of paths and in
\* whatever order they are read.
THEOREM DumpsHaveWhatStayed == BackupSpec => DumpHasWhatStayed
<1>1. BackupInit => DumpSoFar
  BY DEF BackupInit, DumpSoFar
<1>2. BackupInv /\ DumpSoFar /\ [BackupNext]_backupVars =>
        [Downloads =>
            /\ \A p \in Paths \ dump.touched : Whole(p)
            /\ \/ archive'.data = scriptKV
               \/ ReadsFail /\ archive'.data = EmptyZip.data]_backupVars
  BY DownloadIsWhole
<1>3. QED
  BY <1>1, <1>2, BackupInitially, BackupStep, DumpSoFarStep, PTL
     DEF BackupSpec, DumpHasWhatStayed
=============================================================================
