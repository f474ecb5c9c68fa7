------------------------------- MODULE Backup -------------------------------
(***************************************************************************)
(* Backup and restore (internal/web/backup.go) beside the other doors.     *)
(*                                                                         *)
(* A backup is a zip of files: the pages under content/, the drafts under  *)
(* drafts/, and the data of scripts as one file.  Neither writing it nor   *)
(* reading it back is a transaction: a backup lists the pages, reads them  *)
(* one by one, then does the same with the drafts and reads the data; a    *)
(* restore saves one entry after the other and, when it replaces, lists    *)
(* the pages and deletes those it has not written.  One action for each    *)
(* call of the store; the doors write between any two of them, a client    *)
(* can go away, the server can stop.                                       *)
(*                                                                         *)
(* Left out: keys and certificates, which a restore ignores, names of      *)
(* entries (those of other tools are skipped), and sizes.  Listings come   *)
(* in the order of paths or of times; here every order is possible.  One   *)
(* backup or one restore is under way at a time: what a restore asks of    *)
(* the store the other doors ask too, so a backup taken during one meets   *)
(* no call it does not meet here.                                          *)
(***************************************************************************)
EXTENDS Store

CONSTANTS
    MimeFor,          \* the mime type a path's extension stands for
    PrivateContents,  \* what its author has never published
    ScriptPaths,      \* the paths whose scripts keep data: bounds the data
    ReadsFail,        \* whether a backup's reads of the store may fail
    EntriesFail,      \* whether a restore's entries, or its calls, may fail
    NoDump, NoArchive, NoRestore

VARIABLES
    dump,     \* the backup being written, or NoDump
    archive,  \* the last one that was downloaded whole, or NoArchive
    restore   \* the restore under way, or NoRestore

backupVars == <<vars, dump, archive, restore>>

Archive ==
    [pages : [Paths -> Contents \cup {NoPage}],
     drafts : [Paths -> Contents \cup {NoDraft}],
     data : [Paths -> [KVKeys -> KVValues \cup {NoValue}]]]

\* touched: the paths written to since the dump began, unread: what a failing
\* read has left out (history).
Dump ==
    [pc : {"pages", "drafts"}, todo : SUBSET Paths, zip : Archive,
     touched : SUBSET Paths, unread : SUBSET ({"page", "draft"} \X Paths)]

\* clean: no other door has written since, and nothing has failed (history).
Restore ==
    [pc : {"pages", "drafts", "data", "delete", "answer"}, replace : BOOLEAN,
     todo : SUBSET Paths, rows : SUBSET (Paths \X KVKeys),
     seen : SUBSET Paths, clean : BOOLEAN]

ASSUME BackupAssumption ==
    /\ MimeFor \in [Paths -> Mimes]
    /\ PrivateContents \subseteq Contents
    /\ ScriptPaths \subseteq Paths
    /\ {ReadsFail, EntriesFail} \subseteq BOOLEAN
    /\ NoPage \notin Contents
    /\ NoDraft \notin Contents
    /\ NoDump \notin Dump
    /\ NoArchive \notin Archive
    /\ NoRestore \notin Restore

BackupTypeOK ==
    /\ dump \in Dump \cup {NoDump}
    /\ archive \in Archive \cup {NoArchive}
    /\ restore \in Restore \cup {NoRestore}

PageText(p) == IF Exists(p) THEN pages[p].content ELSE NoPage

DraftText(p) == IF HasDraft(p) THEN drafts[p].content ELSE NoDraft

\* Whether a read succeeds.
Reads == IF ReadsFail THEN BOOLEAN ELSE {TRUE}

EmptyZip ==
    [pages |-> [p \in Paths |-> NoPage], drafts |-> [p \in Paths |-> NoDraft],
     data |-> [p \in Paths |-> EmptyKV]]

BackupInit ==
    /\ Init
    /\ dump = NoDump
    /\ archive = NoArchive
    /\ restore = NoRestore

\* A write to some paths, as a dump under way sees it.
Wrote(ps) ==
    dump' = IF dump = NoDump THEN NoDump
            ELSE [dump EXCEPT !.touched = @ \cup ps]

-----------------------------------------------------------------------------
(***************************************************************************)
(* Writing a backup: adminBackupZip.                                       *)
(***************************************************************************)

StartDump ==
    /\ dump = NoDump
    /\ restore = NoRestore
    /\ dump' = [pc |-> "pages", todo |-> {p \in Paths : Exists(p)},
                zip |-> EmptyZip, touched |-> {}, unread |-> {}]
    /\ UNCHANGED <<vars, archive, restore>>

\* A page that is gone since the listing, or cannot be read, is passed over.
DumpPage(p) ==
    /\ dump # NoDump
    /\ dump.pc = "pages"
    /\ p \in dump.todo
    /\ \E read \in Reads :
        dump' = [dump EXCEPT
            !.todo = @ \ {p},
            !.zip.pages[p] = IF read THEN PageText(p) ELSE NoPage,
            !.unread = IF read THEN @ ELSE @ \cup {<<"page", p>>}]
    /\ UNCHANGED <<vars, archive, restore>>

\* If the drafts cannot be listed there are none in the zip.
DraftsToDump(listed) ==
    /\ dump # NoDump
    /\ dump.pc = "pages"
    /\ dump.todo = {}
    /\ \E read \in Reads :
        dump' = [dump EXCEPT
            !.pc = "drafts",
            !.todo = IF read THEN listed ELSE {},
            !.unread = IF read THEN @ ELSE @ \cup ({"draft"} \X listed)]
    /\ UNCHANGED <<vars, archive, restore>>

ListDrafts_unpublished ==
    DraftsToDump({p \in Paths : HasDraft(p) /\ ~ Exists(p)})

ListDrafts == DraftsToDump({p \in Paths : HasDraft(p)})

DumpDraft(p) ==
    /\ dump # NoDump
    /\ dump.pc = "drafts"
    /\ p \in dump.todo
    /\ \E read \in Reads :
        dump' = [dump EXCEPT
            !.todo = @ \ {p},
            !.zip.drafts[p] = IF read THEN DraftText(p) ELSE NoDraft,
            !.unread = IF read THEN @ ELSE @ \cup {<<"draft", p>>}]
    /\ UNCHANGED <<vars, archive, restore>>

\* The data of scripts is read by one query, left out if that fails, and
\* closes the zip.
DumpData ==
    /\ dump # NoDump
    /\ dump.pc = "drafts"
    /\ dump.todo = {}
    /\ \E read \in Reads :
        archive' = [dump.zip EXCEPT !.data = IF read THEN scriptKV ELSE @]
    /\ dump' = NoDump
    /\ UNCHANGED <<vars, restore>>

\* The client goes away, and is left with part of a zip.
DumpBreaksOff ==
    /\ dump # NoDump
    /\ dump' = NoDump
    /\ UNCHANGED <<vars, archive, restore>>

DumpStep ==
    \/ StartDump \/ ListDrafts \/ DumpData \/ DumpBreaksOff
    \/ \E p \in Paths : DumpPage(p) \/ DumpDraft(p)

-----------------------------------------------------------------------------
(***************************************************************************)
(* Reading it back: adminBackupRestore, which takes the entries in the     *)
(* order of the zip.                                                       *)
(***************************************************************************)

StartRestore(replace) ==
    /\ restore = NoRestore
    /\ dump = NoDump
    /\ archive # NoArchive
    /\ restore' = [pc |-> "pages", replace |-> replace,
                   todo |-> {p \in Paths : archive.pages[p] # NoPage},
                   rows |-> {}, seen |-> {}, clean |-> TRUE]
    /\ UNCHANGED <<vars, dump, archive>>

At(pc) == restore # NoRestore /\ restore.pc = pc

RestorePage_onlyNew(p) ==
    /\ At("pages")
    /\ p \in restore.todo
    /\ IF Exists(p) THEN UNCHANGED vars
       ELSE SavePage(p, archive.pages[p], MimeFor[p])
    /\ restore' = [restore EXCEPT !.todo = @ \ {p}, !.seen = @ \cup {p}]
    /\ UNCHANGED <<dump, archive>>

RestorePage(p) ==
    /\ At("pages")
    /\ p \in restore.todo
    /\ SavePage(p, archive.pages[p], MimeFor[p])
    /\ restore' = [restore EXCEPT !.todo = @ \ {p}, !.seen = @ \cup {p}]
    /\ UNCHANGED <<dump, archive>>

RestoreDraft_publishes(p) ==
    /\ At("drafts")
    /\ p \in restore.todo
    /\ SavePage(p, archive.drafts[p], MimeFor[p])
    /\ restore' = [restore EXCEPT !.todo = @ \ {p}]
    /\ UNCHANGED <<dump, archive>>

\* A draft comes back as a draft.
RestoreDraft(p) ==
    /\ At("drafts")
    /\ p \in restore.todo
    /\ SaveDraft(p, archive.drafts[p], MimeFor[p])
    /\ restore' = [restore EXCEPT !.todo = @ \ {p}]
    /\ UNCHANGED <<dump, archive>>

RestoreData(p, k) ==
    /\ At("data")
    /\ <<p, k>> \in restore.rows
    /\ ScriptKVSet(p, k, archive.data[p][k])
    /\ restore' = [restore EXCEPT !.rows = @ \ {<<p, k>>}]
    /\ UNCHANGED <<dump, archive>>

\* An entry that cannot be read, or that the store refuses, is skipped.
SkipEntry ==
    /\ EntriesFail
    /\ \/ /\ At("pages") \/ At("drafts")
          /\ \E p \in restore.todo :
                restore' = [restore EXCEPT !.todo = @ \ {p}, !.clean = FALSE]
       \/ /\ At("data")
          /\ \E row \in restore.rows :
                restore' = [restore EXCEPT !.rows = @ \ {row}, !.clean = FALSE]
    /\ UNCHANGED <<vars, dump, archive>>

\* After the pages come the drafts, after them the data, and then, if any page
\* was written and the restore replaces, the pages it has not written: none if
\* they cannot be listed.
NextPart ==
    /\ \/ /\ At("pages")
          /\ restore.todo = {}
          /\ restore' = [restore EXCEPT
                !.pc = "drafts",
                !.todo = {p \in Paths : archive.drafts[p] # NoDraft}]
       \/ /\ At("drafts")
          /\ restore.todo = {}
          /\ restore' = [restore EXCEPT
                !.pc = "data",
                !.rows = {row \in Paths \X KVKeys :
                            archive.data[row[1]][row[2]] # NoValue}]
       \/ /\ At("data")
          /\ restore.rows = {}
          /\ restore.replace
          /\ restore.seen # {}
          /\ restore' = [restore EXCEPT
                !.pc = "delete",
                !.todo = {p \in Paths : Exists(p)} \ restore.seen]
       \/ /\ At("data")
          /\ restore.rows = {}
          /\ restore.replace
          /\ EntriesFail
          /\ restore' = [restore EXCEPT !.pc = "answer", !.clean = FALSE]
       \/ /\ At("data")
          /\ restore.rows = {}
          /\ ~ restore.replace \/ restore.seen = {}
          /\ restore' = [restore EXCEPT !.pc = "answer"]
       \/ /\ At("delete")
          /\ restore.todo = {}
          /\ restore' = [restore EXCEPT !.pc = "answer"]
    /\ UNCHANGED <<vars, dump, archive>>

\* A page that is gone since the listing, or cannot be deleted, is passed over.
DeleteUnseen(p) ==
    /\ At("delete")
    /\ p \in restore.todo
    /\ \/ /\ DeletePage(p)
          /\ restore' = [restore EXCEPT !.todo = @ \ {p}]
       \/ /\ ~ Exists(p)
          /\ restore' = [restore EXCEPT !.todo = @ \ {p}]
          /\ UNCHANGED vars
       \/ /\ EntriesFail
          /\ restore' = [restore EXCEPT !.todo = @ \ {p}, !.clean = FALSE]
          /\ UNCHANGED vars
    /\ UNCHANGED <<dump, archive>>

Answer ==
    /\ At("answer")
    /\ restore' = NoRestore
    /\ UNCHANGED <<vars, dump, archive>>

RestoreStep ==
    \/ \E replace \in BOOLEAN : StartRestore(replace)
    \/ \E p \in Paths :
        \/ RestorePage(p) \/ RestoreDraft(p) \/ DeleteUnseen(p)
        \/ \E k \in KVKeys : RestoreData(p, k)
    \/ SkipEntry \/ NextPart \/ Answer

\* Everything under way ends where it is; what is saved stays.
ServerStops ==
    /\ dump # NoDump \/ restore # NoRestore
    /\ dump' = NoDump
    /\ restore' = NoRestore
    /\ UNCHANGED <<vars, archive>>

-----------------------------------------------------------------------------

\* The other doors.  Private contents are what drafts hold, public ones what
\* pages hold.
WriteElsewhere(p) ==
    \/ \E c \in Contents \ PrivateContents, m \in Mimes : SavePage(p, c, m)
    \/ DeletePage(p)
    \/ \E c \in PrivateContents, m \in Mimes :
            p \in DraftPaths /\ SaveDraft(p, c, m)
    \/ DiscardDraft(p)
    \/ p \in ScriptPaths /\ ScriptOp(p)

Elsewhere ==
    /\ \/ \E p \in Paths : WriteElsewhere(p) /\ Wrote({p})
       \/ \E p, q \in Paths : RenamePage(p, q) /\ Wrote({p, q})
    /\ restore' = IF restore = NoRestore THEN NoRestore
                  ELSE [restore EXCEPT !.clean = FALSE]
    /\ UNCHANGED archive

BackupNext == DumpStep \/ RestoreStep \/ ServerStops \/ Elsewhere

BackupSpec == BackupInit /\ [][BackupNext]_backupVars

-----------------------------------------------------------------------------
(***************************************************************************)
(* Properties.                                                             *)
(***************************************************************************)

Downloads == dump # NoDump /\ archive' # archive

Whole(p) ==
    /\ archive'.pages[p] =
            IF <<"page", p>> \in dump.unread THEN NoPage ELSE PageText(p)
    /\ archive'.drafts[p] =
            IF <<"draft", p>> \in dump.unread THEN NoDraft ELSE DraftText(p)

\* A backup taken while others write has, under every path that nobody wrote
\* to meanwhile, the page and the draft that are there (backup.go:129): the
\* listings it works from are old, but never wrong about those.  What one of
\* its reads failed on, and nothing else, is missing; the data of scripts is
\* that of one moment, or missing as a whole.
DumpHasWhatStayed ==
    [][Downloads =>
        /\ \A p \in Paths \ dump.touched : Whole(p)
        /\ \/ archive'.data = scriptKV
           \/ ReadsFail /\ archive'.data = EmptyZip.data
      ]_backupVars

\* A restore that nobody disturbed and in which nothing failed brings back
\* each page of the backup, with its draft and its data; if it merges, also the
\* drafts and data of other paths; if it replaces, it leaves no page that the
\* backup lacks (backup.go:72).
RestoreIsFaithful ==
    At("answer") /\ restore.clean /\ restore.seen # {} =>
        \A p \in Paths :
            /\ archive.pages[p] # NoPage => PageText(p) = archive.pages[p]
            /\ restore.replace /\ Exists(p) => archive.pages[p] # NoPage
            /\ ~ restore.replace \/ archive.pages[p] # NoPage =>
                /\ archive.drafts[p] # NoDraft =>
                        DraftText(p) = archive.drafts[p]
                /\ \A k \in KVKeys : archive.data[p][k] # NoValue =>
                        scriptKV[p][k] = archive.data[p][k]

\* Neither a backup nor its restore publishes what its author had not, whoever
\* writes meanwhile (backup.go:279).
DraftsStayDrafts ==
    /\ Unpublished(PrivateContents)
    /\ archive # NoArchive =>
        \A p \in Paths : archive.pages[p] \notin PrivateContents

\* Every draft in the zip is there after an undisturbed restore, as
\* backup.go:139 and 279 say of unpublished work.
RestoredDraftsSurvive ==
    At("answer") /\ restore.clean =>
        \A p \in Paths :
            archive.drafts[p] # NoDraft =>
                DraftText(p) = archive.drafts[p]

\* A restore that replaces deletes only pages the zip does not contain, as
\* backup.go:73 says of it.
OnlyMissingPagesAreDeleted ==
    [][At("delete") /\ restore' # NoRestore /\ restore'.todo # restore.todo =>
        \A p \in Paths :
            Exists(p) /\ pages'[p] = NoPage => archive.pages[p] = NoPage
      ]_backupVars
=============================================================================
