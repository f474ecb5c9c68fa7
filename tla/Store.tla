------------------------------- MODULE Store -------------------------------
(***************************************************************************)
(* The SQLite store (internal/store): pages and their search index, the    *)
(* versions kept of them, view counters, drafts and the history of each    *)
(* draft, and the key/value space of executable pages.                     *)
(*                                                                         *)
(* The database has one connection and every operation below is one        *)
(* transaction (or one statement), so each is one action here.  An         *)
(* operation that returns an error rolls back: it is a stuttering step and *)
(* appears only as the guard that excludes it.                             *)
(*                                                                         *)
(* A path is a clean path (CleanPath rejects the others before anything is *)
(* read), a content is an opaque value, a mime type is text or binary.     *)
(* Authors, the timestamps of pages and drafts, the settings table and the *)
(* split of the view counters by protocol are left out.                    *)
(*                                                                         *)
(* SavePage and SaveDraft read the clock before their transaction begins,  *)
(* so a save that waits for the connection while another, stamped a second *)
(* later, goes first is stamped out of order; so is one made after the     *)
(* system clock was set back.  StampsOutOfOrder allows both.               *)
(***************************************************************************)
EXTENDS Naturals, FiniteSets

CONSTANTS
    Paths,            \* clean page paths
    HiddenPaths,      \* those whose last segment starts with a dot
    Contents,         \* page contents
    Mimes,            \* mime types: only text or binary matters
    HitKeys,          \* keys of the hits table
    DraftPaths,       \* the paths anyone keeps a draft of: bounds the drafts
    HitKey,           \* a path without its .gmi suffix
    KVKeys,           \* keys an executable page may use
    KVValues,         \* and the values it stores under them
    KeepVersions,     \* history kept for each path, 0 for all of it
    PageIds,          \* row ids of pages: bounds the pages ever alive at once
    VersionIds,       \* row ids of versions: bounds the snapshots taken
    DraftVersionIds,  \* row ids of draft_versions, likewise
    Times,            \* readings of the clock, in seconds
    StampsOutOfOrder, \* whether a snapshot may be stamped before an older one
    MaxHits,          \* bound on one counter
    NoPage, NoDraft, NoRow, NoValue

ASSUME PathsAssumption ==
    /\ Mimes \subseteq {"text", "binary"}
    /\ HiddenPaths \subseteq Paths
    /\ DraftPaths \subseteq Paths
    /\ HitKey \in [Paths -> HitKeys]

ASSUME NumbersAssumption ==
    /\ KeepVersions \in Nat
    /\ PageIds \subseteq Nat \ {0}
    /\ VersionIds \subseteq Nat \ {0}
    /\ DraftVersionIds \subseteq Nat \ {0}
    /\ Times \subseteq Nat
    /\ Times # {}
    /\ MaxHits \in Nat
    /\ StampsOutOfOrder \in BOOLEAN

VARIABLES
    pages,          \* the row of each path, or NoPage
    fts,            \* pages_fts: the search row under each page id, or NoRow
    versions,       \* the snapshots of page contents
    hits,           \* view counts by key (no row is a count of 0)
    drafts,         \* the unpublished work on each path, or NoDraft
    draftVersions,  \* the snapshots of draft contents
    scriptKV,       \* the key space of each script
    now             \* the timestamp the next transaction carries

pageVars == <<pages, fts, versions>>
draftVars == <<drafts, draftVersions>>
vars == <<pages, fts, versions, hits, drafts, draftVersions, scriptKV, now>>

(***************************************************************************)
(* A title and a date are derived from a page's path and content; a binary *)
(* page has neither.  <<p, c>> stands for the two values derived from the  *)
(* path p and the content c.                                               *)
(***************************************************************************)
Titles == (Paths \X Contents) \cup {<<>>}

DerivedTitle_fileName(p, c, m) == IF m = "binary" THEN <<>> ELSE <<p>>

DerivedTitle(p, c, m) == IF m = "binary" THEN <<>> ELSE <<p, c>>

PageRow ==
    [id : PageIds, title : Titles, content : Contents, mime : Mimes]

SearchRow == [title : Titles, body : Contents, path : Paths]

Snapshot(Ids) ==
    [id : Ids, path : Paths, content : Contents, mime : Mimes, at : Times]

\* What a draft holds, and what a reader sees of a page.
Document == [content : Contents, mime : Mimes]

ASSUME SentinelsAssumption ==
    /\ NoPage \notin PageRow \cup Document
    /\ NoDraft \notin Document
    /\ NoRow \notin SearchRow
    /\ NoValue \notin KVValues

Exists(p) == pages[p] # NoPage

HasDraft(p) == drafts[p] # NoDraft

Rows == {pages[p] : p \in {q \in Paths : Exists(q)}}

TypeOK ==
    /\ pages \in [Paths -> PageRow \cup {NoPage}]
    /\ fts \in [PageIds -> SearchRow \cup {NoRow}]
    /\ versions \subseteq Snapshot(VersionIds)
    /\ hits \in [HitKeys -> Nat]
    /\ drafts \in [Paths -> Document \cup {NoDraft}]
    /\ draftVersions \subseteq Snapshot(DraftVersionIds)
    /\ scriptKV \in [Paths -> [KVKeys -> KVValues \cup {NoValue}]]
    /\ now \in Times

Init ==
    /\ pages = [p \in Paths |-> NoPage]
    /\ fts = [i \in PageIds |-> NoRow]
    /\ versions = {}
    /\ hits = [k \in HitKeys |-> 0]
    /\ drafts = [p \in Paths |-> NoDraft]
    /\ draftVersions = {}
    /\ scriptKV = [p \in Paths |-> [k \in KVKeys |-> NoValue]]
    /\ now \in Times

-----------------------------------------------------------------------------
(***************************************************************************)
(* The helpers of the transactions.                                        *)
(***************************************************************************)

\* SQLite gives a new row the id after the largest one in its table: an id
\* above every other, and the least such one.
IsNextId(i, Ids, table) ==
    /\ \A r \in table : r.id < i
    /\ \A j \in Ids : (\A r \in table : r.id < j) => i <= j

\* ORDER BY saved_at DESC, id DESC
Newer(v, w) == v.at > w.at \/ (v.at = w.at /\ v.id > w.id)

Prune_oldestFirst(table, p) ==
    {v \in table : \/ v.path # p
                   \/ Cardinality({w \in table : w.path = p /\ Newer(v, w)})
                        < KeepVersions}

Prune_offByOne(table, p) ==
    {v \in table : \/ v.path # p
                   \/ Cardinality({w \in table : w.path = p /\ Newer(w, v)})
                        < KeepVersions - 1}

\* pruneVersions and trimDraftVersions: the snapshots of p beyond the newest
\* KeepVersions are deleted.
Prune(table, p) ==
    IF KeepVersions = 0 THEN table
    ELSE {v \in table :
            \/ v.path # p
            \/ Cardinality({w \in table : w.path = p /\ Newer(w, v)})
                 < KeepVersions}

\* INSERT INTO versions ... SELECT ... FROM pages WHERE id = ?
SnapshotOf(p, vid) ==
    [id |-> vid, path |-> p, content |-> pages[p].content,
     mime |-> pages[p].mime, at |-> now]

Reindexed_anyName(p, row) ==
    [fts EXCEPT ![row.id] =
        IF row.mime = "binary" THEN NoRow
        ELSE [title |-> row.title, body |-> row.content, path |-> p]]

\* DELETE FROM pages_fts WHERE rowid = ?, then the INSERT a visible text page
\* gets.
Reindexed(p, row) ==
    [fts EXCEPT ![row.id] =
        IF row.mime = "binary" \/ p \in HiddenPaths THEN NoRow
        ELSE [title |-> row.title, body |-> row.content, path |-> p]]

\* UPDATE ... SET path = ? WHERE path = ?
Moved(table, p, q) ==
    {[v EXCEPT !.path = IF v.path = p THEN q ELSE v.path] : v \in table}

\* DELETE ... WHERE path = ?
Without(table, p) == {v \in table : v.path # p}

EmptyKV == [k \in KVKeys |-> NoValue]

-----------------------------------------------------------------------------
(***************************************************************************)
(* Pages.                                                                  *)
(***************************************************************************)

InsertPage(p, c, m) ==
    /\ ~ Exists(p)
    /\ \E i \in PageIds :
        /\ IsNextId(i, PageIds, Rows)
        /\ LET row == [id |-> i, title |-> DerivedTitle(p, c, m),
                       content |-> c, mime |-> m]
           IN  /\ pages' = [pages EXCEPT ![p] = row]
               /\ fts' = Reindexed(p, row)
    /\ UNCHANGED versions

UpdatePage(p, c, m) ==
    /\ Exists(p)
    /\ \E vid \in VersionIds :
        /\ IsNextId(vid, VersionIds, versions)
        /\ versions' = Prune(versions \cup {SnapshotOf(p, vid)}, p)
    /\ LET row == [pages[p] EXCEPT !.title = DerivedTitle(p, c, m),
                                   !.content = c, !.mime = m]
       IN  /\ pages' = [pages EXCEPT ![p] = row]
           /\ fts' = Reindexed(p, row)

SavePage(p, c, m) ==
    /\ InsertPage(p, c, m) \/ UpdatePage(p, c, m)
    /\ UNCHANGED <<hits, drafts, draftVersions, scriptKV, now>>

DeletePage(p) ==
    /\ Exists(p)
    /\ \E vid \in VersionIds :
        /\ IsNextId(vid, VersionIds, versions)
        /\ versions' = versions \cup {SnapshotOf(p, vid)}
    /\ pages' = [pages EXCEPT ![p] = NoPage]
    /\ fts' = [fts EXCEPT ![pages[p].id] = NoRow]
    /\ hits' = [hits EXCEPT ![HitKey[p]] = 0]
    /\ drafts' = [drafts EXCEPT ![p] = NoDraft]
    /\ draftVersions' = Without(draftVersions, p)
    /\ scriptKV' = [scriptKV EXCEPT ![p] = EmptyKV]
    /\ UNCHANGED now

MoveHits_orIgnore(from, to) ==
    [hits EXCEPT ![to] = IF @ = 0 THEN hits[from] ELSE @, ![from] = 0]

\* The counts move to the new key by an upsert that adds them to the row
\* there, then the rows of the old key are deleted.
MoveHits(from, to) ==
    LET added == [hits EXCEPT ![to] = @ + hits[from]]
    IN  [added EXCEPT ![from] = 0]

MoveDraft_historyStays(p, q) ==
    /\ ~ (HasDraft(p) /\ HasDraft(q))
    /\ drafts' = IF HasDraft(p)
                 THEN [drafts EXCEPT ![q] = drafts[p], ![p] = NoDraft]
                 ELSE drafts
    /\ UNCHANGED draftVersions

\* renameDraft: two UPDATEs, of which the first fails on the primary key when
\* both paths have a draft.
MoveDraft(p, q) ==
    /\ ~ (HasDraft(p) /\ HasDraft(q))
    /\ drafts' = IF HasDraft(p)
                 THEN [drafts EXCEPT ![q] = drafts[p], ![p] = NoDraft]
                 ELSE drafts
    /\ draftVersions' = Moved(draftVersions, p, q)

RenamePage_keepsTitle(p, q) ==
    /\ p # q
    /\ Exists(p)
    /\ ~ Exists(q)
    /\ \E vid \in VersionIds :
        /\ IsNextId(vid, VersionIds, versions)
        /\ versions' = Moved(versions \cup {SnapshotOf(p, vid)}, p, q)
    /\ pages' = [pages EXCEPT ![p] = NoPage, ![q] = pages[p]]
    /\ fts' = Reindexed(q, pages[p])
    /\ hits' = MoveHits(HitKey[p], HitKey[q])
    /\ MoveDraft(p, q)
    /\ UNCHANGED <<scriptKV, now>>

RenamePage(p, q) ==
    /\ p # q
    /\ Exists(p)
    /\ ~ Exists(q)
    /\ \E vid \in VersionIds :
        /\ IsNextId(vid, VersionIds, versions)
        /\ versions' = Moved(versions \cup {SnapshotOf(p, vid)}, p, q)
    /\ LET row == [pages[p] EXCEPT
                    !.title = DerivedTitle(q, pages[p].content, pages[p].mime)]
       IN  /\ pages' = [pages EXCEPT ![p] = NoPage, ![q] = row]
           /\ fts' = Reindexed(q, row)
    /\ hits' = MoveHits(HitKey[p], HitKey[q])
    /\ MoveDraft(p, q)
    /\ UNCHANGED <<scriptKV, now>>

Bump(k) ==
    /\ hits[k] < MaxHits
    /\ hits' = [hits EXCEPT ![k] = @ + 1]
    /\ UNCHANGED <<pageVars, draftVars, scriptKV, now>>

-----------------------------------------------------------------------------
(***************************************************************************)
(* Drafts.                                                                 *)
(***************************************************************************)

SaveDraft(p, c, m) ==
    /\ drafts' = [drafts EXCEPT ![p] = [content |-> c, mime |-> m]]
    /\ \/ /\ ~ HasDraft(p)
          /\ draftVersions' = Prune(draftVersions, p)
       \/ /\ HasDraft(p)
          /\ \E vid \in DraftVersionIds :
              /\ IsNextId(vid, DraftVersionIds, draftVersions)
              /\ draftVersions' =
                    Prune(draftVersions \cup
                            {[id |-> vid, path |-> p,
                              content |-> drafts[p].content,
                              mime |-> drafts[p].mime, at |-> now]}, p)
    /\ UNCHANGED <<pageVars, hits, scriptKV, now>>

DiscardDraft(p) ==
    /\ HasDraft(p)
    /\ drafts' = [drafts EXCEPT ![p] = NoDraft]
    /\ draftVersions' = Without(draftVersions, p)
    /\ UNCHANGED <<pageVars, hits, scriptKV, now>>

-----------------------------------------------------------------------------
(***************************************************************************)
(* The key/value space of scripts.                                         *)
(***************************************************************************)

ScriptKVSet(p, k, v) ==
    /\ scriptKV' = [scriptKV EXCEPT ![p][k] = v]
    /\ UNCHANGED <<pageVars, hits, draftVars, now>>

ScriptKVDelete(p, k) ==
    /\ scriptKV' = [scriptKV EXCEPT ![p][k] = NoValue]
    /\ UNCHANGED <<pageVars, hits, draftVars, now>>

-----------------------------------------------------------------------------

\* The stamps move on, and when StampsOutOfOrder they also move back.
Tick ==
    /\ \E t \in Times : (t > now \/ StampsOutOfOrder) /\ now' = t
    /\ UNCHANGED <<pageVars, hits, draftVars, scriptKV>>

\* Any mime type may come with any path: an upload, a titan request or a
\* restored version brings its own, and a rename keeps it.
PageOp(p) ==
    \/ \E c \in Contents, m \in Mimes : SavePage(p, c, m)
    \/ DeletePage(p)
    \/ \E q \in Paths : RenamePage(p, q)

DraftOp(p) ==
    \/ \E c \in Contents, m \in Mimes : SaveDraft(p, c, m)
    \/ DiscardDraft(p)

ScriptOp(p) ==
    \E k \in KVKeys :
        \/ \E v \in KVValues : ScriptKVSet(p, k, v)
        \/ ScriptKVDelete(p, k)

Next ==
    \/ \E p \in Paths : PageOp(p) \/ ScriptOp(p)
    \/ \E p \in DraftPaths : DraftOp(p)
    \/ \E k \in HitKeys : Bump(k)
    \/ Tick

Spec == Init /\ [][Next]_vars

-----------------------------------------------------------------------------
(***************************************************************************)
(* Properties.                                                             *)
(***************************************************************************)

Searchable(p) == pages[p].mime = "text" /\ p \notin HiddenPaths

SearchRowOf(p) ==
    [title |-> pages[p].title, body |-> pages[p].content, path |-> p]

\* Search returns every visible text page, under its current name, title and
\* content, and nothing else: no row of a deleted page whose id a new page
\* reuses, none of a page renamed to a dot-file, none of a page turned binary
\* (store.go:579, 665, 795).
IndexConsistent ==
    /\ \A p \in Paths :
        Exists(p) /\ Searchable(p) => fts[pages[p].id] = SearchRowOf(p)
    /\ \A i \in PageIds : fts[i] # NoRow =>
        \E p \in Paths : /\ Exists(p)
                         /\ Searchable(p)
                         /\ pages[p].id = i

\* The title and date stored with a page are those its present path and
\* content give, however it got that path and content (store.go:759).
TitlesBelongToNames ==
    \A p \in Paths : Exists(p) =>
        pages[p].title = DerivedTitle(p, pages[p].content, pages[p].mime)

\* Every draft snapshot belongs to a path that has a draft: the history of a
\* draft is never left where it would join a later draft of another page
\* (drafts.go:197, 281, 291).
DraftHistoryHasDraft == \A v \in draftVersions : HasDraft(v.path)

SameRow(p, q) ==
    /\ Exists(p)
    /\ pages'[q] # NoPage
    /\ pages'[q].id = pages[p].id

ContentIsKept(p) ==
    \/ \E q \in Paths : /\ SameRow(p, q)
                        /\ pages'[q].content = pages[p].content
                        /\ pages'[q].mime = pages[p].mime
    \/ \E v \in versions' : /\ v.path = p
                            /\ v.content = pages[p].content
                            /\ v.mime = pages[p].mime

\* What a page held is still on that page or in the history after any step that
\* overwrites, renames or deletes it, even one that also prunes the history,
\* provided stamps are in order (store.go:526, 600, 639).
OverwrittenContentIsKept ==
    [][\A p \in Paths : Exists(p) => ContentIsKept(p)]_vars

\* A snapshot is deleted only when KeepVersions newer ones of the same path
\* are kept, whatever the stamps (store.go:600).
OnlyOldVersionsArePruned ==
    [][\A v \in versions : (\A w \in versions' : w.id # v.id) =>
        /\ KeepVersions > 0
        /\ Cardinality({w \in versions' : w.path = v.path /\ Newer(w, v)})
             >= KeepVersions]_vars

\* No other page is counted under the key of p.
CountsAlone(p) == \A r \in Paths : Exists(r) /\ HitKey[r] = HitKey[p] => r = p

\* A page that exists before and after a step, under the same or another path,
\* has lost none of its views in it (store.go:784), unless another page counts
\* under its key, or its new name does and is not its old one.
SurvivingPageKeepsItsViews ==
    [][\A p, q \in Paths :
        SameRow(p, q) /\ CountsAlone(p) /\ (HitKey[p] = HitKey[q] => p = q) =>
            hits'[HitKey[q]] >= hits[HitKey[p]]]_vars

\* Nothing of some contents is in a page, in what search returns, or in the
\* history of a page.
Unpublished(some) ==
    /\ \A p \in Paths : Exists(p) => pages[p].content \notin some
    /\ \A i \in PageIds : fts[i] # NoRow => fts[i].body \notin some
    /\ \A v \in versions : v.content \notin some

-----------------------------------------------------------------------------
(***************************************************************************)
(* The store implements the published site: search finds what the rows of  *)
(* the index say, and a page is its content and mime type.                 *)
(***************************************************************************)

LivePages ==
    [p \in Paths |-> IF Exists(p) THEN [content |-> pages[p].content,
                                        mime |-> pages[p].mime]
                     ELSE NoPage]

Findable ==
    {<<fts[i].path, fts[i].body>> : i \in {j \in PageIds : fts[j] # NoRow}}

Site == INSTANCE PublishedSite
            WITH live <- LivePages, searchable <- Findable, NoDoc <- NoPage

\* Every step of the store publishes, removes or moves one page, with search
\* following in the same step, or changes nothing a reader can see.
ImplementsPublishedSite == Site!SiteSpec
=============================================================================
