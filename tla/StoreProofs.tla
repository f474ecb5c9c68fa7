---------------------------- MODULE StoreProofs ----------------------------
(***************************************************************************)
(* Theorems about Store, for every set of paths and contents, every        *)
(* KeepVersions and every bound: search, titles, history and its pruning,  *)
(* views, drafts, and what readers see of it all.                          *)
(***************************************************************************)
EXTENDS Store, FiniteSetTheorems, WellFoundedInduction, TLAPS

-----------------------------------------------------------------------------
(***************************************************************************)
(* Lemmas about the helpers of the transactions.                           *)
(***************************************************************************)

\* Pruning only removes snapshots (store.go:600).
LEMMA PruneSubset ==
    ASSUME NEW table, NEW p
    PROVE  Prune(table, p) \subseteq table
  BY DEF Prune

\* Renaming the paths of snapshots leaves them snapshots (store.go:781).
LEMMA MovedType ==
    ASSUME NEW Ids, NEW table \in SUBSET Snapshot(Ids),
           NEW p \in Paths, NEW q \in Paths
    PROVE  Moved(table, p, q) \in SUBSET Snapshot(Ids)
  BY DEF Moved, Snapshot

\* The values derived from a path and a content are a title (store.go:516).
LEMMA DerivedTitleType ==
    ASSUME NEW p \in Paths, NEW c \in Contents, NEW m
    PROVE  DerivedTitle(p, c, m) \in Titles
  BY DEF DerivedTitle, Titles

\* Rewriting a search row keeps the index well typed (store.go:579).
LEMMA ReindexedType ==
    ASSUME fts \in [PageIds -> SearchRow \cup {NoRow}],
           NEW p \in Paths, NEW row \in PageRow
    PROVE  Reindexed(p, row) \in [PageIds -> SearchRow \cup {NoRow}]
  BY DEF Reindexed, SearchRow, PageRow

\* The snapshot of an existing page is a version (store.go:566).
LEMMA SnapshotOfType ==
    ASSUME TypeOK, NEW p \in Paths, Exists(p), NEW vid \in VersionIds
    PROVE  SnapshotOf(p, vid) \in Snapshot(VersionIds)
  BY DEF TypeOK, Exists, SnapshotOf, Snapshot, PageRow

-----------------------------------------------------------------------------
(***************************************************************************)
(* Type correctness, one lemma for each group of operations.               *)
(***************************************************************************)

\* Inserting a page keeps every table well typed.
LEMMA InsertType ==
    ASSUME TypeOK, NEW p \in Paths, NEW c \in Contents, NEW m \in Mimes,
           InsertPage(p, c, m)
    PROVE  /\ pages' \in [Paths -> PageRow \cup {NoPage}]
           /\ fts' \in [PageIds -> SearchRow \cup {NoRow}]
           /\ versions' \subseteq Snapshot(VersionIds)
<1>1. PICK i \in PageIds :
        LET row == [id |-> i, title |-> DerivedTitle(p, c, m),
                    content |-> c, mime |-> m]
        IN  /\ pages' = [pages EXCEPT ![p] = row]
            /\ fts' = Reindexed(p, row)
  BY DEF InsertPage
<1> DEFINE row == [id |-> i, title |-> DerivedTitle(p, c, m),
                   content |-> c, mime |-> m]
<1>2. row \in PageRow
  BY DerivedTitleType DEF PageRow
<1>3. pages' = [pages EXCEPT ![p] = row] /\ fts' = Reindexed(p, row)
  BY <1>1
<1> HIDE DEF row
<1>4. QED
  BY <1>2, <1>3, ReindexedType DEF TypeOK, InsertPage

\* Overwriting a page keeps every table well typed.
LEMMA UpdateType ==
    ASSUME TypeOK, NEW p \in Paths, NEW c \in Contents, NEW m \in Mimes,
           UpdatePage(p, c, m)
    PROVE  /\ pages' \in [Paths -> PageRow \cup {NoPage}]
           /\ fts' \in [PageIds -> SearchRow \cup {NoRow}]
           /\ versions' \subseteq Snapshot(VersionIds)
<1> DEFINE row == [pages[p] EXCEPT !.title = DerivedTitle(p, c, m),
                                   !.content = c, !.mime = m]
<1>1. pages[p] \in PageRow
  BY DEF TypeOK, UpdatePage, Exists
<1>2. row \in PageRow
  BY <1>1, DerivedTitleType DEF PageRow
<1>3. pages' = [pages EXCEPT ![p] = row] /\ fts' = Reindexed(p, row)
  BY DEF UpdatePage
<1>4. versions' \subseteq Snapshot(VersionIds)
  <2>1. PICK vid \in VersionIds :
          versions' = Prune(versions \cup {SnapshotOf(p, vid)}, p)
    BY DEF UpdatePage
  <2>2. SnapshotOf(p, vid) \in Snapshot(VersionIds)
    BY SnapshotOfType DEF UpdatePage
  <2>3. QED
    BY <2>1, <2>2, PruneSubset DEF TypeOK
<1> HIDE DEF row
<1>5. QED
  BY <1>2, <1>3, <1>4, ReindexedType DEF TypeOK

\* SavePage keeps TypeOK.
LEMMA SavePageType ==
    ASSUME TypeOK, NEW p \in Paths, NEW c \in Contents, NEW m \in Mimes,
           SavePage(p, c, m)
    PROVE  TypeOK'
  BY InsertType, UpdateType DEF SavePage, TypeOK

\* DeletePage keeps TypeOK.
LEMMA DeletePageType ==
    ASSUME TypeOK, NEW p \in Paths, DeletePage(p)
    PROVE  TypeOK'
<1>1. pages' \in [Paths -> PageRow \cup {NoPage}]
  BY DEF TypeOK, DeletePage
<1>2. fts' \in [PageIds -> SearchRow \cup {NoRow}]
  BY DEF TypeOK, DeletePage
<1>3. versions' \subseteq Snapshot(VersionIds)
  BY SnapshotOfType DEF TypeOK, DeletePage
<1>4. hits' \in [HitKeys -> Nat]
  BY DEF TypeOK, DeletePage
<1>5. drafts' \in [Paths -> Document \cup {NoDraft}]
  BY DEF TypeOK, DeletePage
<1>6. draftVersions' \subseteq Snapshot(DraftVersionIds)
  BY DEF TypeOK, DeletePage, Without
<1>7. scriptKV' \in [Paths -> [KVKeys -> KVValues \cup {NoValue}]]
  BY DEF TypeOK, DeletePage, EmptyKV
<1>8. QED
  BY <1>1, <1>2, <1>3, <1>4, <1>5, <1>6, <1>7 DEF TypeOK, DeletePage

\* RenamePage keeps TypeOK.
LEMMA RenamePageType ==
    ASSUME TypeOK, NEW p \in Paths, NEW q \in Paths, RenamePage(p, q)
    PROVE  TypeOK'
<1> DEFINE row == [pages[p] EXCEPT
                    !.title = DerivedTitle(q, pages[p].content, pages[p].mime)]
<1>1. pages[p] \in PageRow
  BY DEF TypeOK, RenamePage, Exists
<1>2. row \in PageRow
  BY <1>1, DerivedTitleType DEF PageRow
<1>3. /\ pages' = [pages EXCEPT ![p] = NoPage, ![q] = row]
      /\ fts' = Reindexed(q, row)
  BY DEF RenamePage
<1> HIDE DEF row
<1>4. pages' \in [Paths -> PageRow \cup {NoPage}]
  BY <1>2, <1>3 DEF TypeOK
<1>5. fts' \in [PageIds -> SearchRow \cup {NoRow}]
  BY <1>2, <1>3, ReindexedType DEF TypeOK
<1>6. versions' \subseteq Snapshot(VersionIds)
  <2>1. PICK vid \in VersionIds :
          versions' = Moved(versions \cup {SnapshotOf(p, vid)}, p, q)
    BY DEF RenamePage
  <2>2. versions \cup {SnapshotOf(p, vid)} \in SUBSET Snapshot(VersionIds)
    BY SnapshotOfType DEF RenamePage, TypeOK
  <2>3. QED
    BY <2>1, <2>2, MovedType
<1>7. hits' \in [HitKeys -> Nat]
  <2>1. HitKey[p] \in HitKeys /\ HitKey[q] \in HitKeys
    BY PathsAssumption
  <2>2. QED
    BY <2>1 DEF TypeOK, RenamePage, MoveHits
<1>8. drafts' \in [Paths -> Document \cup {NoDraft}]
  BY DEF TypeOK, RenamePage, MoveDraft, HasDraft
<1>9. draftVersions' \subseteq Snapshot(DraftVersionIds)
  BY MovedType DEF TypeOK, RenamePage, MoveDraft
<1>10. QED
  BY <1>4, <1>5, <1>6, <1>7, <1>8, <1>9 DEF TypeOK, RenamePage

\* Bump keeps TypeOK.
LEMMA BumpType ==
    ASSUME TypeOK, NEW k \in HitKeys, Bump(k)
    PROVE  TypeOK'
  BY DEF TypeOK, Bump, pageVars, draftVars

\* SaveDraft keeps TypeOK.
LEMMA SaveDraftType ==
    ASSUME TypeOK, NEW p \in Paths, NEW c \in Contents, NEW m \in Mimes,
           SaveDraft(p, c, m)
    PROVE  TypeOK'
<1>1. drafts' \in [Paths -> Document \cup {NoDraft}]
  BY DEF TypeOK, SaveDraft, Document
<1>2. draftVersions' \subseteq Snapshot(DraftVersionIds)
  <2>1. CASE ~ HasDraft(p)
    BY <2>1, PruneSubset DEF SaveDraft, TypeOK
  <2>2. CASE HasDraft(p)
    <3> DEFINE old(vid) == [id |-> vid, path |-> p,
                            content |-> drafts[p].content,
                            mime |-> drafts[p].mime, at |-> now]
    <3>1. PICK vid \in DraftVersionIds :
            draftVersions' = Prune(draftVersions \cup {old(vid)}, p)
      BY <2>2 DEF SaveDraft
    <3>2. old(vid) \in Snapshot(DraftVersionIds)
      BY <2>2 DEF TypeOK, HasDraft, Snapshot, Document
    <3>3. QED
      BY <3>1, <3>2, PruneSubset DEF TypeOK
  <2>3. QED
    BY <2>1, <2>2
<1>3. QED
  BY <1>1, <1>2 DEF TypeOK, SaveDraft, pageVars

\* DiscardDraft keeps TypeOK.
LEMMA DiscardDraftType ==
    ASSUME TypeOK, NEW p \in Paths, DiscardDraft(p)
    PROVE  TypeOK'
  BY DEF TypeOK, DiscardDraft, Without, pageVars

\* Writing or deleting a script key keeps TypeOK.
LEMMA ScriptOpType ==
    ASSUME TypeOK, NEW p \in Paths, ScriptOp(p)
    PROVE  TypeOK'
<1>1. ASSUME NEW k \in KVKeys, NEW v \in KVValues, ScriptKVSet(p, k, v)
      PROVE  TypeOK'
  BY <1>1 DEF TypeOK, ScriptKVSet, pageVars, draftVars
<1>2. ASSUME NEW k \in KVKeys, ScriptKVDelete(p, k)
      PROVE  TypeOK'
  BY <1>2 DEF TypeOK, ScriptKVDelete, pageVars, draftVars
<1>3. QED
  BY <1>1, <1>2 DEF ScriptOp

\* A new timestamp keeps TypeOK.
LEMMA TickType ==
    ASSUME TypeOK, Tick
    PROVE  TypeOK'
  BY DEF TypeOK, Tick, pageVars, draftVars

\* Every step keeps TypeOK.
LEMMA TypeStep == TypeOK /\ [Next]_vars => TypeOK'
<1> SUFFICES ASSUME TypeOK, [Next]_vars
             PROVE  TypeOK'
  OBVIOUS
<1>1. ASSUME NEW p \in Paths, PageOp(p)
      PROVE  TypeOK'
  BY <1>1, SavePageType, DeletePageType, RenamePageType
     DEF PageOp
<1>2. ASSUME NEW p \in DraftPaths, DraftOp(p)
      PROVE  TypeOK'
  BY <1>2, SaveDraftType, DiscardDraftType, PathsAssumption
     DEF DraftOp
<1>3. ASSUME NEW p \in Paths, ScriptOp(p)
      PROVE  TypeOK'
  BY <1>3, ScriptOpType
<1>4. ASSUME NEW k \in HitKeys, Bump(k)
      PROVE  TypeOK'
  BY <1>4, BumpType
<1>5. CASE Tick
  BY <1>5, TickType
<1>6. CASE UNCHANGED vars
  BY <1>6 DEF TypeOK, vars
<1>7. QED
  BY <1>1, <1>2, <1>3, <1>4, <1>5, <1>6 DEF Next

\* An empty database is well typed.
LEMMA TypeInit == Init => TypeOK
  BY DEF Init, TypeOK

\* Every column of every table keeps its type: in particular every snapshot
\* is of a real path and every search row is under a real page id.
THEOREM TypeCorrect == Spec => []TypeOK
  BY TypeInit, TypeStep, PTL DEF Spec

-----------------------------------------------------------------------------
(***************************************************************************)
(* The search index.  IndexConsistent is not inductive by itself: a step   *)
(* that rewrites the row of one page must not touch the row of another, so *)
(* ids must be unique.                                                     *)
(***************************************************************************)

IdsUnique ==
    \A p, q \in Paths :
        Exists(p) /\ Exists(q) /\ pages[p].id = pages[q].id => p = q

IndexInv == IdsUnique /\ TitlesBelongToNames /\ IndexConsistent

\* The common part of inserting, overwriting and renaming: a row is written at
\* p and its search row is rebuilt from it.  "gone" holds the path the row was
\* at before, if it was anywhere.
WritesRow(p, row, gone) ==
    /\ row \in PageRow
    /\ row.title = DerivedTitle(p, row.content, row.mime)
    /\ \A q \in gone : Exists(q) /\ pages[q].id = row.id
    /\ \A q \in Paths : Exists(q) /\ pages[q].id = row.id => q \in gone
    /\ p \notin gone => ~ Exists(p)
    /\ \A q \in Paths : pages'[q] = IF q = p THEN row
                                    ELSE IF q \in gone THEN NoPage
                                    ELSE pages[q]
    /\ fts' = Reindexed(p, row)

\* Such a write leaves the index consistent (store.go:579, 799).
LEMMA WriteRowIndex ==
    ASSUME TypeOK, IndexInv, NEW p \in Paths, NEW row,
           NEW gone \in SUBSET Paths, WritesRow(p, row, gone)
    PROVE  IndexInv'
<1> USE DEF WritesRow
<1>1. /\ row # NoPage
      /\ row.id \in PageIds
      /\ row.mime \in {"text", "binary"}
  BY SentinelsAssumption, PathsAssumption DEF PageRow
<1>2. \A i \in PageIds : fts'[i] =
        IF i = row.id
        THEN IF row.mime = "binary" \/ p \in HiddenPaths THEN NoRow
             ELSE [title |-> row.title, body |-> row.content, path |-> p]
        ELSE fts[i]
  BY DEF Reindexed, TypeOK
<1>3. \A q \in Paths : q # p => (Exists(q)' <=> Exists(q) /\ q \notin gone)
  BY DEF Exists
<1>4. \A q \in Paths : q # p /\ Exists(q)' =>
        /\ pages'[q] = pages[q]
        /\ pages[q].id # row.id
        /\ pages[q].id \in PageIds
  BY <1>3 DEF Exists, TypeOK, PageRow
<1>5. Exists(p)' /\ pages'[p] = row
  BY <1>1 DEF Exists
<1>6. IdsUnique'
  BY <1>3, <1>4, <1>5 DEF IdsUnique, IndexInv
<1>7. TitlesBelongToNames'
  <2> SUFFICES ASSUME NEW q \in Paths, Exists(q)'
               PROVE  pages'[q].title =
                        DerivedTitle(q, pages'[q].content, pages'[q].mime)
    BY DEF TitlesBelongToNames, DerivedTitle
  <2>1. CASE q = p
    BY <2>1, <1>5
  <2>2. CASE q # p
    BY <2>2, <1>3, <1>4 DEF IndexInv, TitlesBelongToNames
  <2>3. QED
    BY <2>1, <2>2
<1>8. ASSUME NEW q \in Paths, Exists(q)', Searchable(q)'
      PROVE  fts'[pages'[q].id] = SearchRowOf(q)'
  <2>1. CASE q = p
    BY <2>1, <1>1, <1>2, <1>5, <1>8 DEF Searchable, SearchRowOf
  <2>2. CASE q # p
    BY <2>2, <1>2, <1>3, <1>4, <1>8
       DEF IndexInv, IndexConsistent, Searchable, SearchRowOf
  <2>3. QED
    BY <2>1, <2>2
<1>9. ASSUME NEW i \in PageIds, fts'[i] # NoRow
      PROVE  \E q \in Paths : Exists(q)' /\ Searchable(q)' /\ pages'[q].id = i
  <2>1. CASE i = row.id
    BY <2>1, <1>1, <1>2, <1>5, <1>9 DEF Searchable
  <2>2. CASE i # row.id
    <3>1. PICK q \in Paths : Exists(q) /\ Searchable(q) /\ pages[q].id = i
      BY <2>2, <1>2, <1>9 DEF IndexInv, IndexConsistent
    <3>2. q \notin gone /\ q # p
      BY <3>1, <2>2
    <3>3. QED
      BY <3>1, <3>2, <1>3, <1>4 DEF Searchable
  <2>3. QED
    BY <2>1, <2>2
<1>10. IndexConsistent'
  BY <1>8, <1>9 DEF IndexConsistent
<1>11. QED
  BY <1>6, <1>7, <1>10 DEF IndexInv

\* A new page gets a fresh id and a search row exactly when it is searchable.
LEMMA InsertIndex ==
    ASSUME TypeOK, IndexInv, NEW p \in Paths, NEW c \in Contents,
           NEW m \in Mimes, InsertPage(p, c, m)
    PROVE  IndexInv'
<1>1. PICK i \in PageIds :
        /\ IsNextId(i, PageIds, Rows)
        /\ LET row == [id |-> i, title |-> DerivedTitle(p, c, m),
                       content |-> c, mime |-> m]
           IN  /\ pages' = [pages EXCEPT ![p] = row]
               /\ fts' = Reindexed(p, row)
  BY DEF InsertPage
<1> DEFINE row == [id |-> i, title |-> DerivedTitle(p, c, m),
                   content |-> c, mime |-> m]
<1>2. row \in PageRow /\ row.title = DerivedTitle(p, row.content, row.mime)
  BY DerivedTitleType DEF PageRow
<1>3. pages' = [pages EXCEPT ![p] = row] /\ fts' = Reindexed(p, row)
  BY <1>1
<1>4. row.id = i
  OBVIOUS
<1> HIDE DEF row
<1>5. \A q \in Paths : Exists(q) => pages[q].id < i
  BY <1>1 DEF IsNextId, Rows
<1>6. \A q \in Paths : ~ (Exists(q) /\ pages[q].id = row.id)
  BY <1>4, <1>5, NumbersAssumption
<1>7. ~ Exists(p)
  BY DEF InsertPage
<1>8. \A q \in Paths : pages'[q] = IF q = p THEN row
                                   ELSE IF q \in {} THEN NoPage
                                   ELSE pages[q]
  BY <1>3 DEF TypeOK
<1>9. WritesRow(p, row, {})
  BY <1>2, <1>3, <1>6, <1>7, <1>8 DEF WritesRow
<1>10. QED
  BY <1>9, WriteRowIndex

\* Overwriting a page rewrites the search row of its id.
LEMMA UpdateIndex ==
    ASSUME TypeOK, IndexInv, NEW p \in Paths, NEW c \in Contents,
           NEW m \in Mimes, UpdatePage(p, c, m)
    PROVE  IndexInv'
<1> DEFINE row == [pages[p] EXCEPT !.title = DerivedTitle(p, c, m),
                                   !.content = c, !.mime = m]
<1>1. pages[p] \in PageRow /\ Exists(p)
  BY DEF TypeOK, UpdatePage, Exists
<1>2. /\ row \in PageRow
      /\ row.title = DerivedTitle(p, row.content, row.mime)
      /\ row.id = pages[p].id
  BY <1>1, DerivedTitleType DEF PageRow
<1>3. pages' = [pages EXCEPT ![p] = row] /\ fts' = Reindexed(p, row)
  BY DEF UpdatePage
<1> HIDE DEF row
<1>4. \A q \in Paths : Exists(q) /\ pages[q].id = row.id => q \in {p}
  BY <1>1, <1>2 DEF IndexInv, IdsUnique
<1>5. \A q \in Paths : pages'[q] = IF q = p THEN row
                                   ELSE IF q \in {p} THEN NoPage
                                   ELSE pages[q]
  BY <1>3 DEF TypeOK
<1>6. WritesRow(p, row, {p})
  BY <1>1, <1>2, <1>3, <1>4, <1>5 DEF WritesRow
<1>7. QED
  BY <1>6, WriteRowIndex

\* A renamed page keeps its id and gets the search row of its new name.
LEMMA RenameIndex ==
    ASSUME TypeOK, IndexInv, NEW p \in Paths, NEW q \in Paths,
           RenamePage(p, q)
    PROVE  IndexInv'
<1> DEFINE row == [pages[p] EXCEPT
                    !.title = DerivedTitle(q, pages[p].content, pages[p].mime)]
<1>1. pages[p] \in PageRow /\ Exists(p) /\ ~ Exists(q) /\ p # q
  BY DEF TypeOK, RenamePage, Exists
<1>2. /\ row \in PageRow
      /\ row.title = DerivedTitle(q, row.content, row.mime)
      /\ row.id = pages[p].id
  BY <1>1, DerivedTitleType DEF PageRow
<1>3. /\ pages' = [pages EXCEPT ![p] = NoPage, ![q] = row]
      /\ fts' = Reindexed(q, row)
  BY DEF RenamePage
<1> HIDE DEF row
<1>4. \A r \in Paths : Exists(r) /\ pages[r].id = row.id => r \in {p}
  BY <1>1, <1>2 DEF IndexInv, IdsUnique
<1>5. \A r \in Paths : pages'[r] = IF r = q THEN row
                                   ELSE IF r \in {p} THEN NoPage
                                   ELSE pages[r]
  BY <1>1, <1>3 DEF TypeOK
<1>6. WritesRow(q, row, {p})
  BY <1>1, <1>2, <1>3, <1>4, <1>5 DEF WritesRow
<1>7. QED
  BY <1>6, WriteRowIndex

\* A deleted page takes its search row with it.
LEMMA DeleteIndex ==
    ASSUME TypeOK, IndexInv, NEW p \in Paths, DeletePage(p)
    PROVE  IndexInv'
<1>1. pages[p] \in PageRow /\ Exists(p)
  BY DEF TypeOK, DeletePage, Exists
<1>2. \A q \in Paths : pages'[q] = IF q = p THEN NoPage ELSE pages[q]
  BY DEF DeletePage, TypeOK
<1>3. \A i \in PageIds : fts'[i] = IF i = pages[p].id THEN NoRow ELSE fts[i]
  BY DEF DeletePage, TypeOK
<1>4. \A q \in Paths : /\ Exists(q)' <=> Exists(q) /\ q # p
                       /\ Exists(q)' => /\ pages'[q] = pages[q]
                                        /\ pages[q].id # pages[p].id
                                        /\ pages[q].id \in PageIds
  BY <1>1, <1>2 DEF Exists, IndexInv, IdsUnique, TypeOK, PageRow
<1>5. IdsUnique'
  BY <1>4 DEF IdsUnique, IndexInv
<1>6. TitlesBelongToNames'
  BY <1>4 DEF TitlesBelongToNames, IndexInv, DerivedTitle
<1>7. ASSUME NEW q \in Paths, Exists(q)', Searchable(q)'
      PROVE  fts'[pages'[q].id] = SearchRowOf(q)'
  BY <1>3, <1>4, <1>7
     DEF IndexInv, IndexConsistent, Searchable, SearchRowOf
<1>8. ASSUME NEW i \in PageIds, fts'[i] # NoRow
      PROVE  \E q \in Paths : Exists(q)' /\ Searchable(q)' /\ pages'[q].id = i
  <2>1. PICK q \in Paths : Exists(q) /\ Searchable(q) /\ pages[q].id = i
    BY <1>3, <1>8 DEF IndexInv, IndexConsistent
  <2>2. q # p
    BY <2>1, <1>3, <1>8
  <2>3. QED
    BY <2>1, <2>2, <1>4 DEF Searchable
<1>9. QED
  BY <1>5, <1>6, <1>7, <1>8 DEF IndexInv, IndexConsistent

\* Steps that leave pages and the index alone keep the invariant.
LEMMA IndexStutter ==
    ASSUME IndexInv, UNCHANGED <<pages, fts>>
    PROVE  IndexInv'
  BY DEF IndexInv, IdsUnique, TitlesBelongToNames, IndexConsistent, Exists,
         Searchable, SearchRowOf

\* Every step keeps the index invariant.
LEMMA IndexStep == TypeOK /\ IndexInv /\ [Next]_vars => IndexInv'
<1> SUFFICES ASSUME TypeOK, IndexInv, [Next]_vars
             PROVE  IndexInv'
  OBVIOUS
<1>1. ASSUME NEW p \in Paths, PageOp(p)
      PROVE  IndexInv'
  <2>1. ASSUME NEW c \in Contents, NEW m \in Mimes, SavePage(p, c, m)
        PROVE  IndexInv'
    BY <2>1, InsertIndex, UpdateIndex DEF SavePage
  <2>2. QED
    BY <1>1, <2>1, DeleteIndex, RenameIndex DEF PageOp
<1>2. ASSUME NEW p \in DraftPaths, DraftOp(p)
      PROVE  IndexInv'
  BY <1>2, IndexStutter DEF DraftOp, SaveDraft, DiscardDraft, pageVars
<1>3. ASSUME NEW p \in Paths, ScriptOp(p)
      PROVE  IndexInv'
  BY <1>3, IndexStutter DEF ScriptOp, ScriptKVSet, ScriptKVDelete, pageVars
<1>4. ASSUME NEW k \in HitKeys, Bump(k)
      PROVE  IndexInv'
  BY <1>4, IndexStutter DEF Bump, pageVars
<1>5. CASE Tick
  BY <1>5, IndexStutter DEF Tick, pageVars
<1>6. CASE UNCHANGED vars
  BY <1>6, IndexStutter DEF vars
<1>7. QED
  BY <1>1, <1>2, <1>3, <1>4, <1>5, <1>6 DEF Next

\* The index of an empty database is consistent.
LEMMA IndexInit == Init => IndexInv
  BY DEF Init, IndexInv, IdsUnique, TitlesBelongToNames, IndexConsistent,
         Exists

\* Page ids are unique, titles are fresh and the index is exact, together.
THEOREM IndexInvariant == Spec => []IndexInv
<1>1. TypeOK /\ IndexInv /\ [Next]_vars => TypeOK' /\ IndexInv'
  BY TypeStep, IndexStep
<1>2. QED
  BY TypeInit, IndexInit, <1>1, PTL DEF Spec

\* Search finds every visible text page as it now reads and nothing else.
THEOREM SearchIsExact == Spec => []IndexConsistent
  BY IndexInvariant, PTL DEF IndexInv

\* The stored title and date are always those of the present path and content.
THEOREM TitlesAreFresh == Spec => []TitlesBelongToNames
  BY IndexInvariant, PTL DEF IndexInv

-----------------------------------------------------------------------------
(***************************************************************************)
(* Recovery.  The snapshot a step takes is the newest of its path when no  *)
(* earlier one carries a later time, and the newest is never pruned.       *)
(***************************************************************************)

NoFutureVersion == \A v \in versions : v.at <= now

\* A snapshot just taken survives the prune that follows it (store.go:600).
LEMMA FreshSnapshotSurvives ==
    ASSUME TypeOK, NoFutureVersion, NEW p \in Paths, NEW vid \in VersionIds,
           IsNextId(vid, VersionIds, versions)
    PROVE  SnapshotOf(p, vid) \in Prune(versions \cup {SnapshotOf(p, vid)}, p)
<1> DEFINE s == SnapshotOf(p, vid)
           table == versions \cup {s}
<1>1. s.at = now /\ s.id = vid
  BY DEF SnapshotOf
<1>2. CASE KeepVersions = 0
  BY <1>2 DEF Prune
<1>3. CASE KeepVersions # 0
  <2>1. ASSUME NEW w \in versions
        PROVE  ~ Newer(w, s)
    <3>1. w.at \in Nat /\ w.id \in Nat /\ now \in Nat /\ vid \in Nat
      BY NumbersAssumption DEF TypeOK, Snapshot
    <3>2. w.at <= now /\ w.id < vid
      BY DEF NoFutureVersion, IsNextId
    <3> HIDE DEF s
    <3>3. QED
      BY <1>1, <3>1, <3>2 DEF Newer
  <2>2. ~ Newer(s, s)
    <3>1. now \in Nat /\ vid \in Nat
      BY NumbersAssumption DEF TypeOK
    <3> HIDE DEF s
    <3>2. QED
      BY <1>1, <3>1 DEF Newer
  <2> HIDE DEF s
  <2>3. {w \in table : w.path = p /\ Newer(w, s)} = {}
    BY <2>1, <2>2
  <2>4. Cardinality({w \in table : w.path = p /\ Newer(w, s)}) < KeepVersions
    <3>1. Cardinality({w \in table : w.path = p /\ Newer(w, s)}) = 0
      <4>1. Cardinality({}) = 0
        BY FS_EmptySet, Zenon
      <4>2. QED
        BY <2>3, <4>1, Zenon
    <3>2. 0 < KeepVersions
      <4>1. KeepVersions \in Nat
        BY NumbersAssumption
      <4>2. QED
        BY <1>3, <4>1
    <3>3. QED
      BY <3>1, <3>2, Zenon
  <2>5. QED
    BY <1>3, <2>4 DEF Prune, s
<1>4. QED
  BY <1>2, <1>3

\* What the operations do to the versions: they keep some, move some, and add
\* a snapshot carrying the present time.
LEMMA VersionsAfterPageOp ==
    ASSUME TypeOK, NEW p \in Paths, PageOp(p)
    PROVE  /\ now' = now
           /\ \A v \in versions' : v.at = now \/ \E w \in versions : v.at = w.at
<1>1. ASSUME NEW c \in Contents, NEW m \in Mimes, SavePage(p, c, m)
      PROVE  /\ now' = now
             /\ \A v \in versions' : v.at = now \/ v \in versions
  <2>1. CASE InsertPage(p, c, m)
    BY <1>1, <2>1 DEF SavePage, InsertPage
  <2>2. CASE UpdatePage(p, c, m)
    BY <1>1, <2>2, PruneSubset DEF SavePage, UpdatePage, SnapshotOf
  <2>3. QED
    BY <1>1, <2>1, <2>2 DEF SavePage
<1>2. CASE DeletePage(p)
  BY <1>2 DEF DeletePage, SnapshotOf
<1>3. ASSUME NEW q \in Paths, RenamePage(p, q)
      PROVE  /\ now' = now
             /\ \A v \in versions' :
                  v.at = now \/ \E w \in versions : v.at = w.at
  <2>1. PICK vid \in VersionIds :
          versions' = Moved(versions \cup {SnapshotOf(p, vid)}, p, q)
    BY <1>3 DEF RenamePage
  <2>2. \A w \in versions \cup {SnapshotOf(p, vid)} :
          [w EXCEPT !.path = IF w.path = p THEN q ELSE w.path].at = w.at
    <3>1. versions \cup {SnapshotOf(p, vid)} \subseteq Snapshot(VersionIds)
      BY <1>3, SnapshotOfType DEF TypeOK, RenamePage
    <3>2. QED
      BY <3>1 DEF Snapshot
  <2>3. SnapshotOf(p, vid).at = now
    BY DEF SnapshotOf
  <2>4. \A v \in versions' : \E w \in versions \cup {SnapshotOf(p, vid)} :
          v.at = w.at
    BY <2>1, <2>2 DEF Moved
  <2>5. now' = now
    BY <1>3 DEF RenamePage
  <2>6. QED
    BY <2>3, <2>4, <2>5
<1>4. QED
  BY <1>1, <1>2, <1>3 DEF PageOp

\* No step stamps a snapshot later than the present.
LEMMA NoFutureStep ==
    ASSUME ~ StampsOutOfOrder, TypeOK, TypeOK', NoFutureVersion, [Next]_vars
    PROVE  NoFutureVersion'
<1>1. ASSUME NEW p \in Paths, PageOp(p)
      PROVE  NoFutureVersion'
  BY <1>1, VersionsAfterPageOp, NumbersAssumption DEF NoFutureVersion, TypeOK
<1>2. ASSUME UNCHANGED <<versions, now>>
      PROVE  NoFutureVersion'
  BY <1>2 DEF NoFutureVersion
<1>3. ASSUME NEW p \in DraftPaths, DraftOp(p)
      PROVE  NoFutureVersion'
  BY <1>2, <1>3 DEF DraftOp, SaveDraft, DiscardDraft, pageVars
<1>4. ASSUME NEW p \in Paths, ScriptOp(p)
      PROVE  NoFutureVersion'
  BY <1>2, <1>4 DEF ScriptOp, ScriptKVSet, ScriptKVDelete, pageVars
<1>5. ASSUME NEW k \in HitKeys, Bump(k)
      PROVE  NoFutureVersion'
  BY <1>2, <1>5 DEF Bump, pageVars
<1>6. CASE Tick
  <2>1. now \in Nat /\ now' \in Nat /\ now' > now
    BY <1>6, NumbersAssumption DEF Tick, TypeOK
  <2>2. versions' = versions /\ \A v \in versions : v.at \in Nat
    BY <1>6, NumbersAssumption DEF Tick, pageVars, TypeOK, Snapshot
  <2>3. QED
    BY <2>1, <2>2 DEF NoFutureVersion
<1>7. CASE UNCHANGED vars
  BY <1>2, <1>7 DEF vars
<1>8. QED
  BY <1>1, <1>3, <1>4, <1>5, <1>6, <1>7 DEF Next

\* A page whose row is untouched keeps its content.
LEMMA UntouchedIsKept ==
    ASSUME NEW p \in Paths, Exists(p), pages'[p] = pages[p]
    PROVE  ContentIsKept(p)
  BY DEF ContentIsKept, SameRow, Exists

\* An operation on pages keeps what every page held.
LEMMA PageOpKeepsContent ==
    ASSUME TypeOK, NoFutureVersion, NEW p \in Paths, PageOp(p),
           NEW r \in Paths, Exists(r)
    PROVE  ContentIsKept(r)
<1>1. ASSUME NEW vid \in VersionIds, SnapshotOf(p, vid) \in versions', r = p
      PROVE  ContentIsKept(r)
  BY <1>1 DEF ContentIsKept, SnapshotOf
<1>2. ASSUME NEW c \in Contents, NEW m \in Mimes, SavePage(p, c, m)
      PROVE  ContentIsKept(r)
  <2>1. CASE r = p
    <3>1. UpdatePage(p, c, m)
      BY <1>2, <2>1 DEF SavePage, InsertPage
    <3>2. PICK vid \in VersionIds :
            /\ IsNextId(vid, VersionIds, versions)
            /\ versions' = Prune(versions \cup {SnapshotOf(p, vid)}, p)
      BY <3>1 DEF UpdatePage
    <3>3. QED
      BY <1>1, <2>1, <3>2, FreshSnapshotSurvives
  <2>2. CASE r # p
    <3>1. pages'[r] = pages[r]
      BY <1>2, <2>2 DEF SavePage, InsertPage, UpdatePage, TypeOK
    <3>2. QED
      BY <3>1, UntouchedIsKept
  <2>3. QED
    BY <2>1, <2>2
<1>3. CASE DeletePage(p)
  <2>1. CASE r = p
    BY <1>1, <1>3, <2>1 DEF DeletePage
  <2>2. CASE r # p
    BY <1>3, <2>2, UntouchedIsKept DEF DeletePage, TypeOK
  <2>3. QED
    BY <2>1, <2>2
<1>4. ASSUME NEW q \in Paths, RenamePage(p, q)
      PROVE  ContentIsKept(r)
  <2> DEFINE row == [pages[p] EXCEPT
                 !.title = DerivedTitle(q, pages[p].content, pages[p].mime)]
  <2>1. pages' = [pages EXCEPT ![p] = NoPage, ![q] = row] /\ p # q
    BY <1>4 DEF RenamePage
  <2>2. CASE r = p
    <3>1. pages[p] \in PageRow
      BY <1>4 DEF RenamePage, Exists, TypeOK
    <3>2. /\ row \in PageRow
          /\ row.id = pages[p].id
          /\ row.content = pages[p].content
          /\ row.mime = pages[p].mime
      BY <3>1, DerivedTitleType DEF PageRow
    <3> HIDE DEF row
    <3>3. pages'[q] = row /\ row # NoPage
      BY <2>1, <3>2, SentinelsAssumption DEF TypeOK
    <3>4. QED
      BY <2>2, <3>2, <3>3 DEF ContentIsKept, SameRow
  <2>3. CASE r # p
    <3>1. r # q
      BY <1>4 DEF RenamePage
    <3>2. QED
      BY <2>1, <2>3, <3>1, UntouchedIsKept DEF TypeOK
  <2>4. QED
    BY <2>2, <2>3
<1>5. QED
  BY <1>2, <1>3, <1>4 DEF PageOp

\* So does every step.
LEMMA StepKeepsContent ==
    ASSUME TypeOK, NoFutureVersion, [Next]_vars
    PROVE  [\A p \in Paths : Exists(p) => ContentIsKept(p)]_vars
<1>1. ASSUME NEW p \in Paths, PageOp(p)
      PROVE  \A r \in Paths : Exists(r) => ContentIsKept(r)
  BY <1>1, PageOpKeepsContent
<1>2. ASSUME UNCHANGED pages
      PROVE  \A r \in Paths : Exists(r) => ContentIsKept(r)
  BY <1>2, UntouchedIsKept
<1>3. ASSUME NEW p \in DraftPaths, DraftOp(p)
      PROVE  UNCHANGED pages
  BY <1>3 DEF DraftOp, SaveDraft, DiscardDraft, pageVars
<1>4. ASSUME NEW p \in Paths, ScriptOp(p)
      PROVE  UNCHANGED pages
  BY <1>4 DEF ScriptOp, ScriptKVSet, ScriptKVDelete, pageVars
<1>5. ASSUME NEW k \in HitKeys, Bump(k)
      PROVE  UNCHANGED pages
  BY <1>5 DEF Bump, pageVars
<1>6. Tick => UNCHANGED pages
  BY DEF Tick, pageVars
<1>7. QED
  BY <1>1, <1>2, <1>3, <1>4, <1>5, <1>6 DEF Next

\* With stamps in order nothing a page held is lost by overwriting,
\* renaming or deleting it, for every KeepVersions.
THEOREM NothingIsLost ==
    ASSUME ~ StampsOutOfOrder
    PROVE  Spec => OverwrittenContentIsKept
<1>1. Init => NoFutureVersion
  BY DEF Init, NoFutureVersion
<1>2. TypeOK /\ TypeOK' /\ NoFutureVersion /\ [Next]_vars => NoFutureVersion'
  BY NoFutureStep
<1>3. TypeOK /\ NoFutureVersion /\ [Next]_vars
        => [\A p \in Paths : Exists(p) => ContentIsKept(p)]_vars
  BY StepKeepsContent
<1>4. QED
  BY <1>1, <1>2, <1>3, TypeCorrect, PTL DEF Spec, OverwrittenContentIsKept

-----------------------------------------------------------------------------
(***************************************************************************)
(* Pruning.  That a snapshot goes only when KeepVersions newer ones stay   *)
(* is less obvious than the condition of Prune: the newer ones it counts   *)
(* may be pruned themselves.  Of those that are, the one with the fewest   *)
(* snapshots above it has none above it that is pruned, and enough that    *)
(* stay.  It exists because the table is finite.                           *)
(***************************************************************************)

\* The snapshots of p that pruneVersions ranks above v.
Above(table, p, v) == {w \in table : w.path = p /\ Newer(w, v)}

\* Newer orders snapshots strictly: none is above itself, and what is above
\* what is above v is above v.
LEMMA NewerIsAnOrder ==
    ASSUME NEW u \in Snapshot(VersionIds), NEW v \in Snapshot(VersionIds),
           NEW w \in Snapshot(VersionIds)
    PROVE  /\ ~ Newer(v, v)
           /\ Newer(u, v) /\ Newer(v, w) => Newer(u, w)
<1>1. \A x \in Snapshot(VersionIds) : x.id \in Nat /\ x.at \in Nat
  BY NumbersAssumption DEF Snapshot
<1>2. QED
  BY <1>1 DEF Newer

\* In a finite family of snapshots there is one that has no other of the
\* family above it.
LEMMA OneIsNewest ==
    ASSUME NEW table \in SUBSET Snapshot(VersionIds), IsFiniteSet(table), NEW p,
           NEW some \in SUBSET table, some # {}, \A v \in some : v.path = p
    PROVE  \E u \in some : \A w \in some : w \notin Above(table, p, u)
<1> DEFINE families == {Above(table, p, v) : v \in some}
           order == StrictSubsetOrdering(table)
<1>1. families \subseteq FiniteSubsetsOf(table) /\ families # {}
  <2>1. \A v : Above(table, p, v) \in SUBSET table
    BY DEF Above
  <2>2. FiniteSubsetsOf(table) = SUBSET table
    BY FS_FiniteSubsetsOfFinite
  <2>3. QED
    BY <2>1, <2>2
<1>2. IsWellFoundedOn(order, FiniteSubsetsOf(table))
  BY FS_StrictSubsetOrderingWellFounded
<1>3. PICK least \in families : \A f \in families : ~ (<<f, least>> \in order)
  <2> HIDE DEF families, order
  <2>1. QED
    BY <1>1, <1>2, WFMin
<1>4. PICK u \in some : least = Above(table, p, u)
  BY <1>3
<1>5. ASSUME NEW w \in some, w \in Above(table, p, u)
      PROVE  FALSE
  <2>1. Above(table, p, w) \subseteq Above(table, p, u)
    BY <1>5, NewerIsAnOrder DEF Above
  <2>2. w \notin Above(table, p, w)
    BY NewerIsAnOrder DEF Above
  <2>3. <<Above(table, p, w), Above(table, p, u)>> \in order
    BY <1>5, <2>1, <2>2 DEF StrictSubsetOrdering, Above
  <2>4. QED
    BY <1>3, <1>4, <2>3
<1>6. QED
  BY <1>5

\* What Prune removes has KeepVersions newer snapshots of its path among what
\* Prune keeps.
LEMMA PruneKeepsTheNewest ==
    ASSUME NEW table \in SUBSET Snapshot(VersionIds), IsFiniteSet(table),
           NEW p, NEW v \in table, v \notin Prune(table, p)
    PROVE  /\ KeepVersions > 0
           /\ v.path = p
           /\ Cardinality(Above(Prune(table, p), p, v)) >= KeepVersions
<1> DEFINE kept == Prune(table, p)
           gone == Above(table, p, v) \ kept
<1>1. KeepVersions \in Nat /\ KeepVersions # 0
  BY NumbersAssumption DEF Prune
<1>2. \A w \in table : w \in kept <=>
        \/ w.path # p
        \/ Cardinality(Above(table, p, w)) < KeepVersions
  BY <1>1 DEF Prune, Above
<1>3. kept \subseteq table
  BY PruneSubset
<1> HIDE DEF kept
<1>4. \A w : /\ IsFiniteSet(Above(table, p, w))
             /\ Cardinality(Above(table, p, w)) \in Nat
             /\ IsFiniteSet(Above(kept, p, w))
             /\ Cardinality(Above(kept, p, w)) \in Nat
  <2>1. \A w : /\ Above(table, p, w) \in SUBSET table
               /\ Above(kept, p, w) \in SUBSET table
    BY <1>3 DEF Above
  <2>2. QED
    BY <2>1, FS_Subset, FS_CardinalityType
<1>5. v.path = p /\ Cardinality(Above(table, p, v)) >= KeepVersions
  BY <1>1, <1>2, <1>4 DEF kept
<1>6. CASE gone = {}
  <2>1. Above(table, p, v) = Above(kept, p, v)
    BY <1>3, <1>6 DEF Above
  <2>2. QED
    BY <1>1, <1>5, <2>1 DEF kept
<1>7. CASE gone # {}
  <2>1. PICK u \in gone : \A w \in gone : w \notin Above(table, p, u)
    BY <1>7, OneIsNewest DEF Above
  <2>2. Above(table, p, u) \subseteq Above(kept, p, v)
    BY <2>1, NewerIsAnOrder DEF Above
  <2>3. Cardinality(Above(table, p, u)) <= Cardinality(Above(kept, p, v))
    BY <1>4, <2>2, FS_Subset
  <2>4. Cardinality(Above(table, p, u)) >= KeepVersions
    <3>1. u \in table /\ u.path = p /\ u \notin kept
      BY <2>1 DEF Above
    <3>2. ~ (Cardinality(Above(table, p, u)) < KeepVersions)
      BY <1>2, <3>1
    <3>3. QED
      BY <1>1, <1>4, <3>2
  <2>5. QED
    BY <1>1, <1>4, <1>5, <2>3, <2>4 DEF kept
<1>8. QED
  BY <1>6, <1>7

\* The snapshots are finitely many, which a count of those above one needs.
FiniteVersions == IsFiniteSet(versions)

\* Moving snapshots makes no more of them.
LEMMA MovedFinite ==
    ASSUME NEW table, IsFiniteSet(table), NEW p, NEW q
    PROVE  IsFiniteSet(Moved(table, p, q))
<1> DEFINE move == [v \in table |->
                      [v EXCEPT !.path = IF v.path = p THEN q ELSE v.path]]
<1>1. move \in Surjection(table, Moved(table, p, q))
  BY DEF Surjection, Moved
<1>2. QED
  BY <1>1, FS_Surjection

\* Every step keeps the history finite.
LEMMA FiniteVersionsStep ==
    ASSUME FiniteVersions, [Next]_vars
    PROVE  FiniteVersions'
<1> USE DEF FiniteVersions
<1>1. ASSUME NEW p, NEW vid
      PROVE  IsFiniteSet(versions \cup {SnapshotOf(p, vid)})
  BY FS_AddElement
<1>2. ASSUME NEW p \in Paths, NEW c, NEW m, SavePage(p, c, m)
      PROVE  FiniteVersions'
  <2>1. CASE InsertPage(p, c, m)
    BY <2>1 DEF InsertPage
  <2>2. CASE UpdatePage(p, c, m)
    <3>1. PICK vid \in VersionIds :
            versions' = Prune(versions \cup {SnapshotOf(p, vid)}, p)
      BY <2>2 DEF UpdatePage
    <3>2. QED
      BY <1>1, <3>1, PruneSubset, FS_Subset
  <2>3. QED
    BY <1>2, <2>1, <2>2 DEF SavePage
<1>3. ASSUME NEW p \in Paths, DeletePage(p)
      PROVE  FiniteVersions'
  BY <1>1, <1>3 DEF DeletePage
<1>4. ASSUME NEW p \in Paths, NEW q \in Paths, RenamePage(p, q)
      PROVE  FiniteVersions'
  BY <1>1, <1>4, MovedFinite DEF RenamePage
<1>5. ASSUME NEW p \in Paths, PageOp(p)
      PROVE  FiniteVersions'
  BY <1>2, <1>3, <1>4, <1>5 DEF PageOp
<1>6. ASSUME UNCHANGED versions
      PROVE  FiniteVersions'
  BY <1>6
<1>7. [Next]_vars => (\E p \in Paths : PageOp(p)) \/ UNCHANGED versions
  BY DEF Next, DraftOp, SaveDraft, DiscardDraft, ScriptOp, ScriptKVSet,
         ScriptKVDelete, Bump, Tick, vars, pageVars
<1>8. QED
  BY <1>5, <1>6, <1>7

KeepsOthers(v) ==
    (\A w \in versions' : w.id # v.id) =>
        /\ KeepVersions > 0
        /\ Cardinality({w \in versions' : w.path = v.path /\ Newer(w, v)})
             >= KeepVersions

\* Only a save that overwrites removes snapshots, and it prunes; a rename
\* gives them another path.
LEMMA StepPrunesOnlyOld ==
    ASSUME TypeOK, FiniteVersions, [Next]_vars, NEW v \in versions
    PROVE  KeepsOthers(v)
<1>1. ASSUME v \in versions'
      PROVE  KeepsOthers(v)
  BY <1>1 DEF KeepsOthers
<1>2. ASSUME NEW p \in Paths, NEW c \in Contents, NEW m \in Mimes,
             SavePage(p, c, m)
      PROVE  KeepsOthers(v)
  <2>1. CASE InsertPage(p, c, m)
    BY <1>1, <2>1 DEF InsertPage
  <2>2. CASE UpdatePage(p, c, m)
    <3>1. PICK vid \in VersionIds :
            versions' = Prune(versions \cup {SnapshotOf(p, vid)}, p)
      BY <2>2 DEF UpdatePage
    <3> DEFINE table == versions \cup {SnapshotOf(p, vid)}
    <3>2. table \in SUBSET Snapshot(VersionIds) /\ IsFiniteSet(table)
      BY <2>2, SnapshotOfType, FS_AddElement
         DEF TypeOK, UpdatePage, FiniteVersions
    <3>3. v \in table
      OBVIOUS
    <3> HIDE DEF table
    <3>4. CASE v \in Prune(table, p)
      BY <1>1, <3>1, <3>4 DEF table
    <3>5. CASE v \notin Prune(table, p)
      <4>1. /\ KeepVersions > 0
            /\ v.path = p
            /\ Cardinality(Above(Prune(table, p), p, v)) >= KeepVersions
        BY <3>2, <3>3, <3>5, PruneKeepsTheNewest
      <4>2. versions' = Prune(table, p)
        BY <3>1 DEF table
      <4>3. QED
        BY <4>1, <4>2 DEF KeepsOthers, Above
    <3>6. QED
      BY <3>4, <3>5
  <2>3. QED
    BY <1>2, <2>1, <2>2 DEF SavePage
<1>3. ASSUME NEW p \in Paths, DeletePage(p)
      PROVE  KeepsOthers(v)
  BY <1>1, <1>3 DEF DeletePage
<1>4. ASSUME NEW p \in Paths, NEW q \in Paths, RenamePage(p, q)
      PROVE  KeepsOthers(v)
  <2>1. PICK vid \in VersionIds :
          versions' = Moved(versions \cup {SnapshotOf(p, vid)}, p, q)
    BY <1>4 DEF RenamePage
  <2> DEFINE w == [v EXCEPT !.path = IF v.path = p THEN q ELSE v.path]
  <2>2. w \in versions'
    BY <2>1 DEF Moved
  <2>3. w.id = v.id
    BY DEF TypeOK, Snapshot
  <2>4. QED
    BY <2>2, <2>3 DEF KeepsOthers
<1>5. [Next]_vars => (\E p \in Paths : PageOp(p)) \/ UNCHANGED versions
  BY DEF Next, DraftOp, SaveDraft, DiscardDraft, ScriptOp, ScriptKVSet,
         ScriptKVDelete, Bump, Tick, vars, pageVars
<1>6. QED
  BY <1>1, <1>2, <1>3, <1>4, <1>5 DEF PageOp

\* A snapshot is deleted only when KeepVersions newer ones of its path are
\* kept, in whatever order the stamps come, for every KeepVersions.
THEOREM PruningTakesTheOldest == Spec => OnlyOldVersionsArePruned
<1>1. Init => FiniteVersions
  BY FS_EmptySet DEF Init, FiniteVersions
<1>2. FiniteVersions /\ [Next]_vars => FiniteVersions'
  BY FiniteVersionsStep
<1>3. TypeOK /\ FiniteVersions /\ [Next]_vars =>
        [\A v \in versions : (\A w \in versions' : w.id # v.id) =>
            /\ KeepVersions > 0
            /\ Cardinality({w \in versions' : w.path = v.path /\ Newer(w, v)})
                 >= KeepVersions]_vars
  BY StepPrunesOnlyOld DEF KeepsOthers
<1>4. QED
  BY <1>1, <1>2, <1>3, TypeCorrect, PTL DEF Spec, OnlyOldVersionsArePruned

-----------------------------------------------------------------------------
(***************************************************************************)
(* View counters.  A page and its name without .gmi share a key: deleting  *)
(* one clears the views of the other, and renaming one into the other adds *)
(* the views of the key to themselves and then deletes them                *)
(* (store.go:786).  Otherwise views follow the page.                       *)
(***************************************************************************)

KeepsViews(p, q) ==
    SameRow(p, q) /\ CountsAlone(p) /\ (HitKey[p] = HitKey[q] => p = q) =>
        hits'[HitKey[q]] >= hits[HitKey[p]]

\* Every step keeps the views of every page it leaves, wherever it leaves it.
LEMMA StepKeepsViews ==
    ASSUME TypeOK, TypeOK', IdsUnique, [Next]_vars,
           NEW r \in Paths, NEW s \in Paths
    PROVE  KeepsViews(r, s)
<1>1. /\ \A k \in HitKeys : hits[k] \in Nat /\ hits'[k] \in Nat
      /\ \A p \in Paths : HitKey[p] \in HitKeys
  BY PathsAssumption DEF TypeOK
<1>2. ASSUME r = s, hits'[HitKey[r]] >= hits[HitKey[r]]
      PROVE  KeepsViews(r, s)
  BY <1>2 DEF KeepsViews
<1>3. ASSUME pages'[s] = pages[s], r # s
      PROVE  KeepsViews(r, s)
  BY <1>3 DEF KeepsViews, SameRow, IdsUnique, Exists
<1>4. ASSUME UNCHANGED hits, pages'[s] = pages[s]
      PROVE  KeepsViews(r, s)
  BY <1>1, <1>2, <1>3, <1>4
<1>5. ASSUME NEW p \in Paths, NEW c \in Contents, NEW m \in Mimes,
             SavePage(p, c, m)
      PROVE  KeepsViews(r, s)
  <2>1. UNCHANGED hits
    BY <1>5 DEF SavePage
  <2>2. CASE InsertPage(p, c, m)
    <3>1. PICK i \in PageIds :
            /\ IsNextId(i, PageIds, Rows)
            /\ pages' = [pages EXCEPT ![p] =
                          [id |-> i, title |-> DerivedTitle(p, c, m),
                           content |-> c, mime |-> m]]
      BY <2>2 DEF InsertPage
    <3>2. CASE s = p
      <4>1. pages'[s].id = i
        BY <3>1, <3>2 DEF TypeOK
      <4>2. Exists(r) => pages[r].id < i /\ pages[r].id \in Nat
        BY <3>1, NumbersAssumption DEF IsNextId, Rows, TypeOK, Exists, PageRow
      <4>3. QED
        BY <4>1, <4>2 DEF KeepsViews, SameRow
    <3>3. CASE s # p
      BY <1>4, <2>1, <3>1, <3>3 DEF TypeOK
    <3>4. QED
      BY <3>2, <3>3
  <2>3. CASE UpdatePage(p, c, m)
    <3>1. pages' = [pages EXCEPT ![p] =
            [pages[p] EXCEPT !.title = DerivedTitle(p, c, m),
                             !.content = c, !.mime = m]]
      BY <2>3 DEF UpdatePage
    <3>2. pages'[s] # NoPage /\ Exists(s) => pages'[s].id = pages[s].id
      BY <3>1 DEF TypeOK, Exists, PageRow
    <3>3. Exists(s) \/ pages'[s] = pages[s]
      BY <2>3, <3>1 DEF UpdatePage, TypeOK
    <3>4. CASE r = s
      BY <1>1, <1>2, <2>1, <3>4
    <3>5. CASE r # s
      BY <1>3, <3>2, <3>3, <3>5 DEF KeepsViews, SameRow, IdsUnique
    <3>6. QED
      BY <3>4, <3>5
  <2>4. QED
    BY <1>5, <2>2, <2>3 DEF SavePage
<1>6. ASSUME NEW p \in Paths, DeletePage(p)
      PROVE  KeepsViews(r, s)
  <2>1. CASE s = p
    BY <1>6, <2>1 DEF DeletePage, KeepsViews, SameRow, TypeOK
  <2>2. CASE s # p
    <3>1. Exists(p) /\ hits' = [hits EXCEPT ![HitKey[p]] = 0]
      BY <1>6 DEF DeletePage
    <3>2. pages'[s] = pages[s]
      BY <1>6, <2>2 DEF DeletePage, TypeOK
    <3>3. CASE HitKey[s] = HitKey[p]
      <4>1. ~ CountsAlone(s)
        BY <2>2, <3>1, <3>3 DEF CountsAlone
      <4>2. QED
        BY <1>3, <3>2, <4>1 DEF KeepsViews
    <3>4. CASE HitKey[s] # HitKey[p]
      <4>1. hits'[HitKey[s]] = hits[HitKey[s]]
        BY <1>1, <3>1, <3>4 DEF TypeOK
      <4>2. QED
        BY <1>1, <1>2, <1>3, <3>2, <4>1
    <3>5. QED
      BY <3>3, <3>4
  <2>3. QED
    BY <2>1, <2>2
<1>7. ASSUME NEW p \in Paths, NEW q \in Paths, RenamePage(p, q)
      PROVE  KeepsViews(r, s)
  <2> DEFINE row == [pages[p] EXCEPT
                 !.title = DerivedTitle(q, pages[p].content, pages[p].mime)]
  <2>1. /\ p # q /\ Exists(p) /\ ~ Exists(q)
        /\ pages' = [pages EXCEPT ![p] = NoPage, ![q] = row]
        /\ hits' = MoveHits(HitKey[p], HitKey[q])
    BY <1>7 DEF RenamePage
  <2>2. row.id = pages[p].id
    BY <2>1 DEF TypeOK, Exists, PageRow
  <2> HIDE DEF row
  <2>3. HitKey[p] # HitKey[q] =>
        \A k \in HitKeys : hits'[k] = IF k = HitKey[p] THEN 0
                                      ELSE IF k = HitKey[q]
                                      THEN hits[k] + hits[HitKey[p]]
                                      ELSE hits[k]
    BY <1>1, <2>1 DEF MoveHits, TypeOK
  <2>4. \A k \in HitKeys : k # HitKey[p] => hits'[k] >= hits[k]
    BY <1>1, <2>1, SMTT(30) DEF MoveHits, TypeOK
  <2>5. CASE s = p
    BY <2>1, <2>5 DEF KeepsViews, SameRow, TypeOK
  <2>6. CASE s = q
    <3>1. pages'[s] = row
      BY <2>1, <2>6 DEF TypeOK
    <3>2. SameRow(r, s) => r = p
      BY <2>1, <2>2, <3>1 DEF SameRow, IdsUnique
    <3>3. HitKey[p] # HitKey[q] => hits'[HitKey[q]] >= hits[HitKey[p]]
      BY <1>1, <2>3
    <3>4. QED
      BY <2>1, <2>6, <3>2, <3>3 DEF KeepsViews
  <2>7. CASE s # p /\ s # q
    <3>1. pages'[s] = pages[s]
      BY <2>1, <2>7 DEF TypeOK
    <3>2. CASE HitKey[s] = HitKey[p]
      <4>1. ~ CountsAlone(s)
        BY <2>1, <2>7, <3>2 DEF CountsAlone
      <4>2. QED
        BY <1>3, <3>1, <4>1 DEF KeepsViews
    <3>3. CASE HitKey[s] # HitKey[p]
      <4>1. hits'[HitKey[s]] >= hits[HitKey[s]]
        BY <1>1, <2>4, <3>3
      <4>2. QED
        BY <1>2, <1>3, <3>1, <4>1
    <3>4. QED
      BY <3>2, <3>3
  <2>8. QED
    BY <2>5, <2>6, <2>7
<1>8. ASSUME NEW k \in HitKeys, Bump(k)
      PROVE  KeepsViews(r, s)
  <2>1. hits'[HitKey[s]] >= hits[HitKey[s]] /\ UNCHANGED pages
    BY <1>1, <1>8 DEF Bump, TypeOK, pageVars
  <2>2. QED
    BY <1>2, <1>3, <2>1
<1>9. [Next]_vars => \/ \E p \in Paths : PageOp(p)
                     \/ \E k \in HitKeys : Bump(k)
                     \/ UNCHANGED <<hits, pages>>
  BY DEF Next, DraftOp, SaveDraft, DiscardDraft, ScriptOp, ScriptKVSet,
         ScriptKVDelete, Tick, vars, pageVars
<1>10. QED
  BY <1>4, <1>5, <1>6, <1>7, <1>8, <1>9 DEF PageOp

\* A page that counts alone under its key, and is still there after a step,
\* under its own name or that of another key, has lost no views in it.
THEOREM ViewsFollowThePage == Spec => SurvivingPageKeepsItsViews
<1>1. TypeOK /\ TypeOK' /\ IndexInv /\ [Next]_vars =>
        [\A p, q \in Paths :
            SameRow(p, q) /\ CountsAlone(p) /\ (HitKey[p] = HitKey[q] => p = q) =>
                hits'[HitKey[q]] >= hits[HitKey[p]]]_vars
  BY StepKeepsViews DEF KeepsViews, IndexInv
<1>2. QED
  BY <1>1, TypeCorrect, IndexInvariant, PTL
     DEF Spec, SurvivingPageKeepsItsViews

-----------------------------------------------------------------------------
(***************************************************************************)
(* Drafts.                                                                 *)
(***************************************************************************)

\* Every step keeps draft snapshots with their drafts.
LEMMA DraftHistoryStep ==
    ASSUME TypeOK, DraftHistoryHasDraft, [Next]_vars
    PROVE  DraftHistoryHasDraft'
<1> USE DEF DraftHistoryHasDraft
<1>1. ASSUME UNCHANGED <<drafts, draftVersions>>
      PROVE  DraftHistoryHasDraft'
  BY <1>1 DEF HasDraft
<1>2. ASSUME NEW p \in Paths,
             drafts' = [drafts EXCEPT ![p] = NoDraft],
             draftVersions' = Without(draftVersions, p)
      PROVE  DraftHistoryHasDraft'
  BY <1>2 DEF HasDraft, Without, TypeOK, Snapshot
<1>3. ASSUME NEW p \in Paths, NEW c \in Contents, NEW m \in Mimes,
             SavePage(p, c, m)
      PROVE  DraftHistoryHasDraft'
  BY <1>1, <1>3 DEF SavePage
<1>4. ASSUME NEW p \in Paths, DeletePage(p)
      PROVE  DraftHistoryHasDraft'
  BY <1>2, <1>4 DEF DeletePage
<1>5. ASSUME NEW p \in Paths, NEW q \in Paths, RenamePage(p, q)
      PROVE  DraftHistoryHasDraft'
  <2> SUFFICES ASSUME NEW v \in draftVersions'
               PROVE  HasDraft(v.path)'
    OBVIOUS
  <2>1. PICK w \in draftVersions :
          v = [w EXCEPT !.path = IF w.path = p THEN q ELSE w.path]
    BY <1>5 DEF RenamePage, MoveDraft, Moved
  <2>2. w.path \in Paths /\ v.path = IF w.path = p THEN q ELSE w.path
    BY <2>1 DEF TypeOK, Snapshot
  <2>3. HasDraft(w.path) /\ p # q /\ ~ (HasDraft(p) /\ HasDraft(q))
    BY <1>5 DEF RenamePage, MoveDraft
  <2>4. CASE w.path = p
    BY <1>5, <2>2, <2>3, <2>4 DEF RenamePage, MoveDraft, HasDraft, TypeOK
  <2>5. CASE w.path # p
    BY <1>5, <2>2, <2>3, <2>5 DEF RenamePage, MoveDraft, HasDraft, TypeOK
  <2>6. QED
    BY <2>4, <2>5
<1>6. ASSUME NEW p \in Paths, NEW c \in Contents, NEW m \in Mimes,
             SaveDraft(p, c, m)
      PROVE  DraftHistoryHasDraft'
  <2>1. \A v \in draftVersions' : v \in draftVersions \/ v.path = p
    <3>1. CASE ~ HasDraft(p)
      BY <1>6, <3>1, PruneSubset DEF SaveDraft
    <3>2. CASE HasDraft(p)
      <4>1. PICK vid \in DraftVersionIds :
              draftVersions' =
                Prune(draftVersions \cup
                        {[id |-> vid, path |-> p,
                          content |-> drafts[p].content,
                          mime |-> drafts[p].mime, at |-> now]}, p)
        BY <1>6, <3>2 DEF SaveDraft
      <4>2. QED
        BY <4>1, PruneSubset
    <3>3. QED
      BY <3>1, <3>2
  <2>2. \A r \in Paths : HasDraft(r) \/ r = p => HasDraft(r)'
    <3>1. [content |-> c, mime |-> m] \in Document
      BY DEF Document
    <3>2. QED
      BY <1>6, <3>1, SentinelsAssumption DEF SaveDraft, HasDraft, TypeOK
  <2>3. \A v \in draftVersions : v.path \in Paths
    BY DEF TypeOK, Snapshot
  <2>4. QED
    BY <2>1, <2>2, <2>3
<1>7. ASSUME NEW p \in Paths, ScriptOp(p)
      PROVE  DraftHistoryHasDraft'
  BY <1>1, <1>7 DEF ScriptOp, ScriptKVSet, ScriptKVDelete, draftVars
<1>8. ASSUME NEW k \in HitKeys, Bump(k)
      PROVE  DraftHistoryHasDraft'
  BY <1>1, <1>8 DEF Bump, draftVars
<1>9. CASE Tick
  BY <1>1, <1>9 DEF Tick, draftVars
<1>10. CASE UNCHANGED vars
  BY <1>1, <1>10 DEF vars
<1>11. ASSUME NEW p \in DraftPaths, DraftOp(p)
       PROVE  DraftHistoryHasDraft'
  BY <1>2, <1>6, <1>11, PathsAssumption
     DEF DraftOp, DiscardDraft
<1>12. ASSUME NEW p \in Paths, PageOp(p)
       PROVE  DraftHistoryHasDraft'
  BY <1>3, <1>4, <1>5, <1>12 DEF PageOp
<1>13. QED
  BY <1>7, <1>8, <1>9, <1>10, <1>11, <1>12 DEF Next

\* No snapshot of a draft outlives the draft or stays behind when it moves.
THEOREM DraftHistoryFollowsDraft == Spec => []DraftHistoryHasDraft
<1>1. Init => DraftHistoryHasDraft
  BY DEF Init, DraftHistoryHasDraft
<1>2. TypeOK /\ DraftHistoryHasDraft /\ [Next]_vars => DraftHistoryHasDraft'
  BY DraftHistoryStep
<1>3. QED
  BY <1>1, <1>2, TypeCorrect, PTL DEF Spec

-----------------------------------------------------------------------------
(***************************************************************************)
(* The store implements the published site.  The invariant of the index is *)
(* what turns the search rows into a function of the published pages, so   *)
(* every step need only be matched on the pages.                           *)
(***************************************************************************)

DocOf(row) == [content |-> row.content, mime |-> row.mime]

\* What a reader sees of a path is there exactly when its row is.
LEMMA LiveAt ==
    ASSUME TypeOK, NEW p \in Paths
    PROVE  /\ LivePages[p] = IF Exists(p) THEN DocOf(pages[p]) ELSE NoPage
           /\ LivePages[p] # NoPage <=> Exists(p)
           /\ Exists(p) => /\ DocOf(pages[p]) \in Site!Doc
                           /\ LivePages[p].content = pages[p].content
                           /\ LivePages[p].mime = pages[p].mime
<1>1. Exists(p) => pages[p] \in PageRow
  BY DEF Exists, TypeOK
<1>2. Exists(p) => DocOf(pages[p]) \in Document
  BY <1>1 DEF DocOf, PageRow, Document
<1>3. Exists(p) => pages[p].mime \in {"text", "binary"}
  BY <1>1, PathsAssumption DEF PageRow
<1>4. Exists(p) => DocOf(pages[p]) \in Site!Doc
  BY <1>1, <1>3 DEF DocOf, PageRow, Site!Doc
<1>5. QED
  BY <1>1, <1>2, <1>4, SentinelsAssumption DEF LivePages, DocOf, Exists

\* When the index is consistent, search finds what the site promises.
LEMMA FindableIsExact ==
    TypeOK /\ IndexInv => Findable = Site!FindableIn(LivePages)
<1> SUFFICES ASSUME TypeOK, IndexInv
             PROVE  Findable = Site!FindableIn(LivePages)
  OBVIOUS
<1> DEFINE found(p) == /\ p \in Paths \ HiddenPaths
                       /\ LivePages[p] # NoPage
                       /\ LivePages[p].mime # "binary"
<1>1. ASSUME NEW p \in Paths
      PROVE  found(p) <=> Exists(p) /\ Searchable(p)
  <2>1. Exists(p) => pages[p].mime \in {"text", "binary"}
    BY PathsAssumption DEF TypeOK, Exists, PageRow
  <2>2. QED
    BY <2>1, LiveAt DEF Searchable
<1>2. ASSUME NEW p \in Paths, Exists(p)
      PROVE  /\ LivePages[p].content = pages[p].content
             /\ pages[p].id \in PageIds
             /\ SearchRowOf(p) # NoRow
  <2>1. pages[p] \in PageRow
    BY <1>2 DEF TypeOK, Exists
  <2>2. SearchRowOf(p) \in SearchRow
    BY <2>1 DEF PageRow, SearchRowOf, SearchRow
  <2>3. QED
    BY <1>2, <2>1, <2>2, LiveAt, SentinelsAssumption DEF PageRow
<1>3. ASSUME NEW i \in PageIds, fts[i] # NoRow
      PROVE  \E p \in Paths : /\ found(p)
                              /\ fts[i].path = p
                              /\ fts[i].body = LivePages[p].content
  <2>1. PICK p \in Paths : Exists(p) /\ Searchable(p) /\ pages[p].id = i
    BY <1>3 DEF IndexInv, IndexConsistent
  <2>2. fts[i] = SearchRowOf(p)
    BY <2>1 DEF IndexInv, IndexConsistent
  <2>3. QED
    BY <1>1, <1>2, <2>1, <2>2 DEF SearchRowOf
<1>4. ASSUME NEW p \in Paths, found(p)
      PROVE  \E i \in PageIds : /\ fts[i] # NoRow
                                /\ fts[i].path = p
                                /\ fts[i].body = LivePages[p].content
  <2>1. Exists(p) /\ Searchable(p)
    BY <1>1, <1>4
  <2>2. fts[pages[p].id] = SearchRowOf(p)
    BY <2>1 DEF IndexInv, IndexConsistent
  <2>3. QED
    BY <1>2, <2>1, <2>2 DEF SearchRowOf
<1>5. Findable = {<<p, LivePages[p].content>> : p \in {q \in Paths : found(q)}}
  <2> HIDE DEF found
  <2>1. ASSUME NEW x \in Findable
        PROVE  x \in {<<p, LivePages[p].content>> :
                        p \in {q \in Paths : found(q)}}
    BY <1>3, <2>1 DEF Findable
  <2>2. ASSUME NEW p \in Paths, found(p)
        PROVE  <<p, LivePages[p].content>> \in Findable
    BY <1>4, <2>2 DEF Findable
  <2>3. QED
    BY <2>1, <2>2
<1>6. {q \in Paths : found(q)} =
        {q \in Paths \ HiddenPaths :
            LivePages[q] # NoPage /\ LivePages[q].mime # "binary"}
  OBVIOUS
<1>7. QED
  BY <1>5, <1>6 DEF Site!FindableIn

\* What a step does to the live page of r follows from what it does to its row.
LEMMA LiveAfter ==
    ASSUME TypeOK, TypeOK', NEW r \in Paths
    PROVE  /\ pages'[r] = NoPage => LivePages'[r] = NoPage
           /\ pages'[r] = pages[r] => LivePages'[r] = LivePages[r]
           /\ pages'[r] # NoPage => LivePages'[r] = DocOf(pages'[r])
<1>1. LivePages[r] = IF pages[r] = NoPage THEN NoPage ELSE DocOf(pages[r])
  BY DEF LivePages, Exists, DocOf
<1>2. LivePages'[r] = IF pages'[r] = NoPage THEN NoPage ELSE DocOf(pages'[r])
  BY DEF LivePages, Exists, DocOf
<1> HIDE DEF LivePages
<1>3. QED
  BY <1>1, <1>2 DEF DocOf

\* A page that was saved is there with what was saved.
LEMMA SavedPage ==
    ASSUME TypeOK, NEW p \in Paths, NEW c \in Contents, NEW m \in Mimes,
           SavePage(p, c, m)
    PROVE  pages'[p] # NoPage /\ pages'[p].content = c /\ pages'[p].mime = m
<1>1. CASE InsertPage(p, c, m)
  <2>1. PICK i \in PageIds :
          pages' = [pages EXCEPT ![p] = [id |-> i, title |-> DerivedTitle(p, c, m),
                                         content |-> c, mime |-> m]]
    BY <1>1 DEF InsertPage
  <2>2. [id |-> i, title |-> DerivedTitle(p, c, m),
         content |-> c, mime |-> m] \in PageRow
    BY DerivedTitleType DEF PageRow
  <2>3. QED
    BY <2>1, <2>2, SentinelsAssumption DEF TypeOK
<1>2. CASE UpdatePage(p, c, m)
  <2> DEFINE row == [pages[p] EXCEPT !.title = DerivedTitle(p, c, m),
                                     !.content = c, !.mime = m]
  <2>1. pages[p] \in PageRow /\ pages' = [pages EXCEPT ![p] = row]
    BY <1>2 DEF UpdatePage, Exists, TypeOK
  <2>2. row \in PageRow /\ row.content = c /\ row.mime = m
    BY <2>1, DerivedTitleType DEF PageRow
  <2> HIDE DEF row
  <2>3. QED
    BY <2>1, <2>2, SentinelsAssumption DEF TypeOK
<1>3. QED
  BY <1>1, <1>2 DEF SavePage

\* Every operation on pages is a step of the site or changes no page.
LEMMA PageOpPublishes ==
    ASSUME TypeOK, TypeOK', IndexInv', NEW p \in Paths, PageOp(p)
    PROVE  Site!SiteNext
<1>1. Findable' = Site!FindableIn(LivePages')
  <2>1. (TypeOK /\ IndexInv => Findable = Site!FindableIn(LivePages))'
    BY FindableIsExact, PTL
  <2>2. QED
    BY <2>1
<1>2. LivePages = [r \in Paths |-> LivePages[r]]
      /\ LivePages' = [r \in Paths |-> LivePages'[r]]
  BY DEF LivePages
<1>3. ASSUME NEW c \in Contents, NEW m \in Mimes, SavePage(p, c, m)
      PROVE  \E d \in Site!Doc : Site!Publish(p, d)
  <2>1. /\ pages'[p].content = c
        /\ pages'[p].mime = m
        /\ pages'[p] # NoPage
    BY <1>3, SavedPage
  <2>2. \A r \in Paths \ {p} : pages'[r] = pages[r]
    BY <1>3 DEF SavePage, InsertPage, UpdatePage, TypeOK
  <2> DEFINE d == [content |-> c, mime |-> m]
  <2>3. d \in Site!Doc
    BY PathsAssumption DEF Site!Doc
  <2>4. \A r \in Paths : LivePages'[r] = IF r = p THEN d ELSE LivePages[r]
    BY <2>1, <2>2, LiveAfter DEF DocOf
  <2> HIDE DEF d
  <2>5. LivePages' = [LivePages EXCEPT ![p] = d]
    BY <1>2, <2>4
  <2>6. QED
    BY <2>3, <2>5 DEF Site!Publish
<1>4. ASSUME DeletePage(p)
      PROVE  Site!Remove(p)
  <2>1. \A r \in Paths : pages'[r] = IF r = p THEN NoPage ELSE pages[r]
    BY <1>4 DEF DeletePage, TypeOK
  <2>2. \A r \in Paths : LivePages'[r] = IF r = p THEN NoPage ELSE LivePages[r]
    BY <2>1, LiveAfter
  <2>3. QED
    BY <1>2, <2>2 DEF Site!Remove
<1>5. ASSUME NEW q \in Paths, RenamePage(p, q)
      PROVE  Site!Move(p, q)
  <2> DEFINE row == [pages[p] EXCEPT
                 !.title = DerivedTitle(q, pages[p].content, pages[p].mime)]
  <2>1. /\ pages[p] \in PageRow
        /\ pages' = [pages EXCEPT ![p] = NoPage, ![q] = row]
        /\ p # q /\ Exists(p) /\ ~ Exists(q)
    BY <1>5 DEF RenamePage, Exists, TypeOK
  <2>2. row \in PageRow /\ DocOf(row) = DocOf(pages[p])
    BY <2>1, DerivedTitleType DEF PageRow, DocOf
  <2> HIDE DEF row
  <2>3. \A r \in Paths : pages'[r] = IF r = q THEN row
                                     ELSE IF r = p THEN NoPage ELSE pages[r]
    BY <2>1 DEF TypeOK
  <2>4. LivePages'[q] = LivePages[p]
    <3>1. pages'[q] = row /\ row # NoPage
      BY <2>2, <2>3, SentinelsAssumption
    <3>2. LivePages'[q] = DocOf(row)
      BY <3>1, LiveAfter
    <3>3. LivePages[p] = DocOf(pages[p])
      BY <2>1, LiveAt
    <3>4. QED
      BY <2>2, <3>2, <3>3
  <2>5. \A r \in Paths : LivePages'[r] = IF r = q THEN LivePages[p]
                                         ELSE IF r = p THEN NoPage
                                         ELSE LivePages[r]
    BY <2>1, <2>3, <2>4, LiveAfter
  <2>6. LivePages' = [LivePages EXCEPT ![q] = LivePages[p], ![p] = NoPage]
    BY <1>2, <2>1, <2>5
  <2>7. QED
    BY <2>1, <2>6, LiveAt DEF Site!Move
<1>6. \/ \E d \in Site!Doc : Site!Publish(p, d)
      \/ Site!Remove(p)
      \/ \E q \in Paths : Site!Move(p, q)
  BY <1>3, <1>4, <1>5 DEF PageOp
<1>7. QED
  BY <1>1, <1>6 DEF Site!SiteNext

\* Every step of the store is a step of the site or a stutter.
LEMMA StepImplements ==
    ASSUME TypeOK, TypeOK', IndexInv', [Next]_vars
    PROVE  [Site!SiteNext]_Site!siteVars
<1>1. ASSUME NEW p \in Paths, PageOp(p)
      PROVE  Site!SiteNext
  BY <1>1, PageOpPublishes
<1>2. ASSUME UNCHANGED <<pages, fts>>
      PROVE  UNCHANGED Site!siteVars
  BY <1>2 DEF Site!siteVars, LivePages, Findable, Exists
<1>3. ASSUME NEW p \in DraftPaths, DraftOp(p)
      PROVE  UNCHANGED <<pages, fts>>
  BY <1>3 DEF DraftOp, SaveDraft, DiscardDraft, pageVars
<1>4. ASSUME NEW p \in Paths, ScriptOp(p)
      PROVE  UNCHANGED <<pages, fts>>
  BY <1>4 DEF ScriptOp, ScriptKVSet, ScriptKVDelete, pageVars
<1>5. ASSUME NEW k \in HitKeys, Bump(k)
      PROVE  UNCHANGED <<pages, fts>>
  BY <1>5 DEF Bump, pageVars
<1>6. Tick => UNCHANGED <<pages, fts>>
  BY DEF Tick, pageVars
<1>7. UNCHANGED vars => UNCHANGED <<pages, fts>>
  BY DEF vars
<1>8. QED
  BY <1>1, <1>2, <1>3, <1>4, <1>5, <1>6, <1>7 DEF Next

\* The empty store is the empty site.
LEMMA InitImplements == Init => Site!SiteInit
  BY DEF Init, Site!SiteInit, LivePages, Findable, Exists

\* To a reader the store is the published site: pages appear, change, move and
\* go one at a time and search follows in the same step.
THEOREM StoreImplementsSite == Spec => ImplementsPublishedSite
<1>1. TypeOK /\ TypeOK' /\ IndexInv' /\ [Next]_vars
        => [Site!SiteNext]_Site!siteVars
  BY StepImplements
<1>2. QED
  BY <1>1, InitImplements, TypeCorrect, IndexInvariant, PTL
     DEF Spec, ImplementsPublishedSite, Site!SiteSpec

-----------------------------------------------------------------------------
(***************************************************************************)
(* For the modules above the store: which calls are steps of it, and which *)
(* of them publish what.                                                   *)
(***************************************************************************)

\* Saving, deleting and renaming pages, and saving and discarding drafts, are
\* steps of the store.
LEMMA StoreCalls ==
    ASSUME DraftPaths = Paths, NEW p \in Paths
    PROVE  /\ \A c \in Contents, m \in Mimes :
                /\ SavePage(p, c, m) => Next
                /\ SaveDraft(p, c, m) => Next
           /\ \A q \in Paths : RenamePage(p, q) => Next
           /\ DiscardDraft(p) => Next
           /\ DeletePage(p) => Next
  BY DEF Next, PageOp, DraftOp

\* Saving a page with other contents publishes none of some: the page's old
\* contents, which go to its history, were published already.
LEMMA SavePageKeepsUnpublished ==
    ASSUME TypeOK, NEW some, Unpublished(some),
           NEW p \in Paths, NEW c \in Contents, NEW m \in Mimes,
           c \notin some, SavePage(p, c, m)
    PROVE  Unpublished(some)'
<1>1. CASE InsertPage(p, c, m)
  BY <1>1 DEF InsertPage, TypeOK, Unpublished, Reindexed, Exists
<1>2. CASE UpdatePage(p, c, m)
  <2>1. Exists(p) /\ pages[p].content \notin some
    BY <1>2 DEF UpdatePage, Unpublished
  <2>2. \A v \in versions' : v.content \notin some
    BY <1>2, <2>1, PruneSubset DEF UpdatePage, Unpublished, SnapshotOf
  <2>. DEFINE row == [pages[p] EXCEPT !.title = DerivedTitle(p, c, m),
                                      !.content = c, !.mime = m]
  <2>3. row.content = c
    BY <2>1 DEF TypeOK, Exists, PageRow
  <2>4. pages' = [pages EXCEPT ![p] = row] /\ fts' = Reindexed(p, row)
    BY <1>2 DEF UpdatePage
  <2>. HIDE DEF row
  <2>5. QED
    BY <2>2, <2>3, <2>4 DEF TypeOK, Unpublished, Reindexed, Exists
<1>3. QED
  BY <1>1, <1>2 DEF SavePage

\* A rename moves a page, its history and its row of the index as they are.
LEMMA RenamePageKeepsUnpublished ==
    ASSUME TypeOK, NEW some, Unpublished(some), NEW p \in Paths, NEW q \in Paths,
           RenamePage(p, q)
    PROVE  Unpublished(some)'
<1>1. Exists(p) /\ pages[p].content \notin some
  BY DEF RenamePage, Unpublished
<1>2. ASSUME NEW v \in versions'
      PROVE  v.content \notin some
  <2>1. PICK vid \in VersionIds :
            versions' = Moved(versions \cup {SnapshotOf(p, vid)}, p, q)
    BY DEF RenamePage
  <2>2. PICK w \in versions \cup {SnapshotOf(p, vid)} :
            v = [w EXCEPT !.path = IF w.path = p THEN q ELSE w.path]
    BY <2>1 DEF Moved
  <2>3. w.content \notin some
    BY <1>1 DEF Unpublished, SnapshotOf
  <2>4. w \in Snapshot(VersionIds)
    BY <1>1, SnapshotOfType DEF TypeOK
  <2>5. QED
    BY <2>2, <2>3, <2>4 DEF Snapshot
<1>. DEFINE row == [pages[p] EXCEPT
                !.title = DerivedTitle(q, pages[p].content, pages[p].mime)]
<1>3. row.content = pages[p].content
  BY <1>1 DEF TypeOK, Exists, PageRow
<1>4. /\ pages' = [pages EXCEPT ![p] = NoPage, ![q] = row]
      /\ fts' = Reindexed(q, row)
  BY DEF RenamePage
<1>. HIDE DEF row
<1>5. QED
  BY <1>1, <1>2, <1>3, <1>4
     DEF TypeOK, Unpublished, Reindexed, Exists

\* A deleted page leaves only a snapshot of what was published.
LEMMA DeletePageKeepsUnpublished ==
    ASSUME TypeOK, NEW some, Unpublished(some), NEW p \in Paths, DeletePage(p)
    PROVE  Unpublished(some)'
<1>1. Exists(p) /\ pages[p].content \notin some
  BY DEF DeletePage, Unpublished
<1>2. QED
  BY <1>1 DEF DeletePage, TypeOK, Unpublished, SnapshotOf, Exists

\* What touches neither pages nor their index and history publishes nothing.
LEMMA OtherStepsKeepUnpublished ==
    ASSUME NEW some, Unpublished(some), UNCHANGED pageVars
    PROVE  Unpublished(some)'
  BY DEF Unpublished, pageVars, Exists
=============================================================================
