----------------------------- MODULE SiteProofs -----------------------------
(***************************************************************************)
(* Addresses lead to the pages they are given for, and clients write what  *)
(* they fetched, for any names of pages, any depth of folders, any number  *)
(* of titan clients and any contents; and the site that the addresses are  *)
(* about is one that PublishedSite allows.                                 *)
(*                                                                         *)
(* What a client fetched from an address is one of three pages, whatever   *)
(* happened since: the index of a folder, the page of the very name, or    *)
(* that with .gmi added.  Where its upload goes is settled when it begins, *)
(* and nothing that happens while its body is read undoes it.              *)
(***************************************************************************)
EXTENDS Site, SequenceTheorems, TLAPS

\* The pages an address can show.
CanShow(u, p) ==
    \/ IsFolder(u) /\ p = Index(u.dir)
    \/ ~ IsFolder(u) /\ (p = u \/ p = With(u, <<"gmi">>))

SiteHas ==
    /\ live \in [Paths -> Doc \cup {NoDoc}]
    /\ drafts \in [Paths -> Contents \cup {NoDoc}]
    /\ searchable = FindableIn(live)

FetchedByAddress ==
    /\ editing \in [Editors -> {NoFetch} \cup Urls \X Paths]
    /\ \A e \in Editors : editing[e] # NoFetch =>
          CanShow(editing[e][1], editing[e][2])

TargetsAreSettled ==
    /\ target \in [Editors -> {NoTarget} \cup
                              [path : Paths, elsewhere : BOOLEAN]]
    /\ \A e \in Editors : target[e] # NoTarget =>
        /\ editing[e] # NoFetch
        /\ target[e].path = editing[e][2] \/ target[e].elsewhere

PathInv == SiteTypeOK /\ SiteHas /\ FetchedByAddress /\ TargetsAreSettled

-----------------------------------------------------------------------------
(***************************************************************************)
(* Names.                                                                  *)
(***************************************************************************)

LEMMA OfOne ==
    ASSUME NEW S, NEW x \in S
    PROVE  <<x>> \in Seq(S) /\ Len(<<x>>) = 1 /\ <<x>>[1] = x
OBVIOUS

LEMMA Extensions ==
    ASSUME NEW s \in Seq(Words), s # <<>>
    PROVE  /\ Seqs!Front(s) \in Seq(Words)
           /\ Seqs!Last(s) \in Words
           /\ Seqs!Front(s) \o <<Seqs!Last(s)>> = s
           /\ Len(Seqs!Front(s)) = Len(s) - 1
<1>1. Len(s) \in Nat \ {0}
  <2>1. \A t \in Seq(Words) : t # <<>> => Len(t) \in Nat \ {0}
    BY EmptySeq
  <2>2. QED
    BY <2>1
<1>2. /\ SubSeq(s, 1, Len(s) - 1) \in Seq(Words)
      /\ Len(SubSeq(s, 1, Len(s) - 1)) = Len(s) - 1
      /\ \A i \in 1..(Len(s) - 1) : SubSeq(s, 1, Len(s) - 1)[i] = s[i]
  <2>. DEFINE n == Len(s) - 1
  <2>1. n \in Int /\ \A i \in 1..n : s[i] \in Words
    BY <1>1, ElementOfSeq
  <2>2. 1 <= n \/ n = 0
    <3>1. \A k \in Nat \ {0} : 1 <= k - 1 \/ k - 1 = 0
      OBVIOUS
    <3>2. QED
      BY <1>1, <3>1
  <2>. HIDE DEF n
  <2>3. /\ SubSeq(s, 1, n) \in Seq(Words)
        /\ Len(SubSeq(s, 1, n)) = IF 1 <= n THEN n - 1 + 1 ELSE 0
        /\ \A i \in 1..(n - 1 + 1) : SubSeq(s, 1, n)[i] = s[1 + i - 1]
    BY <2>1, SubSeqProperties
  <2>4. /\ Len(SubSeq(s, 1, n)) = n
        /\ \A i \in 1..n : SubSeq(s, 1, n)[i] = s[i]
    BY <2>1, <2>2, <2>3
  <2>5. QED
    BY <2>3, <2>4 DEF n
<1>3. s[Len(s)] \in Words
  BY <1>1, ElementOfSeq
<1>4. SubSeq(s, 1, Len(s) - 1) \o <<s[Len(s)]>> = s
  <2>. DEFINE f == SubSeq(s, 1, Len(s) - 1)
              t == f \o <<s[Len(s)]>>
  <2>1. f \in Seq(Words) /\ <<s[Len(s)]>> \in Seq(Words)
    BY <1>2, <1>3
  <2>2. /\ t \in Seq(Words) /\ Len(t) = Len(s)
        /\ \A i \in 1..Len(s) : t[i] = s[i]
    BY <1>1, <1>2, <2>1, ConcatProperties
  <2>. HIDE DEF t
  <2>3. t = s
    BY <2>2, SeqEqual
  <2>4. QED
    BY <2>3 DEF t
<1>5. QED
  BY <1>2, <1>3, <1>4 DEF Seqs!Front, Seqs!Last

LEMMA NewExtensions ==
    ASSUME NEW d, NEW n, NEW x, NEW y
    PROVE  [[dir |-> d, stem |-> n, exts |-> x] EXCEPT !.exts = y]
             = [dir |-> d, stem |-> n, exts |-> y]
OBVIOUS

LEMMA NamesAre ==
    ASSUME NEW u \in Name, NEW e \in Seq(Words)
    PROVE  /\ With(u, e) \in Name
           /\ With(u, e) = [dir |-> u.dir, stem |-> u.stem, exts |-> u.exts \o e]
           /\ [u EXCEPT !.exts = e]
                = [dir |-> u.dir, stem |-> u.stem, exts |-> e]
           /\ u = [dir |-> u.dir, stem |-> u.stem, exts |-> u.exts]
<1>1. u = [dir |-> u.dir, stem |-> u.stem, exts |-> u.exts]
  BY DEF Name
<1>2. \A y : [u EXCEPT !.exts = y] = [dir |-> u.dir, stem |-> u.stem, exts |-> y]
  <2>. DEFINE d == u.dir
              n == u.stem
              x == u.exts
  <2>1. u = [dir |-> d, stem |-> n, exts |-> x]
    BY <1>1
  <2>. HIDE DEF d, n, x
  <2>2. \A y : [u EXCEPT !.exts = y] = [dir |-> d, stem |-> n, exts |-> y]
    BY <2>1, NewExtensions
  <2>3. QED
    BY <2>2 DEF d, n, x
<1>3. u.exts \o e \in Seq(Words)
  BY ConcatProperties DEF Name
<1>4. With(u, e) = [dir |-> u.dir, stem |-> u.stem, exts |-> u.exts \o e]
  BY <1>2 DEF With
<1>5. With(u, e) \in Name
  BY <1>3, <1>4 DEF Name
<1>6. QED
  BY <1>1, <1>2, <1>4, <1>5

\* The address without .gmi, and the name it is short for.
LEMMA WithoutExtension ==
    ASSUME NEW p \in Name, Ext(p) = "gmi"
    PROVE  LET v == [p EXCEPT !.exts = Seqs!Front(@)]
           IN  /\ v \in Name /\ v.dir = p.dir /\ v.stem = p.stem
               /\ v = ListURL(p)
               /\ With(v, <<"gmi">>) = p
               /\ v.exts = <<>> => p.exts = <<"gmi">>
<1>. DEFINE front == Seqs!Front(p.exts)
            v == [p EXCEPT !.exts = front]
<1>1. p.exts \in Seq(Words)
  BY DEF Name
<1>2. p.exts # <<>> /\ Seqs!Last(p.exts) = "gmi"
  BY DEF Ext
<1>3. front \in Seq(Words) /\ front \o <<"gmi">> = p.exts
  BY <1>1, <1>2, Extensions
<1>4. v = [dir |-> p.dir, stem |-> p.stem, exts |-> front]
  <2>. HIDE DEF front
  <2>1. QED
    BY <1>3, NamesAre
<1>5. v = ListURL(p)
  BY <1>2 DEF ListURL
<1>. HIDE DEF front, v
<1>6. v \in Name /\ v.dir = p.dir /\ v.stem = p.stem /\ v.exts = front
  BY <1>3, <1>4 DEF Name
<1>7. p = [dir |-> p.dir, stem |-> p.stem, exts |-> p.exts]
  BY DEF Name
<1>8. With(v, <<"gmi">>)
        = [dir |-> v.dir, stem |-> v.stem, exts |-> v.exts \o <<"gmi">>]
  <2>. DEFINE gmi == <<"gmi">>
  <2>1. gmi \in Seq(Words)
    <3>1. "gmi" \in Words
      BY SiteAssumption
    <3>2. QED
      BY <3>1, OfOne
  <2>. HIDE DEF gmi
  <2>2. With(v, gmi) = [dir |-> v.dir, stem |-> v.stem, exts |-> v.exts \o gmi]
    BY <1>6, <2>1, NamesAre
  <2>3. QED
    BY <2>2 DEF gmi
<1>9. With(v, <<"gmi">>) = p
  BY <1>3, <1>6, <1>7, <1>8
<1>10. <<>> \o <<"gmi">> = <<"gmi">>
  OBVIOUS
<1>11. QED
  BY <1>3, <1>5, <1>6, <1>9, <1>10 DEF v, front

\* The address that is given for a page is one that page is shown at.
LEMMA LinksAreShort ==
    ASSUME NEW p \in Name, p.stem # "", ~ NamedLikeAnIndex(p)
    PROVE  LET u == PageURL(p)
           IN  /\ u \in Name /\ (u.stem # "" \/ IsFolder(u))
               /\ CanShow(u, p)
<1>. DEFINE v == [p EXCEPT !.exts = Seqs!Front(@)]
            f == Folder(p.dir)
<1>1. f \in Name /\ IsFolder(f) /\ f.dir = p.dir
  <2>. DEFINE none == <<>>
              d == p.dir
  <2>1. none \in Seq(Words) /\ d \in Seq(Words)
    BY EmptySeq DEF Name
  <2>2. f = [dir |-> d, stem |-> "", exts |-> none]
    BY DEF Folder
  <2>. HIDE DEF f, none, d
  <2>3. f \in Name /\ f.dir = d /\ f.stem = "" /\ f.exts = none
    BY <2>1, <2>2, SiteAssumption DEF Name
  <2>4. QED
    BY <2>3 DEF IsFolder, none, d
<1>2. CASE Ext(p) = "gmi"
  <2>1. /\ v \in Name /\ v.dir = p.dir /\ v.stem = p.stem
        /\ With(v, <<"gmi">>) = p /\ (v.exts = <<>> => p.exts = <<"gmi">>)
    BY <1>2, WithoutExtension
  <2>2. PageURL(p) = IF v.stem = "index" /\ v.exts = <<>> THEN Folder(v.dir) ELSE v
    <3>. DEFINE u == IF Ext(p) = "gmi" THEN v ELSE p
    <3>1. PageURL(p) = IF u.stem = "index" /\ u.exts = <<>> THEN Folder(u.dir) ELSE u
      BY DEF PageURL
    <3>2. u = v
      BY <1>2
    <3>. HIDE DEF u, v
    <3>3. QED
      BY <3>1, <3>2
  <2>. HIDE DEF v
  <2>3. CASE v.stem = "index" /\ v.exts = <<>>
    <3>1. PageURL(p) = f
      BY <2>1, <2>2, <2>3
    <3>2. p = [dir |-> p.dir, stem |-> p.stem, exts |-> p.exts]
      BY DEF Name
    <3>3. p = Index(p.dir)
      BY <2>1, <2>3, <3>2 DEF Index
    <3>. HIDE DEF f
    <3>4. QED
      BY <1>1, <3>1, <3>3 DEF CanShow
  <2>4. CASE ~ (v.stem = "index" /\ v.exts = <<>>)
    <3>1. PageURL(p) = v
      BY <2>2, <2>4
    <3>2. QED
      BY <2>1, <3>1 DEF CanShow, IsFolder
  <2>5. QED
    BY <2>3, <2>4
<1>3. CASE Ext(p) # "gmi"
  <2>1. PageURL(p) = p
    BY <1>3 DEF PageURL, NamedLikeAnIndex
  <2>2. QED
    BY <2>1 DEF CanShow, IsFolder
<1>4. QED
  BY <1>2, <1>3

-----------------------------------------------------------------------------
(***************************************************************************)
(* What an address answers with.                                           *)
(***************************************************************************)

LEMMA Results ==
    ASSUME NEW type, NEW at
    PROVE  Result(type, at).type = type /\ Result(type, at).at = at
BY DEF Result

LEMMA AnswersPages ==
    ASSUME NEW u, Answer(u).type = "page"
    PROVE  Live(Answer(u).at) /\ CanShow(u, Answer(u).at)
<1>1. Answer(u) = Resolve(u)
  BY Results DEF Answer
<1>2. CASE IsFolder(u)
  <2>1. Resolve(u) \in {NotFound(u), Result("listing", u)}
        \/ (Live(Index(u.dir)) /\ Resolve(u) = Result("page", Index(u.dir)))
    BY <1>2 DEF Resolve
  <2>2. QED
    BY <1>1, <1>2, <2>1, Results DEF CanShow, NotFound
<1>3. CASE ~ IsFolder(u)
  <2>1. \/ Resolve(u) \in {NotFound(u), Result("file", u),
                           Result("redirect", Folder(Append(u.dir, u.stem)))}
        \/ Live(u) /\ Resolve(u) = Result("page", u)
        \/ /\ Live(With(u, <<"gmi">>))
           /\ Resolve(u) = Result("page", With(u, <<"gmi">>))
    BY <1>3 DEF Resolve
  <2>2. QED
    BY <1>1, <1>3, <2>1, Results DEF CanShow, NotFound
<1>4. QED
  BY <1>2, <1>3

LEMMA ShowsThePage ==
    ASSUME NEW u, NEW p, Live(p), CanShow(u, p),
           u.stem # "" \/ IsFolder(u), ~ Refused(u), ~ InTheWay(u, p)
    PROVE  ShownAt(u, p)
<1>1. Answer(u) = Resolve(u)
  BY DEF Answer, InTheWay
<1>2. ~ Hidden(u) /\ Ext(u) # "cgi"
  BY DEF Hidden, IsFolder, Refused
<1>3. CASE IsFolder(u)
  BY <1>1, <1>2, <1>3 DEF Resolve, CanShow, ShownAt
<1>4. CASE ~ IsFolder(u) /\ p = u
  BY <1>1, <1>2, <1>4 DEF Resolve, ShownAt
<1>5. CASE ~ IsFolder(u) /\ p # u
  <2>1. ~ Live(u) /\ p = With(u, <<"gmi">>)
    BY <1>5 DEF InTheWay, CanShow
  <2>2. QED
    BY <1>1, <1>2, <1>5, <2>1 DEF Resolve, ShownAt
<1>6. QED
  BY <1>3, <1>4, <1>5

-----------------------------------------------------------------------------
(***************************************************************************)
(* The invariant.                                                          *)
(***************************************************************************)

LEMMA SiteStarts ==
    ASSUME PathInit
    PROVE  PathInv
<1>. USE DEF PathInit, SiteInit
<1>1. SiteTypeOK
  BY DEF SiteTypeOK
<1>2. SiteHas
  <2>1. FindableIn(live) = {}
    BY DEF FindableIn
  <2>2. QED
    BY <2>1 DEF SiteHas
<1>3. FetchedByAddress
  BY DEF FetchedByAddress
<1>4. TargetsAreSettled
  BY DEF TargetsAreSettled
<1>5. QED
  BY <1>1, <1>2, <1>3, <1>4 DEF PathInv

LEMMA AllowedIsDoc ==
    ASSUME NEW p \in Paths, NEW d \in Allowed[p]
    PROVE  d \in Doc /\ d.content \in Contents /\ d # NoDoc
BY SiteAssumption DEF Doc

\* Pages that come and go with their drafts, while nobody fetches.
LEMMA PagesStep ==
    ASSUME PathInv,
           \E p \in Paths :
               \/ \E d \in Allowed[p] : Save(p, d)
               \/ Delete(p)
               \/ \E q \in Paths : Rename(p, q)
    PROVE  SiteTypeOK' /\ SiteHas' /\ UNCHANGED <<editing, target>>
<1>. USE DEF PathInv
<1>0. /\ live \in [Paths -> Doc \cup {NoDoc}]
      /\ drafts \in [Paths -> Contents \cup {NoDoc}]
      /\ NoDoc \notin Doc \cup Contents
  BY SiteAssumption DEF SiteHas
<1>1. ASSUME NEW p \in Paths, NEW d \in Allowed[p], Save(p, d)
      PROVE  SiteTypeOK' /\ SiteHas' /\ UNCHANGED <<editing, target>>
  <2>1. /\ live' = [live EXCEPT ![p] = d] /\ searchable' = FindableIn(live')
        /\ UNCHANGED <<drafts, editing, target>> /\ d \in Doc
    BY <1>1, AllowedIsDoc DEF Save, Publish, SearchFollows
  <2>2. SiteHas'
    BY <1>0, <2>1 DEF SiteHas
  <2>3. SiteTypeOK'
    BY <1>0, <2>1 DEF SiteTypeOK, FetchedByAddress, SiteHas
  <2>4. QED
    BY <2>1, <2>2, <2>3
<1>2. ASSUME NEW p \in Paths, Delete(p)
      PROVE  SiteTypeOK' /\ SiteHas' /\ UNCHANGED <<editing, target>>
  <2>1. /\ live' = [live EXCEPT ![p] = NoDoc] /\ searchable' = FindableIn(live')
        /\ drafts' = [drafts EXCEPT ![p] = NoDoc] /\ UNCHANGED <<editing, target>>
    BY <1>2 DEF Delete, Remove, SearchFollows
  <2>2. SiteHas'
    BY <1>0, <2>1 DEF SiteHas
  <2>3. SiteTypeOK'
    BY <1>0, <2>1 DEF SiteTypeOK, FetchedByAddress, SiteHas
  <2>4. QED
    BY <2>1, <2>2, <2>3
<1>3. ASSUME NEW p \in Paths, NEW q \in Paths, Rename(p, q)
      PROVE  SiteTypeOK' /\ SiteHas' /\ UNCHANGED <<editing, target>>
  <2>1. /\ live' = [live EXCEPT ![q] = live[p], ![p] = NoDoc]
        /\ searchable' = FindableIn(live')
        /\ drafts' = IF drafts[p] = NoDoc THEN drafts
                     ELSE [drafts EXCEPT ![q] = drafts[p], ![p] = NoDoc]
        /\ UNCHANGED <<editing, target>> /\ live[p] \in Allowed[q]
        /\ drafts[p] = NoDoc \/ (drafts[q] = NoDoc /\ q \in DraftPaths)
    BY <1>3 DEF Rename, Move, SearchFollows
  <2>2. /\ live' \in [Paths -> Doc \cup {NoDoc}]
        /\ drafts' \in [Paths -> Contents \cup {NoDoc}]
    BY <1>0, <2>1
  <2>3. SiteHas'
    BY <2>1, <2>2 DEF SiteHas
  <2>4. \A r \in Paths : live'[r] # NoDoc => live'[r] \in Allowed[r]
    BY <1>0, <2>1 DEF SiteTypeOK
  <2>5. \A r \in Paths : drafts'[r] # NoDoc =>
            r \in DraftPaths /\ drafts'[r] \in Contents
    BY <1>0, <2>1 DEF SiteTypeOK
  <2>6. SiteTypeOK'
    BY <2>1, <2>4, <2>5 DEF SiteTypeOK
  <2>7. QED
    BY <2>1, <2>3, <2>6
<1>4. QED
  BY <1>1, <1>2, <1>3

LEMMA DraftsStep ==
    ASSUME PathInv,
           \E p \in DraftPaths :
               (\E d \in Allowed[p] : SaveDraft(p, d)) \/ DiscardDraft(p)
    PROVE  SiteTypeOK' /\ SiteHas' /\ UNCHANGED <<editing, target>>
<1>. USE DEF PathInv
<1>1. PICK p \in DraftPaths, c \in Contents \cup {NoDoc} :
        /\ drafts' = [drafts EXCEPT ![p] = c]
        /\ UNCHANGED <<live, searchable, editing, target>>
  BY AllowedIsDoc, SiteAssumption DEF SaveDraft, DiscardDraft, siteVars
<1>2. SiteHas'
  BY <1>1, SiteAssumption DEF SiteHas
<1>3. SiteTypeOK'
  BY <1>1 DEF SiteTypeOK, SiteHas
<1>4. QED
  BY <1>1, <1>2, <1>3

LEMMA FetchStep ==
    ASSUME PathInv, NEW e \in Editors, NEW u \in Urls, Fetch(e, u)
    PROVE  PathInv'
<1>. USE DEF PathInv
<1>. DEFINE p == Answer(u).at
<1>1. /\ editing' = [editing EXCEPT ![e] = <<u, p>>] /\ target[e] = NoTarget
      /\ UNCHANGED <<live, searchable, drafts, target>>
  BY DEF Fetch, siteVars
<1>2. p \in Paths /\ CanShow(u, p)
  BY AnswersPages DEF Fetch, Live
<1>. HIDE DEF p
<1>3. FetchedByAddress'
  BY <1>1, <1>2 DEF FetchedByAddress
<1>4. TargetsAreSettled'
  BY <1>1 DEF TargetsAreSettled, FetchedByAddress
<1>5. SiteTypeOK'
  BY <1>1, <1>3, <1>4 DEF SiteTypeOK, FetchedByAddress, TargetsAreSettled
<1>6. SiteHas'
  BY <1>1 DEF SiteHas
<1>7. QED
  BY <1>3, <1>4, <1>5, <1>6

\* An upload goes to the page that was fetched, or its exception is noted.
LEMMA TargetsAreThoseFetched ==
    ASSUME NEW u, NEW p, NEW there, CanShow(u, p)
    PROVE  TitanTarget(u, there) = p \/ Elsewhere(u, p, there)
<1>1. CASE IsFolder(u)
  BY <1>1 DEF CanShow, TitanTarget
<1>2. CASE ~ IsFolder(u) /\ p = u
  BY <1>2 DEF TitanTarget, Elsewhere
<1>3. CASE ~ IsFolder(u) /\ p # u /\ p = With(u, <<"gmi">>)
  BY <1>3 DEF TitanTarget, Elsewhere
<1>4. QED
  BY <1>1, <1>2, <1>3 DEF CanShow

LEMMA ChooseStep ==
    ASSUME PathInv, NEW e \in Editors, ChooseTarget(e)
    PROVE  PathInv'
<1>. USE DEF PathInv
<1>. DEFINE u == editing[e][1]
            p == editing[e][2]
<1>1. UNCHANGED <<live, searchable, drafts>> /\ editing[e] # NoFetch
      /\ target[e] = NoTarget
  BY DEF ChooseTarget, siteVars
<1>2. SiteHas'
  BY <1>1 DEF SiteHas
<1>3. ASSUME editing' = [editing EXCEPT ![e] = NoFetch], UNCHANGED target
      PROVE  FetchedByAddress' /\ TargetsAreSettled'
  BY <1>1, <1>3 DEF FetchedByAddress, TargetsAreSettled
<1>4. ASSUME NEW there, TitanTarget(u, there) \in Paths, UNCHANGED editing,
             target' = [target EXCEPT ![e] =
                [path |-> TitanTarget(u, there),
                 elsewhere |-> Elsewhere(u, p, there)]]
      PROVE  FetchedByAddress' /\ TargetsAreSettled'
  <2>1. CanShow(u, p)
    BY <1>1 DEF FetchedByAddress
  <2>. DEFINE q == TitanTarget(u, there)
              b == Elsewhere(u, p, there)
  <2>2. q \in Paths /\ b \in BOOLEAN /\ (q = p \/ b)
    BY <1>4, <2>1, TargetsAreThoseFetched DEF Elsewhere
  <2>3. target' = [target EXCEPT ![e] = [path |-> q, elsewhere |-> b]]
    BY <1>4
  <2>. HIDE DEF q, b
  <2>4. TargetsAreSettled'
    BY <1>1, <1>4, <2>2, <2>3 DEF TargetsAreSettled
  <2>5. QED
    BY <1>4, <2>4 DEF FetchedByAddress
<1>5. FetchedByAddress' /\ TargetsAreSettled'
  BY <1>3, <1>4 DEF ChooseTarget
<1>6. SiteTypeOK'
  BY <1>1, <1>5 DEF SiteTypeOK, FetchedByAddress, TargetsAreSettled
<1>7. QED
  BY <1>2, <1>5, <1>6

\* A client forgets what it fetched as it writes.
LEMMA EndsStep ==
    ASSUME PathInv, NEW e \in Editors, UploadEnds(e)
    PROVE  FetchedByAddress' /\ TargetsAreSettled'
BY DEF PathInv, UploadEnds, FetchedByAddress, TargetsAreSettled

LEMMA WritesStep ==
    ASSUME PathInv, NEW e \in Editors, Upload(e) \/ UploadNothing(e)
    PROVE  PathInv'
<1>. USE DEF PathInv
<1>0. /\ live \in [Paths -> Doc \cup {NoDoc}]
      /\ drafts \in [Paths -> Contents \cup {NoDoc}]
      /\ target[e].path \in Paths
  BY DEF SiteHas, SiteTypeOK, Upload, UploadNothing
<1>1. UploadEnds(e)
  BY DEF Upload, UploadNothing
<1>2. FetchedByAddress' /\ TargetsAreSettled'
  BY <1>1, EndsStep
<1>. DEFINE Typed ==
        \A e1 \in Editors :
            /\ editing'[e1] # NoFetch => editing'[e1] \in Urls \X Paths
            /\ target'[e1] # NoTarget =>
                editing'[e1] # NoFetch /\ target'[e1].path \in Paths
<1>3. Typed
  BY <1>2 DEF FetchedByAddress, TargetsAreSettled
<1>. HIDE DEF Typed
<1>4. ASSUME NEW p \in Paths, NEW d \in Allowed[p],
             live' = [live EXCEPT ![p] = d], UNCHANGED drafts,
             searchable' = FindableIn(live')
      PROVE  SiteHas' /\ SiteTypeOK'
  <2>1. SiteHas'
    BY <1>0, <1>4, AllowedIsDoc DEF SiteHas
  <2>2. SiteTypeOK'
    BY <1>0, <1>3, <1>4 DEF SiteTypeOK, Typed
  <2>3. QED
    BY <2>1, <2>2
<1>5. ASSUME NEW p \in Paths, live' = [live EXCEPT ![p] = NoDoc],
             drafts' = [drafts EXCEPT ![p] = NoDoc],
             searchable' = FindableIn(live')
      PROVE  SiteHas' /\ SiteTypeOK'
  <2>1. SiteHas'
    BY <1>0, <1>5 DEF SiteHas
  <2>2. SiteTypeOK'
    BY <1>0, <1>3, <1>5 DEF SiteTypeOK, Typed
  <2>3. QED
    BY <2>1, <2>2
<1>6. CASE Upload(e)
  <2>1. PICK d \in Allowed[target[e].path] : Publish(target[e].path, d)
    BY <1>6 DEF Upload
  <2>2. UNCHANGED drafts /\ searchable' = FindableIn(live')
    BY <1>6 DEF Upload, SearchFollows
  <2>3. QED
    BY <1>0, <1>2, <1>4, <2>1, <2>2 DEF Publish
<1>7. CASE UploadNothing(e)
  <2>. DEFINE p == target[e].path
  <2>1. /\ Remove(p) /\ searchable' = FindableIn(live')
        /\ drafts' = [drafts EXCEPT ![p] = NoDoc]
    BY <1>7 DEF UploadNothing, SearchFollows
  <2>2. p \in Paths
    BY <1>0
  <2>. HIDE DEF p
  <2>3. QED
    BY <1>2, <1>5, <2>1, <2>2 DEF Remove
<1>8. QED
  BY <1>6, <1>7

LEMMA FailsStep ==
    ASSUME PathInv, NEW e \in Editors, UploadFails(e)
    PROVE  PathInv'
<1>. USE DEF PathInv
<1>1. /\ target' = [target EXCEPT ![e] = NoTarget]
      /\ UNCHANGED <<live, searchable, drafts, editing>>
  BY DEF UploadFails, siteVars
<1>2. TargetsAreSettled'
  BY <1>1 DEF TargetsAreSettled
<1>3. SiteHas' /\ FetchedByAddress'
  BY <1>1 DEF SiteHas, FetchedByAddress
<1>4. SiteTypeOK'
  BY <1>1, <1>2, <1>3 DEF SiteTypeOK, TargetsAreSettled, FetchedByAddress
<1>5. QED
  BY <1>2, <1>3, <1>4

LEMMA PathStep ==
    ASSUME PathInv, [PathNext]_pathVars
    PROVE  PathInv'
<1>. USE DEF PathInv
<1>1. ASSUME SiteTypeOK' /\ SiteHas' /\ UNCHANGED <<editing, target>>
      PROVE  PathInv'
  BY <1>1 DEF FetchedByAddress, TargetsAreSettled
<1>2. CASE UNCHANGED pathVars
  BY <1>1, <1>2 DEF pathVars, siteVars, SiteTypeOK, SiteHas
<1>3. QED
  BY <1>1, <1>2, PagesStep, DraftsStep, FetchStep, ChooseStep, WritesStep,
     FailsStep DEF PathNext

LEMMA PathAlways == PathSpec => []PathInv
BY SiteStarts, PathStep, PTL DEF PathSpec

\* At every moment each path holds one of the documents it may hold or none,
\* drafts are where drafts are kept, and what a titan client has fetched is a
\* page, from an address it may ask for.
THEOREM SiteIsTyped == PathSpec => []SiteTypeOK
<1>1. PathInv => SiteTypeOK
  BY DEF PathInv
<1>2. QED
  BY <1>1, PathAlways, PTL

-----------------------------------------------------------------------------
(***************************************************************************)
(* The properties.                                                         *)
(***************************************************************************)

\* The address that search, a feed or a redirect gives for a page shows that
\* page, and so does the address in a listing for every .gmi page, unless
\* something else has taken it (web.go:387, site.go:147, 746).
THEOREM LinksShowTheirPages == PathSpec => []LinksLead
<1>1. PathInv => LinksLead
  <2>. SUFFICES ASSUME PathInv, NEW p \in Paths, Live(p)
                PROVE  /\ /\ p \in SearchHits /\ ~ Refused(PageURL(p))
                          /\ ~ NamedLikeAnIndex(p)
                          => ShownAt(PageURL(p), p) \/ InTheWay(PageURL(p), p)
                       /\ /\ p \in Listed(p.dir) /\ Ext(p) = "gmi"
                          /\ ~ Refused(ListURL(p))
                          => ShownAt(ListURL(p), p) \/ InTheWay(ListURL(p), p)
    BY DEF LinksLead
  <2>1. p \in Name /\ (p \in HiddenPaths <=> p.stem = "")
    BY SiteAssumption
  <2>2. ASSUME p \in SearchHits, ~ Refused(PageURL(p)), ~ NamedLikeAnIndex(p)
        PROVE  ShownAt(PageURL(p), p) \/ InTheWay(PageURL(p), p)
    <3>1. p \notin HiddenPaths
      BY <2>2 DEF SearchHits, FindableIn, PathInv, SiteHas
    <3>2. /\ PageURL(p).stem # "" \/ IsFolder(PageURL(p))
          /\ CanShow(PageURL(p), p)
      BY <2>1, <2>2, <3>1, LinksAreShort
    <3>3. QED
      BY <2>2, <3>2, ShowsThePage
  <2>3. ASSUME p \in Listed(p.dir), Ext(p) = "gmi", ~ Refused(ListURL(p))
        PROVE  ShownAt(ListURL(p), p) \/ InTheWay(ListURL(p), p)
    <3>. DEFINE v == ListURL(p)
    <3>1. v.stem = p.stem /\ With(v, <<"gmi">>) = p
      BY <2>1, <2>3, WithoutExtension
    <3>2. p.stem # ""
      BY <2>3 DEF Listed, Hidden, Ext
    <3>. HIDE DEF v
    <3>3. CanShow(v, p) /\ v.stem # ""
      BY <3>1, <3>2 DEF CanShow, IsFolder
    <3>4. QED
      BY <2>3, <3>3, ShowsThePage DEF v
  <2>4. QED
    BY <2>2, <2>3
<1>2. QED
  BY <1>1, PathAlways, PTL

\* A titan client overwrites, or deletes, the page whose source it fetched from
\* the same address, whatever others did since, and while its upload is read,
\* but for the cases the property names (server.go:414, 499, 534).
THEOREM UploadsReplaceWhatWasFetched ==
    PathSpec => []TitanWritesWhatWasFetched
<1>1. PathInv => TitanWritesWhatWasFetched
  BY DEF PathInv, TargetsAreSettled, TitanWritesWhatWasFetched
<1>2. QED
  BY <1>1, PathAlways, PTL

-----------------------------------------------------------------------------
(***************************************************************************)
(* The site these addresses are about is one of PublishedSite.             *)
(***************************************************************************)

LEMMA PathStepPublishes ==
    ASSUME PathInv, PathInv', [PathNext]_pathVars
    PROVE  [SiteNext]_siteVars
<1>1. searchable' = FindableIn(live')
  BY DEF PathInv, SiteHas
<1>2. ASSUME NEW p \in Paths, NEW d \in Allowed[p], Publish(p, d)
      PROVE  SiteNext
  BY <1>1, <1>2, AllowedIsDoc DEF SiteNext
<1>3. ASSUME NEW p \in Paths, Remove(p) PROVE SiteNext
  BY <1>1, <1>3 DEF SiteNext
<1>4. ASSUME NEW p \in Paths, NEW q \in Paths, Move(p, q) PROVE SiteNext
  BY <1>1, <1>4 DEF SiteNext
<1>5. ASSUME NEW p \in Paths,
             \/ \E d \in Allowed[p] : Save(p, d)
             \/ Delete(p) \/ \E q \in Paths : Rename(p, q)
      PROVE  SiteNext
  BY <1>2, <1>3, <1>4, <1>5 DEF Save, Delete, Rename
<1>6. ASSUME NEW p, (\E d \in Allowed[p] : SaveDraft(p, d)) \/ DiscardDraft(p)
      PROVE  UNCHANGED siteVars
  BY <1>6 DEF SaveDraft, DiscardDraft
<1>7. ASSUME NEW e \in Editors, Upload(e) PROVE SiteNext
  BY <1>2, <1>7 DEF Upload, PathInv, SiteTypeOK
<1>8. ASSUME NEW e \in Editors, UploadNothing(e) PROVE SiteNext
  BY <1>3, <1>8 DEF UploadNothing, Live
<1>9. ASSUME NEW e, NEW u, Fetch(e, u) PROVE UNCHANGED siteVars
  BY <1>9 DEF Fetch
<1>10. ASSUME NEW e, ChooseTarget(e) \/ UploadFails(e)
       PROVE  UNCHANGED siteVars
  BY <1>10 DEF ChooseTarget, UploadFails
<1>11. CASE UNCHANGED pathVars
  BY <1>11 DEF pathVars
<1>12. QED
  BY <1>5, <1>6, <1>7, <1>8, <1>9, <1>10, <1>11 DEF PathNext

\* Pages that are saved, moved, deleted and uploaded over titan are a site as
\* the store promises it: one page changes at a time, and search with it.
THEOREM PathImplementsPublishedSite == PathSpec => SiteSpec
<1>1. PathInv /\ PathInv' /\ [PathNext]_pathVars => [SiteNext]_siteVars
  BY PathStepPublishes
<1>2. PathInit => SiteInit
  BY DEF PathInit
<1>3. QED
  BY <1>1, <1>2, PathAlways, PTL DEF PathSpec, SiteSpec
=============================================================================
