--------------------------- MODULE TerminalProofs ---------------------------
(***************************************************************************)
(* Views are counted for people, no words go without a warning, and        *)
(* visitors only read, for any number of sessions, any site and any number *)
(* of views.                                                               *)
(*                                                                         *)
(* A session that has not been used has been shown the home page and owes  *)
(* the counters that one view; the key that wakes it pays the debt, and    *)
(* from then on what it is shown is counted as it is shown.                *)
(***************************************************************************)
EXTENDS Terminal, FiniteSetTheorems, SequenceTheorems, WellFoundedInduction,
        TLAPS

Present(s) == term[s].mode \notin {"away", "gone"}

ShownOnce == [k \in Keys |-> IF k = CountKey[Home] THEN 1 ELSE 0]

\* What a session owes the counters.
Debts ==
    \A s \in Sessions :
        /\ term[s] = Away =>
                s \notin people /\ shown[s] = [k \in Keys |-> 0]
        /\ Present(s) /\ ~ term[s].live =>
                /\ s \notin people /\ term[s].pendingHit = Home
                /\ shown[s] = ShownOnce
        /\ Present(s) /\ term[s].live => s \in people

\* Words an editor would close over without asking.
WordsAreSettled ==
    \A s \in Sessions :
        InEditor(term[s]) /\ ~ term[s].edDirty => settled[s] = term[s].ed

TerminalInv ==
    TerminalTypeOK /\ Debts /\ WordsAreSettled /\ ViewsAreOfPeople

-----------------------------------------------------------------------------
(***************************************************************************)
(* Counting views.                                                         *)
(***************************************************************************)

\* The views under a key that some sessions had.
ViewsOf(P, sh, u) == UNION {{s} \X (1..sh[s][u]) : s \in P}

LEMMA ViewsFinite ==
    ASSUME NEW P, IsFiniteSet(P), NEW sh, NEW u,
           \A s \in P : sh[s][u] \in Nat
    PROVE  /\ IsFiniteSet(ViewsOf(P, sh, u))
           /\ Cardinality(ViewsOf(P, sh, u)) \in Nat
<1>. DEFINE f == [s \in P |-> {s} \X (1..sh[s][u])]
            T == {{s} \X (1..sh[s][u]) : s \in P}
<1>1. f \in Surjection(P, T)
  BY DEF Surjection
<1>2. IsFiniteSet(T)
  <2>. HIDE DEF f, T
  <2>1. QED
    BY <1>1, FS_Surjection
<1>3. \A s \in P : IsFiniteSet({s} \X (1..sh[s][u]))
  <2>. SUFFICES ASSUME NEW s \in P PROVE IsFiniteSet({s} \X (1..sh[s][u]))
    OBVIOUS
  <2>1. IsFiniteSet({s})
    BY FS_Singleton
  <2>2. IsFiniteSet(1..sh[s][u])
    BY FS_Interval
  <2>3. QED
    BY <2>1, <2>2, FS_Product
<1>4. \A S \in T : IsFiniteSet(S)
  BY <1>3
<1>5. IsFiniteSet(UNION T)
  <2>. HIDE DEF T
  <2>1. QED
    BY <1>2, <1>4, FS_UNION
<1>6. QED
  BY <1>5, FS_CardinalityType DEF ViewsOf

LEMMA ViewIn ==
    ASSUME NEW P, NEW sh, NEW u, NEW v
    PROVE  v \in ViewsOf(P, sh, u)
             <=> \E s \in P : \E i \in 1..sh[s][u] : v = <<s, i>>
BY DEF ViewsOf

\* One more view of a session.
LEMMA OneMoreView ==
    ASSUME NEW P, IsFiniteSet(P), NEW u, NEW s \in P, NEW sh, NEW more,
           \A r \in P : sh[r][u] \in Nat,
           \A r \in P : more[r][u] = IF r = s THEN sh[r][u] + 1 ELSE sh[r][u]
    PROVE  Cardinality(ViewsOf(P, more, u)) = Cardinality(ViewsOf(P, sh, u)) + 1
<1>. DEFINE new == <<s, sh[s][u] + 1>>
<1>1. new \notin ViewsOf(P, sh, u)
  BY ViewIn
<1>2. ViewsOf(P, more, u) = ViewsOf(P, sh, u) \cup {new}
  <2>1. \A r \in P : r # s => 1..more[r][u] = 1..sh[r][u]
    OBVIOUS
  <2>2. 1..more[s][u] = (1..sh[s][u]) \cup {sh[s][u] + 1}
    OBVIOUS
  <2>3. \A v : v \in ViewsOf(P, more, u) => v \in ViewsOf(P, sh, u) \cup {new}
    BY <2>1, <2>2, ViewIn
  <2>4. \A v : v \in ViewsOf(P, sh, u) \cup {new} => v \in ViewsOf(P, more, u)
    BY <2>1, <2>2, ViewIn
  <2>5. QED
    BY <2>3, <2>4
<1>3. IsFiniteSet(ViewsOf(P, sh, u))
  BY ViewsFinite
<1>. HIDE DEF new
<1>4. QED
  BY <1>1, <1>2, <1>3, FS_AddElement

\* The views of one session more, which has had one or none.
LEMMA OneMorePerson ==
    ASSUME NEW P, IsFiniteSet(P), NEW u, NEW s, s \notin P, NEW sh,
           \A r \in P : sh[r][u] \in Nat, sh[s][u] \in {0, 1}
    PROVE  Cardinality(ViewsOf(P \cup {s}, sh, u))
             = Cardinality(ViewsOf(P, sh, u)) + sh[s][u]
<1>. DEFINE new == <<s, 1>>
<1>1. IsFiniteSet(ViewsOf(P, sh, u)) /\ Cardinality(ViewsOf(P, sh, u)) \in Nat
  BY ViewsFinite
<1>2. CASE sh[s][u] = 0
  <2>1. 1..sh[s][u] = {}
    BY <1>2
  <2>2. \A v : v \in ViewsOf(P \cup {s}, sh, u) <=> v \in ViewsOf(P, sh, u)
    BY <2>1, ViewIn
  <2>3. ViewsOf(P \cup {s}, sh, u) = ViewsOf(P, sh, u)
    BY <2>2
  <2>4. QED
    BY <1>1, <1>2, <2>3
<1>3. CASE sh[s][u] = 1
  <2>1. 1..sh[s][u] = {1}
    BY <1>3
  <2>2. new \notin ViewsOf(P, sh, u)
    BY ViewIn
  <2>3. \A v : v \in ViewsOf(P \cup {s}, sh, u)
                 <=> v \in ViewsOf(P, sh, u) \/ v = new
    BY <2>1, ViewIn
  <2>4. ViewsOf(P \cup {s}, sh, u) = ViewsOf(P, sh, u) \cup {new}
    BY <2>3
  <2>. HIDE DEF new
  <2>5. QED
    BY <1>1, <1>3, <2>2, <2>4, FS_AddElement
<1>4. QED
  BY <1>2, <1>3

-----------------------------------------------------------------------------
(***************************************************************************)
(* Sessions, and what a key makes of one.                                  *)
(***************************************************************************)

LEMMA SessionModes ==
    /\ \A t \in Session : /\ t.mode \notin {"away", "gone"}
                          /\ t # Away /\ t # Gone
    /\ Away.mode = "away" /\ Gone.mode = "gone" /\ Away # Gone
<1>1. Away.mode = "away" /\ Gone.mode = "gone"
  BY DEF Away, Gone
<1>2. \A t \in Session : t.mode \in {"browse", "edit", "editHelp", "input",
                                     "confirm"}
  BY DEF Session
<1>3. QED
  BY <1>1, <1>2

LEMMA PresentIsSession ==
    ASSUME TerminalTypeOK, NEW s \in Sessions
    PROVE  /\ Present(s) <=> term[s] \in Session
           /\ Present(s) <=> term[s] \notin {Away, Gone}
           /\ term[s] \in Session \cup {Away, Gone}
BY SessionModes DEF TerminalTypeOK, Present

\* The page that answers is one of those that may: the first there is.
LEMMA AnswerIsListed ==
    ASSUME NEW site, NEW u \in Urls
    PROVE  \/ PageAt(site, u) = NoPath
           \/ \E i \in DOMAIN AnswersTo[u] : PageAt(site, u) = AnswersTo[u][i]
<1>. DEFINE pages == AnswersTo[u]
            there == {i \in DOMAIN pages : site[pages[i]] # NoPage}
<1>1. pages \in Seq(Paths \ HiddenPaths)
  BY TerminalAssumption
<1>2. PageAt(site, u) = IF there = {} THEN NoPath ELSE pages[Min(there)]
  BY DEF PageAt
<1>3. there \subseteq Nat
  <2>. HIDE DEF pages
  <2>1. QED
    BY <1>1
<1>4. there \subseteq DOMAIN pages
  OBVIOUS
<1>5. CASE there # {}
  <2>. HIDE DEF there, pages
  <2>1. PICK m \in there : \A i \in there : ~ (<<i, m>> \in OpToRel(<, Nat))
    BY <1>3, <1>5, NatLessThanWellFounded, WFMin, Zenon
  <2>2. \A i \in there : ~ (i < m)
    BY <1>3, <2>1, Zenon DEF OpToRel
  <2>3. \E x \in there : \A y \in there : x =< y
    BY <1>3, <2>2
  <2>4. Min(there) \in there
    BY <2>3 DEF Min
  <2>5. QED
    BY <1>2, <1>4, <1>5, <2>4 DEF pages
<1>6. QED
  BY <1>2, <1>5

LEMMA SourceType ==
    ASSUME NEW site, NEW u \in Urls
    PROVE  PageAt(site, u) \in Paths \cup {NoPath}
<1>1. AnswersTo[u] \in Seq(Paths \ HiddenPaths)
  BY TerminalAssumption
<1>2. \A i \in DOMAIN AnswersTo[u] : AnswersTo[u][i] \in Paths
  BY <1>1, ElementOfSeq
<1>3. QED
  BY <1>2, AnswerIsListed

LEMMA ScriptPage ==
    ASSUME NEW site, NEW u \in Urls, IsScript(site, u)
    PROVE  PageAt(site, u) \in Paths
BY TerminalAssumption DEF IsScript

LEMMA HomePage ==
    ASSUME NEW site
    PROVE  PageAt(site, Home) \in (Paths \ (ScriptPaths \cup FilePaths))
                                    \cup {NoPath}
<1>. DEFINE pages == AnswersTo[Home]
<1>1. \/ PageAt(site, Home) = NoPath
      \/ \E i \in DOMAIN pages : PageAt(site, Home) = pages[i]
  BY TerminalAssumption, AnswerIsListed
<1>2. PageAt(site, Home) \in Paths \cup {NoPath}
  BY TerminalAssumption, SourceType
<1>3. QED
  BY <1>1, <1>2, TerminalAssumption

LEMMA PromptedIs ==
    ASSUME NEW t \in Session,
           NEW picks \in SUBSET (Urls \cup HiddenPaths \cup ScriptPaths),
           NEW kind \in {"goto", "search", "newPath", "script", "none"}
    PROVE  LET to == Prompted(t, kind, picks)
           IN  /\ to \in Session /\ to.mode = "input" /\ to.live = t.live
               /\ to.pendingHit = t.pendingHit
BY DEF Prompted, Session

\* What is left of an editor's words is not looked at from there on.
LEMMA RanScriptIs ==
    ASSUME NEW t \in Session, NEW p \in Paths \cup {NoPath},
           NEW u \in Urls \cup {NoUrl}, NEW outcome \in Outcomes
    PROVE  LET to == RanScript(t, p, u, outcome)
           IN  /\ to \in Session /\ to.live = t.live
               /\ to.pendingHit = t.pendingHit
               /\ to.mode \in {t.mode, "browse", "input"}
<1>. DEFINE after == [t EXCEPT !.url = u, !.sourcePath = NoPath,
                               !.scriptPath = p]
<1>1. /\ after \in Session /\ after.live = t.live
      /\ after.pendingHit = t.pendingHit /\ after.mode = t.mode
  BY DEF Session
<1>2. /\ [after EXCEPT !.mode = "browse"] \in Session
      /\ [after EXCEPT !.mode = "browse"].live = t.live
      /\ [after EXCEPT !.mode = "browse"].pendingHit = t.pendingHit
      /\ [after EXCEPT !.mode = "browse"].mode = "browse"
  <2>. HIDE DEF after
  <2>1. QED
    BY <1>1 DEF Session
<1>3. /\ Prompted(after, "script", {}) \in Session
      /\ Prompted(after, "script", {}).live = t.live
      /\ Prompted(after, "script", {}).pendingHit = t.pendingHit
      /\ Prompted(after, "script", {}).mode = "input"
  <2>. HIDE DEF after
  <2>1. QED
    BY <1>1, PromptedIs
<1>. HIDE DEF after
<1>4. RanScript(t, p, u, outcome) \in
        {t, [after EXCEPT !.mode = "browse"], Prompted(after, "script", {})}
  BY DEF RanScript, after
<1>5. QED
  BY <1>1, <1>2, <1>3, <1>4

LEMMA ShownIs ==
    ASSUME NEW t \in Session, NEW site, NEW u \in Urls
    PROVE  LET to == Shown(t, site, u)
           IN  /\ to \in Session /\ to.live = t.live /\ to.mode = t.mode
               /\ to.pendingHit = IF t.live THEN t.pendingHit ELSE u
BY SourceType DEF Shown, Session

LEMMA LandedIs ==
    ASSUME NEW t \in Session, NEW site, NEW u \in Urls,
           NEW outcome \in Outcomes
    PROVE  LET to == Landed(t, site, u, outcome)
           IN  /\ to \in Session /\ to.live = t.live
               /\ to.mode \in {t.mode, "browse", "input"}
               /\ t.live => to.pendingHit = t.pendingHit
<1>. DEFINE plain == [t EXCEPT !.scriptPath = NoPath]
<1>1. /\ plain \in Session /\ plain.live = t.live /\ plain.mode = t.mode
      /\ plain.pendingHit = t.pendingHit
  BY DEF Session
<1>. HIDE DEF plain
<1>2. Landed(t, site, u, outcome) =
        IF IsScript(site, u) THEN RanScript(t, PageAt(site, u), u, outcome)
        ELSE IF u = Search THEN Prompted(plain, "search", {})
        ELSE IF IsPage(site, u) THEN Shown(plain, site, u)
        ELSE IF IsRedirected(site, u) THEN Shown(plain, site, SlashOf[u])
        ELSE plain
  BY DEF Landed, plain
<1>3. CASE IsScript(site, u)
  BY <1>2, <1>3, RanScriptIs, ScriptPage
<1>4. CASE ~ IsScript(site, u) /\ u = Search
  BY <1>1, <1>2, <1>4, PromptedIs
<1>5. CASE ~ IsScript(site, u) /\ u # Search
  <2>1. SlashOf[u] \in Urls
    BY TerminalAssumption
  <2>2. Landed(t, site, u, outcome)
            \in {Shown(plain, site, u), Shown(plain, site, SlashOf[u]), plain}
    BY <1>2, <1>5
  <2>3. QED
    BY <1>1, <2>1, <2>2, ShownIs
<1>6. QED
  BY <1>3, <1>4, <1>5

-----------------------------------------------------------------------------
(***************************************************************************)
(* Keys.                                                                   *)
(***************************************************************************)

LEMMA AwakeIs ==
    ASSUME NEW s \in Sessions, term[s] \in Session
    PROVE  /\ Awake(s) \in Session /\ Awake(s).live = TRUE
           /\ Awake(s).pendingHit = NoUrl
           /\ Awake(s).mode = term[s].mode /\ Awake(s).ed = term[s].ed
           /\ Awake(s).edDirty = term[s].edDirty
           /\ Awake(s).edPath = term[s].edPath
           /\ Awake(s).url = term[s].url
           /\ Awake(s).scriptPath = term[s].scriptPath
BY DEF Awake, Session

LEMMA AnsweredIs ==
    ASSUME NEW s \in Sessions, term[s] \in Session
    PROVE  /\ Answered(s) \in Session /\ Answered(s).live = TRUE
           /\ Answered(s).mode = "browse"
           /\ Answered(s).url = term[s].url
           /\ Answered(s).scriptPath = term[s].scriptPath
<1>. DEFINE t == Awake(s)
<1>1. t \in Session /\ t.live = TRUE /\ t.url = term[s].url
      /\ t.scriptPath = term[s].scriptPath
  BY AwakeIs
<1>2. Answered(s) = [t EXCEPT !.mode = "browse", !.inputKind = "none",
                              !.picks = {}]
  BY DEF Answered
<1>. HIDE DEF t
<1>. DEFINE a == [t EXCEPT !.mode = "browse"]
            b == [a EXCEPT !.inputKind = "none"]
<1>3. a \in Session /\ a.live = TRUE /\ a.mode = "browse" /\ a.url = t.url
      /\ a.scriptPath = t.scriptPath
  BY <1>1 DEF Session
<1>. HIDE DEF a
<1>4. b \in Session /\ b.live = TRUE /\ b.mode = "browse" /\ b.url = t.url
      /\ b.scriptPath = t.scriptPath
  BY <1>3 DEF Session
<1>5. Answered(s) = [b EXCEPT !.picks = {}]
  BY <1>2 DEF a
<1>. HIDE DEF b
<1>6. QED
  BY <1>1, <1>4, <1>5 DEF Session

LEMMA ClosedIs ==
    ASSUME NEW s \in Sessions, term[s] \in Session
    PROVE  /\ Closed(s) \in Session /\ Closed(s).live = TRUE
           /\ Closed(s).mode = "browse"
<1>. DEFINE t == Awake(s)
<1>1. t \in Session /\ t.live = TRUE
  BY AwakeIs
<1>2. Closed(s) = [t EXCEPT !.mode = "browse", !.edPath = NoPath, !.ed = Empty]
  BY DEF Closed
<1>. HIDE DEF t
<1>3. QED
  BY <1>1, <1>2, TerminalAssumption, ZenonT(60) DEF Session

\* The debt of a session is paid when it wakes.
LEMMA Waking ==
    ASSUME TerminalInv, NEW s \in Sessions, term[s] \in Session
    PROVE  /\ CountsAwake(s) \in [Keys -> Nat]
           /\ \A u \in Keys : CountsAwake(s)[u] + lost[u]
                = Cardinality(ViewsOf(people \cup {s}, shown, u))
<1>. USE DEF TerminalInv
<1>1. /\ hits \in [Keys -> Nat] /\ lost \in [Keys -> Nat]
      /\ shown \in [Sessions -> [Keys -> Nat]]
      /\ people \subseteq Sessions /\ IsFiniteSet(people)
      /\ Home # NoUrl /\ CountKey[Home] \in Keys
  BY TerminalAssumption, FS_Subset DEF TerminalTypeOK
<1>2. \A u \in Keys : hits[u] + lost[u] = Cardinality(ViewsOf(people, shown, u))
  BY DEF ViewsAreOfPeople, Views, ViewsOf
<1>3. Present(s)
  BY PresentIsSession
<1>4. CASE term[s].live
  <2>1. CountsAwake(s) = hits /\ people \cup {s} = people
    BY <1>3, <1>4 DEF CountsAwake, Debts
  <2>2. QED
    BY <1>1, <1>2, <2>1
<1>5. CASE ~ term[s].live
  <2>1. s \notin people /\ shown[s] = ShownOnce /\ term[s].pendingHit = Home
    BY <1>3, <1>5 DEF Debts
  <2>2. CountsAwake(s) = [hits EXCEPT ![CountKey[Home]] = @ + 1]
    BY <1>1, <1>5, <2>1 DEF CountsAwake, Bumped
  <2>3. CountsAwake(s) \in [Keys -> Nat]
    BY <1>1, <2>2
  <2>4. ASSUME NEW u \in Keys
        PROVE  CountsAwake(s)[u] + lost[u]
                 = Cardinality(ViewsOf(people \cup {s}, shown, u))
    <3>1. shown[s][u] \in {0, 1} /\ shown[s][u] = IF u = CountKey[Home] THEN 1 ELSE 0
      BY <2>1 DEF ShownOnce
    <3>2. Cardinality(ViewsOf(people \cup {s}, shown, u))
            = Cardinality(ViewsOf(people, shown, u)) + shown[s][u]
      BY <1>1, <2>1, <3>1, OneMorePerson
    <3>3. CountsAwake(s)[u] = hits[u] + shown[s][u]
      BY <1>1, <2>2, <3>1
    <3>4. /\ hits[u] + lost[u] = Cardinality(ViewsOf(people, shown, u))
          /\ hits[u] \in Nat /\ lost[u] \in Nat
      BY <1>1, <1>2
    <3>5. QED
      BY <3>1, <3>2, <3>3, <3>4
  <2>5. QED
    BY <2>3, <2>4
<1>6. QED
  BY <1>4, <1>5

\* A session has become a live one, whose words are settled if need be.
LEMMA KeyStep ==
    ASSUME TerminalInv, NEW s \in Sessions, NEW t \in Session, t.live,
           term' = [term EXCEPT ![s] = t], people' = people \cup {s},
           page' \in [Paths -> Texts \cup {NoPage}],
           hits' \in [Keys -> Nat], lost' \in [Keys -> Nat],
           shown' \in [Sessions -> [Keys -> Nat]],
           settled' \in [Sessions -> Texts \cup {NoPage}],
           \A r \in Sessions : r # s =>
                shown'[r] = shown[r] /\ settled'[r] = settled[r],
           InEditor(t) /\ ~ t.edDirty => settled'[s] = t.ed,
           ViewsAreOfPeople'
    PROVE  TerminalInv'
<1>. USE DEF TerminalInv
<1>1. TerminalTypeOK'
  BY DEF TerminalTypeOK
<1>2. term'[s] = t /\ \A r \in Sessions : r # s => term'[r] = term[r]
  BY DEF TerminalTypeOK
<1>3. Debts'
  <2>. SUFFICES ASSUME NEW r \in Sessions
                PROVE  /\ term'[r] = Away =>
                              r \notin people' /\ shown'[r] = [k \in Keys |-> 0]
                       /\ Present(r)' /\ ~ term'[r].live =>
                              /\ r \notin people' /\ term'[r].pendingHit = Home
                              /\ shown'[r] = ShownOnce
                       /\ Present(r)' /\ term'[r].live => r \in people'
    BY DEF Debts, ShownOnce
  <2>1. CASE r = s
    BY <1>2, <2>1, SessionModes
  <2>2. CASE r # s
    BY <1>2, <2>2 DEF Debts, Present
  <2>3. QED
    BY <2>1, <2>2
<1>4. WordsAreSettled'
  BY <1>2 DEF WordsAreSettled, InEditor
<1>5. QED
  BY <1>1, <1>3, <1>4

LEMMA BecomesStep ==
    ASSUME TerminalInv, NEW s \in Sessions, term[s] \in Session,
           NEW t \in Session, t.live, Becomes(s, t),
           settled' \in [Sessions -> Texts \cup {NoPage}],
           \A r \in Sessions : r # s => settled'[r] = settled[r],
           InEditor(t) /\ ~ t.edDirty => settled'[s] = t.ed
    PROVE  TerminalInv'
<1>1. /\ term' = [term EXCEPT ![s] = t] /\ hits' = CountsAwake(s)
      /\ people' = people \cup {s} /\ UNCHANGED <<page, shown, lost>>
  BY DEF Becomes
<1>2. /\ CountsAwake(s) \in [Keys -> Nat]
      /\ \A u \in Keys : CountsAwake(s)[u] + lost[u]
            = Cardinality(ViewsOf(people \cup {s}, shown, u))
  BY Waking
<1>3. ViewsAreOfPeople'
  BY <1>1, <1>2 DEF ViewsAreOfPeople, Views, ViewsOf
<1>4. /\ page' \in [Paths -> Texts \cup {NoPage}] /\ hits' \in [Keys -> Nat]
      /\ lost' \in [Keys -> Nat] /\ shown' \in [Sessions -> [Keys -> Nat]]
  BY <1>1, <1>2 DEF TerminalInv, TerminalTypeOK
<1>5. QED
  BY <1>1, <1>3, <1>4, KeyStep

\* The same, by a key that changes no words.
LEMMA BecomesQuietly ==
    ASSUME TerminalInv, NEW s \in Sessions, term[s] \in Session,
           NEW t \in Session, t.live, Becomes(s, t), UNCHANGED settled,
           InEditor(t) => /\ InEditor(term[s])
                          /\ t.ed = term[s].ed /\ t.edDirty = term[s].edDirty
    PROVE  TerminalInv'
<1>1. settled' \in [Sessions -> Texts \cup {NoPage}]
  BY DEF TerminalInv, TerminalTypeOK
<1>2. InEditor(t) /\ ~ t.edDirty => settled'[s] = t.ed
  BY DEF TerminalInv, WordsAreSettled
<1>3. QED
  BY <1>1, <1>2, BecomesStep

\* Going to an address, after what the key did to the store.
LEMMA GoStep ==
    ASSUME TerminalInv, NEW s \in Sessions, NEW t \in Session, t.live,
           ~ InEditor(t), NEW site, NEW u \in Urls \cup {NoUrl},
           NEW counts \in [Keys -> Nat], Go(s, t, site, counts, u),
           people' = people \cup {s},
           page' \in [Paths -> Texts \cup {NoPage}], lost' \in [Keys -> Nat],
           settled' \in [Sessions -> Texts \cup {NoPage}],
           \A r \in Sessions : r # s => settled'[r] = settled[r],
           \A v \in Keys : counts[v] + lost'[v]
                = Cardinality(ViewsOf(people \cup {s}, shown, v))
    PROVE  TerminalInv'
<1>. DEFINE to == IF u = NoUrl THEN Home ELSE u
            seen == IsView(site, to)
<1>1. to \in Urls /\ CountKey[to] \in Keys
  BY TerminalAssumption
<1>. HIDE DEF to
<1>2. PICK outcome \in Outcomes :
        term' = [term EXCEPT ![s] = Landed(t, site, to, outcome)]
  BY DEF Go, to
<1>. DEFINE w == Landed(t, site, to, outcome)
<1>3. w \in Session /\ w.live /\ ~ InEditor(w)
  BY <1>1, LandedIs DEF InEditor
<1>4. /\ hits' = IF seen THEN Bumped(counts, to) ELSE counts
      /\ shown' = IF seen THEN [shown EXCEPT ![s] = Bumped(@, to)] ELSE shown
  BY DEF Go, to
<1>5. /\ shown \in [Sessions -> [Keys -> Nat]] /\ lost \in [Keys -> Nat]
      /\ people \cup {s} \subseteq Sessions /\ IsFiniteSet(people \cup {s})
  <2>1. people \cup {s} \subseteq Sessions
    BY DEF TerminalInv, TerminalTypeOK
  <2>2. QED
    BY <2>1, TerminalAssumption, FS_Subset DEF TerminalInv, TerminalTypeOK
<1>6. /\ hits' \in [Keys -> Nat] /\ shown' \in [Sessions -> [Keys -> Nat]]
      /\ \A r \in Sessions : r # s => shown'[r] = shown[r]
  <2>1. CASE seen
    <3>1. hits' = [counts EXCEPT ![CountKey[to]] = @ + 1]
          /\ shown' = [shown EXCEPT ![s] =
                         [shown[s] EXCEPT ![CountKey[to]] = @ + 1]]
      BY <1>4, <1>5, <2>1 DEF Bumped
    <3>2. [shown[s] EXCEPT ![CountKey[to]] = @ + 1] \in [Keys -> Nat]
      <4>1. shown[s] \in [Keys -> Nat]
        BY <1>5
      <4>2. QED
        BY <1>1, <4>1
    <3>3. QED
      BY <1>5, <3>1, <3>2
  <2>2. CASE ~ seen
    BY <1>4, <1>5, <2>2
  <2>3. QED
    BY <2>1, <2>2
<1>7. ASSUME NEW v \in Keys
      PROVE  hits'[v] + lost'[v]
               = Cardinality(ViewsOf(people \cup {s}, shown', v))
  <2>1. counts[v] + lost'[v] = Cardinality(ViewsOf(people \cup {s}, shown, v))
        /\ counts[v] \in Nat /\ lost'[v] \in Nat
    OBVIOUS
  <2>2. CASE seen /\ v = CountKey[to]
    <3>1. hits'[v] = counts[v] + 1
      BY <1>1, <1>4, <2>2 DEF Bumped
    <3>2. /\ \A r \in people \cup {s} : shown[r][v] \in Nat
          /\ \A r \in people \cup {s} : shown'[r][v] =
                IF r = s THEN shown[r][v] + 1 ELSE shown[r][v]
      BY <1>1, <1>4, <1>5, <1>6, <2>2 DEF Bumped
    <3>3. Cardinality(ViewsOf(people \cup {s}, shown', v))
            = Cardinality(ViewsOf(people \cup {s}, shown, v)) + 1
      <4>. DEFINE P == people \cup {s}
                  more == shown'
      <4>1. /\ s \in P /\ IsFiniteSet(P)
            /\ \A r \in P : shown[r][v] \in Nat
            /\ \A r \in P : more[r][v] =
                  IF r = s THEN shown[r][v] + 1 ELSE shown[r][v]
        BY <1>5, <3>2
      <4>. HIDE DEF P, more
      <4>2. Cardinality(ViewsOf(P, more, v)) = Cardinality(ViewsOf(P, shown, v)) + 1
        BY <4>1, OneMoreView
      <4>3. QED
        BY <4>2 DEF P, more
    <3>4. QED
      BY <2>1, <3>1, <3>3
  <2>3. CASE ~ (seen /\ v = CountKey[to])
    <3>1. hits'[v] = counts[v]
      BY <1>1, <1>4, <2>3 DEF Bumped
    <3>2. \A r \in people \cup {s} : shown'[r][v] = shown[r][v]
      BY <1>1, <1>4, <1>5, <2>3 DEF Bumped
    <3>3. ViewsOf(people \cup {s}, shown', v) = ViewsOf(people \cup {s}, shown, v)
      <4>1. \A x : x \in ViewsOf(people \cup {s}, shown', v)
                    <=> x \in ViewsOf(people \cup {s}, shown, v)
        BY <3>2, ViewIn
      <4>2. QED
        BY <4>1
    <3>4. QED
      BY <2>1, <3>1, <3>3
  <2>4. QED
    BY <2>2, <2>3
<1>8. ViewsAreOfPeople'
  BY <1>7 DEF ViewsAreOfPeople, Views, ViewsOf
<1>. HIDE DEF w, seen
<1>9. QED
  BY <1>2, <1>3, <1>6, <1>8, KeyStep DEF w

LEMMA GoesStep ==
    ASSUME TerminalInv, NEW s \in Sessions, term[s] \in Session,
           NEW t \in Session, t.live, ~ InEditor(t),
           NEW u \in Urls \cup {NoUrl}, Goes(s, t, u), UNCHANGED settled
    PROVE  TerminalInv'
<1>1. /\ CountsAwake(s) \in [Keys -> Nat]
      /\ \A v \in Keys : CountsAwake(s)[v] + lost[v]
            = Cardinality(ViewsOf(people \cup {s}, shown, v))
  BY Waking
<1>2. /\ Go(s, t, page, CountsAwake(s), u) /\ people' = people \cup {s}
      /\ UNCHANGED <<page, lost>>
  BY DEF Goes
<1>3. /\ page' \in [Paths -> Texts \cup {NoPage}] /\ lost' \in [Keys -> Nat]
      /\ settled' \in [Sessions -> Texts \cup {NoPage}]
  BY <1>2 DEF TerminalInv, TerminalTypeOK
<1>4. QED
  BY <1>1, <1>2, <1>3, GoStep

-----------------------------------------------------------------------------
(***************************************************************************)
(* The actions.                                                            *)
(***************************************************************************)

LEMMA ConnectStep ==
    ASSUME TerminalInv, NEW s \in Sessions, Connect(s)
    PROVE  TerminalInv'
<1>. USE DEF TerminalInv
<1>1. /\ term[s] = Away /\ Go(s, Fresh, page, hits, Home)
      /\ UNCHANGED <<page, people, lost, settled>>
  BY DEF Connect
<1>2. Home \in Urls /\ Home # NoUrl /\ Home # Search /\ CountKey[Home] \in Keys
  BY TerminalAssumption
<1>3. ~ IsScript(page, Home) /\ IsPage(page, Home) /\ IsView(page, Home)
  <2>1. PageAt(page, Home) \in (Paths \ (ScriptPaths \cup FilePaths)) \cup {NoPath}
    BY <1>2, HomePage
  <2>2. QED
    BY <1>2, <2>1, TerminalAssumption DEF IsScript, IsPage, IsView
<1>4. Fresh \in Session /\ ~ Fresh.live /\ Fresh.mode = "browse"
  BY TerminalAssumption DEF Fresh, Session
<1>. DEFINE plain == [Fresh EXCEPT !.scriptPath = NoPath]
            t == Shown(plain, page, Home)
<1>5. plain \in Session /\ ~ plain.live /\ plain.mode = "browse"
  BY <1>4 DEF Session
<1>6. t \in Session /\ ~ t.live /\ t.mode = "browse" /\ t.pendingHit = Home
  <2>. HIDE DEF plain
  <2>1. QED
    BY <1>2, <1>5, ShownIs
<1>7. \A outcome \in Outcomes : Landed(Fresh, page, Home, outcome) = t
  BY <1>2, <1>3 DEF Landed
<1>. HIDE DEF plain, t
<1>8. /\ term' = [term EXCEPT ![s] = t] /\ hits' = hits
      /\ shown' = [shown EXCEPT ![s] = Bumped(shown[s], Home)]
  BY <1>1, <1>2, <1>3, <1>4, <1>7 DEF Go
<1>9. /\ s \notin people /\ shown[s] = [k \in Keys |-> 0]
      /\ shown \in [Sessions -> [Keys -> Nat]]
      /\ term \in [Sessions -> Session \cup {Away, Gone}]
  BY <1>1 DEF Debts, TerminalTypeOK
<1>10. Bumped(shown[s], Home) = ShownOnce /\ ShownOnce \in [Keys -> Nat]
  BY <1>2, <1>9 DEF Bumped, ShownOnce
<1>11. /\ term'[s] = t /\ shown'[s] = ShownOnce
       /\ \A r \in Sessions : r # s =>
             term'[r] = term[r] /\ shown'[r] = shown[r]
       /\ shown' \in [Sessions -> [Keys -> Nat]]
       /\ term' \in [Sessions -> Session \cup {Away, Gone}]
  BY <1>6, <1>8, <1>9, <1>10
<1>12. TerminalTypeOK'
  BY <1>1, <1>8, <1>11 DEF TerminalTypeOK
<1>13. Debts'
  <2>. SUFFICES ASSUME NEW r \in Sessions
                PROVE  /\ term'[r] = Away =>
                              r \notin people' /\ shown'[r] = [k \in Keys |-> 0]
                       /\ Present(r)' /\ ~ term'[r].live =>
                              /\ r \notin people' /\ term'[r].pendingHit = Home
                              /\ shown'[r] = ShownOnce
                       /\ Present(r)' /\ term'[r].live => r \in people'
    BY DEF Debts, ShownOnce
  <2>1. CASE r = s
    BY <1>1, <1>6, <1>9, <1>11, <2>1, SessionModes
  <2>2. CASE r # s
    BY <1>1, <1>11, <2>2 DEF Debts, Present
  <2>3. QED
    BY <2>1, <2>2
<1>14. WordsAreSettled'
  BY <1>1, <1>6, <1>11 DEF WordsAreSettled, InEditor
<1>15. ViewsAreOfPeople'
  <2>. SUFFICES ASSUME NEW u \in Keys
                PROVE  hits'[u] + lost'[u] = Cardinality(ViewsOf(people', shown', u))
    BY DEF ViewsAreOfPeople, Views, ViewsOf
  <2>1. \A r \in people : r \in Sessions /\ r # s
    BY <1>9 DEF TerminalTypeOK
  <2>2. ViewsOf(people, shown', u) = ViewsOf(people, shown, u)
    <3>1. \A v : v \in ViewsOf(people, shown', u) <=> v \in ViewsOf(people, shown, u)
      BY <1>11, <2>1, ViewIn
    <3>2. QED
      BY <3>1
  <2>3. hits[u] + lost[u] = Cardinality(ViewsOf(people, shown, u))
    BY DEF ViewsAreOfPeople, Views, ViewsOf
  <2>4. QED
    BY <1>1, <1>8, <2>2, <2>3
<1>16. QED
  BY <1>12, <1>13, <1>14, <1>15

LEMMA DisconnectStep ==
    ASSUME TerminalInv, NEW s \in Sessions, Disconnect(s)
    PROVE  TerminalInv'
<1>. USE DEF TerminalInv
<1>1. /\ term' = [term EXCEPT ![s] = Gone]
      /\ UNCHANGED <<page, hits, people, shown, lost, settled>>
  BY DEF Disconnect
<1>2. /\ term' \in [Sessions -> Session \cup {Away, Gone}] /\ term'[s] = Gone
      /\ \A r \in Sessions : r # s => term'[r] = term[r]
  BY <1>1 DEF TerminalTypeOK
<1>3. TerminalTypeOK'
  BY <1>1, <1>2 DEF TerminalTypeOK
<1>4. Debts'
  BY <1>1, <1>2, SessionModes DEF Debts, Present, ShownOnce
<1>5. WordsAreSettled'
  BY <1>1, <1>2, SessionModes DEF WordsAreSettled, InEditor
<1>6. ViewsAreOfPeople'
  BY <1>1 DEF ViewsAreOfPeople, Views
<1>7. QED
  BY <1>3, <1>4, <1>5, <1>6

\* Starting to edit what a page says, or nothing.
LEMMA EditsStep ==
    ASSUME TerminalInv, NEW s \in Sessions, term[s] \in Session,
           NEW p \in Paths \cup {NoPath}, NEW words \in Texts,
           Edits(s, p, words)
    PROVE  TerminalInv'
<1>. DEFINE a == Answered(s)
            t == [a EXCEPT !.mode = "edit", !.edPath = p, !.ed = words,
                           !.edDirty = FALSE]
<1>1. a \in Session /\ a.live = TRUE
  BY AnsweredIs
<1>2. t \in Session /\ t.live /\ t.ed = words
  <2>. HIDE DEF a
  <2>1. QED
    BY <1>1, ZenonT(60) DEF Session
<1>3. Becomes(s, t) /\ settled' = [settled EXCEPT ![s] = words]
  BY DEF Edits
<1>. HIDE DEF t
<1>4. /\ settled' \in [Sessions -> Texts \cup {NoPage}] /\ settled'[s] = words
      /\ \A r \in Sessions : r # s => settled'[r] = settled[r]
  BY <1>3 DEF TerminalInv, TerminalTypeOK
<1>5. QED
  BY <1>2, <1>3, <1>4, BecomesStep

LEMMA EditsPageStep ==
    ASSUME TerminalInv, NEW s \in Sessions, term[s] \in Session,
           NEW p \in Paths, EditsPage(s, p)
    PROVE  TerminalInv'
<1>1. CASE Becomes(s, Answered(s)) /\ UNCHANGED settled
  <2>1. Answered(s) \in Session /\ Answered(s).live /\ ~ InEditor(Answered(s))
    BY AnsweredIs DEF InEditor
  <2>2. QED
    BY <1>1, <2>1, BecomesQuietly
<1>2. CASE page[p] # NoPage /\ Edits(s, p, page[p])
  <2>1. page[p] \in Texts
    BY <1>2 DEF TerminalInv, TerminalTypeOK
  <2>2. QED
    BY <1>2, <2>1, EditsStep
<1>3. CASE Edits(s, p, Empty)
  BY <1>3, TerminalAssumption, EditsStep
<1>4. QED
  BY <1>1, <1>2, <1>3 DEF EditsPage

\* A key for a session that is used, whatever it was doing.
LEMMA BrowseStep ==
    ASSUME TerminalInv, NEW s \in Sessions, term[s] \in Session,
           \/ \E u \in Urls : Follow(s, u) \/ Back(s, u)
           \/ Reload(s) \/ ShowHelp(s) \/ SearchLink(s)
           \/ AskGoto(s) \/ AskSearch(s) \/ AskNewPath(s) \/ AskDelete(s)
           \/ EditShown(s) \/ WriteNote(s)
    PROVE  TerminalInv'
<1>. DEFINE a == Awake(s)
<1>1. /\ a \in Session /\ a.live /\ a.url = term[s].url /\ a.mode = term[s].mode
  BY AwakeIs
<1>. HIDE DEF a
<1>2. Browsing(s) => a.mode = "browse" /\ ~ InEditor(a)
  BY <1>1 DEF Browsing, InEditor
<1>3. a.url \in Urls \cup {NoUrl} /\ Search \in Urls /\ Help \in Urls
  BY <1>1, TerminalAssumption DEF Session
<1>4. ASSUME NEW u \in Urls, Follow(s, u) PROVE TerminalInv'
  BY <1>1, <1>2, <1>4, GoesStep DEF Follow, a
<1>5. ASSUME NEW u \in Urls, Back(s, u) PROVE TerminalInv'
  <2>. DEFINE t == [a EXCEPT !.url = NoUrl]
  <2>1. t \in Session /\ t.live /\ ~ InEditor(t)
    BY <1>1, <1>2, <1>5 DEF Session, InEditor, Back
  <2>2. Goes(s, t, u) /\ UNCHANGED settled
    BY <1>5 DEF Back, a
  <2>. HIDE DEF t
  <2>3. QED
    BY <2>1, <2>2, GoesStep
<1>6. ASSUME Reload(s) PROVE TerminalInv'
  BY <1>1, <1>2, <1>3, <1>6, GoesStep DEF Reload, a
<1>7. ASSUME NEW b \in Session, b.live, NEW u \in Urls,
             Becomes(s, ShowDoc(b, u)), UNCHANGED settled
      PROVE  TerminalInv'
  <2>. DEFINE t == ShowDoc(b, u)
  <2>1. t \in Session /\ t.live /\ ~ InEditor(t)
    BY <1>7 DEF ShowDoc, Session, InEditor
  <2>2. Becomes(s, t)
    BY <1>7
  <2>. HIDE DEF t
  <2>3. QED
    BY <1>7, <2>1, <2>2, BecomesQuietly
<1>8. ASSUME ShowHelp(s) PROVE TerminalInv'
  BY <1>1, <1>3, <1>7, <1>8 DEF ShowHelp, a
<1>9. ASSUME SearchLink(s) PROVE TerminalInv'
  <2>1. /\ [a EXCEPT !.scriptPath = NoPath] \in Session
        /\ [a EXCEPT !.scriptPath = NoPath].live
    BY <1>1 DEF Session
  <2>2. Becomes(s, ShowDoc([a EXCEPT !.scriptPath = NoPath], Search))
        /\ UNCHANGED settled
    BY <1>9 DEF SearchLink, a
  <2>3. QED
    BY <1>3, <1>7, <2>1, <2>2
<1>10. ASSUME NEW kind \in {"goto", "search", "newPath"},
              NEW picks \in SUBSET (Urls \cup HiddenPaths \cup ScriptPaths),
              Becomes(s, Prompted(a, kind, picks)), UNCHANGED settled
       PROVE  TerminalInv'
  <2>. DEFINE t == Prompted(a, kind, picks)
  <2>1. t \in Session /\ t.live /\ ~ InEditor(t)
    BY <1>1, PromptedIs DEF InEditor
  <2>2. Becomes(s, t)
    BY <1>10
  <2>. HIDE DEF t
  <2>3. QED
    BY <1>10, <2>1, <2>2, BecomesQuietly
<1>11. Picks(s) \in SUBSET (Urls \cup HiddenPaths \cup ScriptPaths)
  <2>1. \A p \in Paths \ (ScriptPaths \cup HiddenPaths) : UrlOf[p] \in Urls
    BY TerminalAssumption
  <2>2. QED
    BY <2>1 DEF Picks
<1>12. ASSUME AskGoto(s) PROVE TerminalInv'
  BY <1>10, <1>11, <1>12 DEF AskGoto, a
<1>13. ASSUME AskSearch(s) PROVE TerminalInv'
  BY <1>10, <1>13 DEF AskSearch, a
<1>14. ASSUME AskNewPath(s) PROVE TerminalInv'
  BY <1>10, <1>14 DEF AskNewPath, a
<1>15. ASSUME AskDelete(s) PROVE TerminalInv'
  <2>. DEFINE t == [a EXCEPT !.mode = "confirm"]
  <2>1. t \in Session /\ t.live /\ ~ InEditor(t)
    BY <1>1 DEF Session, InEditor
  <2>2. Becomes(s, t) /\ UNCHANGED settled
    BY <1>15 DEF AskDelete, a
  <2>. HIDE DEF t
  <2>3. QED
    BY <2>1, <2>2, BecomesQuietly
<1>16. ASSUME EditShown(s) PROVE TerminalInv'
  <2>1. term[s].sourcePath \in Paths
    BY <1>16 DEF EditShown, Session
  <2>2. QED
    BY <1>16, <2>1, EditsPageStep DEF EditShown
<1>17. ASSUME WriteNote(s) PROVE TerminalInv'
  BY <1>17, EditsStep, TerminalAssumption DEF WriteNote
<1>18. QED
  BY <1>4, <1>5, <1>6, <1>8, <1>9, <1>12, <1>13, <1>14, <1>15, <1>16, <1>17

LEMMA StirStep ==
    ASSUME TerminalInv, NEW s \in Sessions, Stir(s)
    PROVE  TerminalInv'
<1>1. term[s] \in Session
  BY PresentIsSession DEF Stir, TerminalInv
<1>2. /\ Awake(s) \in Session /\ Awake(s).live
      /\ InEditor(Awake(s)) =>
            /\ InEditor(term[s]) /\ Awake(s).ed = term[s].ed
            /\ Awake(s).edDirty = term[s].edDirty
  BY <1>1, AwakeIs DEF InEditor
<1>3. QED
  BY <1>1, <1>2, BecomesQuietly DEF Stir

\* A deletion moves what is counted under the key it clears to what is lost.
LEMMA DeletedViews ==
    ASSUME NEW counts \in [Keys -> Nat], lost \in [Keys -> Nat],
           page \in [Paths -> Texts \cup {NoPage}],
           NEW p, Deletes(p, counts)
    PROVE  /\ CountsWithout(p, counts) \in [Keys -> Nat]
           /\ lost' \in [Keys -> Nat]
           /\ page' \in [Paths -> Texts \cup {NoPage}]
           /\ \A u \in Keys : CountsWithout(p, counts)[u] + lost'[u]
                                = counts[u] + lost[u]
<1>. DEFINE k == ClearedKey[p]
            without == CountsWithout(p, counts)
<1>1. /\ page' = [page EXCEPT ![p] = NoPage]
      /\ lost' = [lost EXCEPT ![k] = lost[k] + counts[k]]
      /\ without = [counts EXCEPT ![k] = 0]
  BY DEF Deletes, CountsWithout
<1>. HIDE DEF k, without
<1>2. ASSUME NEW u \in Keys
      PROVE  /\ without[u] \in Nat /\ lost'[u] \in Nat
             /\ without[u] + lost'[u] = counts[u] + lost[u]
  <2>1. counts[u] \in Nat /\ lost[u] \in Nat
    OBVIOUS
  <2>2. CASE u = k
    BY <1>1, <2>1, <2>2
  <2>3. CASE u # k
    BY <1>1, <2>1, <2>3
  <2>4. QED
    BY <2>2, <2>3
<1>3. without \in [Keys -> Nat] /\ lost' \in [Keys -> Nat]
  BY <1>1, <1>2
<1>4. page' \in [Paths -> Texts \cup {NoPage}]
  BY <1>1
<1>5. QED
  BY <1>2, <1>3, <1>4 DEF without

LEMMA ConfirmDeleteStep ==
    ASSUME TerminalInv, NEW s \in Sessions, term[s] \in Session,
           ConfirmDelete(s)
    PROVE  TerminalInv'
<1>. DEFINE p == term[s].sourcePath
            counts == CountsAwake(s)
            a == Answered(s)
<1>1. a \in Session /\ a.live /\ ~ InEditor(a)
  BY AnsweredIs DEF InEditor
<1>. HIDE DEF a
<1>2. CASE page[p] = NoPage
  BY <1>1, <1>2, BecomesQuietly DEF ConfirmDelete, a
<1>3. CASE page[p] # NoPage
  <2>1. /\ Deletes(p, counts) /\ UNCHANGED settled
        /\ Go(s, a, page', CountsWithout(p, counts), Home)
        /\ people' = people \cup {s}
    BY <1>3 DEF ConfirmDelete, a
  <2>2. /\ counts \in [Keys -> Nat]
        /\ \A u \in Keys : counts[u] + lost[u]
              = Cardinality(ViewsOf(people \cup {s}, shown, u))
    BY Waking
  <2>. HIDE DEF p, counts
  <2>3. /\ CountsWithout(p, counts) \in [Keys -> Nat]
        /\ lost' \in [Keys -> Nat]
        /\ page' \in [Paths -> Texts \cup {NoPage}]
        /\ \A u \in Keys : CountsWithout(p, counts)[u] + lost'[u]
                             = counts[u] + lost[u]
    BY <2>1, <2>2, DeletedViews DEF TerminalInv, TerminalTypeOK
  <2>4. /\ settled' \in [Sessions -> Texts \cup {NoPage}] /\ Home \in Urls
    BY <2>1, TerminalAssumption DEF TerminalInv, TerminalTypeOK
  <2>. DEFINE without == CountsWithout(p, counts)
              site == page'
  <2>5. /\ without \in [Keys -> Nat] /\ Go(s, a, site, without, Home)
        /\ \A u \in Keys : without[u] + lost'[u]
              = Cardinality(ViewsOf(people \cup {s}, shown, u))
    BY <2>1, <2>2, <2>3
  <2>. HIDE DEF without, site
  <2>6. QED
    BY <1>1, <2>1, <2>3, <2>4, <2>5, GoStep
<1>4. QED
  BY <1>2, <1>3

LEMMA PromptStep ==
    ASSUME TerminalInv, NEW s \in Sessions, term[s] \in Session,
           \/ Cancel(s) \/ SearchFor(s) \/ AnswerScript(s)
           \/ \E p \in Urls \cup HiddenPaths \cup ScriptPaths : Pick(s, p)
           \/ \E u \in Urls : Typed(s, u)
           \/ \E p \in NewPaths : NewPath(s, p)
    PROVE  TerminalInv'
<1>. DEFINE a == Answered(s)
<1>1. /\ a \in Session /\ a.live /\ a.mode = "browse" /\ ~ InEditor(a)
  BY AnsweredIs DEF InEditor
<1>. HIDE DEF a
<1>2. ASSUME Cancel(s) PROVE TerminalInv'
  BY <1>1, <1>2, BecomesQuietly DEF Cancel, a
<1>3. ASSUME SearchFor(s) PROVE TerminalInv'
  <2>. DEFINE t == ShowDoc(a, Search)
  <2>1. t \in Session /\ t.live /\ ~ InEditor(t)
    BY <1>1, TerminalAssumption, ZenonT(60) DEF ShowDoc, Session, InEditor
  <2>2. Becomes(s, t) /\ UNCHANGED settled
    BY <1>3 DEF SearchFor, a
  <2>. HIDE DEF t
  <2>3. QED
    BY <2>1, <2>2, BecomesQuietly
<1>4. ASSUME AnswerScript(s) PROVE TerminalInv'
  <2>1. PICK outcome \in Outcomes :
            Becomes(s, RanScript(a, a.scriptPath, a.url, outcome))
    BY <1>4 DEF AnswerScript, a
  <2>. DEFINE t == RanScript(a, a.scriptPath, a.url, outcome)
  <2>2. a.scriptPath \in Paths \cup {NoPath} /\ a.url \in Urls \cup {NoUrl}
    BY <1>1 DEF Session
  <2>3. t \in Session /\ t.live /\ ~ InEditor(t)
    BY <1>1, <2>2, RanScriptIs DEF InEditor
  <2>4. Becomes(s, t) /\ UNCHANGED settled
    BY <1>4, <2>1 DEF AnswerScript
  <2>. HIDE DEF t
  <2>5. QED
    BY <2>3, <2>4, BecomesQuietly
<1>5. ASSUME NEW p \in Urls \cup HiddenPaths \cup ScriptPaths, Pick(s, p)
      PROVE  TerminalInv'
  <2>1. CASE p \in HiddenPaths
    <3>1. p \in Paths
      BY <2>1, TerminalAssumption
    <3>2. EditsPage(s, p)
      BY <1>5, <2>1 DEF Pick
    <3>3. QED
      BY <3>1, <3>2, EditsPageStep
  <2>2. CASE p \notin HiddenPaths /\ p \in ScriptPaths
    <3>. DEFINE t == [a EXCEPT !.scriptPath = NoPath]
    <3>1. t \in Session /\ t.live /\ ~ InEditor(t)
      BY <1>1 DEF Session, InEditor
    <3>2. Becomes(s, t) /\ UNCHANGED settled
      BY <1>5, <2>2 DEF Pick, a
    <3>. HIDE DEF t
    <3>3. QED
      BY <3>1, <3>2, BecomesQuietly
  <2>3. CASE p \notin HiddenPaths /\ p \notin ScriptPaths
    <3>1. p \in Urls /\ Goes(s, a, p) /\ UNCHANGED settled
      BY <1>5, <2>3 DEF Pick, a
    <3>2. QED
      BY <1>1, <3>1, GoesStep
  <2>4. QED
    BY <2>1, <2>2, <2>3
<1>6. ASSUME NEW u \in Urls, Typed(s, u) PROVE TerminalInv'
  BY <1>1, <1>6, GoesStep DEF Typed, a
<1>7. ASSUME NEW p \in NewPaths, NewPath(s, p) PROVE TerminalInv'
  <2>1. p \in Paths /\ Empty \in Texts
    BY TerminalAssumption
  <2>2. QED
    BY <1>7, <2>1, EditsStep DEF NewPath
<1>8. QED
  BY <1>2, <1>3, <1>4, <1>5, <1>6, <1>7

LEMMA SaveWordsStep ==
    ASSUME TerminalInv, NEW s \in Sessions, term[s] \in Session, SaveWords(s)
    PROVE  TerminalInv'
<1>. DEFINE a == Awake(s)
            t == [a EXCEPT !.edDirty = FALSE]
            p == term[s].edPath
            words == term[s].ed
<1>1. a \in Session /\ a.live = TRUE /\ a.ed = words
  BY AwakeIs
<1>2. t \in Session /\ t.live /\ t.ed = words
  <2>. HIDE DEF a
  <2>1. QED
    BY <1>1 DEF Session
<1>3. p \in Paths /\ words \in Texts
  BY DEF SaveWords, Session
<1>4. /\ term' = [term EXCEPT ![s] = t] /\ hits' = CountsAwake(s)
      /\ page' = [page EXCEPT ![p] = words]
      /\ settled' = [settled EXCEPT ![s] = words]
      /\ people' = people \cup {s} /\ UNCHANGED <<lost, shown>>
  BY DEF SaveWords, Saved
<1>. HIDE DEF t, p, words
<1>5. /\ page' \in [Paths -> Texts \cup {NoPage}]
      /\ settled' \in [Sessions -> Texts \cup {NoPage}]
      /\ settled'[s] = words
      /\ lost' \in [Keys -> Nat] /\ shown' \in [Sessions -> [Keys -> Nat]]
      /\ \A r \in Sessions : r # s =>
            shown'[r] = shown[r] /\ settled'[r] = settled[r]
  BY <1>3, <1>4 DEF TerminalInv, TerminalTypeOK
<1>6. /\ hits' \in [Keys -> Nat]
      /\ \A u \in Keys : hits'[u] + lost[u]
            = Cardinality(ViewsOf(people \cup {s}, shown, u))
  BY <1>4, Waking
<1>7. ViewsAreOfPeople'
  BY <1>4, <1>6 DEF ViewsAreOfPeople, Views, ViewsOf
<1>8. QED
  BY <1>2, <1>4, <1>5, <1>6, <1>7, KeyStep

LEMMA PostNoteStep ==
    ASSUME TerminalInv, NEW s \in Sessions, term[s] \in Session, PostNote(s)
    PROVE  TerminalInv'
<1>. DEFINE a == Closed(s)
            words == term[s].ed
            u == term[s].url
            counts == CountsAwake(s)
            site == page'
<1>1. a \in Session /\ a.live /\ ~ InEditor(a)
  BY ClosedIs DEF InEditor
<1>2. PICK p \in NotePaths : Saved(s, p)
  BY DEF PostNote
<1>3. p \in Paths /\ words \in Texts /\ u \in Urls \cup {NoUrl}
  BY TerminalAssumption DEF Session
<1>4. /\ page' = [page EXCEPT ![p] = words]
      /\ settled' = [settled EXCEPT ![s] = words]
      /\ people' = people \cup {s} /\ lost' = lost
      /\ Go(s, a, site, counts, u)
  BY <1>2 DEF PostNote, Saved
<1>5. /\ counts \in [Keys -> Nat]
      /\ \A v \in Keys : counts[v] + lost[v]
            = Cardinality(ViewsOf(people \cup {s}, shown, v))
  BY Waking
<1>. HIDE DEF a, words, u, counts
<1>6. /\ page' \in [Paths -> Texts \cup {NoPage}]
      /\ settled' \in [Sessions -> Texts \cup {NoPage}]
      /\ lost' \in [Keys -> Nat]
      /\ \A r \in Sessions : r # s => settled'[r] = settled[r]
  BY <1>3, <1>4 DEF TerminalInv, TerminalTypeOK
<1>. HIDE DEF site
<1>7. \A v \in Keys : counts[v] + lost'[v]
            = Cardinality(ViewsOf(people \cup {s}, shown, v))
  BY <1>4, <1>5
<1>8. QED
  BY <1>1, <1>3, <1>4, <1>5, <1>6, <1>7, GoStep

LEMMA EditorStep ==
    ASSUME TerminalInv, NEW s \in Sessions, term[s] \in Session,
           \/ \E w \in Texts : TypeWords(s, w)
           \/ LeaveEditor(s) \/ OpenEditHelp(s) \/ CloseEditHelp(s)
    PROVE  TerminalInv'
<1>. DEFINE a == Awake(s)
<1>1. /\ a \in Session /\ a.live = TRUE /\ a.mode = term[s].mode
      /\ a.ed = term[s].ed /\ a.edDirty = term[s].edDirty
  BY AwakeIs
<1>. HIDE DEF a
<1>2. settled \in [Sessions -> Texts \cup {NoPage}]
  BY DEF TerminalInv, TerminalTypeOK
<1>3. ASSUME NEW w \in Texts, TypeWords(s, w) PROVE TerminalInv'
  <2>. DEFINE t == [a EXCEPT !.ed = w, !.edDirty = TRUE]
  <2>1. t \in Session /\ t.live /\ t.edDirty
    BY <1>1 DEF Session
  <2>2. Becomes(s, t) /\ settled' = [settled EXCEPT ![s] = NoPage]
    BY <1>3 DEF TypeWords, a
  <2>3. /\ settled' \in [Sessions -> Texts \cup {NoPage}]
        /\ \A r \in Sessions : r # s => settled'[r] = settled[r]
    BY <1>2, <2>2
  <2>. HIDE DEF t
  <2>4. QED
    BY <2>1, <2>2, <2>3, BecomesStep
<1>4. ASSUME LeaveEditor(s), term[s].edDirty PROVE TerminalInv'
  <2>. DEFINE t == [a EXCEPT !.edDirty = FALSE]
  <2>1. t \in Session /\ t.live /\ t.ed = term[s].ed /\ t.ed \in Texts
    BY <1>1 DEF Session
  <2>2. Becomes(s, t) /\ settled' = [settled EXCEPT ![s] = term[s].ed]
    BY <1>4 DEF LeaveEditor, a
  <2>. HIDE DEF t
  <2>3. /\ settled' \in [Sessions -> Texts \cup {NoPage}]
        /\ settled'[s] = term[s].ed
        /\ \A r \in Sessions : r # s => settled'[r] = settled[r]
    BY <1>2, <2>1, <2>2
  <2>4. QED
    BY <2>1, <2>2, <2>3, BecomesStep
<1>5. ASSUME LeaveEditor(s), ~ term[s].edDirty PROVE TerminalInv'
  <2>1. Closed(s) \in Session /\ Closed(s).live /\ ~ InEditor(Closed(s))
    BY ClosedIs DEF InEditor
  <2>2. /\ Goes(s, Closed(s), term[s].url) /\ UNCHANGED settled
        /\ term[s].url \in Urls \cup {NoUrl}
    BY <1>5 DEF LeaveEditor, Session
  <2>3. QED
    BY <2>1, <2>2, GoesStep
<1>6. ASSUME NEW m \in {"edit", "editHelp"},
             Becomes(s, [a EXCEPT !.mode = m]), UNCHANGED settled,
             InEditor(term[s])
      PROVE  TerminalInv'
  <2>. DEFINE t == [a EXCEPT !.mode = m]
  <2>1. /\ t \in Session /\ t.live /\ t.ed = term[s].ed
        /\ t.edDirty = term[s].edDirty
    BY <1>1 DEF Session
  <2>2. Becomes(s, t)
    BY <1>6
  <2>. HIDE DEF t
  <2>3. QED
    BY <1>6, <2>1, <2>2, BecomesQuietly
<1>7. ASSUME OpenEditHelp(s) PROVE TerminalInv'
  BY <1>6, <1>7 DEF OpenEditHelp, Editing, InEditor, a
<1>8. ASSUME CloseEditHelp(s) PROVE TerminalInv'
  BY <1>6, <1>8 DEF CloseEditHelp, InEditor, a
<1>9. QED
  BY <1>3, <1>4, <1>5, <1>7, <1>8

LEMMA OtherDoors ==
    ASSUME TerminalInv, NEW p \in NewPaths,
           (\E w \in Texts : OtherSave(p, w)) \/ OtherDelete(p)
    PROVE  TerminalInv'
<1>. USE DEF TerminalInv
<1>1. UNCHANGED <<term, people, shown, settled>>
  BY DEF OtherSave, OtherDelete
<1>. DEFINE Balanced ==
              /\ page' \in [Paths -> Texts \cup {NoPage}]
              /\ hits' \in [Keys -> Nat] /\ lost' \in [Keys -> Nat]
              /\ \A u \in Keys : hits'[u] + lost'[u] = hits[u] + lost[u]
<1>2. Balanced
  <2>1. ASSUME NEW w \in Texts, OtherSave(p, w) PROVE Balanced
    <3>1. page' = [page EXCEPT ![p] = w] /\ UNCHANGED <<hits, lost>>
      BY <2>1 DEF OtherSave
    <3>2. QED
      BY <3>1, TerminalAssumption DEF TerminalTypeOK
  <2>2. ASSUME OtherDelete(p) PROVE Balanced
    <3>1. Deletes(p, hits) /\ hits' = CountsWithout(p, hits)
      BY <2>2 DEF OtherDelete
    <3>2. QED
      BY <3>1, DeletedViews DEF TerminalTypeOK
  <2>3. QED
    BY <2>1, <2>2
<1>3. TerminalTypeOK'
  BY <1>1, <1>2 DEF TerminalTypeOK
<1>4. Debts'
  BY <1>1 DEF Debts, Present, ShownOnce
<1>5. WordsAreSettled'
  BY <1>1 DEF WordsAreSettled, InEditor
<1>6. ViewsAreOfPeople'
  BY <1>1, <1>2, ZenonT(60) DEF ViewsAreOfPeople, Views
<1>7. QED
  BY <1>3, <1>4, <1>5, <1>6

-----------------------------------------------------------------------------
(***************************************************************************)
(* The specification.                                                      *)
(***************************************************************************)

LEMMA TerminalStart ==
    ASSUME TerminalInit
    PROVE  TerminalInv
<1>. USE DEF TerminalInit
<1>1. TerminalTypeOK
  BY TerminalAssumption DEF TerminalTypeOK
<1>2. Debts /\ WordsAreSettled
  BY SessionModes DEF Debts, WordsAreSettled, Present, InEditor
<1>3. ViewsAreOfPeople
  <2>. SUFFICES ASSUME NEW u \in Keys
                PROVE  hits[u] + lost[u] = Cardinality(Views(u))
    BY DEF ViewsAreOfPeople
  <2>1. Views(u) = {}
    BY DEF Views
  <2>2. QED
    BY <2>1, FS_EmptySet
<1>4. QED
  BY <1>1, <1>2, <1>3 DEF TerminalInv

\* Every key is for a session that is there.
LEMMA KeysArePresent ==
    ASSUME TerminalInv, NEW s \in Sessions,
           term[s].mode \in {"browse", "edit", "editHelp", "input", "confirm"}
    PROVE  term[s] \in Session
BY PresentIsSession DEF TerminalInv, Present

LEMMA TerminalStep ==
    ASSUME TerminalInv, [TerminalNext]_terminalVars
    PROVE  TerminalInv'
<1>1. ASSUME NEW s \in Sessions, Connect(s) PROVE TerminalInv'
  BY <1>1, ConnectStep
<1>2. ASSUME NEW s \in Sessions, Disconnect(s) PROVE TerminalInv'
  BY <1>2, DisconnectStep
<1>3. ASSUME NEW s \in Sessions, Stir(s) PROVE TerminalInv'
  BY <1>3, StirStep
<1>4. ASSUME NEW s \in Sessions,
             \/ \E u \in Urls : Follow(s, u) \/ Back(s, u)
             \/ Reload(s) \/ ShowHelp(s) \/ SearchLink(s)
             \/ AskGoto(s) \/ AskSearch(s) \/ AskNewPath(s) \/ AskDelete(s)
             \/ EditShown(s) \/ WriteNote(s)
      PROVE  TerminalInv'
  <2>1. term[s].mode = "browse"
    BY <1>4 DEF Follow, Back, Reload, ShowHelp, SearchLink, AskGoto, AskSearch,
                AskNewPath, AskDelete, EditShown, WriteNote, Browsing
  <2>2. QED
    BY <1>4, <2>1, KeysArePresent, BrowseStep
<1>5. ASSUME NEW s \in Sessions,
             \/ Cancel(s) \/ SearchFor(s) \/ AnswerScript(s)
             \/ \E p \in Urls \cup HiddenPaths \cup ScriptPaths : Pick(s, p)
             \/ \E u \in Urls : Typed(s, u)
             \/ \E p \in NewPaths : NewPath(s, p)
      PROVE  TerminalInv'
  <2>1. term[s].mode \in {"input", "confirm"}
    BY <1>5 DEF Cancel, SearchFor, AnswerScript, Pick, Typed, NewPath, Asked
  <2>2. QED
    BY <1>5, <2>1, KeysArePresent, PromptStep
<1>6. ASSUME NEW s \in Sessions, ConfirmDelete(s) PROVE TerminalInv'
  BY <1>6, KeysArePresent, ConfirmDeleteStep DEF ConfirmDelete
<1>7. ASSUME NEW s \in Sessions,
             \/ \E w \in Texts : TypeWords(s, w)
             \/ LeaveEditor(s) \/ OpenEditHelp(s) \/ CloseEditHelp(s)
      PROVE  TerminalInv'
  <2>1. term[s].mode \in {"edit", "editHelp"}
    BY <1>7 DEF TypeWords, LeaveEditor, OpenEditHelp, CloseEditHelp, Editing
  <2>2. QED
    BY <1>7, <2>1, KeysArePresent, EditorStep
<1>8. ASSUME NEW s \in Sessions, SaveWords(s) PROVE TerminalInv'
  BY <1>8, KeysArePresent, SaveWordsStep DEF SaveWords, Editing
<1>9. ASSUME NEW s \in Sessions, PostNote(s) PROVE TerminalInv'
  BY <1>9, KeysArePresent, PostNoteStep DEF PostNote, Editing
<1>10. ASSUME NEW p \in NewPaths,
              (\E w \in Texts : OtherSave(p, w)) \/ OtherDelete(p)
       PROVE  TerminalInv'
  BY <1>10, OtherDoors
<1>11. CASE UNCHANGED terminalVars
  BY <1>11 DEF terminalVars, TerminalInv, TerminalTypeOK, Debts, Present,
               ShownOnce, WordsAreSettled, InEditor, ViewsAreOfPeople, Views
<1>12. QED
  BY <1>1, <1>2, <1>3, <1>4, <1>5, <1>6, <1>7, <1>8, <1>9, <1>10, <1>11
     DEF TerminalNext

LEMMA TerminalAlways == TerminalSpec => []TerminalInv
<1>1. TerminalInit => TerminalInv
  BY TerminalStart
<1>2. TerminalInv /\ [TerminalNext]_terminalVars => TerminalInv'
  BY TerminalStep
<1>3. QED
  BY <1>1, <1>2, PTL DEF TerminalSpec

\* The counters hold every view of a session that was used, the one it was
\* greeted with included and once, and none of a session that only connected,
\* until the page is deleted (ui.go:213).
THEOREM CountersCountPeople == TerminalSpec => []ViewsAreOfPeople
<1>1. TerminalInv => ViewsAreOfPeople
  BY DEF TerminalInv
<1>2. QED
  BY <1>1, TerminalAlways, PTL

-----------------------------------------------------------------------------
(***************************************************************************)
(* Words that are taken away.                                              *)
(***************************************************************************)

\* A step closes at most one editor: that of a session which left it, or
\* which posted the note it held.
LEMMA WhoLeaves ==
    ASSUME TerminalInv, [TerminalNext]_terminalVars, NEW s \in Sessions,
           InEditor(term[s]), ~ InEditor(term'[s]), term'[s] # Gone
    PROVE  \/ LeaveEditor(s) /\ ~ term[s].edDirty
           \/ PostNote(s)
<1>. DEFINE Changes(r) == \E t : term' = [term EXCEPT ![r] = t]
<1>1. term \in [Sessions -> Session \cup {Away, Gone}]
  BY DEF TerminalInv, TerminalTypeOK
<1>2. term'[s] # term[s]
  OBVIOUS
<1>3. term[s].mode \in {"edit", "editHelp"}
  BY DEF InEditor
<1>4. ASSUME NEW r \in Sessions, Changes(r) PROVE r = s
  BY <1>1, <1>2, <1>4
<1>5. ASSUME NEW t, Becomes(s, t) PROVE term'[s] = t
  BY <1>1, <1>5 DEF Becomes
<1>6. ASSUME NEW r, NEW t, Becomes(r, t) PROVE Changes(r)
  BY <1>6 DEF Becomes
<1>7. ASSUME NEW r, NEW t, NEW u, Goes(r, t, u) PROVE Changes(r)
  BY <1>7 DEF Goes, Go
<1>8. ASSUME NEW r, NEW p, NEW words, Edits(r, p, words) PROVE Changes(r)
  BY <1>6, <1>8 DEF Edits
<1>9. ASSUME NEW r, NEW p, EditsPage(r, p) PROVE Changes(r)
  BY <1>6, <1>8, <1>9 DEF EditsPage
<1>10. ASSUME NEW r \in Sessions, Connect(r) PROVE FALSE
  <2>1. Changes(r) /\ term[r] = Away
    BY <1>10 DEF Connect, Go
  <2>2. QED
    BY <1>3, <1>4, <2>1, SessionModes
<1>11. ASSUME NEW r \in Sessions, Disconnect(r) PROVE FALSE
  <2>1. term' = [term EXCEPT ![r] = Gone]
    BY <1>11 DEF Disconnect
  <2>2. QED
    BY <1>1, <1>4, <2>1
<1>12. ASSUME NEW r \in Sessions, Stir(r) PROVE FALSE
  <2>1. Becomes(r, Awake(r))
    BY <1>12 DEF Stir
  <2>2. r = s
    BY <1>4, <1>6, <2>1
  <2>3. term[s] \in Session
    BY <1>3, KeysArePresent
  <2>4. QED
    BY <1>5, <2>1, <2>2, <2>3, AwakeIs DEF InEditor
<1>13. ASSUME NEW r \in Sessions, Browsing(r), Changes(r) PROVE FALSE
  BY <1>3, <1>4, <1>13 DEF Browsing
<1>14. ASSUME NEW r \in Sessions, term[r].mode \in {"input", "confirm"},
              Changes(r)
       PROVE  FALSE
  BY <1>3, <1>4, <1>14
<1>. HIDE DEF Changes
<1>15. ASSUME NEW r \in Sessions,
              \/ \E u \in Urls : Follow(r, u) \/ Back(r, u)
              \/ Reload(r) \/ ShowHelp(r) \/ SearchLink(r)
              \/ AskGoto(r) \/ AskSearch(r) \/ AskNewPath(r) \/ AskDelete(r)
              \/ EditShown(r) \/ WriteNote(r)
       PROVE  FALSE
  <2>1. Browsing(r)
    BY <1>15 DEF Follow, Back, Reload, ShowHelp, SearchLink, AskGoto,
                 AskSearch, AskNewPath, AskDelete, EditShown, WriteNote
  <2>2. Changes(r)
    BY <1>6, <1>7, <1>8, <1>9, <1>15
       DEF Follow, Back, Reload, ShowHelp, SearchLink, AskGoto, AskSearch,
           AskNewPath, AskDelete, EditShown, WriteNote
  <2>3. QED
    BY <1>13, <2>1, <2>2
<1>16. ASSUME NEW r \in Sessions,
              \/ Cancel(r) \/ SearchFor(r) \/ AnswerScript(r)
              \/ \E p \in Urls \cup HiddenPaths \cup ScriptPaths : Pick(r, p)
              \/ \E u \in Urls : Typed(r, u)
              \/ \E p \in NewPaths : NewPath(r, p)
              \/ ConfirmDelete(r)
       PROVE  FALSE
  <2>1. term[r].mode \in {"input", "confirm"}
    BY <1>16 DEF Cancel, SearchFor, AnswerScript, Pick, Typed, NewPath,
                 ConfirmDelete, Asked
  <2>2. CASE ConfirmDelete(r)
    <3>1. CASE Becomes(r, Answered(r))
      BY <1>6, <1>14, <2>1, <3>1
    <3>2. CASE \E t, site, counts, u : Go(r, t, site, counts, u)
      <4>1. Changes(r)
        BY <3>2 DEF Go, Changes
      <4>2. QED
        BY <1>14, <2>1, <4>1
    <3>3. QED
      BY <2>2, <3>1, <3>2 DEF ConfirmDelete
  <2>3. CASE AnswerScript(r)
    BY <1>6, <1>14, <2>1, <2>3 DEF AnswerScript
  <2>4. CASE \E p \in Urls \cup HiddenPaths \cup ScriptPaths : Pick(r, p)
    BY <1>6, <1>7, <1>9, <1>14, <2>1, <2>4 DEF Pick
  <2>5. CASE \/ Cancel(r) \/ SearchFor(r) \/ \E u \in Urls : Typed(r, u)
             \/ \E p \in NewPaths : NewPath(r, p)
    BY <1>6, <1>7, <1>8, <1>14, <2>1, <2>5 DEF Cancel, SearchFor, Typed, NewPath
  <2>6. QED
    BY <1>16, <2>2, <2>3, <2>4, <2>5
<1>17. ASSUME NEW r \in Sessions,
              \/ \E w \in Texts : TypeWords(r, w)
              \/ OpenEditHelp(r) \/ CloseEditHelp(r) \/ SaveWords(r)
       PROVE  FALSE
  <2>1. PICK t : /\ term' = [term EXCEPT ![r] = t]
                 /\ \/ t = [Awake(r) EXCEPT !.edDirty = FALSE]
                    \/ \E w \in Texts :
                          t = [Awake(r) EXCEPT !.ed = w, !.edDirty = TRUE]
                    \/ \E m \in {"edit", "editHelp"} :
                          t = [Awake(r) EXCEPT !.mode = m]
    BY <1>17 DEF TypeWords, OpenEditHelp, CloseEditHelp, SaveWords, Becomes
  <2>2. r = s
    BY <1>4, <2>1 DEF Changes
  <2>3. term'[s] = t
    BY <1>1, <2>1, <2>2
  <2>. DEFINE a == Awake(s)
  <2>4. a \in Session /\ a.mode \in {"edit", "editHelp"}
    BY <1>3, KeysArePresent, AwakeIs
  <2>. HIDE DEF a
  <2>5. t.mode \in {"edit", "editHelp"}
    BY <2>1, <2>2, <2>4 DEF a, Session
  <2>6. QED
    BY <2>3, <2>5 DEF InEditor
<1>18. ASSUME NEW r \in Sessions, LeaveEditor(r) \/ PostNote(r)
       PROVE  (LeaveEditor(s) /\ ~ term[s].edDirty) \/ PostNote(s)
  <2>1. r = s
    BY <1>4, <1>6, <1>7, <1>18 DEF LeaveEditor, PostNote, Go, Changes
  <2>2. CASE LeaveEditor(s) /\ term[s].edDirty
    <3>. DEFINE a == Awake(s)
    <3>1. a \in Session /\ a.mode \in {"edit", "editHelp"}
      BY <1>3, KeysArePresent, AwakeIs
    <3>. HIDE DEF a
    <3>2. [a EXCEPT !.edDirty = FALSE].mode = a.mode
      BY <3>1 DEF Session
    <3>3. term'[s] = [a EXCEPT !.edDirty = FALSE]
      BY <1>5, <2>2 DEF LeaveEditor, a
    <3>4. QED
      BY <3>1, <3>2, <3>3 DEF InEditor
  <2>3. QED
    BY <1>18, <2>1, <2>2
<1>19. ASSUME NEW p, (\E w \in Texts : OtherSave(p, w)) \/ OtherDelete(p)
       PROVE  FALSE
  BY <1>2, <1>19 DEF OtherSave, OtherDelete
<1>20. CASE UNCHANGED terminalVars
  BY <1>2, <1>20 DEF terminalVars
<1>21. QED
  BY <1>10, <1>11, <1>12, <1>15, <1>16, <1>17, <1>18, <1>19, <1>20
     DEF TerminalNext

\* A key takes nobody's words away unless they are what was opened or saved,
\* or a warning was given since they were last changed (ui.go:721).
THEOREM NoWordsAreDropped == TerminalSpec => DiscardsAreWarned
<1>. DEFINE Warned ==
              \A s \in Sessions :
                  InEditor(term[s]) /\ ~ InEditor(term'[s]) /\ term'[s] # Gone
                      => settled'[s] = term[s].ed
<1>1. TerminalInv /\ [TerminalNext]_terminalVars => Warned
  <2>. SUFFICES ASSUME TerminalInv, [TerminalNext]_terminalVars,
                       NEW s \in Sessions, InEditor(term[s]),
                       ~ InEditor(term'[s]), term'[s] # Gone
                PROVE  settled'[s] = term[s].ed
    OBVIOUS
  <2>1. CASE LeaveEditor(s) /\ ~ term[s].edDirty
    BY <2>1 DEF LeaveEditor, TerminalInv, WordsAreSettled
  <2>2. CASE PostNote(s)
    BY <2>2 DEF PostNote, Saved, TerminalInv, TerminalTypeOK
  <2>3. QED
    BY <2>1, <2>2, WhoLeaves
<1>2. QED
  BY <1>1, TerminalAlways, PTL DEF TerminalSpec, DiscardsAreWarned

-----------------------------------------------------------------------------
(***************************************************************************)
(* Visitors.  What a key does in the editor, or when a deletion is to be   *)
(* confirmed, does not ask who pressed it: what keeps a visitor from it is *)
(* that no key leads there, and that no prompt of a visitor offers a       *)
(* hidden page, since those open in the editor.                            *)
(***************************************************************************)

Quiet(t) ==
    /\ t \in Session
    /\ t.mode \in {"browse", "input"}
    /\ t.inputKind # "newPath"
    /\ t.picks \cap HiddenPaths = {}

VisitorsAreQuiet == \A s \in Sessions \ Admins : Present(s) => Quiet(term[s])

\* What a key of s does: a visitor stays one.
KeyOf(s) ==
    \E t : /\ term' = [term EXCEPT ![s] = t]
           /\ s \notin Admins =>
                /\ t = Gone \/ Quiet(t)
                /\ page' = page

LEMMA QuietPrompt ==
    ASSUME NEW t \in Session, NEW kind \in {"goto", "search", "script", "none"},
           NEW picks \in SUBSET (Urls \cup HiddenPaths \cup ScriptPaths),
           picks \cap HiddenPaths = {}
    PROVE  Quiet(Prompted(t, kind, picks))
BY DEF Quiet, Prompted, Session

LEMMA QuietScript ==
    ASSUME NEW t, Quiet(t), NEW p \in Paths \cup {NoPath},
           NEW u \in Urls \cup {NoUrl}, NEW outcome \in Outcomes
    PROVE  Quiet(RanScript(t, p, u, outcome))
<1>. DEFINE after == [t EXCEPT !.url = u, !.sourcePath = NoPath,
                               !.scriptPath = p]
<1>1. Quiet(after)
  BY DEF Quiet, Session
<1>. HIDE DEF after
<1>2. Quiet([after EXCEPT !.mode = "browse"])
  BY <1>1 DEF Quiet, Session
<1>3. Quiet(Prompted(after, "script", {}))
  BY <1>1, QuietPrompt DEF Quiet
<1>4. RanScript(t, p, u, outcome) \in
        {t, [after EXCEPT !.mode = "browse"], Prompted(after, "script", {})}
  BY DEF RanScript, after
<1>5. QED
  BY <1>1, <1>2, <1>3, <1>4

LEMMA QuietLanding ==
    ASSUME NEW t, Quiet(t), NEW site, NEW u \in Urls,
           NEW outcome \in Outcomes
    PROVE  Quiet(Landed(t, site, u, outcome))
<1>. DEFINE plain == [t EXCEPT !.scriptPath = NoPath]
<1>1. Quiet(plain)
  BY DEF Quiet, Session
<1>2. ASSUME NEW v \in Urls PROVE Quiet(Shown(plain, site, v))
  <2>. HIDE DEF plain
  <2>1. QED
    BY <1>1, SourceType DEF Shown, Quiet, Session
<1>3. Quiet(Prompted(plain, "search", {}))
  BY <1>1, QuietPrompt DEF Quiet
<1>4. Landed(t, site, u, outcome) \in
        {Prompted(plain, "search", {}), Shown(plain, site, u),
         Shown(plain, site, SlashOf[u]), plain}
        \/ (IsScript(site, u)
             /\ Landed(t, site, u, outcome) = RanScript(t, PageAt(site, u), u, outcome))
  BY DEF Landed
<1>. HIDE DEF plain
<1>5. SlashOf[u] \in Urls
  BY TerminalAssumption
<1>6. IsScript(site, u) => Quiet(RanScript(t, PageAt(site, u), u, outcome))
  BY ScriptPage, QuietScript
<1>7. QED
  BY <1>1, <1>2, <1>3, <1>4, <1>5, <1>6

LEMMA QuietGoing ==
    ASSUME NEW s \in Sessions, NEW t, s \notin Admins => Quiet(t), NEW site,
           NEW counts, NEW u \in Urls \cup {NoUrl}, Go(s, t, site, counts, u),
           s \notin Admins => page' = page
    PROVE  KeyOf(s)
<1>. DEFINE to == IF u = NoUrl THEN Home ELSE u
<1>1. to \in Urls
  BY TerminalAssumption
<1>2. PICK outcome \in Outcomes :
        term' = [term EXCEPT ![s] = Landed(t, site, to, outcome)]
  BY DEF Go
<1>. HIDE DEF to
<1>3. s \notin Admins => Quiet(Landed(t, site, to, outcome))
  BY <1>1, QuietLanding
<1>4. QED
  BY <1>2, <1>3 DEF KeyOf

LEMMA QuietWaking ==
    ASSUME NEW s \in Sessions, term[s] \in Session
    PROVE  /\ Awake(s) \in Session
           /\ Quiet(Answered(s))
           /\ Quiet(term[s]) => Quiet(Awake(s))
<1>1. Awake(s) \in Session
  BY DEF Awake, Session
<1>. DEFINE t == Awake(s)
<1>2. Quiet(Answered(s))
  <2>1. Answered(s) = [t EXCEPT !.mode = "browse", !.inputKind = "none",
                                !.picks = {}]
    BY DEF Answered
  <2>2. t \in Session
    BY <1>1
  <2>. HIDE DEF t
  <2>3. Answered(s).mode = "browse" /\ Answered(s).inputKind = "none"
        /\ Answered(s).picks = {}
    BY <2>1, <2>2 DEF Session
  <2>4. Answered(s) \in Session
    BY AnsweredIs
  <2>5. QED
    BY <2>3, <2>4 DEF Quiet
<1>3. Quiet(term[s]) => Quiet(Awake(s))
  BY <1>1 DEF Awake, Session, Quiet
<1>4. QED
  BY <1>1, <1>2, <1>3

\* A key that only changes the session.
LEMMA QuietKey ==
    ASSUME NEW s \in Sessions, NEW t, s \notin Admins => Quiet(t), Becomes(s, t)
    PROVE  KeyOf(s)
BY DEF Becomes, KeyOf

LEMMA QuietQuestions ==
    ASSUME TerminalTypeOK, NEW s \in Sessions, s \notin Admins
    PROVE  Picks(s) \in SUBSET (Urls \cup HiddenPaths \cup ScriptPaths)
           /\ Picks(s) \cap HiddenPaths = {}
<1>1. \A p \in Paths \ (ScriptPaths \cup HiddenPaths) :
        UrlOf[p] \in Urls /\ UrlOf[p] \notin HiddenPaths
  BY TerminalAssumption
<1>2. QED
  BY <1>1 DEF Picks

LEMMA BrowsingIsQuiet ==
    ASSUME TerminalTypeOK, VisitorsAreQuiet, NEW s \in Sessions,
           \/ \E u \in Urls : Follow(s, u) \/ Back(s, u)
           \/ Reload(s) \/ ShowHelp(s) \/ SearchLink(s)
           \/ AskGoto(s) \/ AskSearch(s) \/ AskNewPath(s) \/ AskDelete(s)
           \/ EditShown(s) \/ WriteNote(s)
    PROVE  KeyOf(s)
<1>. DEFINE a == Awake(s)
<1>1. term[s] \in Session
  <2>1. term[s].mode = "browse"
    BY DEF Follow, Back, Reload, ShowHelp, SearchLink, AskGoto, AskSearch,
           AskNewPath, AskDelete, EditShown, WriteNote, Browsing
  <2>2. QED
    BY <2>1, PresentIsSession DEF Present
<1>2. s \notin Admins => Quiet(a)
  BY <1>1, QuietWaking, PresentIsSession DEF VisitorsAreQuiet
<1>3. term[s].url \in Urls \cup {NoUrl}
  BY <1>1 DEF Session
<1>. HIDE DEF a
<1>4. ASSUME NEW u \in Urls, Follow(s, u) PROVE KeyOf(s)
  BY <1>2, <1>4, QuietGoing DEF Follow, Goes, a
<1>5. ASSUME NEW u \in Urls, Back(s, u) PROVE KeyOf(s)
  <2>. DEFINE t == [a EXCEPT !.url = NoUrl]
  <2>1. s \notin Admins => Quiet(t)
    BY <1>2 DEF Quiet, Session
  <2>2. Go(s, t, page, CountsAwake(s), u) /\ page' = page
    BY <1>5 DEF Back, Goes, a
  <2>. HIDE DEF t
  <2>3. QED
    BY <2>1, <2>2, QuietGoing
<1>6. ASSUME Reload(s) PROVE KeyOf(s)
  BY <1>2, <1>3, <1>6, QuietGoing DEF Reload, Goes, a
<1>7. ASSUME NEW b, s \notin Admins => Quiet(b), NEW u \in Urls,
             Becomes(s, ShowDoc(b, u))
      PROVE  KeyOf(s)
  <2>. DEFINE t == ShowDoc(b, u)
  <2>1. s \notin Admins => Quiet(t)
    BY <1>7 DEF ShowDoc, Quiet, Session
  <2>2. Becomes(s, t)
    BY <1>7
  <2>. HIDE DEF t
  <2>3. QED
    BY <2>1, <2>2, QuietKey
<1>8. ASSUME ShowHelp(s) PROVE KeyOf(s)
  BY <1>2, <1>7, <1>8, TerminalAssumption DEF ShowHelp, a
<1>9. ASSUME SearchLink(s) PROVE KeyOf(s)
  <2>1. s \notin Admins => Quiet([a EXCEPT !.scriptPath = NoPath])
    BY <1>2 DEF Quiet, Session
  <2>2. Becomes(s, ShowDoc([a EXCEPT !.scriptPath = NoPath], Search))
    BY <1>9 DEF SearchLink, a
  <2>3. QED
    BY <1>7, <2>1, <2>2, TerminalAssumption
<1>10. ASSUME AskGoto(s) PROVE KeyOf(s)
  <2>1. s \notin Admins => Quiet(Prompted(a, "goto", Picks(s)))
    BY <1>2, QuietQuestions, QuietPrompt DEF Quiet
  <2>2. Becomes(s, Prompted(a, "goto", Picks(s)))
    BY <1>10 DEF AskGoto, a
  <2>3. QED
    BY <2>1, <2>2, QuietKey
<1>11. ASSUME AskSearch(s) PROVE KeyOf(s)
  <2>1. s \notin Admins => Quiet(Prompted(a, "search", {}))
    BY <1>2, QuietPrompt DEF Quiet
  <2>2. Becomes(s, Prompted(a, "search", {}))
    BY <1>11 DEF AskSearch, a
  <2>3. QED
    BY <2>1, <2>2, QuietKey
<1>12. ASSUME AskNewPath(s) \/ AskDelete(s) PROVE KeyOf(s)
  BY <1>12 DEF AskNewPath, AskDelete, Becomes, KeyOf
<1>13. ASSUME EditShown(s) \/ WriteNote(s) PROVE KeyOf(s)
  BY <1>13 DEF EditShown, WriteNote, EditsPage, Edits, Becomes, KeyOf
<1>14. QED
  BY <1>4, <1>5, <1>6, <1>8, <1>9, <1>10, <1>11, <1>12, <1>13

LEMMA PromptsAreQuiet ==
    ASSUME TerminalTypeOK, VisitorsAreQuiet, NEW s \in Sessions,
           \/ Cancel(s) \/ SearchFor(s) \/ AnswerScript(s) \/ ConfirmDelete(s)
           \/ \E p \in Urls \cup HiddenPaths \cup ScriptPaths : Pick(s, p)
           \/ \E u \in Urls : Typed(s, u)
           \/ \E p \in NewPaths : NewPath(s, p)
    PROVE  KeyOf(s)
<1>. DEFINE a == Answered(s)
<1>1. term[s] \in Session
  <2>1. term[s].mode \in {"input", "confirm"}
    BY DEF Cancel, SearchFor, AnswerScript, ConfirmDelete, Pick, Typed, NewPath,
           Asked
  <2>2. QED
    BY <2>1, PresentIsSession DEF Present
<1>2. Quiet(a)
  BY <1>1, QuietWaking
<1>3. s \notin Admins => Quiet(term[s])
  BY <1>1, PresentIsSession DEF VisitorsAreQuiet
<1>4. a.scriptPath \in Paths \cup {NoPath} /\ a.url \in Urls \cup {NoUrl}
  BY <1>2 DEF Quiet, Session
<1>. HIDE DEF a
<1>5. ASSUME Cancel(s) PROVE KeyOf(s)
  BY <1>2, <1>5, QuietKey DEF Cancel, a
<1>6. ASSUME SearchFor(s) PROVE KeyOf(s)
  <2>1. Quiet(ShowDoc(a, Search))
    BY <1>2, TerminalAssumption DEF ShowDoc, Quiet, Session
  <2>2. Becomes(s, ShowDoc(a, Search))
    BY <1>6 DEF SearchFor, a
  <2>3. QED
    BY <2>1, <2>2, QuietKey
<1>7. ASSUME AnswerScript(s) PROVE KeyOf(s)
  <2>1. PICK outcome \in Outcomes :
          Becomes(s, RanScript(a, a.scriptPath, a.url, outcome))
    BY <1>7 DEF AnswerScript, a
  <2>2. Quiet(RanScript(a, a.scriptPath, a.url, outcome))
    BY <1>2, <1>4, QuietScript
  <2>3. QED
    BY <2>1, <2>2, QuietKey
<1>8. ASSUME ConfirmDelete(s) PROVE KeyOf(s)
  <2>1. s \in Admins
    BY <1>3, <1>8 DEF ConfirmDelete, Quiet
  <2>2. CASE page[term[s].sourcePath] = NoPage
    BY <1>2, <1>8, <2>2, QuietKey DEF ConfirmDelete, a
  <2>3. CASE page[term[s].sourcePath] # NoPage
    <3>1. PICK counts : Go(s, a, page', counts, Home)
      BY <1>8, <2>3 DEF ConfirmDelete, a
    <3>2. QED
      BY <1>2, <2>1, <3>1, QuietGoing, TerminalAssumption
  <2>4. QED
    BY <2>2, <2>3
<1>9. ASSUME NEW p \in Urls \cup HiddenPaths \cup ScriptPaths, Pick(s, p)
      PROVE  KeyOf(s)
  <2>1. CASE p \in HiddenPaths
    <3>1. s \in Admins
      BY <1>3, <1>9, <2>1 DEF Pick, Quiet
    <3>2. \E t : term' = [term EXCEPT ![s] = t]
      BY <1>9, <2>1 DEF Pick, EditsPage, Edits, Becomes
    <3>3. QED
      BY <3>1, <3>2 DEF KeyOf
  <2>2. CASE p \notin HiddenPaths /\ p \in ScriptPaths
    <3>1. Becomes(s, [a EXCEPT !.scriptPath = NoPath])
      BY <1>9, <2>2 DEF Pick, a
    <3>2. Quiet([a EXCEPT !.scriptPath = NoPath])
      BY <1>2 DEF Quiet, Session
    <3>3. QED
      BY <3>1, <3>2, QuietKey
  <2>3. CASE p \notin HiddenPaths /\ p \notin ScriptPaths
    BY <1>2, <1>9, <2>3, QuietGoing DEF Pick, Goes, a
  <2>4. QED
    BY <2>1, <2>2, <2>3
<1>10. ASSUME NEW u \in Urls, Typed(s, u) PROVE KeyOf(s)
  BY <1>2, <1>10, QuietGoing DEF Typed, Goes, a
<1>11. ASSUME NEW p \in NewPaths, NewPath(s, p) PROVE KeyOf(s)
  <2>1. s \in Admins
    BY <1>3, <1>11 DEF NewPath, Asked, Quiet
  <2>2. \E t : term' = [term EXCEPT ![s] = t]
    BY <1>11 DEF NewPath, Edits, Becomes
  <2>3. QED
    BY <2>1, <2>2 DEF KeyOf
<1>12. QED
  BY <1>5, <1>6, <1>7, <1>8, <1>9, <1>10, <1>11

\* The keys of the editor ask for no rights, and need none to be asked.
LEMMA EditorIsForAdmins ==
    ASSUME TerminalTypeOK, VisitorsAreQuiet, NEW s \in Sessions,
           \/ \E w \in Texts : TypeWords(s, w)
           \/ LeaveEditor(s) \/ OpenEditHelp(s) \/ CloseEditHelp(s)
           \/ SaveWords(s) \/ PostNote(s)
    PROVE  KeyOf(s)
<1>1. InEditor(term[s])
  BY DEF TypeWords, LeaveEditor, OpenEditHelp, CloseEditHelp, SaveWords,
         PostNote, Editing, InEditor
<1>2. s \in Admins
  BY <1>1 DEF VisitorsAreQuiet, Present, Quiet, InEditor
<1>3. \E t : term' = [term EXCEPT ![s] = t]
  BY DEF TypeWords, LeaveEditor, OpenEditHelp, CloseEditHelp, SaveWords,
         PostNote, Becomes, Goes, Go
<1>4. QED
  BY <1>2, <1>3 DEF KeyOf

LEMMA EverySession ==
    ASSUME TerminalTypeOK, VisitorsAreQuiet, TerminalNext
    PROVE  (\E s \in Sessions : KeyOf(s)) \/ UNCHANGED term
<1>1. ASSUME NEW s \in Sessions, Connect(s) PROVE KeyOf(s)
  <2>1. Quiet(Fresh)
    BY TerminalAssumption DEF Quiet, Fresh, Session
  <2>2. QED
    BY <1>1, <2>1, QuietGoing, TerminalAssumption DEF Connect
<1>2. ASSUME NEW s \in Sessions, Disconnect(s) PROVE KeyOf(s)
  BY <1>2 DEF Disconnect, KeyOf
<1>3. ASSUME NEW s \in Sessions, Stir(s) PROVE KeyOf(s)
  <2>1. term[s] \in Session /\ Present(s)
    BY <1>3, PresentIsSession DEF Stir
  <2>2. s \notin Admins => Quiet(Awake(s))
    BY <2>1, QuietWaking DEF VisitorsAreQuiet
  <2>3. QED
    BY <1>3, <2>2, QuietKey DEF Stir
<1>4. ASSUME NEW p \in NewPaths,
             OtherDelete(p) \/ \E w \in Texts : OtherSave(p, w)
      PROVE  UNCHANGED term
  BY <1>4 DEF OtherDelete, OtherSave
<1>5. QED
  BY <1>1, <1>2, <1>3, <1>4, BrowsingIsQuiet, PromptsAreQuiet,
     EditorIsForAdmins DEF TerminalNext

LEMMA VisitorsStep ==
    ASSUME TerminalTypeOK, TerminalTypeOK', VisitorsAreQuiet,
           [TerminalNext]_terminalVars
    PROVE  /\ VisitorsAreQuiet'
           /\ \A s \in Sessions \ Admins : term'[s] # term[s] => page' = page
<1>1. CASE UNCHANGED term
  BY <1>1 DEF VisitorsAreQuiet, Present
<1>2. ASSUME NEW s \in Sessions, KeyOf(s)
      PROVE  /\ VisitorsAreQuiet'
             /\ \A r \in Sessions \ Admins : term'[r] # term[r] => page' = page
  <2>1. PICK t : /\ term' = [term EXCEPT ![s] = t]
                 /\ s \notin Admins => /\ t = Gone \/ Quiet(t)
                                       /\ page' = page
    BY <1>2 DEF KeyOf
  <2>2. term'[s] = t /\ \A r \in Sessions \ {s} : term'[r] = term[r]
    BY <2>1 DEF TerminalTypeOK
  <2>3. ASSUME NEW r \in Sessions \ Admins, Present(r)'
        PROVE  Quiet(term'[r])
    BY <2>1, <2>2, <2>3, SessionModes DEF VisitorsAreQuiet, Present
  <2>4. VisitorsAreQuiet'
    BY <2>3 DEF VisitorsAreQuiet, Quiet, Session
  <2>5. QED
    BY <2>1, <2>2, <2>4
<1>3. QED
  BY <1>1, <1>2, EverySession DEF terminalVars

\* The terminal of a visitor, over ssh or telnet, is read-only (README.md:10):
\* whatever it presses and wherever the site leads it, it comes to no editor and
\* to no question whether to delete, for any number of sessions.
THEOREM VisitorsNeverWrite == TerminalSpec => VisitorsOnlyRead
<1>1. TerminalInit => VisitorsAreQuiet
  BY SessionModes DEF TerminalInit, VisitorsAreQuiet, Present
<1>2. VisitorsAreQuiet' =>
        \A s \in Sessions \ Admins : ~ InEditor(term'[s])
  BY SessionModes DEF VisitorsAreQuiet, Present, Quiet, InEditor
<1>3. TerminalInv => TerminalTypeOK
  BY DEF TerminalInv
<1>4. /\ TerminalTypeOK /\ TerminalTypeOK' /\ VisitorsAreQuiet
      /\ [TerminalNext]_terminalVars
      => /\ VisitorsAreQuiet'
         /\ [\A s \in Sessions \ Admins :
                /\ ~ InEditor(term'[s])
                /\ term'[s] # term[s] => page' = page]_terminalVars
  BY <1>2, VisitorsStep
<1>5. QED
  BY <1>1, <1>3, <1>4, TerminalAlways, PTL DEF TerminalSpec, VisitorsOnlyRead
=============================================================================
