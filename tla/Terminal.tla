------------------------------ MODULE Terminal ------------------------------
(***************************************************************************)
(* Sessions in the terminal browser (internal/sshui), which the ssh and    *)
(* the telnet servers give to each connection: going about the site, the   *)
(* prompts, the editor in an ssh session of the administrator, and the     *)
(* views that are counted for people and not for scanners.                 *)
(*                                                                         *)
(* A session handles one message of its terminal to the end before the     *)
(* next, so a key (or a click, which stands for one) is one action; other  *)
(* sessions and other doors come between two keys.  Of the store this      *)
(* keeps what each page says and the view counters (Store has the rest,    *)
(* Notes the race for the name of a note), of the layout of the site what  *)
(* an address leads to (Site has how), in one step.  The pages a session   *)
(* went through are left out: going back may lead to any address.  A       *)
(* transaction that fails only shows a message, but for the one that reads *)
(* what is to be edited; those that count do not fail.  A page is not      *)
(* renamed meanwhile.                                                      *)
(***************************************************************************)
EXTENDS Naturals, Sequences, FiniteSetsExt

CONSTANTS
    Sessions, Admins,  \* connections, and those logged in as admin
    Paths,             \* pages of the store
    HiddenPaths,       \* those that are not browsed
    FilePaths,         \* those served as they are,
    BinaryPaths,       \* and those of them no text editor takes
    ScriptPaths,       \* executable pages
    NotePaths,         \* names a note may be given
    Texts, Empty,      \* what a page says
    Urls,              \* addresses
    Home, Search, Help,
    AnswersTo,         \* the pages an address may show: the first one there is
    UrlOf,             \* the address a page is listed by
    Keys,              \* what views are counted under:
    CountKey,          \* the key of an address
    ClearedKey,        \* and that of a page, when it is deleted
    Below,             \* the pages below the address of a folder
    SlashOf,           \* an address with the slash of a folder
    FirstPages,        \* what the site holds at first
    NewPaths,          \* pages that are written and deleted by name
    MaxViews,          \* bound on the views counted
    NoPage, NoPath, NoUrl

ASSUME TerminalAssumption ==
    /\ Admins \subseteq Sessions /\ IsFiniteSet(Sessions)
    /\ BinaryPaths \subseteq FilePaths
    /\ HiddenPaths \cup FilePaths \cup ScriptPaths
         \cup NotePaths \cup NewPaths \subseteq Paths
    /\ Empty \in Texts /\ NoPage \notin Texts
    /\ NoPath \notin Paths /\ NoUrl \notin Urls
    /\ {Home, Search, Help} \subseteq Urls /\ Home # Search
    /\ AnswersTo \in [Urls -> Seq(Paths \ HiddenPaths)]
    /\ \A i \in DOMAIN AnswersTo[Home] :
         AnswersTo[Home][i] \notin ScriptPaths \cup FilePaths
    /\ UrlOf \in [Paths \ (HiddenPaths \cup ScriptPaths) -> Urls]
    /\ (HiddenPaths \cup ScriptPaths) \cap Urls = {}
    /\ CountKey \in [Urls -> Keys] /\ ClearedKey \in [Paths -> Keys]
    /\ Below \in [Urls -> SUBSET Paths]
    /\ SlashOf \in [Urls -> Urls]
    /\ FirstPages \in [Paths -> Texts \cup {NoPage}]
    /\ MaxViews \in Nat

VARIABLES
    page,    \* what each page says, or NoPage
    hits,    \* views counted under each key
    term,    \* the state of each session
    people,  \* the sessions that have sent a key or a click (history)
    shown,   \* views each session had, but for those redirected (history)
    lost,    \* views counted that went with a page deleted since (history)
    settled  \* the words each opened, saved or was warned about since it
             \* last changed them (history)

terminalVars == <<page, hits, term, people, shown, lost, settled>>

Away == [mode |-> "away"]

Gone == [mode |-> "gone"]

Session ==
    [mode : {"browse", "edit", "editHelp", "input", "confirm"},
     live : BOOLEAN,
     pendingHit : Urls \cup {NoUrl},
     url : Urls \cup {NoUrl},
     sourcePath : Paths \cup {NoPath},
     scriptPath : Paths \cup {NoPath},
     inputKind : {"goto", "search", "newPath", "script", "none"},
     picks : SUBSET (Urls \cup HiddenPaths \cup ScriptPaths),
     edPath : Paths \cup {NoPath},
     ed : Texts,
     edDirty : BOOLEAN]

TerminalTypeOK ==
    /\ page \in [Paths -> Texts \cup {NoPage}]
    /\ hits \in [Keys -> Nat]
    /\ term \in [Sessions -> Session \cup {Away, Gone}]
    /\ people \subseteq Sessions
    /\ shown \in [Sessions -> [Keys -> Nat]]
    /\ lost \in [Keys -> Nat]
    /\ settled \in [Sessions -> Texts \cup {NoPage}]

TerminalInit ==
    /\ page = FirstPages
    /\ hits = [k \in Keys |-> 0]
    /\ term = [s \in Sessions |-> Away]
    /\ people = {}
    /\ shown = [s \in Sessions |-> [k \in Keys |-> 0]]
    /\ lost = [k \in Keys |-> 0]
    /\ settled = [s \in Sessions |-> NoPage]

InEditor(t) == t.mode \in {"edit", "editHelp"}

-----------------------------------------------------------------------------
(***************************************************************************)
(* Where an address leads, on a site that holds the given pages.           *)
(***************************************************************************)

\* The page that answers an address, or NoPath.
PageAt(site, u) ==
    LET there == {i \in DOMAIN AnswersTo[u] : site[AnswersTo[u][i]] # NoPage}
    IN  IF there = {} THEN NoPath ELSE AnswersTo[u][Min(there)]

IsScript(site, u) == PageAt(site, u) \in ScriptPaths

IsFile(site, u) == PageAt(site, u) \in FilePaths \ ScriptPaths

\* A page, or a listing that is made on the fly and has no source.
IsPage(site, u) ==
    \/ PageAt(site, u) \in Paths \ (ScriptPaths \cup FilePaths)
    \/ /\ PageAt(site, u) = NoPath
       /\ \/ u = Home
          \/ SlashOf[u] = u /\ \E p \in Below[u] : site[p] # NoPage

IsRedirected(site, u) ==
    /\ PageAt(site, u) = NoPath
    /\ SlashOf[u] # u
    /\ IsPage(site, SlashOf[u])

\* A view after a redirection is not counted (ui.go:164).
IsView(site, u) ==
    /\ u # Search /\ ~ IsScript(site, u)
    /\ IsFile(site, u) \/ IsPage(site, u)

Bumped(counts, u) == [counts EXCEPT ![CountKey[u]] = @ + 1]

-----------------------------------------------------------------------------
(***************************************************************************)
(* The steps of a session t that the keys are made of.                     *)
(***************************************************************************)

Prompted(t, kind, picks) ==
    [t EXCEPT !.mode = "input", !.inputKind = kind, !.picks = picks]

\* runScript: an error leaves everything as it is.
RanScript(t, p, u, outcome) ==
    LET after == [t EXCEPT !.url = u, !.sourcePath = NoPath, !.scriptPath = p]
    IN  IF outcome = "fails" THEN t
        ELSE IF outcome = "asks" THEN Prompted(after, "script", {})
        ELSE [after EXCEPT !.mode = "browse"]

Outcomes == {"done", "asks", "fails"}

Shown(t, site, u) ==
    [t EXCEPT !.url = u, !.sourcePath = PageAt(site, u),
              !.pendingHit = IF t.live THEN @ ELSE u]

\* navigate
Landed(t, site, u, outcome) ==
    LET plain == [t EXCEPT !.scriptPath = NoPath]
    IN  IF IsScript(site, u) THEN RanScript(t, PageAt(site, u), u, outcome)
        ELSE IF u = Search THEN Prompted(plain, "search", {})
        ELSE IF IsPage(site, u) THEN Shown(plain, site, u)
        ELSE IF IsRedirected(site, u) THEN Shown(plain, site, SlashOf[u])
        ELSE plain

\* The bound on the views counted.
MoreViews == MapThenSumSet(LAMBDA k : hits[k] + lost[k], Keys) < MaxViews

Go_beforeWaking(s, t, site, counts, u) ==
    LET to == IF u = NoUrl THEN Home ELSE u
        seen == IsView(site, to)
    IN  /\ seen => MoreViews
        /\ \E outcome \in Outcomes :
            /\ IsScript(site, to) \/ outcome = "done"
            /\ term' = [term EXCEPT ![s] = Landed(t, site, to, outcome)]
        /\ hits' = IF seen THEN Bumped(counts, to) ELSE counts
        /\ shown' = IF seen THEN [shown EXCEPT ![s] = Bumped(@, to)] ELSE shown

\* A session that has not been used yet is shown its page and counts nothing.
\* No address at all is that of the home page.
Go(s, t, site, counts, u) ==
    LET to == IF u = NoUrl THEN Home ELSE u
        seen == IsView(site, to)
    IN  /\ seen => MoreViews
        /\ \E outcome \in Outcomes :
            /\ IsScript(site, to) \/ outcome = "done"
            /\ term' = [term EXCEPT ![s] = Landed(t, site, to, outcome)]
        /\ hits' = IF t.live /\ seen THEN Bumped(counts, to) ELSE counts
        /\ shown' = IF seen THEN [shown EXCEPT ![s] = Bumped(@, to)] ELSE shown

\* wake, for every key and click: the page the session has been on is counted.
Awake(s) == [term[s] EXCEPT !.live = TRUE, !.pendingHit = NoUrl]

CountsAwake(s) ==
    IF term[s].live \/ term[s].pendingHit = NoUrl THEN hits
    ELSE Bumped(hits, term[s].pendingHit)

\* A key that only changes the session itself.
Becomes(s, t) ==
    /\ term' = [term EXCEPT ![s] = t]
    /\ hits' = CountsAwake(s)
    /\ people' = people \cup {s}
    /\ UNCHANGED <<page, shown, lost>>

\* A key that goes to an address.
Goes(s, t, u) ==
    /\ Go(s, t, page, CountsAwake(s), u)
    /\ people' = people \cup {s}
    /\ UNCHANGED <<page, lost>>

Answered(s) == [Awake(s) EXCEPT !.mode = "browse", !.inputKind = "none",
                                !.picks = {}]

\* startEdit with what the page says, initEditor
Edits(s, p, words) ==
    /\ Becomes(s, [Answered(s) EXCEPT !.mode = "edit", !.edPath = p,
                                      !.ed = words, !.edDirty = FALSE])
    /\ settled' = [settled EXCEPT ![s] = words]

\* A page that is gone, or that cannot be read, opens an empty editor.
EditsPage(s, p) ==
    \/ /\ page[p] # NoPage /\ p \notin BinaryPaths
       /\ Edits(s, p, page[p])
    \/ page[p] # NoPage /\ p \in BinaryPaths
       /\ Becomes(s, Answered(s)) /\ UNCHANGED settled
    \/ Edits(s, p, Empty)

\* What is counted under the name of a page, without .gmi, goes with it: that
\* may be the views of another one or of a folder, and those of an index,
\* which are counted under its folder, stay.
Deletes(p, counts) ==
    /\ page' = [page EXCEPT ![p] = NoPage]
    /\ lost' = [lost EXCEPT ![ClearedKey[p]] = @ + counts[ClearedKey[p]]]

CountsWithout(p, counts) == [counts EXCEPT ![ClearedKey[p]] = 0]

-----------------------------------------------------------------------------
(***************************************************************************)
(* Connections.                                                            *)
(***************************************************************************)

Fresh ==
    [mode |-> "browse", live |-> FALSE, pendingHit |-> NoUrl, url |-> NoUrl,
     sourcePath |-> NoPath, scriptPath |-> NoPath, inputKind |-> "none",
     picks |-> {}, edPath |-> NoPath, ed |-> Empty, edDirty |-> FALSE]

Connect(s) ==
    /\ term[s] = Away
    /\ Go(s, Fresh, page, hits, Home)
    /\ UNCHANGED <<page, people, lost>> /\ UNCHANGED settled

\* The terminal goes away, or the session ends at a limit of its server.
Disconnect(s) ==
    /\ term[s] \notin {Away, Gone}
    /\ term' = [term EXCEPT ![s] = Gone]
    /\ UNCHANGED <<page, hits, people, shown, lost>> /\ UNCHANGED settled

\* Scrolling, selecting a link, letters in a prompt, a click on nothing.
Stir(s) ==
    /\ term[s] \notin {Away, Gone}
    /\ Becomes(s, Awake(s)) /\ UNCHANGED settled

-----------------------------------------------------------------------------
(***************************************************************************)
(* Browsing.                                                               *)
(***************************************************************************)

Browsing(s) == term[s].mode = "browse"

\* showDoc: a page made on the spot has no source.
ShowDoc(t, u) == [t EXCEPT !.mode = "browse", !.url = u, !.sourcePath = NoPath]

\* Enter or a click on a link, a digit, h.
Follow(s, u) ==
    /\ Browsing(s)
    /\ Goes(s, Awake(s), u)
    /\ UNCHANGED settled

\* An address of the search page that says what to look for; typed, it comes
\* to the same.
SearchLink(s) ==
    /\ Browsing(s)
    /\ Becomes(s, ShowDoc([Awake(s) EXCEPT !.scriptPath = NoPath], Search))
    /\ UNCHANGED settled

\* b: where a page went through is gone, no address is left.
Back(s, u) ==
    /\ Browsing(s)
    /\ Goes(s, [Awake(s) EXCEPT !.url = NoUrl], u)
    /\ UNCHANGED settled

Reload(s) ==
    /\ Browsing(s)
    /\ Goes(s, Awake(s), term[s].url)
    /\ UNCHANGED settled

ShowHelp(s) ==
    /\ Browsing(s)
    /\ Becomes(s, ShowDoc(Awake(s), Help)) /\ UNCHANGED settled

Picks_forEveryone(s) ==
    LET listed == {p \in Paths \ BinaryPaths : page[p] # NoPage}
    IN  {IF p \in ScriptPaths \cup HiddenPaths THEN p ELSE UrlOf[p] : p \in listed}

\* allURLs: an executable page is listed by its file, which leads nowhere.
Picks(s) ==
    LET listed == {p \in Paths \ BinaryPaths : page[p] # NoPage}
    IN  {IF p \in ScriptPaths \cup HiddenPaths THEN p ELSE UrlOf[p] :
            p \in IF s \in Admins THEN listed ELSE listed \ HiddenPaths}

AskGoto(s) ==
    /\ Browsing(s)
    /\ Becomes(s, Prompted(Awake(s), "goto", Picks(s))) /\ UNCHANGED settled

AskSearch(s) ==
    /\ Browsing(s)
    /\ Becomes(s, Prompted(Awake(s), "search", {})) /\ UNCHANGED settled

AskNewPath(s) ==
    /\ Browsing(s) /\ s \in Admins
    /\ Becomes(s, Prompted(Awake(s), "newPath", {})) /\ UNCHANGED settled

EditShown(s) ==
    /\ Browsing(s) /\ s \in Admins
    /\ term[s].sourcePath # NoPath
    /\ EditsPage(s, term[s].sourcePath)

WriteNote(s) ==
    /\ Browsing(s) /\ s \in Admins
    /\ Edits(s, NoPath, Empty)

AskDelete(s) ==
    /\ Browsing(s) /\ s \in Admins
    /\ term[s].sourcePath # NoPath
    /\ Becomes(s, [Awake(s) EXCEPT !.mode = "confirm"]) /\ UNCHANGED settled

-----------------------------------------------------------------------------
(***************************************************************************)
(* Prompts.  What is asked about when a deletion is to be confirmed is the *)
(* source of the page shown, which no key changes before the answer.       *)
(***************************************************************************)

Asked(s, kind) == term[s].mode = "input" /\ term[s].inputKind = kind

Cancel(s) ==
    /\ term[s].mode \in {"input", "confirm"}
    /\ Becomes(s, Answered(s)) /\ UNCHANGED settled

\* The highlighted match, as the site was when the prompt came up.
Pick(s, p) ==
    /\ Asked(s, "goto")
    /\ p \in term[s].picks
    /\ IF p \in HiddenPaths THEN EditsPage(s, p)
       ELSE /\ IF p \in ScriptPaths
               THEN Becomes(s, [Answered(s) EXCEPT !.scriptPath = NoPath])
               ELSE Goes(s, Answered(s), p)
            /\ UNCHANGED settled

\* What was typed matches no page.
Typed(s, u) ==
    /\ Asked(s, "goto")
    /\ u \notin term[s].picks
    /\ Goes(s, Answered(s), u)
    /\ UNCHANGED settled

SearchFor(s) ==
    /\ Asked(s, "search")
    /\ Becomes(s, ShowDoc(Answered(s), Search)) /\ UNCHANGED settled

\* A page of that name may be there: the editor is empty all the same.
NewPath(s, p) ==
    /\ Asked(s, "newPath")
    /\ Edits(s, p, Empty)

\* The line a script asked for; a script that is gone is an error.
AnswerScript(s) ==
    LET t == Answered(s)
    IN  /\ Asked(s, "script")
        /\ \E outcome \in Outcomes :
            /\ page[t.scriptPath] = NoPage => outcome = "fails"
            /\ Becomes(s, RanScript(t, t.scriptPath, t.url, outcome))
        /\ UNCHANGED settled

ConfirmDelete(s) ==
    LET p == term[s].sourcePath
        counts == CountsAwake(s)
    IN  /\ term[s].mode = "confirm"
        /\ IF page[p] = NoPage
           THEN Becomes(s, Answered(s))
           ELSE /\ Deletes(p, counts)
                /\ Go(s, Answered(s), page', CountsWithout(p, counts), Home)
                /\ people' = people \cup {s}
        /\ UNCHANGED settled

-----------------------------------------------------------------------------
(***************************************************************************)
(* The editor.                                                             *)
(***************************************************************************)

Editing(s) == term[s].mode = "edit"

TypeWords_unlessEmptied(s, w) ==
    /\ Editing(s)
    /\ w # term[s].ed
    /\ Becomes(s, [Awake(s) EXCEPT !.ed = w, !.edDirty = @ \/ w # Empty])
    /\ settled' = [settled EXCEPT ![s] = NoPage]

\* A key that changes the words.
TypeWords(s, w) ==
    /\ Editing(s)
    /\ w # term[s].ed
    /\ Becomes(s, [Awake(s) EXCEPT !.ed = w, !.edDirty = TRUE])
    /\ settled' = [settled EXCEPT ![s] = NoPage]

\* What the editor held is not read again.
Closed(s) == [Awake(s) EXCEPT !.mode = "browse", !.edPath = NoPath, !.ed = Empty]

\* esc, ctrl+q: asked twice where something changed.
LeaveEditor(s) ==
    /\ Editing(s)
    /\ IF term[s].edDirty
       THEN /\ Becomes(s, [Awake(s) EXCEPT !.edDirty = FALSE])
            /\ settled' = [settled EXCEPT ![s] = term[s].ed]
       ELSE /\ Goes(s, Closed(s), term[s].url)
            /\ UNCHANGED settled

OpenEditHelp(s) ==
    /\ Editing(s)
    /\ Becomes(s, [Awake(s) EXCEPT !.mode = "editHelp"]) /\ UNCHANGED settled

CloseEditHelp(s) ==
    /\ term[s].mode = "editHelp"
    /\ Becomes(s, [Awake(s) EXCEPT !.mode = "edit"]) /\ UNCHANGED settled

Saved(s, p) ==
    /\ page' = [page EXCEPT ![p] = term[s].ed]
    /\ settled' = [settled EXCEPT ![s] = term[s].ed]
    /\ people' = people \cup {s}
    /\ UNCHANGED lost

\* saveEdit of a page, which stays in the editor.
SaveWords(s) ==
    /\ Editing(s)
    /\ term[s].edPath # NoPath
    /\ Saved(s, term[s].edPath)
    /\ term' = [term EXCEPT ![s] = [Awake(s) EXCEPT !.edDirty = FALSE]]
    /\ hits' = CountsAwake(s)
    /\ UNCHANGED shown

\* saveEdit of a note that is not empty, under a free name.
PostNote(s) ==
    /\ Editing(s)
    /\ term[s].edPath = NoPath
    /\ term[s].ed # Empty
    /\ \E p \in NotePaths :
        /\ page[p] = NoPage
        /\ Saved(s, p)
    /\ Go(s, Closed(s), page', CountsAwake(s), term[s].url)

-----------------------------------------------------------------------------
(***************************************************************************)
(* Other doors.                                                            *)
(***************************************************************************)

OtherSave(p, w) ==
    /\ page' = [page EXCEPT ![p] = w]
    /\ UNCHANGED <<hits, term, people, shown, lost>> /\ UNCHANGED settled

OtherDelete(p) ==
    /\ page[p] # NoPage
    /\ Deletes(p, hits)
    /\ hits' = CountsWithout(p, hits)
    /\ UNCHANGED <<term, people, shown>> /\ UNCHANGED settled

TerminalNext ==
    \/ \E s \in Sessions :
        \/ Connect(s) \/ Disconnect(s) \/ Stir(s)
        \/ \E u \in Urls : Follow(s, u) \/ Back(s, u) \/ Typed(s, u)
        \/ Reload(s) \/ ShowHelp(s) \/ SearchLink(s)
        \/ AskGoto(s) \/ AskSearch(s) \/ AskNewPath(s) \/ AskDelete(s)
        \/ EditShown(s) \/ WriteNote(s)
        \/ Cancel(s) \/ SearchFor(s) \/ AnswerScript(s) \/ ConfirmDelete(s)
        \/ \E p \in Urls \cup HiddenPaths \cup ScriptPaths : Pick(s, p)
        \/ \E p \in NewPaths : NewPath(s, p)
        \/ \E w \in Texts : TypeWords(s, w)
        \/ LeaveEditor(s) \/ OpenEditHelp(s) \/ CloseEditHelp(s)
        \/ SaveWords(s) \/ PostNote(s)
    \/ \E p \in NewPaths :
        \/ \E w \in Texts : OtherSave(p, w)
        \/ OtherDelete(p)

TerminalSpec == TerminalInit /\ [][TerminalNext]_terminalVars

-----------------------------------------------------------------------------
(***************************************************************************)
(* Properties.                                                             *)
(***************************************************************************)

Views(k) == UNION {{s} \X (1..shown[s][k]) : s \in people}

\* The counters hold every view of a session that was used, the one it began
\* with included and once, and none of a session that only connected
\* (ui.go:213), but for those that a deletion took with it.
ViewsAreOfPeople ==
    \A k \in Keys : hits[k] + lost[k] = Cardinality(Views(k))

\* A key takes nobody's words away unless they are what was opened or saved,
\* or a warning was given since they were last changed (ui.go:721).
DiscardsAreWarned ==
    [][\A s \in Sessions :
        InEditor(term[s]) /\ ~ InEditor(term'[s]) /\ term'[s] # Gone
            => settled'[s] = term[s].ed]_terminalVars

\* A session that is not the administrator's is never in an editor, and no step
\* of it changes a page (README.md:10 calls a visitor's browser read-only):
\* the keys of the editor and of the question whether to delete do not ask who
\* pressed them, so that nothing may lead a visitor there (ui.go:575).
VisitorsOnlyRead ==
    [][\A s \in Sessions \ Admins :
        /\ ~ InEditor(term'[s])
        /\ term'[s] # term[s] => page' = page]_terminalVars
=============================================================================
