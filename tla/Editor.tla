------------------------------- MODULE Editor -------------------------------
(***************************************************************************)
(* Editing in the web admin: the editor page in a browser (admin.js), the  *)
(* handlers behind it (adminEdit, adminSave, adminDiscard, adminDelete,    *)
(* adminRestore) and the store they share with every other door.           *)
(*                                                                         *)
(* adminSave is not one transaction but up to seven calls of the store,    *)
(* one action each here, so that other requests run between them.  A       *)
(* request can be cut short by the server going down, a call of the store  *)
(* can fail, its answer can be lost, and the browser can go away at any    *)
(* time; what a browser keeps of the text in its local storage stays.      *)
(*                                                                         *)
(* Every text typed is a word of its own, so that it can be traced.  Saves *)
(* of a text that was never typed in an editor, empty or as another door   *)
(* published it, and the checks of the path are left out.                  *)
(***************************************************************************)
EXTENDS Store

CONSTANTS
    Tabs,         \* editor pages open in browsers: bounds them
    Requests,     \* numbers of the saves submitted: bounds them
    Words,        \* the texts typed in an editor
    PrivateWords, \* those no author ever publishes
    OtherWords,   \* what the other doors publish
    Names,        \* the names typed in the path field
    WithExt,      \* DefaultExt: "/b" is saved as "/b.gmi"
    RestoreIds,   \* ids of the versions anyone restores: bounds the restores
    Addresses,    \* the addresses at which authors open editor pages
    Precautions,  \* what the author takes care of, see below
    FailingCalls, \* the steps of a save at which the store may fail
    NoTab, NoName, NoWords

\* "answers": answers the offer of a recovered copy before going on.
\* "waits":   neither types nor saves while a save is under way.
\* "looks":   saves over no unpublished words other than those in the box.
\* "matches": discards a draft only while the path field holds its name.
ASSUME EditorAssumption ==
    /\ Words \cup OtherWords \subseteq Contents
    /\ PrivateWords \subseteq Words \ OtherWords
    /\ Addresses \subseteq Paths \X BOOLEAN
    /\ "text" \in Mimes
    /\ DraftPaths = Paths
    /\ Names \subseteq Paths
    /\ RestoreIds \subseteq VersionIds
    /\ WithExt \in [Paths -> Paths]
    /\ \A p \in Paths : WithExt[WithExt[p]] = WithExt[p]
    /\ Precautions \subseteq {"answers", "waits", "looks", "matches"}
    /\ FailingCalls \subseteq {"look", "rename", "lookDraft", "carry", "carrySave",
                            "carryDrop", "write", "clear", "confirm"}
    /\ Requests \subseteq Nat
    /\ NoTab \notin Tabs
    /\ NoName \notin Paths
    /\ NoWords \notin Contents

VARIABLES
    tab,        \* the page in each tab, or NoTab
    stash,      \* local storage: the copy kept for each address, or NoWords
    req,        \* the saves under way
    restoring,  \* the version a restore has read, or NoRow
    fate        \* of each of the words: not yet typed, kept by the author,
                \* or since replaced or thrown away (history)

editorVars == <<tab, stash, req, restoring, fate>>
allVars == <<vars, editorVars>>

-----------------------------------------------------------------------------

\* The address of an editor page: ?path=p, or ?path=p&new=1.
Urls == Paths \X BOOLEAN

Pcs == {"look", "rename", "lookDraft", "carry", "carrySave",
        "carryDrop", "write", "clear", "confirm", "answered"}

Request ==
    [pc : Pcs, tab : Tabs \cup {NoTab}, name : Paths, to : Paths,
     from : Paths \cup {NoName}, content : Contents, publish : BOOLEAN,
     carried : Document \cup {NoDraft}, complaint : BOOLEAN, ok : BOOLEAN]

Page ==
    [url : Urls, path : Paths, old : Paths \cup {NoName},
     text : Contents \cup {NoWords}, offer : Contents \cup {NoWords},
     badge : BOOLEAN]

ASSUME PageAssumption == NoTab \notin Page

New == [pc |-> "new"]

Done == [pc |-> "done"]

Moving == {"look", "rename", "lookDraft", "carry", "carrySave", "carryDrop"}

\* A request that moves a page or a draft comes from an old name, and one that
\* carries a draft has it.
RequestsOK ==
    /\ req \in [Requests -> Request \cup {New, Done}]
    /\ \A r \in Requests :
        /\ req[r].pc \in Moving => req[r].from # NoName
        /\ req[r].pc \in {"carrySave", "carryDrop"} => req[r].carried # NoDraft

Busy(r) == req[r].pc \notin {"new", "done"}

\* Only an open page waits for an answer.
WaitingTabsAreOpen ==
    \A r \in Requests :
        Busy(r) /\ req[r].tab # NoTab => tab[req[r].tab] # NoTab

\* The type invariant of the editor: what the types of its pages and requests
\* rest on with it.
EditorTypeOK ==
    /\ tab \in [Tabs -> Page \cup {NoTab}]
    /\ stash \in [Urls -> Contents \cup {NoWords}]
    /\ RequestsOK
    /\ WaitingTabsAreOpen
    /\ restoring = NoRow \/ restoring \in Snapshot(VersionIds)
    /\ fate \in [Words -> {"none", "kept", "gone"}]

EditorInit ==
    /\ Init
    /\ tab = [t \in Tabs |-> NoTab]
    /\ stash = [u \in Urls |-> NoWords]
    /\ req = [r \in Requests |-> New]
    /\ restoring = NoRow
    /\ fate = [w \in Words |-> "none"]

TakesCare(precaution) == precaution \in Precautions

Kept == {w \in Words : fate[w] = "kept"}

\* The author replaces or throws away what is among some contents.
Gone(some) ==
    [w \in Words |-> IF w \in some /\ fate[w] = "kept" THEN "gone" ELSE fate[w]]

AllAnswered == \A r \in Requests : ~ Busy(r)

MayGoOn(t) ==
    /\ tab[t] # NoTab
    /\ TakesCare("waits") => AllAnswered
    /\ TakesCare("answers") => tab[t].offer = NoWords

-----------------------------------------------------------------------------
(***************************************************************************)
(* The editor page.                                                        *)
(***************************************************************************)

\* adminEdit, then admin.js on the page it returns: an unpublished text wins
\* over the published one, and a copy in local storage that differs from both
\* is offered.  NoTab when there is no text to edit.
EditorAt(u, copies) ==
    LET p == u[1]
        Loaded(old, text, badge) ==
            [url |-> u, path |-> p, old |-> old, text |-> text,
             offer |-> IF copies[u] = text THEN NoWords ELSE copies[u],
             badge |-> badge]
    IN  IF HasDraft(p) /\ drafts[p].mime = "text"
        THEN Loaded(p, drafts[p].content, TRUE)
        ELSE IF u[2] THEN Loaded(NoName, NoWords, FALSE)
        ELSE IF Exists(p) /\ pages[p].mime = "text"
        THEN Loaded(p, pages[p].content, FALSE)
        ELSE NoTab

Open(t, u) ==
    /\ tab[t] = NoTab
    /\ EditorAt(u, stash) # NoTab
    /\ tab' = [tab EXCEPT ![t] = EditorAt(u, stash)]
    /\ UNCHANGED <<vars, stash, req, restoring, fate>>

\* The input event of the text box.
Type(t, w) ==
    /\ MayGoOn(t)
    /\ fate[w] = "none"
    /\ tab' = [tab EXCEPT ![t].text = w]
    /\ stash' = [stash EXCEPT ![tab[t].url] = w]
    /\ fate' = [Gone({tab[t].text}) EXCEPT ![w] = "kept"]
    /\ UNCHANGED <<vars, req, restoring>>

TypeName(t, n) ==
    /\ MayGoOn(t)
    /\ tab' = [tab EXCEPT ![t].path = n]
    /\ UNCHANGED <<vars, stash, req, restoring, fate>>

RestoreCopy(t) ==
    /\ tab[t] # NoTab
    /\ tab[t].offer # NoWords
    /\ tab' = [tab EXCEPT ![t].text = tab[t].offer, ![t].offer = NoWords]
    /\ fate' = Gone({tab[t].text})
    /\ UNCHANGED <<vars, stash, req, restoring>>

DiscardCopy(t) ==
    /\ tab[t] # NoTab
    /\ tab[t].offer # NoWords
    /\ tab' = [tab EXCEPT ![t].offer = NoWords]
    /\ stash' = [stash EXCEPT ![tab[t].url] = NoWords]
    /\ fate' = Gone({tab[t].offer})
    /\ UNCHANGED <<vars, req, restoring>>

Abandoned(t) ==
    [r \in Requests |-> IF Busy(r) /\ req[r].tab = t
                        THEN [req[r] EXCEPT !.tab = NoTab] ELSE req[r]]

\* The tab is closed, its browser crashes, or it goes to another page.
Leave(t) ==
    /\ tab[t] # NoTab
    /\ tab' = [tab EXCEPT ![t] = NoTab]
    /\ req' = Abandoned(t)
    /\ UNCHANGED <<vars, stash, restoring, fate>>

\* A page that was loaded from a draft has a discard button.  Its dialog asks
\* for the draft the page was loaded from; what it posts to adminDiscard is the
\* path field.  The copy in local storage stays.
Discard(t) ==
    LET asked == tab[t].url[1]
        p == tab[t].path
        named == IF HasDraft(asked) THEN {drafts[asked].content} ELSE {}
    IN  /\ MayGoOn(t)
        /\ tab[t].badge
        /\ TakesCare("matches") => p = asked
        /\ DiscardDraft(p)
        /\ fate' = Gone({tab[t].text} \cup named)
        /\ tab' = [tab EXCEPT ![t] = NoTab]
        /\ req' = Abandoned(t)
        /\ UNCHANGED <<stash, restoring>>

-----------------------------------------------------------------------------
(***************************************************************************)
(* adminSave.                                                              *)
(***************************************************************************)

\* What an author who looks first would not save over.
Unseen(t, p) ==
    /\ p \in Paths
    /\ HasDraft(p)
    /\ drafts[p].content \in Kept \ {tab[t].text}

\* save() in admin.js posts the form.
Submit(t, r, publish) ==
    LET page == tab[t]
        to == WithExt[page.path]
    IN  /\ MayGoOn(t)
        /\ req[r] = New
        /\ \A q \in Requests : q < r => req[q] # New
        /\ page.text \in Words
        /\ publish => page.text \notin PrivateWords
        /\ TakesCare("looks") => ~ Unseen(t, to) /\ ~ Unseen(t, page.old)
        /\ req' = [req EXCEPT ![r] =
                [pc |-> IF page.old \in {NoName, to} THEN "write" ELSE "look",
                 tab |-> t, name |-> page.path, to |-> to, from |-> page.old,
                 content |-> page.text, publish |-> publish,
                 carried |-> NoDraft, complaint |-> FALSE, ok |-> FALSE]]
        /\ UNCHANGED <<vars, tab, stash, restoring, fate>>

Goto(r, pc) == req' = [req EXCEPT ![r].pc = pc]

UnchangedButReq == UNCHANGED <<tab, stash, restoring, fate>>

LookForPage(r) ==
    /\ req[r].pc = "look"
    /\ Goto(r, IF Exists(req[r].from) THEN "rename" ELSE "lookDraft")
    /\ UNCHANGED vars
    /\ UnchangedButReq

\* The conditions under which RenamePage returns an error.
CannotRename(p, q) ==
    \/ ~ Exists(p)
    \/ Exists(q)
    \/ HasDraft(p) /\ HasDraft(q)

Rename_givesUp(r) ==
    /\ req[r].pc = "rename"
    /\ \/ /\ RenamePage(req[r].from, req[r].to)
          /\ Goto(r, "write")
       \/ /\ CannotRename(req[r].from, req[r].to)
          /\ req' = [req EXCEPT ![r].pc = "confirm", ![r].complaint = TRUE]
          /\ UNCHANGED vars
    /\ UnchangedButReq

Rename(r) ==
    /\ req[r].pc = "rename"
    /\ \/ /\ RenamePage(req[r].from, req[r].to)
          /\ Goto(r, "write")
       \/ /\ CannotRename(req[r].from, req[r].to)
          /\ req' = [req EXCEPT ![r].pc = "write", ![r].complaint = TRUE]
          /\ UNCHANGED vars
    /\ UnchangedButReq

LookForDraft(r) ==
    /\ req[r].pc = "lookDraft"
    /\ Goto(r, IF HasDraft(req[r].from) THEN "carry" ELSE "write")
    /\ UNCHANGED vars
    /\ UnchangedButReq

ReadCarried_unchecked(r) ==
    /\ req[r].pc = "carry"
    /\ req' = [req EXCEPT ![r].pc = "carrySave",
                          ![r].carried = drafts[req[r].from]]
    /\ UNCHANGED vars
    /\ UnchangedButReq

ReadCarried(r) ==
    /\ req[r].pc = "carry"
    /\ req' = [req EXCEPT
                ![r].pc = IF HasDraft(req[r].from) THEN "carrySave" ELSE "write",
                ![r].carried = drafts[req[r].from]]
    /\ UNCHANGED vars
    /\ UnchangedButReq

SaveCarried(r) ==
    /\ req[r].pc = "carrySave"
    /\ SaveDraft(req[r].to, req[r].carried.content, req[r].carried.mime)
    /\ Goto(r, "carryDrop")
    /\ UnchangedButReq

DropCarried_forgotten(r) ==
    /\ req[r].pc = "carryDrop"
    /\ UNCHANGED vars
    /\ Goto(r, "write")
    /\ UnchangedButReq

\* DiscardDraft fails when there is no draft, and its error is ignored.
DropCarried(r) ==
    /\ req[r].pc = "carryDrop"
    /\ \/ DiscardDraft(req[r].from)
       \/ ~ HasDraft(req[r].from) /\ UNCHANGED vars
    /\ req' = [req EXCEPT ![r].pc = "write", ![r].carried = NoDraft]
    /\ UnchangedButReq

Write_overLivePage(r) ==
    /\ req[r].pc = "write"
    /\ \/ /\ req[r].publish \/ Exists(req[r].to)
          /\ SavePage(req[r].to, req[r].content, "text")
          /\ Goto(r, "clear")
       \/ /\ ~ (req[r].publish \/ Exists(req[r].to))
          /\ SaveDraft(req[r].to, req[r].content, "text")
          /\ Goto(r, "confirm")
    /\ UnchangedButReq

Write(r) ==
    /\ req[r].pc = "write"
    /\ \/ /\ req[r].publish
          /\ SavePage(req[r].to, req[r].content, "text")
          /\ Goto(r, "clear")
       \/ /\ ~ req[r].publish
          /\ SaveDraft(req[r].to, req[r].content, "text")
          /\ Goto(r, "confirm")
    /\ UnchangedButReq

ClearDraft(r) ==
    /\ req[r].pc = "clear"
    /\ \/ DiscardDraft(req[r].to)
       \/ ~ HasDraft(req[r].to) /\ UNCHANGED vars
    /\ Goto(r, "confirm")
    /\ UnchangedButReq

\* "confirmed from the store, not from having reached this line"
Confirm(r) ==
    /\ req[r].pc = "confirm"
    /\ req' = [req EXCEPT
                ![r].pc = "answered",
                ![r].ok = IF req[r].publish THEN Exists(req[r].to)
                          ELSE HasDraft(req[r].to)]
    /\ UNCHANGED vars
    /\ UnchangedButReq

\* A call of the store returns an error, and nothing is written.  Only that of
\* the write itself, or of the look that confirms it, fails the save: the others
\* are skipped over, and only a failed rename is told of in the answer.
AfterFailure(pc) ==
    IF pc \in {"write", "confirm"} THEN "answered"
    ELSE IF pc = "clear" THEN "confirm"
    ELSE IF pc = "look" THEN "lookDraft" ELSE "write"

CallFails(r) ==
    /\ req[r].pc \in FailingCalls
    /\ req' = [req EXCEPT ![r].pc = AfterFailure(req[r].pc),
                          ![r].complaint = @ \/ req[r].pc = "rename"]
    /\ UNCHANGED vars
    /\ UnchangedButReq

Accept_evenFailed(r) ==
    LET t == req[r].tab
        copies == [stash EXCEPT ![tab[t].url] = NoWords]
    IN  /\ req[r].pc = "answered"
        /\ t # NoTab
        /\ stash' = copies
        /\ IF req[r].publish
           THEN /\ tab' = [tab EXCEPT
                            ![t] = EditorAt(<<req[r].name, FALSE>>, copies)]
                /\ req' = [Abandoned(t) EXCEPT ![r] = Done]
           ELSE /\ tab' = [tab EXCEPT ![t].old = req[r].name]
                /\ req' = [req EXCEPT ![r] = Done]
        /\ UNCHANGED <<vars, restoring, fate>>

\* A good answer reaches the page: the copy is dropped, and either the page is
\* loaded again or the name it was saved under becomes the old one.
Accept(r) ==
    LET t == req[r].tab
        copies == [stash EXCEPT ![tab[t].url] = NoWords]
    IN  /\ req[r].pc = "answered"
        /\ req[r].ok
        /\ t # NoTab
        /\ stash' = copies
        /\ IF req[r].publish
           THEN /\ tab' = [tab EXCEPT
                            ![t] = EditorAt(<<req[r].name, FALSE>>, copies)]
                /\ req' = [Abandoned(t) EXCEPT ![r] = Done]
           ELSE /\ tab' = [tab EXCEPT ![t].old = req[r].name]
                /\ req' = [req EXCEPT ![r] = Done]
        /\ UNCHANGED <<vars, restoring, fate>>

\* The answer says failed, is lost, or there is no page left to read it: the
\* page stays as it is.
Ignore(r) ==
    /\ req[r].pc = "answered"
    /\ req' = [req EXCEPT ![r] = Done]
    /\ UNCHANGED vars
    /\ UnchangedButReq

\* The server goes down: every request ends where it is, and the page sees a
\* connection that failed.
ServerStops ==
    /\ \E r \in Requests : Busy(r)
    /\ req' = [r \in Requests |-> IF Busy(r) THEN Done ELSE req[r]]
    /\ restoring' = NoRow
    /\ UNCHANGED <<vars, tab, stash, fate>>

SaveStep(r) ==
    \/ LookForPage(r) \/ Rename(r)
    \/ LookForDraft(r) \/ ReadCarried(r) \/ SaveCarried(r) \/ DropCarried(r)
    \/ Write(r) \/ ClearDraft(r) \/ Confirm(r)
    \/ CallFails(r)
    \/ Accept(r) \/ Ignore(r)

-----------------------------------------------------------------------------
(***************************************************************************)
(* The other handlers, and the other doors.                                *)
(***************************************************************************)

\* DeletePage takes the page's draft with it: whoever deletes a page has
\* thrown that draft away.
Delete(p) ==
    /\ DeletePage(p)
    /\ fate' = IF HasDraft(p) THEN Gone({drafts[p].content}) ELSE fate
    /\ UNCHANGED <<tab, stash, req, restoring>>

\* RestoreVersion reads a version, then saves it where it was taken from.
ReadVersion ==
    /\ restoring = NoRow
    /\ restoring' \in {v \in versions : v.id \in RestoreIds}
    /\ UNCHANGED <<vars, tab, stash, req, fate>>

WriteVersion ==
    /\ restoring # NoRow
    /\ SavePage(restoring.path, restoring.content, restoring.mime)
    /\ restoring' = NoRow
    /\ UNCHANGED <<tab, stash, req, fate>>

\* An upload, the API, titan, the terminal editor or an import.
SaveElsewhere(p, c, m) ==
    /\ SavePage(p, c, m)
    /\ UNCHANGED <<tab, stash, req, restoring, fate>>

AtTab(t) ==
    \/ \E u \in Addresses : Open(t, u)
    \/ \E w \in Words : Type(t, w)
    \/ \E n \in Names : TypeName(t, n)
    \/ RestoreCopy(t) \/ DiscardCopy(t) \/ Leave(t) \/ Discard(t)
    \/ \E r \in Requests, publish \in BOOLEAN : Submit(t, r, publish)

EditorNext ==
    \/ \E t \in Tabs : AtTab(t)
    \/ \E r \in Requests : SaveStep(r)
    \/ ServerStops
    \/ \E p \in Paths : Delete(p)
    \/ ReadVersion \/ WriteVersion
    \/ \E p \in Paths, c \in OtherWords, m \in Mimes : SaveElsewhere(p, c, m)

EditorSpec == EditorInit /\ [][EditorNext]_allVars

-----------------------------------------------------------------------------
(***************************************************************************)
(* Properties.                                                             *)
(***************************************************************************)

InBrowser(w) ==
    \/ \E t \in Tabs : tab[t] # NoTab /\ w \in {tab[t].text, tab[t].offer}
    \/ \E u \in Urls : stash[u] = w

\* Draft snapshots do not count: no handler shows them to anybody.
OnServer(w) ==
    \/ \E p \in Paths : Exists(p) /\ pages[p].content = w
    \/ \E p \in Paths : HasDraft(p) /\ drafts[p].content = w
    \/ \E v \in versions : v.content = w

\* Whatever an author has typed and not replaced or thrown away is in the
\* editor, in the browser's copy or on the server, through failed saves, lost
\* answers, renames, and the loss of the browser or the server (admin.js:41).
WordsAreHere == \A w \in Kept : InBrowser(w) \/ OnServer(w)

Confirms(r) ==
    /\ req[r].pc = "confirm"
    /\ req'[r].pc = "answered"
    /\ req'[r].ok

\* A save is confirmed only when the text of that very save is the draft, or
\* for a publish the page or a version of it, never because an older one was
\* there already (admin.go:381).
ConfirmedMeansStored ==
    [][\A r \in Requests : Confirms(r) =>
        IF req[r].publish
        THEN \/ /\ Exists(req[r].to)
                /\ pages[req[r].to].content = req[r].content
             \/ \E v \in versions : v.content = req[r].content
        ELSE drafts[req[r].to].content = req[r].content]_allVars

\* A save under a new name that is confirmed without complaint leaves no
\* unpublished work under the old one, be it the draft of a page that moved or
\* a draft of its own (admin.go:353).
NoDraftLeftBehind ==
    [][\A r \in Requests :
        /\ Confirms(r)
        /\ ~ req[r].complaint
        /\ req[r].from \notin {NoName, req[r].to}
        => ~ HasDraft(req[r].from)]_allVars

\* What nobody has ordered published is never part of a page, of what search
\* returns or of a page's history, whatever is renamed, carried, restored or
\* cut short (drafts.go:11).
UnpublishedStaysPrivate == Unpublished(PrivateWords)
=============================================================================
