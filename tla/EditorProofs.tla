---------------------------- MODULE EditorProofs ----------------------------
(***************************************************************************)
(* Whatever the editors, the requests behind them and the other doors do,  *)
(* in any number and in any order, they only ever take steps of the store, *)
(* so that every invariant proved of the store holds under them, and words *)
(* nobody orders published stay out of everything the site is read from.   *)
(* And of authors who wait for their saves: what is confirmed is stored,   *)
(* a draft comes along to its new name, and, when they take the other      *)
(* precautions too, no words they typed are lost.                          *)
(***************************************************************************)
EXTENDS Editor, StoreProofs

-----------------------------------------------------------------------------
(***************************************************************************)
(* Every step of the editor is a step of the store or leaves it alone.     *)
(***************************************************************************)

\* The fields of a request under way have their types.
LEMMA RequestFields ==
    ASSUME EditorTypeOK, NEW r \in Requests, req[r].pc \in Pcs
    PROVE  /\ req[r] \in Request
           /\ req[r].to \in Paths
           /\ req[r].name \in Paths
           /\ req[r].from \in Paths \cup {NoName}
           /\ req[r].content \in Contents
           /\ req[r].carried \in Document \cup {NoDraft}
           /\ req[r].tab \in Tabs \cup {NoTab}
           /\ req[r].pc \in Moving => req[r].from \in Paths
           /\ req[r].pc \in {"carrySave", "carryDrop"}
                => req[r].carried \in Document
<1>1. req[r] \in Request \cup {New, Done}
  BY DEF EditorTypeOK, RequestsOK
<1>2. req[r] # New /\ req[r] # Done
  BY DEF Pcs, New, Done
<1>3. req[r] \in Request
  BY <1>1, <1>2
<1>4. /\ req[r].pc \in Moving => req[r].from # NoName
      /\ req[r].pc \in {"carrySave", "carryDrop"} => req[r].carried # NoDraft
  BY DEF EditorTypeOK, RequestsOK
<1>5. QED
  BY <1>3, <1>4 DEF Request

\* Every call a save makes is a step of the store.
LEMMA SaveStepIsStoreStep ==
    ASSUME TypeOK, EditorTypeOK, NEW r \in Requests, SaveStep(r)
    PROVE  Next \/ UNCHANGED vars
<1>0. "text" \in Mimes
  BY EditorAssumption
<1>1. CASE LookForPage(r) \/ LookForDraft(r) \/ ReadCarried(r) \/ Confirm(r)
              \/ CallFails(r) \/ Accept(r) \/ Ignore(r)
  BY <1>1 DEF LookForPage, LookForDraft, ReadCarried, Confirm, CallFails,
              Accept, Ignore,
              vars
<1>2. CASE Rename(r)
  <2>1. req[r].from \in Paths /\ req[r].to \in Paths
    BY <1>2, RequestFields DEF Rename, Pcs, Moving
  <2>2. RenamePage(req[r].from, req[r].to) \/ UNCHANGED vars
    BY <1>2 DEF Rename
  <2>3. QED
    BY <2>1, <2>2, StoreCalls, EditorAssumption
<1>3. CASE SaveCarried(r)
  <2>1. req[r].to \in Paths /\ req[r].carried \in Document
    BY <1>3, RequestFields DEF SaveCarried, Pcs
  <2>2. SaveDraft(req[r].to, req[r].carried.content, req[r].carried.mime)
    BY <1>3 DEF SaveCarried
  <2>3. req[r].carried.content \in Contents /\ req[r].carried.mime \in Mimes
    BY <2>1 DEF Document
  <2>4. QED
    BY <2>1, <2>2, <2>3, StoreCalls, EditorAssumption
<1>4. CASE DropCarried(r)
  <2>1. req[r].from \in Paths
    BY <1>4, RequestFields DEF DropCarried, Pcs, Moving
  <2>2. DiscardDraft(req[r].from) \/ UNCHANGED vars
    BY <1>4 DEF DropCarried
  <2>3. QED
    BY <2>1, <2>2, StoreCalls, EditorAssumption
<1>5. CASE Write(r)
  <2>1. req[r].to \in Paths /\ req[r].content \in Contents
    BY <1>5, RequestFields DEF Write, Pcs
  <2>2. \/ SavePage(req[r].to, req[r].content, "text")
        \/ SaveDraft(req[r].to, req[r].content, "text")
    BY <1>5 DEF Write
  <2>3. QED
    BY <1>0, <2>1, <2>2, StoreCalls, EditorAssumption
<1>6. CASE ClearDraft(r)
  <2>1. req[r].to \in Paths
    BY <1>6, RequestFields DEF ClearDraft, Pcs
  <2>2. DiscardDraft(req[r].to) \/ UNCHANGED vars
    BY <1>6 DEF ClearDraft
  <2>3. QED
    BY <2>1, <2>2, StoreCalls, EditorAssumption
<1>7. QED
  BY <1>1, <1>2, <1>3, <1>4, <1>5, <1>6 DEF SaveStep

\* The path field of an open tab holds a path, its words are contents.
LEMMA TabFields ==
    ASSUME EditorTypeOK, NEW t \in Tabs, tab[t] # NoTab
    PROVE  /\ tab[t] \in Page
           /\ tab[t].url \in Urls
           /\ tab[t].path \in Paths
           /\ tab[t].old \in Paths \cup {NoName}
           /\ tab[t].text \in Contents \cup {NoWords}
           /\ tab[t].offer \in Contents \cup {NoWords}
<1>1. tab[t] \in Page
  BY DEF EditorTypeOK
<1>2. QED
  BY <1>1 DEF Page

\* And what a tab does changes the store only when it discards a draft.
LEMMA TabStepIsStoreStep ==
    ASSUME EditorTypeOK, NEW t \in Tabs, AtTab(t)
    PROVE  Next \/ UNCHANGED vars
<1>1. CASE Discard(t)
  <2>1. tab[t].path \in Paths
    BY <1>1, TabFields DEF Discard, MayGoOn
  <2>2. DiscardDraft(tab[t].path)
    BY <1>1 DEF Discard
  <2>3. QED
    BY <2>1, <2>2, StoreCalls, EditorAssumption
<1>2. CASE ~ Discard(t)
  BY <1>2 DEF AtTab, Open, Type, TypeName, RestoreCopy, DiscardCopy, Leave,
              Submit, vars
<1>3. QED
  BY <1>1, <1>2

\* So does every step of the system; none of them is hidden from the store.
LEMMA EditorStepIsStoreStep ==
    ASSUME TypeOK, EditorTypeOK, [EditorNext]_allVars
    PROVE  [Next]_vars
<1>1. CASE \E t \in Tabs : AtTab(t)
  BY <1>1, TabStepIsStoreStep
<1>2. CASE \E r \in Requests : SaveStep(r)
  BY <1>2, SaveStepIsStoreStep
<1>3. CASE ServerStops \/ ReadVersion
  BY <1>3 DEF ServerStops, ReadVersion
<1>4. CASE \E p \in Paths : Delete(p)
  BY <1>4, StoreCalls, EditorAssumption DEF Delete
<1>5. CASE WriteVersion
  <2>1. restoring \in Snapshot(VersionIds)
    BY <1>5 DEF WriteVersion, EditorTypeOK
  <2>2. /\ restoring.path \in Paths
        /\ restoring.content \in Contents
        /\ restoring.mime \in Mimes
    BY <2>1 DEF Snapshot
  <2>3. QED
    BY <1>5, <2>2, StoreCalls, EditorAssumption DEF WriteVersion
<1>6. CASE \E p \in Paths, c \in OtherWords, m \in Mimes : SaveElsewhere(p, c, m)
  <2>1. PICK p \in Paths, c \in OtherWords, m \in Mimes : SavePage(p, c, m)
    BY <1>6 DEF SaveElsewhere
  <2>2. c \in Contents
    BY EditorAssumption
  <2>3. QED
    BY <2>1, <2>2, StoreCalls, EditorAssumption
<1>7. CASE UNCHANGED allVars
  BY <1>7 DEF allVars
<1>8. QED
  BY <1>1, <1>2, <1>3, <1>4, <1>5, <1>6, <1>7 DEF EditorNext

-----------------------------------------------------------------------------
(***************************************************************************)
(* Type correctness, and with it the simulation.                           *)
(***************************************************************************)

\* A page loaded from the server has the type of a page.
LEMMA EditorAtType ==
    ASSUME TypeOK, NEW u \in Urls,
           NEW copies \in [Urls -> Contents \cup {NoWords}]
    PROVE  EditorAt(u, copies) \in Page \cup {NoTab}
<1>1. u[1] \in Paths /\ u[2] \in BOOLEAN
  BY DEF Urls
<1>2. ASSUME HasDraft(u[1])
      PROVE  drafts[u[1]].content \in Contents
  BY <1>1, <1>2 DEF TypeOK, HasDraft, Document
<1>3. ASSUME Exists(u[1])
      PROVE  pages[u[1]].content \in Contents
  BY <1>1, <1>3 DEF TypeOK, Exists, PageRow
<1>4. copies[u] \in Contents \cup {NoWords}
  OBVIOUS
<1>5. QED
  BY <1>1, <1>2, <1>3, <1>4 DEF EditorAt, Page

\* Abandoning the requests of a tab keeps their types.
LEMMA AbandonedType ==
    ASSUME RequestsOK, NEW t
    PROVE  /\ Abandoned(t) \in [Requests -> Request \cup {New, Done}]
           /\ \A r \in Requests :
                /\ Abandoned(t)[r].pc \in Moving => Abandoned(t)[r].from # NoName
                /\ Abandoned(t)[r].pc \in {"carrySave", "carryDrop"}
                        => Abandoned(t)[r].carried # NoDraft
<1>1. ASSUME NEW r \in Requests, Busy(r)
      PROVE  /\ req[r] \in Request
             /\ [req[r] EXCEPT !.tab = NoTab] \in Request
  <2>1. req[r] \in Request
    BY <1>1 DEF RequestsOK, Busy, New, Done
  <2>2. QED
    BY <2>1 DEF Request
<1>2. ASSUME NEW r \in Requests
      PROVE  /\ Abandoned(t)[r].pc = req[r].pc
             /\ Busy(r) => /\ Abandoned(t)[r].from = req[r].from
                           /\ Abandoned(t)[r].carried = req[r].carried
  BY <1>1 DEF Abandoned, Request
<1>3. ASSUME NEW r \in Requests, Abandoned(t)[r].pc \in Moving
      PROVE  Busy(r)
  BY <1>2, <1>3 DEF Busy, Moving
<1>4. Abandoned(t) \in [Requests -> Request \cup {New, Done}]
  BY <1>1 DEF Abandoned, RequestsOK
<1>5. QED
  BY <1>2, <1>3, <1>4 DEF RequestsOK, Moving

\* One entry of req changes to a request in order, or is over.
LEMMA RequestChanges ==
    ASSUME RequestsOK, NEW r \in Requests, NEW x,
           req' = [req EXCEPT ![r] = x],
           \/ x = Done
           \/ /\ x \in Request
              /\ x.pc \in Moving => x.from # NoName
              /\ x.pc \in {"carrySave", "carryDrop"} => x.carried # NoDraft
    PROVE  RequestsOK'
<1>1. Done.pc \notin Moving /\ Done.pc \notin {"carrySave", "carryDrop"}
  BY DEF Done, Moving
<1>2. QED
  BY <1>1 DEF RequestsOK

\* A request goes on to a pc that its fields are ready for.
LEMMA RequestGoesOn ==
    ASSUME RequestsOK, NEW r \in Requests, req[r] \in Request,
           NEW pc \in Pcs, Goto(r, pc),
           pc \in Moving => req[r].from # NoName,
           pc \in {"carrySave", "carryDrop"} => req[r].carried # NoDraft
    PROVE  RequestsOK'
<1>. DEFINE x == [req[r] EXCEPT !.pc = pc]
<1>1. /\ x \in Request
      /\ x.pc = pc
      /\ x.from = req[r].from
      /\ x.carried = req[r].carried
  BY DEF Request
<1>2. req' = [req EXCEPT ![r] = x]
  BY DEF Goto
<1>. HIDE DEF x
<1>3. QED
  BY <1>1, <1>2, RequestChanges

\* The steps of a save keep the types of the requests.
LEMMA SaveStepRequests ==
    ASSUME TypeOK, EditorTypeOK, NEW r \in Requests, SaveStep(r)
    PROVE  RequestsOK'
<1>1. req[r].pc \in Pcs
  BY EditorAssumption
     DEF SaveStep, LookForPage, Rename, LookForDraft, ReadCarried,
         SaveCarried, DropCarried, Write, ClearDraft, Confirm, CallFails,
         Accept, Ignore, Pcs
<1>2. /\ req[r] \in Request
      /\ req[r].from \in Paths \cup {NoName}
      /\ req[r].carried \in Document \cup {NoDraft}
      /\ req[r].pc \in Moving => req[r].from \in Paths
      /\ req[r].pc \in {"carrySave", "carryDrop"}
            => req[r].carried \in Document
  BY <1>1, RequestFields
<1>3. RequestsOK
  BY DEF EditorTypeOK
<1>4. NoName \notin Paths /\ NoDraft \notin Document
  BY EditorAssumption, SentinelsAssumption
<1>5. CASE LookForPage(r)
  <2>1. Goto(r, "rename") \/ Goto(r, "lookDraft")
    BY <1>5 DEF LookForPage
  <2>2. req[r].from # NoName
    BY <1>2, <1>4, <1>5 DEF LookForPage, Moving
  <2>3. QED
    BY <1>2, <1>3, <2>1, <2>2, RequestGoesOn DEF Pcs
<1>6. CASE LookForDraft(r)
  <2>1. Goto(r, "carry") \/ Goto(r, "write")
    BY <1>6 DEF LookForDraft
  <2>2. req[r].from # NoName
    BY <1>2, <1>4, <1>6 DEF LookForDraft, Moving
  <2>3. QED
    BY <1>2, <1>3, <2>1, <2>2, RequestGoesOn DEF Pcs
<1>7. CASE SaveCarried(r)
  <2>1. Goto(r, "carryDrop")
    BY <1>7 DEF SaveCarried
  <2>2. req[r].from # NoName /\ req[r].carried # NoDraft
    BY <1>2, <1>4, <1>7 DEF SaveCarried, Moving
  <2>3. QED
    BY <1>2, <1>3, <2>1, <2>2, RequestGoesOn DEF Pcs
<1>8. CASE Write(r) \/ ClearDraft(r)
  <2>1. Goto(r, "clear") \/ Goto(r, "confirm")
    BY <1>8 DEF Write, ClearDraft
  <2>2. QED
    BY <1>2, <1>3, <2>1, RequestGoesOn DEF Pcs, Moving
<1>9. CASE Rename(r)
  <2>1. CASE Goto(r, "write")
    BY <1>2, <1>3, <2>1, RequestGoesOn DEF Pcs, Moving
  <2>2. CASE req' = [req EXCEPT ![r].pc = "write", ![r].complaint = TRUE]
    <3>. DEFINE x == [req[r] EXCEPT !.pc = "write", !.complaint = TRUE]
    <3>1. x \in Request /\ x.pc \notin Moving
      BY <1>2 DEF Request, Pcs, Moving
    <3>2. req' = [req EXCEPT ![r] = x]
      BY <1>2, <2>2 DEF Request
    <3>. HIDE DEF x
    <3>3. QED
      BY <1>3, <3>1, <3>2, RequestChanges DEF Moving
  <2>3. QED
    BY <1>9, <2>1, <2>2 DEF Rename
<1>10. CASE ReadCarried(r)
  <2>1. /\ req[r].from \in Paths
        /\ req[r].from # NoName
    BY <1>2, <1>4, <1>10 DEF ReadCarried, Moving
  <2>2. drafts[req[r].from] \in Document \cup {NoDraft}
    BY <2>1 DEF TypeOK
  <2>. DEFINE pc == IF HasDraft(req[r].from) THEN "carrySave" ELSE "write"
              x == [req[r] EXCEPT !.pc = pc, !.carried = drafts[req[r].from]]
  <2>3. pc \in Pcs
    BY DEF Pcs
  <2>4. /\ x \in Request
        /\ x.pc = pc
        /\ x.from = req[r].from
        /\ x.carried = drafts[req[r].from]
    BY <1>2, <2>2, <2>3 DEF Request
  <2>5. req' = [req EXCEPT ![r] = x]
    BY <1>10, <1>2 DEF ReadCarried, Request
  <2>6. /\ x.pc \in Moving => x.from # NoName
        /\ x.pc \in {"carrySave", "carryDrop"} => x.carried # NoDraft
    BY <2>1, <2>4 DEF HasDraft
  <2>. HIDE DEF x
  <2>7. QED
    BY <1>3, <2>4, <2>5, <2>6, RequestChanges
<1>11. CASE DropCarried(r)
  <2>. DEFINE x == [req[r] EXCEPT !.pc = "write", !.carried = NoDraft]
  <2>1. x \in Request /\ x.pc \notin Moving
    BY <1>2 DEF Request, Pcs, Moving
  <2>2. req' = [req EXCEPT ![r] = x]
    BY <1>2, <1>11 DEF DropCarried, Request
  <2>. HIDE DEF x
  <2>3. QED
    BY <1>3, <2>1, <2>2, RequestChanges DEF Moving
<1>12. CASE Confirm(r)
  <2>. DEFINE ok == IF req[r].publish THEN Exists(req[r].to)
                    ELSE HasDraft(req[r].to)
              x == [req[r] EXCEPT !.pc = "answered", !.ok = ok]
  <2>1. ok \in BOOLEAN
    BY DEF Exists, HasDraft
  <2>2. x \in Request /\ x.pc \notin Moving
    BY <1>2, <2>1 DEF Request, Pcs, Moving
  <2>3. req' = [req EXCEPT ![r] = x]
    BY <1>2, <1>12 DEF Confirm, Request
  <2>. HIDE DEF x
  <2>4. QED
    BY <1>3, <2>2, <2>3, RequestChanges DEF Moving
<1>13. CASE CallFails(r)
  <2>. DEFINE y == req[r].complaint \/ req[r].pc = "rename"
              x == [req[r] EXCEPT !.pc = AfterFailure(req[r].pc),
                                  !.complaint = y]
  <2>1. y \in BOOLEAN
    OBVIOUS
  <2>2. /\ req[r].pc \in Pcs \ {"answered"}
        /\ req[r].pc = "look" => req[r].from # NoName
    BY <1>2, <1>4, <1>13, EditorAssumption DEF CallFails, Pcs, Moving
  <2>3. /\ AfterFailure(req[r].pc) \in Pcs \ {"carrySave", "carryDrop"}
        /\ AfterFailure(req[r].pc) \in Moving => req[r].from # NoName
    BY <2>2 DEF AfterFailure, Pcs, Moving
  <2>4. /\ x \in Request
        /\ x.pc = AfterFailure(req[r].pc)
        /\ x.from = req[r].from
    <3>. HIDE DEF y
    <3>1. QED
      BY <1>2, <2>1, <2>3 DEF Request
  <2>5. req' = [req EXCEPT ![r] = x]
    BY <1>2, <1>3, <1>13 DEF CallFails, Request, RequestsOK
  <2>. HIDE DEF x
  <2>6. QED
    BY <1>3, <2>3, <2>4, <2>5, RequestChanges
<1>14. CASE Accept(r)
  <2>1. CASE req' = [req EXCEPT ![r] = Done]
    BY <1>3, <2>1, RequestChanges
  <2>2. CASE req' = [Abandoned(req[r].tab) EXCEPT ![r] = Done]
    <3>. DEFINE q == Abandoned(req[r].tab)
    <3>1. Done.pc \notin Moving
      BY DEF Done, Moving
    <3>2. /\ q \in [Requests -> Request \cup {New, Done}]
          /\ \A s \in Requests :
                /\ q[s].pc \in Moving => q[s].from # NoName
                /\ q[s].pc \in {"carrySave", "carryDrop"}
                        => q[s].carried # NoDraft
      BY <1>3, AbandonedType
    <3>. HIDE DEF q
    <3>3. req' = [q EXCEPT ![r] = Done]
      BY <2>2 DEF q
    <3>4. QED
      BY <3>1, <3>2, <3>3 DEF RequestsOK, Moving
  <2>3. QED
    BY <1>14, <2>1, <2>2 DEF Accept
<1>15. CASE Ignore(r)
  BY <1>3, <1>15, RequestChanges DEF Ignore
<1>16. QED
  BY <1>5, <1>6, <1>7, <1>8, <1>9, <1>10, <1>11, <1>12, <1>13, <1>14, <1>15
     DEF SaveStep

\* What a step of a save leaves in the tabs and in local storage has its type.
LEMMA SaveStepBrowser ==
    ASSUME TypeOK, EditorTypeOK, NEW r \in Requests, SaveStep(r)
    PROVE  /\ tab' \in [Tabs -> Page \cup {NoTab}]
           /\ stash' \in [Urls -> Contents \cup {NoWords}]
           /\ UNCHANGED <<restoring, fate>>
<1>1. CASE Accept(r)
  <2>. DEFINE t == req[r].tab
              copies == [stash EXCEPT ![tab[t].url] = NoWords]
              u == <<req[r].name, FALSE>>
  <2>1. /\ t \in Tabs
        /\ req[r].name \in Paths
    BY <1>1, RequestFields DEF Accept, Pcs
  <2>2. copies \in [Urls -> Contents \cup {NoWords}]
    BY DEF EditorTypeOK
  <2>3. u \in Urls
    BY <2>1 DEF Urls
  <2>4. EditorAt(u, copies) \in Page \cup {NoTab}
    BY <2>2, <2>3, EditorAtType
  <2>5. [tab[t] EXCEPT !.old = req[r].name] \in Page
    <3>1. tab[t] # NoTab
      BY <1>1 DEF Accept, Busy, EditorTypeOK, WaitingTabsAreOpen
    <3>2. QED
      BY <2>1, <3>1, TabFields DEF Page
  <2>6. /\ stash' = copies
        /\ \/ tab' = [tab EXCEPT ![t] = EditorAt(u, copies)]
           \/ tab' = [tab EXCEPT ![t].old = req[r].name]
        /\ UNCHANGED <<restoring, fate>>
    BY <1>1 DEF Accept
  <2>. HIDE DEF t, copies, u
  <2>7. QED
    BY <2>1, <2>2, <2>4, <2>5, <2>6 DEF EditorTypeOK
<1>2. CASE ~ Accept(r)
  BY <1>2 DEF SaveStep, LookForPage, Rename, LookForDraft, ReadCarried,
              SaveCarried, DropCarried, Write, ClearDraft, Confirm,
              CallFails, Ignore,
              UnchangedButReq, EditorTypeOK
<1>3. QED
  BY <1>1, <1>2 DEF Accept

\* A step of a save leaves no open request to a page that is gone.
LEMMA SaveStepWaiting ==
    ASSUME TypeOK, EditorTypeOK, NEW r \in Requests, SaveStep(r)
    PROVE  WaitingTabsAreOpen'
<1>1. CASE Accept(r)
  <2>. DEFINE t == req[r].tab
  <2>1. ASSUME NEW s \in Requests, Busy(s)', req'[s].tab # NoTab
        PROVE  tab'[req'[s].tab] # NoTab
    <3>1. s # r
      BY <1>1, <2>1 DEF Accept, Busy, Done, EditorTypeOK, RequestsOK, Abandoned
    <3>2. CASE req[r].publish
      <4>1. req'[s] = Abandoned(t)[s]
        BY <1>1, <3>1, <3>2 DEF Accept, Abandoned
      <4>2. /\ Busy(s)
            /\ req[s] \in Request
            /\ req'[s] = req[s]
            /\ req[s].tab # t
        <5>1. req[s] \in Request \cup {New, Done}
          BY DEF EditorTypeOK, RequestsOK
        <5>2. CASE Busy(s)
          <6>1. req[s] \in Request
            BY <5>1, <5>2 DEF Busy, New, Done
          <6>2. QED
            BY <2>1, <4>1, <5>2, <6>1 DEF Abandoned, Request
        <5>3. CASE ~ Busy(s)
          BY <2>1, <4>1, <5>3 DEF Abandoned, Busy
        <5>4. QED
          BY <5>2, <5>3
      <4>3. tab[req[s].tab] # NoTab /\ req[s].tab \in Tabs
        BY <2>1, <4>2 DEF EditorTypeOK, WaitingTabsAreOpen, Request
      <4>4. tab'[req[s].tab] = tab[req[s].tab]
        BY <1>1, <3>2, <4>2, <4>3 DEF Accept, EditorTypeOK
      <4>5. QED
        BY <4>2, <4>3, <4>4
    <3>3. CASE ~ req[r].publish
      <4>1. /\ req'[s] = req[s]
            /\ tab' = [tab EXCEPT ![t].old = req[r].name]
        BY <1>1, <3>1, <3>3 DEF Accept, EditorTypeOK, RequestsOK
      <4>2. Busy(s) /\ tab[req[s].tab] # NoTab
        BY <2>1, <4>1 DEF Busy, EditorTypeOK, WaitingTabsAreOpen
      <4>3. t \in Tabs /\ tab[t] \in Page
        BY <1>1, RequestFields, TabFields
           DEF Accept, Pcs, Busy, EditorTypeOK, WaitingTabsAreOpen
      <4>4. [tab[t] EXCEPT !.old = req[r].name] # NoTab
        <5>1. req[r].name \in Paths
          BY <1>1, RequestFields DEF Accept, Pcs
        <5>2. [tab[t] EXCEPT !.old = req[r].name] \in Page
          BY <4>3, <5>1 DEF Page
        <5>3. QED
          BY <5>2, PageAssumption
      <4>5. QED
        BY <4>1, <4>2, <4>3, <4>4 DEF EditorTypeOK
    <3>4. QED
      BY <3>2, <3>3
  <2>2. QED
    BY <2>1 DEF WaitingTabsAreOpen
<1>2. CASE ~ Accept(r)
  <2>1. /\ req[r].pc \in Pcs
        /\ UNCHANGED tab
        /\ \A s \in Requests \ {r} : req'[s] = req[s]
    BY <1>2, EditorAssumption
       DEF SaveStep, LookForPage, Rename, LookForDraft, ReadCarried,
           SaveCarried, DropCarried, Write, ClearDraft, Confirm, CallFails,
           Ignore, UnchangedButReq, Goto, EditorTypeOK, RequestsOK, Pcs
  <2>2. Busy(r)' => req'[r].tab = req[r].tab
    <3>1. req[r] \in Request /\ req \in [Requests -> Request \cup {New, Done}]
      BY <2>1, RequestFields DEF EditorTypeOK, RequestsOK
    <3>2. CASE Ignore(r)
      BY <3>1, <3>2 DEF Ignore, Busy, Done
    <3>3. CASE ~ Ignore(r)
      BY <1>2, <3>1, <3>3
         DEF SaveStep, LookForPage, Rename, LookForDraft, ReadCarried,
             SaveCarried, DropCarried, Write, ClearDraft, Confirm,
             CallFails, Goto, Request
    <3>4. QED
      BY <3>2, <3>3
  <2>3. Busy(r)
    BY <2>1 DEF Pcs, Busy
  <2>4. QED
    BY <2>1, <2>2, <2>3 DEF Busy, EditorTypeOK, WaitingTabsAreOpen
<1>3. QED
  BY <1>1, <1>2

\* Contents replaced or thrown away are still marked as words are.
LEMMA GoneType ==
    ASSUME EditorTypeOK, NEW some
    PROVE  Gone(some) \in [Words -> {"none", "kept", "gone"}]
  BY DEF EditorTypeOK, Gone

\* Closing a tab abandons its requests, so none waits for an answer there.
LEMMA ClosingKeepsWaiting ==
    ASSUME EditorTypeOK, NEW t \in Tabs,
           tab' = [tab EXCEPT ![t] = NoTab], req' = Abandoned(t)
    PROVE  RequestsOK' /\ WaitingTabsAreOpen'
<1>1. RequestsOK'
  BY AbandonedType DEF EditorTypeOK, RequestsOK
<1>2. ASSUME NEW s \in Requests, Busy(s)', req'[s].tab # NoTab
      PROVE  tab'[req'[s].tab] # NoTab
  <2>1. req[s] \in Request \cup {New, Done}
    BY DEF EditorTypeOK, RequestsOK
  <2>2. Busy(s)
    BY <1>2, <2>1 DEF Abandoned, Busy
  <2>3. req[s] \in Request
    BY <2>1, <2>2 DEF Busy, New, Done
  <2>4. req'[s] = req[s] /\ req[s].tab # t
    BY <1>2, <2>2, <2>3 DEF Abandoned, Request
  <2>5. tab[req[s].tab] # NoTab /\ req[s].tab \in Tabs
    BY <1>2, <2>2, <2>3, <2>4 DEF EditorTypeOK, WaitingTabsAreOpen, Request
  <2>6. QED
    BY <2>4, <2>5 DEF EditorTypeOK
<1>3. QED
  BY <1>1, <1>2 DEF WaitingTabsAreOpen

\* What is done at a tab keeps the types of the editor.
LEMMA TabStepType ==
    ASSUME TypeOK, EditorTypeOK, NEW t \in Tabs, AtTab(t)
    PROVE  EditorTypeOK'
<1>1. /\ tab \in [Tabs -> Page \cup {NoTab}]
      /\ stash \in [Urls -> Contents \cup {NoWords}]
      /\ fate \in [Words -> {"none", "kept", "gone"}]
      /\ RequestsOK
      /\ WaitingTabsAreOpen
  BY DEF EditorTypeOK
<1>2. tab[t] # NoTab => /\ tab[t] \in Page
                        /\ tab[t].url \in Urls
                        /\ tab[t].path \in Paths
                        /\ tab[t].old \in Paths \cup {NoName}
                        /\ tab[t].text \in Contents \cup {NoWords}
                        /\ tab[t].offer \in Contents \cup {NoWords}
  BY TabFields
<1>3. ASSUME NEW x \in Page, tab' = [tab EXCEPT ![t] = x], UNCHANGED req
      PROVE  /\ tab' \in [Tabs -> Page \cup {NoTab}]
             /\ RequestsOK'
             /\ WaitingTabsAreOpen'
  BY <1>1, <1>3, PageAssumption DEF RequestsOK, WaitingTabsAreOpen, Busy
<1>4. CASE \E u \in Addresses : Open(t, u)
  <2>1. PICK u \in Addresses : Open(t, u)
    BY <1>4
  <2>2. u \in Urls
    BY EditorAssumption DEF Urls
  <2>. DEFINE x == EditorAt(u, stash)
  <2>3. x \in Page
    BY <1>1, <2>1, <2>2, EditorAtType DEF Open
  <2>4. tab' = [tab EXCEPT ![t] = x] /\ UNCHANGED <<stash, req, restoring, fate>>
    BY <2>1 DEF Open
  <2>. HIDE DEF x
  <2>5. QED
    BY <1>3, <2>3, <2>4 DEF EditorTypeOK
<1>5. CASE \E w \in Words : Type(t, w)
  <2>1. PICK w \in Words : Type(t, w)
    BY <1>5
  <2>. DEFINE x == [tab[t] EXCEPT !.text = w]
  <2>2. w \in Contents
    BY EditorAssumption
  <2>3. x \in Page /\ tab[t].url \in Urls
    BY <1>2, <2>1, <2>2 DEF Type, MayGoOn, Page
  <2>4. /\ tab' = [tab EXCEPT ![t] = x]
        /\ stash' = [stash EXCEPT ![tab[t].url] = w]
        /\ fate' = [Gone({tab[t].text}) EXCEPT ![w] = "kept"]
        /\ UNCHANGED <<req, restoring>>
    BY <2>1 DEF Type
  <2>. HIDE DEF x
  <2>5. QED
    BY <1>1, <1>3, <2>2, <2>3, <2>4, GoneType DEF EditorTypeOK
<1>6. CASE \E n \in Names : TypeName(t, n)
  <2>1. PICK n \in Names : TypeName(t, n)
    BY <1>6
  <2>. DEFINE x == [tab[t] EXCEPT !.path = n]
  <2>2. x \in Page
    BY <1>2, <2>1, EditorAssumption DEF TypeName, MayGoOn, Page
  <2>3. tab' = [tab EXCEPT ![t] = x] /\ UNCHANGED <<stash, req, restoring, fate>>
    BY <2>1 DEF TypeName
  <2>. HIDE DEF x
  <2>4. QED
    BY <1>3, <2>2, <2>3 DEF EditorTypeOK
<1>7. CASE RestoreCopy(t)
  <2>. DEFINE x == [tab[t] EXCEPT !.text = tab[t].offer, !.offer = NoWords]
  <2>1. x \in Page
    BY <1>2, <1>7 DEF RestoreCopy, Page
  <2>2. /\ tab' = [tab EXCEPT ![t] = x]
        /\ fate' = Gone({tab[t].text})
        /\ UNCHANGED <<stash, req, restoring>>
    BY <1>1, <1>2, <1>7 DEF RestoreCopy, Page
  <2>. HIDE DEF x
  <2>3. QED
    BY <1>3, <2>1, <2>2, GoneType DEF EditorTypeOK
<1>8. CASE DiscardCopy(t)
  <2>. DEFINE x == [tab[t] EXCEPT !.offer = NoWords]
  <2>1. x \in Page /\ tab[t].url \in Urls
    BY <1>2, <1>8 DEF DiscardCopy, Page
  <2>2. /\ tab' = [tab EXCEPT ![t] = x]
        /\ stash' = [stash EXCEPT ![tab[t].url] = NoWords]
        /\ fate' = Gone({tab[t].offer})
        /\ UNCHANGED <<req, restoring>>
    BY <1>8 DEF DiscardCopy
  <2>. HIDE DEF x
  <2>3. QED
    BY <1>1, <1>3, <2>1, <2>2, GoneType DEF EditorTypeOK
<1>9. CASE Leave(t)
  <2>1. RequestsOK' /\ WaitingTabsAreOpen'
    BY <1>9, ClosingKeepsWaiting DEF Leave
  <2>2. QED
    BY <1>9, <2>1 DEF Leave, EditorTypeOK
<1>10. CASE Discard(t)
  <2>1. RequestsOK' /\ WaitingTabsAreOpen'
    BY <1>10, ClosingKeepsWaiting DEF Discard
  <2>2. QED
    BY <1>10, <2>1, GoneType DEF Discard, EditorTypeOK
<1>11. CASE \E r \in Requests, publish \in BOOLEAN : Submit(t, r, publish)
  <2>1. PICK r \in Requests, publish \in BOOLEAN : Submit(t, r, publish)
    BY <1>11
  <2>. DEFINE to == WithExt[tab[t].path]
              pc == IF tab[t].old \in {NoName, to} THEN "write" ELSE "look"
              x == [pc |-> pc, tab |-> t, name |-> tab[t].path, to |-> to,
                    from |-> tab[t].old, content |-> tab[t].text,
                    publish |-> publish, carried |-> NoDraft,
                    complaint |-> FALSE, ok |-> FALSE]
  <2>2. tab[t] # NoTab /\ tab[t].text \in Contents
    BY <2>1, EditorAssumption DEF Submit, MayGoOn
  <2>3. to \in Paths
    BY <1>2, <2>2, EditorAssumption
  <2>4. x \in Request
    BY <1>2, <2>2, <2>3 DEF Request, Pcs
  <2>5. /\ x.pc \in Moving => x.from # NoName
        /\ x.pc \notin {"carrySave", "carryDrop"}
        /\ x.tab = t
    BY DEF Moving
  <2>6. /\ req' = [req EXCEPT ![r] = x]
        /\ UNCHANGED <<tab, stash, restoring, fate>>
    BY <2>1 DEF Submit
  <2>. HIDE DEF x
  <2>7. RequestsOK'
    BY <1>1, <2>4, <2>5, <2>6, RequestChanges
  <2>8. WaitingTabsAreOpen'
    BY <1>1, <2>2, <2>5, <2>6 DEF RequestsOK, WaitingTabsAreOpen, Busy
  <2>9. QED
    BY <2>6, <2>7, <2>8 DEF EditorTypeOK
<1>12. QED
  BY <1>4, <1>5, <1>6, <1>7, <1>8, <1>9, <1>10, <1>11 DEF AtTab

\* When the server stops, every request is over.
LEMMA ServerStopsType ==
    ASSUME EditorTypeOK, ServerStops
    PROVE  EditorTypeOK'
<1>1. \A r \in Requests : req'[r] = IF Busy(r) THEN Done ELSE req[r]
  BY DEF ServerStops
<1>2. \A r \in Requests : ~ Busy(r)'
  BY <1>1 DEF Busy, Done
<1>3. RequestsOK'
  BY <1>2 DEF ServerStops, EditorTypeOK, RequestsOK, Busy, Moving
<1>4. QED
  BY <1>2, <1>3 DEF ServerStops, EditorTypeOK, WaitingTabsAreOpen

\* Every step of the system keeps the types of the editor.
LEMMA EditorTypeStep ==
    ASSUME TypeOK, EditorTypeOK, [EditorNext]_allVars
    PROVE  EditorTypeOK'
<1>1. CASE \E t \in Tabs : AtTab(t)
  BY <1>1, TabStepType
<1>2. CASE \E r \in Requests : SaveStep(r)
  BY <1>2, SaveStepRequests, SaveStepBrowser, SaveStepWaiting DEF EditorTypeOK
<1>3. CASE ServerStops
  BY <1>3, ServerStopsType
<1>4. CASE \E p \in Paths : Delete(p)
  BY <1>4, GoneType
     DEF Delete, EditorTypeOK, RequestsOK, WaitingTabsAreOpen, Busy
<1>5. CASE ReadVersion
  <2>1. versions \subseteq Snapshot(VersionIds)
    BY DEF TypeOK
  <2>2. restoring' \in Snapshot(VersionIds)
    BY <1>5, <2>1 DEF ReadVersion
  <2>3. QED
    BY <1>5, <2>2
       DEF ReadVersion, EditorTypeOK, RequestsOK, WaitingTabsAreOpen, Busy
<1>6. CASE \/ WriteVersion
           \/ \E p \in Paths, c \in OtherWords, m \in Mimes :
                  SaveElsewhere(p, c, m)
           \/ UNCHANGED allVars
  BY <1>6 DEF WriteVersion, SaveElsewhere, allVars, editorVars,
              EditorTypeOK, RequestsOK, WaitingTabsAreOpen, Busy
<1>7. QED
  BY <1>1, <1>2, <1>3, <1>4, <1>5, <1>6 DEF EditorNext

\* In the beginning nothing is open, kept or under way.
LEMMA EditorTypeInit ==
    ASSUME EditorInit
    PROVE  EditorTypeOK
  BY DEF EditorInit, EditorTypeOK, RequestsOK, WaitingTabsAreOpen, Moving,
         Busy, New

\* What is proved together: the types of the store and of the editor.
EditorInv == TypeOK /\ EditorTypeOK

\* The editor keeps its types, and no request is under way whose fields do not
\* fit its next step.
THEOREM EditorTypeCorrect == EditorSpec => []EditorTypeOK
<1>1. EditorInit => EditorInv
  BY TypeInit, EditorTypeInit DEF EditorInit, EditorInv
<1>2. EditorInv /\ [EditorNext]_allVars => EditorInv'
  BY EditorStepIsStoreStep, EditorTypeStep, TypeStep DEF EditorInv
<1>3. EditorInv => EditorTypeOK
  BY DEF EditorInv
<1>4. QED
  BY <1>1, <1>2, <1>3, PTL DEF EditorSpec

\* The editors and every other door, taken together, implement the store:
\* each step is one transaction of the store, or none.
THEOREM EditorImplementsStore == EditorSpec => Spec
<1>1. EditorInit => EditorInv /\ Init
  BY TypeInit, EditorTypeInit DEF EditorInit, EditorInv
<1>2. EditorInv /\ [EditorNext]_allVars => EditorInv' /\ [Next]_vars
  BY EditorStepIsStoreStep, EditorTypeStep, TypeStep DEF EditorInv
<1>3. QED
  BY <1>1, <1>2, PTL DEF EditorSpec, Spec

\* So what search returns under the editors is what the store promises.
COROLLARY EditorImplementsSite == EditorSpec => ImplementsPublishedSite
  BY EditorImplementsStore, StoreImplementsSite

-----------------------------------------------------------------------------
(***************************************************************************)
(* Unpublished words stay private.                                         *)
(***************************************************************************)

\* The inductive form: no request that publishes carries private words, and
\* no restore has read any.
PrivacyInv ==
    /\ UnpublishedStaysPrivate
    /\ \A r \in Requests :
        Busy(r) /\ req[r].publish => req[r].content \notin PrivateWords
    /\ restoring # NoRow => restoring.content \notin PrivateWords

\* A request keeps the words it carries and whether it publishes them.
SameOrders ==
    \A s \in Requests :
        Busy(s)' => /\ Busy(s)
                    /\ req'[s].publish = req[s].publish
                    /\ req'[s].content = req[s].content

\* Abandoning requests does not change their orders.
LEMMA AbandonedOrders ==
    ASSUME EditorTypeOK, NEW t, NEW s \in Requests,
           Abandoned(t)[s].pc \notin {"new", "done"}
    PROVE  /\ Busy(s)
           /\ Abandoned(t)[s].publish = req[s].publish
           /\ Abandoned(t)[s].content = req[s].content
<1>1. req[s] \in Request \cup {New, Done}
  BY DEF EditorTypeOK, RequestsOK
<1>2. Busy(s)
  BY DEF Abandoned, Busy
<1>3. req[s] \in Request
  BY <1>1, <1>2 DEF Busy, New, Done
<1>4. QED
  BY <1>2, <1>3 DEF Abandoned, Request

\* No step of a save changes the orders of any.
LEMMA SaveStepOrders ==
    ASSUME EditorTypeOK, NEW r \in Requests, SaveStep(r)
    PROVE  SameOrders
<1>1. req[r].pc \in Pcs
  BY EditorAssumption
     DEF SaveStep, LookForPage, Rename, LookForDraft, ReadCarried,
         SaveCarried, DropCarried, Write, ClearDraft, Confirm, CallFails,
         Accept, Ignore, Pcs
<1>2. req[r] \in Request /\ req \in [Requests -> Request \cup {New, Done}]
  BY <1>1, RequestFields DEF EditorTypeOK, RequestsOK
<1>3. Busy(r)
  BY <1>1 DEF Pcs, Busy
<1>4. CASE Accept(r)
  <2>1. CASE req' = [Abandoned(req[r].tab) EXCEPT ![r] = Done]
    <3>1. ASSUME NEW s \in Requests, Busy(s)'
          PROVE  s # r /\ req'[s] = Abandoned(req[r].tab)[s]
      BY <2>1, <3>1 DEF Abandoned, Busy, Done
    <3>2. QED
      BY <3>1, AbandonedOrders DEF SameOrders, Busy
  <2>2. CASE req' = [req EXCEPT ![r] = Done]
    BY <1>2, <2>2 DEF SameOrders, Busy, Done
  <2>3. QED
    BY <1>4, <2>1, <2>2 DEF Accept
<1>5. CASE Ignore(r)
  BY <1>2, <1>5 DEF Ignore, SameOrders, Busy, Done
<1>6. CASE ~ Accept(r) /\ ~ Ignore(r)
  <2>1. \A s \in Requests \ {r} : req'[s] = req[s]
    BY <1>2, <1>6
       DEF SaveStep, LookForPage, Rename, LookForDraft, ReadCarried,
           SaveCarried, DropCarried, Write, ClearDraft, Confirm,
           CallFails, Goto
  <2>2. req'[r].publish = req[r].publish /\ req'[r].content = req[r].content
    BY <1>2, <1>6
       DEF SaveStep, LookForPage, Rename, LookForDraft, ReadCarried,
           SaveCarried, DropCarried, Write, ClearDraft, Confirm,
           CallFails, Goto, Request
  <2>3. QED
    BY <1>3, <2>1, <2>2 DEF SameOrders, Busy
<1>7. QED
  BY <1>4, <1>5, <1>6

\* A save publishes the words it was ordered to publish, and only those.
LEMMA SaveStepStaysPrivate ==
    ASSUME TypeOK, EditorTypeOK, PrivacyInv, NEW r \in Requests, SaveStep(r)
    PROVE  PrivacyInv'
<1>1. UnpublishedStaysPrivate'
  <2>1. CASE Rename(r)
    <3>1. req[r].from \in Paths /\ req[r].to \in Paths
      BY <2>1, RequestFields DEF Rename, Pcs, Moving
    <3>2. RenamePage(req[r].from, req[r].to) \/ UNCHANGED vars
      BY <2>1 DEF Rename
    <3>3. QED
      BY <3>1, <3>2, RenamePageKeepsUnpublished, OtherStepsKeepUnpublished
         DEF UnpublishedStaysPrivate, PrivacyInv, vars, pageVars
  <2>2. CASE Write(r)
    <3>1. req[r].to \in Paths /\ req[r].content \in Contents
      BY <2>2, RequestFields DEF Write, Pcs
    <3>2. CASE req[r].publish /\ SavePage(req[r].to, req[r].content, "text")
      <4>1. req[r].content \notin PrivateWords
        BY <2>2, <3>2 DEF Write, PrivacyInv, Busy
      <4>2. QED
        BY <3>1, <3>2, <4>1, SavePageKeepsUnpublished, EditorAssumption
           DEF UnpublishedStaysPrivate, PrivacyInv
    <3>3. CASE SaveDraft(req[r].to, req[r].content, "text")
      BY <3>3, OtherStepsKeepUnpublished
         DEF UnpublishedStaysPrivate, PrivacyInv, SaveDraft
    <3>4. QED
      BY <2>2, <3>2, <3>3 DEF Write
  <2>3. CASE ~ Rename(r) /\ ~ Write(r)
    <3>1. UNCHANGED pageVars
      BY <2>3 DEF SaveStep, LookForPage, LookForDraft, ReadCarried, SaveCarried,
                  DropCarried, ClearDraft, Confirm, CallFails,
                  Accept, Ignore,
                  SaveDraft, DiscardDraft, vars, pageVars
    <3>2. QED
      BY <3>1, OtherStepsKeepUnpublished DEF UnpublishedStaysPrivate, PrivacyInv
  <2>4. QED
    BY <2>1, <2>2, <2>3
<1>2. UNCHANGED restoring
  BY SaveStepBrowser
<1>3. QED
  BY <1>1, <1>2, SaveStepOrders DEF PrivacyInv, SameOrders

\* What is done at a tab publishes nothing: it only orders saves, never one
\* that publishes private words.
LEMMA TabStepStaysPrivate ==
    ASSUME TypeOK, EditorTypeOK, PrivacyInv, NEW t \in Tabs, AtTab(t)
    PROVE  PrivacyInv'
<1>1. UNCHANGED <<pageVars, restoring>>
  BY DEF AtTab, Open, Type, TypeName, RestoreCopy, DiscardCopy, Leave, Discard,
         DiscardDraft, Submit, vars, pageVars
<1>2. UnpublishedStaysPrivate'
  BY <1>1, OtherStepsKeepUnpublished DEF UnpublishedStaysPrivate, PrivacyInv
<1>3. CASE \E r \in Requests, publish \in BOOLEAN : Submit(t, r, publish)
  <2>1. PICK r \in Requests, publish \in BOOLEAN : Submit(t, r, publish)
    BY <1>3
  <2>2. /\ req'[r].publish = publish
        /\ req'[r].content = tab[t].text
        /\ \A s \in Requests \ {r} : req'[s] = req[s]
    BY <2>1 DEF Submit, EditorTypeOK, RequestsOK
  <2>3. publish => tab[t].text \notin PrivateWords
    BY <2>1 DEF Submit
  <2>4. \A s \in Requests :
            Busy(s)' /\ req'[s].publish => req'[s].content \notin PrivateWords
    BY <2>2, <2>3 DEF PrivacyInv, Busy
  <2>5. QED
    BY <1>1, <1>2, <2>4 DEF PrivacyInv
<1>4. CASE Leave(t) \/ Discard(t)
  <2>1. req' = Abandoned(t)
    BY <1>4 DEF Leave, Discard
  <2>2. QED
    BY <1>1, <1>2, <2>1, AbandonedOrders DEF PrivacyInv, Busy
<1>5. CASE UNCHANGED req
  BY <1>1, <1>2, <1>5 DEF PrivacyInv, Busy
<1>6. QED
  BY <1>3, <1>4, <1>5 DEF AtTab, Open, Type, TypeName, RestoreCopy, DiscardCopy

\* Every step of the system keeps unpublished words private.
LEMMA PrivacyStep ==
    ASSUME EditorInv, PrivacyInv, [EditorNext]_allVars
    PROVE  PrivacyInv'
<1>. TypeOK /\ EditorTypeOK
  BY DEF EditorInv
<1>1. CASE \E t \in Tabs : AtTab(t)
  BY <1>1, TabStepStaysPrivate
<1>2. CASE \E r \in Requests : SaveStep(r)
  BY <1>2, SaveStepStaysPrivate
<1>3. CASE ServerStops
  <2>1. \A r \in Requests : ~ Busy(r)'
    BY <1>3 DEF ServerStops, Busy, Done
  <2>2. UNCHANGED pageVars
    BY <1>3 DEF ServerStops, vars, pageVars
  <2>3. QED
    BY <1>3, <2>1, <2>2, OtherStepsKeepUnpublished
       DEF UnpublishedStaysPrivate, ServerStops, PrivacyInv
<1>4. CASE \E p \in Paths : Delete(p)
  BY <1>4, DeletePageKeepsUnpublished
     DEF UnpublishedStaysPrivate, Delete, PrivacyInv, Busy
<1>5. CASE ReadVersion
  <2>1. restoring'.content \notin PrivateWords
    BY <1>5 DEF ReadVersion, PrivacyInv, UnpublishedStaysPrivate,
                      Unpublished
  <2>2. UNCHANGED <<pageVars, req>>
    BY <1>5 DEF ReadVersion, vars, pageVars
  <2>3. QED
    BY <2>1, <2>2, OtherStepsKeepUnpublished
       DEF UnpublishedStaysPrivate, PrivacyInv, Busy
<1>6. CASE WriteVersion
  <2>1. restoring \in Snapshot(VersionIds)
    BY <1>6 DEF WriteVersion, EditorTypeOK
  <2>2. /\ restoring.path \in Paths
        /\ restoring.content \in Contents
        /\ restoring.mime \in Mimes
    BY <2>1 DEF Snapshot
  <2>3. restoring.content \notin PrivateWords
    BY <1>6 DEF WriteVersion, PrivacyInv
  <2>4. UnpublishedStaysPrivate'
    BY <1>6, <2>2, <2>3, SavePageKeepsUnpublished
       DEF UnpublishedStaysPrivate, WriteVersion, PrivacyInv
  <2>5. QED
    BY <1>6, <2>4 DEF WriteVersion, PrivacyInv, Busy
<1>7. CASE \E p \in Paths, c \in OtherWords, m \in Mimes : SaveElsewhere(p, c, m)
  <2>1. PICK p \in Paths, c \in OtherWords, m \in Mimes : SaveElsewhere(p, c, m)
    BY <1>7
  <2>2. c \in Contents /\ c \notin PrivateWords
    BY EditorAssumption
  <2>3. UnpublishedStaysPrivate'
    BY <2>1, <2>2, SavePageKeepsUnpublished
       DEF UnpublishedStaysPrivate, SaveElsewhere, PrivacyInv
  <2>4. QED
    BY <2>1, <2>3 DEF SaveElsewhere, PrivacyInv, Busy
<1>8. CASE UNCHANGED allVars
  <2>1. UNCHANGED <<pageVars, req, restoring>>
    BY <1>8 DEF allVars, vars, pageVars, editorVars
  <2>2. QED
    BY <2>1, OtherStepsKeepUnpublished
       DEF UnpublishedStaysPrivate, PrivacyInv, Busy
<1>9. QED
  BY <1>1, <1>2, <1>3, <1>4, <1>5, <1>6, <1>7, <1>8 DEF EditorNext

\* However saves, renames, restores and crashes interleave, what nobody has
\* ordered published is in no page, no search row and no version.
THEOREM DraftsStayPrivate == EditorSpec => []UnpublishedStaysPrivate
<1>1. EditorInit => EditorInv /\ PrivacyInv
  <2>1. ASSUME EditorInit
        PROVE  PrivacyInv
    BY <2>1 DEF EditorInit, Init, PrivacyInv, UnpublishedStaysPrivate,
                Unpublished, Exists, Busy, New
  <2>2. QED
    BY <2>1, TypeInit, EditorTypeInit DEF EditorInit, EditorInv
<1>2. EditorInv /\ PrivacyInv /\ [EditorNext]_allVars
        => EditorInv' /\ PrivacyInv'
  BY EditorStepIsStoreStep, EditorTypeStep, TypeStep, PrivacyStep DEF EditorInv
<1>3. PrivacyInv => UnpublishedStaysPrivate
  BY DEF PrivacyInv
<1>4. QED
  BY <1>1, <1>2, <1>3, PTL DEF EditorSpec

-----------------------------------------------------------------------------
(***************************************************************************)
(* What a save confirms, and what it leaves behind.  An author who waits   *)
(* has one save under way at most, also when its page was closed and       *)
(* another opened, so that beside it only other doors touch the store.     *)
(***************************************************************************)

OneAtATime == \A r, s \in Requests : Busy(r) /\ Busy(s) => r = s

\* Nothing but an answer becomes of a request without a step of its own, and
\* a draft that goes then is one its author has thrown away.
StaysAsItIs(r) ==
    /\ req'[r].pc = req[r].pc
    /\ req'[r].name = req[r].name
    /\ req'[r].to = req[r].to
    /\ req'[r].from = req[r].from
    /\ req'[r].content = req[r].content
    /\ req'[r].publish = req[r].publish
    /\ req'[r].carried = req[r].carried
    /\ req'[r].complaint = req[r].complaint
    /\ req'[r].ok = req[r].ok
    /\ req'[r].tab \in {req[r].tab, NoTab}
    /\ \A p \in Paths :
        \/ drafts'[p] = drafts[p]
        \/ drafts'[p] = NoDraft /\ drafts[p].content \notin Kept'
    /\ Kept' \subseteq Kept

\* A request that is under way has its fields.
LEMMA BusyFields ==
    ASSUME EditorTypeOK, NEW r \in Requests, Busy(r)
    PROVE  req[r] \in Request /\ req[r].pc \in Pcs
<1>1. req[r] \in Request \cup {New, Done}
  BY DEF EditorTypeOK, RequestsOK
<1>2. req[r] \in Request
  BY <1>1 DEF Busy, New, Done
<1>3. QED
  BY <1>2 DEF Request

\* Only a request under way takes a step of a save.
LEMMA SaveStepIsBusy ==
    ASSUME NEW r \in Requests, SaveStep(r)
    PROVE  Busy(r)
  BY EditorAssumption
     DEF SaveStep, LookForPage, Rename, LookForDraft, ReadCarried,
         SaveCarried, DropCarried, Write, ClearDraft, Confirm, CallFails,
         Accept, Ignore, Busy

\* Forgetting the tab of a request leaves the rest of it.
LEMMA AbandonedFields ==
    ASSUME EditorTypeOK, NEW t, NEW r \in Requests, Busy(r)
    PROVE  /\ Abandoned(t)[r].pc = req[r].pc
           /\ Abandoned(t)[r].name = req[r].name
           /\ Abandoned(t)[r].to = req[r].to
           /\ Abandoned(t)[r].from = req[r].from
           /\ Abandoned(t)[r].content = req[r].content
           /\ Abandoned(t)[r].publish = req[r].publish
           /\ Abandoned(t)[r].carried = req[r].carried
           /\ Abandoned(t)[r].complaint = req[r].complaint
           /\ Abandoned(t)[r].ok = req[r].ok
           /\ Abandoned(t)[r].tab = IF req[r].tab = t THEN NoTab ELSE req[r].tab
<1>1. req[r] \in Request
  BY BusyFields
<1>2. QED
  BY <1>1 DEF Abandoned, Request

\* Words only stop being kept where none is typed.
LEMMA GoneKeepsNoMore ==
    ASSUME EditorTypeOK, NEW some, fate' = Gone(some)
    PROVE  Kept' \subseteq Kept \ some
  BY DEF EditorTypeOK, Gone, Kept

\* While a request of an author who waits is under way, what is not a step of
\* it leaves it as it is, or is its end.
LEMMA OtherStepsLeaveIt ==
    ASSUME EditorInv, TakesCare("waits"), OneAtATime, [EditorNext]_allVars,
           NEW r \in Requests, Busy(r), ~ SaveStep(r)
    PROVE  ~ Busy(r)' \/ StaysAsItIs(r)
<1>. TypeOK /\ EditorTypeOK
  BY DEF EditorInv
<1>1. ~ AllAnswered
  BY DEF AllAnswered
<1>2. ASSUME UNCHANGED <<req, drafts, fate>>
      PROVE  StaysAsItIs(r)
  BY <1>2 DEF StaysAsItIs, Kept
<1>3. ASSUME UNCHANGED <<req, drafts>>, NEW some, fate' = Gone(some)
      PROVE  StaysAsItIs(r)
  BY <1>3, GoneKeepsNoMore DEF StaysAsItIs
<1>4. ASSUME NEW t \in Tabs, AtTab(t)
      PROVE  StaysAsItIs(r)
  <2>1. CASE \E u \in Addresses : Open(t, u)
    BY <1>2, <2>1 DEF Open, vars
  <2>2. CASE RestoreCopy(t)
    BY <1>3, <2>2 DEF RestoreCopy, vars
  <2>3. CASE DiscardCopy(t)
    BY <1>3, <2>3 DEF DiscardCopy, vars
  <2>4. CASE Leave(t)
    BY <2>4, AbandonedFields DEF Leave, StaysAsItIs, Kept, vars
  <2>5. ~ MayGoOn(t)
    BY <1>1 DEF MayGoOn
  <2>6. QED
    BY <1>4, <2>1, <2>2, <2>3, <2>4, <2>5
       DEF AtTab, Type, TypeName, Discard, Submit
<1>5. ASSUME NEW s \in Requests, SaveStep(s)
      PROVE  FALSE
  BY <1>5, SaveStepIsBusy DEF OneAtATime
<1>6. CASE ServerStops
  BY <1>6 DEF ServerStops, Busy, Done
<1>7. ASSUME NEW p \in Paths, Delete(p)
      PROVE  StaysAsItIs(r)
  <2>1. /\ UNCHANGED req
        /\ drafts' = [drafts EXCEPT ![p] = NoDraft]
    BY <1>7 DEF Delete, DeletePage
  <2>2. CASE HasDraft(p)
    <3>1. Kept' \subseteq Kept \ {drafts[p].content}
      BY <1>7, <2>2, GoneKeepsNoMore DEF Delete
    <3>2. QED
      BY <2>1, <3>1 DEF StaysAsItIs, TypeOK
  <2>3. CASE ~ HasDraft(p)
    BY <1>7, <2>1, <2>3 DEF Delete, StaysAsItIs, TypeOK, HasDraft, Kept
  <2>4. QED
    BY <2>2, <2>3
<1>8. CASE ReadVersion \/ UNCHANGED allVars
  BY <1>2, <1>8 DEF ReadVersion, allVars, vars, editorVars
<1>9. CASE \/ WriteVersion
           \/ \E p \in Paths, c \in OtherWords, m \in Mimes :
                SaveElsewhere(p, c, m)
  BY <1>2, <1>9 DEF WriteVersion, SaveElsewhere, SavePage
<1>10. QED
  BY <1>4, <1>5, <1>6, <1>7, <1>8, <1>9 DEF EditorNext

\* A step of one save leaves the others, or takes their tab from them.
LEMMA SaveStepOfAnother ==
    ASSUME EditorTypeOK, NEW r \in Requests, NEW s \in Requests, r # s,
           SaveStep(s)
    PROVE  req'[r] = req[r] \/ \E t : req'[r] = Abandoned(t)[r]
<1>1. req \in [Requests -> Request \cup {New, Done}]
  BY DEF EditorTypeOK, RequestsOK
<1>2. CASE Accept(s)
  <2>1. CASE req' = [Abandoned(req[s].tab) EXCEPT ![s] = Done]
    BY <2>1 DEF Abandoned
  <2>2. CASE req' = [req EXCEPT ![s] = Done]
    BY <1>1, <2>2
  <2>3. QED
    BY <1>2, <2>1, <2>2 DEF Accept
<1>3. CASE ~ Accept(s)
  BY <1>1, <1>3
     DEF SaveStep, LookForPage, Rename, LookForDraft, ReadCarried,
         SaveCarried, DropCarried, Write, ClearDraft, Confirm, CallFails,
         Ignore, Goto
<1>4. QED
  BY <1>2, <1>3

\* A request begins with a submission, when no other is under way.
LEMMA RequestsBegin ==
    ASSUME EditorInv, [EditorNext]_allVars,
           NEW r \in Requests, ~ Busy(r), Busy(r)'
    PROVE  \E t \in Tabs, publish \in BOOLEAN : Submit(t, r, publish)
<1>. TypeOK /\ EditorTypeOK
  BY DEF EditorInv
<1>1. \A t : Abandoned(t)[r] = req[r]
  BY DEF Abandoned
<1>2. ASSUME NEW t \in Tabs, AtTab(t)
      PROVE  \E publish \in BOOLEAN : Submit(t, r, publish)
  <2>1. CASE \E s \in Requests, publish \in BOOLEAN : Submit(t, s, publish)
    BY <2>1 DEF Submit, Busy, EditorTypeOK, RequestsOK
  <2>2. CASE Leave(t) \/ Discard(t)
    BY <1>1, <2>2 DEF Leave, Discard, Busy
  <2>3. QED
    BY <1>2, <2>1, <2>2
       DEF AtTab, Open, Type, TypeName, RestoreCopy, DiscardCopy, Busy
<1>3. ASSUME NEW s \in Requests, SaveStep(s)
      PROVE  FALSE
  <2>1. r # s
    BY <1>3, SaveStepIsBusy
  <2>2. req'[r] = req[r] \/ \E t : req'[r] = Abandoned(t)[r]
    BY <1>3, <2>1, SaveStepOfAnother
  <2>3. QED
    BY <1>1, <2>2 DEF Busy
<1>4. CASE \/ ReadVersion \/ WriteVersion \/ UNCHANGED allVars
           \/ \E p \in Paths : Delete(p)
           \/ \E p \in Paths, c \in OtherWords, m \in Mimes :
                SaveElsewhere(p, c, m)
  BY <1>4 DEF ReadVersion, WriteVersion, Delete, SaveElsewhere, allVars,
              editorVars, Busy
<1>5. CASE ServerStops
  BY <1>5 DEF ServerStops, Busy
<1>6. QED
  BY <1>2, <1>3, <1>4, <1>5 DEF EditorNext

\* What a request that has begun asks for.
LEMMA SubmitFields ==
    ASSUME EditorTypeOK, NEW t, NEW r \in Requests, NEW publish,
           Submit(t, r, publish)
    PROVE  /\ req'[r].pc = IF tab[t].old \in {NoName, WithExt[tab[t].path]}
                           THEN "write" ELSE "look"
           /\ req'[r].tab = t
           /\ req'[r].name = tab[t].path
           /\ req'[r].to = WithExt[tab[t].path]
           /\ req'[r].from = tab[t].old
           /\ req'[r].content = tab[t].text
           /\ req'[r].publish = publish
           /\ req'[r].carried = NoDraft
           /\ req'[r].complaint = FALSE
           /\ req'[r].ok = FALSE
  BY DEF Submit, EditorTypeOK, RequestsOK

\* One save at a time is what waiting comes to.
LEMMA OneAtATimeStep ==
    ASSUME EditorInv, TakesCare("waits"), OneAtATime, [EditorNext]_allVars
    PROVE  OneAtATime'
<1>1. ASSUME NEW r \in Requests, Busy(r)', ~ Busy(r),
             NEW s \in Requests, Busy(s)', r # s
      PROVE  FALSE
  <2>1. PICK t \in Tabs, publish \in BOOLEAN : Submit(t, r, publish)
    BY <1>1, RequestsBegin
  <2>2. ~ Busy(s) /\ req'[s] = req[s]
    BY <1>1, <2>1 DEF Submit, MayGoOn, AllAnswered, EditorInv, EditorTypeOK,
                      RequestsOK
  <2>3. QED
    BY <1>1, <2>2 DEF Busy
<1>2. QED
  BY <1>1 DEF OneAtATime

\* Some content is on the page at p or in the history.
StoredAt(p, c) ==
    \/ Exists(p) /\ pages[p].content = c
    \/ \E v \in versions : v.content = c

\* If all of the history is kept, what a page held stays on it or in history.
LEMMA StoredStays ==
    ASSUME TypeOK, KeepVersions = 0, [Next]_vars,
           NEW p \in Paths, NEW c, StoredAt(p, c)
    PROVE  StoredAt(p, c)'
<1>1. ASSUME \A v \in versions : \E w \in versions' : w.content = v.content,
             \/ pages'[p] = pages[p]
             \/ ~ Exists(p)
             \/ \E w \in versions' : w.content = pages[p].content
      PROVE  StoredAt(p, c)'
  BY <1>1 DEF StoredAt, Exists
<1>2. ASSUME NEW q \in Paths, NEW d \in Contents, NEW m \in Mimes,
             SavePage(q, d, m)
      PROVE  StoredAt(p, c)'
  <2>1. CASE InsertPage(q, d, m)
    <3>1. versions' = versions
      BY <2>1 DEF InsertPage
    <3>2. pages'[p] = pages[p] \/ ~ Exists(p)
      BY <2>1 DEF InsertPage, TypeOK
    <3>3. QED
      BY <1>1, <3>1, <3>2
  <2>2. CASE UpdatePage(q, d, m)
    <3>1. PICK vid \in VersionIds : versions' = versions \cup {SnapshotOf(q, vid)}
      BY <2>2 DEF UpdatePage, Prune
    <3>2. pages'[p] = pages[p] \/ p = q
      BY <2>2 DEF UpdatePage, TypeOK
    <3>3. SnapshotOf(q, vid).content = pages[q].content
      BY DEF SnapshotOf
    <3>4. SnapshotOf(q, vid) \in versions' /\ versions \subseteq versions'
      BY <3>1
    <3>5. QED
      BY <1>1, <3>2, <3>3, <3>4
  <2>3. QED
    BY <1>2, <2>1, <2>2 DEF SavePage
<1>3. ASSUME NEW q \in Paths, DeletePage(q)
      PROVE  StoredAt(p, c)'
  <2>1. PICK vid \in VersionIds : versions' = versions \cup {SnapshotOf(q, vid)}
    BY <1>3 DEF DeletePage
  <2>2. pages'[p] = pages[p] \/ p = q
    BY <1>3 DEF DeletePage, TypeOK
  <2>3. SnapshotOf(q, vid).content = pages[q].content
    BY DEF SnapshotOf
  <2>4. SnapshotOf(q, vid) \in versions' /\ versions \subseteq versions'
    BY <2>1
  <2>5. QED
    BY <1>1, <2>2, <2>3, <2>4
<1>4. ASSUME NEW q \in Paths, NEW to \in Paths, RenamePage(q, to)
      PROVE  StoredAt(p, c)'
  <2>1. PICK vid \in VersionIds :
          versions' = Moved(versions \cup {SnapshotOf(q, vid)}, q, to)
    BY <1>4 DEF RenamePage
  <2>2. versions \cup {SnapshotOf(q, vid)} \subseteq Snapshot(VersionIds)
    BY <1>4, SnapshotOfType DEF RenamePage, TypeOK
  <2>3. \A v \in versions \cup {SnapshotOf(q, vid)} :
          \E w \in versions' : w.content = v.content
    <3>1. \A v \in Snapshot(VersionIds) :
            [v EXCEPT !.path = IF v.path = q THEN to ELSE v.path].content
                = v.content
      BY DEF Snapshot
    <3>2. QED
      BY <2>1, <2>2, <3>1 DEF Moved
  <2>4. pages'[p] = pages[p] \/ p = q \/ ~ Exists(p)
    BY <1>4 DEF RenamePage, TypeOK
  <2>5. SnapshotOf(q, vid).content = pages[q].content
    BY DEF SnapshotOf
  <2>6. QED
    BY <1>1, <2>3, <2>4, <2>5
<1>5. ASSUME UNCHANGED <<pages, versions>>
      PROVE  StoredAt(p, c)'
  BY <1>1, <1>5
<1>6. [Next]_vars => \/ \E q \in Paths : PageOp(q)
                     \/ UNCHANGED <<pages, versions>>
  BY DEF Next, DraftOp, SaveDraft, DiscardDraft, ScriptOp, ScriptKVSet,
         ScriptKVDelete, Bump, Tick, vars, pageVars
<1>7. QED
  BY <1>2, <1>3, <1>4, <1>5, <1>6 DEF PageOp

DraftIs(p, w) == HasDraft(p) /\ drafts[p].content = w

\* What a request that has written its text has of it in the store.
HasWritten(r) ==
    /\ req[r].pc = "clear" => req[r].publish
    /\ req[r].pc \in {"clear", "confirm"} /\ req[r].publish
        => StoredAt(req[r].to, req[r].content)
    /\ req[r].pc = "confirm" /\ ~ req[r].publish /\ HasDraft(req[r].to)
        => DraftIs(req[r].to, req[r].content)
    /\ req[r].ok => req[r].pc = "answered"

WritesAreTheirs == \A r \in Requests : Busy(r) => HasWritten(r)

\* A step of a save other than its end keeps its orders.
LEMMA SaveStepGoesOn ==
    ASSUME EditorTypeOK, NEW r \in Requests, SaveStep(r), Busy(r)'
    PROVE  /\ req'[r].tab = req[r].tab
           /\ req'[r].name = req[r].name
           /\ req'[r].to = req[r].to
           /\ req'[r].from = req[r].from
           /\ req'[r].content = req[r].content
           /\ req'[r].publish = req[r].publish
           /\ ~ Accept(r) /\ ~ Ignore(r)
           /\ UNCHANGED <<tab, stash, restoring, fate>>
<1>1. /\ req[r] \in Request
      /\ req \in [Requests -> Request \cup {New, Done}]
  BY SaveStepIsBusy, BusyFields DEF EditorTypeOK, RequestsOK
<1>2. ~ Accept(r) /\ ~ Ignore(r)
  BY <1>1 DEF Accept, Ignore, Busy, Done, Abandoned
<1>3. QED
  BY <1>1, <1>2
     DEF SaveStep, LookForPage, Rename, LookForDraft, ReadCarried,
         SaveCarried, DropCarried, Write, ClearDraft, Confirm, CallFails,
         Goto, Request, UnchangedButReq

\* What the steps that write do to the text and the drafts.
LEMMA WriteStores ==
    ASSUME TypeOK, EditorTypeOK, NEW r \in Requests, Write(r)
    PROVE  \/ /\ req[r].publish
              /\ req'[r] = [req[r] EXCEPT !.pc = "clear"]
              /\ StoredAt(req[r].to, req[r].content)'
              /\ UNCHANGED drafts
           \/ /\ ~ req[r].publish
              /\ req'[r] = [req[r] EXCEPT !.pc = "confirm"]
              /\ drafts' = [drafts EXCEPT ![req[r].to] =
                                [content |-> req[r].content, mime |-> "text"]]
<1>1. /\ req[r] \in Request
      /\ req[r].to \in Paths
      /\ req[r].content \in Contents
      /\ req \in [Requests -> Request \cup {New, Done}]
  BY RequestFields DEF Write, Pcs, EditorTypeOK, RequestsOK
<1>2. CASE req[r].publish
  <2>1. SavePage(req[r].to, req[r].content, "text") /\ Goto(r, "clear")
    BY <1>2 DEF Write
  <2>2. pages'[req[r].to] # NoPage /\ pages'[req[r].to].content = req[r].content
    BY <1>1, <2>1, SavedPage, EditorAssumption
  <2>3. UNCHANGED drafts
    BY <2>1 DEF SavePage
  <2>4. QED
    BY <1>1, <1>2, <2>1, <2>2, <2>3 DEF StoredAt, Exists, Goto
<1>3. CASE ~ req[r].publish
  BY <1>1, <1>3 DEF Write, SaveDraft, Goto
<1>4. QED
  BY <1>2, <1>3

\* The draft at p is left alone, or dropped by one who had no use for it.
DriftsOnly(p) == drafts'[p] = drafts[p] \/ drafts'[p] = NoDraft

\* What happens outside a request leaves what it has written.
LEMMA OthersLeaveWhatIsWritten ==
    ASSUME EditorInv, KeepVersions = 0, [EditorNext]_allVars,
           NEW r \in Requests, Busy(r), HasWritten(r), StaysAsItIs(r)
    PROVE  HasWritten(r)'
<1>1. req[r].to \in Paths /\ req[r].content \in Contents
  BY BusyFields DEF EditorInv, Request
<1>2. PICK p \in Paths, c \in Contents : p = req[r].to /\ c = req[r].content
  BY <1>1
<1>3. p = req'[r].to /\ c = req'[r].content
  BY <1>2 DEF StaysAsItIs
<1>4. [Next]_vars
  BY EditorStepIsStoreStep DEF EditorInv
<1>5. StoredAt(p, c) => StoredAt(p, c)'
  BY <1>4, StoredStays DEF EditorInv
<1>6. StoredAt(req[r].to, req[r].content) => StoredAt(req[r].to, req[r].content)'
  BY <1>2, <1>3, <1>5 DEF StoredAt
<1>7. DriftsOnly(p)
  BY DEF StaysAsItIs, DriftsOnly
<1>8. DraftIs(req[r].to, req[r].content)
        => (HasDraft(req[r].to)' => DraftIs(req[r].to, req[r].content)')
  BY <1>2, <1>3, <1>7 DEF DraftIs, HasDraft, DriftsOnly
<1>9. HasDraft(req[r].to)' => HasDraft(req[r].to)
  BY <1>2, <1>3, <1>7 DEF HasDraft, DriftsOnly
<1>10. QED
  BY <1>6, <1>8, <1>9 DEF HasWritten, StaysAsItIs

\* Nor does a step of its own take from it what it has written.
LEMMA OwnStepsWrite ==
    ASSUME EditorInv, NEW r \in Requests, Busy(r), HasWritten(r),
           SaveStep(r), Busy(r)'
    PROVE  HasWritten(r)'
<1>. TypeOK /\ EditorTypeOK
  BY DEF EditorInv
<1>1. /\ req[r] \in Request
      /\ req[r].pc \in Pcs
      /\ req \in [Requests -> Request \cup {New, Done}]
  BY BusyFields DEF EditorTypeOK, RequestsOK
<1>2. /\ req'[r].to = req[r].to
      /\ req'[r].content = req[r].content
      /\ req'[r].publish = req[r].publish
      /\ ~ Accept(r) /\ ~ Ignore(r)
  BY SaveStepGoesOn
<1>3. CASE Write(r)
  <2>1. ~ req[r].ok
    BY <1>3 DEF Write, HasWritten
  <2>2. CASE /\ req[r].publish
             /\ req'[r] = [req[r] EXCEPT !.pc = "clear"]
             /\ StoredAt(req[r].to, req[r].content)'
    BY <1>1, <2>1, <2>2 DEF HasWritten, Request
  <2>3. CASE /\ ~ req[r].publish
             /\ req'[r] = [req[r] EXCEPT !.pc = "confirm"]
             /\ drafts' = [drafts EXCEPT ![req[r].to] =
                                [content |-> req[r].content, mime |-> "text"]]
    BY <1>1, <1>2, <2>1, <2>3
       DEF HasWritten, Request, DraftIs, HasDraft, TypeOK, EditorInv
  <2>4. QED
    BY <1>3, <2>2, <2>3, WriteStores
<1>4. CASE \/ LookForPage(r) \/ LookForDraft(r) \/ ReadCarried(r)
           \/ SaveCarried(r) \/ DropCarried(r)
  <2>1. req'[r].pc \in Moving \cup {"write"} /\ ~ req[r].ok
    BY <1>1, <1>4
       DEF LookForPage, LookForDraft, ReadCarried, SaveCarried, DropCarried,
           Goto, Moving, HasWritten, Request
  <2>2. ~ req'[r].ok
    BY <1>1, <1>4, <2>1
       DEF LookForPage, LookForDraft, ReadCarried, SaveCarried, DropCarried,
           Goto, Request
  <2>3. QED
    BY <2>1, <2>2 DEF HasWritten, Moving
<1>5. CASE Rename(r) \/ ClearDraft(r) \/ Confirm(r) \/ CallFails(r)
  <2>1. UNCHANGED <<pages, versions>> \/ Rename(r)
    BY <1>5 DEF ClearDraft, Confirm, CallFails, DiscardDraft, vars, pageVars
  <2>2. CASE Rename(r)
    <3>1. req'[r].pc = "write" /\ req'[r].ok = req[r].ok /\ ~ req[r].ok
      BY <1>1, <2>2 DEF Rename, Goto, HasWritten, Request
    <3>2. QED
      BY <3>1 DEF HasWritten
  <2>3. CASE ClearDraft(r)
    <3>1. /\ req'[r].pc = "confirm" /\ req'[r].ok = req[r].ok /\ ~ req[r].ok
          /\ req[r].publish
          /\ StoredAt(req[r].to, req[r].content)
          /\ UNCHANGED <<pages, versions>>
      BY <1>1, <2>3
         DEF ClearDraft, Goto, HasWritten, Request, DiscardDraft, vars,
             pageVars
    <3>2. QED
      BY <1>2, <3>1 DEF HasWritten, StoredAt, Exists
  <2>4. CASE Confirm(r)
    BY <1>1, <2>4 DEF Confirm, HasWritten, Request
  <2>5. CASE CallFails(r)
    <3>1. /\ req'[r].pc = AfterFailure(req[r].pc)
          /\ req'[r].ok = req[r].ok
          /\ UNCHANGED <<pages, versions, drafts>>
      BY <1>1, <2>5 DEF CallFails, Request, vars, pageVars, draftVars
    <3>2. req[r].pc # "answered"
      BY <2>5, EditorAssumption DEF CallFails
    <3>3. ~ req'[r].ok
      BY <3>1, <3>2 DEF HasWritten
    <3>4. CASE req[r].pc = "clear"
      BY <1>2, <3>1, <3>3, <3>4 DEF AfterFailure, HasWritten, StoredAt, Exists
    <3>5. CASE req[r].pc # "clear"
      BY <3>1, <3>3, <3>5 DEF AfterFailure, HasWritten
    <3>6. QED
      BY <3>4, <3>5
  <2>6. QED
    BY <1>5, <2>2, <2>3, <2>4, <2>5
<1>6. QED
  BY <1>2, <1>3, <1>4, <1>5 DEF SaveStep

LEMMA WritesStep ==
    ASSUME EditorInv, TakesCare("waits"), KeepVersions = 0, OneAtATime,
           WritesAreTheirs, [EditorNext]_allVars
    PROVE  WritesAreTheirs'
<1>. SUFFICES ASSUME NEW r \in Requests, Busy(r)'
              PROVE  HasWritten(r)'
  BY DEF WritesAreTheirs
<1>1. CASE ~ Busy(r)
  <2>1. PICK t \in Tabs, publish \in BOOLEAN : Submit(t, r, publish)
    BY <1>1, RequestsBegin
  <2>2. EditorTypeOK
    BY DEF EditorInv
  <2>3. req'[r].ok = FALSE
    BY <2>1, <2>2, SubmitFields, ZenonT(60)
  <2>4. req'[r].pc = IF tab[t].old \in {NoName, WithExt[tab[t].path]}
                     THEN "write" ELSE "look"
    BY <2>1, <2>2, SubmitFields, ZenonT(60)
  <2>5. req'[r].pc \in {"write", "look"}
    BY <2>4
  <2>6. QED
    BY <2>3, <2>5 DEF HasWritten
<1>2. CASE Busy(r) /\ ~ SaveStep(r)
  BY <1>2, OtherStepsLeaveIt, OthersLeaveWhatIsWritten DEF WritesAreTheirs
<1>3. CASE Busy(r) /\ SaveStep(r)
  BY <1>3, OwnStepsWrite DEF WritesAreTheirs
<1>4. QED
  BY <1>1, <1>2, <1>3

\* Nobody else answers for a request.
LEMMA ConfirmsItself ==
    ASSUME EditorTypeOK, EditorNext, NEW r \in Requests, Busy(r),
           ~ SaveStep(r), Busy(r)'
    PROVE  req'[r].pc = req[r].pc
<1>0. \A t : Abandoned(t)[r].pc = req[r].pc
  BY AbandonedFields
<1>1. ASSUME NEW t \in Tabs, AtTab(t)
      PROVE  req'[r].pc = req[r].pc
  <2>1. CASE \E s \in Requests, publish \in BOOLEAN : Submit(t, s, publish)
    BY <2>1 DEF Submit, Busy, New, EditorTypeOK, RequestsOK
  <2>2. CASE Leave(t) \/ Discard(t)
    BY <1>0, <2>2 DEF Leave, Discard
  <2>3. QED
    BY <1>1, <2>1, <2>2
       DEF AtTab, Open, Type, TypeName, RestoreCopy, DiscardCopy
<1>2. ASSUME NEW s \in Requests, SaveStep(s)
      PROVE  req'[r].pc = req[r].pc
  <2>1. r # s
    BY <1>2
  <2>2. req'[r] = req[r] \/ \E t : req'[r] = Abandoned(t)[r]
    BY <1>2, <2>1, SaveStepOfAnother
  <2>3. QED
    BY <1>0, <2>2
<1>3. CASE \/ ReadVersion \/ WriteVersion
           \/ \E p \in Paths : Delete(p)
           \/ \E p \in Paths, c \in OtherWords, m \in Mimes :
                SaveElsewhere(p, c, m)
  BY <1>3 DEF ReadVersion, WriteVersion, Delete, SaveElsewhere
<1>4. CASE ServerStops
  BY <1>4 DEF ServerStops, Busy, Done
<1>5. QED
  BY <1>1, <1>2, <1>3, <1>4 DEF EditorNext

\* A confirmation is of the look that confirms, and finds what was written.
LEMMA ConfirmedWasWritten ==
    ASSUME EditorInv, OneAtATime, WritesAreTheirs, EditorNext,
           NEW r \in Requests, Confirms(r)
    PROVE  /\ req[r].publish => StoredAt(req[r].to, req[r].content)
           /\ ~ req[r].publish => DraftIs(req[r].to, req[r].content)
<1>. TypeOK /\ EditorTypeOK
  BY DEF EditorInv
<1>1. Busy(r) /\ HasWritten(r) /\ req[r] \in Request /\ ~ req[r].ok
  BY BusyFields DEF Confirms, Busy, WritesAreTheirs, HasWritten
<1>2. SaveStep(r)
  BY <1>1, ConfirmsItself DEF Confirms, Busy
<1>3. Confirm(r)
  BY <1>1, <1>2 DEF Confirms, SaveStep, LookForPage, Rename, LookForDraft,
     ReadCarried, SaveCarried, DropCarried, Write, ClearDraft, CallFails,
     Accept, Ignore, EditorTypeOK, RequestsOK, Request
<1>4. ~ req[r].publish => HasDraft(req[r].to)
  BY <1>1, <1>3 DEF Confirm, Confirms, EditorTypeOK, RequestsOK, Request
<1>5. QED
  BY <1>1, <1>4 DEF HasWritten, Confirms

\* No save is confirmed by what was in the store before it: of an author who
\* waits, in a store that keeps its history, each confirmed text is there.
THEOREM ConfirmedIsStored ==
    ASSUME TakesCare("waits"), KeepVersions = 0
    PROVE  EditorSpec => ConfirmedMeansStored
<1>. DEFINE Inv == EditorInv /\ OneAtATime /\ WritesAreTheirs
            Honest == \A r \in Requests : Confirms(r) =>
                IF req[r].publish
                THEN \/ /\ Exists(req[r].to)
                        /\ pages[req[r].to].content = req[r].content
                     \/ \E v \in versions : v.content = req[r].content
                ELSE drafts[req[r].to].content = req[r].content
<1>1. EditorInit => Inv
  BY TypeInit, EditorTypeInit
     DEF EditorInit, EditorInv, OneAtATime, WritesAreTheirs, Busy, New
<1>2. Inv /\ [EditorNext]_allVars => Inv'
  BY EditorStepIsStoreStep, EditorTypeStep, TypeStep, OneAtATimeStep,
     WritesStep DEF EditorInv
<1>3. Inv /\ [EditorNext]_allVars => [Honest]_allVars
  BY ConfirmedWasWritten DEF StoredAt, DraftIs
<1>4. QED
  BY <1>1, <1>2, <1>3, PTL DEF EditorSpec, ConfirmedMeansStored

\* A save that has moved its page, and had nothing to complain of, has left no
\* draft under the old name.
Left(r) ==
    /\ req[r].pc \in {"write", "clear", "confirm"}
    /\ ~ req[r].complaint
    /\ req[r].from \notin {NoName, req[r].to}
    => ~ HasDraft(req[r].from)

NothingIsLeft == \A r \in Requests : Busy(r) => Left(r)

\* The calls that carry a draft, whose errors adminSave passes over.
CarryingCalls == {"lookDraft", "carry", "carrySave", "carryDrop"}

\* Moving a page takes its draft along.
LEMMA RenameTakesTheDraft ==
    ASSUME TypeOK, NEW p \in Paths, NEW q \in Paths, RenamePage(p, q)
    PROVE  drafts'[p] = NoDraft
  BY DEF RenamePage, MoveDraft, HasDraft, TypeOK

\* Its own steps leave no draft under the name a save comes from.
LEMMA OwnStepsTakeAlong ==
    ASSUME EditorInv, FailingCalls \cap CarryingCalls = {},
           NEW r \in Requests, Busy(r), Left(r), SaveStep(r), Busy(r)'
    PROVE  Left(r)'
<1>. TypeOK /\ EditorTypeOK
  BY DEF EditorInv
<1>1. /\ req[r] \in Request
      /\ req[r].pc \in Pcs
      /\ req[r].to \in Paths
      /\ req[r].pc \in Moving => req[r].from \in Paths
      /\ req \in [Requests -> Request \cup {New, Done}]
  BY BusyFields, RequestFields DEF EditorTypeOK, RequestsOK
<1>2. /\ req'[r].to = req[r].to
      /\ req'[r].from = req[r].from
      /\ ~ Accept(r) /\ ~ Ignore(r)
  BY SaveStepGoesOn
<1>3. ASSUME req[r].from \in Paths => drafts'[req[r].from] = NoDraft
      PROVE  Left(r)'
  <2>1. req[r].from \in Paths \cup {NoName}
    BY <1>1 DEF Request
  <2>2. QED
    BY <1>2, <1>3, <2>1 DEF Left, HasDraft
<1>4. ASSUME req'[r].complaint \/ req'[r].pc \notin {"write", "clear", "confirm"}
      PROVE  Left(r)'
  BY <1>4 DEF Left
<1>5. CASE LookForPage(r) \/ SaveCarried(r) \/ Confirm(r)
  BY <1>1, <1>4, <1>5
     DEF LookForPage, SaveCarried, Confirm, Goto, Request
<1>6. CASE Rename(r)
  <2>1. CASE RenamePage(req[r].from, req[r].to)
    BY <1>1, <1>3, <1>6, <2>1, RenameTakesTheDraft DEF Rename, Moving
  <2>2. CASE req' = [req EXCEPT ![r].pc = "write", ![r].complaint = TRUE]
    BY <1>1, <1>4, <2>2 DEF Request
  <2>3. QED
    BY <1>6, <2>1, <2>2 DEF Rename
<1>7. CASE LookForDraft(r) \/ ReadCarried(r)
  <2>1. UNCHANGED drafts
    BY <1>7 DEF LookForDraft, ReadCarried, vars, draftVars
  <2>2. CASE ~ HasDraft(req[r].from)
    BY <1>3, <2>1, <2>2 DEF HasDraft
  <2>3. CASE HasDraft(req[r].from)
    BY <1>1, <1>4, <1>7, <2>3 DEF LookForDraft, ReadCarried, Goto, Request
  <2>4. QED
    BY <2>2, <2>3
<1>8. CASE DropCarried(r)
  <2>1. req[r].from \in Paths
    BY <1>1, <1>8 DEF DropCarried, Moving
  <2>2. drafts'[req[r].from] = NoDraft
    BY <1>8, <2>1
       DEF DropCarried, DiscardDraft, HasDraft, vars, draftVars, TypeOK
  <2>3. QED
    BY <1>3, <2>2
<1>9. ASSUME \/ Write(r) \/ ClearDraft(r)
             \/ CallFails(r) /\ req[r].pc = "clear"
      PROVE  Left(r)'
  <2>1. /\ req[r].pc \in {"write", "clear"}
        /\ req'[r].complaint = req[r].complaint
    BY <1>1, <1>9 DEF Write, ClearDraft, CallFails, Goto, Request
  <2>2. CASE req[r].complaint \/ req[r].from \in {NoName, req[r].to}
    BY <1>2, <2>1, <2>2 DEF Left
  <2>3. CASE ~ req[r].complaint /\ req[r].from \notin {NoName, req[r].to}
    <3>1. req[r].from \in Paths /\ ~ HasDraft(req[r].from)
      BY <1>1, <2>1, <2>3 DEF Left, Request
    <3>2. drafts'[req[r].from] = drafts[req[r].from]
      BY <1>1, <1>9, <2>3, <3>1
         DEF Write, ClearDraft, CallFails, SavePage, SaveDraft, DiscardDraft,
             vars, draftVars, TypeOK
    <3>3. QED
      BY <1>3, <3>1, <3>2 DEF HasDraft
  <2>4. QED
    BY <2>2, <2>3
<1>10. CASE CallFails(r) /\ req[r].pc # "clear"
  <2>1. /\ req'[r].pc = AfterFailure(req[r].pc)
        /\ req[r].pc = "rename" => req'[r].complaint
        /\ req[r].pc \notin CarryingCalls
        /\ req[r].pc # "answered"
    BY <1>1, <1>10, EditorAssumption DEF CallFails, Request
  <2>2. QED
    BY <1>1, <1>4, <1>10, <2>1 DEF AfterFailure, CarryingCalls, Pcs
<1>11. QED
  BY <1>2, <1>5, <1>6, <1>7, <1>8, <1>9, <1>10 DEF SaveStep

LEMMA LeftStep ==
    ASSUME EditorInv, TakesCare("waits"), FailingCalls \cap CarryingCalls = {},
           OneAtATime, NothingIsLeft, [EditorNext]_allVars
    PROVE  NothingIsLeft'
<1>. SUFFICES ASSUME NEW r \in Requests, Busy(r)'
              PROVE  Left(r)'
  BY DEF NothingIsLeft
<1>1. CASE ~ Busy(r)
  <2>1. PICK t \in Tabs, publish \in BOOLEAN : Submit(t, r, publish)
    BY <1>1, RequestsBegin
  <2>2. EditorTypeOK
    BY DEF EditorInv
  <2>3. req'[r].pc = IF tab[t].old \in {NoName, WithExt[tab[t].path]}
                     THEN "write" ELSE "look"
    BY <2>1, <2>2, SubmitFields
  <2>4. /\ req'[r].from = tab[t].old
        /\ req'[r].to = WithExt[tab[t].path]
    BY <2>1, <2>2, SubmitFields, ZenonT(60)
  <2>5. QED
    BY <2>3, <2>4 DEF Left
<1>2. CASE Busy(r) /\ ~ SaveStep(r)
  <2>1. StaysAsItIs(r)
    BY <1>2, OtherStepsLeaveIt
  <2>2. req[r].from \in Paths \cup {NoName}
    BY <1>2, BusyFields DEF EditorInv, Request
  <2>3. QED
    BY <1>2, <2>1, <2>2 DEF NothingIsLeft, Left, StaysAsItIs, HasDraft
<1>3. CASE Busy(r) /\ SaveStep(r)
  BY <1>3, OwnStepsTakeAlong DEF NothingIsLeft
<1>4. QED
  BY <1>1, <1>2, <1>3

\* Unless a call that carries the draft fails, which adminSave passes over, a
\* save under a new name confirmed without complaint leaves none under the old.
THEOREM DraftsComeAlong ==
    ASSUME TakesCare("waits"), FailingCalls \cap CarryingCalls = {}
    PROVE  EditorSpec => NoDraftLeftBehind
<1>. DEFINE Inv == EditorInv /\ OneAtATime /\ NothingIsLeft
            CameAlong == \A r \in Requests :
                /\ Confirms(r)
                /\ ~ req[r].complaint
                /\ req[r].from \notin {NoName, req[r].to}
                => ~ HasDraft(req[r].from)
<1>1. EditorInit => Inv
  BY TypeInit, EditorTypeInit
     DEF EditorInit, EditorInv, OneAtATime, NothingIsLeft, Busy, New
<1>2. Inv /\ [EditorNext]_allVars => Inv'
  BY EditorStepIsStoreStep, EditorTypeStep, TypeStep, OneAtATimeStep,
     LeftStep DEF EditorInv
<1>3. Inv => CameAlong
  BY DEF NothingIsLeft, Left, Confirms, Busy
<1>4. QED
  BY <1>1, <1>2, <1>3, PTL DEF EditorSpec, NoDraftLeftBehind

-----------------------------------------------------------------------------
(***************************************************************************)
(* An author loses no words.  Whatever the browser and the server go       *)
(* through, words kept are in the browser's copy, published, or a draft;   *)
(* what has to be shown is that no copy is dropped and no draft written    *)
(* over or dropped that holds the last of them.                            *)
(***************************************************************************)

\* Words that are on a page or in the history of one.
Published(w) ==
    \/ \E p \in Paths : Exists(p) /\ pages[p].content = w
    \/ \E v \in versions : v.content = w

\* Words a browser keeps a copy of.
InCopies(w) == \E u \in Urls : stash[u] = w

\* Words no draft is needed for.
Settled(w) == InCopies(w) \/ Published(w)

InDrafts(w) == \E p \in Paths : DraftIs(p, w)

\* Words kept need no open page: that is the point of it all.
WordsAreSomewhere == \A w \in Kept : Settled(w) \/ InDrafts(w)

\* The copy of an open page is its text, or what it offers to bring back.
CopiesAreOffered ==
    \A t \in Tabs : tab[t] # NoTab =>
        IF tab[t].offer = NoWords
        THEN stash[tab[t].url] \in {NoWords, tab[t].text}
        ELSE stash[tab[t].url] = tab[t].offer

\* Drafts are saved under names with an extension.
DraftsAreNamed == \A p \in Paths : HasDraft(p) => WithExt[p] = p

\* The page of a save that is under way waits for it as it was.
TabsWait ==
    \A r \in Requests : Busy(r) /\ req[r].tab # NoTab =>
        /\ tab[req[r].tab].text = req[r].content
        /\ tab[req[r].tab].offer = NoWords
        /\ tab[req[r].tab].old = req[r].from

\* Where the words of a page are only drafts, the draft of its name is them.
DraftIsOfTab(page) ==
    page.text \in Kept /\ ~ Settled(page.text) /\ page.old # NoName
        => (HasDraft(page.old) => DraftIs(page.old, page.text))

\* And a save that may yet write under that name, after its own page has been
\* closed, finds that draft there.
WillNotWrite(x, page) ==
    /\ page.text \in Kept /\ ~ Settled(page.text)
    /\ x.pc \in Moving \cup {"write"} /\ x.to = page.old
    => HasDraft(page.old)

TabText ==
    \A t \in Tabs : tab[t] # NoTab =>
        /\ DraftIsOfTab(tab[t])
        /\ \A r \in Requests :
            Busy(r) /\ req[r].tab # t => WillNotWrite(req[r], tab[t])

\* A save moves what it saves to another name, one with an extension.
Named(x) ==
    /\ x.to = WithExt[x.name]
    /\ x.pc \in Moving => x.from # x.to

\* A save of words that are only drafts carries those very words along.
Carries(x) ==
    x.pc \in Moving /\ x.content \in Kept /\ ~ Settled(x.content)
    => /\ HasDraft(x.from) => DraftIs(x.from, x.content)
       /\ x.pc \in {"carrySave", "carryDrop"} => x.carried.content = x.content

MineAt(p, x) ==
    HasDraft(p) /\ drafts[p].content \in Kept => drafts[p].content = x.content

\* The drafts a save replaces or drops are its own words, or not kept.
Looks(x) ==
    /\ x.pc \in Moving \cup {"write", "clear"} =>
        MineAt(x.to, x) /\ (x.from # NoName => MineAt(x.from, x))
    /\ x.pc \in {"carrySave", "carryDrop"} /\ x.carried.content \in Kept
        => x.carried.content = x.content

\* What a save drops under its old name is under the new one before.
Drops(x) ==
    /\ x.pc \in {"carrySave", "carryDrop"}
    /\ x.content \in Kept
    /\ DraftIs(x.from, x.content)
    => /\ x.pc = "carrySave" => x.carried.content = x.content
       /\ x.pc = "carryDrop" => DraftIs(x.to, x.content)

\* Words are cleared or answered for when they are stored.
Answers(x) ==
    /\ x.pc = "clear" => x.publish /\ Published(x.content)
    /\ x.pc = "confirm" \/ x.ok =>
        IF x.publish THEN Published(x.content)
        ELSE x.content \in Kept => DraftIs(x.to, x.content)
    /\ x.ok => x.pc = "answered"

Orders(x) == Named(x) /\ Carries(x) /\ Looks(x) /\ Drops(x) /\ Answers(x)

\* An author who takes every care, in one editor page at a time, in a store
\* that keeps its history.
CarefulAuthor ==
    /\ TakesCare("answers") /\ TakesCare("waits")
    /\ TakesCare("looks") /\ TakesCare("matches")
    /\ \A s, t \in Tabs : s = t
    /\ KeepVersions = 0

\* What is published once stays in history.
LEMMA PublishedStays ==
    ASSUME TypeOK, KeepVersions = 0, [Next]_vars, NEW w, Published(w)
    PROVE  Published(w)'
<1>1. PICK p \in Paths : StoredAt(p, w)
  <2>1. CASE \E p \in Paths : Exists(p) /\ pages[p].content = w
    BY <2>1 DEF StoredAt
  <2>2. CASE \E v \in versions : v.content = w
    <3>1. PICK v \in versions : v.content = w
      BY <2>2
    <3>2. v.path \in Paths
      BY DEF TypeOK, Snapshot
    <3>3. QED
      BY <3>1, <3>2 DEF StoredAt
  <2>3. QED
    BY <2>1, <2>2 DEF Published
<1>2. StoredAt(p, w)'
  BY <1>1, StoredStays
<1>3. QED
  BY <1>2 DEF StoredAt, Published

\* Words are only kept since they were typed.
LEMMA KeptWereTyped ==
    ASSUME EditorTypeOK, [EditorNext]_allVars, NEW w \in Kept'
    PROVE  w \in Kept \/ \E t \in Tabs : Type(t, w)
<1>. fate \in [Words -> {"none", "kept", "gone"}]
  BY DEF EditorTypeOK
<1>1. ASSUME UNCHANGED fate
      PROVE  w \in Kept
  BY <1>1 DEF Kept
<1>2. ASSUME NEW some, fate' = Gone(some)
      PROVE  w \in Kept
  BY <1>2, GoneKeepsNoMore
<1>3. ASSUME NEW t \in Tabs, NEW z \in Words, Type(t, z)
      PROVE  w \in Kept \/ Type(t, w)
  BY <1>3 DEF Type, Gone, Kept
<1>4. ASSUME NEW t \in Tabs, AtTab(t)
      PROVE  w \in Kept \/ Type(t, w)
  BY <1>1, <1>2, <1>3, <1>4
     DEF AtTab, Open, TypeName, RestoreCopy, DiscardCopy, Leave, Discard,
         Submit
<1>5. ASSUME NEW p \in Paths, Delete(p)
      PROVE  w \in Kept
  BY <1>1, <1>2, <1>5 DEF Delete
<1>6. ASSUME NEW r \in Requests, SaveStep(r)
      PROVE  w \in Kept
  BY <1>1, <1>6
     DEF SaveStep, LookForPage, Rename, LookForDraft, ReadCarried,
         SaveCarried, DropCarried, Write, ClearDraft, Confirm, CallFails,
         Accept, Ignore, UnchangedButReq
<1>7. CASE \/ ServerStops \/ ReadVersion \/ WriteVersion \/ UNCHANGED allVars
           \/ \E p \in Paths, c \in OtherWords, m \in Mimes :
                SaveElsewhere(p, c, m)
  BY <1>1, <1>7 DEF ServerStops, ReadVersion, WriteVersion, SaveElsewhere,
                    allVars, editorVars
<1>8. QED
  BY <1>4, <1>5, <1>6, <1>7 DEF EditorNext

\* A copy is only dropped for the words of its page, or with them; but for an
\* answer that is accepted.
LEMMA CopiesStay ==
    ASSUME EditorInv, TakesCare("answers"), CopiesAreOffered,
           [EditorNext]_allVars, \A r \in Requests : ~ Accept(r),
           NEW w \in Kept', InCopies(w)
    PROVE  InCopies(w)'
<1>. /\ stash \in [Urls -> Contents \cup {NoWords}]
     /\ fate \in [Words -> {"none", "kept", "gone"}]
     /\ w \in Words
     /\ Words \subseteq Contents
     /\ NoWords \notin Contents
  BY EditorAssumption DEF EditorInv, EditorTypeOK, Kept
<1>1. ASSUME UNCHANGED stash
      PROVE  InCopies(w)'
  BY <1>1 DEF InCopies
<1>2. ASSUME NEW t \in Tabs, NEW z \in Words, Type(t, z)
      PROVE  InCopies(w)'
  <2>1. tab[t].url \in Urls /\ tab[t] # NoTab /\ tab[t].offer = NoWords
    BY <1>2, TabFields DEF Type, MayGoOn, EditorInv
  <2>2. stash[tab[t].url] \in {NoWords, tab[t].text}
    BY <2>1 DEF CopiesAreOffered
  <2>3. w = z \/ w # tab[t].text
    BY <1>2 DEF Type, Gone, Kept
  <2>4. stash' = [stash EXCEPT ![tab[t].url] = z]
    BY <1>2 DEF Type
  <2>5. CASE w = z
    BY <2>1, <2>4, <2>5 DEF InCopies
  <2>6. CASE w # tab[t].text
    <3>1. PICK u \in Urls : stash[u] = w
      BY DEF InCopies
    <3>2. u # tab[t].url
      BY <2>2, <2>6, <3>1
    <3>3. QED
      BY <2>4, <3>1, <3>2 DEF InCopies
  <2>7. QED
    BY <2>3, <2>5, <2>6
<1>3. ASSUME NEW t \in Tabs, DiscardCopy(t)
      PROVE  InCopies(w)'
  <2>1. tab[t].url \in Urls
    BY <1>3, TabFields DEF DiscardCopy, EditorInv
  <2>2. stash[tab[t].url] = tab[t].offer
    BY <1>3 DEF DiscardCopy, CopiesAreOffered
  <2>3. w # tab[t].offer
    BY <1>3 DEF DiscardCopy, Gone, Kept
  <2>4. PICK u \in Urls : stash[u] = w
    BY DEF InCopies
  <2>5. QED
    BY <1>3, <2>1, <2>2, <2>3, <2>4 DEF DiscardCopy, InCopies
<1>4. ASSUME NEW t \in Tabs, AtTab(t)
      PROVE  InCopies(w)'
  BY <1>1, <1>2, <1>3, <1>4
     DEF AtTab, Open, TypeName, RestoreCopy, Leave, Discard, Submit
<1>5. ASSUME NEW r \in Requests, SaveStep(r)
      PROVE  InCopies(w)'
  BY <1>1, <1>5
     DEF SaveStep, LookForPage, Rename, LookForDraft, ReadCarried,
         SaveCarried, DropCarried, Write, ClearDraft, Confirm, CallFails,
         Ignore, UnchangedButReq
<1>6. CASE \/ ServerStops \/ ReadVersion \/ WriteVersion \/ UNCHANGED allVars
           \/ \E p \in Paths : Delete(p)
           \/ \E p \in Paths, c \in OtherWords, m \in Mimes :
                SaveElsewhere(p, c, m)
  BY <1>1, <1>6 DEF ServerStops, ReadVersion, WriteVersion, SaveElsewhere,
                    Delete, allVars, editorVars
<1>7. QED
  BY <1>4, <1>5, <1>6 DEF EditorNext

\* So no words kept become unsettled but by an accepted answer.
LEMMA SettledStays ==
    ASSUME EditorInv, CarefulAuthor, CopiesAreOffered,
           [EditorNext]_allVars, \A r \in Requests : ~ Accept(r),
           NEW w \in Kept', Settled(w)
    PROVE  Settled(w)'
<1>1. [Next]_vars /\ TypeOK /\ KeepVersions = 0 /\ TakesCare("answers")
  BY EditorStepIsStoreStep DEF EditorInv, CarefulAuthor
<1>2. Published(w) => Published(w)'
  BY <1>1, PublishedStays
<1>3. InCopies(w) => InCopies(w)'
  BY <1>1, CopiesStay
<1>4. QED
  BY <1>2, <1>3 DEF Settled

\* Where no save of the editors does it, a draft goes only with its words.
LEMMA DraftsDrift ==
    ASSUME EditorInv, TakesCare("matches"), [EditorNext]_allVars,
           \A r \in Requests : ~ SaveStep(r), NEW p \in Paths
    PROVE  \/ drafts'[p] = drafts[p]
           \/ drafts'[p] = NoDraft /\ drafts[p].content \notin Kept'
<1>. TypeOK /\ EditorTypeOK
  BY DEF EditorInv
<1>1. ASSUME UNCHANGED drafts
      PROVE  drafts'[p] = drafts[p]
  BY <1>1
<1>2. ASSUME NEW t \in Tabs, Discard(t)
      PROVE  \/ drafts'[p] = drafts[p]
             \/ drafts'[p] = NoDraft /\ drafts[p].content \notin Kept'
  <2>1. PICK q \in Paths : q = tab[t].path /\ q = tab[t].url[1]
    BY <1>2, TabFields DEF Discard, MayGoOn
  <2>2. DiscardDraft(q)
    BY <1>2, <2>1 DEF Discard
  <2>3. fate' = Gone({tab[t].text} \cup {drafts[q].content})
    BY <1>2, <2>1, <2>2 DEF Discard, DiscardDraft
  <2>4. drafts[q].content \notin Kept'
    BY <2>3, GoneKeepsNoMore
  <2>5. QED
    BY <2>2, <2>4 DEF DiscardDraft, TypeOK
<1>3. ASSUME NEW q \in Paths, Delete(q)
      PROVE  \/ drafts'[p] = drafts[p]
             \/ drafts'[p] = NoDraft /\ drafts[p].content \notin Kept'
  <2>1. drafts' = [drafts EXCEPT ![q] = NoDraft]
    BY <1>3 DEF Delete, DeletePage
  <2>2. HasDraft(q) => drafts[q].content \notin Kept'
    BY <1>3, GoneKeepsNoMore DEF Delete
  <2>3. QED
    BY <2>1, <2>2 DEF TypeOK, HasDraft
<1>4. ASSUME NEW t \in Tabs, AtTab(t), ~ Discard(t)
      PROVE  UNCHANGED drafts
  BY <1>4 DEF AtTab, Open, Type, TypeName, RestoreCopy, DiscardCopy, Leave,
              Submit, vars, draftVars
<1>5. CASE \/ ServerStops \/ ReadVersion \/ WriteVersion \/ UNCHANGED allVars
           \/ \E q \in Paths, c \in OtherWords, m \in Mimes :
                SaveElsewhere(q, c, m)
  BY <1>1, <1>5 DEF ServerStops, ReadVersion, WriteVersion, SaveElsewhere,
                    SavePage, allVars, vars, draftVars
<1>6. QED
  BY <1>1, <1>2, <1>3, <1>4, <1>5 DEF EditorNext

\* A request that goes on with its orders.
GoesOn(x, y) ==
    /\ x \in Request /\ y \in Request
    /\ y.name = x.name
    /\ y.to = x.to
    /\ y.from = x.from
    /\ y.content = x.content
    /\ y.publish = x.publish
    /\ x.pc \in Moving => x.from \in Paths

\* The steps of a save, as far as the drafts see them.
PassesOn(x, y) ==
    /\ <<x.pc, y.pc>> \in
        {<<"look", "rename">>, <<"look", "lookDraft">>, <<"rename", "write">>,
         <<"lookDraft", "carry">>, <<"lookDraft", "write">>,
         <<"carry", "write">>, <<"carrySave", "write">>,
         <<"carryDrop", "write">>, <<"write", "answered">>,
         <<"clear", "confirm">>, <<"confirm", "answered">>}
    /\ y.ok => x.ok \/ x.pc = "confirm"
    /\ UNCHANGED drafts

MovesDraft(x, y) ==
    /\ x.pc = "rename" /\ y.pc = "write" /\ y.ok = x.ok
    /\ HasDraft(x.from) /\ ~ HasDraft(x.to)
    /\ drafts' = [drafts EXCEPT ![x.to] = drafts[x.from], ![x.from] = NoDraft]

ReadsCarried(x, y) ==
    /\ x.pc = "carry" /\ y.pc = "carrySave" /\ y.ok = x.ok
    /\ HasDraft(x.from) /\ y.carried = drafts[x.from]
    /\ UNCHANGED drafts

SavesCarried(x, y) ==
    /\ x.pc = "carrySave" /\ y.pc = "carryDrop" /\ y.ok = x.ok
    /\ y.carried = x.carried /\ x.carried \in Document
    /\ drafts' = [drafts EXCEPT ![x.to] = [content |-> x.carried.content,
                                           mime |-> x.carried.mime]]

DropsCarried(x, y) ==
    /\ x.pc = "carryDrop" /\ y.pc = "write" /\ y.ok = x.ok
    /\ drafts' = [drafts EXCEPT ![x.from] = NoDraft]

WritesPage(x, y) ==
    /\ x.pc = "write" /\ y.pc = "clear" /\ y.ok = x.ok
    /\ x.publish
    /\ Published(x.content)'
    /\ UNCHANGED drafts

WritesDraft(x, y) ==
    /\ x.pc = "write" /\ y.pc = "confirm" /\ y.ok = x.ok
    /\ ~ x.publish
    /\ drafts' = [drafts EXCEPT ![x.to] = [content |-> x.content,
                                           mime |-> "text"]]

ClearsDraft(x, y) ==
    /\ x.pc = "clear" /\ y.pc = "confirm" /\ y.ok = x.ok
    /\ drafts' = [drafts EXCEPT ![x.to] = NoDraft]

\* A step of a save is one of those.
SaveDoes(x, y) ==
    \/ PassesOn(x, y) \/ MovesDraft(x, y) \/ ReadsCarried(x, y)
    \/ SavesCarried(x, y) \/ DropsCarried(x, y) \/ WritesPage(x, y)
    \/ WritesDraft(x, y) \/ ClearsDraft(x, y)

\* What a step of a save does that is not its end.
LEMMA SaveStepsAre ==
    ASSUME EditorInv, NEW r \in Requests, SaveStep(r), Busy(r)',
           NEW x, x = req[r], NEW y, y = req'[r]
    PROVE  GoesOn(x, y) /\ SaveDoes(x, y)
<1>. /\ TypeOK /\ EditorTypeOK
     /\ drafts \in [Paths -> Document \cup {NoDraft}]
  BY EditorAssumption DEF EditorInv, TypeOK
<1>0. Busy(r) /\ req \in [Requests -> Request \cup {New, Done}]
  BY SaveStepIsBusy DEF EditorTypeOK, RequestsOK
<1>1. /\ x \in Request
      /\ x.pc \in Pcs
      /\ x.to \in Paths
      /\ x.pc \in Moving => x.from \in Paths
      /\ x.pc \in {"carrySave", "carryDrop"} => x.carried \in Document
  BY <1>0, BusyFields, RequestFields DEF Busy
<1>2. y \in Request
  <2>1. EditorTypeOK'
    BY EditorTypeStep DEF EditorNext
  <2>2. y \in Request \cup {New, Done}
    BY <2>1 DEF EditorTypeOK, RequestsOK
  <2>3. QED
    BY <2>2 DEF Busy, New, Done
<1>3. GoesOn(x, y) /\ ~ Accept(r) /\ ~ Ignore(r)
  BY <1>1, <1>2, SaveStepGoesOn DEF GoesOn
<1>4. CASE LookForPage(r) \/ LookForDraft(r)
  BY <1>0, <1>1, <1>3, <1>4
     DEF SaveDoes, LookForPage, LookForDraft, Goto, PassesOn, Request, vars,
         draftVars
<1>5. CASE Rename(r)
  <2>1. CASE UNCHANGED drafts
    BY <1>0, <1>1, <1>3, <1>5, <2>1
       DEF SaveDoes, Rename, Goto, PassesOn, Request
  <2>2. CASE ~ UNCHANGED drafts
    BY <1>0, <1>1, <1>3, <1>5, <2>2
       DEF SaveDoes, Rename, RenamePage, MoveDraft, Goto, MovesDraft, HasDraft,
           Request, vars, draftVars
  <2>3. QED
    BY <2>1, <2>2
<1>6. CASE ReadCarried(r)
  BY <1>0, <1>1, <1>3, <1>6
     DEF SaveDoes, ReadCarried, PassesOn, ReadsCarried, Request, vars,
         draftVars
<1>7. CASE SaveCarried(r)
  BY <1>0, <1>1, <1>3, <1>7
     DEF SaveDoes, SaveCarried, SaveDraft, Goto, SavesCarried, Request
<1>8. CASE DropCarried(r)
  <2>1. x.from \in Paths
    BY <1>1, <1>8 DEF SaveDoes, DropCarried, Moving
  <2>2. drafts' = [drafts EXCEPT ![x.from] = NoDraft]
    BY <1>8, <2>1
       DEF SaveDoes, DropCarried, DiscardDraft, HasDraft, vars, draftVars
  <2>3. QED
    BY <1>0, <1>1, <1>3, <1>8, <2>2
       DEF SaveDoes, DropCarried, DropsCarried, Request
<1>9. CASE Write(r)
  <2>1. CASE /\ req[r].publish
             /\ req'[r] = [req[r] EXCEPT !.pc = "clear"]
             /\ StoredAt(req[r].to, req[r].content)'
             /\ UNCHANGED drafts
    <3>1. PICK q \in Paths, c \in Contents : q = x.to /\ c = x.content
      BY <1>1 DEF Request
    <3>2. StoredAt(q, c)'
      BY <1>3, <2>1, <3>1 DEF SaveDoes, StoredAt, GoesOn
    <3>3. Published(c)'
      BY <3>2 DEF SaveDoes, StoredAt, Published
    <3>4. Published(x.content)'
      BY <3>1, <3>3
    <3>5. QED
      BY <1>1, <1>3, <1>9, <2>1, <3>4 DEF SaveDoes, Write, WritesPage, Request
  <2>2. CASE /\ ~ req[r].publish
             /\ req'[r] = [req[r] EXCEPT !.pc = "confirm"]
             /\ drafts' = [drafts EXCEPT ![req[r].to] =
                                [content |-> req[r].content, mime |-> "text"]]
    BY <1>1, <1>3, <1>9, <2>2 DEF SaveDoes, Write, WritesDraft, Request
  <2>3. QED
    BY <1>9, <2>1, <2>2, WriteStores
<1>10. CASE ClearDraft(r)
  <2>1. drafts' = [drafts EXCEPT ![x.to] = NoDraft]
    BY <1>1, <1>10
       DEF SaveDoes, ClearDraft, DiscardDraft, HasDraft, vars, draftVars
  <2>2. QED
    BY <1>0, <1>1, <1>3, <1>10, <2>1
       DEF SaveDoes, ClearDraft, ClearsDraft, Goto, Request
<1>11. CASE Confirm(r)
  BY <1>0, <1>1, <1>3, <1>11
     DEF SaveDoes, Confirm, PassesOn, Request, vars, draftVars
<1>12. CASE CallFails(r)
  <2>1. /\ y.pc = AfterFailure(x.pc)
        /\ y.ok = x.ok
        /\ UNCHANGED drafts
        /\ x.pc \in Pcs \ {"answered"}
    BY <1>0, <1>1, <1>12, EditorAssumption
       DEF SaveDoes, CallFails, Request, vars, draftVars
  <2>2. QED
    BY <1>3, <2>1 DEF SaveDoes, AfterFailure, PassesOn, Pcs
<1>13. QED
  BY <1>3, <1>4, <1>5, <1>6, <1>7, <1>8, <1>9, <1>10, <1>11, <1>12
     DEF SaveStep

\* Words kept that were settled are settled still.
StaySettled == \A w \in Kept' : Settled(w) => Settled(w)'

\* The drafts that go, go with their words.
DraftsOnlyDrift ==
    \A p \in Paths : \/ drafts'[p] = drafts[p]
                     \/ drafts'[p] = NoDraft /\ drafts[p].content \notin Kept'

\* What happens around a save leaves it in order.
LEMMA OrdersDrift ==
    ASSUME Kept' \subseteq Kept, StaySettled, DraftsOnlyDrift,
           NEW x, NEW y, GoesOn(x, y), x.pc = y.pc, x.carried = y.carried,
           x.ok = y.ok, Published(x.content) => Published(x.content)',
           Orders(x)
    PROVE  Orders(y)'
<1>1. /\ x.to \in Paths
      /\ x.from \in Paths \cup {NoName}
      /\ x.pc \in Moving => x.from \in Paths
  BY DEF GoesOn, Request
<1>2. PICK p, q, c : p = x.from /\ q = x.to /\ c = x.content
  OBVIOUS
<1>3. p = y.from /\ q = y.to /\ c = y.content
  BY <1>2 DEF GoesOn
<1>4. \A d \in Paths :
        /\ HasDraft(d)' => HasDraft(d) /\ drafts'[d] = drafts[d]
        /\ DraftIs(d, c) /\ c \in Kept' => DraftIs(d, c)'
  BY DEF DraftsOnlyDrift, HasDraft, DraftIs
<1>5. Named(y)'
  BY DEF Named, GoesOn, Orders
<1>6. Carries(y)'
  <2>1. SUFFICES ASSUME y.pc \in Moving, c \in Kept', ~ Settled(c)'
                 PROVE  /\ HasDraft(p)' => DraftIs(p, c)'
                        /\ y.pc \in {"carrySave", "carryDrop"} => y.carried.content = c
    BY <1>3 DEF Carries
  <2>2. c \in Kept /\ ~ Settled(c) /\ x.pc \in Moving /\ p \in Paths
    BY <1>1, <1>2, <2>1 DEF StaySettled
  <2>3. /\ HasDraft(p) => DraftIs(p, c)
        /\ x.pc \in {"carrySave", "carryDrop"} => x.carried.content = c
    BY <1>2, <2>2 DEF Orders, Carries
  <2>4. QED
    BY <1>4, <2>2, <2>3 DEF DraftIs
<1>7. \A d \in Paths : MineAt(d, x) => MineAt(d, y)'
  BY <1>2, <1>3, <1>4 DEF MineAt
<1>8. Looks(y)'
  BY <1>1, <1>2, <1>3, <1>7 DEF Orders, Looks
<1>9. Drops(y)'
  <2>1. SUFFICES ASSUME y.pc \in {"carrySave", "carryDrop"}, c \in Kept',
                        DraftIs(p, c)'
                 PROVE  /\ y.pc = "carrySave" => y.carried.content = c
                        /\ y.pc = "carryDrop" => DraftIs(q, c)'
    BY <1>3 DEF Drops
  <2>2. p \in Paths /\ q \in Paths /\ c \in Kept
    BY <1>1, <1>2, <2>1 DEF Moving
  <2>3. DraftIs(p, c)
    BY <1>4, <2>1, <2>2 DEF DraftIs
  <2>4. /\ x.pc = "carrySave" => x.carried.content = c
        /\ x.pc = "carryDrop" => DraftIs(q, c)
    BY <1>2, <2>1, <2>2, <2>3 DEF Orders, Drops
  <2>5. QED
    BY <1>4, <2>1, <2>2, <2>4
<1>10. Answers(y)'
  <2>1. Published(c) => Published(c)'
    BY <1>2
  <2>2. DraftIs(q, c) /\ c \in Kept' => DraftIs(q, c)'
    BY <1>1, <1>2, <1>4
  <2>3. Answers(x) /\ y.publish = x.publish
    BY DEF Orders, GoesOn
  <2>4. QED
    BY <1>2, <1>3, <2>1, <2>2, <2>3 DEF Answers
<1>11. QED
  BY <1>5, <1>6, <1>8, <1>9, <1>10 DEF Orders

\* A save keeps its orders through its own steps.
LEMMA OwnStepsKeepOrders ==
    ASSUME TypeOK, Kept' = Kept, StaySettled,
           NEW x, NEW y, GoesOn(x, y), Orders(x),
           Published(x.content) => Published(x.content)',
           SaveDoes(x, y)
    PROVE  Orders(y)'
<1>. drafts \in [Paths -> Document \cup {NoDraft}]
  BY EditorAssumption DEF TypeOK
<1>1. /\ x.to \in Paths
      /\ x.from \in Paths \cup {NoName}
      /\ x.content \in Contents
      /\ x.pc \in Moving => x.from \in Paths /\ x.from # x.to
  BY DEF GoesOn, Request, Orders, Named
<1>2. PICK p, q, c : p = x.from /\ q = x.to /\ c = x.content
  OBVIOUS
<1>3. p = y.from /\ q = y.to /\ c = y.content
  BY <1>2 DEF GoesOn
<1>4. y.pc \in Moving => x.pc \in Moving
  BY DEF SaveDoes, PassesOn, MovesDraft, ReadsCarried, SavesCarried,
         DropsCarried, WritesPage, WritesDraft, ClearsDraft, Moving
<1>5. Named(y)'
  BY <1>4 DEF Named, GoesOn, Orders
<1>6. Carries(y)'
  <2>1. SUFFICES ASSUME y.pc \in Moving, c \in Kept', ~ Settled(c)'
                 PROVE  /\ HasDraft(p)' => DraftIs(p, c)'
                        /\ y.pc \in {"carrySave", "carryDrop"} => y.carried.content = c
    BY <1>3 DEF Carries
  <2>2. /\ c \in Kept /\ ~ Settled(c) /\ x.pc \in Moving
        /\ p \in Paths /\ q \in Paths /\ p # q
    BY <1>1, <1>2, <1>4, <2>1 DEF StaySettled
  <2>3. /\ HasDraft(p) => DraftIs(p, c)
        /\ x.pc \in {"carrySave", "carryDrop"} => x.carried.content = c
    BY <1>2, <2>2 DEF Orders, Carries
  <2>4. HasDraft(p)' => DraftIs(p, c)'
    <3>1. drafts'[p] = drafts[p]
      BY <1>2, <2>1, <2>2
         DEF SaveDoes, PassesOn, MovesDraft, ReadsCarried, SavesCarried,
             DropsCarried, WritesPage, WritesDraft, ClearsDraft, Moving
    <3>2. QED
      BY <2>3, <3>1 DEF HasDraft, DraftIs
  <2>5. y.pc \in {"carrySave", "carryDrop"} => y.carried.content = c
    BY <1>2, <2>3
       DEF SaveDoes, PassesOn, MovesDraft, ReadsCarried, SavesCarried,
           DropsCarried, WritesPage, WritesDraft, ClearsDraft, DraftIs
  <2>6. QED
    BY <2>4, <2>5
<1>7. Looks(y)'
  <2>1. \A d \in Paths : MineAt(d, x) /\ drafts'[d] = drafts[d] => MineAt(d, y)'
    BY <1>2, <1>3 DEF MineAt, HasDraft
  <2>2. \A d \in Paths :
            (drafts'[d] # NoDraft /\ drafts'[d].content \in Kept
                => drafts'[d].content = c)
            => MineAt(d, y)'
    BY <1>3 DEF MineAt, HasDraft
  <2>3. CASE y.pc \in Moving \cup {"write", "clear"}
    <3>1. x.pc \in Moving \cup {"write", "clear"}
      BY <2>3 DEF SaveDoes, PassesOn, MovesDraft, ReadsCarried, SavesCarried,
           DropsCarried, WritesPage, WritesDraft, ClearsDraft, Moving
    <3>2. MineAt(q, x) /\ (p # NoName => MineAt(p, x))
      BY <1>2, <3>1 DEF Orders, Looks
    <3>3. q \in Paths /\ (p # NoName => p \in Paths)
      BY <1>1, <1>2
    <3>4. x.pc \in {"carrySave", "carryDrop"} /\ x.carried.content \in Kept
            => x.carried.content = c
      BY <1>2 DEF Orders, Looks
    <3>5. MineAt(q, y)' /\ (p # NoName => MineAt(p, y)')
      <4>1. CASE UNCHANGED drafts
        BY <2>1, <3>2, <3>3, <4>1
      <4>2. CASE MovesDraft(x, y)
        <5>1. p \in Paths /\ p # q /\ p # NoName
          BY <1>1, <1>2, <4>2, EditorAssumption DEF MovesDraft, Moving
        <5>2. drafts[p].content \in Kept => drafts[p].content = c
          BY <1>2, <3>2, <4>2, <5>1 DEF MovesDraft, MineAt
        <5>3. drafts'[p] = NoDraft /\ drafts'[q] = drafts[p]
          BY <1>2, <3>3, <4>2, <5>1 DEF MovesDraft
        <5>4. QED
          BY <2>2, <3>3, <5>1, <5>2, <5>3
      <4>3. CASE SavesCarried(x, y)
        BY <1>1, <1>2, <2>1, <2>2, <3>2, <3>3, <3>4, <4>3
           DEF SavesCarried, Moving
      <4>4. CASE DropsCarried(x, y)
        BY <1>1, <1>2, <2>1, <2>2, <3>2, <3>3, <4>4 DEF DropsCarried, Moving
      <4>5. QED
        BY <2>3, <4>1, <4>2, <4>3, <4>4
           DEF SaveDoes, PassesOn, ReadsCarried, WritesPage, WritesDraft,
               ClearsDraft, Moving
    <3>6. y.pc \in {"carrySave", "carryDrop"} /\ y.carried.content \in Kept'
            => y.carried.content = c
      <4>1. CASE ReadsCarried(x, y)
        <5>1. p # NoName
          BY <1>1, <1>2, <4>1, EditorAssumption DEF ReadsCarried, Moving
        <5>2. QED
          BY <1>2, <3>2, <4>1, <5>1 DEF ReadsCarried, MineAt
      <4>2. CASE ~ ReadsCarried(x, y)
        BY <3>4, <4>2
           DEF SaveDoes, PassesOn, MovesDraft, SavesCarried, DropsCarried,
               WritesPage, WritesDraft, ClearsDraft
      <4>3. QED
        BY <4>1, <4>2
    <3>7. QED
      BY <1>3, <3>5, <3>6 DEF Looks
  <2>4. CASE y.pc \notin Moving \cup {"write", "clear"}
    BY <2>4 DEF Looks, Moving
  <2>5. QED
    BY <2>3, <2>4
<1>8. Drops(y)'
  <2>1. SUFFICES ASSUME y.pc \in {"carrySave", "carryDrop"}, c \in Kept',
                        DraftIs(p, c)'
                 PROVE  /\ y.pc = "carrySave" => y.carried.content = c
                        /\ y.pc = "carryDrop" => DraftIs(q, c)'
    BY <1>3 DEF Drops
  <2>2. CASE ReadsCarried(x, y)
    BY <1>2, <2>1, <2>2 DEF ReadsCarried, DraftIs
  <2>3. CASE SavesCarried(x, y)
    <3>1. p \in Paths /\ q \in Paths /\ p # q
      BY <1>1, <1>2, <2>3 DEF SavesCarried, Moving
    <3>2. DraftIs(p, c)
      BY <1>2, <2>1, <2>3, <3>1 DEF SavesCarried, DraftIs, HasDraft
    <3>3. x.carried.content = c
      BY <1>2, <2>1, <2>3, <3>2 DEF SavesCarried, Orders, Drops
    <3>4. drafts'[q] = [content |-> c, mime |-> x.carried.mime]
      BY <1>2, <2>3, <3>1, <3>3 DEF SavesCarried
    <3>5. drafts'[q] # NoDraft
      BY <2>3, <3>3, <3>4, SentinelsAssumption DEF SavesCarried, Document
    <3>6. QED
      BY <2>3, <3>4, <3>5 DEF SavesCarried, DraftIs, HasDraft
  <2>4. QED
    BY <2>1, <2>2, <2>3
       DEF SaveDoes, PassesOn, MovesDraft, DropsCarried, WritesPage,
           WritesDraft, ClearsDraft
<1>9. Answers(y)'
  <2>1. Published(c) => Published(c)'
    BY <1>2
  <2>2. Answers(x) /\ y.publish = x.publish
    BY DEF Orders, GoesOn
  <2>3. CASE WritesPage(x, y)
    BY <1>2, <1>3, <2>2, <2>3 DEF WritesPage, Answers
  <2>4. CASE WritesDraft(x, y)
    <3>1. drafts'[q] = [content |-> c, mime |-> "text"]
      BY <1>1, <1>2, <2>4 DEF WritesDraft
    <3>2. DraftIs(q, c)'
      BY <1>1, <1>2, <3>1, SentinelsAssumption, EditorAssumption
         DEF DraftIs, HasDraft, Document
    <3>3. QED
      BY <1>2, <1>3, <2>2, <2>4, <3>2 DEF WritesDraft, Answers
  <2>5. CASE PassesOn(x, y)
    <3>1. DraftIs(q, c) => DraftIs(q, c)'
      BY <2>5 DEF SaveDoes, PassesOn, DraftIs, HasDraft
    <3>2. QED
      BY <1>2, <1>3, <2>1, <2>2, <2>5, <3>1 DEF SaveDoes, PassesOn, Answers
  <2>6. CASE ClearsDraft(x, y)
    BY <1>2, <1>3, <2>1, <2>2, <2>6 DEF ClearsDraft, Answers
  <2>7. CASE MovesDraft(x, y) \/ ReadsCarried(x, y) \/ SavesCarried(x, y)
             \/ DropsCarried(x, y)
    BY <2>2, <2>7 DEF MovesDraft, ReadsCarried, SavesCarried, DropsCarried,
                      Answers
  <2>8. QED
    BY <2>3, <2>4, <2>5, <2>6, <2>7 DEF SaveDoes
<1>10. QED
  BY <1>5, <1>6, <1>7, <1>8, <1>9 DEF Orders

\* Or it is the end of the request.
LEMMA SavesEnd ==
    ASSUME EditorInv, NEW r \in Requests, SaveStep(r), ~ Busy(r)'
    PROVE  (Accept(r) \/ Ignore(r)) /\ UNCHANGED <<vars, fate>>
<1>1. /\ Busy(r)
      /\ req[r] \in Request
      /\ req[r].pc \in Pcs
      /\ req \in [Requests -> Request \cup {New, Done}]
  BY SaveStepIsBusy, BusyFields DEF EditorInv, EditorTypeOK, RequestsOK
<1>2. ASSUME ~ Accept(r), ~ Ignore(r)
      PROVE  FALSE
  <2>1. CASE CallFails(r)
    BY <1>1, <2>1 DEF CallFails, AfterFailure, Busy, Request
  <2>2. CASE ~ CallFails(r)
    BY <1>1, <1>2, <2>2
       DEF SaveStep, LookForPage, Rename, LookForDraft, ReadCarried,
           SaveCarried, DropCarried, Write, ClearDraft, Confirm, Goto, Busy,
           Request
  <2>3. QED
    BY <2>1, <2>2
<1>3. QED
  BY <1>2 DEF Accept, Ignore, UnchangedButReq

\* A save is submitted in order: it comes from a page whose draft is its own,
\* and its author has looked what it would save over.
LEMMA SubmittedInOrder ==
    ASSUME EditorInv, TakesCare("looks"), NEW t \in Tabs, NEW r \in Requests,
           NEW publish, Submit(t, r, publish), DraftIsOfTab(tab[t]),
           NEW y, y = req'[r]
    PROVE  Orders(y)'
<1>1. /\ tab[t].path \in Paths
      /\ tab[t].old \in Paths \cup {NoName}
      /\ WithExt[tab[t].path] \in Paths
  BY TabFields, EditorAssumption DEF EditorInv, Submit, MayGoOn
<1>2. /\ y.pc = IF tab[t].old \in {NoName, WithExt[tab[t].path]}
                THEN "write" ELSE "look"
      /\ y.name = tab[t].path
      /\ y.to = WithExt[tab[t].path]
      /\ y.from = tab[t].old
      /\ y.content = tab[t].text
      /\ y.ok = FALSE
  <2>1. EditorTypeOK
    BY DEF EditorInv
  <2>2. QED
    BY <2>1, SubmitFields, ZenonT(60)
<1>3. UNCHANGED <<vars, stash, fate>>
  BY DEF Submit
<1>4. Named(y)'
  BY <1>2 DEF Named, Moving
<1>5. Carries(y)
  BY <1>2 DEF Carries, DraftIsOfTab, Moving
<1>6. MineAt(y.to, y) /\ (y.from # NoName => MineAt(y.from, y))
  BY <1>1, <1>2 DEF Submit, Unseen, MineAt
<1>7. Looks(y) /\ Drops(y)
  BY <1>2, <1>6 DEF Looks, Drops
<1>8. Answers(y)'
  BY <1>2 DEF Answers
<1>9. Carries(y)' /\ Looks(y)' /\ Drops(y)'
  BY <1>3, <1>5, <1>7
     DEF Carries, Looks, Drops, MineAt, DraftIs, HasDraft, Settled, Published,
         InCopies, Exists, Kept, vars, pageVars, draftVars
<1>10. QED
  BY <1>4, <1>8, <1>9 DEF Orders

\* Its steps lose none of the words that are only drafts.
LEMMA SavesKeepDraftWords ==
    ASSUME TypeOK, Kept' = Kept, StaySettled,
           NEW x, NEW y, GoesOn(x, y), Orders(x), SaveDoes(x, y),
           NEW w \in Kept, InDrafts(w), ~ Settled(w)'
    PROVE  InDrafts(w)'
<1>. drafts \in [Paths -> Document \cup {NoDraft}]
  BY EditorAssumption DEF TypeOK
<1>1. /\ x.to \in Paths
      /\ x.pc \in Moving => x.from \in Paths /\ x.from # x.to
  BY DEF GoesOn, Request, Orders, Named
<1>2. PICK d \in Paths : HasDraft(d) /\ drafts[d].content = w
  BY DEF InDrafts, DraftIs
<1>3. ~ Settled(w)
  BY DEF StaySettled
<1>4. ASSUME NEW e \in Paths, drafts'[e] # NoDraft, drafts'[e].content = w
      PROVE  InDrafts(w)'
  BY <1>4 DEF InDrafts, DraftIs, HasDraft
<1>5. CASE drafts'[d] = drafts[d]
  BY <1>2, <1>4, <1>5 DEF HasDraft
<1>6. CASE MovesDraft(x, y) /\ d = x.from
  BY <1>1, <1>2, <1>4, <1>6 DEF MovesDraft, Moving, HasDraft
<1>7. CASE SavesCarried(x, y) /\ d = x.to
  <2>1. w = x.content
    BY <1>2, <1>7 DEF SavesCarried, Orders, Looks, MineAt, Moving
  <2>2. x.carried.content = w
    BY <1>3, <1>7, <2>1 DEF SavesCarried, Orders, Carries, Moving
  <2>3. drafts'[d] = [content |-> w, mime |-> x.carried.mime]
    BY <1>1, <1>7, <2>2 DEF SavesCarried
  <2>4. drafts'[d] # NoDraft
    BY <1>7, <2>2, <2>3, SentinelsAssumption DEF SavesCarried, Document
  <2>5. QED
    BY <1>4, <2>3, <2>4
<1>8. CASE DropsCarried(x, y) /\ d = x.from
  <2>0. x.pc = "carryDrop" /\ x.pc \in Moving /\ d \in Paths
    BY <1>8 DEF DropsCarried, Moving
  <2>1. w = x.content
    BY <1>2, <1>8, <2>0, EditorAssumption DEF Orders, Looks, MineAt
  <2>2. DraftIs(x.to, w)
    BY <1>2, <1>8, <2>0, <2>1 DEF Orders, Drops, DraftIs
  <2>3. drafts'[x.to] = drafts[x.to]
    BY <1>1, <1>8, <2>0 DEF DropsCarried
  <2>4. QED
    BY <1>1, <1>4, <2>2, <2>3 DEF DraftIs, HasDraft
<1>9. CASE WritesDraft(x, y) /\ d = x.to
  <2>1. w = x.content
    BY <1>2, <1>9 DEF WritesDraft, Orders, Looks, MineAt, Moving
  <2>2. drafts'[d] = [content |-> w, mime |-> "text"]
    BY <1>1, <1>9, <2>1 DEF WritesDraft
  <2>3. w \in Contents
    BY EditorAssumption DEF Kept
  <2>4. drafts'[d] # NoDraft
    BY <2>2, <2>3, SentinelsAssumption, EditorAssumption DEF Document
  <2>5. QED
    BY <1>4, <2>2, <2>4
<1>10. CASE ClearsDraft(x, y) /\ d = x.to
  <2>1. w = x.content
    BY <1>2, <1>10 DEF ClearsDraft, Orders, Looks, MineAt, Moving
  <2>2. Published(w)
    BY <1>10, <2>1 DEF ClearsDraft, Orders, Answers
  <2>3. QED
    BY <1>3, <2>2 DEF Settled
<1>11. MovesDraft(x, y) => d # x.to
  BY <1>2 DEF MovesDraft
<1>12. QED
  BY <1>1, <1>5, <1>6, <1>7, <1>8, <1>9, <1>10, <1>11
     DEF SaveDoes, PassesOn, MovesDraft, ReadsCarried, SavesCarried,
         DropsCarried, WritesPage, WritesDraft, ClearsDraft, Moving

\* An accepted answer drops the copy of words that are stored.
LEMMA AcceptedAreStored ==
    ASSUME EditorInv, CopiesAreOffered, TabsWait, NEW r \in Requests, Accept(r),
           Orders(req[r]), NEW w \in Kept, Settled(w) \/ InDrafts(w)
    PROVE  Settled(w)' \/ InDrafts(w)'
<1>1. PICK x : x = req[r]
  OBVIOUS
<1>2. /\ Busy(r)
      /\ x \in Request
      /\ req[r].tab \in Tabs
      /\ tab[req[r].tab] # NoTab
  BY <1>1, BusyFields
     DEF Accept, Busy, EditorInv, EditorTypeOK, WaitingTabsAreOpen, Request
<1>3. PICK t \in Tabs : t = req[r].tab
  BY <1>2
<1>4. /\ tab[t].url \in Urls
      /\ stash[tab[t].url] \in {NoWords, x.content}
  <2>1. tab[t].url \in Urls
    BY <1>2, <1>3, TabFields DEF EditorInv
  <2>2. tab[t].text = x.content /\ tab[t].offer = NoWords
    BY <1>1, <1>2, <1>3, EditorAssumption DEF TabsWait
  <2>3. QED
    BY <1>2, <1>3, <2>1, <2>2 DEF CopiesAreOffered
<1>5. UNCHANGED <<pages, versions, drafts>>
  BY DEF Accept, vars, pageVars, draftVars
<1>6. stash' = [stash EXCEPT ![tab[t].url] = NoWords]
  BY <1>3 DEF Accept
<1>7. Published(w) => Published(w)'
  BY <1>5 DEF Published, Exists
<1>8. InDrafts(w) => InDrafts(w)'
  BY <1>5 DEF InDrafts, DraftIs, HasDraft
<1>9. w # NoWords
  BY EditorAssumption DEF Kept
<1>10. CASE w = x.content
  <2>1. Published(w) \/ DraftIs(x.to, w)
    BY <1>1, <1>10 DEF Accept, Orders, Answers
  <2>2. x.to \in Paths
    BY <1>2 DEF Request
  <2>3. QED
    BY <1>7, <1>8, <2>1, <2>2 DEF Settled, InDrafts
<1>11. CASE w # x.content
  <2>1. InCopies(w) => InCopies(w)'
    BY <1>4, <1>6, <1>9, <1>11 DEF InCopies, EditorInv, EditorTypeOK
  <2>2. QED
    BY <1>7, <1>8, <2>1 DEF Settled
<1>12. QED
  BY <1>10, <1>11

OrdersAreKept == \A r \in Requests : Busy(r) => Orders(req[r])

\* What is proved of the words together.
WordsInv ==
    /\ OneAtATime /\ WordsAreSomewhere /\ CopiesAreOffered /\ DraftsAreNamed
    /\ TabsWait /\ TabText /\ OrdersAreKept

\* What the steps of the inductive proof have in common.
LEMMA WordsStepFacts ==
    ASSUME EditorInv, CarefulAuthor, WordsInv, [EditorNext]_allVars
    PROVE  /\ TypeOK /\ EditorTypeOK /\ EditorTypeOK'
           /\ (\A r \in Requests : ~ Accept(r)) => StaySettled
           /\ \A w : Published(w) => Published(w)'
           /\ (\A r \in Requests : ~ SaveStep(r)) => DraftsOnlyDrift
           /\ \A r, s \in Requests : Busy(r) /\ SaveStep(s) => r = s
<1>1. TypeOK /\ EditorTypeOK /\ EditorTypeOK' /\ [Next]_vars
  BY EditorStepIsStoreStep, EditorTypeStep DEF EditorInv
<1>2. \A w : Published(w) => Published(w)'
  BY <1>1, PublishedStays DEF CarefulAuthor
<1>3. (\A r \in Requests : ~ Accept(r)) => StaySettled
  BY SettledStays DEF WordsInv, StaySettled
<1>4. (\A r \in Requests : ~ SaveStep(r)) => DraftsOnlyDrift
  BY DraftsDrift DEF CarefulAuthor, DraftsOnlyDrift
<1>5. \A r, s \in Requests : Busy(r) /\ SaveStep(s) => r = s
  BY SaveStepIsBusy DEF WordsInv, OneAtATime
<1>6. QED
  BY <1>1, <1>2, <1>3, <1>4, <1>5

\* What a save keeps of the words: it changes none of them.
LEMMA SavesTypeNothing ==
    ASSUME NEW r \in Requests, SaveStep(r)
    PROVE  UNCHANGED fate /\ Kept' = Kept
<1>1. UNCHANGED fate
  BY DEF SaveStep, LookForPage, Rename, LookForDraft, ReadCarried,
         SaveCarried, DropCarried, Write, ClearDraft, Confirm, CallFails,
         Accept, Ignore, UnchangedButReq
<1>2. QED
  BY <1>1 DEF Kept

LEMMA SomewhereStep ==
    ASSUME EditorInv, CarefulAuthor, WordsInv, [EditorNext]_allVars
    PROVE  WordsAreSomewhere'
<1>. SUFFICES ASSUME NEW w \in Kept'
              PROVE  Settled(w)' \/ InDrafts(w)'
  BY DEF WordsAreSomewhere
<1>. TypeOK /\ EditorTypeOK
  BY DEF EditorInv
<1>1. CASE w \notin Kept
  <2>1. PICK t \in Tabs : Type(t, w)
    BY <1>1, KeptWereTyped
  <2>2. tab[t].url \in Urls /\ stash' = [stash EXCEPT ![tab[t].url] = w]
    BY <2>1, TabFields DEF Type, MayGoOn
  <2>3. InCopies(w)'
    BY <2>2 DEF InCopies, EditorTypeOK
  <2>4. QED
    BY <2>3 DEF Settled
<1>2. CASE w \in Kept
  <2>1. Settled(w) \/ InDrafts(w)
    BY <1>2 DEF WordsInv, WordsAreSomewhere
  <2>2. ASSUME NEW r \in Requests, Accept(r)
        PROVE  Settled(w)' \/ InDrafts(w)'
    <3>1. Orders(req[r])
      BY <2>2 DEF WordsInv, OrdersAreKept, Accept, Busy
    <3>2. QED
      BY <1>2, <2>1, <2>2, <3>1, AcceptedAreStored DEF WordsInv
  <2>3. ASSUME \A r \in Requests : ~ Accept(r), ~ Settled(w)'
        PROVE  InDrafts(w)'
    <3>1. StaySettled /\ InDrafts(w)
      BY <2>1, <2>3, WordsStepFacts DEF StaySettled
    <3>2. ASSUME NEW r \in Requests, SaveStep(r)
          PROVE  InDrafts(w)'
      <4>1. CASE ~ Busy(r)'
        BY <3>1, <3>2, <4>1, SavesEnd
           DEF InDrafts, DraftIs, HasDraft, vars, draftVars
      <4>2. CASE Busy(r)'
        <5>1. PICK x, y : x = req[r] /\ y = req'[r]
          OBVIOUS
        <5>2. GoesOn(x, y) /\ SaveDoes(x, y)
          BY <3>2, <4>2, <5>1, SaveStepsAre
        <5>3. Orders(x) /\ Kept' = Kept
          BY <3>2, <5>1, SaveStepIsBusy, SavesTypeNothing
             DEF WordsInv, OrdersAreKept
        <5>4. QED
          BY <1>2, <2>3, <3>1, <5>2, <5>3, SavesKeepDraftWords
      <4>3. QED
        BY <4>1, <4>2
    <3>3. ASSUME \A r \in Requests : ~ SaveStep(r)
          PROVE  InDrafts(w)'
      <4>1. DraftsOnlyDrift
        BY <3>3, WordsStepFacts
      <4>2. QED
        BY <3>1, <4>1 DEF DraftsOnlyDrift, InDrafts, DraftIs, HasDraft
    <3>4. QED
      BY <3>2, <3>3
  <2>4. QED
    BY <2>2, <2>3
<1>3. QED
  BY <1>1, <1>2

\* What adminEdit loads, and what is offered beside it.
LEMMA LoadedFrom ==
    ASSUME NEW u, NEW copies, NEW page, page = EditorAt(u, copies), page # NoTab
    PROVE  /\ page.url = u
           /\ page.offer = IF copies[u] = page.text THEN NoWords ELSE copies[u]
           /\ \/ page.old = u[1] /\ DraftIs(u[1], page.text)
              \/ page.old = NoName /\ page.text = NoWords
              \/ /\ page.old = u[1]
                 /\ Exists(u[1]) /\ pages[u[1]].content = page.text
  BY DEF EditorAt, DraftIs

\* No step but a save's own, or one at a tab, changes what is on the screen.
LEMMA ScreensStay ==
    ASSUME [EditorNext]_allVars
    PROVE  \/ \E t \in Tabs : AtTab(t)
           \/ \E r \in Requests : Accept(r)
           \/ UNCHANGED <<tab, stash>>
<1>1. ASSUME NEW r \in Requests, SaveStep(r), ~ Accept(r)
      PROVE  UNCHANGED <<tab, stash>>
  BY <1>1 DEF SaveStep, LookForPage, Rename, LookForDraft, ReadCarried,
     SaveCarried, DropCarried, Write, ClearDraft, Confirm, CallFails, Ignore,
     UnchangedButReq
<1>2. QED
  BY <1>1 DEF EditorNext, ServerStops, Delete, ReadVersion, WriteVersion,
     SaveElsewhere, allVars, editorVars

\* Only its own page waits for an answer: no other is open.
LEMMA AcceptedAt ==
    ASSUME EditorInv, CarefulAuthor, TabsWait, NEW r \in Requests, Accept(r),
           NEW t \in Tabs
    PROVE  /\ req[r].tab = t
           /\ Busy(r)
           /\ tab[t] # NoTab
           /\ tab[t].text = req[r].content
           /\ tab[t].offer = NoWords
<1>1. Busy(r) /\ req[r].tab \in Tabs /\ req[r].tab # NoTab
  BY BusyFields, EditorAssumption DEF Accept, Busy, EditorInv, Request
<1>2. req[r].tab = t
  BY <1>1 DEF CarefulAuthor
<1>3. QED
  BY <1>1, <1>2
     DEF TabsWait, EditorInv, EditorTypeOK, WaitingTabsAreOpen

LEMMA CopiesStep ==
    ASSUME EditorInv, CarefulAuthor, WordsInv, [EditorNext]_allVars
    PROVE  CopiesAreOffered'
<1>. SUFFICES ASSUME NEW t \in Tabs, tab'[t] # NoTab
              PROVE  IF tab'[t].offer = NoWords
                     THEN stash'[tab'[t].url] \in {NoWords, tab'[t].text}
                     ELSE stash'[tab'[t].url] = tab'[t].offer
  BY DEF CopiesAreOffered
<1>. /\ TypeOK /\ EditorTypeOK
     /\ tab \in [Tabs -> Page \cup {NoTab}]
     /\ stash \in [Urls -> Contents \cup {NoWords}]
  BY DEF EditorInv, EditorTypeOK
<1>0. tab[t] # NoTab =>
        /\ tab[t] \in Page
        /\ tab[t].url \in Urls
        /\ IF tab[t].offer = NoWords
           THEN stash[tab[t].url] \in {NoWords, tab[t].text}
           ELSE stash[tab[t].url] = tab[t].offer
  BY TabFields DEF WordsInv, CopiesAreOffered
<1>1. CASE UNCHANGED <<tab, stash>>
  BY <1>0, <1>1
<1>2. CASE \E s \in Tabs : AtTab(s)
  <2>1. AtTab(t)
    BY <1>2 DEF CarefulAuthor
  <2>2. CASE \E u \in Addresses : Open(t, u)
    <3>1. PICK u \in Addresses : Open(t, u)
      BY <2>2
    <3>2. PICK copies, page : copies = stash /\ page = EditorAt(u, copies)
      OBVIOUS
    <3>3. page = tab'[t] /\ stash' = stash
      BY <3>1, <3>2 DEF Open, EditorAt
    <3>4. page.url = u /\ page.offer = IF stash[u] = page.text THEN NoWords
                                       ELSE stash[u]
      <4>1. page # NoTab
        BY <3>3
      <4>2. page.offer = IF copies[u] = page.text THEN NoWords ELSE copies[u]
        BY <3>2, <4>1, LoadedFrom
      <4>3. QED
        BY <3>2, <4>1, <4>2, LoadedFrom
    <3>5. QED
      BY <3>3, <3>4
  <2>3. CASE \E w \in Words : Type(t, w)
    BY <1>0, <2>3 DEF Type, MayGoOn, CarefulAuthor, Page
  <2>4. CASE \E n \in Names : TypeName(t, n)
    BY <1>0, <2>4 DEF TypeName, MayGoOn, Page
  <2>5. CASE RestoreCopy(t)
    BY <1>0, <2>5 DEF RestoreCopy, Page
  <2>6. CASE DiscardCopy(t)
    BY <1>0, <2>6 DEF DiscardCopy, Page
  <2>7. CASE Leave(t) \/ Discard(t)
    BY <2>7 DEF Leave, Discard
  <2>8. CASE \E r \in Requests, publish \in BOOLEAN : Submit(t, r, publish)
    BY <1>1, <2>8 DEF Submit
  <2>9. QED
    BY <2>1, <2>2, <2>3, <2>4, <2>5, <2>6, <2>7, <2>8 DEF AtTab
<1>3. ASSUME NEW r \in Requests, Accept(r)
      PROVE  IF tab'[t].offer = NoWords
             THEN stash'[tab'[t].url] \in {NoWords, tab'[t].text}
             ELSE stash'[tab'[t].url] = tab'[t].offer
  <2>1. req[r].tab = t /\ tab[t] # NoTab /\ tab[t].offer = NoWords
    BY <1>3, AcceptedAt DEF WordsInv
  <2>2. stash' = [stash EXCEPT ![tab[t].url] = NoWords]
    BY <1>3, <2>1 DEF Accept
  <2>3. CASE req[r].publish
    <3>1. PICK u, copies, page :
            /\ u = <<req[r].name, FALSE>>
            /\ copies = stash'
            /\ page = EditorAt(u, copies)
      OBVIOUS
    <3>2. tab'[t] = page
      <4>1. page = EditorAt(<<req[r].name, FALSE>>,
                            [stash EXCEPT ![tab[t].url] = NoWords])
        BY <2>2, <3>1 DEF EditorAt
      <4>2. QED
        BY <1>3, <2>1, <2>3, <4>1 DEF Accept
    <3>3. page # NoTab
      BY <3>2
    <3>4. page.url = u /\ page.offer = IF copies[u] = page.text THEN NoWords
                                       ELSE copies[u]
      <4>1. page = EditorAt(u, copies)
        BY <3>1
      <4>2. page.url = u
        BY <3>3, <4>1, LoadedFrom
      <4>3. page.offer = IF copies[u] = page.text THEN NoWords ELSE copies[u]
        BY <3>3, <4>1, LoadedFrom
      <4>4. QED
        BY <4>2, <4>3
    <3>5. QED
      BY <3>1, <3>2, <3>4
  <2>4. CASE ~ req[r].publish
    <3>1. tab'[t].offer = NoWords /\ tab'[t].url = tab[t].url
      BY <1>0, <1>3, <2>1, <2>4 DEF Accept, Page
    <3>2. QED
      BY <1>0, <2>1, <2>2, <3>1
  <2>5. QED
    BY <2>3, <2>4
<1>4. QED
  BY <1>1, <1>2, <1>3, ScreensStay

LEMMA DraftsAreNamedStep ==
    ASSUME EditorInv, CarefulAuthor, WordsInv, [EditorNext]_allVars
    PROVE  DraftsAreNamed'
<1>. /\ TypeOK /\ EditorTypeOK
     /\ drafts \in [Paths -> Document \cup {NoDraft}]
  BY EditorAssumption DEF EditorInv, TypeOK
<1>1. ASSUME \A p \in Paths : drafts'[p] # NoDraft => HasDraft(p)
      PROVE  DraftsAreNamed'
  BY <1>1 DEF WordsInv, DraftsAreNamed, HasDraft
<1>2. CASE \A r \in Requests : ~ SaveStep(r)
  BY <1>1, <1>2, WordsStepFacts DEF DraftsOnlyDrift, HasDraft
<1>3. ASSUME NEW r \in Requests, SaveStep(r)
      PROVE  DraftsAreNamed'
  <2>1. CASE ~ Busy(r)'
    BY <1>1, <1>3, <2>1, SavesEnd DEF HasDraft, vars, draftVars
  <2>2. CASE Busy(r)'
    <3>1. PICK x, y : x = req[r] /\ y = req'[r]
      OBVIOUS
    <3>2. GoesOn(x, y) /\ SaveDoes(x, y) /\ Named(x)
      BY <1>3, <2>2, <3>1, SaveStepsAre, SaveStepIsBusy
         DEF WordsInv, OrdersAreKept, Orders
    <3>3. x.to \in Paths /\ WithExt[x.to] = x.to
      BY <3>2, EditorAssumption DEF GoesOn, Request, Named
    <3>4. \A p \in Paths : p # x.to /\ drafts'[p] # NoDraft => HasDraft(p)
      BY <3>2 DEF SaveDoes, PassesOn, MovesDraft, ReadsCarried, SavesCarried,
         DropsCarried, WritesPage, WritesDraft, ClearsDraft, HasDraft
    <3>5. QED
      BY <3>3, <3>4 DEF WordsInv, DraftsAreNamed, HasDraft
  <2>3. QED
    BY <2>1, <2>2
<1>4. QED
  BY <1>2, <1>3

\* While a save takes its steps, no other is under way, nor begins.
LEMMA OnlyItGoesOn ==
    ASSUME EditorTypeOK, OneAtATime, NEW r \in Requests, SaveStep(r),
           NEW s \in Requests, Busy(s)'
    PROVE  s = r
<1>1. SUFFICES ASSUME s # r
               PROVE  FALSE
  OBVIOUS
<1>2. ~ Busy(s)
  BY <1>1, SaveStepIsBusy DEF OneAtATime
<1>3. req'[s] = req[s] \/ \E t : req'[s] = Abandoned(t)[s]
  BY <1>1, SaveStepOfAnother
<1>4. QED
  BY <1>2, <1>3 DEF Abandoned, Busy

\* The page that waits for a save stays as it is, until it is closed.
LEMMA WaitingPageStays ==
    ASSUME EditorInv, CarefulAuthor, WordsInv, [EditorNext]_allVars,
           NEW r \in Requests, Busy(r), Busy(r)', ~ SaveStep(r),
           NEW t \in Tabs, req[r].tab = t, tab'[t] # NoTab
    PROVE  req'[r].tab = t /\ tab'[t] = tab[t]
<1>1. tab[t] # NoTab /\ tab[t].offer = NoWords
  BY EditorAssumption DEF WordsInv, TabsWait, EditorInv, EditorTypeOK,
                          WaitingTabsAreOpen
<1>2. ~ AllAnswered
  BY DEF AllAnswered
<1>3. ASSUME NEW s \in Tabs, AtTab(s)
      PROVE  FALSE
  <2>1. AtTab(t)
    BY <1>3 DEF CarefulAuthor
  <2>2. ~ MayGoOn(t)
    BY <1>2 DEF MayGoOn, CarefulAuthor
  <2>3. ~ Leave(t)
    BY DEF Leave, EditorInv, EditorTypeOK
  <2>4. QED
    BY <1>1, <2>1, <2>2, <2>3
       DEF AtTab, Open, Type, TypeName, RestoreCopy, DiscardCopy, Discard,
           Submit
<1>4. ASSUME NEW s \in Requests, SaveStep(s)
      PROVE  FALSE
  BY <1>4, WordsStepFacts
<1>5. ~ ServerStops
  BY DEF ServerStops, Busy, Done
<1>6. QED
  BY <1>3, <1>4, <1>5
     DEF EditorNext, Delete, ReadVersion, WriteVersion, SaveElsewhere,
         allVars, editorVars

LEMMA TabsWaitStep ==
    ASSUME EditorInv, CarefulAuthor, WordsInv, [EditorNext]_allVars
    PROVE  TabsWait'
<1>. SUFFICES ASSUME NEW r \in Requests, Busy(r)', req'[r].tab # NoTab
              PROVE  /\ tab'[req'[r].tab].text = req'[r].content
                     /\ tab'[req'[r].tab].offer = NoWords
                     /\ tab'[req'[r].tab].old = req'[r].from
  BY DEF TabsWait
<1>. EditorTypeOK /\ EditorTypeOK'
  BY WordsStepFacts
<1>1. CASE ~ Busy(r)
  <2>1. PICK t \in Tabs, publish \in BOOLEAN : Submit(t, r, publish)
    BY <1>1, RequestsBegin
  <2>2. /\ req'[r].tab = t
        /\ req'[r].content = tab[t].text
        /\ req'[r].from = tab[t].old
    BY <2>1, SubmitFields
  <2>3. tab' = tab /\ tab[t].offer = NoWords
    BY <2>1 DEF Submit, MayGoOn, CarefulAuthor
  <2>4. QED
    BY <2>2, <2>3
<1>2. CASE Busy(r) /\ ~ SaveStep(r)
  <2>1. StaysAsItIs(r)
    BY <1>2, OtherStepsLeaveIt DEF CarefulAuthor, WordsInv
  <2>2. req'[r].tab = req[r].tab /\ req[r].tab # NoTab
    BY <2>1 DEF StaysAsItIs
  <2>3. req[r].tab \in Tabs
    BY <1>2, <2>2, BusyFields DEF Request
  <2>4. tab'[req[r].tab] # NoTab
    BY <2>2 DEF EditorTypeOK, WaitingTabsAreOpen
  <2>5. tab'[req[r].tab] = tab[req[r].tab]
    <3>1. PICK t \in Tabs : t = req[r].tab
      BY <2>3
    <3>2. QED
      BY <1>2, <2>4, <3>1, WaitingPageStays
  <2>6. QED
    BY <1>2, <2>1, <2>2, <2>5 DEF WordsInv, TabsWait, StaysAsItIs
<1>3. CASE Busy(r) /\ SaveStep(r)
  <2>1. /\ req'[r].tab = req[r].tab
        /\ req'[r].content = req[r].content
        /\ req'[r].from = req[r].from
        /\ tab' = tab
    BY <1>3, SaveStepGoesOn
  <2>2. QED
    BY <1>3, <2>1 DEF WordsInv, TabsWait
<1>4. QED
  BY <1>1, <1>2, <1>3

LEMMA OrdersStep ==
    ASSUME EditorInv, CarefulAuthor, WordsInv, [EditorNext]_allVars
    PROVE  OrdersAreKept'
<1>. SUFFICES ASSUME NEW r \in Requests, Busy(r)', NEW x, x = req[r],
                     NEW y, y = req'[r]
              PROVE  Orders(y)'
  BY DEF OrdersAreKept, Orders, Named, Carries, Looks, MineAt, Drops, Answers
<1>. /\ TypeOK /\ EditorTypeOK /\ EditorTypeOK'
     /\ \A w : Published(w) => Published(w)'
  BY WordsStepFacts
<1>1. CASE ~ Busy(r)
  <2>1. PICK t \in Tabs, publish \in BOOLEAN : Submit(t, r, publish)
    BY <1>1, RequestsBegin
  <2>2. DraftIsOfTab(tab[t])
    BY <2>1 DEF Submit, MayGoOn, WordsInv, TabText
  <2>3. QED
    BY <2>1, <2>2, SubmittedInOrder DEF CarefulAuthor
<1>2. CASE Busy(r) /\ ~ SaveStep(r)
  <2>1. StaysAsItIs(r)
    BY <1>2, OtherStepsLeaveIt DEF CarefulAuthor, WordsInv
  <2>2. \A s \in Requests : ~ SaveStep(s)
    BY <1>2, WordsStepFacts
  <2>3. DraftsOnlyDrift /\ StaySettled
    BY <2>2, WordsStepFacts DEF SaveStep
  <2>4. x \in Request /\ (x.pc \in Moving => x.from \in Paths)
    BY <1>2, BusyFields, RequestFields
  <2>5. y \in Request
    BY DEF EditorTypeOK, RequestsOK, Busy, New, Done
  <2>6. GoesOn(x, y)
    BY <2>1, <2>4, <2>5 DEF StaysAsItIs, GoesOn
  <2>7. Orders(x)
    BY <1>2 DEF WordsInv, OrdersAreKept
  <2>8. /\ x.pc = y.pc /\ x.carried = y.carried /\ x.ok = y.ok
        /\ Kept' \subseteq Kept
    BY <2>1 DEF StaysAsItIs
  <2>9. QED
    BY <2>3, <2>6, <2>7, <2>8, OrdersDrift
<1>3. CASE Busy(r) /\ SaveStep(r)
  <2>1. GoesOn(x, y) /\ SaveDoes(x, y)
    BY <1>3, SaveStepsAre
  <2>2. Orders(x) /\ Kept' = Kept
    BY <1>3, SavesTypeNothing DEF WordsInv, OrdersAreKept
  <2>3. \A s \in Requests : ~ Accept(s)
    <3>1. ~ Accept(r)
      BY <1>3, SaveStepGoesOn
    <3>2. QED
      BY <1>3, <3>1, WordsStepFacts DEF SaveStep
  <2>4. StaySettled
    BY <2>3, WordsStepFacts
  <2>5. QED
    BY <2>1, <2>2, <2>4, OwnStepsKeepOrders
<1>4. QED
  BY <1>1, <1>2, <1>3

\* A page that was just loaded shows what is published, or a draft.
LEMMA LoadedPagesAreSaved ==
    ASSUME TypeOK, NEW u \in Urls, NEW copies, NEW page,
           page = EditorAt(u, copies), page # NoTab,
           page.text \in Kept, ~ Published(page.text)
    PROVE  page.old \in Paths /\ DraftIs(page.old, page.text)
<1>1. u[1] \in Paths
  BY DEF Urls
<1>2. page.text # NoWords
  BY EditorAssumption DEF Kept
<1>3. \/ page.old = u[1] /\ DraftIs(u[1], page.text)
      \/ page.old = NoName /\ page.text = NoWords
      \/ /\ page.old = u[1]
         /\ Exists(u[1]) /\ pages[u[1]].content = page.text
  BY LoadedFrom
<1>4. QED
  BY <1>1, <1>2, <1>3 DEF Published

\* Where the words of a page are only the draft of its name, the steps of a
\* save leave them there: its own save, and one abandoned before.
LEMMA SavesKeepTheDraftOf ==
    ASSUME TypeOK, Kept' = Kept, StaySettled,
           NEW x, NEW y, GoesOn(x, y), Orders(x), SaveDoes(x, y),
           NEW w \in Kept, ~ Settled(w), NEW o \in Paths,
           HasDraft(o) => DraftIs(o, w),
           \/ x.content = w /\ x.from = o
           \/ x.pc \in Moving \cup {"write"} /\ x.to = o => HasDraft(o)
    PROVE  /\ HasDraft(o)' => DraftIs(o, w)'
           /\ (x.pc \in Moving \cup {"write"} /\ x.to = o => HasDraft(o))
                => (y.pc \in Moving \cup {"write"} /\ y.to = o => HasDraft(o)')
<1>. drafts \in [Paths -> Document \cup {NoDraft}]
  BY EditorAssumption DEF TypeOK
<1>1. /\ x.to \in Paths
      /\ y.to = x.to
      /\ x.pc \in Moving => x.from \in Paths /\ x.from # x.to
      /\ y.pc \in Moving \cup {"write"} => x.pc \in Moving \cup {"write"}
  BY DEF GoesOn, Request, Orders, Named, SaveDoes, PassesOn, MovesDraft,
         ReadsCarried, SavesCarried, DropsCarried, WritesPage, WritesDraft,
         ClearsDraft, Moving
<1>2. ASSUME drafts'[o] = drafts[o]
      PROVE  /\ HasDraft(o)' => DraftIs(o, w)'
             /\ HasDraft(o) => HasDraft(o)'
  BY <1>2 DEF HasDraft, DraftIs
<1>3. ASSUME drafts'[o] = NoDraft
      PROVE  HasDraft(o)' => DraftIs(o, w)'
  BY <1>3 DEF HasDraft
<1>4. CASE o # x.to
  <2>1. drafts'[o] = drafts[o] \/ drafts'[o] = NoDraft
    BY <1>1, <1>4 DEF SaveDoes, PassesOn, MovesDraft, ReadsCarried,
       SavesCarried, DropsCarried, WritesPage, WritesDraft, ClearsDraft, Moving
  <2>2. QED
    BY <1>1, <1>2, <1>3, <1>4, <2>1
<1>5. CASE o = x.to
  <2>1. CASE drafts'[o] = drafts[o]
    BY <1>1, <1>2, <2>1
  <2>2. CASE ClearsDraft(x, y)
    BY <1>1, <1>3, <1>5, <2>2 DEF ClearsDraft, Moving
  <2>3. CASE WritesDraft(x, y)
    <3>1. x.content = w
      BY <1>5, <2>3 DEF WritesDraft, Orders, Looks, MineAt, DraftIs, Moving
    <3>2. drafts'[o] = [content |-> w, mime |-> "text"]
      BY <1>5, <2>3, <3>1 DEF WritesDraft
    <3>3. DraftIs(o, w)'
      BY <3>2, SentinelsAssumption, EditorAssumption
         DEF DraftIs, HasDraft, Document, Kept
    <3>4. QED
      BY <2>3, <3>3 DEF WritesDraft, Moving
  <2>4. CASE SavesCarried(x, y)
    <3>1. HasDraft(o) /\ DraftIs(o, w)
      BY <1>1, <1>5, <2>4 DEF SavesCarried, Moving
    <3>2. x.content = w
      BY <1>5, <2>4, <3>1 DEF SavesCarried, Orders, Looks, MineAt, DraftIs,
                              Moving
    <3>3. x.carried.content = w
      BY <2>4, <3>2 DEF SavesCarried, Orders, Carries, Moving
    <3>4. drafts'[o] = [content |-> w, mime |-> x.carried.mime]
      BY <1>5, <2>4, <3>3 DEF SavesCarried
    <3>5. DraftIs(o, w)'
      BY <2>4, <3>3, <3>4, SentinelsAssumption
         DEF SavesCarried, DraftIs, HasDraft, Document
    <3>6. QED
      BY <3>5 DEF DraftIs
  <2>5. CASE MovesDraft(x, y) \/ DropsCarried(x, y)
    <3>1. x.from # o /\ x.pc \in Moving
      BY <1>1, <1>5, <2>5 DEF MovesDraft, DropsCarried, Moving
    <3>2. HasDraft(o)
      BY <1>5, <3>1
    <3>3. DropsCarried(x, y)
      BY <1>5, <2>5, <3>2 DEF MovesDraft
    <3>4. QED
      BY <2>1, <3>1, <3>3 DEF DropsCarried
  <2>6. QED
    BY <2>1, <2>2, <2>3, <2>4, <2>5
       DEF SaveDoes, PassesOn, ReadsCarried, WritesPage
<1>6. QED
  BY <1>4, <1>5

\* As long as a page keeps its words and the name they were saved under, they
\* stay in the draft of that name, or become settled.
LEMMA PagesKeepTheirDrafts ==
    ASSUME EditorInv, CarefulAuthor, WordsInv, [EditorNext]_allVars,
           \A r \in Requests : ~ Accept(r),
           NEW t \in Tabs, tab[t] # NoTab, tab'[t] # NoTab,
           NEW w \in Kept, w = tab[t].text, w \in Kept', ~ Settled(w)',
           NEW o \in Paths, o = tab[t].old
    PROVE  /\ HasDraft(o)' => DraftIs(o, w)'
           /\ \A r \in Requests :
                /\ Busy(r)' /\ req'[r].tab # t
                /\ req'[r].pc \in Moving \cup {"write"} /\ req'[r].to = o
                => HasDraft(o)'
<1>. TypeOK /\ EditorTypeOK /\ EditorTypeOK' /\ StaySettled
  BY WordsStepFacts
<1>1. ~ Settled(w)
  BY DEF StaySettled
<1>2. HasDraft(o) => DraftIs(o, w)
  BY <1>1, EditorAssumption DEF WordsInv, TabText, DraftIsOfTab
<1>3. \A r \in Requests :
        /\ Busy(r) /\ req[r].tab # t
        /\ req[r].pc \in Moving \cup {"write"} /\ req[r].to = o
        => HasDraft(o)
  BY <1>1 DEF WordsInv, TabText, WillNotWrite
<1>4. CASE \A r \in Requests : ~ SaveStep(r)
  <2>1. \/ drafts'[o] = drafts[o]
        \/ drafts'[o] = NoDraft /\ ~ DraftIs(o, w)
    BY <1>4, WordsStepFacts DEF DraftsOnlyDrift, DraftIs
  <2>2. HasDraft(o)' => DraftIs(o, w)'
    BY <1>2, <2>1 DEF HasDraft, DraftIs
  <2>3. ASSUME NEW r \in Requests, Busy(r)', req'[r].tab # t,
               req'[r].pc \in Moving \cup {"write"}, req'[r].to = o
        PROVE  HasDraft(o)'
    <3>1. Busy(r)
      <4>1. SUFFICES ASSUME ~ Busy(r)
                     PROVE  FALSE
        OBVIOUS
      <4>2. PICK s \in Tabs, publish \in BOOLEAN : Submit(s, r, publish)
        BY <2>3, <4>1, RequestsBegin
      <4>3. req'[r].tab = s
        BY <4>2, SubmitFields
      <4>4. QED
        BY <2>3, <4>3 DEF CarefulAuthor
    <3>2. StaysAsItIs(r)
      BY <1>4, <2>3, <3>1, OtherStepsLeaveIt DEF CarefulAuthor, WordsInv
    <3>3. req[r].tab # t
      BY <1>4, <2>3, <3>1, WaitingPageStays
    <3>4. HasDraft(o)
      BY <1>3, <2>3, <3>1, <3>2, <3>3 DEF StaysAsItIs
    <3>5. QED
      BY <1>2, <2>1, <3>4 DEF HasDraft
  <2>4. QED
    BY <2>2, <2>3
<1>5. ASSUME NEW r \in Requests, SaveStep(r), ~ Busy(r)'
      PROVE  /\ HasDraft(o)' => DraftIs(o, w)'
             /\ \A s \in Requests : ~ Busy(s)'
  BY <1>2, <1>5, SavesEnd, OnlyItGoesOn
     DEF WordsInv, HasDraft, DraftIs, vars, draftVars
<1>6. ASSUME NEW r \in Requests, SaveStep(r), Busy(r)'
      PROVE  /\ HasDraft(o)' => DraftIs(o, w)'
             /\ \A s \in Requests :
                  /\ Busy(s)' /\ req'[s].tab # t
                  /\ req'[s].pc \in Moving \cup {"write"} /\ req'[s].to = o
                  => HasDraft(o)'
  <2>1. PICK x, y : x = req[r] /\ y = req'[r]
    OBVIOUS
  <2>2. GoesOn(x, y) /\ SaveDoes(x, y)
    BY <1>6, <2>1, SaveStepsAre
  <2>3. Busy(r) /\ Orders(x) /\ Kept' = Kept
    BY <1>6, <2>1, SaveStepIsBusy, SavesTypeNothing DEF WordsInv, OrdersAreKept
  <2>4. y.tab = x.tab
    BY <1>6, <2>1, SaveStepGoesOn
  <2>5. x.tab = t => x.content = w /\ x.from = o
    BY <2>1, <2>3, EditorAssumption DEF WordsInv, TabsWait
  <2>6. x.tab # t => (x.pc \in Moving \cup {"write"} /\ x.to = o => HasDraft(o))
    BY <1>3, <2>1, <2>3
  <2>7. /\ HasDraft(o)' => DraftIs(o, w)'
        /\ (x.pc \in Moving \cup {"write"} /\ x.to = o => HasDraft(o))
             => (y.pc \in Moving \cup {"write"} /\ y.to = o => HasDraft(o)')
    BY <1>1, <1>2, <2>2, <2>3, <2>5, <2>6, SavesKeepTheDraftOf
  <2>8. QED
    BY <1>6, <2>1, <2>4, <2>6, <2>7, OnlyItGoesOn DEF WordsInv
<1>7. QED
  BY <1>4, <1>5, <1>6

\* Where the words of a page are, and what may yet be written there.
InItsDraft(t, w, o) ==
    /\ o # NoName /\ HasDraft(o) => DraftIs(o, w)
    /\ \A r \in Requests :
        /\ Busy(r) /\ req[r].tab # t
        /\ req[r].pc \in Moving \cup {"write"} /\ req[r].to = o
        => HasDraft(o)

\* An accepted answer leaves the words in the draft they were saved as.
LEMMA AcceptedInItsDraft ==
    ASSUME EditorInv, CarefulAuthor, WordsInv, NEW r \in Requests, Accept(r),
           NEW t \in Tabs, tab'[t] # NoTab,
           NEW w, w = tab'[t].text, w \in Kept', ~ Settled(w)',
           NEW o, o = tab'[t].old
    PROVE  InItsDraft(t, w, o)'
<1>. TypeOK /\ EditorTypeOK
  BY DEF EditorInv
<1>1. /\ req[r].tab = t
      /\ Busy(r)
      /\ tab[t].text = req[r].content
      /\ tab[t] \in Page
      /\ req[r] \in Request
  BY AcceptedAt, BusyFields, TabFields DEF WordsInv
<1>2. UNCHANGED <<vars, fate>>
  BY DEF Accept
<1>3. \A s \in Requests : ~ Busy(s)'
  <2>1. ASSUME NEW s \in Requests, Busy(s)'
        PROVE  s = r
    BY <2>1, OnlyItGoesOn DEF WordsInv, SaveStep
  <2>2. ~ Busy(r)'
    BY AbandonedType DEF Accept, Busy, Done, EditorTypeOK, RequestsOK
  <2>3. QED
    BY <2>1, <2>2
<1>4. CASE req[r].publish
  <2>1. PICK u, copies, page :
          /\ u = <<req[r].name, FALSE>>
          /\ copies = [stash EXCEPT ![tab[t].url] = NoWords]
          /\ page = EditorAt(u, copies)
    OBVIOUS
  <2>2. tab'[t] = page
    <3>1. page = EditorAt(<<req[r].name, FALSE>>,
                          [stash EXCEPT ![tab[t].url] = NoWords])
      BY <2>1 DEF EditorAt
    <3>2. QED
      BY <1>1, <1>4, <3>1 DEF Accept, EditorTypeOK
  <2>3. u \in Urls
    BY <1>1, <2>1 DEF Request, Urls
  <2>4. page = EditorAt(u, copies) /\ page # NoTab
    BY <2>1, <2>2
  <2>5. page.text = w /\ page.old = o
    BY <2>2
  <2>6. w \in Kept /\ ~ Published(w)
    <3>1. Published(w) => Published(w)'
      BY <1>2 DEF Published, Exists, vars, pageVars
    <3>2. QED
      BY <1>2, <3>1 DEF Settled, Kept
  <2>7. o \in Paths /\ DraftIs(o, w)
    BY <2>3, <2>4, <2>5, <2>6, LoadedPagesAreSaved
  <2>8. QED
    BY <1>2, <2>7 DEF InItsDraft, HasDraft, DraftIs, vars, draftVars
<1>5. CASE ~ req[r].publish
  <2>1. w = req[r].content /\ o = req[r].name
    BY <1>1, <1>5 DEF Accept, EditorTypeOK, Page
  <2>2. o \in Paths /\ WithExt[o] = req[r].to /\ w \in Kept
    BY <1>1, <1>2, <2>1
       DEF WordsInv, OrdersAreKept, Orders, Named, Request, Kept
  <2>3. HasDraft(o) => o = req[r].to
    BY <2>2 DEF WordsInv, DraftsAreNamed
  <2>4. DraftIs(req[r].to, w)
    BY <1>1, <1>5, <2>1, <2>2
       DEF Accept, WordsInv, OrdersAreKept, Orders, Answers
  <2>5. HasDraft(o) => DraftIs(o, w)
    BY <2>3, <2>4
  <2>6. QED
    BY <1>2, <1>3, <2>5 DEF InItsDraft, HasDraft, DraftIs, vars, draftVars
<1>6. QED
  BY <1>4, <1>5

LEMMA TabTextStep ==
    ASSUME EditorInv, CarefulAuthor, WordsInv, [EditorNext]_allVars
    PROVE  TabText'
<1>. SUFFICES ASSUME NEW t \in Tabs, tab'[t] # NoTab,
                     NEW w, w = tab'[t].text, NEW o, o = tab'[t].old,
                     w \in Kept', ~ Settled(w)'
              PROVE  InItsDraft(t, w, o)'
  BY DEF TabText, DraftIsOfTab, WillNotWrite, InItsDraft
<1>. /\ TypeOK /\ EditorTypeOK /\ EditorTypeOK'
     /\ tab \in [Tabs -> Page \cup {NoTab}]
     /\ stash \in [Urls -> Contents \cup {NoWords}]
     /\ \A s \in Tabs : s = t
  BY WordsStepFacts DEF EditorTypeOK, CarefulAuthor
<1>1. tab'[t] \in Page /\ o \in Paths \cup {NoName}
  BY DEF EditorTypeOK, Page
<1>2. ASSUME NEW r \in Requests, Accept(r)
      PROVE  InItsDraft(t, w, o)'
  BY <1>2, AcceptedInItsDraft
<1>3. ASSUME NEW u \in Addresses, Open(t, u)
      PROVE  InItsDraft(t, w, o)'
  <2>1. PICK copies, page : copies = stash /\ page = EditorAt(u, copies)
    OBVIOUS
  <2>2. page = tab'[t] /\ UNCHANGED <<vars, fate>>
    BY <1>3, <2>1 DEF Open, EditorAt
  <2>3. page # NoTab /\ page.text = w /\ page.old = o
    BY <2>2
  <2>4. w \in Kept /\ ~ Published(w)
    <3>1. Published(w) => Published(w)'
      BY <2>2 DEF Published, Exists, vars, pageVars
    <3>2. QED
      BY <2>2, <3>1 DEF Settled, Kept
  <2>5. u \in Urls
    BY EditorAssumption DEF Urls
  <2>6. o \in Paths /\ DraftIs(o, w)
    BY <2>1, <2>3, <2>4, <2>5, LoadedPagesAreSaved
  <2>7. QED
    BY <2>2, <2>6 DEF InItsDraft, HasDraft, DraftIs, vars, draftVars
<1>4. ASSUME \A r \in Requests : ~ Accept(r),
             tab[t] # NoTab, tab[t].text = w, tab[t].old = o
      PROVE  InItsDraft(t, w, o)'
  <2>1. w \in Kept
    <3>1. SUFFICES ASSUME w \notin Kept
                   PROVE  FALSE
      OBVIOUS
    <3>2. Type(t, w)
      BY <3>1, KeptWereTyped
    <3>3. tab[t].url \in Urls /\ stash' = [stash EXCEPT ![tab[t].url] = w]
      BY <1>4, <3>2, TabFields DEF Type
    <3>4. InCopies(w)'
      BY <3>3 DEF InCopies
    <3>5. QED
      BY <3>4 DEF Settled
  <2>2. CASE o \in Paths
    BY <1>4, <2>1, <2>2, PagesKeepTheirDrafts DEF InItsDraft
  <2>3. CASE o = NoName
    BY <2>3, EditorAssumption
       DEF InItsDraft, EditorTypeOK, RequestsOK, Request, Busy, New, Done
  <2>4. QED
    BY <1>1, <2>2, <2>3
<1>5. CASE AtTab(t) /\ \A r \in Requests : ~ Accept(r)
  <2>1. CASE \E u \in Addresses : Open(t, u)
    BY <1>3, <2>1
  <2>2. ASSUME NEW z \in Words, Type(t, z)
        PROVE  FALSE
    <3>1. tab[t].url \in Urls /\ tab[t] \in Page
      BY <2>2, TabFields DEF Type, MayGoOn
    <3>2. w = z /\ stash' = [stash EXCEPT ![tab[t].url] = z]
      BY <2>2, <3>1 DEF Type, Page
    <3>3. InCopies(w)'
      BY <3>1, <3>2 DEF InCopies
    <3>4. QED
      BY <3>3 DEF Settled
  <2>3. CASE RestoreCopy(t)
    <3>1. tab[t].url \in Urls /\ tab[t] \in Page
      BY <2>3, TabFields DEF RestoreCopy
    <3>2. w = tab[t].offer /\ stash' = stash
      BY <2>3, <3>1 DEF RestoreCopy, Page
    <3>3. stash[tab[t].url] = w
      BY <2>3, <3>2 DEF RestoreCopy, WordsInv, CopiesAreOffered
    <3>4. InCopies(w)'
      BY <3>1, <3>2, <3>3 DEF InCopies
    <3>5. QED
      BY <3>4 DEF Settled
  <2>4. CASE (\E n \in Names : TypeName(t, n)) \/ DiscardCopy(t)
    BY <1>4, <1>5, <2>4, TabFields DEF TypeName, DiscardCopy, MayGoOn, Page
  <2>5. CASE \E r \in Requests, publish \in BOOLEAN : Submit(t, r, publish)
    BY <1>4, <1>5, <2>5 DEF Submit, MayGoOn
  <2>6. CASE Leave(t) \/ Discard(t)
    BY <2>6 DEF Leave, Discard
  <2>7. QED
    BY <1>5, <2>1, <2>2, <2>3, <2>4, <2>5, <2>6 DEF AtTab
<1>6. CASE UNCHANGED tab /\ \A r \in Requests : ~ Accept(r)
  BY <1>4, <1>6
<1>7. QED
  BY <1>2, <1>5, <1>6, ScreensStay

\* The words of an author who takes every care are in the browser's copy, or
\* published, or a draft, through failed calls, lost answers, crashes, renames,
\* deletions and whatever the other doors do at the same time.
THEOREM NoWordsAreLost ==
    ASSUME CarefulAuthor
    PROVE  EditorSpec => []WordsAreHere
<1>1. EditorInit => EditorInv /\ WordsInv
  <2>1. ASSUME EditorInit
        PROVE  WordsInv
    BY <2>1 DEF EditorInit, Init, WordsInv, OneAtATime, WordsAreSomewhere,
       CopiesAreOffered, DraftsAreNamed, TabsWait, TabText, OrdersAreKept,
       Kept, Busy, New, HasDraft
  <2>2. QED
    BY <2>1, TypeInit, EditorTypeInit DEF EditorInit, EditorInv
<1>2. EditorInv /\ WordsInv /\ [EditorNext]_allVars => EditorInv' /\ WordsInv'
  <2>1. ASSUME EditorInv, WordsInv, [EditorNext]_allVars
        PROVE  WordsInv'
    <3>1. OneAtATime'
      BY <2>1, OneAtATimeStep DEF WordsInv, CarefulAuthor
    <3>2. QED
      BY <2>1, <3>1, SomewhereStep, CopiesStep, DraftsAreNamedStep,
         TabsWaitStep, TabTextStep, OrdersStep DEF WordsInv
  <2>2. QED
    BY <2>1, EditorStepIsStoreStep, EditorTypeStep, TypeStep DEF EditorInv
<1>3. WordsInv => WordsAreHere
  BY DEF WordsInv, WordsAreSomewhere, WordsAreHere, Settled, InCopies,
         Published, InDrafts, DraftIs, InBrowser, OnServer
<1>4. QED
  BY <1>1, <1>2, <1>3, PTL DEF EditorSpec
=============================================================================
