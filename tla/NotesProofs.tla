---------------------------- MODULE NotesProofs ----------------------------
(***************************************************************************)
(* No note is lost, for any number of notes and of posts at once, for any  *)
(* zones and any clock.                                                    *)
(*                                                                         *)
(* The name that a post has found free may be taken when it saves; what    *)
(* saves the notes that stood when it began is that none of them was under *)
(* that name when it looked, and that a note is saved once.                *)
(*                                                                         *)
(* And the stream is in order: a post tries no minute before the one it    *)
(* began in, and no note that stood then is under a later one.             *)
(*                                                                         *)
(* The folder is a part of the site that the store promises: this keeps of *)
(* the store what a note touches, and nothing it does is more than that.   *)
(***************************************************************************)
EXTENDS Notes, TLAPS

On(m, p) == p \in Used /\ folder[p].note = m

\* A note is on one page at most.
OnOnePage == \A p, q \in Name : \A m \in NoteIds : On(m, p) /\ On(m, q) => p = q

PostedAreUnsaved == \A n \in NoteIds : posting[n] # NoPost => fate[n] = "unsaved"

BeforeWereSaved == \A n \in NoteIds : \A m \in before[n] : fate[m] # "unsaved"

\* The name a post is about to save under has none of the notes that stood
\* when the post began.
NamesWereFree ==
    \A n \in NoteIds : posting[n].pc = "save" =>
        \A m \in before[n] : ~ On(m, posting[n].name)

NotesInv ==
    /\ NotesTypeOK
    /\ NotesAreKept
    /\ OnOnePage
    /\ PostedAreUnsaved
    /\ BeforeWereSaved
    /\ NamesWereFree

-----------------------------------------------------------------------------

LEMMA DivGrows ==
    ASSUME NEW a \in Nat, NEW b \in Nat, NEW m \in Nat \ {0}, a <= b
    PROVE  a \div m \in Nat /\ a \div m <= b \div m
<1>. DEFINE q == a \div m
            s == b \div m
<1>1. q \in Nat /\ s \in Nat
  OBVIOUS
<1>2. m * q <= a /\ b < m * (s + 1)
  OBVIOUS
<1>. HIDE DEF q, s
<1>3. m * q < m * (s + 1)
  BY <1>1, <1>2
<1>4. q < s + 1
  BY <1>1, <1>3
<1>5. QED
  BY <1>1, <1>4 DEF q, s

\* The minute of a name fits, in either zone.
LEMMA MinutesFit ==
    ASSUME NEW t \in 0..MaxClock, NEW z
    PROVE  Local(t, z) \in 0..LastMinute
<1>1. /\ t \div MinuteLen \in Nat
      /\ t \div MinuteLen <= MaxClock \div MinuteLen
      /\ MaxClock \div MinuteLen \in Nat
  BY NotesAssumption, DivGrows
<1>2. QED
  BY <1>1, NotesAssumption DEF Local, LastMinute

LEMMA NextIsANote == NextNote \in NoteIds
<1>1. \E n \in NoteIds : (\E m \in NoteIds : ~ Begun(m)) => ~ Begun(n)
  BY NotesAssumption
<1>2. QED
  BY <1>1 DEF NextNote

LEMMA PostsDiffer ==
    /\ \A p \in Post : p # NoPost /\ p.pc \in {"look", "save"}
    /\ NoPost.pc = "idle"
BY DEF Post, NoPost

\* What a page can say.
LEMMA PagesSay ==
    ASSUME NotesTypeOK, NEW p \in Name
    PROVE  /\ p \in Used => folder[p] \in NotePage /\ folder[p].note \in Texts
           /\ p \notin Used => folder[p] = Blank
           /\ Blank \notin NotePage
<1>1. Blank \notin NotePage
  BY NotesAssumption DEF Blank, NotePage, Texts
<1>2. QED
  BY <1>1 DEF NotesTypeOK, Used, NotePage

-----------------------------------------------------------------------------

LEMMA BeginStep == ASSUME NotesInv, NEW z \in Zones, Begin(z) PROVE NotesInv'
<1>. DEFINE n == NextNote
            p == [pc |-> "look", since |-> 0,
                  name |-> [minute |-> Local(wallClock, z), number |-> 1]]
<1>. USE DEF NotesInv
<1>1. /\ n \in NoteIds /\ posting[n] = NoPost /\ fate[n] = "unsaved"
      /\ zone' = [zone EXCEPT ![n] = z]
      /\ posting' = [posting EXCEPT ![n] = p]
      /\ before' = [before EXCEPT ![n] = Standing]
      /\ UNCHANGED <<folder, past, fate, wallClock>>
  BY NextIsANote DEF Begin, Begun
<1>2. p \in Post
  BY MinutesFit, NotesAssumption DEF NotesTypeOK, Post, Name
<1>3. Standing \subseteq NoteIds
  BY DEF Standing
<1>. HIDE DEF n
<1>4. NotesTypeOK'
  BY <1>1, <1>2, <1>3 DEF NotesTypeOK, Name, Post, NotePage
<1>5. /\ \A m \in NoteIds : m # n => posting'[m] = posting[m] /\ before'[m] = before[m]
      /\ posting'[n] = p /\ before'[n] = Standing
  BY <1>1 DEF NotesTypeOK
<1>6. Used' = Used
  BY <1>1 DEF Used
<1>7. NotesAreKept'
  <2>1. \A m \in NoteIds : fate[m] # n \/ m \notin Standing
    BY NotesAssumption, <1>1 DEF Standing
  <2>2. QED
    BY <1>1, <1>5, <1>6, <2>1 DEF NotesAreKept
<1>8. OnOnePage' /\ PostedAreUnsaved' /\ BeforeWereSaved'
  BY <1>1, <1>5, <1>6 DEF OnOnePage, On, PostedAreUnsaved, BeforeWereSaved, Standing
<1>9. NamesWereFree'
  BY <1>1, <1>5, <1>6 DEF NamesWereFree, On
<1>10. QED
  BY <1>4, <1>7, <1>8, <1>9

LEMMA LookStep == ASSUME NotesInv, NEW n \in NoteIds, Look(n) PROVE NotesInv'
<1>. DEFINE p == posting[n]
            next == [p EXCEPT !.name.number = @ + 1]
            found == [p EXCEPT !.pc = "save", !.since = wallClock]
<1>. USE DEF NotesInv
<1>1. /\ p.pc = "look"
      /\ p.name \in Used => p.name.number < MaxNumber
      /\ posting' = [posting EXCEPT ![n] = IF p.name \in Used THEN next ELSE found]
      /\ UNCHANGED <<folder, past, zone, before, fate, wallClock>>
  BY DEF Look
<1>2. p \in Post /\ p # NoPost
  BY <1>1, PostsDiffer DEF NotesTypeOK
<1>3. /\ p.name \in Used => next \in Post /\ next.pc = "look"
      /\ found \in Post /\ found.pc = "save" /\ found.name = p.name
  <2>1. p.name \in Name
    BY <1>2 DEF Post
  <2>2. p.name \in Used => [p.name EXCEPT !.number = @ + 1] \in Name
    BY <1>1, <2>1, NotesAssumption DEF Name
  <2>3. next = [p EXCEPT !.name = [p.name EXCEPT !.number = @ + 1]]
    BY <1>2 DEF Post, Name
  <2>4. p.name \in Used => next \in Post /\ next.pc = "look"
    <3>. HIDE DEF next
    <3>1. QED
      BY <1>1, <1>2, <2>2, <2>3 DEF Post
  <2>5. found \in Post /\ found.pc = "save" /\ found.name = p.name
    BY <1>2 DEF Post, NotesTypeOK
  <2>6. QED
    BY <2>4, <2>5
<1>4. /\ \A m \in NoteIds : m # n => posting'[m] = posting[m]
      /\ posting'[n] \in Post
      /\ posting'[n].pc = "save" => p.name \notin Used /\ posting'[n].name = p.name
  BY <1>1, <1>3 DEF NotesTypeOK
<1>5. NotesTypeOK'
  BY <1>1, <1>3 DEF NotesTypeOK
<1>6. Used' = Used
  BY <1>1 DEF Used
<1>7. NotesAreKept' /\ OnOnePage' /\ BeforeWereSaved'
  BY <1>1, <1>6 DEF NotesAreKept, OnOnePage, On, BeforeWereSaved
<1>8. PostedAreUnsaved'
  BY <1>1, <1>2, <1>4 DEF PostedAreUnsaved
<1>9. NamesWereFree'
  BY <1>1, <1>4, <1>6 DEF NamesWereFree, On
<1>10. QED
  BY <1>5, <1>7, <1>8, <1>9

LEMMA SaveStep == ASSUME NotesInv, NEW n \in NoteIds, SaveNote(n) PROVE NotesInv'
<1>. DEFINE p == posting[n].name
            old == folder[p]
            lost(m) == old # Blank /\ old.note = m
<1>. USE DEF NotesInv
<1>1. PICK stamp \in posting[n].since..wallClock :
          folder' = [folder EXCEPT ![p] =
              IF old = Blank THEN [note |-> n, by |-> n, created |-> stamp]
              ELSE [old EXCEPT !.note = n]]
  BY DEF SaveNote
<1>2. /\ posting[n].pc = "save"
      /\ past' = IF old = Blank THEN past ELSE past \cup {old.note}
      /\ fate' = [m \in NoteIds |->
              IF m = n THEN "stands" ELSE IF lost(m) THEN n ELSE fate[m]]
      /\ posting' = [posting EXCEPT ![n] = NoPost]
      /\ UNCHANGED <<zone, before, wallClock>>
  BY DEF SaveNote
<1>3. posting[n] \in Post /\ posting[n] # NoPost /\ p \in Name
  BY <1>2, PostsDiffer DEF NotesTypeOK, Post
<1>4. fate[n] = "unsaved"
  BY <1>3 DEF PostedAreUnsaved
<1>5. stamp \in 0..MaxClock
  BY <1>1, <1>3, NotesAssumption DEF NotesTypeOK, Post
<1>6. folder'[p] \in NotePage /\ folder'[p].note = n
  <2>1. CASE old = Blank
    BY <1>1, <1>3, <1>5, <2>1 DEF NotesTypeOK, NotePage, Texts
  <2>2. CASE old # Blank
    <3>1. old \in NotePage
      BY <1>3, <2>2 DEF NotesTypeOK
    <3>2. [old EXCEPT !.note = n] \in NotePage /\ [old EXCEPT !.note = n].note = n
      BY <3>1 DEF NotePage, Texts
    <3>3. folder'[p] = [old EXCEPT !.note = n]
      BY <1>1, <1>3, <2>2 DEF NotesTypeOK
    <3>4. QED
      BY <3>2, <3>3
  <2>3. QED
    BY <2>1, <2>2
<1>7. \A q \in Name : q # p => folder'[q] = folder[q]
  BY <1>1 DEF NotesTypeOK
<1>8. folder' \in [Name -> NotePage \cup {Blank}]
  <2>1. folder' \in [Name -> {folder'[q] : q \in Name}]
    BY <1>1 DEF NotesTypeOK
  <2>2. QED
    BY <2>1, <1>6, <1>7 DEF NotesTypeOK
<1>9. NotesTypeOK'
  <2>1. old # Blank => old.note \in Texts
    BY <1>3 DEF NotesTypeOK, NotePage
  <2>2. past' \subseteq Texts
    BY <1>2, <2>1 DEF NotesTypeOK
  <2>3. /\ posting' \in [NoteIds -> Post \cup {NoPost}]
        /\ fate' \in [NoteIds -> NoteIds \cup {"unsaved", "stands", "withdrawn"}]
    BY <1>2 DEF NotesTypeOK
  <2>4. QED
    BY <1>2, <1>8, <2>2, <2>3 DEF NotesTypeOK
<1>10. p \in Used' /\ \A q \in Name : q # p => (q \in Used' <=> q \in Used)
  BY <1>3, <1>6, <1>7, PagesSay DEF Used
<1>11. \A q \in Name : \A m \in NoteIds :
          On(m, q)' <=> IF q = p THEN m = n ELSE On(m, q)
  BY <1>3, <1>6, <1>7, <1>10 DEF On
<1>12. \A q \in Name : ~ On(n, q)
  BY <1>4 DEF NotesAreKept, On
<1>13. \A m \in NoteIds : lost(m) <=> On(m, p)
  BY <1>3 DEF On, Used
<1>. HIDE DEF p, old
<1>14. OnOnePage'
  BY <1>11, <1>12 DEF OnOnePage
<1>15. NotesAreKept'
  <2>1. SUFFICES ASSUME NEW m \in NoteIds
                 PROVE  /\ fate'[m] = "stands" <=> \E q \in Name : On(m, q)'
                        /\ fate'[m] \notin {"unsaved", "stands"} => m \in past'
                        /\ fate'[m] \in NoteIds => m \notin before[fate'[m]]
    BY <1>2 DEF NotesAreKept, On, Used
  <2>2. CASE m = n
    BY <2>2, <1>2, <1>3, <1>11, NotesAssumption
  <2>3. CASE m # n /\ lost(m)
    <3>1. fate'[m] = n /\ n # "stands" /\ m \in past'
      BY <2>3, <1>2, NotesAssumption DEF p, old
    <3>2. \A q \in Name : ~ On(m, q)'
      BY <2>3, <1>3, <1>11, <1>13 DEF OnOnePage
    <3>3. m \notin before[n]
      BY <2>3, <1>2, <1>13 DEF NamesWereFree, p
    <3>4. QED
      BY <3>1, <3>2, <3>3
  <2>4. CASE m # n /\ ~ lost(m)
    <3>1. fate'[m] = fate[m] /\ (m \in past => m \in past')
      BY <2>4, <1>2 DEF p, old
    <3>2. \A q \in Name : On(m, q)' <=> On(m, q)
      BY <2>4, <1>3, <1>11, <1>13
    <3>3. fate[m] = "stands" <=> \E q \in Name : On(m, q)
      BY DEF NotesAreKept, On, Used
    <3>4. QED
      BY <3>1, <3>2, <3>3 DEF NotesAreKept
  <2>5. QED
    BY <2>2, <2>3, <2>4
<1>16. PostedAreUnsaved'
  <2>1. SUFFICES ASSUME NEW m \in NoteIds, posting'[m] # NoPost
                 PROVE  fate'[m] = "unsaved"
    BY DEF PostedAreUnsaved
  <2>2. m # n /\ posting[m] # NoPost
    BY <2>1, <1>2 DEF NotesTypeOK
  <2>3. fate[m] = "unsaved" /\ ~ lost(m)
    BY <2>2, <1>13, NotesAssumption DEF PostedAreUnsaved, NotesAreKept, On
  <2>4. QED
    BY <2>2, <2>3, <1>2
<1>17. BeforeWereSaved'
  <2>1. \A m \in NoteIds : fate[m] # "unsaved" => fate'[m] # "unsaved"
    BY <1>2, NotesAssumption
  <2>2. QED
    BY <2>1, <1>2 DEF BeforeWereSaved, NotesTypeOK
<1>18. NamesWereFree'
  <2>1. SUFFICES ASSUME NEW m \in NoteIds, posting'[m].pc = "save",
                        NEW b \in before[m], NEW q, q = posting'[m].name
                 PROVE  ~ On(b, q)'
    BY <1>2 DEF NamesWereFree, On
  <2>2. m # n /\ posting'[m] = posting[m]
    BY <2>1, <1>2, PostsDiffer DEF NotesTypeOK
  <2>3. b \in NoteIds /\ b # n
    BY <1>4 DEF BeforeWereSaved, NotesTypeOK
  <2>4. q \in Name
    BY <2>1, <2>2, PostsDiffer DEF NotesTypeOK, Post
  <2>5. ~ On(b, q)
    BY <2>1, <2>2 DEF NamesWereFree
  <2>6. QED
    BY <2>2, <2>3, <2>4, <2>5, <1>11
<1>19. QED
  BY <1>9, <1>14, <1>15, <1>16, <1>17, <1>18

\* A page that no longer says a note it said.
LEMMA WithdrawStep ==
    ASSUME NotesInv, NEW n \in Used, NEW text \in Texts \cup {"none"},
           text \notin NoteIds,
           folder' \in [Name -> NotePage \cup {Blank}],
           folder'[n].note = text,
           \A q \in Name : q # n => folder'[q] = folder[q],
           past' = past \cup {folder[n].note},
           Withdrawn(folder[n].note),
           UNCHANGED <<posting, zone, before, wallClock>>
    PROVE  NotesInv'
<1>. DEFINE gone == folder[n].note
<1>. USE DEF NotesInv
<1>1. n \in Name /\ gone \in Texts
  BY PagesSay DEF Used
<1>2. \A m \in NoteIds :
          fate'[m] = IF m = gone THEN "withdrawn" ELSE fate[m]
  BY DEF Withdrawn, NotesTypeOK
<1>3. NotesTypeOK'
  BY <1>1 DEF NotesTypeOK, Withdrawn
<1>4. \A q \in Name : \A m \in NoteIds : On(m, q)' <=> q # n /\ On(m, q)
  BY <1>1 DEF On, Used
<1>5. On(gone, n)
  BY DEF On
<1>. HIDE DEF gone
<1>6. OnOnePage'
  BY <1>4 DEF OnOnePage
<1>7. NotesAreKept'
  <2>1. SUFFICES ASSUME NEW m \in NoteIds
                 PROVE  /\ fate'[m] = "stands" <=> \E q \in Name : On(m, q)'
                        /\ fate'[m] \notin {"unsaved", "stands"} => m \in past'
                        /\ fate'[m] \in NoteIds => m \notin before[fate'[m]]
    BY DEF NotesAreKept, On, Used
  <2>2. fate[m] = "stands" <=> \E q \in Name : On(m, q)
    BY DEF NotesAreKept, On, Used
  <2>3. CASE m = gone
    <3>1. \A q \in Name : On(m, q) => q = n
      BY <2>3, <1>1, <1>5 DEF OnOnePage
    <3>2. QED
      BY <2>3, <3>1, <1>2, <1>4, NotesAssumption DEF gone
  <2>4. CASE m # gone
    <3>1. ~ On(m, n)
      BY <2>4 DEF On, gone
    <3>2. QED
      BY <2>2, <2>4, <3>1, <1>2, <1>4 DEF NotesAreKept
  <2>5. QED
    BY <2>3, <2>4
<1>8. PostedAreUnsaved'
  <2>1. SUFFICES ASSUME NEW m \in NoteIds, posting[m] # NoPost
                 PROVE  fate'[m] = "unsaved"
    BY DEF PostedAreUnsaved
  <2>2. fate[m] = "unsaved"
    BY <2>1 DEF PostedAreUnsaved
  <2>3. m # gone
    BY <2>2, <1>1, <1>5, NotesAssumption DEF NotesAreKept, On
  <2>4. QED
    BY <2>2, <2>3, <1>2
<1>9. BeforeWereSaved'
  BY <1>2 DEF BeforeWereSaved, NotesTypeOK
<1>10. NamesWereFree'
  <2>1. SUFFICES ASSUME NEW m \in NoteIds, posting[m].pc = "save",
                        NEW b \in before[m], NEW q, q = posting[m].name
                 PROVE  ~ On(b, q)'
    BY DEF NamesWereFree, On
  <2>2. b \in NoteIds /\ q \in Name
    BY <2>1, PostsDiffer DEF NotesTypeOK, Post
  <2>3. QED
    BY <2>1, <2>2, <1>4 DEF NamesWereFree
<1>11. QED
  BY <1>3, <1>6, <1>7, <1>8, <1>9, <1>10

LEMMA UnpostStep == ASSUME NotesInv, NEW n \in Name, Unpost(n) PROVE NotesInv'
<1>1. /\ n \in Used
      /\ folder' = [folder EXCEPT ![n] = Blank]
      /\ past' = past \cup {folder[n].note} /\ Withdrawn(folder[n].note)
      /\ UNCHANGED <<posting, zone, before, wallClock>>
  BY DEF Unpost
<1>2. folder' \in [Name -> NotePage \cup {Blank}]
  BY <1>1 DEF NotesInv, NotesTypeOK
<1>3. folder'[n].note = "none" /\ \A q \in Name : q # n => folder'[q] = folder[q]
  BY <1>1 DEF NotesInv, NotesTypeOK, Blank
<1>4. "none" \notin NoteIds
  BY NotesAssumption
<1>5. QED
  BY <1>1, <1>2, <1>3, <1>4, WithdrawStep

LEMMA EditStep == ASSUME NotesInv, NEW n \in Name, Edit(n) PROVE NotesInv'
<1>1. /\ n \in Used
      /\ folder' = [folder EXCEPT ![n].note = "edited"]
      /\ past' = past \cup {folder[n].note} /\ Withdrawn(folder[n].note)
      /\ UNCHANGED <<posting, zone, before, wallClock>>
  BY DEF Edit
<1>2. folder[n] \in NotePage
  BY <1>1, PagesSay DEF NotesInv
<1>3. /\ [folder[n] EXCEPT !.note = "edited"] \in NotePage
      /\ [folder[n] EXCEPT !.note = "edited"].note = "edited"
  BY <1>2 DEF NotePage, Texts
<1>4. /\ folder' \in [Name -> NotePage \cup {Blank}]
      /\ folder'[n].note = "edited"
      /\ \A q \in Name : q # n => folder'[q] = folder[q]
  BY <1>1, <1>3 DEF NotesInv, NotesTypeOK
<1>5. "edited" \in Texts /\ "edited" \notin NoteIds
  BY NotesAssumption DEF Texts
<1>6. QED
  BY <1>1, <1>4, <1>5, WithdrawStep

-----------------------------------------------------------------------------

LEMMA NotesBegin == NotesInit => NotesInv
<1>. SUFFICES ASSUME NotesInit PROVE NotesInv
  OBVIOUS
<1>1. NotesTypeOK
  BY NotesAssumption DEF NotesInit, NotesTypeOK
<1>2. Used = {}
  BY DEF NotesInit, Used
<1>3. NotesAreKept /\ OnOnePage
  BY <1>2, NotesAssumption DEF NotesInit, NotesAreKept, OnOnePage, On
<1>4. PostedAreUnsaved /\ BeforeWereSaved /\ NamesWereFree
  BY PostsDiffer DEF NotesInit, PostedAreUnsaved, BeforeWereSaved, NamesWereFree
<1>5. QED
  BY <1>1, <1>3, <1>4 DEF NotesInv

\* Nothing of the notes depends on the second it is.
LEMMA NoteTimePasses ==
    ASSUME NotesInv, UNCHANGED <<folder, past, posting, zone, before, fate>>,
           wallClock' \in 0..MaxClock
    PROVE  NotesInv'
<1>1. NotesTypeOK'
  BY DEF NotesInv, NotesTypeOK
<1>2. Used' = Used
  BY DEF Used
<1>3. NotesAreKept' /\ OnOnePage'
  BY <1>2 DEF NotesInv, NotesAreKept, OnOnePage, On
<1>4. PostedAreUnsaved' /\ BeforeWereSaved' /\ NamesWereFree'
  BY <1>2 DEF NotesInv, PostedAreUnsaved, BeforeWereSaved, NamesWereFree, On
<1>5. QED
  BY <1>1, <1>3, <1>4 DEF NotesInv

LEMMA NotesStep == NotesInv /\ [NotesNext]_notesVars => NotesInv'
<1>. SUFFICES ASSUME NotesInv, [NotesNext]_notesVars PROVE NotesInv'
  OBVIOUS
<1>1. ASSUME NEW z \in Zones, Begin(z) PROVE NotesInv'
  BY <1>1, BeginStep
<1>2. ASSUME NEW n \in NoteIds, Look(n) PROVE NotesInv'
  BY <1>2, LookStep
<1>3. ASSUME NEW n \in NoteIds, SaveNote(n) PROVE NotesInv'
  BY <1>3, SaveStep
<1>4. ASSUME NEW n \in Name, Unpost(n) PROVE NotesInv'
  BY <1>4, UnpostStep
<1>5. ASSUME NEW n \in Name, Edit(n) PROVE NotesInv'
  BY <1>5, EditStep
<1>6. CASE NotesTick \/ UNCHANGED notesVars
  <2>1. wallClock' \in 0..MaxClock
    BY <1>6, NotesAssumption DEF NotesInv, NotesTypeOK, NotesTick, notesVars
  <2>2. QED
    BY <1>6, <2>1, NoteTimePasses DEF NotesTick, notesVars
<1>7. QED
  BY <1>1, <1>2, <1>3, <1>4, <1>5, <1>6 DEF NotesNext

\* A note that was acknowledged is on its page or in the history, and no post
\* begun after it was saved takes its page (store.go:439).
THEOREM NotesStay == NotesSpec => []NotesAreKept
<1>1. NotesInv => NotesAreKept
  BY DEF NotesInv
<1>2. QED
  BY <1>1, NotesBegin, NotesStep, PTL DEF NotesSpec

-----------------------------------------------------------------------------
(***************************************************************************)
(* The order of the stream.  A page that still says the note it was made   *)
(* for was named and created between the beginning of that post and now;   *)
(* so that of two notes, one begun after the other was saved, neither the  *)
(* name nor the stamp of the second is the earlier one.                    *)
(***************************************************************************)

Own(x, p) == p \in Used /\ folder[p].note = x /\ folder[p].by = x

AuthorsWereSaved == \A p \in Used : fate[folder[p].by] # "unsaved"

NoneIsAhead ==
    /\ \A x \in NoteIds : \A p \in Name : Own(x, p) =>
            /\ p.minute <= Local(wallClock, zone[x])
            /\ folder[p].created <= wallClock
    /\ \A x \in NoteIds : posting[x] # NoPost =>
            posting[x].name.minute <= Local(wallClock, zone[x])

InOrder ==
    \A b \in NoteIds : \A a \in before[b] : \A n \in Name : Own(a, n) =>
        /\ posting[b] # NoPost /\ zone[a] = zone[b] =>
                n.minute <= posting[b].name.minute
        /\ posting[b].pc = "save" => folder[n].created <= posting[b].since
        /\ \A m \in Name : Own(b, m) =>
                /\ zone[a] = zone[b] => n.minute <= m.minute
                /\ folder[n].created <= folder[m].created

StreamInv == AuthorsWereSaved /\ NoneIsAhead /\ InOrder

LEMMA LocalGrows ==
    ASSUME NEW s \in Nat, NEW t \in Nat, s <= t, NEW z
    PROVE  Local(s, z) <= Local(t, z)
<1>1. MinuteLen \in Nat \ {0} /\ ZoneShift \in Nat
  BY NotesAssumption
<1>2. /\ s \div MinuteLen \in Nat /\ t \div MinuteLen \in Nat
      /\ s \div MinuteLen <= t \div MinuteLen
  BY <1>1, DivGrows
<1>3. QED
  BY <1>1, <1>2 DEF Local

LEMMA ClockTypes ==
    ASSUME NotesTypeOK
    PROVE  /\ wallClock \in Nat
           /\ \A z : Local(wallClock, z) \in Nat
           /\ \A p \in Name : p.minute \in Nat
           /\ \A p \in Used : /\ p \in Name /\ folder[p].created \in Nat
                              /\ folder[p].by \in NoteIds
           /\ \A x \in NoteIds : posting[x] # NoPost =>
                /\ posting[x] \in Post /\ posting[x].name \in Name
                /\ posting[x].since \in Nat
<1>1. wallClock \in 0..MaxClock /\ MaxClock \in Nat
  BY NotesAssumption DEF NotesTypeOK
<1>2. \A z : Local(wallClock, z) \in 0..LastMinute
  BY <1>1, MinutesFit
<1>3. \A p \in Used : p \in Name /\ folder[p] \in NotePage
  BY PagesSay DEF Used
<1>4. \A p \in Used : folder[p].created \in Nat /\ folder[p].by \in NoteIds
  BY <1>1, <1>3 DEF NotePage
<1>5. \A x \in NoteIds : posting[x] # NoPost => posting[x] \in Post
  BY DEF NotesTypeOK
<1>6. QED
  BY <1>1, <1>2, <1>3, <1>4, <1>5 DEF Name, Post

LEMMA ClockNextTypes ==
    ASSUME NotesTypeOK'
    PROVE  wallClock' \in Nat /\ \A z : Local(wallClock', z) \in Nat
<1>1. wallClock' \in 0..MaxClock /\ MaxClock \in Nat
  BY NotesAssumption DEF NotesTypeOK
<1>2. \A z : Local(wallClock', z) \in 0..LastMinute
  BY <1>1, MinutesFit
<1>3. QED
  BY <1>1, <1>2

\* Whose pages do not become more, while no post goes on.
LEMMA StreamKept ==
    ASSUME NotesInv, NotesTypeOK', StreamInv, UNCHANGED <<posting, zone, before>>,
           \A x \in NoteIds : fate[x] # "unsaved" => fate'[x] # "unsaved",
           \A p \in Name : p \in Used' => /\ p \in Used
                                          /\ folder'[p].by = folder[p].by,
           \A x \in NoteIds : \A p \in Name : Own(x, p)' =>
                Own(x, p) /\ folder'[p].created = folder[p].created,
           wallClock <= wallClock',
           \A z : Local(wallClock, z) <= Local(wallClock', z)
    PROVE  StreamInv'
<1>. USE DEF StreamInv
<1>1. NotesTypeOK
  BY DEF NotesInv
<1>2. AuthorsWereSaved'
  BY <1>1, ClockTypes DEF AuthorsWereSaved, Used
<1>3. NoneIsAhead'
  <2>1. ASSUME NEW x \in NoteIds, NEW p \in Name, Own(x, p)'
        PROVE  /\ p.minute <= Local(wallClock', zone[x])
               /\ folder'[p].created <= wallClock'
    <3>1. Own(x, p) /\ folder'[p].created = folder[p].created /\ p \in Used
      BY <2>1 DEF Own
    <3>2. p.minute <= Local(wallClock, zone[x]) /\ folder[p].created <= wallClock
      BY <3>1 DEF NoneIsAhead
    <3>3. /\ p.minute \in Nat /\ folder[p].created \in Nat
          /\ wallClock \in Nat /\ wallClock' \in Nat
          /\ Local(wallClock, zone[x]) \in Nat /\ Local(wallClock', zone[x]) \in Nat
      BY <1>1, <3>1, ClockTypes, ClockNextTypes
    <3>4. QED
      BY <3>1, <3>2, <3>3
  <2>2. ASSUME NEW x \in NoteIds, posting[x] # NoPost
        PROVE  posting[x].name.minute <= Local(wallClock', zone[x])
    <3>1. posting[x].name.minute <= Local(wallClock, zone[x])
      BY <2>2 DEF NoneIsAhead
    <3>2. /\ posting[x].name.minute \in Nat
          /\ Local(wallClock, zone[x]) \in Nat /\ Local(wallClock', zone[x]) \in Nat
      BY <1>1, <2>2, ClockTypes, ClockNextTypes
    <3>3. QED
      BY <3>1, <3>2
  <2>3. QED
    BY <2>1, <2>2 DEF NoneIsAhead
<1>4. InOrder'
  <2>1. ASSUME NEW b \in NoteIds, NEW a \in before[b], NEW n \in Name, Own(a, n)'
        PROVE  /\ Own(a, n) /\ folder'[n].created = folder[n].created
               /\ \A m \in Name : Own(b, m)' =>
                    Own(b, m) /\ folder'[m].created = folder[m].created
    <3>1. a \in NoteIds
      BY <1>1 DEF NotesTypeOK
    <3>2. QED
      BY <2>1, <3>1
  <2>2. QED
    BY <2>1 DEF InOrder
<1>5. QED
  BY <1>2, <1>3, <1>4

LEMMA StreamBegin ==
    ASSUME NotesInv, StreamInv, NEW z \in Zones, Begin(z)
    PROVE  StreamInv'
<1>. DEFINE b == NextNote
            p == [pc |-> "look", since |-> 0,
                  name |-> [minute |-> Local(wallClock, z), number |-> 1]]
<1>. USE DEF StreamInv
<1>0. NotesTypeOK
  BY DEF NotesInv
<1>1. /\ b \in NoteIds /\ posting[b] = NoPost /\ fate[b] = "unsaved"
      /\ zone' = [zone EXCEPT ![b] = z]
      /\ posting' = [posting EXCEPT ![b] = p]
      /\ before' = [before EXCEPT ![b] = Standing]
      /\ UNCHANGED <<folder, past, fate, wallClock>>
  BY NextIsANote DEF Begin, Begun
<1>. HIDE DEF b
<1>2. /\ posting'[b] = p /\ zone'[b] = z /\ before'[b] = Standing
      /\ \A x \in NoteIds : x # b => /\ posting'[x] = posting[x]
                                     /\ zone'[x] = zone[x]
                                     /\ before'[x] = before[x]
  BY <1>0, <1>1 DEF NotesTypeOK
<1>3. Used' = Used /\ \A x, q : Own(x, q)' <=> Own(x, q)
  BY <1>1 DEF Used, Own
<1>4. \A q \in Name : ~ Own(b, q)
  BY <1>1 DEF AuthorsWereSaved, Own
<1>5. p.pc = "look" /\ p.name.minute = Local(wallClock, z) /\ p # NoPost
  BY PostsDiffer
<1>. HIDE DEF p
<1>6. AuthorsWereSaved'
  BY <1>1, <1>3 DEF AuthorsWereSaved
<1>7. NoneIsAhead'
  <2>1. Local(wallClock, z) <= Local(wallClock, z)
    BY <1>0, ClockTypes
  <2>2. QED
    BY <1>1, <1>2, <1>3, <1>4, <1>5, <2>1 DEF NoneIsAhead
<1>8. InOrder'
  <2>. SUFFICES ASSUME NEW c \in NoteIds, NEW a \in before'[c],
                       NEW n \in Name, Own(a, n)
                PROVE  /\ posting'[c] # NoPost /\ zone'[a] = zone'[c] =>
                             n.minute <= posting'[c].name.minute
                       /\ posting'[c].pc = "save" =>
                             folder[n].created <= posting'[c].since
                       /\ \A m \in Name : Own(c, m) =>
                             /\ zone'[a] = zone'[c] => n.minute <= m.minute
                             /\ folder[n].created <= folder[m].created
    BY <1>1, <1>3 DEF InOrder
  <2>1. CASE c = b
    <3>1. a \in NoteIds /\ fate[a] = "stands"
      BY <2>1, <1>2 DEF Standing
    <3>2. a # b
      BY <3>1, <1>1
    <3>3. n.minute <= Local(wallClock, zone[a])
      BY <3>1 DEF NoneIsAhead
    <3>4. QED
      BY <2>1, <3>1, <3>2, <3>3, <1>2, <1>4, <1>5
  <2>2. CASE c # b
    <3>1. a \in before[c] /\ a \in NoteIds /\ posting'[c] = posting[c]
          /\ zone'[c] = zone[c]
      BY <2>2, <1>0, <1>2 DEF NotesTypeOK
    <3>2. a # b
      BY <3>1, <1>1 DEF NotesInv, BeforeWereSaved
    <3>3. zone'[a] = zone[a]
      BY <3>1, <3>2, <1>2
    <3>4. QED
      BY <3>1, <3>3 DEF InOrder
  <2>3. QED
    BY <2>1, <2>2
<1>9. QED
  BY <1>6, <1>7, <1>8

LEMMA StreamLook ==
    ASSUME NotesInv, StreamInv, NEW b \in NoteIds, Look(b)
    PROVE  StreamInv'
<1>. USE DEF StreamInv
<1>. DEFINE p == posting[b]
<1>0. NotesTypeOK
  BY DEF NotesInv
<1>1. /\ p.pc = "look" /\ p \in Post /\ p # NoPost
      /\ UNCHANGED <<folder, past, zone, before, fate, wallClock>>
      /\ \A x \in NoteIds : x # b => posting'[x] = posting[x]
  BY <1>0, PostsDiffer DEF Look, NotesTypeOK
<1>2. /\ posting'[b].name.minute = p.name.minute
      /\ posting'[b].pc = "save" => posting'[b].since = wallClock
      /\ posting'[b] # NoPost => posting[b] # NoPost
  <2>1. p.name \in Name
    BY <1>1 DEF Post
  <2>2. CASE p.name \in Used
    <3>1. posting'[b] = [p EXCEPT !.name = [p.name EXCEPT !.number = @ + 1]]
      BY <2>2, <1>0, <1>1 DEF Look, NotesTypeOK, Post
    <3>2. QED
      BY <3>1, <2>1, <1>1 DEF Post, Name
  <2>3. CASE p.name \notin Used
    <3>1. posting'[b] = [p EXCEPT !.pc = "save", !.since = wallClock]
      BY <2>3, <1>0, <1>1 DEF Look, NotesTypeOK
    <3>2. QED
      BY <3>1, <1>1 DEF Post
  <2>4. QED
    BY <2>2, <2>3
<1>. HIDE DEF p
<1>3. Used' = Used /\ \A x, q : Own(x, q)' <=> Own(x, q)
  BY <1>1 DEF Used, Own
<1>4. AuthorsWereSaved' /\ NoneIsAhead'
  BY <1>1, <1>2, <1>3 DEF AuthorsWereSaved, NoneIsAhead, p
<1>5. InOrder'
  <2>. SUFFICES ASSUME NEW c \in NoteIds, NEW a \in before[c],
                       NEW n \in Name, Own(a, n)
                PROVE  /\ posting'[c] # NoPost /\ zone[a] = zone[c] =>
                             n.minute <= posting'[c].name.minute
                       /\ posting'[c].pc = "save" =>
                             folder[n].created <= posting'[c].since
                       /\ \A m \in Name : Own(c, m) =>
                             /\ zone[a] = zone[c] => n.minute <= m.minute
                             /\ folder[n].created <= folder[m].created
    BY <1>1, <1>3 DEF InOrder
  <2>1. folder[n].created <= wallClock
    BY <1>0 DEF NoneIsAhead, NotesTypeOK
  <2>2. QED
    BY <1>1, <1>2, <2>1 DEF InOrder, p
<1>6. QED
  BY <1>4, <1>5

LEMMA StreamSave ==
    ASSUME NotesInv, NotesInv', StreamInv, NEW b \in NoteIds, SaveNote(b)
    PROVE  StreamInv'
<1>. USE DEF StreamInv
<1>. DEFINE p == posting[b].name
            old == folder[p]
<1>0. NotesTypeOK /\ NotesTypeOK'
  BY DEF NotesInv
<1>1. PICK stamp \in posting[b].since..wallClock :
          folder' = [folder EXCEPT ![p] =
              IF old = Blank THEN [note |-> b, by |-> b, created |-> stamp]
              ELSE [old EXCEPT !.note = b]]
  BY DEF SaveNote
<1>2. /\ posting[b].pc = "save" /\ posting[b] # NoPost /\ p \in Name
      /\ fate[b] = "unsaved"
      /\ UNCHANGED <<zone, before, wallClock>>
      /\ posting'[b] = NoPost
      /\ \A x \in NoteIds : x # b => posting'[x] = posting[x]
  BY <1>0, PostsDiffer
     DEF SaveNote, NotesInv, NotesTypeOK, PostedAreUnsaved, Post
<1>3. /\ fate'[b] = "stands"
      /\ \A x \in NoteIds : fate[x] # "unsaved" => fate'[x] # "unsaved"
  BY <1>2, NotesAssumption DEF SaveNote, NotesTypeOK
<1>4. \A q \in Name : q # p => folder'[q] = folder[q]
  BY <1>0, <1>1 DEF NotesTypeOK
<1>5. \A c \in NoteIds : b \notin before[c]
  BY <1>2 DEF NotesInv, BeforeWereSaved
<1>6. stamp \in Nat /\ posting[b].since <= stamp /\ stamp <= wallClock
  BY <1>0, <1>1, <1>2, ClockTypes
\* The page is one of the note, or was made for another.
<1>7. \/ /\ old = Blank /\ folder'[p].by = b /\ folder'[p].note = b
         /\ folder'[p].created = stamp
      \/ /\ p \in Used /\ folder'[p].by = folder[p].by /\ folder'[p].note = b
         /\ folder'[p].by # b
  <2>1. CASE old = Blank
    BY <2>1, <1>0, <1>1, <1>2 DEF NotesTypeOK
  <2>2. CASE old # Blank
    <3>1. p \in Used /\ old \in NotePage
      BY <2>2, <1>0, <1>2, PagesSay DEF Used
    <3>2. folder'[p] = [old EXCEPT !.note = b]
      BY <2>2, <1>0, <1>1, <1>2 DEF NotesTypeOK
    <3>3. folder'[p].by = old.by /\ folder'[p].note = b
      BY <3>1, <3>2 DEF NotePage
    <3>4. old.by # b
      BY <3>1, <1>2 DEF AuthorsWereSaved
    <3>5. QED
      BY <3>1, <3>3, <3>4
  <2>3. QED
    BY <2>1, <2>2
<1>. HIDE DEF p, old
<1>8. \A x \in NoteIds : \A q \in Name : Own(x, q)' =>
        \/ /\ x # b /\ q # p /\ Own(x, q)
           /\ folder'[q].created = folder[q].created
        \/ x = b /\ q = p /\ folder'[p].created = stamp
  <2>. SUFFICES ASSUME NEW x \in NoteIds, NEW q \in Name, Own(x, q)'
                PROVE  \/ /\ x # b /\ q # p /\ Own(x, q)
                          /\ folder'[q].created = folder[q].created
                       \/ x = b /\ q = p /\ folder'[p].created = stamp
    OBVIOUS
  <2>1. CASE q = p
    BY <2>1, <1>7 DEF Own
  <2>2. CASE q # p
    <3>1. folder'[q] = folder[q] /\ Own(x, q)
      BY <2>2, <1>4 DEF Own, Used
    <3>2. x # b
      BY <3>1, <1>2 DEF AuthorsWereSaved, Own
    <3>3. QED
      BY <2>2, <3>1, <3>2
  <2>3. QED
    BY <2>1, <2>2
<1>9. AuthorsWereSaved'
  <2>. SUFFICES ASSUME NEW q \in Name, q \in Used'
                PROVE  fate'[folder'[q].by] # "unsaved"
    BY DEF AuthorsWereSaved, Used
  <2>1. CASE q = p
    <3>1. CASE folder'[p].by = b
      BY <2>1, <3>1, <1>3
    <3>2. CASE p \in Used /\ folder'[p].by = folder[p].by
      BY <2>1, <3>2, <1>0, <1>3, ClockTypes DEF AuthorsWereSaved
    <3>3. QED
      BY <1>7, <3>1, <3>2
  <2>2. CASE q # p
    <3>1. q \in Used /\ folder'[q] = folder[q]
      BY <2>2, <1>4 DEF Used
    <3>2. QED
      BY <3>1, <1>0, <1>3, ClockTypes DEF AuthorsWereSaved
  <2>3. QED
    BY <2>1, <2>2
<1>10. NoneIsAhead'
  BY <1>2, <1>6, <1>8 DEF NoneIsAhead, p
<1>11. InOrder'
  <2>. SUFFICES ASSUME NEW c \in NoteIds, NEW a \in before[c],
                       NEW n \in Name, Own(a, n)'
                PROVE  /\ posting'[c] # NoPost /\ zone[a] = zone[c] =>
                             n.minute <= posting'[c].name.minute
                       /\ posting'[c].pc = "save" =>
                             folder'[n].created <= posting'[c].since
                       /\ \A m \in Name : Own(c, m)' =>
                             /\ zone[a] = zone[c] => n.minute <= m.minute
                             /\ folder'[n].created <= folder'[m].created
    BY <1>2 DEF InOrder
  <2>1. a \in NoteIds /\ a # b
    BY <1>0, <1>5 DEF NotesTypeOK
  <2>2. Own(a, n) /\ folder'[n].created = folder[n].created
    BY <2>1, <1>8
  <2>3. CASE c = b
    <3>1. /\ zone[a] = zone[c] => n.minute <= p.minute
          /\ folder[n].created <= posting[b].since
      BY <2>2, <2>3, <1>2 DEF InOrder, p
    <3>2. folder[n].created \in Nat /\ posting[b].since \in Nat
      BY <2>2, <1>0, <1>2, ClockTypes DEF Own
    <3>3. folder[n].created <= stamp
      BY <3>1, <3>2, <1>6
    <3>4. posting'[c].pc # "save" /\ posting'[c] = NoPost
      BY <2>3, <1>2, PostsDiffer
    <3>5. QED
      BY <2>2, <2>3, <3>1, <3>3, <3>4, <1>8
  <2>4. CASE c # b
    BY <2>2, <2>4, <1>2, <1>8 DEF InOrder
  <2>5. QED
    BY <2>3, <2>4
<1>12. QED
  BY <1>9, <1>10, <1>11

LEMMA StreamStarts == NotesInit => StreamInv
<1>. SUFFICES ASSUME NotesInit PROVE StreamInv
  OBVIOUS
<1>1. Used = {}
  BY DEF NotesInit, Used
<1>2. QED
  BY <1>1 DEF NotesInit, StreamInv, AuthorsWereSaved, NoneIsAhead, InOrder, Own

LEMMA StreamStep ==
    ASSUME NotesInv, NotesInv', StreamInv, [NotesNext]_notesVars
    PROVE  StreamInv'
<1>0. NotesTypeOK /\ NotesTypeOK'
  BY DEF NotesInv
<1>1. ASSUME NEW n \in Name, Unpost(n) \/ Edit(n) PROVE StreamInv'
  <2>. DEFINE row == folder'[n]
  <2>1. /\ UNCHANGED <<posting, zone, before, wallClock>>
        /\ n \in Used /\ Withdrawn(folder[n].note)
        /\ \A q \in Name : q # n => folder'[q] = folder[q]
    BY <1>0, <1>1 DEF Unpost, Edit, NotesTypeOK
  <2>2. row = Blank \/ (row.note = "edited" /\ row.by = folder[n].by)
    <3>1. CASE Unpost(n)
      BY <1>0, <3>1 DEF Unpost, NotesTypeOK
    <3>2. CASE Edit(n)
      <4>1. folder[n] \in NotePage
        BY <1>0, <2>1, PagesSay
      <4>2. row = [folder[n] EXCEPT !.note = "edited"]
        BY <1>0, <3>2 DEF Edit, NotesTypeOK
      <4>3. QED
        BY <4>1, <4>2 DEF NotePage
    <3>3. QED
      BY <1>1, <3>1, <3>2
  <2>. HIDE DEF row
  <2>3. \A x \in NoteIds : fate[x] # "unsaved" => fate'[x] # "unsaved"
    BY <1>0, <2>1 DEF Withdrawn, NotesTypeOK
  <2>4. \A q \in Name : q \in Used' => q \in Used /\ folder'[q].by = folder[q].by
    BY <2>1, <2>2 DEF Used, row
  <2>5. \A x \in NoteIds : \A q \in Name : Own(x, q)' =>
            Own(x, q) /\ folder'[q].created = folder[q].created
    <3>1. "edited" \notin NoteIds
      BY NotesAssumption
    <3>2. \A x \in NoteIds : ~ Own(x, n)'
      BY <2>2, <3>1 DEF Own, Used, row
    <3>3. QED
      BY <2>1, <2>4, <3>2 DEF Own
  <2>6. /\ wallClock <= wallClock'
        /\ \A z : Local(wallClock, z) <= Local(wallClock', z)
    BY <1>0, <2>1, ClockTypes
  <2>7. QED
    BY <1>0, <2>1, <2>3, <2>4, <2>5, <2>6, StreamKept
<1>2. CASE NotesTick \/ UNCHANGED notesVars
  <2>1. UNCHANGED <<folder, past, posting, zone, before, fate>>
    BY <1>2 DEF NotesTick, notesVars
  <2>2. wallClock \in Nat /\ wallClock' \in Nat /\ wallClock <= wallClock'
    BY <1>0, <1>2, ClockTypes, ClockNextTypes DEF NotesTick, notesVars
  <2>3. \A z : Local(wallClock, z) <= Local(wallClock', z)
    BY <2>2, LocalGrows
  <2>4. Used' = Used /\ \A x, q : Own(x, q)' <=> Own(x, q)
    BY <2>1 DEF Used, Own
  <2>5. QED
    BY <1>0, <2>1, <2>2, <2>3, <2>4, StreamKept
<1>3. QED
  BY <1>1, <1>2, StreamBegin, StreamLook, StreamSave DEF NotesNext

\* A note begun after another was saved is above it in the stream
\* (store.go:412).
THEOREM StreamIsInOrder == NotesSpec => []StreamIsNewestFirst
<1>1. NotesInv /\ StreamInv => StreamIsNewestFirst
  <2>. SUFFICES ASSUME NotesInv, StreamInv, NEW m \in Used, NEW n \in Used,
                       folder[m].note = folder[m].by,
                       folder[n].note \in before[folder[m].by],
                       folder[n].by = folder[n].note,
                       zone[folder[m].by] = zone[folder[n].by],
                       folder[m].created # folder[n].created
                PROVE  Above(m, n)
    BY DEF StreamIsNewestFirst
  <2>1. NotesTypeOK
    BY DEF NotesInv
  <2>2. /\ m \in Name /\ n \in Name /\ folder[m].by \in NoteIds
        /\ m.minute \in Nat /\ n.minute \in Nat
        /\ folder[m].created \in Nat /\ folder[n].created \in Nat
    BY <2>1, ClockTypes
  <2>3. Own(folder[m].by, m) /\ Own(folder[n].by, n)
    BY DEF Own
  <2>4. n.minute <= m.minute /\ folder[n].created <= folder[m].created
    BY <2>2, <2>3 DEF StreamInv, InOrder
  <2>5. /\ n.minute \div DayLen <= m.minute \div DayLen
        /\ n.minute \div DayLen \in Nat /\ m.minute \div DayLen \in Nat
    BY <2>2, <2>4, NotesAssumption, DivGrows
  <2>6. QED
    BY <2>2, <2>4, <2>5 DEF Above, Day
<1>2. NotesInv /\ NotesInv' /\ StreamInv /\ [NotesNext]_notesVars => StreamInv'
  BY StreamStep
<1>3. QED
  BY <1>1, <1>2, StreamStarts, NotesBegin, NotesStep, PTL DEF NotesSpec

-----------------------------------------------------------------------------
(***************************************************************************)
(* The folder as a site: its notes are visible gemtext.                    *)
(***************************************************************************)

NoteDoc(text) == [content |-> text, mime |-> "gemtext"]

NoteAt(n) == IF folder[n] = Blank THEN Blank ELSE NoteDoc(folder[n].note)

NotesLive == [n \in Name |-> NoteAt(n)]

NotesFindable == {<<n, folder[n].note>> : n \in Used}

Folder == INSTANCE PublishedSite
            WITH Paths <- Name, HiddenPaths <- {}, Contents <- Texts,
                 NoDoc <- Blank, live <- NotesLive, searchable <- NotesFindable

LEMMA NoteIsADoc ==
    ASSUME NEW text \in Texts
    PROVE  NoteDoc(text) \in Folder!Doc /\ NoteDoc(text) # Blank
<1>1. "note" \in DOMAIN Blank /\ "note" \notin DOMAIN NoteDoc(text)
  BY DEF Blank, NoteDoc
<1>2. NoteDoc(text) # Blank
  BY <1>1
<1>3. QED
  BY <1>2 DEF NoteDoc, Folder!Doc

\* Search finds the notes as they read.
LEMMA FolderIsFindable ==
    ASSUME NotesTypeOK
    PROVE  NotesFindable = Folder!FindableIn(NotesLive)
<1>1. \A n \in Name : folder[n] # Blank =>
        /\ NotesLive[n] = NoteDoc(folder[n].note)
        /\ NotesLive[n] # Blank
        /\ NotesLive[n].content = folder[n].note
        /\ NotesLive[n].mime = "gemtext"
  <2>. SUFFICES ASSUME NEW n \in Name, folder[n] # Blank
                PROVE  /\ NotesLive[n] = NoteDoc(folder[n].note)
                       /\ NotesLive[n] # Blank
                       /\ NotesLive[n].content = folder[n].note
                       /\ NotesLive[n].mime = "gemtext"
    OBVIOUS
  <2>1. folder[n].note \in Texts
    BY DEF NotesTypeOK, NotePage
  <2>2. NotesLive[n] = NoteDoc(folder[n].note)
    BY DEF NotesLive, NoteAt
  <2>3. QED
    BY <2>1, <2>2, NoteIsADoc DEF NoteDoc
<1>2. \A n \in Name : folder[n] = Blank => NotesLive[n] = Blank
  BY DEF NotesLive, NoteAt
<1>. HIDE DEF NotesLive
<1>3. QED
  BY <1>1, <1>2 DEF NotesFindable, Used, Folder!FindableIn

\* A step that sets one name of the folder publishes or removes a note.
LEMMA OneNoteChanges ==
    ASSUME NotesTypeOK, NotesTypeOK', NEW n \in Name,
           NEW page \in NotePage \cup {Blank}, folder' = [folder EXCEPT ![n] = page]
    PROVE  Folder!SiteNext
<1>1. \A p \in Name : folder'[p] = IF p = n THEN page ELSE folder[p]
  BY DEF NotesTypeOK
<1>2. NotesLive' = [NotesLive EXCEPT ![n] =
                        IF page = Blank THEN Blank ELSE NoteDoc(page.note)]
  BY <1>1 DEF NotesLive, NoteAt, NoteDoc, Blank
<1>3. Folder!Remove(n) \/ \E d \in Folder!Doc : Folder!Publish(n, d)
  <2>1. CASE page = Blank
    BY <1>2, <2>1 DEF Folder!Remove
  <2>2. CASE page # Blank
    <3>1. page.note \in Texts
      BY <2>2 DEF NotePage
    <3>2. QED
      BY <1>2, <2>2, <3>1, NoteIsADoc DEF Folder!Publish
  <2>3. QED
    BY <2>1, <2>2
<1>4. NotesFindable' = Folder!FindableIn(NotesLive')
  <2>1. NotesTypeOK => NotesFindable = Folder!FindableIn(NotesLive)
    BY FolderIsFindable
  <2>2. (NotesTypeOK => NotesFindable = Folder!FindableIn(NotesLive))'
    BY FolderIsFindable, PTL
  <2>3. QED
    BY <2>2 DEF Folder!FindableIn
<1>5. QED
  BY <1>3, <1>4 DEF Folder!SiteNext

\* Posting, editing and withdrawing notes are what the store allows its writers,
\* and readers see each at once (store.go:439): the folder implements
\* PublishedSite, as Store does, in any number of posts at once.
THEOREM NotesImplementSite == NotesSpec => Folder!SiteSpec
<1>1. ASSUME NotesInv, NotesInv', [NotesNext]_notesVars
      PROVE  [Folder!SiteNext]_<<NotesLive, NotesFindable>>
  <2>1. NotesTypeOK /\ NotesTypeOK'
    BY <1>1 DEF NotesInv
  <2>2. CASE UNCHANGED folder
    BY <2>2 DEF NotesLive, NoteAt, NotesFindable, Used
  <2>3. CASE \E n \in NoteIds : SaveNote(n)
    <3>1. PICK n \in NoteIds : SaveNote(n)
      BY <2>3
    <3>2. posting[n].name \in Name
      BY <2>1, <3>1 DEF NotesTypeOK, SaveNote, Post, NoPost
    <3>3. folder' = [folder EXCEPT ![posting[n].name] = folder'[posting[n].name]]
      BY <2>1, <3>1, <3>2 DEF NotesTypeOK, SaveNote
    <3>4. folder'[posting[n].name] \in NotePage \cup {Blank}
      BY <2>1, <3>2 DEF NotesTypeOK
    <3>5. QED
      BY <2>1, <3>2, <3>3, <3>4, OneNoteChanges
  <2>4. CASE \E n \in Name : Unpost(n) \/ Edit(n)
    <3>1. PICK n \in Name : Unpost(n) \/ Edit(n)
      BY <2>4
    <3>2. folder' = [folder EXCEPT ![n] = folder'[n]]
      BY <2>1, <3>1 DEF NotesTypeOK, Unpost, Edit
    <3>3. folder'[n] \in NotePage \cup {Blank}
      BY <2>1 DEF NotesTypeOK
    <3>4. QED
      BY <2>1, <3>2, <3>3, OneNoteChanges
  <2>5. QED
    BY <1>1, <2>2, <2>3, <2>4 DEF NotesNext, Begin, Look, NotesTick, notesVars
<1>2. NotesInit => Folder!SiteInit
  BY DEF NotesInit, Folder!SiteInit, NotesLive, NoteAt, NotesFindable, Used
<1>3. QED
  BY <1>1, <1>2, NotesBegin, NotesStep, PTL
     DEF NotesSpec, Folder!SiteSpec, Folder!siteVars
=============================================================================
