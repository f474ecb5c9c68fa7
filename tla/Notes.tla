------------------------------- MODULE Notes -------------------------------
(***************************************************************************)
(* Notes posted without a name (internal/store/store.go, web/api.go,       *)
(* web/mcp.go, gemini/server.go, sshui/ui.go, web/admin.go): a name is     *)
(* made of the minute, tried with -2, -3 and so on until it is free, and   *)
(* saved later; the stream of the folder lists what is there.              *)
(*                                                                         *)
(* The folder here is one that publishes a feed.  Of the store this keeps  *)
(* what a note touches: its page, the second the page was created (which   *)
(* Store leaves out) and the history.  The API, the MCP and the editor     *)
(* name a note by the time of the site's zone, titan and ssh by that of    *)
(* the server's.                                                           *)
(***************************************************************************)
EXTENDS Naturals, FiniteSets

CONSTANTS
    NoteIds,     \* the notes: each is posted once, which bounds them
    MaxPosts,    \* bound on the requests that post, at once
    Zones,       \* "site" and, where it differs, "server"
    ZoneShift,   \* minutes by which the server's zone is ahead
    MinuteLen,   \* seconds in a minute
    DayLen,      \* minutes in a day
    MaxClock,    \* bound on the clock, in seconds
    MaxNumber    \* bound on the names tried for a minute

ASSUME NotesAssumption ==
    /\ Zones \subseteq {"site", "server"}
    /\ ZoneShift \in Nat
    /\ MinuteLen \in Nat \ {0}
    /\ DayLen \in Nat \ {0}
    /\ MaxClock \in Nat
    /\ MaxNumber \in 1..9
    /\ MaxPosts \in Nat
    /\ NoteIds # {}
    /\ NoteIds \cap {"none", "edited", "unsaved", "stands", "withdrawn"} = {}

VARIABLES
    folder,  \* the page under each name, or Blank
    past,    \* the notes in the history of the folder's pages
    posting, \* what the request that posts each note is at, or NoPost
    zone,    \* the zone each note was named in (history)
    before,  \* the notes that stood when a note was begun (history)
    fate,    \* what became of each note (history)
    wallClock \* the second it is

notesVars == <<folder, past, posting, zone, before, fate, wallClock>>

LastMinute == MaxClock \div MinuteLen + ZoneShift

\* Number 1 stands for the name without a number.
Name == [minute : 0..LastMinute, number : 1..MaxNumber]

Texts == NoteIds \cup {"edited"}

Blank == [note |-> "none"]

\* What a page says, the note it was created for, and when.
NotePage == [note : Texts, by : NoteIds, created : 0..MaxClock]

NoPost == [pc |-> "idle"]

Post == [pc : {"look", "save"}, name : Name, since : 0..MaxClock]

NotesTypeOK ==
    /\ folder \in [Name -> NotePage \cup {Blank}]
    /\ past \subseteq Texts
    /\ posting \in [NoteIds -> Post \cup {NoPost}]
    /\ zone \in [NoteIds -> Zones \cup {"site"}]
    /\ before \in [NoteIds -> SUBSET NoteIds]
    /\ fate \in [NoteIds -> NoteIds \cup {"unsaved", "stands", "withdrawn"}]
    /\ wallClock \in 0..MaxClock

NotesInit ==
    /\ folder = [n \in Name |-> Blank]
    /\ past = {}
    /\ posting = [n \in NoteIds |-> NoPost]
    /\ zone = [n \in NoteIds |-> "site"]
    /\ before = [n \in NoteIds |-> {}]
    /\ fate = [n \in NoteIds |-> "unsaved"]
    /\ wallClock = 0

Used == {n \in Name : folder[n] # Blank}

Standing == {n \in NoteIds : fate[n] = "stands"}

Begun(n) == fate[n] # "unsaved" \/ posting[n] # NoPost

\* Notes are alike: which of those left is posted next does not matter.
NextNote == CHOOSE n \in NoteIds : (\E m \in NoteIds : ~ Begun(m)) => ~ Begun(n)

-----------------------------------------------------------------------------

Local(second, z) ==
    second \div MinuteLen + (IF z = "server" THEN ZoneShift ELSE 0)

\* A post that is not empty reads the clock for the first name to try.
Begin(z) ==
    LET n == NextNote
    IN  /\ ~ Begun(n)
        /\ Cardinality({m \in NoteIds : posting[m] # NoPost}) < MaxPosts
        /\ zone' = [zone EXCEPT ![n] = z]
        /\ posting' = [posting EXCEPT ![n] =
                [pc |-> "look", since |-> 0,
                 name |-> [minute |-> Local(wallClock, z), number |-> 1]]]
        /\ before' = [before EXCEPT ![n] = Standing]
        /\ UNCHANGED <<folder, past, fate, wallClock>>

Look_once(n) ==
    LET p == posting[n]
    IN  /\ p.pc = "look"
        /\ p.name \in Used => p.name.number < MaxNumber
        /\ posting' = [posting EXCEPT ![n] =
                [p EXCEPT !.pc = "save", !.since = wallClock,
                          !.name.number = IF p.name \in Used THEN 2 ELSE 1]]
        /\ UNCHANGED <<folder, past, zone, before, fate, wallClock>>

\* Each name is looked up by a query of its own.
Look(n) ==
    LET p == posting[n]
    IN  /\ p.pc = "look"
        /\ p.name \in Used => p.name.number < MaxNumber
        /\ posting' = [posting EXCEPT ![n] =
                IF p.name \in Used
                THEN [p EXCEPT !.name.number = @ + 1]
                ELSE [p EXCEPT !.pc = "save", !.since = wallClock]]
        /\ UNCHANGED <<folder, past, zone, before, fate, wallClock>>

\* SavePage: a page that has come to be there meanwhile goes to the history and
\* keeps its creation time.  The stamp is read before the transaction waits.
SaveNote(n) ==
    LET p == posting[n]
        old == folder[p.name]
    IN  /\ p.pc = "save"
        /\ \E stamp \in p.since..wallClock :
            folder' = [folder EXCEPT ![p.name] =
                IF old = Blank
                THEN [note |-> n, by |-> n, created |-> stamp]
                ELSE [old EXCEPT !.note = n]]
        /\ past' = IF old = Blank THEN past ELSE past \cup {old.note}
        /\ fate' = [m \in NoteIds |->
                IF m = n THEN "stands"
                ELSE IF old # Blank /\ old.note = m THEN n ELSE fate[m]]
        /\ posting' = [posting EXCEPT ![n] = NoPost]
        /\ UNCHANGED <<zone, before, wallClock>>

Withdrawn(text) ==
    fate' = IF text \in NoteIds THEN [fate EXCEPT ![text] = "withdrawn"] ELSE fate

\* DELETE, or a titan upload of no bytes.
Unpost(n) ==
    /\ n \in Used
    /\ folder' = [folder EXCEPT ![n] = Blank]
    /\ past' = past \cup {folder[n].note}
    /\ Withdrawn(folder[n].note)
    /\ UNCHANGED <<posting, zone, before, wallClock>>

\* A save by name, of a note that is there.
Edit(n) ==
    /\ n \in Used
    /\ folder[n].note \in NoteIds
    /\ folder' = [folder EXCEPT ![n].note = "edited"]
    /\ past' = past \cup {folder[n].note}
    /\ Withdrawn(folder[n].note)
    /\ UNCHANGED <<posting, zone, before, wallClock>>

NotesTick ==
    /\ wallClock < MaxClock
    /\ wallClock' = wallClock + 1
    /\ UNCHANGED <<folder, past, posting, zone, before, fate>>

NotesNext ==
    \/ \E z \in Zones : Begin(z)
    \/ \E n \in NoteIds : Look(n) \/ SaveNote(n)
    \/ \E n \in Name : Unpost(n) \/ Edit(n)
    \/ NotesTick

NotesSpec == NotesInit /\ [][NotesNext]_notesVars

-----------------------------------------------------------------------------
(***************************************************************************)
(* What readers are given.                                                 *)
(***************************************************************************)

\* The date in the name decides.
Day(n) == n.minute \div DayLen

Above_oldestOfTheDay(m, n) ==
    \/ Day(m) > Day(n)
    \/ Day(m) = Day(n) /\ folder[m].created < folder[n].created

\* StreamPages: of one day, the page created later comes first; pages of one
\* second come in any order.
Above(m, n) ==
    \/ Day(m) > Day(n)
    \/ Day(m) = Day(n) /\ folder[m].created > folder[n].created

-----------------------------------------------------------------------------
(***************************************************************************)
(* Properties.                                                             *)
(***************************************************************************)

\* Every note that was acknowledged stands on its page or is in the history,
\* and nothing but a deletion, an edit, or a post that had begun before the
\* note was saved has taken it off its page (store.go:439).
NotesAreKept ==
    \A n \in NoteIds :
        /\ fate[n] = "stands" <=> \E p \in Used : folder[p].note = n
        /\ fate[n] \notin {"unsaved", "stands"} => n \in past
        /\ fate[n] \in NoteIds => n \notin before[fate[n]]

\* A note begun after another was saved, under a clock of the same zone, is
\* above it in the stream, over midnight as well, unless both are of one
\* second or it took over a page made by a post beside it (store.go:412).
StreamIsNewestFirst ==
    \A m, n \in Used :
        /\ folder[m].note = folder[m].by
        /\ folder[n].note \in before[folder[m].by]
        /\ folder[n].by = folder[n].note
        /\ zone[folder[m].by] = zone[folder[n].by]
        /\ folder[m].created # folder[n].created
        => Above(m, n)
=============================================================================
