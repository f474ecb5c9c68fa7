------------------------------ MODULE Updates ------------------------------
(***************************************************************************)
(* The release check behind the banner of the admin pages                  *)
(* (internal/web/updatecheck.go).  A page never waits for it: it shows the *)
(* last answer and, when that is old, starts one refresh in the            *)
(* background.  Time is told by what is left until nextCheck.              *)
(***************************************************************************)
EXTENDS Naturals, FiniteSets

CONSTANTS
    Pages,      \* admin pages being rendered at once
    Refreshes,  \* goroutines: bounds them
    Releases,   \* tags, numbered in the order they are released
    CheckTTL, RetryTTL

ASSUME UpdatesAssumption ==
    /\ CheckTTL \in Nat
    /\ RetryTTL \in Nat
    /\ Releases \subseteq Nat \ {0}

VARIABLES
    latest, fetching,
    wait,       \* from now to nextCheck, 0 when it has passed
    refresh,    \* each goroutine: "none", "asking", or the answer it has
    released,   \* the newest release there is
    seen        \* the tag each page shows, 0 for none

updateVars == <<latest, fetching, wait, refresh, released, seen>>

Answers == [at : {"answered"}, ok : BOOLEAN, tag : Releases \cup {0}]

Quiet == [at |-> "none"]

Asking == [at |-> "asking"]

UpdatesInit ==
    /\ latest = 0
    /\ fetching = FALSE
    /\ wait = 0
    /\ refresh = [g \in Refreshes |-> Quiet]
    /\ released \in Releases
    /\ seen = [p \in Pages |-> 0]

-----------------------------------------------------------------------------

Due_whileFetching == wait = 0

Due == wait = 0 /\ ~ fetching

\* latestTag, under the lock: the last answer, and a refresh if one is due.
Render(p) ==
    /\ seen' = [seen EXCEPT ![p] = latest]
    /\ IF Due
       THEN /\ fetching' = TRUE
            /\ \E g \in Refreshes : /\ refresh[g] = Quiet
                                    /\ refresh' = [refresh EXCEPT ![g] = Asking]
       ELSE UNCHANGED <<fetching, refresh>>
    /\ UNCHANGED <<latest, wait, released>>

\* fetchLatestTag, with no lock held: the newest release, or an error when
\* GitHub does not answer in time, answers badly or not at all.
Answer(g) ==
    /\ refresh[g] = Asking
    /\ refresh' = [refresh EXCEPT ![g] =
                    [at |-> "answered", ok |-> TRUE, tag |-> released]]
    /\ UNCHANGED <<latest, fetching, wait, released, seen>>

NoAnswer(g) ==
    /\ refresh[g] = Asking
    /\ refresh' = [refresh EXCEPT ![g] =
                    [at |-> "answered", ok |-> FALSE, tag |-> 0]]
    /\ UNCHANGED <<latest, fetching, wait, released, seen>>

Finish_forgetsFlag(g) ==
    /\ refresh[g] \in Answers
    /\ fetching' = ~ refresh[g].ok
    /\ wait' = IF refresh[g].ok THEN CheckTTL ELSE RetryTTL
    /\ latest' = IF refresh[g].ok THEN refresh[g].tag ELSE latest
    /\ refresh' = [refresh EXCEPT ![g] = Quiet]
    /\ UNCHANGED <<released, seen>>

\* The rest of refresh, under the lock: a failure keeps the last answer and is
\* retried sooner.
Finish(g) ==
    /\ refresh[g] \in Answers
    /\ fetching' = FALSE
    /\ wait' = IF refresh[g].ok THEN CheckTTL ELSE RetryTTL
    /\ latest' = IF refresh[g].ok THEN refresh[g].tag ELSE latest
    /\ refresh' = [refresh EXCEPT ![g] = Quiet]
    /\ UNCHANGED <<released, seen>>

Release ==
    /\ \E r \in Releases : r > released /\ released' = r
    /\ UNCHANGED <<latest, fetching, wait, refresh, seen>>

UpdatesTick ==
    /\ wait > 0
    /\ wait' = wait - 1
    /\ UNCHANGED <<latest, fetching, refresh, released, seen>>

UpdatesNext ==
    \/ \E p \in Pages : Render(p)
    \/ \E g \in Refreshes : Answer(g) \/ NoAnswer(g) \/ Finish(g)
    \/ Release
    \/ UpdatesTick

UpdatesSpec == UpdatesInit /\ [][UpdatesNext]_updateVars

-----------------------------------------------------------------------------
(***************************************************************************)
(* Properties.                                                             *)
(***************************************************************************)

Busy == {g \in Refreshes : refresh[g] # Quiet}

\* One request at a time, and the flag that says so is right; no answer puts
\* an older tag in the place of a newer one (updatecheck.go:58, 68).
OneRefreshAtATime ==
    /\ Cardinality(Busy) <= 1
    /\ fetching <=> Busy # {}
    /\ \A g \in Busy : refresh[g] \in Answers /\ refresh[g].ok =>
        refresh[g].tag >= latest

\* Once pages ask for releases, every page that is rendered again and again
\* comes to show the newest one, whatever number of checks fail first and
\* whatever answer is already on its way (updatecheck.go:58, 72).
NewsArrives ==
    \A p \in Pages, r \in Releases :
        (fetching /\ released = r) ~> seen[p] >= r
=============================================================================
