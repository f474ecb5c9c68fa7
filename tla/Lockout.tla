------------------------------ MODULE Lockout ------------------------------
(***************************************************************************)
(* What the limiter of failed logins (internal/auth/throttle.go) promises  *)
(* to a source of login attempts: failures that follow each other within a *)
(* window make a run, a run of MaxFails locks the source out until a       *)
(* window has passed since the last of them, and a success ends the run.   *)
(*                                                                         *)
(* Time is told by ages.  A failure can be recorded up to Lag after it was *)
(* stamped, so a run is forgotten once nothing stamped in time can be part *)
(* of it any more.  Which sources have an entry, and when old entries are  *)
(* thrown away, does not show.                                             *)
(***************************************************************************)
EXTENDS Naturals

CONSTANTS
    Sources,   \* addresses that attempts come from
    MaxFails,  \* failures before a lockout
    Window,    \* sliding window and duration of a lockout
    Lag,       \* how long a time just read may wait to be recorded
    Oldest     \* every greater age counts as this one

VARIABLE run   \* of each source: the length of its run, and the age of its end

NoRun == [length |-> 0, end |-> Oldest]

Longer(n) == IF n < MaxFails THEN n + 1 ELSE MaxFails

Failure(s, stamp) ==
    LET length == IF run[s].end > Window + stamp THEN 0 ELSE run[s].length
    IN  run' = [run EXCEPT ![s] = [length |-> Longer(length), end |-> stamp]]

Success(s) == run' = [run EXCEPT ![s] = NoRun]

TimePasses ==
    run' = [s \in Sources |->
              IF run[s].end >= Window + Lag THEN NoRun
              ELSE [run[s] EXCEPT !.end = @ + 1]]

Forget == run' = [s \in Sources |-> NoRun]

LockedOut(s) == run[s].length = MaxFails /\ run[s].end < Window

LockoutInit == run = [s \in Sources |-> NoRun]

LockoutNext ==
    \/ \E s \in Sources, stamp \in 0..Lag : Failure(s, stamp)
    \/ \E s \in Sources : Success(s)
    \/ TimePasses
    \/ Forget

LockoutSpec == LockoutInit /\ [][LockoutNext]_run
=============================================================================
