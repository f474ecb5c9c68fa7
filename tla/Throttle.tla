------------------------------ MODULE Throttle ------------------------------
(***************************************************************************)
(* The limiter of failed logins (internal/auth/throttle.go) and the doors  *)
(* that consult it: the login form, the bearer token of the API and of     *)
(* MCP, the consent page and the client credentials of OAuth, and the      *)
(* password of ssh.  The web doors share one limiter, ssh has its own, and *)
(* every door goes through the same steps: ask whether the source is       *)
(* locked out, compare the password with no lock held, then record the     *)
(* failure or clear the record.                                            *)
(*                                                                         *)
(* Time is told by ages, which grow together when the clock ticks, and the *)
(* clock is monotonic, as Go's is.  An age of Oldest stands for every      *)
(* greater one, and for the zero time.  time.Now() is read before the      *)
(* lock of the limiter is taken: an attempt can wait between the two, no   *)
(* longer than Lag, and failures can be recorded out of order.             *)
(***************************************************************************)
EXTENDS Naturals

CONSTANTS
    Sources,   \* addresses that attempts come from
    Attempts,  \* attempts under way at once: bounds them
    MaxFails,  \* max: failures before a lockout
    Window,    \* window: sliding window and duration of a lockout
    Lag,       \* how long a time just read may wait for the limiter
    Oldest     \* every greater age counts as this one

\* Ages are told apart as far as the code compares them.
ASSUME ThrottleAssumption ==
    /\ MaxFails \in Nat \ {0}
    /\ Window \in Nat \ {0}
    /\ Lag \in 0..Window
    /\ Oldest \in Nat
    /\ Oldest > 2 * Window + Lag

VARIABLES
    attempt,  \* the attempts under way, or Idle
    fails,    \* the entry of each source, NoEntry when the map has none
    lastGC    \* the age of the last sweep of old entries

throttleVars == <<attempt, fails, lastGC>>

Ages == 0..Oldest

Idle == [pc |-> "idle"]

Attempt == [pc : {"check", "compare", "record", "clear"}, source : Sources,
            stamp : Ages]

\* count is told apart up to MaxFails; locked is the age of the failure that
\* set until, which lies one window after it.
Entry == [count : 0..MaxFails, locked : Ages, seen : Ages]

NoEntry == [count |-> 0, locked |-> Oldest, seen |-> Oldest]

\* A lock is that of the last failure, and there is none before MaxFails.
LocksAreOfLastFailures ==
    \A s \in Sources :
        fails[s].locked = IF fails[s].count = MaxFails THEN fails[s].seen
                          ELSE Oldest

\* The type invariant of the limiter, with what its entries always are.
ThrottleTypeOK ==
    /\ attempt \in [Attempts -> Attempt \cup {Idle}]
    /\ \A a \in Attempts :
        attempt[a].pc \in {"check", "record"} => attempt[a].stamp <= Lag
    /\ fails \in [Sources -> Entry]
    /\ LocksAreOfLastFailures
    /\ lastGC \in Ages

ThrottleInit ==
    /\ attempt = [a \in Attempts |-> Idle]
    /\ fails = [s \in Sources |-> NoEntry]
    /\ lastGC = Oldest

-----------------------------------------------------------------------------
(***************************************************************************)
(* The limiter.                                                            *)
(***************************************************************************)

Older(age) == IF age < Oldest THEN age + 1 ELSE Oldest

Blocked(s, stamp) == fails[s].locked < Window + stamp

GcDue(stamp) == lastGC >= Window + stamp

\* gc, by the clock of the failure that calls it.
Swept(stamp) ==
    [s \in Sources |->
        IF GcDue(stamp) /\ fails[s].seen > 2 * Window + stamp
        THEN NoEntry ELSE fails[s]]

OneMore(count) == IF count < MaxFails THEN count + 1 ELSE MaxFails

Lapsed(entry, stamp) == entry.seen > Window + stamp

Counted_keepsCount(entry, stamp) ==
    LET count == OneMore(entry.count)
    IN  [count |-> count,
         locked |-> IF count = MaxFails THEN stamp
                    ELSE IF Lapsed(entry, stamp) THEN Oldest ELSE entry.locked,
         seen |-> stamp]

Counted_locksLate(entry, stamp) ==
    LET old == IF Lapsed(entry, stamp) THEN NoEntry ELSE entry
    IN  [count |-> OneMore(old.count),
         locked |-> IF old.count = MaxFails THEN stamp ELSE old.locked,
         seen |-> stamp]

Counted(entry, stamp) ==
    LET old == IF Lapsed(entry, stamp) THEN NoEntry ELSE entry
        count == OneMore(old.count)
    IN  [count |-> count,
         locked |-> IF count = MaxFails THEN stamp ELSE old.locked,
         seen |-> stamp]

Fail(s, stamp) ==
    /\ lastGC' = IF GcDue(stamp) THEN stamp ELSE lastGC
    /\ fails' = [Swept(stamp) EXCEPT ![s] = Counted(@, stamp)]

Succeed(s) ==
    /\ fails' = [fails EXCEPT ![s] = NoEntry]
    /\ UNCHANGED lastGC

-----------------------------------------------------------------------------
(***************************************************************************)
(* A door.                                                                 *)
(***************************************************************************)

Knock(a, s) ==
    /\ attempt[a] = Idle
    /\ attempt' = [attempt EXCEPT
                    ![a] = [pc |-> "check", source |-> s, stamp |-> 0]]
    /\ UNCHANGED <<fails, lastGC>>

Check_countsRefusals(a) ==
    /\ attempt[a].pc = "check"
    /\ attempt' = [attempt EXCEPT ![a] =
                    IF Blocked(@.source, @.stamp) THEN [@ EXCEPT !.pc = "record"]
                    ELSE [@ EXCEPT !.pc = "compare", !.stamp = 0]]
    /\ UNCHANGED <<fails, lastGC>>

\* A source that is locked out is turned away, which is no failure.
Check(a) ==
    /\ attempt[a].pc = "check"
    /\ attempt' = [attempt EXCEPT ![a] =
                    IF Blocked(@.source, @.stamp) THEN Idle
                    ELSE [@ EXCEPT !.pc = "compare", !.stamp = 0]]
    /\ UNCHANGED <<fails, lastGC>>

\* A wrong password reads the clock for the record.
Compare(a) ==
    /\ attempt[a].pc = "compare"
    /\ \E pc \in {"clear", "record"} :
        attempt' = [attempt EXCEPT ![a].pc = pc, ![a].stamp = 0]
    /\ UNCHANGED <<fails, lastGC>>

Record(a) ==
    LET s == attempt[a].source
        stamp == attempt[a].stamp
    IN  /\ attempt[a].pc = "record"
        /\ Fail(s, stamp)
        /\ attempt' = [attempt EXCEPT ![a] = Idle]

Clear(a) ==
    LET s == attempt[a].source
    IN  /\ attempt[a].pc = "clear"
        /\ Succeed(s)
        /\ attempt' = [attempt EXCEPT ![a] = Idle]

-----------------------------------------------------------------------------

Aged(entry) ==
    [count |-> entry.count, locked |-> Older(entry.locked),
     seen |-> Older(entry.seen)]

\* The clock moves on.  No time just read waits for longer than Lag.
Tick ==
    /\ \A a \in Attempts :
        attempt[a].pc \in {"check", "record"} => attempt[a].stamp < Lag
    /\ attempt' = [a \in Attempts |->
                    IF attempt[a].pc \in {"check", "record"}
                    THEN [attempt[a] EXCEPT !.stamp = @ + 1] ELSE attempt[a]]
    /\ fails' = [s \in Sources |-> Aged(fails[s])]
    /\ lastGC' = Older(lastGC)

\* The limiter lives in memory: it starts empty again, with no attempt open.
Restart ==
    /\ attempt' = [a \in Attempts |-> Idle]
    /\ fails' = [s \in Sources |-> NoEntry]
    /\ lastGC' = Oldest

ThrottleNext ==
    \/ \E a \in Attempts :
        \/ \E s \in Sources : Knock(a, s)
        \/ Check(a) \/ Compare(a) \/ Record(a) \/ Clear(a)
    \/ Tick
    \/ Restart

ThrottleSpec == ThrottleInit /\ [][ThrottleNext]_throttleVars

-----------------------------------------------------------------------------
(***************************************************************************)
(* Properties.                                                             *)
(***************************************************************************)

Locked(s) == Blocked(s, 0)

\* No lockout lasts for ever, whoever keeps on knocking: refused attempts do
\* not renew it (web.go:405).
LocksLapse == \A s \in Sources : Locked(s) ~> ~ Locked(s)

\* What remains of an entry once it is too old to be part of a run.
Run(entry) ==
    IF entry.seen > Window + Lag
    THEN [length |-> 0, end |-> Oldest]
    ELSE [length |-> entry.count, end |-> entry.seen]

Promise == INSTANCE Lockout WITH run <- [s \in Sources |-> Run(fails[s])]

\* Sweeping old entries away, and recording late, change nothing about who is
\* locked out when.
ImplementsLockout == Promise!LockoutSpec

\* The doors refuse exactly the sources that are locked out by that promise.
RefusesTheLockedOut ==
    \A s \in Sources : Locked(s) <=> Promise!LockedOut(s)
=============================================================================
