------------------------------- MODULE Telnet -------------------------------
(***************************************************************************)
(* The sessions of the telnet door (internal/telnet/telnet.go): a fixed    *)
(* number of slots, a program for each session, and the four ways a        *)
(* session ends: the visitor quits, the connection closes, it is silent    *)
(* for the idle timeout, or it reaches the hard limit.                     *)
(*                                                                         *)
(* Times are ages.  The idle deadline and the hard limit are timers of the *)
(* runtime: they may fire late, never early.                               *)
(***************************************************************************)
EXTENDS Naturals, FiniteSets

CONSTANTS
    Conns,        \* connections: a name is used again when one has ended
    MaxSessions,
    IdleTimeout,
    SessionLimit  \* an age of SessionLimit stands for every greater one

ASSUME TelnetAssumption ==
    /\ IsFiniteSet(Conns)
    /\ MaxSessions \in Nat \ {0}
    /\ IdleTimeout \in Nat
    /\ SessionLimit \in Nat
    /\ IdleTimeout <= SessionLimit

VARIABLES
    slots,    \* tokens in the channel sem
    handler,  \* what the goroutine of each connection is at
    wire,     \* whether the connection is open
    silence,  \* since the last byte was read
    age       \* since the session began

telnetVars == <<slots, handler, wire, silence, age>>

TelnetTypeOK ==
    /\ slots \in 0..MaxSessions
    /\ handler \in [Conns -> {"none", "running", "killed", "quit", "returned"}]
    /\ wire \in [Conns -> {"closed", "open", "gone"}]
    /\ silence \in [Conns -> 0..SessionLimit]
    /\ age \in [Conns -> 0..SessionLimit]

TelnetInit ==
    /\ slots = 0
    /\ handler = [c \in Conns |-> "none"]
    /\ wire = [c \in Conns |-> "closed"]
    /\ silence = [c \in Conns |-> 0]
    /\ age = [c \in Conns |-> 0]

-----------------------------------------------------------------------------

\* Accept: a slot and a goroutine.  When no slot is free the connection is told
\* so and closed, which changes nothing here.
Connect(c) ==
    /\ handler[c] = "none"
    /\ wire[c] = "closed"
    /\ slots < MaxSessions
    /\ slots' = slots + 1
    /\ handler' = [handler EXCEPT ![c] = "running"]
    /\ wire' = [wire EXCEPT ![c] = "open"]
    /\ silence' = [silence EXCEPT ![c] = 0]
    /\ age' = [age EXCEPT ![c] = 0]

Input_renewsLimit(c) ==
    /\ handler[c] = "running"
    /\ wire[c] = "open"
    /\ silence' = [silence EXCEPT ![c] = 0]
    /\ age' = [age EXCEPT ![c] = 0]
    /\ UNCHANGED <<slots, handler, wire>>

\* A read returns something: the next one has a new deadline.
Input(c) ==
    /\ handler[c] = "running"
    /\ wire[c] = "open"
    /\ silence' = [silence EXCEPT ![c] = 0]
    /\ UNCHANGED <<slots, handler, wire, age>>

\* The key that quits: the program ends by itself.
Quit(c) ==
    /\ handler[c] = "running"
    /\ wire[c] = "open"
    /\ handler' = [handler EXCEPT ![c] = "quit"]
    /\ UNCHANGED <<slots, wire, silence, age>>

HangUp(c) ==
    /\ wire[c] = "open"
    /\ wire' = [wire EXCEPT ![c] = "gone"]
    /\ UNCHANGED <<slots, handler, silence, age>>

\* teardown, which a second call leaves as it is.
Teardown(c) ==
    /\ handler' = [handler EXCEPT ![c] = IF @ = "running" THEN "killed" ELSE @]
    /\ wire' = [wire EXCEPT ![c] = "closed"]
    /\ UNCHANGED <<slots, silence, age>>

\* A read fails: the client has gone, or was silent for the idle timeout.
InputEnds(c) ==
    /\ handler[c] = "running"
    /\ wire[c] = "gone" \/ (wire[c] = "open" /\ silence[c] >= IdleTimeout)
    /\ Teardown(c)

HardLimit(c) ==
    /\ handler[c] = "running"
    /\ age[c] >= SessionLimit
    /\ Teardown(c)

\* p.Run returns, the timer is stopped and the connection closed.
RunReturns(c) ==
    /\ handler[c] \in {"killed", "quit"}
    /\ handler' = [handler EXCEPT ![c] = "returned"]
    /\ wire' = [wire EXCEPT ![c] = "closed"]
    /\ UNCHANGED <<slots, silence, age>>

GiveBack_ifKilled(c) ==
    /\ handler[c] = "returned"
    /\ slots' = IF age[c] < SessionLimit THEN slots - 1 ELSE slots
    /\ handler' = [handler EXCEPT ![c] = "none"]
    /\ silence' = [silence EXCEPT ![c] = 0]
    /\ age' = [age EXCEPT ![c] = 0]
    /\ UNCHANGED wire

\* The deferred receive from sem.
GiveBack(c) ==
    /\ handler[c] = "returned"
    /\ slots' = slots - 1
    /\ handler' = [handler EXCEPT ![c] = "none"]
    /\ silence' = [silence EXCEPT ![c] = 0]
    /\ age' = [age EXCEPT ![c] = 0]
    /\ UNCHANGED wire

Served(c) == handler[c] # "none"

Later(n) == IF n < SessionLimit THEN n + 1 ELSE n

TelnetTick ==
    /\ \E c \in Conns : Served(c)
    /\ silence' = [c \in Conns |-> IF Served(c) THEN Later(silence[c]) ELSE 0]
    /\ age' = [c \in Conns |-> IF Served(c) THEN Later(age[c]) ELSE 0]
    /\ UNCHANGED <<slots, handler, wire>>

TelnetNext ==
    \/ \E c \in Conns :
        \/ Connect(c) \/ Input(c) \/ Quit(c) \/ HangUp(c)
        \/ InputEnds(c) \/ HardLimit(c) \/ RunReturns(c) \/ GiveBack(c)
    \/ TelnetTick

TelnetSpec == TelnetInit /\ [][TelnetNext]_telnetVars

-----------------------------------------------------------------------------
(***************************************************************************)
(* Properties.                                                             *)
(***************************************************************************)

\* A slot is taken for each session whose goroutine has not ended and for no
\* other, however it ends and however many end at once: neither leaked nor
\* given back twice (telnet.go:111).
SlotsAreSessions == slots = Cardinality({c \in Conns : Served(c)})

\* Every session ends and gives its slot back, also one whose client keeps
\* typing for ever (telnet.go:176).
EverySessionEnds == \A c \in Conns : Served(c) ~> ~ Served(c)
=============================================================================
