---------------------------- MODULE DoorsProofs ----------------------------
(***************************************************************************)
(* Theorems about the parts of the server that share nothing with the      *)
(* store and that MCDoors checks side by side: the limiter of failed       *)
(* logins, authorization codes and tokens, the slots of the telnet door,   *)
(* the release check, the marker of a feed, and the filter of the bytes of *)
(* a telnet session.                                                       *)
(***************************************************************************)
EXTENDS Throttle, OAuth, Telnet, Updates, Feeds, TelnetFilter,
        FiniteSetTheorems, SequenceTheorems, WellFoundedInduction, TLAPS

(***************************************************************************)
(* The limiter of failed logins.                                           *)
(***************************************************************************)

(***************************************************************************)
(* Entries.                                                                *)
(***************************************************************************)

\* The lock of an entry is that of its last failure.
Sound(e) ==
    /\ e \in Entry
    /\ e.locked = IF e.count = MaxFails THEN e.seen ELSE Oldest

LEMMA Numbers ==
    /\ Oldest \in Nat /\ Oldest \in Ages
    /\ Window \in Nat /\ Lag \in Nat /\ Lag <= Window
    /\ MaxFails \in Nat /\ MaxFails # 0
    /\ Oldest > 2 * Window + Lag /\ Oldest > Window + Lag
    /\ 0..Lag \subseteq Ages
  BY ThrottleAssumption DEF Ages

LEMMA NoEntrySound == Sound(NoEntry) /\ Run(NoEntry) = Promise!NoRun
  BY Numbers DEF Sound, NoEntry, Entry, Run, Promise!NoRun

\* Counting a failure leaves a sound entry, one failure longer than the run
\* that the old entry stands for.
LEMMA CountedSound ==
    ASSUME NEW e, Sound(e), NEW stamp \in 0..Lag
    PROVE  /\ Sound(Counted(e, stamp))
           /\ Run(Counted(e, stamp)) =
                [length |-> OneMore(IF Run(e).end > Window + stamp THEN 0
                                    ELSE Run(e).length),
                 end |-> stamp]
<1>. DEFINE old == IF Lapsed(e, stamp) THEN NoEntry ELSE e
            c == Counted(e, stamp)
<1>1. /\ stamp \in Nat /\ stamp \in Ages /\ stamp <= Lag
      /\ e.count \in 0..MaxFails /\ e.locked \in Ages /\ e.seen \in Nat
      /\ e.seen <= Oldest
  BY Numbers DEF Sound, Entry, Ages
<1>2. Sound(old)
  BY NoEntrySound
<1>3. /\ old.count \in 0..MaxFails
      /\ old.locked \in Ages
      /\ old.count # MaxFails => old.locked = Oldest
  BY <1>2 DEF Sound, Entry
<1>4. c = [count |-> OneMore(old.count),
           locked |-> IF OneMore(old.count) = MaxFails THEN stamp
                      ELSE old.locked,
           seen |-> stamp]
  BY DEF Counted
<1>5. old.count = IF e.seen > Window + stamp THEN 0 ELSE e.count
  BY DEF Lapsed, NoEntry
<1>. HIDE DEF old, c
<1>6. /\ OneMore(old.count) \in 0..MaxFails
      /\ OneMore(old.count) # MaxFails => old.count # MaxFails
  BY <1>3, Numbers DEF OneMore
<1>7. Sound(c)
  BY <1>1, <1>3, <1>4, <1>6 DEF Sound, Entry
<1>8. Run(c) = [length |-> OneMore(old.count), end |-> stamp]
  BY <1>1, <1>4, Numbers DEF Run
<1>9. old.count = IF Run(e).end > Window + stamp THEN 0 ELSE Run(e).length
  BY <1>1, <1>5, Numbers DEF Run
<1>10. QED
  BY <1>7, <1>8, <1>9 DEF c

\* The sweep throws away only what is not part of a run any more.
LEMMA SweptSound ==
    ASSUME NEW s \in Sources, Sound(fails[s]), NEW stamp \in 0..Lag
    PROVE  /\ Sound(Swept(stamp)[s])
           /\ Run(Swept(stamp)[s]) = Run(fails[s])
<1>1. fails[s].seen \in Nat /\ stamp \in Nat
  BY DEF Sound, Entry, Ages
<1>2. CASE GcDue(stamp) /\ fails[s].seen > 2 * Window + stamp
  <2>1. fails[s].seen > Window + Lag
    BY <1>1, <1>2, Numbers
  <2>2. Run(fails[s]) = Promise!NoRun
    BY <2>1 DEF Run, Promise!NoRun
  <2>3. Swept(stamp)[s] = NoEntry
    BY <1>2 DEF Swept
  <2>4. QED
    BY <2>2, <2>3, NoEntrySound
<1>3. CASE ~ (GcDue(stamp) /\ fails[s].seen > 2 * Window + stamp)
  BY <1>3 DEF Swept
<1>4. QED
  BY <1>2, <1>3

\* When the clock ticks an entry stays sound, and its run grows older or is
\* over.
LEMMA AgedSound ==
    ASSUME NEW e, Sound(e)
    PROVE  /\ Sound(Aged(e))
           /\ Run(Aged(e)) = IF Run(e).end >= Window + Lag THEN Promise!NoRun
                             ELSE [Run(e) EXCEPT !.end = @ + 1]
<1>. DEFINE aged == Aged(e)
<1>1. /\ e.count \in 0..MaxFails /\ e.locked \in Ages /\ e.seen \in Ages
      /\ e.seen \in Nat /\ e.seen <= Oldest
  BY DEF Sound, Entry, Ages
<1>2. aged = [count |-> e.count, locked |-> Older(e.locked),
              seen |-> Older(e.seen)]
  BY DEF Aged
<1>3. /\ Older(e.locked) \in Ages /\ Older(e.seen) \in Ages
      /\ Older(Oldest) = Oldest
  BY <1>1, Numbers DEF Older, Ages
<1>4. Sound(aged)
  BY <1>1, <1>2, <1>3 DEF Sound, Entry
<1>. HIDE DEF aged
<1>5. CASE e.seen >= Window + Lag
  <2>1. aged.seen > Window + Lag
    BY <1>1, <1>2, <1>5, Numbers DEF Older
  <2>2. Run(e).end >= Window + Lag
    BY <1>5, Numbers DEF Run
  <2>3. QED
    BY <1>4, <2>1, <2>2 DEF Run, Promise!NoRun, aged
<1>6. CASE ~ (e.seen >= Window + Lag)
  <2>1. aged.seen = e.seen + 1 /\ ~ (aged.seen > Window + Lag)
    BY <1>1, <1>2, <1>6, Numbers DEF Older
  <2>2. Run(e) = [length |-> e.count, end |-> e.seen]
    BY <1>1, <1>6, Numbers DEF Run
  <2>3. Run(aged) = [length |-> e.count, end |-> e.seen + 1]
    BY <1>2, <2>1 DEF Run
  <2>4. QED
    BY <1>4, <1>6, <2>2, <2>3 DEF aged
<1>7. QED
  BY <1>5, <1>6

-----------------------------------------------------------------------------
(***************************************************************************)
(* The type invariant.                                                     *)
(***************************************************************************)

LEMMA SoundFails ==
    ASSUME ThrottleTypeOK, NEW s \in Sources
    PROVE  Sound(fails[s])
  BY DEF ThrottleTypeOK, LocksAreOfLastFailures, Sound

LEMMA AttemptFields ==
    ASSUME ThrottleTypeOK, NEW a \in Attempts, attempt[a].pc # "idle"
    PROVE  /\ attempt[a] \in Attempt
           /\ attempt[a].source \in Sources
           /\ attempt[a].pc \in {"check", "record"} =>
                attempt[a].stamp \in 0..Lag
<1>1. attempt[a] \in Attempt
  BY DEF ThrottleTypeOK, Idle
<1>2. QED
  BY <1>1, Numbers DEF Attempt, Ages, ThrottleTypeOK

\* What a record of a failure makes of the entries.
LEMMA RecordEntries ==
    ASSUME ThrottleTypeOK, NEW a \in Attempts, Record(a)
    PROVE  LET s == attempt[a].source
               stamp == attempt[a].stamp
           IN  /\ s \in Sources
               /\ stamp \in 0..Lag
               /\ fails' = [r \in Sources |->
                              IF r = s THEN Counted(Swept(stamp)[s], stamp)
                              ELSE Swept(stamp)[r]]
<1>1. attempt[a].pc = "record" /\ attempt[a].pc # "idle"
  BY DEF Record
<1>2. attempt[a].source \in Sources /\ attempt[a].stamp \in 0..Lag
  BY <1>1, AttemptFields
<1>3. QED
  BY <1>2 DEF Record, Fail, Swept

\* The three parts of the invariant other than the histories, and the histories,
\* are kept by each step.
LEMMA StepKeepsEntries ==
    ASSUME ThrottleTypeOK, ThrottleNext
    PROVE  /\ fails' \in [Sources -> Entry]
           /\ LocksAreOfLastFailures'
<1>. SUFFICES /\ DOMAIN fails' = Sources
              /\ fails' = [s \in Sources |-> fails'[s]]
              /\ \A s \in Sources : Sound(fails'[s])
  BY DEF Sound, LocksAreOfLastFailures
<1>0. fails = [s \in Sources |-> fails[s]] /\ DOMAIN fails = Sources
  BY DEF ThrottleTypeOK
<1>1. ASSUME NEW a \in Attempts, NEW s \in Sources, Knock(a, s)
      PROVE  UNCHANGED fails
  BY <1>1 DEF Knock
<1>2. ASSUME NEW a \in Attempts, Check(a) \/ Compare(a)
      PROVE  UNCHANGED fails
  BY <1>2 DEF Check, Compare
<1>3. CASE UNCHANGED fails
  BY <1>0, <1>3, SoundFails
<1>4. ASSUME NEW a \in Attempts, Record(a)
      PROVE  /\ DOMAIN fails' = Sources
             /\ fails' = [s \in Sources |-> fails'[s]]
             /\ \A s \in Sources : Sound(fails'[s])
  <2>. DEFINE stamp == attempt[a].stamp
  <2>1. /\ attempt[a].source \in Sources
        /\ stamp \in 0..Lag
        /\ fails' = [r \in Sources |->
                       IF r = attempt[a].source
                       THEN Counted(Swept(stamp)[attempt[a].source], stamp)
                       ELSE Swept(stamp)[r]]
    BY <1>4, RecordEntries
  <2>2. \A r \in Sources :
          Sound(Swept(stamp)[r]) /\ Sound(Counted(Swept(stamp)[r], stamp))
    BY <2>1, SoundFails, SweptSound, CountedSound
  <2>. HIDE DEF stamp
  <2>3. QED
    BY <2>1, <2>2
<1>5. ASSUME NEW a \in Attempts, Clear(a)
      PROVE  /\ DOMAIN fails' = Sources
             /\ fails' = [s \in Sources |-> fails'[s]]
             /\ \A s \in Sources : Sound(fails'[s])
  BY <1>0, <1>5, SoundFails, NoEntrySound DEF Clear, Succeed
<1>6. CASE Tick
  <2>1. fails' = [s \in Sources |-> Aged(fails[s])]
    BY <1>6 DEF Tick
  <2>2. \A s \in Sources : Sound(Aged(fails[s]))
    BY SoundFails, AgedSound
  <2>3. QED
    BY <2>1, <2>2
<1>7. CASE Restart
  BY <1>7, NoEntrySound DEF Restart
<1>8. QED
  BY <1>1, <1>2, <1>3, <1>4, <1>5, <1>6, <1>7 DEF ThrottleNext

LEMMA StepKeepsAttempts ==
    ASSUME ThrottleTypeOK, ThrottleNext
    PROVE  /\ attempt' \in [Attempts -> Attempt \cup {Idle}]
           /\ \A a \in Attempts :
                attempt'[a].pc \in {"check", "record"} => attempt'[a].stamp <= Lag
<1>. USE DEF ThrottleTypeOK
<1>0. 0 \in Ages /\ 0 <= Lag /\ Idle.pc = "idle"
  BY Numbers DEF Idle
<1>1. ASSUME NEW a \in Attempts, NEW x \in Attempt \cup {Idle},
             x.pc \in {"check", "record"} => x.stamp <= Lag,
             attempt' = [attempt EXCEPT ![a] = x]
      PROVE  /\ attempt' \in [Attempts -> Attempt \cup {Idle}]
             /\ \A b \in Attempts :
                 attempt'[b].pc \in {"check", "record"} => attempt'[b].stamp <= Lag
  BY <1>1
<1>2. ASSUME NEW a \in Attempts, NEW s \in Sources, Knock(a, s)
      PROVE  \E x \in Attempt \cup {Idle} :
                /\ x.pc \in {"check", "record"} => x.stamp <= Lag
                /\ attempt' = [attempt EXCEPT ![a] = x]
  <2>. DEFINE x == [pc |-> "check", source |-> s, stamp |-> 0]
  <2>1. x \in Attempt /\ x.stamp <= Lag
    BY <1>0 DEF Attempt
  <2>2. attempt' = [attempt EXCEPT ![a] = x]
    BY <1>2 DEF Knock
  <2>. HIDE DEF x
  <2>3. QED
    BY <2>1, <2>2
<1>3. ASSUME NEW a \in Attempts, Check(a)
      PROVE  \E x \in Attempt \cup {Idle} :
                /\ x.pc \in {"check", "record"} => x.stamp <= Lag
                /\ attempt' = [attempt EXCEPT ![a] = x]
  <2>. DEFINE x == IF Blocked(attempt[a].source, attempt[a].stamp) THEN Idle
                   ELSE [attempt[a] EXCEPT !.pc = "compare", !.stamp = 0]
  <2>1. attempt[a] \in Attempt
    BY <1>3, AttemptFields DEF Check
  <2>2. x \in Attempt \cup {Idle} /\ x.pc \notin {"check", "record"}
    BY <1>0, <2>1 DEF Attempt
  <2>3. attempt' = [attempt EXCEPT ![a] = x]
    BY <1>3 DEF Check
  <2>. HIDE DEF x
  <2>4. QED
    BY <2>2, <2>3
<1>4. ASSUME NEW a \in Attempts, Compare(a)
      PROVE  \E x \in Attempt \cup {Idle} :
                /\ x.pc \in {"check", "record"} => x.stamp <= Lag
                /\ attempt' = [attempt EXCEPT ![a] = x]
  <2>1. attempt[a] \in Attempt
    BY <1>4, AttemptFields DEF Compare
  <2>2. PICK pc \in {"clear", "record"} :
          attempt' = [attempt EXCEPT ![a].pc = pc, ![a].stamp = 0]
    BY <1>4 DEF Compare
  <2>. DEFINE x == [attempt[a] EXCEPT !.pc = pc, !.stamp = 0]
  <2>3. x \in Attempt /\ x.stamp <= Lag
    BY <1>0, <2>1 DEF Attempt
  <2>4. attempt' = [attempt EXCEPT ![a] = x]
    BY <2>1, <2>2
  <2>. HIDE DEF x
  <2>5. QED
    BY <2>3, <2>4
<1>5. ASSUME NEW a \in Attempts, Record(a) \/ Clear(a)
      PROVE  attempt' = [attempt EXCEPT ![a] = Idle]
  BY <1>5 DEF Record, Clear
<1>6. CASE Tick
  <2>1. ASSUME NEW a \in Attempts
        PROVE  /\ attempt'[a] \in Attempt \cup {Idle}
               /\ attempt'[a].pc \in {"check", "record"} =>
                    attempt'[a].stamp <= Lag
    <3>1. CASE attempt[a].pc \in {"check", "record"}
      <4>1. attempt[a] \in Attempt /\ attempt[a].stamp \in 0..Lag
        BY <3>1, AttemptFields
      <4>2. attempt[a].stamp < Lag
        BY <1>6, <3>1 DEF Tick
      <4>3. /\ attempt[a].stamp + 1 \in 0..Lag
            /\ attempt[a].stamp + 1 \in Ages
        BY <4>1, <4>2, Numbers
      <4>4. attempt'[a] = [attempt[a] EXCEPT !.stamp = @ + 1]
        BY <1>6, <3>1 DEF Tick
      <4>5. QED
        BY <4>1, <4>3, <4>4 DEF Attempt
    <3>2. CASE attempt[a].pc \notin {"check", "record"}
      BY <1>6, <3>2 DEF Tick
    <3>3. QED
      BY <3>1, <3>2
  <2>2. attempt' = [a \in Attempts |-> attempt'[a]]
    BY <1>6 DEF Tick
  <2>3. QED
    BY <2>1, <2>2
<1>7. CASE Restart
  BY <1>0, <1>7 DEF Restart
<1>8. QED
  BY <1>0, <1>1, <1>2, <1>3, <1>4, <1>5, <1>6, <1>7 DEF ThrottleNext

\* The age of the last sweep keeps its type.
LEMMA StepKeepsSweep ==
    ASSUME ThrottleTypeOK, ThrottleNext
    PROVE  lastGC' \in Ages
<1>. USE DEF ThrottleTypeOK
<1>0. \A n \in Ages : Older(n) \in Ages
  BY Numbers DEF Older, Ages
<1>1. ASSUME NEW a \in Attempts, Record(a)
      PROVE  lastGC' \in Ages
  <2>1. attempt[a].stamp \in Ages
    BY <1>1, RecordEntries, Numbers
  <2>2. QED
    BY <1>1, <2>1 DEF Record, Fail
<1>2. ASSUME NEW a \in Attempts, Clear(a)
      PROVE  lastGC' \in Ages
  BY <1>2 DEF Clear, Succeed
<1>3. CASE Tick
  BY <1>0, <1>3 DEF Tick
<1>4. CASE Restart
  BY <1>4, Numbers DEF Restart
<1>5. ASSUME NEW a \in Attempts, NEW s \in Sources,
             Knock(a, s) \/ Check(a) \/ Compare(a)
      PROVE  UNCHANGED lastGC
  BY <1>5 DEF Knock, Check, Compare
<1>6. ASSUME NEW a \in Attempts, Check(a) \/ Compare(a)
      PROVE  UNCHANGED lastGC
  BY <1>6 DEF Check, Compare
<1>7. QED
  BY <1>1, <1>2, <1>3, <1>4, <1>5, <1>6 DEF ThrottleNext

\* The limiter keeps its types; a lock is always that of the last failure, and
\* no attempt holds on to a time for longer than Lag.
THEOREM ThrottleTypeCorrect == ThrottleSpec => []ThrottleTypeOK
<1>1. ThrottleInit => ThrottleTypeOK
  <2>1. ASSUME ThrottleInit PROVE ThrottleTypeOK
    <3>1. NoEntry \in Entry /\ NoEntry.locked = Oldest /\ NoEntry.count # MaxFails
      BY Numbers DEF NoEntry, Entry
    <3>2. Idle.pc \notin {"check", "record"} /\ Oldest \in Ages
      BY Numbers DEF Idle
    <3>3. QED
      BY <2>1, <3>1, <3>2
         DEF ThrottleInit, ThrottleTypeOK, LocksAreOfLastFailures
  <2>2. QED
    BY <2>1
<1>2. ThrottleTypeOK /\ [ThrottleNext]_throttleVars => ThrottleTypeOK'
  <2>1. ASSUME ThrottleTypeOK, ThrottleNext PROVE ThrottleTypeOK'
    BY <2>1, StepKeepsAttempts, StepKeepsEntries, StepKeepsSweep
       DEF ThrottleTypeOK
  <2>2. ASSUME ThrottleTypeOK, UNCHANGED throttleVars PROVE ThrottleTypeOK'
    BY <2>2 DEF ThrottleTypeOK, throttleVars, LocksAreOfLastFailures
  <2>3. QED
    BY <2>1, <2>2
<1>3. QED
  BY <1>1, <1>2, PTL DEF ThrottleSpec

-----------------------------------------------------------------------------
(***************************************************************************)
(* The promise.                                                            *)
(***************************************************************************)

\* Every step of the limiter is one that the promise allows, or changes no run.
LEMMA StepKeepsPromise ==
    ASSUME ThrottleTypeOK, ThrottleNext
    PROVE  \/ Promise!LockoutNext
           \/ \A s \in Sources : Run(fails'[s]) = Run(fails[s])
<1>1. ASSUME NEW a \in Attempts,
             \/ \E s \in Sources : Knock(a, s)
             \/ Check(a) \/ Compare(a)
      PROVE  \A s \in Sources : Run(fails'[s]) = Run(fails[s])
  BY <1>1 DEF Knock, Check, Compare
<1>2. ASSUME NEW a \in Attempts, Record(a)
      PROVE  Promise!LockoutNext
  <2>. DEFINE s == attempt[a].source
              stamp == attempt[a].stamp
              e == Swept(stamp)[s]
  <2>1. /\ s \in Sources
        /\ stamp \in 0..Lag
        /\ fails' = [r \in Sources |-> IF r = s THEN Counted(e, stamp)
                                       ELSE Swept(stamp)[r]]
    BY <1>2, RecordEntries
  <2>2. \A r \in Sources : /\ Sound(Swept(stamp)[r])
                           /\ Run(Swept(stamp)[r]) = Run(fails[r])
    BY <2>1, SoundFails, SweptSound
  <2>3. Run(Counted(e, stamp)) =
          [length |-> OneMore(IF Run(e).end > Window + stamp THEN 0
                              ELSE Run(e).length),
           end |-> stamp]
    BY <2>1, <2>2, CountedSound
  <2>4. /\ \A r \in Sources \ {s} : Run(fails'[r]) = Run(fails[r])
        /\ Run(fails'[s]) =
             [length |-> OneMore(IF Run(fails[s]).end > Window + stamp THEN 0
                                 ELSE Run(fails[s]).length),
              end |-> stamp]
    <3>. HIDE DEF s, stamp
    <3>1. QED
      BY <2>1, <2>2, <2>3
  <2>. HIDE DEF s, stamp, e
  <2>5. Promise!Failure(s, stamp)
    BY <2>1, <2>4 DEF Promise!Failure, Promise!Longer, OneMore
  <2>6. QED
    BY <2>1, <2>5 DEF Promise!LockoutNext
<1>3. ASSUME NEW a \in Attempts, Clear(a)
      PROVE  Promise!LockoutNext
  <2>1. attempt[a].source \in Sources
    BY <1>3, AttemptFields DEF Clear
  <2>2. fails' = [fails EXCEPT ![attempt[a].source] = NoEntry]
    BY <1>3 DEF Clear, Succeed
  <2>3. Promise!Success(attempt[a].source)
    BY <2>1, <2>2, NoEntrySound DEF Promise!Success, ThrottleTypeOK
  <2>4. QED
    BY <2>1, <2>3 DEF Promise!LockoutNext
<1>4. CASE Tick
  <2>1. ASSUME NEW s \in Sources
        PROVE  Run(fails'[s]) =
                 IF Run(fails[s]).end >= Window + Lag THEN Promise!NoRun
                 ELSE [Run(fails[s]) EXCEPT !.end = @ + 1]
    BY <1>4, SoundFails, AgedSound DEF Tick
  <2>2. Promise!TimePasses
    BY <2>1 DEF Promise!TimePasses
  <2>3. QED
    BY <2>2 DEF Promise!LockoutNext
<1>5. CASE Restart
  <2>1. Promise!Forget
    BY <1>5, NoEntrySound DEF Restart, Promise!Forget
  <2>2. QED
    BY <2>1 DEF Promise!LockoutNext
<1>6. QED
  BY <1>1, <1>2, <1>3, <1>4, <1>5 DEF ThrottleNext

\* The limiter implements the lockout it promises: sweeping entries away and
\* recording failures late and out of order change nothing in it.
THEOREM ThrottleImplementsLockout == ThrottleSpec => ImplementsLockout
<1>1. ThrottleInit => Promise!LockoutInit
  BY NoEntrySound DEF ThrottleInit, Promise!LockoutInit
<1>2. ThrottleTypeOK /\ [ThrottleNext]_throttleVars
        => [Promise!LockoutNext]_[s \in Sources |-> Run(fails[s])]
  <2>1. ASSUME ThrottleTypeOK, ThrottleNext
        PROVE  [Promise!LockoutNext]_[s \in Sources |-> Run(fails[s])]
    BY <2>1, StepKeepsPromise
  <2>2. ASSUME UNCHANGED throttleVars
        PROVE  UNCHANGED [s \in Sources |-> Run(fails[s])]
    BY <2>2 DEF throttleVars
  <2>3. QED
    BY <2>1, <2>2
<1>3. QED
  BY <1>1, <1>2, ThrottleTypeCorrect, PTL
     DEF ThrottleSpec, ImplementsLockout, Promise!LockoutSpec

\* The doors refuse exactly the sources that are locked out by the promise.
THEOREM RefusalIsExact == ThrottleSpec => []RefusesTheLockedOut
<1>1. ThrottleTypeOK => RefusesTheLockedOut
  <2>1. ASSUME ThrottleTypeOK, NEW s \in Sources
        PROVE  Locked(s) <=> Promise!LockedOut(s)
    <3>1. /\ fails[s].count \in 0..MaxFails
          /\ fails[s].seen \in Nat
          /\ fails[s].locked = IF fails[s].count = MaxFails THEN fails[s].seen
                               ELSE Oldest
      BY <2>1, SoundFails DEF Sound, Entry, Ages
    <3>2. Locked(s) <=> fails[s].count = MaxFails /\ fails[s].seen < Window
      BY <3>1, Numbers DEF Locked, Blocked
    <3>3. Promise!LockedOut(s) <=> /\ Run(fails[s]).length = MaxFails
                                   /\ Run(fails[s]).end < Window
      BY DEF Promise!LockedOut
    <3>4. QED
      BY <3>1, <3>2, <3>3, Numbers DEF Run
  <2>2. QED
    BY <2>1 DEF RefusesTheLockedOut
<1>2. QED
  BY <1>1, ThrottleTypeCorrect, PTL

-----------------------------------------------------------------------------
(***************************************************************************)
(* What a code buys and how long a token lives, for any number of clients, *)
(* codes and exchanges under way, and for any restarts.                    *)
(*                                                                         *)
(* The table of codes is where a code is bought only once: an exchange     *)
(* holds a code that is spent, has bought nothing, and that no other       *)
(* exchange holds, and remembers of it what was asked for.                 *)
(***************************************************************************)

\* What is in the table is what was asked for, and nobody has had it.
CodesAreAsked ==
    \A k \in Codes : codes[k] # NoCode =>
        /\ asked[k] # NoCode
        /\ k \notin spent
        /\ codes[k].challenge = asked[k].client
        /\ codes[k].expires = asked[k].at + CodeTTL

SpentWereAsked == \A k \in spent : asked[k] # NoCode

\* An exchange that can still buy.
ExchangesAreAsked ==
    \A e \in Exchanges : exchange[e] # NoExchange =>
        /\ exchange[e].code \in spent
        /\ sold[exchange[e].code] = <<>>
        /\ exchange[e].ac.challenge = asked[exchange[e].code].client
        /\ exchange[e].at <= asked[exchange[e].code].at + CodeTTL

OneExchangeOfACode ==
    \A e, f \in Exchanges :
        /\ exchange[e] # NoExchange
        /\ exchange[f] # NoExchange
        /\ exchange[e].code = exchange[f].code
        => e = f

SoldIsSpent == \A k \in Codes : sold[k] # <<>> => k \in spent

\* The secret in use is the saved one, and it has signed every token, but for
\* what is in doubt.
OneSecret ==
    /\ secret \in doubtful \cup {saved}
    /\ secret # 0
    /\ \A t \in tokens : t.secret \in doubtful \cup {secret}

OAuthInv ==
    /\ OAuthTypeOK
    /\ CodesAreAsked
    /\ SpentWereAsked
    /\ ExchangesAreAsked
    /\ OneExchangeOfACode
    /\ SoldIsSpent
    /\ CodeBuysOnceInTime
    /\ UsableCodesAreKept
    /\ OneSecret

-----------------------------------------------------------------------------

\* What asking, buying and the table say stays true of a step that leaves them
\* alone.
LEMMA SameCodes ==
    ASSUME OAuthInv, UNCHANGED <<asked, codes, exchange, sold, spent>>,
           clock' \in Nat, clock <= clock'
    PROVE  /\ CodesAreAsked' /\ SpentWereAsked' /\ ExchangesAreAsked'
           /\ OneExchangeOfACode' /\ SoldIsSpent' /\ CodeBuysOnceInTime'
           /\ UsableCodesAreKept'
<1>. USE DEF OAuthInv, secretVars
<1>1. CodesAreAsked' /\ SpentWereAsked' /\ ExchangesAreAsked'
  BY DEF CodesAreAsked, SpentWereAsked, ExchangesAreAsked
<1>2. OneExchangeOfACode' /\ SoldIsSpent' /\ CodeBuysOnceInTime'
  BY DEF OneExchangeOfACode, SoldIsSpent, CodeBuysOnceInTime
<1>3. UsableCodesAreKept'
  <2>1. SUFFICES ASSUME NEW k \in Codes, asked[k] # NoCode, asked[k].put,
                        k \notin spent, clock' <= asked[k].at + CodeTTL
                 PROVE  codes[k] # NoCode
    BY DEF UsableCodesAreKept
  <2>2. asked[k].at + CodeTTL \in Nat
    BY <2>1, OAuthAssumption DEF OAuthTypeOK, Asked
  <2>3. clock <= asked[k].at + CodeTTL
    BY <2>1, <2>2 DEF OAuthTypeOK
  <2>4. QED
    BY <2>1, <2>3 DEF UsableCodesAreKept
<1>4. QED
  BY <1>1, <1>2, <1>3

\* What is issued is signed with the secret of the server.
LEMMA IssuedIsSigned ==
    ASSUME OAuthInv, UNCHANGED secretVars,
           tokens' \in {tokens, Issued, tokens \cup {Signed(clock + AccessTTL)}}
    PROVE  tokens' \subseteq Token /\ OneSecret'
<1>1. /\ UNCHANGED <<saved, secret, doubtful>>
      /\ \A t \in tokens' : t \in tokens \/ t.secret = secret
  BY DEF secretVars, Issued, Signed
<1>2. tokens' \subseteq Token
  BY OAuthAssumption DEF OAuthInv, OAuthTypeOK, Issued, Signed, Token
<1>3. QED
  BY <1>1, <1>2 DEF OAuthInv, OneSecret

LEMMA ApproveStep ==
    ASSUME OAuthInv, NEW k \in Codes, NEW c \in Clients, NEW r \in Redirects,
           Approve(k, c, r)
    PROVE  OAuthInv'
<1>. DEFINE a == [client |-> c, redirect |-> r, at |-> clock, put |-> FALSE]
<1>. USE DEF OAuthInv, secretVars
<1>1. /\ asked[k] = NoCode
      /\ asked' = [asked EXCEPT ![k] = a]
      /\ UNCHANGED <<codes, exchange, sold, spent, tokens, secretVars, clock>>
  BY DEF Approve
<1>2. a \in Asked /\ a # NoCode
  <2>1. a \in Asked
    BY DEF Asked, OAuthTypeOK
  <2>2. QED
    BY <2>1, SentinelsAssumption
<1>3. k \notin spent /\ codes[k] = NoCode
  BY <1>1 DEF SpentWereAsked, CodesAreAsked
<1>4. asked'[k] = a /\ \A j \in Codes : j # k => asked'[j] = asked[j]
  BY <1>1 DEF OAuthTypeOK
<1>5. OAuthTypeOK'
  BY <1>1, <1>2 DEF OAuthTypeOK
<1>6. CodesAreAsked' /\ SpentWereAsked'
  BY <1>1, <1>2, <1>3, <1>4 DEF CodesAreAsked, SpentWereAsked
<1>7. \A e \in Exchanges : exchange[e] # NoExchange =>
          exchange[e].code \in Codes /\ exchange[e].code # k
  BY <1>3 DEF ExchangesAreAsked, OAuthTypeOK
<1>8. ExchangesAreAsked' /\ OneExchangeOfACode' /\ SoldIsSpent'
  BY <1>1, <1>4, <1>7
     DEF ExchangesAreAsked, OneExchangeOfACode, SoldIsSpent
<1>9. sold[k] = <<>>
  BY <1>3 DEF SoldIsSpent
<1>10. CodeBuysOnceInTime'
  BY <1>1, <1>4, <1>9 DEF CodeBuysOnceInTime
<1>11. UsableCodesAreKept'
  BY <1>1, <1>4 DEF UsableCodesAreKept
<1>12. OneSecret'
  BY <1>1 DEF OneSecret
<1>13. QED
  BY <1>5, <1>6, <1>8, <1>10, <1>11, <1>12

LEMMA PutStep ==
    ASSUME OAuthInv, NEW k \in Codes, Put(k)
    PROVE  OAuthInv'
<1>. DEFINE ac == [challenge |-> asked[k].client, redirect |-> asked[k].redirect,
                   expires |-> asked[k].at + CodeTTL]
            now == [asked[k] EXCEPT !.put = TRUE]
<1>. USE DEF OAuthInv, secretVars
<1>1. /\ asked[k] # NoCode /\ k \notin spent
      /\ codes' = [SweptCodes EXCEPT ![k] = ac]
      /\ asked' = [asked EXCEPT ![k] = now]
      /\ UNCHANGED <<exchange, sold, spent, tokens, secretVars, clock>>
  BY DEF Put
<1>2. asked[k] \in Asked
  BY <1>1 DEF OAuthTypeOK
<1>3. /\ now \in Asked /\ now # NoCode
      /\ now.client = asked[k].client /\ now.at = asked[k].at
  BY <1>2, SentinelsAssumption DEF Asked
<1>4. ac \in AuthCode /\ ac # NoCode
  BY <1>2, OAuthAssumption, SentinelsAssumption DEF Asked, AuthCode
<1>5. SweptCodes \in [Codes -> AuthCode \cup {NoCode}]
  BY DEF SweptCodes, OAuthTypeOK
<1>6. /\ codes'[k] = ac
      /\ \A j \in Codes \ {k} : codes'[j] = SweptCodes[j]
      /\ \A j \in Codes \ {k} : asked'[j] = asked[j]
      /\ asked'[k] = now
  BY <1>1, <1>5 DEF OAuthTypeOK
<1>7. OAuthTypeOK'
  BY <1>1, <1>3, <1>4, <1>5 DEF OAuthTypeOK
<1>8. CodesAreAsked'
  <2>1. \A j \in Codes : SweptCodes[j] # NoCode => SweptCodes[j] = codes[j]
    BY DEF SweptCodes
  <2>2. QED
    BY <1>1, <1>3, <1>6, <2>1 DEF CodesAreAsked
<1>9. SpentWereAsked'
  BY <1>1, <1>3, <1>6 DEF SpentWereAsked, OAuthTypeOK
<1>10. \A e \in Exchanges : exchange[e] # NoExchange =>
          exchange[e].code \in Codes /\ exchange[e].code # k
  BY <1>1 DEF ExchangesAreAsked, OAuthTypeOK
<1>11. ExchangesAreAsked' /\ OneExchangeOfACode' /\ SoldIsSpent'
  BY <1>1, <1>6, <1>10
     DEF ExchangesAreAsked, OneExchangeOfACode, SoldIsSpent
<1>12. CodeBuysOnceInTime'
  BY <1>1, <1>3, <1>6 DEF CodeBuysOnceInTime
<1>13. UsableCodesAreKept'
  <2>1. SUFFICES ASSUME NEW j \in Codes, asked'[j] # NoCode, asked'[j].put,
                        j \notin spent, clock <= asked'[j].at + CodeTTL
                 PROVE  codes'[j] # NoCode
    BY <1>1 DEF UsableCodesAreKept
  <2>2. CASE j = k
    BY <2>2, <1>4, <1>6
  <2>3. CASE j # k
    <3>1. asked[j] # NoCode /\ asked[j].put /\ clock <= asked[j].at + CodeTTL
      BY <2>1, <2>3, <1>6
    <3>2. codes[j] # NoCode /\ codes[j].expires = asked[j].at + CodeTTL
      BY <2>1, <3>1 DEF UsableCodesAreKept, CodesAreAsked
    <3>3. clock \in Nat /\ asked[j].at + CodeTTL \in Nat
      BY <3>1, OAuthAssumption DEF OAuthTypeOK, Asked
    <3>4. SweptCodes[j] = codes[j]
      BY <3>1, <3>2, <3>3 DEF SweptCodes
    <3>5. QED
      BY <2>3, <3>2, <3>4, <1>6
  <2>4. QED
    BY <2>2, <2>3
<1>14. OneSecret'
  BY <1>1 DEF OneSecret
<1>15. QED
  BY <1>7, <1>8, <1>9, <1>11, <1>12, <1>13, <1>14

LEMMA TakeStep ==
    ASSUME OAuthInv, NEW e \in Exchanges, NEW k \in Codes, NEW v \in Clients,
           NEW r \in Redirects \cup {<<>>}, Take(e, k, v, r)
    PROVE  OAuthInv'
<1>. DEFINE x == [code |-> k, ac |-> codes[k], verifier |-> v,
                  redirect |-> r, at |-> clock]
            sells == codes[k] # NoCode /\ clock <= codes[k].expires
<1>. USE DEF OAuthInv, secretVars
<1>1. /\ exchange[e] = NoExchange /\ asked[k] # NoCode
      /\ codes' = [codes EXCEPT ![k] = NoCode]
      /\ spent' = spent \cup {k}
      /\ exchange' = IF sells THEN [exchange EXCEPT ![e] = x] ELSE exchange
      /\ UNCHANGED <<asked, sold, tokens, secretVars, clock>>
  BY DEF Take
<1>2. sells => x \in Taken /\ x # NoExchange
  BY SentinelsAssumption DEF OAuthTypeOK, Taken
<1>3. OAuthTypeOK'
  BY <1>1, <1>2 DEF OAuthTypeOK
<1>4. CodesAreAsked' /\ SpentWereAsked' /\ SoldIsSpent'
  BY <1>1 DEF CodesAreAsked, SpentWereAsked, SoldIsSpent, OAuthTypeOK
<1>5. sells => sold[k] = <<>> /\ k \notin spent
  BY DEF SoldIsSpent, CodesAreAsked
<1>6. \A f \in Exchanges :
          \/ exchange'[f] = exchange[f]
          \/ f = e /\ exchange'[f] = x /\ sells
  BY <1>1 DEF OAuthTypeOK
<1>7. ExchangesAreAsked'
  <2>1. SUFFICES ASSUME NEW f \in Exchanges, exchange'[f] # NoExchange
                 PROVE  /\ exchange'[f].code \in spent'
                        /\ sold[exchange'[f].code] = <<>>
                        /\ exchange'[f].ac.challenge
                              = asked[exchange'[f].code].client
                        /\ exchange'[f].at
                              <= asked[exchange'[f].code].at + CodeTTL
    BY <1>1 DEF ExchangesAreAsked
  <2>2. CASE exchange'[f] = exchange[f]
    BY <2>1, <2>2, <1>1 DEF ExchangesAreAsked
  <2>3. CASE exchange'[f] = x /\ sells
    BY <2>3, <1>1, <1>5 DEF CodesAreAsked
  <2>4. QED
    BY <2>2, <2>3, <1>6
<1>8. OneExchangeOfACode'
  <2>1. SUFFICES ASSUME NEW f \in Exchanges, NEW g \in Exchanges,
                        exchange'[f] # NoExchange, exchange'[g] # NoExchange,
                        exchange'[f].code = exchange'[g].code
                 PROVE  f = g
    BY DEF OneExchangeOfACode
  <2>2. \A h \in Exchanges : sells /\ exchange[h] # NoExchange
                                => exchange[h].code # k
    BY <1>5 DEF ExchangesAreAsked
  <2>3. CASE exchange'[f] = exchange[f] /\ exchange'[g] = exchange[g]
    BY <2>1, <2>3 DEF OneExchangeOfACode
  <2>4. CASE f = e /\ exchange'[f] = x /\ sells
    BY <2>1, <2>2, <2>4, <1>6
  <2>5. CASE g = e /\ exchange'[g] = x /\ sells
    BY <2>1, <2>2, <2>5, <1>6
  <2>6. QED
    BY <2>3, <2>4, <2>5, <1>6
<1>9. CodeBuysOnceInTime'
  BY <1>1 DEF CodeBuysOnceInTime
<1>10. UsableCodesAreKept'
  BY <1>1 DEF UsableCodesAreKept, OAuthTypeOK
<1>11. OneSecret'
  BY <1>1 DEF OneSecret
<1>12. QED
  BY <1>3, <1>4, <1>7, <1>8, <1>9, <1>10, <1>11

LEMMA ExchangeStep ==
    ASSUME OAuthInv, NEW e \in Exchanges, Exchange(e)
    PROVE  OAuthInv'
<1>. DEFINE x == exchange[e]
            k == x.code
            bill == [verifier |-> x.verifier, at |-> x.at]
            pays == /\ x.redirect \in {<<>>, x.ac.redirect}
                    /\ x.verifier = x.ac.challenge
<1>. USE DEF OAuthInv, secretVars
<1>1. /\ x # NoExchange
      /\ exchange' = [exchange EXCEPT ![e] = NoExchange]
      /\ IF pays
         THEN /\ tokens' = Issued
              /\ sold' = [sold EXCEPT ![k] = Append(sold[k], bill)]
         ELSE UNCHANGED <<tokens, sold>>
      /\ UNCHANGED <<asked, codes, spent, secretVars, clock>>
  BY DEF Exchange
<1>2. x \in Taken /\ k \in Codes /\ k \in spent /\ sold[k] = <<>>
  <2>1. x \in Taken
    BY <1>1 DEF OAuthTypeOK
  <2>2. QED
    BY <1>1, <2>1 DEF Taken, ExchangesAreAsked
<1>3. bill \in [verifier : Clients, at : Nat]
  BY <1>2 DEF Taken
<1>4. Append(sold[k], bill) = <<bill>>
  BY <1>2, <1>3
<1>5. /\ \A j \in Codes : j # k => sold'[j] = sold[j]
      /\ pays => sold'[k] = <<bill>>
      /\ ~ pays => sold'[k] = sold[k]
  BY <1>1, <1>2, <1>4 DEF OAuthTypeOK
<1>6. sold' \in [Codes -> Seq([verifier : Clients, at : Nat])]
  <2>. DEFINE Bills == Seq([verifier : Clients, at : Nat])
  <2>1. Append(sold[k], bill) \in Bills
    BY <1>2, <1>3 DEF OAuthTypeOK
  <2>2. sold \in [Codes -> Bills]
    BY DEF OAuthTypeOK
  <2>3. sold' = sold \/ sold' = [sold EXCEPT ![k] = Append(sold[k], bill)]
    BY <1>1
  <2>4. sold' \in [Codes -> Bills]
    <3>. HIDE DEF Bills, bill, k
    <3>1. QED
      BY <2>1, <2>2, <2>3
  <2>5. QED
    BY <2>4
<1>7. tokens' \subseteq Token /\ OneSecret'
  BY <1>1, IssuedIsSigned
<1>8. OAuthTypeOK'
  BY <1>1, <1>6, <1>7 DEF OAuthTypeOK
<1>9. \A f \in Exchanges : exchange'[f] # NoExchange =>
          exchange'[f] = exchange[f] /\ f # e
  BY <1>1 DEF OAuthTypeOK
<1>10. \A f \in Exchanges : exchange'[f] # NoExchange =>
          exchange[f].code \in Codes /\ exchange[f].code # k
  BY <1>1, <1>9 DEF OneExchangeOfACode, OAuthTypeOK, Taken
<1>11. ExchangesAreAsked'
  BY <1>1, <1>5, <1>9, <1>10 DEF ExchangesAreAsked
<1>12. OneExchangeOfACode'
  BY <1>9 DEF OneExchangeOfACode
<1>13. CodesAreAsked' /\ SpentWereAsked' /\ UsableCodesAreKept'
  BY <1>1 DEF CodesAreAsked, SpentWereAsked, UsableCodesAreKept
<1>14. SoldIsSpent'
  BY <1>1, <1>2, <1>5 DEF SoldIsSpent
<1>15. CodeBuysOnceInTime'
  <2>1. SUFFICES ASSUME NEW j \in Codes
                 PROVE  /\ Len(sold'[j]) <= 1
                        /\ \A i \in DOMAIN sold'[j] :
                              /\ sold'[j][i].verifier = asked[j].client
                              /\ sold'[j][i].at <= asked[j].at + CodeTTL
    BY <1>1 DEF CodeBuysOnceInTime
  <2>2. CASE sold'[j] = sold[j]
    BY <2>2 DEF CodeBuysOnceInTime
  <2>3. CASE j = k /\ pays
    <3>1. sold'[j] = <<bill>>
      BY <2>3, <1>5
    <3>2. Len(sold'[j]) = 1 /\ DOMAIN sold'[j] = {1} /\ sold'[j][1] = bill
      BY <3>1
    <3>3. /\ bill.verifier = asked[k].client
          /\ bill.at <= asked[k].at + CodeTTL
      BY <2>3, <1>1 DEF ExchangesAreAsked
    <3>4. QED
      BY <2>3, <3>2, <3>3
  <2>4. QED
    BY <2>2, <2>3, <1>5
<1>16. QED
  BY <1>7, <1>8, <1>11, <1>12, <1>13, <1>14, <1>15

LEMMA RestartStep == OAuthInv /\ OAuthRestart => OAuthInv'
<1>. SUFFICES ASSUME OAuthInv, OAuthRestart PROVE OAuthInv'
  OBVIOUS
<1>. USE DEF OAuthInv, secretVars
<1>1. PICK setting \in {saved, 0}, saves \in BOOLEAN :
        /\ secret' = Secret(setting)
        /\ drawn' = IF secret' > drawn THEN secret' ELSE drawn
        /\ saved' = IF saves THEN secret' ELSE saved
        /\ doubtful' = doubtful \cup ({saved} \ {0, setting})
                               \cup ({secret'} \ {saved'})
  BY DEF OAuthRestart
<1>2. /\ codes' = [k \in Codes |-> NoCode]
      /\ exchange' = [e \in Exchanges |-> NoExchange]
      /\ spent' = {k \in Codes : asked[k] # NoCode}
      /\ UNCHANGED <<asked, sold, tokens, clock>>
  BY DEF OAuthRestart
<1>3. /\ secret' \in Nat /\ secret' # 0
      /\ setting # 0 => secret' = setting
  BY <1>1 DEF Secret, OAuthTypeOK
<1>4. OAuthTypeOK'
  BY <1>1, <1>2, <1>3 DEF OAuthTypeOK
<1>5. secret' \in doubtful' \cup {saved'}
  BY <1>1
\* A secret in use and not in doubt is the saved one; when it is read again, it
\* stays in use.
<1>6. secret \in doubtful' \cup {secret'}
  <2>1. CASE secret \in doubtful
    BY <1>1, <2>1
  <2>2. CASE secret = saved /\ setting = saved
    BY <1>3, <2>2 DEF OneSecret
  <2>3. CASE secret = saved /\ setting = 0
    BY <1>1, <2>3 DEF OneSecret
  <2>4. QED
    BY <1>1, <2>1, <2>2, <2>3 DEF OneSecret
<1>7. OneSecret'
  BY <1>1, <1>2, <1>3, <1>5, <1>6 DEF OneSecret
<1>8. CodesAreAsked' /\ SpentWereAsked' /\ SoldIsSpent'
  BY <1>2 DEF CodesAreAsked, SpentWereAsked, SoldIsSpent
<1>9. ExchangesAreAsked' /\ OneExchangeOfACode'
  BY <1>2 DEF ExchangesAreAsked, OneExchangeOfACode
<1>10. CodeBuysOnceInTime' /\ UsableCodesAreKept'
  BY <1>2 DEF CodeBuysOnceInTime, UsableCodesAreKept
<1>11. QED
  BY <1>4, <1>7, <1>8, <1>9, <1>10

-----------------------------------------------------------------------------

LEMMA OAuthBegins == OAuthInit => OAuthInv
<1>. SUFFICES ASSUME OAuthInit PROVE OAuthInv
  OBVIOUS
<1>. USE DEF OAuthInit
<1>1. OAuthTypeOK
  BY DEF OAuthTypeOK
<1>2. CodesAreAsked /\ SpentWereAsked /\ ExchangesAreAsked
  BY DEF CodesAreAsked, SpentWereAsked, ExchangesAreAsked
<1>3. OneExchangeOfACode /\ SoldIsSpent /\ OneSecret
  BY DEF OneExchangeOfACode, SoldIsSpent, OneSecret
<1>4. \A k \in Codes : Len(sold[k]) = 0 /\ DOMAIN sold[k] = {}
  OBVIOUS
<1>5. CodeBuysOnceInTime /\ UsableCodesAreKept
  BY <1>4 DEF CodeBuysOnceInTime, UsableCodesAreKept
<1>6. QED
  BY <1>1, <1>2, <1>3, <1>5 DEF OAuthInv

LEMMA OAuthStep == OAuthInv /\ [OAuthNext]_oauthVars => OAuthInv'
<1>. SUFFICES ASSUME OAuthInv, [OAuthNext]_oauthVars PROVE OAuthInv'
  OBVIOUS
<1>0. clock \in Nat /\ clock + 1 \in Nat /\ clock <= clock + 1
  BY DEF OAuthInv, OAuthTypeOK
<1>1. ASSUME NEW k \in Codes, NEW c \in Clients, NEW r \in Redirects,
             Approve(k, c, r)
      PROVE  OAuthInv'
  BY <1>1, ApproveStep
<1>2. ASSUME NEW k \in Codes, Put(k) PROVE OAuthInv'
  BY <1>2, PutStep
<1>3. ASSUME NEW k \in Codes, NEW e \in Exchanges, NEW v \in Clients,
             NEW r \in Redirects \cup {<<>>}, Take(e, k, v, r)
      PROVE  OAuthInv'
  BY <1>3, TakeStep
<1>4. ASSUME NEW e \in Exchanges, Exchange(e) PROVE OAuthInv'
  BY <1>4, ExchangeStep
<1>5. CASE ClientCredentials \/ Login \/ \E t \in tokens : Refresh(t)
  <2>1. /\ UNCHANGED <<asked, codes, exchange, sold, spent, clock>>
        /\ UNCHANGED secretVars
        /\ tokens' \in {tokens, Issued,
                        tokens \cup {Signed(clock + AccessTTL)}}
    BY <1>5 DEF ClientCredentials, Login, Refresh
  <2>2. tokens' \subseteq Token /\ OneSecret'
    BY <2>1, IssuedIsSigned DEF secretVars
  <2>3. OAuthTypeOK'
    BY <2>1, <2>2 DEF OAuthInv, OAuthTypeOK, secretVars
  <2>4. QED
    BY <1>0, <2>1, <2>2, <2>3, SameCodes DEF OAuthInv
<1>6. CASE OAuthRestart
  BY <1>6, RestartStep
<1>7. CASE OAuthTick
  <2>0. tokens' \subseteq tokens
    BY <1>7 DEF OAuthTick
  <2>1. OAuthTypeOK' /\ OneSecret'
    BY <1>0, <1>7, <2>0
       DEF OAuthTick, OAuthInv, OAuthTypeOK, OneSecret, secretVars
  <2>2. QED
    BY <1>0, <1>7, <2>1, SameCodes DEF OAuthTick, OAuthInv
<1>8. CASE UNCHANGED oauthVars
  <2>1. OAuthTypeOK' /\ OneSecret'
    BY <1>8 DEF oauthVars, secretVars, OAuthInv, OAuthTypeOK, OneSecret
  <2>2. QED
    BY <1>0, <1>8, <2>1, SameCodes DEF oauthVars, OAuthInv
<1>9. QED
  BY <1>1, <1>2, <1>3, <1>4, <1>5, <1>6, <1>7, <1>8 DEF OAuthNext

LEMMA OAuthAlways == OAuthSpec => []OAuthInv
BY OAuthBegins, OAuthStep, PTL DEF OAuthSpec

\* A code buys tokens once at most, before it expires, for the client whose
\* request was approved, however many exchanges present it (oauth.go:63).
THEOREM CodesBuyOnce == OAuthSpec => []CodeBuysOnceInTime
<1>1. OAuthInv => CodeBuysOnceInTime
  BY DEF OAuthInv
<1>2. QED
  BY <1>1, OAuthAlways, PTL

\* No approval, exchange or sweep takes a usable code away (oauth.go:50).
THEOREM CodesAreKept == OAuthSpec => []UsableCodesAreKept
<1>1. OAuthInv => UsableCodesAreKept
  BY DEF OAuthInv
<1>2. QED
  BY <1>1, OAuthAlways, PTL

\* A token that was issued is good until it expires, over any number of
\* restarts of which any may fail to read or to save the secret, unless it is
\* signed with a secret that one of them failed on (auth.go:45, serve.go:68).
THEOREM TokensStayGood == OAuthSpec => []TokensOutliveRestarts
<1>1. OAuthInv => TokensOutliveRestarts
  BY DEF OAuthInv, OneSecret, TokensOutliveRestarts, Valid
<1>2. QED
  BY <1>1, OAuthAlways, PTL

-----------------------------------------------------------------------------
(***************************************************************************)
(* The slots of the telnet door, for any number of connections and slots.  *)
(***************************************************************************)

Sessions == {c \in Conns : Served(c)}

TelnetInv == TelnetTypeOK /\ SlotsAreSessions

LEMMA SessionsFinite == IsFiniteSet(Sessions) /\ Cardinality(Sessions) \in Nat
<1>1. Sessions \subseteq Conns
  BY DEF Sessions
<1>2. QED
  BY <1>1, TelnetAssumption, FS_Subset, FS_CardinalityType

\* A connection that is accepted makes one session more.
LEMMA OneMoreSession ==
    ASSUME TelnetInv, NEW c \in Conns, handler[c] = "none", NEW to, to # "none",
           handler' = [handler EXCEPT ![c] = to]
    PROVE  Cardinality(Sessions') = slots + 1
<1>1. Sessions' = Sessions \cup {c}
  BY DEF Sessions, Served, TelnetInv, TelnetTypeOK
<1>2. c \notin Sessions
  BY DEF Sessions, Served
<1>3. Cardinality(Sessions \cup {c}) = Cardinality(Sessions) + 1
  BY <1>2, SessionsFinite, FS_AddElement
<1>4. QED
  BY <1>1, <1>3 DEF TelnetInv, SlotsAreSessions, Sessions

\* A goroutine that ends makes one session less.
LEMMA OneSessionLess ==
    ASSUME TelnetInv, NEW c \in Conns, handler[c] # "none",
           handler' = [handler EXCEPT ![c] = "none"]
    PROVE  /\ Cardinality(Sessions') = slots - 1
           /\ slots - 1 \in Nat
<1>1. Sessions' = Sessions \ {c}
  BY DEF Sessions, Served, TelnetInv, TelnetTypeOK
<1>2. c \in Sessions
  BY DEF Sessions, Served
<1>3. /\ Cardinality(Sessions \ {c}) = Cardinality(Sessions) - 1
      /\ Cardinality(Sessions \ {c}) \in Nat
  BY <1>2, SessionsFinite, FS_RemoveElement, FS_CardinalityType
<1>4. QED
  BY <1>1, <1>3 DEF TelnetInv, SlotsAreSessions, Sessions

\* Every other step leaves the sessions that have a goroutine as they are.
LEMMA SameSessions ==
    ASSUME TelnetInv, UNCHANGED slots,
           \A c \in Conns : (handler'[c] = "none") <=> (handler[c] = "none")
    PROVE  SlotsAreSessions'
<1>1. Sessions' = Sessions
  BY DEF Sessions, Served
<1>2. QED
  BY <1>1 DEF TelnetInv, SlotsAreSessions, Sessions

LEMMA TelnetStep == TelnetInv /\ [TelnetNext]_telnetVars => TelnetInv'
<1>. SUFFICES ASSUME TelnetInv, [TelnetNext]_telnetVars PROVE TelnetInv'
  OBVIOUS
<1>. USE DEF TelnetInv, TelnetTypeOK
<1>0. MaxSessions \in Nat /\ SessionLimit \in Nat /\ 0 \in 0..SessionLimit
  BY TelnetAssumption
<1>1. ASSUME NEW c \in Conns, Connect(c) PROVE TelnetInv'
  <2>1. Cardinality(Sessions') = slots + 1
    BY <1>1, OneMoreSession DEF Connect
  <2>2. SlotsAreSessions'
    BY <1>1, <2>1 DEF Connect, SlotsAreSessions, Sessions
  <2>3. TelnetTypeOK'
    BY <1>0, <1>1 DEF Connect
  <2>4. QED
    BY <2>2, <2>3
<1>2. ASSUME NEW c \in Conns, Input(c) \/ Quit(c) \/ HangUp(c)
      PROVE  TelnetInv'
  <2>1. TelnetTypeOK'
    BY <1>0, <1>2 DEF Input, Quit, HangUp
  <2>2. QED
    BY <1>2, <2>1, SameSessions DEF Input, Quit, HangUp
<1>3. ASSUME NEW c \in Conns, InputEnds(c) \/ HardLimit(c)
      PROVE  TelnetInv'
  <2>1. Teardown(c) /\ handler[c] = "running"
    BY <1>3 DEF InputEnds, HardLimit
  <2>2. TelnetTypeOK'
    BY <2>1 DEF Teardown
  <2>3. QED
    BY <2>1, <2>2, SameSessions DEF Teardown
<1>4. ASSUME NEW c \in Conns, RunReturns(c) PROVE TelnetInv'
  <2>1. TelnetTypeOK'
    BY <1>4 DEF RunReturns
  <2>2. QED
    BY <1>4, <2>1, SameSessions DEF RunReturns
<1>5. ASSUME NEW c \in Conns, GiveBack(c) PROVE TelnetInv'
  <2>1. Cardinality(Sessions') = slots - 1 /\ slots - 1 \in Nat
    BY <1>5, OneSessionLess DEF GiveBack
  <2>2. SlotsAreSessions'
    BY <1>5, <2>1 DEF GiveBack, SlotsAreSessions, Sessions
  <2>3. TelnetTypeOK'
    BY <1>0, <1>5, <2>1 DEF GiveBack
  <2>4. QED
    BY <2>2, <2>3
<1>6. CASE TelnetTick
  <2>1. \A n \in 0..SessionLimit : Later(n) \in 0..SessionLimit
    BY <1>0 DEF Later
  <2>2. TelnetTypeOK'
    BY <1>0, <1>6, <2>1 DEF TelnetTick
  <2>3. QED
    BY <1>6, <2>2, SameSessions DEF TelnetTick
<1>7. CASE UNCHANGED telnetVars
  BY <1>7, SameSessions DEF telnetVars
<1>8. QED
  BY <1>1, <1>2, <1>3, <1>4, <1>5, <1>6, <1>7 DEF TelnetNext

LEMMA TelnetBegins == TelnetInit => TelnetInv
<1>. SUFFICES ASSUME TelnetInit PROVE TelnetInv
  OBVIOUS
<1>1. TelnetTypeOK
  BY TelnetAssumption DEF TelnetInit, TelnetTypeOK
<1>2. Sessions = {}
  BY DEF TelnetInit, Sessions, Served
<1>3. QED
  BY <1>1, <1>2, FS_EmptySet
     DEF TelnetInit, TelnetInv, SlotsAreSessions, Sessions

\* The number of slots taken is the number of sessions whose goroutine has not
\* ended, whichever way and however many at once they end (telnet.go:111).
THEOREM SlotsComeBack == TelnetSpec => []SlotsAreSessions
<1>1. TelnetInv => SlotsAreSessions
  BY DEF TelnetInv
<1>2. QED
  BY <1>1, TelnetBegins, TelnetStep, PTL DEF TelnetSpec

\* No more sessions run than there are slots, whoever connects (telnet.go:109).
THEOREM SessionsFitTheSlots ==
    TelnetSpec => [](Cardinality({c \in Conns : Served(c)}) <= MaxSessions)
<1>1. TelnetInv => Cardinality({c \in Conns : Served(c)}) <= MaxSessions
  BY TelnetAssumption DEF TelnetInv, TelnetTypeOK, SlotsAreSessions
<1>2. QED
  BY <1>1, TelnetBegins, TelnetStep, PTL DEF TelnetSpec

-----------------------------------------------------------------------------
(***************************************************************************)
(* The release check, for any number of pages and of goroutines.           *)
(***************************************************************************)

UpdatesTypeOK ==
    /\ latest \in Releases \cup {0}
    /\ fetching \in BOOLEAN
    /\ wait \in Nat
    /\ refresh \in [Refreshes -> Answers \cup {Quiet, Asking}]
    /\ released \in Releases

OnlyOneIsBusy == \A g, h \in Busy : g = h

\* What is known, or about to be, is out.
NothingIsAhead ==
    /\ latest <= released
    /\ \A g \in Refreshes : refresh[g] \in Answers /\ refresh[g].ok =>
        latest <= refresh[g].tag /\ refresh[g].tag <= released

UpdatesInv ==
    /\ UpdatesTypeOK
    /\ OnlyOneIsBusy
    /\ fetching <=> Busy # {}
    /\ NothingIsAhead

LEMMA AnswersDiffer ==
    /\ Quiet # Asking
    /\ Quiet \notin Answers /\ Asking \notin Answers
BY DEF Quiet, Asking, Answers

\* A refresh that goes on is as busy as before.
LEMMA BusyGoesOn ==
    ASSUME UpdatesInv, NEW g \in Refreshes, refresh[g] # Quiet,
           NEW a \in Answers \cup {Asking}, refresh' = [refresh EXCEPT ![g] = a]
    PROVE  Busy' = Busy
BY AnswersDiffer DEF UpdatesInv, UpdatesTypeOK, Busy

LEMMA UpdatesStep == UpdatesInv /\ [UpdatesNext]_updateVars => UpdatesInv'
<1>. SUFFICES ASSUME UpdatesInv, [UpdatesNext]_updateVars PROVE UpdatesInv'
  OBVIOUS
<1>. USE UpdatesAssumption DEF UpdatesInv
<1>1. ASSUME NEW p \in Pages, Render(p) PROVE UpdatesInv'
  <2>1. CASE Due
    <3>1. PICK g \in Refreshes : /\ refresh[g] = Quiet
                                 /\ refresh' = [refresh EXCEPT ![g] = Asking]
      BY <1>1, <2>1 DEF Render
    <3>2. fetching' = TRUE /\ UNCHANGED <<latest, wait, released>>
      BY <1>1, <2>1 DEF Render
    <3>3. Busy' = {g}
      BY <2>1, <3>1, AnswersDiffer DEF Due, Busy, UpdatesTypeOK
    <3>4. UpdatesTypeOK'
      BY <3>1, <3>2 DEF UpdatesTypeOK
    <3>5. NothingIsAhead'
      BY <3>1, <3>2, AnswersDiffer DEF NothingIsAhead, UpdatesTypeOK
    <3>6. QED
      BY <3>2, <3>3, <3>4, <3>5 DEF OnlyOneIsBusy
  <2>2. CASE ~ Due
    BY <1>1, <2>2
       DEF Render, UpdatesTypeOK, OnlyOneIsBusy, Busy, NothingIsAhead
  <2>3. QED
    BY <2>1, <2>2
<1>2. ASSUME NEW g \in Refreshes, Answer(g) PROVE UpdatesInv'
  <2>. DEFINE a == [at |-> "answered", ok |-> TRUE, tag |-> released]
  <2>1. /\ refresh[g] = Asking /\ refresh' = [refresh EXCEPT ![g] = a]
        /\ UNCHANGED <<latest, fetching, wait, released>>
    BY <1>2 DEF Answer
  <2>2. a \in Answers /\ a.tag = released
    BY DEF Answers, UpdatesTypeOK
  <2>. HIDE DEF a
  <2>3. Busy' = Busy
    BY <2>1, <2>2, AnswersDiffer, BusyGoesOn
  <2>4. UpdatesTypeOK'
    BY <2>1, <2>2 DEF UpdatesTypeOK
  <2>5. NothingIsAhead'
    BY <2>1, <2>2 DEF NothingIsAhead, UpdatesTypeOK
  <2>6. QED
    BY <2>1, <2>3, <2>4, <2>5 DEF OnlyOneIsBusy
<1>3. ASSUME NEW g \in Refreshes, NoAnswer(g) PROVE UpdatesInv'
  <2>. DEFINE a == [at |-> "answered", ok |-> FALSE, tag |-> 0]
  <2>1. /\ refresh[g] = Asking /\ refresh' = [refresh EXCEPT ![g] = a]
        /\ UNCHANGED <<latest, fetching, wait, released>>
    BY <1>3 DEF NoAnswer
  <2>2. a \in Answers /\ ~ a.ok
    BY DEF Answers
  <2>. HIDE DEF a
  <2>3. Busy' = Busy
    BY <2>1, <2>2, AnswersDiffer, BusyGoesOn
  <2>4. UpdatesTypeOK'
    BY <2>1, <2>2 DEF UpdatesTypeOK
  <2>5. NothingIsAhead'
    BY <2>1, <2>2 DEF NothingIsAhead, UpdatesTypeOK
  <2>6. QED
    BY <2>1, <2>3, <2>4, <2>5 DEF OnlyOneIsBusy
<1>4. ASSUME NEW g \in Refreshes, Finish(g) PROVE UpdatesInv'
  <2>1. /\ refresh[g] \in Answers /\ g \in Busy
        /\ fetching' = FALSE /\ released' = released
        /\ refresh' = [refresh EXCEPT ![g] = Quiet]
        /\ latest' = IF refresh[g].ok THEN refresh[g].tag ELSE latest
        /\ wait' = IF refresh[g].ok THEN CheckTTL ELSE RetryTTL
    BY <1>4, AnswersDiffer DEF Finish, Busy
  <2>2. \A h \in Refreshes : refresh'[h] = Quiet
    BY <2>1 DEF OnlyOneIsBusy, Busy, UpdatesTypeOK
  <2>3. Busy' = {}
    BY <2>2 DEF Busy
  <2>4. UpdatesTypeOK'
    BY <2>1 DEF UpdatesTypeOK, Answers
  <2>5. NothingIsAhead'
    BY <2>1, <2>2, AnswersDiffer DEF NothingIsAhead
  <2>6. QED
    BY <2>1, <2>3, <2>4, <2>5 DEF OnlyOneIsBusy
<1>5. CASE Release
  <2>1. PICK r \in Releases : r > released /\ released' = r
    BY <1>5 DEF Release
  <2>2. UNCHANGED <<latest, fetching, wait, refresh>>
    BY <1>5 DEF Release
  <2>3. \A n \in Releases \cup {0} : n <= released => n <= r
    BY <2>1 DEF UpdatesTypeOK
  <2>4. NothingIsAhead'
    BY <2>1, <2>2, <2>3 DEF NothingIsAhead, UpdatesTypeOK, Answers
  <2>5. QED
    BY <2>1, <2>2, <2>4 DEF UpdatesTypeOK, OnlyOneIsBusy, Busy
<1>6. CASE UpdatesTick \/ UNCHANGED updateVars
  BY <1>6 DEF UpdatesTick, updateVars, UpdatesTypeOK, OnlyOneIsBusy, Busy,
              NothingIsAhead
<1>7. QED
  BY <1>1, <1>2, <1>3, <1>4, <1>5, <1>6 DEF UpdatesNext

LEMMA UpdatesBegin == UpdatesInit => UpdatesInv
<1>. SUFFICES ASSUME UpdatesInit PROVE UpdatesInv
  OBVIOUS
<1>1. \A g \in Refreshes : refresh[g] = Quiet
  BY DEF UpdatesInit
<1>2. UpdatesTypeOK
  BY DEF UpdatesInit, UpdatesTypeOK
<1>3. Busy = {} /\ fetching = FALSE
  BY <1>1 DEF UpdatesInit, Busy
<1>4. NothingIsAhead
  <2>1. 0 <= released
    BY UpdatesAssumption DEF UpdatesInit
  <2>2. QED
    BY <1>1, <2>1, AnswersDiffer DEF UpdatesInit, NothingIsAhead
<1>5. QED
  BY <1>2, <1>3, <1>4 DEF UpdatesInv, OnlyOneIsBusy

\* However many pages are rendered at once, and however checks fail or answers
\* are late, one request is under way at most, the flag says whether one is,
\* and no answer brings back an older release (updatecheck.go:58, 68).
THEOREM OneRefresh == UpdatesSpec => []OneRefreshAtATime
<1>1. ASSUME UpdatesInv PROVE OneRefreshAtATime
  <2>1. Cardinality(Busy) <= 1
    <3>1. CASE Busy = {}
      BY <3>1, FS_EmptySet
    <3>2. CASE Busy # {}
      <4>1. PICK g \in Busy : Busy = {g}
        BY <1>1, <3>2 DEF UpdatesInv, OnlyOneIsBusy
      <4>2. QED
        BY <4>1, FS_Singleton
    <3>3. QED
      BY <3>1, <3>2
  <2>2. \A g \in Busy : refresh[g] \in Answers /\ refresh[g].ok =>
            refresh[g].tag >= latest
    BY <1>1, UpdatesAssumption
       DEF UpdatesInv, UpdatesTypeOK, NothingIsAhead, Busy, Answers
  <2>3. QED
    BY <1>1, <2>1, <2>2 DEF UpdatesInv, OneRefreshAtATime
<1>2. QED
  BY <1>1, UpdatesBegin, UpdatesStep, PTL DEF UpdatesSpec

-----------------------------------------------------------------------------
(***************************************************************************)
(* The marker of a feed (Feeds).                                           *)
(*                                                                         *)
(* A click that is not late is about to save the lines that were last      *)
(* written by hand.                                                        *)
(***************************************************************************)

ClicksAreInTime ==
    \A c \in Clicks :
        click[c] # NoClick /\ ~ late[c] => click[c].lines = said

FeedsInv == FeedsTypeOK /\ ClicksAreInTime /\ SettingsAreTheLastWord

LEMMA MarkersAre ==
    /\ NoMarker \notin Marker /\ NoClick \notin Marker
    /\ \A m \in Marker : /\ m.lines \in Lines /\ Says(m) = m.lines
                         /\ m # NoMarker /\ m # NoClick
    /\ Says(NoMarker) = Off
<1>1. \A m \in Marker : m.prefix \in {"none", "date", "datetime", "unset"}
  BY DEF Marker, Prefixes
<1>2. NoMarker.prefix = "no marker" /\ NoClick.prefix = "no click"
  BY DEF NoMarker, NoClick
<1>3. \A m \in Marker : m.lines \in Lines /\ m # NoMarker /\ m # NoClick
  BY <1>1, <1>2 DEF Marker
<1>4. QED
  BY <1>3 DEF Says

LEMMA ByHandStep ==
    ASSUME FeedsInv, NEW m \in Marker \cup {NoMarker}, ByHand(m)
    PROVE  FeedsInv'
<1>1. /\ marker' = m /\ said' = Says(m) /\ ~ revived' /\ click' = click
      /\ late' = [c \in Clicks |-> click[c] # NoClick] /\ revived' \in BOOLEAN
  BY DEF ByHand
<1>2. said' \in Lines \cup {Off}
  BY <1>1, MarkersAre
<1>3. FeedsTypeOK'
  BY <1>1, <1>2 DEF FeedsInv, FeedsTypeOK
<1>4. ClicksAreInTime'
  BY <1>1 DEF ClicksAreInTime
<1>5. SettingsAreTheLastWord'
  BY <1>1 DEF SettingsAreTheLastWord, Says
<1>6. QED
  BY <1>3, <1>4, <1>5 DEF FeedsInv

LEMMA ReadMarkerStep ==
    ASSUME FeedsInv, NEW c \in Clicks, NEW v \in Prefixes, ReadMarker(c, v)
    PROVE  FeedsInv'
<1>. DEFINE m == WithPrefix(marker, v)
<1>1. marker \in Marker
  BY DEF ReadMarker, FeedsInv, FeedsTypeOK
<1>2. m \in Marker /\ m.lines = marker.lines
  BY <1>1 DEF WithPrefix, Marker
<1>. HIDE DEF m
<1>3. /\ click' = [click EXCEPT ![c] = m] /\ late' = [late EXCEPT ![c] = revived]
      /\ UNCHANGED <<marker, said, revived>>
  BY DEF ReadMarker, m
<1>4. FeedsTypeOK'
  BY <1>2, <1>3 DEF FeedsInv, FeedsTypeOK
<1>5. ~ revived => m.lines = said
  BY <1>1, <1>2, MarkersAre DEF FeedsInv, SettingsAreTheLastWord
<1>6. ClicksAreInTime'
  BY <1>3, <1>5 DEF FeedsInv, FeedsTypeOK, ClicksAreInTime
<1>7. SettingsAreTheLastWord'
  BY <1>3 DEF FeedsInv, SettingsAreTheLastWord, Says
<1>8. QED
  BY <1>4, <1>6, <1>7 DEF FeedsInv

LEMMA SaveMarkerStep ==
    ASSUME FeedsInv, NEW c \in Clicks, SaveMarker(c)
    PROVE  FeedsInv'
<1>1. /\ marker' = click[c] /\ click' = [click EXCEPT ![c] = NoClick]
      /\ revived' = late[c] /\ UNCHANGED <<said, late>>
  BY DEF SaveMarker
<1>2. click[c] \in Marker
  BY DEF SaveMarker, FeedsInv, FeedsTypeOK
<1>3. FeedsTypeOK'
  BY <1>1, <1>2 DEF FeedsInv, FeedsTypeOK
<1>4. ClicksAreInTime'
  BY <1>1 DEF FeedsInv, FeedsTypeOK, ClicksAreInTime
<1>5. ~ late[c] => Says(click[c]) = said
  BY <1>2, MarkersAre DEF FeedsInv, ClicksAreInTime
<1>6. SettingsAreTheLastWord'
  BY <1>1, <1>5 DEF SettingsAreTheLastWord, Says
<1>7. QED
  BY <1>3, <1>4, <1>6 DEF FeedsInv

\* A folder publishes, and its marker says, what was last written by hand,
\* unless a click that had read the marker before came after it, for any
\* number of clicks at once (adminbrowse.go:260, 280).
THEOREM MarkersAreKept == FeedsSpec => []SettingsAreTheLastWord
<1>1. FeedsInit => FeedsInv
  BY DEF FeedsInit, FeedsInv, FeedsTypeOK, ClicksAreInTime,
         SettingsAreTheLastWord, Says
<1>2. FeedsInv /\ [FeedsNext]_feedVars => FeedsInv'
  <2>. SUFFICES ASSUME FeedsInv, [FeedsNext]_feedVars PROVE FeedsInv'
    OBVIOUS
  <2>1. DefaultMarker \in Marker
    BY FeedsAssumption DEF DefaultMarker, Marker, Prefixes
  <2>2. CASE SwitchOn
    BY <2>1, <2>2, ByHandStep DEF SwitchOn
  <2>3. CASE SwitchOff
    BY <2>3, ByHandStep DEF SwitchOff
  <2>4. ASSUME NEW m \in Marker, WriteMarker(m) PROVE FeedsInv'
    BY <2>4, ByHandStep DEF WriteMarker
  <2>5. CASE UNCHANGED feedVars
    BY <2>5 DEF feedVars, FeedsInv, FeedsTypeOK, ClicksAreInTime,
                SettingsAreTheLastWord, Says
  <2>6. QED
    BY <2>2, <2>3, <2>4, <2>5, ReadMarkerStep, SaveMarkerStep DEF FeedsNext
<1>3. FeedsInv => SettingsAreTheLastWord
  BY DEF FeedsInv
<1>4. QED
  BY <1>1, <1>2, <1>3, PTL DEF FeedsSpec

(***************************************************************************)
(* The filter of a telnet session.                                         *)
(***************************************************************************)

-----------------------------------------------------------------------------
(***************************************************************************)
(* Numbers.  Induction in the form of sets, and a function defined by it.  *)
(***************************************************************************)

\* A set of numbers that has 0, and the next of each it has, has them all.
LEMMA AllNumbers ==
    ASSUME NEW S \in SUBSET Nat, 0 \in S, \A n \in S : n + 1 \in S
    PROVE  S = Nat
<1>1. SUFFICES ASSUME Nat \ S # {}
               PROVE  FALSE
  OBVIOUS
<1>2. PICK m \in Nat \ S : \A n \in Nat \ S : ~ (<<n, m>> \in OpToRel(<, Nat))
  BY <1>1, NatLessThanWellFounded, WFMin, Zenon
<1>3. \A n \in Nat \ S : ~ (n < m)
  BY <1>2, Zenon DEF OpToRel
<1>4. m - 1 \in Nat /\ m - 1 < m /\ m = (m - 1) + 1
  <2>1. m # 0
    BY <1>2
  <2>2. QED
    BY <2>1
<1>5. m - 1 \in S
  BY <1>3, <1>4
<1>6. QED
  BY <1>2, <1>4, <1>5

\* h holds what repeating g on x gives, up to n times.
Repeats(V, x, g, h, n) ==
    /\ h \in [0..n -> V]
    /\ h[0] = x
    /\ \A i \in 0..(n - 1) : h[i + 1] = g[h[i]]

LEMMA RepeatedOnce ==
    ASSUME NEW V, NEW x \in V, NEW g \in [V -> V], NEW n \in Nat, NEW h,
           Repeats(V, x, g, h, n)
    PROVE  \E k : Repeats(V, x, g, k, n + 1)
<1> DEFINE next(i) == IF i = n + 1 THEN g[h[n]] ELSE h[i]
           k == [i \in 0..(n + 1) |-> next(i)]
<1>1. \A i \in 0..n : h[i] \in V
  BY DEF Repeats
<1>2. \A i \in 0..(n + 1) : next(i) \in V
  BY <1>1
<1>3. \A i \in 0..(n + 1) : k[i] = next(i)
  OBVIOUS
<1>4. k \in [0..(n + 1) -> V]
  BY <1>2
<1>5. next(0) = x
  BY DEF Repeats
<1>6. ASSUME NEW i \in 0..n
      PROVE  next(i + 1) = g[next(i)]
  BY <1>6 DEF Repeats
<1> HIDE DEF next
<1>7. \A i \in 0..((n + 1) - 1) : k[i + 1] = g[k[i]]
  BY <1>3, <1>6
<1>8. k[0] = x
  BY <1>3, <1>5
<1> HIDE DEF k
<1>9. QED
  BY <1>4, <1>7, <1>8 DEF Repeats

Repeated(V, x, g, f) ==
    f \in [Nat -> V] /\ f[0] = x /\ \A n \in Nat : f[n + 1] = g[f[n]]

\* Any step can be repeated any number of times.
LEMMA RepeatedForever ==
    ASSUME NEW V, NEW x \in V, NEW g \in [V -> V]
    PROVE  \E f : Repeated(V, x, g, f)
<1> DEFINE some == {n \in Nat : \E h : Repeats(V, x, g, h, n)}
           of(n) == CHOOSE h : Repeats(V, x, g, h, n)
<1>1. some = Nat
  <2>1. 0 \in some
    <3>1. Repeats(V, x, g, [i \in 0..0 |-> x], 0)
      BY DEF Repeats
    <3>2. QED
      BY <3>1
  <2>2. \A n \in some : n + 1 \in some
    BY RepeatedOnce
  <2> HIDE DEF some
  <2>3. some \in SUBSET Nat
    BY DEF some
  <2>4. QED
    BY <2>1, <2>2, <2>3, AllNumbers
<1>2. ASSUME NEW n \in Nat
      PROVE  Repeats(V, x, g, of(n), n)
  <2>1. \E h : Repeats(V, x, g, h, n)
    BY <1>1
  <2>2. QED
    BY <2>1
<1> HIDE DEF of
<1>3. ASSUME NEW n \in Nat
      PROVE  \A i \in 0..n : of(n + 1)[i] = of(n)[i]
  <2> DEFINE same == {i \in Nat : i <= n => of(n + 1)[i] = of(n)[i]}
  <2>1. Repeats(V, x, g, of(n), n) /\ Repeats(V, x, g, of(n + 1), n + 1)
    BY <1>2
  <2>2. 0 \in same
    BY <2>1 DEF Repeats
  <2>3. ASSUME NEW i \in same
        PROVE  i + 1 \in same
    <3>1. CASE i + 1 <= n
      <4>1. i \in 0..(n - 1) /\ i \in 0..((n + 1) - 1) /\ i <= n
        BY <3>1
      <4>2. of(n + 1)[i + 1] = g[of(n + 1)[i]] /\ of(n)[i + 1] = g[of(n)[i]]
        BY <2>1, <4>1 DEF Repeats
      <4>3. QED
        BY <4>1, <4>2
    <3>2. QED
      BY <3>1
  <2>4. same = Nat
    <3>1. same \in SUBSET Nat
      OBVIOUS
    <3> HIDE DEF same
    <3>2. QED
      BY <2>2, <2>3, <3>1, AllNumbers
  <2>5. QED
    BY <2>4
<1> DEFINE f == [n \in Nat |-> of(n)[n]]
<1>4. \A n \in Nat : f[n] = of(n)[n]
  OBVIOUS
<1>5. f \in [Nat -> V] /\ f[0] = x
  <2>1. \A n \in Nat : of(n)[n] \in V
    BY <1>2 DEF Repeats
  <2>2. of(0)[0] = x
    BY <1>2 DEF Repeats
  <2>3. QED
    BY <2>1, <2>2
<1>6. ASSUME NEW n \in Nat
      PROVE  f[n + 1] = g[f[n]]
  <2>1. Repeats(V, x, g, of(n + 1), n + 1) /\ of(n + 1)[n] = of(n)[n]
    BY <1>2, <1>3
  <2>2. of(n + 1)[n + 1] = g[of(n + 1)[n]]
    BY <2>1 DEF Repeats
  <2>3. f[n + 1] = of(n + 1)[n + 1] /\ f[n] = of(n)[n]
    BY <1>4
  <2>4. QED
    BY <2>1, <2>2, <2>3
<1> HIDE DEF f
<1>7. QED
  BY <1>5, <1>6 DEF Repeated

-----------------------------------------------------------------------------
(***************************************************************************)
(* Numbers in order.                                                       *)
(***************************************************************************)

LEMMA OnlyOne ==
    ASSUME NEW m
    PROVE  AnyOf({m}) = m
  BY DEF AnyOf

LEMMA AnyOfIn ==
    ASSUME NEW S, S # {}
    PROVE  AnyOf(S) \in S
  BY DEF AnyOf

\* What is larger than all of a set comes after them.
LEMMA AscendingGrows ==
    ASSUME NEW S \in SUBSET Nat, IsFiniteSet(S), NEW m \in Nat, \A k \in S : k < m
    PROVE  /\ Cardinality(S \cup {m}) = Cardinality(S) + 1
           /\ Ascending(S \cup {m}) =
                [n \in 1..(Cardinality(S) + 1) |->
                    IF n = Cardinality(S) + 1 THEN m ELSE Ascending(S)[n]]
<1> DEFINE T == S \cup {m}
           c == Cardinality(S)
           rank(Q, n) == {k \in Q : Cardinality({x \in Q : x <= k}) = n}
<1>1. c \in Nat
  BY FS_CardinalityType
<1>2. Cardinality(T) = c + 1
  <2>1. m \notin S
    OBVIOUS
  <2>2. QED
    BY <2>1, FS_AddElement
<1>3. ASSUME NEW k \in S
      PROVE  {x \in T : x <= k} = {x \in S : x <= k}
  BY <1>3
<1>4. ASSUME NEW n \in 1..c
      PROVE  rank(T, n) = rank(S, n)
  <2>1. {x \in T : x <= m} = T
    <3>1. \A x \in T : x <= m
      OBVIOUS
    <3> HIDE DEF T
    <3>2. QED
      BY <3>1
  <2>2. Cardinality({x \in T : x <= m}) # n
    <3>1. c + 1 # n
      BY <1>1
    <3> HIDE DEF T, c
    <3>2. QED
      BY <1>2, <2>1, <3>1
  <2>3. m \notin rank(T, n)
    BY <2>2
  <2>4. ASSUME NEW k \in S
        PROVE  k \in rank(T, n) <=> k \in rank(S, n)
    <3> HIDE DEF c
    <3>1. QED
      BY <1>3, <2>4
  <2>5. rank(T, n) \in SUBSET (S \cup {m}) /\ rank(S, n) \in SUBSET S
    OBVIOUS
  <2> HIDE DEF rank
  <2>6. QED
    BY <2>3, <2>4, <2>5
<1>5. rank(T, c + 1) = {m}
  <2>1. {x \in T : x <= m} = T
    <3>1. \A x \in T : x <= m
      OBVIOUS
    <3> HIDE DEF T
    <3>2. QED
      BY <3>1
  <2>2. m \in rank(T, c + 1)
    <3> HIDE DEF c
    <3>1. QED
      BY <1>2, <2>1
  <2>3. ASSUME NEW k \in S
        PROVE  k \notin rank(T, c + 1)
    <3>1. Cardinality({x \in S : x <= k}) <= c
      BY FS_Subset
    <3>2. Cardinality({x \in S : x <= k}) \in Nat
      BY FS_Subset, FS_CardinalityType
    <3>3. Cardinality({x \in T : x <= k}) # c + 1
      <4> HIDE DEF T, c
      <4>1. QED
        BY <1>1, <1>3, <3>1, <3>2
    <3>4. QED
      BY <3>3
  <2>4. rank(T, c + 1) \in SUBSET (S \cup {m})
    OBVIOUS
  <2> HIDE DEF rank
  <2>5. QED
    BY <2>2, <2>3, <2>4
<1>6. Ascending(T) = [n \in 1..(c + 1) |-> AnyOf(rank(T, n))]
  <2>1. Ascending(T) = [n \in 1..Cardinality(T) |-> AnyOf(rank(T, n))]
    BY Zenon DEF Ascending
  <2> HIDE DEF T, c, rank
  <2>2. QED
    BY <1>2, <2>1
<1>7. \A n \in 1..c : Ascending(S)[n] = AnyOf(rank(S, n))
  <2>1. Ascending(S) = [n \in 1..c |-> AnyOf(rank(S, n))]
    BY Zenon DEF Ascending
  <2> HIDE DEF c, rank
  <2>2. QED
    BY <2>1
<1> HIDE DEF c, rank
<1>8. ASSUME NEW n \in 1..(c + 1)
      PROVE  AnyOf(rank(T, n)) = IF n = c + 1 THEN m ELSE Ascending(S)[n]
  <2>1. CASE n = c + 1
    BY <1>5, <2>1, OnlyOne
  <2>2. CASE n # c + 1
    <3>1. n \in 1..c
      BY <1>1, <2>2
    <3>2. QED
      BY <1>4, <1>7, <2>2, <3>1
  <2>3. QED
    BY <2>1, <2>2
<1>9. Ascending(T) = [n \in 1..(c + 1) |-> IF n = c + 1 THEN m ELSE Ascending(S)[n]]
  BY <1>6, <1>8
<1>10. QED
  BY <1>2, <1>9 DEF c

LEMMA NoNumbers == Ascending({}) = <<>> /\ Cardinality({}) = 0
  BY FS_EmptySet DEF Ascending

\* The numbers of a set, in order, are a sequence of them.
LEMMA AscendingIsSeq ==
    ASSUME NEW N \in Nat, NEW S \in SUBSET (1..N)
    PROVE  /\ IsFiniteSet(S)
           /\ Cardinality(S) \in Nat
           /\ Ascending(S) \in Seq(S)
           /\ Len(Ascending(S)) = Cardinality(S)
<1> DEFINE Fine(Q) == /\ IsFiniteSet(Q)
                      /\ Cardinality(Q) \in Nat
                      /\ Ascending(Q) \in [1..Cardinality(Q) -> Q]
           fine == {n \in Nat : \A Q \in SUBSET (1..n) : Fine(Q)}
<1>1. 0 \in fine
  <2>1. ASSUME NEW Q \in SUBSET (1..0)
        PROVE  Fine(Q)
    <3>1. Q = {}
      OBVIOUS
    <3>2. Fine({})
      <4>1. Ascending({}) \in [1..Cardinality({}) -> {}]
        <5>1. 1..Cardinality({}) = {}
          BY NoNumbers
        <5>2. QED
          BY <5>1 DEF Ascending
      <4>2. QED
        BY <4>1, NoNumbers, FS_EmptySet
    <3> HIDE DEF Fine
    <3>3. QED
      BY <3>1, <3>2
  <2>2. QED
    BY <2>1
<1>2. ASSUME NEW n \in fine
      PROVE  n + 1 \in fine
  <2>1. ASSUME NEW Q \in SUBSET (1..(n + 1))
        PROVE  Fine(Q)
    <3>1. CASE n + 1 \notin Q
      <4>1. Q \in SUBSET (1..n)
        BY <3>1
      <4> HIDE DEF Fine
      <4>2. QED
        BY <4>1
    <3>2. CASE n + 1 \in Q
      <4> DEFINE P == Q \ {n + 1}
      <4>1. /\ P \in SUBSET (1..n)
            /\ Q = P \cup {n + 1}
            /\ P \in SUBSET Nat
            /\ \A k \in P : k < n + 1
        BY <3>2
      <4> HIDE DEF P
      <4>2. Fine(P)
        BY <4>1
      <4>3. /\ Cardinality(Q) = Cardinality(P) + 1
            /\ Ascending(Q) =
                [k \in 1..(Cardinality(P) + 1) |->
                    IF k = Cardinality(P) + 1 THEN n + 1 ELSE Ascending(P)[k]]
        BY <4>1, <4>2, AscendingGrows
      <4>4. IsFiniteSet(Q)
        BY <4>1, <4>2, FS_AddElement
      <4>5. Ascending(Q) \in [1..Cardinality(Q) -> Q]
        <5>1. /\ Cardinality(P) \in Nat
              /\ \A k \in 1..Cardinality(P) : Ascending(P)[k] \in Q
          BY <4>1, <4>2
        <5>2. \A k \in 1..(Cardinality(P) + 1) :
                k # Cardinality(P) + 1 => k \in 1..Cardinality(P)
          BY <5>1
        <5>3. QED
          BY <3>2, <4>3, <5>1, <5>2
      <4>6. QED
        BY <4>2, <4>3, <4>4, <4>5
    <3>3. QED
      BY <3>1, <3>2
  <2> HIDE DEF Fine
  <2>2. QED
    BY <2>1
<1>3. fine = Nat
  <2>1. fine \in SUBSET Nat
    OBVIOUS
  <2> HIDE DEF fine
  <2>2. QED
    BY <1>1, <1>2, <2>1, AllNumbers
<1>4. Fine(S)
  <2> HIDE DEF Fine
  <2>1. QED
    BY <1>3
<1>5. Ascending(S) \in Seq(S)
  BY <1>4
<1>6. Len(Ascending(S)) = Cardinality(S)
  BY <1>4, <1>5
<1>7. QED
  BY <1>4, <1>5, <1>6

LEMMA AscendingNumbers ==
    ASSUME NEW N \in Nat, NEW S \in SUBSET (1..N)
    PROVE  \A n \in DOMAIN Ascending(S) : Ascending(S)[n] \in Nat
<1> DEFINE a == Ascending(S)
<1>1. a \in Seq(S) /\ S \subseteq Nat
  <2>1. a \in Seq(S)
    BY AscendingIsSeq
  <2>2. S \subseteq Nat
    OBVIOUS
  <2>3. QED
    BY <2>1, <2>2
<1> HIDE DEF a
<1>2. \A n \in DOMAIN a : a[n] \in S
  BY <1>1
<1>3. \A n \in DOMAIN a : a[n] \in Nat
  BY <1>1, <1>2
<1>4. QED
  BY <1>3 DEF a

LEMMA AscendingAppend ==
    ASSUME NEW N \in Nat, NEW S \in SUBSET (1..N)
    PROVE  /\ Cardinality(S \cup {N + 1}) = Cardinality(S) + 1
           /\ Ascending(S \cup {N + 1}) = Append(Ascending(S), N + 1)
<1>1. /\ IsFiniteSet(S)
      /\ Cardinality(S) \in Nat
      /\ Ascending(S) \in Seq(S)
      /\ Len(Ascending(S)) = Cardinality(S)
  BY AscendingIsSeq
<1>2. S \in SUBSET Nat /\ \A k \in S : k < N + 1
  OBVIOUS
<1>3. /\ Cardinality(S \cup {N + 1}) = Cardinality(S) + 1
      /\ Ascending(S \cup {N + 1}) =
            [n \in 1..(Cardinality(S) + 1) |->
                IF n = Cardinality(S) + 1 THEN N + 1 ELSE Ascending(S)[n]]
  BY <1>1, <1>2, AscendingGrows
<1>4. Append(Ascending(S), N + 1) =
        [n \in 1..(Cardinality(S) + 1) |->
            IF n = Cardinality(S) + 1 THEN N + 1 ELSE Ascending(S)[n]]
  BY <1>1
<1>5. QED
  BY <1>3, <1>4

-----------------------------------------------------------------------------
(***************************************************************************)
(* Items, and what one more byte makes of them.                            *)
(***************************************************************************)

\* IACs wait in turns.
LEMMA WaitingNext ==
    ASSUME NEW s, NEW j \in Nat, NEW k \in Nat, j <= k + 1
    PROVE  /\ Waiting(s, j, k + 1) <=> s[k + 1] = "IAC" /\ ~ Waiting(s, j, k)
           /\ ~ Waiting(s, k + 1, k)
<1> DEFINE Row(q) == {i \in j..q : \A m \in i..q : s[m] = "IAC"}
<1>1. IsFiniteSet(Row(k)) /\ Cardinality(Row(k)) \in Nat
  <2>1. IsFiniteSet(j..k)
    BY FS_Interval
  <2>2. QED
    BY <2>1, FS_Subset, FS_CardinalityType
<1>2. ~ Waiting(s, k + 1, k)
  <2>1. {i \in (k + 1)..k : \A m \in i..k : s[m] = "IAC"} = {}
    OBVIOUS
  <2>2. QED
    BY <2>1, FS_EmptySet DEF Waiting
<1>3. CASE s[k + 1] = "IAC"
  <2>1. Row(k + 1) = Row(k) \cup {k + 1}
    <3>1. ASSUME NEW i \in j..k
          PROVE  (\A m \in i..(k + 1) : s[m] = "IAC")
                    <=> (\A m \in i..k : s[m] = "IAC")
      BY <1>3
    <3>2. k + 1 \in Row(k + 1)
      BY <1>3
    <3>3. j..(k + 1) = (j..k) \cup {k + 1}
      OBVIOUS
    <3>4. QED
      BY <3>1, <3>2, <3>3
  <2>2. k + 1 \notin Row(k)
    OBVIOUS
  <2> HIDE DEF Row
  <2>3. Cardinality(Row(k + 1)) = Cardinality(Row(k)) + 1
    BY <1>1, <2>1, <2>2, FS_AddElement
  <2>4. Waiting(s, j, k + 1) <=> ~ Waiting(s, j, k)
    BY <1>1, <2>3 DEF Waiting, Row
  <2>5. QED
    BY <1>2, <1>3, <2>4
<1>4. CASE s[k + 1] # "IAC"
  <2>1. Row(k + 1) = {}
    <3>1. \A i \in j..(k + 1) : k + 1 \in i..(k + 1)
      OBVIOUS
    <3>2. QED
      BY <1>4, <3>1
  <2>2. ~ Waiting(s, j, k + 1)
    BY <2>1, FS_EmptySet DEF Waiting
  <2>3. QED
    BY <1>2, <1>4, <2>2
<1>5. QED
  BY <1>3, <1>4

LEMMA Longer ==
    ASSUME NEW s \in Seq(Bytes), NEW b \in Bytes
    PROVE  /\ Append(s, b) \in Seq(Bytes)
           /\ Len(s) \in Nat
           /\ Len(Append(s, b)) = Len(s) + 1
           /\ \A i \in 1..Len(s) : Append(s, b)[i] = s[i]
           /\ Append(s, b)[Len(s) + 1] = b
  OBVIOUS

LEMMA WaitingSame ==
    ASSUME NEW s \in Seq(Bytes), NEW b \in Bytes,
           NEW j \in Nat \ {0}, NEW k \in 0..Len(s)
    PROVE  Waiting(Append(s, b), j, k) <=> Waiting(s, j, k)
<1>1. \A m \in 1..k : Append(s, b)[m] = s[m]
  BY Longer
<1>2. ASSUME NEW i \in j..k
      PROVE  (\A m \in i..k : Append(s, b)[m] = "IAC")
                <=> (\A m \in i..k : s[m] = "IAC")
  <2>1. \A m \in i..k : m \in 1..k
    OBVIOUS
  <2>2. QED
    BY <1>1, <2>1
<1>3. {i \in j..k : \A m \in i..k : Append(s, b)[m] = "IAC"}
        = {i \in j..k : \A m \in i..k : s[m] = "IAC"}
  BY <1>2
<1>4. QED
  BY <1>3 DEF Waiting

LEMMA SaidSame ==
    ASSUME NEW s \in Seq(Bytes), NEW b \in Bytes,
           NEW j \in Nat \ {0}, NEW k \in Nat, k <= Len(s)
    PROVE  Said(Append(s, b), j, k) = Said(s, j, k)
<1>1. ASSUME NEW m \in j..k
      PROVE  /\ Append(s, b)[m] = s[m]
             /\ Waiting(Append(s, b), j, m) <=> Waiting(s, j, m)
             /\ Waiting(Append(s, b), j, m - 1) <=> Waiting(s, j, m - 1)
  <2>1. m \in 0..Len(s) /\ m - 1 \in 0..Len(s) /\ m \in 1..Len(s)
    BY Longer
  <2>2. QED
    BY <2>1, Longer, WaitingSame
<1>2. QED
  BY <1>1 DEF Said

\* What a subnegotiation says grows by a byte that follows no waiting IAC, and
\* by the second of two IACs.
LEMMA SaidGrows ==
    ASSUME NEW s \in Seq(Bytes), NEW b \in Bytes,
           NEW j \in Nat \ {0}, j <= Len(s) + 1
    PROVE  /\ Said(Append(s, b), j, Len(s) + 1) =
                Said(s, j, Len(s))
                    \cup IF (b = "IAC") <=> Waiting(s, j, Len(s))
                         THEN {Len(s) + 1} ELSE {}
           /\ Waiting(Append(s, b), j, Len(s) + 1)
                <=> b = "IAC" /\ ~ Waiting(s, j, Len(s))
           /\ Closes(Append(s, b), j, Len(s) + 1)
                <=> b = "SE" /\ Waiting(s, j, Len(s))
<1> DEFINE t == Append(s, b)
           N == Len(s)
<1>1. N \in Nat /\ t[N + 1] = b
  BY Longer
<1>2. Waiting(t, j, N) <=> Waiting(s, j, N)
  BY <1>1, WaitingSame
<1>3. Waiting(t, j, N + 1) <=> b = "IAC" /\ ~ Waiting(s, j, N)
  BY <1>1, <1>2, WaitingNext
<1>4. Closes(t, j, N + 1) <=> b = "SE" /\ Waiting(s, j, N)
  <2>1. (N + 1) - 1 = N
    BY <1>1
  <2> HIDE DEF t, N
  <2>2. QED
    BY <1>1, <1>2, <2>1 DEF Closes
<1>5. Said(t, j, N + 1)
        = Said(t, j, N) \cup IF (b = "IAC") <=> Waiting(s, j, N)
                             THEN {N + 1} ELSE {}
  <2>1. j..(N + 1) = (j..N) \cup {N + 1} /\ (N + 1) - 1 = N
    BY <1>1
  <2>2. N + 1 \in Said(t, j, N + 1)
            <=> (IF b = "IAC" THEN ~ Waiting(t, j, N + 1) ELSE ~ Waiting(t, j, N))
    <3> HIDE DEF t, N
    <3>1. QED
      BY <1>1, <2>1 DEF Said
  <2>3. N + 1 \in Said(t, j, N + 1) <=> ((b = "IAC") <=> Waiting(s, j, N))
    BY <1>2, <1>3, <2>2
  <2>4. \A m \in j..N : m \in Said(t, j, N + 1) <=> m \in Said(t, j, N)
    BY <2>1 DEF Said
  <2>5. Said(t, j, N + 1) \in SUBSET (j..(N + 1)) /\ Said(t, j, N) \in SUBSET (j..N)
    BY DEF Said
  <2> HIDE DEF t, N
  <2>6. QED
    BY <2>1, <2>3, <2>4, <2>5
<1>6. Said(t, j, N) = Said(s, j, N)
  BY <1>1, SaidSame
<1>7. QED
  BY <1>3, <1>4, <1>5, <1>6

LEMMA ItemSame ==
    ASSUME NEW s \in Seq(Bytes), NEW b \in Bytes,
           NEW i \in Nat \ {0}, NEW k \in i..Len(s)
    PROVE  Item(Append(s, b), i, k) <=> Item(s, i, k)
<1> DEFINE t == Append(s, b)
<1>1. /\ t[i] = s[i]
      /\ i < k => t[i + 1] = s[i + 1]
  BY Longer
<1>2. ASSUME NEW m \in (i + 3)..k
      PROVE  Closes(t, i + 2, m) <=> Closes(s, i + 2, m)
  <2>1. /\ m \in 1..Len(s) /\ m - 1 \in 0..Len(s) /\ i + 2 \in Nat \ {0}
    BY Longer
  <2>2. t[m] = s[m]
    BY <2>1, Longer
  <2>3. Waiting(t, i + 2, m - 1) <=> Waiting(s, i + 2, m - 1)
    BY <2>1, WaitingSame
  <2> HIDE DEF t
  <2>4. QED
    BY <2>2, <2>3 DEF Closes
<1>3. i + 2 < k => k \in (i + 3)..k
  OBVIOUS
<1>4. \A m \in (i + 3)..(k - 1) : m \in (i + 3)..k
  OBVIOUS
<1> HIDE DEF t
<1>5. CASE s[i] # "IAC"
  BY <1>1, <1>5 DEF Item
<1>6. CASE s[i] = "IAC" /\ ~ (i < k)
  BY <1>1, <1>6 DEF Item
<1>7. CASE s[i] = "IAC" /\ i < k
  <2>1. (/\ i + 2 < k
         /\ Closes(t, i + 2, k)
         /\ \A m \in (i + 3)..(k - 1) : ~ Closes(t, i + 2, m))
        <=> (/\ i + 2 < k
             /\ Closes(s, i + 2, k)
             /\ \A m \in (i + 3)..(k - 1) : ~ Closes(s, i + 2, m))
    BY <1>2, <1>3, <1>4
  <2>2. t[i] = s[i] /\ t[i + 1] = s[i + 1]
    BY <1>1, <1>7
  <2>3. QED
    BY <1>7, <2>1, <2>2 DEF Item, t
<1>8. QED
  BY <1>5, <1>6, <1>7 DEF t

\* An item has one end.
LEMMA ItemEnds ==
    ASSUME NEW s, NEW i \in Nat, NEW k \in Nat, NEW m \in Nat,
           Item(s, i, k), Item(s, i, m)
    PROVE  k = m
<1>1. CASE s[i] # "IAC"
  BY <1>1 DEF Item
<1>2. CASE s[i] = "IAC" /\ s[i + 1] # "SB"
  BY <1>2 DEF Item, Verbs
<1>3. CASE s[i] = "IAC" /\ s[i + 1] = "SB"
  <2>1. /\ i + 2 < k /\ i + 2 < m
        /\ Closes(s, i + 2, k) /\ Closes(s, i + 2, m)
        /\ \A q \in (i + 3)..(k - 1) : ~ Closes(s, i + 2, q)
        /\ \A q \in (i + 3)..(m - 1) : ~ Closes(s, i + 2, q)
    BY <1>3 DEF Item, Verbs
  <2>2. ~ (k < m) /\ ~ (m < k)
    BY <2>1
  <2>3. QED
    BY <2>2
<1>4. QED
  BY <1>1, <1>2, <1>3

LEMMA BeyondIs ==
    ASSUME NEW s \in Seq(Bytes), NEW i \in Nat \ {0}
    PROVE  /\ Beyond(s, i) \in Nat \ {0}
           /\ Beyond(s, i) >= i
           /\ i <= Len(s) + 1 => Beyond(s, i) <= Len(s) + 1
           /\ \A k \in i..Len(s) : Item(s, i, k) => Beyond(s, i) = k + 1
           /\ (\A k \in i..Len(s) : ~ Item(s, i, k)) => Beyond(s, i) = i
<1> DEFINE ends == {k \in i..Len(s) : Item(s, i, k)}
<1>1. Len(s) \in Nat
  OBVIOUS
<1>2. CASE ends = {}
  BY <1>1, <1>2 DEF Beyond
<1>3. CASE ends # {}
  <2>1. AnyOf(ends) \in ends
    BY <1>3, AnyOfIn
  <2>2. \A k \in i..Len(s) : Item(s, i, k) => k = AnyOf(ends)
    <3>1. AnyOf(ends) \in Nat /\ Item(s, i, AnyOf(ends))
      BY <1>1, <2>1
    <3>2. \A k \in i..Len(s) : k \in Nat
      BY <1>1
    <3> HIDE DEF ends
    <3>3. QED
      BY <3>1, <3>2, ItemEnds
  <2>3. Beyond(s, i) = AnyOf(ends) + 1
    BY <1>3 DEF Beyond
  <2> DEFINE e == AnyOf(ends)
  <2>4. e \in i..Len(s) /\ Item(s, i, e)
    BY <2>1
  <2> HIDE DEF e
  <2>5. Beyond(s, i) = e + 1
    BY <2>3 DEF e
  <2>6. \A k \in i..Len(s) : Item(s, i, k) => k = e
    BY <2>2 DEF e
  <2> HIDE DEF ends
  <2>7. QED
    BY <1>1, <2>4, <2>5, <2>6
<1>4. QED
  BY <1>2, <1>3

\* One more byte completes at most the items that end with it.
LEMMA BeyondGrows ==
    ASSUME NEW s \in Seq(Bytes), NEW b \in Bytes, NEW i \in Nat \ {0}
    PROVE  /\ Beyond(s, i) # i => Beyond(Append(s, b), i) = Beyond(s, i)
           /\ Beyond(s, i) = i =>
                Beyond(Append(s, b), i) =
                    IF i <= Len(s) + 1 /\ Item(Append(s, b), i, Len(s) + 1)
                    THEN Len(s) + 2 ELSE i
<1> DEFINE t == Append(s, b)
           N == Len(s)
<1>1. t \in Seq(Bytes) /\ Len(t) = N + 1 /\ N \in Nat
  BY Longer
<1>2. \A k \in i..N : Item(t, i, k) <=> Item(s, i, k)
  BY ItemSame
<1> HIDE DEF t
<1>3. ASSUME Beyond(s, i) # i
      PROVE  Beyond(t, i) = Beyond(s, i)
  <2>1. PICK k \in i..N : Item(s, i, k)
    BY <1>3, BeyondIs
  <2>2. k \in i..Len(t) /\ Item(t, i, k)
    BY <1>1, <1>2, <2>1
  <2>3. QED
    BY <1>1, <2>1, <2>2, BeyondIs
<1>4. ASSUME Beyond(s, i) = i
      PROVE  Beyond(t, i) = IF i <= N + 1 /\ Item(t, i, N + 1) THEN N + 2 ELSE i
  <2>1. \A k \in i..N : ~ Item(s, i, k)
    <3>1. ASSUME NEW k \in i..N, Item(s, i, k)
          PROVE  FALSE
      <4>1. Beyond(s, i) = k + 1
        BY <3>1, BeyondIs
      <4>2. QED
        BY <1>1, <1>4, <4>1
    <3>2. QED
      BY <3>1
  <2>2. CASE i <= N + 1 /\ Item(t, i, N + 1)
    <3>1. N + 1 \in i..Len(t)
      BY <1>1, <2>2
    <3>2. Beyond(t, i) = (N + 1) + 1
      BY <1>1, <2>2, <3>1, BeyondIs
    <3>3. QED
      BY <1>1, <2>2, <3>2
  <2>3. CASE ~ (i <= N + 1 /\ Item(t, i, N + 1))
    <3>1. \A k \in i..Len(t) : ~ Item(t, i, k)
      <4>1. \A k \in i..Len(t) : k \in i..N \/ (k = N + 1 /\ i <= N + 1)
        BY <1>1
      <4>2. QED
        BY <1>2, <2>1, <2>3, <4>1
    <3>2. QED
      BY <1>1, <2>3, <3>1, BeyondIs
  <2>4. QED
    BY <2>2, <2>3
<1>5. QED
  BY <1>3, <1>4 DEF t

-----------------------------------------------------------------------------
(***************************************************************************)
(* The places where items begin: the smallest set that has the first place *)
(* and the one beyond each of its own.                                     *)
(***************************************************************************)

LEMMA FrontsReached ==
    ASSUME NEW s \in Seq(Bytes)
    PROVE  \E f \in [Nat -> SUBSET (1..(Len(s) + 1))] :
                /\ f[0] = {1}
                /\ \A n \in Nat : f[n + 1] = {1} \cup {Beyond(s, i) : i \in f[n]}
                /\ Fronts(s) = f[Len(s)]
<1> DEFINE V == SUBSET (1..(Len(s) + 1))
           step(S) == {1} \cup {Beyond(s, i) : i \in S}
           g == [S \in V |-> step(S)]
           rec(f) == [n \in Nat |-> IF n = 0 THEN {1} ELSE step(f[n - 1])]
           reached == CHOOSE f : f = rec(f)
<1>1. Len(s) \in Nat
  OBVIOUS
<1>2. ASSUME NEW S \in V
      PROVE  step(S) \in V
  <2>1. \A i \in S : Beyond(s, i) \in 1..(Len(s) + 1)
    <3>1. \A i \in S : i \in Nat \ {0} /\ i <= Len(s) + 1
      BY <1>1
    <3>2. QED
      BY <1>1, <3>1, BeyondIs
  <2>2. 1 \in 1..(Len(s) + 1)
    BY <1>1
  <2>3. QED
    BY <2>1, <2>2
<1>3. g \in [V -> V] /\ {1} \in V
  <2>1. {1} \in V
    BY <1>1
  <2> HIDE DEF V, step
  <2>2. QED
    BY <1>2, <2>1
<1>4. PICK f \in [Nat -> V] : f[0] = {1} /\ \A n \in Nat : f[n + 1] = g[f[n]]
  <2> DEFINE one == {1}
  <2>1. g \in [V -> V] /\ one \in V
    BY <1>3
  <2> HIDE DEF V, g, one
  <2>2. \E f : Repeated(V, one, g, f)
    BY <2>1, RepeatedForever
  <2>3. QED
    BY <2>2 DEF one, Repeated
<1>5. \A n \in Nat : f[n + 1] = step(f[n])
  <2>1. \A n \in Nat : f[n] \in V
    BY <1>4
  <2> HIDE DEF V, step
  <2>2. QED
    BY <1>4, <2>1
<1>6. f = rec(f)
  <2>1. ASSUME NEW n \in Nat
        PROVE  f[n] = IF n = 0 THEN {1} ELSE step(f[n - 1])
    <3>1. CASE n = 0
      BY <1>4, <3>1
    <3>2. CASE n # 0
      <4>1. n - 1 \in Nat /\ (n - 1) + 1 = n
        BY <3>2
      <4> HIDE DEF step
      <4>2. QED
        BY <1>5, <3>2, <4>1
    <3>3. QED
      BY <3>1, <3>2
  <2> HIDE DEF V, step
  <2>2. QED
    BY <1>4, <2>1
<1>7. reached = rec(reached)
  <2> HIDE DEF rec
  <2>1. QED
    BY <1>6
<1>8. Fronts(s) = reached[Len(s)]
  BY Zenon DEF Fronts
<1>9. \A n \in Nat : reached[n] = IF n = 0 THEN {1} ELSE step(reached[n - 1])
  <2> HIDE DEF reached, step
  <2>1. QED
    BY <1>7
<1> HIDE DEF reached, step, V
<1>10. \A n \in Nat : reached[n] = f[n]
  <2> DEFINE same == {n \in Nat : reached[n] = f[n]}
  <2>1. 0 \in same
    BY <1>4, <1>9
  <2>2. ASSUME NEW n \in same
        PROVE  n + 1 \in same
    <3>1. reached[n + 1] = step(reached[n])
      <4>1. n + 1 \in Nat /\ n + 1 # 0 /\ (n + 1) - 1 = n
        OBVIOUS
      <4>2. QED
        BY <1>9, <4>1
    <3>2. n \in Nat /\ n + 1 \in Nat /\ reached[n] = f[n]
      OBVIOUS
    <3>3. step(reached[n]) = step(f[n])
      BY <3>2
    <3>4. reached[n + 1] = f[n + 1]
      BY <1>5, <3>1, <3>2, <3>3
    <3>5. QED
      BY <3>2, <3>4
  <2>3. same = Nat
    <3>1. same \in SUBSET Nat
      OBVIOUS
    <3> HIDE DEF same
    <3>2. QED
      BY <2>1, <2>2, <3>1, AllNumbers
  <2>4. QED
    BY <2>3
<1>11. QED
  BY <1>1, <1>4, <1>5, <1>8, <1>10 DEF step, V

LEMMA FrontsIs ==
    ASSUME NEW s \in Seq(Bytes)
    PROVE  /\ Fronts(s) \in SUBSET (1..(Len(s) + 1))
           /\ 1 \in Fronts(s)
           /\ \A i \in Fronts(s) : Beyond(s, i) \in Fronts(s)
           /\ \A S : 1 \in S /\ (\A i \in S : Beyond(s, i) \in S)
                        => Fronts(s) \subseteq S
<1> DEFINE N == Len(s)
           W == 1..(N + 1)
<1>1. N \in Nat
  OBVIOUS
<1>2. PICK f \in [Nat -> SUBSET W] :
            /\ f[0] = {1}
            /\ \A n \in Nat : f[n + 1] = {1} \cup {Beyond(s, i) : i \in f[n]}
            /\ Fronts(s) = f[N]
  BY FrontsReached
<1>3. \A n \in Nat : f[n] \in SUBSET W /\ \A i \in f[n] : i \in Nat \ {0} /\ i <= N + 1
  BY <1>1, <1>2
<1> HIDE DEF N, W
<1>4. \A n \in Nat : 1 \in f[n]
  <2>1. ASSUME NEW n \in Nat
        PROVE  1 \in f[n]
    <3>1. CASE n = 0
      BY <1>2, <3>1
    <3>2. CASE n # 0
      <4>1. n - 1 \in Nat /\ (n - 1) + 1 = n
        BY <3>2
      <4>2. QED
        BY <1>2, <4>1
    <3>3. QED
      BY <3>1, <3>2
  <2>2. QED
    BY <2>1
<1>5. \A n \in Nat : f[n] \subseteq f[n + 1]
  <2> DEFINE grows == {n \in Nat : f[n] \subseteq f[n + 1]}
  <2>1. 0 \in grows
    BY <1>2
  <2>2. ASSUME NEW n \in grows
        PROVE  n + 1 \in grows
    <3>1. n + 1 \in Nat /\ f[n] \subseteq f[n + 1]
      OBVIOUS
    <3>2. f[(n + 1) + 1] = {1} \cup {Beyond(s, i) : i \in f[n + 1]}
      BY <1>2, <3>1
    <3>3. f[n + 1] = {1} \cup {Beyond(s, i) : i \in f[n]}
      BY <1>2
    <3>4. f[n + 1] \subseteq f[(n + 1) + 1]
      BY <3>1, <3>2, <3>3
    <3>5. QED
      BY <3>1, <3>4
  <2>3. grows = Nat
    <3>1. grows \in SUBSET Nat
      OBVIOUS
    <3> HIDE DEF grows
    <3>2. QED
      BY <2>1, <2>2, <3>1, AllNumbers
  <2>4. QED
    BY <2>3
<1>6. \A n \in Nat : \A i \in f[n + 1] : i \in f[n] \/ i >= n + 2
  <2> DEFINE apart == {n \in Nat : \A i \in f[n + 1] : i \in f[n] \/ i >= n + 2}
  <2>1. 0 \in apart
    <3>1. \A i \in f[0 + 1] : i = 1 \/ i = Beyond(s, 1)
      BY <1>2
    <3>2. Beyond(s, 1) \in Nat /\ Beyond(s, 1) >= 1
      BY BeyondIs
    <3>3. \A i \in f[0 + 1] : i \in f[0] \/ i >= 0 + 2
      BY <1>2, <3>1, <3>2
    <3>4. QED
      BY <3>3
  <2>2. ASSUME NEW n \in apart
        PROVE  n + 1 \in apart
    <3>1. n + 1 \in Nat /\ \A i \in f[n + 1] : i \in f[n] \/ i >= n + 2
      OBVIOUS
    <3>2. ASSUME NEW i \in f[(n + 1) + 1]
          PROVE  i \in f[n + 1] \/ i >= (n + 1) + 2
      <4>1. i = 1 \/ \E j \in f[n + 1] : i = Beyond(s, j)
        <5>1. f[(n + 1) + 1] = {1} \cup {Beyond(s, j) : j \in f[n + 1]}
          BY <1>2, <3>1
        <5>2. QED
          BY <3>2, <5>1
      <4>2. CASE i = 1
        BY <1>4, <3>1, <4>2
      <4>3. ASSUME NEW j \in f[n + 1], i = Beyond(s, j)
            PROVE  i \in f[n + 1] \/ i >= (n + 1) + 2
        <5>1. j \in Nat \ {0}
          BY <1>3, <3>1
        <5>2. i \in Nat /\ i >= j
          BY <4>3, <5>1, BeyondIs
        <5>3. CASE j \in f[n]
          <6>1. i \in f[n + 1]
            BY <1>2, <4>3, <5>3
          <6>2. QED
            BY <6>1
        <5>4. CASE i = j
          BY <4>3, <5>4
        <5>5. CASE j >= n + 2 /\ i # j
          BY <5>1, <5>2, <5>5
        <5>6. QED
          BY <3>1, <5>3, <5>4, <5>5
      <4>4. QED
        BY <4>1, <4>2, <4>3
    <3>3. QED
      BY <3>1, <3>2
  <2>3. apart = Nat
    <3>1. apart \in SUBSET Nat
      OBVIOUS
    <3> HIDE DEF apart
    <3>2. QED
      BY <2>1, <2>2, <3>1, AllNumbers
  <2>4. QED
    BY <2>3
<1>7. f[N + 1] \subseteq f[N]
  <2>1. N + 1 \in Nat
    BY <1>1
  <2>2. \A i \in f[N + 1] : i \in Nat /\ i <= N + 1
    BY <1>3, <2>1
  <2>3. \A i \in f[N + 1] : ~ (i >= N + 2)
    BY <1>1, <2>2
  <2>4. QED
    BY <1>1, <1>6, <2>3
<1>8. \A i \in Fronts(s) : Beyond(s, i) \in Fronts(s)
  <2>1. f[N + 1] = {1} \cup {Beyond(s, i) : i \in f[N]}
    BY <1>1, <1>2
  <2>2. QED
    BY <1>2, <1>7, <2>1
<1>9. ASSUME NEW S, 1 \in S, \A i \in S : Beyond(s, i) \in S
      PROVE  Fronts(s) \subseteq S
  <2> DEFINE within == {n \in Nat : f[n] \subseteq S}
  <2>1. 0 \in within
    BY <1>2, <1>9
  <2>2. ASSUME NEW n \in within
        PROVE  n + 1 \in within
    <3>1. f[n + 1] = {1} \cup {Beyond(s, i) : i \in f[n]}
      BY <1>2
    <3>2. f[n + 1] \subseteq S
      BY <1>9, <3>1
    <3>3. QED
      BY <3>2
  <2>3. within = Nat
    <3>1. within \in SUBSET Nat
      OBVIOUS
    <3> HIDE DEF within
    <3>2. QED
      BY <2>1, <2>2, <3>1, AllNumbers
  <2>4. QED
    BY <1>1, <1>2, <2>3
<1>10. QED
  BY <1>1, <1>2, <1>3, <1>4, <1>8, <1>9 DEF N, W

\* The one place, after all others, where an item begins that is not complete.
Pending(s, A) ==
    /\ A \in Fronts(s)
    /\ Beyond(s, A) = A
    /\ \A i \in Fronts(s) \ {A} : Beyond(s, i) # i /\ i < A

LEMMA FirstPending == Pending(<<>>, 1) /\ Items(<<>>) = {}
<1> DEFINE s == <<>>
<1>1. s \in Seq(Bytes) /\ Len(s) = 0
  OBVIOUS
<1>2. Items(s) = {}
  BY <1>1 DEF Items
<1> HIDE DEF s
<1>3. Fronts(s) = {1}
  <2>1. 1 \in Fronts(s) /\ Fronts(s) \in SUBSET (1..(Len(s) + 1))
    BY <1>1, FrontsIs
  <2>2. QED
    BY <1>1, <2>1
<1>4. Beyond(s, 1) = 1
  <2>1. 1 \in Nat \ {0} /\ \A k \in 1..Len(s) : ~ Item(s, 1, k)
    BY <1>1
  <2>2. QED
    BY <1>1, <2>1, BeyondIs
<1>5. QED
  BY <1>2, <1>3, <1>4 DEF Pending, s

LEMMA FrontsGrow ==
    ASSUME NEW s \in Seq(Bytes), NEW b \in Bytes, NEW A, Pending(s, A),
           NEW done \in BOOLEAN, done <=> Item(Append(s, b), A, Len(s) + 1)
    PROVE  /\ Fronts(Append(s, b))
                = Fronts(s) \cup IF done THEN {Len(s) + 2} ELSE {}
           /\ Pending(Append(s, b), IF done THEN Len(s) + 2 ELSE A)
<1> DEFINE t == Append(s, b)
           N == Len(s)
           F == Fronts(s) \cup IF done THEN {N + 2} ELSE {}
<1>1. t \in Seq(Bytes) /\ Len(t) = N + 1 /\ N \in Nat
  BY Longer
<1>2. Fronts(s) \in SUBSET (1..(N + 1)) /\ A \in Fronts(s) /\ A \in 1..(N + 1)
  BY FrontsIs DEF Pending
<1>3. \A i \in Fronts(s) \ {A} : Beyond(t, i) = Beyond(s, i)
  <2>1. \A i \in Fronts(s) \ {A} : i \in Nat \ {0} /\ Beyond(s, i) # i
    BY <1>1, <1>2 DEF Pending
  <2>2. QED
    BY <2>1, BeyondGrows
<1>4. Beyond(t, A) = IF done THEN N + 2 ELSE A
  <2>1. A \in Nat \ {0} /\ A <= N + 1 /\ Beyond(s, A) = A
    BY <1>1, <1>2 DEF Pending
  <2>2. QED
    BY <2>1, BeyondGrows
<1>5. Beyond(t, N + 2) = N + 2
  <2>1. N + 2 \in Nat \ {0} /\ \A k \in (N + 2)..Len(t) : ~ Item(t, N + 2, k)
    BY <1>1
  <2>2. QED
    BY <1>1, <2>1, BeyondIs
<1>6. Fronts(t) \subseteq F
  <2>1. 1 \in F
    BY FrontsIs
  <2>2. \A i \in F : Beyond(t, i) \in F
    <3>1. \A i \in Fronts(s) \ {A} : Beyond(t, i) \in Fronts(s)
      BY <1>3, FrontsIs
    <3>2. Beyond(t, A) \in F
      BY <1>2, <1>4
    <3>3. QED
      BY <1>5, <3>1, <3>2
  <2> HIDE DEF F, t
  <2>3. QED
    BY <1>1, <2>1, <2>2, FrontsIs
<1>7. Fronts(s) \subseteq Fronts(t)
  <2>1. 1 \in Fronts(t) /\ Fronts(t) \in SUBSET (1..(N + 2))
    <3>1. 1 \in Fronts(t) /\ Fronts(t) \in SUBSET (1..(Len(t) + 1))
      BY <1>1, FrontsIs
    <3>2. Len(t) + 1 = N + 2
      BY <1>1
    <3> HIDE DEF t, N
    <3>3. QED
      BY <3>1, <3>2
  <2>2. ASSUME NEW i \in Fronts(t)
        PROVE  Beyond(s, i) \in Fronts(t)
    <3>1. i \in Nat \ {0}
      BY <1>1, <2>1
    <3>2. Beyond(s, i) # i => Beyond(t, i) = Beyond(s, i)
      BY <3>1, BeyondGrows
    <3>3. Beyond(t, i) \in Fronts(t)
      BY <1>1, FrontsIs
    <3>4. QED
      BY <3>2, <3>3
  <2> HIDE DEF t
  <2>3. QED
    BY <2>1, <2>2, FrontsIs
<1>8. Fronts(t) = F
  <2>1. Beyond(t, A) \in Fronts(t)
    BY <1>1, <1>2, <1>7, FrontsIs
  <2> HIDE DEF t
  <2>2. F \subseteq Fronts(t)
    BY <1>4, <1>7, <2>1
  <2> HIDE DEF F
  <2>3. QED
    BY <1>6, <2>2
<1> HIDE DEF t
<1>9. Pending(t, IF done THEN N + 2 ELSE A)
  <2>1. \A i \in Fronts(s) \ {A} : Beyond(t, i) # i /\ i < A /\ i \in Nat
    BY <1>1, <1>2, <1>3 DEF Pending
  <2>2. CASE done
    <3>1. \A i \in Fronts(t) \ {N + 2} : Beyond(t, i) # i /\ i < N + 2
      <4>1. \A i \in Fronts(t) \ {N + 2} : i = A \/ i \in Fronts(s) \ {A}
        BY <1>8
      <4>2. Beyond(t, A) # A /\ A < N + 2
        BY <1>1, <1>2, <1>4, <2>2
      <4>3. QED
        BY <1>1, <1>2, <2>1, <4>1, <4>2
    <3>2. QED
      BY <1>5, <1>8, <2>2, <3>1 DEF Pending
  <2>3. CASE ~ done
    BY <1>2, <1>4, <1>8, <2>1, <2>3 DEF Pending
  <2>4. QED
    BY <2>2, <2>3
<1>10. QED
  BY <1>8, <1>9 DEF t

LEMMA ItemsAre ==
    ASSUME NEW s \in Seq(Bytes)
    PROVE  /\ Items(s) \in SUBSET ((1..(Len(s) + 1)) \X (1..Len(s)))
           /\ \A i, k : <<i, k>> \in Items(s)
                    <=> i \in Fronts(s) /\ k \in 1..Len(s) /\ i <= k /\ Item(s, i, k)
  BY FrontsIs DEF Items

LEMMA ItemsGrow ==
    ASSUME NEW s \in Seq(Bytes), NEW b \in Bytes, NEW A, Pending(s, A),
           NEW done \in BOOLEAN, done <=> Item(Append(s, b), A, Len(s) + 1)
    PROVE  Items(Append(s, b))
                = Items(s) \cup IF done THEN {<<A, Len(s) + 1>>} ELSE {}
<1> DEFINE t == Append(s, b)
           N == Len(s)
           new == Items(s) \cup IF done THEN {<<A, N + 1>>} ELSE {}
<1>1. t \in Seq(Bytes) /\ Len(t) = N + 1 /\ N \in Nat
  BY Longer
<1>2. Fronts(s) \in SUBSET (1..(N + 1)) /\ A \in Fronts(s) /\ A \in 1..(N + 1)
  BY FrontsIs DEF Pending
<1>3. Fronts(t) = Fronts(s) \cup IF done THEN {N + 2} ELSE {}
  BY FrontsGrow
<1>4. \A i \in Fronts(s) : \A k \in i..N : Item(t, i, k) <=> Item(s, i, k)
  <2>1. \A i \in Fronts(s) : i \in Nat \ {0}
    BY <1>1, <1>2
  <2>2. QED
    BY <2>1, ItemSame
<1>5. ASSUME NEW i \in Fronts(s) \ {A}
      PROVE  ~ Item(t, i, N + 1)
  <2>1. i \in Nat \ {0} /\ Beyond(s, i) # i
    BY <1>1, <1>2 DEF Pending
  <2>2. PICK k \in i..N : Item(s, i, k)
    BY <2>1, BeyondIs
  <2>3. Item(t, i, k) /\ k \in Nat /\ N + 1 \in Nat /\ k # N + 1
    BY <1>1, <1>4, <2>1, <2>2
  <2> HIDE DEF t, N
  <2>4. QED
    BY <2>1, <2>3, ItemEnds
<1> HIDE DEF t
<1>6. ASSUME NEW i, NEW k
      PROVE  <<i, k>> \in Items(t) <=> <<i, k>> \in new
  <2>1. <<i, k>> \in Items(t)
            <=> i \in Fronts(t) /\ k \in 1..(N + 1) /\ i <= k /\ Item(t, i, k)
    BY <1>1, ItemsAre
  <2>2. <<i, k>> \in Items(s)
            <=> i \in Fronts(s) /\ k \in 1..N /\ i <= k /\ Item(s, i, k)
    BY ItemsAre
  <2>3. <<i, k>> \in new <=> <<i, k>> \in Items(s) \/ (done /\ i = A /\ k = N + 1)
    BY DEF new
  <2>4. CASE k \in 1..N
    <3>1. k # N + 1 /\ k \in 1..(N + 1) /\ (i = N + 2 => ~ (i <= k))
      BY <1>1, <2>4
    <3>2. i \in Fronts(s) /\ i <= k => k \in i..N
      BY <1>1, <1>2, <2>4
    <3>3. QED
      BY <1>3, <1>4, <2>1, <2>2, <2>3, <2>4, <3>1, <3>2
  <2>5. CASE k = N + 1
    <3>1. k \notin 1..N /\ k \in 1..(N + 1) /\ (i = N + 2 => ~ (i <= k)) /\ A <= k
      BY <1>1, <1>2, <2>5
    <3>2. Item(t, A, N + 1) <=> done
      BY DEF t
    <3> HIDE DEF N
    <3>3. QED
      BY <1>2, <1>3, <1>5, <2>1, <2>2, <2>3, <2>5, <3>1, <3>2
  <2>6. CASE k \notin 1..N /\ k # N + 1
    <3>1. k \notin 1..(N + 1)
      BY <1>1, <2>6
    <3>2. QED
      BY <2>1, <2>2, <2>3, <2>6, <3>1
  <2>7. QED
    BY <2>4, <2>5, <2>6
<1>7. \A e \in Items(t) : e = <<e[1], e[2]>>
  BY <1>1, ItemsAre
<1>8. \A e \in new : e = <<e[1], e[2]>>
  BY ItemsAre
<1> HIDE DEF new
<1>9. Items(t) = new
  BY <1>6, <1>7, <1>8
<1>10. QED
  BY <1>9 DEF t, new

-----------------------------------------------------------------------------
(***************************************************************************)
(* What the items say, and what one more item adds to it.                  *)
(***************************************************************************)

\* A value for each number of a set, in the order of the numbers.
InOrder(F, S) == [n \in DOMAIN Ascending(S) |-> F[Ascending(S)[n]]]

Adds(g, f, v) == g = Append(f, v)

LEMMA InOrderGrows ==
    ASSUME NEW N \in Nat, NEW S \in SUBSET (1..N), NEW F, NEW G,
           \A k \in S : G[k] = F[k]
    PROVE  /\ InOrder(G, S) = InOrder(F, S)
           /\ Adds(InOrder(G, S \cup {N + 1}), InOrder(F, S), G[N + 1])
           /\ \A X : (\A k \in S : F[k] \in X) => InOrder(F, S) \in Seq(X)
           /\ Len(InOrder(F, S)) = Cardinality(S)
           /\ Cardinality(S) \in Nat
<1> DEFINE c == Cardinality(S)
           a == Ascending(S)
<1>1. c \in Nat /\ a \in Seq(S) /\ Len(a) = c /\ DOMAIN a = 1..c
  <2>1. c \in Nat /\ a \in Seq(S) /\ Len(a) = c
    BY AscendingIsSeq
  <2> HIDE DEF a, c
  <2>2. QED
    BY <2>1
<1>2. Ascending(S \cup {N + 1}) = Append(a, N + 1)
  BY AscendingAppend
<1>3. \A n \in 1..c : a[n] \in S
  <2> HIDE DEF a, c
  <2>1. QED
    BY <1>1
<1>4. InOrder(F, S) = [n \in 1..c |-> F[a[n]]] /\ InOrder(G, S) = [n \in 1..c |-> G[a[n]]]
  <2>1. InOrder(F, S) = [n \in DOMAIN a |-> F[a[n]]]
        /\ InOrder(G, S) = [n \in DOMAIN a |-> G[a[n]]]
    BY Zenon DEF InOrder
  <2> HIDE DEF a, c
  <2>2. QED
    BY <1>1, <2>1
<1>5. InOrder(G, S \cup {N + 1}) = [n \in 1..(c + 1) |-> G[Append(a, N + 1)[n]]]
  <2>1. DOMAIN Append(a, N + 1) = 1..(c + 1)
    <3> HIDE DEF a, c
    <3>1. QED
      BY <1>1
  <2> HIDE DEF a, c
  <2>2. QED
    BY <1>2, <2>1 DEF InOrder
<1>6. \A n \in 1..(c + 1) : Append(a, N + 1)[n] = IF n = c + 1 THEN N + 1 ELSE a[n]
  <2> HIDE DEF a, c
  <2>1. QED
    BY <1>1
<1> HIDE DEF a, c
<1>7. InOrder(G, S) = InOrder(F, S)
  BY <1>3, <1>4
<1>8. ASSUME NEW X, \A k \in S : F[k] \in X
      PROVE  InOrder(F, S) \in Seq(X)
  <2>1. \A n \in 1..c : F[a[n]] \in X
    BY <1>3, <1>8
  <2>2. [n \in 1..c |-> F[a[n]]] \in [1..c -> X]
    BY <2>1
  <2>3. QED
    BY <1>1, <1>4, <2>2
<1> DEFINE X == {F[k] : k \in S} \cup {G[N + 1]}
           f == InOrder(F, S)
<1>9. f \in Seq(X) /\ Len(f) = c
  <2>1. f \in Seq(X)
    BY <1>8
  <2>2. QED
    BY <1>1, <1>4
<1>10. InOrder(G, S \cup {N + 1}) = Append(f, G[N + 1])
  <2> DEFINE y == G[N + 1]
  <2>1. y \in X
    OBVIOUS
  <2> HIDE DEF X, f
  <2>2. Append(f, y) = [n \in 1..(c + 1) |-> IF n = c + 1 THEN y ELSE f[n]]
    BY <1>1, <1>9, <2>1
  <2>3. \A n \in 1..(c + 1) :
            G[Append(a, N + 1)[n]] = IF n = c + 1 THEN y ELSE f[n]
    <3>1. \A n \in 1..c : f[n] = G[a[n]]
      BY <1>4, <1>7 DEF f
    <3>2. \A n \in 1..(c + 1) : n # c + 1 => n \in 1..c
      BY <1>1
    <3>3. QED
      BY <1>6, <3>1, <3>2
  <2> HIDE DEF y
  <2>4. InOrder(G, S \cup {N + 1}) = Append(f, y)
    BY <1>5, <2>2, <2>3
  <2>5. QED
    BY <2>4 DEF y
<1>11. QED
  BY <1>1, <1>7, <1>8, <1>9, <1>10 DEF f, c, Adds

LEMMA BytesGrow ==
    ASSUME NEW s \in Seq(Bytes), NEW b \in Bytes, NEW S \in SUBSET (1..Len(s))
    PROVE  /\ BytesAt(s, S) \in Seq(Bytes)
           /\ Len(BytesAt(s, S)) = Cardinality(S)
           /\ Cardinality(S) \in Nat
           /\ Cardinality(S \cup {Len(s) + 1}) = Cardinality(S) + 1
           /\ BytesAt(Append(s, b), S) = BytesAt(s, S)
           /\ BytesAt(Append(s, b), S \cup {Len(s) + 1}) = Append(BytesAt(s, S), b)
<1> DEFINE t == Append(s, b)
           N == Len(s)
<1>1. N \in Nat /\ t[N + 1] = b /\ \A k \in S : t[k] = s[k]
  BY Longer
<1>2. \A k \in S : s[k] \in Bytes
  OBVIOUS
<1>3. Cardinality(S) \in Nat /\ Cardinality(S \cup {N + 1}) = Cardinality(S) + 1
  BY <1>1, AscendingIsSeq, AscendingAppend
<1>4. /\ DOMAIN Ascending(S) = 1..Cardinality(S)
      /\ DOMAIN Ascending(S \cup {N + 1}) = 1..Cardinality(S \cup {N + 1})
  BY DEF Ascending
<1> HIDE DEF t, N
<1>5. /\ BytesAt(s, S) = InOrder(s, S)
      /\ BytesAt(t, S) = InOrder(t, S)
      /\ BytesAt(t, S \cup {N + 1}) = InOrder(t, S \cup {N + 1})
  BY <1>4 DEF BytesAt, InOrder
<1>6. /\ InOrder(t, S) = InOrder(s, S)
      /\ InOrder(t, S \cup {N + 1}) = Append(InOrder(s, S), t[N + 1])
      /\ InOrder(s, S) \in Seq(Bytes)
      /\ Len(InOrder(s, S)) = Cardinality(S)
  <2>1. S \in SUBSET (1..N)
    BY DEF N
  <2>2. /\ InOrder(t, S) = InOrder(s, S)
        /\ Adds(InOrder(t, S \cup {N + 1}), InOrder(s, S), t[N + 1])
        /\ \A X : (\A k \in S : s[k] \in X) => InOrder(s, S) \in Seq(X)
        /\ Len(InOrder(s, S)) = Cardinality(S)
    BY <1>1, <2>1, InOrderGrows
  <2>3. QED
    BY <1>2, <2>2 DEF Adds
<1>7. QED
  BY <1>1, <1>3, <1>5, <1>6 DEF t, N

\* Items that lie within a stream of length N.
Within(items, N) ==
    items \in SUBSET ((1..(N + 1)) \X (1..N)) /\ \A e \in items : e[1] <= e[2]

\* The same items, and one more that ends the stream.
WithLast(new, items, A, N) ==
    /\ N \in Nat /\ Within(items, N) /\ A \in 1..(N + 1)
    /\ new = items \cup {<<A, N + 1>>}

LEMMA EndsGrow ==
    ASSUME NEW N, NEW items, NEW A, NEW new, WithLast(new, items, A, N)
    PROVE  /\ Ends(items) \in SUBSET (1..N)
           /\ Ends(new) = Ends(items) \cup {N + 1}
           /\ \A k \in 1..N : BeginOf(new, k) = BeginOf(items, k)
           /\ \A k \in Ends(items) : BeginOf(items, k) \in 1..k
           /\ BeginOf(new, N + 1) = A
<1>0. /\ N \in Nat /\ Within(items, N) /\ A \in 1..(N + 1)
      /\ new = items \cup {<<A, N + 1>>}
  BY DEF WithLast
<1>1. Ends(items) \in SUBSET (1..N) /\ Ends(new) = Ends(items) \cup {N + 1}
  <2>1. \A e \in items : e[2] \in 1..N
    BY <1>0 DEF Within
  <2> DEFINE last == <<A, N + 1>>
  <2>3. last[2] = N + 1 /\ new = items \cup {last}
    BY <1>0
  <2> HIDE DEF last
  <2>4. QED
    BY <2>1, <2>3 DEF Ends
<1>2. ASSUME NEW k \in 1..N
      PROVE  BeginOf(new, k) = BeginOf(items, k)
  <2>1. \A i \in 1..k : <<i, k>> \in new <=> <<i, k>> \in items
    BY <1>0 DEF Within
  <2>2. {i \in 1..k : <<i, k>> \in new} = {i \in 1..k : <<i, k>> \in items}
    BY <2>1
  <2>3. QED
    BY <2>2 DEF BeginOf
<1>3. ASSUME NEW k \in Ends(items)
      PROVE  BeginOf(items, k) \in 1..k
  <2>1. PICK e \in items : k = e[2]
    BY DEF Ends
  <2>2. e[1] \in 1..k /\ <<e[1], k>> \in items
    BY <1>0, <2>1 DEF Within
  <2>3. {i \in 1..k : <<i, k>> \in items} # {}
    BY <2>2
  <2>4. QED
    BY <2>3, AnyOfIn DEF BeginOf
<1>4. BeginOf(new, N + 1) = A
  <2>1. \A i : <<i, N + 1>> \in new <=> i = A
    BY <1>0 DEF Within
  <2>2. {i \in 1..(N + 1) : <<i, N + 1>> \in new} = {A}
    BY <1>0, <2>1
  <2>3. QED
    BY <1>0, <2>2, OnlyOne DEF BeginOf
<1>5. QED
  BY <1>1, <1>2, <1>3, <1>4

LEMMA TextsGrow ==
    ASSUME NEW s \in Seq(Bytes), NEW b \in Bytes, NEW items,
           NEW A, NEW new, WithLast(new, items, A, Len(s))
    PROVE  LET t == Append(s, b)
               N == Len(s)
           IN  /\ TextPlaces(s, items) \in SUBSET (1..N)
               /\ TextPlaces(t, items) = TextPlaces(s, items)
               /\ TextPlaces(t, new) =
                    TextPlaces(s, items)
                        \cup IF A = N + 1 \/ (A = N /\ b = "IAC")
                             THEN {N + 1} ELSE {}
<1> DEFINE t == Append(s, b)
           N == Len(s)
           Does(r, its, k) == \/ BeginOf(its, k) = k
                              \/ BeginOf(its, k) = k - 1 /\ r[k] = "IAC"
<1>1. /\ N \in Nat /\ (\A k \in 1..N : t[k] = s[k]) /\ t[N + 1] = b
      /\ Within(items, N) /\ A \in 1..(N + 1) /\ WithLast(new, items, A, N)
  BY Longer DEF WithLast
<1>2. /\ Ends(items) \in SUBSET (1..N)
      /\ Ends(new) = Ends(items) \cup {N + 1}
      /\ \A k \in 1..N : BeginOf(new, k) = BeginOf(items, k)
      /\ BeginOf(new, N + 1) = A
  <2> HIDE DEF t, N
  <2>1. QED
    BY <1>1, EndsGrow
<1> HIDE DEF t, N
<1>3. \A k \in Ends(items) : (Does(t, items, k) <=> Does(s, items, k))
                          /\ (Does(t, new, k) <=> Does(s, items, k))
  BY <1>1, <1>2
<1>4. Does(t, new, N + 1) <=> A = N + 1 \/ (A = N /\ b = "IAC")
  BY <1>1, <1>2
<1>5. \A r, its : TextPlaces(r, its) = {k \in Ends(its) : Does(r, its, k)}
  BY DEF TextPlaces
<1> HIDE DEF Does
<1>6. TextPlaces(t, items) = TextPlaces(s, items)
  BY <1>3, <1>5
<1>7. TextPlaces(s, items) \in SUBSET (1..N)
  BY <1>2, <1>5
<1>8. TextPlaces(t, new) = TextPlaces(s, items)
            \cup IF A = N + 1 \/ (A = N /\ b = "IAC") THEN {N + 1} ELSE {}
  BY <1>2, <1>3, <1>4, <1>5
<1>9. QED
  BY <1>6, <1>7, <1>8 DEF t, N

LEMMA AnsweredGrow ==
    ASSUME NEW s \in Seq(Bytes), NEW b \in Bytes, NEW items,
           NEW A, NEW new, WithLast(new, items, A, Len(s))
    PROVE  LET t == Append(s, b)
               N == Len(s)
           IN  /\ Answered(s, items) \in SUBSET (1..N)
               /\ \A k \in Answered(s, items) : ReplyAt(t, k) = ReplyAt(s, k)
               /\ Answered(t, items) = Answered(s, items)
               /\ Answered(t, new) =
                    Answered(s, items)
                        \cup IF A = N - 1 /\ ReplyAt(t, N + 1) # <<>>
                             THEN {N + 1} ELSE {}
<1> DEFINE t == Append(s, b)
           N == Len(s)
           Does(r, its, k) == BeginOf(its, k) = k - 2 /\ ReplyAt(r, k) # <<>>
<1>1. /\ N \in Nat /\ (\A k \in 1..N : t[k] = s[k]) /\ t[N + 1] = b
      /\ Within(items, N) /\ A \in 1..(N + 1) /\ WithLast(new, items, A, N)
  BY Longer DEF WithLast
<1>2. /\ Ends(items) \in SUBSET (1..N)
      /\ Ends(new) = Ends(items) \cup {N + 1}
      /\ \A k \in 1..N : BeginOf(new, k) = BeginOf(items, k)
      /\ \A k \in Ends(items) : BeginOf(items, k) \in 1..k
      /\ BeginOf(new, N + 1) = A
  <2> HIDE DEF t, N
  <2>1. QED
    BY <1>1, EndsGrow
<1> HIDE DEF t, N
<1>3. \A k \in Ends(items) : BeginOf(items, k) = k - 2 => ReplyAt(t, k) = ReplyAt(s, k)
  <2>1. ASSUME NEW k \in Ends(items), BeginOf(items, k) = k - 2
        PROVE  k \in 1..N /\ k - 1 \in 1..N
    BY <1>1, <1>2, <2>1
  <2>2. QED
    BY <1>1, <2>1 DEF ReplyAt
<1>4. \A k \in Ends(items) : (Does(t, items, k) <=> Does(s, items, k))
                          /\ (Does(t, new, k) <=> Does(s, items, k))
  BY <1>2, <1>3
<1>5. Does(t, new, N + 1) <=> A = N - 1 /\ ReplyAt(t, N + 1) # <<>>
  BY <1>1, <1>2
<1>6. \A r, its : Answered(r, its) = {k \in Ends(its) : Does(r, its, k)}
  BY DEF Answered
<1>7. \A k \in Answered(s, items) : ReplyAt(t, k) = ReplyAt(s, k)
  BY <1>3, <1>6
<1> HIDE DEF Does
<1>8. Answered(t, items) = Answered(s, items)
  BY <1>4, <1>6
<1>9. Answered(s, items) \in SUBSET (1..N)
  BY <1>2, <1>6
<1>10. Answered(t, new) = Answered(s, items)
            \cup IF A = N - 1 /\ ReplyAt(t, N + 1) # <<>> THEN {N + 1} ELSE {}
  BY <1>2, <1>4, <1>5, <1>6
<1>11. QED
  BY <1>7, <1>8, <1>9, <1>10 DEF t, N

LEMMA PayloadSame ==
    ASSUME NEW s \in Seq(Bytes), NEW b \in Bytes,
           NEW k \in 1..(Len(s) + 2), NEW i \in Nat \ {0}, i < k - 2
    PROVE  /\ Payload(Append(s, b), i, k) = BytesAt(s, Said(s, i + 2, k - 2))
           /\ Said(s, i + 2, k - 2) \in SUBSET (1..Len(s))
<1>1. i + 2 \in Nat \ {0} /\ k - 2 \in Nat /\ k - 2 <= Len(s)
  BY Longer
<1>2. Said(Append(s, b), i + 2, k - 2) = Said(s, i + 2, k - 2)
  BY <1>1, SaidSame
<1>3. Said(s, i + 2, k - 2) \in SUBSET (1..Len(s))
  BY <1>1 DEF Said
<1>4. BytesAt(Append(s, b), Said(s, i + 2, k - 2)) = BytesAt(s, Said(s, i + 2, k - 2))
  BY <1>3, BytesGrow
<1>5. QED
  BY <1>2, <1>3, <1>4 DEF Payload

LEMMA ReportedGrow ==
    ASSUME NEW s \in Seq(Bytes), NEW b \in Bytes, NEW items,
           NEW A, NEW new, WithLast(new, items, A, Len(s))
    PROVE  LET t == Append(s, b)
               N == Len(s)
           IN  /\ Reported(s, items) \in SUBSET (1..N)
               /\ \A k \in Reported(s, items) :
                    /\ SizeAt(t, items, k) = SizeAt(s, items, k)
                    /\ SizeAt(t, new, k) = SizeAt(s, items, k)
               /\ Reported(t, items) = Reported(s, items)
               /\ Reported(t, new) =
                    Reported(s, items)
                        \cup IF A < N - 1 /\ SizeAt(t, new, N + 1) # <<>>
                             THEN {N + 1} ELSE {}
               /\ A < N - 1 => SizeAt(t, new, N + 1)
                                = Resize(BytesAt(s, Said(s, A + 2, N - 1)))
<1> DEFINE t == Append(s, b)
           N == Len(s)
           Does(r, its, k) == BeginOf(its, k) < k - 2 /\ SizeAt(r, its, k) # <<>>
<1>1. /\ N \in Nat /\ t \in Seq(Bytes)
      /\ Within(items, N) /\ A \in 1..(N + 1) /\ WithLast(new, items, A, N)
  BY Longer DEF WithLast
<1>2. /\ Ends(items) \in SUBSET (1..N)
      /\ Ends(new) = Ends(items) \cup {N + 1}
      /\ \A k \in 1..N : BeginOf(new, k) = BeginOf(items, k)
      /\ \A k \in Ends(items) : BeginOf(items, k) \in 1..k
      /\ BeginOf(new, N + 1) = A
  <2> HIDE DEF t, N
  <2>1. QED
    BY <1>1, EndsGrow
<1>3. \A k \in Ends(items) : BeginOf(items, k) < k - 2 =>
            /\ SizeAt(t, items, k) = SizeAt(s, items, k)
            /\ SizeAt(t, new, k) = SizeAt(s, items, k)
  <2>1. ASSUME NEW k \in Ends(items), BeginOf(items, k) < k - 2
        PROVE  Payload(t, BeginOf(items, k), k) = Payload(s, BeginOf(items, k), k)
    <3>1. k \in 1..(N + 2) /\ BeginOf(items, k) \in Nat \ {0}
      BY <1>1, <1>2
    <3>2. QED
      BY <2>1, <3>1, PayloadSame DEF Payload
  <2> HIDE DEF t, N
  <2>2. \A k \in Ends(items) : BeginOf(new, k) = BeginOf(items, k)
    BY <1>2
  <2>3. QED
    BY <2>1, <2>2 DEF SizeAt
<1>4. A < N - 1 => SizeAt(t, new, N + 1) = Resize(BytesAt(s, Said(s, A + 2, N - 1)))
  <2>1. ASSUME A < N - 1
        PROVE  Payload(t, A, N + 1) = BytesAt(s, Said(s, A + 2, N - 1))
    <3>1. N + 1 \in 1..(N + 2) /\ A \in Nat \ {0} /\ A < (N + 1) - 2 /\ (N + 1) - 2 = N - 1
      BY <1>1, <2>1
    <3>2. Payload(t, A, N + 1) = BytesAt(s, Said(s, A + 2, (N + 1) - 2))
      BY <3>1, PayloadSame
    <3>3. QED
      BY <3>1, <3>2
  <2> HIDE DEF t, N
  <2>2. QED
    BY <1>2, <2>1 DEF SizeAt
<1> HIDE DEF t, N
<1>5. \A k \in Ends(items) : (Does(t, items, k) <=> Does(s, items, k))
                          /\ (Does(t, new, k) <=> Does(s, items, k))
  BY <1>2, <1>3
<1>6. Does(t, new, N + 1) <=> A < N - 1 /\ SizeAt(t, new, N + 1) # <<>>
  <2>1. (N + 1) - 2 = N - 1
    BY <1>1
  <2>2. QED
    BY <1>2, <2>1
<1>7. \A r, its : Reported(r, its) = {k \in Ends(its) : Does(r, its, k)}
  BY DEF Reported
<1>8. \A k \in Reported(s, items) :
        /\ SizeAt(t, items, k) = SizeAt(s, items, k)
        /\ SizeAt(t, new, k) = SizeAt(s, items, k)
  BY <1>3, <1>7
<1> HIDE DEF Does
<1>9. Reported(t, items) = Reported(s, items)
  BY <1>5, <1>7
<1>10. Reported(s, items) \in SUBSET (1..N)
  BY <1>2, <1>7
<1>11. Reported(t, new) = Reported(s, items)
            \cup IF A < N - 1 /\ SizeAt(t, new, N + 1) # <<>> THEN {N + 1} ELSE {}
  BY <1>2, <1>5, <1>6, <1>7
<1>12. QED
  BY <1>4, <1>8, <1>9, <1>10, <1>11 DEF t, N

\* Two ways to give each of a set its value, that agree on the set.
Agree(F, G, S, N) ==
    N \in Nat /\ S \in SUBSET (1..N) /\ \A k \in S : G[k] = F[k]

Joined(g, f, w) == g = f \o w

LEMMA InOrderJoined ==
    ASSUME NEW N, NEW S, NEW F, NEW G, Agree(F, G, S, N), NEW w,
           w = <<>> \/ w = <<G[N + 1]>>
    PROVE  /\ InOrder(G, S) = InOrder(F, S)
           /\ Joined(InOrder(G, S \cup IF w # <<>> THEN {N + 1} ELSE {}),
                     InOrder(F, S), w)
<1>1. N \in Nat /\ S \in SUBSET (1..N) /\ \A k \in S : G[k] = F[k]
  BY DEF Agree
<1>2. /\ InOrder(G, S) = InOrder(F, S)
      /\ Adds(InOrder(G, S \cup {N + 1}), InOrder(F, S), G[N + 1])
      /\ \A X : (\A k \in S : F[k] \in X) => InOrder(F, S) \in Seq(X)
  BY <1>1, InOrderGrows
<1> DEFINE X == {F[k] : k \in S} \cup {G[N + 1]}
           f == InOrder(F, S)
           v == G[N + 1]
<1>3. f \in Seq(X) /\ v \in X
  BY <1>2
<1> HIDE DEF X, f
<1>4. CASE w = <<>>
  <2>1. S \cup (IF w # <<>> THEN {N + 1} ELSE {}) = S
    BY <1>4
  <2>2. f \o w = f
    BY <1>3, <1>4
  <2>3. QED
    BY <1>2, <2>1, <2>2 DEF Joined, f
<1>5. CASE w = <<v>>
  <2> HIDE DEF v
  <2>1. w # <<>>
    BY <1>5
  <2>2. S \cup (IF w # <<>> THEN {N + 1} ELSE {}) = S \cup {N + 1}
    BY <2>1
  <2>3. f \o w = Append(f, v)
    BY <1>3, <1>5
  <2>4. InOrder(G, S \cup {N + 1}) = Append(f, v)
    BY <1>2 DEF Adds, f, v
  <2>5. QED
    BY <1>2, <2>2, <2>3, <2>4 DEF Joined, f
<1>6. QED
  BY <1>4, <1>5

RepliesOf(s, S) ==
    [n \in DOMAIN Ascending(S) |-> ReplyAt(s, Ascending(S)[n])[1]]

SizesOf(s, items, S) ==
    [n \in DOMAIN Ascending(S) |-> SizeAt(s, items, Ascending(S)[n])[1]]

\* There is at most one answer to a command, and one size to a subnegotiation.
LEMMA AtMostOne ==
    /\ \A s, k : ReplyAt(s, k) = <<>> \/ ReplyAt(s, k) = <<ReplyAt(s, k)[1]>>
    /\ \A s : Resize(s) = <<>> \/ Resize(s) = <<Resize(s)[1]>>
<1>1. ASSUME NEW v, NEW o
      PROVE  Reply(v, o) = <<>> \/ \E x : Reply(v, o) = <<x>>
  BY DEF Reply
<1>2. ASSUME NEW s
      PROVE  Resize(s) = <<>> \/ \E x : Resize(s) = <<x>>
  BY DEF Resize
<1>3. \A x : <<x>>[1] = x
  OBVIOUS
<1>4. QED
  BY <1>1, <1>2, <1>3 DEF ReplyAt

LEMMA RepliesGrow ==
    ASSUME NEW s \in Seq(Bytes), NEW b \in Bytes, NEW S \in SUBSET (1..Len(s)),
           \A k \in S : ReplyAt(Append(s, b), k) = ReplyAt(s, k)
    PROVE  LET t == Append(s, b)
               w == ReplyAt(t, Len(s) + 1)
           IN  /\ RepliesOf(t, S) = RepliesOf(s, S)
               /\ Joined(RepliesOf(t, S \cup IF w # <<>> THEN {Len(s) + 1} ELSE {}),
                         RepliesOf(s, S), w)
<1> DEFINE t == Append(s, b)
           N == Len(s)
           w == ReplyAt(t, N + 1)
           F == [k \in Nat |-> ReplyAt(s, k)[1]]
           G == [k \in Nat |-> ReplyAt(t, k)[1]]
<1>1. N \in Nat
  BY Longer
<1>2. \A k \in Nat : F[k] = ReplyAt(s, k)[1] /\ G[k] = ReplyAt(t, k)[1]
  OBVIOUS
<1>3. Agree(F, G, S, N)
  <2>1. \A k \in S : ReplyAt(t, k) = ReplyAt(s, k) /\ k \in Nat
    OBVIOUS
  <2>2. S \in SUBSET (1..N)
    OBVIOUS
  <2> HIDE DEF F, G, t, N
  <2>3. QED
    BY <1>1, <1>2, <2>1, <2>2 DEF Agree
<1>4. w = <<>> \/ w = <<G[N + 1]>>
  <2>1. G[N + 1] = w[1]
    BY <1>1
  <2> HIDE DEF G, t, N
  <2>2. QED
    BY <2>1, AtMostOne
<1>5. \A Q \in SUBSET (1..(N + 1)) :
        RepliesOf(s, Q) = InOrder(F, Q) /\ RepliesOf(t, Q) = InOrder(G, Q)
  <2>1. ASSUME NEW Q \in SUBSET (1..(N + 1))
        PROVE  \A n \in DOMAIN Ascending(Q) : Ascending(Q)[n] \in Nat
    <3>1. N + 1 \in Nat
      BY <1>1
    <3> HIDE DEF N
    <3>2. QED
      BY <3>1, AscendingNumbers
  <2> HIDE DEF F, G, t, N
  <2>2. QED
    BY <1>2, <2>1 DEF RepliesOf, InOrder
<1>6. /\ S \in SUBSET (1..(N + 1))
      /\ (S \cup IF w # <<>> THEN {N + 1} ELSE {}) \in SUBSET (1..(N + 1))
  <2>1. 1..N \subseteq 1..(N + 1) /\ {N + 1} \subseteq 1..(N + 1)
    BY <1>1
  <2> HIDE DEF w
  <2>2. QED
    BY <2>1
<1> HIDE DEF F, G, t, N, w
<1>7. /\ InOrder(G, S) = InOrder(F, S)
      /\ Joined(InOrder(G, S \cup IF w # <<>> THEN {N + 1} ELSE {}), InOrder(F, S), w)
  BY <1>3, <1>4, InOrderJoined
<1>8. QED
  BY <1>5, <1>6, <1>7 DEF t, N, w

LEMMA SizesGrow ==
    ASSUME NEW s \in Seq(Bytes), NEW b \in Bytes, NEW S \in SUBSET (1..Len(s)),
           NEW items, NEW new, NEW w, w = SizeAt(Append(s, b), new, Len(s) + 1),
           \A k \in S : SizeAt(Append(s, b), new, k) = SizeAt(s, items, k)
    PROVE  LET t == Append(s, b)
           IN  /\ SizesOf(t, new, S) = SizesOf(s, items, S)
               /\ Joined(SizesOf(t, new, S \cup IF w # <<>> THEN {Len(s) + 1} ELSE {}),
                         SizesOf(s, items, S), w)
<1> DEFINE t == Append(s, b)
           N == Len(s)
           F == [k \in Nat |-> SizeAt(s, items, k)[1]]
           G == [k \in Nat |-> SizeAt(t, new, k)[1]]
<1>1. N \in Nat
  BY Longer
<1>2. \A k \in Nat : F[k] = SizeAt(s, items, k)[1] /\ G[k] = SizeAt(t, new, k)[1]
  OBVIOUS
<1>3. Agree(F, G, S, N)
  <2>1. \A k \in S : SizeAt(t, new, k) = SizeAt(s, items, k) /\ k \in Nat
    OBVIOUS
  <2>2. S \in SUBSET (1..N)
    OBVIOUS
  <2> HIDE DEF F, G, t, N
  <2>3. QED
    BY <1>1, <1>2, <2>1, <2>2 DEF Agree
<1>4. w = <<>> \/ w = <<G[N + 1]>>
  <2>1. G[N + 1] = w[1]
    BY <1>1
  <2>2. w = <<>> \/ w = <<w[1]>>
    BY AtMostOne DEF SizeAt
  <2> HIDE DEF G, t, N
  <2>3. QED
    BY <2>1, <2>2
<1>5. \A Q \in SUBSET (1..(N + 1)) :
        SizesOf(s, items, Q) = InOrder(F, Q) /\ SizesOf(t, new, Q) = InOrder(G, Q)
  <2>1. ASSUME NEW Q \in SUBSET (1..(N + 1))
        PROVE  \A n \in DOMAIN Ascending(Q) : Ascending(Q)[n] \in Nat
    <3>1. N + 1 \in Nat
      BY <1>1
    <3> HIDE DEF N
    <3>2. QED
      BY <3>1, AscendingNumbers
  <2> HIDE DEF F, G, t, N
  <2>2. QED
    BY <1>2, <2>1 DEF SizesOf, InOrder
<1>6. /\ S \in SUBSET (1..(N + 1))
      /\ (S \cup IF w # <<>> THEN {N + 1} ELSE {}) \in SUBSET (1..(N + 1))
  <2>1. 1..N \subseteq 1..(N + 1) /\ {N + 1} \subseteq 1..(N + 1)
    BY <1>1
  <2>2. QED
    BY <2>1
<1> HIDE DEF F, G, t, N
<1>7. /\ InOrder(G, S) = InOrder(F, S)
      /\ Joined(InOrder(G, S \cup IF w # <<>> THEN {N + 1} ELSE {}), InOrder(F, S), w)
  BY <1>3, <1>4, InOrderJoined
<1>8. QED
  BY <1>5, <1>6, <1>7 DEF t, N

-----------------------------------------------------------------------------
(***************************************************************************)
(* What the filter has done is what the items say.                         *)
(***************************************************************************)

Exact(s, o, r, z) ==
    /\ o = BytesAt(s, TextPlaces(s, Items(s)))
    /\ r = RepliesOf(s, Answered(s, Items(s)))
    /\ z = SizesOf(s, Items(s), Reported(s, Items(s)))

LEMMA FirstExact == Exact(<<>>, <<>>, <<>>, <<>>)
<1>1. Items(<<>>) = {}
  BY FirstPending
<1>2. TextPlaces(<<>>, {}) = {} /\ Answered(<<>>, {}) = {} /\ Reported(<<>>, {}) = {}
  BY DEF TextPlaces, Answered, Reported, Ends
<1>3. BytesAt(<<>>, {}) = <<>>
  BY NoNumbers DEF BytesAt
<1>4. RepliesOf(<<>>, {}) = <<>> /\ SizesOf(<<>>, {}, {}) = <<>>
  <2>1. DOMAIN Ascending({}) = {}
    BY NoNumbers
  <2>2. QED
    BY <2>1 DEF RepliesOf, SizesOf
<1>5. QED
  BY <1>1, <1>2, <1>3, <1>4 DEF Exact

\* What one more byte adds, when it completes the item at A.
TextOf(N, A, b, o) == IF A = N + 1 \/ (A = N /\ b = "IAC") THEN Append(o, b) ELSE o

ReplyOf(t, N, A) == IF A = N - 1 THEN ReplyAt(t, N + 1) ELSE <<>>

SizeOf(s, N, A) ==
    IF A < N - 1 THEN Resize(BytesAt(s, Said(s, A + 2, N - 1))) ELSE <<>>

LEMMA ItemsWithin ==
    ASSUME NEW s \in Seq(Bytes)
    PROVE  Within(Items(s), Len(s))
<1>1. Items(s) \in SUBSET ((1..(Len(s) + 1)) \X (1..Len(s)))
  BY ItemsAre
<1>2. \A e \in Items(s) : e[1] <= e[2]
  BY DEF Items
<1>3. QED
  BY <1>1, <1>2 DEF Within

LEMMA PendingWithin ==
    ASSUME NEW s \in Seq(Bytes), NEW A, Pending(s, A)
    PROVE  WithLast(Items(s) \cup {<<A, Len(s) + 1>>}, Items(s), A, Len(s))
<1>1. Within(Items(s), Len(s)) /\ Len(s) \in Nat
  BY ItemsWithin
<1>2. Fronts(s) \in SUBSET (1..(Len(s) + 1))
  BY FrontsIs
<1>3. A \in 1..(Len(s) + 1)
  BY <1>2 DEF Pending
<1>4. QED
  BY <1>1, <1>3 DEF WithLast

\* The answers and sizes are sequences.
LEMMA ExactSeqs ==
    ASSUME NEW s \in Seq(Bytes), NEW A, Pending(s, A),
           NEW o, NEW r, NEW z, Exact(s, o, r, z)
    PROVE  r \o <<>> = r /\ z \o <<>> = z
<1> DEFINE items == Items(s)
           new == items \cup {<<A, Len(s) + 1>>}
           R == Answered(s, items)
           Z == Reported(s, items)
<1>1. WithLast(new, items, A, Len(s)) /\ Len(s) \in Nat
  BY PendingWithin
<1> HIDE DEF new, items
<1>2. R \in SUBSET (1..Len(s)) /\ Z \in SUBSET (1..Len(s))
  <2>1. Ends(items) \in SUBSET (1..Len(s))
    BY <1>1, EndsGrow
  <2>2. QED
    BY <2>1 DEF Answered, Reported
<1> HIDE DEF R, Z
<1>3. Ascending(R) \in Seq(R) /\ Ascending(Z) \in Seq(Z)
  BY <1>1, <1>2, AscendingIsSeq
<1> DEFINE a == Ascending(R)
           c == Ascending(Z)
<1>4. r = [n \in DOMAIN a |-> ReplyAt(s, a[n])[1]]
  BY DEF Exact, RepliesOf, R, items
<1>5. z = [n \in DOMAIN c |-> SizeAt(s, items, c[n])[1]]
  BY DEF Exact, SizesOf, Z, items
<1>6. a \in Seq(R) /\ c \in Seq(Z)
  BY <1>3
<1> HIDE DEF a, c
<1>7. r \in Seq({ReplyAt(s, k)[1] : k \in R})
  BY <1>4, <1>6
<1>8. z \in Seq({SizeAt(s, items, k)[1] : k \in Z})
  BY <1>5, <1>6
<1>9. QED
  BY <1>7, <1>8

LEMMA ExactStays ==
    ASSUME NEW s \in Seq(Bytes), NEW b \in Bytes, NEW A, Pending(s, A),
           ~ Item(Append(s, b), A, Len(s) + 1),
           NEW o, NEW r, NEW z, Exact(s, o, r, z)
    PROVE  Exact(Append(s, b), o, r, z)
<1> DEFINE t == Append(s, b)
           items == Items(s)
<1>1. Items(t) = items
  <2>1. Items(t) = items \cup IF FALSE THEN {<<A, Len(s) + 1>>} ELSE {}
    BY ItemsGrow
  <2>2. QED
    BY <2>1
<1> DEFINE new == items \cup {<<A, Len(s) + 1>>}
<1>2. WithLast(new, items, A, Len(s))
  BY PendingWithin
<1> HIDE DEF new
<1>3. /\ TextPlaces(s, items) \in SUBSET (1..Len(s))
      /\ TextPlaces(t, items) = TextPlaces(s, items)
  BY <1>2, TextsGrow
<1>4. BytesAt(t, TextPlaces(s, items)) = BytesAt(s, TextPlaces(s, items))
  BY <1>3, BytesGrow
<1>5. /\ Answered(s, items) \in SUBSET (1..Len(s))
      /\ \A k \in Answered(s, items) : ReplyAt(t, k) = ReplyAt(s, k)
      /\ Answered(t, items) = Answered(s, items)
  BY <1>2, AnsweredGrow
<1>6. RepliesOf(t, Answered(s, items)) = RepliesOf(s, Answered(s, items))
  BY <1>5, RepliesGrow
<1>7. /\ Reported(s, items) \in SUBSET (1..Len(s))
      /\ \A k \in Reported(s, items) : SizeAt(t, items, k) = SizeAt(s, items, k)
      /\ Reported(t, items) = Reported(s, items)
  BY <1>2, ReportedGrow
<1>8. SizesOf(t, items, Reported(s, items)) = SizesOf(s, items, Reported(s, items))
  BY <1>7, SizesGrow
<1> HIDE DEF t, items
<1>9. QED
  BY <1>1, <1>3, <1>4, <1>5, <1>6, <1>7, <1>8 DEF Exact, t, items

LEMMA ExactGrows ==
    ASSUME NEW s \in Seq(Bytes), NEW b \in Bytes, NEW A, Pending(s, A),
           Item(Append(s, b), A, Len(s) + 1),
           NEW o, NEW r, NEW z, Exact(s, o, r, z)
    PROVE  Exact(Append(s, b), TextOf(Len(s), A, b, o),
                 r \o ReplyOf(Append(s, b), Len(s), A),
                 z \o SizeOf(s, Len(s), A))
<1> DEFINE t == Append(s, b)
           N == Len(s)
           items == Items(s)
           new == items \cup {<<A, N + 1>>}
<1>1. Items(t) = new
  <2>1. Items(t) = items \cup IF TRUE THEN {<<A, N + 1>>} ELSE {}
    BY ItemsGrow
  <2>2. QED
    BY <2>1
<1>2. WithLast(new, items, A, Len(s)) /\ N \in Nat
  BY PendingWithin
<1> HIDE DEF new
<1>3. o = BytesAt(s, TextPlaces(s, items))
  BY DEF Exact
<1>4. BytesAt(t, TextPlaces(t, new)) = TextOf(N, A, b, o)
  <2>1. /\ TextPlaces(s, items) \in SUBSET (1..N)
        /\ TextPlaces(t, new) = TextPlaces(s, items)
                \cup IF A = N + 1 \/ (A = N /\ b = "IAC") THEN {N + 1} ELSE {}
    BY <1>2, TextsGrow
  <2>2. /\ BytesAt(t, TextPlaces(s, items)) = BytesAt(s, TextPlaces(s, items))
        /\ BytesAt(t, TextPlaces(s, items) \cup {N + 1})
                = Append(BytesAt(s, TextPlaces(s, items)), b)
    BY <2>1, BytesGrow
  <2> HIDE DEF t, N, items
  <2>3. CASE A = N + 1 \/ (A = N /\ b = "IAC")
    BY <1>3, <2>1, <2>2, <2>3 DEF TextOf
  <2>4. CASE ~ (A = N + 1 \/ (A = N /\ b = "IAC"))
    <3>1. TextPlaces(t, new) = TextPlaces(s, items)
      BY <2>1, <2>4
    <3>2. QED
      BY <1>3, <2>2, <2>4, <3>1 DEF TextOf
  <2>5. QED
    BY <2>3, <2>4
<1>5. RepliesOf(t, Answered(t, new)) = r \o ReplyOf(t, N, A)
  <2> DEFINE S == Answered(s, items)
             w == ReplyAt(t, N + 1)
  <2>1. /\ S \in SUBSET (1..N)
        /\ \A k \in S : ReplyAt(t, k) = ReplyAt(s, k)
        /\ Answered(t, new) = S \cup IF A = N - 1 /\ w # <<>> THEN {N + 1} ELSE {}
    BY <1>2, AnsweredGrow
  <2>2. /\ RepliesOf(t, S) = RepliesOf(s, S)
        /\ Joined(RepliesOf(t, S \cup IF w # <<>> THEN {N + 1} ELSE {}),
                  RepliesOf(s, S), w)
    BY <2>1, RepliesGrow
  <2>3. r = RepliesOf(s, S)
    BY DEF Exact
  <2>4. r \o <<>> = r
    BY ExactSeqs
  <2> HIDE DEF t, N, items, S, w
  <2>5. CASE A = N - 1
    <3>1. Answered(t, new) = S \cup IF w # <<>> THEN {N + 1} ELSE {}
      BY <2>1, <2>5
    <3>2. QED
      BY <2>2, <2>3, <2>5, <3>1 DEF Joined, ReplyOf, w
  <2>6. CASE A # N - 1
    <3>1. Answered(t, new) = S
      BY <2>1, <2>6
    <3>2. QED
      BY <2>2, <2>3, <2>4, <2>6, <3>1 DEF ReplyOf
  <2>7. QED
    BY <2>5, <2>6
<1>6. SizesOf(t, new, Reported(t, new)) = z \o SizeOf(s, N, A)
  <2> DEFINE S == Reported(s, items)
             w == SizeAt(t, new, N + 1)
  <2>1. /\ S \in SUBSET (1..N)
        /\ \A k \in S : SizeAt(t, new, k) = SizeAt(s, items, k)
        /\ Reported(t, new) = S \cup IF A < N - 1 /\ w # <<>> THEN {N + 1} ELSE {}
        /\ A < N - 1 => w = Resize(BytesAt(s, Said(s, A + 2, N - 1)))
    BY <1>2, ReportedGrow
  <2>2. /\ SizesOf(t, new, S) = SizesOf(s, items, S)
        /\ Joined(SizesOf(t, new, S \cup IF w # <<>> THEN {N + 1} ELSE {}),
                  SizesOf(s, items, S), w)
    <3> HIDE DEF items, S
    <3>1. QED
      BY <2>1, SizesGrow
  <2>3. z = SizesOf(s, items, S)
    BY DEF Exact
  <2>4. z \o <<>> = z
    BY ExactSeqs
  <2> HIDE DEF t, N, items, S, w
  <2>5. CASE A < N - 1
    <3>1. Reported(t, new) = S \cup IF w # <<>> THEN {N + 1} ELSE {}
      BY <2>1, <2>5
    <3>2. QED
      BY <2>1, <2>2, <2>3, <2>5, <3>1 DEF Joined, SizeOf
  <2>6. CASE ~ (A < N - 1)
    <3>1. Reported(t, new) = S
      BY <2>1, <2>6
    <3>2. QED
      BY <2>2, <2>3, <2>4, <2>6, <3>1 DEF SizeOf
  <2>7. QED
    BY <2>5, <2>6
<1> HIDE DEF t, N, items
<1>7. QED
  BY <1>1, <1>4, <1>5, <1>6 DEF Exact, t, N

-----------------------------------------------------------------------------
(***************************************************************************)
(* The filter's mode tells how much there is of the item that is pending.  *)
(***************************************************************************)

\* What is kept of a subnegotiation; the rest of one that is too long is not.
Heard(u, s, S) ==
    /\ u \in Seq(Bytes)
    /\ IF Cardinality(S) <= SubMax THEN u = BytesAt(s, S) ELSE Len(u) = SubMax

Modes == {"data", "iac", "cmd", "sub", "subiac"}

Standing(s, A, m, v, u) ==
    LET N == Len(s)
    IN  /\ m \in Modes
        /\ m = "data" => A = N + 1
        /\ m = "iac" => A = N /\ s[A] = "IAC"
        /\ m = "cmd" => A = N - 1 /\ s[A] = "IAC" /\ s[A + 1] = v /\ v \in Verbs
        /\ m \in {"sub", "subiac"} =>
            /\ A < N /\ s[A] = "IAC" /\ s[A + 1] = "SB"
            /\ \A k \in (A + 3)..N : ~ Closes(s, A + 2, k)
            /\ Waiting(s, A + 2, N) <=> m = "subiac"
            /\ Heard(u, s, Said(s, A + 2, N))

LEMMA HeardGrows ==
    ASSUME NEW s \in Seq(Bytes), NEW b \in Bytes, NEW S \in SUBSET (1..Len(s)),
           NEW u, Heard(u, s, S)
    PROVE  /\ Heard(u, Append(s, b), S)
           /\ Heard(IF Len(u) < SubMax THEN Append(u, b) ELSE u,
                    Append(s, b), S \cup {Len(s) + 1})
           /\ Resize(u) = Resize(BytesAt(s, S))
<1> DEFINE t == Append(s, b)
           c == Cardinality(S)
           more == S \cup {Len(s) + 1}
           next == IF Len(u) < SubMax THEN Append(u, b) ELSE u
           f == BytesAt(s, S)
<1>1. /\ f \in Seq(Bytes) /\ Len(f) = c /\ c \in Nat
      /\ Cardinality(more) = c + 1
      /\ BytesAt(t, S) = f /\ BytesAt(t, more) = Append(f, b)
  BY BytesGrow
<1>2. u \in Seq(Bytes) /\ IF c <= SubMax THEN u = f ELSE Len(u) = SubMax
  BY DEF Heard
<1> HIDE DEF t, c, more, f
<1>3. Heard(u, t, S)
  BY <1>1, <1>2 DEF Heard, c
<1>4. Heard(next, t, more)
  <2>1. next \in Seq(Bytes)
    BY <1>2
  <2>2. CASE c < SubMax
    <3>1. next = Append(f, b) /\ Cardinality(more) <= SubMax
      BY <1>1, <1>2, <2>2 DEF SubMax
    <3> HIDE DEF next
    <3>2. QED
      BY <1>1, <2>1, <3>1 DEF Heard
  <2>3. CASE ~ (c < SubMax)
    <3>1. Len(u) = SubMax
      <4>1. CASE c <= SubMax
        <5>1. u = f /\ Len(f) = c
          BY <1>1, <1>2, <4>1
        <5>2. c = SubMax
          BY <1>1, <2>3, <4>1 DEF SubMax
        <5>3. QED
          BY <5>1, <5>2
      <4>2. CASE ~ (c <= SubMax)
        BY <1>2, <4>2
      <4>3. QED
        BY <4>1, <4>2
    <3>2. next = u /\ ~ (Cardinality(more) <= SubMax)
      BY <1>1, <2>3, <3>1 DEF SubMax
    <3> HIDE DEF next
    <3>3. QED
      BY <2>1, <3>1, <3>2 DEF Heard
  <2>4. QED
    BY <2>2, <2>3
<1>5. Resize(u) = Resize(f)
  <2>1. CASE c <= SubMax
    BY <1>2, <2>1
  <2>2. CASE ~ (c <= SubMax)
    <3>1. Len(u) = SubMax /\ Len(f) = c
      BY <1>1, <1>2, <2>2
    <3>2. c # 5 /\ SubMax # 5
      BY <1>1, <2>2 DEF SubMax
    <3>3. QED
      BY <3>1, <3>2 DEF Resize
  <2>3. QED
    BY <2>1, <2>2
<1>6. QED
  BY <1>3, <1>4, <1>5 DEF t, more, f

\* The IAC that waits is not said.
LEMMA SaidWaits ==
    ASSUME NEW s, NEW j \in Nat \ {0}, NEW N \in Nat, Waiting(s, j, N), j <= N + 1
    PROVE  j <= N /\ Said(s, j, N) = Said(s, j, N - 1)
<1>1. j <= N
  <2>1. ~ Waiting(s, N + 1, N)
    BY WaitingNext
  <2>2. j # N + 1
    BY <2>1
  <2>3. QED
    BY <2>2
<1>2. s[N] = "IAC"
  <2>1. N - 1 \in Nat /\ j <= (N - 1) + 1 /\ (N - 1) + 1 = N
    BY <1>1
  <2> DEFINE M == N - 1
  <2>2. M \in Nat /\ j <= M + 1 /\ M + 1 = N
    BY <2>1
  <2> HIDE DEF M
  <2>3. Waiting(s, j, M + 1) => s[M + 1] = "IAC"
    BY <2>2, WaitingNext
  <2>4. QED
    BY <2>2, <2>3
<1>3. N \notin Said(s, j, N)
  BY <1>2 DEF Said
<1>4. j..N = (j..(N - 1)) \cup {N}
  BY <1>1
<1>5. QED
  BY <1>1, <1>3, <1>4 DEF Said

LEMMA ClosesSame ==
    ASSUME NEW s \in Seq(Bytes), NEW b \in Bytes, NEW A \in 1..(Len(s) + 1),
           NEW k \in (A + 3)..Len(s)
    PROVE  Closes(Append(s, b), A + 2, k) <=> Closes(s, A + 2, k)
<1> DEFINE t == Append(s, b)
<1>1. k \in 1..Len(s) /\ k - 1 \in 0..Len(s) /\ A + 2 \in Nat \ {0}
  BY Longer
<1>2. t[k] = s[k]
  BY <1>1, Longer
<1>3. Waiting(t, A + 2, k - 1) <=> Waiting(s, A + 2, k - 1)
  BY <1>1, WaitingSame
<1> HIDE DEF t
<1>4. QED
  BY <1>2, <1>3 DEF Closes, t

\* The bytes that complete the pending item.
Completing(m, b) ==
    CASE m = "data"   -> b # "IAC"
      [] m = "iac"    -> b \notin Verbs \cup {"SB"}
      [] m = "cmd"    -> TRUE
      [] m = "sub"    -> FALSE
      [] m = "subiac" -> b = "SE"

LEMMA Completes ==
    ASSUME NEW s \in Seq(Bytes), NEW b \in Bytes, NEW A \in 1..(Len(s) + 1),
           NEW m, NEW v, NEW u, Standing(s, A, m, v, u)
    PROVE  Item(Append(s, b), A, Len(s) + 1) <=> Completing(m, b)
<1> DEFINE t == Append(s, b)
           N == Len(s)
<1>1. /\ N \in Nat /\ (\A k \in 1..N : t[k] = s[k]) /\ t[N + 1] = b
      /\ A \in 1..(N + 1)
  BY Longer
<1>2. A < N => /\ \A k \in (A + 3)..N : Closes(t, A + 2, k) <=> Closes(s, A + 2, k)
               /\ Closes(t, A + 2, N + 1) <=> b = "SE" /\ Waiting(s, A + 2, N)
  <2>1. \A k \in (A + 3)..N : Closes(t, A + 2, k) <=> Closes(s, A + 2, k)
    BY ClosesSame
  <2>2. ASSUME A < N
        PROVE  Closes(t, A + 2, N + 1) <=> b = "SE" /\ Waiting(s, A + 2, N)
    <3>1. A + 2 \in Nat \ {0} /\ A + 2 <= Len(s) + 1
      BY <1>1, <2>2
    <3>2. QED
      BY <3>1, SaidGrows
  <2>3. QED
    BY <2>1, <2>2
<1> HIDE DEF t
<1>3. CASE m = "data"
  BY <1>1, <1>3 DEF Standing, Item, Completing
<1>4. CASE m = "iac"
  <2>1. t[A] = "IAC" /\ t[A + 1] = b /\ A = N
    BY <1>1, <1>4 DEF Standing
  <2>2. QED
    BY <1>1, <1>4, <2>1 DEF Item, t, Completing
<1>5. CASE m = "cmd"
  <2>1. t[A] = "IAC" /\ t[A + 1] \in Verbs /\ A = N - 1
    BY <1>1, <1>5 DEF Standing
  <2>2. QED
    BY <1>1, <1>5, <2>1 DEF Item, t, Completing
<1>6. CASE m \in {"sub", "subiac"}
  <2>1. /\ A < N /\ s[A] = "IAC" /\ s[A + 1] = "SB"
        /\ \A k \in (A + 3)..N : ~ Closes(s, A + 2, k)
        /\ Waiting(s, A + 2, N) <=> m = "subiac"
    BY <1>6 DEF Standing
  <2>2. t[A] = "IAC" /\ t[A + 1] = "SB"
    BY <1>1, <2>1
  <2>3. m = "subiac" => A + 2 < N + 1
    <3>1. A + 2 \in Nat \ {0} /\ A + 2 <= N + 1
      BY <1>1, <2>1
    <3>2. m = "subiac" => A + 2 <= N
      <4> HIDE DEF N
      <4>1. QED
        BY <1>1, <2>1, <3>1, SaidWaits
    <3>3. QED
      BY <1>1, <3>2
  <2>4. Item(t, A, N + 1) <=> A + 2 < N + 1 /\ Closes(t, A + 2, N + 1)
    <3>1. (N + 1) - 1 = N /\ A < N + 1
      BY <1>1, <2>1
    <3>2. \A k \in (A + 3)..N : ~ Closes(t, A + 2, k)
      BY <1>2, <2>1
    <3>3. "SB" \notin Verbs
      BY DEF Verbs
    <3> HIDE DEF N
    <3>4. QED
      BY <2>2, <3>1, <3>2, <3>3 DEF Item
  <2>5. Item(t, A, N + 1) <=> b = "SE" /\ m = "subiac"
    BY <1>2, <2>1, <2>3, <2>4
  <2>6. QED
    BY <1>6, <2>5 DEF t, Completing
<1>7. QED
  BY <1>3, <1>4, <1>5, <1>6 DEF Standing, Modes

-----------------------------------------------------------------------------
(***************************************************************************)
(* The invariant, and its steps.                                           *)
(***************************************************************************)

\* The output is what the complete items say, and the mode tells how much
\* there is of the one that is pending.
FilterInv ==
    /\ stream \in Seq(Bytes)
    /\ \E A : /\ Pending(stream, A)
              /\ Standing(stream, A, mode, verb, sub)
              /\ Exact(stream, out, replies, sizes)

\* A step that completes nothing.
LEMMA StepStays ==
    ASSUME NEW A, NEW b \in Bytes, stream \in Seq(Bytes), Pending(stream, A),
           ~ Item(Append(stream, b), A, Len(stream) + 1),
           Exact(stream, out, replies, sizes), stream' = Append(stream, b),
           Standing(Append(stream, b), A, mode', verb', sub'),
           UNCHANGED <<out, replies, sizes>>
    PROVE  FilterInv'
<1>1. Exact(Append(stream, b), out, replies, sizes)
  BY ExactStays
<1>2. Pending(Append(stream, b), A)
  <2>1. Pending(Append(stream, b), IF FALSE THEN Len(stream) + 2 ELSE A)
    BY FrontsGrow
  <2>2. QED
    BY <2>1
<1>3. stream' \in Seq(Bytes)
  BY Longer
<1>4. /\ Pending(stream', A)
      /\ Standing(stream', A, mode', verb', sub')
      /\ Exact(stream', out', replies', sizes')
  BY <1>1, <1>2
<1>5. QED
  BY <1>3, <1>4 DEF FilterInv

\* A step that completes the pending item: the filter is between items again.
LEMMA StepCompletes ==
    ASSUME NEW A, NEW b \in Bytes, stream \in Seq(Bytes), Pending(stream, A),
           Item(Append(stream, b), A, Len(stream) + 1),
           Exact(stream, out, replies, sizes), stream' = Append(stream, b),
           mode' = "data",
           out' = TextOf(Len(stream), A, b, out),
           replies' = replies \o ReplyOf(Append(stream, b), Len(stream), A),
           sizes' = sizes \o SizeOf(stream, Len(stream), A)
    PROVE  FilterInv'
<1> DEFINE t == Append(stream, b)
           N == Len(stream)
<1>1. t \in Seq(Bytes) /\ Len(t) = N + 1 /\ N \in Nat
  BY Longer
<1>2. Exact(t, out', replies', sizes')
  BY ExactGrows
<1>3. Pending(t, N + 2)
  <2>1. Pending(t, IF TRUE THEN N + 2 ELSE A)
    BY FrontsGrow
  <2>2. QED
    BY <2>1
<1> HIDE DEF t, N
<1>4. Standing(t, N + 2, "data", verb', sub')
  BY <1>1 DEF Standing, Modes
<1>5. stream' = t
  BY DEF t
<1>6. /\ Pending(stream', N + 2)
      /\ Standing(stream', N + 2, mode', verb', sub')
      /\ Exact(stream', out', replies', sizes')
  BY <1>2, <1>3, <1>4, <1>5
<1>7. QED
  BY <1>1, <1>5, <1>6 DEF FilterInv

\* The invariant at a byte received, with what the steps use of it.
LEMMA AtByte ==
    ASSUME FilterInv, NEW b \in Bytes
    PROVE  \E A : /\ A \in 1..(Len(stream) + 1)
                  /\ Pending(stream, A)
                  /\ Standing(stream, A, mode, verb, sub)
                  /\ Exact(stream, out, replies, sizes)
                  /\ replies \o <<>> = replies /\ sizes \o <<>> = sizes
<1>1. PICK A : /\ Pending(stream, A)
               /\ Standing(stream, A, mode, verb, sub)
               /\ Exact(stream, out, replies, sizes)
  BY DEF FilterInv
<1>2. stream \in Seq(Bytes)
  BY DEF FilterInv
<1>3. A \in 1..(Len(stream) + 1)
  BY <1>1, <1>2, PendingWithin DEF WithLast
<1>4. replies \o <<>> = replies /\ sizes \o <<>> = sizes
  BY <1>1, <1>2, ExactSeqs
<1>5. QED
  BY <1>1, <1>3, <1>4

LEMMA DataStep ==
    ASSUME FilterInv, NEW b \in Bytes, stream' = Append(stream, b), Data(b)
    PROVE  FilterInv'
<1> DEFINE N == Len(stream)
           t == Append(stream, b)
<1>1. PICK A : /\ A \in 1..(N + 1)
               /\ Pending(stream, A)
               /\ Standing(stream, A, mode, verb, sub)
               /\ Exact(stream, out, replies, sizes)
               /\ replies \o <<>> = replies /\ sizes \o <<>> = sizes
  BY AtByte
<1>2. /\ stream \in Seq(Bytes) /\ N \in Nat
      /\ Len(t) = N + 1 /\ t[N + 1] = b
  BY Longer DEF FilterInv
<1>3. mode = "data" /\ A = N + 1
  BY <1>1 DEF Data, Standing
<1>4. Item(t, A, N + 1) <=> b # "IAC"
  <2>1. Item(t, A, N + 1) <=> Completing(mode, b)
    BY <1>1, <1>2, Completes
  <2>2. QED
    BY <1>3, <2>1 DEF Completing
<1>5. CASE b = "IAC"
  <2>1. mode' = "iac" /\ UNCHANGED <<out, replies, sizes>>
    BY <1>5 DEF Data
  <2>2. Standing(t, A, mode', verb', sub')
    <3> HIDE DEF t, N
    <3>1. QED
      BY <1>2, <1>3, <1>5, <2>1 DEF Standing, Modes
  <2>3. QED
    BY <1>1, <1>2, <1>4, <1>5, <2>1, <2>2, StepStays
<1>6. CASE b # "IAC"
  <2>1. /\ mode' = "data" /\ out' = Append(out, b)
        /\ replies' = replies /\ sizes' = sizes
    BY <1>3, <1>6 DEF Data
  <2>2. /\ TextOf(N, A, b, out) = Append(out, b)
        /\ ReplyOf(t, N, A) = <<>> /\ SizeOf(stream, N, A) = <<>>
    <3> HIDE DEF t, N
    <3>1. QED
      BY <1>2, <1>3 DEF TextOf, ReplyOf, SizeOf
  <2>3. QED
    BY <1>1, <1>2, <1>4, <1>6, <2>1, <2>2, StepCompletes
<1>7. QED
  BY <1>5, <1>6

LEMMA IacStep ==
    ASSUME FilterInv, NEW b \in Bytes, stream' = Append(stream, b), Iac(b)
    PROVE  FilterInv'
<1> DEFINE N == Len(stream)
           t == Append(stream, b)
<1>1. PICK A : /\ A \in 1..(N + 1)
               /\ Pending(stream, A)
               /\ Standing(stream, A, mode, verb, sub)
               /\ Exact(stream, out, replies, sizes)
               /\ replies \o <<>> = replies /\ sizes \o <<>> = sizes
  BY AtByte
<1>2. /\ stream \in Seq(Bytes) /\ N \in Nat
      /\ Len(t) = N + 1 /\ t[N + 1] = b /\ \A k \in 1..N : t[k] = stream[k]
  BY Longer DEF FilterInv
<1>3. mode = "iac" /\ A = N /\ stream[A] = "IAC"
  BY <1>1 DEF Iac, Standing
<1>4. Item(t, A, N + 1) <=> b \notin Verbs \cup {"SB"}
  <2>1. Item(t, A, N + 1) <=> Completing(mode, b)
    BY <1>1, <1>2, Completes
  <2>2. QED
    BY <1>3, <2>1 DEF Completing
<1>5. t[A] = "IAC" /\ t[A + 1] = b
  BY <1>1, <1>2, <1>3
<1>6. CASE b \in Verbs
  <2>1. mode' = "cmd" /\ verb' = b /\ UNCHANGED <<out, replies, sizes>>
    BY <1>6 DEF Iac, Verbs
  <2>2. Standing(t, A, mode', verb', sub')
    <3> HIDE DEF t, N
    <3>1. QED
      BY <1>2, <1>3, <1>5, <1>6, <2>1 DEF Standing, Modes
  <2>3. QED
    BY <1>1, <1>2, <1>4, <1>6, <2>1, <2>2, StepStays
<1>7. CASE b = "SB"
  <2>1. mode' = "sub" /\ sub' = <<>> /\ UNCHANGED <<out, replies, sizes>>
    BY <1>7 DEF Iac, Verbs
  <2>2. Heard(<<>>, t, Said(t, A + 2, N + 1))
    <3>1. Said(t, A + 2, N + 1) = {}
      <4>1. (A + 2)..(N + 1) = {}
        BY <1>2, <1>3
      <4> HIDE DEF t, N
      <4>2. QED
        BY <4>1 DEF Said
    <3>2. BytesAt(t, {}) = <<>>
      BY NoNumbers DEF BytesAt
    <3>3. 0 <= SubMax
      BY DEF SubMax
    <3> HIDE DEF t, N
    <3>4. QED
      BY <3>1, <3>2, <3>3, NoNumbers DEF Heard
  <2>3. ~ Waiting(t, A + 2, N + 1)
    <3>1. N + 1 \in Nat /\ A + 2 = (N + 1) + 1
      BY <1>2, <1>3
    <3> DEFINE M == N + 1
    <3>2. ~ Waiting(t, M + 1, M)
      <4>1. M \in Nat /\ M + 1 \in Nat /\ M + 1 <= M + 1
        BY <3>1
      <4> HIDE DEF M, t
      <4>2. QED
        BY <4>1, WaitingNext
    <3>3. QED
      BY <3>1, <3>2
  <2>4. Standing(t, A, mode', verb', sub')
    <3> HIDE DEF t, N
    <3>1. QED
      BY <1>2, <1>3, <1>5, <1>7, <2>1, <2>2, <2>3 DEF Standing, Modes
  <2>5. QED
    BY <1>1, <1>2, <1>4, <1>7, <2>1, <2>4, StepStays
<1>8. CASE b \notin Verbs \cup {"SB"}
  <2>1. /\ mode' = "data" /\ out' = IF b = "IAC" THEN Append(out, b) ELSE out
        /\ replies' = replies /\ sizes' = sizes
    BY <1>8 DEF Iac
  <2>2. /\ TextOf(N, A, b, out) = IF b = "IAC" THEN Append(out, b) ELSE out
        /\ ReplyOf(t, N, A) = <<>> /\ SizeOf(stream, N, A) = <<>>
    <3> HIDE DEF t, N
    <3>1. QED
      BY <1>2, <1>3 DEF TextOf, ReplyOf, SizeOf
  <2>3. QED
    BY <1>1, <1>2, <1>4, <1>8, <2>1, <2>2, StepCompletes
<1>9. QED
  BY <1>6, <1>7, <1>8

LEMMA CmdStep ==
    ASSUME FilterInv, NEW b \in Bytes, stream' = Append(stream, b), Cmd(b)
    PROVE  FilterInv'
<1> DEFINE N == Len(stream)
           t == Append(stream, b)
<1>1. PICK A : /\ A \in 1..(N + 1)
               /\ Pending(stream, A)
               /\ Standing(stream, A, mode, verb, sub)
               /\ Exact(stream, out, replies, sizes)
               /\ replies \o <<>> = replies /\ sizes \o <<>> = sizes
  BY AtByte
<1>2. /\ stream \in Seq(Bytes) /\ N \in Nat
      /\ Len(t) = N + 1 /\ t[N + 1] = b /\ \A k \in 1..N : t[k] = stream[k]
  BY Longer DEF FilterInv
<1>3. mode = "cmd" /\ A = N - 1 /\ stream[A + 1] = verb
  BY <1>1 DEF Cmd, Standing
<1>4. Item(t, A, N + 1)
  <2>1. Item(t, A, N + 1) <=> Completing(mode, b)
    BY <1>1, <1>2, Completes
  <2>2. QED
    BY <1>3, <2>1 DEF Completing
<1>5. ReplyAt(t, N + 1) = Reply(verb, b)
  <2>1. t[(N + 1) - 1] = verb
    BY <1>1, <1>2, <1>3
  <2> HIDE DEF t, N
  <2>2. QED
    BY <1>2, <2>1 DEF ReplyAt
<1>6. /\ mode' = "data" /\ out' = out
      /\ replies' = replies \o Reply(verb, b) /\ sizes' = sizes
  BY DEF Cmd
<1>7. /\ TextOf(N, A, b, out) = out
      /\ ReplyOf(t, N, A) = Reply(verb, b) /\ SizeOf(stream, N, A) = <<>>
  <2> HIDE DEF t, N
  <2>1. QED
    BY <1>2, <1>3, <1>5 DEF TextOf, ReplyOf, SizeOf
<1>8. QED
  BY <1>1, <1>2, <1>4, <1>6, <1>7, StepCompletes

LEMMA SubStep ==
    ASSUME FilterInv, NEW b \in Bytes, stream' = Append(stream, b), Sub(b)
    PROVE  FilterInv'
<1> DEFINE N == Len(stream)
           t == Append(stream, b)
<1>1. PICK A : /\ A \in 1..(N + 1)
               /\ Pending(stream, A)
               /\ Standing(stream, A, mode, verb, sub)
               /\ Exact(stream, out, replies, sizes)
               /\ replies \o <<>> = replies /\ sizes \o <<>> = sizes
  BY AtByte
<1>2. /\ stream \in Seq(Bytes) /\ N \in Nat
      /\ Len(t) = N + 1 /\ t[N + 1] = b /\ \A k \in 1..N : t[k] = stream[k]
  BY Longer DEF FilterInv
<1> DEFINE S == Said(stream, A + 2, N)
<1>3. /\ mode = "sub"
      /\ A < N /\ stream[A] = "IAC" /\ stream[A + 1] = "SB"
      /\ \A k \in (A + 3)..N : ~ Closes(stream, A + 2, k)
      /\ ~ Waiting(stream, A + 2, N)
      /\ Heard(sub, stream, S)
  BY <1>1 DEF Sub, Standing
<1>4. ~ Item(t, A, N + 1)
  <2>1. Item(t, A, N + 1) <=> Completing(mode, b)
    BY <1>1, <1>2, Completes
  <2>2. QED
    BY <1>3, <2>1 DEF Completing
<1>5. A + 2 \in Nat \ {0} /\ A + 2 <= N + 1
  BY <1>1, <1>2, <1>3
<1>6. /\ Said(t, A + 2, N + 1) = S \cup IF b = "IAC" THEN {} ELSE {N + 1}
      /\ Waiting(t, A + 2, N + 1) <=> b = "IAC"
      /\ ~ Closes(t, A + 2, N + 1)
  <2>1. /\ Said(t, A + 2, N + 1)
                = S \cup IF (b = "IAC") <=> Waiting(stream, A + 2, N)
                         THEN {N + 1} ELSE {}
        /\ Waiting(t, A + 2, N + 1)
                <=> b = "IAC" /\ ~ Waiting(stream, A + 2, N)
        /\ Closes(t, A + 2, N + 1)
                <=> b = "SE" /\ Waiting(stream, A + 2, N)
    BY <1>2, <1>5, SaidGrows
  <2> HIDE DEF t, N, S
  <2>2. QED
    BY <1>3, <2>1
<1>7. t[A] = "IAC" /\ t[A + 1] = "SB"
  BY <1>1, <1>2, <1>3
<1>8. \A k \in (A + 3)..(N + 1) : ~ Closes(t, A + 2, k)
  <2>1. \A k \in (A + 3)..N : Closes(t, A + 2, k) <=> Closes(stream, A + 2, k)
    BY <1>1, <1>2, ClosesSame
  <2> HIDE DEF t, N
  <2>2. \A k \in (A + 3)..(N + 1) : k = N + 1 \/ k \in (A + 3)..N
    BY <1>2
  <2>3. QED
    BY <1>3, <1>6, <2>1, <2>2
<1>9. S \in SUBSET (1..N)
  BY <1>1, <1>2 DEF Said
<1>10. mode' = IF b = "IAC" THEN "subiac" ELSE "sub"
  BY <1>3 DEF Sub
<1>11. Heard(sub', t, Said(t, A + 2, N + 1))
  <2>1. /\ Heard(sub, t, S)
        /\ Heard(IF Len(sub) < SubMax THEN Append(sub, b) ELSE sub, t, S \cup {N + 1})
    BY <1>2, <1>3, <1>9, HeardGrows
  <2> HIDE DEF t, N, S
  <2>2. CASE b = "IAC"
    <3>1. sub' = sub /\ Said(t, A + 2, N + 1) = S
      BY <1>6, <2>2 DEF Sub
    <3>2. QED
      BY <2>1, <3>1
  <2>3. CASE b # "IAC"
    <3>1. /\ sub' = IF Len(sub) < SubMax THEN Append(sub, b) ELSE sub
          /\ Said(t, A + 2, N + 1) = S \cup {N + 1}
      BY <1>6, <2>3 DEF Sub, InSub
    <3>2. QED
      BY <2>1, <3>1
  <2>4. QED
    BY <2>2, <2>3
<1>12. Standing(t, A, mode', verb', sub')
  <2> HIDE DEF t, N, S
  <2>1. /\ Len(t) = N + 1 /\ A < N + 1
        /\ mode' \in {"sub", "subiac"}
        /\ Waiting(t, A + 2, N + 1) <=> mode' = "subiac"
    BY <1>1, <1>2, <1>3, <1>6, <1>10
  <2>2. QED
    BY <1>7, <1>8, <1>11, <2>1 DEF Standing, Modes
<1>13. UNCHANGED <<out, replies, sizes>>
  BY DEF Sub
<1>14. QED
  BY <1>1, <1>2, <1>4, <1>12, <1>13, StepStays

LEMMA SubIacStep ==
    ASSUME FilterInv, NEW b \in Bytes, stream' = Append(stream, b), SubIac(b)
    PROVE  FilterInv'
<1> DEFINE N == Len(stream)
           t == Append(stream, b)
<1>1. PICK A : /\ A \in 1..(N + 1)
               /\ Pending(stream, A)
               /\ Standing(stream, A, mode, verb, sub)
               /\ Exact(stream, out, replies, sizes)
               /\ replies \o <<>> = replies /\ sizes \o <<>> = sizes
  BY AtByte
<1>2. /\ stream \in Seq(Bytes) /\ N \in Nat
      /\ Len(t) = N + 1 /\ t[N + 1] = b /\ \A k \in 1..N : t[k] = stream[k]
  BY Longer DEF FilterInv
<1> DEFINE S == Said(stream, A + 2, N)
<1>3. /\ mode = "subiac"
      /\ A < N /\ stream[A] = "IAC" /\ stream[A + 1] = "SB"
      /\ \A k \in (A + 3)..N : ~ Closes(stream, A + 2, k)
      /\ Waiting(stream, A + 2, N)
      /\ Heard(sub, stream, S)
  BY <1>1 DEF SubIac, Standing
<1>4. Item(t, A, N + 1) <=> b = "SE"
  <2>1. Item(t, A, N + 1) <=> Completing(mode, b)
    BY <1>1, <1>2, Completes
  <2>2. QED
    BY <1>3, <2>1 DEF Completing
<1>5. A + 2 \in Nat \ {0} /\ A + 2 <= N + 1
  BY <1>1, <1>2, <1>3
<1>6. S \in SUBSET (1..N)
  BY <1>1, <1>2 DEF Said
<1>7. /\ Heard(sub, t, S)
      /\ Heard(IF Len(sub) < SubMax THEN Append(sub, b) ELSE sub, t, S \cup {N + 1})
      /\ Resize(sub) = Resize(BytesAt(stream, S))
  BY <1>2, <1>3, <1>6, HeardGrows
<1>8. CASE b = "SE"
  <2>1. /\ mode' = "data" /\ out' = out /\ replies' = replies
        /\ sizes' = sizes \o Resize(sub)
    BY <1>8 DEF SubIac
  <2>2. A + 2 <= N /\ S = Said(stream, A + 2, N - 1)
    <3> HIDE DEF N
    <3>1. QED
      BY <1>2, <1>3, <1>5, SaidWaits DEF S
  <2>3. /\ TextOf(N, A, b, out) = out
        /\ ReplyOf(t, N, A) = <<>> /\ SizeOf(stream, N, A) = Resize(sub)
    <3>1. A < N - 1 /\ A # N - 1 /\ A # N /\ A # N + 1
      BY <1>1, <1>2, <2>2
    <3> HIDE DEF t, N, S
    <3>2. QED
      BY <1>7, <2>2, <3>1 DEF TextOf, ReplyOf, SizeOf
  <2>4. QED
    BY <1>1, <1>2, <1>4, <1>8, <2>1, <2>3, StepCompletes
<1>9. CASE b # "SE"
  <2>1. /\ Said(t, A + 2, N + 1) = S \cup IF b = "IAC" THEN {N + 1} ELSE {}
        /\ ~ Waiting(t, A + 2, N + 1)
        /\ ~ Closes(t, A + 2, N + 1)
    <3>1. /\ Said(t, A + 2, N + 1)
                = S \cup IF (b = "IAC") <=> Waiting(stream, A + 2, N)
                         THEN {N + 1} ELSE {}
          /\ Waiting(t, A + 2, N + 1)
                <=> b = "IAC" /\ ~ Waiting(stream, A + 2, N)
          /\ Closes(t, A + 2, N + 1)
                <=> b = "SE" /\ Waiting(stream, A + 2, N)
      BY <1>2, <1>5, SaidGrows
    <3> HIDE DEF t, N, S
    <3>2. QED
      BY <1>3, <1>9, <3>1
  <2>2. t[A] = "IAC" /\ t[A + 1] = "SB"
    BY <1>1, <1>2, <1>3
  <2>3. \A k \in (A + 3)..(N + 1) : ~ Closes(t, A + 2, k)
    <3>1. \A k \in (A + 3)..N : Closes(t, A + 2, k) <=> Closes(stream, A + 2, k)
      BY <1>1, <1>2, ClosesSame
    <3> HIDE DEF t, N
    <3>2. \A k \in (A + 3)..(N + 1) : k = N + 1 \/ k \in (A + 3)..N
      BY <1>2
    <3>3. QED
      BY <1>3, <2>1, <3>1, <3>2
  <2>4. mode' = "sub"
    BY <1>9 DEF SubIac
  <2>5. Heard(sub', t, Said(t, A + 2, N + 1))
    <3> HIDE DEF t, N, S
    <3>1. CASE b = "IAC"
      <4>1. /\ sub' = IF Len(sub) < SubMax THEN Append(sub, b) ELSE sub
            /\ Said(t, A + 2, N + 1) = S \cup {N + 1}
        BY <2>1, <3>1 DEF SubIac, InSub
      <4>2. QED
        BY <1>7, <4>1
    <3>2. CASE b # "IAC"
      <4>1. sub' = sub /\ Said(t, A + 2, N + 1) = S
        BY <2>1, <3>2 DEF SubIac
      <4>2. QED
        BY <1>7, <4>1
    <3>3. QED
      BY <3>1, <3>2
  <2>6. Standing(t, A, mode', verb', sub')
    <3> HIDE DEF t, N, S
    <3>1. Len(t) = N + 1 /\ A < N + 1
      BY <1>1, <1>2, <1>3
    <3>2. QED
      BY <2>1, <2>2, <2>3, <2>4, <2>5, <3>1 DEF Standing, Modes
  <2>7. UNCHANGED <<out, replies, sizes>>
    BY <1>9 DEF SubIac
  <2>8. QED
    BY <1>1, <1>2, <1>4, <1>9, <2>6, <2>7, StepStays
<1>10. QED
  BY <1>8, <1>9

LEMMA FilterInvInit == FilterInit => FilterInv
<1>1. SUFFICES ASSUME FilterInit
               PROVE  FilterInv
  OBVIOUS
<1>2. /\ stream = <<>> /\ mode = "data" /\ out = <<>>
      /\ replies = <<>> /\ sizes = <<>>
  BY <1>1 DEF FilterInit
<1>3. Standing(<<>>, 1, "data", verb, sub)
  BY DEF Standing, Modes
<1>4. <<>> \in Seq(Bytes)
  OBVIOUS
<1>5. /\ Pending(stream, 1)
      /\ Standing(stream, 1, mode, verb, sub)
      /\ Exact(stream, out, replies, sizes)
  BY <1>2, <1>3, FirstPending, FirstExact
<1>6. QED
  BY <1>2, <1>4, <1>5 DEF FilterInv

LEMMA FilterInvNext == FilterInv /\ [FilterNext]_filterVars => FilterInv'
<1>1. CASE UNCHANGED filterVars
  BY <1>1 DEF FilterInv, filterVars
<1>2. ASSUME FilterInv, FilterNext
      PROVE  FilterInv'
  <2>1. PICK b \in Bytes : /\ stream' = Append(stream, b)
                           /\ Data(b) \/ Iac(b) \/ Cmd(b) \/ Sub(b) \/ SubIac(b)
    BY <1>2, FilterAssumption DEF FilterNext
  <2>2. QED
    BY <1>2, <2>1, DataStep, IacStep, CmdStep, SubStep, SubIacStep
<1>3. QED
  BY <1>1, <1>2

LEMMA FilterInvExact == FilterInv => FilterIsExact
<1>1. SUFFICES ASSUME FilterInv
               PROVE  FilterIsExact
  OBVIOUS
<1>2. Exact(stream, out, replies, sizes)
  BY <1>1 DEF FilterInv
<1>3. QED
  BY <1>2 DEF Exact, RepliesOf, SizesOf, FilterIsExact

\* However the bytes of a telnet session are cut into reads, the program gets the
\* text between commands, each command its answer, and each window size is
\* reported, for streams of any length and any bytes, subnegotiations longer than
\* the 64 bytes that are kept included (telnet.go:274).
THEOREM FilterIsRight == FilterSpec => []FilterIsExact
<1>1. QED
  BY FilterInvInit, FilterInvNext, FilterInvExact, PTL DEF FilterSpec
=============================================================================
