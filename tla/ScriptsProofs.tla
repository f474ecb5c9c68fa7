--------------------------- MODULE ScriptsProofs ---------------------------
(***************************************************************************)
(* The limit on the keys of a script, their end, what they count, and the  *)
(* format of what a run prints, for any number of runs and keys and any    *)
(* limit.                                                                  *)
(*                                                                         *)
(* The keys a script has and those it is about to write, which have been   *)
(* counted, are together no more than the limit and one for each other     *)
(* run.  The writes alone would not do: while one is on its way another    *)
(* run may delete the key that it was for.                                 *)
(***************************************************************************)
EXTENDS Scripts, StoreProofs

IsActive(r) == run[r].pc \notin {"none", "find", "format", "load"}

\* The keys that have been let through and not yet written.
Pending(p) ==
    {run[r].key : r \in {s \in Runs : run[s].pc = "write" /\ run[s].script = p}}

KeysToBe(p) == Keys(p) \cup Pending(p)

RunOK(x) ==
    /\ x \in Run
    /\ x.pc \in {"got", "count", "write"} => x.key \in KVKeys
    /\ x.pc \in {"count", "write"} => x.value < MaxValue

RunsOK ==
    /\ run \in [Runs -> Run \cup {NoRun}]
    /\ \A r \in Runs : run[r] # NoRun => RunOK(run[r])

Room ==
    \A p \in Paths \ misread :
        Cardinality(KeysToBe(p)) <= MaxKeys + Cardinality(Runs) - 1

ActiveAreThere ==
    \A r \in Runs : IsActive(r) => Exists(run[r].script) \/ run[r].script \in outlived

ScriptsInv ==
    TypeOK /\ RunsOK /\ Room /\ ActiveAreThere /\ KeysGoWithTheScript

-----------------------------------------------------------------------------

LEMMA NoRunIsIdle == /\ NoRun.pc = "none"
                     /\ \A x \in Run : x # NoRun /\ x.pc # "none"
BY DEF NoRun, Run

\* The keys of a script and those about to be are finitely many.
LEMMA KeysFinite ==
    ASSUME RunsOK, NEW p \in Paths
    PROVE  /\ IsFiniteSet(KeysToBe(p)) /\ Cardinality(KeysToBe(p)) \in Nat
           /\ IsFiniteSet(Keys(p)) /\ Cardinality(Keys(p)) \in Nat
           /\ Cardinality(Keys(p)) <= Cardinality(KeysToBe(p))
<1>1. Pending(p) \subseteq KVKeys
  BY NoRunIsIdle DEF RunsOK, RunOK, Pending
<1>2. Keys(p) \subseteq KVKeys /\ Keys(p) \subseteq KeysToBe(p)
  BY DEF Keys, KeysToBe
<1>3. IsFiniteSet(KVKeys)
  BY ScriptsAssumption
<1>4. IsFiniteSet(KeysToBe(p))
  BY <1>1, <1>2, <1>3, FS_Subset DEF KeysToBe
<1>5. QED
  BY <1>2, <1>4, FS_Subset, FS_CardinalityType

LEMMA RoomShrinks ==
    ASSUME RunsOK, Room, UNCHANGED misread,
           \A p \in Paths : KeysToBe(p)' \subseteq KeysToBe(p)
    PROVE  Room'
<1>. SUFFICES ASSUME NEW p \in Paths \ misread
              PROVE  Cardinality(KeysToBe(p)') <= MaxKeys + Cardinality(Runs) - 1
  BY DEF Room
<1>1. /\ Cardinality(KeysToBe(p)) \in Nat /\ IsFiniteSet(KeysToBe(p))
      /\ KeysToBe(p)' \subseteq KeysToBe(p)
  BY KeysFinite
<1>2. /\ Cardinality(KeysToBe(p)') <= Cardinality(KeysToBe(p))
      /\ Cardinality(KeysToBe(p)') \in Nat
  BY <1>1, FS_Subset, FS_CardinalityType
<1>3. MaxKeys \in Nat /\ Cardinality(Runs) \in Nat
  BY ScriptsAssumption, FS_CardinalityType
<1>4. QED
  BY <1>1, <1>2, <1>3 DEF Room

\* One run goes on.
LEMMA OneRun ==
    ASSUME RunsOK, NEW r \in Runs, NEW x, x = NoRun \/ RunOK(x),
           run' = [run EXCEPT ![r] = x]
    PROVE  /\ RunsOK'
           /\ run'[r] = x
           /\ \A s \in Runs : s # r => run'[s] = run[s]
BY DEF RunsOK, RunOK

\* A step of a run that writes nothing, and is about to write nothing new.
LEMMA QuietStep ==
    ASSUME ScriptsInv, NEW r \in Runs, NEW x, x = NoRun \/ RunOK(x),
           run' = [run EXCEPT ![r] = x], UNCHANGED <<vars, outlived, misread>>,
           x.pc = "write" => /\ run[r].script = x.script
                             /\ x.key \in KeysToBe(x.script),
           \/ x.pc \in {"none", "find", "format", "load"}
           \/ IsActive(r) /\ x.script = run[r].script
           \/ Exists(x.script)
    PROVE  ScriptsInv'
<1>. USE DEF ScriptsInv
<1>1. /\ RunsOK' /\ run'[r] = x
      /\ \A s \in Runs : s # r => run'[s] = run[s]
  BY OneRun
<1>2. \A p \in Paths : Keys(p)' = Keys(p)
  BY DEF Keys, vars
<1>3. \A p \in Paths : KeysToBe(p)' \subseteq KeysToBe(p)
  BY <1>1, <1>2 DEF KeysToBe, Pending
<1>4. Room'
  BY <1>3, RoomShrinks
<1>5. TypeOK' /\ KeysGoWithTheScript'
  BY <1>2 DEF TypeOK, vars, KeysGoWithTheScript, Exists
<1>6. ActiveAreThere'
  BY <1>1 DEF ActiveAreThere, IsActive, Exists, vars
<1>7. QED
  BY <1>1, <1>4, <1>5, <1>6

-----------------------------------------------------------------------------

LEMMA VisitStep ==
    ASSUME ScriptsInv, NEW r \in Runs, NEW u \in Urls, Visit(r, u)
    PROVE  ScriptsInv'
<1>. DEFINE x == [pc |-> "find", url |-> u, at |-> 1,
                  script |-> Candidates[u][1],
                  gemtext |-> FALSE, ok |-> FALSE, key |-> NoValue,
                  value |-> 0, changed |-> FALSE]
<1>1. Candidates[u][1] \in Paths
  BY ScriptsAssumption
<1>2. RunOK(x) /\ x.pc = "find"
  BY <1>1, ScriptsAssumption DEF RunOK, Run
<1>3. run' = [run EXCEPT ![r] = x] /\ UNCHANGED <<vars, outlived, misread>>
  BY DEF Visit
<1>. HIDE DEF x
<1>4. QED
  BY <1>2, <1>3, QuietStep

LEMMA CandidateIsAPage ==
    ASSUME RunsOK, NEW r \in Runs, run[r] # NoRun
    PROVE  /\ run[r] \in Run /\ run[r].url \in Urls /\ run[r].at \in 1..3
           /\ Candidate(r) \in Paths
           /\ \A there : Missed(r, there) \in BOOLEAN
<1>1. run[r] \in Run
  BY DEF RunsOK
<1>2. run[r].url \in Urls /\ run[r].at \in 1..3 /\ run[r].changed \in BOOLEAN
  BY <1>1 DEF Run
<1>3. QED
  BY <1>1, <1>2, ScriptsAssumption DEF Candidate, Missed

\* What resolving an address does to a run: it has not come to the page yet.
LEMMA ResolvingStep ==
    ASSUME ScriptsInv, NEW r \in Runs, Find(r) \/ ResolveAgain(r)
    PROVE  /\ UNCHANGED <<vars, outlived, misread, counted>>
           /\ run[r] # NoRun
           /\ \E x : /\ run' = [run EXCEPT ![r] = x]
                     /\ x = NoRun \/ RunOK(x)
                     /\ x.pc \in {"none", "find", "format", "load"}
<1>1. run[r] # NoRun
  BY NoRunIsIdle DEF Find, ResolveAgain
<1>2. /\ run[r] \in Run /\ Candidate(r) \in Paths /\ run[r].at \in 1..3
      /\ run[r].changed \in BOOLEAN /\ IsGemtext(run[r].at) \in BOOLEAN
  BY <1>1, CandidateIsAPage DEF ScriptsInv, Run, IsGemtext
<1>3. UNCHANGED <<vars, outlived, misread, counted>>
  BY DEF Find, ResolveAgain
<1>0. /\ {"format", "load"} \subseteq
            {"find", "format", "load", "ready", "got", "count", "write"}
      /\ 1 \in 1..3
  OBVIOUS
<1>. DEFINE next(c) == [run[r] EXCEPT !.at = @ + 1, !.changed = c]
<1>4. ASSUME NEW c \in BOOLEAN, run[r].at < 3, run[r].pc \in {"find", "format"}
      PROVE  RunOK(next(c)) /\ next(c).pc \in {"find", "format"}
  <2>1. run[r].at + 1 \in 1..3
    BY <1>2, <1>4
  <2>2. QED
    BY <1>2, <1>4, <2>1 DEF RunOK, Run
<1>5. ASSUME Find(r)
      PROVE  \E x : /\ run' = [run EXCEPT ![r] = x]
                    /\ x = NoRun \/ RunOK(x)
                    /\ x.pc \in {"none", "find", "format", "load"}
  <2>. DEFINE found == [run[r] EXCEPT !.pc = "format", !.at = 1,
                                      !.script = Candidate(r)]
  <2>1. \/ run' = [run EXCEPT ![r] = found]
        \/ /\ run[r].at < 3 /\ run[r].pc = "find"
           /\ \E c \in BOOLEAN : run' = [run EXCEPT ![r] = next(c)]
        \/ run' = [run EXCEPT ![r] = NoRun]
    BY <1>1, <1>5, CandidateIsAPage DEF Find, ScriptsInv
  <2>2. RunOK(found) /\ found.pc = "format"
    <3>. DEFINE C == Candidate(r)
    <3>1. C \in Paths
      BY <1>2
    <3>. HIDE DEF C
    <3>2. found \in Run
      BY <1>0, <1>2, <3>1 DEF Run
    <3>3. found.pc = "format"
      BY <1>2 DEF Run
    <3>. HIDE DEF found
    <3>4. QED
      BY <3>2, <3>3 DEF RunOK
  <2>. HIDE DEF found, next
  <2>3. QED
    BY <1>4, <2>1, <2>2, NoRunIsIdle
<1>6. ASSUME ResolveAgain(r)
      PROVE  \E x : /\ run' = [run EXCEPT ![r] = x]
                    /\ x = NoRun \/ RunOK(x)
                    /\ x.pc \in {"none", "find", "format", "load"}
  <2>. DEFINE known(o, g, c) == [run[r] EXCEPT !.pc = "load", !.at = 1,
                                    !.ok = o, !.gemtext = g, !.changed = c]
  <2>1. \/ /\ run[r].at < 3 /\ run[r].pc = "format"
           /\ \E c \in BOOLEAN : run' = [run EXCEPT ![r] = next(c)]
        \/ \E o, g, c \in BOOLEAN : run' = [run EXCEPT ![r] = known(o, g, c)]
    <3>1. \A there : Missed(r, there) \in BOOLEAN
      BY <1>1, CandidateIsAPage DEF ScriptsInv
    <3>2. \/ /\ run[r].at < 3 /\ run[r].pc = "format"
             /\ \E c \in BOOLEAN : run' = [run EXCEPT ![r] = next(c)]
          \/ FormatKnown(r, TRUE, IsGemtext(run[r].at), run[r].changed)
          \/ \E c \in BOOLEAN : FormatKnown(r, FALSE, FALSE, c)
      BY <1>6, <3>1 DEF ResolveAgain
    <3>3. \A o, g, c \in BOOLEAN :
            FormatKnown(r, o, g, c) => run' = [run EXCEPT ![r] = known(o, g, c)]
      BY <1>2 DEF FormatKnown, ScriptsInv, RunsOK
    <3>4. TRUE \in BOOLEAN /\ FALSE \in BOOLEAN
      OBVIOUS
    <3>. HIDE DEF next, known
    <3>5. QED
      BY <1>2, <3>2, <3>3, <3>4
  <2>2. ASSUME NEW o \in BOOLEAN, NEW g \in BOOLEAN, NEW c \in BOOLEAN
        PROVE  RunOK(known(o, g, c)) /\ known(o, g, c).pc = "load"
    <3>1. known(o, g, c) \in Run
      BY <1>0, <1>2 DEF Run
    <3>2. known(o, g, c).pc = "load"
      BY <1>2 DEF Run
    <3>. HIDE DEF known
    <3>3. QED
      BY <3>1, <3>2 DEF RunOK
  <2>. HIDE DEF next, known
  <2>3. QED
    BY <1>4, <2>1, <2>2
<1>7. QED
  BY <1>1, <1>3, <1>5, <1>6

LEMMA ResolveStep ==
    ASSUME ScriptsInv, NEW r \in Runs, Find(r) \/ ResolveAgain(r)
    PROVE  ScriptsInv'
<1>1. PICK x : /\ run' = [run EXCEPT ![r] = x]
               /\ x = NoRun \/ RunOK(x)
               /\ x.pc \in {"none", "find", "format", "load"}
  BY ResolvingStep
<1>2. UNCHANGED <<vars, outlived, misread>>
  BY ResolvingStep
<1>3. QED
  BY <1>1, <1>2, QuietStep

LEMMA LoadStep ==
    ASSUME ScriptsInv, NEW r \in Runs, Load(r)
    PROVE  ScriptsInv'
<1>1. run[r] \in Run /\ run[r].pc = "load" /\ RunOK(run[r])
  BY NoRunIsIdle DEF Load, ScriptsInv, RunsOK
<1>2. UNCHANGED <<vars, outlived, misread>>
  BY DEF Load
<1>3. CASE Exists(run[r].script) /\ Goes(r, "ready")
  <2>. DEFINE x == [run[r] EXCEPT !.pc = "ready"]
  <2>1. run' = [run EXCEPT ![r] = x]
    BY <1>3 DEF Goes
  <2>2. RunOK(x) /\ x.pc = "ready" /\ x.script = run[r].script
    BY <1>1 DEF RunOK, Run
  <2>. HIDE DEF x
  <2>3. QED
    BY <1>2, <1>3, <2>1, <2>2, QuietStep
<1>4. CASE run' = [run EXCEPT ![r] = NoRun]
  BY <1>2, <1>4, NoRunIsIdle, QuietStep
<1>5. QED
  BY <1>3, <1>4 DEF Load, Answers

\* Reading a key, looking whether it is new, and coming to an end.
LEMMA ReadStep ==
    ASSUME ScriptsInv, NEW r \in Runs, NEW k \in KVKeys,
           Get(r, k) \/ SetLook(r)
    PROVE  ScriptsInv'
<1>1. /\ run[r] \in Run /\ RunOK(run[r]) /\ run[r].script \in Paths
      /\ run[r].pc \in {"ready", "got"} /\ IsActive(r)
  BY NoRunIsIdle DEF Get, SetLook, ScriptsInv, RunsOK, Run, IsActive
<1>2. UNCHANGED <<vars, outlived, misread>>
  BY DEF Get, SetLook
<1>3. CASE Get(r, k)
  <2>. DEFINE x(v) == [run[r] EXCEPT !.pc = "got", !.key = k, !.value = v]
  <2>1. PICK v \in 0..MaxValue : run' = [run EXCEPT ![r] = x(v)]
    <3>1. Value(run[r].script, k) \in 0..MaxValue /\ 0 \in 0..MaxValue
      BY <1>1, ScriptsAssumption DEF Value, Keys, ScriptsInv, TypeOK
    <3>2. QED
      BY <1>3, <3>1 DEF Get
  <2>2. RunOK(x(v)) /\ x(v).pc = "got" /\ x(v).script = run[r].script
    BY <1>1 DEF RunOK, Run
  <2>. HIDE DEF x
  <2>3. QED
    BY <1>1, <1>2, <2>1, <2>2, QuietStep
<1>4. CASE SetLook(r)
  <2>. DEFINE x(pc) == [run[r] EXCEPT !.pc = pc]
  <2>1. /\ run[r].value < MaxValue /\ run[r].pc = "got"
        /\ \/ /\ run' = [run EXCEPT ![r] = x("write")]
              /\ run[r].key \in Keys(run[r].script)
           \/ run' = [run EXCEPT ![r] = x("count")]
    BY <1>4 DEF SetLook, Goes, KeysRead
  <2>2. ASSUME NEW pc \in {"write", "count"}
        PROVE  RunOK(x(pc)) /\ x(pc).pc = pc /\ x(pc).script = run[r].script
               /\ x(pc).key = run[r].key
    BY <1>1, <2>1 DEF RunOK, Run
  <2>3. run[r].key \in Keys(run[r].script)
            => run[r].key \in KeysToBe(run[r].script)
    BY DEF KeysToBe
  <2>. HIDE DEF x
  <2>4. QED
    BY <1>1, <1>2, <2>1, <2>2, <2>3, QuietStep
<1>5. QED
  BY <1>3, <1>4

\* A new key is let through only when there is room: the keys that are there
\* are fewer than the limit, and each other run is about to write one at most.
LEMMA CountStep ==
    ASSUME ScriptsInv, NEW r \in Runs, SetCount(r)
    PROVE  ScriptsInv'
<1>. USE DEF ScriptsInv
<1>. DEFINE p == run[r].script
            x == [run[r] EXCEPT !.pc = "write"]
<1>1. /\ run[r] \in Run /\ RunOK(run[r]) /\ p \in Paths
      /\ run[r].pc = "count" /\ IsActive(r)
  BY NoRunIsIdle DEF SetCount, RunsOK, Run, IsActive
<1>2. UNCHANGED <<vars, outlived>> /\ misread \subseteq misread'
  BY DEF SetCount
<1>3. CASE run' = [run EXCEPT ![r] = NoRun] /\ UNCHANGED misread
  BY <1>2, <1>3, NoRunIsIdle, QuietStep
<1>4. CASE /\ run' = [run EXCEPT ![r] = x]
           /\ misread' = IF Cardinality(Keys(p)) >= MaxKeys
                         THEN misread \cup {p} ELSE misread
  <2>1. RunOK(x) /\ x.pc = "write" /\ x.script = p
    BY <1>1 DEF RunOK, Run
  <2>2. /\ RunsOK' /\ run'[r] = x
        /\ \A s \in Runs : s # r => run'[s] = run[s]
    <3>. HIDE DEF x
    <3>1. QED
      BY <1>4, <2>1, OneRun
  <2>3. \A q \in Paths : Keys(q)' = Keys(q)
    BY <1>2 DEF Keys, vars
  <2>4. ASSUME NEW q \in Paths \ misread'
        PROVE  Cardinality(KeysToBe(q)') <= MaxKeys + Cardinality(Runs) - 1
    <3>1. MaxKeys \in Nat /\ IsFiniteSet(Runs) /\ Cardinality(Runs) \in Nat
      BY ScriptsAssumption, FS_CardinalityType
    <3>2. CASE q = p
      <4>0. ~ Cardinality(Keys(p)) >= MaxKeys
        BY <1>1, <1>4, <3>2
      <4>. DEFINE W == {s \in Runs : run'[s].pc = "write" /\ run'[s].script = p}
                  f == [s \in W |-> run'[s].key]
                  T == {run'[s].key : s \in W}
      <4>1. IsFiniteSet(W) /\ Cardinality(W) <= Cardinality(Runs)
            /\ Cardinality(W) \in Nat
        BY <3>1, FS_Subset, FS_CardinalityType
      <4>2. f \in Surjection(W, T)
        BY DEF Surjection
      <4>3. IsFiniteSet(T) /\ Cardinality(T) <= Cardinality(W)
            /\ Cardinality(T) \in Nat
        <5>. HIDE DEF W, T, f
        <5>1. QED
          BY <4>1, <4>2, FS_Surjection, FS_CardinalityType
      <4>4. KeysToBe(q)' = Keys(p) \cup T
        BY <2>3, <3>2, <1>1 DEF KeysToBe, Pending
      <4>5. IsFiniteSet(Keys(p)) /\ Cardinality(Keys(p)) \in Nat
        BY <1>1, KeysFinite
      <4>6. IsFiniteSet(Keys(p) \cap T) /\ Cardinality(Keys(p) \cap T) \in Nat
        <5>. HIDE DEF T
        <5>1. QED
          BY <4>3, FS_Subset, FS_CardinalityType
      <4>7. Cardinality(Keys(p) \cup T)
              = Cardinality(Keys(p)) + Cardinality(T) - Cardinality(Keys(p) \cap T)
        <5>. HIDE DEF T
        <5>1. QED
          BY <4>3, <4>5, FS_Union
      <4>. HIDE DEF W, T
      <4>8. QED
        BY <3>1, <4>0, <4>1, <4>3, <4>4, <4>5, <4>6, <4>7
    <3>3. CASE q # p
      <4>1. KeysToBe(q)' \subseteq KeysToBe(q)
        BY <2>1, <2>2, <2>3, <3>3 DEF KeysToBe, Pending
      <4>2. /\ Cardinality(KeysToBe(q)') <= Cardinality(KeysToBe(q))
            /\ Cardinality(KeysToBe(q)') \in Nat
            /\ Cardinality(KeysToBe(q)) \in Nat
        BY <4>1, KeysFinite, FS_Subset, FS_CardinalityType
      <4>3. QED
        BY <1>2, <3>1, <4>2 DEF Room
    <3>4. QED
      BY <3>2, <3>3
  <2>5. TypeOK' /\ KeysGoWithTheScript'
    BY <1>2, <2>3 DEF TypeOK, vars, KeysGoWithTheScript, Exists
  <2>6. ActiveAreThere'
    BY <1>1, <1>2, <2>1, <2>2 DEF ActiveAreThere, IsActive, Exists, vars
  <2>7. Room'
    BY <2>4 DEF Room
  <2>8. QED
    BY <2>2, <2>5, <2>6, <2>7
<1>5. QED
  BY <1>3, <1>4 DEF SetCount, Goes

\* A write leaves the keys that are or are about to be as they are.
LEMMA WriteStep ==
    ASSUME ScriptsInv, NEW r \in Runs, SetWrite(r)
    PROVE  ScriptsInv'
<1>. USE DEF ScriptsInv
<1>0. PICK p \in Paths, k \in KVKeys : p = run[r].script /\ k = run[r].key
  BY NoRunIsIdle DEF SetWrite, RunsOK, RunOK, Run
<1>. DEFINE x == [run[r] EXCEPT !.pc = "ready", !.key = NoValue, !.value = 0]
<1>1. /\ run[r] \in Run /\ RunOK(run[r])
      /\ run[r].pc = "write" /\ run[r].value + 1 \in KVValues /\ IsActive(r)
  BY NoRunIsIdle, ScriptsAssumption
     DEF SetWrite, RunsOK, RunOK, Run, IsActive
<1>2. /\ ScriptKVSet(p, k, run[r].value + 1) /\ run' = [run EXCEPT ![r] = x]
      /\ UNCHANGED <<outlived, misread>>
  BY <1>0 DEF SetWrite, IsReady, RunsOK
<1>3. RunOK(x) /\ x.pc = "ready" /\ x.script = p
  <2>1. "ready" \in {"find", "format", "load", "ready", "got", "count", "write"}
        /\ NoValue \in KVKeys \cup {NoValue} /\ 0 \in 0..MaxValue
    BY ScriptsAssumption
  <2>2. x \in Run
    BY <1>1, <2>1 DEF Run
  <2>3. x.pc = "ready" /\ x.script = p
    BY <1>0, <1>1 DEF Run
  <2>4. QED
    BY <2>2, <2>3 DEF RunOK
<1>4. /\ RunsOK' /\ run'[r] = x
      /\ \A s \in Runs : s # r => run'[s] = run[s]
  <2>. HIDE DEF x
  <2>1. QED
    BY <1>2, <1>3, OneRun
<1>5. TypeOK'
  BY <1>1, <1>2, ScriptOpType DEF ScriptOp
<1>6. \A q \in Paths : /\ q # p => Keys(q)' = Keys(q)
                       /\ Keys(p)' \subseteq Keys(p) \cup {k}
  BY <1>1, <1>2 DEF ScriptKVSet, Keys, TypeOK
<1>7. k \in Pending(p)
  BY <1>0, <1>1 DEF Pending
<1>8. \A q \in Paths : KeysToBe(q)' \subseteq KeysToBe(q)
  <2>1. \A q \in Paths : Pending(q)' \subseteq Pending(q)
    BY <1>0, <1>3, <1>4 DEF Pending
  <2>2. QED
    BY <1>6, <1>7, <2>1 DEF KeysToBe
<1>9. Room'
  BY <1>2, <1>8, RoomShrinks
<1>10. UNCHANGED pages
  BY <1>2 DEF ScriptKVSet, pageVars
<1>11. ActiveAreThere'
  BY <1>0, <1>1, <1>2, <1>3, <1>4, <1>10 DEF ActiveAreThere, IsActive, Exists
<1>12. KeysGoWithTheScript'
  BY <1>0, <1>1, <1>2, <1>6, <1>10
     DEF KeysGoWithTheScript, ActiveAreThere, Exists
<1>13. QED
  BY <1>4, <1>5, <1>9, <1>11, <1>12

\* A transaction that gives no script a key, takes away no page with keys, and
\* leaves to every run the script and the key it has.
LEMMA OutsideStep ==
    ASSUME ScriptsInv, TypeOK', RunsOK', UNCHANGED misread,
           \A s \in Runs : /\ run'[s].pc = run[s].pc
                           /\ run'[s].script = run[s].script
                           /\ run'[s].key = run[s].key,
           \A q \in Paths : Keys(q)' \subseteq Keys(q),
           outlived \subseteq outlived' \cup {q \in Paths : ~ \E s \in Runs :
                                    IsActive(s) /\ run[s].script = q},
           \A q \in Paths : Exists(q) =>
                \/ Exists(q)' \/ q \in outlived'
                \/ /\ Keys(q)' = {}
                   /\ ~ \E s \in Runs : IsActive(s) /\ run[s].script = q,
           \A q \in Paths : q \in outlived /\ q \notin outlived' => Keys(q)' = {}
    PROVE  ScriptsInv'
<1>. USE DEF ScriptsInv
<1>1. \A q \in Paths : Pending(q)' = Pending(q)
  BY DEF Pending
<1>2. Room'
  BY <1>1, RoomShrinks DEF KeysToBe
<1>3. ActiveAreThere'
  BY NoRunIsIdle DEF ActiveAreThere, IsActive, RunsOK, Run
<1>4. KeysGoWithTheScript'
  BY DEF KeysGoWithTheScript
<1>5. QED
  BY <1>2, <1>3, <1>4

LEMMA DeleteKeyStep ==
    ASSUME ScriptsInv, NEW r \in Runs, NEW k \in KVKeys, DeleteKey(r, k)
    PROVE  ScriptsInv'
<1>. USE DEF ScriptsInv
<1>1. PICK p \in Paths : p = run[r].script
  BY NoRunIsIdle DEF DeleteKey, RunsOK, Run
<1>2. ScriptKVDelete(p, k) /\ UNCHANGED <<run, outlived, misread>>
  BY <1>1 DEF DeleteKey
<1>3. TypeOK'
  BY <1>1, <1>2, ScriptOpType DEF ScriptOp
<1>4. \A q \in Paths : Keys(q)' \subseteq Keys(q)
  BY <1>1, <1>2 DEF ScriptKVDelete, Keys, TypeOK
<1>5. UNCHANGED pages
  BY <1>2 DEF ScriptKVDelete, pageVars
<1>6. RunsOK'
  BY <1>2 DEF RunsOK
<1>7. QED
  BY <1>2, <1>3, <1>4, <1>5, <1>6, OutsideStep DEF Exists

\* What an editor's step leaves of the runs.
LEMMA TouchedKeeps ==
    ASSUME RunsOK, NEW ps, run' = Touched(ps)
    PROVE  /\ RunsOK'
           /\ \A s \in Runs : /\ run'[s].pc = run[s].pc
                              /\ run'[s].script = run[s].script
                              /\ run'[s].key = run[s].key
                              /\ run'[s].value = run[s].value
<1>1. ASSUME NEW s \in Runs
      PROVE  /\ run'[s] \in Run \cup {NoRun}
             /\ run'[s].pc = run[s].pc
             /\ run'[s].script = run[s].script
             /\ run'[s].key = run[s].key
             /\ run'[s].value = run[s].value
             /\ run'[s] # NoRun => run[s] # NoRun
  <2>1. CASE run[s] = NoRun
    BY <2>1 DEF Touched
  <2>2. CASE run[s] # NoRun
    BY <2>2 DEF Touched, RunsOK, Run
  <2>3. QED
    BY <2>1, <2>2
<1>2. run' \in [Runs -> Run \cup {NoRun}]
  BY <1>1 DEF Touched
<1>3. QED
  BY <1>1, <1>2 DEF RunsOK, RunOK

LEMMA SaveKeepsPages ==
    ASSUME TypeOK, NEW p \in Paths, NEW c \in Contents, NEW m \in Mimes,
           SavePage(p, c, m)
    PROVE  /\ Exists(p)'
           /\ \A q \in Paths : q # p => pages'[q] = pages[q]
<1>1. CASE InsertPage(p, c, m)
  <2>1. PICK i \in PageIds :
            pages' = [pages EXCEPT ![p] = [id |-> i,
                        title |-> DerivedTitle(p, c, m), content |-> c, mime |-> m]]
    BY <1>1 DEF InsertPage
  <2>. DEFINE row == [id |-> i, title |-> DerivedTitle(p, c, m),
                      content |-> c, mime |-> m]
  <2>2. row \in PageRow
    BY DerivedTitleType DEF PageRow
  <2>. HIDE DEF row
  <2>3. pages' = [pages EXCEPT ![p] = row]
    BY <2>1 DEF row
  <2>4. QED
    BY <2>2, <2>3, SentinelsAssumption DEF Exists, TypeOK
<1>2. CASE UpdatePage(p, c, m)
  <2>. DEFINE row == [pages[p] EXCEPT !.title = DerivedTitle(p, c, m),
                                      !.content = c, !.mime = m]
  <2>1. pages[p] \in PageRow
    BY <1>2 DEF UpdatePage, Exists, TypeOK
  <2>2. row \in PageRow
    BY <2>1, DerivedTitleType DEF PageRow
  <2>3. pages' = [pages EXCEPT ![p] = row]
    BY <1>2 DEF UpdatePage
  <2>. HIDE DEF row
  <2>4. QED
    BY <2>2, <2>3, SentinelsAssumption DEF Exists, TypeOK
<1>3. QED
  BY <1>1, <1>2 DEF SavePage

LEMMA SaveStep ==
    ASSUME ScriptsInv, NEW p \in Paths, Save(p)
    PROVE  ScriptsInv'
<1>. USE DEF ScriptsInv
<1>1. PICK c \in Contents, m \in Mimes : SavePage(p, c, m)
  BY DEF Save
<1>2. /\ run' = Touched(IF Exists(p) THEN {} ELSE {p})
      /\ UNCHANGED <<scriptKV, outlived, misread>>
  BY <1>1 DEF Save, SavePage
<1>3. /\ RunsOK'
      /\ \A s \in Runs : /\ run'[s].pc = run[s].pc
                         /\ run'[s].script = run[s].script
                         /\ run'[s].key = run[s].key
  BY <1>2, TouchedKeeps
<1>4. TypeOK'
  BY <1>1, SavePageType
<1>5. \A q \in Paths : Exists(q) => Exists(q)'
  BY <1>1, SaveKeepsPages DEF Exists
<1>6. \A q \in Paths : Keys(q)' \subseteq Keys(q)
  BY <1>2 DEF Keys
<1>7. QED
  BY <1>2, <1>3, <1>4, <1>5, <1>6, OutsideStep

LEMMA DeleteStep ==
    ASSUME ScriptsInv, NEW p \in Paths, Delete(p)
    PROVE  ScriptsInv'
<1>. USE DEF ScriptsInv
<1>1. /\ DeletePage(p) /\ run' = Touched({p}) /\ UNCHANGED misread
      /\ outlived' = IF Active(p) = {} THEN outlived \ {p} ELSE outlived \cup {p}
  BY DEF Delete
<1>2. /\ RunsOK'
      /\ \A s \in Runs : /\ run'[s].pc = run[s].pc
                         /\ run'[s].script = run[s].script
                         /\ run'[s].key = run[s].key
  BY <1>1, TouchedKeeps
<1>3. TypeOK'
  BY <1>1, DeletePageType
<1>4. /\ \A q \in Paths : Keys(q)' \subseteq Keys(q)
      /\ Keys(p)' = {}
  BY <1>1 DEF DeletePage, Keys, EmptyKV, TypeOK
<1>5. \A q \in Paths : q # p => pages'[q] = pages[q]
  BY <1>1 DEF DeletePage, TypeOK
<1>6. Active(p) = {} => ~ \E s \in Runs : IsActive(s) /\ run[s].script = p
  BY DEF Active, IsActive
<1>7. QED
  BY <1>1, <1>2, <1>3, <1>4, <1>5, <1>6, OutsideStep DEF Exists

LEMMA RenameStep ==
    ASSUME ScriptsInv, NEW p \in Paths, NEW q \in Paths, Rename(p, q)
    PROVE  ScriptsInv'
<1>. USE DEF ScriptsInv
<1>1. /\ RenamePage(p, q) /\ outlived' = outlived \cup {p}
      /\ run' = Touched({p, q}) /\ UNCHANGED <<scriptKV, misread>>
  BY DEF Rename, RenamePage
<1>3. /\ RunsOK'
      /\ \A s \in Runs : /\ run'[s].pc = run[s].pc
                         /\ run'[s].script = run[s].script
                         /\ run'[s].key = run[s].key
  BY <1>1, TouchedKeeps
<1>4. TypeOK'
  BY <1>1, RenamePageType
<1>5. \A o \in Paths : Keys(o)' \subseteq Keys(o)
  BY <1>1 DEF Keys
<1>6. \A o \in Paths : o # p /\ Exists(o) => pages'[o] = pages[o]
  BY <1>1 DEF RenamePage, TypeOK
<1>7. QED
  BY <1>1, <1>3, <1>4, <1>5, <1>6, OutsideStep DEF Exists

-----------------------------------------------------------------------------

LEMMA ScriptsBegin == ScriptsInit => ScriptsInv
<1>. SUFFICES ASSUME ScriptsInit PROVE ScriptsInv
  OBVIOUS
<1>1. TypeOK
  BY TypeInit DEF ScriptsInit
<1>2. RunsOK /\ ActiveAreThere
  BY NoRunIsIdle DEF ScriptsInit, RunsOK, ActiveAreThere, IsActive
<1>3. \A p \in Paths : Keys(p) = {} /\ Pending(p) = {}
  BY NoRunIsIdle DEF ScriptsInit, Init, Keys, Pending
<1>4. KeysGoWithTheScript
  BY <1>3 DEF KeysGoWithTheScript
<1>5. Room
  <2>1. MaxKeys \in Nat \ {0} /\ Cardinality(Runs) \in Nat
    BY ScriptsAssumption, FS_CardinalityType
  <2>2. \A p \in Paths : KeysToBe(p) = {}
    BY <1>3 DEF KeysToBe
  <2>3. Cardinality({}) = 0
    BY FS_EmptySet
  <2>4. 0 <= MaxKeys + Cardinality(Runs) - 1
    BY <2>1
  <2>5. \A p \in Paths : Cardinality(KeysToBe(p)) = 0
    BY <2>2, <2>3
  <2>6. QED
    BY <2>4, <2>5 DEF Room
<1>6. QED
  BY <1>1, <1>2, <1>4, <1>5 DEF ScriptsInv

LEMMA ScriptsStep == ScriptsInv /\ [ScriptsNext]_scriptsVars => ScriptsInv'
<1>. SUFFICES ASSUME ScriptsInv, [ScriptsNext]_scriptsVars PROVE ScriptsInv'
  OBVIOUS
<1>1. ASSUME NEW r \in Runs, NEW u \in Urls, Visit(r, u) PROVE ScriptsInv'
  BY <1>1, VisitStep
<1>2. ASSUME NEW r \in Runs, Find(r) \/ ResolveAgain(r) \/ Load(r)
      PROVE  ScriptsInv'
  BY <1>2, ResolveStep, LoadStep
<1>3. ASSUME NEW r \in Runs, NEW k \in KVKeys, Get(r, k) PROVE ScriptsInv'
  BY <1>3, ReadStep
<1>4. ASSUME NEW r \in Runs, NEW k \in KVKeys, DeleteKey(r, k)
      PROVE  ScriptsInv'
  BY <1>4, DeleteKeyStep
<1>5. ASSUME NEW r \in Runs, SetLook(r) PROVE ScriptsInv'
  <2>1. run[r].key \in KVKeys
    BY <1>5, NoRunIsIdle DEF SetLook, ScriptsInv, RunsOK, RunOK
  <2>2. QED
    BY <1>5, <2>1, ReadStep
<1>6. ASSUME NEW r \in Runs, SetCount(r) PROVE ScriptsInv'
  BY <1>6, CountStep
<1>7. ASSUME NEW r \in Runs, SetWrite(r) PROVE ScriptsInv'
  BY <1>7, WriteStep
<1>8. ASSUME NEW r \in Runs, End(r) PROVE ScriptsInv'
  BY <1>8, NoRunIsIdle, QuietStep DEF End
<1>9. ASSUME NEW p \in Edited, Save(p) \/ Delete(p) PROVE ScriptsInv'
  BY <1>9, SaveStep, DeleteStep, ScriptsAssumption
<1>10. ASSUME NEW p \in Edited, NEW q \in Edited, Rename(p, q)
       PROVE  ScriptsInv'
  BY <1>10, RenameStep, ScriptsAssumption
<1>11. CASE UNCHANGED scriptsVars
  <2>1. UNCHANGED <<vars, run, outlived, misread>>
    BY <1>11 DEF scriptsVars, runVars
  <2>2. TypeOK' /\ RunsOK' /\ \A q \in Paths : Keys(q)' = Keys(q)
    BY <2>1 DEF ScriptsInv, TypeOK, vars, RunsOK, Keys
  <2>3. UNCHANGED pages
    BY <2>1 DEF vars
  <2>4. QED
    BY <2>1, <2>2, <2>3, OutsideStep DEF Exists
<1>12. QED
  BY <1>1, <1>2, <1>3, <1>4, <1>5, <1>6, <1>7, <1>8, <1>9, <1>10, <1>11
     DEF ScriptsNext

LEMMA ScriptsAlways == ScriptsSpec => []ScriptsInv
BY ScriptsBegin, ScriptsStep, PTL DEF ScriptsSpec

\* However runs interleave, a script has no more keys than its limit and one
\* for each run but the first, unless a count of its keys failed (script.go:249).
THEOREM LimitHolds == ScriptsSpec => []LimitHoldsButForOverlap
<1>1. ScriptsInv => LimitHoldsButForOverlap
  <2>. SUFFICES ASSUME ScriptsInv, NEW p \in Paths \ misread
                PROVE  Cardinality(Keys(p)) <= MaxKeys + Cardinality(Runs) - 1
    BY DEF LimitHoldsButForOverlap
  <2>1. /\ Cardinality(Keys(p)) <= Cardinality(KeysToBe(p))
        /\ Cardinality(Keys(p)) \in Nat /\ Cardinality(KeysToBe(p)) \in Nat
    BY KeysFinite DEF ScriptsInv
  <2>2. MaxKeys \in Nat /\ Cardinality(Runs) \in Nat
    BY ScriptsAssumption, FS_CardinalityType
  <2>3. QED
    BY <2>1, <2>2 DEF ScriptsInv, Room
<1>2. QED
  BY <1>1, ScriptsAlways, PTL

\* A deleted script leaves no keys, but for what runs that outlive it write and
\* what a rename has left behind (scriptkv.go:63).
THEOREM KeysGo == ScriptsSpec => []KeysGoWithTheScript
<1>1. ScriptsInv => KeysGoWithTheScript
  BY DEF ScriptsInv
<1>2. QED
  BY <1>1, ScriptsAlways, PTL

LEMMA StepIsOfTheStore ==
    ASSUME ScriptsInv, [ScriptsNext]_scriptsVars
    PROVE  [Next]_vars
<1>. USE DEF ScriptsInv
<1>1. ASSUME NEW r \in Runs, SetWrite(r) PROVE Next
  <2>1. /\ run[r].script \in Paths /\ run[r].key \in KVKeys
        /\ run[r].value + 1 \in KVValues
    BY <1>1, NoRunIsIdle, ScriptsAssumption
       DEF SetWrite, RunsOK, RunOK, Run
  <2>2. ScriptKVSet(run[r].script, run[r].key, run[r].value + 1)
    BY <1>1 DEF SetWrite
  <2>3. QED
    BY <2>1, <2>2 DEF Next, ScriptOp
<1>2. ASSUME NEW r \in Runs, NEW k \in KVKeys, DeleteKey(r, k) PROVE Next
  <2>1. run[r].script \in Paths
    BY <1>2, NoRunIsIdle DEF DeleteKey, RunsOK, Run
  <2>2. QED
    BY <1>2, <2>1 DEF DeleteKey, Next, ScriptOp
<1>3. ASSUME NEW p \in Edited, NEW q \in Edited,
             Save(p) \/ Delete(p) \/ Rename(p, q)
      PROVE  Next
  <2>1. p \in Paths /\ q \in Paths
    BY ScriptsAssumption
  <2>2. PageOp(p)
    BY <1>3, <2>1 DEF Save, Delete, Rename, PageOp
  <2>3. QED
    BY <2>1, <2>2 DEF Next
<1>4. ASSUME NEW r \in Runs,
             \/ Find(r) \/ ResolveAgain(r) \/ Load(r) \/ SetLook(r)
             \/ SetCount(r) \/ End(r)
      PROVE  UNCHANGED vars
  BY <1>4 DEF Find, ResolveAgain, Load, SetLook, SetCount, End
<1>5. ASSUME NEW r \in Runs, NEW u \in Urls, Visit(r, u)
      PROVE  UNCHANGED vars
  BY <1>5 DEF Visit
<1>6. ASSUME NEW r \in Runs, NEW k \in KVKeys, Get(r, k)
      PROVE  UNCHANGED vars
  BY <1>6 DEF Get
<1>7. CASE UNCHANGED scriptsVars
  BY <1>7 DEF scriptsVars
<1>8. QED
  BY <1>1, <1>2, <1>3, <1>4, <1>5, <1>6, <1>7 DEF ScriptsNext

\* Runs of scripts and the editors beside them implement the store, so that
\* what is proved of the store holds under them.
THEOREM ScriptsImplementStore == ScriptsSpec => Spec
<1>1. ScriptsInit => Init
  BY DEF ScriptsInit
<1>2. ScriptsInv /\ [ScriptsNext]_scriptsVars => [Next]_vars
  BY StepIsOfTheStore
<1>3. QED
  BY <1>1, <1>2, ScriptsAlways, PTL DEF ScriptsSpec, Spec

-----------------------------------------------------------------------------
(***************************************************************************)
(* Counting.  While a count is exact, whoever is midway has read what is   *)
(* still there: a write under a run that has read the key gives it up.     *)
(***************************************************************************)

CountsInv ==
    /\ counted \in [Paths -> [KVKeys -> Nat \cup {NoValue}]]
    /\ \A p \in Paths, k \in KVKeys : counted[p][k] # NoValue =>
        /\ Value(p, k) = counted[p][k]
        /\ \A r \in Midway(p, k) : run[r].value = Value(p, k)

\* Nothing is written, and who comes to be midway has just read, or the count
\* is given up.
LEMMA CountsStay ==
    ASSUME CountsInv, scriptKV' = scriptKV,
           counted' \in [Paths -> [KVKeys -> Nat \cup {NoValue}]],
           \A p \in Paths, k \in KVKeys :
                counted'[p][k] \in {counted[p][k], NoValue},
           NEW r, \A s \in Runs : s # r => run'[s] = run[s],
           \A p \in Paths, k \in KVKeys : r \in Midway(p, k)' =>
                \/ counted'[p][k] = NoValue
                \/ run'[r].value = Value(p, k)
                \/ r \in Midway(p, k) /\ run'[r].value = run[r].value
    PROVE  CountsInv'
<1>1. \A p \in Paths, k \in KVKeys : Value(p, k)' = Value(p, k)
  BY DEF Value, Keys
<1>2. \A p \in Paths, k \in KVKeys : \A s \in Runs :
        s # r /\ s \in Midway(p, k)' => s \in Midway(p, k)
  BY DEF Midway, Active
<1>3. \A p \in Paths, k \in KVKeys : Midway(p, k)' \subseteq Runs
  BY DEF Midway, Active
<1>4. QED
  BY <1>1, <1>2, <1>3 DEF CountsInv

\* Editors change of a run no more than what its visitor may be told.
LEMMA CountsStayUnderEditors ==
    ASSUME CountsInv, scriptKV' = scriptKV, UNCHANGED counted,
           \A s \in Runs : /\ run'[s].pc = run[s].pc
                           /\ run'[s].script = run[s].script
                           /\ run'[s].key = run[s].key
                           /\ run'[s].value = run[s].value
    PROVE  CountsInv'
<1>1. \A p \in Paths, k \in KVKeys : Value(p, k)' = Value(p, k)
  BY DEF Value, Keys
<1>2. \A p \in Paths, k \in KVKeys : Midway(p, k)' = Midway(p, k)
  BY DEF Midway, Active
<1>3. \A p \in Paths, k \in KVKeys : Midway(p, k) \subseteq Runs
  BY DEF Midway, Active
<1>4. QED
  BY <1>1, <1>2, <1>3 DEF CountsInv

LEMMA CountsWrite ==
    ASSUME ScriptsInv, CountsInv, NEW r \in Runs, SetWrite(r)
    PROVE  CountsInv'
<1>0. PICK p \in Paths, k \in KVKeys : p = run[r].script /\ k = run[r].key
  BY NoRunIsIdle DEF SetWrite, ScriptsInv, RunsOK, RunOK, Run
<1>. DEFINE v == run[r].value
            x == [run[r] EXCEPT !.pc = "ready", !.key = NoValue, !.value = 0]
            c == IF counted[p][k] = NoValue \/ Midway(p, k) # {r}
                 THEN NoValue ELSE counted[p][k] + 1
<1>1. /\ run[r] \in Run /\ RunOK(run[r]) /\ run[r].pc = "write"
      /\ v \in Nat /\ v + 1 \in KVValues /\ v + 1 \in Nat
  BY NoRunIsIdle, ScriptsAssumption
     DEF SetWrite, ScriptsInv, RunsOK, RunOK, Run
<1>2. /\ scriptKV' = [scriptKV EXCEPT ![p][k] = v + 1]
      /\ run' = [run EXCEPT ![r] = x]
  BY <1>0 DEF SetWrite, ScriptKVSet, IsReady, ScriptsInv, RunsOK
<1>3. counted' = [counted EXCEPT ![p][k] = c]
  BY <1>0 DEF SetWrite, CountsInv
<1>4. c \in Nat \cup {NoValue}
  BY DEF CountsInv
<1>5. r \in Midway(p, k)
  BY <1>0, <1>1 DEF Midway, Active
<1>6. /\ \A q \in Paths, m \in KVKeys :
            q # p \/ m # k => Value(q, m)' = Value(q, m)
      /\ Value(p, k)' = v + 1
  <2>1. v + 1 # NoValue
    BY <1>1, SentinelsAssumption
  <2>2. /\ scriptKV'[p][k] = v + 1
        /\ \A q \in Paths, m \in KVKeys :
              q # p \/ m # k => scriptKV'[q][m] = scriptKV[q][m]
    BY <1>2 DEF ScriptsInv, TypeOK
  <2>3. QED
    BY <2>1, <2>2 DEF Value, Keys
<1>7. \A q \in Paths, m \in KVKeys : Midway(q, m)' \subseteq Midway(q, m) \ {r}
  <2>1. run'[r].pc = "ready" /\ \A s \in Runs : s # r => run'[s] = run[s]
    BY <1>1, <1>2 DEF ScriptsInv, RunsOK, Run
  <2>2. QED
    BY <2>1 DEF Midway, Active
<1>8. \A q \in Paths, m \in KVKeys : \A s \in Midway(q, m) \ {r} :
        run'[s] = run[s]
  BY <1>2 DEF Midway, Active, ScriptsInv, RunsOK
<1>9. counted' \in [Paths -> [KVKeys -> Nat \cup {NoValue}]]
  <2>. HIDE DEF c
  <2>1. QED
    BY <1>3, <1>4 DEF CountsInv
<1>10. ASSUME NEW q \in Paths, NEW m \in KVKeys, counted'[q][m] # NoValue
       PROVE  /\ Value(q, m)' = counted'[q][m]
              /\ \A s \in Midway(q, m)' : run'[s].value = Value(q, m)'
  <2>1. CASE q = p /\ m = k
    <3>1. counted'[p][k] = c
      <4>. HIDE DEF c
      <4>1. QED
        BY <1>3 DEF CountsInv
    <3>2. counted[p][k] # NoValue /\ Midway(p, k) = {r} /\ c = counted[p][k] + 1
      BY <1>10, <2>1, <3>1
    <3>3. counted[p][k] = v
      BY <1>5, <3>2 DEF CountsInv
    <3>4. Midway(p, k)' = {}
      BY <1>7, <3>2
    <3>5. QED
      BY <1>6, <2>1, <3>1, <3>2, <3>3, <3>4
  <2>2. CASE q # p \/ m # k
    <3>1. counted'[q][m] = counted[q][m]
      <4>. HIDE DEF c
      <4>1. QED
        BY <1>3, <2>2 DEF CountsInv
    <3>2. QED
      BY <1>6, <1>7, <1>8, <1>10, <2>2, <3>1 DEF CountsInv
  <2>3. QED
    BY <2>1, <2>2
<1>11. QED
  BY <1>9, <1>10 DEF CountsInv

\* The keys in a set are deleted, and their counts begin again.
LEMMA CountsRestart ==
    ASSUME CountsInv, NEW G,
           \A q \in Paths, m \in KVKeys :
                IF <<q, m>> \in G
                THEN scriptKV'[q][m] = NoValue /\ counted'[q][m] = Restarted(q, m)
                ELSE /\ scriptKV'[q][m] = scriptKV[q][m]
                     /\ counted'[q][m] = counted[q][m],
           counted' \in [Paths -> [KVKeys -> Nat \cup {NoValue}]],
           \A s \in Runs : /\ run'[s].pc = run[s].pc
                           /\ run'[s].script = run[s].script
                           /\ run'[s].key = run[s].key
                           /\ run'[s].value = run[s].value
    PROVE  CountsInv'
<1>1. \A q \in Paths, m \in KVKeys : /\ Midway(q, m)' = Midway(q, m)
                                     /\ Midway(q, m) \subseteq Runs
  BY DEF Midway, Active
<1>2. \A q \in Paths, m \in KVKeys :
        Value(q, m)' = IF <<q, m>> \in G THEN 0 ELSE Value(q, m)
  BY DEF Value, Keys
<1>3. ASSUME NEW q \in Paths, NEW m \in KVKeys, counted'[q][m] # NoValue
      PROVE  /\ Value(q, m)' = counted'[q][m]
             /\ \A s \in Midway(q, m)' : run'[s].value = Value(q, m)'
  <2>1. CASE <<q, m>> \in G
    <3>1. counted'[q][m] = 0 /\ Midway(q, m) = {}
      BY <1>3, <2>1 DEF Restarted
    <3>2. QED
      BY <1>1, <1>2, <2>1, <3>1
  <2>2. CASE <<q, m>> \notin G
    <3>1. counted'[q][m] = counted[q][m]
      BY <2>2
    <3>2. /\ Value(q, m) = counted[q][m]
          /\ \A s \in Midway(q, m) : run[s].value = Value(q, m)
      BY <1>3, <3>1 DEF CountsInv
    <3>3. QED
      BY <1>1, <1>2, <2>2, <3>1, <3>2
  <2>3. QED
    BY <2>1, <2>2
<1>4. QED
  BY <1>3 DEF CountsInv

LEMMA CountsDeleteKey ==
    ASSUME ScriptsInv, CountsInv, NEW r \in Runs, NEW k \in KVKeys,
           DeleteKey(r, k)
    PROVE  CountsInv'
<1>1. PICK p \in Paths : p = run[r].script
  BY NoRunIsIdle DEF DeleteKey, ScriptsInv, RunsOK, Run
<1>2. /\ scriptKV' = [scriptKV EXCEPT ![p][k] = NoValue]
      /\ counted' = [counted EXCEPT ![p][k] = Restarted(p, k)]
      /\ UNCHANGED run
  BY <1>1 DEF DeleteKey, ScriptKVDelete
<1>3. Restarted(p, k) \in Nat \cup {NoValue}
  BY DEF Restarted
<1>4. counted' \in [Paths -> [KVKeys -> Nat \cup {NoValue}]]
  BY <1>2, <1>3 DEF CountsInv
<1>5. \A q \in Paths, m \in KVKeys :
        IF <<q, m>> \in {<<p, k>>}
        THEN scriptKV'[q][m] = NoValue /\ counted'[q][m] = Restarted(q, m)
        ELSE /\ scriptKV'[q][m] = scriptKV[q][m]
             /\ counted'[q][m] = counted[q][m]
  BY <1>2 DEF CountsInv, ScriptsInv, TypeOK
<1>6. QED
  BY <1>2, <1>4, <1>5, CountsRestart

LEMMA CountsDelete ==
    ASSUME ScriptsInv, CountsInv, NEW p \in Paths, Delete(p)
    PROVE  CountsInv'
<1>. DEFINE fresh == [k \in KVKeys |-> Restarted(p, k)]
            G == {p} \X KVKeys
<1>1. /\ scriptKV' = [scriptKV EXCEPT ![p] = EmptyKV]
      /\ counted' = [counted EXCEPT ![p] = fresh]
      /\ run' = Touched({p})
  BY DEF Delete, DeletePage
<1>2. fresh \in [KVKeys -> Nat \cup {NoValue}]
  BY DEF Restarted
<1>3. counted' \in [Paths -> [KVKeys -> Nat \cup {NoValue}]]
  <2>. HIDE DEF fresh
  <2>1. QED
    BY <1>1, <1>2 DEF CountsInv
<1>4. \A q \in Paths, m \in KVKeys :
        IF <<q, m>> \in G
        THEN scriptKV'[q][m] = NoValue /\ counted'[q][m] = Restarted(q, m)
        ELSE /\ scriptKV'[q][m] = scriptKV[q][m]
             /\ counted'[q][m] = counted[q][m]
  BY <1>1 DEF CountsInv, ScriptsInv, TypeOK, EmptyKV
<1>5. \A s \in Runs : /\ run'[s].pc = run[s].pc
                      /\ run'[s].script = run[s].script
                      /\ run'[s].key = run[s].key
                      /\ run'[s].value = run[s].value
  BY <1>1, TouchedKeeps DEF ScriptsInv
<1>. HIDE DEF fresh, G
<1>6. QED
  BY <1>3, <1>4, <1>5, CountsRestart

LEMMA CountsBegin == ScriptsInit => CountsInv
<1>. SUFFICES ASSUME ScriptsInit PROVE CountsInv
  OBVIOUS
<1>1. \A p \in Paths, k \in KVKeys : Value(p, k) = 0 /\ Midway(p, k) = {}
  BY NoRunIsIdle DEF ScriptsInit, Init, Value, Keys, Midway, Active
<1>2. QED
  BY <1>1 DEF ScriptsInit, CountsInv

LEMMA CountsStep ==
    ASSUME ScriptsInv, CountsInv, [ScriptsNext]_scriptsVars
    PROVE  CountsInv'
<1>. USE DEF ScriptsInv
<1>0. counted \in [Paths -> [KVKeys -> Nat \cup {NoValue}]]
  BY DEF CountsInv
<1>1. ASSUME NEW r \in Runs, NEW u \in Urls, Visit(r, u) PROVE CountsInv'
  <2>1. /\ UNCHANGED <<scriptKV, counted>> /\ run'[r].pc = "find"
        /\ \A s \in Runs : s # r => run'[s] = run[s]
    BY <1>1 DEF Visit, vars, RunsOK
  <2>2. \A p \in Paths, m \in KVKeys : r \notin Midway(p, m)'
    BY <2>1 DEF Midway, Active
  <2>3. QED
    BY <1>0, <2>1, <2>2, CountsStay
<1>2. ASSUME NEW r \in Runs,
             Find(r) \/ ResolveAgain(r) \/ Load(r) \/ End(r)
      PROVE  CountsInv'
  <2>1. /\ UNCHANGED <<scriptKV, counted>>
        /\ \A s \in Runs : s # r => run'[s] = run[s]
        /\ run'[r].pc \in {"none", "find", "format", "load", "ready"}
    <3>1. CASE Find(r) \/ ResolveAgain(r)
      <4>1. PICK x : /\ run' = [run EXCEPT ![r] = x]
                     /\ x.pc \in {"none", "find", "format", "load"}
        BY <3>1, ResolvingStep
      <4>2. QED
        BY <3>1, <4>1, ResolvingStep DEF vars, RunsOK
    <3>2. CASE (Load(r) \/ End(r)) /\ run' = [run EXCEPT ![r] = NoRun]
      BY <3>2, NoRunIsIdle DEF Load, End, vars, RunsOK
    <3>3. CASE Load(r) /\ Goes(r, "ready")
      <4>1. run[r] \in Run
        BY <3>3, NoRunIsIdle DEF Load, RunsOK
      <4>2. QED
        BY <3>3, <4>1 DEF Load, Goes, vars, RunsOK, Run
    <3>4. QED
      BY <1>2, <3>1, <3>2, <3>3 DEF Load, End
  <2>2. \A p \in Paths, m \in KVKeys : r \notin Midway(p, m)'
    BY <2>1 DEF Midway
  <2>3. QED
    BY <1>0, <2>1, <2>2, CountsStay
<1>3. ASSUME NEW r \in Runs, NEW k \in KVKeys, Get(r, k) PROVE CountsInv'
  <2>1. run[r] \in Run /\ run[r].script \in Paths /\ scriptKV' = scriptKV
    BY <1>3, NoRunIsIdle DEF Get, vars, RunsOK, Run
  <2>2. PICK p \in Paths : p = run[r].script
    BY <2>1
  <2>3. PICK keys \in KeysRead(p) :
        /\ run' = [run EXCEPT ![r].pc = "got", ![r].key = k,
                ![r].value = IF k \in keys THEN Value(p, k) ELSE 0]
        /\ counted' = IF k \in Keys(p) \ keys
                      THEN [counted EXCEPT ![p][k] = NoValue] ELSE counted
    BY <1>3, <2>2 DEF Get
  <2>4. /\ counted' \in [Paths -> [KVKeys -> Nat \cup {NoValue}]]
        /\ \A q \in Paths, m \in KVKeys :
                counted'[q][m] \in {counted[q][m], NoValue}
        /\ k \in Keys(p) \ keys => counted'[p][k] = NoValue
    BY <1>0, <2>3
  <2>5. /\ run'[r].key = k /\ run'[r].script = p
        /\ k \in Keys(p) \ keys \/ run'[r].value = Value(p, k)
    BY <2>1, <2>2, <2>3 DEF RunsOK, Run, Value
  <2>6. \A q \in Paths, m \in KVKeys : r \in Midway(q, m)' =>
            counted'[q][m] = NoValue \/ run'[r].value = Value(q, m)
    BY <2>4, <2>5 DEF Midway, Active
  <2>7. \A s \in Runs : s # r => run'[s] = run[s]
    BY <2>3 DEF RunsOK
  <2>8. QED
    BY <2>1, <2>4, <2>6, <2>7, CountsStay
<1>4. ASSUME NEW r \in Runs, SetLook(r) \/ SetCount(r) PROVE CountsInv'
  <2>1. /\ UNCHANGED <<scriptKV, counted>>
        /\ \A s \in Runs : s # r => run'[s] = run[s]
    BY <1>4 DEF SetLook, SetCount, Goes, vars, RunsOK
  <2>2. /\ run[r] \in Run /\ run[r].pc \in {"got", "count"}
    BY <1>4, NoRunIsIdle DEF SetLook, SetCount, RunsOK
  <2>3. \/ run'[r] = NoRun
        \/ /\ run'[r].key = run[r].key /\ run'[r].script = run[r].script
           /\ run'[r].value = run[r].value
    BY <1>4, <2>2 DEF SetLook, SetCount, Goes, RunsOK, Run
  <2>4. \A p \in Paths, m \in KVKeys : r \in Midway(p, m)' =>
            r \in Midway(p, m) /\ run'[r].value = run[r].value
    BY <2>2, <2>3, NoRunIsIdle DEF Midway, Active
  <2>5. QED
    BY <1>0, <2>1, <2>4, CountsStay
<1>5. ASSUME NEW p \in Edited, NEW q \in Edited, Save(p) \/ Rename(p, q)
      PROVE  CountsInv'
  <2>1. UNCHANGED <<scriptKV, counted>> /\ \E ps : run' = Touched(ps)
    BY <1>5 DEF Save, SavePage, Rename, RenamePage
  <2>2. QED
    BY <2>1, TouchedKeeps, CountsStayUnderEditors
<1>6. CASE UNCHANGED scriptsVars
  BY <1>6, CountsStayUnderEditors DEF scriptsVars, runVars, vars
<1>7. ASSUME NEW p \in Edited, Delete(p) PROVE CountsInv'
  BY <1>7, CountsDelete, ScriptsAssumption
<1>8. ASSUME NEW r \in Runs, NEW k \in KVKeys, DeleteKey(r, k) PROVE CountsInv'
  BY <1>8, CountsDeleteKey
<1>9. ASSUME NEW r \in Runs, SetWrite(r) PROVE CountsInv'
  BY <1>9, CountsWrite
<1>10. QED
  BY <1>1, <1>2, <1>3, <1>4, <1>5, <1>6, <1>7, <1>8, <1>9 DEF ScriptsNext

\* No increment is lost but to another run that came between, or a read that
\* failed (script.go:235).
THEOREM CountsAreExact == ScriptsSpec => []CountsAddUp
<1>1. CountsInv => CountsAddUp
  BY DEF CountsInv, CountsAddUp
<1>2. ScriptsInv /\ CountsInv /\ [ScriptsNext]_scriptsVars => CountsInv'
  BY CountsStep
<1>3. QED
  BY <1>1, <1>2, CountsBegin, ScriptsAlways, PTL DEF ScriptsSpec

-----------------------------------------------------------------------------
(***************************************************************************)
(* The format of an answer.  While no script of its address has come, gone *)
(* or been missed, a visit knows of those it has asked for that they are   *)
(* not there, so that asking a second time gives the same one.             *)
(***************************************************************************)

Absent(u, i) == ~ Exists(Candidates[u][i])

Chosen(x) ==
    CASE x.pc = "find" -> \A i \in 1..3 : i < x.at => Absent(x.url, i)
      [] x.pc = "format" ->
            \E j \in 1..3 : /\ Candidates[x.url][j] = x.script
                            /\ ~ Absent(x.url, j) /\ x.at <= j
                            /\ \A i \in 1..3 : i < j => Absent(x.url, i)
      [] OTHER ->
            \/ x.pc = "load" /\ ~ x.ok
            \/ \E i \in 1..3 : /\ Candidates[x.url][i] = x.script
                               /\ x.gemtext = IsGemtext(i)

ChoiceInv == \A r \in Runs : run[r] # NoRun /\ ~ run[r].changed => Chosen(run[r])

LEMMA ChoiceStays ==
    ASSUME ChoiceInv, UNCHANGED pages, NEW r \in Runs,
           \A s \in Runs : s # r => run'[s] = run[s],
           run'[r] # NoRun /\ ~ run'[r].changed => Chosen(run'[r])
    PROVE  ChoiceInv'
<1>1. \A u, i : Absent(u, i)' <=> Absent(u, i)
  BY DEF Absent, Exists
<1>2. \A s \in Runs : Chosen(run[s])' <=> Chosen(run'[s])
  BY <1>1 DEF Chosen
<1>3. QED
  BY <1>2 DEF ChoiceInv

\* An editor's step, by which only pages of some paths come or go.
LEMMA ChoiceUnderEditors ==
    ASSUME ScriptsInv, ChoiceInv, NEW ps, run' = Touched(ps),
           \A o \in Paths : o \notin ps => (Exists(o)' <=> Exists(o))
    PROVE  ChoiceInv'
<1>. SUFFICES ASSUME NEW s \in Runs, run'[s] # NoRun, ~ run'[s].changed
              PROVE  Chosen(run[s])'
  BY DEF ChoiceInv
<1>1. run[s] # NoRun
  BY DEF Touched
<1>2. run[s] \in Run /\ run[s].url \in Urls
  BY <1>1 DEF ScriptsInv, RunsOK, Run
<1>3. /\ run'[s] = run[s] /\ ~ run[s].changed
      /\ ~ \E i \in 1..3 : Candidates[run[s].url][i] \in ps
  BY <1>1, <1>2 DEF Touched, Run
<1>4. \A i \in 1..3 : Absent(run[s].url, i)' <=> Absent(run[s].url, i)
  <2>1. \A i \in 1..3 : /\ Candidates[run[s].url][i] \in Paths
                        /\ Candidates[run[s].url][i] \notin ps
    BY <1>2, <1>3, ScriptsAssumption
  <2>2. \A i \in 1..3 : Exists(Candidates[run[s].url][i])'
                            <=> Exists(Candidates[run[s].url][i])
    BY <2>1, <1>3 DEF Exists
  <2>3. QED
    BY <1>3, <2>2 DEF Absent, Exists
<1>5. Chosen(run[s])
  BY <1>1, <1>3 DEF ChoiceInv
<1>6. QED
  BY <1>3, <1>4, <1>5 DEF Chosen

LEMMA ChoiceBegin == ScriptsInit => ChoiceInv
BY DEF ScriptsInit, ChoiceInv

LEMMA FindChoice ==
    ASSUME ScriptsInv, ChoiceInv, NEW r \in Runs, Find(r)
    PROVE  run'[r] # NoRun /\ ~ run'[r].changed => Chosen(run'[r])
<1>. DEFINE u == run[r].url
            n == run[r].at
<1>1. /\ run[r] \in Run /\ run[r] # NoRun /\ run[r].pc = "find" /\ n \in 1..3
      /\ run[r].changed \in BOOLEAN
  BY NoRunIsIdle DEF Find, ScriptsInv, RunsOK, Run
<1>2. ~ run[r].changed => \A i \in 1..3 : i < n => Absent(u, i)
  BY <1>1 DEF ChoiceInv, Chosen
<1>3. ASSUME NEW there \in Answers(Candidate(r)), there,
             run' = [run EXCEPT ![r].pc = "format", ![r].at = 1,
                                ![r].script = Candidate(r)]
      PROVE  ~ run'[r].changed => Chosen(run'[r])
  <2>1. ~ Absent(u, n)
    BY <1>3 DEF Answers, Absent, Candidate
  <2>2. /\ run'[r].pc = "format" /\ run'[r].url = u /\ run'[r].at = 1
        /\ run'[r].script = Candidates[u][n]
        /\ run'[r].changed = run[r].changed
    BY <1>1, <1>3 DEF ScriptsInv, RunsOK, Run, Candidate
  <2>. HIDE DEF u, n
  <2>3. QED
    BY <1>1, <1>2, <2>1, <2>2 DEF Chosen
<1>4. ASSUME NEW there \in Answers(Candidate(r)), ~ there, n < 3,
             run' = [run EXCEPT ![r].at = @ + 1, ![r].changed = Missed(r, there)]
      PROVE  ~ run'[r].changed => Chosen(run'[r])
  <2>1. /\ run'[r].pc = "find" /\ run'[r].url = u /\ run'[r].at = n + 1
        /\ run'[r].changed = Missed(r, there)
    BY <1>1, <1>4 DEF ScriptsInv, RunsOK, Run
  <2>2. ~ Missed(r, there) => ~ run[r].changed /\ Absent(u, n)
    BY <1>4 DEF Missed, Absent, Candidate, Answers
  <2>. HIDE DEF u, n
  <2>3. QED
    BY <1>1, <1>2, <2>1, <2>2 DEF Chosen
<1>5. CASE run' = [run EXCEPT ![r] = NoRun]
  BY <1>5 DEF ScriptsInv, RunsOK
<1>6. QED
  BY <1>3, <1>4, <1>5 DEF Find

LEMMA FormatChoice ==
    ASSUME ScriptsInv, ChoiceInv, NEW r \in Runs, ResolveAgain(r)
    PROVE  run'[r] # NoRun /\ ~ run'[r].changed => Chosen(run'[r])
<1>. DEFINE u == run[r].url
            n == run[r].at
<1>1. /\ run[r] \in Run /\ run[r] # NoRun /\ run[r].pc = "format" /\ n \in 1..3
      /\ run[r].changed \in BOOLEAN
  BY NoRunIsIdle DEF ResolveAgain, ScriptsInv, RunsOK, Run
<1>2. ~ run[r].changed =>
        \E j \in 1..3 : /\ Candidates[u][j] = run[r].script
                        /\ ~ Absent(u, j) /\ n <= j
                        /\ \A i \in 1..3 : i < j => Absent(u, i)
  BY <1>1 DEF ChoiceInv, Chosen
<1>3. ASSUME NEW there \in Answers(Candidate(r)), there,
             FormatKnown(r, TRUE, IsGemtext(run[r].at), run[r].changed)
      PROVE  ~ run'[r].changed => Chosen(run'[r])
  <2>1. ~ Absent(u, n)
    BY <1>3 DEF Answers, Absent, Candidate
  <2>2. /\ run'[r].pc = "load" /\ run'[r].url = u
        /\ run'[r].script = run[r].script /\ run'[r].gemtext = IsGemtext(n)
        /\ run'[r].changed = run[r].changed
    BY <1>1, <1>3 DEF FormatKnown, ScriptsInv, RunsOK, Run
  <2>3. ~ run[r].changed => Candidates[u][n] = run[r].script
    <3>. HIDE DEF u, n
    <3>1. QED
      BY <1>1, <1>2, <2>1
  <2>. HIDE DEF u, n
  <2>4. QED
    BY <1>1, <2>2, <2>3 DEF Chosen
<1>4. ASSUME NEW there \in Answers(Candidate(r)), ~ there, n < 3,
             run' = [run EXCEPT ![r].at = @ + 1, ![r].changed = Missed(r, there)]
      PROVE  ~ run'[r].changed => Chosen(run'[r])
  <2>1. /\ run'[r].pc = "format" /\ run'[r].url = u /\ run'[r].at = n + 1
        /\ run'[r].script = run[r].script
        /\ run'[r].changed = Missed(r, there)
    BY <1>1, <1>4 DEF ScriptsInv, RunsOK, Run
  <2>2. ~ Missed(r, there) => ~ run[r].changed /\ Absent(u, n)
    BY <1>4 DEF Missed, Absent, Candidate, Answers
  <2>3. ASSUME ~ Missed(r, there)
        PROVE  \E j \in 1..3 : /\ Candidates[u][j] = run[r].script
                              /\ ~ Absent(u, j) /\ n + 1 <= j
                              /\ \A i \in 1..3 : i < j => Absent(u, i)
    <3>1. PICK j \in 1..3 : /\ Candidates[u][j] = run[r].script
                            /\ ~ Absent(u, j) /\ n <= j
                            /\ \A i \in 1..3 : i < j => Absent(u, i)
      BY <1>2, <2>2, <2>3
    <3>2. j # n
      BY <2>2, <2>3, <3>1
    <3>. HIDE DEF u, n
    <3>3. n + 1 <= j
      BY <1>1, <3>1, <3>2
    <3>4. QED
      BY <3>1, <3>3
  <2>. HIDE DEF u, n
  <2>4. QED
    BY <2>1, <2>3 DEF Chosen
<1>5. ASSUME NEW there, FormatKnown(r, FALSE, FALSE, Missed(r, there))
      PROVE  Chosen(run'[r])
  <2>1. run'[r].pc = "load" /\ ~ run'[r].ok
    BY <1>1, <1>5 DEF FormatKnown, ScriptsInv, RunsOK, Run
  <2>2. QED
    BY <2>1 DEF Chosen
<1>6. QED
  BY <1>3, <1>4, <1>5 DEF ResolveAgain

LEMMA ChoiceStep ==
    ASSUME ScriptsInv, ChoiceInv, [ScriptsNext]_scriptsVars
    PROVE  ChoiceInv'
<1>. USE DEF ScriptsInv
<1>1. ASSUME NEW r \in Runs, NEW u \in Urls, Visit(r, u) PROVE ChoiceInv'
  <2>1. UNCHANGED pages /\ \A s \in Runs : s # r => run'[s] = run[s]
    BY <1>1 DEF Visit, vars, RunsOK
  <2>2. run'[r].pc = "find" /\ run'[r].at = 1
    BY <1>1 DEF Visit, RunsOK
  <2>3. Chosen(run'[r])
    BY <2>2 DEF Chosen
  <2>4. QED
    BY <2>1, <2>3, ChoiceStays
<1>2. ASSUME NEW r \in Runs, Find(r) \/ ResolveAgain(r) PROVE ChoiceInv'
  <2>1. PICK x : run' = [run EXCEPT ![r] = x]
    BY <1>2, ResolvingStep
  <2>2. UNCHANGED pages /\ \A s \in Runs : s # r => run'[s] = run[s]
    BY <1>2, <2>1, ResolvingStep DEF vars, RunsOK
  <2>3. QED
    BY <1>2, <2>2, FindChoice, FormatChoice, ChoiceStays
<1>3. ASSUME NEW r \in Runs,
             \/ Load(r) \/ SetLook(r) \/ SetCount(r) \/ SetWrite(r) \/ End(r)
             \/ \E k \in KVKeys : Get(r, k) \/ DeleteKey(r, k)
      PROVE  ChoiceInv'
  <2>1. UNCHANGED pages /\ \A s \in Runs : s # r => run'[s] = run[s]
    BY <1>3 DEF Load, Get, SetLook, SetCount, SetWrite, DeleteKey, End, Goes,
                IsReady, ScriptKVSet, ScriptKVDelete, pageVars, vars, RunsOK
  <2>2. /\ run[r] \in Run /\ run[r] # NoRun
        /\ run[r].pc \in {"load", "ready", "got", "count", "write"}
    BY <1>3, NoRunIsIdle
       DEF Load, Get, SetLook, SetCount, SetWrite, DeleteKey, End, RunsOK
  <2>3. \/ run'[r] = NoRun
        \/ /\ run'[r].pc \in {"ready", "got", "count", "write"}
           /\ run'[r].url = run[r].url
           /\ run'[r].script = run[r].script
           /\ run'[r].changed = run[r].changed
           /\ run'[r].gemtext = run[r].gemtext
           /\ run[r].pc # "load" \/ run[r].ok
    <3>1. CASE Load(r) \/ SetLook(r) \/ SetCount(r) \/ End(r)
      BY <2>2, <3>1 DEF Load, SetLook, SetCount, End, Goes, RunsOK, Run
    <3>2. CASE SetWrite(r)
      BY <2>2, <3>2 DEF SetWrite, IsReady, RunsOK, Run
    <3>3. CASE \E k \in KVKeys : Get(r, k)
      BY <2>2, <3>3 DEF Get, RunsOK, Run
    <3>4. CASE \E k \in KVKeys : DeleteKey(r, k)
      BY <2>2, <3>4 DEF DeleteKey
    <3>5. QED
      BY <1>3, <3>1, <3>2, <3>3, <3>4
  <2>4. run'[r] # NoRun /\ ~ run'[r].changed => Chosen(run'[r])
    BY <2>2, <2>3 DEF ChoiceInv, Chosen
  <2>5. QED
    BY <2>1, <2>4, ChoiceStays
<1>4. ASSUME NEW p \in Edited, Save(p) PROVE ChoiceInv'
  <2>1. p \in Paths
    BY ScriptsAssumption
  <2>2. Exists(p)' /\ \A o \in Paths : o # p => pages'[o] = pages[o]
    BY <1>4, <2>1, SaveKeepsPages DEF Save
  <2>3. run' = Touched(IF Exists(p) THEN {} ELSE {p})
    BY <1>4 DEF Save
  <2>4. \A o \in Paths : o \notin (IF Exists(p) THEN {} ELSE {p}) =>
            (Exists(o)' <=> Exists(o))
    BY <2>2 DEF Exists
  <2>5. QED
    BY <2>3, <2>4, ChoiceUnderEditors
<1>5. ASSUME NEW p \in Edited, Delete(p) PROVE ChoiceInv'
  <2>1. \A o \in Paths : o # p => pages'[o] = pages[o]
    BY <1>5 DEF Delete, DeletePage, TypeOK
  <2>2. run' = Touched({p})
    BY <1>5 DEF Delete
  <2>3. QED
    BY <2>1, <2>2, ChoiceUnderEditors DEF Exists
<1>6. ASSUME NEW p \in Edited, NEW q \in Edited, Rename(p, q)
      PROVE  ChoiceInv'
  <2>1. \A o \in Paths : o \notin {p, q} => pages'[o] = pages[o]
    BY <1>6 DEF Rename, RenamePage, TypeOK
  <2>2. run' = Touched({p, q})
    BY <1>6 DEF Rename
  <2>3. QED
    BY <2>1, <2>2, ChoiceUnderEditors DEF Exists
<1>7. CASE UNCHANGED scriptsVars
  <2>1. UNCHANGED <<pages, run>>
    BY <1>7 DEF scriptsVars, runVars, vars
  <2>2. \A u, i : Absent(u, i)' <=> Absent(u, i)
    BY <2>1 DEF Absent, Exists
  <2>3. \A s \in Runs : Chosen(run[s])' <=> Chosen(run[s])
    BY <2>1, <2>2 DEF Chosen
  <2>4. QED
    BY <2>1, <2>3 DEF ChoiceInv
<1>8. QED
  BY <1>1, <1>2, <1>3, <1>4, <1>5, <1>6, <1>7 DEF ScriptsNext

\* What a visitor gets is in the format of the script that made it, unless a
\* script of that address came, went or was missed since the visit began, in
\* whatever steps its address is resolved twice (site/script.go:82).
THEOREM FormatIsRight == ScriptsSpec => []FormatIsOfTheScript
<1>1. ChoiceInv => FormatIsOfTheScript
  BY DEF ChoiceInv, Chosen, FormatIsOfTheScript, NoRun
<1>2. ScriptsInv /\ ChoiceInv /\ [ScriptsNext]_scriptsVars => ChoiceInv'
  BY ChoiceStep
<1>3. QED
  BY <1>1, <1>2, ChoiceBegin, ScriptsAlways, PTL DEF ScriptsSpec
=============================================================================
