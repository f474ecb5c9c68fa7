------------------------------ MODULE Scripts ------------------------------
(***************************************************************************)
(* Executable pages (internal/site/script.go, internal/script/script.go):  *)
(* a visit asks for one page after the other which script answers its      *)
(* address, asks again for the format, loads the page and runs it.  The    *)
(* script reads and writes its key space call by call, while other runs of *)
(* it do the same and editors save, rename and delete it.  A read that     *)
(* fails is taken for finding nothing.                                     *)
(*                                                                         *)
(* A program here is one that counts: it reads a key and writes one more,  *)
(* or deletes it, as often as it likes.  It ends by itself, by an error of *)
(* its own, or at its time limit; what it has written stays.  Output,      *)
(* prompts and the identity of the visitor are left out.                   *)
(***************************************************************************)
EXTENDS Store, Sequences

CONSTANTS
    Urls,        \* addresses without their last slash
    Candidates,  \* the .gmi.cgi, .txt.cgi and .cgi page of each, in order
    Edited,      \* the pages that editors touch: bounds them
    Runs,        \* runs under way at once: bounds them
    StoreFails,  \* whether a visit's calls of the store may fail
    MaxKeys,     \* keys a script may keep
    MaxValue     \* bound on a count

ASSUME ScriptsAssumption ==
    /\ Candidates \in [Urls -> Seq(Paths)]
    /\ \A u \in Urls : Len(Candidates[u]) = 3
    /\ Edited \subseteq Paths
    /\ StoreFails \in BOOLEAN
    /\ MaxKeys \in Nat \ {0}
    /\ MaxValue \in Nat
    /\ KVValues = 0..MaxValue
    /\ IsFiniteSet(KVKeys)
    /\ IsFiniteSet(Runs)

VARIABLES
    run,     \* each run under way, or NoRun
    counted, \* increments written to each key since it began, NoValue once one
             \* was under way when the key was written or deleted (history)
    outlived, \* paths renamed away, or deleted under a run (history)
    misread  \* paths let go past the limit by a failing count (history)

runVars == <<run, counted, outlived, misread>>
scriptsVars == <<vars, runVars>>

NoRun == [pc |-> "none"]

Run == [pc : {"find", "format", "load", "ready", "got", "count", "write"},
        url : Urls, at : 1..3, script : Paths, gemtext : BOOLEAN, ok : BOOLEAN,
        key : KVKeys \cup {NoValue}, value : 0..MaxValue,
        changed : BOOLEAN]  \* a script of the url came, went or was missed
                            \* since the visit began (history)

ScriptsTypeOK ==
    /\ run \in [Runs -> Run \cup {NoRun}]
    /\ counted \in [Paths -> [KVKeys -> Nat \cup {NoValue}]]
    /\ outlived \subseteq Paths
    /\ misread \subseteq Paths

ScriptsInit ==
    /\ Init
    /\ run = [r \in Runs |-> NoRun]
    /\ counted = [p \in Paths |-> [k \in KVKeys |-> 0]]
    /\ outlived = {}
    /\ misread = {}

\* The runs that have been given the page to run.
Active(p) ==
    {r \in Runs : /\ run[r].pc \notin {"none", "find", "format", "load"}
                  /\ run[r].script = p}

Keys(p) == {k \in KVKeys : scriptKV[p][k] # NoValue}

\* A key never written counts as 0.
Value(p, k) == IF k \in Keys(p) THEN scriptKV[p][k] ELSE 0

\* The keys that reading them gives: a row that fails is passed over.
KeysRead(p) == IF StoreFails THEN SUBSET Keys(p) ELSE {Keys(p)}

\* What PageExists answers: no, also when it cannot be looked up.
Answers(p) == {Exists(p)} \cup (IF StoreFails THEN {FALSE} ELSE {})

Goes(r, pc) == run' = [run EXCEPT ![r].pc = pc]

\* What was read is not used again.
IsReady(r) ==
    run' = [run EXCEPT ![r].pc = "ready", ![r].key = NoValue, ![r].value = 0]

-----------------------------------------------------------------------------
(***************************************************************************)
(* From an address to a run.                                               *)
(***************************************************************************)

\* All but the .txt.cgi page write gemtext.
IsGemtext(i) == i # 2

Candidate(r) == Candidates[run[r].url][run[r].at]

Missed(r, there) == run[r].changed \/ there # Exists(Candidate(r))

Visit(r, u) ==
    /\ run[r] = NoRun
    /\ run' = [run EXCEPT ![r] =
            [pc |-> "find", url |-> u, at |-> 1, script |-> Candidates[u][1],
             gemtext |-> FALSE, ok |-> FALSE, key |-> NoValue, value |-> 0,
             changed |-> FALSE]]
    /\ UNCHANGED <<vars, counted, outlived, misread>>

\* ScriptFor asks for one page; the first that is there answers the address.
Find(r) ==
    /\ run[r].pc = "find"
    /\ \E there \in Answers(Candidate(r)) :
        \/ /\ there
           /\ run' = [run EXCEPT ![r].pc = "format", ![r].at = 1,
                                 ![r].script = Candidate(r)]
        \/ /\ ~ there /\ run[r].at < 3
           /\ run' = [run EXCEPT ![r].at = @ + 1,
                                 ![r].changed = Missed(r, there)]
        \/ /\ ~ there /\ run[r].at = 3
           /\ run' = [run EXCEPT ![r] = NoRun]
    /\ UNCHANGED <<vars, counted, outlived, misread>>

FormatKnown(r, ok, gemtext, missed) ==
    run' = [run EXCEPT ![r].pc = "load", ![r].at = 1, ![r].ok = ok,
                       ![r].gemtext = gemtext, ![r].changed = missed]

ResolveAgain_last(r) ==
    /\ run[r].pc = "format"
    /\ \E there \in Answers(Candidate(r)) :
        LET ok == run[r].ok \/ there
            gemtext == IF there THEN IsGemtext(run[r].at) ELSE run[r].gemtext
        IN  IF run[r].at < 3
            THEN run' = [run EXCEPT ![r].at = @ + 1, ![r].ok = ok,
                                    ![r].gemtext = gemtext,
                                    ![r].changed = Missed(r, there)]
            ELSE FormatKnown(r, ok, gemtext, Missed(r, there))
    /\ UNCHANGED <<vars, counted, outlived, misread>>

\* RunScript asks ScriptFor a second time, for the format that the web uses.
ResolveAgain(r) ==
    /\ run[r].pc = "format"
    /\ \E there \in Answers(Candidate(r)) :
        \/ there /\ FormatKnown(r, TRUE, IsGemtext(run[r].at), run[r].changed)
        \/ /\ ~ there /\ run[r].at < 3
           /\ run' = [run EXCEPT ![r].at = @ + 1,
                                 ![r].changed = Missed(r, there)]
        \/ /\ ~ there /\ run[r].at = 3
           /\ FormatKnown(r, FALSE, FALSE, Missed(r, there))
    /\ UNCHANGED <<vars, counted, outlived, misread>>

Load_evenGone(r) ==
    /\ run[r].pc = "load"
    /\ Goes(r, "ready")
    /\ UNCHANGED <<vars, counted, outlived, misread>>

\* GetPage: the visit fails when the page has gone or cannot be read, and
\* shows nothing when no script answered the second time.
Load(r) ==
    /\ run[r].pc = "load"
    /\ \E there \in Answers(run[r].script) :
        IF there /\ run[r].ok
        THEN Goes(r, "ready")
        ELSE run' = [run EXCEPT ![r] = NoRun]
    /\ UNCHANGED <<vars, counted, outlived, misread>>

-----------------------------------------------------------------------------
(***************************************************************************)
(* A run.                                                                  *)
(***************************************************************************)

\* A key that cannot be read is taken for one never written.
Get(r, k) ==
    LET p == run[r].script
    IN  /\ run[r].pc = "ready"
        /\ \E keys \in KeysRead(p) :
            /\ run' = [run EXCEPT ![r].pc = "got", ![r].key = k,
                    ![r].value = IF k \in keys THEN Value(p, k) ELSE 0]
            /\ counted' = IF k \in Keys(p) \ keys
                          THEN [counted EXCEPT ![p][k] = NoValue] ELSE counted
        /\ UNCHANGED <<vars, outlived, misread>>

\* storeSet looks whether the key is new.
SetLook(r) ==
    /\ run[r].pc = "got"
    /\ run[r].value < MaxValue
    /\ \E keys \in KeysRead(run[r].script) :
        Goes(r, IF run[r].key \in keys THEN "write" ELSE "count")
    /\ UNCHANGED <<vars, counted, outlived, misread>>

SetCount_ifFuller(r) ==
    LET p == run[r].script
    IN  /\ run[r].pc = "count"
        /\ IF Cardinality(Keys(p)) > MaxKeys
           THEN run' = [run EXCEPT ![r] = NoRun]
           ELSE Goes(r, "write")
        /\ UNCHANGED <<vars, counted, outlived, misread>>

\* A new key must find room, or the run ends with an error.
SetCount(r) ==
    LET p == run[r].script
    IN  /\ run[r].pc = "count"
        /\ \E keys \in KeysRead(p) :
            IF Cardinality(keys) >= MaxKeys
            THEN run' = [run EXCEPT ![r] = NoRun] /\ UNCHANGED misread
            ELSE /\ Goes(r, "write")
                 /\ misread' = IF Cardinality(Keys(p)) >= MaxKeys
                               THEN misread \cup {p} ELSE misread
        /\ UNCHANGED <<vars, counted, outlived>>

\* The runs that have read a key and not yet written it.
Midway(p, k) ==
    {r \in Active(p) : run[r].pc \in {"got", "count", "write"} /\ run[r].key = k}

Restarted(p, k) == IF Midway(p, k) = {} THEN 0 ELSE NoValue

SetWrite_asRead(r) ==
    LET p == run[r].script
        k == run[r].key
    IN  /\ run[r].pc = "write"
        /\ ScriptKVSet(p, k, run[r].value)
        /\ IsReady(r)
        /\ counted' = [counted EXCEPT ![p][k] =
                IF @ = NoValue \/ Midway(p, k) # {r} THEN NoValue ELSE @ + 1]
        /\ UNCHANGED <<outlived, misread>>

SetWrite(r) ==
    LET p == run[r].script
        k == run[r].key
    IN  /\ run[r].pc = "write"
        /\ ScriptKVSet(p, k, run[r].value + 1)
        /\ IsReady(r)
        /\ counted' = [counted EXCEPT ![p][k] =
                IF @ = NoValue \/ Midway(p, k) # {r} THEN NoValue ELSE @ + 1]
        /\ UNCHANGED <<outlived, misread>>

\* One that fails is a step that does nothing.
DeleteKey(r, k) ==
    LET p == run[r].script
    IN  /\ run[r].pc = "ready"
        /\ ScriptKVDelete(p, k)
        /\ counted' = [counted EXCEPT ![p][k] = Restarted(p, k)]
        /\ UNCHANGED <<run, outlived, misread>>

\* The program ends, fails, or is stopped at its time limit, between two calls
\* of the store, a call under way being finished first; or its write fails.
End(r) ==
    /\ run[r].pc \in {"ready", "got"} \cup (IF StoreFails THEN {"write"} ELSE {})
    /\ run' = [run EXCEPT ![r] = NoRun]
    /\ UNCHANGED <<vars, counted, outlived, misread>>

-----------------------------------------------------------------------------
(***************************************************************************)
(* Editors beside the runs.                                                *)
(***************************************************************************)

\* Pages of these paths come or go.
Touched(ps) ==
    [r \in Runs |->
        IF run[r] # NoRun /\ \E i \in 1..3 : Candidates[run[r].url][i] \in ps
        THEN [run[r] EXCEPT !.changed = TRUE] ELSE run[r]]

Save(p) ==
    /\ \E c \in Contents, m \in Mimes : SavePage(p, c, m)
    /\ run' = Touched(IF Exists(p) THEN {} ELSE {p})
    /\ UNCHANGED <<counted, outlived, misread>>

Delete(p) ==
    /\ DeletePage(p)
    /\ run' = Touched({p})
    /\ counted' = [counted EXCEPT ![p] = [k \in KVKeys |-> Restarted(p, k)]]
    /\ outlived' = IF Active(p) = {} THEN outlived \ {p}
                   ELSE outlived \cup {p}
    /\ UNCHANGED misread

Rename(p, q) ==
    /\ RenamePage(p, q)
    /\ run' = Touched({p, q})
    /\ outlived' = outlived \cup {p}
    /\ UNCHANGED <<counted, misread>>

ScriptsNext ==
    \/ \E r \in Runs :
        \/ \E u \in Urls : Visit(r, u)
        \/ Find(r) \/ ResolveAgain(r) \/ Load(r)
        \/ \E k \in KVKeys : Get(r, k) \/ DeleteKey(r, k)
        \/ SetLook(r) \/ SetCount(r) \/ SetWrite(r)
        \/ End(r)
    \/ \E p \in Edited :
        \/ Save(p) \/ Delete(p)
        \/ \E q \in Edited : Rename(p, q)

ScriptsSpec == ScriptsInit /\ [][ScriptsNext]_scriptsVars

-----------------------------------------------------------------------------
(***************************************************************************)
(* Properties.                                                             *)
(***************************************************************************)

\* Because the number of keys is looked at before a key is written, runs of one
\* script can go past the limit together; but each by no more than one key, one
\* of them within it, however they interleave and delete, unless one was let
\* through because the keys could not all be read (script.go:249).
LimitHoldsButForOverlap ==
    \A p \in Paths \ misread :
        Cardinality(Keys(p)) <= MaxKeys + Cardinality(Runs) - 1

\* No increment is lost but to another run, or a deletion, that came between
\* the read and the write of one, or to a read that failed: a count is the
\* number of increments since the key began, through renames, errors, writes
\* that fail and time limits (script.go:235).
CountsAddUp ==
    \A p \in Paths, k \in KVKeys :
        counted[p][k] # NoValue => Value(p, k) = counted[p][k]

\* The keys of a script that has been deleted are gone for good, but for what
\* runs that outlive it write, and the keys a rename leaves at the old name
\* (scriptkv.go:63, store.go:677).
KeysGoWithTheScript ==
    \A p \in Paths : ~ Exists(p) /\ p \notin outlived => Keys(p) = {}

\* A visitor gets the output of a script in the format of that script, though
\* its address is resolved twice in up to six queries, unless a script of that
\* address came or went, or could not be looked up, since the visit began;
\* saving one over again changes nothing (site/script.go:82).
FormatIsOfTheScript ==
    \A r \in Runs :
        run[r].pc \in {"ready", "got", "count", "write"} =>
            \/ run[r].changed
            \/ \E i \in 1..3 : /\ Candidates[run[r].url][i] = run[r].script
                               /\ run[r].gemtext = IsGemtext(i)

=============================================================================
