----------------------------- MODULE MCScripts -----------------------------
(***************************************************************************)
(* Small instances of Scripts, of one address; each behaviour chooses one. *)
(* In "keys" there is one script, which editors make, delete and rename    *)
(* away and back.  In "formats" all three scripts of the address come and  *)
(* go, and a visit is over when the program has its page.  Which run and   *)
(* which key is which does not matter.                                     *)
(***************************************************************************)
EXTENDS Scripts, TLC

VARIABLE part

MCHitKey == [p \in Paths |-> p]

MCCandidates == [u \in Urls |-> <<"/x.gmi.cgi", "/x.txt.cgi", "/x.cgi">>]

Symmetry == Permutations(Runs) \cup Permutations(KVKeys)

OneScript == ~ Exists("/x.txt.cgi") /\ ~ Exists("/x.cgi")

OnlyVisits ==
    /\ ~ Exists("/away")
    /\ \A r \in Runs : run[r].pc \notin {"got", "count", "write"}

MCInit == ScriptsInit /\ part \in {"keys", "formats"}

MCNext ==
    /\ ScriptsNext
    /\ UNCHANGED part
    /\ \/ part = "keys" /\ OneScript'
       \/ part = "formats" /\ OnlyVisits'

MCSpec == MCInit /\ [][MCNext]_<<scriptsVars, part>>
=============================================================================
