------------------------------ MODULE MCEditor ------------------------------
(***************************************************************************)
(* Small instances of Editor.  A page is begun as the new page "/a.gmi";   *)
(* other addresses are reached by publishing.  "/b" is saved as "/b.gmi".  *)
(***************************************************************************)
EXTENDS Editor

MCHitKey == [p \in Paths |-> p]

MCWithExt == [p \in Paths |-> IF p = "/b" THEN "/b.gmi" ELSE p]

MCAddresses == {<<"/a.gmi", TRUE>>}

MCTwoAddresses == {<<"/a.gmi", TRUE>>, <<"/b.gmi", TRUE>>}
=============================================================================
