------------------------------ MODULE MCStore ------------------------------
(***************************************************************************)
(* Small instances of Store.  "/a" and "/b" are ordinary pages, "/.h" is a *)
(* hidden one; "/f" and "/f.gmi" share a key in the hits table.            *)
(***************************************************************************)
EXTENDS Store

MCHitKey == [p \in Paths |-> IF p = "/f.gmi" THEN "/f" ELSE p]
=============================================================================
