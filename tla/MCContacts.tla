----------------------------- MODULE MCContacts -----------------------------
(***************************************************************************)
(* Small instances of ContactsMemoryEngine.                                *)
(***************************************************************************)
EXTENDS ContactsMemoryEngine, TLC

CONSTANTS e1, e2
Symmetry == Permutations({e1, e2})
=============================================================================
