----------------------------- MODULE MCAtSocket -----------------------------
(***************************************************************************)
(* AtSocket for TLC: two callers as model values.  They are not symmetric, *)
(* one uses TCP and the other UDP.                                         *)
(***************************************************************************)
EXTENDS AtSocket

CONSTANTS t1, t2

=============================================================================
