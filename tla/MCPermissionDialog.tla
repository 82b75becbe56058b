------------------------- MODULE MCPermissionDialog -------------------------
(* Small instances of PermissionDialog for TLC. *)
EXTENDS PermissionDialog, TLC

CONSTANTS bash, c1, c2, c3, main, helper, helper2, here, k1, k2, git

MCWithin == {<<here, here>>}

Command(k) == [tool |-> bash, key |-> k, place |-> here, families |-> {git}, class |-> NoFamily,
               egress |-> FALSE, irreversible |-> FALSE, hardStop |-> FALSE, outside |-> FALSE]

MCOpts == {Command(k1)}

MCSymmetry == Permutations(Call) \cup Permutations(Helper)
=============================================================================
