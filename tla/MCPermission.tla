---------------------------- MODULE MCPermission ----------------------------
(* Small instances of Permission for TLC. *)
EXTENDS Permission, TLC

CONSTANTS bash, edit, web, c1, c2, main, helper, helper2, other, here, there, k1, k2, git

MCWithin == {<<here, here>>, <<there, there>>}

Base == [tool |-> bash, key |-> k1, place |-> here, families |-> {git}, class |-> git,
         egress |-> FALSE, irreversible |-> FALSE, hardStop |-> FALSE, outside |-> FALSE]

\* A forced push, a sudo command of the same family, a file change outside the
\* roots, and a web read, which no carve-out covers.
ForcedPush == [Base EXCEPT !.irreversible = TRUE]
Sudo       == [Base EXCEPT !.key = k2, !.hardStop = TRUE]
EditOut    == [Base EXCEPT !.tool = edit, !.families = {}, !.place = there, !.outside = TRUE]
WebRead    == [Base EXCEPT !.tool = web, !.families = {}, !.class = NoFamily, !.egress = TRUE]

MCOpts == {ForcedPush, Sudo}
MCOptsPlace == {Sudo, EditOut}
MCSymmetry == Permutations(Call)

MCOptsOne  == {ForcedPush}
MCOptsRead == {WebRead}
=============================================================================
