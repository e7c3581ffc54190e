---------------------------- MODULE MCLocalProxy ----------------------------
(* Small instances of LocalProxy for TLC. *)
EXTENDS LocalProxy

CONSTANTS a1, a2, a3

\* A scope, and an item that is known as s/i and as t/i.
MCScope == <<"s">>
MCItem1 == <<"s", "i">>
MCItem2 == <<"t", "i">>

MCID == {MCScope, MCItem1, MCItem2}
MCItems == {{MCItem1, MCItem2}}
MCKind == {<<MCScope, TRUE>>, <<MCItem1, FALSE>>, <<MCItem2, FALSE>>}
MCApps == {a1, a2, a3}

\* Applications are only compared for equality.
MCSymmetry == Permutations(App)

=============================================================================
