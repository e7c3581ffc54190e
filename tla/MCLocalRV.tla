----------------------------- MODULE MCLocalRV -----------------------------
(* Small instances of LocalRV for TLC. *)
EXTENDS LocalRV

CONSTANTS s1, s2, s3, i1, h1, h2, a, b

MCScopes3 == {s1, s2, s3}
MCItems1 == {i1}
MCHosts == {h1, h2}
MCFrags == {a, b}

\* Addresses and fragments are interchangeable: the code only compares them for
\* equality.
MCSymmetry == Permutations(ScopeObj) \cup Permutations(ItemObj) \cup Permutations(Frag)

\* So are the hosts while no request is node-local: LocalHost is then not read.
MCHostSymmetry == MCSymmetry \cup Permutations(Host)

\* No action reads a history variable of another kind: a run may identify the
\* states that differ only in the histories its properties do not mention.
MCGraphView == <<index, graph, pubs, subs, published, subscribed>>
MCMatchView == <<MCGraphView, matched>>

=============================================================================
