--------------------------- MODULE MCPoolRegistry ---------------------------
(* Small instances of PoolRegistry for TLC. *)
EXTENDS PoolRegistry, TLC

CONSTANTS a1, a2, b, ka, kb

\* a1 and a2 are one connection id before and after a correction of what the
\* key leaves out; b is another connection.
TwoConnections == {a1, a2, b}
TwoKeys == {ka, kb}
KeyOfTwo == a1 :> ka @@ a2 :> ka @@ b :> kb
ReachableOfTwo == {a2, b}

OneConnection == {a1, a2}
OneKey == {ka}
KeyOfOne == a1 :> ka @@ a2 :> ka
ReachableOfOne == {a2}

\* Handlers are interchangeable, and so are the identities of pools.
Symmetry == Permutations(Workers) \cup Permutations(Pools)

=============================================================================
