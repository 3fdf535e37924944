---------------------------- MODULE MCIncremental ----------------------------
EXTENDS Incremental, TLC

CONSTANTS m, a, b

MainFirst == <<m, a>>
MainImports == (m :> {a}) @@ (a :> {})

\* A chain: m imports a, a imports b; nothing stops m from calling b.
Chain == <<m, a, b>>
ChainImports == (m :> {a}) @@ (a :> {b}) @@ (b :> {})
ChainRefers == (m :> {a, b}) @@ (a :> {b}) @@ (b :> {})

Symmetry == Permutations(Builders)
=============================================================================
