----------------------------- MODULE MCUnitGraph -----------------------------
(* The use statements of the files for UnitGraph: up to MaxUses imports, with  *)
(* repeated and self imports; one bundled module; or a module and an import.  *)
EXTENDS UnitGraph

CONSTANT MaxUses    \* bound on the imports of one file

Says(imports, modules) == [imports |-> imports, modules |-> modules]

MixedUseLists ==
    {Says(s, {}) : s \in SeqOf(Units, MaxUses)} \cup {Says(<<>>, {m}) : m \in Modules}
      \cup {Says(<<u>>, {m}) : m \in Modules, u \in Units \ {Main}}
=============================================================================
