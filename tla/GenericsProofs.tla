---------------------------- MODULE GenericsProofs ----------------------------
(*****************************************************************************)
(* What Generics promises, for every spelling of the plain types, every      *)
(* pack and every bound on the length of a type, as long as no two instances *)
(* have one symbol: in whatever order the worklist is taken, a program gets  *)
(* the instances it needs and no other.                                      *)
(*****************************************************************************)
EXTENDS Generics, SequenceTheorems, TLAPS

Later == {"functions", "again", "done"}
Boxes == {t \in Seq(TypeNames) : Len(t) \in 2..MaxNames}

\* Every variable has what the passes may put there.
InstancesTypeOK ==
  /\ prog \in Programs
  /\ pass \in {"collect", "functions", "again", "done"}
  /\ unit \in 1..3
  /\ types \subseteq Boxes /\ copies \subseteq Boxes
  /\ wanted \subseteq Instances /\ worklist \subseteq Instances
  /\ cache \subseteq Instances /\ processed \subseteq Instances

\* An instance is registered under its own symbol, and what waits again was
\* taken before.
Tables ==
  /\ pending = {} /\ worklist \cap cache \subseteq processed /\ processed \subseteq cache
  /\ DOMAIN funcs = {Mangle(k) : k \in cache}
  /\ \A k \in cache : funcs[Mangle(k)] = k
  /\ pass = "collect" => cache = {} /\ worklist = {}
  /\ pass = "done" => worklist = {}

\* The units collected so far.
UnitsCollected ==
  /\ pass \in Later => unit = 3
  /\ \A i \in {1, 2} : i < unit => \A c \in prog.units[i] : Wants(c.callee, c.args) \subseteq wanted

\* What is asked for is registered or waits, and nothing else is or does.
Frontier ==
  pass \in Later =>
    /\ Asked \subseteq cache \union worklist
    /\ \A k \in cache : Nested(k) \subseteq cache \union worklist
    /\ \A S \in SUBSET Instances : Complete(S) => cache \union worklist \subseteq S

\* What was reported and bound.
Verdicts ==
  /\ diagnostics = {} => \A k \in cache : Satisfied(k)
  /\ pass # "done" => bound = {} /\ \A e \in diagnostics : e.code = "CE4006"
  /\ \A c \in bound : c.symbol \in DOMAIN funcs /\ funcs[c.symbol] \in c.want

InstancesInv ==
  /\ InstancesTypeOK /\ Tables /\ UnitsCollected /\ Frontier /\ Verdicts /\ SeenCallsFound

-----------------------------------------------------------------------------
(* Types, calls and instances. *)

LEMMA ShortTypesFacts ==
  \A t : t \in ShortTypes <=> t \in Seq(TypeNames) /\ Len(t) \in 1..MaxNames
  BY NamesAssumption DEF ShortTypes

LEMMA InstanceFacts ==
  ASSUME NEW fn, NEW args
  PROVE  Instance(fn, args).fn = fn /\ Instance(fn, args).args = args
  BY DEF Instance

LEMMA ParamFacts ==
  /\ T = <<"T">> /\ Arr(T) = <<"Arr", "T">> /\ Box(T) = <<"Box", "T">>
<1>1. ASSUME NEW a, NEW b
      PROVE  <<a>> \o <<b>> = <<a, b>>
  <2> DEFINE S == {a, b}
  <2>1. <<a>> \in Seq(S) /\ <<b>> \in Seq(S) /\ <<a, b>> \in Seq(S)
    OBVIOUS
  <2>2. Len(<<a>>) = 1 /\ Len(<<b>>) = 1 /\ Len(<<a, b>>) = 2
    OBVIOUS
  <2> DEFINE s == <<a>> \o <<b>>
  <2>3. s \in Seq(S) /\ Len(s) = 2 /\ s[1] = <<a>>[1] /\ s[2] = <<b>>[1]
    BY <2>1, <2>2, ConcatProperties
  <2>4. \A i \in 1..2 : s[i] = <<a, b>>[i]
    BY <2>3
  <2> HIDE DEF s
  <2>5. s = <<a, b>>
    BY <2>1, <2>2, <2>3, <2>4, SeqEqual
  <2> QED
    BY <2>5 DEF s
<1> QED
  BY <1>1 DEF T, Arr, Box

LEMMA SubstFacts ==
  ASSUME NEW pattern \in {T, Arr(T)}, NEW t \in Seq(TypeNames), t # <<>>
  PROVE  /\ Subst(pattern, t) \in Seq(TypeNames)
         /\ Len(Subst(pattern, t)) >= 1
         /\ pattern = T => Subst(pattern, t) = t
<1>1. CASE pattern = T
  <2>1. Last(<<"T">>) = "T" /\ Front(<<"T">>) = <<>>
    BY DEF Last, Front
  <2>2. Subst(pattern, t) = <<>> \o t
    BY <1>1, <2>1 DEF Subst, T
  <2>3. <<>> \o t = t
    OBVIOUS
  <2> QED
    BY <2>2, <2>3
<1>2. CASE pattern = Arr(T)
  <2>1. Last(<<"Arr", "T">>) = "T" /\ Front(<<"Arr", "T">>) = <<"Arr">>
    <3>1. Len(<<"Arr", "T">>) = 2 /\ Last(<<"Arr", "T">>) = "T"
      BY DEF Last
    <3>2. Front(<<"Arr", "T">>) = SubSeq(<<"Arr", "T">>, 1, 1)
      BY <3>1 DEF Front
    <3>3. SubSeq(<<"Arr", "T">>, 1, 1) = <<"Arr">>
      <4>1. PICK w : w = <<"Arr", "T">>
        OBVIOUS
      <4>2. w[1] = "Arr" /\ \A i \in 1..1 : w[i] \in {"Arr"}
        BY <4>1
      <4>3. PICK v : v = SubSeq(w, 1, 1)
        OBVIOUS
      <4>4. v \in Seq({"Arr"}) /\ Len(v) = 1 /\ v[1] = w[1]
        BY <4>2, <4>3, SubSeqProperties
      <4>5. v = <<"Arr">>
        BY <4>2, <4>4
      <4> QED
        BY <4>1, <4>3, <4>5
    <3> QED
      BY <3>1, <3>2, <3>3
  <2>2. Subst(pattern, t) = <<"Arr">> \o t
    BY <1>2, <2>1, ParamFacts DEF Subst
  <2>3. <<"Arr">> \in Seq(TypeNames)
    BY DEF TypeNames
  <2>4. pattern # T
    BY <1>2, ParamFacts
  <2> QED
    BY <2>2, <2>3, <2>4
<1> QED
  BY <1>1, <1>2

LEMMA UnifyFacts ==
  ASSUME NEW pattern \in {T, Box(T)}, NEW arg \in Seq(TypeNames), NEW u \in Unify(pattern, arg)
  PROVE  u \in Seq(TypeNames) /\ Len(u) >= 1 /\ Len(u) <= Len(arg)
<1>1. Len(pattern) \in {1, 2}
  BY ParamFacts
<1>2. Len(pattern) <= Len(arg) /\ u = SubSeq(arg, Len(pattern), Len(arg))
  BY DEF Unify
<1>3. ASSUME NEW m \in {1, 2}, m <= Len(arg)
      PROVE  LET s == SubSeq(arg, m, Len(arg))
             IN  s \in Seq(TypeNames) /\ Len(s) >= 1 /\ Len(s) <= Len(arg)
  <2>1. Len(arg) \in Nat /\ \A i \in m..Len(arg) : arg[i] \in TypeNames
    OBVIOUS
  <2>2. /\ SubSeq(arg, m, Len(arg)) \in Seq(TypeNames)
        /\ Len(SubSeq(arg, m, Len(arg))) = Len(arg) - m + 1
    BY <1>3, <2>1, SubSeqProperties
  <2> QED
    BY <1>3, <2>1, <2>2
<1> QED
  BY <1>1, <1>2, <1>3

\* A call in a body or in a copy asks for instances of its callee.
LEMMA CallFacts ==
  ASSUME prog \in Programs, NEW c, c.callee \in Generic, c.arg \in {T, Arr(T)},
         NEW t \in Seq(TypeNames), t # <<>>, NEW k \in CallOf(c, t)
  PROVE  /\ Fits(k) => k \in Instances
         /\ c.arg = T /\ Len(t) <= MaxNames => k \in Instances
<1> DEFINE s == Subst(c.arg, t)
<1>1. s \in Seq(TypeNames) /\ (c.arg = T => s = t)
  BY SubstFacts
<1>2. c.callee # "p" /\ prog.param[c.callee] \in {T, Box(T)}
  BY DEF Generic, Programs
<1>3. PICK u \in Unify(prog.param[c.callee], s) : k = Instance(c.callee, <<u>>)
  <2>1. <<s>>[1] = s
    OBVIOUS
  <2>2. k \in Wants(c.callee, <<s>>)
    BY DEF CallOf
  <2> QED
    BY <1>2, <2>1, <2>2 DEF Wants
<1> HIDE DEF s
<1>4. u \in Seq(TypeNames) /\ Len(u) >= 1 /\ Len(u) <= Len(s)
  BY <1>1, <1>2, <1>3, UnifyFacts
<1>5. Len(u) <= MaxNames => k \in Instances
  <2>1. Len(u) <= MaxNames => u \in ShortTypes
    BY <1>4, ShortTypesFacts, NamesAssumption
  <2> QED
    BY <1>3, <2>1 DEF Instances
<1>6. Fits(k) => Len(u) <= MaxNames
  <2>1. k.args = <<u>>
    BY <1>3, InstanceFacts
  <2> QED
    BY <2>1 DEF Fits
<1>7. c.arg = T /\ Len(t) <= MaxNames => Len(u) <= MaxNames
  BY <1>1, <1>4, NamesAssumption
<1> QED
  BY <1>5, <1>6, <1>7

LEMMA InstancesFacts ==
  ASSUME NEW k \in Instances
  PROVE  \/ /\ k.fn \in Generic /\ k.fn # "p"
            /\ \E t \in ShortTypes : k.args = <<t>>
         \/ k.fn = "p" /\ k.args \in Packs
<1>1. CASE k \in {Instance(fn, <<t>>) : fn \in Generic, t \in ShortTypes}
  <2>1. PICK fn \in Generic, t \in ShortTypes : k = Instance(fn, <<t>>)
    BY <1>1
  <2>2. k.fn = fn /\ k.args = <<t>>
    BY <2>1, InstanceFacts
  <2> QED
    BY <2>2 DEF Generic
<1>2. CASE k \in {Instance("p", ts) : ts \in Packs}
  <2>1. PICK ts \in Packs : k = Instance("p", ts)
    BY <1>2
  <2> QED
    BY <2>1, InstanceFacts
<1> QED
  BY <1>1, <1>2 DEF Instances

\* The calls in the bodies of a program.
LEMMA BodyFacts ==
  ASSUME prog \in Programs
  PROVE  /\ \A fn \in Generic : \A c \in prog.body[fn] : c.callee \in Generic /\ c.arg \in {T, Arr(T)}
         /\ \A c \in prog.body["p"] : c.callee \in Generic /\ c.arg = T /\ c.site = "expand"
         /\ \A e \in prog.ext : /\ e.call.callee \in Generic /\ e.call.arg = T /\ e.call.site = "let"
                                /\ e.target = Box(T) \/ \E u \in Boxed : e.target = Box(u)
<1>1. ASSUME NEW fn \in Generic, NEW c \in prog.body[fn]
      PROVE  c.callee \in Generic /\ c.arg \in {T, Arr(T)}
  <2>1. prog.body[fn] \in Bodies
    BY DEF Programs
  <2>2. c \in Calls({T, Arr(T)}, {"let", "print"})
    BY <1>1, <2>1 DEF Bodies, AtMostOne
  <2> QED
    BY <2>2 DEF Calls
<1>2. ASSUME NEW c \in prog.body["p"]
      PROVE  c.callee \in Generic /\ c.arg = T /\ c.site = "expand"
  <2>1. prog.body["p"] \in PackBodies
    BY DEF Programs
  <2> QED
    BY <1>2, <2>1 DEF PackBodies, Generic
<1>3. ASSUME NEW e \in prog.ext
      PROVE  /\ e.call.callee \in Generic /\ e.call.arg = T /\ e.call.site = "let"
             /\ e.target = Box(T) \/ \E u \in Boxed : e.target = Box(u)
  <2>1. prog.ext \in Extensions
    BY DEF Programs
  <2>2. PICK t \in {Box(T)} \union {Box(u) : u \in Boxed}, c \in Calls({T}, {"let"}) :
          e = [target |-> t, call |-> c]
    BY <1>3, <2>1 DEF Extensions
  <2> QED
    BY <2>2 DEF Calls
<1> QED
  BY <1>1, <1>2, <1>3

LEMMA NestedFacts ==
  ASSUME prog \in Programs, NEW k \in Instances
  PROVE  Nested(k) \subseteq Instances
<1> SUFFICES ASSUME NEW n \in Nested(k) PROVE n \in Instances
  OBVIOUS
<1>1. k.fn # "p"
  BY DEF Nested
<1>2. PICK t \in ShortTypes : k.fn \in Generic /\ k.args = <<t>>
  BY <1>1, InstancesFacts
<1>3. PICK c \in prog.body[k.fn] : n \in CallOf(c, k.args[1]) /\ Fits(n)
  BY <1>1 DEF Nested
<1>4. k.args[1] = t /\ t \in Seq(TypeNames) /\ t # <<>>
  BY <1>2, ShortTypesFacts
<1> QED
  BY <1>2, <1>3, <1>4, CallFacts, BodyFacts

-----------------------------------------------------------------------------
(* The units. *)

LEMMA UnitFacts ==
  ASSUME prog \in Programs
  PROVE  /\ Len(prog.units) = 2 /\ ToSet(prog.units) = {prog.units[1], prog.units[2]}
         /\ \A i \in {1, 2} : \A c \in prog.units[i] :
              /\ c.site = "let"
              /\ \/ c.callee = "p" /\ c.args \in Packs
                 \/ /\ c.callee \in Generic /\ c.callee # "p"
                    /\ \E t : c.args = <<t>> /\ (t \in Plain \/ \E u \in Boxed : t = Box(u))
<1>1. PICK a \in MainCalls, b \in PackCalls : prog.units = <<{a}, {b}>>
  BY DEF Programs
<1>2. Len(prog.units) = 2 /\ DOMAIN prog.units = {1, 2} /\ prog.units[1] = {a} /\ prog.units[2] = {b}
  BY <1>1
<1>3. ToSet(prog.units) = {prog.units[1], prog.units[2]}
  BY <1>2 DEF ToSet
<1>4. b.site = "let" /\ b.callee = "p" /\ b.args \in Packs
  BY DEF PackCalls
<1>5. a.site = "let" /\ a.callee \in Generic /\ a.callee # "p"
  BY DEF MainCalls, Generic
<1>6. \E t : a.args = <<t>> /\ (t \in Plain \/ \E u \in Boxed : t = Box(u))
  BY DEF MainCalls
<1> QED
  BY <1>2, <1>3, <1>4, <1>5, <1>6

\* Types of one or two names.
LEMMA PlainFacts ==
  /\ \A t \in Plain : t \in Seq(TypeNames) /\ Len(t) = 1 /\ t[1] # "Box"
  /\ \A u \in Boxed : Box(u) \in Seq(TypeNames) /\ Len(Box(u)) = 2 /\ Box(u) \in Boxes
<1>1. ASSUME NEW t \in Plain
      PROVE  t \in Seq(TypeNames) /\ Len(t) = 1 /\ t[1] # "Box"
  <2>1. PICK n \in DOMAIN Spelling : t = <<n>>
    BY DEF Plain
  <2>2. n \in TypeNames /\ n # "Box"
    BY NamesAssumption DEF TypeNames
  <2> QED
    BY <2>1, <2>2
<1>2. ASSUME NEW u \in Boxed
      PROVE  Box(u) \in Seq(TypeNames) /\ Len(Box(u)) = 2
  <2>1. PICK n \in Showable : u = <<n>>
    BY DEF Boxed
  <2>2. n \in TypeNames /\ "Box" \in TypeNames
    BY NamesAssumption DEF TypeNames
  <2>3. <<"Box">> \in Seq(TypeNames) /\ u \in Seq(TypeNames) /\ Len(<<"Box">>) = 1 /\ Len(u) = 1
    BY <2>1, <2>2
  <2> QED
    BY <2>3, ConcatProperties DEF Box
<1>3. ASSUME NEW u \in Boxed
      PROVE  Box(u) \in Boxes
  <2>1. 2 \in 2..MaxNames
    BY NamesAssumption
  <2> QED
    BY <1>2, <1>3, <2>1 DEF Boxes
<1> QED
  BY <1>1, <1>2, <1>3

\* What a signature asks for has one name more.
LEMMA SignatureFacts ==
  ASSUME NEW t \in Boxes, Len(t) <= MaxNames - 1
  PROVE  Box(Arr(Tail(t))) \in Boxes
<1>1. t \in Seq(TypeNames) /\ Len(t) >= 2 /\ MaxNames \in Nat
  BY NamesAssumption DEF Boxes
<1>2. Tail(t) \in Seq(TypeNames) /\ Len(Tail(t)) = Len(t) - 1
  BY <1>1
<1>3. /\ <<"Arr">> \in Seq(TypeNames) /\ Len(<<"Arr">>) = 1
      /\ <<"Box">> \in Seq(TypeNames) /\ Len(<<"Box">>) = 1
  BY DEF TypeNames
<1>4. PICK a : a = Arr(Tail(t))
  OBVIOUS
<1>5. a \in Seq(TypeNames) /\ Len(a) = Len(t)
  BY <1>1, <1>2, <1>3, <1>4, ConcatProperties DEF Arr
<1>6. PICK b : b = Box(a)
  OBVIOUS
<1>7. b \in Seq(TypeNames) /\ Len(b) = Len(t) + 1
  BY <1>1, <1>3, <1>5, <1>6, ConcatProperties DEF Box
<1>8. Len(b) \in 2..MaxNames
  BY <1>1, <1>7
<1> QED
  BY <1>4, <1>6, <1>7, <1>8 DEF Boxes

\* What a unit asks for are instances.
LEMMA AskedFacts ==
  ASSUME prog \in Programs, NEW i \in {1, 2}, NEW c \in prog.units[i]
  PROVE  Wants(c.callee, c.args) \subseteq Instances
<1>1. CASE c.callee = "p" /\ c.args \in Packs
  BY <1>1 DEF Wants, Instances
<1>2. ASSUME c.callee \in Generic, c.callee # "p",
             NEW t, c.args = <<t>>, t \in Plain \/ \E u \in Boxed : t = Box(u)
      PROVE  Wants(c.callee, c.args) \subseteq Instances
  <2> SUFFICES ASSUME NEW k \in Wants(c.callee, c.args) PROVE k \in Instances
    OBVIOUS
  <2>1. t \in Seq(TypeNames) /\ Len(t) <= 2
    <3>1. CASE t \in Plain
      <4>1. t \in Seq(TypeNames) /\ Len(t) = 1
        BY <3>1, PlainFacts
      <4> QED
        BY <4>1
    <3>2. CASE \E u \in Boxed : t = Box(u)
      <4>1. PICK u \in Boxed : t = Box(u)
        BY <3>2
      <4>2. Box(u) \in Seq(TypeNames) /\ Len(Box(u)) = 2
        BY PlainFacts
      <4> QED
        BY <4>1, <4>2
    <3> QED
      BY <1>2, <3>1, <3>2
  <2>2. c.args[1] = t
    BY <1>2
  <2>3. PICK v \in Unify(prog.param[c.callee], t) : k = Instance(c.callee, <<v>>)
    BY <1>2, <2>2 DEF Wants
  <2>4. prog.param[c.callee] \in {T, Box(T)}
    BY <1>2 DEF Programs
  <2>5. v \in Seq(TypeNames) /\ Len(v) >= 1 /\ Len(v) <= Len(t)
    BY <2>1, <2>3, <2>4, UnifyFacts
  <2>6. v \in ShortTypes
    BY <2>1, <2>5, ShortTypesFacts, NamesAssumption
  <2> QED
    BY <1>2, <2>3, <2>6 DEF Instances
<1> QED
  BY <1>1, <1>2, UnitFacts

LEMMA BoxesFacts ==
  ASSUME prog \in Programs, NEW i \in {1, 2}
  PROVE  BoxesIn(prog.units[i]) \subseteq Boxes
<1> SUFFICES ASSUME NEW t \in BoxesIn(prog.units[i]) PROVE t \in Boxes
  OBVIOUS
<1>1. PICK c \in prog.units[i] : t \in ToSet(c.args) /\ t[1] = "Box"
  BY DEF BoxesIn
<1>2. CASE c.callee = "p" /\ c.args \in Packs
  <2>1. t \in Plain
    BY <1>1, <1>2, NamesAssumption DEF ToSet
  <2> QED
    BY <1>1, <2>1, PlainFacts
<1>3. CASE \E u : c.args = <<u>> /\ (u \in Plain \/ \E v \in Boxed : u = Box(v))
  <2>1. PICK u : c.args = <<u>> /\ (u \in Plain \/ \E v \in Boxed : u = Box(v))
    BY <1>3
  <2>2. t = u
    BY <1>1, <2>1 DEF ToSet
  <2> QED
    BY <1>1, <2>1, <2>2, PlainFacts
<1> QED
  BY <1>2, <1>3, UnitFacts

LEMMA InstancesInitInv == InstancesInit => InstancesInv
<1> SUFFICES ASSUME InstancesInit PROVE InstancesInv
  OBVIOUS
<1> USE DEF InstancesInit
<1>1. InstancesTypeOK
  BY DEF InstancesTypeOK
<1>2. Tables
  BY DEF Tables
<1>3. UnitsCollected /\ Frontier /\ Verdicts /\ SeenCallsFound
  BY DEF UnitsCollected, Frontier, Verdicts, SeenCallsFound, Later
<1> QED
  BY <1>1, <1>2, <1>3 DEF InstancesInv

LEMMA CollectUnitInv ==
  ASSUME InstancesInv, CollectUnit
  PROVE  InstancesInv'
<1> USE DEF InstancesInv
<1>1. /\ pass = "collect" /\ pass' = pass /\ prog' = prog /\ prog \in Programs
      /\ unit \in {1, 2} /\ unit' = unit + 1
  <2>1. /\ pass = "collect" /\ pass' = pass /\ prog' = prog /\ prog \in Programs
        /\ unit \in 1..3 /\ unit <= Len(prog.units) /\ unit' = unit + 1
    BY DEF CollectUnit, InstancesTypeOK
  <2>2. Len(prog.units) = 2
    BY <2>1, UnitFacts
  <2> QED
    BY <2>1, <2>2
<1>2. /\ wanted' = wanted \union AskedByUnit(prog.units[unit])
      /\ types' = types \union BoxesIn(prog.units[unit])
      /\ UNCHANGED <<round, worklist, processed, pending, cache, funcs, copies, bound, diagnostics>>
  BY DEF CollectUnit
<1>3. /\ AskedByUnit(prog.units[unit]) \subseteq Instances
      /\ \A c \in prog.units[unit] : Wants(c.callee, c.args) \subseteq AskedByUnit(prog.units[unit])
  BY <1>1, AskedFacts, UnitFacts DEF AskedByUnit, SeenByCollector
<1>4. InstancesTypeOK'
  BY <1>1, <1>2, <1>3, BoxesFacts DEF InstancesTypeOK
<1>5. Tables'
  BY <1>1, <1>2 DEF Tables
<1>6. UnitsCollected'
  <2>1. \A callee, args : Wants(callee, args)' = Wants(callee, args)
    BY <1>1 DEF Wants
  <2> QED
    BY <1>1, <1>2, <1>3, <2>1 DEF UnitsCollected, Later
<1>7. Frontier'
  BY <1>1 DEF Frontier, Later
<1>8. Verdicts' /\ SeenCallsFound'
  BY <1>1, <1>2 DEF Verdicts, SeenCallsFound, Satisfied
<1> QED
  BY <1>4, <1>5, <1>6, <1>7, <1>8

\* A copy's call, like a unit's, is known by the program alone.
LEMMA ProgramStays ==
  ASSUME prog' = prog
  PROVE  /\ \A callee, args : Wants(callee, args)' = Wants(callee, args)
         /\ \A c, t : CallOf(c, t)' = CallOf(c, t)
         /\ \A k : Nested(k)' = Nested(k) /\ Satisfied(k)' = Satisfied(k)
<1>1. \A callee, args : Wants(callee, args)' = Wants(callee, args)
  BY DEF Wants
<1>2. \A c, t : CallOf(c, t)' = CallOf(c, t)
  BY <1>1 DEF CallOf
<1> QED
  BY <1>1, <1>2 DEF Nested, Satisfied

LEMMA CollectExtensionsInv ==
  ASSUME InstancesInv, CollectExtensions
  PROVE  InstancesInv'
<1> USE DEF InstancesInv
<1>1. /\ pass = "collect" /\ prog' = prog /\ prog \in Programs /\ unit \in 1..3
      /\ unit > Len(prog.units)
      /\ UNCHANGED <<unit, wanted, processed, pending, cache, funcs, copies, bound, diagnostics>>
  BY DEF CollectExtensions, InstancesTypeOK
<1>2. unit = 3
  <2>1. Len(prog.units) = 2
    BY <1>1, UnitFacts
  <2> QED
    BY <1>1, <2>1
<1>3. \/ pass' = "functions" /\ worklist' = wanted
      \/ pass' = pass /\ worklist' = worklist
  BY DEF CollectExtensions
<1>4. cache = {} /\ worklist = {} /\ pending = {} /\ processed = {}
  BY <1>1 DEF Tables
<1>5. types' \subseteq Boxes
  <2>1. /\ types \subseteq Boxes
        /\ \E S \in {{e.target : e \in prog.ext \ {d \in prog.ext : d.target = Box(T)}},
                     SignatureTypes(types)} : types' = types \union S
    BY DEF CollectExtensions, InstancesTypeOK
  <2>2. ASSUME NEW e \in prog.ext, e.target # Box(T)
        PROVE  e.target \in Boxes
    <3>1. PICK u \in Boxed : e.target = Box(u)
      BY <1>1, <2>2, BodyFacts
    <3> QED
      BY <3>1, PlainFacts
  <2>3. ASSUME NEW t \in types, Len(t) <= MaxNames - 1
        PROVE  Box(Arr(Tail(t))) \in Boxes
    BY <2>1, <2>3, SignatureFacts
  <2> QED
    BY <2>1, <2>2, <2>3 DEF SignatureTypes
<1>6. InstancesTypeOK'
  BY <1>1, <1>3, <1>5 DEF InstancesTypeOK
<1>7. Tables'
  BY <1>1, <1>3, <1>4 DEF Tables
<1>8. UnitsCollected'
  BY <1>1, <1>2, ProgramStays DEF UnitsCollected, Later
<1>9. Frontier'
  <2>1. CASE pass' = "functions" /\ worklist' = wanted
    <3>1. Asked' = wanted
      BY <1>1, <2>1 DEF Asked
    <3>2. \A S : Complete(S)' => wanted \subseteq S
      BY <3>1 DEF Complete
    <3> QED
      BY <1>1, <1>4, <2>1, <3>1, <3>2 DEF Frontier
  <2>2. CASE pass' = pass /\ worklist' = worklist
    BY <1>1, <2>2 DEF Frontier, Later
  <2> QED
    BY <1>3, <2>1, <2>2
<1>10. Verdicts' /\ SeenCallsFound'
  BY <1>1, <1>3, ProgramStays DEF Verdicts, SeenCallsFound
<1> QED
  BY <1>6, <1>7, <1>8, <1>9, <1>10

-----------------------------------------------------------------------------
(* The worklist. *)

\* Taking an instance that was not taken before registers it and asks for what
\* its body asks for.
LEMMA RegisterFacts ==
  ASSUME InstancesInv, NEW k \in worklist, k \notin processed, Register(k)
  PROVE  /\ cache' = cache \union {k} /\ pending' = {}
         /\ worklist' = (worklist \ {k}) \union (Nested(k) \ cache)
         /\ DOMAIN funcs' = DOMAIN funcs \union {Mangle(k)}
         /\ funcs'[Mangle(k)] = k
         /\ \A j \in cache : Mangle(j) # Mangle(k) /\ funcs'[Mangle(j)] = funcs[Mangle(j)]
         /\ diagnostics' = diagnostics \union
              (IF Satisfied(k) THEN {} ELSE {[code |-> "CE4006", site |-> "bound"]})
<1>1. Tables /\ k \in Instances /\ cache \subseteq Instances
  BY DEF InstancesInv, InstancesTypeOK
<1>2. k \notin cache
  BY <1>1 DEF Tables
<1>3. \A j \in cache : Mangle(j) # Mangle(k)
  BY <1>1, <1>2, SymbolsAssumption DEF SymbolsApart
<1>4. Mangle(k) \notin DOMAIN funcs
  BY <1>1, <1>3 DEF Tables
<1>5. /\ cache' = cache \union {k} /\ pending' = {}
      /\ worklist' = (worklist \ {k}) \union pending \union NewlyPending(k)
      /\ funcs' = [s \in DOMAIN funcs \union {Mangle(k)} |-> IF s = Mangle(k) THEN k ELSE funcs[s]]
  BY <1>4 DEF Register
<1>6. pending = {} /\ NewlyPending(k) = Nested(k) \ cache
  BY <1>1, <1>2 DEF Tables, NewlyPending
<1>7. PICK s : s = Mangle(k)
  OBVIOUS
<1>8. /\ DOMAIN funcs' = DOMAIN funcs \union {s}
      /\ funcs'[s] = k
      /\ \A x \in DOMAIN funcs : x # s => funcs'[x] = funcs[x]
  BY <1>5, <1>7
<1>9. \A j \in cache : Mangle(j) \in DOMAIN funcs
  BY <1>1 DEF Tables
<1>10. diagnostics' = diagnostics \union
         (IF Satisfied(k) THEN {} ELSE {[code |-> "CE4006", site |-> "bound"]})
  BY <1>2 DEF Register
<1> QED
  BY <1>3, <1>4, <1>5, <1>6, <1>7, <1>8, <1>9, <1>10

LEMMA PopInv ==
  ASSUME InstancesInv, Pop
  PROVE  InstancesInv'
<1>1. PICK k \in worklist :
        /\ processed' = processed \union {k}
        /\ IF k \in processed
           THEN worklist' = worklist \ {k} /\ UNCHANGED <<cache, diagnostics, pending, funcs>>
           ELSE Register(k)
  BY DEF Pop
<1>2. /\ pass \in {"functions", "again"} /\ pass' = pass
      /\ prog' = prog /\ prog \in Programs
      /\ UNCHANGED <<unit, round, types, wanted, copies, bound>>
  BY DEF Pop, InstancesInv, InstancesTypeOK
<1>3. InstancesTypeOK /\ Tables /\ UnitsCollected /\ Frontier /\ Verdicts /\ SeenCallsFound
  BY DEF InstancesInv
<1>4. UnitsCollected'
  BY <1>2, <1>3, ProgramStays DEF UnitsCollected, Later
<1>5. /\ Asked' = Asked /\ \A S : Complete(S)' <=> Complete(S)
  <2>1. Asked' = Asked
    BY <1>2, ProgramStays DEF Asked
  <2> QED
    BY <1>2, <2>1, ProgramStays DEF Complete
<1>6. CASE k \in processed
  <2>1. worklist' = worklist \ {k} /\ processed' = processed /\ UNCHANGED <<cache, diagnostics, pending, funcs>>
    BY <1>1, <1>6
  <2>2. k \in cache
    BY <1>3, <1>6 DEF Tables
  <2>3. cache' \union worklist' = cache \union worklist
    BY <2>1, <2>2
  <2>4. InstancesTypeOK'
    BY <1>2, <1>3, <2>1 DEF InstancesTypeOK
  <2>5. Tables'
    BY <1>2, <1>3, <2>1 DEF Tables
  <2>6. Frontier'
    BY <1>2, <1>3, <1>5, <2>1, <2>3, ProgramStays DEF Frontier
  <2>7. Verdicts' /\ SeenCallsFound'
    BY <1>2, <1>3, <2>1, ProgramStays DEF Verdicts, SeenCallsFound
  <2> QED
    BY <1>4, <2>4, <2>5, <2>6, <2>7 DEF InstancesInv
<1>7. CASE k \notin processed
  <2>1. /\ cache' = cache \union {k} /\ pending' = {}
        /\ worklist' = (worklist \ {k}) \union (Nested(k) \ cache)
        /\ DOMAIN funcs' = DOMAIN funcs \union {Mangle(k)}
        /\ funcs'[Mangle(k)] = k
        /\ \A j \in cache : Mangle(j) # Mangle(k) /\ funcs'[Mangle(j)] = funcs[Mangle(j)]
        /\ diagnostics' = diagnostics \union
             (IF Satisfied(k) THEN {} ELSE {[code |-> "CE4006", site |-> "bound"]})
    BY <1>1, <1>7, RegisterFacts
  <2>2. k \in Instances /\ Nested(k) \subseteq Instances
    BY <1>2, <1>3, NestedFacts DEF InstancesTypeOK
  <2>3. cache' \union worklist' = cache \union worklist \union Nested(k)
    BY <2>1
  <2>4. InstancesTypeOK'
    BY <1>1, <1>2, <1>3, <2>1, <2>2 DEF InstancesTypeOK
  <2>5. Tables'
    <3>1. worklist' \cap cache' \subseteq processed'
      BY <1>1, <1>3, <2>1 DEF Tables
    <3>2. processed' \subseteq cache'
      BY <1>1, <1>3, <2>1 DEF Tables
    <3>3. DOMAIN funcs' = {Mangle(j) : j \in cache'}
      BY <1>3, <2>1 DEF Tables
    <3>4. \A j \in cache' : funcs'[Mangle(j)] = j
      BY <1>3, <2>1 DEF Tables
    <3>5. \A j : Mangle(j)' = Mangle(j)
      BY DEF Mangle, Sanitized
    <3> QED
      BY <1>2, <2>1, <3>1, <3>2, <3>3, <3>4, <3>5 DEF Tables
  <2>6. Frontier'
    <3>1. /\ Asked \subseteq cache \union worklist
          /\ \A j \in cache : Nested(j) \subseteq cache \union worklist
          /\ \A S \in SUBSET Instances : Complete(S) => cache \union worklist \subseteq S
      BY <1>2, <1>3 DEF Frontier, Later
    <3>2. \A S \in SUBSET Instances : Complete(S) => cache \union worklist \union Nested(k) \subseteq S
      BY <3>1 DEF Complete
    <3>3. \A j \in cache' : Nested(j) \subseteq cache' \union worklist'
      BY <2>1, <2>3, <3>1
    <3> QED
      BY <1>2, <1>5, <2>3, <3>1, <3>2, <3>3, ProgramStays DEF Frontier
  <2>7. Verdicts'
    <3>1. diagnostics' = {} => diagnostics = {} /\ Satisfied(k)
      BY <2>1
    <3>2. \A e \in diagnostics' : e \in diagnostics \/ e.code = "CE4006"
      BY <2>1
    <3>3. bound' = bound /\ bound = {} /\ pass \notin {"done"}
      BY <1>2, <1>3 DEF Verdicts
    <3>4. \A j : Satisfied(j)' <=> Satisfied(j)
      BY <1>2 DEF Satisfied
    <3> QED
      BY <1>2, <1>3, <2>1, <3>1, <3>2, <3>3, <3>4 DEF Verdicts
  <2>8. SeenCallsFound'
    <3>1. \A e \in diagnostics' : e \in diagnostics \/ e.code = "CE4006"
      BY <2>1
    <3> QED
      BY <1>3, <3>1 DEF SeenCallsFound
  <2> QED
    BY <1>4, <2>4, <2>5, <2>6, <2>7, <2>8 DEF InstancesInv
<1> QED
  BY <1>6, <1>7

-----------------------------------------------------------------------------
(* The copies of extension methods, and the second round of functions. *)

\* A Box is its name and the type it holds.
LEMMA BoxFacts ==
  ASSUME NEW t \in Boxes
  PROVE  Tail(t) \in Seq(TypeNames) /\ Tail(t) # <<>> /\ Len(Tail(t)) <= MaxNames
<1>1. t \in Seq(TypeNames) /\ Len(t) >= 2 /\ Len(t) <= MaxNames /\ MaxNames \in Nat
  BY NamesAssumption DEF Boxes
<1>2. PICK u : u = Tail(t)
  OBVIOUS
<1>3. u \in Seq(TypeNames) /\ Len(u) = Len(t) - 1
  BY <1>1, <1>2
<1>4. u # <<>> /\ Len(u) <= MaxNames
  BY <1>1, <1>3
<1> QED
  BY <1>2, <1>3, <1>4

\* What the copies on boxes ask for.
AskedOn(boxes) == UNION {CallOf(e.call, Tail(t)) : e \in prog.ext, t \in boxes}

LEMMA CopyFacts ==
  ASSUME prog \in Programs, NEW boxes \in SUBSET Boxes
  PROVE  AskedOn(boxes) \subseteq Instances
<1> SUFFICES ASSUME NEW e \in prog.ext, NEW t \in boxes, NEW k \in CallOf(e.call, Tail(t))
             PROVE  k \in Instances
  BY DEF AskedOn
<1>1. e.call.callee \in Generic /\ e.call.arg = T
  BY BodyFacts
<1>2. PICK u : u = Tail(t)
  OBVIOUS
<1>3. u \in Seq(TypeNames) /\ u # <<>> /\ Len(u) <= MaxNames
  BY <1>2, BoxFacts
<1>4. PICK c : c = e.call
  OBVIOUS
<1> QED
  BY <1>1, <1>2, <1>3, <1>4, CallFacts

LEMMA MonomorphizeExtensionsInv ==
  ASSUME InstancesInv, MonomorphizeExtensions
  PROVE  InstancesInv'
<1>1. InstancesTypeOK /\ Tables /\ UnitsCollected /\ Frontier /\ Verdicts /\ SeenCallsFound
  BY DEF InstancesInv
<1>2. /\ pass = "functions" /\ pass' = "again" /\ worklist = {}
      /\ prog' = prog /\ prog \in Programs
      /\ processed' = {} /\ pending' = {}
      /\ UNCHANGED <<unit, round, types, wanted, cache, funcs, bound, diagnostics>>
  BY <1>1 DEF MonomorphizeExtensions, InstancesTypeOK
<1>3. copies' \subseteq types /\ copies' \subseteq Boxes
  BY <1>1 DEF MonomorphizeExtensions, InstancesTypeOK
<1>4. worklist' = AskedOn(copies') \ cache
  BY DEF MonomorphizeExtensions, AskedByCopies, AskedOn
<1>5. Asked = wanted /\ Asked' = wanted \union AskedOn(copies')
  BY <1>2, ProgramStays DEF Asked, AskedOn
<1>6. AskedOn(copies') \subseteq Instances
  BY <1>2, <1>3, CopyFacts
<1>7. InstancesTypeOK'
  BY <1>1, <1>2, <1>3, <1>4, <1>6 DEF InstancesTypeOK
<1>8. Tables'
  BY <1>1, <1>2, <1>4 DEF Tables
<1>9. UnitsCollected'
  BY <1>1, <1>2, ProgramStays DEF UnitsCollected, Later
<1>10. Frontier'
  <2>1. /\ wanted \subseteq cache
        /\ \A k \in cache : Nested(k) \subseteq cache
        /\ \A S \in SUBSET Instances : Complete(S) => cache \subseteq S
    BY <1>1, <1>2, <1>5 DEF Frontier, Later
  <2>2. \A S : Complete(S)' => Complete(S) /\ AskedOn(copies') \subseteq S
    BY <1>2, <1>5, ProgramStays DEF Complete
  <2> QED
    BY <1>2, <1>4, <1>5, <2>1, <2>2, ProgramStays DEF Frontier
<1>11. Verdicts' /\ SeenCallsFound'
  BY <1>1, <1>2, ProgramStays DEF Verdicts, SeenCallsFound
<1> QED
  BY <1>7, <1>8, <1>9, <1>10, <1>11 DEF InstancesInv

-----------------------------------------------------------------------------
(* The calls the typecheck pass answers. *)

\* Once the worklist is empty, every call asks for instances, and one the
\* passes can see asks for registered ones.
LEMMA CallsKnown ==
  ASSUME InstancesInv, pass = "again", worklist = {},
         NEW c \in AllCalls, \A k \in c.want : Fits(k)
  PROVE  c.want \subseteq Instances /\ (c.site = "let" => c.want \subseteq cache)
<1>1. /\ prog \in Programs /\ Asked \subseteq cache /\ cache \subseteq Instances
      /\ copies \subseteq Boxes
      /\ \A k \in cache : Nested(k) \subseteq cache
  BY DEF InstancesInv, InstancesTypeOK, Frontier, Later
<1>2. ASSUME NEW i \in {1, 2}, NEW d \in prog.units[i],
             c = [site |-> d.site, want |-> Wants(d.callee, d.args)]
      PROVE  c.want \subseteq Instances /\ c.want \subseteq cache
  <2>1. Wants(d.callee, d.args) \subseteq Instances
    BY <1>1, AskedFacts
  <2>2. i < unit
    <3>1. unit = 3
      BY DEF InstancesInv, UnitsCollected, Later
    <3> QED
      BY <3>1
  <2>3. Wants(d.callee, d.args) \subseteq wanted
    BY <2>2 DEF InstancesInv, UnitsCollected
  <2> QED
    BY <1>1, <1>2, <2>1, <2>3 DEF Asked
<1>3. ASSUME NEW s \in DOMAIN funcs, c \in CallsIn(funcs[s])
      PROVE  c.want \subseteq Instances /\ (c.site = "let" => c.want \subseteq cache)
  <2>1. PICK k \in cache : k = funcs[s]
    BY DEF InstancesInv, Tables
  <2>2. PICK d \in prog.body[k.fn], t \in BodyTypes(k) :
          c = [site |-> d.site, want |-> CallOf(d, t)]
    BY <1>3, <2>1 DEF CallsIn
  <2>3. k \in Instances /\ c.want = CallOf(d, t) /\ c.site = d.site
    BY <1>1, <2>2
  <2>4. CASE k.fn = "p" /\ k.args \in Packs
    <3>1. d.callee \in Generic /\ d.arg = T /\ d.site = "expand"
      BY <1>1, <2>4, BodyFacts
    <3>2. t \in Plain
      BY <2>4, NamesAssumption DEF BodyTypes, ToSet
    <3>3. t \in Seq(TypeNames) /\ t # <<>>
      <4>1. PICK n \in DOMAIN Spelling : t = <<n>>
        BY <3>2 DEF Plain
      <4>2. t # <<>>
        BY <4>1
      <4> QED
        BY <3>2, <4>2, PlainFacts
    <3>4. CallOf(d, t) \subseteq Instances
      BY <1>1, <2>3, <3>1, <3>3, CallFacts
    <3> QED
      BY <2>3, <3>1, <3>4
  <2>5. CASE k.fn \in Generic /\ k.fn # "p" /\ \E u \in ShortTypes : k.args = <<u>>
    <3>1. PICK u \in ShortTypes : k.args = <<u>>
      BY <2>5
    <3>2. t = u /\ k.args[1] = u
      BY <3>1 DEF BodyTypes, ToSet
    <3>3. t \in Seq(TypeNames) /\ t # <<>>
      <4>1. t \in Seq(TypeNames) /\ Len(t) \in 1..MaxNames
        BY <3>2, ShortTypesFacts
      <4> QED
        BY <4>1, NamesAssumption
    <3>4. d.callee \in Generic /\ d.arg \in {T, Arr(T)}
      BY <1>1, <2>5, BodyFacts
    <3>5. CallOf(d, t) \subseteq Instances
      BY <1>1, <2>3, <3>3, <3>4, CallFacts
    <3>6. d.site = "let" => CallOf(d, t) \subseteq Nested(k)
      BY <2>3, <2>5, <3>2 DEF Nested, SeenInInstance
    <3> QED
      BY <1>1, <2>3, <3>5, <3>6
  <2> QED
    BY <2>3, <2>4, <2>5, InstancesFacts
<1>4. ASSUME NEW e \in prog.ext, NEW t \in copies,
             c = [site |-> e.call.site, want |-> CallOf(e.call, Tail(t))]
      PROVE  c.want \subseteq Instances /\ c.want \subseteq cache
  <2>1. CallOf(e.call, Tail(t)) \subseteq Asked
    BY DEF Asked
  <2> QED
    BY <1>1, <1>4, <2>1
<1>5. \/ \E i \in {1, 2} : \E d \in prog.units[i] :
           c = [site |-> d.site, want |-> Wants(d.callee, d.args)]
      \/ \E s \in DOMAIN funcs : c \in CallsIn(funcs[s])
      \/ \E e \in prog.ext : \E t \in copies :
           c = [site |-> e.call.site, want |-> CallOf(e.call, Tail(t))]
  <2>1. ToSet(prog.units) = {prog.units[1], prog.units[2]}
    BY <1>1, UnitFacts
  <2>2. c \in UnitCalls \/ (\E s \in DOMAIN funcs : c \in CallsIn(funcs[s])) \/ c \in CopyCalls
    BY DEF AllCalls
  <2>3. CASE c \in UnitCalls
    <3>1. PICK calls \in ToSet(prog.units) :
            c \in {[site |-> d.site, want |-> Wants(d.callee, d.args)] : d \in calls}
      BY <2>3 DEF UnitCalls
    <3>2. PICK i \in {1, 2} : calls = prog.units[i]
      BY <2>1
    <3> QED
      BY <3>1, <3>2
  <2>4. CASE c \in CopyCalls
    BY <2>4 DEF CopyCalls
  <2> QED
    BY <2>2, <2>3, <2>4
<1> QED
  BY <1>2, <1>3, <1>4, <1>5

LEMMA TypecheckInv ==
  ASSUME InstancesInv, Typecheck
  PROVE  InstancesInv'
<1> DEFINE short == {c \in AllCalls : \A k \in c.want : Fits(k)}
           answer(c, code) == [code |-> code, site |-> c.site]
           symbol(c) == Mangle(CHOOSE k \in c.want : TRUE)
           typed == {c \in short : c.want # {}}
           found == {c \in typed : symbol(c) \in DOMAIN funcs}
           untyped == {answer(c, "CE2060") : c \in short \ typed}
           unknown == {answer(c, "CE2061") : c \in typed \ found}
<1>1. InstancesTypeOK /\ Tables /\ UnitsCollected /\ Frontier /\ Verdicts /\ SeenCallsFound
  BY DEF InstancesInv
<1>2. /\ pass = "again" /\ pass' = "done" /\ worklist = {} /\ prog' = prog
      /\ UNCHANGED <<unit, round, types, wanted, worklist, processed, pending, cache, funcs, copies>>
  BY DEF Typecheck
<1>3. /\ diagnostics' = diagnostics \union untyped \union unknown
      /\ bound' = {[site |-> c.site, want |-> c.want, symbol |-> symbol(c)] : c \in found}
  BY DEF Typecheck
<1>4. ASSUME NEW c \in typed
      PROVE  /\ (c.site = "let" => c \in found)
             /\ (c \in found => funcs[symbol(c)] \in c.want)
  <2>1. PICK k \in c.want : k = CHOOSE j \in c.want : TRUE
    OBVIOUS
  <2>2. symbol(c) = Mangle(k)
    BY <2>1
  <2>3. c.want \subseteq Instances /\ (c.site = "let" => c.want \subseteq cache)
    BY <1>2, CallsKnown
  <2>4. cache \subseteq Instances
    BY <1>1 DEF InstancesTypeOK
  <2>5. DOMAIN funcs = {Mangle(j) : j \in cache} /\ \A j \in cache : funcs[Mangle(j)] = j
    BY <1>1 DEF Tables
  <2>6. c.site = "let" => Mangle(k) \in DOMAIN funcs
    BY <2>3, <2>5
  <2>7. ASSUME Mangle(k) \in DOMAIN funcs
        PROVE  funcs[Mangle(k)] = k
    <3>1. PICK j \in cache : Mangle(k) = Mangle(j)
      BY <2>5, <2>7
    <3>2. j = k
      BY <2>3, <2>4, <3>1, SymbolsAssumption DEF SymbolsApart
    <3> QED
      BY <2>5, <3>1, <3>2
  <2> QED
    BY <2>2, <2>6, <2>7
<1> HIDE DEF short, symbol
<1>5. /\ \A e \in untyped : e.code = "CE2060"
      /\ \A e \in unknown : e.code = "CE2061" /\ e.site # "let"
  <2>1. \A c \in typed \ found : c.site # "let"
    BY <1>4
  <2> QED
    BY <2>1
<1>6. \A b \in bound' : b.symbol \in DOMAIN funcs /\ funcs[b.symbol] \in b.want
  BY <1>3, <1>4
<1> HIDE DEF typed, found, untyped, unknown
<1>7. InstancesTypeOK'
  BY <1>1, <1>2 DEF InstancesTypeOK
<1>8. Tables'
  BY <1>1, <1>2 DEF Tables
<1>9. UnitsCollected'
  BY <1>1, <1>2, ProgramStays DEF UnitsCollected, Later
<1>10. Frontier'
  <2>1. Asked' = Asked
    BY <1>2, ProgramStays DEF Asked
  <2>2. \A S : Complete(S)' <=> Complete(S)
    BY <1>2, <2>1, ProgramStays DEF Complete
  <2> QED
    BY <1>1, <1>2, <2>1, <2>2, ProgramStays DEF Frontier, Later
<1>11. Verdicts'
  <2>1. diagnostics' = {} => diagnostics = {}
    BY <1>3
  <2>2. \A k : Satisfied(k)' <=> Satisfied(k)
    BY <1>2 DEF Satisfied
  <2> QED
    BY <1>1, <1>2, <1>6, <2>1, <2>2 DEF Verdicts
<1>12. SeenCallsFound'
  <2>1. \A e \in diagnostics : e.code = "CE4006"
    BY <1>1, <1>2 DEF Verdicts
  <2> QED
    BY <1>3, <1>5, <2>1 DEF SeenCallsFound, SeenInInstance
<1> QED
  BY <1>7, <1>8, <1>9, <1>10, <1>11, <1>12 DEF InstancesInv

LEMMA InstancesStutterInv ==
  ASSUME InstancesInv, UNCHANGED instanceVars
  PROVE  InstancesInv'
<1>1. /\ UNCHANGED <<prog, pass, unit, types, wanted, worklist, processed, pending,
                     cache, funcs, copies, bound, diagnostics>>
  BY DEF instanceVars
<1>2. InstancesTypeOK' /\ Tables'
  BY <1>1 DEF InstancesInv, InstancesTypeOK, Tables
<1>3. UnitsCollected'
  BY <1>1, ProgramStays DEF InstancesInv, UnitsCollected, Later
<1>4. Frontier'
  <2>1. Asked' = Asked
    BY <1>1, ProgramStays DEF Asked
  <2>2. \A S : Complete(S)' <=> Complete(S)
    BY <1>1, <2>1, ProgramStays DEF Complete
  <2> QED
    BY <1>1, <2>1, <2>2, ProgramStays DEF InstancesInv, Frontier, Later
<1>5. Verdicts' /\ SeenCallsFound'
  BY <1>1, ProgramStays DEF InstancesInv, Verdicts, SeenCallsFound
<1> QED
  BY <1>2, <1>3, <1>4, <1>5 DEF InstancesInv

LEMMA InstancesNextInv ==
  ASSUME InstancesInv, [InstancesNext]_instanceVars
  PROVE  InstancesInv'
<1>1. CASE CollectUnit
  BY <1>1, CollectUnitInv
<1>2. CASE CollectExtensions
  BY <1>2, CollectExtensionsInv
<1>3. CASE Pop
  BY <1>3, PopInv
<1>4. CASE MonomorphizeExtensions
  BY <1>4, MonomorphizeExtensionsInv
<1>5. CASE Typecheck
  BY <1>5, TypecheckInv
<1>6. CASE UNCHANGED instanceVars
  BY <1>6, InstancesStutterInv
<1> QED
  BY <1>1, <1>2, <1>3, <1>4, <1>5, <1>6 DEF InstancesNext

-----------------------------------------------------------------------------
(* The theorems. *)

\* Every instance the passes collect, queue, cache or register is one of a
\* generic function for a type short enough, or of the pack function for one
\* of the packs the program passes; every Box is a Box of a type.
THEOREM InstancesTypeCorrect == InstancesSpec => []InstancesTypeOK
<1>1. InstancesInv => InstancesTypeOK
  BY DEF InstancesInv
<1> QED
  BY <1>1, InstancesInitInv, InstancesNextInv, PTL DEF InstancesSpec

\* The worklist of monomorphize_all_functions registers exactly the instances
\* a program needs, in whatever order the set hands them out; no call the
\* passes can see ends in CE2061; and a call is bound to the instance it asks
\* for.
THEOREM InstancesAreExact == InstancesSpec => []InstancesExact
<1>1. ASSUME InstancesInv
      PROVE  InstancesExact
  <2>1. Registered = cache /\ cache \subseteq Instances
    BY <1>1 DEF InstancesInv, InstancesTypeOK, Tables, Registered
  <2>2. LeastComplete
    <3> SUFFICES ASSUME pass \in {"functions", "again"}, worklist = {}
                 PROVE  Complete(cache) /\ \A S \in SUBSET cache : Complete(S) => S = cache
      BY <2>1 DEF LeastComplete
    <3>1. /\ Asked \subseteq cache
          /\ \A k \in cache : Nested(k) \subseteq cache
          /\ \A S \in SUBSET Instances : Complete(S) => cache \subseteq S
      BY <1>1 DEF InstancesInv, Frontier, Later
    <3>2. Complete(cache)
      BY <3>1 DEF Complete
    <3> QED
      BY <2>1, <3>1, <3>2
  <2>3. SeenCallsFound
    BY <1>1 DEF InstancesInv
  <2>4. CallsBound
    <3>1. \A c \in bound : funcs[c.symbol] \in c.want
      BY <1>1 DEF InstancesInv, Verdicts
    <3>2. diagnostics = {} => \A k \in cache : k.fn \in prog.shows => k.args[1] \in Boxed
      BY <1>1 DEF InstancesInv, Verdicts, Satisfied
    <3> QED
      BY <2>1, <3>1, <3>2 DEF CallsBound
  <2> QED
    BY <2>2, <2>3, <2>4 DEF InstancesExact
<1> QED
  BY <1>1, InstancesInitInv, InstancesNextInv, PTL DEF InstancesSpec
=============================================================================
