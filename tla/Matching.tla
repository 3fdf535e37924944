----------------------------- MODULE Matching -----------------------------
(***************************************************************************)
(* The match statement, from the arms the parser builds through the checks *)
(* of the type pass to the blocks the back end branches between at run     *)
(* time: a switch on the tag (or on the integer) and, for a nested         *)
(* pattern, tests in the arm that go on to the next arm of the same tag.   *)
(*                                                                         *)
(* An enum is a sequence of variants [name, parts]; a part is a named type *)
(* or, with `own`, an Own of it.  A pattern is a variant of a named enum   *)
(* with one binding for each part.                                         *)
(***************************************************************************)
EXTENDS Integers, FiniteSets, SequencesExt

CONSTANTS Enums,     \* [enum name -> Seq([name, parts: Seq([own, of])])]
          Base,      \* [enum name -> the name a pattern may call it by]
          Leaf,      \* the one type that is no enum
          Scrutinee, \* the enum matched on
          Strange,   \* patterns no rule below writes: wrong names, wrong counts
          IntTypes,  \* integer scrutinees: a set of [size, signed], size = 2 ^ bits
          MaxNested, \* bound: the variants a pattern has inside one another, but the outer one
          MaxArms,   \* bound: arms of a match on an enum
          MaxCases   \* bound: arms of a match on an integer

VARIABLES type,     \* what is matched on: [enum |-> Scrutinee] or one of IntTypes
          arms,     \* the arms checked so far
          covered,  \* covered_variants, or seen: the signatures or literals so far
          rejected, \* an error was reported
          stage,    \* "checking", "compiled", "running", "done"
          value,    \* the value of the scrutinee
          at,       \* the arm whose block runs, 0 before the switch
          bound,    \* the names bound in that arm: [name, type, ref, value]
          end       \* how the match ended: "arm", "RE2023", "unreachable"

matchVars == <<type, arms, covered, rejected, stage, value, at, bound, end>>
checks == <<type, arms, covered, rejected>>

EnumNames == DOMAIN Enums
Kinded == EnumNames \cup {Leaf}

---------------------------------------------------------------------------
(* Values and types.                                                       *)

Variants(e) == {Enums[e][i].name: i \in DOMAIN Enums[e]}
HasVariant(e, name) == name \in Variants(e)
IndexOf(e, name) == CHOOSE i \in DOMAIN Enums[e]: Enums[e][i].name = name
PartsOf(e, name) == Enums[e][IndexOf(e, name)].parts

\* Every way to choose one element of each set of a sequence of sets.
Rows(sets) == {c \in [DOMAIN sets -> UNION Range(sets)]: \A i \in DOMAIN sets: c[i] \in sets[i]}

\* The values of an enum over those of the types of its parts.
ValuesOver(e, values) ==
    UNION {{[tag |-> i, parts |-> c]:
              c \in Rows([k \in DOMAIN Enums[e][i].parts |-> values[Enums[e][i].parts[k].of]])}:
           i \in DOMAIN Enums[e]}

ValuesUpTo[n \in 0..MaxNested] ==
    [t \in Kinded |-> IF t = Leaf THEN {[leaf |-> 0], [leaf |-> 1]}
                      ELSE IF n = 0 THEN {} ELSE ValuesOver(t, ValuesUpTo[n - 1])]

Scrutinees == ValuesOver(Scrutinee, ValuesUpTo[MaxNested])
PartValues == UNION {ValuesUpTo[MaxNested][t]: t \in Kinded}

---------------------------------------------------------------------------
(* Patterns, as parse_pattern builds them: a reference is bound at the top *)
(* level of a pattern or directly inside Own(...), never in a nested one.  *)

Letters == <<"x", "y", "z">>
Bind(kind, i) == [kind |-> kind, name |-> Letters[i]]

\* The patterns of part i over those of the enums, nested.
BindingsFor(part, i, deep, nested) ==
    LET simple == {Bind(k, i): k \in IF deep THEN {"name"} ELSE {"name", "ref"}}
        inner == IF part.of = Leaf THEN {} ELSE nested[part.of]
    IN  IF part.own
        THEN simple \cup {[kind |-> "own", inner |-> b]:
                            b \in inner \cup {Bind(k, i): k \in {"name", "ref"}}}
        ELSE simple \cup inner

PatternsOver(e, deep, nested) ==
    UNION {{[kind |-> "variant", enum |-> Base[e], variant |-> v, bindings |-> c]:
              c \in Rows([i \in DOMAIN PartsOf(e, v) |->
                               BindingsFor(PartsOf(e, v)[i], i, deep, nested)])}:
           v \in Variants(e)}

NestedUpTo[n \in 0..MaxNested] ==
    [e \in EnumNames |-> IF n = 0 THEN {} ELSE PatternsOver(e, TRUE, NestedUpTo[n - 1])]

\* What a binding binds or tests: itself, or what is inside its Own, of the type Opened.
Within(b) == IF b.kind = "own" THEN b.inner ELSE b
IsPattern(b) == Within(b).kind = "variant"
Opened(b, part) == IF b.kind = "own" THEN [part EXCEPT !.own = FALSE] ELSE part

\* The patterns directly in p.
NestedIn(p) == {Within(p.bindings[i]): i \in {j \in DOMAIN p.bindings: IsPattern(p.bindings[j])}}

Written == PatternsOver(Scrutinee, FALSE, NestedUpTo[MaxNested]) \cup Strange
Inner == (UNION {UNION {NestedUpTo[n][e]: e \in EnumNames}: n \in 0..MaxNested})
           \cup (UNION {NestedIn(p): p \in Strange})

\* The parts of a variant are a sequence, and no two variants of an enum have one name
\* (CE2047); a strange pattern has at most one level of patterns in it.
ASSUME MatchingAssumption ==
    /\ Scrutinee \in EnumNames /\ Leaf \notin EnumNames
    /\ \A e \in EnumNames: \A i \in DOMAIN Enums[e]:
         /\ Enums[e][i].parts \in Seq([own: BOOLEAN, of: Kinded])
         /\ \A j \in DOMAIN Enums[e]: Enums[e][i].name = Enums[e][j].name => i = j
    /\ \A p \in Strange:
         /\ p.kind = "variant" /\ p.bindings \in Seq(Range(p.bindings))
         /\ \A q \in NestedIn(p): NestedIn(q) = {}
    /\ IntTypes \subseteq [size: Nat \ {0}, signed: BOOLEAN]
    /\ MaxNested \in Nat \ {0}

Wildcard == [kind |-> "wild"]

\* A negated literal is a value, any other one that is not decimal a bit pattern.
Literals(t) ==
    [kind: {"literal"}, value: (-(t.size \div 2))..t.size, decimal: {TRUE}]
      \cup [kind: {"literal"}, value: 0..t.size, decimal: {FALSE}]

---------------------------------------------------------------------------
(* validate_match_statement, one arm at a time.                            *)

IsEnum == "enum" \in DOMAIN type

\* get_pattern_signature: names are alike, a nested pattern counts with its own bindings.
SignatureOver(p, signatures) ==
    LET of(b) == LET s == IF IsPattern(b) THEN signatures[Within(b)] ELSE <<"_">>
                 IN  IF b.kind # "own" THEN s
                     ELSE IF IsPattern(b) THEN <<"Own", <<s>>>> ELSE <<"Own">>
    IN  IF p.bindings = <<>> THEN <<p.variant>>
        ELSE <<p.variant, [i \in DOMAIN p.bindings |-> of(p.bindings[i])]>>

Signatures[n \in 0..MaxNested] ==
    IF n = 0 THEN <<>> ELSE [p \in Inner |-> SignatureOver(p, Signatures[n - 1])]
Signature(p) == SignatureOver(p, Signatures[MaxNested])

\* validate_pattern_bindings.  The enum name inside Own(...) is not compared with the type.
FitOver(bindings, parts, fits) ==
    /\ Len(bindings) = Len(parts)
    /\ \A i \in DOMAIN parts:
         LET b == bindings[i]
             e == parts[i].of
         IN  /\ b.kind = "own" => parts[i].own
             /\ IsPattern(b) =>
                  /\ b.kind = "variant" => ~parts[i].own
                  /\ e # Leaf /\ HasVariant(e, Within(b).variant)
                  /\ fits[<<Within(b), e>>]
                  /\ b.kind = "variant" => b.enum \in {e, Base[e]}

NestedFits[n \in 0..MaxNested] ==
    IF n = 0 THEN <<>>
    ELSE [x \in Inner \X EnumNames |->
            FitOver(x[1].bindings, PartsOf(x[2], x[1].variant), NestedFits[n - 1])]
BindingsFit(bindings, parts) == FitOver(bindings, parts, NestedFits[MaxNested])

ArmFits(p) ==
    /\ p.enum \in {Scrutinee, Base[Scrutinee]}
    /\ HasVariant(Scrutinee, p.variant)
    /\ Signature(p) \notin covered
    /\ BindingsFit(p.bindings, PartsOf(Scrutinee, p.variant))

Wild == \E i \in DOMAIN arms: arms[i] = Wildcard

\* Every arm is checked; after an error nothing is compiled, so no more arms are added.
Arm(p, limit, fits, adds) ==
    /\ stage = "checking" /\ ~rejected
    /\ Len(arms) < limit
    /\ arms' = Append(arms, p)
    /\ covered' = covered \cup adds
    /\ rejected' = ~(fits /\ ~Wild)
    /\ UNCHANGED <<type, stage, value, at, bound, end>>

PatternArm ==
    /\ IsEnum
    /\ \E p \in Written:
         Arm(p, MaxArms, ArmFits(p), {Signature(p)})

\* int_literal_fits with a bit pattern one too large.
LiteralFitsInclusive(p) ==
    LET n == type.size
    IN  IF ~p.decimal THEN p.value \in 0..n
        ELSE IF type.signed THEN p.value \in (-(n \div 2))..(n \div 2 - 1)
        ELSE p.value \in 0..(n - 1)

\* int_literal_fits.
LiteralFits(p) ==
    LET n == type.size
    IN  IF ~p.decimal THEN p.value \in 0..(n - 1)
        ELSE IF type.signed THEN p.value \in (-(n \div 2))..(n \div 2 - 1)
        ELSE p.value \in 0..(n - 1)

\* The duplicates of an integer match are those of the number the literal was parsed to.
LiteralArm ==
    /\ ~IsEnum
    /\ \E p \in Literals(type):
         Arm(p, MaxCases, LiteralFits(p) /\ p.value \notin covered, {p.value})

WildcardArm == Arm(Wildcard, IF IsEnum THEN MaxArms ELSE MaxCases, TRUE, {})

\* check_match_exhaustiveness looks at the outer variants; an integer match needs the
\* wildcard, after all other arms.
EndOfArms ==
    /\ stage = "checking" /\ ~rejected
    /\ arms # <<>>
    /\ IF Wild \/ (IsEnum /\ Variants(Scrutinee) \subseteq {s[1]: s \in covered})
       THEN stage' = "compiled" /\ UNCHANGED rejected
       ELSE rejected' = TRUE /\ UNCHANGED stage
    /\ UNCHANGED <<type, arms, covered, value, at, bound, end>>

---------------------------------------------------------------------------
(* emit_match: the blocks, and what they do with one value.                *)

Tested(i) == arms[i] # Wildcard
TagOf(i) == IndexOf(Scrutinee, arms[i].variant)

\* The default of the switch: the block of the first wildcard, or unreachable.
Default == IF Wild THEN Min({i \in DOMAIN arms: ~Tested(i)}) ELSE 0

\* _add_switch_cases: one case for each tag, to the first arm that names it.
Switch(v) ==
    LET cases == {i \in DOMAIN arms: Tested(i) /\ TagOf(i) = v.tag}
    IN  IF cases = {} THEN Default ELSE Min(cases)

\* The cases of an integer match are constants of the scrutinee's width.
CaseOf(i) == arms[i].value % type.size

SwitchInt(v) ==
    LET cases == {i \in DOMAIN arms: Tested(i) /\ CaseOf(i) = v.bits}
    IN  IF cases = {} THEN Default ELSE CHOOSE i \in cases: TRUE

\* verify: LLVM refuses a switch that names a constant twice (CE0015).
Verified == \A i, j \in DOMAIN arms: ~IsEnum /\ i # j /\ Tested(i) /\ Tested(j) => CaseOf(i) # CaseOf(j)

\* _find_next_arm_with_same_tag that only looks at the arm that follows.
NextArmAdjacent(i) ==
    IF i < Len(arms) /\ (~Tested(i + 1) \/ TagOf(i + 1) = TagOf(i)) THEN i + 1 ELSE 0

\* _find_next_arm_with_same_tag: the arm a failed nested test goes on to; 0 if there is none.
NextArm(i) ==
    LET later == {j \in (i + 1)..Len(arms): ~Tested(j) \/ TagOf(j) = TagOf(i)}
    IN  IF later = {} THEN 0 ELSE Min(later)

Bound(b, part, v) ==
    IF b.kind = "skip" THEN {}
    ELSE {[name |-> b.name, type |-> part, ref |-> b.kind = "ref", value |-> v]}

\* _extract_nested_pattern: test the tag, then extract.
ExtractNested(p, e, v, next, extracted) ==
    IF v.tag = IndexOf(e, p.variant) THEN extracted[<<p, e, v>>]
    ELSE [go |-> IF next = 0 THEN "RE2023" ELSE "next", names |-> {}]

\* _extract_pattern_bindings: bindings in order until a nested test fails.  Through an Own
\* a name is bound to the pointee, or to the pointer itself (_extract_own_pattern).
ExtractOver(p, e, v, next, extracted) ==
    LET parts == PartsOf(e, p.variant)
        one(i) == LET b == p.bindings[i]
                  IN  IF IsPattern(b)
                      THEN ExtractNested(Within(b), parts[i].of, v.parts[i], next, extracted)
                      ELSE [go |-> "on", names |-> Bound(Within(b), Opened(b, parts[i]), v.parts[i])]
        stops == {i \in DOMAIN p.bindings: one(i).go # "on"}
    IN  IF stops = {} THEN [go |-> "on", names |-> UNION {one(i).names: i \in DOMAIN p.bindings}]
        ELSE one(Min(stops))

\* A pattern inside another one is emitted without the next arm, so its tests can only trap.
Extracted[n \in 0..MaxNested] ==
    IF n = 0 THEN <<>>
    ELSE [x \in Inner \X EnumNames \X PartValues |->
            ExtractOver(x[1], x[2], x[3], 0, Extracted[n - 1])]
Extract(p, v, next) == ExtractOver(p, Scrutinee, v, next, Extracted[MaxNested])

Finish(how) ==
    /\ end' = how
    /\ stage' = "done"

\* The scrutinee is evaluated and switched on.
Dispatch ==
    /\ stage = "compiled" /\ Verified
    /\ \E v \in IF IsEnum THEN Scrutinees
                ELSE {[bits |-> b]: b \in 0..(type.size - 1)}:
         LET target == IF IsEnum THEN Switch(v) ELSE SwitchInt(v)
         IN  /\ value' = v
             /\ at' = target
             /\ IF target = 0 THEN Finish("unreachable")
                ELSE stage' = "running" /\ UNCHANGED end
    /\ UNCHANGED <<checks, bound>>

\* The block of an arm: extract, and run the body or go on.
RunArm ==
    /\ stage = "running"
    /\ IF arms[at].kind # "variant" THEN Finish("arm") /\ UNCHANGED <<at, bound>>
       ELSE LET r == Extract(arms[at], value, NextArm(at))
            IN  \/ r.go = "on" /\ Finish("arm") /\ bound' = r.names /\ UNCHANGED at
                \/ r.go = "RE2023" /\ Finish("RE2023") /\ UNCHANGED <<at, bound>>
                \/ r.go = "next" /\ at' = NextArm(at) /\ UNCHANGED <<stage, end, bound>>
    /\ UNCHANGED <<checks, value>>

MatchInit ==
    /\ type \in {[enum |-> Scrutinee]} \cup IntTypes
    /\ arms = <<>> /\ covered = {} /\ rejected = FALSE
    /\ stage = "checking" /\ value = <<>> /\ at = 0 /\ bound = {} /\ end = ""

Done == (rejected \/ stage = "done" \/ (stage = "compiled" /\ ~Verified)) /\ UNCHANGED matchVars

MatchNext == PatternArm \/ LiteralArm \/ WildcardArm \/ EndOfArms \/ Dispatch \/ RunArm \/ Done

MatchSpec == MatchInit /\ [][MatchNext]_matchVars

---------------------------------------------------------------------------
(* What a pattern means, without blocks.                                   *)

MatchesOver(p, e, v, matches) ==
    /\ v.tag = IndexOf(e, p.variant)
    /\ \A i \in DOMAIN p.bindings:
         IsPattern(p.bindings[i]) =>
           matches[<<Within(p.bindings[i]), PartsOf(e, p.variant)[i].of, v.parts[i]>>]

NestedMatches[n \in 0..MaxNested] ==
    IF n = 0 THEN <<>>
    ELSE [x \in Inner \X EnumNames \X PartValues |->
            MatchesOver(x[1], x[2], x[3], NestedMatches[n - 1])]
Matches(p, v) == MatchesOver(p, Scrutinee, v, NestedMatches[MaxNested])

\* register_pattern_bindings: the names in scope in the arm and their types.
ScopeOver(p, e, scopes) ==
    UNION {LET b == p.bindings[i]
               part == PartsOf(e, p.variant)[i]
               w == Within(b)
           IN  IF IsPattern(b) THEN scopes[<<w, part.of>>]
               ELSE IF w.kind = "skip" THEN {} ELSE {<<w.name, Opened(b, part), w.kind = "ref">>}
           : i \in DOMAIN p.bindings}

NestedScopes[n \in 0..MaxNested] ==
    IF n = 0 THEN <<>> ELSE [x \in Inner \X EnumNames |-> ScopeOver(x[1], x[2], NestedScopes[n - 1])]
InScope(p) == ScopeOver(p, Scrutinee, NestedScopes[MaxNested])

Takes(i) ==
    \/ arms[i].kind = "wild"
    \/ arms[i].kind = "variant" /\ Matches(arms[i], value)
    \/ arms[i].kind = "literal" /\ CaseOf(i) = value.bits

\* No nested pattern has a nested pattern inside it, which could fail.
Shallow(p) == p.kind = "variant" => \A q \in NestedIn(p): NestedIn(q) = {}

FirstArmRuns ==
    stage = "done" =>
      IF \E i \in DOMAIN arms: Takes(i)
      THEN /\ end = "arm"
           /\ Takes(at) /\ \A j \in 1..(at - 1): ~Takes(j)
           /\ arms[at].kind = "variant" =>
                InScope(arms[at]) = {<<b.name, b.type, b.ref>>: b \in bound}
      ELSE end = "RE2023"

\* A match the type pass accepts runs the first arm its value matches, with the names and
\* types that pass put in scope, and traps with RE2023 only if no arm matches; the block
\* marked unreachable is never reached.  Patterns are at most two variants deep.
ShallowMatchExact == (\A i \in DOMAIN arms: Shallow(arms[i])) => FirstArmRuns

\* No two cases of the switch of an integer match are the same constant, if all literals are
\* written in decimal or none is.
CasesDistinct ==
    (stage # "checking" /\ ~IsEnum) =>
      \A i, j \in DOMAIN arms:
        (i # j /\ arms[i].kind = "literal" /\ arms[j].kind = "literal"
               /\ arms[i].decimal = arms[j].decimal) =>
          CaseOf(i) # CaseOf(j)

\* The same without the limit on the depth: "A nested pattern reached the end of its arms
\* without matching" is what RE2023 says.
MatchExact == FirstArmRuns

\* "Two arms with the same value are one duplicate arm, whatever their radix."
AnyRadixDistinct ==
    (stage # "checking" /\ ~IsEnum) =>
      \A i, j \in DOMAIN arms:
        (i # j /\ arms[i].kind = "literal" /\ arms[j].kind = "literal") =>
          CaseOf(i) # CaseOf(j)
=============================================================================
