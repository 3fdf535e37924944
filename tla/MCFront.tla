------------------------------ MODULE MCFront ------------------------------
(***************************************************************************)
(* What a name of a program stands for, on small programs: the names of    *)
(* units and libraries, the methods of calls, the copies of an expand, the *)
(* variants of a match, and the symbols of a library that is shipped and   *)
(* linked.  A behaviour is about one of them and the others rest: each     *)
(* pass reads the whole program and ends before the next.  Several keep a  *)
(* phase and the program they work on; those are one variable here,        *)
(* whichever topic the behaviour is about.  What is said of names, of a    *)
(* call, of a library and of a match is said by Names, Calls, Libraries    *)
(* and Matching, and true while they rest.                                 *)
(***************************************************************************)
EXTENDS Names, Libraries, Matching, Calls

CONSTANTS s1, s2, s3                                        \* Libraries
CONSTANT Elements                                           \* Unroll

VARIABLE topic
VARIABLES body, copies                                      \* Unroll

imageVars   == <<lib, reason, manifest, image>>
unrollVars  == <<body, copies>>

X == INSTANCE Unroll

ASSUME MainAssumption

-----------------------------------------------------------------------------
(* The instances. *)

TwoElements == <<"e1", "e2">>

\* An enum whose variants hold an enum by value and behind an Own, which
\* holds two of a third one; integers of three bits.
Holds(t) == [own |-> FALSE, of |-> t]
Owns(t) == [own |-> TRUE, of |-> t]
MCEnums ==
    [Root |-> <<[name |-> "Alpha", parts |-> <<Holds("Middle")>>],
                [name |-> "Beta", parts |-> <<Owns("Middle")>>]>>,
     Middle |-> <<[name |-> "Left", parts |-> <<Holds("Bit"), Holds("Bit")>>],
                  [name |-> "Right", parts |-> <<>>]>>,
     Bit |-> <<[name |-> "Zero", parts |-> <<>>],
               [name |-> "One", parts |-> <<>>]>>]

\* Root is an instance of a generic enum: patterns use the name without the arguments.
MCBase == [Root |-> "Generic", Middle |-> "Middle", Bit |-> "Bit"]

Variant(e, v, bs) == [kind |-> "variant", enum |-> e, variant |-> v, bindings |-> bs]
MCStrange ==
    {Variant("Middle", "Alpha", <<Bind("name", 1)>>),
     Variant("Generic", "Delta", <<>>),
     Variant("Generic", "Alpha", <<Bind("name", 1), Bind("name", 2)>>),
     Variant("Generic", "Alpha", <<Variant("Bit", "One", <<>>)>>),
     Variant("Generic", "Beta", <<Variant("Middle", "Right", <<>>)>>),
     Variant("Generic", "Beta", <<[kind |-> "own", inner |-> Variant("Bit", "Right", <<>>)]>>),
     Variant("Generic", "Alpha", <<Bind("skip", 1)>>)}
\* the kinds that differ in who provides a method, and names of each provider
MCKinds == {"i32", "f64", "string", "struct", "opaque", "enum", "array", "Result",
            "Maybe", "Own", "HashMap", "List", "fn", "file"}
MCMethods == {"m", "hash", "clone", "to_str", "to_bits", "len", "get", "is_ok",
              "realise", "destroy", "read"}

MCInts == [size: {8}, signed: BOOLEAN]

ThreeSymbols == {s1, s2, s3}

TwoUnits == <<2, 1>>

\* Every library is one of these but for the names of its declarations, which
\* nothing orders.
Rank == [fn |-> 10, generic |-> 20, const |-> 30, namespace |-> 40, absent |-> 50]
Key(d) == Rank[d.kind] + (IF d.public THEN 5 ELSE 0) + Cardinality(d.refs)
Ordered(d) == Key(d[s1]) <= Key(d[s2]) /\ Key(d[s2]) <= Key(d[s3])

-----------------------------------------------------------------------------
NamesRest ==
    /\ program = <<>> /\ pass = "rest" /\ unit = 0 /\ todo = {}
    /\ found = {} /\ tables = {} /\ errors = {}
CallsRest == call = <<>> /\ progress = "rest" /\ checked = "-" /\ inferred = "-" /\ emitted = "-" /\ argument = "-"
UnrollRests == body = <<>> /\ copies = <<>>
MatchRests ==
    /\ stage = "rest" /\ type = <<>> /\ arms = <<>> /\ covered = {} /\ rejected = FALSE
    /\ value = <<>> /\ at = 0 /\ bound = {} /\ end = ""
ImageRests == lib = <<>> /\ reason = "none" /\ manifest = <<>> /\ image = {}

ProgramRests == prog = <<>> /\ phase = "rest"

FrontInit ==
    \/ topic = "names" /\ NamesInit /\ CallsRest /\ UnrollRests /\ MatchRests /\ ImageRests /\ ProgramRests
    \/ topic = "calls" /\ CallsInit /\ ProgramRests /\ NamesRest /\ UnrollRests /\ MatchRests /\ ImageRests
    \/ topic = "packs" /\ X!Init /\ ProgramRests /\ NamesRest /\ CallsRest /\ MatchRests /\ ImageRests
    \/ topic = "match" /\ MatchInit /\ ProgramRests /\ NamesRest /\ CallsRest /\ UnrollRests /\ ImageRests
    \/ topic = "image" /\ Init /\ Ordered(lib) /\ NamesRest /\ CallsRest /\ UnrollRests /\ MatchRests

NamesStep ==
    topic = "names" /\ NamesNext /\ UNCHANGED <<topic, prog, phase, callVars, unrollVars, matchVars, imageVars>>
CallsStep ==
    topic = "calls" /\ CallsNext /\ UNCHANGED <<topic, prog, phase, nameVars, unrollVars, matchVars, imageVars>>
PacksStep ==
    topic = "packs" /\ X!Next /\ UNCHANGED <<topic, prog, phase, nameVars, callVars, matchVars, imageVars>>
MatchStep ==
    topic = "match" /\ MatchNext /\ UNCHANGED <<topic, prog, phase, nameVars, callVars, unrollVars, imageVars>>
ImageStep ==
    topic = "image" /\ Next /\ UNCHANGED <<topic, nameVars, callVars, unrollVars, matchVars>>

FrontSpec ==
    /\ FrontInit
    /\ [][NamesStep \/ CallsStep \/ PacksStep \/ MatchStep \/ ImageStep]_
         <<topic, prog, phase, nameVars, callVars, unrollVars, matchVars, imageVars>>

-----------------------------------------------------------------------------
\* The copies statements of an expand print what a loop over its pack would (Unroll).
UnrollsToTheLoop == topic = "packs" => X!UnrollsToTheLoop
=============================================================================
