------------------------------ MODULE MCRuntime ------------------------------
(***************************************************************************)
(* What a compiled program computes with: the owners of the entries of a   *)
(* map, a list or a dynamic array, composite values, strings, files and    *)
(* integers.  A behaviour works with one of them, and the others rest: the *)
(* emitted code of one shares no state with that of another.  What is said *)
(* of owners, sequences and files is true while they rest.                 *)
(***************************************************************************)
EXTENDS HashMapOwnership, SeqRuntime, Files

CONSTANTS Types, Roots, Literals, Places, MaxDepth, MaxParts, MaxBlocks, MaxSteps
CONSTANTS Alphabet, MaxChars, MaxArg, Low, High, Long
CONSTANTS IntTypes, Default, Wide, Lits, MaxSize, Tables

VARIABLES topic    \* what the behaviour is about
VARIABLES heap, slot, owner, means, steps, wrong                   \* values
VARIABLES text, chars                                              \* strings
VARIABLES expr, type, table                                        \* integers

valueVars    == <<heap, slot, owner, means, steps, wrong>>
textVars     == <<text, chars>>
numberVars   == <<expr, type, table>>

V == INSTANCE Values WITH Texts <- Literals
T == INSTANCE Text WITH held <- text
N == INSTANCE ConstExpr WITH Types <- IntTypes

-----------------------------------------------------------------------------
(* The instances.                                                          *)

\* One-byte letters of both cases, a blank, a sign, a digit and a letter of
\* two bytes; numbers of one digit, two digits and too many.
MCAlphabet == {<<97>>, <<65>>, <<32>>, <<45>>, <<49>>, <<195, 169>>}
MCLow == -12

U3 == [bits |-> 3, signed |-> FALSE]
I3 == [bits |-> 3, signed |-> TRUE]
I4 == [bits |-> 4, signed |-> TRUE]
ThreeTypes == {U3, I3, I4}

\* Three constants, each a literal, another constant or the sum of two.
MCTables ==
  LET names  == {"A", "B", "C"}
      values == {<<"lit", 1>>} \cup {<<"name", n>> : n \in names}
                  \cup {<<"+", <<"name", "A">>, <<"name", "B">>>>}
  IN  [names -> [value : values, type : {I4}]]

\* Every composite over every leaf: a string, a float, a closure; an Own, a
\* dynamic and a fixed array, a struct, an enum that contains itself through an
\* Own, and an enum whose variants lay different payloads over the same bytes.
MCTypes ==
    [num |-> [kind |-> "int"],
     flt |-> [kind |-> "float"],
     str |-> [kind |-> "string"],
     fun |-> [kind |-> "fn"],
     tree |-> [kind |-> "enum", variants |-> <<<<>>, <<"str">>, <<"box">>>>],
     box |-> [kind |-> "own", of |-> "tree"],
     pair |-> [kind |-> "struct", parts |-> <<"str", "flt">>],
     list |-> [kind |-> "dyn", of |-> "tree"],
     two |-> [kind |-> "fixed", of |-> "str"],
     holder |-> [kind |-> "struct", parts |-> <<"two", "fun">>],
     key |-> [kind |-> "enum", variants |-> <<<<"num">>, <<"str">>, <<"flt">>>>]]

\* What a fresh allocation holds is a byte or nothing.
MCJunk == BoundedSeq(Letters, 1)

MCRoots == {"num", "fun", "tree", "pair", "list", "holder", "key"}

\* Nothing but its own topic knows an element or a path.
RuntimeSymmetry == Permutations(Elems) \cup Permutations(Paths)

ASSUME T!AlphabetAssumption
ASSUME RoomAssumption /\ NamesAssumption /\ WellBehaved

-----------------------------------------------------------------------------
\* an empty list that nobody touches
SequenceRests ==
  /\ kind = "list" /\ owning = FALSE /\ NewList /\ live = {}
  /\ held = {} /\ lost = {} /\ call = NoCall /\ ret = Done("new") /\ fault = FALSE
ValuesRest ==
  heap = <<>> /\ slot = <<>> /\ owner = {} /\ means = <<>> /\ steps = 0 /\ wrong = ""
TextRests == text = <<>> /\ chars = <<>>
FilesRest ==
  /\ disk = <<>> /\ file = Shut /\ job = Shut /\ fds = {} /\ answer = <<>>
  /\ written = <<>> /\ heard = Absent
NumbersRest == expr = <<>> /\ type = <<>> /\ table = <<>>

RuntimeInit ==
  /\ Init
  /\ \/ topic = "entries" /\ SequenceRests /\ ValuesRest /\ TextRests /\ FilesRest /\ NumbersRest
     \/ topic = "sequence" /\ SequenceInit /\ ValuesRest /\ TextRests /\ FilesRest /\ NumbersRest
     \/ topic = "values" /\ SequenceRests /\ V!Init /\ TextRests /\ FilesRest /\ NumbersRest
     \/ topic = "text" /\ SequenceRests /\ ValuesRest /\ T!Init /\ FilesRest /\ NumbersRest
     \/ topic = "files" /\ SequenceRests /\ ValuesRest /\ TextRests /\ FilesInit /\ NumbersRest
     \/ topic = "numbers" /\ SequenceRests /\ ValuesRest /\ TextRests /\ FilesRest /\ N!Init

EntriesStep ==
  /\ topic = "entries" /\ Next
  /\ UNCHANGED <<topic, sequenceVars, valueVars, textVars, fileVars, numberVars>>
SequenceStep ==
  /\ topic = "sequence" /\ SequenceNext
  /\ UNCHANGED <<topic, vars, valueVars, textVars, fileVars, numberVars>>
ValuesStep ==
  /\ topic = "values" /\ V!Next
  /\ UNCHANGED <<topic, vars, sequenceVars, textVars, fileVars, numberVars>>
TextStep ==
  /\ topic = "text" /\ T!Next
  /\ UNCHANGED <<topic, vars, sequenceVars, valueVars, fileVars, numberVars>>
FilesStep ==
  /\ topic = "files" /\ FilesNext
  /\ UNCHANGED <<topic, vars, sequenceVars, valueVars, textVars, numberVars>>
NumbersStep ==
  /\ topic = "numbers" /\ N!Next
  /\ UNCHANGED <<topic, vars, sequenceVars, valueVars, textVars, fileVars>>

RuntimeSpec ==
  /\ RuntimeInit
  /\ [][EntriesStep \/ SequenceStep \/ ValuesStep \/ TextStep \/ FilesStep \/ NumbersStep]_
       <<topic, vars, sequenceVars, valueVars, textVars, fileVars, numberVars>>

-----------------------------------------------------------------------------
\* Every heap block of the values of a scope has one owner, through clones,
\* moves, rebinding and the scope exit: none is freed twice, none is lost (Values).
OwnersExact == topic = "values" => V!OwnersExact

\* A binding reads as the value the program gave it, whatever was cloned, moved,
\* overwritten or freed since (Values).
ValuesExact == topic = "values" => V!ValuesExact

\* Equality and hash of a key type agree with the values and each other (Values).
KeysAgree == topic = "values" => V!KeysAgree

\* Every string method is an operation on characters, ss too, for which the manual
\* says bytes; and searching, counting, ordering and reading numbers are about the
\* characters (Text).
TextExact == topic = "text" => T!EditsExact /\ T!SearchExact /\ T!NumbersRead

\* The constant evaluator, the backend's folding and the instructions give an
\* expression one value, and cyclic constants are found (ConstExpr).
NumbersAgree == topic = "numbers" => N!NumbersAgree
=============================================================================
