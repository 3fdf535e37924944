-------------------------------- MODULE Text --------------------------------
(***************************************************************************)
(* A program that edits one string with the methods of Strings.  `held` is *)
(* the string the program holds, the bytes the methods computed; `chars`   *)
(* is what a reader of the language manual expects to be in it, a sequence *)
(* of characters to which the same operations were applied.                *)
(***************************************************************************)
EXTENDS Strings

CONSTANTS
  Alphabet,   \* characters, each the sequence of its UTF-8 bytes
  MaxChars,   \* bound: the length of the edited string
  MaxArg,     \* bound: the length of a string argument
  Low, High,  \* the range of the narrow integer type
  Long        \* the largest number the library reads

\* A character starts with its only byte that can start one.
AlphabetAssumption ==
  \A c \in Alphabet : Len(c) > 0 /\ \A k \in 1..Len(c) : StartsChar(c[k]) <=> k = 1

VARIABLES held, chars

vars == <<held, chars>>

Positions == -1..(MaxChars + 1)
Texts(n) == BoundedSeq(Alphabet, n)
Encoded(c) == FlattenSeq(c)
Exact(bytes) == Built(Len(bytes), bytes)

-----------------------------------------------------------------------------
(* The operations on characters.                                           *)

\* Characters i .. j - 1, those of them that exist.
Between(c, i, j) == SubSeq(c, Max({0, i}) + 1, Min({j, Len(c)}))

AreAt(c, n, i) == Between(c, i, i + Len(n)) = n
Occurrences(c, n) == {i \in 0..(Len(c) - Len(n)) : AreAt(c, n, i)}

Blank(c) == Len(c) = 1 /\ IsSpace(c[1])
Raised(c) == IF Len(c) = 1 THEN <<ToUpper(c[1])>> ELSE c
Lowered(c) == IF Len(c) = 1 THEN <<ToLower(c[1])>> ELSE c

\* What is left when the blank characters at the front are gone.
WithoutBlanks(c) ==
  LET solid == {k \in 1..Len(c) : ~Blank(c[k])}
  IN  IF solid = {} THEN <<>> ELSE SubSeq(c, Min(solid), Len(c))

\* The parts of c between the occurrences of n, from the left.
RECURSIVE Parts(_, _)
Parts(c, n) ==
  IF n = <<>> \/ Occurrences(c, n) = {} THEN <<c>>
  ELSE LET first == Min(Occurrences(c, n))
       IN  <<Between(c, 0, first)>> \o Parts(Between(c, first + Len(n), Len(c)), n)

RECURSIVE Joined(_, _)
Joined(parts, n) == IF Len(parts) = 1 THEN parts[1]
                    ELSE parts[1] \o n \o Joined(Tail(parts), n)

-----------------------------------------------------------------------------
Becomes(built, c) == /\ Len(c) <= MaxChars
                     /\ held' = built
                     /\ chars' = c

Init == held = Exact(<<>>) /\ chars = <<>>

Appends ==
  \E t \in Texts(1) : Becomes(Concat(held.bytes, Encoded(t)), chars \o t)

Repeats ==
  \E n \in Positions : Becomes(Repeat(held.bytes, n), Copies(n, chars))

Pads ==
  \E width \in Positions, t \in Texts(1) :
    LET missing == Copies(width - Len(chars), t)
    IN  \/ Becomes(PadLeft(held.bytes, width, Encoded(t)), missing \o chars)
        \/ Becomes(PadRight(held.bytes, width, Encoded(t)), chars \o missing)

Cuts ==
  \E i \in Positions :
    \/ Becomes(Exact(LeftOf(held.bytes, i)), Between(chars, 0, i))
    \/ Becomes(Exact(RightOf(held.bytes, i)), Between(chars, Len(chars) - i, Len(chars)))
    \/ Becomes(Exact(CharAt(held.bytes, i)), IF i < 0 THEN <<>> ELSE Between(chars, i, i + 1))
    \/ \E j \in Positions :
         \/ Becomes(Exact(Slice(held.bytes, i, j)), Between(chars, i, j))
         \/ Becomes(Exact(SliceFor(held.bytes, i, j)), Between(chars, i, Max({0, i}) + j))

Recases ==
  \/ Becomes(Exact(Upper(held.bytes)), [k \in 1..Len(chars) |-> Raised(chars[k])])
  \/ Becomes(Exact(Lower(held.bytes)), [k \in 1..Len(chars) |-> Lowered(chars[k])])
  \/ Becomes(Exact(Capital(held.bytes)),
             [k \in 1..Len(chars) |-> IF k = 1 THEN Raised(chars[k]) ELSE Lowered(chars[k])])

Turns == Becomes(Exact(Reversed(held.bytes)), Reverse(chars))

Trims ==
  \/ Becomes(Exact(TrimLeft(held.bytes)), WithoutBlanks(chars))
  \/ Becomes(Exact(TrimRight(held.bytes)), Reverse(WithoutBlanks(Reverse(chars))))
  \/ Becomes(Exact(Trim(held.bytes)), Reverse(WithoutBlanks(Reverse(WithoutBlanks(chars)))))

Strips ==
  \E t \in Texts(MaxArg) :
    \/ Becomes(Exact(StripPrefix(held.bytes, Encoded(t))),
               IF IsPrefix(t, chars) THEN Between(chars, Len(t), Len(chars)) ELSE chars)
    \/ Becomes(Exact(StripSuffix(held.bytes, Encoded(t))),
               IF IsSuffix(t, chars) THEN Between(chars, 0, Len(chars) - Len(t)) ELSE chars)

Replaces ==
  \E old \in Texts(MaxArg), new \in Texts(1) :
    Becomes(Replace(held.bytes, Encoded(old), Encoded(new)), Joined(Parts(chars, old), new))

\* Split by one separator and joined by another: what a program does that
\* changes the separator of a line.
Rejoins ==
  \E old \in Texts(MaxArg), new \in Texts(1) :
    Becomes(Join(Encoded(new), Split(held.bytes, Encoded(old))), Joined(Parts(chars, old), new))

Takes ==
  \E old \in Texts(MaxArg) :
    LET parts == Split(held.bytes, Encoded(old))
    IN  \E k \in 1..Len(parts) : Becomes(Exact(parts[k]), Parts(chars, old)[k])

Next == \/ Appends \/ Repeats \/ Pads \/ Cuts \/ Recases \/ Turns \/ Trims
        \/ Strips \/ Replaces \/ Rejoins \/ Takes

Spec == Init /\ [][Next]_vars

-----------------------------------------------------------------------------
(* Every method is an operation on characters, whatever was done to the    *)
(* string before: no method cuts a character in two, loses one or counts a *)
(* byte as one, and the size written beside the buffer, which the first of *)
(* two passes computed, is the size the second pass filled.  For ss this   *)
(* is what the code and tests/strings/test_string_ss_utf8.sushi have; the  *)
(* manual has it count bytes (SubstringByBytes).                           *)
EditsExact ==
  /\ held.bytes = Encoded(chars)
  /\ held.size = Len(held.bytes)

(* find, find_last, count, contains, starts_with, ends_with, len and the   *)
(* order of strings are about characters: positions count characters, a    *)
(* match never starts in the middle of one, and count is the largest       *)
(* number of occurrences of which no two overlap.                          *)
SearchExact ==
  \A n \in Texts(MaxArg) :
    LET d    == held.bytes
        e    == Encoded(n)
        at   == Occurrences(chars, n)
        apart == {s \in SUBSET at : \A i, j \in s : i < j => i + Len(n) <= j}
    IN  /\ Length(d) = Len(chars) /\ IsEmpty(d) = (chars = <<>>)
        /\ Find(d, e) = IF at = {} THEN None ELSE Some(Min(at))
        /\ FindLast(d, e) = IF at = {} THEN None ELSE Some(Max(at))
        /\ ContainsText(d, e) = (at # {})
        /\ StartsWith(d, e) = IsPrefix(n, chars)
        /\ EndsWith(d, e) = IsSuffix(n, chars)
        /\ Count(d, e) = IF n = <<>> THEN 0 ELSE Max({Cardinality(s) : s \in apart})
        /\ (Compare(d, e) = 0) = (chars = n)
        /\ (Compare(d, e) < 0) = (Compare(e, d) > 0)

\* The number a text denotes: blanks, a sign, digits, and nothing else.
Denotes(c) ==
  LET body   == WithoutBlanks(c)
      signed == body # <<>> /\ body[1] \in {<<43>>, <<45>>}
      digits == IF signed THEN Tail(body) ELSE body
      number == FoldLeft(LAMBDA v, b : 10 * v + (b[1] - 48), 0, digits)
  IN  IF digits = <<>> \/ \E k \in 1..Len(digits) : digits[k][1] \notin 48..57 THEN None
      ELSE Some(IF body[1] = <<45>> THEN -number ELSE number)

(* to_i32 answers exactly the texts that denote a number of its range, and *)
(* to_i64 every text that denotes a number, with that number when it is in *)
(* range: nothing half read, no value cut to fit.                          *)
NumbersRead ==
  LET n    == Denotes(chars)
      fits(top) == n # None /\ n[1] \in (-top - 1)..top
  IN  /\ ToI32(held.bytes, Low, High, Long) = IF n # None /\ n[1] \in Low..High THEN n ELSE None
      /\ (ToI64(held.bytes, Long) = None) = (n = None)
      /\ fits(Long) => ToI64(held.bytes, Long) = n

-----------------------------------------------------------------------------
(* What the manual says and the code does not do.                          *)

(* docs/stdlib/collections/strings.md: ss(start, length) is the "substring *)
(* by byte offset and length", one of the byte-based methods.  The code    *)
(* clamps both to the number of characters and converts them to bytes, so  *)
(* the two differ as soon as a character has two bytes.                    *)
SubstringByBytes ==
  \A i, j \in 0..Len(held.bytes) :
    i + j <= Len(held.bytes) => SliceFor(held.bytes, i, j) = Bytes(held.bytes, i, j)
=============================================================================
