------------------------------ MODULE Strings ------------------------------
(***************************************************************************)
(* The methods of strings, as the generated runtime computes them:         *)
(* sushi_stdlib/src/collections/strings.  A string is its sequence of      *)
(* bytes; positions and lengths in bytes are counted from 0 as in the      *)
(* code.  A position given or returned by a method is a character's, and   *)
(* every method converts at its edges.                                     *)
(*                                                                         *)
(* Each loop of the code is given by its result.  Where the code makes two *)
(* passes, one to size a buffer and one to fill it, both are here.         *)
(***************************************************************************)
EXTENDS Integers, Sequences, FiniteSets, FiniteSetsExt, SequencesExt

Some(v) == <<v>>
None == <<>>

-----------------------------------------------------------------------------
(* The intrinsics: characters are counted by the bytes that start one.     *)

\* (byte & 0xC0) != 0x80
StartsChar(b) == b \div 64 # 2

\* llvm_utf8_count: how many characters start in the first n bytes of d.
Utf8Count(d, n) == Cardinality({k \in 1..n : StartsChar(d[k])})

\* llvm_utf8_byte_offset: where character i starts; the size of d when i is
\* the number of characters; -1 otherwise.
ByteOffset(d, i) ==
  LET at == {k \in 1..Len(d) : StartsChar(d[k]) /\ Utf8Count(d, k - 1) = i}
  IN  IF at # {} THEN Min(at) - 1
      ELSE IF Utf8Count(d, Len(d)) = i THEN Len(d) ELSE -1

ToUpper(b) == IF b \in 97..122 THEN b - 32 ELSE b
ToLower(b) == IF b \in 65..90 THEN b + 32 ELSE b
IsSpace(b) == b \in {32, 9, 10, 13}

\* The bytes first .. first + n - 1 of d, in a buffer of their own.
Bytes(d, first, n) == SubSeq(d, first + 1, first + n)

Clamp(i, low, high) == LET up == IF i < low THEN low ELSE i
                       IN  IF up > high THEN high ELSE up

\* Whether n occurs in d at byte p.  The code compares byte by byte and has
\* checked that n fits.
MatchesAt(d, n, p) == Bytes(d, p, Len(n)) = n

-----------------------------------------------------------------------------
(* Inspection.                                                             *)

Length(d) == Utf8Count(d, Len(d))
IsEmpty(d) == Len(d) = 0

StartsWith(d, n) == Len(n) <= Len(d) /\ MatchesAt(d, n, 0)
EndsWith(d, n) == Len(n) <= Len(d) /\ MatchesAt(d, n, Len(d) - Len(n))

\* The byte positions at which the search loops stop.
HitsIn(d, n) == {p \in 0..(Len(d) - Len(n)) : MatchesAt(d, n, p)}

ContainsText(d, n) ==
  \/ Len(n) = 0
  \/ Len(n) <= Len(d) /\ HitsIn(d, n) # {}

Find(d, n) ==
  IF Len(n) = 0 THEN Some(Utf8Count(d, 0))
  ELSE IF Len(n) > Len(d) \/ HitsIn(d, n) = {} THEN None
  ELSE Some(Utf8Count(d, Min(HitsIn(d, n))))

FindLast(d, n) ==
  IF Len(n) = 0 THEN Some(Utf8Count(d, Len(d)))
  ELSE IF Len(n) > Len(d) \/ HitsIn(d, n) = {} THEN None
  ELSE Some(Utf8Count(d, Max(HitsIn(d, n))))

\* The positions the counting loops count from byte p on: after a hit the
\* loop goes on behind it.
RECURSIVE Scan(_, _, _)
Scan(d, n, p) ==
  IF p > Len(d) - Len(n) THEN <<>>
  ELSE IF MatchesAt(d, n, p) THEN <<p>> \o Scan(d, n, p + Len(n))
  ELSE Scan(d, n, p + 1)

Count(d, n) == IF Len(n) = 0 \/ Len(n) > Len(d) THEN 0 ELSE Len(Scan(d, n, 0))

\* llvm_strcmp: the first pair of bytes that differs, else the sizes.
Compare(d, e) ==
  LET shared == IF Len(d) < Len(e) THEN Len(d) ELSE Len(e)
      apart  == {k \in 1..shared : d[k] # e[k]}
  IN  IF apart # {} THEN d[Min(apart)] - e[Min(apart)] ELSE Len(d) - Len(e)

-----------------------------------------------------------------------------
(* Slices.  Bounds are clamped in characters, then converted to bytes.     *)

\* s(start, end): an end before the start gives the empty string.
Slice(d, start, end) ==
  LET count == Length(d)
      from  == Clamp(start, 0, count)
      to    == Clamp(end, from, count)
  IN  Bytes(d, ByteOffset(d, from), ByteOffset(d, to) - ByteOffset(d, from))

\* Mutant: the length is clamped to the whole string, not to what remains.
SliceForUnclamped(d, start, length) ==
  LET count == Length(d)
      from  == Clamp(start, 0, count)
      to    == from + Clamp(length, 0, count)
  IN  Bytes(d, ByteOffset(d, from), ByteOffset(d, to) - ByteOffset(d, from))

\* ss(start, length)
SliceFor(d, start, length) ==
  LET count == Length(d)
      from  == Clamp(start, 0, count)
      to    == from + Clamp(length, 0, count - from)
  IN  Bytes(d, ByteOffset(d, from), ByteOffset(d, to) - ByteOffset(d, from))

LeftOf(d, n) == Bytes(d, 0, ByteOffset(d, Clamp(n, 0, Length(d))))

RightOf(d, n) ==
  LET from == ByteOffset(d, Length(d) - Clamp(n, 0, Length(d)))
  IN  Bytes(d, from, Len(d) - from)

CharAt(d, i) ==
  LET from == ByteOffset(d, i)
      next == ByteOffset(d, i + 1)
      to   == IF next < 0 THEN Len(d) ELSE next
  IN  IF from < 0 THEN <<>> ELSE Bytes(d, from, to - from)

\* Characters from the last to the first, each copied whole.
Reversed(d) ==
  LET char(i) == Bytes(d, ByteOffset(d, i), ByteOffset(d, i + 1) - ByteOffset(d, i))
  IN  IF Len(d) <= 1 THEN d
      ELSE FlattenSeq([k \in 1..Length(d) |-> char(Length(d) - k)])

-----------------------------------------------------------------------------
(* Case and white space, byte by byte.                                     *)

Upper(d) == [k \in 1..Len(d) |-> ToUpper(d[k])]
Lower(d) == [k \in 1..Len(d) |-> ToLower(d[k])]
Capital(d) == [k \in 1..Len(d) |-> IF k = 1 THEN ToUpper(d[k]) ELSE ToLower(d[k])]

\* The first byte, from byte `low`, that is not white space; `high` if none.
SkipSpace(d, low, high) ==
  Min({p \in low..high : p = high \/ ~IsSpace(d[p + 1])})

\* One past the last byte, down to byte `low`, that is not white space.
SkipSpaceBack(d, low, high) ==
  Max({p \in low..high : p = low \/ ~IsSpace(d[p])})

TrimLeft(d) == LET from == SkipSpace(d, 0, Len(d)) IN Bytes(d, from, Len(d) - from)
TrimRight(d) == Bytes(d, 0, SkipSpaceBack(d, 0, Len(d)))
Trim(d) == LET from == SkipSpace(d, 0, Len(d))
           IN  Bytes(d, from, SkipSpaceBack(d, from, Len(d)) - from)

-----------------------------------------------------------------------------
(* Strings built from strings: `size` is the size of the buffer and of the *)
(* result, `bytes` what the copying loop wrote.                            *)

Built(size, bytes) == [size |-> size, bytes |-> bytes]

Concat(d, e) == Built(Len(d) + Len(e), d \o e)

Copies(n, d) == FlattenSeq([k \in 1..n |-> d])

Repeat(d, n) == IF n > 0 /\ Len(d) > 0 THEN Built(Len(d) * n, Copies(n, d)) ELSE Built(0, <<>>)

\* The width is in characters, and so is what is missing; each missing
\* character is one copy of the padding string.
PadLeft(d, width, pad) ==
  LET needed == width - Length(d)
  IN  IF Length(d) < width THEN Built(needed * Len(pad) + Len(d), Copies(needed, pad) \o d)
      ELSE Built(Len(d), d)

PadRight(d, width, pad) ==
  LET needed == width - Length(d)
  IN  IF Length(d) < width THEN Built(Len(d) + needed * Len(pad), d \o Copies(needed, pad))
      ELSE Built(Len(d), d)

StripPrefix(d, n) == IF StartsWith(d, n) THEN Bytes(d, Len(n), Len(d) - Len(n)) ELSE d
StripSuffix(d, n) == IF EndsWith(d, n) THEN Bytes(d, 0, Len(d) - Len(n)) ELSE d

\* The second pass of replace, from byte p: unlike the first, it runs to the
\* end of the string and tests at each byte whether `old` still fits.
RECURSIVE Substituted(_, _, _, _)
Substituted(d, old, new, p) ==
  IF p >= Len(d) THEN <<>>
  ELSE IF Len(old) <= Len(d) - p /\ MatchesAt(d, old, p)
       THEN new \o Substituted(d, old, new, p + Len(old))
       ELSE <<d[p + 1]>> \o Substituted(d, old, new, p + 1)

Replace(d, old, new) ==
  LET count == Len(Scan(d, old, 0))
  IN  IF Len(old) = 0 \/ Len(old) > Len(d) \/ count = 0 THEN Built(Len(d), d)
      ELSE Built(Len(d) - Len(old) * count + Len(new) * count, Substituted(d, old, new, 0))

\* The parts between the hits, and the rest.  The array holds one part more
\* than the first pass counted hits.
Split(d, delim) ==
  LET hits   == Scan(d, delim, 0)
      from(k) == IF k = 1 THEN 0 ELSE hits[k - 1] + Len(delim)
      to(k)   == IF k = Len(hits) + 1 THEN Len(d) ELSE hits[k]
  IN  IF Len(delim) = 0 THEN <<d>>
      ELSE [k \in 1..(Len(hits) + 1) |-> Bytes(d, from(k), to(k) - from(k))]

\* join is called on the separator.
Join(sep, parts) ==
  LET total == FoldFunction(+, 0, [k \in 1..Len(parts) |-> Len(parts[k])])
  IN  CASE Len(parts) = 0 -> Built(0, <<>>)
        [] Len(parts) = 1 -> Built(Len(parts[1]), parts[1])
        [] OTHER -> Built(total + (Len(parts) - 1) * Len(sep),
                          FlattenSeq([k \in 1..Len(parts) |->
                             IF k = Len(parts) THEN parts[k] ELSE parts[k] \o sep]))

-----------------------------------------------------------------------------
(* Reading a number.  The text is copied behind a NUL and given to strtol  *)
(* or strtoll, which skip white space, take a sign and digits, and stop.   *)

Digit(b) == b \in 48..57

\* Where strtol starts reading, after white space and one sign.
NumberAt(d) ==
  LET blank == Min({p \in 0..Len(d) : p = Len(d) \/ ~(IsSpace(d[p + 1]) \/ d[p + 1] \in {11, 12})})
  IN  IF blank < Len(d) /\ d[blank + 1] \in {43, 45} THEN blank + 1 ELSE blank

\* The digits from there on.
DigitsEnd(d) == Min({p \in NumberAt(d)..Len(d) : p = Len(d) \/ ~Digit(d[p + 1])})

Magnitude(d) ==
  FoldLeft(LAMBDA v, b : 10 * v + (b - 48), 0,
          Bytes(d, NumberAt(d), DigitsEnd(d) - NumberAt(d)))

\* What the library call returns in `high` (the largest long): strtol and
\* strtoll saturate.
Strtol(d, high) ==
  LET negative == NumberAt(d) > 0 /\ d[NumberAt(d)] = 45
      value    == IF negative THEN -Magnitude(d) ELSE Magnitude(d)
  IN  Clamp(value, -high - 1, high)

\* Digits were read, and nothing is left behind them: the byte at which
\* strtol stopped is a NUL, the text's end or one inside the text.
ParsedWhole(d) ==
  /\ DigitsEnd(d) > NumberAt(d)
  /\ DigitsEnd(d) = Len(d) \/ d[DigitsEnd(d) + 1] = 0

\* to_i32: long is wider than i32, and the result must be in the range of i32.
ToI32(d, low, high, long) ==
  LET v == Strtol(d, long)
  IN  IF ParsedWhole(d) /\ v >= low /\ v <= high THEN Some(v) ELSE None

\* to_i64: nothing is asked about the range.
ToI64(d, long) == IF ParsedWhole(d) THEN Some(Strtol(d, long)) ELSE None
=============================================================================
