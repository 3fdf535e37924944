------------------------------- MODULE Layout -------------------------------
(***************************************************************************)
(* The layout the back end gives the types of TypeGraph once they are      *)
(* known to be finite: the sizes, alignments and offsets TypeSizing        *)
(* computes, beside those of the LLVM types the type mapper builds.        *)
(***************************************************************************)
EXTENDS TypeGraph

CONSTANT FixedLength  \* the length of every fixed array

ASSUME LayoutAssumption ==
  /\ FixedLength \in Nat
  /\ Leaves \subseteq {"i8", "i16", "i32", "i64", "string"}

Largest(S) == CHOOSE x \in S: \A y \in S: y <= x

---------------------------------------------------------------------------
(* Sizes and alignments in bytes, as TypeSizing computes them.  The        *)
(* recursion goes down a name by value at each step, so a finite type      *)
(* needs no more fuel than there are names.                                *)

AlignUp(offset, alignment) == ((offset + alignment - 1) \div alignment) * alignment

LeafSize == [i8 |-> 1, i16 |-> 2, i32 |-> 4, i64 |-> 8, string |-> 16]
LeafAlign == [i8 |-> 1, i16 |-> 2, i32 |-> 4, i64 |-> 8, string |-> 8]

\* The size and the alignment of a part, from those of the names it may hold.
PartAlign(p, names) ==
    IF p.wrap \in {"dyn", "own"} THEN 8
    ELSE IF p.of \in Leaves THEN LeafAlign[p.of] ELSE names[p.of].align
PartSize(p, names) ==
    IF p.wrap = "dyn" THEN 16 ELSE IF p.wrap = "own" THEN 8
    ELSE LET one == IF p.of \in Leaves THEN LeafSize[p.of] ELSE names[p.of].size
         IN  IF p.wrap = "fixed" THEN one * FixedLength ELSE one

AlignsOver(group, names) == [i \in DOMAIN group |-> PartAlign(group[i], names)]
SizesOver(group, names) == [i \in DOMAIN group |-> PartSize(group[i], names)]

\* Where parts end that are laid out one after the other, each aligned.
Ends(sizes, aligns) ==
    LET end[i \in 0..Len(sizes)] ==
          IF i = 0 THEN 0 ELSE AlignUp(end[i - 1], aligns[i]) + sizes[i]
    IN  end

\* payload_field_offsets and variant_payload_size; a field's offset is behind the one before.
OffsetsOf(sizes, aligns) == [i \in DOMAIN sizes |-> AlignUp(Ends(sizes, aligns)[i - 1], aligns[i])]

PayloadSizePacked(sizes, aligns) == FoldSeq(LAMBDA s, t: s + t, 0, sizes)
PayloadSize(sizes, aligns) ==
    IF sizes = <<>> THEN 0 ELSE Last(OffsetsOf(sizes, aligns)) + Last(sizes)

\* _calculate_struct_size: a field's own size is rounded up to its alignment too.
StructSize(sizes, aligns) ==
    LET padded == [i \in DOMAIN sizes |-> AlignUp(sizes[i], aligns[i])]
    IN  AlignUp(Ends(padded, aligns)[Len(sizes)], Largest({1} \cup ToSet(aligns)))

\* enum_payload_word_count, from the widest variant.
WordCount(n, names) ==
    Largest({1} \cup {AlignUp(PayloadSize(SizesOver(g, names), AlignsOver(g, names)), 8) \div 8:
                        g \in ToSet(body[n])})

\* get_type_size_bytes and get_type_alignment of the declared types.
Sizing[fuel \in 0..Fuel] ==
    [n \in Names |->
       IF fuel = 0 THEN [size |-> 0, align |-> 0]
       ELSE LET names == Sizing[fuel - 1]
            IN  IF kind[n] = "struct"
                THEN [size |-> StructSize(SizesOver(body[n][1], names), AlignsOver(body[n][1], names)),
                      align |-> Largest({1} \cup ToSet(AlignsOver(body[n][1], names)))]
                ELSE [size |-> 8 + 8 * WordCount(n, names), align |-> 8]]

SizeOf(part) == PartSize(part, Sizing[Fuel])
AlignOf(part) == PartAlign(part, Sizing[Fuel])
Sizes(group) == SizesOver(group, Sizing[Fuel])
Aligns(group) == AlignsOver(group, Sizing[Fuel])

---------------------------------------------------------------------------
(* LLVM's data layout, over the types the type mapper builds: a size and   *)
(* an alignment each.                                                      *)

\* Size and alignment of a struct of elements with these sizes and alignments: every
\* element at the next multiple of its alignment, the whole rounded up to the largest.
RoundedUp(x, a) == CHOOSE o \in x..(x + 7): o % a = 0 /\ \A q \in x..(o - 1): q % a # 0

ElementsEnd(elements) ==
    LET end[i \in 0..Len(elements)] ==
          IF i = 0 THEN 0 ELSE RoundedUp(end[i - 1], elements[i][2]) + elements[i][1]
    IN  end[Len(elements)]

StructOf(elements) ==
    LET a == Largest({1} \cup {elements[i][2]: i \in DOMAIN elements})
    IN  <<RoundedUp(ElementsEnd(elements), a), a>>

IntOf(bytes) == <<bytes, bytes>>
Pointer == <<8, 8>>
ArrayOf(count, element) == <<count * element[1], element[2]>>

\* _builtin_type_map; a string is {i8*, i32, i8}.
LLVMLeaf(l) == IF l = "string" THEN StructOf(<<Pointer, IntOf(4), IntOf(1)>>) ELSE IntOf(LeafSize[l])

\* ll_type: {i32, i32, T*} for T[], and {T*} for Own<T>.
LLVMOver(p, names) ==
    IF p.wrap = "own" THEN StructOf(<<Pointer>>)
    ELSE IF p.wrap = "dyn" THEN StructOf(<<IntOf(4), IntOf(4), Pointer>>)
    ELSE LET one == IF p.of \in Leaves THEN LLVMLeaf(p.of) ELSE names[p.of]
         IN  IF p.wrap = "fixed" THEN ArrayOf(FixedLength, one) ELSE one

\* _get_struct_type; and _get_enum_type, {i32, [K x i64]} with the K of TypeSizing.
LLVMTypes[fuel \in 0..Fuel] ==
    [n \in Names |->
       IF fuel = 0 THEN <<-1, -1>>
       ELSE IF kind[n] = "struct"
            THEN StructOf([i \in DOMAIN body[n][1] |-> LLVMOver(body[n][1][i], LLVMTypes[fuel - 1])])
            ELSE StructOf(<<IntOf(4), ArrayOf(WordCount(n, Sizing[Fuel]), IntOf(8))>>)]

LLVMPart(p) == LLVMOver(p, LLVMTypes[Fuel])
LLVMSizeAlign(n) == LLVMTypes[Fuel][n]

\* pack_all_variant_fields: the running offset, aligned before each store; the offset each
\* field is stored at.
Stores(group) ==
    LET at[i \in 0..Len(group)] ==
          IF i = 0 THEN 0 ELSE AlignUp(at[i - 1], AlignOf(group[i])) + SizeOf(group[i])
    IN  [i \in DOMAIN group |-> AlignUp(at[i - 1], AlignOf(group[i]))]

PayloadFits(group, bytes) ==
    LET stores == Stores(group)
    IN  \A i \in DOMAIN group:
          LET type == LLVMPart(group[i])
          IN  /\ stores[i] % type[2] = 0
              /\ stores[i] + type[1] <= (IF i = Len(group) THEN bytes ELSE stores[i + 1])
              /\ stores[i] = OffsetsOf(Sizes(group), Aligns(group))[i]

\* The types with nothing inside that contains itself by value.
FiniteTypes == {n \in Declared: \A m \in {n} \cup Within(n): ~Infinite(m)}

(***************************************************************************)
(* The size and alignment the compiler computes for a finite type are      *)
(* those of the LLVM type it maps it to, and the payload of every variant  *)
(* fits: the fields written one after the other do not overlap, are        *)
(* aligned, and end inside the words of the enum.                          *)
(***************************************************************************)
LayoutExact ==
    Accepted =>
      \A n \in FiniteTypes:
          LET part == [wrap |-> "plain", of |-> n, known |-> TRUE]
          IN  /\ <<SizeOf(part), AlignOf(part)>> = LLVMSizeAlign(n)
              /\ kind[n] = "enum" => \A g \in ToSet(body[n]): PayloadFits(g, SizeOf(part) - 8)
=============================================================================
