----------------------------- MODULE SeqRuntime -----------------------------
(***************************************************************************)
(* The run-time code emitted for `List@(T)` (backend/generics/list) and for *)
(* dynamic arrays `T[]` (backend/types/arrays): a header {len, cap, data}   *)
(* in the program's stack frame and one heap buffer.                        *)
(*                                                                          *)
(* A list method loads the header BEFORE it evaluates its arguments, so a   *)
(* call is two steps: Begin takes the header it works with ("seen"), and    *)
(* the call's second step uses it.  An array method evaluates its arguments *)
(* first and is one step.  The constant Nested says whether an argument may *)
(* pop the receiver in between.                                             *)
(***************************************************************************)
EXTENDS Integers, SequencesExt, FiniteSets

CONSTANTS Elems,        \* element values
          Blocks,       \* heap addresses
          NULL,         \* the null pointer
          Garbage,      \* the content of a slot never written
          MaxLen,       \* bound: elements a sequence may reach
          Reserves,     \* the arguments of reserve
          ElemSize,     \* bytes of one element
          Word,         \* the modulus of the i32 arithmetic on sizes
          InitialCapacity, \* initial_capacity of array.free()
          Nested,       \* TRUE: an argument may pop the receiver of the call
          FillOwned     \* TRUE: fill() is called on arrays of owning elements

VARIABLES kind,     \* "list" or "array"
          owning,   \* TRUE: elements own storage (needs_cleanup)
          hdr,      \* the header: len, cap, data
          mem,      \* the slots behind each heap address; <<>> when not allocated
          live,     \* elements that exist and that something will free (owning only)
          held,     \* elements handed to the caller
          lost,     \* elements that exist and that nothing will free
          call,     \* the list call whose arguments are being evaluated
          ret,      \* the answer of the last call
          fault     \* an access outside the buffer, or an element freed twice

sequenceVars == <<kind, owning, hdr, mem, live, held, lost, call, ret, fault>>
fixed == <<kind, owning, lost>>
same == <<kind, owning, lost, mem, live, held, fault>>

Answer(op, i, t) == [op |-> op, at |-> i, tag |-> t, elem |-> {}]
Some(op, i, e) == [op |-> op, at |-> i, tag |-> "some", elem |-> {e}]
Done(op) == Answer(op, 0, "done")

NoCall == [op |-> "none"]
Empty == [len |-> 0, cap |-> 0, data |-> NULL]

-----------------------------------------------------------------------------
(* What is asked of the constants.  Every byte count the bounds allow fits  *)
(* the arithmetic on sizes, a slot never written and the null pointer are   *)
(* neither an element nor a buffer, and no argument touches the receiver.   *)
RoomAssumption ==
  /\ ElemSize \in Nat \ {0} /\ Word \in Nat /\ MaxLen \in Nat
  /\ InitialCapacity \in Nat /\ InitialCapacity * ElemSize < Word
  /\ 2 * MaxLen * ElemSize < Word
  /\ Reserves \subseteq Nat
  /\ \A n \in Reserves : (MaxLen + n) * ElemSize < Word

NamesAssumption == NULL \notin Blocks /\ Garbage \notin Elems

WellBehaved == ~Nested /\ ~FillOwned

-----------------------------------------------------------------------------
(* Memory.                                                                 *)

Slots(n) == ((n * ElemSize) % Word) \div ElemSize
Behind(m, b) == IF b = NULL THEN <<>> ELSE m[b]
Reaches(m, b, i) == 0 <= i /\ i < Len(Behind(m, b))
Read(m, b, i) == IF Reaches(m, b, i) THEN m[b][i + 1] ELSE Garbage
Write(m, b, i, e) == IF Reaches(m, b, i) THEN [m EXCEPT ![b][i + 1] = e] ELSE m
Fresh(m, b) == {x \in Blocks : x = b \/ m[x] = <<>>}
Freed(m, b) == IF b = NULL THEN m ELSE [m EXCEPT ![b] = <<>>]

(* emit_realloc_call: the contents move to a buffer that may be elsewhere.  *)
Moved(m, b, x, n) ==
  [Freed(m, b) EXCEPT ![x] =
     [i \in 1..Slots(n) |-> IF i <= Len(Behind(m, b)) THEN m[b][i] ELSE Garbage]]

Doubled(cap) == IF cap = 0 THEN 1 ELSE (cap * 2) % Word

(* The header and the memory a call goes on with once there is room for one *)
(* more element: the buffer of a full header moves to x.                    *)
GrownHdr(h, x) ==
  IF h.len < h.cap THEN h ELSE [h EXCEPT !.cap = Doubled(h.cap), !.data = x]
GrownMem(h, x) ==
  IF h.len < h.cap THEN mem ELSE Moved(mem, h.data, x, Doubled(h.cap))

InUse(h, m) == [i \in 1..h.len |-> Read(m, h.data, i - 1)]

(* Destroying the elements in use: each must still exist, once.             *)
Destroys(h) ==
  LET es == InUse(h, mem)
  IN  /\ live' = live \ ToSet(es)
      /\ fault' = (fault \/ (owning /\ ~(ToSet(es) \subseteq live /\ IsInjective(es))))

(* A value the caller can give away: a new one, or one it was handed.       *)
Given(e) == ~owning \/ e \notin live \cup lost \/ e \in held
Takes(e) == /\ live' = IF owning THEN live \cup {e} ELSE live
            /\ held' = held \ {e}
Hands(e) == held' = IF owning THEN held \cup {e} ELSE held

-----------------------------------------------------------------------------
(* List.new(), List.with_capacity(n) -- the byte count is 64 bits wide --   *)
(* and from([...]), whose capacity is the power of two that holds them.     *)
NewList == hdr = Empty /\ mem = [b \in Blocks |-> <<>>]

Buffer(b, s, n) ==
  [x \in Blocks |->
     IF x = b THEN [i \in 1..n |-> IF i <= Len(s) THEN s[i] ELSE Garbage] ELSE <<>>]

ListWithCapacity(n, b) ==
  /\ hdr = [len |-> 0, cap |-> n, data |-> b]
  /\ mem = Buffer(b, <<>>, n)

\* `capacity *= 2` from 1, as often as it takes
Power[i \in Nat] == IF i = 0 THEN 1 ELSE 2 * Power[i - 1]
PowerFor(n) == CHOOSE c \in {Power[i] : i \in 0..n} : c >= n /\ (c = 1 \/ c \div 2 < n)

ArrayFrom(s, b) ==
  IF s = <<>> THEN NewList
  ELSE /\ hdr = [len |-> Len(s), cap |-> PowerFor(Len(s)), data |-> b]
       /\ mem = Buffer(b, s, Slots(PowerFor(Len(s))))

SequenceInit ==
  /\ owning \in BOOLEAN
  /\ \/ kind = "list" /\ live = {} /\ (NewList \/ \E n \in Reserves, b \in Blocks : ListWithCapacity(n, b))
     \/ /\ kind = "array"
        /\ \E s \in BoundedSeq(Elems, MaxLen), b \in Blocks :
             /\ owning => IsInjective(s)
             /\ live = IF owning THEN ToSet(s) ELSE {}
             /\ ArrayFrom(s, b)
  /\ held = {} /\ lost = {}
  /\ call = NoCall
  /\ ret = Done("new")
  /\ fault = FALSE

Callable(k) == kind = k /\ call = NoCall
Loaded(op) == call.op = op
Seen == call.seen

-----------------------------------------------------------------------------
(* Lists: calls with arguments.                                            *)

(* insert, get, remove, reserve load the header, then evaluate an index.    *)
ListBegin(op) ==
  /\ kind = "list" /\ call = NoCall
  /\ call' = [op |-> op, seen |-> hdr]
  /\ UNCHANGED <<same, hdr, ret>>

(* push also grows the buffer before it evaluates the element.              *)
ListPushBegin ==
  /\ kind = "list" /\ call = NoCall /\ hdr.len < MaxLen
  /\ \E x \in Fresh(mem, hdr.data) :
       /\ hdr' = GrownHdr(hdr, x)
       /\ mem' = GrownMem(hdr, x)
       /\ call' = [op |-> "push", seen |-> GrownHdr(hdr, x)]
  /\ UNCHANGED <<fixed, live, held, ret, fault>>

(* store element_value at the length loaded at the start of the call.       *)
StoreAt(h, i, e) ==
  /\ mem' = Write(mem, h.data, i, e)
  /\ hdr' = [hdr EXCEPT !.len = h.len + 1]
  /\ fault' = (fault \/ ~Reaches(mem, h.data, i))
  /\ Takes(e)

ListPush(e) ==
  /\ Loaded("push") /\ Given(e)
  /\ StoreAt(Seen, Seen.len, e)
  /\ call' = NoCall
  /\ ret' = Done("push")
  /\ UNCHANGED fixed

(* Out of bounds the element is not evaluated at all and Err is answered.  A *)
(* fresh value was never made, and the owner of one with a drop flag still  *)
(* frees it: the flag is cleared within bounds only.  A name that is moved  *)
(* on every path has no flag: the compiler has marked it moved for good     *)
(* (consume.py:144), its scope does not free it, and it is lost.            *)
ListInsertRefused(i) ==
  /\ Loaded("insert") /\ ~(0 <= i /\ i <= Seen.len)
  /\ call' = NoCall
  /\ ret' = Answer("insert", i, "err")
  /\ \/ UNCHANGED <<live, held, lost>>
     \/ /\ owning
        /\ \E e \in held : /\ held' = held \ {e} /\ live' = live \ {e}
                           /\ lost' = lost \cup {e}
  /\ UNCHANGED <<kind, owning, hdr, mem, fault>>

(* Mutant: the byte count of the move is one element short.                 *)
ShiftedOneShort(m, b, i, j, n) ==
  IF b = NULL THEN m
  ELSE [m EXCEPT ![b] = [k \in DOMAIN m[b] |->
          IF j < k /\ k < j + n THEN Read(m, b, k - 1 - j + i) ELSE m[b][k]]]

(* memmove of n slots of block b from slot i to slot j.                     *)
Shifted(m, b, i, j, n) ==
  IF b = NULL THEN m
  ELSE [m EXCEPT ![b] = [k \in DOMAIN m[b] |->
          IF j < k /\ k <= j + n THEN Read(m, b, k - 1 - j + i) ELSE m[b][k]]]

ListInsertShift(i) ==
  /\ Loaded("insert") /\ 0 <= i /\ i <= Seen.len /\ Seen.len < MaxLen
  /\ \E x \in Fresh(mem, Seen.data) :
       LET h == GrownHdr(Seen, x)
       IN  /\ hdr' = [hdr EXCEPT !.cap = IF h = Seen THEN @ ELSE h.cap,
                                 !.data = IF h = Seen THEN @ ELSE h.data]
           /\ mem' = Shifted(GrownMem(Seen, x), h.data, i, i + 1, Seen.len - i)
           /\ call' = [op |-> "store", seen |-> h, at |-> i]
  /\ UNCHANGED <<fixed, live, held, ret, fault>>

ListInsert(e) ==
  /\ Loaded("store") /\ Given(e)
  /\ StoreAt(Seen, call.at, e)
  /\ call' = NoCall
  /\ ret' = Answer("insert", call.at, "done")
  /\ UNCHANGED fixed

InBounds(i, n) == 0 <= i /\ i < n

ListGet(i) ==
  /\ Loaded("get")
  /\ call' = NoCall
  /\ ret' = IF InBounds(i, Seen.len) THEN Some("get", i, Read(mem, Seen.data, i))
            ELSE Answer("get", i, "none")
  /\ UNCHANGED <<same, hdr>>

ListRemove(i) ==
  /\ Loaded("remove")
  /\ call' = NoCall
  /\ \/ /\ ~InBounds(i, Seen.len)
        /\ ret' = Answer("remove", i, "none")
        /\ UNCHANGED <<same, hdr>>
     \/ /\ InBounds(i, Seen.len)
        /\ ret' = Some("remove", i, Read(mem, Seen.data, i))
        /\ Hands(Read(mem, Seen.data, i))
        /\ mem' = Shifted(mem, Seen.data, i + 1, i, Seen.len - i - 1)
        /\ hdr' = [hdr EXCEPT !.len = Seen.len - 1]
        /\ UNCHANGED <<fixed, live, fault>>

(* needed_cap and the byte count are i32: both wrap.                        *)
ListReserve(n) ==
  LET needed == (Seen.len + n) % Word
  IN  /\ Loaded("reserve")
      /\ call' = NoCall
      /\ ret' = Done("reserve")
      /\ \/ needed <= Seen.cap /\ UNCHANGED <<hdr, mem>>
         \/ /\ needed > Seen.cap
            /\ \E x \in Fresh(mem, Seen.data) :
                 /\ mem' = Moved(mem, Seen.data, x, needed)
                 /\ hdr' = [hdr EXCEPT !.cap = needed, !.data = x]
      /\ UNCHANGED <<fixed, live, held, fault>>

-----------------------------------------------------------------------------
(* Lists: calls without arguments.                                         *)

(* The last element leaves the sequence and is the caller's from then on.   *)
Pop ==
  /\ \/ hdr.len = 0 /\ ret' = Answer("pop", 0, "none") /\ UNCHANGED <<hdr, held>>
     \/ /\ hdr.len > 0
        /\ hdr' = [hdr EXCEPT !.len = @ - 1]
        /\ ret' = Some("pop", 0, Read(mem, hdr.data, hdr.len - 1))
        /\ Hands(Read(mem, hdr.data, hdr.len - 1))
  /\ UNCHANGED <<fixed, mem, live, call, fault>>

(* xs.push(xs.pop().realise(d)): the argument is itself a call on xs.       *)
ListPop == kind = "list" /\ (call = NoCall \/ Nested) /\ Pop

ListClear ==
  /\ Callable("list")
  /\ Destroys(hdr)
  /\ hdr' = [hdr EXCEPT !.len = 0]
  /\ ret' = Done("clear")
  /\ UNCHANGED <<fixed, mem, held, call>>

(* list.free() and list.destroy() do the same; the list stays usable.       *)
Release(op) ==
  /\ Destroys(hdr)
  /\ mem' = Freed(mem, hdr.data)
  /\ hdr' = Empty
  /\ ret' = Done(op)
  /\ UNCHANGED <<fixed, held, call>>

ListFree == Callable("list") /\ Release("free")
ListDestroy == Callable("list") /\ Release("destroy")

(* Mutant: the buffer of an emptied list goes, its capacity stays.          *)
ListShrinkKeepsCapacity ==
  /\ Callable("list")
  /\ ret' = Done("shrink")
  /\ \/ hdr.len = hdr.cap /\ UNCHANGED <<hdr, mem>>
     \/ /\ hdr.len # hdr.cap /\ hdr.len = 0
        /\ mem' = Freed(mem, hdr.data)
        /\ hdr' = [hdr EXCEPT !.data = NULL]
     \/ /\ hdr.len # hdr.cap /\ hdr.len > 0
        /\ \E x \in Fresh(mem, hdr.data) :
             /\ mem' = Moved(mem, hdr.data, x, hdr.len)
             /\ hdr' = [hdr EXCEPT !.cap = hdr.len, !.data = x]
  /\ UNCHANGED <<fixed, live, held, call, fault>>

ListShrink ==
  /\ Callable("list")
  /\ ret' = Done("shrink")
  /\ \/ hdr.len = hdr.cap /\ UNCHANGED <<hdr, mem>>
     \/ /\ hdr.len # hdr.cap /\ hdr.len = 0
        /\ mem' = Freed(mem, hdr.data)
        /\ hdr' = [hdr EXCEPT !.cap = 0, !.data = NULL]
     \/ /\ hdr.len # hdr.cap /\ hdr.len > 0
        /\ \E x \in Fresh(mem, hdr.data) :
             /\ mem' = Moved(mem, hdr.data, x, hdr.len)
             /\ hdr' = [hdr EXCEPT !.cap = hdr.len, !.data = x]
  /\ UNCHANGED <<fixed, live, held, call, fault>>

-----------------------------------------------------------------------------
(* Dynamic arrays: the arguments are values by the time the header is read. *)

ArrayPush(e) ==
  /\ Callable("array") /\ hdr.len < MaxLen /\ Given(e)
  /\ \E x \in Fresh(mem, hdr.data) :
       LET h == GrownHdr(hdr, x)
           m == GrownMem(hdr, x)
       IN  /\ mem' = Write(m, h.data, h.len, e)
           /\ hdr' = [h EXCEPT !.len = @ + 1]
           /\ fault' = (fault \/ ~Reaches(m, h.data, h.len))
  /\ Takes(e)
  /\ ret' = Done("push")
  /\ UNCHANGED <<fixed, call>>

ArrayPop == Callable("array") /\ Pop

(* get answers Maybe; `a[i]` stops the program with RE2020.                 *)
ArrayRead(op, i, refusal) ==
  /\ Callable("array")
  /\ ret' = IF InBounds(i, hdr.len) THEN Some(op, i, Read(mem, hdr.data, i))
            ELSE Answer(op, i, refusal)
  /\ UNCHANGED <<same, hdr, call>>

ArrayGet(i) == ArrayRead("get", i, "none")
ArrayIndex(i) == ArrayRead("index", i, "trap")

(* free() leaves an array of InitialCapacity uninitialised slots.           *)
ArrayFree ==
  /\ Callable("array")
  /\ Destroys(hdr)
  /\ \E x \in Fresh(mem, hdr.data) :
       /\ mem' = [Freed(mem, hdr.data) EXCEPT
                    ![x] = [i \in 1..Slots(InitialCapacity) |-> Garbage]]
       /\ hdr' = [len |-> 0, cap |-> InitialCapacity, data |-> x]
  /\ ret' = Done("free")
  /\ UNCHANGED <<fixed, held, call>>

ArrayDestroy == Callable("array") /\ Release("destroy")

(* half of the slots are exchanged with their mirror slots.                 *)
ArrayReverse ==
  LET n == hdr.len
      half == n \div 2
      Source(k) == IF k < half \/ (k < n /\ n - 1 - k < half) THEN n - 1 - k ELSE k
  IN  /\ Callable("array")
      /\ mem' = IF n < 2 THEN mem
                ELSE [mem EXCEPT ![hdr.data] =
                        [k \in DOMAIN @ |-> Read(mem, hdr.data, Source(k - 1))]]
      /\ ret' = Done("reverse")
      /\ UNCHANGED <<fixed, hdr, live, held, call, fault>>

(* fill overwrites every element with one value; nothing is destroyed.      *)
ArrayFill(e) ==
  /\ Callable("array") /\ (owning => FillOwned) /\ Given(e)
  /\ mem' = IF hdr.len = 0 THEN mem
            ELSE [mem EXCEPT ![hdr.data] =
                    [k \in DOMAIN @ |-> IF k <= hdr.len THEN e ELSE @[k]]]
  /\ live' = IF owning THEN live \cup {e} ELSE live
  /\ ret' = Done("fill")
  /\ UNCHANGED <<fixed, hdr, held, call, fault>>

(* The caller destroys a value it was handed.                               *)
DropElement(e) ==
  /\ e \in held
  /\ held' = held \ {e}
  /\ live' = live \ {e}
  /\ fault' = (fault \/ e \notin live)
  /\ UNCHANGED <<fixed, hdr, mem, call, ret>>

-----------------------------------------------------------------------------
Indexes == -1..MaxLen

ListNext ==
  \/ \E op \in {"insert", "get", "remove", "reserve"} : ListBegin(op)
  \/ ListPushBegin
  \/ \E e \in Elems : ListPush(e) \/ ListInsert(e)
  \/ \E i \in Indexes : ListInsertRefused(i) \/ ListInsertShift(i) \/ ListGet(i) \/ ListRemove(i)
  \/ \E n \in Reserves : ListReserve(n)
  \/ ListPop \/ ListClear \/ ListFree \/ ListDestroy \/ ListShrink

ArrayNext ==
  \/ \E e \in Elems : ArrayPush(e) \/ ArrayFill(e)
  \/ \E i \in Indexes : ArrayGet(i) \/ ArrayIndex(i)
  \/ ArrayPop \/ ArrayFree \/ ArrayDestroy \/ ArrayReverse

SequenceNext == ListNext \/ ArrayNext \/ \E e \in Elems : DropElement(e)

SequenceSpec == SequenceInit /\ [][SequenceNext]_sequenceVars

-----------------------------------------------------------------------------
(* Properties.                                                             *)

Headers == [len : 0..MaxLen, cap : 0..(Word - 1), data : Blocks \cup {NULL}]
Memories == [Blocks -> Seq(Elems \cup {Garbage})]

SequenceTypeOK ==
  /\ kind \in {"list", "array"} /\ owning \in BOOLEAN
  /\ hdr \in Headers /\ mem \in Memories
  /\ live \subseteq Elems /\ held \subseteq Elems /\ lost \subseteq Elems
  /\ fault \in BOOLEAN

(* The sequence the program sees.  Between the shift and the store of an    *)
(* insert one slot of the buffer is a hole.                                 *)
Contents ==
  IF Loaded("store") THEN RemoveAt(InUse([hdr EXCEPT !.len = @ + 1], mem), call.at + 1)
  ELSE InUse(hdr, mem)

(* Every slot the header counts exists: the length is within the capacity,  *)
(* the capacity within the buffer (push, insert, reserve, shrink_to_fit and *)
(* free keep capacity and byte count apart), no other buffer is left behind *)
(* by a reallocation, and no access has left the buffer.                    *)
BufferCovers ==
  /\ hdr.len <= hdr.cap
  /\ hdr.cap <= Len(Behind(mem, hdr.data))
  /\ \A b \in Blocks : mem[b] # <<>> => b = hdr.data
  /\ ~fault

(* An element that owns storage is in one place: a slot in use or the       *)
(* caller, never both, never two slots, never a slot that was never written *)
(* (push, pop, insert, remove, clear, reverse, destroy and what the caller  *)
(* drops).  It is nowhere, while it exists, only if a refused insert lost   *)
(* it, and then for good: no slot and no caller has it again.               *)
OneHolder ==
  owning => /\ IsInjective(Contents)
            /\ ToSet(Contents) \cap held = {}
            /\ live = ToSet(Contents) \cup held
            /\ lost \cap live = {}

(* What push, insert, reserve, shrink_to_fit and free must keep between     *)
(* them: the buffer holds what the header counts, and each element that is  *)
(* not lost has one owner, a slot of it or the caller.                      *)
BufferExact == BufferCovers /\ OneHolder

(* "No memory leaks - resources are always freed when they go out of scope" *)
(* (docs/language-guide.md:951): an element is never lost.  FAILS: an       *)
(* insert out of bounds takes a named owner at compile time and stores it   *)
(* nowhere (list/methods_modify.py:248-258).                                *)
NoElementLost == lost = {}

(* Contents, answers and hand-overs are those of the abstract sequence: the *)
(* buffer, its growth and the shifting of slots cannot be told from outside.*)
Promise == INSTANCE SeqSpec
             WITH items <- Contents
ImplementsSeq == Promise!SInit /\ [][Promise!SNext]_<<owning, Contents, held, ret>>

(* docs/stdlib/collections/list.md: push appends the element, and reserve   *)
(* makes the capacity "at least len() + additional".                        *)
PushAppends ==
  [][\A e \in Elems : ListPush(e) =>
        Contents' = Append(Contents, e)]_sequenceVars

ReserveMakesRoom ==
  [][\A n \in Reserves : ListReserve(n) => hdr'.cap >= hdr.len + n]_sequenceVars
=============================================================================
