------------------------------- MODULE SeqSpec -------------------------------
(***************************************************************************)
(* What a growable sequence promises its caller: a sequence of elements, a  *)
(* set of elements handed out, and the answer of the last call.  Buffers,   *)
(* capacities and reallocation are not visible here.                        *)
(***************************************************************************)
EXTENDS Integers, SequencesExt

CONSTANTS Elems,      \* the elements
          Indexes     \* the indexes callers pass: integers, negative ones included

VARIABLES owning,     \* TRUE: an element owns storage and moves; FALSE: it is copied
          items, held, ret

Answer(op, i, t) == [op |-> op, at |-> i, tag |-> t, elem |-> {}]
Some(op, i, e) == [op |-> op, at |-> i, tag |-> "some", elem |-> {e}]
Done(op) == Answer(op, 0, "done")
HandOver(e) == held' = IF owning THEN held \cup {e} ELSE held
Within(i, n) == 0 <= i /\ i < n

SInit == owning \in BOOLEAN /\ items \in Seq(Elems) /\ held = {} /\ ret = Done("new")

SAppend(e) ==
  /\ items' = Append(items, e)
  /\ held' = held \ {e}
  /\ ret' = Done("push")

STakeLast ==
  \/ /\ items = <<>>
     /\ ret' = Answer("pop", 0, "none")
     /\ UNCHANGED <<items, held>>
  \/ /\ items # <<>>
     /\ items' = Front(items)
     /\ ret' = Some("pop", 0, Last(items))
     /\ HandOver(Last(items))

SInsertAt(i, e) ==
  /\ Within(i, Len(items) + 1)
  /\ items' = InsertAt(items, i + 1, e)
  /\ held' = held \ {e}
  /\ ret' = Answer("insert", i, "done")

SRemoveAt(i) ==
  /\ Within(i, Len(items))
  /\ items' = RemoveAt(items, i + 1)
  /\ ret' = Some("remove", i, items[i + 1])
  /\ HandOver(items[i + 1])

(* A read leaves the sequence as it is: `get`, and `[]` of an array.       *)
SRead(op, i) ==
  /\ Within(i, Len(items))
  /\ ret' = Some(op, i, items[i + 1])
  /\ UNCHANGED <<items, held>>

(* An index outside the sequence is refused, each call in its own way; the  *)
(* caller may lose the element that a refused insert was given.             *)
SRefuse(op, i, t) ==
  /\ ~Within(i, Len(items) + IF op = "insert" THEN 1 ELSE 0)
  /\ <<op, t>> \in {<<"get", "none">>, <<"remove", "none">>, <<"insert", "err">>, <<"index", "trap">>}
  /\ ret' = Answer(op, i, t)
  /\ \/ held' = held
     \/ op = "insert" /\ owning /\ \E e \in held : held' = held \ {e}
  /\ UNCHANGED items

SEmpty(op) == items' = <<>> /\ ret' = Done(op) /\ UNCHANGED held

SReverse == items' = Reverse(items) /\ ret' = Done("reverse") /\ UNCHANGED held

SFill(e) ==
  /\ items' = [i \in DOMAIN items |-> e]
  /\ ret' = Done("fill")
  /\ UNCHANGED held

(* Capacity calls and the caller dropping what it was handed.              *)
SKeep(op) == ret' = Done(op) /\ UNCHANGED <<items, held>>
SDrop(e) == held' = held \ {e} /\ UNCHANGED <<items, ret>>

SCall ==
  \/ \E e \in Elems : SAppend(e) \/ SFill(e) \/ SDrop(e)
  \/ \E i \in Indexes, e \in Elems : SInsertAt(i, e)
  \/ \E i \in Indexes : SRemoveAt(i) \/ SRead("get", i) \/ SRead("index", i)
  \/ \E i \in Indexes, op \in {"get", "remove", "insert", "index"},
        t \in {"none", "err", "trap"} : SRefuse(op, i, t)
  \/ \E op \in {"clear", "free", "destroy"} : SEmpty(op)
  \/ \E op \in {"reserve", "shrink"} : SKeep(op)
  \/ STakeLast \/ SReverse

SNext == SCall /\ UNCHANGED owning

SSpec == SInit /\ [][SNext]_<<owning, items, held, ret>>
=============================================================================
