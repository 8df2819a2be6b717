----------------------------- MODULE VectorOps -----------------------------
(***************************************************************************)
(* The calls of lib/data-struct/vector.c as operators: a vector is a       *)
(* record of max_size, size and an array, whose slots past size hold       *)
(* whatever was there before.                                              *)
(***************************************************************************)
EXTENDS Integers, Sequences, FiniteSets, FiniteSetsExt

CONSTANTS
  StartSize,     \* max_size of a new vector (128)
  ElementSize,   \* the size of an element in bytes
  Garbage,       \* what a slot holds that was never written
  Less(_, _)     \* the comparison function of a sort

\* The vector that items were pushed into, one after the other.
Doublings(n) == Min({k \in 0 .. n : StartSize * 2 ^ k >= n})
Pushed(items) ==
  LET room == StartSize * 2 ^ Doublings(Len(items))
  IN [max_size |-> room, size |-> Len(items),
      elements |-> items \o [i \in 1 .. room - Len(items) |-> Garbage]]
New == Pushed(<<>>)
Items(v) == SubSeq(v.elements, 1, v.size)

Resize(v, n) ==
  [v EXCEPT !.max_size = n, !.elements = @ \o [i \in 1 .. n - v.max_size |-> Garbage]]

\* The slots from a on are overwritten by items.
Overwrite(elements, a, items) ==
  SubSeq(elements, 1, a - 1) \o items \o SubSeq(elements, a + Len(items), Len(elements))

Put(v, items) ==
  [v EXCEPT !.size = @ + Len(items), !.elements = Overwrite(@, v.size + 1, items)]

libtrace_vector_push_back(v, d) ==
  Put(IF v.size >= v.max_size THEN Resize(v, 2 * v.max_size) ELSE v, <<d>>)

\* The least of max_size, 2 max_size, 4 max_size, ... with room for n more.
Doubled(v, n) == v.max_size * Min({2 ^ i : i \in {j \in 0 .. n : v.max_size * 2 ^ j - v.size >= n}})

\* Mutant: the room is doubled once.
libtrace_vector_append_Once(dest, src) ==
  IF src.size = 0 THEN <<dest, src>>
  ELSE LET room == IF dest.max_size - dest.size < src.size THEN 2 * dest.max_size ELSE dest.max_size
       IN <<Put(Resize(dest, room), Items(src)), [src EXCEPT !.size = 0]>>
\* An empty destination swaps its array with the source's.
libtrace_vector_append(dest, src) ==
  IF src.size = 0 THEN <<dest, src>>
  ELSE IF dest.size = 0 THEN <<src, dest>>
  ELSE <<Put(Resize(dest, Doubled(dest, src.size)), Items(src)), [src EXCEPT !.size = 0]>>

\* Every element moves down by one.
libtrace_vector_remove_front(v) ==
  [v EXCEPT !.size = @ - 1,
            !.elements = Overwrite(@, 1, SubSeq(@, 2, v.size))]

\* The sequence in ascending order: every element goes to the place its rank
\* gives it.
Rank(s, j) == Cardinality({k \in DOMAIN s : Less(s[k], s[j]) \/ (~Less(s[j], s[k]) /\ k <= j)})
InOrder(s) == [i \in DOMAIN s |-> s[CHOOSE j \in DOMAIN s : Rank(s, j) = i]]

\* qsort(v->elements, v->element_size, v->element_size, compar): the number of
\* elements sorted is the size of one, wherever the vector ends.
libtrace_vector_qsort(v) ==
  [v EXCEPT !.elements = Overwrite(@, 1, InOrder(SubSeq(@, 1, Min({ElementSize, v.max_size}))))]
=============================================================================
