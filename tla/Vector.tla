------------------------------- MODULE Vector -------------------------------
(***************************************************************************)
(* lib/data-struct/vector.c: arrays that double their room.  The sorted    *)
(* combiner keeps one for each thread, appends them to the first and sorts *)
(* it.  Every call runs under the vector's mutex, append under both, and   *)
(* looks at the source's size once before it has either.                   *)
(***************************************************************************)
EXTENDS Integers, Sequences, SequencesExt, FiniteSetsExt

CONSTANTS
  Ids,           \* the vectors; the least is the destination of append
  Values,        \* what is stored, ordered as the comparison function does
  StartSize,     \* max_size of a new vector (128)
  ElementSize,   \* the size of an element in bytes
  SortSizes,     \* the sizes at which the program sorts
  MaxElements    \* bound: elements in all vectors

VARIABLES
  vec,       \* max_size, size and elements of each; slots past size hold anything
  stored     \* the items the callers expect in each vector

vars == <<vec, stored>>

INSTANCE VectorOps WITH Garbage <- 0, Less <- LAMBDA a, b : a < b

Dest == Min(Ids)

Init == vec = [v \in Ids |-> New] /\ stored = [v \in Ids |-> <<>>]

-----------------------------------------------------------------------------
Count == FoldSet(LAMBDA v, n : n + vec[v].size, 0, Ids)

PushBack(v) ==
  \E d \in Values :
    /\ Count < MaxElements
    /\ vec' = [vec EXCEPT ![v] = libtrace_vector_push_back(@, d)]
    /\ stored' = [stored EXCEPT ![v] = Append(@, d)]

AppendTo(v) ==
  LET r == libtrace_vector_append(vec[Dest], vec[v]) IN
    /\ v # Dest
    /\ vec' = [vec EXCEPT ![Dest] = r[1], ![v] = r[2]]
    /\ stored' = [stored EXCEPT ![Dest] = @ \o stored[v], ![v] = <<>>]

RemoveFront(v) ==
  /\ vec[v].size # 0
  /\ vec' = [vec EXCEPT ![v] = libtrace_vector_remove_front(@)]
  /\ stored' = [stored EXCEPT ![v] = Tail(@)]

libtrace_vector_empty(v) ==
  /\ vec' = [vec EXCEPT ![v].size = 0]
  /\ stored' = [stored EXCEPT ![v] = <<>>]

Sort ==
  /\ vec[Dest].size \in SortSizes
  /\ vec' = [vec EXCEPT ![Dest] = libtrace_vector_qsort(@)]
  /\ stored' = [stored EXCEPT ![Dest] = InOrder(@)]

Next == Sort \/ \E v \in Ids : PushBack(v) \/ AppendTo(v) \/ RemoveFront(v) \/ libtrace_vector_empty(v)

Spec == Init /\ [][Next]_vars

-----------------------------------------------------------------------------
TypeOK ==
  \A v \in Ids : /\ vec[v].size \in 0 .. MaxElements
                 /\ DOMAIN vec[v].elements = 1 .. vec[v].max_size

\* Through growth, appending and removal a vector holds the items put into it,
\* in order (after a sort, in ascending order), and never more than it has
\* room for.
HoldsItems == \A v \in Ids : vec[v].size <= vec[v].max_size /\ Items(vec[v]) = stored[v]
=============================================================================
