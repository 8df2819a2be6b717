---------------------------- MODULE LinkedLists ----------------------------
(***************************************************************************)
(* The two doubly linked lists of lib/data-struct: the deque, whose calls  *)
(* run under a mutex (deque.c; results wait in it for the reporter), and   *)
(* the plain list (linked_list.c; the streams of a format, the nodes of a  *)
(* bucket).  A node is a cell with two links, and every call relinks cells *)
(* as the code does; content is the sequence the caller has in mind.       *)
(***************************************************************************)
EXTENDS Integers, Sequences, SequencesExt, FiniteSets

CONSTANTS
  Nodes,     \* bound: the cells that may be allocated at once
  Items,     \* what is stored
  NULL       \* not one of Nodes

VARIABLES
  kind,      \* which of the two lists this is
  list,      \* head, tail and size
  cell,      \* the allocated cells: next, prev, data
  content    \* the items a caller expects, first to last

vars == <<kind, list, cell, content>>

Free == Nodes \ DOMAIN cell
Cells == [next : Nodes \cup {NULL}, prev : Nodes \cup {NULL}, data : Items]

Init ==
  /\ kind \in {"deque", "list"}
  /\ list = [head |-> NULL, tail |-> NULL, size |-> 0]
  /\ cell = <<>> /\ content = <<>>

-----------------------------------------------------------------------------
(* Each call is an operator from a list [l: head, tail, size; c: cells] to *)
(* the list afterwards.                                                    *)

With(c, n, v) == [m \in DOMAIN c \cup {n} |-> IF m = n THEN v ELSE c[m]]
Without(c, n) == [m \in DOMAIN c \ {n} |-> c[m]]

libtrace_deque_push_back(l, c, n, d) ==
  IF l.head = NULL
  THEN [l |-> [head |-> n, tail |-> n, size |-> l.size + 1],
        c |-> With(c, n, [next |-> NULL, prev |-> NULL, data |-> d])]
  ELSE [l |-> [l EXCEPT !.tail = n, !.size = @ + 1],
        c |-> With([c EXCEPT ![l.tail].next = n], n, [next |-> NULL, prev |-> l.tail, data |-> d])]

libtrace_deque_push_front(l, c, n, d) ==
  IF l.head = NULL
  THEN [l |-> [head |-> n, tail |-> n, size |-> l.size + 1],
        c |-> With(c, n, [next |-> NULL, prev |-> NULL, data |-> d])]
  ELSE [l |-> [l EXCEPT !.head = n, !.size = @ + 1],
        c |-> With([c EXCEPT ![l.head].prev = n], n, [next |-> l.head, prev |-> NULL, data |-> d])]

\* Mutant: the new head keeps its link to the cell that is freed.
libtrace_deque_pop_front_Dangling(l, c) ==
  LET n == l.head
      h == c[n].next
      cut == IF h = NULL THEN c ELSE [c EXCEPT ![h].prev = n]
  IN [l |-> [head |-> h, tail |-> IF l.size - 1 <= 1 THEN h ELSE l.tail, size |-> l.size - 1],
      c |-> Without(cut, n)]
\* One item or none is left: the other end is the same cell, or NULL.
libtrace_deque_pop_front(l, c) ==
  LET n == l.head
      h == c[n].next
      cut == IF h = NULL THEN c ELSE [c EXCEPT ![h].prev = NULL]
  IN [l |-> [head |-> h, tail |-> IF l.size - 1 <= 1 THEN h ELSE l.tail, size |-> l.size - 1],
      c |-> Without(cut, n)]

libtrace_deque_pop_tail(l, c) ==
  LET n == l.tail
      t == c[n].prev
      cut == IF t = NULL THEN c ELSE [c EXCEPT ![t].next = NULL]
  IN [l |-> [head |-> IF l.size - 1 <= 1 THEN t ELSE l.head, tail |-> t, size |-> l.size - 1],
      c |-> Without(cut, n)]

\* The plain list tests its tail where the deque tests its head.
libtrace_list_push_front(l, c, n, d) == libtrace_deque_push_front(l, c, n, d)
libtrace_list_push_back(l, c, n, d) ==
  IF l.tail = NULL
  THEN [l |-> [head |-> n, tail |-> n, size |-> l.size + 1],
        c |-> With(c, n, [next |-> NULL, prev |-> NULL, data |-> d])]
  ELSE [l |-> [l EXCEPT !.tail = n, !.size = @ + 1],
        c |-> With([c EXCEPT ![l.tail].next = n], n, [next |-> NULL, prev |-> l.tail, data |-> d])]
libtrace_list_pop_front(l, c) == libtrace_deque_pop_front(l, c)
libtrace_list_pop_back(l, c) == libtrace_deque_pop_tail(l, c)

\* The cell after i steps along the links named f.
Follow(c, from, f, i) ==
  LET at[k \in 0 .. i] == IF k = 0 THEN from
                          ELSE IF at[k - 1] = NULL THEN NULL ELSE c[at[k - 1]][f]
  IN at[i]

\* libtrace_list_get_index walks from the head.
libtrace_list_get_index(l, c, index) ==
  IF index >= l.size THEN NULL ELSE Follow(c, l.head, "next", index)

-----------------------------------------------------------------------------
Becomes(r) == list' = r.l /\ cell' = r.c

PushBack ==
  \E d \in Items : LET n == CHOOSE x \in Free : TRUE IN
    /\ Free # {}
    /\ Becomes(IF kind = "deque" THEN libtrace_deque_push_back(list, cell, n, d)
                                 ELSE libtrace_list_push_back(list, cell, n, d))
    /\ content' = Append(content, d)
    /\ UNCHANGED kind

PushFront ==
  \E d \in Items : LET n == CHOOSE x \in Free : TRUE IN
    /\ Free # {}
    /\ Becomes(IF kind = "deque" THEN libtrace_deque_push_front(list, cell, n, d)
                                 ELSE libtrace_list_push_front(list, cell, n, d))
    /\ content' = <<d>> \o content
    /\ UNCHANGED kind

\* A pop from an empty list returns 0.
PopFront ==
  /\ list.head # NULL
  /\ Becomes(IF kind = "deque" THEN libtrace_deque_pop_front(list, cell)
                               ELSE libtrace_list_pop_front(list, cell))
  /\ content' = Tail(content)
  /\ UNCHANGED kind

PopBack ==
  /\ list.tail # NULL
  /\ Becomes(IF kind = "deque" THEN libtrace_deque_pop_tail(list, cell)
                               ELSE libtrace_list_pop_back(list, cell))
  /\ content' = Front(content)
  /\ UNCHANGED kind

Next == PushBack \/ PushFront \/ PopFront \/ PopBack

Spec == Init /\ [][Next]_vars

-----------------------------------------------------------------------------
TypeOK ==
  /\ list.size \in 0 .. Cardinality(Nodes)
  /\ {list.head, list.tail} \subseteq DOMAIN cell \cup {NULL}
  /\ \A n \in DOMAIN cell : cell[n] \in Cells

\* Whatever calls were made, the links read forwards from the head and
\* backwards from the tail give the caller's items in order, by index too, the
\* size is their number, and no other cell is allocated.
IsSequence ==
  LET k == list.size
  IN /\ k = Len(content) /\ Cardinality(DOMAIN cell) = k
     /\ Follow(cell, list.head, "next", k) = NULL /\ Follow(cell, list.tail, "prev", k) = NULL
     /\ \A i \in 1 .. k :
          /\ libtrace_list_get_index(list, cell, i - 1) # NULL
          /\ cell[libtrace_list_get_index(list, cell, i - 1)].data = content[i]
          /\ cell[Follow(cell, list.tail, "prev", k - i)].data = content[i]
=============================================================================
