--------------------------- MODULE SlidingWindow ---------------------------
(***************************************************************************)
(* lib/data-struct/sliding_window.c: values that arrive in any order,      *)
(* numbered, are read in the order of their numbers.  Numbers are          *)
(* unsigned and wrap.                                                      *)
(***************************************************************************)
EXTENDS Integers, Sequences, FiniteSets

CONSTANTS
  WindowSize,   \* sw->size
  Width,        \* numbers are modulo 2^Width
  Contents,     \* what is written
  Empty         \* the NULL of an empty slot

VARIABLES
  window,       \* start, start_number, elements
  pending       \* what the callers have written and not read, by number

vars == <<window, pending>>

Modulus == 2 ^ Width
Numbers == 0 .. Modulus - 1

\* What libtrace_slidingwindow_init is given: there is a slot, numbers do not repeat inside a
\* window, and what is written is not NULL.
WindowFits == /\ WindowSize \in Nat \ {0} /\ Modulus \in Nat \ {0} /\ WindowSize <= Modulus
              /\ Empty \notin Contents

Init ==
  /\ \E n \in Numbers : window = [start |-> 0, start_number |-> n,
                                  elements |-> [i \in 0 .. WindowSize - 1 |-> Empty]]
  /\ pending = [n \in {} |-> Empty]

\* Mutant: a number behind the window is taken for one inside it.
Adjusted_Signed(number) ==
  IF number < window.start_number THEN window.start_number - number
  ELSE number - window.start_number
\* number - sw->start_number in uint64_t
Adjusted(number) == (number - window.start_number) % Modulus

\* A number outside the window is refused.
libtrace_slidingwindow_try_write(number, value) ==
  /\ Adjusted(number) < WindowSize
  /\ window' = [window EXCEPT !.elements[(Adjusted(number) + window.start) % WindowSize] = value]
  /\ pending' = [n \in DOMAIN pending \cup {number} |-> IF n = number THEN value ELSE pending[n]]

libtrace_slidingwindow_read_ready == window.elements[window.start] # Empty

libtrace_slidingwindow_try_read ==
  /\ libtrace_slidingwindow_read_ready
  /\ window' = [window EXCEPT !.elements[window.start] = Empty,
                              !.start_number = (@ + 1) % Modulus,
                              !.start = (@ + 1) % WindowSize]
  /\ pending' = [n \in DOMAIN pending \ {window.start_number} |-> pending[n]]

Next == \/ \E n \in Numbers, v \in Contents : libtrace_slidingwindow_try_write(n, v)
        \/ libtrace_slidingwindow_try_read

Spec == Init /\ [][Next]_vars

-----------------------------------------------------------------------------
TypeOK ==
  /\ window \in [start : 0 .. WindowSize - 1, start_number : Numbers,
                 elements : [0 .. WindowSize - 1 -> Contents \cup {Empty}]]
  /\ pending \in [DOMAIN pending -> Contents] /\ DOMAIN pending \subseteq Numbers

\* The slot that is read next holds the value written with the number that is
\* read next, also when numbers have wrapped, and so does every later one; and
\* what was accepted is in the window until it is read: nothing is read under
\* another number and nothing is lost.
InOrder ==
  /\ \A i \in 0 .. WindowSize - 1 :
       LET n == (window.start_number + i) % Modulus
           e == window.elements[(window.start + i) % WindowSize]
       IN e = IF n \in DOMAIN pending THEN pending[n] ELSE Empty
  /\ \A n \in DOMAIN pending : Adjusted(n) < WindowSize
=============================================================================
