------------------------ MODULE SlidingWindowProofs ------------------------
(* Every sliding window, of any size and with numbers of any width, reads   *)
(* what was written in the order of its numbers.                            *)
EXTENDS SlidingWindow, TLAPS

Inv == TypeOK /\ InOrder

-----------------------------------------------------------------------------
(* Arithmetic of numbers that wrap at m.                                    *)

\* A slot or a number is at one distance from the start.
LEMMA Distance ==
  ASSUME NEW m \in Nat \ {0}, NEW start \in 0 .. m - 1, NEW x \in 0 .. m - 1,
         NEW d, d = (x - start) % m
  PROVE  d \in 0 .. m - 1 /\ (start + d) % m = x
  BY SMT

\* ... and at that distance there is nothing else.
LEMMA OnlyOne ==
  ASSUME NEW m \in Nat \ {0}, NEW start \in 0 .. m - 1, NEW i \in 0 .. m - 1
  PROVE  /\ (start + i) % m \in 0 .. m - 1
         /\ (((start + i) % m) - start) % m = i
  BY SMT

\* When the start moves on, distances become smaller by one.
LEMMA MoveOn ==
  ASSUME NEW m \in Nat \ {0}, NEW start \in 0 .. m - 1, NEW x \in 0 .. m - 1, x # start,
         NEW next, next = (start + 1) % m
  PROVE  (x - next) % m = ((x - start) % m) - 1
  BY SMT

\* The i-th slot after the start has moved on is the one that was after it.
LEMMA NextSlot ==
  ASSUME NEW m \in Nat \ {0}, NEW start \in 0 .. m - 1, NEW i \in 0 .. m - 2
  PROVE  /\ (((start + 1) % m) + i) % m = (start + (i + 1)) % m
         /\ (start + (i + 1)) % m # start
  BY SMT

\* The last slot of the window that has moved on is the one that was read.
LEMMA LastSlot ==
  ASSUME NEW m \in Nat \ {0}, NEW start \in 0 .. m - 1
  PROVE  (((start + 1) % m) + (m - 1)) % m = start
  BY SMT

-----------------------------------------------------------------------------
(* What a step does.                                                        *)

\* What the invariant says of the variables one by one.
LEMMA Parts ==
  ASSUME WindowFits, Inv
  PROVE  /\ WindowSize \in Nat \ {0} /\ Modulus \in Nat \ {0} /\ WindowSize <= Modulus
         /\ window.start \in 0 .. WindowSize - 1
         /\ window.start_number \in 0 .. Modulus - 1
         /\ window.elements \in [0 .. WindowSize - 1 -> Contents \cup {Empty}]
         /\ window = [start |-> window.start, start_number |-> window.start_number,
                      elements |-> window.elements]
  BY Zenon DEF WindowFits, Inv, TypeOK, Numbers

\* An accepted write puts the value where its number is read.
LEMMA WriteKeeps ==
  ASSUME WindowFits, Inv, NEW number \in Numbers, NEW value \in Contents,
         libtrace_slidingwindow_try_write(number, value)
  PROVE  Inv'
<1> DEFINE slot(i) == (window.start + i) % WindowSize
           num(i) == (window.start_number + i) % Modulus
           d == Adjusted(number)
<1> USE Parts
<1>1. d \in 0 .. WindowSize - 1 /\ num(d) = number
  <2>1. d < WindowSize
    BY Zenon DEF libtrace_slidingwindow_try_write
  <2>2. d \in 0 .. Modulus - 1 /\ num(d) = number
    <3>1. d = (number - window.start_number) % Modulus
      BY Zenon DEF Adjusted
    <3> HIDE DEF d
    <3> QED  BY <3>1, Distance DEF Numbers
  <2> HIDE DEF d
  <2> QED  BY <2>1, <2>2
<1>2. /\ slot(d) \in 0 .. WindowSize - 1
      /\ window' = [window EXCEPT !.elements = [window.elements EXCEPT ![slot(d)] = value]]
      /\ pending' = [n \in DOMAIN pending \cup {number} |-> IF n = number THEN value ELSE pending[n]]
  <2>1. slot(d) \in 0 .. WindowSize - 1
    BY <1>1, OnlyOne, Zenon
  <2>2. d + window.start = window.start + d
    BY <1>1
  <2> HIDE DEF d
  <2> QED  BY <2>1, <2>2, Zenon DEF libtrace_slidingwindow_try_write, d
<1> HIDE DEF d
<1>3. TypeOK'
  BY <1>1, <1>2, Zenon DEF Inv, TypeOK
<1>4. ASSUME NEW i \in 0 .. WindowSize - 1
      PROVE  (window.elements[slot(i)] = IF num(i) \in DOMAIN pending THEN pending[num(i)] ELSE Empty)'
  <2>1. /\ i = d <=> slot(i) = slot(d)
        /\ slot(i) \in 0 .. WindowSize - 1
    <3>1. /\ (slot(i) - window.start) % WindowSize = i
          /\ (slot(d) - window.start) % WindowSize = d
          /\ slot(i) \in 0 .. WindowSize - 1
      BY <1>1, OnlyOne, Zenon
    <3> QED  BY <3>1, Zenon
  <2>2. i = d <=> num(i) = number
    <3>1. i \in 0 .. Modulus - 1 /\ d \in 0 .. Modulus - 1
      BY <1>1
    <3>2. (num(i) - window.start_number) % Modulus = i
      BY <3>1, OnlyOne, Zenon
    <3>3. (num(d) - window.start_number) % Modulus = d
      BY <3>1, OnlyOne, Zenon
    <3> QED  BY <3>2, <3>3, <1>1, Zenon
  <2>3. window.elements[slot(i)] = IF num(i) \in DOMAIN pending THEN pending[num(i)] ELSE Empty
    BY Zenon DEF Inv, InOrder
  <2>4. /\ window'.start = window.start /\ window'.start_number = window.start_number
        /\ window'.elements[slot(i)] = IF i = d THEN value ELSE window.elements[slot(i)]
    BY <1>2, <2>1, Zenon
  <2>5. window'.elements[slot(i)] = IF num(i) \in DOMAIN pending' THEN pending'[num(i)] ELSE Empty
    BY <1>2, <2>2, <2>3, <2>4, Zenon
  <2> QED  BY <2>4, <2>5, Zenon
<1>5. (\A n \in DOMAIN pending : Adjusted(n) < WindowSize)'
  <2>1. window'.start_number = window.start_number
    BY <1>2, Zenon
  <2>2. \A n \in DOMAIN pending : Adjusted(n) < WindowSize
    BY Zenon DEF Inv, InOrder
  <2>3. Adjusted(number) < WindowSize
    BY Zenon DEF libtrace_slidingwindow_try_write
  <2> QED  BY <1>2, <2>1, <2>2, <2>3, Zenon DEF Adjusted
<1> QED  BY <1>3, <1>4, <1>5, Zenon DEF Inv, InOrder

\* A read takes the value of the first number, and the window moves on by one.
LEMMA ReadKeeps ==
  ASSUME WindowFits, Inv, libtrace_slidingwindow_try_read
  PROVE  Inv'
<1> DEFINE slot(i) == (window.start + i) % WindowSize
           num(i) == (window.start_number + i) % Modulus
<1> USE Parts
<1>1. /\ window'.elements = [window.elements EXCEPT ![window.start] = Empty]
      /\ window'.start = (window.start + 1) % WindowSize
      /\ window'.start_number = (window.start_number + 1) % Modulus
      /\ window' = [start |-> window'.start, start_number |-> window'.start_number, elements |-> window'.elements]
      /\ pending' = [n \in DOMAIN pending \ {window.start_number} |-> pending[n]]
  BY Zenon DEF libtrace_slidingwindow_try_read
<1>2. TypeOK'
  <2>1. /\ (window.start + 1) % WindowSize \in 0 .. WindowSize - 1
        /\ (window.start_number + 1) % Modulus \in 0 .. Modulus - 1
    OBVIOUS
  <2>2. pending' \in [DOMAIN pending' -> Contents] /\ DOMAIN pending' \subseteq Numbers
    BY <1>1, Zenon DEF Inv, TypeOK
  <2> QED  BY <1>1, <2>1, <2>2 DEF TypeOK, Numbers
<1>3. ASSUME NEW i \in 0 .. WindowSize - 1
      PROVE  (window.elements[slot(i)] = IF num(i) \in DOMAIN pending THEN pending[num(i)] ELSE Empty)'
  <2> DEFINE slotAfter == (window'.start + i) % WindowSize
             numAfter == (window'.start_number + i) % Modulus
  <2> SUFFICES window'.elements[slotAfter] = IF numAfter \in DOMAIN pending' THEN pending'[numAfter] ELSE Empty
    BY Zenon
  <2>1. CASE i < WindowSize - 1
    <3>1. i + 1 \in 0 .. WindowSize - 1 /\ i \in 0 .. WindowSize - 2 /\ i \in 0 .. Modulus - 2
      BY <2>1
    <3>2. slotAfter = slot(i + 1) /\ slot(i + 1) # window.start
      BY <3>1, <1>1, NextSlot
    <3>3. numAfter = num(i + 1) /\ num(i + 1) # window.start_number
      BY <3>1, <1>1, NextSlot
    <3>4. slot(i + 1) \in 0 .. WindowSize - 1
      BY <3>1, OnlyOne, Zenon
    <3>5. window.elements[slot(i + 1)] =
            IF num(i + 1) \in DOMAIN pending THEN pending[num(i + 1)] ELSE Empty
      BY <3>1, Zenon DEF Inv, InOrder
    <3> HIDE DEF slot, num, slotAfter, numAfter
    <3> QED  BY <1>1, <3>2, <3>3, <3>4, <3>5, Zenon
  <2>2. CASE i = WindowSize - 1
    <3>1. slotAfter = window.start
      BY <2>2, <1>1, LastSlot, Zenon
    <3>2. window'.elements[slotAfter] = Empty
      BY <3>1, <1>1, Zenon
    <3>3. numAfter \notin DOMAIN pending'
      <4>1. CASE WindowSize = Modulus
        BY <4>1, <2>2, <1>1, LastSlot, Zenon
      <4>2. CASE WindowSize # Modulus
        <5>1. i \in 0 .. Modulus - 2 /\ i + 1 = WindowSize /\ WindowSize \in 0 .. Modulus - 1
          BY <4>2, <2>2
        <5>2. (((window.start_number + 1) % Modulus) + i) % Modulus
                = (window.start_number + (i + 1)) % Modulus
          BY <5>1, NextSlot
        <5>3. numAfter = (window.start_number + WindowSize) % Modulus
          BY <5>1, <5>2, <1>1, Zenon
        <5>4. (numAfter - window.start_number) % Modulus = WindowSize
          BY <5>1, <5>3, OnlyOne
        <5> QED  BY <5>4, <1>1 DEF Inv, InOrder, Adjusted
      <4> QED  BY <4>1, <4>2, Zenon
    <3> QED  BY <3>2, <3>3, Zenon
  <2> QED  BY <2>1, <2>2
<1>4. ASSUME NEW n \in DOMAIN pending'
      PROVE  Adjusted(n)' < WindowSize
  <2>1. n \in Numbers /\ n # window.start_number /\ Adjusted(n) < WindowSize
    BY <1>1, Zenon DEF Inv, TypeOK, InOrder
  <2>2. Adjusted(n)' = Adjusted(n) - 1
    <3>1. (n - window'.start_number) % Modulus = ((n - window.start_number) % Modulus) - 1
      BY <2>1, <1>1, MoveOn DEF Numbers
    <3> QED  BY <3>1, Zenon DEF Adjusted
  <2>3. (n - window.start_number) % Modulus \in 0 .. Modulus - 1
    BY <2>1, Distance, Zenon DEF Numbers
  <2>4. Adjusted(n) \in Int
    BY <2>3 DEF Adjusted
  <2> QED  BY <2>1, <2>2, <2>4
<1> QED  BY <1>2, <1>3, <1>4, Zenon DEF Inv, InOrder

-----------------------------------------------------------------------------
\* However many values are written, in whatever order, and however often the
\* numbers have wrapped: the slots of a sliding window hold exactly what was
\* written and not read, each under its own number, so that try_read returns
\* values in the order of their numbers.
THEOREM WindowReadsInOrder ==
  ASSUME WindowFits
  PROVE  Spec => []InOrder
<1>1. Init => Inv
  BY DEF WindowFits, Init, Inv, TypeOK, InOrder, Numbers
<1>2. Inv /\ [Next]_vars => Inv'
  <2>1. CASE UNCHANGED vars
    BY <2>1, Zenon DEF vars, Inv, TypeOK, InOrder, Adjusted
  <2> QED  BY <2>1, WriteKeeps, ReadKeeps, Zenon DEF Next
<1>3. Inv => InOrder
  BY Zenon DEF Inv
<1> QED  BY <1>1, <1>2, <1>3, PTL DEF Spec
=============================================================================
