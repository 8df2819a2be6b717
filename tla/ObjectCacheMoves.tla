------------------------- MODULE ObjectCacheMoves --------------------------
(***************************************************************************)
(* The inductive invariant of ObjectCache, lemmas about the moves of       *)
(* objects between the ring, a thread's cache and the arrays of a call,    *)
(* and the steps of libtrace_ocache_alloc that move them.                  *)
(***************************************************************************)
EXTENDS ObjectCache, TLAPS

(* The inductive invariant                                                 *)

Alloc == {"from_cache", "read_values", "read_cache", "reserve"}
Free == {"to_cache", "write_values", "write_cache"}
Labels == Alloc \cup Free \cup {"idle", "return", "unregister", "gone"}
Calls == [op : {"none", "alloc", "free", "unregister"}, nb : Nat, min : Nat, try : BOOLEAN,
          lo : Nat, need : Nat]

\* The types of the variables, with the bounds of the ring and of the caches.
Types ==
  /\ conf \in Configs
  /\ ring \in Seq(Objects) /\ Len(ring) <= conf.buffer_size
  /\ current_allocations \in Nat
  /\ thread_list \subseteq Threads
  /\ {spin, rlock, wlock} \subseteq Threads \cup {Nobody}
  /\ cache \in [Threads -> Seq(Objects)] /\ \A t \in Threads : Len(cache[t]) <= total
  /\ held \in [Threads -> Seq(Objects)] /\ values \in [Threads -> Seq(Objects)]
  /\ call \in [Threads -> Calls] /\ pc \in [Threads -> Labels]
  /\ destroyed \in BOOLEAN

\* What an alloc has got so far, and what it still waits for, reach its minimum
\* once no allocation can be tried any more.
AllocStage(t) ==
  LET c == call[t]
      got == Len(values[t])
  IN /\ c.op = "alloc" /\ c.min <= c.nb /\ got <= c.nb
     /\ pc[t] = "from_cache" /\ ~c.try => c.lo + got >= c.min
     /\ pc[t] = "read_values" /\ ~c.try => c.need + got >= c.min
     /\ pc[t] = "read_cache" /\ ~c.try => c.need + got + Len(cache[t]) >= c.min
     /\ pc[t] = "return" => got >= c.min

\* What a free still has to write is in the array that it writes.
FreeStage(t) ==
  LET c == call[t]
  IN /\ c.op = "free" /\ c.min <= c.nb /\ Len(values[t]) <= c.nb
     /\ pc[t] = "to_cache" => Len(values[t]) = c.nb /\ c.lo <= c.min
     /\ pc[t] = "write_values" => c.need <= Len(values[t])
     /\ pc[t] = "write_cache" => c.need <= Len(cache[t])

\* The stages of a thread's calls.
Stage(t) ==
  /\ pc[t] \in {"idle", "gone"} => call[t] = NoCall /\ values[t] = <<>>
  /\ pc[t] = "gone" => held[t] = <<>>
  /\ pc[t] \in Alloc => AllocStage(t)
  /\ pc[t] \in Free => FreeStage(t)
  /\ pc[t] = "return" => AllocStage(t) \/ FreeStage(t)
  /\ pc[t] = "unregister" => /\ held[t] = <<>> /\ values[t] = <<>>
                             /\ call[t].op = "unregister" /\ call[t].need = Len(cache[t])

\* A cache in use is on the list, where destroy finds it.
Listed(t) ==
  /\ pc[t] \in Alloc \cup Free \cup {"return"} => total = 0 \/ t \in thread_list
  /\ t \notin thread_list /\ pc[t] # "unregister" => cache[t] = <<>>

Stages == \A t \in Threads : Stage(t) /\ Listed(t)

\* Without a limit nothing is counted; after destroy nobody calls.
Ends ==
  /\ ~conf.limit_size => current_allocations = 0
  /\ destroyed => \A t \in Threads : pc[t] \in {"idle", "gone"} /\ held[t] = <<>>

Inv == Types /\ Stages /\ OnePlace /\ LimitKept /\ Ends /\ NothingLeaks

-----------------------------------------------------------------------------
(* Arithmetic and sequences                                                *)

\* The smaller of two numbers.
LEMMA MinOf ==
  ASSUME NEW a \in Int, NEW b \in Int
  PROVE  Min({a, b}) = IF a <= b THEN a ELSE b
BY DEF Min

\* The smaller of two natural numbers is no more than either.
LEMMA Least ==
  ASSUME NEW a \in Nat, NEW b \in Nat, NEW n, n = Min({a, b})
  PROVE  n \in Nat /\ n <= a /\ n <= b /\ n \in 0 .. a /\ n \in 0 .. b
BY DEF Min

\* The larger of two numbers.
LEMMA MaxOf ==
  ASSUME NEW a \in Int, NEW b \in Int
  PROVE  Max({a, b}) = IF a >= b THEN a ELSE b
BY DEF Max

\* The elements of a sequence, by their places.
LEMMA Elements ==
  ASSUME NEW s \in Seq(Objects)
  PROVE  /\ \A x : x \in Range(s) <=> \E i \in 1 .. Len(s) : x = s[i]
         /\ IsInjective(s) <=> \A i, j \in 1 .. Len(s) : s[i] = s[j] => i = j
<1>1. DOMAIN s = 1 .. Len(s)
  OBVIOUS
<1> QED BY <1>1, Zenon DEF Range, IsInjective

\* Two segments that make up a sequence without repetitions have no element in
\* common, and repeat none.
Parts(s, a, b) ==
  /\ a \in Seq(Objects) /\ b \in Seq(Objects)
  /\ IsInjective(a) /\ IsInjective(b)
  /\ Range(a) \cap Range(b) = {} /\ Range(a) \cup Range(b) = Range(s)

\* A sequence without repetitions is cut in two.
LEMMA Cut ==
  ASSUME NEW s \in Seq(Objects), IsInjective(s), NEW n \in 0 .. Len(s)
  PROVE  /\ Parts(s, Take(s, n), Drop(s, n))
         /\ Len(Take(s, n)) = n /\ Len(Drop(s, n)) = Len(s) - n
<1>1. /\ Take(s, n) \in Seq(Objects) /\ Len(Take(s, n)) = n
      /\ \A i \in 1 .. n : Take(s, n)[i] = s[i]
  BY DEF Take
<1>2. /\ Drop(s, n) \in Seq(Objects) /\ Len(Drop(s, n)) = Len(s) - n
      /\ \A i \in 1 .. Len(s) - n : Drop(s, n)[i] = s[n + i]
  BY DEF Drop
<1> HIDE DEF Take, Drop
<1>3. IsInjective(Take(s, n))
  BY <1>1, Elements
<1>4. IsInjective(Drop(s, n))
  <2> SUFFICES ASSUME NEW i \in 1 .. Len(s) - n, NEW j \in 1 .. Len(s) - n,
                      Drop(s, n)[i] = Drop(s, n)[j]
               PROVE  i = j
    BY <1>2, Elements, Zenon
  <2>1. n + i \in 1 .. Len(s) /\ n + j \in 1 .. Len(s) /\ s[n + i] = s[n + j]
    BY <1>2
  <2> QED BY <2>1, Elements
<1>5. ASSUME NEW x \in Range(Take(s, n)), x \in Range(Drop(s, n))
      PROVE  FALSE
  <2>1. PICK i \in 1 .. n : x = s[i]
    BY <1>1, Elements
  <2>2. PICK j \in 1 .. Len(s) - n : x = s[n + j]
    BY <1>2, <1>5, Elements
  <2>3. n + j \in 1 .. Len(s) /\ i \in 1 .. Len(s) /\ i # n + j
    OBVIOUS
  <2> QED BY <2>1, <2>2, <2>3, Elements, Zenon
<1>6. ASSUME NEW x \in Range(Take(s, n)) \cup Range(Drop(s, n))
      PROVE  x \in Range(s)
  <2>1. CASE x \in Range(Take(s, n))
    BY <2>1, <1>1, Elements
  <2>2. CASE x \in Range(Drop(s, n))
    <3>1. PICK j \in 1 .. Len(s) - n : x = s[n + j]
      <4>1. Drop(s, n) \in Seq(Objects)
        BY <1>2, Zenon
      <4>2. \E j \in 1 .. Len(Drop(s, n)) : x = Drop(s, n)[j]
        BY <4>1, <2>2, Elements, Zenon
      <4> QED BY <4>2, <1>2, Zenon
    <3>2. n + j \in 1 .. Len(s)
      OBVIOUS
    <3> QED BY <3>1, <3>2, Elements, Zenon
  <2> QED BY <2>1, <2>2, Zenon
<1>7. ASSUME NEW i \in 1 .. Len(s)
      PROVE  s[i] \in Range(Take(s, n)) \cup Range(Drop(s, n))
  <2>1. CASE i <= n
    BY <2>1, <1>1, Elements
  <2>2. CASE i > n
    <3>1. i - n \in 1 .. Len(s) - n /\ Drop(s, n)[i - n] = s[i]
      BY <2>2, <1>2
    <3> QED BY <3>1, <1>2, Elements, Zenon
  <2> QED BY <2>1, <2>2
<1>8. Range(s) \subseteq Range(Take(s, n)) \cup Range(Drop(s, n))
  BY <1>7, Elements
<1> QED BY <1>1, <1>2, <1>3, <1>4, <1>5, <1>6, <1>8, Zenon DEF Parts

\* The end of a cache, and what is below it.
LEMMA CutTop ==
  ASSUME NEW s \in Seq(Objects), IsInjective(s), NEW n \in 0 .. Len(s)
  PROVE  /\ Parts(s, Top(s, n), Take(s, Len(s) - n))
         /\ Len(Top(s, n)) = n /\ Len(Take(s, Len(s) - n)) = Len(s) - n
<1>1. Len(s) - n \in 0 .. Len(s) /\ Len(s) - (Len(s) - n) = n
  OBVIOUS
<1> QED BY <1>1, Cut DEF Top, Parts

\* Two sequences are joined.
LEMMA Joined ==
  ASSUME NEW s \in Seq(Objects), NEW r \in Seq(Objects)
  PROVE  /\ s \o r \in Seq(Objects) /\ Len(s \o r) = Len(s) + Len(r)
         /\ Range(s \o r) = Range(s) \cup Range(r)
         /\ IsInjective(s \o r) <=> IsInjective(s) /\ IsInjective(r) /\ Range(s) \cap Range(r) = {}
<1> DEFINE j == s \o r
<1>1. /\ j \in Seq(Objects) /\ Len(j) = Len(s) + Len(r)
      /\ \A i \in 1 .. Len(s) : j[i] = s[i]
      /\ \A i \in 1 .. Len(r) : j[Len(s) + i] = r[i]
  OBVIOUS
<1> HIDE DEF j
<1>2. Range(s) \subseteq Range(j) /\ Range(r) \subseteq Range(j)
  <2>1. \A i \in 1 .. Len(s) : i \in 1 .. Len(j)
    BY <1>1
  <2>2. \A i \in 1 .. Len(r) : Len(s) + i \in 1 .. Len(j)
    BY <1>1
  <2>3. \A i \in 1 .. Len(s) : s[i] \in Range(j)
    BY <1>1, <2>1, Elements, Zenon
  <2>4. \A i \in 1 .. Len(r) : r[i] \in Range(j)
    BY <1>1, <2>2, Elements, Zenon
  <2>5. ASSUME NEW x \in Range(s)
       PROVE  x \in Range(j)
    <3>1. PICK i \in 1 .. Len(s) : x = s[i]
      BY Elements, Zenon
    <3> QED BY <2>3, <3>1, Zenon
  <2>6. ASSUME NEW x \in Range(r)
       PROVE  x \in Range(j)
    <3>1. PICK i \in 1 .. Len(r) : x = r[i]
      BY Elements, Zenon
    <3> QED BY <2>4, <3>1, Zenon
  <2> QED BY <2>5, <2>6, Zenon
<1>3. ASSUME NEW i \in 1 .. Len(j)
      PROVE  \/ i \in 1 .. Len(s) /\ j[i] = s[i]
             \/ i - Len(s) \in 1 .. Len(r) /\ j[i] = r[i - Len(s)]
  <2>1. CASE i <= Len(s)
    BY <2>1, <1>1
  <2>2. CASE i > Len(s)
    <3>1. i - Len(s) \in 1 .. Len(r) /\ Len(s) + (i - Len(s)) = i
      BY <2>2, <1>1
    <3> QED BY <3>1, <1>1, Zenon
  <2> QED BY <2>1, <2>2, <1>1
<1>4. Range(j) \subseteq Range(s) \cup Range(r)
  <2>1. \A x \in Range(j) : \E i \in 1 .. Len(j) : x = j[i]
    <3>1. j \in Seq(Objects)
      BY <1>1, Zenon
    <3> QED BY <3>1, Elements, Zenon
  <2>2. \A i \in 1 .. Len(j) : j[i] \in Range(s) \cup Range(r)
    BY <1>3, Elements, Zenon
  <2> QED BY <2>1, <2>2, Zenon
<1>5. ASSUME IsInjective(j)
      PROVE  IsInjective(s) /\ IsInjective(r) /\ Range(s) \cap Range(r) = {}
  <2>1. \A x, y \in 1 .. Len(j) : j[x] = j[y] => x = y
    BY <1>5, <1>1, Elements, Zenon
  <2>2. \A x, y \in 1 .. Len(s) : s[x] = s[y] => x = y
    BY <2>1, <1>1
  <2>3. ASSUME NEW x \in 1 .. Len(r), NEW y \in 1 .. Len(r), r[x] = r[y]
        PROVE  x = y
    <3>1. Len(s) + x \in 1 .. Len(j) /\ Len(s) + y \in 1 .. Len(j)
      BY <1>1
    <3>2. Len(s) + x = Len(s) + y
      BY <3>1, <2>1, <2>3, <1>1, Zenon
    <3> QED BY <3>2
  <2>4. ASSUME NEW x \in 1 .. Len(s), NEW y \in 1 .. Len(r), s[x] = r[y]
        PROVE  FALSE
    <3>1. x \in 1 .. Len(j) /\ Len(s) + y \in 1 .. Len(j) /\ x # Len(s) + y
      BY <1>1
    <3> QED BY <3>1, <2>1, <2>4, <1>1, Zenon
  <2> QED BY <2>2, <2>3, <2>4, Elements
<1>6. ASSUME IsInjective(s), IsInjective(r), Range(s) \cap Range(r) = {}
      PROVE  IsInjective(j)
  <2> SUFFICES ASSUME NEW x \in 1 .. Len(j), NEW y \in 1 .. Len(j), j[x] = j[y]
               PROVE  x = y
    BY <1>1, Elements, Zenon
  <2>1. \A a \in 1 .. Len(s), b \in 1 .. Len(r) : s[a] # r[b]
    BY <1>6, Elements, Zenon
  <2>2. \A a, b \in 1 .. Len(s) : s[a] = s[b] => a = b
    BY <1>6, Elements, Zenon
  <2>3. \A a, b \in 1 .. Len(r) : r[a] = r[b] => a = b
    BY <1>6, Elements, Zenon
  <2>4. CASE x \in 1 .. Len(s) /\ j[x] = s[x]
    BY <2>4, <2>1, <2>2, <1>3, Zenon
  <2>5. CASE x - Len(s) \in 1 .. Len(r) /\ j[x] = r[x - Len(s)]
    <3>1. CASE y \in 1 .. Len(s) /\ j[y] = s[y]
      BY <2>5, <3>1, <2>1, Zenon
    <3>2. CASE y - Len(s) \in 1 .. Len(r) /\ j[y] = r[y - Len(s)]
      <4>1. x - Len(s) = y - Len(s)
        BY <2>5, <3>2, <2>3, Zenon
      <4> QED BY <4>1
    <3> QED BY <3>1, <3>2, <1>3, Zenon
  <2> QED BY <2>4, <2>5, <1>3, Zenon
<1> QED BY <1>1, <1>2, <1>4, <1>5, <1>6, Zenon DEF j

\* The empty sequence.
LEMMA NoElements ==
  ASSUME NEW s \in Seq(Objects), s = <<>>
  PROVE  Len(s) = 0 /\ Range(s) = {} /\ IsInjective(s)
<1>1. Len(s) = 0 /\ DOMAIN s = {}
  OBVIOUS
<1>2. Range(s) = {} /\ IsInjective(s)
  BY <1>1, Zenon DEF Range, IsInjective
<1> QED BY <1>1, <1>2, Zenon

-----------------------------------------------------------------------------
(* Objects move                                                            *)

\* Four places that share no object and repeat none.
Separate(r, c, h, v) ==
  /\ IsInjective(r) /\ IsInjective(c) /\ IsInjective(h) /\ IsInjective(v)
  /\ Range(r) \cap Range(c) = {} /\ Range(r) \cap Range(h) = {} /\ Range(r) \cap Range(v) = {}
  /\ Range(c) \cap Range(h) = {} /\ Range(c) \cap Range(v) = {} /\ Range(h) \cap Range(v) = {}

\* One after the other they are a sequence without repetitions.
LEMMA Separated ==
  ASSUME NEW r \in Seq(Objects), NEW c \in Seq(Objects),
         NEW h \in Seq(Objects), NEW v \in Seq(Objects)
  PROVE  IsInjective(r \o c \o h \o v) <=> Separate(r, c, h, v)
<1>1. /\ r \o c \in Seq(Objects) /\ Range(r \o c) = Range(r) \cup Range(c)
      /\ IsInjective(r \o c) <=> IsInjective(r) /\ IsInjective(c) /\ Range(r) \cap Range(c) = {}
  BY Joined, Zenon
<1> DEFINE rc == r \o c
<1>2. /\ rc \o h \in Seq(Objects) /\ Range(rc \o h) = Range(rc) \cup Range(h)
      /\ IsInjective(rc \o h) <=> IsInjective(rc) /\ IsInjective(h) /\ Range(rc) \cap Range(h) = {}
  BY <1>1, Joined, Zenon
<1> DEFINE rch == rc \o h
<1>3. IsInjective(rch \o v) <=> IsInjective(rch) /\ IsInjective(v) /\ Range(rch) \cap Range(v) = {}
  BY <1>2, Joined, Zenon
<1> HIDE DEF rc, rch
<1>4. IsInjective(rch \o v) <=> Separate(r, c, h, v)
  BY <1>1, <1>2, <1>3, Zenon DEF Separate, rc, rch
<1> QED BY <1>4, Zenon DEF rc, rch

All(r, c, h, v) == Range(r) \cup Range(c) \cup Range(h) \cup Range(v)

\* Four arrays of objects, as the code may leave them.
Good(r, c, h, v) ==
  /\ r \in Seq(Objects) /\ c \in Seq(Objects) /\ h \in Seq(Objects) /\ v \in Seq(Objects)
  /\ Separate(r, c, h, v)

\* What the first four held, the second four hold.
Passed(r, c, h, v, r1, c1, h1, v1) ==
  Good(r1, c1, h1, v1) /\ All(r1, c1, h1, v1) = All(r, c, h, v)

\* A part of one place goes to the end of another.
LEMMA Shift ==
  ASSUME NEW w, NEW x, NEW y, NEW z, Good(w, x, y, z), NEW a, NEW b, Parts(w, a, b)
  PROVE  /\ Good(b, x \o a, y, z) /\ All(b, x \o a, y, z) = All(w, x, y, z)
         /\ Len(x \o a) = Len(x) + Len(a)
<1>1. a \in Seq(Objects) /\ x \in Seq(Objects)
  BY Zenon DEF Good, Parts
<1>2. Range(a) \cup Range(b) = Range(w) /\ Range(a) \cap Range(b) = {}
  BY Zenon DEF Parts
<1> DEFINE j == x \o a
<1>3. /\ j \in Seq(Objects) /\ Len(j) = Len(x) + Len(a) /\ Range(j) = Range(x) \cup Range(a)
      /\ IsInjective(j) <=> IsInjective(x) /\ IsInjective(a) /\ Range(x) \cap Range(a) = {}
  BY <1>1, Joined, Zenon
<1> HIDE DEF j
<1>4. IsInjective(j)
  BY <1>2, <1>3, Zenon DEF Good, Separate, Parts
<1>5. Range(b) \cap Range(j) = {} /\ Range(j) \cap Range(y) = {} /\ Range(j) \cap Range(z) = {}
  BY <1>2, <1>3, Zenon DEF Good, Separate
<1>6. Range(b) \cap Range(y) = {} /\ Range(b) \cap Range(z) = {}
  BY <1>2, Zenon DEF Good, Separate
<1>7. Good(b, j, y, z)
  BY <1>3, <1>4, <1>5, <1>6, Zenon DEF Good, Separate, Parts
<1>8. All(b, j, y, z) = All(w, x, y, z)
  BY <1>2, <1>3, Zenon DEF All
<1> QED BY <1>3, <1>7, <1>8, Zenon DEF j

\* Objects are read from the ring to the values.
LEMMA RingToValues ==
  ASSUME NEW r, NEW c, NEW h, NEW v, Good(r, c, h, v), NEW n \in 0 .. Len(r)
  PROVE  /\ Passed(r, c, h, v, Drop(r, n), c, h, v \o Take(r, n))
         /\ Len(v \o Take(r, n)) = Len(v) + n /\ Len(Drop(r, n)) = Len(r) - n
<1>1. /\ Good(r, v, c, h)
      /\ r \in Seq(Objects) /\ v \in Seq(Objects) /\ IsInjective(r)
  BY Zenon DEF Good, Separate
<1>2. /\ Parts(r, Take(r, n), Drop(r, n))
      /\ Len(Take(r, n)) = n /\ Len(Drop(r, n)) = Len(r) - n
  BY <1>1, Cut, Zenon
<1>3. /\ Good(Drop(r, n), v \o Take(r, n), c, h)
      /\ All(Drop(r, n), v \o Take(r, n), c, h) = All(r, v, c, h)
      /\ Len(v \o Take(r, n)) = Len(v) + Len(Take(r, n))
  BY <1>1, <1>2, Shift
<1>4. Good(Drop(r, n), c, h, v \o Take(r, n))
  BY <1>3, Zenon DEF Good, Separate
<1>5. All(Drop(r, n), c, h, v \o Take(r, n)) = All(r, c, h, v)
  BY <1>3, Zenon DEF All
<1> QED BY <1>2, <1>3, <1>4, <1>5, Zenon DEF Passed

\* Objects are read from the ring to the cache.
LEMMA RingToCache ==
  ASSUME NEW r, NEW c, NEW h, NEW v, Good(r, c, h, v), NEW n \in 0 .. Len(r)
  PROVE  /\ Passed(r, c, h, v, Drop(r, n), c \o Take(r, n), h, v)
         /\ Len(c \o Take(r, n)) = Len(c) + n /\ Len(Drop(r, n)) = Len(r) - n
<1>1. /\ Good(r, c, h, v)
      /\ r \in Seq(Objects) /\ c \in Seq(Objects) /\ IsInjective(r)
  BY Zenon DEF Good, Separate
<1>2. /\ Parts(r, Take(r, n), Drop(r, n))
      /\ Len(Take(r, n)) = n /\ Len(Drop(r, n)) = Len(r) - n
  BY <1>1, Cut, Zenon
<1>3. /\ Good(Drop(r, n), c \o Take(r, n), h, v)
      /\ All(Drop(r, n), c \o Take(r, n), h, v) = All(r, c, h, v)
      /\ Len(c \o Take(r, n)) = Len(c) + Len(Take(r, n))
  BY <1>1, <1>2, Shift
<1>4. Good(Drop(r, n), c \o Take(r, n), h, v)
  BY <1>3, Zenon DEF Good, Separate
<1>5. All(Drop(r, n), c \o Take(r, n), h, v) = All(r, c, h, v)
  BY <1>3, Zenon DEF All
<1> QED BY <1>2, <1>3, <1>4, <1>5, Zenon DEF Passed

\* Values are written to the ring.
LEMMA ValuesToRing ==
  ASSUME NEW r, NEW c, NEW h, NEW v, Good(r, c, h, v), NEW n \in 0 .. Len(v)
  PROVE  /\ Passed(r, c, h, v, r \o Take(v, n), c, h, Drop(v, n))
         /\ Len(r \o Take(v, n)) = Len(r) + n /\ Len(Drop(v, n)) = Len(v) - n
<1>1. /\ Good(v, r, c, h)
      /\ v \in Seq(Objects) /\ r \in Seq(Objects) /\ IsInjective(v)
  BY Zenon DEF Good, Separate
<1>2. /\ Parts(v, Take(v, n), Drop(v, n))
      /\ Len(Take(v, n)) = n /\ Len(Drop(v, n)) = Len(v) - n
  BY <1>1, Cut, Zenon
<1>3. /\ Good(Drop(v, n), r \o Take(v, n), c, h)
      /\ All(Drop(v, n), r \o Take(v, n), c, h) = All(v, r, c, h)
      /\ Len(r \o Take(v, n)) = Len(r) + Len(Take(v, n))
  BY <1>1, <1>2, Shift
<1>4. Good(r \o Take(v, n), c, h, Drop(v, n))
  BY <1>3, Zenon DEF Good, Separate
<1>5. All(r \o Take(v, n), c, h, Drop(v, n)) = All(r, c, h, v)
  BY <1>3, Zenon DEF All
<1> QED BY <1>2, <1>3, <1>4, <1>5, Zenon DEF Passed

\* Cached objects are written to the ring.
LEMMA CacheToRing ==
  ASSUME NEW r, NEW c, NEW h, NEW v, Good(r, c, h, v), NEW n \in 0 .. Len(c)
  PROVE  /\ Passed(r, c, h, v, r \o Take(c, n), Drop(c, n), h, v)
         /\ Len(r \o Take(c, n)) = Len(r) + n /\ Len(Drop(c, n)) = Len(c) - n
<1>1. /\ Good(c, r, h, v)
      /\ c \in Seq(Objects) /\ r \in Seq(Objects) /\ IsInjective(c)
  BY Zenon DEF Good, Separate
<1>2. /\ Parts(c, Take(c, n), Drop(c, n))
      /\ Len(Take(c, n)) = n /\ Len(Drop(c, n)) = Len(c) - n
  BY <1>1, Cut, Zenon
<1>3. /\ Good(Drop(c, n), r \o Take(c, n), h, v)
      /\ All(Drop(c, n), r \o Take(c, n), h, v) = All(c, r, h, v)
      /\ Len(r \o Take(c, n)) = Len(r) + Len(Take(c, n))
  BY <1>1, <1>2, Shift
<1>4. Good(r \o Take(c, n), Drop(c, n), h, v)
  BY <1>3, Zenon DEF Good, Separate
<1>5. All(r \o Take(c, n), Drop(c, n), h, v) = All(r, c, h, v)
  BY <1>3, Zenon DEF All
<1> QED BY <1>2, <1>3, <1>4, <1>5, Zenon DEF Passed

\* Values go to the end of the cache.
LEMMA ValuesToCache ==
  ASSUME NEW r, NEW c, NEW h, NEW v, Good(r, c, h, v), NEW n \in 0 .. Len(v)
  PROVE  /\ Passed(r, c, h, v, r, c \o Take(v, n), h, Drop(v, n))
         /\ Len(c \o Take(v, n)) = Len(c) + n /\ Len(Drop(v, n)) = Len(v) - n
<1>1. /\ Good(v, c, r, h)
      /\ v \in Seq(Objects) /\ c \in Seq(Objects) /\ IsInjective(v)
  BY Zenon DEF Good, Separate
<1>2. /\ Parts(v, Take(v, n), Drop(v, n))
      /\ Len(Take(v, n)) = n /\ Len(Drop(v, n)) = Len(v) - n
  BY <1>1, Cut, Zenon
<1>3. /\ Good(Drop(v, n), c \o Take(v, n), r, h)
      /\ All(Drop(v, n), c \o Take(v, n), r, h) = All(v, c, r, h)
      /\ Len(c \o Take(v, n)) = Len(c) + Len(Take(v, n))
  BY <1>1, <1>2, Shift
<1>4. Good(r, c \o Take(v, n), h, Drop(v, n))
  BY <1>3, Zenon DEF Good, Separate
<1>5. All(r, c \o Take(v, n), h, Drop(v, n)) = All(r, c, h, v)
  BY <1>3, Zenon DEF All
<1> QED BY <1>2, <1>3, <1>4, <1>5, Zenon DEF Passed

\* The end of the cache goes to the values.
LEMMA CacheToValues ==
  ASSUME NEW r, NEW c, NEW h, NEW v, Good(r, c, h, v), NEW n \in 0 .. Len(c)
  PROVE  /\ Passed(r, c, h, v, r, Take(c, Len(c) - n), h, v \o Top(c, n))
         /\ Len(v \o Top(c, n)) = Len(v) + n /\ Len(Take(c, Len(c) - n)) = Len(c) - n
<1>1. /\ Good(c, v, r, h)
      /\ c \in Seq(Objects) /\ v \in Seq(Objects) /\ IsInjective(c)
  BY Zenon DEF Good, Separate
<1>2. /\ Parts(c, Top(c, n), Take(c, Len(c) - n))
      /\ Len(Top(c, n)) = n /\ Len(Take(c, Len(c) - n)) = Len(c) - n
  BY <1>1, CutTop, Zenon
<1>3. /\ Good(Take(c, Len(c) - n), v \o Top(c, n), r, h)
      /\ All(Take(c, Len(c) - n), v \o Top(c, n), r, h) = All(c, v, r, h)
      /\ Len(v \o Top(c, n)) = Len(v) + Len(Top(c, n))
  BY <1>1, <1>2, Shift
<1>4. Good(r, Take(c, Len(c) - n), h, v \o Top(c, n))
  BY <1>3, Zenon DEF Good, Separate
<1>5. All(r, Take(c, Len(c) - n), h, v \o Top(c, n)) = All(r, c, h, v)
  BY <1>3, Zenon DEF All
<1> QED BY <1>2, <1>3, <1>4, <1>5, Zenon DEF Passed

\* The program passes some of its objects.
LEMMA HeldToValues ==
  ASSUME NEW r, NEW c, NEW h, NEW v, Good(r, c, h, v), NEW n \in 0 .. Len(h)
  PROVE  /\ Passed(r, c, h, v, r, c, Drop(h, n), v \o Take(h, n))
         /\ Len(v \o Take(h, n)) = Len(v) + n /\ Len(Drop(h, n)) = Len(h) - n
<1>1. /\ Good(h, v, r, c)
      /\ h \in Seq(Objects) /\ v \in Seq(Objects) /\ IsInjective(h)
  BY Zenon DEF Good, Separate
<1>2. /\ Parts(h, Take(h, n), Drop(h, n))
      /\ Len(Take(h, n)) = n /\ Len(Drop(h, n)) = Len(h) - n
  BY <1>1, Cut, Zenon
<1>3. /\ Good(Drop(h, n), v \o Take(h, n), r, c)
      /\ All(Drop(h, n), v \o Take(h, n), r, c) = All(h, v, r, c)
      /\ Len(v \o Take(h, n)) = Len(v) + Len(Take(h, n))
  BY <1>1, <1>2, Shift
<1>4. Good(r, c, Drop(h, n), v \o Take(h, n))
  BY <1>3, Zenon DEF Good, Separate
<1>5. All(r, c, Drop(h, n), v \o Take(h, n)) = All(r, c, h, v)
  BY <1>3, Zenon DEF All
<1> QED BY <1>2, <1>3, <1>4, <1>5, Zenon DEF Passed

\* All of a sequence is a part of it.
LEMMA Whole ==
  ASSUME NEW s \in Seq(Objects), IsInjective(s)
  PROVE  Parts(s, s, <<>>)
<1>1. <<>> \in Seq(Objects)
  OBVIOUS
<1>2. Range(<<>>) = {} /\ IsInjective(<<>>)
  BY <1>1, NoElements, Zenon
<1> QED BY <1>1, <1>2, Zenon DEF Parts

\* The cache is emptied into the values.
LEMMA CacheAllToValues ==
  ASSUME NEW r, NEW c, NEW h, NEW v, Good(r, c, h, v)
  PROVE  /\ Passed(r, c, h, v, r, <<>>, h, v \o c)
         /\ Len(v \o c) = Len(v) + Len(c)
<1>1. /\ Good(c, v, r, h)
      /\ c \in Seq(Objects) /\ IsInjective(c)
  BY Zenon DEF Good, Separate
<1>2. /\ Good(<<>>, v \o c, r, h)
      /\ All(<<>>, v \o c, r, h) = All(c, v, r, h)
      /\ Len(v \o c) = Len(v) + Len(c)
  BY <1>1, Whole, Shift
<1>3. Good(r, <<>>, h, v \o c)
  BY <1>2, Zenon DEF Good, Separate
<1>4. All(r, <<>>, h, v \o c) = All(r, c, h, v)
  BY <1>2, Zenon DEF All
<1> QED BY <1>2, <1>3, <1>4, Zenon DEF Passed

\* The values all find room in the cache.
LEMMA ValuesAllToCache ==
  ASSUME NEW r, NEW c, NEW h, NEW v, Good(r, c, h, v)
  PROVE  /\ Passed(r, c, h, v, r, c \o v, h, <<>>)
         /\ Len(c \o v) = Len(c) + Len(v)
<1>1. /\ Good(v, c, r, h)
      /\ v \in Seq(Objects) /\ IsInjective(v)
  BY Zenon DEF Good, Separate
<1>2. /\ Good(<<>>, c \o v, r, h)
      /\ All(<<>>, c \o v, r, h) = All(v, c, r, h)
      /\ Len(c \o v) = Len(c) + Len(v)
  BY <1>1, Whole, Shift
<1>3. Good(r, c \o v, h, <<>>)
  BY <1>2, Zenon DEF Good, Separate
<1>4. All(r, c \o v, h, <<>>) = All(r, c, h, v)
  BY <1>2, Zenon DEF All
<1> QED BY <1>2, <1>3, <1>4, Zenon DEF Passed

\* The cache is emptied into the ring.
LEMMA CacheAllToRing ==
  ASSUME NEW r, NEW c, NEW h, NEW v, Good(r, c, h, v)
  PROVE  /\ Passed(r, c, h, v, r \o c, <<>>, h, v)
         /\ Len(r \o c) = Len(r) + Len(c)
<1>1. /\ Good(c, r, h, v)
      /\ c \in Seq(Objects) /\ IsInjective(c)
  BY Zenon DEF Good, Separate
<1>2. /\ Good(<<>>, r \o c, h, v)
      /\ All(<<>>, r \o c, h, v) = All(c, r, h, v)
      /\ Len(r \o c) = Len(r) + Len(c)
  BY <1>1, Whole, Shift
<1>3. Good(r \o c, <<>>, h, v)
  BY <1>2, Zenon DEF Good, Separate
<1>4. All(r \o c, <<>>, h, v) = All(r, c, h, v)
  BY <1>2, Zenon DEF All
<1> QED BY <1>2, <1>3, <1>4, Zenon DEF Passed

\* One move after the other.
LEMMA PassedOn ==
  ASSUME NEW r, NEW c, NEW h, NEW v, NEW r1, NEW c1, NEW h1, NEW v1, NEW r2, NEW c2, NEW h2, NEW v2,
         Passed(r, c, h, v, r1, c1, h1, v1), Passed(r1, c1, h1, v1, r2, c2, h2, v2)
  PROVE  Passed(r, c, h, v, r2, c2, h2, v2)
BY Zenon DEF Passed

\* "Try fill the remaining": the values get what the cache has, up to nb.
LEMMA Filled ==
  ASSUME NEW r, NEW c, NEW h, NEW v, Good(r, c, h, v), NEW nb \in Nat, Len(v) <= nb,
         NEW n, n = Min({Len(c), nb - Len(v)})
  PROVE  /\ Passed(r, c, h, v, r, Take(c, Len(c) - n), h, v \o Top(c, n))
         /\ Len(v \o Top(c, n)) = IF Len(v) + Len(c) <= nb THEN Len(v) + Len(c) ELSE nb
         /\ Len(Take(c, Len(c) - n)) <= Len(c)
<1>1. Len(c) \in Nat /\ Len(v) \in Nat
  BY DEF Good
<1>2. n = IF Len(c) <= nb - Len(v) THEN Len(c) ELSE nb - Len(v)
  BY <1>1, MinOf
<1>3. n \in 0 .. Len(c)
  BY <1>1, <1>2
<1>4. /\ Passed(r, c, h, v, r, Take(c, Len(c) - n), h, v \o Top(c, n))
      /\ Len(v \o Top(c, n)) = Len(v) + n /\ Len(Take(c, Len(c) - n)) = Len(c) - n
  BY <1>3, CacheToValues
<1> QED BY <1>1, <1>2, <1>4

\* "Try empty the remaining": the cache, of a size m, gets what it has room for.
LEMMA Stowed ==
  ASSUME NEW r, NEW c, NEW h, NEW v, Good(r, c, h, v), NEW m \in Nat, Len(c) <= m,
         NEW n, n = Min({m - Len(c), Len(v)})
  PROVE  /\ Passed(r, c, h, v, r, c \o Take(v, n), h, Drop(v, n))
         /\ Len(c \o Take(v, n)) <= m /\ Len(Drop(v, n)) <= Len(v)
<1>1. Len(c) \in Nat /\ Len(v) \in Nat
  BY DEF Good
<1>2. n = IF m - Len(c) <= Len(v) THEN m - Len(c) ELSE Len(v)
  BY <1>1, MinOf
<1>3. n \in 0 .. Len(v)
  BY <1>1, <1>2
<1>4. /\ Passed(r, c, h, v, r, c \o Take(v, n), h, Drop(v, n))
      /\ Len(c \o Take(v, n)) = Len(c) + n /\ Len(Drop(v, n)) = Len(v) - n
  BY <1>3, ValuesToCache
<1> QED BY <1>1, <1>2, <1>4

\* The program gets the values, but for those that are freed.
LEMMA ValuesToHeld ==
  ASSUME NEW r, NEW c, NEW h, NEW v, Good(r, c, h, v), NEW n \in 0 .. Len(v)
  PROVE  /\ Good(r, c, h \o Drop(v, n), <<>>)
         /\ All(r, c, h \o Drop(v, n), <<>>) \subseteq All(r, c, h, v)
         /\ n = 0 => All(r, c, h \o Drop(v, n), <<>>) = All(r, c, h, v)
<1>1. v \in Seq(Objects) /\ h \in Seq(Objects) /\ IsInjective(v)
  BY Zenon DEF Good, Separate
<1> DEFINE d == Drop(v, n)
<1>2. d \in Seq(Objects) /\ IsInjective(d) /\ Range(d) \subseteq Range(v)
  <2>1. Parts(v, Take(v, n), Drop(v, n))
    BY <1>1, Cut, Zenon
  <2> QED BY <2>1, Zenon DEF Parts
<1>3. n = 0 => d = v
  BY <1>1 DEF Drop
<1> HIDE DEF d
<1>4. Good(d, h, r, c)
  BY <1>2, Zenon DEF Good, Separate
<1>5. /\ Good(<<>>, h \o d, r, c) /\ All(<<>>, h \o d, r, c) = All(d, h, r, c)
  BY <1>2, <1>4, Whole, Shift
<1>6. Good(r, c, h \o d, <<>>)
  BY <1>5, Zenon DEF Good, Separate
<1>7. All(r, c, h \o d, <<>>) = All(d, h, r, c)
  BY <1>5, Zenon DEF All
<1>8. All(d, h, r, c) \subseteq All(r, c, h, v)
  BY <1>2, Zenon DEF All
<1>9. n = 0 => All(d, h, r, c) = All(r, c, h, v)
  BY <1>3, Zenon DEF All
<1> QED BY <1>6, <1>7, <1>8, <1>9, Zenon DEF d

\* What is freed without a limit is gone: nothing else moves.
LEMMA CacheDropped ==
  ASSUME NEW r, NEW c, NEW h, NEW v, Good(r, c, h, v)
  PROVE  Good(r, <<>>, h, v) /\ All(r, <<>>, h, v) \subseteq All(r, c, h, v)
<1>1. <<>> \in Seq(Objects)
  OBVIOUS
<1>2. Range(<<>>) = {} /\ IsInjective(<<>>)
  BY <1>1, NoElements, Zenon
<1> QED BY <1>1, <1>2, Zenon DEF Good, Separate, All

\* What a thread and the ring have.
Held(t) == All(ring, cache[t], held[t], values[t])

\* A step of thread t that moves objects between the ring and its own arrays,
\* with the objects F that are new.  With a limit none disappears.
Moves(t, F) ==
  /\ Good(ring', cache'[t], held'[t], values'[t])
  /\ \A u \in Threads \ {t} : cache'[u] = cache[u] /\ held'[u] = held[u] /\ values'[u] = values[u]
  /\ Held(t)' \subseteq Held(t) \cup F
  /\ conf.limit_size => Held(t)' = Held(t) \cup F
  /\ conf' = conf

Sequences4 ==
  /\ ring \in Seq(Objects)
  /\ \A t \in Threads : /\ cache[t] \in Seq(Objects) /\ held[t] \in Seq(Objects)
                        /\ values[t] \in Seq(Objects)

\* The places of one thread are separate.
LEMMA OwnPlaces ==
  ASSUME Sequences4, OnePlace, NEW t \in Threads
  PROVE  Good(ring, cache[t], held[t], values[t])
<1>1. IsInjective(ring \o cache[t] \o held[t] \o values[t])
  BY Zenon DEF OnePlace
<1> QED BY <1>1, Separated, Zenon DEF Sequences4, Good

\* The objects that live, as the places of one thread and those of the others.
LEMMA LiveIs ==
  ASSUME NEW t \in Threads
  PROVE  Live = Held(t) \cup UNION {InUse(u) : u \in Threads \ {t}}
BY DEF Live, Held, All, InUse

\* A move leaves every object in one place, if the new ones were nowhere.
LEMMA MovedOnePlace ==
  ASSUME Sequences4, OnePlace, NEW t \in Threads, NEW F, F \cap Live = {}, Moves(t, F)
  PROVE  OnePlace'
<1>1. \A u \in Threads \ {t} : InUse(u)' = InUse(u)
  BY Zenon DEF Moves, InUse
<1>2. \A u \in Threads \ {t} : InUse(u) \cap Held(t)' = {}
  <2> SUFFICES ASSUME NEW u \in Threads \ {t}
               PROVE  InUse(u) \cap Held(t)' = {}
    BY Zenon
  <2>1. InUse(u) \cap InUse(t) = {}
    BY Zenon DEF OnePlace
  <2>2. InUse(u) \cap Range(ring) = {}
    BY OwnPlaces, Zenon DEF Good, Separate, InUse
  <2>3. InUse(u) \cap F = {}
    BY Zenon DEF Live
  <2>4. Held(t)' \subseteq Held(t) \cup F
    BY Zenon DEF Moves
  <2> QED BY <2>1, <2>2, <2>3, <2>4, Zenon DEF Held, All, InUse
<1>3. \A u, w \in Threads : u # w => InUse(u)' \cap InUse(w)' = {}
  <2>1. \A u \in Threads \ {t} : InUse(u)' \cap InUse(t)' = {}
    BY <1>1, <1>2, Zenon DEF Held, All, InUse
  <2>2. \A u, w \in Threads \ {t} : u # w => InUse(u)' \cap InUse(w)' = {}
    BY <1>1, Zenon DEF OnePlace
  <2> QED BY <2>1, <2>2, Zenon
<1>4. ASSUME NEW u \in Threads
      PROVE  Separate(ring', cache'[u], held'[u], values'[u])
  <2>1. CASE u = t
    BY <2>1, Zenon DEF Moves, Good
  <2>2. CASE u # t
    <3>1. Separate(ring, cache[u], held[u], values[u])
      BY OwnPlaces, Zenon DEF Good
    <3>2. InUse(u) \cap Range(ring') = {} /\ IsInjective(ring')
      BY <1>2, <2>2, Zenon DEF Held, All, Moves, Good, Separate
    <3>3. cache'[u] = cache[u] /\ held'[u] = held[u] /\ values'[u] = values[u]
      BY <2>2, Zenon DEF Moves
    <3> QED BY <3>1, <3>2, <3>3, Zenon DEF Separate, InUse
  <2> QED BY <2>1, <2>2, Zenon
<1>5. ASSUME NEW u \in Threads
      PROVE  IsInjective(ring' \o cache'[u] \o held'[u] \o values'[u])
  <2>1. /\ ring' \in Seq(Objects) /\ cache'[u] \in Seq(Objects)
        /\ held'[u] \in Seq(Objects) /\ values'[u] \in Seq(Objects)
    BY Zenon DEF Moves, Good, Sequences4
  <2> QED BY <1>4, <2>1, Separated, Zenon
<1> QED BY <1>3, <1>5, Zenon DEF OnePlace

\* With a limit the objects that live are those that did, and the new ones.
LEMMA MovedLive ==
  ASSUME conf.limit_size, NEW t \in Threads, NEW F, Moves(t, F)
  PROVE  Live' = Live \cup F
<1>1. \A u \in Threads \ {t} : InUse(u)' = InUse(u)
  BY Zenon DEF Moves, InUse
<1>2. Held(t)' = Held(t) \cup F
  BY Zenon DEF Moves
<1>3. UNION {InUse(u)' : u \in Threads \ {t}} = UNION {InUse(u) : u \in Threads \ {t}}
  BY <1>1, Zenon
<1>4. Live' = Held(t)' \cup UNION {InUse(u)' : u \in Threads \ {t}}
  BY DEF Live, Held, All, InUse
<1> QED BY <1>2, <1>3, <1>4, LiveIs, Zenon

-----------------------------------------------------------------------------
(* A turn of one thread                                                    *)

\* What the arguments of libtrace_ocache_init are.
LEMMA ConfFacts ==
  ASSUME conf \in Configs
  PROVE  /\ conf.buffer_size \in Nat \ {0} /\ conf.limit_size \in BOOLEAN
         /\ total \in Nat /\ conf.most \in Nat /\ conf.objects \in 0 .. Cardinality(Objects)
BY CacheAssumption, Zenon DEF total

\* The sequences that the types speak of.
LEMMA TypedSequences ==
  ASSUME Types
  PROVE  Sequences4
BY Zenon DEF Types, Sequences4

\* What a step of thread t leaves: its own objects moved, the other threads as
\* they were, and itself at a stage of its call.
Turn(t, F) ==
  /\ Moves(t, F)
  /\ Len(ring') <= conf.buffer_size /\ Len(cache'[t]) <= total
  /\ cache' \in [Threads -> Seq(Objects)] /\ held' \in [Threads -> Seq(Objects)]
  /\ values' \in [Threads -> Seq(Objects)]
  /\ call' \in [Threads -> Calls] /\ pc' \in [Threads -> Labels]
  /\ \A u \in Threads \ {t} : /\ call'[u] = call[u] /\ pc'[u] = pc[u]
                              /\ u \in thread_list' <=> u \in thread_list
  /\ thread_list' \subseteq Threads
  /\ {spin', rlock', wlock'} \subseteq Threads \cup {Nobody}
  /\ Stage(t)' /\ Listed(t)'
  /\ ~destroyed /\ ~destroyed' /\ destroyed' \in BOOLEAN

\* The other threads' stages are what they were.
LEMMA OthersStay ==
  ASSUME Types, Stages, NEW t \in Threads, NEW F, Turn(t, F)
  PROVE  Stages'
<1>1. ASSUME NEW u \in Threads \ {t}
      PROVE  Stage(u)' /\ Listed(u)'
  <2>1. /\ call'[u] = call[u] /\ pc'[u] = pc[u] /\ (u \in thread_list' <=> u \in thread_list)
        /\ cache'[u] = cache[u] /\ held'[u] = held[u] /\ values'[u] = values[u] /\ conf' = conf
    BY Zenon DEF Turn, Moves
  <2>2. Stage(u) /\ Listed(u)
    BY Zenon DEF Stages
  <2>3. Stage(u)'
    BY <2>1, <2>2, Zenon DEF Stage, AllocStage, FreeStage
  <2>4. Listed(u)'
    BY <2>1, <2>2, Zenon DEF Listed, total
  <2> QED BY <2>3, <2>4, Zenon
<1> QED BY <1>1, Zenon DEF Stages, Turn

\* A turn keeps the types.
LEMMA TurnTypes ==
  ASSUME Types, NEW t \in Threads, NEW F, Turn(t, F), current_allocations' \in Nat
  PROVE  Types'
<1>1. ASSUME NEW u \in Threads
      PROVE  Len(cache'[u]) <= total'
  BY Zenon DEF Turn, Moves, Types, total
<1>2. conf' = conf /\ ring' \in Seq(Objects)
  BY Zenon DEF Turn, Moves, Good
<1> QED BY <1>1, <1>2, Zenon DEF Types, Turn

\* A turn that allocates nothing keeps the invariant.
LEMMA TurnKeeps ==
  ASSUME Inv, NEW t \in Threads, Turn(t, {}), current_allocations' = current_allocations
  PROVE  Inv'
<1>1. Types'
  BY TurnTypes, Zenon DEF Inv, Types
<1>2. Stages'
  BY OthersStay, Zenon DEF Inv
<1>3. OnePlace'
  <2>1. {} \cap Live = {} /\ Moves(t, {})
    BY Zenon DEF Turn
  <2> QED BY <2>1, MovedOnePlace, TypedSequences, Zenon DEF Inv
<1>4. conf' = conf
  BY Zenon DEF Turn, Moves
<1>5. LimitKept'
  <2> SUFFICES ASSUME conf.limit_size
               PROVE  LimitKept'
    BY <1>4, Zenon DEF LimitKept
  <2>1. Live' = Live \cup {}
    BY MovedLive, Zenon DEF Turn
  <2>2. Live' = Live
    BY <2>1, Zenon
  <2> QED BY <2>2, <1>4, Zenon DEF LimitKept, Inv, max_allocations
<1>6. Ends' /\ NothingLeaks'
  BY <1>4, Zenon DEF Turn, Ends, NothingLeaks, Inv
<1> QED BY <1>1, <1>2, <1>3, <1>5, <1>6, Zenon DEF Inv

-----------------------------------------------------------------------------
(* Calls                                                                   *)

\* The record of no call.
LEMMA NoCallFields ==
  /\ NoCall \in Calls
  /\ \A x, y, z \in Nat :
       LET c == [NoCall EXCEPT !.op = "free", !.nb = x, !.min = y, !.lo = z]
       IN c \in Calls /\ c.op = "free" /\ c.nb = x /\ c.min = y /\ c.lo = z
  /\ \A x \in Nat :
       LET c == [NoCall EXCEPT !.op = "unregister", !.need = x]
       IN c \in Calls /\ c.op = "unregister" /\ c.need = x
BY ZenonT(30) DEF NoCall, Calls

\* The local variables of a call change; its arguments do not.
LEMMA CallLo ==
  ASSUME NEW c \in Calls
  PROVE  LET d == [c EXCEPT !.lo = 0] IN
         d \in Calls /\ d.op = c.op /\ d.nb = c.nb /\ d.min = c.min /\ d.try = c.try
BY Zenon DEF Calls

\* What is still needed changes.
LEMMA CallNeed ==
  ASSUME NEW c \in Calls, NEW x \in Nat
  PROVE  LET d == [c EXCEPT !.need = x] IN
         /\ d \in Calls /\ d.op = c.op /\ d.nb = c.nb /\ d.min = c.min /\ d.try = c.try
         /\ d.lo = c.lo /\ d.need = x
BY Zenon DEF Calls

\* Nothing is needed any more.
LEMMA CallDone ==
  ASSUME NEW c \in Calls
  PROVE  LET d == [c EXCEPT !.need = 0, !.lo = 0] IN
         d \in Calls /\ d.op = c.op /\ d.nb = c.nb /\ d.min = c.min /\ d.try = c.try
BY Zenon DEF Calls

\* The first attempt is over.
LEMMA CallTried ==
  ASSUME NEW c \in Calls, NEW x \in Nat
  PROVE  LET d == [c EXCEPT !.try = FALSE, !.lo = x] IN
         /\ d \in Calls /\ d.op = c.op /\ d.nb = c.nb /\ d.min = c.min /\ d.try = FALSE
         /\ d.lo = x
BY Zenon DEF Calls

\* The types of a call's fields.
LEMMA CallTypes ==
  ASSUME NEW c \in Calls
  PROVE  c.nb \in Nat /\ c.min \in Nat /\ c.lo \in Nat /\ c.need \in Nat /\ c.try \in BOOLEAN
BY Zenon DEF Calls

\* A step that moves no object.
LEMMA Still ==
  ASSUME Inv, NEW t \in Threads, UNCHANGED <<conf, ring, cache, held, values>>
  PROVE  Moves(t, {})
<1>1. Good(ring, cache[t], held[t], values[t])
  BY OwnPlaces, TypedSequences, Zenon DEF Inv
<1> QED BY <1>1, Zenon DEF Moves, Held

\* Whoever has called is on the list, if there are thread caches.
LEMMA FoundCache ==
  ASSUME Types, NEW t \in Threads, Listed(t), FindCache(t), pc[t] = "idle",
         UNCHANGED <<conf, cache>>
  PROVE  /\ thread_list' \subseteq Threads
         /\ \A u \in Threads \ {t} : u \in thread_list' <=> u \in thread_list
         /\ total' = 0 \/ t \in thread_list'
         /\ t \notin thread_list' => cache'[t] = <<>>
BY Zenon DEF FindCache, Types, Listed, total

\* A call of libtrace_ocache_alloc begins.
LEMMA CallAllocTurn ==
  ASSUME Inv, NEW t \in Threads, CallAlloc(t)
  PROVE  Turn(t, {}) /\ current_allocations' = current_allocations
<1>0. Types /\ Stage(t) /\ Listed(t)
  BY Zenon DEF Inv, Stages
<1>1. PICK nb \in 1 .. conf.most, min \in 0 .. conf.most :
        /\ min <= nb
        /\ SetCall(t, [op |-> "alloc", nb |-> nb, min |-> min, try |-> TryAlloc,
                       lo |-> FirstMinimum(min), need |-> 0])
  BY Zenon DEF CallAlloc
<1> DEFINE c == [op |-> "alloc", nb |-> nb, min |-> min, try |-> TryAlloc,
                 lo |-> FirstMinimum(min), need |-> 0]
<1>2. nb \in Nat /\ min \in Nat /\ FirstMinimum(min) \in Nat /\ TryAlloc \in BOOLEAN
  BY <1>0, ConfFacts DEF FirstMinimum, Types, TryAlloc
<1>3. /\ c \in Calls /\ c.op = "alloc" /\ c.nb = nb /\ c.min = min /\ c.try = TryAlloc
      /\ c.lo = FirstMinimum(min)
  BY <1>2, Zenon DEF Calls
<1> HIDE DEF c
<1>4. call' = [call EXCEPT ![t] = c] /\ pc' = [pc EXCEPT ![t] = "from_cache"]
  BY <1>1, Zenon DEF CallAlloc, SetCall, Goto, c
<1>5. call' \in [Threads -> Calls] /\ pc' \in [Threads -> Labels] /\ call'[t] = c
      /\ pc'[t] = "from_cache" /\ \A u \in Threads \ {t} : call'[u] = call[u] /\ pc'[u] = pc[u]
  BY <1>0, <1>3, <1>4, Zenon DEF Types, Labels, Alloc
<1>6. Moves(t, {})
  BY Still, Zenon DEF CallAlloc
<1>7. values' = values /\ values[t] = <<>> /\ Len(values[t]) = 0 /\ values[t] \in Seq(Objects)
  BY <1>0, Zenon DEF CallAlloc, Stage, Types
<1>8. AllocStage(t)'
  BY <1>1, <1>2, <1>3, <1>5, <1>7 DEF AllocStage, FirstMinimum
<1>9. Stage(t)'
  BY <1>5, <1>8, Zenon DEF Stage, Alloc, Free
<1>10. FindCache(t) /\ pc[t] = "idle" /\ UNCHANGED <<conf, cache>>
  BY Zenon DEF CallAlloc
<1>11. Listed(t)'
  BY <1>0, <1>10, FoundCache, Zenon DEF Listed
<1>12. thread_list' \subseteq Threads /\ \A u \in Threads \ {t} : u \in thread_list' <=> u \in thread_list
  BY <1>0, <1>10, FoundCache, Zenon
<1> QED BY <1>0, <1>5, <1>6, <1>9, <1>11, <1>12, Zenon DEF Turn, CallAlloc, Types

\* A step whose new arrays hold what the old ones did.
LEMMA Moved ==
  ASSUME Types, NEW t \in Threads, NEW c, NEW v,
         cache' = [cache EXCEPT ![t] = c], values' = [values EXCEPT ![t] = v],
         UNCHANGED <<conf, held>>,
         Passed(ring, cache[t], held[t], values[t], ring', c, held[t], v)
  PROVE  /\ Moves(t, {})
         /\ cache' \in [Threads -> Seq(Objects)] /\ held' \in [Threads -> Seq(Objects)]
         /\ values' \in [Threads -> Seq(Objects)]
         /\ cache'[t] = c /\ values'[t] = v
<1>1. c \in Seq(Objects) /\ v \in Seq(Objects)
  BY Zenon DEF Good, Passed
<1>2. /\ cache' \in [Threads -> Seq(Objects)] /\ held' \in [Threads -> Seq(Objects)]
      /\ values' \in [Threads -> Seq(Objects)]
      /\ cache'[t] = c /\ values'[t] = v /\ held'[t] = held[t]
      /\ \A u \in Threads \ {t} : cache'[u] = cache[u] /\ held'[u] = held[u] /\ values'[u] = values[u]
  BY <1>1, Zenon DEF Types
<1>3. Good(ring', cache'[t], held'[t], values'[t])
  BY <1>2, Zenon DEF Passed
<1>4. Held(t)' = Held(t)
  BY <1>2, Zenon DEF Held, Passed
<1> QED BY <1>2, <1>3, <1>4, Zenon DEF Moves

\* The thread goes on, with a changed call.
LEMMA WentOn ==
  ASSUME Types, NEW t \in Threads, NEW c \in Calls, NEW l \in Labels,
         call' = [call EXCEPT ![t] = c], pc' = [pc EXCEPT ![t] = l]
  PROVE  /\ call' \in [Threads -> Calls] /\ pc' \in [Threads -> Labels]
         /\ call'[t] = c /\ pc'[t] = l
         /\ \A u \in Threads \ {t} : call'[u] = call[u] /\ pc'[u] = pc[u]
BY Zenon DEF Types

\* It stays on the list.
LEMMA StillListed ==
  ASSUME Types, NEW t \in Threads, Listed(t), pc[t] \in Alloc \cup Free \cup {"return"},
         thread_list' = thread_list, conf' = conf, cache'[t] \in Seq(Objects),
         Len(cache'[t]) <= total
  PROVE  Listed(t)'
<1>1. total \in Nat /\ total' = total
  BY ConfFacts, Zenon DEF Types, total
<1>2. total = 0 => cache'[t] = <<>>
  BY <1>1
<1> QED BY <1>1, <1>2, Zenon DEF Listed

\* What a thread in the middle of a call is known to be.
AtWork(t) ==
  /\ Types /\ Stage(t) /\ Listed(t) /\ total \in Nat
  /\ call[t] \in Calls /\ pc[t] \in Labels
  /\ Good(ring, cache[t], held[t], values[t])
  /\ Len(cache[t]) \in Nat /\ Len(values[t]) \in Nat /\ Len(ring) \in Nat /\ Len(cache[t]) <= total
  /\ values[t] \in Seq(Objects) /\ cache[t] \in Seq(Objects) /\ ring \in Seq(Objects)
  /\ call[t].nb \in Nat /\ call[t].min \in Nat /\ call[t].lo \in Nat /\ call[t].need \in Nat
  /\ pc[t] \notin {"idle", "gone"} => ~destroyed

\* The invariant says so.
LEMMA Working ==
  ASSUME Inv, NEW t \in Threads
  PROVE  AtWork(t)
<1>1. Types /\ Stage(t) /\ Listed(t)
  BY Zenon DEF Inv, Stages
<1>2. total \in Nat /\ call[t] \in Calls /\ pc[t] \in Labels
  BY <1>1, ConfFacts, Zenon DEF Types
<1>3. Good(ring, cache[t], held[t], values[t])
  BY OwnPlaces, TypedSequences, Zenon DEF Inv
<1>4. /\ Len(cache[t]) \in Nat /\ Len(values[t]) \in Nat /\ Len(ring) \in Nat /\ Len(cache[t]) <= total
      /\ values[t] \in Seq(Objects) /\ cache[t] \in Seq(Objects) /\ ring \in Seq(Objects)
  BY <1>1, SMTT(30) DEF Types
<1>5. pc[t] \notin {"idle", "gone"} => ~destroyed
  BY Zenon DEF Inv, Ends
<1> QED BY <1>1, <1>2, <1>3, <1>4, <1>5, CallTypes, Zenon DEF AtWork

\* What a step in the middle of a call of thread t does to it.
Rest(t) ==
  /\ Moves(t, {}) /\ Len(cache'[t]) <= total
  /\ cache' \in [Threads -> Seq(Objects)] /\ held' \in [Threads -> Seq(Objects)]
  /\ values' \in [Threads -> Seq(Objects)]
  /\ call' \in [Threads -> Calls] /\ pc' \in [Threads -> Labels]
  /\ \A u \in Threads \ {t} : call'[u] = call[u] /\ pc'[u] = pc[u]
  /\ Stage(t)'

\* That is a turn.
LEMMA RestTurn ==
  ASSUME Inv, NEW t \in Threads, pc[t] \in Alloc \cup Free \cup {"return"}, Rest(t),
         Len(ring') <= conf.buffer_size, {spin', rlock', wlock'} \subseteq Threads \cup {Nobody},
         UNCHANGED <<conf, thread_list, destroyed>>
  PROVE  Turn(t, {})
<1>1. AtWork(t)
  BY Working, Zenon
<1>2. Listed(t)'
  BY <1>1, StillListed, Zenon DEF AtWork, Rest
<1>3. ~destroyed
  BY <1>1, Zenon DEF AtWork, Alloc, Free
<1> QED BY <1>1, <1>2, <1>3, Zenon DEF Turn, Types, AtWork, Rest

\* libtrace_ocache_alloc_cache begins: what is cached is used first.
LEMMA AllocFromCacheTurn ==
  ASSUME Inv, NEW t \in Threads, AllocFromCache(t)
  PROVE  Turn(t, {}) /\ current_allocations' = current_allocations
<1> DEFINE c == call[t]
           got == Len(values[t])
           want == c.nb - got
           used == Len(cache[t])
<1>w. AtWork(t)
  BY Working, Zenon
<1>g. Good(ring, cache[t], held[t], values[t])
  BY <1>w, Zenon DEF AtWork
<1>n. /\ used \in Nat /\ got \in Nat /\ used <= total /\ total \in Nat
      /\ c.nb \in Nat /\ c.min \in Nat /\ c.lo \in Nat
  BY <1>w, Zenon DEF AtWork
<1>0. /\ pc[t] = "from_cache" /\ UNCHANGED <<conf, held, destroyed>>
      /\ UNCHANGED <<ring, current_allocations, thread_list, spin, rlock, wlock>>
  BY Zenon DEF AllocFromCache, shared
<1>1. /\ c \in Calls /\ c.op = "alloc" /\ c.min <= c.nb /\ got <= c.nb
      /\ ~c.try => c.lo + got >= c.min
  BY <1>w, <1>0, Zenon DEF Stage, AllocStage, Alloc, AtWork
<1>2. want \in Nat /\ used \in Nat
  BY <1>w, <1>1, SMTT(30) DEF AtWork
<1>3. AfterRead(c) \in Labels /\ AfterRead(c) = IF c.try THEN "reserve" ELSE "return"
  BY Zenon DEF AfterRead, Labels, Alloc
<1>4. SUFFICES Rest(t)
  <2>1. Len(ring) <= conf.buffer_size /\ {spin, rlock, wlock} \subseteq Threads \cup {Nobody}
    BY <1>w, Zenon DEF AtWork, Types
  <2> QED BY <1>0, <1>4, <2>1, RestTurn, Zenon DEF Alloc
<1>5. CASE /\ want <= used
           /\ SetValues(t, values[t] \o Top(cache[t], want))
           /\ SetCache(t, Take(cache[t], used - want))
           /\ SetCall(t, [c EXCEPT !.lo = 0])
           /\ Goto(t, AfterRead(c))
  <2>1. want \in 0 .. Len(cache[t])
    BY <1>2, <1>5
  <2> DEFINE v == values[t] \o Top(cache[t], want)
             k == Take(cache[t], Len(cache[t]) - want)
             d == [c EXCEPT !.lo = 0]
  <2> HIDE DEF want
  <2>2. /\ Passed(ring, cache[t], held[t], values[t], ring, k, held[t], v)
        /\ Len(v) = got + want /\ Len(k) = Len(cache[t]) - want
    BY <1>g, <2>1, CacheToValues, Zenon
  <2>3. d \in Calls /\ d.op = c.op /\ d.nb = c.nb /\ d.min = c.min /\ d.try = c.try
    BY <1>1, CallLo, Zenon
  <2> HIDE DEF v, k, d
  <2>4. cache' = [cache EXCEPT ![t] = k] /\ values' = [values EXCEPT ![t] = v]
    BY <1>5, Zenon DEF SetValues, SetCache, v, k, want
  <2>5. call' = [call EXCEPT ![t] = d] /\ pc' = [pc EXCEPT ![t] = AfterRead(c)]
    BY <1>5, Zenon DEF SetCall, Goto, d
  <2>6. /\ Moves(t, {})
        /\ cache' \in [Threads -> Seq(Objects)] /\ held' \in [Threads -> Seq(Objects)]
        /\ values' \in [Threads -> Seq(Objects)] /\ cache'[t] = k /\ values'[t] = v
    BY <1>w, <1>0, <2>2, <2>4, Moved, Zenon DEF AtWork
  <2>7. /\ call' \in [Threads -> Calls] /\ pc' \in [Threads -> Labels]
        /\ call'[t] = d /\ pc'[t] = AfterRead(c)
        /\ \A u \in Threads \ {t} : call'[u] = call[u] /\ pc'[u] = pc[u]
    BY <1>w, <1>3, <2>3, <2>5, WentOn, ZenonT(30) DEF AtWork
  <2>8. Len(v) = c.nb /\ Len(k) <= total
    BY <1>n, <1>1, <1>2, <2>2, SMTT(30) DEF want
  <2>9. AllocStage(t)'
    BY <1>n, <1>1, <1>3, <2>3, <2>6, <2>7, <2>8, SMTT(30) DEF AllocStage
  <2>10. Stage(t)'
    BY <1>3, <2>7, <2>9, Zenon DEF Stage, Alloc, Free
  <2> QED BY <2>6, <2>7, <2>8, <2>10, Zenon DEF Rest
<1>6. CASE /\ SetCall(t, [c EXCEPT !.need = c.lo])
           /\ Goto(t, "read_values")
           /\ UNCHANGED <<values, cache>>
  <2> DEFINE d == [c EXCEPT !.need = c.lo]
  <2>1. /\ d \in Calls /\ d.op = c.op /\ d.nb = c.nb /\ d.min = c.min /\ d.try = c.try
        /\ d.need = c.lo
    BY <1>1, CallNeed, CallTypes, ZenonT(30)
  <2> HIDE DEF d
  <2>2. /\ call' \in [Threads -> Calls] /\ pc' \in [Threads -> Labels]
        /\ call'[t] = d /\ pc'[t] = "read_values"
        /\ \A u \in Threads \ {t} : call'[u] = call[u] /\ pc'[u] = pc[u]
    BY <1>w, <1>6, <2>1, WentOn, Zenon DEF SetCall, Goto, d, Labels, Alloc, AtWork
  <2>3. AllocStage(t)'
    BY <1>1, <1>6, <2>1, <2>2, Zenon DEF AllocStage
  <2>4. Stage(t)'
    BY <2>2, <2>3, Zenon DEF Stage, Alloc, Free
  <2>5. Moves(t, {})
    BY <1>0, <1>6, Still, Zenon
  <2> QED BY <1>w, <1>0, <1>6, <2>2, <2>4, <2>5, ZenonT(30) DEF Types, AtWork, Rest
<1>7. CASE /\ want > used
           /\ SetValues(t, values[t] \o cache[t])
           /\ SetCache(t, <<>>)
           /\ SetCall(t, [c EXCEPT !.need = IF used < c.lo THEN c.lo - used ELSE 0])
           /\ Goto(t, "read_cache")
  <2> DEFINE v == values[t] \o cache[t]
             x == IF used < c.lo THEN c.lo - used ELSE 0
             d == [c EXCEPT !.need = x]
  <2>1. Passed(ring, cache[t], held[t], values[t], ring, <<>>, held[t], v)
    BY <1>g, CacheAllToValues, Zenon
  <2>e. Len(v) = got + used
    BY <1>g, CacheAllToValues, Zenon
  <2>2. x \in Nat /\ x >= c.lo - used
    BY <1>n
  <2>3. /\ d \in Calls /\ d.op = c.op /\ d.nb = c.nb /\ d.min = c.min /\ d.try = c.try
        /\ d.need = x
    BY <1>1, <2>2, CallNeed, ZenonT(30)
  <2> HIDE DEF v, x, d, got, used
  <2>4. /\ call' \in [Threads -> Calls] /\ pc' \in [Threads -> Labels]
        /\ call'[t] = d /\ pc'[t] = "read_cache"
        /\ \A u \in Threads \ {t} : call'[u] = call[u] /\ pc'[u] = pc[u]
    BY <1>w, <1>7, <2>3, WentOn, ZenonT(30) DEF SetCall, Goto, d, x, used, Labels, Alloc, AtWork
  <2>5. cache' = [cache EXCEPT ![t] = <<>>] /\ values' = [values EXCEPT ![t] = v]
    BY <1>7, Zenon DEF SetValues, SetCache, v
  <2>6. /\ Moves(t, {})
        /\ cache' \in [Threads -> Seq(Objects)] /\ held' \in [Threads -> Seq(Objects)]
        /\ values' \in [Threads -> Seq(Objects)] /\ cache'[t] = <<>> /\ values'[t] = v
    BY <1>w, <1>0, <2>1, <2>5, Moved, Zenon DEF AtWork
  <2>c. want > used
    BY <1>7, Zenon
  <2>f. v \in Seq(Objects)
    BY <2>1, Zenon DEF Passed, Good
  <2>7. Len(v) <= c.nb /\ Len(v) \in Nat
    BY <1>n, <2>c, <2>e, <2>f
  <2>a. Len(cache'[t]) = 0
    BY <2>6
  <2>b. ~c.try => d.need + Len(v) + 0 >= c.min
    BY <1>n, <1>1, <2>e, <2>f, <2>2, <2>3, SMTT(30)
  <2>8. AllocStage(t)'
    BY <1>n, <1>1, <2>a, <2>b, <2>3, <2>4, <2>6, <2>7, Zenon DEF AllocStage
  <2>9. Stage(t)'
    BY <2>4, <2>8, Zenon DEF Stage, Alloc, Free
  <2> QED BY <1>n, <2>4, <2>6, <2>a, <2>9 DEF Rest
<1> QED BY <1>5, <1>6, <1>7, Zenon DEF AllocFromCache

\* libtrace_ocache_alloc_cache ends: c1 and v1 are what the round has left.
LEMMA ReadEnds ==
  ASSUME Inv, NEW t \in Threads, pc[t] \in {"read_values", "read_cache"}, NEW c1, NEW v1,
         Passed(ring, cache[t], held[t], values[t], ring', c1, held[t], v1),
         Len(c1) <= total, Len(v1) <= call[t].nb,
         ~call[t].try => Len(v1) + Len(c1) >= call[t].min,
         Fill(t, v1, c1), SetCall(t, [call[t] EXCEPT !.need = 0, !.lo = 0]),
         Goto(t, AfterRead(call[t])), UNCHANGED <<conf, held>>
  PROVE  Rest(t)
<1> DEFINE c == call[t]
           n == Min({Len(c1), c.nb - Len(v1)})
           k == Take(c1, Len(c1) - n)
           v == v1 \o Top(c1, n)
           d == [c EXCEPT !.need = 0, !.lo = 0]
<1>1. AtWork(t)
  BY Working, Zenon
<1>2. /\ c \in Calls /\ c.op = "alloc" /\ c.min <= c.nb /\ c.nb \in Nat /\ c.min \in Nat
      /\ total \in Nat
  BY <1>1, Zenon DEF AtWork, Stage, AllocStage, Alloc
<1>3. Good(ring', c1, held[t], v1) /\ Len(c1) \in Nat /\ Len(v1) \in Nat
  BY DEF Passed, Good
<1>4. /\ Passed(ring', c1, held[t], v1, ring', k, held[t], v)
      /\ Len(v) = IF Len(v1) + Len(c1) <= c.nb THEN Len(v1) + Len(c1) ELSE c.nb
      /\ Len(k) <= Len(c1)
  BY <1>2, <1>3, Filled, Zenon
<1>5. d \in Calls /\ d.op = c.op /\ d.nb = c.nb /\ d.min = c.min /\ d.try = c.try
  BY <1>2, CallDone, Zenon
<1>6. AfterRead(c) \in Labels /\ AfterRead(c) = IF c.try THEN "reserve" ELSE "return"
  BY Zenon DEF AfterRead, Labels, Alloc
<1>7. cache' = [cache EXCEPT ![t] = k] /\ values' = [values EXCEPT ![t] = v]
  BY Zenon DEF Fill, SetCache, SetValues
<1>8. call' = [call EXCEPT ![t] = d] /\ pc' = [pc EXCEPT ![t] = AfterRead(c)]
  BY Zenon DEF SetCall, Goto
<1> HIDE DEF d, v, k, n
<1>9. Passed(ring, cache[t], held[t], values[t], ring', k, held[t], v)
  BY <1>4, PassedOn, Zenon
<1>10. /\ Moves(t, {})
       /\ cache' \in [Threads -> Seq(Objects)] /\ held' \in [Threads -> Seq(Objects)]
       /\ values' \in [Threads -> Seq(Objects)] /\ cache'[t] = k /\ values'[t] = v
  BY <1>1, <1>7, <1>9, Moved, Zenon DEF AtWork
<1>11. /\ call' \in [Threads -> Calls] /\ pc' \in [Threads -> Labels]
       /\ call'[t] = d /\ pc'[t] = AfterRead(c)
       /\ \A u \in Threads \ {t} : call'[u] = call[u] /\ pc'[u] = pc[u]
  BY <1>1, <1>5, <1>6, <1>8, WentOn, Zenon DEF AtWork
<1>12. Len(k) <= total /\ Len(v) <= c.nb /\ (~c.try => Len(v) >= c.min)
  <2>1. k \in Seq(Objects) /\ v \in Seq(Objects)
    BY <1>4, Zenon DEF Passed, Good
  <2> QED BY <1>2, <1>3, <1>4, <2>1
<1>13. AllocStage(t)'
  BY <1>2, <1>5, <1>6, <1>10, <1>11, <1>12, Zenon DEF AllocStage
<1>14. Stage(t)'
  BY <1>6, <1>11, <1>13, Zenon DEF Stage, Alloc, Free
<1> QED BY <1>10, <1>11, <1>12, <1>14, Zenon DEF Rest

\* A round that has not read the minimum is followed by another.
LEMMA ReadGoesOn ==
  ASSUME Inv, NEW t \in Threads, pc[t] \in {"read_values", "read_cache"}, NEW c1, NEW v1, NEW x \in Nat,
         Passed(ring, cache[t], held[t], values[t], ring', c1, held[t], v1),
         Len(c1) <= total, Len(v1) <= call[t].nb,
         pc[t] = "read_values" /\ ~call[t].try => x + Len(v1) >= call[t].min,
         pc[t] = "read_cache" /\ ~call[t].try => x + Len(v1) + Len(c1) >= call[t].min,
         cache' = [cache EXCEPT ![t] = c1], values' = [values EXCEPT ![t] = v1],
         SetCall(t, [call[t] EXCEPT !.need = x]), UNCHANGED <<conf, held, pc>>
  PROVE  Rest(t)
<1> DEFINE c == call[t]
           d == [c EXCEPT !.need = x]
<1>1. AtWork(t)
  BY Working, Zenon
<1>2. /\ c \in Calls /\ c.op = "alloc" /\ c.min <= c.nb /\ c.nb \in Nat /\ c.min \in Nat
  BY <1>1, Zenon DEF AtWork, Stage, AllocStage, Alloc
<1>3. d \in Calls /\ d.op = c.op /\ d.nb = c.nb /\ d.min = c.min /\ d.try = c.try /\ d.need = x
  BY <1>2, CallNeed, ZenonT(30)
<1>4. call' = [call EXCEPT ![t] = d]
  BY Zenon DEF SetCall
<1> HIDE DEF d
<1>5. /\ Moves(t, {})
      /\ cache' \in [Threads -> Seq(Objects)] /\ held' \in [Threads -> Seq(Objects)]
      /\ values' \in [Threads -> Seq(Objects)] /\ cache'[t] = c1 /\ values'[t] = v1
  BY <1>1, Moved, Zenon DEF AtWork
<1>6. /\ call' \in [Threads -> Calls] /\ pc' \in [Threads -> Labels]
      /\ call'[t] = d /\ pc'[t] = pc[t]
      /\ \A u \in Threads \ {t} : call'[u] = call[u] /\ pc'[u] = pc[u]
  BY <1>1, <1>3, <1>4, Zenon DEF AtWork, Types
<1>7. AllocStage(t)'
  BY <1>2, <1>3, <1>5, <1>6, Zenon DEF AllocStage
<1>8. Stage(t)'
  BY <1>6, <1>7, Zenon DEF Stage, Alloc, Free
<1> QED BY <1>5, <1>6, <1>8, Zenon DEF Rest

\* What a round of either loop still needs, when n objects have passed.
LEMMA StillNeeds ==
  ASSUME NEW need \in Nat, NEW n \in Nat
  PROVE  /\ Max({need - n, 0}) \in Nat /\ Max({need - n, 0}) >= need - n
         /\ Max({need - n, 0}) <= need
         /\ Max({need - n, 0}) > 0 => Max({need - n, 0}) = need - n
BY MaxOf

\* libtrace_ringbuffer_sread_bulk: a round of its loop.
LEMMA ReadRingTurn ==
  ASSUME Inv, NEW t \in Threads, ReadRing(t)
  PROVE  Turn(t, {}) /\ current_allocations' = current_allocations
<1> DEFINE c == call[t]
           v0 == values[t]
           c0 == cache[t]
<1>w. AtWork(t)
  BY Working
<1>0. /\ pc[t] \in {"read_values", "read_cache"} /\ UNCHANGED <<conf, held, destroyed>>
      /\ UNCHANGED <<current_allocations, thread_list, spin, wlock>>
      /\ rlock' \in {t, Nobody, rlock}
  BY Zenon DEF ReadRing
<1>g. Good(ring, c0, held[t], v0)
  BY <1>w, Zenon DEF AtWork
<1>1. /\ c \in Calls /\ c.op = "alloc" /\ c.min <= c.nb /\ Len(v0) <= c.nb
      /\ pc[t] = "read_values" /\ ~c.try => c.need + Len(v0) >= c.min
      /\ pc[t] = "read_cache" /\ ~c.try => c.need + Len(v0) + Len(c0) >= c.min
  BY <1>w, <1>0, Zenon DEF AtWork, Stage, AllocStage, Alloc
<1>n. /\ Len(v0) \in Nat /\ Len(c0) \in Nat /\ Len(ring) \in Nat
      /\ Len(c0) <= total /\ total \in Nat /\ c.nb \in Nat /\ c.min \in Nat /\ c.need \in Nat
      /\ conf.buffer_size \in Nat /\ Len(ring) <= conf.buffer_size
  BY <1>w, ConfFacts, Zenon DEF AtWork, Types
<1>l. {spin, rlock, wlock} \subseteq Threads \cup {Nobody}
  BY <1>w, Zenon DEF AtWork, Types
<1>4. SUFFICES Rest(t) /\ Len(ring') <= conf.buffer_size
  BY <1>0, <1>4, <1>l, RestTurn, Zenon DEF Alloc
<1>c. cache = [cache EXCEPT ![t] = c0] /\ values = [values EXCEPT ![t] = v0]
  BY <1>w, Zenon DEF AtWork, Types
<1>5. CASE pc[t] = "read_values"
  <2> DEFINE n == Min({c.nb - Len(v0), Len(ring)})
             need == Max({c.need - n, 0})
             v1 == v0 \o Take(ring, n)
             r1 == Drop(ring, n)
  <2>1. /\ ring' = r1
        /\ \/ /\ need > 0 /\ SetCall(t, [c EXCEPT !.need = need])
              /\ SetValues(t, v1) /\ UNCHANGED <<cache, pc>>
           \/ /\ ~(need > 0) /\ SetCall(t, [c EXCEPT !.need = 0, !.lo = 0])
              /\ Fill(t, v1, c0) /\ Goto(t, AfterRead(c))
    BY <1>5, Zenon DEF ReadRing
  <2> HIDE DEF c, v0, c0
  <2>2. n \in 0 .. Len(ring) /\ n <= c.nb - Len(v0) /\ n \in Nat
    <3>1. c.nb - Len(v0) \in Nat
      BY <1>1, <1>n
    <3> QED BY <1>n, <3>1, Least, Zenon
  <2>3. need \in Nat /\ need >= c.need - n
    BY <1>n, <2>2, StillNeeds, Zenon
  <2> HIDE DEF n, need
  <2>4. /\ Passed(ring, c0, held[t], v0, r1, c0, held[t], v1)
        /\ Len(v1) = Len(v0) + n /\ Len(r1) = Len(ring) - n
    BY <1>g, <2>2, RingToValues, Zenon
  <2> HIDE DEF v1, r1
  <2>5. Len(v1) \in Nat /\ Len(r1) \in Nat
    BY <2>4 DEF Passed, Good
  <2>6. Len(v1) <= c.nb /\ Len(ring') <= conf.buffer_size
    BY <1>n, <2>1, <2>2, <2>4, <2>5, SMTT(30)
  <2>7. /\ ~c.try => need + Len(v1) >= c.min
        /\ ~(need > 0) /\ ~c.try => Len(v1) + Len(c0) >= c.min
    <3> SUFFICES ASSUME ~c.try
                 PROVE  need + Len(v1) >= c.min /\ (~(need > 0) => Len(v1) + Len(c0) >= c.min)
      BY Zenon
    <3>1. c.need + Len(v0) >= c.min
      BY <1>1, <1>5, Zenon
    <3>2. need >= c.need - n /\ need \in Nat /\ n \in Nat /\ c.need \in Nat /\ c.min \in Nat
      BY <1>n, <2>2, <2>3, Zenon
    <3>3. Len(v1) = Len(v0) + n /\ Len(v0) \in Nat /\ Len(c0) \in Nat
      BY <1>n, <2>4, Zenon
    <3> QED BY <3>1, <3>2, <3>3, SMTT(30)
  <2>8. CASE /\ need > 0 /\ SetCall(t, [c EXCEPT !.need = need])
             /\ SetValues(t, v1) /\ UNCHANGED <<cache, pc>>
    <3>1. cache' = [cache EXCEPT ![t] = c0] /\ values' = [values EXCEPT ![t] = v1]
      BY <1>c, <2>8, Zenon DEF SetValues
    <3>2. pc[t] # "read_cache"
      BY <1>5, Zenon
    <3>3. Rest(t)
      BY <1>0, <1>n, <2>1, <2>3, <2>4, <2>6, <2>7, <2>8, <3>1, <3>2, ReadGoesOn, ZenonT(30) DEF c, v0, c0
    <3> QED BY <2>6, <3>3, Zenon
  <2>9. CASE /\ ~(need > 0) /\ SetCall(t, [c EXCEPT !.need = 0, !.lo = 0])
             /\ Fill(t, v1, c0) /\ Goto(t, AfterRead(c))
    <3>1. Rest(t)
      BY <1>0, <1>n, <2>1, <2>4, <2>6, <2>7, <2>9, ReadEnds, Zenon DEF c, v0, c0
    <3> QED BY <2>6, <3>1
  <2> QED BY <2>1, <2>8, <2>9, Zenon
<1>6. CASE pc[t] = "read_cache"
  <2> DEFINE n == Min({total - Len(c0), Len(ring)})
             need == Max({c.need - n, 0})
             c1 == c0 \o Take(ring, n)
             r1 == Drop(ring, n)
  <2>1. /\ ring' = r1
        /\ \/ /\ need > 0 /\ SetCall(t, [c EXCEPT !.need = need])
              /\ SetCache(t, c1) /\ UNCHANGED <<values, pc>>
           \/ /\ ~(need > 0) /\ SetCall(t, [c EXCEPT !.need = 0, !.lo = 0])
              /\ Fill(t, v0, c1) /\ Goto(t, AfterRead(c))
    BY <1>6, Zenon DEF ReadRing
  <2> HIDE DEF c, v0, c0
  <2>2. n \in 0 .. Len(ring) /\ n <= total - Len(c0) /\ n \in Nat
    <3>1. total - Len(c0) \in Nat
      BY <1>n
    <3> QED BY <1>n, <3>1, Least, Zenon
  <2>3. need \in Nat /\ need >= c.need - n
    BY <1>n, <2>2, StillNeeds, Zenon
  <2> HIDE DEF n, need
  <2>4. /\ Passed(ring, c0, held[t], v0, r1, c1, held[t], v0)
        /\ Len(c1) = Len(c0) + n /\ Len(r1) = Len(ring) - n
    BY <1>g, <2>2, RingToCache, Zenon
  <2> HIDE DEF c1, r1
  <2>5. Len(c1) \in Nat /\ Len(r1) \in Nat
    BY <2>4 DEF Passed, Good
  <2>6. Len(c1) <= total /\ Len(ring') <= conf.buffer_size
    BY <1>n, <2>1, <2>2, <2>4, <2>5, SMTT(30)
  <2>7. /\ ~c.try => need + Len(v0) + Len(c1) >= c.min
        /\ ~(need > 0) /\ ~c.try => Len(v0) + Len(c1) >= c.min
    <3> SUFFICES ASSUME ~c.try
                 PROVE  /\ need + Len(v0) + Len(c1) >= c.min
                        /\ ~(need > 0) => Len(v0) + Len(c1) >= c.min
      BY Zenon
    <3>1. c.need + Len(v0) + Len(c0) >= c.min
      BY <1>1, <1>6, Zenon
    <3>2. need >= c.need - n /\ need \in Nat /\ n \in Nat /\ c.need \in Nat /\ c.min \in Nat
      BY <1>n, <2>2, <2>3, Zenon
    <3>3. Len(c1) = Len(c0) + n /\ Len(v0) \in Nat /\ Len(c0) \in Nat
      BY <1>n, <2>4, Zenon
    <3> QED BY <3>1, <3>2, <3>3, SMTT(30)
  <2>8. CASE /\ need > 0 /\ SetCall(t, [c EXCEPT !.need = need])
             /\ SetCache(t, c1) /\ UNCHANGED <<values, pc>>
    <3>1. cache' = [cache EXCEPT ![t] = c1] /\ values' = [values EXCEPT ![t] = v0]
      BY <1>c, <2>8, Zenon DEF SetCache
    <3>2. pc[t] # "read_values"
      BY <1>6, Zenon
    <3>3. Rest(t)
      BY <1>0, <1>1, <1>n, <2>1, <2>3, <2>4, <2>6, <2>7, <2>8, <3>1, <3>2, ReadGoesOn, ZenonT(30) DEF c, v0, c0
    <3> QED BY <2>6, <3>3, Zenon
  <2>9. CASE /\ ~(need > 0) /\ SetCall(t, [c EXCEPT !.need = 0, !.lo = 0])
             /\ Fill(t, v0, c1) /\ Goto(t, AfterRead(c))
    <3>1. Rest(t)
      BY <1>0, <1>1, <1>n, <2>1, <2>4, <2>6, <2>7, <2>9, ReadEnds, Zenon DEF c, v0, c0
    <3> QED BY <2>6, <3>1
  <2> QED BY <2>1, <2>8, <2>9, Zenon
<1> QED BY <1>0, <1>5, <1>6, Zenon
=============================================================================
