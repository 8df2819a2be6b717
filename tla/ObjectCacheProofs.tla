------------------------- MODULE ObjectCacheProofs -------------------------
(***************************************************************************)
(* Proofs about ObjectCache, for every number of threads and of objects,   *)
(* every limit and every size of the ring and of the thread caches, until  *)
(* a bulk call of the ring is torn.                                        *)
(***************************************************************************)
EXTENDS ObjectCacheSteps

-----------------------------------------------------------------------------
(* Counting objects                                                        *)

\* The facts about the sizes of finite sets that the lemmas use; SetsAreSized
\* proves them.
SizeOfEmpty == Cardinality({}) = 0
SizeIsNat == \A S : IsFiniteSet(S) => Cardinality(S) \in Nat
SizeOfSubset ==
  \A S, T : IsFiniteSet(S) /\ T \subseteq S => IsFiniteSet(T) /\ Cardinality(T) <= Cardinality(S)
SizeOfUnion ==
  \A S, T : IsFiniteSet(S) /\ IsFiniteSet(T) =>
             Cardinality(S \cup T) = Cardinality(S) + Cardinality(T) - Cardinality(S \cap T)
SizeNumbers ==
  \A S : IsFiniteSet(S) => \E f \in [1 .. Cardinality(S) -> S] : IsInjective(f)
SizeOfRange ==
  \A n \in Nat : \A f \in [1 .. n -> Objects] : IsInjective(f) => Cardinality(Range(f)) = n
Sized == SizeOfEmpty /\ SizeIsNat /\ SizeOfSubset /\ SizeOfUnion /\ SizeNumbers /\ SizeOfRange

\* A sequence without repetitions has as many elements as it is long.
LEMMA Counted ==
  ASSUME Sized, NEW s \in Seq(Objects), IsInjective(s)
  PROVE  Cardinality(Range(s)) = Len(s)
<1>1. s \in [1 .. Len(s) -> Objects] /\ Len(s) \in Nat
  OBVIOUS
<1> QED BY <1>1, Zenon DEF Sized, SizeOfRange

\* The objects that live are objects, finitely many.
LEMMA LiveFinite ==
  ASSUME Sized, Types
  PROVE  /\ Live \subseteq Objects /\ IsFiniteSet(Live)
         /\ Cardinality(Live) \in Nat /\ Cardinality(Live) <= Cardinality(Objects)
<1>1. \A s \in Seq(Objects) : Range(s) \subseteq Objects
  <2> SUFFICES ASSUME NEW s \in Seq(Objects), NEW x \in Range(s)
               PROVE  x \in Objects
    BY Zenon
  <2>1. PICK i \in 1 .. Len(s) : x = s[i]
    BY Elements, Zenon
  <2> QED BY <2>1
<1>2. Live \subseteq Objects
  BY <1>1, Zenon DEF Types, Live, InUse
<1> QED BY <1>2, CacheAssumption, Zenon DEF Sized, SizeOfSubset, SizeIsNat

\* libtrace_ocache_alloc gets objects that were nowhere: calloc's.
LEMMA FreshObjects ==
  ASSUME Sized, Types, NEW n \in Nat, n + Cardinality(Live) <= Cardinality(Objects)
  PROVE  /\ Fresh(n) \in Seq(Objects) /\ Len(Fresh(n)) = n /\ IsInjective(Fresh(n))
         /\ Range(Fresh(n)) \cap Live = {}
<1> DEFINE S == Objects \ Live
           m == Cardinality(S)
<1>1. IsFiniteSet(S) /\ m \in Nat /\ n <= m
  <2>1. IsFiniteSet(Objects) /\ IsFiniteSet(Live) /\ Live \subseteq Objects
        /\ Cardinality(Live) \in Nat /\ Cardinality(Objects) \in Nat
    BY LiveFinite, CacheAssumption, Zenon DEF Sized, SizeIsNat
  <2>2. IsFiniteSet(S) /\ m \in Nat
    BY <2>1, Zenon DEF Sized, SizeOfSubset, SizeIsNat
  <2>3. Live \cup S = Objects /\ Live \cap S = {}
    BY <2>1, Zenon
  <2>4. Cardinality(Objects) = Cardinality(Live) + m - Cardinality(Live \cap S)
    BY <2>1, <2>2, <2>3, Zenon DEF Sized, SizeOfUnion
  <2>5. Cardinality(Live \cap S) = 0
    BY <2>3, Zenon DEF Sized, SizeOfEmpty
  <2> QED BY <2>1, <2>2, <2>4, <2>5
<1>2. PICK f \in [1 .. m -> S] : IsInjective(f)
  BY <1>1, Zenon DEF Sized, SizeNumbers
<1>3. \A i, j \in 1 .. m : f[i] = f[j] => i = j
  BY <1>2, Zenon DEF IsInjective
<1> DEFINE g == [i \in 1 .. n |-> f[i]]
<1>4. g \in [1 .. n -> S] /\ IsInjective(g)
  <2>1. \A i \in 1 .. n : i \in 1 .. m
    BY <1>1
  <2>2. g \in [1 .. n -> S]
    BY <1>2, <2>1, Zenon
  <2>3. DOMAIN g = 1 .. n /\ \A i \in 1 .. n : g[i] = f[i]
    BY Zenon
  <2> HIDE DEF g
  <2>4. IsInjective(g)
    BY <1>3, <2>1, <2>3, Zenon DEF IsInjective
  <2> QED BY <2>2, <2>4, Zenon
<1>5. Fresh(n) \in [1 .. n -> S] /\ IsInjective(Fresh(n))
  BY <1>4, Zenon DEF Fresh
<1> HIDE DEF S
<1>6. Fresh(n) \in Seq(S) /\ Len(Fresh(n)) = n
  BY <1>5
<1>7. Fresh(n) \in Seq(Objects)
  BY <1>6 DEF S
<1>8. Range(Fresh(n)) \subseteq S
  BY <1>5, Zenon DEF Range
<1> QED BY <1>5, <1>6, <1>7, <1>8, Zenon DEF S

\* With a limit the ring has room for what a thread has in one array, because
\* no more than buffer_size objects live.
LEMMA RoomLeft ==
  ASSUME Sized, Types, OnePlace, LimitKept, conf.limit_size, NEW t \in Threads
  PROVE  /\ Len(ring) + Len(cache[t]) <= conf.buffer_size
         /\ Len(ring) + Len(values[t]) <= conf.buffer_size
<1>1. Cardinality(Live) <= conf.buffer_size /\ IsFiniteSet(Live)
  <2>1. conf \in Configs
    BY Zenon DEF Types
  <2> QED BY <2>1, LiveFinite, ConfFacts, Zenon DEF LimitKept, max_allocations
<1>2. ASSUME NEW s \in Seq(Objects), IsInjective(s), Range(s) \subseteq Live,
             Range(ring) \cap Range(s) = {}, IsInjective(ring)
      PROVE  Len(ring) + Len(s) <= conf.buffer_size
  <2>1. Range(ring) \cup Range(s) \subseteq Live
    BY <1>2, Zenon DEF Live
  <2>2. IsFiniteSet(Range(ring)) /\ IsFiniteSet(Range(s))
    BY <1>1, <2>1, Zenon DEF Sized, SizeOfSubset
  <2>3. Cardinality(Range(ring)) = Len(ring) /\ Cardinality(Range(s)) = Len(s)
    BY <1>2, Counted, Zenon DEF Types
  <2>4. Cardinality(Range(ring) \cup Range(s)) = Len(ring) + Len(s)
    <3>1. Cardinality(Range(ring) \cap Range(s)) = 0
      BY <1>2, Zenon DEF Sized, SizeOfEmpty
    <3>2. Cardinality(Range(ring) \cup Range(s))
          = Cardinality(Range(ring)) + Cardinality(Range(s)) - Cardinality(Range(ring) \cap Range(s))
      BY <2>2, Zenon DEF Sized, SizeOfUnion
    <3> QED BY <2>3, <3>1, <3>2 DEF Types
  <2>5. Cardinality(Range(ring) \cup Range(s)) <= Cardinality(Live)
    BY <1>1, <2>1, Zenon DEF Sized, SizeOfSubset
  <2>6. Len(ring) \in Nat /\ Len(s) \in Nat /\ Cardinality(Live) \in Nat /\ conf.buffer_size \in Nat
    <3>1. ring \in Seq(Objects) /\ Cardinality(Live) \in Nat /\ conf.buffer_size \in Nat
      BY LiveFinite, ConfFacts, Zenon DEF Types
    <3> QED BY <1>2, <3>1
  <2> QED BY <1>1, <2>4, <2>5, <2>6
<1>3. Good(ring, cache[t], held[t], values[t])
  BY OwnPlaces, TypedSequences
<1>4. Range(cache[t]) \subseteq Live /\ Range(values[t]) \subseteq Live
  <2>1. InUse(t) \subseteq Live
    BY Zenon DEF Live
  <2> QED BY <2>1, Zenon DEF InUse
<1> QED BY <1>2, <1>3, <1>4, Zenon DEF Good, Separate

\* There are objects for what libtrace_ocache_alloc allocates.
LEMMA AllSupplied ==
  ASSUME Sized, Inv
  PROVE  Supplied
<1>1. Types /\ conf \in Configs
  BY Zenon DEF Inv, Types
<1>2. /\ conf.objects \in Nat /\ conf.objects <= Cardinality(Objects) /\ Cardinality(Objects) \in Nat
  BY <1>1, ConfFacts, CacheAssumption DEF Sized, SizeIsNat
<1>3. Cardinality(Live) \in Nat
  BY <1>1, LiveFinite, Zenon
<1> SUFFICES ASSUME NEW n \in Nat, n + Cardinality(Live) <= conf.objects
             PROVE  /\ Fresh(n) \in Seq(Objects) /\ Len(Fresh(n)) = n /\ IsInjective(Fresh(n))
                    /\ Range(Fresh(n)) \cap Live = {}
  BY Zenon DEF Supplied
<1>4. n + Cardinality(Live) <= Cardinality(Objects)
  BY <1>2, <1>3
<1> QED BY <1>1, <1>4, FreshObjects, Zenon

\* A thread that leaves finds room in the ring.
LEMMA EmptyCacheKeeps ==
  ASSUME Sized, Inv, NEW t \in Threads, EmptyCache(t)
  PROVE  Inv'
<1>1. conf.limit_size => Len(ring) + Len(cache[t]) <= conf.buffer_size
  BY RoomLeft, Zenon DEF Inv
<1> QED BY <1>1, EmptyCacheTurn, TurnKeeps, Zenon

-----------------------------------------------------------------------------
(* The steps that change the number of objects                             *)

\* The allocation of libtrace_ocache_alloc keeps the invariant: the objects are
\* counted under the spin lock, before the limit can be passed.
LEMMA ReserveKeeps ==
  ASSUME Sized, Inv, NEW t \in Threads, Reserve(t)
  PROVE  Inv'
<1>1. PICK n \in Nat :
        /\ Turn(t, Range(Fresh(n))) /\ Range(Fresh(n)) \cap Live = {}
        /\ IsInjective(Fresh(n)) /\ Fresh(n) \in Seq(Objects) /\ Len(Fresh(n)) = n
        /\ current_allocations' = current_allocations + IF conf.limit_size THEN n ELSE 0
        /\ conf.limit_size => current_allocations + n <= max_allocations
  BY AllSupplied, ReserveTurn, Zenon
<1> DEFINE F == Range(Fresh(n))
<1>2. Types /\ Stages /\ OnePlace /\ LimitKept /\ Ends
  BY Zenon DEF Inv
<1>3. conf' = conf /\ Moves(t, F) /\ ~destroyed'
  BY <1>1, Zenon DEF Turn, Moves
<1>4. Types'
  <2>1. current_allocations' \in Nat
    BY <1>1, <1>2 DEF Types
  <2> QED BY <1>1, <1>2, <2>1, TurnTypes
<1>5. Stages'
  BY <1>1, <1>2, OthersStay, Zenon
<1>6. OnePlace'
  BY <1>1, <1>2, <1>3, MovedOnePlace, TypedSequences
<1>7. LimitKept'
  <2> SUFFICES ASSUME conf.limit_size
               PROVE  LimitKept'
    BY <1>3, Zenon DEF LimitKept
  <2>1. Live' = Live \cup F
    BY <1>3, MovedLive, Zenon
  <2>2. Cardinality(F) = n /\ IsFiniteSet(Live) /\ Cardinality(Live) \in Nat
    BY <1>1, <1>2, Counted, LiveFinite, Zenon
  <2>3. IsFiniteSet(F)
    <3>1. F \subseteq Objects
      <4> SUFFICES ASSUME NEW x \in F
                   PROVE  x \in Objects
        BY Zenon
      <4>1. PICK i \in 1 .. Len(Fresh(n)) : x = Fresh(n)[i]
        BY <1>1, Elements, Zenon
      <4> QED BY <1>1, <4>1
    <3> QED BY <3>1, CacheAssumption, Zenon DEF Sized, SizeOfSubset
  <2>4. Cardinality(Live \cap F) = 0
    BY <1>1, Zenon DEF Sized, SizeOfEmpty
  <2>5. Cardinality(Live \cup F) = Cardinality(Live) + Cardinality(F) - Cardinality(Live \cap F)
    BY <2>2, <2>3, Zenon DEF Sized, SizeOfUnion
  <2> HIDE DEF F
  <2>6. Cardinality(Live') = Cardinality(Live) + n
    BY <2>1, <2>2, <2>4, <2>5
  <2>7. /\ current_allocations' = current_allocations + n /\ current_allocations = Cardinality(Live)
        /\ current_allocations + n <= max_allocations /\ max_allocations' = max_allocations
        /\ current_allocations \in Nat
    BY <1>1, <1>2, <1>3, Zenon DEF LimitKept, max_allocations, Types
  <2>8. Cardinality(Live)' = Cardinality(Live')
    BY Zenon
  <2> QED BY <2>6, <2>7, <2>8, Zenon DEF LimitKept
<1>8. Ends' /\ NothingLeaks'
  BY <1>1, <1>2, <1>3 DEF Ends, NothingLeaks
<1> QED BY <1>4, <1>5, <1>6, <1>7, <1>8 DEF Inv

\* libtrace_ocache_destroy finds and frees every object, and counts down to zero.
LEMMA DestroyKeeps ==
  ASSUME Sized, Inv, Destroy
  PROVE  Inv'
<1> DEFINE cached == UNION {Range(cache[t]) : t \in thread_list}
<1>1. /\ \A t \in Threads : pc[t] \in {"idle", "gone"} /\ held[t] = <<>>
      /\ current_allocations' = IF conf.limit_size
                                THEN current_allocations - Len(ring) - Cardinality(cached)
                                ELSE 0
  BY Zenon DEF Destroy
<1>2. Types /\ OnePlace /\ LimitKept
  BY Zenon DEF Inv
<1>3. Live = Range(ring) \cup cached /\ Range(ring) \cap cached = {}
  BY <1>1, DestroyFinds, Zenon
<1> HIDE DEF cached
<1>4. current_allocations' = 0
  <2>1. CASE ~conf.limit_size
    BY <1>1, <2>1, Zenon
  <2>2. CASE conf.limit_size
    <3>1. IsFiniteSet(Range(ring)) /\ IsFiniteSet(cached)
      BY <1>2, <1>3, LiveFinite, Zenon DEF Sized, SizeOfSubset
    <3>2. Cardinality(Live) = Cardinality(Range(ring)) + Cardinality(cached)
                              - Cardinality(Range(ring) \cap cached)
      BY <1>3, <3>1, Zenon DEF Sized, SizeOfUnion
    <3>3. Cardinality(Range(ring) \cap cached) = 0
      BY <1>3, Zenon DEF Sized, SizeOfEmpty
    <3>4. Cardinality(Range(ring)) = Len(ring) /\ Len(ring) \in Nat
      <4>1. ring \in Seq(Objects)
        BY <1>2, Zenon DEF Types
      <4>2. IsInjective(ring)
        <5>1. PICK t \in Threads : TRUE
          BY CacheAssumption, Zenon
        <5> QED BY <1>2, <5>1, OwnPlaces, TypedSequences, Zenon DEF Good, Separate
      <4> QED BY <4>1, <4>2, Counted
    <3>5. Cardinality(cached) \in Nat
      BY <3>1, Zenon DEF Sized, SizeIsNat
    <3> QED BY <1>1, <1>2, <2>2, <3>2, <3>3, <3>4, <3>5 DEF LimitKept
  <2> QED BY <2>1, <2>2, Zenon
<1>5. Cardinality({}) = 0
  BY Zenon DEF Sized, SizeOfEmpty
<1> QED BY <1>4, <1>5, DestroyFreesAll, Zenon

-----------------------------------------------------------------------------
(* The invariant                                                           *)

\* libtrace_ocache_init establishes it.
LEMMA InitInv ==
  ASSUME Sized, Init
  PROVE  Inv
<1>1. Cardinality({}) = 0
  BY Zenon DEF Sized, SizeOfEmpty
<1> QED BY <1>1, StartInv, Zenon

\* Every step of a cache whose bulk calls were not torn keeps the invariant.
LEMMA NextInv ==
  ASSUME Sized, Inv, ~torn, [Next]_vars, ~torn'
  PROVE  Inv'
<1>1. ASSUME NEW t \in Threads, CallAlloc(t)
      PROVE  Inv'
  BY <1>1, CallAllocTurn, TurnKeeps, Zenon
<1>2. ASSUME NEW t \in Threads, CallFree(t)
      PROVE  Inv'
  BY <1>2, CallFreeTurn, TurnKeeps, Zenon
<1>3. ASSUME NEW t \in Threads, Unregister(t)
      PROVE  Inv'
  BY <1>3, UnregisterTurn, TurnKeeps, Zenon
<1>4. ASSUME NEW t \in Threads, AllocFromCache(t)
      PROVE  Inv'
  BY <1>4, AllocFromCacheTurn, TurnKeeps, Zenon
<1>5. ASSUME NEW t \in Threads, ReadRing(t)
      PROVE  Inv'
  BY <1>5, ReadRingTurn, TurnKeeps, Zenon
<1>6. ASSUME NEW t \in Threads, Reserve(t)
      PROVE  Inv'
  BY <1>6, ReserveKeeps, Zenon
<1>7. ASSUME NEW t \in Threads, FreeToCache(t)
      PROVE  Inv'
  BY <1>7, FreeToCacheTurn, TurnKeeps, Zenon
<1>8. ASSUME NEW t \in Threads, WriteRing(t)
      PROVE  Inv'
  BY <1>8, WriteRingTurn, TurnKeeps, Zenon
<1>9. ASSUME NEW t \in Threads, Return(t)
      PROVE  Inv'
  BY <1>9, ReturnTurn, TurnKeeps, Zenon
<1>10. ASSUME NEW t \in Threads, EmptyCache(t)
       PROVE  Inv'
  BY <1>10, EmptyCacheKeeps, Zenon
<1>11. CASE Destroy
  BY <1>11, DestroyKeeps, Zenon
<1>12. CASE UNCHANGED vars
  BY <1>12, StutterKeeps, Zenon
<1> QED BY <1>1, <1>2, <1>3, <1>4, <1>5, <1>6, <1>7, <1>8, <1>9, <1>10, <1>11, <1>12, Zenon
        DEF Next, Step, Tear

\* What holds at any time: the invariant, until a bulk call is torn.
IInv == torn \/ Inv

\* A torn cache stays torn.
LEMMA IInvStep ==
  ASSUME Sized, IInv, [Next]_vars
  PROVE  IInv'
<1>1. CASE torn
  <2>1. torn'
    BY <1>1, Zenon DEF Next, Step, Tear, Intact, vars
  <2> QED BY <2>1, Zenon DEF IInv
<1>2. CASE ~torn
  BY <1>2, NextInv, Zenon DEF IInv
<1> QED BY <1>1, <1>2, Zenon

-----------------------------------------------------------------------------
(* What it means                                                           *)

\* No more objects are counted than there are.
LEMMA InvObjects ==
  ASSUME Sized, Inv
  PROVE  ObjectsKept
<1>1. Types /\ Stages /\ OnePlace /\ LimitKept /\ Ends /\ NothingLeaks
  BY Zenon DEF Inv
<1>2. current_allocations \in 0 .. Cardinality(Objects)
  <2>1. conf.limit_size \in BOOLEAN /\ Cardinality(Objects) \in Nat
    BY <1>1, ConfFacts, CacheAssumption, Zenon DEF Types, Sized, SizeIsNat
  <2> QED BY <1>1, <2>1, LiveFinite DEF LimitKept, Ends, Types
<1>3. TypeOK
  BY <1>1, <1>2, Zenon DEF Types, TypeOK
<1>4. MinimumMet
  <2> SUFFICES ASSUME NEW t \in Threads, pc[t] = "return", call[t].op = "alloc"
               PROVE  Len(values[t]) \in call[t].min .. call[t].nb
    BY Zenon DEF MinimumMet
  <2>1. AllocStage(t) /\ call[t] \in Calls /\ values[t] \in Seq(Objects)
    BY <1>1, Zenon DEF Stages, Stage, FreeStage, Types
  <2>2. call[t].min \in Nat /\ call[t].nb \in Nat /\ Len(values[t]) \in Nat
    BY <2>1 DEF Calls
  <2> QED BY <2>1, <2>2 DEF AllocStage
<1> QED BY <1>1, <1>3, <1>4, Zenon DEF ObjectsKept

\* A call that writes has no more to write than the ring has room for.
LEMMA InvRoom ==
  ASSUME Sized, Inv
  PROVE  FreeFindsRoom
<1> SUFFICES ASSUME conf.limit_size, NEW t \in Threads,
                    pc[t] \in {"write_values", "write_cache", "unregister"}
             PROVE  call[t].need <= conf.buffer_size - Len(ring)
  BY Zenon DEF FreeFindsRoom
<1>1. Types /\ Stage(t)
  BY Zenon DEF Inv, Stages
<1>2. /\ Len(ring) + Len(cache[t]) <= conf.buffer_size
      /\ Len(ring) + Len(values[t]) <= conf.buffer_size
  BY RoomLeft, Zenon DEF Inv
<1>3. call[t].need <= Len(values[t]) \/ call[t].need <= Len(cache[t])
  BY <1>1 DEF Stage, FreeStage, Free, Types
<1>4. /\ Len(ring) \in Nat /\ Len(cache[t]) \in Nat /\ Len(values[t]) \in Nat
      /\ call[t].need \in Nat /\ conf.buffer_size \in Nat
  <2>1. /\ ring \in Seq(Objects) /\ cache[t] \in Seq(Objects) /\ values[t] \in Seq(Objects)
        /\ call[t] \in Calls
    BY <1>1, Zenon DEF Types
  <2>2. conf.buffer_size \in Nat
    BY <1>1, ConfFacts, Zenon DEF Types
  <2> QED BY <2>1, <2>2 DEF Calls
<1> DEFINE x == call[t].need
           a == Len(cache[t])
           b == Len(values[t])
<1> HIDE DEF x, a, b
<1>5. /\ Len(ring) + a <= conf.buffer_size /\ Len(ring) + b <= conf.buffer_size
      /\ x <= b \/ x <= a
      /\ Len(ring) \in Nat /\ a \in Nat /\ b \in Nat /\ x \in Nat /\ conf.buffer_size \in Nat
  BY <1>2, <1>3, <1>4, Zenon DEF x, a, b
<1>6. x <= conf.buffer_size - Len(ring)
  BY <1>5
<1> QED BY <1>6, Zenon DEF x

-----------------------------------------------------------------------------
(* The theorems                                                            *)

Sets == INSTANCE FiniteSetTheorems

\* Sets!IsFiniteSet and Sets!Cardinality are those of module FiniteSets.
LEMMA SameSets ==
  /\ \A S : Sets!IsFiniteSet(S) <=> IsFiniteSet(S)
  /\ \A S : Sets!Cardinality(S) = Cardinality(S)
BY Zenon DEF IsFiniteSet, Cardinality, Sets!IsFiniteSet, Sets!Cardinality

\* Finite sets have the sizes that the lemmas count on.
LEMMA SetsAreSized == Sized
<1>1. SizeOfEmpty
  BY SameSets, Sets!FS_EmptySet, Zenon DEF SizeOfEmpty
<1>2. SizeIsNat
  BY SameSets, Sets!FS_CardinalityType, Zenon DEF SizeIsNat
<1>3. SizeOfSubset
  BY SameSets, Sets!FS_Subset, Zenon DEF SizeOfSubset
<1>4. SizeOfUnion
  BY SameSets, Sets!FS_Union, Zenon DEF SizeOfUnion
<1>5. SizeNumbers
  <2> SUFFICES ASSUME NEW S, IsFiniteSet(S)
               PROVE  \E f \in [1 .. Cardinality(S) -> S] : IsInjective(f)
    BY Zenon DEF SizeNumbers
  <2>1. PICK f : f \in Sets!Bijection(1 .. Cardinality(S), S)
    BY SameSets, Sets!FS_CardinalityType, Zenon DEF Sets!ExistsBijection
  <2>2. f \in [1 .. Cardinality(S) -> S] /\ IsInjective(f)
    BY <2>1, Zenon DEF Sets!Bijection, Sets!Injection, Sets!IsInjective, IsInjective
  <2> QED BY <2>2, Zenon
<1>6. SizeOfRange
  <2> SUFFICES ASSUME NEW n \in Nat, NEW f \in [1 .. n -> Objects], IsInjective(f)
               PROVE  Cardinality(Range(f)) = n
    BY Zenon DEF SizeOfRange
  <2>0. f \in [1 .. n -> Range(f)] /\ \A y \in Range(f) : \E i \in 1 .. n : f[i] = y
    BY Zenon DEF Range
  <2>1. f \in Sets!Bijection(1 .. n, Range(f))
    BY <2>0, Zenon DEF Sets!Bijection, Sets!Injection, Sets!Surjection, Sets!IsInjective, IsInjective
  <2>2. Sets!ExistsBijection(1 .. n, Range(f))
    BY <2>1, Zenon DEF Sets!ExistsBijection
  <2> QED BY <2>2, SameSets, Sets!FS_CountingElements, Zenon
<1> QED BY <1>1, <1>2, <1>3, <1>4, <1>5, <1>6, Zenon DEF Sized

\* For any number of threads, any sizes and with or without a limit, and as long
\* as no bulk call of the ring was torn, every
\* object of the cache is in one place - the ring, a thread's cache, the array of
\* a call or the program's hands -, libtrace_ocache_alloc returns what it was
\* asked for, no more than buffer_size objects exist when there is a limit, and
\* libtrace_ocache_destroy frees all of them.
THEOREM ObjectsConserved ==
  Spec => []ObjectsKept
<1>1. Init => IInv
  BY SetsAreSized, InitInv, Zenon DEF IInv
<1>2. IInv /\ [Next]_vars => IInv'
  BY SetsAreSized, IInvStep, Zenon
<1>3. IInv => ObjectsKept
  BY SetsAreSized, InvObjects, Zenon DEF IInv, ObjectsKept
<1> QED BY <1>1, <1>2, <1>3, PTL DEF Spec

\* "reads will block (free never should)", for every size, as long as no bulk call
\* of the ring was torn: with a limit the ring
\* has room for whatever libtrace_ocache_free, or a thread that leaves with the
\* spin lock held, has still to write to it.
THEOREM FreeNeverBlocks ==
  Spec => []FreeFindsRoom
<1>1. Init => IInv
  BY SetsAreSized, InitInv, Zenon DEF IInv
<1>2. IInv /\ [Next]_vars => IInv'
  BY SetsAreSized, IInvStep, Zenon
<1>3. IInv => FreeFindsRoom
  BY SetsAreSized, InvRoom, Zenon DEF IInv, FreeFindsRoom
<1> QED BY <1>1, <1>2, <1>3, PTL DEF Spec
=============================================================================
