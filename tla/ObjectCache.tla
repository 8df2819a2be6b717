---------------------------- MODULE ObjectCache ----------------------------
(***************************************************************************)
(* The object cache of lib/data-struct/object_cache.c: a ring of recycled  *)
(* objects (the packets of a parallel trace), and a small cache of them in *)
(* every thread.  A round of a bulk call of the ring is one step of a FIFO *)
(* queue, which is what RingBuffer shows of it until a count of three or   *)
(* more items is torn.  The cache makes such calls: Tear marks where one   *)
(* may be torn, and the module says nothing of what follows.               *)
(***************************************************************************)
EXTENDS Integers, Sequences, FiniteSets, FiniteSetsExt

CONSTANTS
  Threads,   \* the threads that use the cache
  Objects,   \* the objects
  Nobody,    \* the holder of a free lock
  Configs    \* records of limit_size, buffer_size, thread_cache_size, the most
             \* objects a thread of the program has or asks for, and how many
             \* may exist at once (a bound)

ASSUME CacheAssumption ==
  /\ Threads # {} /\ Nobody \notin Threads /\ IsFiniteSet(Objects)
  /\ \A c \in Configs : /\ c.buffer_size \in Nat \ {0} /\ c.limit_size \in BOOLEAN
                        /\ c.thread_cache_size \in Nat /\ c.most \in Nat
                        /\ c.objects \in 0 .. Cardinality(Objects)

VARIABLES
  conf,                 \* the arguments of libtrace_ocache_init
  ring,                 \* oc->rb
  current_allocations,  \* oc->current_allocations
  thread_list,          \* oc->thread_list
  spin, rlock, wlock,   \* the holders of oc->spin and of the ring's two locks
  cache,                \* lc->cache[0 .. used-1] of each thread
  held,                 \* what the program has got from the cache, in each thread
  values,               \* the array of the call in progress
  call,                 \* its arguments and local variables
  pc,                   \* where each thread is
  destroyed,
  torn                  \* history: a bulk call of the ring was torn

shared == <<ring, current_allocations, thread_list, spin, rlock, wlock>>
vars == <<conf, shared, cache, held, values, call, pc, destroyed, torn>>

max_allocations == IF conf.limit_size THEN conf.buffer_size ELSE 0
total == conf.thread_cache_size
NoCall == [op |-> "none", nb |-> 0, min |-> 0, try |-> FALSE, lo |-> 0, need |-> 0]

InUse(t) == Range(held[t]) \cup Range(values[t]) \cup Range(cache[t])
Live == Range(ring) \cup UNION {InUse(t) : t \in Threads}
Fresh(n) == CHOOSE s \in [1 .. n -> Objects \ Live] : IsInjective(s)

Init ==
  /\ conf \in Configs
  /\ ring = <<>> /\ current_allocations = 0 /\ thread_list = {}
  /\ spin = Nobody /\ rlock = Nobody /\ wlock = Nobody
  /\ cache = [t \in Threads |-> <<>>] /\ held = cache /\ values = cache
  /\ call = [t \in Threads |-> NoCall]
  /\ pc = [t \in Threads |-> "idle"]
  /\ destroyed = FALSE /\ torn = FALSE

Goto(t, label) == pc' = [pc EXCEPT ![t] = label]
SetCall(t, c) == call' = [call EXCEPT ![t] = c]
SetValues(t, v) == values' = [values EXCEPT ![t] = v]
SetCache(t, c) == cache' = [cache EXCEPT ![t] = c]
Drop(s, n) == SubSeq(s, n + 1, Len(s))
Take(s, n) == SubSeq(s, 1, n)

\* Mutant: objects are copied from the front of the cache, and stay there.
Top_Front(s, n) == Take(s, n)
\* Objects are taken from the end of a cache: &lc->cache[lc->used - n].
Top(s, n) == Drop(s, Len(s) - n)

\* find_cache: the first call of a thread registers its cache, under the spin
\* lock.  With no thread caches there is nothing to find.
FindCache(t) ==
  IF total = 0 \/ t \in thread_list THEN thread_list' = thread_list
  ELSE spin = Nobody /\ thread_list' = thread_list \cup {t}

-----------------------------------------------------------------------------
(* libtrace_ocache_alloc                                                   *)

\* try_alloc is read without the lock.
TryAlloc == ~(max_allocations # 0 /\ max_allocations <= current_allocations)

\* Mutant: the ring is waited for before an allocation is tried.
FirstMinimum_Always(min) == min
\* The minimum of the first attempt.
FirstMinimum(min) == IF TryAlloc THEN 0 ELSE min

CallAlloc(t) ==
  /\ pc[t] = "idle" /\ ~destroyed
  /\ \E nb \in 1 .. conf.most, min \in 0 .. conf.most :
       /\ min <= nb /\ Len(held[t]) + nb <= conf.most
       /\ max_allocations # 0 => nb < max_allocations
       /\ SetCall(t, [op |-> "alloc", nb |-> nb, min |-> min, try |-> TryAlloc,
                      lo |-> FirstMinimum(min), need |-> 0])
  /\ FindCache(t)
  /\ Goto(t, "from_cache")
  /\ UNCHANGED <<conf, ring, current_allocations, spin, rlock, wlock, cache, held, values,
                 destroyed>>

\* Where the call goes when libtrace_ocache_alloc_cache is done with it.
AfterRead(c) == IF c.try THEN "reserve" ELSE "return"

\* The start of libtrace_ocache_alloc_cache: enough is cached, or too much is
\* asked for to pass through the cache, or the cache is emptied and will be
\* refilled.  Without caches the ring is read at once.
AllocFromCache(t) ==
  LET c == call[t]
      want == c.nb - Len(values[t])
      used == Len(cache[t])
  IN /\ pc[t] = "from_cache"
     /\ \/ /\ total # 0 /\ want <= used
           /\ SetValues(t, values[t] \o Top(cache[t], want))
           /\ SetCache(t, Take(cache[t], used - want))
           /\ SetCall(t, [c EXCEPT !.lo = 0])
           /\ Goto(t, AfterRead(c))
        \/ /\ total = 0 \/ want > used
           /\ total = 0 \/ want > total
           /\ SetCall(t, [c EXCEPT !.need = c.lo])
           /\ Goto(t, "read_values")
           /\ UNCHANGED <<values, cache>>
        \/ /\ total # 0 /\ want > used /\ want <= total
           /\ SetValues(t, values[t] \o cache[t])
           /\ SetCache(t, <<>>)
           /\ SetCall(t, [c EXCEPT !.need = IF used < c.lo THEN c.lo - used ELSE 0])
           /\ Goto(t, "read_cache")
     /\ UNCHANGED <<conf, shared, held, destroyed>>

\* "Try fill the remaining": what the cache has is moved to values.
Fill(t, v, cached) ==
  LET n == Min({Len(cached), call[t].nb - Len(v)})
  IN /\ SetValues(t, v \o Top(cached, n))
     /\ SetCache(t, Take(cached, Len(cached) - n))

\* libtrace_ringbuffer_sread_bulk: one round of its loop.  The read lock is
\* kept until the minimum has been read.
ReadRing(t) ==
  LET c == call[t]
      into == IF pc[t] = "read_values" THEN values[t] ELSE cache[t]
      room == IF pc[t] = "read_values" THEN c.nb - Len(into) ELSE total - Len(into)
      n == Min({room, Len(ring)})
      got == into \o Take(ring, n)
      need == Max({c.need - n, 0})
  IN /\ pc[t] \in {"read_values", "read_cache"}
     /\ \/ rlock \in {Nobody, t} /\ (c.need > 0 => Len(ring) > 0)
        \/ c.need = 0 /\ Len(ring) = 0
     /\ ring' = Drop(ring, n)
     /\ IF need > 0
          THEN /\ rlock' = t
               /\ SetCall(t, [c EXCEPT !.need = need])
               /\ IF pc[t] = "read_values" THEN SetValues(t, got) /\ UNCHANGED cache
                                           ELSE SetCache(t, got) /\ UNCHANGED values
               /\ UNCHANGED pc
          ELSE /\ rlock' = IF rlock = t THEN Nobody ELSE rlock
               /\ SetCall(t, [c EXCEPT !.need = 0, !.lo = 0])
               /\ IF pc[t] = "read_values" THEN Fill(t, got, cache[t])
                                           ELSE Fill(t, values[t], got)
               /\ Goto(t, AfterRead(c))
     /\ UNCHANGED <<conf, current_allocations, thread_list, spin, wlock, held, destroyed>>

\* Mutant: the limit was tested when the call began.
Allowance_Unlimited(missing) == missing
\* How many of the missing objects are allocated: computed inside the spin lock.
Allowance(missing) ==
  IF conf.limit_size THEN Min({max_allocations - current_allocations, missing}) ELSE missing

\* Mutant: the second attempt waits for nothing.
StillNeeded_None(c, got) == 0
\* The minimum of the second attempt.
StillNeeded(c, got) == Max({c.min - got, 0})

\* The rest is allocated, as far as the limit allows; what is then missing
\* from the minimum is waited for.
Reserve(t) ==
  LET c == call[t]
      n == Allowance(c.nb - Len(values[t]))
      all == values[t] \o Fresh(n)
  IN /\ pc[t] = "reserve" /\ spin = Nobody
     /\ n + Cardinality(Live) <= conf.objects
     /\ current_allocations' = current_allocations + IF conf.limit_size THEN n ELSE 0
     /\ SetValues(t, all)
     /\ SetCall(t, [c EXCEPT !.try = FALSE, !.lo = StillNeeded(c, Len(all))])
     /\ Goto(t, IF Len(all) < c.min THEN "from_cache" ELSE "return")
     /\ UNCHANGED <<conf, ring, thread_list, spin, rlock, wlock, cache, held, destroyed>>

-----------------------------------------------------------------------------
(* libtrace_ocache_free                                                    *)

\* The program gives back some of what it has; the rest of its objects stay
\* in held.
CallFree(t) ==
  /\ pc[t] = "idle" /\ ~destroyed
  /\ \E nb \in 1 .. Len(held[t]), min \in 0 .. conf.most :
       /\ min <= nb
       /\ max_allocations # 0 => nb < max_allocations
       /\ SetCall(t, [NoCall EXCEPT !.op = "free", !.nb = nb, !.min = min,
                                    !.lo = IF conf.limit_size THEN min ELSE 0])
       /\ SetValues(t, Take(held[t], nb))
       /\ held' = [held EXCEPT ![t] = Drop(@, nb)]
  /\ FindCache(t)
  /\ Goto(t, "to_cache")
  /\ UNCHANGED <<conf, ring, current_allocations, spin, rlock, wlock, cache, destroyed>>

\* Mutant: the cache is taken to be empty.
Space_Empty(t) == total
\* The room in a thread's cache.
Space(t) == total - Len(cache[t])

\* The start of libtrace_ocache_free_cache: there is room in the cache, or the
\* values go to the ring, or the cache is filled and will be emptied.
FreeToCache(t) ==
  LET c == call[t]
      space == Space(t)
  IN /\ pc[t] = "to_cache"
     /\ \/ /\ total # 0 /\ c.nb <= space
           /\ SetCache(t, cache[t] \o values[t])
           /\ SetValues(t, <<>>)
           /\ Goto(t, "return")
           /\ UNCHANGED call
        \/ /\ total = 0 \/ c.nb > space
           /\ total = 0 \/ c.nb > total
           /\ SetCall(t, [c EXCEPT !.need = c.lo])
           /\ Goto(t, "write_values")
           /\ UNCHANGED <<values, cache>>
        \/ /\ total # 0 /\ c.nb > space /\ c.nb <= total
           /\ SetCache(t, cache[t] \o Take(values[t], space))
           /\ SetValues(t, Drop(values[t], space))
           /\ SetCall(t, [c EXCEPT !.need = IF space < c.lo THEN c.lo - space ELSE 0])
           /\ Goto(t, "write_cache")
     /\ UNCHANGED <<conf, shared, held, destroyed>>

\* "Try empty the remaining": the cache takes what it has room for.
Stow(t, v, cached) ==
  LET n == Min({total - Len(cached), Len(v)})
  IN /\ SetCache(t, cached \o Take(v, n))
     /\ SetValues(t, Drop(v, n))

\* libtrace_ringbuffer_swrite_bulk: one round of its loop.
WriteRing(t) ==
  LET c == call[t]
      from == IF pc[t] = "write_values" THEN values[t] ELSE cache[t]
      n == Min({Len(from), conf.buffer_size - Len(ring)})
      left == Drop(from, n)
      need == Max({c.need - n, 0})
  IN /\ pc[t] \in {"write_values", "write_cache"}
     /\ \/ wlock \in {Nobody, t} /\ (c.need > 0 => Len(ring) < conf.buffer_size)
        \/ c.need = 0 /\ Len(ring) = conf.buffer_size
     /\ ring' = ring \o Take(from, n)
     /\ IF need > 0
          THEN /\ wlock' = t
               /\ SetCall(t, [c EXCEPT !.need = need])
               /\ IF pc[t] = "write_values" THEN SetValues(t, left) /\ UNCHANGED cache
                                            ELSE SetCache(t, left) /\ UNCHANGED values
               /\ UNCHANGED pc
          ELSE /\ wlock' = IF wlock = t THEN Nobody ELSE wlock
               /\ SetCall(t, [c EXCEPT !.need = 0, !.lo = 0])
               /\ IF pc[t] = "write_values" THEN Stow(t, left, cache[t])
                                            ELSE Stow(t, values[t], left)
               /\ Goto(t, "return")
     /\ UNCHANGED <<conf, current_allocations, thread_list, spin, rlock, held, destroyed>>

\* The end of either call.  A cache without a limit frees what found no place,
\* up to the minimum; the rest is the program's still.
Return(t) ==
  LET c == call[t]
      done == c.nb - Len(values[t])
      dead == IF c.op = "free" /\ ~conf.limit_size /\ done < c.min THEN c.min - done ELSE 0
  IN /\ pc[t] = "return"
     /\ held' = [held EXCEPT ![t] = @ \o Drop(values[t], dead)]
     /\ SetValues(t, <<>>) /\ SetCall(t, NoCall) /\ Goto(t, "idle")
     /\ UNCHANGED <<conf, shared, cache, destroyed>>

-----------------------------------------------------------------------------
(* A thread leaves, and the end                                            *)

\* libtrace_ocache_unregister_thread, and destroy_memory_caches, when a thread
\* has given back what it had and ends: the spin lock is held while the ring is
\* written.
Unregister(t) ==
  /\ pc[t] = "idle" /\ held[t] = <<>> /\ spin = Nobody /\ total # 0 /\ ~destroyed
  /\ thread_list' = thread_list \ {t}
  /\ spin' = t
  /\ Goto(t, "unregister")
  /\ SetCall(t, [NoCall EXCEPT !.op = "unregister", !.need = Len(cache[t])])
  /\ UNCHANGED <<conf, ring, current_allocations, rlock, wlock, cache, held, values, destroyed>>

\* Mutant: cached objects are freed with or without a limit.
Recycled_Never == FALSE
\* Whether the objects of a cache outlive it.
Recycled == conf.limit_size

\* The rest of unregister_thread: with a limit the cached objects go to the
\* ring, all of them; without one they are freed.
EmptyCache(t) ==
  LET n == IF Recycled THEN Min({Len(cache[t]), conf.buffer_size - Len(ring)}) ELSE 0
      all == ~Recycled \/ n = Len(cache[t])
  IN /\ pc[t] = "unregister" /\ spin = t
     /\ Recycled => wlock \in {Nobody, t} /\ (n > 0 \/ cache[t] = <<>>)
     /\ ring' = ring \o Take(cache[t], n)
     /\ IF all THEN /\ spin' = Nobody /\ SetCall(t, NoCall) /\ Goto(t, "gone")
                    /\ wlock' = IF wlock = t THEN Nobody ELSE wlock
                    /\ SetCache(t, <<>>)
               ELSE /\ wlock' = t /\ SetCache(t, Drop(cache[t], n))
                    /\ UNCHANGED <<spin, call, pc>>
     /\ UNCHANGED <<conf, current_allocations, thread_list, rlock, held, values, destroyed>>

\* libtrace_ocache_destroy: "Call this only once all memory has been free'd
\* back".  Every cache that is still registered is emptied, then the ring.
Destroy ==
  LET back == IF conf.limit_size THEN UNION {Range(cache[t]) : t \in thread_list} ELSE {}
  IN /\ ~destroyed /\ \A t \in Threads : pc[t] \in {"idle", "gone"} /\ held[t] = <<>>
     /\ Cardinality(back) + Len(ring) <= conf.buffer_size
     /\ ring' = <<>>
     /\ current_allocations' = IF conf.limit_size
                               THEN current_allocations - Len(ring) - Cardinality(back)
                               ELSE 0
     /\ cache' = [t \in Threads |-> IF t \in thread_list THEN <<>> ELSE cache[t]]
     /\ thread_list' = {}
     /\ destroyed' = TRUE
     /\ UNCHANGED <<conf, spin, rlock, wlock, held, values, call, pc>>

-----------------------------------------------------------------------------
(* Bulk calls that are torn                                                *)

\* What a round of a reader's, and of a writer's, bulk call still asks for.
ReadsLeft(t) ==
  CASE pc[t] = "read_values" -> call[t].nb - Len(values[t])
    [] pc[t] = "read_cache" -> total - Len(cache[t])
    [] OTHER -> 0
WritesLeft(t) ==
  CASE pc[t] = "write_values" -> Len(values[t])
    [] pc[t] = "write_cache" \/ (pc[t] = "unregister" /\ conf.limit_size) -> Len(cache[t])
    [] OTHER -> 0

\* One thread reads and another writes, and one of them counts while the other
\* publishes its index: RingBuffer's Count.
Tear ==
  /\ ~torn
  /\ \E t, u \in Threads :
       /\ t # u /\ rlock \in {Nobody, t} /\ wlock \in {Nobody, u}
       /\ ReadsLeft(t) > 0 /\ WritesLeft(u) > 0
       /\ ReadsLeft(t) > 2 \/ WritesLeft(u) > 2
  /\ torn' = TRUE
  /\ UNCHANGED <<conf, shared, cache, held, values, call, pc, destroyed>>

Intact == ~torn /\ torn' = FALSE

Step(t) ==
  /\ Intact
  /\ \/ AllocFromCache(t) \/ ReadRing(t) \/ Reserve(t)
     \/ FreeToCache(t) \/ WriteRing(t) \/ Return(t) \/ EmptyCache(t)

Next == \/ \E t \in Threads : Intact /\ (CallAlloc(t) \/ CallFree(t) \/ Unregister(t))
        \/ \E t \in Threads : Step(t)
        \/ Intact /\ Destroy
        \/ Tear
        \/ (destroyed \/ torn) /\ UNCHANGED vars

Spec == Init /\ [][Next]_vars

\* Every thread runs until its call returns.
FairSpec == Spec /\ \A t \in Threads : WF_vars(Step(t))

-----------------------------------------------------------------------------
TypeOK ==
  /\ conf \in Configs
  /\ ring \in Seq(Objects) /\ Len(ring) <= conf.buffer_size
  /\ current_allocations \in 0 .. Cardinality(Objects)
  /\ thread_list \subseteq Threads
  /\ {spin, rlock, wlock} \subseteq Threads \cup {Nobody}
  /\ \A t \in Threads : /\ cache[t] \in Seq(Objects) /\ Len(cache[t]) <= total
                        /\ held[t] \in Seq(Objects) /\ values[t] \in Seq(Objects)
  /\ destroyed \in BOOLEAN

\* No object is in two places: the copies between arrays, caches and the ring
\* hand every packet to one owner.
OnePlace ==
  /\ \A t \in Threads : IsInjective(ring \o cache[t] \o held[t] \o values[t])
  /\ \A t, u \in Threads : t # u => InUse(t) \cap InUse(u) = {}

\* With a limit every object that was allocated is still somewhere, and there
\* are at most buffer_size of them ("no more objects than buffer_size will be
\* allocated"), however the calls interleave.
LimitKept ==
  conf.limit_size => /\ current_allocations = Cardinality(Live)
                     /\ current_allocations <= max_allocations

\* "reads will block (free never should)": until a bulk call is torn, a call
\* that writes to the ring always finds room for the minimum it still has to
\* write, also when a thread leaves, which it does with the spin lock held.
FreeFindsRoom ==
  ~torn /\ conf.limit_size =>
    \A t \in Threads : pc[t] \in {"write_values", "write_cache", "unregister"} =>
      call[t].need <= conf.buffer_size - Len(ring)

\* alloc returns at least the minimum it was asked for (the last assert of
\* libtrace_ocache_alloc) and at most the number.
MinimumMet ==
  \A t \in Threads : pc[t] = "return" /\ call[t].op = "alloc" =>
    Len(values[t]) \in call[t].min .. call[t].nb

\* Destroying a cache to which all was given back leaks nothing: every object
\* has been freed, and the count that is printed is zero.
NothingLeaks == destroyed => current_allocations = 0 /\ Live = {}

\* When the cache has room for what the program's threads may have and for what
\* their caches may hide, an alloc returns, whoever else waits or leaves, unless
\* a bulk call is torn.
Enough == /\ conf.limit_size
          /\ conf.most <= total
          /\ conf.buffer_size >= conf.most * Cardinality(Threads) + total * (Cardinality(Threads) - 1)
AllocReturns ==
  \A t \in Threads : Enough /\ call[t].op = "alloc" ~> pc[t] = "idle" \/ torn

\* Until a bulk call is torn, objects are conserved through every call: each is in
\* one place, there are no more than the limit, alloc gives what it was asked for,
\* and destroy finds all.
ObjectsKept ==
  ~torn => TypeOK /\ OnePlace /\ LimitKept /\ MinimumMet /\ NothingLeaks
=============================================================================
