------------------------- MODULE ObjectCacheSteps --------------------------
(***************************************************************************)
(* The lemmas of ObjectCacheProofs, second part: the other steps of        *)
(* ObjectCache are turns of their threads.  What they need to know of the  *)
(* number of objects is their assumption.                                  *)
(***************************************************************************)
EXTENDS ObjectCacheMoves

\* A call of libtrace_ocache_free begins: the values are some of the program's.
LEMMA CallFreeTurn ==
  ASSUME Inv, NEW t \in Threads, CallFree(t)
  PROVE  Turn(t, {}) /\ current_allocations' = current_allocations
<1>w. AtWork(t)
  BY Working, Zenon
<1>0. /\ pc[t] = "idle" /\ ~destroyed /\ FindCache(t) /\ pc' = [pc EXCEPT ![t] = "to_cache"]
      /\ UNCHANGED <<conf, ring, current_allocations, spin, rlock, wlock, cache, destroyed>>
  BY Zenon DEF CallFree, Goto
<1> DEFINE h0 == held[t]
<1>1. PICK nb \in 1 .. Len(h0), min \in 0 .. conf.most :
        /\ min <= nb
        /\ call' = [call EXCEPT ![t] = [NoCall EXCEPT !.op = "free", !.nb = nb, !.min = min,
                                             !.lo = IF conf.limit_size THEN min ELSE 0]]
        /\ values' = [values EXCEPT ![t] = Take(h0, nb)]
        /\ held' = [held EXCEPT ![t] = Drop(h0, nb)]
  BY Zenon DEF CallFree, SetCall, SetValues
<1>2. /\ Types /\ h0 \in Seq(Objects) /\ values[t] = <<>> /\ conf.most \in Nat
      /\ Good(ring, cache[t], h0, <<>>)
  BY <1>w, <1>0, ConfFacts, Zenon DEF AtWork, Types, Stage
<1> DEFINE v == Take(h0, nb)
           h == Drop(h0, nb)
           x == IF conf.limit_size THEN min ELSE 0
           d == [NoCall EXCEPT !.op = "free", !.nb = nb, !.min = min, !.lo = x]
<1> HIDE DEF h0
<1>3. nb \in 0 .. Len(h0) /\ nb \in Nat /\ min \in Nat /\ x \in Nat /\ x <= min
  BY <1>1, <1>2
<1>4. d \in Calls /\ d.op = "free" /\ d.nb = nb /\ d.min = min /\ d.lo = x
  <2> HIDE DEF x
  <2> QED BY <1>3, Zenon DEF NoCall, Calls
<1> HIDE DEF d, x
<1>5. Passed(ring, cache[t], h0, <<>>, ring, cache[t], h, <<>> \o v)
  BY <1>2, <1>3, HeldToValues, Zenon
<1>6. v \in Seq(Objects) /\ h \in Seq(Objects) /\ Len(v) = nb
  <2>1. IsInjective(h0)
    BY <1>2, Zenon DEF Good, Separate
  <2> QED BY <1>2, <1>3, <2>1, Cut, Zenon DEF Parts
<1> HIDE DEF v, h
<1>7. <<>> \o v = v
  BY <1>6
<1>8. Passed(ring, cache[t], h0, values[t], ring, cache[t], h, v)
  BY <1>2, <1>5, <1>7, Zenon
<1>9. /\ values' = [values EXCEPT ![t] = v] /\ held' = [held EXCEPT ![t] = h]
      /\ call' = [call EXCEPT ![t] = d]
  BY <1>1, Zenon DEF v, h, d, x
<1>10. /\ values' \in [Threads -> Seq(Objects)] /\ held' \in [Threads -> Seq(Objects)]
       /\ values'[t] = v /\ held'[t] = h
       /\ \A u \in Threads \ {t} : values'[u] = values[u] /\ held'[u] = held[u]
  BY <1>2, <1>6, <1>9, Zenon DEF Types
<1>11. Moves(t, {})
  <2>1. Good(ring', cache'[t], held'[t], values'[t])
    BY <1>0, <1>8, <1>10, Zenon DEF Passed
  <2>2. Held(t)' = Held(t)
    BY <1>0, <1>8, <1>10, Zenon DEF Held, Passed, h0
  <2> QED BY <1>0, <1>10, <2>1, <2>2, Zenon DEF Moves
<1>12. /\ call' \in [Threads -> Calls] /\ pc' \in [Threads -> Labels]
       /\ call'[t] = d /\ pc'[t] = "to_cache"
       /\ \A u \in Threads \ {t} : call'[u] = call[u] /\ pc'[u] = pc[u]
  <2>1. "to_cache" \in Labels
    BY Zenon DEF Labels, Free
  <2> QED BY <1>0, <1>2, <1>4, <1>9, <2>1, WentOn, Zenon
<1>13. FreeStage(t)'
  BY <1>1, <1>3, <1>4, <1>6, <1>10, <1>12 DEF FreeStage
<1>14. Stage(t)'
  BY <1>12, <1>13, Zenon DEF Stage, Alloc, Free
<1>15. /\ Listed(t)' /\ thread_list' \subseteq Threads
       /\ \A u \in Threads \ {t} : u \in thread_list' <=> u \in thread_list
  BY <1>w, <1>0, FoundCache, Zenon DEF Listed, AtWork
<1> QED BY <1>w, <1>0, <1>10, <1>11, <1>12, <1>14, <1>15, Zenon DEF Turn, AtWork, Types

\* Either call ends: the program has the values, or what is left of them.
LEMMA ReturnTurn ==
  ASSUME Inv, NEW t \in Threads, Return(t)
  PROVE  Turn(t, {}) /\ current_allocations' = current_allocations
<1> DEFINE c == call[t]
           v0 == values[t]
           done == c.nb - Len(v0)
           n == IF c.op = "free" /\ ~conf.limit_size /\ done < c.min THEN c.min - done ELSE 0
           h == held[t] \o Drop(v0, n)
<1>w. AtWork(t)
  BY Working
<1>0. /\ pc[t] = "return" /\ held' = [held EXCEPT ![t] = h]
      /\ values' = [values EXCEPT ![t] = <<>>] /\ call' = [call EXCEPT ![t] = NoCall]
      /\ pc' = [pc EXCEPT ![t] = "idle"]
      /\ UNCHANGED <<conf, ring, current_allocations, thread_list, spin, rlock, wlock, cache, destroyed>>
  BY Zenon DEF Return, SetValues, SetCall, Goto, shared
<1>1. /\ c.min <= c.nb /\ Len(v0) <= c.nb /\ c.min \in Nat /\ c.nb \in Nat
      /\ Len(v0) \in Nat /\ Types /\ Good(ring, cache[t], held[t], v0)
  BY <1>w, <1>0, Zenon DEF AtWork, Stage, AllocStage, FreeStage
<1>2. n \in 0 .. Len(v0)
  <2> HIDE DEF c, v0
  <2> QED BY <1>1
<1>3. conf.limit_size => n = 0
  BY Zenon
<1> HIDE DEF n
<1>4. /\ Good(ring, cache[t], h, <<>>)
      /\ All(ring, cache[t], h, <<>>) \subseteq All(ring, cache[t], held[t], v0)
      /\ n = 0 => All(ring, cache[t], h, <<>>) = All(ring, cache[t], held[t], v0)
  BY <1>1, <1>2, ValuesToHeld
<1> HIDE DEF h
<1>5. h \in Seq(Objects) /\ <<>> \in Seq(Objects)
  BY <1>4, Zenon DEF Good
<1>6. /\ values' \in [Threads -> Seq(Objects)] /\ held' \in [Threads -> Seq(Objects)]
      /\ values'[t] = <<>> /\ held'[t] = h
      /\ \A u \in Threads \ {t} : values'[u] = values[u] /\ held'[u] = held[u]
  BY <1>0, <1>1, <1>5, Zenon DEF Types
<1>7. Moves(t, {})
  <2>1. Good(ring', cache'[t], held'[t], values'[t])
    BY <1>0, <1>4, <1>6, Zenon
  <2>2. Held(t)' \subseteq Held(t) \cup {} /\ (conf.limit_size => Held(t)' = Held(t) \cup {})
    BY <1>0, <1>3, <1>4, <1>6, Zenon DEF Held
  <2> QED BY <1>0, <1>6, <2>1, <2>2, Zenon DEF Moves
<1>8. /\ call' \in [Threads -> Calls] /\ pc' \in [Threads -> Labels]
      /\ call'[t] = NoCall /\ pc'[t] = "idle"
      /\ \A u \in Threads \ {t} : call'[u] = call[u] /\ pc'[u] = pc[u]
  <2>1. "idle" \in Labels /\ NoCall \in Calls
    BY NoCallFields, Zenon DEF Labels
  <2> QED BY <1>0, <1>1, <2>1, WentOn, Zenon
<1>9. Stage(t)'
  BY <1>6, <1>8, Zenon DEF Stage, Alloc, Free
<1>10. Rest(t)
  BY <1>w, <1>0, <1>6, <1>7, <1>8, <1>9, Zenon DEF Rest, AtWork, Types
<1> QED BY <1>0, <1>1, <1>10, RestTurn, Zenon DEF Types

\* libtrace_ocache_free_cache begins: the values go to the cache if they can.
LEMMA FreeToCacheTurn ==
  ASSUME Inv, NEW t \in Threads, FreeToCache(t)
  PROVE  Turn(t, {}) /\ current_allocations' = current_allocations
<1> DEFINE c == call[t]
           v0 == values[t]
           c0 == cache[t]
           space == total - Len(c0)
<1>w. AtWork(t)
  BY Working
<1>0. /\ pc[t] = "to_cache" /\ UNCHANGED <<conf, held, destroyed>>
      /\ UNCHANGED <<ring, current_allocations, thread_list, spin, rlock, wlock>>
  BY Zenon DEF FreeToCache, shared
<1>g. Good(ring, c0, held[t], v0)
  BY <1>w, Zenon DEF AtWork
<1>1. c \in Calls /\ c.op = "free" /\ c.min <= c.nb /\ Len(v0) = c.nb /\ c.lo <= c.min
  BY <1>w, <1>0, Zenon DEF AtWork, Stage, FreeStage, Free
<1>n. /\ v0 \in Seq(Objects) /\ c0 \in Seq(Objects) /\ Len(v0) \in Nat /\ Len(c0) \in Nat
      /\ Len(c0) <= total /\ total \in Nat /\ c.nb \in Nat /\ c.min \in Nat /\ c.lo \in Nat
      /\ Len(ring) <= conf.buffer_size /\ {spin, rlock, wlock} \subseteq Threads \cup {Nobody}
  BY <1>w, Zenon DEF AtWork, Types
<1>2. SUFFICES Rest(t)
  BY <1>0, <1>2, <1>n, RestTurn, Zenon DEF Free
<1>3. \/ /\ c.nb <= space /\ SetCache(t, c0 \o v0) /\ SetValues(t, <<>>) /\ Goto(t, "return")
         /\ UNCHANGED call
      \/ /\ SetCall(t, [c EXCEPT !.need = c.lo]) /\ Goto(t, "write_values")
         /\ UNCHANGED <<values, cache>>
      \/ /\ c.nb > space /\ c.nb <= total /\ SetCache(t, c0 \o Take(v0, space))
         /\ SetValues(t, Drop(v0, space))
         /\ SetCall(t, [c EXCEPT !.need = IF space < c.lo THEN c.lo - space ELSE 0])
         /\ Goto(t, "write_cache")
  BY Zenon DEF FreeToCache, Space
<1>4. CASE /\ c.nb <= space /\ SetCache(t, c0 \o v0) /\ SetValues(t, <<>>) /\ Goto(t, "return")
           /\ UNCHANGED call
  <2> DEFINE k == c0 \o v0
  <2>1. Passed(ring, c0, held[t], v0, ring, k, held[t], <<>>)
    BY <1>g, ValuesAllToCache, Zenon
  <2>2. Len(k) = Len(c0) + Len(v0)
    BY <1>n, Joined, Zenon
  <2>3. cache' = [cache EXCEPT ![t] = k] /\ values' = [values EXCEPT ![t] = <<>>]
    BY <1>4, Zenon DEF SetCache, SetValues
  <2>4. /\ call' \in [Threads -> Calls] /\ pc' \in [Threads -> Labels]
        /\ call'[t] = c /\ pc'[t] = "return"
        /\ \A u \in Threads \ {t} : call'[u] = call[u] /\ pc'[u] = pc[u]
    <3>1. pc' = [pc EXCEPT ![t] = "return"] /\ call' = call /\ "return" \in Labels
      BY <1>4, Zenon DEF Goto, Labels
    <3> QED BY <1>w, <3>1, Zenon DEF AtWork, Types
  <2>a. c.nb <= space
    BY <1>4, Zenon
  <2> HIDE DEF k, c, c0, v0
  <2>5. Len(k) <= total
    BY <1>1, <1>n, <2>a, <2>2
  <2>6. /\ Moves(t, {})
        /\ cache' \in [Threads -> Seq(Objects)] /\ held' \in [Threads -> Seq(Objects)]
        /\ values' \in [Threads -> Seq(Objects)] /\ cache'[t] = k /\ values'[t] = <<>>
    BY <1>w, <1>0, <2>1, <2>3, Moved, Zenon DEF AtWork, c0, v0
  <2>7. Len(values'[t]) = 0
    BY <2>6
  <2>8. FreeStage(t)'
    BY <1>1, <1>n, <2>4, <2>7 DEF FreeStage
  <2>9. Stage(t)'
    BY <2>4, <2>8, Zenon DEF Stage, Alloc, Free
  <2> QED BY <2>4, <2>5, <2>6, <2>9, Zenon DEF Rest
<1>5. CASE /\ SetCall(t, [c EXCEPT !.need = c.lo]) /\ Goto(t, "write_values")
           /\ UNCHANGED <<values, cache>>
  <2> DEFINE d == [c EXCEPT !.need = c.lo]
  <2>1. /\ d \in Calls /\ d.op = c.op /\ d.nb = c.nb /\ d.min = c.min
        /\ d.need = c.lo
    BY <1>1, CallNeed, CallTypes, Zenon
  <2> HIDE DEF d
  <2>2. /\ call' \in [Threads -> Calls] /\ pc' \in [Threads -> Labels]
        /\ call'[t] = d /\ pc'[t] = "write_values"
        /\ \A u \in Threads \ {t} : call'[u] = call[u] /\ pc'[u] = pc[u]
    <3>1. call' = [call EXCEPT ![t] = d] /\ pc' = [pc EXCEPT ![t] = "write_values"]
      BY <1>5, Zenon DEF SetCall, Goto, d
    <3>2. "write_values" \in Labels
      BY Zenon DEF Labels, Free
    <3> QED BY <1>w, <2>1, <3>1, <3>2, WentOn, Zenon DEF AtWork
  <2> HIDE DEF c
  <2>3. values'[t] = v0 /\ Len(v0) <= c.nb /\ c.lo <= Len(v0)
    <3>1. values'[t] = v0
      BY <1>5, Zenon
    <3> HIDE DEF v0
    <3> QED BY <3>1, <1>1, <1>n
  <2>4. FreeStage(t)'
    <3> HIDE DEF v0
    <3> QED BY <1>1, <2>1, <2>2, <2>3, Zenon DEF FreeStage
  <2>5. Stage(t)'
    BY <2>2, <2>4, Zenon DEF Stage, Alloc, Free
  <2>6. Moves(t, {})
    BY <1>0, <1>5, Still, Zenon
  <2> QED BY <1>w, <1>0, <1>5, <1>n, <2>2, <2>5, <2>6, Zenon DEF Types, AtWork, Rest
<1>6. CASE /\ c.nb > space /\ c.nb <= total /\ SetCache(t, c0 \o Take(v0, space))
           /\ SetValues(t, Drop(v0, space))
           /\ SetCall(t, [c EXCEPT !.need = IF space < c.lo THEN c.lo - space ELSE 0])
           /\ Goto(t, "write_cache")
  <2> DEFINE k == c0 \o Take(v0, space)
             v == Drop(v0, space)
             x == IF space < c.lo THEN c.lo - space ELSE 0
             d == [c EXCEPT !.need = x]
  <2>1. cache' = [cache EXCEPT ![t] = k] /\ values' = [values EXCEPT ![t] = v]
    BY <1>6, Zenon DEF SetCache, SetValues
  <2>2. call' = [call EXCEPT ![t] = d] /\ pc' = [pc EXCEPT ![t] = "write_cache"]
    BY <1>6, Zenon DEF SetCall, Goto
  <2>a. c.nb > space /\ c.nb <= total
    BY <1>6, Zenon
  <2> HIDE DEF c, c0, v0
  <2>3. space \in 0 .. Len(v0) /\ x \in Nat /\ x <= total /\ space + Len(c0) = total
    BY <1>1, <1>n, <2>a
  <2> HIDE DEF space, x
  <2>4. /\ Passed(ring, c0, held[t], v0, ring, k, held[t], v)
        /\ Len(k) = Len(c0) + space /\ Len(v) = Len(v0) - space
    BY <1>g, <2>3, ValuesToCache
  <2>5. d \in Calls /\ d.op = c.op /\ d.nb = c.nb /\ d.min = c.min /\ d.need = x
    BY <1>1, <2>3, CallNeed, Zenon
  <2>6. k \in Seq(Objects) /\ v \in Seq(Objects)
    BY <2>4, Zenon DEF Passed, Good
  <2> HIDE DEF k, v, d
  <2>7. Len(k) = total /\ Len(v) <= c.nb
    BY <1>1, <1>n, <2>3, <2>4, <2>6
  <2>8. /\ Moves(t, {})
        /\ cache' \in [Threads -> Seq(Objects)] /\ held' \in [Threads -> Seq(Objects)]
        /\ values' \in [Threads -> Seq(Objects)] /\ cache'[t] = k /\ values'[t] = v
    BY <1>w, <1>0, <2>1, <2>4, Moved, Zenon DEF AtWork, c0, v0
  <2>9. /\ call' \in [Threads -> Calls] /\ pc' \in [Threads -> Labels]
        /\ call'[t] = d /\ pc'[t] = "write_cache"
        /\ \A u \in Threads \ {t} : call'[u] = call[u] /\ pc'[u] = pc[u]
    <3>1. "write_cache" \in Labels
      BY Zenon DEF Labels, Free
    <3> QED BY <1>w, <2>2, <2>5, <3>1, WentOn, Zenon DEF AtWork
  <2>10. FreeStage(t)'
    BY <1>1, <2>3, <2>5, <2>7, <2>8, <2>9, Zenon DEF FreeStage
  <2>11. Stage(t)'
    BY <2>9, <2>10, Zenon DEF Stage, Alloc, Free
  <2>12. Len(cache'[t]) <= total
    BY <1>n, <2>7, <2>8
  <2> QED BY <2>8, <2>9, <2>11, <2>12, Zenon DEF Rest
<1> QED BY <1>3, <1>4, <1>5, <1>6, Zenon

\* libtrace_ocache_free_cache ends: c1 and v1 are what the round has left.
LEMMA WriteEnds ==
  ASSUME Inv, NEW t \in Threads, pc[t] \in {"write_values", "write_cache"}, NEW c1, NEW v1,
         Passed(ring, cache[t], held[t], values[t], ring', c1, held[t], v1),
         Len(c1) <= total, Len(v1) <= call[t].nb,
         Stow(t, v1, c1), SetCall(t, [call[t] EXCEPT !.need = 0, !.lo = 0]),
         Goto(t, "return"), UNCHANGED <<conf, held>>
  PROVE  Rest(t)
<1> DEFINE c == call[t]
           n == Min({total - Len(c1), Len(v1)})
           k == c1 \o Take(v1, n)
           v == Drop(v1, n)
           d == [c EXCEPT !.need = 0, !.lo = 0]
<1>1. AtWork(t)
  BY Working, Zenon
<1>2. /\ c \in Calls /\ c.op = "free" /\ c.min <= c.nb /\ c.nb \in Nat /\ c.min \in Nat
      /\ total \in Nat
  BY <1>1, Zenon DEF AtWork, Stage, FreeStage, Free
<1>3. Good(ring', c1, held[t], v1) /\ Len(c1) \in Nat /\ Len(v1) \in Nat
  BY DEF Passed, Good
<1>4. /\ Passed(ring', c1, held[t], v1, ring', k, held[t], v)
      /\ Len(k) <= total /\ Len(v) <= Len(v1)
  BY <1>2, <1>3, Stowed, Zenon
<1>5. d \in Calls /\ d.op = c.op /\ d.nb = c.nb /\ d.min = c.min /\ d.try = c.try
  BY <1>2, CallDone, Zenon
<1>7. cache' = [cache EXCEPT ![t] = k] /\ values' = [values EXCEPT ![t] = v]
  BY Zenon DEF Stow, SetCache, SetValues
<1>8. call' = [call EXCEPT ![t] = d] /\ pc' = [pc EXCEPT ![t] = "return"]
  BY Zenon DEF SetCall, Goto
<1> HIDE DEF d, v, k, n
<1>9. Passed(ring, cache[t], held[t], values[t], ring', k, held[t], v)
  BY <1>4, PassedOn, Zenon
<1>10. /\ Moves(t, {})
       /\ cache' \in [Threads -> Seq(Objects)] /\ held' \in [Threads -> Seq(Objects)]
       /\ values' \in [Threads -> Seq(Objects)] /\ cache'[t] = k /\ values'[t] = v
  BY <1>1, <1>7, <1>9, Moved, Zenon DEF AtWork
<1>11. /\ call' \in [Threads -> Calls] /\ pc' \in [Threads -> Labels]
       /\ call'[t] = d /\ pc'[t] = "return"
       /\ \A u \in Threads \ {t} : call'[u] = call[u] /\ pc'[u] = pc[u]
  <2>1. "return" \in Labels
    BY Zenon DEF Labels
  <2> QED BY <1>1, <1>5, <1>8, <2>1, WentOn, Zenon DEF AtWork
<1>12. Len(v) <= c.nb
  <2>1. v \in Seq(Objects)
    BY <1>4, Zenon DEF Passed, Good
  <2> QED BY <1>2, <1>3, <1>4, <2>1
<1>13. FreeStage(t)'
  BY <1>2, <1>5, <1>10, <1>11, <1>12, Zenon DEF FreeStage
<1>14. Stage(t)'
  BY <1>11, <1>13, Zenon DEF Stage, Alloc, Free
<1> QED BY <1>4, <1>10, <1>11, <1>14, Zenon DEF Rest

\* A round that has not written the minimum is followed by another.
LEMMA WriteGoesOn ==
  ASSUME Inv, NEW t \in Threads, pc[t] \in {"write_values", "write_cache"}, NEW c1, NEW v1, NEW x \in Nat,
         Passed(ring, cache[t], held[t], values[t], ring', c1, held[t], v1),
         Len(c1) <= total, Len(v1) <= call[t].nb,
         pc[t] = "write_values" => x <= Len(v1), pc[t] = "write_cache" => x <= Len(c1),
         cache' = [cache EXCEPT ![t] = c1], values' = [values EXCEPT ![t] = v1],
         SetCall(t, [call[t] EXCEPT !.need = x]), UNCHANGED <<conf, held, pc>>
  PROVE  Rest(t)
<1> DEFINE c == call[t]
           d == [c EXCEPT !.need = x]
<1>1. AtWork(t)
  BY Working, Zenon
<1>2. /\ c \in Calls /\ c.op = "free" /\ c.min <= c.nb /\ c.nb \in Nat /\ c.min \in Nat
  BY <1>1, Zenon DEF AtWork, Stage, FreeStage, Free
<1>3. d \in Calls /\ d.op = c.op /\ d.nb = c.nb /\ d.min = c.min /\ d.need = x
  BY <1>2, CallNeed, Zenon
<1>4. call' = [call EXCEPT ![t] = d]
  BY Zenon DEF SetCall
<1> HIDE DEF d
<1>5. /\ Moves(t, {})
      /\ cache' \in [Threads -> Seq(Objects)] /\ held' \in [Threads -> Seq(Objects)]
      /\ values' \in [Threads -> Seq(Objects)] /\ cache'[t] = c1 /\ values'[t] = v1
  BY <1>1, Moved, Zenon DEF AtWork
<1>6. /\ call' \in [Threads -> Calls] /\ pc' \in [Threads -> Labels]
      /\ call'[t] = d /\ pc'[t] = pc[t]
      /\ \A u \in Threads \ {t} : call'[u] = call[u] /\ pc'[u] = pc[u]
  BY <1>1, <1>3, <1>4, Zenon DEF AtWork, Types
<1>7. FreeStage(t)'
  BY <1>2, <1>3, <1>5, <1>6, Zenon DEF FreeStage
<1>8. Stage(t)'
  BY <1>6, <1>7, Zenon DEF Stage, Alloc, Free
<1> QED BY <1>5, <1>6, <1>8, Zenon DEF Rest

\* libtrace_ringbuffer_swrite_bulk: a round of its loop.
LEMMA WriteRingTurn ==
  ASSUME Inv, NEW t \in Threads, WriteRing(t)
  PROVE  Turn(t, {}) /\ current_allocations' = current_allocations
<1> DEFINE c == call[t]
           v0 == values[t]
           c0 == cache[t]
           room == conf.buffer_size - Len(ring)
<1>w. AtWork(t)
  BY Working
<1>0. /\ pc[t] \in {"write_values", "write_cache"} /\ UNCHANGED <<conf, held, destroyed>>
      /\ UNCHANGED <<current_allocations, thread_list, spin, rlock>>
      /\ wlock' \in {t, Nobody, wlock}
  BY Zenon DEF WriteRing
<1>g. Good(ring, c0, held[t], v0)
  BY <1>w DEF AtWork
<1>1. /\ c \in Calls /\ c.op = "free" /\ c.min <= c.nb /\ Len(v0) <= c.nb
      /\ pc[t] = "write_values" => c.need <= Len(v0)
      /\ pc[t] = "write_cache" => c.need <= Len(c0)
  BY <1>w, <1>0, Zenon DEF AtWork, Stage, FreeStage, Free
<1>n. /\ Len(v0) \in Nat /\ Len(c0) \in Nat /\ Len(ring) \in Nat
      /\ Len(c0) <= total /\ total \in Nat /\ c.nb \in Nat /\ c.min \in Nat /\ c.need \in Nat
      /\ conf.buffer_size \in Nat /\ Len(ring) <= conf.buffer_size
  BY <1>w, ConfFacts, Zenon DEF AtWork, Types
<1>l. {spin, rlock, wlock} \subseteq Threads \cup {Nobody}
  BY <1>w, Zenon DEF AtWork, Types
<1>r. room \in Nat
  BY <1>n
<1>4. SUFFICES Rest(t) /\ Len(ring') <= conf.buffer_size
  BY <1>0, <1>4, <1>l, RestTurn, Zenon DEF Free
<1>c. cache = [cache EXCEPT ![t] = c0] /\ values = [values EXCEPT ![t] = v0]
  BY <1>w, Zenon DEF AtWork, Types
<1>5. CASE pc[t] = "write_values"
  <2> DEFINE n == Min({Len(v0), room})
             need == Max({c.need - n, 0})
             r1 == ring \o Take(v0, n)
             v1 == Drop(v0, n)
  <2>1. /\ ring' = r1
        /\ \/ /\ need > 0 /\ SetCall(t, [c EXCEPT !.need = need])
              /\ SetValues(t, v1) /\ UNCHANGED <<cache, pc>>
           \/ /\ SetCall(t, [c EXCEPT !.need = 0, !.lo = 0])
              /\ Stow(t, v1, c0) /\ Goto(t, "return")
    BY <1>5, Zenon DEF WriteRing
  <2> HIDE DEF c, v0, c0
  <2>2. n \in 0 .. Len(v0) /\ n <= room /\ n \in Nat
    BY <1>n, <1>r, Least, Zenon
  <2>3. need \in Nat /\ (need > 0 => need = c.need - n)
    BY <1>n, <2>2, StillNeeds, Zenon
  <2> HIDE DEF n, need
  <2>4. /\ Passed(ring, c0, held[t], v0, r1, c0, held[t], v1)
        /\ Len(r1) = Len(ring) + n /\ Len(v1) = Len(v0) - n
    BY <1>g, <2>2, ValuesToRing
  <2> HIDE DEF v1, r1
  <2>5. Len(v1) \in Nat /\ Len(r1) \in Nat
    BY <2>4 DEF Passed, Good
  <2>6. Len(v1) <= c.nb /\ Len(ring') <= conf.buffer_size
    BY <1>1, <1>n, <2>1, <2>2, <2>4, <2>5, SMTT(30)
  <2>7. need > 0 => need <= Len(v1)
    <3>1. c.need <= Len(v0)
      BY <1>1, <1>5, Zenon
    <3> QED BY <1>n, <2>2, <2>3, <2>4, <2>5, <3>1
  <2>8. CASE /\ need > 0 /\ SetCall(t, [c EXCEPT !.need = need])
             /\ SetValues(t, v1) /\ UNCHANGED <<cache, pc>>
    <3>1. cache' = [cache EXCEPT ![t] = c0] /\ values' = [values EXCEPT ![t] = v1]
      BY <1>c, <2>8, Zenon DEF SetValues
    <3>2. pc[t] # "write_cache"
      BY <1>5, Zenon
    <3>3. Rest(t)
      BY <1>0, <1>n, <2>1, <2>3, <2>4, <2>6, <2>7, <2>8, <3>1, <3>2, WriteGoesOn, ZenonT(30) DEF c, v0, c0
    <3> QED BY <2>6, <3>3, Zenon
  <2>9. CASE /\ SetCall(t, [c EXCEPT !.need = 0, !.lo = 0])
             /\ Stow(t, v1, c0) /\ Goto(t, "return")
    <3>1. Rest(t)
      BY <1>0, <1>n, <2>1, <2>4, <2>6, <2>9, WriteEnds, Zenon DEF c, v0, c0
    <3> QED BY <2>6, <3>1
  <2> QED BY <2>1, <2>8, <2>9, Zenon
<1>6. CASE pc[t] = "write_cache"
  <2> DEFINE n == Min({Len(c0), room})
             need == Max({c.need - n, 0})
             r1 == ring \o Take(c0, n)
             c1 == Drop(c0, n)
  <2>1. /\ ring' = r1
        /\ \/ /\ need > 0 /\ SetCall(t, [c EXCEPT !.need = need])
              /\ SetCache(t, c1) /\ UNCHANGED <<values, pc>>
           \/ /\ SetCall(t, [c EXCEPT !.need = 0, !.lo = 0])
              /\ Stow(t, v0, c1) /\ Goto(t, "return")
    BY <1>6, Zenon DEF WriteRing
  <2> HIDE DEF c, v0, c0
  <2>2. n \in 0 .. Len(c0) /\ n <= room /\ n \in Nat
    BY <1>n, <1>r, Least, Zenon
  <2>3. need \in Nat /\ (need > 0 => need = c.need - n)
    BY <1>n, <2>2, StillNeeds, Zenon
  <2> HIDE DEF n, need
  <2>4. /\ Passed(ring, c0, held[t], v0, r1, c1, held[t], v0)
        /\ Len(r1) = Len(ring) + n /\ Len(c1) = Len(c0) - n
    BY <1>g, <2>2, CacheToRing, Zenon
  <2> HIDE DEF c1, r1
  <2>5. Len(c1) \in Nat /\ Len(r1) \in Nat
    BY <2>4 DEF Passed, Good
  <2>6. Len(c1) <= total /\ Len(ring') <= conf.buffer_size
    BY <1>n, <2>1, <2>2, <2>4, <2>5, SMTT(30)
  <2>7. need > 0 => need <= Len(c1)
    <3>1. c.need <= Len(c0)
      BY <1>1, <1>6, Zenon
    <3> QED BY <1>n, <2>2, <2>3, <2>4, <2>5, <3>1
  <2>8. CASE /\ need > 0 /\ SetCall(t, [c EXCEPT !.need = need])
             /\ SetCache(t, c1) /\ UNCHANGED <<values, pc>>
    <3>1. cache' = [cache EXCEPT ![t] = c1] /\ values' = [values EXCEPT ![t] = v0]
      BY <1>c, <2>8, Zenon DEF SetCache
    <3>2. pc[t] # "write_values"
      BY <1>6, Zenon
    <3>3. Rest(t)
      BY <1>0, <1>1, <1>n, <2>1, <2>3, <2>4, <2>6, <2>7, <2>8, <3>1, <3>2, WriteGoesOn, ZenonT(30) DEF c, v0, c0
    <3> QED BY <2>6, <3>3, Zenon
  <2>9. CASE /\ SetCall(t, [c EXCEPT !.need = 0, !.lo = 0])
             /\ Stow(t, v0, c1) /\ Goto(t, "return")
    <3>1. Rest(t)
      BY <1>0, <1>1, <1>n, <2>1, <2>4, <2>6, <2>9, WriteEnds, Zenon DEF c, v0, c0
    <3> QED BY <2>6, <3>1
  <2> QED BY <2>1, <2>8, <2>9, Zenon
<1> QED BY <1>0, <1>5, <1>6, Zenon

\* libtrace_ocache_unregister_thread begins: the thread leaves the list.
LEMMA UnregisterTurn ==
  ASSUME Inv, NEW t \in Threads, Unregister(t)
  PROVE  Turn(t, {}) /\ current_allocations' = current_allocations
<1> DEFINE d == [NoCall EXCEPT !.op = "unregister", !.need = Len(cache[t])]
<1>0. /\ pc[t] = "idle" /\ held[t] = <<>> /\ ~destroyed
      /\ thread_list' = thread_list \ {t} /\ spin' = t
      /\ call' = [call EXCEPT ![t] = d] /\ pc' = [pc EXCEPT ![t] = "unregister"]
      /\ UNCHANGED <<conf, ring, current_allocations, rlock, wlock, cache, held, values, destroyed>>
  BY Zenon DEF Unregister, SetCall, Goto
<1>1. Types /\ Stage(t)
  BY Zenon DEF Inv, Stages
<1>2. d \in Calls /\ d.op = "unregister" /\ d.need = Len(cache[t])
  <2>1. Len(cache[t]) \in Nat
    BY <1>1 DEF Types
  <2> QED BY <2>1, NoCallFields, Zenon
<1> HIDE DEF d
<1>3. Moves(t, {})
  BY <1>0, Still, Zenon
<1>4. /\ call' \in [Threads -> Calls] /\ pc' \in [Threads -> Labels]
      /\ call'[t] = d /\ pc'[t] = "unregister"
      /\ \A u \in Threads \ {t} : call'[u] = call[u] /\ pc'[u] = pc[u]
  <2>1. "unregister" \in Labels
    BY Zenon DEF Labels
  <2> QED BY <1>0, <1>1, <1>2, <2>1, WentOn, Zenon
<1>5. values[t] = <<>>
  BY <1>0, <1>1, Zenon DEF Stage
<1>6. Stage(t)'
  BY <1>0, <1>2, <1>4, <1>5, Zenon DEF Stage, Alloc, Free
<1>7. Listed(t)'
  BY <1>4, Zenon DEF Listed, Alloc, Free
<1>8. /\ thread_list' \subseteq Threads /\ {spin', rlock', wlock'} \subseteq Threads \cup {Nobody}
      /\ \A u \in Threads \ {t} : u \in thread_list' <=> u \in thread_list
  BY <1>0, <1>1, Zenon DEF Types
<1>9. /\ Len(ring') <= conf.buffer_size /\ Len(cache'[t]) <= total
      /\ cache' \in [Threads -> Seq(Objects)] /\ held' \in [Threads -> Seq(Objects)]
      /\ values' \in [Threads -> Seq(Objects)]
  BY <1>0, <1>1, Zenon DEF Types
<1>10. ~destroyed /\ ~destroyed' /\ destroyed' \in BOOLEAN
  BY <1>0, <1>1, Zenon DEF Types
<1> QED BY <1>0, <1>3, <1>4, <1>6, <1>7, <1>8, <1>9, <1>10, Zenon DEF Turn

\* Nothing happens.
LEMMA StutterKeeps ==
  ASSUME Inv, UNCHANGED vars
  PROVE  Inv'
<1>1. UNCHANGED <<conf, ring, current_allocations, thread_list, spin, rlock, wlock, cache, held,
                  values, call, pc, destroyed>>
  BY Zenon DEF vars, shared
<1>2. Types' /\ Ends'
  BY <1>1, Zenon DEF Inv, Types, Ends, total
<1>4. Stages'
  <2> SUFFICES ASSUME NEW t \in Threads
               PROVE  Stage(t)' /\ Listed(t)'
    BY Zenon DEF Stages
  <2>1. Stage(t) /\ Listed(t)
    BY Zenon DEF Inv, Stages
  <2>2. Stage(t)'
    BY <1>1, <2>1, Zenon DEF Stage, AllocStage, FreeStage
  <2>3. Listed(t)'
    BY <1>1, <2>1, Zenon DEF Listed, total
  <2> QED BY <2>2, <2>3, Zenon
<1>3. Live' = Live /\ OnePlace' /\ max_allocations' = max_allocations
  BY <1>1, Zenon DEF Inv, OnePlace, Live, InUse, max_allocations
<1> QED BY <1>1, <1>2, <1>3, <1>4, Zenon DEF Inv, LimitKept, NothingLeaks

\* How many objects are allocated: no more than are missing, nor than the limit
\* allows.
LEMMA Allowed ==
  ASSUME Inv, NEW m \in Nat
  PROVE  /\ Allowance(m) \in Nat /\ Allowance(m) <= m
         /\ conf.limit_size => current_allocations + Allowance(m) <= max_allocations
<1>1. /\ conf.limit_size \in BOOLEAN /\ current_allocations \in Nat /\ max_allocations \in Nat
      /\ conf.limit_size => current_allocations <= max_allocations
  BY ConfFacts, Zenon DEF Inv, Types, LimitKept, max_allocations
<1> DEFINE a == max_allocations - current_allocations
<1>2. CASE conf.limit_size
  <2>1. a \in Nat /\ a \in Int /\ m \in Int
    BY <1>1, <1>2
  <2> HIDE DEF a
  <2>2. Min({a, m}) = IF a <= m THEN a ELSE m
    BY <2>1, MinOf, Zenon
  <2>3. Allowance(m) = IF a <= m THEN a ELSE m
    BY <1>2, <2>2, Zenon DEF Allowance, a
  <2> QED BY <1>1, <2>1, <2>3 DEF a
<1>3. CASE ~conf.limit_size
  BY <1>3 DEF Allowance
<1> QED BY <1>1, <1>2, <1>3, Zenon

\* New objects at the end of the values are in no other place.
LEMMA NewValues ==
  ASSUME NEW r, NEW c, NEW h, NEW v, Good(r, c, h, v), NEW f \in Seq(Objects), IsInjective(f),
         Range(f) \cap All(r, c, h, v) = {}
  PROVE  /\ Good(r, c, h, v \o f) /\ All(r, c, h, v \o f) = All(r, c, h, v) \cup Range(f)
         /\ Len(v \o f) = Len(v) + Len(f)
<1>1. v \in Seq(Objects)
  BY Zenon DEF Good
<1> DEFINE j == v \o f
<1>2. /\ j \in Seq(Objects) /\ Len(j) = Len(v) + Len(f) /\ Range(j) = Range(v) \cup Range(f)
      /\ IsInjective(j) <=> IsInjective(v) /\ IsInjective(f) /\ Range(v) \cap Range(f) = {}
  BY <1>1, Joined, Zenon
<1> HIDE DEF j
<1>3. /\ Range(f) \cap Range(r) = {} /\ Range(f) \cap Range(c) = {}
      /\ Range(f) \cap Range(h) = {} /\ Range(f) \cap Range(v) = {}
  BY Zenon DEF All
<1>4. IsInjective(j)
  BY <1>2, <1>3, Zenon DEF Good, Separate
<1>5. Range(r) \cap Range(j) = {} /\ Range(c) \cap Range(j) = {} /\ Range(h) \cap Range(j) = {}
  BY <1>2, <1>3, Zenon DEF Good, Separate
<1>6. Good(r, c, h, j)
  BY <1>2, <1>4, <1>5, Zenon DEF Good, Separate
<1>7. All(r, c, h, j) = All(r, c, h, v) \cup Range(f)
  BY <1>2, Zenon DEF All
<1> QED BY <1>2, <1>6, <1>7, Zenon DEF j

\* There are new objects for whatever libtrace_ocache_alloc allocates.
Supplied ==
  \A n \in Nat : n + Cardinality(Live) <= conf.objects =>
    /\ Fresh(n) \in Seq(Objects) /\ Len(Fresh(n)) = n /\ IsInjective(Fresh(n))
    /\ Range(Fresh(n)) \cap Live = {}

\* libtrace_ocache_alloc allocates the rest: the new objects are a turn's F.
LEMMA ReserveTurn ==
  ASSUME Inv, Supplied, NEW t \in Threads, Reserve(t)
  PROVE  \E n \in Nat :
           /\ Turn(t, Range(Fresh(n))) /\ Range(Fresh(n)) \cap Live = {}
           /\ IsInjective(Fresh(n)) /\ Fresh(n) \in Seq(Objects) /\ Len(Fresh(n)) = n
           /\ current_allocations' = current_allocations + IF conf.limit_size THEN n ELSE 0
           /\ conf.limit_size => current_allocations + n <= max_allocations
<1> DEFINE c == call[t]
           v0 == values[t]
           n == Allowance(c.nb - Len(v0))
           all == v0 \o Fresh(n)
           x == StillNeeded(c, Len(all))
           d == [c EXCEPT !.try = FALSE, !.lo = x]
           l == IF Len(all) < c.min THEN "from_cache" ELSE "return"
<1>0. /\ pc[t] = "reserve" /\ n + Cardinality(Live) <= conf.objects
      /\ current_allocations' = current_allocations + IF conf.limit_size THEN n ELSE 0
      /\ values' = [values EXCEPT ![t] = all] /\ call' = [call EXCEPT ![t] = d]
      /\ pc' = [pc EXCEPT ![t] = l]
      /\ UNCHANGED <<conf, ring, thread_list, spin, rlock, wlock, cache, held, destroyed>>
  BY Zenon DEF Reserve, SetValues, SetCall, Goto
<1>w. AtWork(t)
  BY Working, Zenon
<1>g. Good(ring, cache[t], held[t], v0)
  BY <1>w, Zenon DEF AtWork
<1>1. c \in Calls /\ c.op = "alloc" /\ c.min <= c.nb /\ Len(v0) <= c.nb
  BY <1>w, <1>0, Zenon DEF AtWork, Stage, AllocStage, Alloc
<1>n. v0 \in Seq(Objects) /\ Len(v0) \in Nat /\ c.nb \in Nat /\ c.min \in Nat /\ Types
  BY <1>w, Zenon DEF AtWork, Calls
<1> HIDE DEF c, v0
<1>2. /\ n \in Nat /\ n <= c.nb - Len(v0)
      /\ conf.limit_size => current_allocations + n <= max_allocations
  <2>1. c.nb - Len(v0) \in Nat
    BY <1>1, <1>n
  <2> QED BY <2>1, Allowed, Zenon
<1> HIDE DEF n
<1>4. /\ Fresh(n) \in Seq(Objects) /\ Len(Fresh(n)) = n /\ IsInjective(Fresh(n))
      /\ Range(Fresh(n)) \cap Live = {}
  BY <1>0, <1>2, Zenon DEF Supplied
<1> DEFINE F == Range(Fresh(n))
<1>5. F \cap All(ring, cache[t], held[t], v0) = {}
  <2>1. All(ring, cache[t], held[t], v0) \subseteq Live
    <3>1. InUse(t) \subseteq Live /\ Range(ring) \subseteq Live
      BY Zenon DEF Live
    <3> QED BY <3>1, Zenon DEF InUse, All, v0
  <2> QED BY <1>4, <2>1, Zenon
<1>6. /\ Good(ring, cache[t], held[t], all) /\ Len(all) = Len(v0) + n
      /\ All(ring, cache[t], held[t], all) = All(ring, cache[t], held[t], v0) \cup F
  BY <1>g, <1>4, <1>5, NewValues
<1>7. all \in Seq(Objects)
  BY <1>6, Zenon DEF Good
<1> HIDE DEF all, F
<1>8. Len(all) <= c.nb /\ Len(all) \in Nat
  BY <1>2, <1>6, <1>n
<1>9. x \in Nat /\ x + Len(all) >= c.min
  <2>1. c.min - Len(all) \in Int /\ 0 \in Int
    BY <1>8, <1>n
  <2>2. x = IF c.min - Len(all) >= 0 THEN c.min - Len(all) ELSE 0
    BY <2>1, MaxOf, Zenon DEF StillNeeded
  <2> QED BY <2>2, <1>8, <1>n
<1>10. d \in Calls /\ d.op = c.op /\ d.nb = c.nb /\ d.min = c.min /\ d.lo = x
  BY <1>1, <1>9, CallTried, Zenon
<1> HIDE DEF x, d
<1>11. l \in Labels /\ l \in {"from_cache", "return"} /\ (l = "return" => Len(all) >= c.min)
  BY <1>8, <1>n DEF Labels, Alloc
<1> HIDE DEF l
<1>12. /\ call' \in [Threads -> Calls] /\ pc' \in [Threads -> Labels] /\ call'[t] = d /\ pc'[t] = l
       /\ \A u \in Threads \ {t} : call'[u] = call[u] /\ pc'[u] = pc[u]
  BY <1>0, <1>10, <1>11, <1>n, WentOn, Zenon
<1>13. /\ values' \in [Threads -> Seq(Objects)] /\ values'[t] = all
       /\ \A u \in Threads \ {t} : values'[u] = values[u]
  BY <1>0, <1>7, <1>n, Zenon DEF Types
<1>14. AllocStage(t)'
  BY <1>1, <1>8, <1>9, <1>10, <1>11, <1>12, <1>13, Zenon DEF AllocStage
<1>15. Stage(t)'
  BY <1>11, <1>12, <1>14, Zenon DEF Stage, Alloc, Free
<1>16. Moves(t, F)
  <2>1. Good(ring', cache'[t], held'[t], values'[t])
    BY <1>0, <1>6, <1>13, Zenon
  <2>2. Held(t)' = Held(t) \cup F
    BY <1>0, <1>6, <1>13, Zenon DEF Held, v0
  <2> QED BY <1>0, <1>13, <2>1, <2>2, Zenon DEF Moves
<1>17. Listed(t)'
  BY <1>w, <1>0, StillListed, Zenon DEF AtWork, Alloc
<1>18. Turn(t, F)
  BY <1>w, <1>0, <1>12, <1>13, <1>15, <1>16, <1>17, Zenon DEF Turn, AtWork, Types
<1> QED BY <1>0, <1>2, <1>4, <1>18, Zenon DEF F

\* The cache of a thread that leaves is emptied: into the ring, where there is
\* room for all of it, or freed.
LEMMA EmptyCacheTurn ==
  ASSUME Inv, NEW t \in Threads, EmptyCache(t),
         conf.limit_size => Len(ring) + Len(cache[t]) <= conf.buffer_size
  PROVE  Turn(t, {}) /\ current_allocations' = current_allocations
<1> DEFINE c0 == cache[t]
           n == IF Recycled THEN Min({Len(c0), conf.buffer_size - Len(ring)}) ELSE 0
<1>1. Types /\ Stage(t) /\ Good(ring, c0, held[t], values[t]) /\ OnePlace /\ LimitKept /\ Ends
  BY OwnPlaces, TypedSequences, Zenon DEF Inv, Stages
<1>2. /\ pc[t] = "unregister" /\ ring' = ring \o Take(c0, n)
      /\ UNCHANGED <<conf, current_allocations, thread_list, rlock, held, values, destroyed>>
      /\ ~Recycled \/ n = Len(c0) => /\ spin' = Nobody /\ call' = [call EXCEPT ![t] = NoCall]
                                     /\ pc' = [pc EXCEPT ![t] = "gone"]
                                     /\ wlock' \in {Nobody, wlock}
                                     /\ cache' = [cache EXCEPT ![t] = <<>>]
  BY Zenon DEF EmptyCache, SetCall, Goto, SetCache
<1>3. /\ c0 \in Seq(Objects) /\ ring \in Seq(Objects) /\ Len(c0) \in Nat /\ Len(ring) \in Nat
      /\ conf.buffer_size \in Nat /\ total \in Nat /\ Len(ring) <= conf.buffer_size
      /\ {spin, rlock, wlock} \subseteq Threads \cup {Nobody} /\ thread_list \subseteq Threads
  <2>1. /\ c0 \in Seq(Objects) /\ ring \in Seq(Objects) /\ conf.buffer_size \in Nat /\ total \in Nat
        /\ Len(ring) <= conf.buffer_size
        /\ {spin, rlock, wlock} \subseteq Threads \cup {Nobody} /\ thread_list \subseteq Threads
    BY <1>1, ConfFacts, Zenon DEF Types
  <2> QED BY <2>1
<1>4. Recycled => n = Len(c0) /\ Len(ring) + Len(c0) <= conf.buffer_size
  <2> SUFFICES ASSUME Recycled
               PROVE  n = Len(c0) /\ Len(ring) + Len(c0) <= conf.buffer_size
    BY Zenon
  <2>1. Len(ring) + Len(c0) <= conf.buffer_size
    BY Zenon DEF Recycled
  <2> HIDE DEF c0
  <2> DEFINE room == conf.buffer_size - Len(ring)
  <2>2. room \in Int /\ Len(c0) <= room /\ Len(c0) \in Int
    BY <1>3, <2>1
  <2> HIDE DEF room
  <2>3. Min({Len(c0), room}) = Len(c0)
    BY <2>2, MinOf, Zenon
  <2> QED BY <2>1, <2>3, Zenon DEF room
<1>5. /\ spin' = Nobody /\ call' = [call EXCEPT ![t] = NoCall] /\ pc' = [pc EXCEPT ![t] = "gone"]
      /\ wlock' \in {Nobody, wlock} /\ cache' = [cache EXCEPT ![t] = <<>>]
  BY <1>2, <1>4, Zenon
<1>6. /\ Good(ring', <<>>, held[t], values[t]) /\ Len(ring') <= conf.buffer_size
      /\ All(ring', <<>>, held[t], values[t]) \subseteq All(ring, c0, held[t], values[t])
      /\ conf.limit_size => All(ring', <<>>, held[t], values[t]) = All(ring, c0, held[t], values[t])
  <2>1. CASE Recycled
    <3>1. ring' = ring \o c0
      <4>1. Take(c0, Len(c0)) = c0
        BY <1>3 DEF Take
      <4> QED BY <1>2, <1>4, <2>1, <4>1, Zenon
    <3>2. /\ Passed(ring, c0, held[t], values[t], ring', <<>>, held[t], values[t])
          /\ Len(ring') = Len(ring) + Len(c0)
      BY <1>1, <3>1, CacheAllToRing, Zenon
    <3> QED BY <1>4, <2>1, <3>2, Zenon DEF Passed
  <2>2. CASE ~Recycled
    <3>1. ring' = ring
      <4>1. Take(c0, 0) = <<>> /\ ring \o <<>> = ring
        BY <1>3 DEF Take
      <4> QED BY <1>2, <2>2, <4>1, Zenon
    <3> QED BY <1>1, <1>3, <2>2, <3>1, CacheDropped, Zenon DEF Recycled
  <2> QED BY <2>1, <2>2, Zenon
<1>7. /\ cache' \in [Threads -> Seq(Objects)] /\ cache'[t] = <<>>
      /\ \A u \in Threads \ {t} : cache'[u] = cache[u]
      /\ held' = held /\ values' = values /\ conf' = conf
  BY <1>1, <1>2, <1>5 DEF Types
<1>8. Moves(t, {})
  <2>1. Good(ring', cache'[t], held'[t], values'[t])
    BY <1>6, <1>7, Zenon
  <2>2. Held(t)' \subseteq Held(t) \cup {} /\ (conf.limit_size => Held(t)' = Held(t) \cup {})
    BY <1>6, <1>7, Zenon DEF Held
  <2> QED BY <1>7, <2>1, <2>2, Zenon DEF Moves
<1>9. /\ call' \in [Threads -> Calls] /\ pc' \in [Threads -> Labels]
      /\ call'[t] = NoCall /\ pc'[t] = "gone"
      /\ \A u \in Threads \ {t} : call'[u] = call[u] /\ pc'[u] = pc[u]
  <2>1. "gone" \in Labels /\ NoCall \in Calls
    BY NoCallFields, Zenon DEF Labels
  <2> QED BY <1>1, <1>5, <2>1, WentOn, Zenon
<1>10. held[t] = <<>> /\ values[t] = <<>> /\ ~destroyed
  BY <1>1, <1>2, Zenon DEF Stage, Ends
<1>11. Stage(t)' /\ Listed(t)'
  BY <1>7, <1>9, <1>10, Zenon DEF Stage, Alloc, Free, Listed
<1>12. Len(cache'[t]) <= total
  BY <1>3, <1>7
<1>13. {spin', rlock', wlock'} \subseteq Threads \cup {Nobody}
  BY <1>2, <1>3, <1>5, Zenon
<1>14. held' \in [Threads -> Seq(Objects)] /\ values' \in [Threads -> Seq(Objects)]
  BY <1>1, <1>7, Zenon DEF Types
<1>15. /\ ~destroyed /\ ~destroyed' /\ destroyed' \in BOOLEAN /\ thread_list' \subseteq Threads
       /\ \A u \in Threads \ {t} : u \in thread_list' <=> u \in thread_list
       /\ Len(ring') <= conf.buffer_size
  BY <1>1, <1>2, <1>3, <1>6, <1>10, Zenon DEF Types
<1> QED BY <1>2, <1>7, <1>8, <1>9, <1>11, <1>12, <1>13, <1>14, <1>15, Zenon DEF Turn

\* Empty places share no object.
LEMMA Nothing ==
  IsInjective(<<>> \o <<>> \o <<>> \o <<>>) /\ Range(<<>>) = {}
<1>1. <<>> \in Seq(Objects)
  OBVIOUS
<1>2. Range(<<>>) = {} /\ IsInjective(<<>>)
  BY <1>1, NoElements, Zenon
<1>3. Separate(<<>>, <<>>, <<>>, <<>>)
  BY <1>2, Zenon DEF Separate
<1> QED BY <1>1, <1>2, <1>3, Separated, Zenon

\* libtrace_ocache_destroy finds every object: in the ring, or in the cache of a
\* thread on the list.
LEMMA DestroyFinds ==
  ASSUME Inv, \A t \in Threads : pc[t] \in {"idle", "gone"} /\ held[t] = <<>>
  PROVE  /\ \A t \in Threads : values[t] = <<>> /\ (t \notin thread_list => cache[t] = <<>>)
         /\ Live = Range(ring) \cup UNION {Range(cache[t]) : t \in thread_list}
         /\ Range(ring) \cap UNION {Range(cache[t]) : t \in thread_list} = {}
<1>1. Types /\ Stages /\ OnePlace
  BY Zenon DEF Inv
<1>2. \A t \in Threads : values[t] = <<>> /\ (t \notin thread_list => cache[t] = <<>>)
  BY <1>1, Zenon DEF Stages, Stage, Listed
<1>3. \A t \in Threads : InUse(t) = Range(cache[t]) /\ (t \notin thread_list => InUse(t) = {})
  BY <1>2, Nothing, Zenon DEF InUse
<1>4. thread_list \subseteq Threads
  BY <1>1, Zenon DEF Types
<1>5. UNION {InUse(t) : t \in Threads} = UNION {Range(cache[t]) : t \in thread_list}
  BY <1>3, <1>4, Zenon
<1>6. \A t \in thread_list : Range(ring) \cap Range(cache[t]) = {}
  <2> SUFFICES ASSUME NEW t \in thread_list
               PROVE  Range(ring) \cap Range(cache[t]) = {}
    BY Zenon
  <2> QED BY <1>1, <1>4, OwnPlaces, TypedSequences, Zenon DEF Good, Separate
<1> QED BY <1>2, <1>5, <1>6 DEF Live

\* libtrace_ocache_destroy frees them all.
LEMMA DestroyFreesAll ==
  ASSUME Inv, Destroy, current_allocations' = 0, Cardinality({}) = 0
  PROVE  Inv'
<1>1. /\ \A t \in Threads : pc[t] \in {"idle", "gone"} /\ held[t] = <<>>
      /\ ring' = <<>> /\ thread_list' = {} /\ destroyed' = TRUE
      /\ cache' = [t \in Threads |-> IF t \in thread_list THEN <<>> ELSE cache[t]]
      /\ UNCHANGED <<conf, spin, rlock, wlock, held, values, call, pc>>
  BY Zenon DEF Destroy
<1>2. Types /\ Stages /\ OnePlace /\ LimitKept
  BY Zenon DEF Inv
<1>3. \A t \in Threads : values[t] = <<>> /\ (t \notin thread_list => cache[t] = <<>>)
  BY <1>1, DestroyFinds, Zenon
<1>4. \A t \in Threads : cache'[t] = <<>> /\ held'[t] = <<>> /\ values'[t] = <<>>
  BY <1>1, <1>3, Zenon
<1>5. Live' = {} /\ \A t \in Threads : InUse(t)' = {}
  <2>1. \A t \in Threads : InUse(t)' = {}
    BY <1>4, Nothing, Zenon DEF InUse
  <2>2. Range(ring') = {}
    BY <1>1, Nothing, Zenon
  <2> QED BY <2>1, <2>2, Zenon DEF Live
<1>6. OnePlace'
  BY <1>1, <1>4, <1>5, Nothing, Zenon DEF OnePlace
<1>7. Types'
  <2>1. /\ <<>> \in Seq(Objects) /\ Len(<<>>) = 0 /\ conf.buffer_size \in Nat /\ total \in Nat
    BY <1>2, ConfFacts DEF Types
  <2>2. cache' \in [Threads -> Seq(Objects)]
    BY <1>1, <1>2, <2>1, Zenon DEF Types
  <2>3. \A t \in Threads : Len(cache'[t]) <= total'
    BY <1>1, <1>4, <2>1 DEF total
  <2>4. Len(ring') <= conf'.buffer_size /\ current_allocations' \in Nat
    BY <1>1, <2>1
  <2>5. ring' \in Seq(Objects) /\ destroyed' \in BOOLEAN /\ thread_list' \subseteq Threads
    BY <1>1
  <2>6. /\ conf' \in Configs /\ {spin', rlock', wlock'} \subseteq Threads \cup {Nobody}
        /\ held' \in [Threads -> Seq(Objects)] /\ values' \in [Threads -> Seq(Objects)]
        /\ call' \in [Threads -> Calls] /\ pc' \in [Threads -> Labels]
    BY <1>1, <1>2, Zenon DEF Types
  <2> QED BY <2>2, <2>3, <2>4, <2>5, <2>6, Zenon DEF Types
<1>8. Stages'
  <2> SUFFICES ASSUME NEW t \in Threads
               PROVE  Stage(t)' /\ Listed(t)'
    BY Zenon DEF Stages
  <2>1. pc[t] \in {"idle", "gone"} /\ call[t] = NoCall
    BY <1>1, <1>2, Zenon DEF Stages, Stage
  <2>2. pc'[t] = pc[t] /\ call'[t] = NoCall
    BY <1>1, <2>1, Zenon
  <2> QED BY <1>4, <2>1, <2>2, Zenon DEF Stage, Listed, Alloc, Free
<1>9. LimitKept'
  <2>1. Cardinality(Live)' = 0
    BY <1>5, Zenon
  <2>2. max_allocations' \in Nat
    BY <1>1, <1>2, ConfFacts, Zenon DEF max_allocations, Types
  <2> QED BY <2>1, <2>2 DEF LimitKept
<1>10. Ends' /\ NothingLeaks'
  BY <1>1, <1>4, <1>5, Zenon DEF Ends, NothingLeaks
<1> QED BY <1>6, <1>7, <1>8, <1>9, <1>10, Zenon DEF Inv

\* libtrace_ocache_init establishes it.
LEMMA StartInv ==
  ASSUME Init, Cardinality({}) = 0
  PROVE  Inv
<1>1. /\ ring = <<>> /\ conf \in Configs /\ current_allocations = 0 /\ thread_list = {}
      /\ destroyed = FALSE
      /\ \A t \in Threads : /\ cache[t] = <<>> /\ held[t] = <<>> /\ values[t] = <<>>
                            /\ call[t] = NoCall /\ pc[t] = "idle"
  BY Zenon DEF Init
<1>2. Types
  <2>1. /\ <<>> \in Seq(Objects) /\ Len(<<>>) = 0 /\ conf.buffer_size \in Nat /\ total \in Nat
    BY <1>1, ConfFacts
  <2>2. /\ cache \in [Threads -> Seq(Objects)] /\ held \in [Threads -> Seq(Objects)]
        /\ values \in [Threads -> Seq(Objects)]
    BY <2>1, Zenon DEF Init
  <2>3. "idle" \in Labels /\ NoCall \in Calls
    BY NoCallFields, Zenon DEF Labels
  <2>4. call \in [Threads -> Calls] /\ pc \in [Threads -> Labels]
    BY <2>3, Zenon DEF Init
  <2>5. Len(ring) <= conf.buffer_size /\ \A t \in Threads : Len(cache[t]) <= total
    BY <1>1, <2>1
  <2>6. current_allocations \in Nat /\ {spin, rlock, wlock} \subseteq Threads \cup {Nobody}
    BY Zenon DEF Init
  <2> QED BY <1>1, <2>1, <2>2, <2>4, <2>5, <2>6, ZenonT(30) DEF Types
<1>3. Stages
  BY <1>1, Zenon DEF Stages, Stage, Listed, Alloc, Free
<1>4. Live = {} /\ \A t \in Threads : InUse(t) = {}
  <2>1. \A t \in Threads : InUse(t) = {}
    BY <1>1, Nothing, Zenon DEF InUse
  <2>2. Range(ring) = {}
    BY <1>1, Nothing, Zenon
  <2> QED BY <2>1, <2>2, Zenon DEF Live
<1>5. OnePlace
  BY <1>1, <1>4, Nothing, Zenon DEF OnePlace
<1>6. LimitKept
  <2>1. Cardinality(Live) = 0
    BY <1>4, Zenon
  <2>2. max_allocations \in Nat
    BY <1>1, ConfFacts, Zenon DEF max_allocations
  <2> QED BY <1>1, <2>1, <2>2 DEF LimitKept
<1>7. Ends /\ NothingLeaks
  BY <1>1, Zenon DEF Ends, NothingLeaks
<1> QED BY <1>2, <1>3, <1>5, <1>6, <1>7, Zenon DEF Inv
=============================================================================
