--------------------------- MODULE MCObjectCache ---------------------------
(* The caches for which TLC checks ObjectCache.                            *)
EXTENDS ObjectCache

CONSTANTS t1, t2, o1, o2, o3, o4

Cache(limit, size, small, most) ==
  [limit_size |-> limit, buffer_size |-> size, thread_cache_size |-> small, most |-> most,
   objects |-> IF limit THEN 4 ELSE 3]

\* Limits with and without thread caches, requests that exceed a thread's
\* cache, a cache without a limit whose ring fills up, and a thread cache that
\* is filled and emptied by three objects at once, which may be torn.
Caches == { Cache(TRUE, 3, 1, 1), Cache(TRUE, 3, 1, 2), Cache(TRUE, 3, 0, 2),
            Cache(TRUE, 3, 2, 2), Cache(FALSE, 1, 1, 2), Cache(TRUE, 3, 3, 1) }
=============================================================================
