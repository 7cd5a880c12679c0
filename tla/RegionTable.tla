---------------------------- MODULE RegionTable ----------------------------
(***************************************************************************)
(* The per-thread table of src/lib/runtime_memory.c that finds a thread's  *)
(* handle of a region: chained buckets with a two-entry cache in front,    *)
(* growing and shrinking along a list of primes.                           *)
(*                                                                         *)
(* Handles live in stack frames, so an address is used again, and a region *)
(* may be allocated where an earlier one was: keys and handle addresses    *)
(* are recycled.                                                           *)
(*                                                                         *)
(* A chain is the set of the handles on it.  The loops along a chain stop  *)
(* at a handle whose h is the key; here they may stop at any such handle.  *)
(***************************************************************************)
EXTENDS Integers, Sequences, FiniteSets

CONSTANTS Keys,     \* addresses of regions, as numbers (indexFor divides them)
          Addrs,    \* addresses of handles
          Null,     \* the null pointer
          Primes,   \* the table of sizes
          MinSize,  \* the argument of create_hashtable (25 in the code)
          MaxLoad, MinLoad,  \* load factors in percent (200 and 50)
          Failures  \* can malloc return NULL?

VARIABLES table,       \* bucket number -> the handles of its chain
          cache,       \* cache[0], cache[1]
          cache_idx,   \* the slot that is replaced next
          entrycount, primeindex,
          live,        \* the handles the thread has
          key,         \* a->h for every handle a; a dead one keeps what it had
          lost,        \* keys whose hashtable_insert returned 0
          ret          \* the last operation and its result

tableVars == <<table, cache, cache_idx, entrycount, primeindex, live, key, lost, ret>>

upper_loadlimit(n) == (n * MaxLoad) \div 100
lower_loadlimit(n) == (n * MinLoad) \div 100

\* The constants that make sense.  Both load limits of the code leave room: a
\* larger table takes more handles, and a table is compacted when its handles
\* fit into the smaller one.
TableConstants ==
    /\ Keys \subseteq Nat /\ IsFiniteSet(Addrs) /\ Null \notin Addrs \cup Keys
    /\ Primes \in Seq(Nat \ {0})
    /\ MinSize \in Nat /\ \E i \in 1 .. Len(Primes) : Primes[i] > MinSize
    /\ MaxLoad \in Nat /\ MinLoad \in Nat
    /\ \A i \in 1 .. Len(Primes) - 1 :
          /\ upper_loadlimit(Primes[i]) < upper_loadlimit(Primes[i + 1])
          /\ lower_loadlimit(Primes[i + 1]) <= upper_loadlimit(Primes[i])
    /\ Failures \in BOOLEAN

ASSUME TableAssumption == TableConstants

tablelength == Primes[primeindex + 1]

indexFor(n, k) == k % n

\* The handles in the table.
Entries(tbl) == UNION {tbl[i] : i \in DOMAIN tbl}

TableTypeOK ==
    /\ primeindex \in 0 .. Len(Primes) - 1
    /\ table \in [0 .. tablelength - 1 -> SUBSET Addrs]
    /\ cache \in [{0, 1} -> Addrs \cup {Null}]
    /\ cache_idx \in {0, 1}
    /\ entrycount \in Nat
    /\ live \subseteq Addrs
    /\ key \in [Addrs -> Keys \cup {Null}]
    /\ lost \subseteq Keys

\* create_hashtable: the first size above MinSize.
CreateIndex == CHOOSE i \in 0 .. Len(Primes) - 1 :
                   /\ Primes[i + 1] > MinSize
                   /\ \A j \in 0 .. i - 1 : Primes[j + 1] <= MinSize

TableInit ==
    /\ primeindex = CreateIndex
    /\ table = [i \in 0 .. Primes[CreateIndex + 1] - 1 |-> {}]
    /\ cache = [i \in {0, 1} |-> Null] /\ cache_idx = 0
    /\ entrycount = 0
    /\ live = {}
    /\ key = [a \in Addrs |-> Null]
    /\ lost = {}
    /\ ret = <<"create", Null, Null>>

-----------------------------------------------------------------------------
\* Mutant: the last bucket is forgotten.
RehashShort(tbl, n) ==
    LET moved == UNION {tbl[i] : i \in DOMAIN tbl \ {tablelength - 1}}
    IN [i \in 0 .. n - 1 |-> {a \in moved : indexFor(n, key[a]) = i}]

\* hashtable_expand: every handle is moved to its new chain.
Rehash(tbl, n) ==
    [i \in 0 .. n - 1 |-> {a \in Entries(tbl) : indexFor(n, key[a]) = i}]

\* Is there a table of the next size?  (malloc may fail.)
ExpandFails == primeindex = Len(Primes) - 1 \/ Failures

\* a is put into the cache.
Cached(a) ==
    /\ cache' = [cache EXCEPT ![cache_idx] = a]
    /\ cache_idx' = (cache_idx + 1) % 2

\* The rest of hashtable_insert, into the table tbl of n chains.
Push(tbl, n, k, a) ==
    /\ table' = [tbl EXCEPT ![indexFor(n, k)] = @ \cup {a}]
    /\ entrycount' = entrycount + 1
    /\ Cached(a)
    /\ ret' = <<"insert", k, "ok">>
    /\ UNCHANGED lost

\* A new handle a for region k (_new_xregion, or __treecopy for a new thread).
\* If the table is full and cannot grow, the handle is not inserted.
hashtable_insert(k, a) ==
    /\ ret[3] # "quit"
    /\ a \notin live
    /\ \A b \in live : key[b] # k
    /\ live' = live \cup {a}
    /\ key' = [key EXCEPT ![a] = k]
    /\ \/ /\ entrycount + 1 <= upper_loadlimit(tablelength)
          /\ Push(table, tablelength, k, a)
          /\ UNCHANGED primeindex
       \/ /\ entrycount + 1 > upper_loadlimit(tablelength)
          /\ primeindex < Len(Primes) - 1
          /\ LET n == Primes[primeindex + 2] IN Push(Rehash(table, n), n, k, a)
          /\ primeindex' = primeindex + 1
       \/ /\ entrycount + 1 > upper_loadlimit(tablelength)
          /\ ExpandFails
          /\ ret' = <<"insert", k, "full">>
          /\ lost' = lost \cup {k}
          /\ UNCHANGED <<table, cache, cache_idx, entrycount, primeindex>>

\* The slots of the cache that hold a handle of region k.
Hits(k) == {i \in {0, 1} : cache[i] # Null /\ key[cache[i]] = k}

\* The handles of region k on the chain of k.
Find(k) == {a \in table[indexFor(tablelength, k)] : key[a] = k}

\* get_tkey: the cache first, then the chain; a handle found there is cached.
hashtable_search(k) ==
    /\ ret[3] # "quit"
    /\ \E a \in live : key[a] = k
    /\ \/ /\ Hits(k) # {}
          /\ ret' = <<"search", k, cache[IF 0 \in Hits(k) THEN 0 ELSE 1]>>
          /\ UNCHANGED <<cache, cache_idx>>
       \/ /\ Hits(k) = {}
          /\ \E e \in Find(k) : ret' = <<"search", k, e>> /\ Cached(e)
       \/ /\ Hits(k) = {} /\ Find(k) = {}
          /\ ret' = <<"search", k, "quit">>
          /\ UNCHANGED <<cache, cache_idx>>
    /\ UNCHANGED <<table, entrycount, primeindex, live, key, lost>>

\* Mutant: only the first slot is checked.
InvalidateFirst(k) ==
    cache' = IF 0 \in Hits(k) THEN [cache EXCEPT ![0] = Null] ELSE cache

\* One slot of the cache is cleared.
Invalidate(k) ==
    cache' = IF 0 \in Hits(k) THEN [cache EXCEPT ![0] = Null]
             ELSE IF 1 \in Hits(k) THEN [cache EXCEPT ![1] = Null]
             ELSE cache

\* Is the table to be compacted, with n entries left?
Shrinkable(n) == primeindex > 0 /\ n <= lower_loadlimit(tablelength)

\* The handle e is unlinked; then the table is compacted if a smaller one can be
\* had.
Unlink(k, e) ==
    LET tbl == [table EXCEPT ![indexFor(tablelength, k)] = @ \ {e}]
        n == entrycount - 1
    IN /\ entrycount' = n
       /\ \/ /\ ~Shrinkable(n) \/ Failures
             /\ table' = tbl
             /\ UNCHANGED primeindex
          \/ /\ Shrinkable(n)
             /\ table' = Rehash(tbl, Primes[primeindex])
             /\ primeindex' = primeindex - 1

\* The region is given up (__xregion_refcnt) and its handle is dead; tk->h is
\* cleared only by the thread that frees the region.  hashtable_remove quits if
\* the key is not in the table.
hashtable_remove(k) ==
    /\ ret[3] # "quit"
    /\ \E a \in live :
         /\ key[a] = k
         /\ Invalidate(k)
         /\ \/ /\ \E e \in Find(k) : Unlink(k, e)
               /\ live' = live \ {a}
               /\ \E last \in BOOLEAN : key' = [key EXCEPT ![a] = IF last THEN Null ELSE k]
               /\ ret' = <<"remove", k, a>>
            \/ /\ Find(k) = {}
               /\ ret' = <<"remove", k, "quit">>
               /\ UNCHANGED <<table, entrycount, primeindex, live, key>>
    /\ UNCHANGED <<cache_idx, lost>>

\* errquit has ended the program.
Quit == ret[3] = "quit" /\ UNCHANGED tableVars

TableNext ==
    \/ \E k \in Keys : \/ \E a \in Addrs : hashtable_insert(k, a)
                       \/ hashtable_search(k)
                       \/ hashtable_remove(k)
    \/ Quit

TableSpec == TableInit /\ [][TableNext]_tableVars

-----------------------------------------------------------------------------
(* Properties *)

\* hashtable_search returns the handle the thread now has for the region,
\* whatever was inserted, removed, moved or cached before; it gives up only on
\* a key whose insertion failed.
SearchExact ==
    ret[1] = "search" => IF ret[2] \in lost THEN ret[3] = "quit"
                         ELSE ret[3] \in live /\ key[ret[3]] = ret[2]

\* A cached handle is in the table, and no handle is cached twice (otherwise
\* hashtable_remove, which clears one slot, would leave a dangling pointer).
CacheCurrent ==
    /\ \A i \in {0, 1} : cache[i] # Null => cache[i] \in Entries(table)
    /\ cache[0] = cache[1] => cache[0] = Null

\* entrycount is the number of handles in the table: every live handle that was
\* inserted, once, in the chain of its key.
CountExact ==
    /\ entrycount = Cardinality(Entries(table))
    /\ Entries(table) = {a \in live : key[a] \notin lost}
    /\ \A i \in DOMAIN table : \A a \in table[i] : indexFor(tablelength, key[a]) = i

\* The load limit holds after every operation: no sequence of insertions and
\* compactions overfills a table.
LoadBounded == entrycount <= upper_loadlimit(tablelength)

\* The table stays sound through insertions, removals, moves and recycled addresses:
\* what hashtable_search and hashtable_remove rely on in chains, cache and counters.
TableSound == TableTypeOK /\ CacheCurrent /\ CountExact /\ LoadBounded
=============================================================================
