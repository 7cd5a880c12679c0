# Formal model of the Concurrent Cyclone runtime

Concurrent Cyclone extends Cyclone (a safe dialect of C) with threads and with
*hierarchical regions that carry reader/writer locks* ("xregions"). A program
never calls a lock: the compiler tracks, for every region and every thread,
three capabilities (a reference count, a write count and a read count) and
emits calls into the runtime that adjust them. The runtime is where things
interleave, and it is most of what this directory models; added to it are the
protocol by which the garbage collector stops the threads, and the collections
of the library whose structure changes as they are used.

## 1. Inventory

| part | source | state | operations |
|---|---|---|---|
| futex mutex | `runtime_lowlevel.c` | a lock word, the kernel queue behind it | `wait_lock`, `unlock`, `futex_wait`, `futex_wake`, `wake_all`, `wake_single` |
| region capabilities | `runtime_memory.c` | per region `_RegionCaps` (rcnt, lock, writer_cv, reader_cv, writer_q, reader_q, rd_cnt); per thread and region `_XTreeHandle.caps` | `_new_xregion`, `_xregion_cap`, `__xregion_refcnt`, `__xregion_lockop`, `_xregion_free` |
| region tree | `runtime_memory.c`, `runtime_stack.c` | per thread a forest of handles (parent_key, sub_keys, next_key) | the recursion of `__xregion_lockop` and `__xregion_refcnt`, `merge_caps`, `__treecopy` |
| spawn and thread life | `runtime_stack.c`, `runtime_cyc.c` | next_tid, all_done | `_next_tid`, `_xspawn`, `_thread_internal2`, `Cyc_Core_main_join` |
| per-thread region table | `runtime_memory.c` | buckets, entry count, prime index, two-entry cache | `create_hashtable`, `hashtable_insert`, `hashtable_search`, `hashtable_remove`, `hashtable_expand` |
| region memory | `runtime_memory.c`, `cyc_include.h` | list of pages, offset, last_plus_one | `_new_region`, `grow_region`, `_region_malloc`, `_free_region`, `_xregion_malloc`, `attach_region` |
| frames and exceptions | `runtime_stack.c`, `runtime_exception.c` | stack of handler and region frames | `_push_frame`, `_npop_frame`, `_push_region`, `_push_handler`, `_throw_fn` |
| stopping the world | `gc/pthread_stop_world.c`, `gc/pthread_support.c` | `GC_stop_count`, `GC_world_is_stopped`, a semaphore, per thread `last_stop_count` and pending signals | `GC_stop_world`, `GC_suspend_all`, `GC_suspend_handler_inner`, `GC_start_world`, `GC_do_blocking`, registration of threads |
| library collections | `dict.cyc`, `slowdict.cyc`, `splay.cyc`, `hashtable.cyc` | red-black trees, splay trees with shared nodes, chained buckets | insertion, deletion, look-up, union, intersection, resizing |
| counted pointers, dynamic regions | `runtime_memory.c` | count in front of the object, key of a region | `_new_rckey`, `free_rckey`, `Cyc_Core_open_region`, refptr functions |
| rest of the library, compiler, collector, tools | `lib/*.cyc`, `src/`, `gc/`, `tools/` | sequential | see `PROJECT.json` for why each is left out |

(Runtime and library files are under `src/lib/`, those of the collector under `src/gc/`.)

**How the parts interact.** `cap(h,rgc,wc,rc)` in a program becomes
`_xregion_cap`. It finds the calling thread's handle (`get_tkey`: a cached key
or the region table), adjusts the reference count and then the locks, for the
region and all its sub-regions. The lock of one region is a reader/writer lock
built from a mutex (`caps.lock`), two words to sleep on (`writer_cv`,
`reader_cv`), two queue lengths and a count of readers. `spawn` copies part of
the handle forest for the new thread, takes the capabilities away from the
caller, counts the child in `all_done` and creates the thread; the last thread
to end wakes `main_join`. Memory of a region comes from `_xregion_malloc`, under
the same mutex unless the thread is alone, and in pages from the collector. A
thread that finds the heap exhausted stops all the others with signals, also
those that sleep on a futex. Exceptions unwind a frame stack of their own, which
knows handlers and lexical regions but no shared ones.

**What makes it hard.** Wake-ups race with going to sleep; futex waits may end
early; counts are changed with and without the mutex; a region is freed by
whichever thread comes last; a tree is locked one region at a time, so order
matters; handles live in stack frames whose addresses recur. The hazards, with
the line where each one bites and the property that watches it, are in
`PROJECT.json`.

## 2. Modules

| module | models | state and actions |
|---|---|---|
| `Mutex` | what callers of `wait_lock` rely on | owner, waiting |
| `FutexLock` | `wait_lock`, `unlock`, the futex | one action per access to the lock word: `CallWaitLock`, `Cas`, `ReadLock`, `FutexWait`, `FutexTimeout`, `UnlockStore`, `FutexWake` |
| `RegionLock` | what a region promises | holders, writers, readers, alive |
| `XRegionCaps` | one region, many threads | `Cap`, `CvWait`, `CvTimeout`, `EnterBody`, `Body`, `Drop`, `Spawn`, `Create`, `Malloc`, `Attach`, `MallocLock`, `MallocDone` |
| `XRegionLive` | the same with a disciplined program | adds a budget of lock requests |
| `XRegionTree` | forests of handles | `NewXregion`, `Cap`, `CapTh`, `Lockop`, `Lock`, `Unlink`, `Spawn`, `Create` |
| `MainJoin` | thread ids, `all_done`, `main_join` | `InitNewThreadStack`, `CountChild`, `PthreadCreate`, `Finish`, `FutexWake`, `JoinTest`, `JoinLoad`, `JoinWait`, `JoinTimeout`, `MainThrows` |
| `RegionTable` | the per-thread table | `hashtable_insert`, `hashtable_search`, `hashtable_remove` |
| `XRegionMemory` | pages of one shared region | `Malloc` and `Attach` start a call; `Enter`, `Check`, `Grow`, `GrowFails`, `Take`, `Bump`, `Push`, `Unlock` are its accesses to the handle; `Share`, `Leave` |
| `RuntimeStack` | frame stack of one thread | entering and leaving of try blocks and regions, `Call`, jumps, `Return`, `Throw` |
| `StopWorld` | stopping the world | the collector's steps (`Collect`), the handler's steps (`Handle`), registration, blocking, creation of threads |
| `Dict`, `SlowDict`, `Hashtable` | collections | one action per call, with the finite map it should stand for |
| `XRegionCapsInv`, `XRegionCapsProofs` | theorems about `XRegionCaps` | the invariant and the actions outside `__xregion_lockop`; its body, the release of capabilities and the theorems |
| `XRegionMemoryProofs` | theorems about `XRegionMemory` | |
| `StopWorldProofs` | theorems about `StopWorld` | |
| `XRegionTreeInv`, `XRegionTreeProofs` | theorems about `XRegionTree` | the invariant and the calls of the program; the steps of a call and the theorems |
| `RuntimeProofs` | theorems about `RuntimeStack` and `FutexLock` | |
| `PartsProofs` | theorems about `MainJoin` and `RegionTable` | |
| `MCParts` | `MainJoin`, `RegionTable`, `RuntimeStack` and the collections in one run | `part` names the one a behaviour exercises |

The modules compose by abstraction. `FutexLock` implements `Mutex`, so
`XRegionCaps` takes and gives `caps.lock` in one step. `XRegionCaps` implements
`RegionLock`, so `XRegionTree` grants the lock of one region in one step.
`XRegionMemory` takes the mutex in one step too and shows that the threads that
do without it, because they are alone, still exclude each other: it implements
`Mutex` with the threads at work on the page list as owners. All three are
`INSTANCE ... WITH` mappings checked as properties. `MCParts` puts models that
share no state side by side; the other `MC...` modules only define the sets that
the `.cfg` files name.

Choices worth knowing when reading a module against the code:

* The body of `__xregion_lockop` under the mutex is two steps, the load of
  `rd_cnt` and the rest, because `__treecopy` changes `rd_cnt` without the mutex.
  Reading a condition word and the kernel's comparison are one step: if they
  disagree, the loop reads again.
* Guards that the code does not have come from the type checker: a thread gives
  up only what it has, and hands a write lock over only if it keeps none
  (`join_env_spawn` of `src/src/ioeffect.cyc`). With every region it hands over at
  least one reference: there is no region without one in an effect
  (`region_accessible_common`, "impossible").
* In `XRegionTree` a call is a list of remaining steps, so threads interleave
  between the regions of one call. A failed assertion ends the program and is
  recorded in `quit`. Handles created on a stack lie below earlier ones, as the
  comment on `caps_cmp` says; those of a spawned thread are an ascending array.
  `__treecopy` up to its release loop is one step.
* `caps_cmp` subtracts pointers of the wrong type. `SignKept` says whether the
  quotient keeps its sign; without it the order of a list is any order.
* In `RegionTable`, keys and handle addresses are recycled, a dead handle keeps
  its key, and growing the table may fail (no larger prime, or no memory). A
  chain is the set of its handles: a key is in a chain once, so the order in
  which a chain is walked decides nothing.
* In `XRegionMemory`, sizes are computed modulo the word size, as in the code:
  the rounding, the doubling, and the addition of the page header.
* In `RuntimeStack`, `scope` is where the program is and `stack` what the runtime
  believes. How many frames a jump pops is computed from `scope` by the rule of
  `jump_analysis.cyc`, not by looking at the stack.
* In `StopWorld`, a signal stays pending while its handler runs and a second one
  of the same kind merges with it; `sigsuspend` may return for another signal.
* `SlowDict` keeps two dictionaries that share nodes in one heap; nodes that no
  dictionary reaches any more are renumbered away.

## 3. Runs

Passing runs:

| run | instance | what it shows |
|---|---|---|
| `futex_lock` | 3 threads | mutual exclusion, no lost wake-up, somebody gets the lock, refinement of `Mutex` |
| `region_caps` | 3 threads, counts up to 2, calls as in the tests, reference-only spawns | exclusion, `writer_cv` and `rd_cnt` exact, one free by the last thread, own cached key, exclusive allocation, no forgotten sleeper, refinement of `RegionLock` |
| `region_live` | 3 threads, one request each | every call returns, unless a polling thread beats the one that lets go to the mutex for ever |
| `region_tree` | 2 threads, a parent and two children, counts up to 2 | locks of a parent cover the children, forests well formed, regions freed once, assertions hold, no circular wait |
| `region_memory` | 3 threads, 3 blocks, 2 files, words of 4 bits, requests of 3, 8 and 13 | blocks disjoint and inside their pages, files freed once, the mutex left behind only by a failed allocation, calls return otherwise, refinement of `Mutex` |
| `stop_world` | 3 threads, 2 collections (1 with `GC_retry_signals`) | everybody else held while one marks, acknowledgements match, threads do not come or go meanwhile, every stop ends, every thread goes on |
| `parts` | see below | the models that share no state |

`parts` checks, one after the other: `MainJoin` with 2 worker slots, 5 spawns and
3-bit ids (`all_done` exact, main returns last and is woken, ids of living
threads differ); `RegionTable` with 3 handles, 4 keys and sizes 1, 2, 5 (search,
cache, count and load limits); `RuntimeStack` with 5 nested scopes (the stack has
the frames of the open scopes, regions are reclaimed on every way out, the
innermost handler catches, no internal error); `Dict` with 5 keys, `SlowDict`
with 4 keys and 2 versions, `Hashtable` with 3 keys and 5 bindings (each stands
for its finite map; red-black balance, splayed root, order of shadowed
bindings).

Five properties are the soundness of a data structure and bundle several facts
that are defined, and described, one by one: `CountsExact` (`XRegionCaps`),
`TreeSound` (`XRegionTree`), `TableSound` (`RegionTable`), `StackSound`
(`RuntimeStack`) and `CountersSound` (`MainJoin`). One mutant is kept for
each; every fact but the types was broken by a mutant of its own when it was
first stated. `OwnerHoldsWord`,
`AllocExclusive` and the types of `FutexLock`, `XRegionCaps`, `XRegionMemory` and
`StopWorld` are proved and in no run.

`region_tree` is a result about a restricted program, and each restriction is a
constant of the module. `Polite`: a thread asks for a lock only when it holds
none anywhere; a thread that holds one region and asks for another can always
be part of a circular wait, and the runtime does nothing against it.
`ReadsBelow = FALSE`: no region is created below one that is only read.
`MaxDepth = 1`: only main spawns. `SignKept`: the quotient in `caps_cmp` has the
sign of the distance. Each is needed. `tree_circle` drops `SignKept`. With
`ReadsBelow` (and without `Polite`, a single thread suffices) a region created
below one that is read fails the assertion at `runtime_memory.c:1508` in the next
lock operation, against `LockopAssertions`. With `MaxDepth = 2` a spawned thread
that spawns gives the parent up first and then touches the dead child
(`runtime_stack.c:373`, order from line 207), against `NoDeadHandle`.

Runs that end in a violation; each is a disagreement between the code and a
comment or an assertion in it (`findings` in `PROJECT.json` quotes both):

| run | what happens |
|---|---|
| `spawn_write` | a spawn with a write lock sets `writer_cv` to the child and then clears it, so another thread can lock the region |
| `spawn_read` | a spawn with a read lock loses an increment of `rd_cnt` |
| `tree_circle` | with the sign of `caps_cmp` lost, siblings are locked in different orders and two threads wait for each other |
| `main_join_sleeps` | `main_join` reads `all_done` twice and sleeps on 0 |
| `stop_world_retry` | with `GC_retry_signals`, a duplicate suspend signal that is handled only in the next collection acknowledges for a thread that still runs |

`__xregion_lockop` locks the sub-regions of a region before the region itself
(`runtime_memory.c:1487`). The comment above it asks for the opposite ("LOCKING
MUST BE TOP-DOWN OTHERWISE A DEADLOCK MAY OCCUR", `runtime_memory.c:1435`), and says
why the order of siblings then matters. `NoCircularWait` in `region_tree` is about
the order the code has: while siblings are in one order in all threads, bottom-up
locking gives no circle in the programs described above.

### Where a passing property has a precondition

These are cases in which the code does not do what the property says of all the
others; each is a constant, a hypothesis or a condition in the property.

* `BlocksInPages` holds for pages that fit a word together with their header.
  `alloc_size` (`runtime_memory.c:1380`) is an unsigned addition without a test:
  for a larger page less is allocated than `last_plus_one` says. The request of
  13 reaches this in `region_memory`, and without the condition the property is
  violated there. Likewise a request within seven bytes of 2^32 is rounded to 0;
  the model has the computation, the instance no such request. `BlocksDisjoint`
  is about offsets in a page, so it speaks of real memory only under the same
  condition.
* `CallsReturn` says nothing once an allocation has failed under the mutex:
  `_throw_badalloc` leaves it locked (`runtime_memory.c:1386`).
* `FramesMatchScopes` (in `StackSound`) needs `Kinds` without `"open"`. A scope of `region r = open(k)`
  or `region r = xopen(h)` pushes no frame (`toc.cyc:4785` and `4791`), but
  `jump_analysis.cyc:292` counts one: it excepts only variables of extended
  regions, and both are given the kind of ordinary ones (`parse.y:1466` and
  `1472`). So a jump out of such a scope pops a frame of an outer one. With `"open"` in `Kinds` TLC finds
  this.
* `RedBlack` is about dictionaries that are not the result of an intersection.
  `intersect_c` builds with `ins` and never paints the root (`dict.cyc:454`), so
  its trees are red and unbalanced. `make_iter` relies on the balance ("we
  exploit the balancing invariant to bound the array size", `dict.cyc:583`);
  this takes intersections of some eighteen keys to matter, above the instance.
* `WorldStopped` with `GC_retry_signals` holds for a single collection only.
* `XRegionCaps` is checked without mixed calls: one that asks for the write lock
  and gives up a read lock (`cap(h,0,1,-1)`) applies its read part once per round
  of the loop, against the assertion at `runtime_memory.c:1641`.
* `SearchExact` excepts keys whose insertion failed: `hashtable_insert` returns 0
  when the table cannot grow, where its comment (`runtime_memory.c:1897`) wants
  the entry crammed in.
* `TidsDistinct` (in `CountersSound`) is about threads with fewer than 2^31 (half the word size) spawns between them.

Met while reading, and in no run: `Dict::insert_new` throws `Absent`
(`dict.cyc:164`) where `dict.h:92` says `Present`;
`Cyc_set_default_xregion_page_size` ignores its minimum; `_xregion_calloc` does
not clear the memory.

**Bounds.** Three threads let one hold a lock, one wait and one arrive. Counts
up to 2 tell the first and the last count from the ones between. Two children
are the least that can be visited in two orders. Three-bit ids wrap within five
spawns. Table sizes 1, 2, 5 make the table grow twice and shrink twice with
three entries; for this the upper load factor is 100 instead of the 200 of the
code (the properties were also checked with 200). Four-bit words wrap at the
second doubling of a page. Two collections let a signal of the first be handled
in the second. Five keys are enough for every case of `balance` and four for
every double rotation of `splay`; `Hashtable` starts with one bucket of length
one, so that five bindings resize it twice.

**Fairness.** `futex_lock` and `main_join_sleeps` use weak fairness per thread:
a runnable thread is scheduled. Timeouts of futex waits are never assumed to
happen. `region_memory` uses the same; calls return there also because the number
of calls is bounded, as the mutex itself does not keep a thread from being
overtaken for ever. `stop_world` assumes that the collecting thread runs and that
pending signals are delivered and handled; wake-ups from `sigsuspend` by other
signals are not assumed. Signals are not lost.
`region_live` also assumes, as weak fairness, that locks are let go. It assumes
nothing of the compare-and-swap in `wait_lock` (`runtime_lowlevel.c:292`), which
lets a thread lose every race for the mutex. Under this, calls need not return: a
thread polls when it cannot have its lock but its condition variable is 0 (a
writer while only readers hold the region, a reader while the creator has not yet
given up its first write lock, because `reader_cv` starts at 0), and it can take
the mutex before the thread that wants to let go, again and again.
`CallsReturnUnlessOvertaken` says that this is the only way for a call not to
return; the first of its two alternatives alone is violated. It is relative to a
discipline of the program, stated in `XRegionLive`: the code lets readers overtake
a writer for ever, and two readers that both ask for the write lock wait for each
other.

**Deadlock checking** is off in `region_live` and the tree runs, where the
program may stop because it has made all its calls, and in `region_memory`, where
nothing happens after the region has been freed.

## 4. Proofs

`RuntimeProofs`, about `FutexLock`, for any set of threads: mutual exclusion, no lost wake-up,
and the refinement of `Mutex`. The invariant says that the owner and the lock
word agree and that a sleeper has an owner, a waker or an awake competitor to
rely on.

`XRegionCapsProofs` and the modules it extends, for any finite set of threads, any bound on counts and any
calls, under two hypotheses: `NoMixedRequest` (no call asks for the write lock
and changes the read count at once) and `ReferencesOnly` (spawns hand over no
lock). The second is necessary, as `spawn_write` and `spawn_read` show; the
first excludes the mixed call described above. Proved are `LocksExclude`,
`CountersExact`, `FreedByTheLast`, `CachedKeyOwn`, `AllocationExclusive`,
`SleepersRemembered` and `Refinement`.

The properties are not inductive. `IInv` adds: who may hold the mutex
(`MutexInv`), what a running call may still do to its counts (`OpInv`,
`DropInv`), that a thread inside a call has a reference (`RefInv`), the state of
a thread being spawned (`SpawnInv`), that the loaded `rd_cnt` is current while
the body runs (`RegInv`, where `ReferencesOnly` is needed), that `writer_cv`
names the writer (`WriterInv`), when the region is freed, who a cached key
belongs to and who allocates (`FreesInv`, `KeyInv`, `AllocInv`), and that a
sleeper has an awake thread to rely on (`SleepInv`). The proof has one lemma per action
and, for `Body`, several about what a round does. `IInv` was checked with TLC on the
instance of `region_caps` first. The proofs are spread over two modules because
tlapm slows down with the number of obligations of a module; for the same reason
many leaves name Zenon.

`XRegionTreeInv` and `XRegionTreeProofs`, for any finite sets of regions and threads,
any shapes of forests, any calls and any lists of spawns: `TreesExclude`
(`TreeExclusion`) and `RegionsFreedOnce` (`FreedOnce`). Of the restrictions of
`region_tree` only `ReadsBelow = FALSE` is a hypothesis; `Polite`, `MaxDepth` and
`SignKept` may have any value, so threads may lock while they hold locks, spawned
threads may spawn, and a list may be in any order. The other hypothesis is
`HandsNoLocks`, the counterpart of `ReferencesOnly`. `TreeAssumption` says that
threads and regions are finitely many and that the other constants are lists of
counts.

The argument is about what a call has left to do. A region is freed, and its
handle disappears, in the step `Unlink`, long after `__xregion_refcnt` decided on
it: in between, the sub-regions are given up one by one, their sub-regions before
them, and other threads take steps. Both theorems need that the handle has no lock
left when it disappears, and nothing in the state says so; it follows from the
list. `Due` says it of the list: right before a handle is unlinked comes the step
that gives up exactly the locks it has now, and the steps before that are about
handles further down, so that they cannot change them. "Further down" is a rank
of the regions that grows from parent to child. It is the same for all threads
and need not be computed: the invariant says that there is one (`Ranked`), and the
creation of a region, which no handle mentions yet, finds one more. `Pending` asks `Due` of every
unlinking in a list; `Spliced` and `PendingSpliced` show what replacing the first
step of a list by others does to it, once for the release of a handle and for the
recursion of `__xregion_lockop`. The other parts of `IInv` are that `writer_cv` and
`rd_cnt` say what the handles say (`LockWords`), that what has not been created
has left no trace (`Fresh`), and that a thread about to be started does
nothing and has no locks (`Unborn`). TLC checked `IInv` on the instance of
`region_tree` first. What the proofs need of finite sets and of the lists that
`__treecopy` makes is collected in `Counting`, a hypothesis of the lemmas that is
discharged by `Counted`, where the library on finite sets comes in; in the scope of
that library every obligation takes several times as long.

`XRegionMemoryProofs`, for any threads, requests, page sizes and word size:
`NoByteTwice` (blocks of a page are disjoint), `BlocksEndInTime` (`BlocksInPages`,
with its condition), `LeakOnlyByFailure`, `FilesOnce` and `Refinement`. The invariant adds that
a thread in a call owns the mutex or is alone (`Guarded`), who may own the mutex
(`Held`), that the room a thread has tested for is still there when it takes it
(`Knows`), and that blocks end before `offset` in the current page and before the
end in the others (`Packed`). `FilesOnce` adds that an attached file is on the list
once or has been freed (`Filed`) and which files are on their way (`Pending`).

`StopWorldProofs`, for any finite set of threads and any number of collections,
under the hypothesis `retry_signals = FALSE`, which `stop_world_retry` shows to be
necessary: `OthersHeld`, `AcksMatched`, `NothingMoves`. The invariant relates the
table to the threads (`TableInv`), counts acknowledgements posted, taken and still
to come against the signals sent (`CountsInv`, `AcksInv`), says whom this
collection has asked (`AskedInv`), that no handler carries the count of a
collection that has not begun (`FreshInv`), and that who has acknowledged stays
in the handler until `GC_start_world` (`HeldInv`). It was checked with TLC before
it was proved.

The next three models are extended side by side by `MCParts`, which is why their
definitions, and the theorems about them, have names of their own (`JoinInit`, `TableInit`,
`StackInit`). What their constants are is an assumption of each model
(`JoinAssumption`, `TableAssumption`, `StackAssumption`) that TLC evaluates.

`PartsProofs`, about `MainJoin`, for any finite set of thread slots, any number of spawns and any
even word size above 2: `CountersMean`, `MainLast`, `MainWoken`. The invariant
adds where main and the workers can be (`Places`), that a thread under
construction has exactly one parent, which is in `_xspawn` (`Spawning`), and that
the id of a thread is the odd number of its birth modulo the word size
(`Births`); that two such ids differ is a lemma about remainders (`OddMod`).

`PartsProofs`, about `RegionTable`, for any keys, any finite set of handles, any list of sizes and
any load factors: `TableStaysSound` and `SearchIsExact`. Besides types,
`TableConstants` asks that a larger size has a larger upper limit, and that what is
below the lower limit of a size fits the next smaller one. The primes and factors
of the code satisfy this for sizes up to 12582917; above, `size * 200` no longer
fits 32 bits. `TableSound` says what a chain, the cache and the counters hold; to
it the invariant adds that a thread has one handle per region (`OneHandle`),
without which a search could find another.

`RuntimeProofs`, about `RuntimeStack`, for any handles, any depth of nesting and any numbers of pages,
under the hypothesis `"open" \notin Kinds`, whose necessity is described above:
`StackStaysSound`, `RegionsAreReclaimed` and the action property
`ExceptionsCaughtInnermost`. The invariant is `StackSound`, `RegionsReclaimed` and
that a try block or region in scope has a handle of its own (`ScopesOwn`). The
argument is a correspondence of positions: the frame of the i-th scope lies at
`Base + Pushed(i)`, where `Pushed` counts the scopes up to i that push a frame. It
grows by one with such a scope (`PushedStep`), so cutting `scope` and `stack` at
corresponding places keeps the invariant (`TruncIInv`); the ends of blocks, jumps,
returns and exceptions are all such cuts. The number of frames that
`jump_analysis.cyc` computes is the difference of two values of `Pushed`
(`PushedNpop`). Where a fact about all positions needs induction, it is taken from
the least counterexample (`NatLeast`).

**Only model-checked:** liveness (the prover has neither fairness nor
`ENABLED`); the collections, whose definitions are recursive (`DictExact`, `RedBlack`,
`VersionsExact`, `RootFound`, `ShadowingKept`); and four properties of the tree.
`TreeSound`, `NoDeadHandle`, `LockopAssertions` and `NoCircularWait` hold only with
the restrictions of `region_tree`, and an invariant for them has to say, at
every point of a call, which part of a subtree has been visited: the locks of a parent
are in some of its children and not yet in others, a list of sub-keys still names
handles that the list of steps is about to give up, and two threads agree on the
order of siblings only because of where their handles lie. `IInv` knows of this
only ranks. Of `TreeSound`, the types are part of `IInv`.

## 5. Not modelled

* Counted pointers and dynamic regions: every call adds to or subtracts from one
  word and touches nothing else; a model would restate the assignments.
* Lexical region memory beyond a count of pages, the `calloc` variants, and the
  bounded collector sizes.
* Of stopping the world: incremental collection and `GC_wait_for_gc_completion`,
  fork handling, the lock of the parallel marker, thread-local allocation, lost
  signals, `pthread_join` and finished entries of the table. Of the collector:
  heap, marking and sweeping.
* What a thread that ends by an exception leaves locked: scopes of shared regions
  push no frame, so nothing is released, and the sources promise nothing.
* The rest of the library (lists, queues, sets, bit vectors, arrays, text), the
  compiler, the parser and the tools, which make up most of the repository's
  lines: sequential transformations of data, without state that a finite instance
  would say anything about. The rules of the compiler that the runtime relies on
  appear as guards and in `RuntimeStack`.
* Counts are capped, so their 16-bit wrap-around is not covered.
* Memory is taken to be sequentially consistent: plain loads and stores that the
  hardware or the C compiler reorders are not covered.
