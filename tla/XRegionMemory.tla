--------------------------- MODULE XRegionMemory ---------------------------
(***************************************************************************)
(* The memory of one shared region: the page list and the bump pointer of  *)
(* _xregion_malloc, the list of mapped files of attach_region, and their   *)
(* release by _xregion_free (src/lib/runtime_memory.c).                    *)
(*                                                                         *)
(* A thread that is alone in the region allocates without the region       *)
(* mutex.  XRegionCaps has the counts and locks of the region; here a      *)
(* spawn and the end of a thread's use of the region are one step each,    *)
(* the mutex is the one of module Mutex, and caps.rcnt, one per thread, is *)
(* the number of holders.                                                  *)
(***************************************************************************)
EXTENDS Integers, Sequences, FiniteSets

CONSTANTS Threads,
          Main,         \* the thread that creates the region
          Nobody,       \* the free mutex
          Requests,     \* the sizes programs ask for
          Files,        \* the files programs attach
          Align,        \* _CYC_MIN_ALIGNMENT
          Header,       \* sizeof(struct _RegionPage)
          DefaultPage,  \* default_xregion_page_size
          Word,         \* 2^32, the range of unsigned int
          MaxBlocks     \* bound on the blocks, for new calls

ASSUME ThreadsAssumption == Main \in Threads /\ Nobody \notin Threads
ASSUME SizesAssumption ==
    /\ Requests \subseteq Nat
    /\ {Align, Header, Word} \subseteq Nat \ {0}
    /\ DefaultPage \in Nat
ASSUME FilesAssumption == Files \cap Nat = {}

VARIABLES
    holders,  \* the threads that use the region
    lock,     \* caps.lock
    pages,    \* the sizes of the pages, oldest first: curr is the last
    offset,   \* offset, counted from the start of the page curr
    blocks,   \* the blocks returned so far, as [page, start, size]
    mapped,   \* the list of mapped files
    attached, \* the files attached so far
    mfreed,   \* how often mfree was called for a file
    failed,   \* the threads that an exception took out with the mutex
    pc,       \* where a thread is in _xregion_malloc or attach_region
    job,      \* the rounded size to allocate, or the file to attach
    locks,    \* was the cached rcnt different from 1?
    at        \* the local variable `offset', as [page, start]

vars == <<holders, lock, pages, offset, blocks, mapped, attached, mfreed, failed,
          pc, job, locks, at>>
thread == <<pc, job, locks, at>>
memory == <<pages, offset, blocks, mapped, attached, mfreed>>

\* The places where a thread works on the region, with or without the mutex.
Critical == {"check", "grow", "take", "bump", "push", "unlock"}
Inside == {t \in Threads : pc[t] \in Critical}
Waiting == {t \in Threads : pc[t] = "lock"}

\* The value of `at' before it is assigned.
Unset == [page |-> 0, start |-> 0]

Init ==
    /\ holders = {Main}
    /\ lock = Nobody
    /\ pages = <<>> /\ offset = 0 /\ blocks = <<>>
    /\ mapped = <<>> /\ attached = {} /\ mfreed = [f \in Files |-> 0]
    /\ failed = {}
    /\ pc = [t \in Threads |-> "idle"]
    /\ job = [t \in Threads |-> 0]
    /\ locks = [t \in Threads |-> FALSE]
    /\ at = [t \in Threads |-> Unset]

-----------------------------------------------------------------------------
(* Sizes *)

RoundUp(s) == (((s + Align - 1) % Word) \div Align) * Align

\* last_plus_one, counted like offset.
LastPlusOne == IF pages = <<>> THEN 0 ELSE pages[Len(pages)]

\* The default for the first page, twice the current page for the next.
Doubled == IF pages = <<>> THEN DefaultPage ELSE (2 * LastPlusOne) % Word

\* Mutant: the request may be larger than the page.
NextSizeDoubled(s) == Doubled

NextSize(s) == IF Doubled < s THEN s ELSE Doubled

\* What alloc_size leaves behind the header, if the addition wraps as well.
Room(size) == ((Header + size) % Word) - Header

-----------------------------------------------------------------------------
(* _xregion_malloc and attach_region *)

\* Mutant: two threads are few enough to go without the mutex.
AloneOrTwo(t) == \E u \in Threads : holders \subseteq {t, u}

\* r->caps.rcnt is 1 for the calling thread.
Alone(t) == holders = {t}

Call(t, j, shared) ==
    /\ t \in holders /\ pc[t] = "idle"
    /\ pc' = [pc EXCEPT ![t] = "lock"]
    /\ job' = [job EXCEPT ![t] = j]
    /\ locks' = [locks EXCEPT ![t] = shared]
    /\ UNCHANGED <<holders, lock, memory, failed, at>>

Malloc(t, s) ==
    /\ Len(blocks) < MaxBlocks
    /\ Call(t, RoundUp(s), ~Alone(t))

\* attach_region takes the mutex whoever uses the region.
Attach(t, f) ==
    /\ f \notin attached \cup {job[u] : u \in Threads}
    /\ Call(t, f, TRUE)

Goto(t, place) == pc' = [pc EXCEPT ![t] = place] /\ UNCHANGED <<job, locks>>

\* The call ends, and with it the local variables.
Return(t) ==
    /\ pc' = [pc EXCEPT ![t] = "idle"]
    /\ job' = [job EXCEPT ![t] = 0]
    /\ locks' = [locks EXCEPT ![t] = FALSE]
    /\ at' = [at EXCEPT ![t] = Unset]

\* wait_lock, unless the thread was alone.
Enter(t) ==
    /\ pc[t] = "lock"
    /\ locks[t] => lock = Nobody
    /\ lock' = IF locks[t] THEN t ELSE lock
    /\ Goto(t, IF job[t] \in Files THEN "push" ELSE "check")
    /\ UNCHANGED <<holders, memory, failed, at>>

\* Is there room on the current page?
Check(t) ==
    /\ pc[t] = "check"
    /\ Goto(t, IF job[t] > LastPlusOne - offset THEN "grow" ELSE "take")
    /\ UNCHANGED <<holders, lock, memory, failed, at>>

\* A new page becomes curr.
Grow(t) ==
    /\ pc[t] = "grow"
    /\ pages' = Append(pages, NextSize(job[t]))
    /\ offset' = 0
    /\ Goto(t, "take")
    /\ UNCHANGED <<holders, lock, blocks, mapped, attached, mfreed, failed, at>>

\* GC_malloc_atomic finds no memory: _throw_badalloc leaves with the mutex.
GrowFails(t) ==
    /\ pc[t] = "grow"
    /\ Return(t)
    /\ failed' = IF locks[t] THEN failed \cup {t} ELSE failed
    /\ UNCHANGED <<holders, lock, memory>>

\* offset = r->offset
Take(t) ==
    /\ pc[t] = "take"
    /\ at' = [at EXCEPT ![t] = [page |-> Len(pages), start |-> offset]]
    /\ Goto(t, "bump")
    /\ UNCHANGED <<holders, lock, memory, failed>>

\* r->offset += s
Bump(t) ==
    /\ pc[t] = "bump"
    /\ offset' = offset + job[t]
    /\ blocks' = Append(blocks, [page |-> at[t].page, start |-> at[t].start,
                                 size |-> job[t]])
    /\ Goto(t, "unlock")
    /\ UNCHANGED <<holders, lock, pages, mapped, attached, mfreed, failed, at>>

\* Mutant: the new node forgets the list.
PushAlone(t) ==
    /\ pc[t] = "push"
    /\ mapped' = <<job[t]>>
    /\ attached' = attached \cup {job[t]}
    /\ Goto(t, "unlock")
    /\ UNCHANGED <<holders, lock, pages, offset, blocks, mfreed, failed, at>>

\* The file is linked in front of the list.
Push(t) ==
    /\ pc[t] = "push"
    /\ mapped' = <<job[t]>> \o mapped
    /\ attached' = attached \cup {job[t]}
    /\ Goto(t, "unlock")
    /\ UNCHANGED <<holders, lock, pages, offset, blocks, mfreed, failed, at>>

\* Mutant: rcnt is read again for the unlock.
UnlockReread(t) ==
    /\ pc[t] = "unlock"
    /\ lock' = IF Alone(t) THEN lock ELSE Nobody
    /\ Return(t)
    /\ UNCHANGED <<holders, memory, failed>>

\* unlock, if the thread has locked.
Unlock(t) ==
    /\ pc[t] = "unlock"
    /\ lock' = IF locks[t] THEN Nobody ELSE lock
    /\ Return(t)
    /\ UNCHANGED <<holders, memory, failed>>

-----------------------------------------------------------------------------
(* The threads of the region *)

\* A thread that uses the region spawns another with a reference to it.
Share(t, u) ==
    /\ t \in holders /\ pc[t] = "idle"
    /\ u \notin holders \cup failed
    /\ holders' = holders \cup {u}
    /\ UNCHANGED <<lock, memory, failed, thread>>

\* How often _xregion_free meets a file on the list.
Listed(f) == Cardinality({i \in DOMAIN mapped : mapped[i] = f})

\* A thread gives the region up; the last one frees files and pages.
Leave(t) ==
    /\ t \in holders /\ pc[t] = "idle"
    /\ holders' = holders \ {t}
    /\ IF Alone(t)
       THEN /\ mfreed' = [f \in Files |-> mfreed[f] + Listed(f)]
            /\ pages' = <<>> /\ offset' = 0 /\ blocks' = <<>> /\ mapped' = <<>>
            /\ UNCHANGED attached
       ELSE UNCHANGED memory
    /\ UNCHANGED <<lock, failed, thread>>

Step(t) ==
    \/ Enter(t) \/ Check(t) \/ Grow(t) \/ GrowFails(t) \/ Take(t) \/ Bump(t)
    \/ Push(t) \/ Unlock(t)

Next ==
    \E t \in Threads :
        \/ Step(t) \/ Leave(t)
        \/ \E s \in Requests : Malloc(t, s)
        \/ \E f \in Files : Attach(t, f)
        \/ \E u \in Threads : Share(t, u)

Spec == Init /\ [][Next]_vars

\* A thread inside the runtime runs on.  Nothing more: the mutex may go to others
\* as long as they make calls.
FairSpec == Spec /\ \A t \in Threads : WF_vars(Step(t))

-----------------------------------------------------------------------------
(* Properties *)

\* _xregion_malloc never hands out a byte of a page twice, whatever threads allocate,
\* join and leave while a thread that was alone goes without the mutex.
BlocksDisjoint ==
    \A i, j \in DOMAIN blocks :
        i # j /\ blocks[i].page = blocks[j].page =>
            \/ blocks[i].start + blocks[i].size <= blocks[j].start
            \/ blocks[j].start + blocks[j].size <= blocks[i].start

\* Every block lies in the memory that was allocated for its page, although the size
\* of the next page is computed modulo the word size: provided that the page and its
\* header together fit a word.  The code does not test this: of a larger page only what
\* alloc_size has left after the wrap-around is allocated.
BlocksInPages ==
    \A i \in DOMAIN blocks :
        LET b == blocks[i]
        IN b.size > 0 =>
              /\ b.page \in DOMAIN pages
              /\ Header + pages[b.page] < Word => b.start + b.size <= Room(pages[b.page])

\* The mutex is held by a thread that is inside a call, or by one whose shared
\* allocation has failed: a leak has no other cause than _throw_badalloc.
HeldOnlyAfterFailure ==
    lock # Nobody => lock \in Inside \/ lock \in failed

\* A file that was attached is in the list or was freed, and only once.
FilesFreedOnce ==
    \A f \in attached : mfreed[f] + Listed(f) = 1

\* Page list and bump pointer are worked on by one thread at a time, as if every
\* call took the mutex: the calls of threads that are alone included.
PageList == INSTANCE Mutex WITH owner <- Inside, waiting <- Waiting
ImplementsMutex == PageList!Spec

\* Unless an allocation has failed with the mutex held, every call of
\* _xregion_malloc and attach_region returns.
CallsReturn ==
    \A t \in Threads : pc[t] # "idle" ~> pc[t] = "idle" \/ failed # {}
=============================================================================
