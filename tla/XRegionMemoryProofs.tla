------------------------ MODULE XRegionMemoryProofs ------------------------
(***************************************************************************)
(* Proofs about XRegionMemory for any set of threads, any requests, any    *)
(* page sizes and any word size: the page list is worked on by one thread  *)
(* at a time, blocks are disjoint and lie in their pages if these fit a    *)
(* word, and the mutex leaks only through a failed allocation.             *)
(***************************************************************************)
EXTENDS XRegionMemory, FiniteSetTheorems, SequenceTheorems, TLAPS

Block == [page : Nat, start : Nat, size : Nat]

\* The types the proofs need.
Types ==
    /\ holders \subseteq Threads
    /\ lock \in Threads \cup {Nobody}
    /\ pages \in Seq(Nat)
    /\ offset \in Nat
    /\ blocks \in Seq(Block)
    /\ failed \subseteq Threads
    /\ pc \in [Threads -> Critical \cup {"idle", "lock"}]
    /\ job \in [Threads -> Nat \cup Files]
    /\ locks \in [Threads -> BOOLEAN]
    /\ at \in [Threads -> [page : Nat, start : Nat]]

\* A thread in a call either has asked for the mutex, or is alone in the region;
\* inside, one that has asked owns the mutex.
Guarded ==
    \A t \in Threads :
        /\ pc[t] # "idle" => t \in holders
        /\ pc[t] # "idle" /\ ~locks[t] => holders = {t}
        /\ pc[t] \in Critical /\ locks[t] => lock = t

\* The owner of the mutex is inside and has asked for it, or has failed.
Held == lock # Nobody => (lock \in Inside /\ locks[lock]) \/ lock \in failed

\* What the allocating thread knows between two accesses to the handle.
Knows ==
    \A t \in Threads :
        /\ pc[t] \in {"check", "grow", "take", "bump"} => job[t] \in Nat
        /\ pc[t] \in {"take", "bump"} => offset + job[t] <= LastPlusOne
        /\ pc[t] = "bump" => at[t].page = Len(pages) /\ at[t].start = offset

\* The end of the page, 0 for the blocks of size 0 handed out before the first.
PageEnd(p) == IF p = 0 THEN 0 ELSE pages[p]

\* Every block ends before its page, and before offset if the page is curr.
Packed ==
    /\ offset <= LastPlusOne
    /\ \A i \in DOMAIN blocks :
        /\ blocks[i].page <= Len(pages)
        /\ blocks[i].start + blocks[i].size <= PageEnd(blocks[i].page)
        /\ blocks[i].page = Len(pages) => blocks[i].start + blocks[i].size <= offset

\* The inductive invariant.
IInv == Types /\ Guarded /\ Held /\ Knows /\ Packed /\ BlocksDisjoint

-----------------------------------------------------------------------------
(* Arithmetic *)

\* The remainder by the word size is a natural number.
LEMMA ModNat ==
  ASSUME NEW a \in Nat, NEW w \in Nat \ {0} PROVE a % w \in Nat
  OBVIOUS

\* An addition that stays below the word size does not wrap around.
LEMMA ModSmall ==
  ASSUME NEW a \in Nat, NEW w \in Nat \ {0}, a < w PROVE a % w = a
  OBVIOUS

\* The rounded size of _xregion_malloc is a natural number.
LEMMA RoundUpNat == \A s \in Requests : RoundUp(s) \in Nat
<1> SUFFICES ASSUME NEW s \in Requests PROVE RoundUp(s) \in Nat
  BY Zenon
<1> DEFINE m == (s + Align - 1) % Word
<1>1. s \in Nat /\ Align \in Nat \ {0} /\ Word \in Nat \ {0}
  BY Zenon, SizesAssumption
<1>2. m \in Nat
  BY <1>1, ModNat
<1>3. m \div Align \in Nat
  BY <1>1, <1>2
<1>4. (m \div Align) * Align \in Nat
  BY <1>1, <1>3
<1> QED BY Zenon, <1>4 DEF RoundUp

\* A page fits the request it is made for.
LEMMA NextSizeFits ==
  ASSUME pages \in Seq(Nat), NEW s \in Nat
  PROVE  NextSize(s) \in Nat /\ s <= NextSize(s)
<1>1. LastPlusOne \in Nat
  BY DEF LastPlusOne
<1>2. Doubled \in Nat
  BY <1>1, ModNat, SizesAssumption DEF Doubled
<1> QED BY <1>2 DEF NextSize

\* What Append does to the sequences of pages and blocks.
LEMMA Appended ==
  ASSUME NEW S, NEW s \in Seq(S), NEW e \in S
  PROVE  /\ Append(s, e) \in Seq(S)
         /\ Append(s, e) # <<>>
         /\ Len(Append(s, e)) = Len(s) + 1
         /\ Append(s, e)[Len(s) + 1] = e
         /\ DOMAIN Append(s, e) = DOMAIN s \cup {Len(s) + 1}
         /\ \A i \in DOMAIN s : Append(s, e)[i] = s[i] /\ s[i] \in S
  OBVIOUS

-----------------------------------------------------------------------------
(* The invariant *)

\* Page list and bump pointer are worked on by one thread at a time.
LEMMA OneInside ==
  ASSUME Types, Guarded, NEW t \in Threads, NEW u \in Threads,
         pc[t] \in Critical, pc[u] # "idle",
         ~locks[t] \/ ~locks[u] \/ pc[u] \in Critical
  PROVE  t = u
<1>1. pc[t] # "idle"
  BY Zenon DEF Critical
<1>2. CASE ~locks[t] \/ ~locks[u]
  BY Zenon, <1>1, <1>2 DEF Guarded
<1>3. CASE locks[t] /\ locks[u]
  BY Zenon, <1>3 DEF Guarded
<1> QED BY Zenon, <1>2, <1>3 DEF Types

\* IInv holds for a new region.
LEMMA InitIInv == Init => IInv
<1> SUFFICES ASSUME Init PROVE IInv
  BY Zenon
<1> USE ThreadsAssumption DEF Init
<1>1. Types
  BY DEF Types, Unset
<1>2. Guarded
  BY Zenon DEF Guarded, Critical
<1>3. Held /\ Knows
  BY Zenon DEF Held, Knows
<1>4. Packed /\ BlocksDisjoint
  BY DEF Packed, LastPlusOne, BlocksDisjoint
<1> QED BY Zenon, <1>1, <1>2, <1>3, <1>4 DEF IInv

\* Every step keeps the types.
LEMMA TypesNext == Types /\ Knows /\ [Next]_vars => Types'
<1> SUFFICES ASSUME Types, Knows, [Next]_vars PROVE Types'
  BY Zenon
<1> USE DEF Types, Critical, memory, thread, Goto, Return, Unset
<1>1. ASSUME NEW t \in Threads, Step(t) PROVE Types'
  <2>1. CASE Enter(t)
    BY Zenon, <2>1 DEF Enter
  <2>2. CASE Check(t)
    BY Zenon, <2>2 DEF Check
  <2>3. CASE Grow(t)
    <3>1. NextSize(job[t]) \in Nat
      BY Zenon, <2>3, NextSizeFits DEF Grow, Knows
    <3> QED BY <2>3, <3>1 DEF Grow
  <2>4. CASE GrowFails(t)
    BY Zenon, <2>4 DEF GrowFails
  <2>5. CASE Take(t)
    BY <2>5 DEF Take
  <2>6. CASE Bump(t)
    <3>1. job[t] \in Nat /\ at[t].page \in Nat /\ at[t].start \in Nat
      BY Zenon, <2>6 DEF Bump, Knows
    <3>2. blocks' \in Seq(Block)
      BY Zenon, <2>6, <3>1, Appended DEF Bump, Block
    <3> QED BY <2>6, <3>1, <3>2 DEF Bump
  <2>7. CASE Push(t)
    BY Zenon, <2>7 DEF Push
  <2>8. CASE Unlock(t)
    BY Zenon, <2>8 DEF Unlock
  <2> QED BY Zenon, <1>1, <2>1, <2>2, <2>3, <2>4, <2>5, <2>6, <2>7, <2>8 DEF Step
<1>2. ASSUME NEW t \in Threads, Leave(t) PROVE Types'
  <2>1. \/ pages' = <<>> /\ offset' = 0 /\ blocks' = <<>>
        \/ UNCHANGED <<pages, offset, blocks>>
    BY Zenon, <1>2 DEF Leave
  <2>2. holders' = holders \ {t} /\ UNCHANGED <<lock, failed, thread>>
    BY Zenon, <1>2 DEF Leave
  <2>3. pages' \in Seq(Nat) /\ blocks' \in Seq(Block)
    BY Zenon, <2>1, EmptySeq
  <2>4. offset' \in Nat
    BY <2>1
  <2> HIDE DEF Critical
  <2> QED BY Zenon, <2>2, <2>3, <2>4
<1>3. ASSUME NEW t \in Threads, NEW s \in Requests, Malloc(t, s) PROVE Types'
  BY Zenon, <1>3, RoundUpNat DEF Malloc, Call
<1>4. ASSUME NEW t \in Threads, NEW f \in Files, Attach(t, f) PROVE Types'
  BY Zenon, <1>4 DEF Attach, Call
<1>5. ASSUME NEW t \in Threads, NEW u \in Threads, Share(t, u) PROVE Types'
  BY Zenon, <1>5 DEF Share
<1>6. CASE UNCHANGED vars
  BY Zenon, <1>6 DEF vars
<1> QED BY Zenon, <1>1, <1>2, <1>3, <1>4, <1>5, <1>6 DEF Next

\* Every step keeps a thread in a call alone or on its way to the mutex.
LEMMA GuardedNext == Types /\ Guarded /\ [Next]_vars => Guarded'
<1> SUFFICES ASSUME Types, Guarded, [Next]_vars PROVE Guarded'
  BY Zenon
<1> USE ThreadsAssumption DEF Types, Guarded, Critical, Goto, Return
<1>1. ASSUME NEW t \in Threads, Step(t) PROVE Guarded'
  <2>1. CASE Enter(t)
    BY Zenon, <2>1 DEF Enter
  <2>2. CASE Check(t)
    BY Zenon, <2>2 DEF Check
  <2>3. CASE Grow(t)
    BY Zenon, <2>3 DEF Grow
  <2>4. CASE GrowFails(t)
    BY Zenon, <2>4 DEF GrowFails
  <2>5. CASE Take(t)
    BY Zenon, <2>5 DEF Take
  <2>6. CASE Bump(t)
    BY Zenon, <2>6 DEF Bump
  <2>7. CASE Push(t)
    BY Zenon, <2>7 DEF Push
  <2>8. CASE Unlock(t)
    BY Zenon, <2>8 DEF Unlock
  <2> QED BY Zenon, <1>1, <2>1, <2>2, <2>3, <2>4, <2>5, <2>6, <2>7, <2>8 DEF Step
<1>2. ASSUME NEW t \in Threads, Leave(t) PROVE Guarded'
  BY Zenon, <1>2 DEF Leave, thread
<1>3. ASSUME NEW t \in Threads, NEW s \in Requests, Malloc(t, s) PROVE Guarded'
  BY Zenon, <1>3 DEF Malloc, Call, Alone
<1>4. ASSUME NEW t \in Threads, NEW f \in Files, Attach(t, f) PROVE Guarded'
  BY Zenon, <1>4 DEF Attach, Call
<1>5. ASSUME NEW t \in Threads, NEW u \in Threads, Share(t, u) PROVE Guarded'
  BY Zenon, <1>5 DEF Share, thread
<1>6. CASE UNCHANGED vars
  BY Zenon, <1>6 DEF vars
<1> QED BY Zenon, <1>1, <1>2, <1>3, <1>4, <1>5, <1>6 DEF Next

\* Every step leaves the mutex with a thread inside, or with one that has failed.
LEMMA HeldNext == Types /\ Guarded /\ Held /\ [Next]_vars => Held'
<1> SUFFICES ASSUME Types, Guarded, Held, [Next]_vars PROVE Held'
  BY Zenon
<1> USE ThreadsAssumption DEF Types, Held, Inside, Critical, Goto, Return
<1>1. ASSUME NEW t \in Threads, Step(t) PROVE Held'
  <2>1. CASE Enter(t)
    BY Zenon, <2>1 DEF Enter, Guarded
  <2>2. CASE Check(t)
    BY Zenon, <2>2 DEF Check
  <2>3. CASE Grow(t)
    BY Zenon, <2>3 DEF Grow
  <2>4. CASE GrowFails(t)
    BY Zenon, <2>4 DEF GrowFails, Guarded
  <2>5. CASE Take(t)
    BY Zenon, <2>5 DEF Take
  <2>6. CASE Bump(t)
    BY Zenon, <2>6 DEF Bump
  <2>7. CASE Push(t)
    BY Zenon, <2>7 DEF Push
  <2>8. CASE Unlock(t)
    BY Zenon, <2>8 DEF Unlock, Guarded
  <2> QED BY Zenon, <1>1, <2>1, <2>2, <2>3, <2>4, <2>5, <2>6, <2>7, <2>8 DEF Step
<1>2. ASSUME NEW t \in Threads, Leave(t) PROVE Held'
  BY Zenon, <1>2 DEF Leave, thread
<1>3. ASSUME NEW t \in Threads, NEW s \in Requests, Malloc(t, s) PROVE Held'
  BY Zenon, <1>3 DEF Malloc, Call
<1>4. ASSUME NEW t \in Threads, NEW f \in Files, Attach(t, f) PROVE Held'
  BY Zenon, <1>4 DEF Attach, Call
<1>5. ASSUME NEW t \in Threads, NEW u \in Threads, Share(t, u) PROVE Held'
  BY Zenon, <1>5 DEF Share, thread
<1>6. CASE UNCHANGED vars
  BY Zenon, <1>6 DEF vars
<1> QED BY Zenon, <1>1, <1>2, <1>3, <1>4, <1>5, <1>6 DEF Next

\* While one thread is inside, no other is.
LEMMA OthersOutside ==
  ASSUME Types, Guarded, NEW t \in Threads, pc[t] \in Critical
  PROVE  \A u \in Threads : u # t => pc[u] \notin Critical
<1> SUFFICES ASSUME NEW u \in Threads, pc[u] \in Critical PROVE t = u
  BY Zenon
<1>1. pc[u] # "idle"
  BY Zenon DEF Critical
<1> QED BY Zenon, <1>1, OneInside

\* A thread that leaves is not in a call, and the pages stay unless it was alone.
LEMMA LeaveFrees ==
  ASSUME NEW t \in Threads, Leave(t), Types, Guarded
  PROVE  /\ UNCHANGED <<pc, job, at>>
         /\ \/ /\ pages' = <<>> /\ offset' = 0 /\ blocks' = <<>>
               /\ \A u \in Threads : pc[u] = "idle"
            \/ UNCHANGED <<pages, offset, blocks>>
<1>1. UNCHANGED <<pc, job, at>> /\ pc[t] = "idle"
  BY Zenon DEF Leave, thread
<1>2. CASE Alone(t)
  <2>1. pages' = <<>> /\ offset' = 0 /\ blocks' = <<>>
    BY Zenon, <1>2 DEF Leave
  <2>2. \A u \in Threads : pc[u] = "idle"
    BY Zenon, <1>1, <1>2 DEF Alone, Guarded
  <2> QED BY Zenon, <1>1, <2>1, <2>2
<1>3. CASE ~Alone(t)
  BY Zenon, <1>1, <1>3 DEF Leave, memory
<1> QED BY Zenon, <1>2, <1>3

\* Every step keeps what the thread inside knows: nobody else is there to change
\* pages and offset.
LEMMA KnowsNext == Types /\ Guarded /\ Knows /\ Packed /\ [Next]_vars => Knows'
<1> SUFFICES ASSUME Types, Guarded, Knows, Packed, [Next]_vars PROVE Knows'
  BY Zenon
<1> USE DEF Types, Knows, Critical, LastPlusOne, memory
<1>1. ASSUME NEW t \in Threads, Step(t) PROVE Knows'
  <2>1. CASE Enter(t)
    BY Zenon, <2>1 DEF Enter, Goto
  <2>2. CASE Check(t)
    BY <2>2 DEF Check, Goto
  <2>3. CASE Grow(t)
    <3>1. job[t] \in Nat
      BY Zenon, <2>3 DEF Grow
    <3>2. NextSize(job[t]) \in Nat /\ job[t] <= NextSize(job[t])
      BY Zenon, <3>1, NextSizeFits
    <3>3. \A u \in Threads : u # t => pc[u] \notin Critical
      BY Zenon, <2>3, OthersOutside DEF Grow
    <3>4. LastPlusOne' = NextSize(job[t]) /\ offset' = 0
      BY <2>3, <3>2, Appended DEF Grow
    <3> HIDE DEF LastPlusOne
    <3> QED BY <2>3, <3>1, <3>2, <3>3, <3>4 DEF Grow, Goto
  <2>4. CASE GrowFails(t)
    BY Zenon, <2>4 DEF GrowFails, Return
  <2>5. CASE Take(t)
    BY Zenon, <2>5 DEF Take, Goto
  <2>6. CASE Bump(t)
    <3>1. \A u \in Threads : u # t => pc[u] \notin Critical
      BY Zenon, <2>6, OthersOutside DEF Bump
    <3> QED BY Zenon, <2>6, <3>1 DEF Bump, Goto
  <2>7. CASE Push(t)
    BY Zenon, <2>7 DEF Push, Goto
  <2>8. CASE Unlock(t)
    BY Zenon, <2>8 DEF Unlock, Return
  <2> QED BY Zenon, <1>1, <2>1, <2>2, <2>3, <2>4, <2>5, <2>6, <2>7, <2>8 DEF Step
<1>2. ASSUME NEW t \in Threads, Leave(t) PROVE Knows'
  BY Zenon, <1>2, LeaveFrees
<1>3. ASSUME NEW t \in Threads, NEW s \in Requests, Malloc(t, s) PROVE Knows'
  BY Zenon, <1>3 DEF Malloc, Call
<1>4. ASSUME NEW t \in Threads, NEW f \in Files, Attach(t, f) PROVE Knows'
  BY Zenon, <1>4 DEF Attach, Call
<1>5. ASSUME NEW t \in Threads, NEW u \in Threads, Share(t, u) PROVE Knows'
  BY Zenon, <1>5 DEF Share, thread
<1>6. CASE UNCHANGED vars
  BY Zenon, <1>6 DEF vars
<1> QED BY Zenon, <1>1, <1>2, <1>3, <1>4, <1>5, <1>6 DEF Next

\* Every step keeps the blocks apart and within their pages.
LEMMA PackedNext ==
  IInv /\ [Next]_vars => Packed' /\ BlocksDisjoint'
<1> SUFFICES ASSUME Types, Guarded, Knows, Packed, BlocksDisjoint, [Next]_vars
             PROVE  Packed' /\ BlocksDisjoint'
  BY Zenon DEF IInv
<1>0. /\ pages \in Seq(Nat) /\ Len(pages) \in Nat
      /\ offset \in Nat
      /\ blocks \in Seq(Block)
      /\ \A i \in DOMAIN blocks : /\ blocks[i].page \in Nat
                                  /\ blocks[i].start \in Nat
                                  /\ blocks[i].size \in Nat
  <2>1. pages \in Seq(Nat) /\ offset \in Nat /\ blocks \in Seq(Block)
    BY Zenon DEF Types
  <2>2. \A i \in DOMAIN blocks : blocks[i] \in Block
    BY Zenon, <2>1, LenProperties, ElementOfSeq
  <2>3. Len(pages) \in Nat
    BY Zenon, <2>1, LenProperties
  <2> QED BY Zenon, <2>1, <2>2, <2>3 DEF Block
<1> USE DEF Packed, LastPlusOne, PageEnd
<1>1. CASE UNCHANGED <<pages, offset, blocks>>
  BY Zenon, <1>1 DEF BlocksDisjoint
<1>2. ASSUME NEW t \in Threads, Grow(t) PROVE Packed' /\ BlocksDisjoint'
  <2>1. NextSize(job[t]) \in Nat
    BY Zenon, <1>0, <1>2, NextSizeFits DEF Grow, Knows
  <2>2. pages' = Append(pages, NextSize(job[t])) /\ offset' = 0 /\ UNCHANGED blocks
    BY Zenon, <1>2 DEF Grow
  <2>3. /\ pages' # <<>> /\ Len(pages') = Len(pages) + 1
        /\ pages'[Len(pages) + 1] = NextSize(job[t])
        /\ \A p \in 1 .. Len(pages) : pages'[p] = pages[p]
    BY <2>1, <2>2, Appended, LenProperties
  <2>4. \A i \in DOMAIN blocks : PageEnd(blocks[i].page)' = PageEnd(blocks[i].page)
    BY <2>2, <2>3, <1>0
  <2>5. Packed'
    BY <2>1, <2>2, <2>3, <2>4, <1>0
  <2> QED BY Zenon, <2>2, <2>5 DEF BlocksDisjoint
<1>3. ASSUME NEW t \in Threads, Bump(t) PROVE Packed' /\ BlocksDisjoint'
  <2> DEFINE b == [page |-> Len(pages), start |-> offset, size |-> job[t]]
  <2>1. job[t] \in Nat /\ offset + job[t] <= LastPlusOne
    BY Zenon, <1>3 DEF Bump, Knows
  <2>2. blocks' = Append(blocks, b) /\ offset' = offset + job[t] /\ UNCHANGED pages
    BY Zenon, <1>3 DEF Bump, Knows
  <2>3. b \in Block
    BY Zenon, <1>0, <2>1 DEF Block
  <2> HIDE DEF b
  <2>4. /\ DOMAIN blocks' = DOMAIN blocks \cup {Len(blocks) + 1}
        /\ blocks'[Len(blocks) + 1] = b
        /\ \A i \in DOMAIN blocks : blocks'[i] = blocks[i]
    BY <2>2, <2>3, Appended, <1>0
  <2>5. b.page = Len(pages) /\ b.start = offset /\ b.size = job[t]
    BY Zenon DEF b
  <2>6. b.start + b.size <= PageEnd(b.page)
    BY Zenon, <1>0, <2>1, <2>5, EmptySeq DEF LastPlusOne
  <2>7. Packed'
    <3>1. offset' <= LastPlusOne'
      BY Zenon, <2>1, <2>2
    <3>2. ASSUME NEW i \in DOMAIN blocks
          PROVE  /\ blocks'[i].page <= Len(pages)
                 /\ blocks'[i].start + blocks'[i].size <= PageEnd(blocks'[i].page)
                 /\ blocks'[i].page = Len(pages) =>
                        blocks'[i].start + blocks'[i].size <= offset'
      <4> DEFINE x == blocks[i].start + blocks[i].size
      <4>1. blocks'[i] = blocks[i]
        BY Zenon, <2>4
      <4>2. /\ blocks[i].page <= Len(pages) /\ x <= PageEnd(blocks[i].page)
            /\ blocks[i].page = Len(pages) => x <= offset
        BY Zenon
      <4>3. x \in Nat /\ offset \in Nat /\ job[t] \in Nat
        BY <1>0, <2>1
      <4>4. x <= offset => x <= offset'
        <5> HIDE DEF x
        <5> QED BY <2>2, <4>3
      <4> QED BY Zenon, <4>1, <4>2, <4>4
    <3>3. /\ b.page <= Len(pages)
          /\ b.start + b.size <= offset'
      BY <1>0, <2>1, <2>2, <2>5
    <3> HIDE DEF LastPlusOne, PageEnd
    <3>4. \A p : PageEnd(p)' = PageEnd(p)
      BY Zenon, <2>2 DEF PageEnd
    <3> QED BY Zenon, <2>2, <2>4, <2>6, <3>1, <3>2, <3>3, <3>4
  <2>8. BlocksDisjoint'
    <3>1. \A i \in DOMAIN blocks :
            blocks[i].page = b.page => blocks[i].start + blocks[i].size <= b.start
      BY Zenon, <2>5
    <3> QED BY Zenon, <2>4, <3>1 DEF BlocksDisjoint
  <2> QED BY Zenon, <2>7, <2>8
<1>4. ASSUME NEW t \in Threads, Leave(t) PROVE Packed' /\ BlocksDisjoint'
  <2>1. CASE pages' = <<>> /\ offset' = 0 /\ blocks' = <<>>
    BY <2>1 DEF BlocksDisjoint
  <2> QED BY Zenon, <1>1, <1>4, <2>1, LeaveFrees
<1> QED
  BY Zenon, <1>1, <1>2, <1>3, <1>4
  DEF Next, Step, Enter, Check, GrowFails, Take, Push, Unlock, Malloc, Attach, Call,
      Share, memory, vars

\* Every step of the calls, spawns and exits preserves IInv.
LEMMA NextIInv == IInv /\ [Next]_vars => IInv'
  BY Zenon, TypesNext, GuardedNext, HeldNext, KnowsNext, PackedNext DEF IInv

-----------------------------------------------------------------------------
(* The mapped files *)

\* A file on the list is attached, there once and not yet freed; one that is attached
\* and not on the list has been freed.
Filed ==
    /\ mapped \in Seq(Files) /\ attached \subseteq Files /\ mfreed \in [Files -> {0, 1}]
    /\ \A i, j \in DOMAIN mapped : mapped[i] = mapped[j] => i = j
    /\ \A i \in DOMAIN mapped : mapped[i] \in attached /\ mfreed[mapped[i]] = 0
    /\ \A f \in attached : mfreed[f] = 0 => \E i \in DOMAIN mapped : mapped[i] = f
    /\ \A f \in Files \ attached : mfreed[f] = 0

\* A file that a thread is about to attach is new, and nobody else's job.
Pending ==
    \A t \in Threads :
        /\ pc[t] = "push" => job[t] \in Files
        /\ pc[t] \in {"lock", "push"} /\ job[t] \in Files => job[t] \notin attached
        /\ \A u \in Threads : job[t] = job[u] /\ job[t] \in Files => t = u

\* A file is on the list once if it is there at all.
LEMMA ListedOnce ==
  ASSUME Filed, NEW f \in Files
  PROVE  Listed(f) = IF \E i \in DOMAIN mapped : mapped[i] = f THEN 1 ELSE 0
<1> DEFINE S == {i \in DOMAIN mapped : mapped[i] = f}
<1>1. CASE \E i \in DOMAIN mapped : mapped[i] = f
  <2>1. PICK i \in DOMAIN mapped : mapped[i] = f
    BY Zenon, <1>1
  <2>2. S = {i}
    BY <2>1 DEF Filed
  <2> QED BY Zenon, <1>1, <2>2, FS_Singleton DEF Listed
<1>2. CASE ~\E i \in DOMAIN mapped : mapped[i] = f
  <2>1. S = {}
    BY Zenon, <1>2
  <2> QED BY Zenon, <1>2, <2>1, FS_EmptySet DEF Listed
<1> QED BY Zenon, <1>1, <1>2

\* What linking a file in front of the list does to it.
LEMMA Linked ==
  ASSUME NEW s \in Seq(Files), NEW f \in Files
  PROVE  /\ <<f>> \o s \in Seq(Files)
         /\ 1 \in DOMAIN (<<f>> \o s) /\ (<<f>> \o s)[1] = f
         /\ \A i \in DOMAIN s : i + 1 \in DOMAIN (<<f>> \o s) /\ (<<f>> \o s)[i + 1] = s[i]
         /\ \A i \in DOMAIN (<<f>> \o s) : i = 1 \/ (i - 1 \in DOMAIN s /\ (<<f>> \o s)[i] = s[i - 1])
<1> DEFINE r == <<f>> \o s
<1>1. <<f>> \in Seq(Files) /\ Len(<<f>>) = 1 /\ <<f>>[1] = f
  OBVIOUS
<1>2. /\ r \in Seq(Files) /\ Len(r) = 1 + Len(s)
      /\ \A i \in 1 .. 1 + Len(s) : r[i] = IF i <= 1 THEN <<f>>[i] ELSE s[i - 1]
  <2>1. /\ r \in Seq(Files) /\ Len(r) = Len(<<f>>) + Len(s)
        /\ \A i \in 1 .. Len(<<f>>) + Len(s) : r[i] =
             IF i <= Len(<<f>>) THEN <<f>>[i] ELSE s[i - Len(<<f>>)]
    BY <1>1, ConcatProperties, Zenon
  <2> QED BY Zenon, <1>1, <2>1
<1>3. DOMAIN r = 1 .. Len(r) /\ DOMAIN s = 1 .. Len(s) /\ Len(s) \in Nat
  BY Zenon, <1>2, LenProperties
<1> HIDE DEF r
<1>4. /\ 1 \in DOMAIN r /\ r[1] = f
      /\ \A i \in DOMAIN s : i + 1 \in DOMAIN r /\ r[i + 1] = s[i]
      /\ \A i \in DOMAIN r : i = 1 \/ (i - 1 \in DOMAIN s /\ r[i] = s[i - 1])
  BY <1>1, <1>2, <1>3
<1> QED BY Zenon, <1>2, <1>4 DEF r

\* attach_region links a new file.
LEMMA PushFiled ==
  ASSUME Types, Filed, Pending, NEW t \in Threads, Push(t)
  PROVE  Filed'
<1> DEFINE f == job[t]
<1>1. f \in Files /\ f \notin attached
  BY Zenon DEF Pending, Push
<1>2. mapped' = <<f>> \o mapped /\ attached' = attached \cup {f} /\ mfreed' = mfreed
  BY Zenon DEF Push
<1> HIDE DEF f
<1>3. /\ mapped' \in Seq(Files) /\ 1 \in DOMAIN mapped' /\ mapped'[1] = f
      /\ \A i \in DOMAIN mapped : i + 1 \in DOMAIN mapped' /\ mapped'[i + 1] = mapped[i]
      /\ \A i \in DOMAIN mapped' : i = 1 \/ (i - 1 \in DOMAIN mapped /\ mapped'[i] = mapped[i - 1])
  <2>1. mapped \in Seq(Files)
    BY Zenon DEF Filed
  <2> HIDE DEF Filed
  <2> QED BY <1>1, <1>2, <2>1, Linked
<1>4. \A i \in DOMAIN mapped : mapped[i] # f /\ i \in Nat
  BY <1>1, LenProperties DEF Filed
<1>5. \A i \in DOMAIN mapped' : i \in Nat
  BY <1>3, LenProperties
<1>6. \A i, j \in DOMAIN mapped' : mapped'[i] = mapped'[j] => i = j
  <2> SUFFICES ASSUME NEW i \in DOMAIN mapped', NEW j \in DOMAIN mapped', mapped'[i] = mapped'[j]
               PROVE  i = j
    BY Zenon
  <2>1. CASE i = 1 \/ j = 1
    BY <1>3, <1>4, <2>1
  <2>2. CASE i # 1 /\ j # 1
    <3>1. i - 1 = j - 1
      BY <1>3, <2>2 DEF Filed
    <3> QED BY <1>5, <3>1
  <2> QED BY Zenon, <2>1, <2>2
<1>7. \A i \in DOMAIN mapped' : mapped'[i] \in attached' /\ mfreed'[mapped'[i]] = 0
  BY <1>1, <1>2, <1>3 DEF Filed
<1>8. \A g \in attached' : mfreed'[g] = 0 => \E i \in DOMAIN mapped' : mapped'[i] = g
  <2> SUFFICES ASSUME NEW g \in attached', mfreed'[g] = 0
               PROVE  \E i \in DOMAIN mapped' : mapped'[i] = g
    BY Zenon
  <2>1. CASE g = f
    BY Zenon, <1>3, <2>1
  <2>2. CASE g # f
    <3>1. PICK i \in DOMAIN mapped : mapped[i] = g
      BY Zenon, <1>2, <2>2 DEF Filed
    <3> QED BY Zenon, <1>3, <3>1
  <2> QED BY Zenon, <2>1, <2>2
<1> QED BY Zenon, <1>1, <1>2, <1>3, <1>6, <1>7, <1>8 DEF Filed

\* _xregion_free frees what is on the list.
LEMMA LeaveFiled ==
  ASSUME Filed, NEW t \in Threads, Leave(t)
  PROVE  Filed'
<1>1. CASE Alone(t)
  <2>1. /\ mfreed' = [f \in Files |-> mfreed[f] + Listed(f)]
        /\ mapped' = <<>> /\ attached' = attached
    BY Zenon, <1>1 DEF Leave
  <2>2. \A f \in Files : mfreed'[f] \in {0, 1} /\ (mfreed'[f] = 0 <=> f \notin attached)
    <3> TAKE f \in Files
    <3>1. mfreed[f] \in {0, 1}
      BY Zenon DEF Filed
    <3>2. CASE \E i \in DOMAIN mapped : mapped[i] = f
      <4>1. Listed(f) = 1 /\ mfreed[f] = 0 /\ f \in attached
        BY <3>2, ListedOnce DEF Filed
      <4> QED BY <2>1, <4>1
    <3>3. CASE ~\E i \in DOMAIN mapped : mapped[i] = f
      <4>1. Listed(f) = 0 /\ (mfreed[f] = 0 <=> f \notin attached)
        BY Zenon, <3>1, <3>3, ListedOnce DEF Filed
      <4> QED BY <2>1, <3>1, <4>1
    <3> QED BY Zenon, <3>2, <3>3
  <2>3. mfreed' \in [Files -> {0, 1}]
    BY Zenon, <2>1, <2>2
  <2> QED BY <2>1, <2>2, <2>3 DEF Filed
<1>2. CASE ~Alone(t)
  BY <1>2 DEF Leave, memory, Filed
<1> QED BY Zenon, <1>1, <1>2

\* Every step keeps what is pending new.
LEMMA PendingNext ==
  ASSUME Types, Pending, [Next]_vars
  PROVE  Pending'
<1> USE FilesAssumption DEF Types
<1>1. ASSUME NEW t \in Threads, NEW j \in Nat \cup Files, NEW w \in BOOLEAN, Call(t, j, w),
             j \in Files => j \notin attached \cup {job[u] : u \in Threads}
      PROVE  Pending'
  BY Zenon, <1>1 DEF Call, memory, Pending
<1>2. ASSUME NEW t \in Threads, Enter(t)
      PROVE  Pending'
  BY Zenon, <1>2 DEF Enter, Goto, memory, Pending
<1>3. ASSUME NEW t \in Threads, Push(t)
      PROVE  Pending'
  BY Zenon, <1>3 DEF Push, Goto, Pending
<1>4. ASSUME NEW t \in Threads, Check(t) \/ Grow(t) \/ Take(t) \/ Bump(t)
      PROVE  Pending'
  <2>1. PICK p \in {"grow", "take", "bump", "unlock"} :
           pc' = [pc EXCEPT ![t] = p] /\ UNCHANGED <<job, attached>>
    BY Zenon, <1>4 DEF Check, Grow, Take, Bump, Goto, memory
  <2> QED BY Zenon, <2>1 DEF Pending
<1>5. ASSUME NEW t \in Threads, GrowFails(t) \/ Unlock(t)
      PROVE  Pending'
  <2>1. /\ pc' = [pc EXCEPT ![t] = "idle"] /\ job' = [job EXCEPT ![t] = 0]
        /\ attached' = attached
    BY Zenon, <1>5 DEF GrowFails, Unlock, Return, memory
  <2>2. 0 \notin Files
    BY Zenon
  <2>3. job'[t] = 0 /\ \A u \in Threads \ {t} : job'[u] = job[u] /\ pc'[u] = pc[u]
    BY Zenon, <2>1
  <2>4. pc'[t] = "idle"
    BY Zenon, <2>1
  <2> QED BY Zenon, <2>1, <2>2, <2>3, <2>4 DEF Pending
<1>6. ASSUME UNCHANGED <<pc, job, attached>>
      PROVE  Pending'
  BY Zenon, <1>6 DEF Pending
<1>7. ASSUME NEW t \in Threads, NEW s \in Requests, Malloc(t, s)
      PROVE  Pending'
  BY Zenon, <1>1, <1>7, RoundUpNat DEF Malloc
<1>8. ASSUME NEW t \in Threads, NEW f \in Files, Attach(t, f)
      PROVE  Pending'
  BY Zenon, <1>1, <1>8 DEF Attach
<1> QED
  BY Zenon, <1>2, <1>3, <1>4, <1>5, <1>6, <1>7, <1>8
  DEF Next, Step, Leave, Share, memory, thread, vars

\* Only attach_region and _xregion_free touch the list.
LEMMA FiledNext ==
  ASSUME Types, Filed, Pending, [Next]_vars
  PROVE  Filed'
<1>1. ASSUME UNCHANGED <<mapped, attached, mfreed>>
      PROVE  Filed'
  BY Zenon, <1>1 DEF Filed
<1> QED
  BY Zenon, <1>1, PushFiled, LeaveFiled
  DEF Next, Step, Enter, Check, Grow, GrowFails, Take, Bump, Unlock, Malloc, Attach, Call,
      Share, memory, vars

-----------------------------------------------------------------------------
(* Theorems *)

\* The inductive invariant holds in every behaviour, fair or not.
THEOREM Invariance == Spec => []IInv
  BY InitIInv, NextIInv, PTL DEF Spec

\* _xregion_malloc never hands out a byte of a page twice, for any threads and sizes.
THEOREM NoByteTwice == Spec => []BlocksDisjoint
<1>1. IInv => BlocksDisjoint
  BY Zenon DEF IInv
<1> QED BY <1>1, Invariance, PTL

\* Every block of _xregion_malloc lies in the memory allocated for its page, also when
\* the size of the page was computed modulo the word size, if page and header fit a word.
THEOREM BlocksEndInTime == Spec => []BlocksInPages
<1>1. IInv => BlocksInPages
  <2> SUFFICES ASSUME IInv, NEW i \in DOMAIN blocks, blocks[i].size > 0
               PROVE  /\ blocks[i].page \in DOMAIN pages
                      /\ Header + pages[blocks[i].page] < Word =>
                           blocks[i].start + blocks[i].size <= Room(pages[blocks[i].page])
    BY Zenon DEF BlocksInPages
  <2> DEFINE b == blocks[i]
             p == blocks[i].page
  <2>1. b.start \in Nat /\ b.size \in Nat /\ p \in Nat
    <3>1. blocks \in Seq(Block)
      BY Zenon DEF IInv, Types
    <3>2. blocks[i] \in Block
      BY Zenon, <3>1, LenProperties, ElementOfSeq
    <3> QED BY Zenon, <3>2 DEF Block
  <2>2. p <= Len(pages) /\ b.start + b.size <= PageEnd(p)
    BY Zenon DEF IInv, Packed
  <2>3. p # 0
    BY <2>1, <2>2 DEF PageEnd
  <2>4. pages \in Seq(Nat)
    BY Zenon DEF IInv, Types
  <2>5. p \in DOMAIN pages /\ pages[p] \in Nat
    BY <2>1, <2>2, <2>3, <2>4, LenProperties, ElementOfSeq
  <2>6. ASSUME Header + pages[p] < Word PROVE b.start + b.size <= Room(pages[p])
    <3>1. (Header + pages[p]) % Word = Header + pages[p]
      BY <2>5, <2>6, SizesAssumption, ModSmall
    <3>2. Room(pages[p]) = pages[p]
      BY <3>1, <2>5, SizesAssumption DEF Room
    <3> QED BY Zenon, <3>2, <2>2, <2>3 DEF PageEnd
  <2> QED BY Zenon, <2>5, <2>6
<1> QED BY <1>1, Invariance, PTL

\* The region mutex stays behind only if _throw_badalloc left with it.
THEOREM LeakOnlyByFailure == Spec => []HeldOnlyAfterFailure
<1>1. IInv => HeldOnlyAfterFailure
  BY Zenon DEF IInv, Held, HeldOnlyAfterFailure
<1> QED BY <1>1, Invariance, PTL

\* A file that was attached is on the list, or _xregion_free has freed it exactly once.
THEOREM FilesOnce == Spec => []FilesFreedOnce
<1>1. Init => Filed /\ Pending
  BY FilesAssumption DEF Init, Filed, Pending
<1>2. IInv /\ Filed /\ Pending /\ [Next]_vars => (Filed /\ Pending)'
  BY Zenon, FiledNext, PendingNext DEF IInv
<1>3. Filed => FilesFreedOnce
  <2> SUFFICES ASSUME Filed, NEW f \in attached
               PROVE  mfreed[f] + Listed(f) = 1
    BY Zenon DEF FilesFreedOnce
  <2>1. f \in Files /\ mfreed[f] \in {0, 1}
    BY Zenon DEF Filed
  <2> QED BY <2>1, ListedOnce DEF Filed
<1> QED BY <1>1, <1>2, <1>3, Invariance, PTL DEF Spec

\* The calls on the page list implement the atomic lock: a call is Request, the
\* way in is Acquire, unlock or a failure is Release, the work itself stutters.
THEOREM Refinement == Spec => ImplementsMutex
<1>1. Init => PageList!Init
  BY Zenon DEF Init, PageList!Init, Inside, Waiting, Critical
<1>2. IInv /\ [Next]_vars => [PageList!Next]_(PageList!avars)
  <2> SUFFICES ASSUME Types, Guarded, [Next]_vars
               PROVE  PageList!Next \/ UNCHANGED PageList!avars
    BY Zenon DEF IInv
  <2> USE DEF Types, Critical, Inside, Waiting, PageList!avars
  <2>1. ASSUME NEW t \in Threads, NEW j, NEW w, Call(t, j, w)
        PROVE  PageList!Request(t)
    BY Zenon, <2>1 DEF Call, PageList!Request
  <2>2. ASSUME NEW t \in Threads, Enter(t) PROVE PageList!Acquire(t)
    <3>1. pc[t] = "lock" /\ (locks[t] => lock = Nobody)
      BY Zenon, <2>2 DEF Enter
    <3>2. \A u \in Threads : pc[u] \notin Critical
      BY Zenon, <3>1, ThreadsAssumption DEF Guarded
    <3> QED BY Zenon, <2>2, <3>1, <3>2 DEF Enter, Goto, PageList!Acquire
  <2>3. ASSUME NEW t \in Threads,
               Check(t) \/ Grow(t) \/ Take(t) \/ Bump(t) \/ Push(t)
        PROVE  UNCHANGED PageList!avars
    <3>1. PICK p \in Critical : pc[t] \in Critical /\ pc' = [pc EXCEPT ![t] = p]
      BY Zenon, <2>3 DEF Check, Grow, Take, Bump, Push, Goto
    <3> QED BY Zenon, <3>1
  <2>4. ASSUME NEW t \in Threads, Unlock(t) \/ GrowFails(t)
        PROVE  PageList!Release(t)
    BY <2>4 DEF Unlock, GrowFails, Return, PageList!Release
  <2>5. ASSUME NEW t \in Threads, Leave(t) \/ \E u \in Threads : Share(t, u)
        PROVE  UNCHANGED PageList!avars
    BY Zenon, <2>5 DEF Leave, Share, thread
  <2>6. CASE UNCHANGED vars
    BY Zenon, <2>6 DEF vars
  <2> QED
    BY Zenon, <2>1, <2>2, <2>3, <2>4, <2>5, <2>6
    DEF Next, Step, Malloc, Attach, PageList!Next
<1> QED
  BY <1>1, <1>2, Invariance, PTL DEF Spec, ImplementsMutex, PageList!Spec
=============================================================================
