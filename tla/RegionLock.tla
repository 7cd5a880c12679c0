----------------------------- MODULE RegionLock -----------------------------
(***************************************************************************)
(* What a region promises to the threads that share it, with all counting, *)
(* queueing and waiting left out: a multiple-reader single-writer lock on  *)
(* a region that lives exactly as long as some thread has a reference.     *)
(***************************************************************************)
CONSTANTS Threads, Main

VARIABLES holders,  \* threads with a reference to the region
          writers,  \* threads with write access
          readers,  \* threads with read access
          alive     \* the region's memory has not been given back

avars == <<holders, writers, readers, alive>>

\* A writer excludes every other thread; readers share.
Compatible(w, r) == \A t \in w : w = {t} /\ r \subseteq {t}

\* A region is created with its creator as the writer.
Init ==
    /\ holders = {Main}
    /\ writers = {Main}
    /\ readers = {}
    /\ alive = TRUE

\* A holder changes its own access, to anything compatible with the others'.
Adjust(t) ==
    /\ t \in holders
    /\ writers' \in {writers \cup {t}, writers \ {t}}
    /\ readers' \in {readers \cup {t}, readers \ {t}}
    /\ Compatible(writers', readers')
    /\ UNCHANGED <<holders, alive>>

\* A holder makes another thread a holder, without access.
Share(t, u) ==
    /\ t \in holders
    /\ u \notin holders
    /\ holders' = holders \cup {u}
    /\ UNCHANGED <<writers, readers, alive>>

\* A holder without access leaves; the last one takes the region with it.
Leave(t) ==
    /\ t \in holders \ (writers \cup readers)
    /\ holders' = holders \ {t}
    /\ alive' = (holders' # {})
    /\ UNCHANGED <<writers, readers>>

Next ==
    \E t \in Threads :
        \/ Adjust(t) \/ Leave(t)
        \/ \E u \in Threads : Share(t, u)

Spec == Init /\ [][Next]_avars
=============================================================================
