---------------------------- MODULE RuntimeStack ----------------------------
(***************************************************************************)
(* The frame stack of a thread: exception handlers and lexical regions.    *)
(*                                                                         *)
(* src/lib/runtime_stack.c and runtime_exception.c keep a list of frames;  *)
(* the compiler emits pushes and pops where scopes begin and end           *)
(* (src/src/toc.cyc), and in front of a jump a pop of as many frames as    *)
(* src/src/jump_analysis.cyc has counted.  `scope' is where the program    *)
(* is, `stack' is what the runtime believes; both grow at the end.         *)
(***************************************************************************)
EXTENDS Integers, Sequences, FiniteSets

CONSTANTS Kinds,       \* the scopes programs use: "try", "region", "xrgn", "open"
          Ids,         \* handlers and region handles in stack frames of C
          Top,         \* the top handler
          MaxNesting,  \* bound on the scopes a program is in
          MaxPages,    \* bound on the pages of a region
          UncaughtFun  \* has the program called set_uncaught_exn_fun?

\* The constants that make sense.
StackConstants ==
    /\ Kinds \subseteq {"try", "region", "xrgn", "open"} /\ Top \notin Ids
    /\ MaxNesting \in Nat /\ MaxPages \in Nat /\ UncaughtFun \in BOOLEAN

ASSUME StackAssumption == StackConstants

VARIABLES
    stack,   \* frames up to _current_frame, as [tag, id]: 0 handler, 1 region
    scope,   \* the scopes the program is in, innermost last, as [kind, id]
    pages,   \* the number of pages of a region handle
    in_uncaught_fun,
    quit     \* "no", or how the program has been ended

stackVars == <<stack, scope, pages, in_uncaught_fun, quit>>

Fun == [kind |-> "fun", id |-> Top]
Running == quit = "no" /\ scope # <<>>
Used == {scope[i].id : i \in DOMAIN scope}
InScope(kind, id) == \E i \in DOMAIN scope : scope[i] = [kind |-> kind, id |-> id]

StackTypeOK ==
    /\ stack \in Seq([tag : {0, 1}, id : Ids \cup {Top}])
    /\ scope \in Seq([kind : Kinds \cup {"fun"}, id : Ids \cup {Top}])
    /\ pages \in [Ids -> 0 .. MaxPages]
    /\ in_uncaught_fun \in BOOLEAN
    /\ quit \in {"no", "pop_region", "empty", "no handler", "dangling"}

\* _set_top_handler has pushed its frame; the body of the thread begins.
StackInit ==
    /\ stack = <<[tag |-> 0, id |-> Top]>>
    /\ scope = <<Fun>>
    /\ pages = [r \in Ids |-> 0]
    /\ in_uncaught_fun = FALSE
    /\ quit = "no"

-----------------------------------------------------------------------------
(* The runtime *)

\* Mutant: only the last of the frames is cleaned up.
CleanedLast(n) ==
    [r \in Ids |-> IF n > 0 /\ stack[Len(stack) - n + 1] = [tag |-> 1, id |-> r]
                   THEN 0 ELSE pages[r]]

\* The cleanup functions of the top n frames: __free_region for a region,
\* nothing for a handler.
Cleaned(n) ==
    [r \in Ids |-> IF \E i \in DOMAIN stack :
                        i > Len(stack) - n /\ stack[i] = [tag |-> 1, id |-> r]
                   THEN 0 ELSE pages[r]]

\* Mutant: one frame less.
NpopFrameShort(n) ==
    /\ stack' = SubSeq(stack, 1, Len(stack) - n)
    /\ pages' = Cleaned(n)
    /\ UNCHANGED quit

\* _npop_frame(n): n + 1 frames are cleaned up and popped; with fewer frames,
\* errquit ends the program.
NpopFrame(n) ==
    /\ stack' = SubSeq(stack, 1, Len(stack) - (n + 1))
    /\ pages' = Cleaned(n + 1)
    /\ quit' = IF n + 1 > Len(stack) THEN "empty" ELSE quit

PushFrame(tag, id) == stack' = Append(stack, [tag |-> tag, id |-> id])

-----------------------------------------------------------------------------
(* Scopes, as the compiler translates them *)

Enter(kind, id) ==
    /\ Running /\ Len(scope) < MaxNesting
    /\ scope' = Append(scope, [kind |-> kind, id |-> id])
    /\ UNCHANGED <<in_uncaught_fun, quit>>

\* The n innermost scopes are left.
Leave(n) == scope' = SubSeq(scope, 1, Len(scope) - n)

\* The body of the innermost scope ends.
AtEnd(kind) == Running /\ scope[Len(scope)].kind = kind /\ Leave(1)

\* try { : _push_handler, then setjmp.
EnterTry(h) ==
    /\ "try" \in Kinds /\ h \notin Used
    /\ Enter("try", h)
    /\ PushFrame(0, h)
    /\ UNCHANGED pages

\* } catch: _pop_handler, which does not look at the frame it pops.
ExitTry ==
    /\ AtEnd("try")
    /\ NpopFrame(0)
    /\ UNCHANGED in_uncaught_fun

\* { region r; : _new_region, _push_region.
EnterRegion(r) ==
    /\ "region" \in Kinds /\ r \notin Used
    /\ Enter("region", r)
    /\ PushFrame(1, r)
    /\ pages' = [pages EXCEPT ![r] = 0]

\* }: _pop_region.
ExitRegion ==
    /\ AtEnd("region")
    /\ IF stack # <<>> /\ stack[Len(stack)].tag = 1
       THEN NpopFrame(0)
       ELSE quit' = "pop_region" /\ UNCHANGED <<stack, pages>>
    /\ UNCHANGED in_uncaught_fun

\* region r @ h ("xrgn"), region r = open(k) and region r = xopen(h) (both "open",
\* as neither variable is that of an extended region) push no frame.
EnterFrameless(kind) ==
    /\ kind \in Kinds \cap {"open", "xrgn"}
    /\ Enter(kind, Top)
    /\ UNCHANGED <<stack, pages>>

ExitFrameless ==
    /\ \E kind \in {"open", "xrgn"} : AtEnd(kind)
    /\ UNCHANGED <<stack, pages, in_uncaught_fun, quit>>

-----------------------------------------------------------------------------
(* Jumps *)

\* The scopes anal_stmt increments try_depth for.
Framed(kind) == kind \in {"try", "region", "open"}

\* src_trydepth - dest_trydepth of a jump out of the n innermost scopes.
Npop(n) == Cardinality({i \in DOMAIN scope : i > Len(scope) - n /\ Framed(scope[i].kind)})

\* do_npop_before: _npop_handler(npop - 1) unless there is nothing to pop.
NpopBefore(npop) ==
    \/ npop > 0 /\ NpopFrame(npop - 1)
    \/ npop = 0 /\ UNCHANGED <<stack, pages, quit>>

\* Are the n innermost scopes in the function that is running?
InFunction(n) == \A i \in DOMAIN scope : i > Len(scope) - n => scope[i].kind # "fun"

\* break, continue, goto and fallthru leave the n innermost scopes of a function.
Jump(n) ==
    /\ Running /\ InFunction(n)
    /\ NpopBefore(Npop(n))
    /\ Leave(n)
    /\ UNCHANGED in_uncaught_fun

Call ==
    /\ Enter("fun", Top)
    /\ UNCHANGED <<stack, pages>>

\* return, out of n scopes of the function; the end of a function is a return.
Return(n) ==
    /\ Running /\ InFunction(n) /\ n < Len(scope) /\ scope[Len(scope) - n].kind = "fun"
    /\ NpopBefore(Npop(n))
    /\ Leave(n + 1)
    /\ UNCHANGED in_uncaught_fun

-----------------------------------------------------------------------------
(* Exceptions and allocation *)

\* Mutant: the handler stays on the stack.
AfterHandlerKept(i) == SubSeq(stack, 1, i)

\* The frames left when the handler at i is taken.
AfterHandler(i) == SubSeq(stack, 1, i - 1)

\* The loop over frames that are no handlers ends at i, or at no frame if i is 0.
FirstHandler(i) == /\ i > 0 => stack[i].tag = 0
                   /\ \A j \in DOMAIN stack : j > i => stack[j].tag # 0

\* Where longjmp goes: behind the try statement of handler h.  If the program is
\* not in it any more, the C frame it jumps to is gone.
Resume(h) ==
    LET tries == {j \in DOMAIN scope : scope[j] = [kind |-> "try", id |-> h]}
    IN IF tries # {}
       THEN /\ \E j \in tries : scope' = SubSeq(scope, 1, j - 1)
            /\ UNCHANGED quit
       ELSE quit' = "dangling" /\ UNCHANGED scope

\* _throw_fn, from a throw, a failed check, or an allocation that finds no memory:
\* regions up to the first handler, at i, are freed.  At the top handler the
\* thread ends, after uncaught_fun if there is one and it is not running already.
Throw(i) ==
    /\ Running /\ FirstHandler(i)
    /\ pages' = Cleaned(Len(stack) - i)
    /\ \/ /\ i = 0
          /\ quit' = "no handler"
          /\ UNCHANGED <<stack, scope, in_uncaught_fun>>
       \/ /\ i > 0 /\ stack[i].id = Top
          /\ stack' = AfterHandler(i)
          /\ in_uncaught_fun' = TRUE
          /\ scope' = IF UncaughtFun /\ ~in_uncaught_fun THEN <<Fun>> ELSE <<>>
          /\ UNCHANGED quit
       \/ /\ i > 0 /\ stack[i].id # Top
          /\ stack' = AfterHandler(i)
          /\ Resume(stack[i].id)
          /\ UNCHANGED in_uncaught_fun

\* _region_malloc needs a page for a region that is in scope.
Malloc(r) ==
    /\ Running /\ InScope("region", r)
    /\ pages[r] < MaxPages
    /\ pages' = [pages EXCEPT ![r] = @ + 1]
    /\ UNCHANGED <<stack, scope, in_uncaught_fun, quit>>

\* The thread has ended, or errquit has ended the program.
Ended == ~Running /\ UNCHANGED stackVars

StackNext ==
    \/ \E i \in Ids : EnterTry(i) \/ EnterRegion(i) \/ Malloc(i)
    \/ \E k \in Kinds : EnterFrameless(k)
    \/ ExitTry \/ ExitRegion \/ ExitFrameless
    \/ \E n \in 1 .. Len(scope) - 1 : Jump(n)
    \/ \E n \in 0 .. Len(scope) - 1 : Return(n)
    \/ \E i \in 0 .. Len(stack) : Throw(i)
    \/ Call \/ Ended

StackSpec == StackInit /\ [][StackNext]_stackVars

-----------------------------------------------------------------------------
(* Properties *)

\* Does the scope push a frame?
Pushes(kind) == kind \in {"try", "region"}

\* The frame of a try block or a region.
Frame(s) == [tag |-> IF s.kind = "try" THEN 0 ELSE 1, id |-> s.id]

\* The number of frames that the i outermost scopes have pushed.
Pushed(i) == Cardinality({j \in 1 .. i : Pushes(scope[j].kind)})

\* The frames below those of the scopes: that of the top handler, until it is taken.
Base == IF in_uncaught_fun THEN 0 ELSE 1

\* "Set _current_frame to its n+1'th tail": whatever way a scope is left (at its
\* end, by a jump, a return or an exception), the stack holds the frames of the
\* scopes the program is in, and no other.  This needs Kinds without "open": a scope
\* of open(k) or xopen(h) pushes no frame, but a jump out of it pops one.
FramesMatchScopes ==
    quit = "no" =>
        /\ Len(stack) = Base + Pushed(Len(scope))
        /\ ~in_uncaught_fun => stack[1] = [tag |-> 0, id |-> Top]
        /\ \A i \in DOMAIN scope :
              Pushes(scope[i].kind) => stack[Base + Pushed(i)] = Frame(scope[i])

\* The pages of a lexical region are reclaimed when its scope is left by any
\* path, an exception of a callee included.
RegionsReclaimed ==
    quit = "no" => \A r \in Ids : pages[r] > 0 => InScope("region", r)

\* An exception resumes behind the innermost try block the program is in, in
\* whatever function; in none, it ends the thread.
Caught ==
    IF \E j \in DOMAIN scope : scope[j].kind = "try"
    THEN \E j \in DOMAIN scope :
           /\ scope[j].kind = "try" /\ scope' = SubSeq(scope, 1, j - 1)
           /\ \A m \in DOMAIN scope : m > j => scope[m].kind # "try"
    ELSE in_uncaught_fun' /\ stack' = <<>>

\* Whatever handler _throw_fn finds on the stack, control is where Caught says.
CaughtInnermost == [][(\E i \in 0 .. Len(stack) : Throw(i)) /\ quit' = "no" => Caught]_stackVars

\* The internal errors never happen: there is always a frame to pop and it is
\* the right one, and there is a handler, except for what uncaught_fun throws.
NoInternalError ==
    quit \in {"no", "no handler"} /\ (quit = "no handler" => in_uncaught_fun)

\* The frame stack stays sound, however scopes are nested and left: it has the frames
\* of the scopes the program is in, and _pop_region, _npop_handler and _throw_fn never
\* find another one.
StackSound == StackTypeOK /\ FramesMatchScopes /\ NoInternalError
=============================================================================
