------------------------------ MODULE Contexts ------------------------------
(***************************************************************************)
(* What __SwitchCoroutine__ and CreateCoroutine promise the scheduler: a   *)
(* coroutine has a context of its own (registers, place in the code and    *)
(* stack) that only it changes while it runs and that it finds again as it *)
(* left it, whoever ran in between.                                        *)
(***************************************************************************)
CONSTANTS Coroutines,  \* the blocks there may be
          Main,        \* the one of the thread itself
          None,        \* no context: the block is not allocated
          Fresh        \* coroutine -> its context when it is created

VARIABLES running,     \* the coroutine that is running
          ctx          \* coroutine -> its context

vars == <<running, ctx>>

Init ==
    /\ running = Main
    /\ DOMAIN ctx = Coroutines
    /\ \A c \in Coroutines : ctx[c] = None <=> c # Main

\* Whatever the running coroutine computes, calls or pushes.
Runs ==
    /\ running' = running
    /\ DOMAIN ctx' = Coroutines
    /\ ctx'[running] # None
    /\ \A c \in Coroutines \ {running} : ctx'[c] = ctx[c]

SwitchTo(next) ==
    /\ ctx[next] # None
    /\ running' = next
    /\ ctx' = ctx

Create(c) ==
    /\ running = Main /\ running' = Main
    /\ ctx[c] = None
    /\ ctx' = [ctx EXCEPT ![c] = Fresh[c]]

Delete(c) ==
    /\ running = Main /\ running' = Main
    /\ c # Main /\ ctx[c] # None
    /\ ctx' = [ctx EXCEPT ![c] = None]

Next ==
    \/ Runs
    \/ \E c \in Coroutines : SwitchTo(c) \/ Create(c) \/ Delete(c)

Spec == Init /\ [][Next]_vars
=============================================================================
