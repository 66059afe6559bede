---------------------------- MODULE CoroutineLife ----------------------------
(***************************************************************************)
(* What the coroutine runtime promises about one coroutine, whatever the   *)
(* scheduler looks like: one coroutine runs at a time and is never         *)
(* preempted, a sleeping one runs again only after a wake-up or a timeout, *)
(* a finished one never runs again.  CoroutineMgr implements this module.  *)
(***************************************************************************)
CONSTANT Coroutines

VARIABLE status        \* coroutine -> where it is in its life

Statuses == {"none", "runnable", "running", "sleeping", "finished"}

Init == status = [c \in Coroutines |-> "none"]

CpuFree == \A c \in Coroutines : status[c] # "running"

Becomes(c, from, to) ==
    /\ status[c] = from
    /\ status' = [status EXCEPT ![c] = to]

Spawn(c)   == Becomes(c, "none", "runnable")
Run(c)     == CpuFree /\ Becomes(c, "runnable", "running")
Wake(c)    == CpuFree /\ Becomes(c, "sleeping", "runnable")
TimeOut(c) == CpuFree /\ Becomes(c, "sleeping", "running")
Sleep(c)   == Becomes(c, "running", "sleeping")
Finish(c)  == Becomes(c, "running", "finished")
Reap(c)    == CpuFree /\ Becomes(c, "finished", "none")

Next == \E c \in Coroutines :
    \/ Spawn(c) \/ Run(c) \/ Wake(c) \/ TimeOut(c)
    \/ Sleep(c) \/ Finish(c) \/ Reap(c)

Spec == Init /\ [][Next]_status
=============================================================================
