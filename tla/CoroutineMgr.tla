---------------------------- MODULE CoroutineMgr ----------------------------
(***************************************************************************)
(* CoroutineMgr, CoroutineContext, Entry (lib/eventmgr/CoroutineMgr.h/cpp) *)
(* driven by the main loop of the programs (test2/main2.cpp:107-111):      *)
(*     while (1) { RunOnce(); ScheduleAll(); }                             *)
(*                                                                         *)
(* One thread; control moves only where Schedule() switches stacks, so an  *)
(* action is what runs between two switch points.  pc says what code is    *)
(* running, and each coroutine block (m_coroutine) holds the label where   *)
(* its stack was last left, exactly what __SwitchCoroutine__ saves there:  *)
(*   RunOnce      main, before NextWaitTime        Entry     not started   *)
(*   Dispatch     main, in the epoll event loop    Callback  in m_cb       *)
(*   ScheduleAll  main, at the head of its loop    EntryReturn  past the   *)
(*   Init         main, in CoroutineMgr::Init         last Schedule()      *)
(* What the callbacks and the socket events do is left open here: they     *)
(* may wait for any timeout, end, or wake any live coroutine.              *)
(***************************************************************************)
EXTENDS ExpireMgr

CONSTANTS IdSpace,     \* staticid is a uint32_t: 2^32 in the code
          IdLimit,     \* bound: ids below it are handed out (IdSpace: no bound)
          ClosedFds    \* descriptors DelFd passes to CExpireMgr::Del

ASSUME CoroutineAssumption ==
    /\ IdSpace \in Nat \ {0}
    /\ Ids = 1 .. (IdSpace - 1)
    /\ IdLimit \in 1 .. IdSpace
    /\ ClosedFds \subseteq Nat

VARIABLES m_idtonode,  \* id -> [m_state, m_coroutine], a std::map in id order
          m_active,    \* the coroutine m_active points to
          staticid,    \* the last id handed out
          pc,          \* the code that is running
          iter         \* the iterator of ScheduleAll

coroutineVars == <<timers, now, m_idtonode, m_active, staticid, pc, iter>>

Main == 0
End  == IdSpace        \* m_idtonode.end(), above every key

MainLabels == {"Init", "RunOnce", "Dispatch", "ScheduleAll"}
CoLabels   == {"Entry", "Callback", "EntryReturn"}
States     == {"E_READY", "E_WAIT", "E_END"}
Nodes      == [m_state : States, m_coroutine : MainLabels \cup CoLabels]

Live    == DOMAIN m_idtonode \ {Main}
Waiting == {id \in Live : m_idtonode[id].m_state = "E_WAIT"}

After(id) ==
    LET above == {x \in DOMAIN m_idtonode : x > id}
    IN  IF above = {} THEN End ELSE Min(above)

\* CoroutineMgr::Init: main is id 0, its block saved by the switch to itself.
Init ==
    /\ ExpireInit
    /\ m_idtonode = [id \in {Main} |-> [m_state |-> "E_READY", m_coroutine |-> "Init"]]
    /\ m_active = Main
    /\ staticid = Main
    /\ pc = "RunOnce"
    /\ iter = Main
-----------------------------------------------------------------------------
WithState(nodes, id, s) == [nodes EXCEPT ![id].m_state = s]

\* Mutant: the running coroutine is not recorded in m_active.
ScheduleKeepsActive(nodes, next, here) ==
    /\ m_idtonode' = [nodes EXCEPT ![m_active].m_coroutine = here]
    /\ m_active' = m_active
    /\ pc' = m_idtonode'[next].m_coroutine

\* Save where m_active is, continue where next was left.
Schedule(nodes, next, here) ==
    /\ m_idtonode' = [nodes EXCEPT ![m_active].m_coroutine = here]
    /\ m_active' = next
    /\ pc' = m_idtonode'[next].m_coroutine

NextId == (staticid + 1) % IdSpace

\* Mutant: a new coroutine does not start out ready.
CreateNotReady ==
    /\ staticid' = NextId
    /\ m_idtonode' = IF NextId \in DOMAIN m_idtonode THEN m_idtonode
                     ELSE MapPut(m_idtonode, NextId,
                                 [m_state |-> "E_WAIT", m_coroutine |-> "Entry"])

\* operator[] of the map builds a node only when the id is new.
Create ==
    /\ staticid' = NextId
    /\ m_idtonode' = IF NextId \in DOMAIN m_idtonode THEN m_idtonode
                     ELSE MapPut(m_idtonode, NextId,
                                 [m_state |-> "E_READY", m_coroutine |-> "Entry"])

\* Mutants of SetReady: the timeout stays armed; the state stays E_WAIT.
SetReadyKeepsTimer(id) ==
    /\ m_idtonode' = WithState(m_idtonode, id, "E_READY")
    /\ timers' = timers
SetReadyKeepsState(id) ==
    /\ m_idtonode' = m_idtonode
    /\ timers' = DelTimer(timers, id)

SetReady(id) ==
    /\ m_idtonode' = WithState(m_idtonode, id, "E_READY")
    /\ timers' = DelTimer(timers, id)
-----------------------------------------------------------------------------
(* RunOnce *)

\* A coroutine is due: SetReady(id), then straight to it, no epoll_wait.
RunOnceExpired ==
    /\ pc = "RunOnce"
    /\ NextWaitTime.id # 0
    /\ Schedule(WithState(m_idtonode, NextWaitTime.id, "E_READY"),
                NextWaitTime.id, "ScheduleAll")
    /\ timers' = DelTimer(timers, NextWaitTime.id)
    /\ iter' = Main
    /\ UNCHANGED <<now, staticid>>

\* epoll_wait returns: events, a timeout or an error.
RunOnceWait ==
    /\ pc = "RunOnce"
    /\ NextWaitTime.id = 0
    /\ pc' = "Dispatch"
    /\ UNCHANGED <<timers, now, m_idtonode, m_active, staticid, iter>>

\* A request arrived (DoReadTcp on a client connection): a new coroutine.
DispatchNewReq ==
    /\ pc = "Dispatch"
    /\ IdLimit = IdSpace \/ staticid + 1 < IdLimit
    /\ Create
    /\ UNCHANGED <<timers, now, m_active, pc, iter>>

\* A connect completed or an answer arrived for a live coroutine.
DispatchWake(id) ==
    /\ pc = "Dispatch"
    /\ id \in Live
    /\ SetReady(id)
    /\ UNCHANGED <<now, m_active, staticid, pc, iter>>

\* A peer closed fd: DelFd drops the timeout of the coroutine numbered fd.
DispatchClose(fd) ==
    /\ pc = "Dispatch"
    /\ timers' = DelTimer(timers, fd)
    /\ UNCHANGED <<now, m_idtonode, m_active, staticid, pc, iter>>

\* RunOnce returns; ScheduleAll starts at begin(), which is main.
DispatchDone ==
    /\ pc = "Dispatch"
    /\ pc' = "ScheduleAll"
    /\ iter' = Main
    /\ UNCHANGED <<timers, now, m_idtonode, m_active, staticid>>
-----------------------------------------------------------------------------
(* ScheduleAll: the iterator is not moved when it runs a coroutine, so the *)
(* same entry is looked at again when that coroutine comes back.           *)

AtNode(s) ==
    /\ pc = "ScheduleAll"
    /\ iter \in Live
    /\ m_idtonode[iter].m_state = s

\* Mutant: the iterator moves on before the coroutine runs.
ScheduleAllReadyMovesOn ==
    /\ AtNode("E_READY")
    /\ Schedule(m_idtonode, iter, "ScheduleAll")
    /\ iter' = After(iter)
    /\ UNCHANGED <<timers, now, staticid>>

ScheduleAllReady ==
    /\ AtNode("E_READY")
    /\ Schedule(m_idtonode, iter, "ScheduleAll")
    /\ UNCHANGED <<timers, now, staticid, iter>>

\* Mutant: the iterator is not moved off the node before it is destroyed.
ScheduleAllEndStaysPut ==
    /\ AtNode("E_END")
    /\ m_idtonode' = MapErase(m_idtonode, iter)
    /\ UNCHANGED <<timers, now, m_active, staticid, pc, iter>>

ScheduleAllEnd ==
    /\ AtNode("E_END")
    /\ iter' = After(iter)
    /\ m_idtonode' = MapErase(m_idtonode, iter)
    /\ UNCHANGED <<timers, now, m_active, staticid, pc>>

ScheduleAllSkip ==
    /\ \/ pc = "ScheduleAll" /\ iter = Main
       \/ AtNode("E_WAIT")
    /\ iter' = After(iter)
    /\ UNCHANGED <<timers, now, m_idtonode, m_active, staticid, pc>>

ScheduleAllDone ==
    /\ pc = "ScheduleAll"
    /\ iter = End
    /\ pc' = "RunOnce"
    /\ UNCHANGED <<timers, now, m_idtonode, m_active, staticid, iter>>
-----------------------------------------------------------------------------
(* A coroutine: Entry calls m_cb, which waits any number of times.         *)

EntryStart ==
    /\ pc = "Entry"
    /\ pc' = "Callback"
    /\ UNCHANGED <<timers, now, m_idtonode, m_active, staticid, iter>>

\* Mutant: WaitAndSchedule does not mark the coroutine E_WAIT.
CallbackWaitUnmarked(ms) ==
    /\ pc = "Callback"
    /\ now + ms <= MaxNow
    /\ timers' = SetTimer(timers, m_active, ms)
    /\ Schedule(m_idtonode, Main, "Callback")
    /\ UNCHANGED <<now, staticid, iter>>

\* WaitAndSchedule(ms); MaxNow bounds the deadlines.
CallbackWait(ms) ==
    /\ pc = "Callback"
    /\ now + ms <= MaxNow
    /\ timers' = SetTimer(timers, m_active, ms)
    /\ Schedule(WithState(m_idtonode, m_active, "E_WAIT"), Main, "Callback")
    /\ UNCHANGED <<now, staticid, iter>>

\* Mutant: Entry switches away without marking the coroutine E_END.
CallbackEndUnmarked ==
    /\ pc = "Callback"
    /\ Schedule(m_idtonode, Main, "EntryReturn")
    /\ UNCHANGED <<timers, now, staticid, iter>>

\* m_cb returns, Entry marks the coroutine E_END and leaves for good.
CallbackEnd ==
    /\ pc = "Callback"
    /\ Schedule(WithState(m_idtonode, m_active, "E_END"), Main, "EntryReturn")
    /\ UNCHANGED <<timers, now, staticid, iter>>
-----------------------------------------------------------------------------
Clock ==
    /\ Tick \/ StepClock
    /\ UNCHANGED <<m_idtonode, m_active, staticid, pc, iter>>

MainStep ==
    \/ RunOnceExpired \/ RunOnceWait \/ DispatchDone
    \/ ScheduleAllReady \/ ScheduleAllEnd \/ ScheduleAllSkip \/ ScheduleAllDone

CoroutineStep ==
    \/ EntryStart
    \/ \E ms \in Waits : CallbackWait(ms)
    \/ CallbackEnd

Events ==
    \/ DispatchNewReq
    \/ \E id \in Ids : DispatchWake(id)
    \/ \E fd \in ClosedFds : DispatchClose(fd)

Next == MainStep \/ CoroutineStep \/ Events \/ Clock

Spec == Init /\ [][Next]_coroutineVars

\* The thread keeps running (epoll_wait sleeps for a finite time), callbacks
\* reach their next wait or return, and time passes; no event need ever come.
FairSpec ==
    /\ Spec
    /\ WF_coroutineVars(MainStep)
    /\ WF_coroutineVars(CoroutineStep)
    /\ WF_coroutineVars(Clock)
-----------------------------------------------------------------------------
TypeOK ==
    /\ TimersTypeOK
    /\ m_idtonode \in [DOMAIN m_idtonode -> Nodes]
    /\ Main \in DOMAIN m_idtonode
    /\ DOMAIN m_idtonode \subseteq 0 .. (IdSpace - 1)
    /\ m_active \in DOMAIN m_idtonode
    /\ staticid \in 0 .. (IdSpace - 1)
    /\ pc \in MainLabels \cup CoLabels
    /\ iter \in DOMAIN m_idtonode \cup {End}

(***************************************************************************)
(* Every stack is left and continued by its owner only: main's block holds *)
(* a place in the main loop, a coroutine's block a place in the coroutine, *)
(* and m_active names the one that is running.  A Schedule() that saved    *)
(* into the wrong block would continue one coroutine with another's stack. *)
(***************************************************************************)
BlocksBelongToOwners ==
    /\ m_idtonode[Main].m_coroutine \in MainLabels
    /\ \A id \in Live : m_idtonode[id].m_coroutine \in CoLabels
    /\ pc \in MainLabels <=> m_active = Main

(***************************************************************************)
(* When main is about to sleep in epoll_wait every coroutine is waiting:   *)
(* none was left ready behind the iterator of ScheduleAll, where it would  *)
(* lose up to the next timeout, and none that ended is still in the map,   *)
(* where an event could make it ready again.                               *)
(***************************************************************************)
NobodyLeftBehind == pc = "RunOnce" => Live = Waiting

(***************************************************************************)
(* A timeout belongs to a coroutine that is in the map and waiting, so the *)
(* unchecked Get(id)->SetState of RunOnce (CoroutineMgr.h:179) finds it,   *)
(* and a timeout never resumes a coroutine that is not in a wait.          *)
(***************************************************************************)
TimersOwnedByWaiters == DOMAIN timers.m_id_to_expire \subseteq Waiting

(***************************************************************************)
(* No coroutine is switched to after its last Schedule() in Entry: the     *)
(* "return 0" after it (CoroutineMgr.cpp:20) would return into nothing.    *)
(***************************************************************************)
EndedNeverResumed == pc # "EntryReturn"

\* The status of a coroutine, read off its state and m_active.
StatusOf == [E_READY |-> "runnable", E_WAIT |-> "sleeping", E_END |-> "finished"]

Status(id) ==
    IF id \notin Live THEN "none"
    ELSE IF id = m_active THEN "running" ELSE StatusOf[m_idtonode[id].m_state]

lifeStatus == [id \in Ids |-> Status(id)]

Life == INSTANCE CoroutineLife WITH Coroutines <- Ids, status <- lifeStatus

(***************************************************************************)
(* Every step is a legal step in the life of at most one coroutine: no     *)
(* preemption, no coroutine run by two switches, none resumed unless it    *)
(* was woken or timed out, none reaped before it ended.                    *)
(***************************************************************************)
ImplementsCoroutineLife == Life!Spec

(***************************************************************************)
(* A waiting coroutine always has a timeout armed.  It holds as long as no *)
(* closed descriptor has the number of a waiting coroutine.                *)
(***************************************************************************)
WaitersHaveTimers == Waiting \subseteq DOMAIN timers.m_id_to_expire

(***************************************************************************)
(* Every wait ends: a coroutine in WaitAndSchedule runs again, at the      *)
(* latest when its timeout has passed, however many others there are and   *)
(* even if no event ever arrives.                                          *)
(***************************************************************************)
EveryWaitEnds == \A id \in Ids : id \in Waiting ~> m_active = id

Fresh(id) == id \in Live /\ m_idtonode[id].m_coroutine = "Entry"

(***************************************************************************)
(* A new request is run: a coroutine that was created is started.          *)
(***************************************************************************)
EveryRequestStarts == \A id \in Ids : Fresh(id) ~> m_active = id

(***************************************************************************)
(* ExpireMgr.h:77 takes an empty m_expire_to_id to mean that no object is  *)
(* waiting for a timeout, and lets the loop sleep TIME_EXPIRE.             *)
(***************************************************************************)
NoTimersMeansNobodyWaits ==
    pc = "RunOnce" /\ DOMAIN timers.m_expire_to_id = {} => Waiting = {}
=============================================================================
