------------------------- MODULE CoroutineMgrProofs -------------------------
(***************************************************************************)
(* Proofs about CoroutineMgr for every number of coroutines, every set of  *)
(* timeouts and closed descriptors, and ids that wrap around.              *)
(***************************************************************************)
EXTENDS CoroutineMgr, ExpireMgrProofs

(***************************************************************************)
(* The inductive invariant.  While main is between RunOnce and the head of *)
(* ScheduleAll's loop nothing but the iterator says which coroutines were  *)
(* already looked at, so the invariant follows the iterator:               *)
(*   OwnerRuns     the running coroutine is ready, is at or after the      *)
(*                 iterator, and main will continue in ScheduleAll;        *)
(*   EndedAreDone  the ended ones are exactly those past their last        *)
(*                 Schedule(), and only ScheduleAll ever meets them;       *)
(*   BehindWait    all coroutines before the iterator wait.                *)
(***************************************************************************)
OwnerRuns ==
    m_active # Main =>
        /\ m_idtonode[m_active].m_state = "E_READY"
        /\ iter <= m_active
        /\ m_idtonode[Main].m_coroutine = "ScheduleAll"

EndedAreDone ==
    \A id \in Live :
        /\ m_idtonode[id].m_state = "E_END" <=> m_idtonode[id].m_coroutine = "EntryReturn"
        /\ pc = "Dispatch" => m_idtonode[id].m_state # "E_END"

BehindWait ==
    pc \notin {"RunOnce", "Dispatch"} => \A id \in Live : id < iter => id \in Waiting

SchedulerInv ==
    /\ TypeOK
    /\ IndexesAgree
    /\ BlocksBelongToOwners
    /\ TimersOwnedByWaiters
    /\ NobodyLeftBehind
    /\ EndedNeverResumed
    /\ OwnerRuns
    /\ EndedAreDone
    /\ BehindWait
-----------------------------------------------------------------------------
(* Successors in the map, and what the operators change in a node.         *)
LEMMA AfterIsNext ==
    ASSUME TypeOK, NEW id \in DOMAIN m_idtonode
    PROVE  /\ After(id) \in DOMAIN m_idtonode \cup {End}
           /\ id < After(id)
           /\ \A x \in DOMAIN m_idtonode : x <= id \/ After(id) <= x
<1> DEFINE above == {x \in DOMAIN m_idtonode : x > id}
<1>1. DOMAIN m_idtonode \subseteq 0 .. (IdSpace - 1) /\ IdSpace \in Nat
  BY CoroutineAssumption DEF TypeOK
<1>2. CASE above = {}
  BY <1>1, <1>2 DEF After, End
<1>3. CASE above # {}
  <2>1. Min(above) \in above /\ \A y \in above : Min(above) <= y
    BY <1>1, <1>3, MinOfNats
  <2>2. After(id) = Min(above)
    BY <1>3 DEF After
  <2> HIDE DEF above
  <2>3. After(id) \in above /\ \A y \in above : After(id) <= y
    BY <2>1, <2>2
  <2> QED BY <1>1, <2>3 DEF above
<1> QED BY <1>2, <1>3

(* SetState changes the state of one node and no saved place.              *)
LEMMA WithStateEffect ==
    ASSUME NEW nodes, nodes \in [DOMAIN nodes -> Nodes], NEW id \in DOMAIN nodes,
           NEW s \in States
    PROVE  /\ WithState(nodes, id, s) \in [DOMAIN nodes -> Nodes]
           /\ DOMAIN WithState(nodes, id, s) = DOMAIN nodes
           /\ WithState(nodes, id, s)[id].m_state = s
           /\ \A x \in DOMAIN nodes :
                 /\ WithState(nodes, id, s)[x].m_coroutine = nodes[x].m_coroutine
                 /\ x # id => WithState(nodes, id, s)[x].m_state = nodes[x].m_state
BY DEF WithState, Nodes

(* Schedule() changes one saved place, that of the coroutine it leaves.    *)
LEMMA ScheduleEffect ==
    ASSUME NEW nodes, nodes \in [DOMAIN nodes -> Nodes], m_active \in DOMAIN nodes,
           NEW next \in DOMAIN nodes, NEW here \in MainLabels \cup CoLabels,
           Schedule(nodes, next, here)
    PROVE  /\ m_idtonode' \in [DOMAIN nodes -> Nodes]
           /\ DOMAIN m_idtonode' = DOMAIN nodes
           /\ m_idtonode'[m_active].m_coroutine = here
           /\ \A x \in DOMAIN nodes :
                 /\ m_idtonode'[x].m_state = nodes[x].m_state
                 /\ x # m_active => m_idtonode'[x].m_coroutine = nodes[x].m_coroutine
           /\ m_active' = next
           /\ pc' = m_idtonode'[next].m_coroutine
BY DEF Schedule, Nodes
-----------------------------------------------------------------------------
(* CoroutineMgr::Init establishes the invariant.                           *)
LEMMA SchedulerInvInit == Init => SchedulerInv
<1> SUFFICES ASSUME Init PROVE SchedulerInv
  OBVIOUS
<1>1. ExpireInv
  BY ExpireInvInit DEF Init
<1>2. TypeOK
  BY <1>1, CoroutineAssumption
     DEF Init, TypeOK, ExpireInv, Nodes, States, MainLabels, CoLabels, Main, End
<1> QED
  BY <1>1, <1>2
     DEF Init, SchedulerInv, ExpireInv, BlocksBelongToOwners, TimersOwnedByWaiters,
         NobodyLeftBehind, EndedNeverResumed, OwnerRuns, EndedAreDone, BehindWait,
         Live, Waiting, MainLabels, Main, ExpireInit, EmptyMap

(* A timeout that NextWaitTime names belongs to a waiting coroutine.       *)
LEMMA DueIsWaiting ==
    ASSUME SchedulerInv, NextWaitTime.id # 0
    PROVE  NextWaitTime.id \in Waiting /\ NextWaitTime.id \in Ids
<1>1. NextWaitTimeKeepsWord
  BY NextWaitTimeAnswers DEF SchedulerInv, TypeOK
<1>2. NextWaitTime.id \in DOMAIN timers.m_id_to_expire
  BY <1>1 DEF NextWaitTimeKeepsWord, Table!IsAnswer
<1> QED BY <1>2 DEF SchedulerInv, TimersOwnedByWaiters, TypeOK, TimersTypeOK, IsIndex

(* The invariant over a step that leaves the timers alone or edits them    *)
(* with Del: what remains to be shown is about the coroutines only.        *)
TimersKept == TimersTypeOK' /\ IndexesAgree'

(* CExpireMgr::Del, whatever it is given, keeps the timers well formed.    *)
LEMMA DelKeepsTimers ==
    ASSUME SchedulerInv, NEW id, timers' = DelTimer(timers, id), now' = now
    PROVE  /\ TimersKept
           /\ timers'.m_id_to_expire = MapErase(timers.m_id_to_expire, id)
<1>1. IsIndex(timers) /\ Agrees(timers) /\ now \in Nat
  BY DEF SchedulerInv, TypeOK, TimersTypeOK, IndexesAgree
<1>2. /\ IsIndex(DelTimer(timers, id))
      /\ Agrees(DelTimer(timers, id))
      /\ DelTimer(timers, id).m_id_to_expire = MapErase(timers.m_id_to_expire, id)
  BY <1>1, DelTimerType, DelTimerAgrees, DelTimerEffect
<1> QED
  BY <1>1, <1>2 DEF TimersKept, TimersTypeOK, IndexesAgree, IsIndex, Agrees, Indexed

(* So does a step that touches no timer, with or without the clock.        *)
LEMMA UnchangedKeepsTimers ==
    ASSUME SchedulerInv, timers' = timers, now' \in Nat
    PROVE  TimersKept
BY DEF SchedulerInv, TypeOK, TimersKept, TimersTypeOK, IndexesAgree, IsIndex, Agrees, Indexed
-----------------------------------------------------------------------------
(* RunOnce with a coroutine that is due: the due one waits, so main may run it. *)
LEMMA RunOnceExpiredKeeps ==
    ASSUME SchedulerInv, RunOnceExpired
    PROVE  SchedulerInv'
<1> DEFINE id    == NextWaitTime.id
           nodes == WithState(m_idtonode, id, "E_READY")
<1>1. pc = "RunOnce" /\ m_active = Main /\ id \in Waiting /\ id \in Ids
  BY DueIsWaiting DEF RunOnceExpired, SchedulerInv, BlocksBelongToOwners, MainLabels
<1>2. /\ TimersKept
      /\ timers'.m_id_to_expire = MapErase(timers.m_id_to_expire, id)
  BY DelKeepsTimers DEF RunOnceExpired
<1>3. /\ nodes \in [DOMAIN m_idtonode -> Nodes]
      /\ nodes[id].m_state = "E_READY"
      /\ \A x \in DOMAIN m_idtonode :
            /\ nodes[x].m_coroutine = m_idtonode[x].m_coroutine
            /\ x # id => nodes[x].m_state = m_idtonode[x].m_state
  BY <1>1, WithStateEffect DEF SchedulerInv, TypeOK, Waiting, Live, States
<1>4. Schedule(nodes, id, "ScheduleAll")
  BY DEF RunOnceExpired
<1> HIDE DEF id, nodes
<1>5. /\ m_idtonode' \in [DOMAIN m_idtonode -> Nodes]
      /\ DOMAIN m_idtonode' = DOMAIN m_idtonode
      /\ m_idtonode'[Main].m_coroutine = "ScheduleAll"
      /\ \A x \in DOMAIN m_idtonode :
            /\ m_idtonode'[x].m_state = nodes[x].m_state
            /\ x # Main => m_idtonode'[x].m_coroutine = m_idtonode[x].m_coroutine
      /\ m_active' = id
      /\ pc' = m_idtonode'[id].m_coroutine
  BY <1>1, <1>3, <1>4, ScheduleEffect
     DEF SchedulerInv, TypeOK, Waiting, Live, MainLabels
<1>6. pc' \in {"Entry", "Callback"} /\ iter' = Main /\ staticid' = staticid
  BY <1>1, <1>5 DEF RunOnceExpired, SchedulerInv, BlocksBelongToOwners, EndedAreDone,
                    Waiting, Live, CoLabels
<1>7. TypeOK'
  BY <1>1, <1>2, <1>5, <1>6 DEF TimersKept, SchedulerInv, TypeOK, Waiting, Live, CoLabels
<1>8. BlocksBelongToOwners' /\ EndedNeverResumed' /\ NobodyLeftBehind'
  BY <1>1, <1>5, <1>6 DEF SchedulerInv, BlocksBelongToOwners, EndedNeverResumed,
                          NobodyLeftBehind, Waiting, Live, CoLabels, MainLabels
<1>9. TimersOwnedByWaiters'
  BY <1>1, <1>2, <1>3, <1>5
     DEF SchedulerInv, TimersOwnedByWaiters, Waiting, Live, MapErase
<1>10. OwnerRuns'
  BY <1>1, <1>3, <1>5, <1>6, CoroutineAssumption
     DEF SchedulerInv, TypeOK, OwnerRuns, Waiting, Live, Main
<1>11. EndedAreDone'
  BY <1>1, <1>3, <1>5, <1>6 DEF SchedulerInv, EndedAreDone, Waiting, Live
<1>12. BehindWait'
  BY <1>5, <1>6 DEF SchedulerInv, TypeOK, BehindWait, Live, Main
<1> QED BY <1>2, <1>7, <1>8, <1>9, <1>10, <1>11, <1>12 DEF SchedulerInv, TimersKept

(* Steps of main that change only pc and the iterator.                     *)
LEMMA MainMovesKeep ==
    ASSUME SchedulerInv, RunOnceWait \/ DispatchDone \/ ScheduleAllSkip \/ ScheduleAllDone
    PROVE  SchedulerInv'
<1>1. UNCHANGED <<timers, now, m_idtonode, m_active, staticid>>
  BY DEF RunOnceWait, DispatchDone, ScheduleAllSkip, ScheduleAllDone
<1>2. TimersKept
  BY <1>1, UnchangedKeepsTimers DEF SchedulerInv, TypeOK, TimersTypeOK
<1>3. m_active = Main /\ Live' = Live /\ Waiting' = Waiting
  BY <1>1 DEF SchedulerInv, BlocksBelongToOwners, MainLabels, RunOnceWait, DispatchDone,
              ScheduleAllSkip, ScheduleAllDone, AtNode, Live, Waiting
<1>4. /\ pc' \in {"Dispatch", "ScheduleAll", "RunOnce"}
      /\ iter' \in DOMAIN m_idtonode \cup {End}
  <2>1. CASE ScheduleAllSkip
    BY <2>1, AfterIsNext DEF ScheduleAllSkip, SchedulerInv, TypeOK, AtNode, Live
  <2>2. CASE ~ ScheduleAllSkip
    BY <2>2 DEF RunOnceWait, DispatchDone, ScheduleAllDone, SchedulerInv, TypeOK
  <2> QED BY <2>1, <2>2
<1>5. TypeOK'
  BY <1>1, <1>2, <1>4 DEF SchedulerInv, TypeOK, TimersKept, MainLabels
<1>6. BlocksBelongToOwners' /\ TimersOwnedByWaiters' /\ EndedNeverResumed' /\ OwnerRuns'
  BY <1>1, <1>3, <1>4 DEF SchedulerInv, BlocksBelongToOwners, TimersOwnedByWaiters,
                          EndedNeverResumed, OwnerRuns, MainLabels
<1>7. NobodyLeftBehind'
  <2>1. CASE ScheduleAllDone
    <3>1. \A id \in Live : id < End
      BY CoroutineAssumption DEF SchedulerInv, TypeOK, Live, End
    <3> QED BY <1>3, <2>1, <3>1
            DEF ScheduleAllDone, SchedulerInv, BehindWait, NobodyLeftBehind, Waiting
  <2>2. CASE ~ ScheduleAllDone
    BY <2>2 DEF RunOnceWait, DispatchDone, ScheduleAllSkip, AtNode, NobodyLeftBehind
  <2> QED BY <2>1, <2>2
<1>8. EndedAreDone'
  <2>1. CASE RunOnceWait
    BY <1>1, <1>3, <2>1
       DEF RunOnceWait, SchedulerInv, NobodyLeftBehind, EndedAreDone, Waiting
  <2>2. CASE ~ RunOnceWait
    BY <1>1, <1>3, <2>2 DEF DispatchDone, ScheduleAllSkip, ScheduleAllDone, AtNode,
                            SchedulerInv, EndedAreDone
  <2> QED BY <2>1, <2>2
<1>9. BehindWait'
  <2>1. CASE ScheduleAllSkip
    <3>1. /\ iter \in DOMAIN m_idtonode
          /\ iter' = After(iter)
          /\ iter = Main \/ iter \in Waiting
      BY <2>1 DEF ScheduleAllSkip, AtNode, SchedulerInv, TypeOK, Live, Waiting
    <3>2. \A x \in DOMAIN m_idtonode : x <= iter \/ iter' <= x
      BY <3>1, AfterIsNext DEF SchedulerInv
    <3>3. /\ \A x \in Live : x < iter => x \in Waiting
          /\ DOMAIN m_idtonode \subseteq 0 .. (IdSpace - 1)
      BY <2>1 DEF ScheduleAllSkip, AtNode, SchedulerInv, BehindWait, TypeOK
    <3>4. iter' \in Int /\ IdSpace \in Int
      BY <1>4, <3>3, CoroutineAssumption DEF End
    <3>5. \A x \in Live : x < iter' => x \in Waiting
      BY <3>1, <3>2, <3>3, <3>4 DEF Live, Main
    <3> QED BY <1>3, <3>5 DEF BehindWait
  <2>2. CASE DispatchDone
    BY <1>3, <2>2 DEF DispatchDone, BehindWait, SchedulerInv, TypeOK, Live, Main
  <2>3. CASE RunOnceWait \/ ScheduleAllDone
    BY <2>3 DEF RunOnceWait, ScheduleAllDone, BehindWait
  <2> QED BY <2>1, <2>2, <2>3
<1> QED BY <1>2, <1>5, <1>6, <1>7, <1>8, <1>9 DEF SchedulerInv, TimersKept

(* Events found by epoll_wait.                                             *)
LEMMA NewReqKeeps ==
    ASSUME SchedulerInv, DispatchNewReq
    PROVE  SchedulerInv'
<1>1. /\ pc = "Dispatch" /\ pc' = pc /\ m_active' = m_active /\ iter' = iter
      /\ timers' = timers /\ now' = now /\ staticid' = NextId
      /\ m_active = Main
  BY DEF DispatchNewReq, Create, SchedulerInv, BlocksBelongToOwners, MainLabels
<1>2. TimersKept
  BY <1>1, UnchangedKeepsTimers DEF SchedulerInv, TypeOK, TimersTypeOK
<1>3. NextId \in 0 .. (IdSpace - 1)
  BY CoroutineAssumption DEF NextId, SchedulerInv, TypeOK
<1>4. \/ m_idtonode' = m_idtonode
      \/ /\ NextId \notin DOMAIN m_idtonode
         /\ m_idtonode' = MapPut(m_idtonode, NextId,
                                 [m_state |-> "E_READY", m_coroutine |-> "Entry"])
  BY DEF DispatchNewReq, Create
<1>5. /\ m_idtonode' \in [DOMAIN m_idtonode' -> Nodes]
      /\ DOMAIN m_idtonode \subseteq DOMAIN m_idtonode'
      /\ DOMAIN m_idtonode' \subseteq 0 .. (IdSpace - 1)
      /\ \A x \in DOMAIN m_idtonode : m_idtonode'[x] = m_idtonode[x]
      /\ \A x \in DOMAIN m_idtonode' :
            \/ x \in DOMAIN m_idtonode
            \/ m_idtonode'[x] = [m_state |-> "E_READY", m_coroutine |-> "Entry"]
  <2>1. m_idtonode \in [DOMAIN m_idtonode -> Nodes]
        /\ DOMAIN m_idtonode \subseteq 0 .. (IdSpace - 1)
    BY DEF SchedulerInv, TypeOK
  <2>2. [m_state |-> "E_READY", m_coroutine |-> "Entry"] \in Nodes
    BY DEF Nodes, States, CoLabels
  <2> QED BY <1>3, <1>4, <2>1, <2>2 DEF MapPut
<1>6. TypeOK'
  BY <1>1, <1>2, <1>3, <1>5 DEF SchedulerInv, TypeOK, TimersKept
<1>7. BlocksBelongToOwners' /\ EndedNeverResumed' /\ OwnerRuns' /\ NobodyLeftBehind'
      /\ BehindWait'
  BY <1>1, <1>5 DEF SchedulerInv, TypeOK, BlocksBelongToOwners, EndedNeverResumed,
                    OwnerRuns, NobodyLeftBehind, BehindWait, Live, CoLabels, MainLabels
<1>8. TimersOwnedByWaiters'
  BY <1>1, <1>5 DEF SchedulerInv, TimersOwnedByWaiters, Live, Waiting
<1>9. EndedAreDone'
  BY <1>1, <1>5 DEF SchedulerInv, EndedAreDone, Live
<1> QED BY <1>2, <1>6, <1>7, <1>8, <1>9 DEF SchedulerInv, TimersKept

(* SetReady on an event: the coroutine leaves its wait together with its timer. *)
LEMMA WakeKeeps ==
    ASSUME SchedulerInv, NEW id, DispatchWake(id)
    PROVE  SchedulerInv'
<1>1. /\ pc = "Dispatch" /\ pc' = pc /\ m_active' = m_active /\ iter' = iter
      /\ staticid' = staticid /\ now' = now /\ id \in Live
      /\ timers' = DelTimer(timers, id) /\ m_active = Main
      /\ m_idtonode' = WithState(m_idtonode, id, "E_READY")
  BY DEF DispatchWake, SetReady, SchedulerInv, BlocksBelongToOwners, MainLabels
<1>2. /\ TimersKept
      /\ timers'.m_id_to_expire = MapErase(timers.m_id_to_expire, id)
  BY <1>1, DelKeepsTimers
<1>3. /\ m_idtonode' \in [DOMAIN m_idtonode -> Nodes]
      /\ DOMAIN m_idtonode' = DOMAIN m_idtonode
      /\ m_idtonode'[id].m_state = "E_READY"
      /\ \A x \in DOMAIN m_idtonode :
            /\ m_idtonode'[x].m_coroutine = m_idtonode[x].m_coroutine
            /\ x # id => m_idtonode'[x].m_state = m_idtonode[x].m_state
  BY <1>1, WithStateEffect DEF SchedulerInv, TypeOK, Live, States
<1>4. TypeOK'
  BY <1>1, <1>2, <1>3 DEF SchedulerInv, TypeOK, TimersKept
<1>5. BlocksBelongToOwners' /\ EndedNeverResumed' /\ OwnerRuns' /\ NobodyLeftBehind'
      /\ BehindWait'
  BY <1>1, <1>3 DEF SchedulerInv, TypeOK, BlocksBelongToOwners, EndedNeverResumed,
                    OwnerRuns, NobodyLeftBehind, BehindWait, Live
<1>6. TimersOwnedByWaiters'
  BY <1>2, <1>3 DEF SchedulerInv, TimersOwnedByWaiters, Live, Waiting, MapErase
<1>7. EndedAreDone'
  BY <1>1, <1>3 DEF SchedulerInv, EndedAreDone, Live
<1> QED BY <1>2, <1>4, <1>5, <1>6, <1>7 DEF SchedulerInv, TimersKept

(* DelFd: the timer it drops may be anybody's, and the invariant allows that. *)
LEMMA CloseKeeps ==
    ASSUME SchedulerInv, NEW fd, DispatchClose(fd)
    PROVE  SchedulerInv'
<1>1. UNCHANGED <<now, m_idtonode, m_active, staticid, pc, iter>>
  BY DEF DispatchClose
<1>2. /\ TimersKept
      /\ timers'.m_id_to_expire = MapErase(timers.m_id_to_expire, fd)
  BY <1>1, DelKeepsTimers DEF DispatchClose
<1>3. TypeOK'
  BY <1>1, <1>2 DEF SchedulerInv, TypeOK, TimersKept
<1>4. TimersOwnedByWaiters'
  BY <1>1, <1>2 DEF SchedulerInv, TimersOwnedByWaiters, Live, Waiting, MapErase
<1>5. BlocksBelongToOwners' /\ EndedNeverResumed' /\ OwnerRuns' /\ NobodyLeftBehind'
      /\ BehindWait' /\ EndedAreDone'
  BY <1>1 DEF SchedulerInv, BlocksBelongToOwners, EndedNeverResumed, OwnerRuns,
              NobodyLeftBehind, BehindWait, EndedAreDone, Live, Waiting
<1> QED BY <1>2, <1>3, <1>4, <1>5 DEF SchedulerInv, TimersKept
-----------------------------------------------------------------------------
(* ScheduleAll runs a ready coroutine, or destroys one that ended.         *)
LEMMA RunReadyKeeps ==
    ASSUME SchedulerInv, ScheduleAllReady
    PROVE  SchedulerInv'
<1>1. /\ pc = "ScheduleAll" /\ m_active = Main /\ iter \in Live
      /\ m_idtonode[iter].m_state = "E_READY"
      /\ timers' = timers /\ now' = now /\ staticid' = staticid /\ iter' = iter
  BY DEF ScheduleAllReady, AtNode, SchedulerInv, BlocksBelongToOwners, MainLabels
<1>2. TimersKept
  BY <1>1, UnchangedKeepsTimers DEF SchedulerInv, TypeOK, TimersTypeOK
<1>3. Schedule(m_idtonode, iter, "ScheduleAll")
  BY DEF ScheduleAllReady
<1>4. /\ m_idtonode' \in [DOMAIN m_idtonode -> Nodes]
      /\ DOMAIN m_idtonode' = DOMAIN m_idtonode
      /\ m_idtonode'[Main].m_coroutine = "ScheduleAll"
      /\ \A x \in DOMAIN m_idtonode :
            /\ m_idtonode'[x].m_state = m_idtonode[x].m_state
            /\ x # Main => m_idtonode'[x].m_coroutine = m_idtonode[x].m_coroutine
      /\ m_active' = iter
      /\ pc' = m_idtonode'[iter].m_coroutine
  BY <1>1, <1>3, ScheduleEffect DEF SchedulerInv, TypeOK, Live, MainLabels
<1>5. pc' \in {"Entry", "Callback"}
  BY <1>1, <1>4 DEF SchedulerInv, BlocksBelongToOwners, EndedAreDone, Live, CoLabels
<1>6. TypeOK'
  BY <1>1, <1>2, <1>4, <1>5 DEF TimersKept, SchedulerInv, TypeOK, Live, CoLabels
<1>7. BlocksBelongToOwners' /\ EndedNeverResumed' /\ NobodyLeftBehind' /\ EndedAreDone'
  BY <1>1, <1>4, <1>5 DEF SchedulerInv, BlocksBelongToOwners, EndedNeverResumed,
                          NobodyLeftBehind, EndedAreDone, Live, CoLabels, MainLabels
<1>8. TimersOwnedByWaiters' /\ BehindWait'
  BY <1>1, <1>4 DEF SchedulerInv, TimersOwnedByWaiters, BehindWait, Waiting, Live
<1>9. OwnerRuns'
  BY <1>1, <1>4, CoroutineAssumption DEF SchedulerInv, TypeOK, OwnerRuns, Live
<1> QED BY <1>2, <1>6, <1>7, <1>8, <1>9 DEF SchedulerInv, TimersKept

(* ScheduleAll destroys an ended coroutine after moving its iterator past it. *)
LEMMA ReapKeeps ==
    ASSUME SchedulerInv, ScheduleAllEnd
    PROVE  SchedulerInv'
<1>1. /\ pc = "ScheduleAll" /\ m_active = Main /\ iter \in Live
      /\ m_idtonode[iter].m_state = "E_END" /\ iter' = After(iter)
      /\ UNCHANGED <<timers, now, m_active, staticid, pc>>
  BY DEF ScheduleAllEnd, AtNode, SchedulerInv, BlocksBelongToOwners, MainLabels
<1>2. TimersKept
  BY <1>1, UnchangedKeepsTimers DEF SchedulerInv, TypeOK, TimersTypeOK
<1>3. /\ DOMAIN m_idtonode' = DOMAIN m_idtonode \ {iter}
      /\ m_idtonode' \in [DOMAIN m_idtonode' -> Nodes]
      /\ \A x \in DOMAIN m_idtonode' : m_idtonode'[x] = m_idtonode[x]
  BY DEF ScheduleAllEnd, MapErase, SchedulerInv, TypeOK
<1>4. /\ iter' \in DOMAIN m_idtonode \cup {End}
      /\ iter < iter'
      /\ \A x \in DOMAIN m_idtonode : x <= iter \/ iter' <= x
  BY <1>1, AfterIsNext DEF SchedulerInv, Live
<1>5. DOMAIN m_idtonode \subseteq 0 .. (IdSpace - 1) /\ IdSpace \in Nat
  BY CoroutineAssumption DEF SchedulerInv, TypeOK
<1>6. iter' \in DOMAIN m_idtonode' \cup {End}
  BY <1>1, <1>3, <1>4, <1>5 DEF Live
<1>7. TypeOK'
  BY <1>1, <1>2, <1>3, <1>6 DEF TimersKept, SchedulerInv, TypeOK, Live
<1>8. BlocksBelongToOwners' /\ EndedNeverResumed' /\ NobodyLeftBehind' /\ EndedAreDone'
      /\ OwnerRuns'
  BY <1>1, <1>3 DEF SchedulerInv, TypeOK, BlocksBelongToOwners, EndedNeverResumed,
                    NobodyLeftBehind, EndedAreDone, OwnerRuns, Live
<1>9. TimersOwnedByWaiters'
  BY <1>1, <1>3 DEF SchedulerInv, TimersOwnedByWaiters, Waiting, Live
<1>10. BehindWait'
  <2>1. iter' \in Int
    BY <1>4, <1>5 DEF End
  <2>2. \A x \in Live' : x < iter' => x < iter
    BY <1>1, <1>3, <1>4, <1>5, <2>1 DEF Live
  <2>3. \A x \in Live' : x \in Live /\ (x < iter => x \in Waiting)
    BY <1>1, <1>3 DEF SchedulerInv, BehindWait, Live
  <2> QED BY <1>3, <2>2, <2>3 DEF BehindWait, Waiting, Live
<1> QED BY <1>2, <1>7, <1>8, <1>9, <1>10 DEF SchedulerInv, TimersKept

(* A coroutine gives the processor back to main, waiting or for good.      *)
LEMMA BackToMainKeeps ==
    ASSUME SchedulerInv, pc = "Callback", NEW s \in {"E_WAIT", "E_END"}, NEW here \in CoLabels,
           s = "E_END" <=> here = "EntryReturn",
           Schedule(WithState(m_idtonode, m_active, s), Main, here),
           TimersKept, now' = now, staticid' = staticid, iter' = iter,
           DOMAIN timers'.m_id_to_expire
              \subseteq DOMAIN timers.m_id_to_expire \cup {x \in {m_active} : s = "E_WAIT"}
    PROVE  SchedulerInv'
<1> DEFINE nodes == WithState(m_idtonode, m_active, s)
<1>1. /\ m_active \in Live /\ m_idtonode[m_active].m_state = "E_READY"
      /\ iter <= m_active /\ m_idtonode[Main].m_coroutine = "ScheduleAll"
  BY DEF SchedulerInv, BlocksBelongToOwners, OwnerRuns, TypeOK, Live, MainLabels
<1>2. /\ nodes \in [DOMAIN m_idtonode -> Nodes]
      /\ nodes[m_active].m_state = s
      /\ \A x \in DOMAIN m_idtonode :
            /\ nodes[x].m_coroutine = m_idtonode[x].m_coroutine
            /\ x # m_active => nodes[x].m_state = m_idtonode[x].m_state
  BY WithStateEffect DEF SchedulerInv, TypeOK, States
<1>3. Schedule(nodes, Main, here)
  OBVIOUS
<1> HIDE DEF nodes
<1>4. /\ m_idtonode' \in [DOMAIN m_idtonode -> Nodes]
      /\ DOMAIN m_idtonode' = DOMAIN m_idtonode
      /\ m_idtonode'[m_active].m_coroutine = here
      /\ m_idtonode'[m_active].m_state = s
      /\ \A x \in DOMAIN m_idtonode : x # m_active =>
            /\ m_idtonode'[x].m_state = m_idtonode[x].m_state
            /\ m_idtonode'[x].m_coroutine = m_idtonode[x].m_coroutine
      /\ m_active' = Main
      /\ pc' = "ScheduleAll"
  BY <1>1, <1>2, <1>3, ScheduleEffect DEF SchedulerInv, TypeOK, Live
<1>5. TypeOK'
  BY <1>4 DEF TimersKept, SchedulerInv, TypeOK, MainLabels
<1>6. BlocksBelongToOwners' /\ EndedNeverResumed' /\ NobodyLeftBehind' /\ OwnerRuns'
  BY <1>1, <1>4 DEF SchedulerInv, TypeOK, BlocksBelongToOwners, EndedNeverResumed,
                    NobodyLeftBehind, OwnerRuns, Live, MainLabels
<1>7. EndedAreDone'
  BY <1>4 DEF SchedulerInv, EndedAreDone, Live
<1>8. TimersOwnedByWaiters'
  BY <1>1, <1>4 DEF SchedulerInv, TimersOwnedByWaiters, Waiting, Live
<1>9. BehindWait'
  <2>1. /\ DOMAIN m_idtonode \subseteq 0 .. (IdSpace - 1)
        /\ iter \in Int
        /\ \A x \in Live : x < iter => x \in Waiting
    BY CoroutineAssumption DEF SchedulerInv, TypeOK, BehindWait, End
  <2>2. \A x \in Live : x < iter => x # m_active
    BY <1>1, <2>1 DEF Live
  <2> QED BY <1>4, <2>1, <2>2 DEF BehindWait, Waiting, Live
<1> QED BY <1>5, <1>6, <1>7, <1>8, <1>9 DEF SchedulerInv, TimersKept

(* WaitAndSchedule: the coroutine waits with a timer, and main goes on.    *)
LEMMA WaitKeeps ==
    ASSUME SchedulerInv, NEW ms \in Waits, CallbackWait(ms)
    PROVE  SchedulerInv'
<1>1. m_active \in Ids /\ m_active \in DOMAIN m_idtonode
  BY CoroutineAssumption DEF CallbackWait, SchedulerInv, BlocksBelongToOwners, TypeOK,
                             MainLabels, Main
<1>2. IsIndex(timers) /\ Agrees(timers) /\ now \in Nat /\ ms \in Nat
  BY ExpireAssumption DEF SchedulerInv, TypeOK, TimersTypeOK, IndexesAgree
<1>3. /\ IsIndex(SetTimer(timers, m_active, ms)) /\ Agrees(SetTimer(timers, m_active, ms))
      /\ SetTimer(timers, m_active, ms).m_id_to_expire
            = MapPut(timers.m_id_to_expire, m_active, now + ms)
  BY <1>1, <1>2, SetTimerKeeps
<1>4. timers' = SetTimer(timers, m_active, ms) /\ now' = now
  BY DEF CallbackWait
<1>5. TimersKept
  BY <1>2, <1>3, <1>4 DEF TimersKept, TimersTypeOK, IndexesAgree, IsIndex, Agrees, Indexed
<1>6. DOMAIN timers'.m_id_to_expire = DOMAIN timers.m_id_to_expire \cup {m_active}
  BY <1>3, <1>4 DEF MapPut
<1> QED BY <1>5, <1>6, BackToMainKeeps DEF CallbackWait, CoLabels

(* The end of Entry: the coroutine is ended, and main goes on.             *)
LEMMA EndKeeps ==
    ASSUME SchedulerInv, CallbackEnd
    PROVE  SchedulerInv'
<1>1. TimersKept
  BY UnchangedKeepsTimers DEF CallbackEnd, SchedulerInv, TypeOK, TimersTypeOK
<1> QED BY <1>1, BackToMainKeeps DEF CallbackEnd, CoLabels
-----------------------------------------------------------------------------
(* Every step of the scheduler keeps the invariant: one case per action.   *)
LEMMA SchedulerInvStep == SchedulerInv /\ [Next]_coroutineVars => SchedulerInv'
<1> SUFFICES ASSUME SchedulerInv, [Next]_coroutineVars
             PROVE  SchedulerInv'
  OBVIOUS
<1>1. CASE RunOnceExpired
  BY <1>1, RunOnceExpiredKeeps
<1>2. CASE RunOnceWait \/ DispatchDone \/ ScheduleAllSkip \/ ScheduleAllDone
  BY <1>2, MainMovesKeep
<1>3. CASE ScheduleAllReady
  BY <1>3, RunReadyKeeps
<1>4. CASE ScheduleAllEnd
  BY <1>4, ReapKeeps
<1>5. CASE EntryStart
  <2>1. TimersKept
    BY <1>5, UnchangedKeepsTimers DEF EntryStart, SchedulerInv, TypeOK, TimersTypeOK
  <2> QED
    BY <1>5, <2>1
       DEF EntryStart, SchedulerInv, TimersKept, TypeOK, BlocksBelongToOwners,
           TimersOwnedByWaiters, NobodyLeftBehind, EndedNeverResumed, OwnerRuns,
           EndedAreDone, BehindWait, Live, Waiting, MainLabels, CoLabels
<1>6. ASSUME NEW ms \in Waits, CallbackWait(ms)
      PROVE  SchedulerInv'
  BY <1>6, WaitKeeps
<1>7. CASE CallbackEnd
  BY <1>7, EndKeeps
<1>8. CASE Events
  BY <1>8, NewReqKeeps, WakeKeeps, CloseKeeps DEF Events
<1>9. CASE Clock \/ UNCHANGED coroutineVars
  <2>1. UNCHANGED <<timers, m_idtonode, m_active, staticid, pc, iter>> /\ now' \in Nat
    BY <1>9, ExpireAssumption
       DEF Clock, Tick, StepClock, coroutineVars, SchedulerInv, TypeOK, TimersTypeOK
  <2>2. TimersKept
    BY <2>1, UnchangedKeepsTimers
  <2> QED
    BY <2>1, <2>2
       DEF SchedulerInv, TimersKept, TypeOK, BlocksBelongToOwners,
           TimersOwnedByWaiters, NobodyLeftBehind, EndedNeverResumed, OwnerRuns,
           EndedAreDone, BehindWait, Live, Waiting
<1> QED BY <1>1, <1>2, <1>3, <1>4, <1>5, <1>6, <1>7, <1>8, <1>9
        DEF Next, MainStep, CoroutineStep

(* The inductive invariant holds in every reachable state of the scheduler. *)
THEOREM SchedulerInvariant == Spec => []SchedulerInv
BY SchedulerInvInit, SchedulerInvStep, PTL DEF Spec

(***************************************************************************)
(* The scheduler's variables keep their types: m_active and the iterator   *)
(* of ScheduleAll never point to a node that was erased from the map.      *)
(***************************************************************************)
THEOREM SchedulerTypeCorrect == Spec => []TypeOK
BY SchedulerInvariant, PTL DEF SchedulerInv

(***************************************************************************)
(* Every Schedule() saves the running stack in its owner's block.          *)
(***************************************************************************)
THEOREM BlocksAlwaysOwned == Spec => []BlocksBelongToOwners
BY SchedulerInvariant, PTL DEF SchedulerInv

(***************************************************************************)
(* ScheduleAll leaves no ready and no ended coroutine behind: whenever     *)
(* main enters RunOnce, every coroutine in the map waits.                  *)
(***************************************************************************)
THEOREM NobodyEverLeftBehind == Spec => []NobodyLeftBehind
BY SchedulerInvariant, PTL DEF SchedulerInv

(***************************************************************************)
(* Timeouts are armed for waiting coroutines only, so RunOnce never wakes  *)
(* one that is not waiting and never looks up an id that is gone.          *)
(***************************************************************************)
THEOREM TimersAlwaysOwned == Spec => []TimersOwnedByWaiters
BY SchedulerInvariant, PTL DEF SchedulerInv

(***************************************************************************)
(* No coroutine is resumed after the last Schedule() of Entry, even when   *)
(* ids wrap around and are handed out twice.                               *)
(***************************************************************************)
THEOREM EndedNeverRunAgain == Spec => []EndedNeverResumed
BY SchedulerInvariant, PTL DEF SchedulerInv
-----------------------------------------------------------------------------
(* Where no closed descriptor has the number of a coroutine, a coroutine   *)
(* that waits after a step has a timeout: it had one and the step did not  *)
(* drop it, or the step is the WaitAndSchedule that armed it.              *)
LEMMA WaitersKeepTimers ==
    ASSUME SchedulerInv, WaitersHaveTimers, ClosedFds \cap Ids = {}, [Next]_coroutineVars
    PROVE  WaitersHaveTimers'
<1>1. /\ m_idtonode \in [DOMAIN m_idtonode -> Nodes]
      /\ m_active \in DOMAIN m_idtonode
      /\ Live \subseteq Ids
  BY CoroutineAssumption DEF SchedulerInv, TypeOK, Live, Main
<1>2. CASE timers' = timers /\ Waiting' \subseteq Waiting
  BY <1>2 DEF WaitersHaveTimers
<1>3. ASSUME NEW id, timers' = DelTimer(timers, id), now' = now,
             Waiting' \subseteq Waiting \ {id}
      PROVE  WaitersHaveTimers'
  <2>1. timers'.m_id_to_expire = MapErase(timers.m_id_to_expire, id)
    BY <1>3, DelKeepsTimers
  <2> QED BY <1>3, <2>1 DEF WaitersHaveTimers, MapErase
<1>4. CASE RunOnceExpired
  <2> DEFINE id    == NextWaitTime.id
             nodes == WithState(m_idtonode, id, "E_READY")
  <2>1. id \in Waiting
    BY <1>4, DueIsWaiting DEF RunOnceExpired
  <2>2. /\ nodes \in [DOMAIN m_idtonode -> Nodes]
        /\ nodes[id].m_state = "E_READY"
        /\ \A x \in DOMAIN m_idtonode : x # id => nodes[x].m_state = m_idtonode[x].m_state
    BY <1>1, <2>1, WithStateEffect DEF Waiting, Live, States
  <2>3. Schedule(nodes, id, "ScheduleAll") /\ timers' = DelTimer(timers, id) /\ now' = now
    BY <1>4 DEF RunOnceExpired
  <2> HIDE DEF id, nodes
  <2>4. /\ DOMAIN m_idtonode' = DOMAIN m_idtonode
        /\ \A x \in DOMAIN m_idtonode : m_idtonode'[x].m_state = nodes[x].m_state
    BY <1>1, <2>1, <2>2, <2>3, ScheduleEffect DEF Waiting, Live, MainLabels
  <2>5. Waiting' \subseteq Waiting \ {id}
    BY <2>2, <2>4 DEF Waiting, Live
  <2> QED BY <1>3, <2>3, <2>5
<1>5. CASE RunOnceWait \/ DispatchDone \/ ScheduleAllSkip \/ ScheduleAllDone \/ EntryStart
           \/ Clock \/ UNCHANGED coroutineVars
  <2>1. timers' = timers /\ m_idtonode' = m_idtonode
    BY <1>5 DEF RunOnceWait, DispatchDone, ScheduleAllSkip, ScheduleAllDone, EntryStart,
                Clock, Tick, StepClock, coroutineVars
  <2> QED BY <1>2, <2>1 DEF Waiting, Live
<1>6. CASE ScheduleAllReady
  <2>1. Schedule(m_idtonode, iter, "ScheduleAll") /\ iter \in Live /\ timers' = timers
    BY <1>6 DEF ScheduleAllReady, AtNode
  <2>2. /\ DOMAIN m_idtonode' = DOMAIN m_idtonode
        /\ \A x \in DOMAIN m_idtonode : m_idtonode'[x].m_state = m_idtonode[x].m_state
    BY <1>1, <2>1, ScheduleEffect DEF Live, MainLabels
  <2> QED BY <1>2, <2>1, <2>2 DEF Waiting, Live
<1>7. CASE ScheduleAllEnd
  BY <1>2, <1>7 DEF ScheduleAllEnd, MapErase, Waiting, Live
<1>8. CASE DispatchNewReq
  BY <1>2, <1>8 DEF DispatchNewReq, Create, MapPut, Waiting, Live
<1>9. ASSUME NEW id \in Ids, DispatchWake(id)
      PROVE  WaitersHaveTimers'
  <2>1. Waiting' \subseteq Waiting \ {id}
    BY <1>1, <1>9, WithStateEffect DEF DispatchWake, SetReady, Waiting, Live, States
  <2> QED BY <1>3, <1>9, <2>1 DEF DispatchWake, SetReady
<1>10. ASSUME NEW fd \in ClosedFds, DispatchClose(fd)
       PROVE  WaitersHaveTimers'
  <2>1. Waiting' = Waiting /\ fd \notin Waiting
    BY <1>1, <1>10 DEF DispatchClose, Waiting, Live
  <2> QED BY <1>3, <1>10, <2>1 DEF DispatchClose
<1>11. ASSUME NEW s \in {"E_WAIT", "E_END"}, NEW here \in CoLabels,
              Schedule(WithState(m_idtonode, m_active, s), Main, here)
       PROVE  Waiting' \subseteq Waiting \cup {x \in {m_active} : s = "E_WAIT"}
  <2> DEFINE nodes == WithState(m_idtonode, m_active, s)
  <2>1. /\ nodes \in [DOMAIN m_idtonode -> Nodes]
        /\ nodes[m_active].m_state = s
        /\ \A x \in DOMAIN m_idtonode :
              x # m_active => nodes[x].m_state = m_idtonode[x].m_state
    BY <1>1, WithStateEffect DEF States
  <2>2. Schedule(nodes, Main, here)
    BY <1>11
  <2> HIDE DEF nodes
  <2>3. /\ DOMAIN m_idtonode' = DOMAIN m_idtonode
        /\ \A x \in DOMAIN m_idtonode : m_idtonode'[x].m_state = nodes[x].m_state
    BY <1>1, <2>1, <2>2, ScheduleEffect DEF SchedulerInv, TypeOK
  <2> QED BY <2>1, <2>3 DEF Waiting, Live
<1>12. ASSUME NEW ms \in Waits, CallbackWait(ms)
       PROVE  WaitersHaveTimers'
  <2>1. m_active \in Ids
    BY <1>1, <1>12 DEF CallbackWait, SchedulerInv, BlocksBelongToOwners, MainLabels, Live
  <2>2. IsIndex(timers) /\ Agrees(timers) /\ now \in Nat /\ ms \in Nat
    BY ExpireAssumption DEF SchedulerInv, TypeOK, TimersTypeOK, IndexesAgree
  <2>3. timers'.m_id_to_expire = MapPut(timers.m_id_to_expire, m_active, now + ms)
    BY <1>12, <2>1, <2>2, SetTimerKeeps DEF CallbackWait
  <2>4. Waiting' \subseteq Waiting \cup {m_active}
    BY <1>11, <1>12 DEF CallbackWait, CoLabels
  <2> QED BY <2>3, <2>4 DEF WaitersHaveTimers, MapPut
<1>13. CASE CallbackEnd
  <2>1. Waiting' \subseteq Waiting
    BY <1>11, <1>13 DEF CallbackEnd, CoLabels
  <2> QED BY <1>2, <1>13, <2>1 DEF CallbackEnd
<1> QED BY <1>4, <1>5, <1>6, <1>7, <1>8, <1>9, <1>10, <1>12, <1>13
        DEF Next, MainStep, CoroutineStep, Events

(***************************************************************************)
(* Every coroutine in WaitAndSchedule has a timeout that will end its wait *)
(* whatever else happens, as long as DelFd is never given a descriptor     *)
(* with the number of a coroutine (EventMgr.h:395).                        *)
(***************************************************************************)
THEOREM WaitersAlwaysHaveTimers ==
    ASSUME ClosedFds \cap Ids = {}
    PROVE  Spec => []WaitersHaveTimers
<1>1. Init => WaitersHaveTimers
  BY DEF Init, WaitersHaveTimers, Waiting, Live
<1>2. SchedulerInv /\ WaitersHaveTimers /\ [Next]_coroutineVars => WaitersHaveTimers'
  BY WaitersKeepTimers
<1> QED BY <1>1, <1>2, SchedulerInvariant, PTL DEF Spec
-----------------------------------------------------------------------------
(* Implementation of CoroutineLife: each step moves one coroutine on.      *)
LEMMA LiveAreIds == ASSUME TypeOK PROVE Live \subseteq Ids /\ Main \notin Ids
BY CoroutineAssumption DEF TypeOK, Live, Main

(* One coroutine changed its status and no other: a step of CoroutineLife. *)
LEMMA MovesOn ==
    ASSUME NEW c \in Ids, NEW from, NEW to, Status(c) = from, Status(c)' = to,
           \A x \in Ids \ {c} : Status(x)' = Status(x)
    PROVE  Life!Becomes(c, from, to)
BY DEF Life!Becomes, lifeStatus

(* While main runs, no coroutine has the processor.                        *)
LEMMA MainRunsAlone == ASSUME TypeOK, m_active = Main PROVE Life!CpuFree
<1> SUFFICES ASSUME NEW c \in Ids
             PROVE  Status(c) # "running"
  BY DEF Life!CpuFree, lifeStatus
<1>1. c # m_active
  BY LiveAreIds
<1>2. c \in Live => m_idtonode[c].m_state \in States
  BY DEF TypeOK, Live, Nodes
<1> QED BY <1>1, <1>2 DEF Status, StatusOf, States

(* Every step of the scheduler is one step of one life, or none.           *)
LEMMA LifeStep ==
    ASSUME SchedulerInv, SchedulerInv', Next
    PROVE  [Life!Next]_lifeStatus
<1> USE DEF SchedulerInv
<1>0. /\ Live \subseteq Ids /\ Live' \subseteq Ids /\ Main \notin Ids
      /\ m_idtonode \in [DOMAIN m_idtonode -> Nodes] /\ m_active \in DOMAIN m_idtonode
      /\ Main \in DOMAIN m_idtonode
  BY LiveAreIds, CoroutineAssumption DEF TypeOK, Live, Main
<1>1. CASE RunOnceExpired
  <2>0. PICK id \in Ids : id = NextWaitTime.id
    BY <1>1, DueIsWaiting DEF RunOnceExpired
  <2> DEFINE nodes == WithState(m_idtonode, id, "E_READY")
  <2>1. id \in Waiting /\ id \in Ids /\ m_active = Main
    BY <1>1, <2>0, DueIsWaiting DEF RunOnceExpired, BlocksBelongToOwners, MainLabels
  <2>2. /\ nodes \in [DOMAIN m_idtonode -> Nodes]
        /\ \A x \in DOMAIN m_idtonode \ {id} : nodes[x].m_state = m_idtonode[x].m_state
    BY <1>0, <2>1, WithStateEffect DEF Waiting, Live, States
  <2>3. Schedule(nodes, id, "ScheduleAll")
    BY <1>1, <2>0 DEF RunOnceExpired
  <2> HIDE DEF nodes
  <2>4. /\ DOMAIN m_idtonode' = DOMAIN m_idtonode /\ m_active' = id
        /\ \A x \in DOMAIN m_idtonode \ {id} : m_idtonode'[x].m_state = m_idtonode[x].m_state
    BY <1>0, <2>1, <2>2, <2>3, ScheduleEffect DEF Waiting, Live, MainLabels
  <2>5. Status(id) = "sleeping" /\ Status(id)' = "running"
    BY <1>0, <2>1, <2>4 DEF Status, StatusOf, Waiting, Live
  <2>6. \A x \in Ids \ {id} : Status(x)' = Status(x)
    BY <1>0, <2>1, <2>4 DEF Status, Live
  <2>7. Life!CpuFree
    BY <2>1, MainRunsAlone
  <2> QED BY <2>1, <2>5, <2>6, <2>7, MovesOn DEF Life!Next, Life!TimeOut
<1>2. CASE RunOnceWait \/ DispatchDone \/ ScheduleAllSkip \/ ScheduleAllDone \/ EntryStart
           \/ (\E fd \in ClosedFds : DispatchClose(fd)) \/ Clock
  <2>1. UNCHANGED <<m_idtonode, m_active>>
    BY <1>2 DEF RunOnceWait, DispatchDone, ScheduleAllSkip, ScheduleAllDone, EntryStart,
                DispatchClose, Clock
  <2>2. \A x \in Ids : Status(x)' = Status(x)
    BY <2>1 DEF Status, Live
  <2> QED BY <2>2 DEF lifeStatus
<1>3. CASE DispatchNewReq
  <2>1. /\ m_active' = m_active /\ m_active = Main
        /\ \/ m_idtonode' = m_idtonode
           \/ /\ NextId \notin DOMAIN m_idtonode
              /\ m_idtonode' = MapPut(m_idtonode, NextId,
                                      [m_state |-> "E_READY", m_coroutine |-> "Entry"])
    BY <1>3 DEF DispatchNewReq, Create, BlocksBelongToOwners, MainLabels
  <2>2. CASE m_idtonode' = m_idtonode
    <3>1. \A x \in Ids : Status(x)' = Status(x)
      BY <2>1, <2>2 DEF Status, Live
    <3> QED BY <3>1 DEF lifeStatus
  <2>3. CASE m_idtonode' # m_idtonode
    <3>1. /\ NextId \notin DOMAIN m_idtonode
          /\ DOMAIN m_idtonode' = DOMAIN m_idtonode \cup {NextId}
          /\ m_idtonode'[NextId].m_state = "E_READY"
          /\ \A x \in DOMAIN m_idtonode : m_idtonode'[x] = m_idtonode[x]
      BY <2>1, <2>3 DEF MapPut
    <3>2. PICK c \in Ids : c = NextId
      BY <1>0, <3>1 DEF Live
    <3>3. Status(c) = "none" /\ Status(c)' = "runnable"
      BY <1>0, <2>1, <3>1, <3>2 DEF Status, StatusOf, Live
    <3>4. \A x \in Ids \ {c} : Status(x)' = Status(x)
      BY <2>1, <3>1, <3>2 DEF Status, Live
    <3> QED BY <3>2, <3>3, <3>4, MovesOn DEF Life!Next, Life!Spawn
  <2> QED BY <2>2, <2>3
<1>4. ASSUME NEW id \in Ids, DispatchWake(id)
      PROVE  [Life!Next]_lifeStatus
  <2>1. /\ id \in Live /\ m_active' = m_active /\ m_active = Main
        /\ pc = "Dispatch" /\ m_idtonode' = WithState(m_idtonode, id, "E_READY")
    BY <1>4 DEF DispatchWake, SetReady, BlocksBelongToOwners, MainLabels
  <2>2. /\ DOMAIN m_idtonode' = DOMAIN m_idtonode
        /\ m_idtonode'[id].m_state = "E_READY"
        /\ \A x \in DOMAIN m_idtonode \ {id} : m_idtonode'[x].m_state = m_idtonode[x].m_state
    BY <1>0, <2>1, WithStateEffect DEF Live, States
  <2>3. m_idtonode[id].m_state \in {"E_READY", "E_WAIT"}
    BY <1>0, <2>1 DEF EndedAreDone, Live, Nodes, States
  <2>4. /\ Status(id)' = "runnable"
        /\ Status(id) \in {"runnable", "sleeping"}
    BY <1>0, <2>1, <2>2, <2>3 DEF Status, StatusOf, Live
  <2>5. \A x \in Ids \ {id} : Status(x)' = Status(x)
    BY <2>1, <2>2 DEF Status, Live
  <2>6. CASE Status(id) = "runnable"
    <3>1. \A x \in Ids : Status(x)' = Status(x)
      BY <2>4, <2>5, <2>6
    <3> QED BY <3>1 DEF lifeStatus
  <2>7. CASE Status(id) = "sleeping"
    <3>1. Life!CpuFree
      BY <2>1, MainRunsAlone
    <3> QED BY <2>4, <2>5, <2>7, <3>1, MovesOn DEF Life!Next, Life!Wake
  <2> QED BY <2>4, <2>6, <2>7
<1>5. CASE ScheduleAllReady
  <2>1. /\ iter \in Live /\ m_active = Main /\ m_idtonode[iter].m_state = "E_READY"
        /\ Schedule(m_idtonode, iter, "ScheduleAll")
    BY <1>5 DEF ScheduleAllReady, AtNode, BlocksBelongToOwners, MainLabels
  <2>2. /\ DOMAIN m_idtonode' = DOMAIN m_idtonode /\ m_active' = iter
        /\ \A x \in DOMAIN m_idtonode : m_idtonode'[x].m_state = m_idtonode[x].m_state
    BY <1>0, <2>1, ScheduleEffect DEF Live, MainLabels
  <2>3. PICK c \in Ids : c = iter
    BY <1>0, <2>1
  <2>4. Status(c) = "runnable" /\ Status(c)' = "running"
    BY <1>0, <2>1, <2>2, <2>3 DEF Status, StatusOf, Live
  <2>5. \A x \in Ids \ {c} : Status(x)' = Status(x)
    BY <1>0, <2>1, <2>2, <2>3 DEF Status, Live
  <2>6. Life!CpuFree
    BY <2>1, MainRunsAlone
  <2> QED BY <2>4, <2>5, <2>6, MovesOn DEF Life!Next, Life!Run
<1>6. CASE ScheduleAllEnd
  <2>1. PICK c \in Ids : c = iter
    BY <1>0, <1>6 DEF ScheduleAllEnd, AtNode
  <2>2. /\ c \in Live /\ m_active = Main /\ m_active' = Main
        /\ m_idtonode[c].m_state = "E_END" /\ m_idtonode' = MapErase(m_idtonode, c)
    BY <1>6, <2>1 DEF ScheduleAllEnd, AtNode, BlocksBelongToOwners, MainLabels
  <2>3. Status(c) = "finished" /\ Status(c)' = "none"
    BY <1>0, <2>2 DEF Status, StatusOf, Live, MapErase
  <2>4. \A x \in Ids \ {c} : Status(x)' = Status(x)
    BY <2>2 DEF Status, Live, MapErase
  <2>5. Life!CpuFree
    BY <2>2, MainRunsAlone
  <2> QED BY <2>3, <2>4, <2>5, MovesOn DEF Life!Next, Life!Reap
<1>7. ASSUME NEW s \in {"E_WAIT", "E_END"}, NEW here, here \in CoLabels, pc = "Callback",
             Schedule(WithState(m_idtonode, m_active, s), Main, here)
      PROVE  Life!Next
  <2>1. PICK c \in Ids : c = m_active
    BY <1>0, <1>7 DEF BlocksBelongToOwners, MainLabels, Live
  <2> DEFINE nodes == WithState(m_idtonode, c, s)
  <2>2. /\ nodes \in [DOMAIN m_idtonode -> Nodes] /\ nodes[c].m_state = s
        /\ \A x \in DOMAIN m_idtonode \ {c} : nodes[x].m_state = m_idtonode[x].m_state
    BY <1>0, <2>1, WithStateEffect DEF States
  <2>3. Schedule(nodes, Main, here)
    BY <1>7, <2>1
  <2> HIDE DEF nodes
  <2>4. /\ DOMAIN m_idtonode' = DOMAIN m_idtonode /\ m_active' = Main
        /\ m_idtonode'[c].m_state = s
        /\ \A x \in DOMAIN m_idtonode \ {c} : m_idtonode'[x].m_state = m_idtonode[x].m_state
    BY <1>0, <1>7, <2>1, <2>2, <2>3, ScheduleEffect
  <2>5. c \in Live /\ c # Main
    BY <1>0, <2>1 DEF Live
  <2>6. Status(c) = "running" /\ Status(c)' = IF s = "E_WAIT" THEN "sleeping" ELSE "finished"
    BY <1>0, <2>1, <2>4, <2>5 DEF Status, StatusOf, Live
  <2>7. \A x \in Ids \ {c} : Status(x)' = Status(x)
    BY <1>0, <2>1, <2>4 DEF Status, Live
  <2> QED BY <2>6, <2>7, MovesOn DEF Life!Next, Life!Sleep, Life!Finish
<1>8. CASE (\E ms \in Waits : CallbackWait(ms)) \/ CallbackEnd
  BY <1>7, <1>8 DEF CallbackWait, CallbackEnd, CoLabels
<1> QED BY <1>1, <1>2, <1>3, <1>4, <1>5, <1>6, <1>8
        DEF Next, MainStep, CoroutineStep, Events

(***************************************************************************)
(* The scheduler implements the life cycle: no coroutine is preempted, run *)
(* twice at once, resumed without a wake-up or timeout, or reaped early.   *)
(***************************************************************************)
THEOREM SchedulerRefinement == Spec => ImplementsCoroutineLife
<1>1. Init => Life!Init
  BY DEF Init, Life!Init, lifeStatus, Status, Live, Main
<1>2. SchedulerInv /\ SchedulerInv' /\ [Next]_coroutineVars => [Life!Next]_lifeStatus
  <2>1. CASE UNCHANGED coroutineVars
    BY <2>1 DEF coroutineVars, lifeStatus, Status, Live
  <2> QED BY <2>1, LifeStep
<1> QED BY <1>1, <1>2, SchedulerInvariant, PTL
        DEF Spec, ImplementsCoroutineLife, Life!Spec
=============================================================================
