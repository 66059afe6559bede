-------------------------- MODULE ExpireMgrProofs ---------------------------
(***************************************************************************)
(* Proofs about ExpireMgr.  The lemmas on DelTimer and AddTimer are stated *)
(* for any pair of maps, so that the proofs of the scheduler, which chains *)
(* them with its own state changes, can use them too.                      *)
(***************************************************************************)
EXTENDS ExpireMgr, FiniteSetsExt, WellFoundedInduction, TLAPS

(* A set of naturals that is not empty, finite or not, has a minimum: that *)
(* of a std::map is its begin().                                           *)
LEMMA MinOfNats ==
    ASSUME NEW S, S \subseteq Nat, S # {}
    PROVE  Min(S) \in S /\ \A y \in S : Min(S) <= y
<1>1. \E x \in S : \A y \in S : x <= y
  <2>1. PICK x \in S : \A y \in S : <<y, x>> \notin OpToRel(<, Nat)
    BY NatLessThanWellFounded, WFMin
  <2>2. \A y \in S : y < x => <<y, x>> \in OpToRel(<, Nat)
    BY DEF OpToRel
  <2>3. \A y \in S : ~(y < x)
    BY <2>1, <2>2
  <2>4. \A y \in S : x <= y
    BY <2>3
  <2> QED BY <2>4
<1> QED BY <1>1 DEF Min

(* Del drops one id from both maps and nothing else.                       *)
LEMMA DelTimerType ==
    ASSUME NEW tm, IsIndex(tm), NEW id
    PROVE  IsIndex(DelTimer(tm, id))
BY DEF IsIndex, DelTimer, Indexed, MapPut, MapErase

(* Del keeps the two maps the inverse of each other.                       *)
LEMMA DelTimerAgrees ==
    ASSUME NEW tm, IsIndex(tm), Agrees(tm), NEW id
    PROVE  Agrees(DelTimer(tm, id))
BY DEF IsIndex, Agrees, DelTimer, Indexed, MapPut, MapErase

(* Del forgets the deadline of its id and no other.                        *)
LEMMA DelTimerEffect ==
    ASSUME NEW tm, IsIndex(tm), Agrees(tm), NEW id
    PROVE  DelTimer(tm, id).m_id_to_expire = MapErase(tm.m_id_to_expire, id)
BY DEF IsIndex, Agrees, DelTimer, Indexed, MapErase

(* Add, called after Del, inserts one id into both.                        *)
LEMMA AddTimerType ==
    ASSUME NEW tm, IsIndex(tm), NEW id \in Ids, NEW e \in Nat
    PROVE  IsIndex(AddTimer(tm, id, e))
BY DEF IsIndex, AddTimer, MapPut

(* Add keeps the maps inverse, if the id had no deadline before.           *)
LEMMA AddTimerAgrees ==
    ASSUME NEW tm, IsIndex(tm), Agrees(tm), NEW id \in Ids, NEW e \in Nat,
           id \notin DOMAIN tm.m_id_to_expire
    PROVE  Agrees(AddTimer(tm, id, e))
BY DEF IsIndex, Agrees, AddTimer, Indexed, MapPut

(* Set is Del and then Add, so the two agree again whatever was armed.     *)
LEMMA SetTimerKeeps ==
    ASSUME NEW tm, IsIndex(tm), Agrees(tm), NEW id \in Ids, NEW ms \in Nat, now \in Nat
    PROVE  /\ IsIndex(SetTimer(tm, id, ms))
           /\ Agrees(SetTimer(tm, id, ms))
           /\ SetTimer(tm, id, ms).m_id_to_expire
                  = MapPut(tm.m_id_to_expire, id, now + ms)
<1> DEFINE del == DelTimer(tm, id)
<1>1. IsIndex(del) /\ Agrees(del)
  BY DelTimerType, DelTimerAgrees
<1>2. del.m_id_to_expire = MapErase(tm.m_id_to_expire, id)
  BY DelTimerEffect
<1>3. id \notin DOMAIN del.m_id_to_expire
  BY <1>2 DEF MapErase
<1>4. now + ms \in Nat
  OBVIOUS
<1> HIDE DEF del
<1>5. IsIndex(AddTimer(del, id, now + ms)) /\ Agrees(AddTimer(del, id, now + ms))
  BY <1>1, <1>3, <1>4, AddTimerType, AddTimerAgrees
<1>6. AddTimer(del, id, now + ms).m_id_to_expire
          = MapPut(tm.m_id_to_expire, id, now + ms)
  <2>1. AddTimer(del, id, now + ms).m_id_to_expire
            = MapPut(MapErase(tm.m_id_to_expire, id), id, now + ms)
    BY <1>2 DEF AddTimer
  <2>2. MapPut(MapErase(tm.m_id_to_expire, id), id, now + ms)
            = MapPut(tm.m_id_to_expire, id, now + ms)
    BY DEF MapPut, MapErase
  <2> QED BY <2>1, <2>2
<1> QED BY <1>5, <1>6 DEF SetTimer, del
-----------------------------------------------------------------------------
(* The two indexes are typed and agree: together this is inductive.        *)
ExpireInv == TimersTypeOK /\ IndexesAgree

(* The empty maps agree.                                                   *)
LEMMA ExpireInvInit == ExpireInit => ExpireInv
BY DEF ExpireInit, ExpireInv, TimersTypeOK, IndexesAgree, IsIndex, Agrees, Indexed,
       EmptyMap

(* Set, Del and the clock keep the invariant.                              *)
LEMMA ExpireInvStep == ExpireInv /\ [ExpireNext]_expireVars => ExpireInv'
<1> SUFFICES ASSUME ExpireInv, [ExpireNext]_expireVars
             PROVE  ExpireInv'
  OBVIOUS
<1> USE DEF ExpireInv, TimersTypeOK, IndexesAgree
<1>1. ASSUME NEW id \in Ids, NEW ms \in Waits, Set(ms, id)
      PROVE  ExpireInv'
  <2>1. ms \in Nat
    BY ExpireAssumption
  <2>2. IsIndex(SetTimer(timers, id, ms)) /\ Agrees(SetTimer(timers, id, ms))
    BY <2>1, SetTimerKeeps
  <2> QED BY <1>1, <2>2 DEF Set, IsIndex, Agrees, Indexed
<1>2. ASSUME NEW id \in Ids, Del(id)
      PROVE  ExpireInv'
  <2>1. IsIndex(DelTimer(timers, id)) /\ Agrees(DelTimer(timers, id))
    BY DelTimerType, DelTimerAgrees
  <2> QED BY <1>2, <2>1 DEF Del, IsIndex, Agrees, Indexed
<1>3. CASE Tick
  BY <1>3 DEF Tick, IsIndex, Agrees, Indexed
<1>4. CASE StepClock
  BY <1>4, ExpireAssumption DEF StepClock, IsIndex, Agrees, Indexed
<1>5. CASE UNCHANGED expireVars
  BY <1>5 DEF expireVars, IsIndex, Agrees, Indexed
<1> QED BY <1>1, <1>2, <1>3, <1>4, <1>5 DEF ExpireNext

(* The inductive invariant holds in every reachable state of the timer table. *)
THEOREM ExpireInvariant == ExpireSpec => []ExpireInv
BY ExpireInvInit, ExpireInvStep, PTL DEF ExpireSpec

(***************************************************************************)
(* The variables of CExpireMgr keep their types: every armed id and every  *)
(* deadline is one that was passed to Set.                                 *)
(***************************************************************************)
THEOREM ExpireTypeCorrect == ExpireSpec => []TimersTypeOK
BY ExpireInvariant, PTL DEF ExpireInv

(***************************************************************************)
(* The deadline index and the id index never come apart, whatever sequence *)
(* of Set, Del and clock changes the program goes through.                 *)
(***************************************************************************)
THEOREM IndexesAlwaysAgree == ExpireSpec => []IndexesAgree
BY ExpireInvariant, PTL DEF ExpireInv
-----------------------------------------------------------------------------
(* What begin() of the outer map gives NextWaitTime when it is not empty.  *)
LEMMA FirstDeadline ==
    ASSUME TimersTypeOK, IndexesAgree, DOMAIN timers.m_expire_to_id # {},
           NEW first, first = Min(DOMAIN timers.m_expire_to_id)
    PROVE  /\ first \in Nat
           /\ timers.m_expire_to_id[first] # {}
           /\ \A id \in timers.m_expire_to_id[first] :
                 id \in Ids /\ id \in DOMAIN timers.m_id_to_expire
                 /\ timers.m_id_to_expire[id] = first
           /\ \A id \in DOMAIN timers.m_id_to_expire : first <= timers.m_id_to_expire[id]
<1>1. first \in DOMAIN timers.m_expire_to_id
      /\ \A e \in DOMAIN timers.m_expire_to_id : first <= e
  BY MinOfNats DEF TimersTypeOK, IsIndex
<1>2. timers.m_expire_to_id[first] \in SUBSET Ids
  BY <1>1 DEF TimersTypeOK, IsIndex
<1> QED BY <1>1, <1>2 DEF TimersTypeOK, IsIndex, IndexesAgree, Agrees, Indexed

(* With maps that agree, what NextWaitTime reads off begin() is right.     *)
LEMMA NextWaitTimeAnswers ==
    ASSUME TimersTypeOK, IndexesAgree
    PROVE  NextWaitTimeKeepsWord
<1>1. CASE DOMAIN timers.m_expire_to_id = {}
  <2>1. DOMAIN timers.m_id_to_expire = {}
    BY <1>1 DEF IndexesAgree, Agrees, Indexed
  <2>2. NextWaitTime = [ms |-> IdleWait, id |-> 0]
    BY <1>1 DEF NextWaitTime
  <2> QED BY <2>1, <2>2 DEF NextWaitTimeKeepsWord, Table!IsAnswer
<1>2. CASE DOMAIN timers.m_expire_to_id # {}
  <2> DEFINE first == Min(DOMAIN timers.m_expire_to_id)
             child == timers.m_expire_to_id[first]
  <2>1. /\ first \in Nat
        /\ child # {}
        /\ \A id \in child : /\ id \in Ids /\ id \in DOMAIN timers.m_id_to_expire
                              /\ timers.m_id_to_expire[id] = first
        /\ \A id \in DOMAIN timers.m_id_to_expire : first <= timers.m_id_to_expire[id]
    BY <1>2, FirstDeadline
  <2>2. child \subseteq Nat
    BY <2>1, ExpireAssumption
  <2>3. Min(child) \in child
    BY <2>1, <2>2, MinOfNats
  <2>4. NextWaitTime = IF first > now THEN [ms |-> first - now, id |-> 0]
                       ELSE [ms |-> 0, id |-> Min(child)]
    BY <1>2, <2>1 DEF NextWaitTime
  <2>5. now \in Nat /\ \A x \in DOMAIN timers.m_id_to_expire : timers.m_id_to_expire[x] \in Nat
    BY DEF TimersTypeOK, IsIndex
  <2> HIDE DEF first, child
  <2>6. CASE first > now
    <3>1. NextWaitTime = [ms |-> first - now, id |-> 0]
      BY <2>4, <2>6
    <3>2. PICK x \in DOMAIN timers.m_id_to_expire : timers.m_id_to_expire[x] = first
      BY <2>1, <2>3
    <3>3. first - now > 0 /\ now + (first - now) = first
      BY <2>1, <2>5, <2>6
    <3> QED BY <2>1, <3>1, <3>2, <3>3 DEF NextWaitTimeKeepsWord, Table!IsAnswer
  <2>7. CASE ~ (first > now)
    <3>1. NextWaitTime = [ms |-> 0, id |-> Min(child)]
      BY <2>4, <2>7
    <3>2. first <= now
      BY <2>1, <2>5, <2>7
    <3> QED BY <2>1, <2>3, <3>1, <3>2 DEF NextWaitTimeKeepsWord, Table!IsAnswer
  <2> QED BY <2>6, <2>7
<1> QED BY <1>1, <1>2

(***************************************************************************)
(* NextWaitTime (ExpireMgr.h:68-104) always answers right: the coroutine   *)
(* it names is due and nobody was due earlier, and the time it returns     *)
(* ends at the earliest deadline.                                          *)
(***************************************************************************)
THEOREM NextWaitTimeCorrect == ExpireSpec => []NextWaitTimeKeepsWord
<1>1. ExpireInv => NextWaitTimeKeepsWord
  BY NextWaitTimeAnswers DEF ExpireInv
<1> QED BY ExpireInvariant, <1>1, PTL
-----------------------------------------------------------------------------
(***************************************************************************)
(* The pair of maps implements the plain timeout table of TimerTable: Set  *)
(* and Del change the deadline of the id they are given and no other.      *)
(***************************************************************************)
THEOREM ExpireRefinement == ExpireSpec => ImplementsTimerTable
<1>1. ExpireInit => Table!Init
  BY DEF ExpireInit, Table!Init, EmptyMap
<1>2. ExpireInv /\ [ExpireNext]_expireVars => [Table!Next]_(Table!tableVars)
  <2> SUFFICES ASSUME ExpireInv, [ExpireNext]_expireVars
               PROVE  [Table!Next]_(Table!tableVars)
    OBVIOUS
  <2> USE DEF ExpireInv, TimersTypeOK, IndexesAgree
  <2>1. ASSUME NEW id \in Ids, NEW ms \in Waits, Set(ms, id)
        PROVE  Table!Next
    <3>1. timers'.m_id_to_expire = MapPut(timers.m_id_to_expire, id, now + ms)
      BY <2>1, SetTimerKeeps, ExpireAssumption DEF Set
    <3>2. Table!Arm(id, ms)
      BY <2>1, <3>1 DEF Set, Table!Arm, MapPut
    <3> QED BY <3>2 DEF Table!Next
  <2>2. ASSUME NEW id \in Ids, Del(id)
        PROVE  Table!Next
    <3>1. timers'.m_id_to_expire = MapErase(timers.m_id_to_expire, id)
      BY <2>2, DelTimerEffect DEF Del
    <3>2. Table!Disarm(id)
      BY <2>2, <3>1 DEF Del, Table!Disarm, MapErase
    <3> QED BY <3>2 DEF Table!Next
  <2>3. CASE Tick \/ StepClock
    BY <2>3 DEF Tick, StepClock, Table!Next, Table!Clock
  <2>4. CASE UNCHANGED expireVars
    BY <2>4 DEF expireVars, Table!tableVars
  <2> QED BY <2>1, <2>2, <2>3, <2>4 DEF ExpireNext
<1> QED BY <1>1, <1>2, ExpireInvariant, PTL DEF ExpireSpec, ImplementsTimerTable, Table!Spec
=============================================================================
