----------------------------- MODULE ExpireMgr ------------------------------
(***************************************************************************)
(* CExpireMgr (lib/eventmgr/ExpireMgr.h): the timeouts of the coroutines,  *)
(* kept in two maps that must stay the inverse of each other:              *)
(*   m_expire_to_id   deadline -> the set of ids with that deadline        *)
(*   m_id_to_expire   id -> its deadline                                   *)
(* Both are std::map, so a key can be present with an empty set: the maps  *)
(* are partial functions and the presence of a key is part of the state.   *)
(* Deadlines are wall clock milliseconds (CTimerMS over gettimeofday).     *)
(***************************************************************************)
EXTENDS Integers, FiniteSetsExt, StdMap

CONSTANTS Ids,         \* coroutine ids that may be passed to Set and Del
          Waits,       \* the timeouts callers ask for, in ms
          IdleWait,    \* TIME_EXPIRE (util.h:24)
          MaxNow,      \* bound: the clock does not tick past this reading
          ClockSteps   \* readings an operator may set the wall clock to

\* 0 is the main coroutine, which never waits: NextWaitTime uses it for "none".
ASSUME ExpireAssumption ==
    /\ Ids \subseteq Nat \ {0}
    /\ Waits \subseteq Nat
    /\ IdleWait \in Nat \ {0}
    /\ MaxNow \in Nat
    /\ ClockSteps \subseteq Nat

VARIABLES timers,      \* [m_expire_to_id, m_id_to_expire]
          now          \* gettimeofday in ms

expireVars == <<timers, now>>

ExpireInit ==
    /\ timers = [m_expire_to_id |-> EmptyMap, m_id_to_expire |-> EmptyMap]
    /\ now = 0
-----------------------------------------------------------------------------
(* Del and Add as functions of the two maps, so that callers can chain them *)

\* The three lookups of Del all succeed.
Indexed(tm, id) ==
    /\ id \in DOMAIN tm.m_id_to_expire
    /\ tm.m_id_to_expire[id] \in DOMAIN tm.m_expire_to_id
    /\ id \in tm.m_expire_to_id[tm.m_id_to_expire[id]]

\* Mutant: a deadline whose last id goes keeps its empty set.
DelLeavesEmptyDeadline(tm, id) ==
    IF ~Indexed(tm, id) THEN tm
    ELSE LET e == tm.m_id_to_expire[id] IN
         [m_expire_to_id |-> MapPut(tm.m_expire_to_id, e, tm.m_expire_to_id[e] \ {id}),
          m_id_to_expire |-> MapErase(tm.m_id_to_expire, id)]

DelTimer(tm, id) ==
    IF ~Indexed(tm, id) THEN tm
    ELSE LET e    == tm.m_id_to_expire[id]
             rest == tm.m_expire_to_id[e] \ {id}
         IN  [m_expire_to_id |-> IF rest = {} THEN MapErase(tm.m_expire_to_id, e)
                                 ELSE MapPut(tm.m_expire_to_id, e, rest),
              m_id_to_expire |-> MapErase(tm.m_id_to_expire, id)]

AddTimer(tm, id, expire) ==
    LET same == IF expire \in DOMAIN tm.m_expire_to_id
                THEN tm.m_expire_to_id[expire] ELSE {}
    IN  [m_expire_to_id |-> MapPut(tm.m_expire_to_id, expire, same \cup {id}),
         m_id_to_expire |-> MapPut(tm.m_id_to_expire, id, expire)]

\* Mutants of SetTimer: the deadline is not made absolute; Del comes last.
SetRelative(tm, id, ms) == AddTimer(DelTimer(tm, id), id, ms)
SetDelLast(tm, id, ms)  == DelTimer(AddTimer(tm, id, now + ms), id)

SetTimer(tm, id, ms) == AddTimer(DelTimer(tm, id), id, now + ms)

(***************************************************************************)
(* NextWaitTime: the time to sleep, or the id of a coroutine that is due.  *)
(* begin() of the outer map is the earliest deadline, begin() of its set   *)
(* the smallest id; a due deadline with no child answers ms = 0, id = 0.   *)
(***************************************************************************)
\* Mutant: a deadline equal to the clock is not due yet.
NextWaitTimeStrict ==
    LET first == Min(DOMAIN timers.m_expire_to_id) IN
    CASE DOMAIN timers.m_expire_to_id = {} -> [ms |-> IdleWait, id |-> 0]
      [] OTHER -> IF first >= now THEN [ms |-> first - now, id |-> 0]
                  ELSE [ms |-> 0, id |-> Min(timers.m_expire_to_id[first])]

\* Mutant: of the ids with the same deadline the last is taken.
NextWaitTimeLast ==
    LET first == Min(DOMAIN timers.m_expire_to_id) IN
    CASE DOMAIN timers.m_expire_to_id = {} -> [ms |-> IdleWait, id |-> 0]
      [] OTHER -> IF first > now THEN [ms |-> first - now, id |-> 0]
                  ELSE [ms |-> 0, id |-> Max(timers.m_expire_to_id[first])]

NextWaitTime ==
    IF DOMAIN timers.m_expire_to_id = {} THEN [ms |-> IdleWait, id |-> 0]
    ELSE LET first == Min(DOMAIN timers.m_expire_to_id)
             child == timers.m_expire_to_id[first]
         IN  IF first > now THEN [ms |-> first - now, id |-> 0]
             ELSE [ms |-> 0, id |-> IF child = {} THEN 0 ELSE Min(child)]
-----------------------------------------------------------------------------
Set(ms, id) ==
    /\ timers' = SetTimer(timers, id, ms)
    /\ UNCHANGED now

Del(id) ==
    /\ timers' = DelTimer(timers, id)
    /\ UNCHANGED now

Tick ==
    /\ now < MaxNow
    /\ now' = now + 1
    /\ UNCHANGED timers

\* gettimeofday is the wall clock: ntp or an operator may move it either way.
StepClock ==
    /\ now' \in ClockSteps
    /\ UNCHANGED timers

ExpireNext ==
    \/ \E id \in Ids, ms \in Waits : Set(ms, id)
    \/ \E id \in Ids : Del(id)
    \/ Tick
    \/ StepClock

ExpireSpec == ExpireInit /\ [][ExpireNext]_expireVars
-----------------------------------------------------------------------------
IsIndex(tm) ==
    /\ tm = [m_expire_to_id |-> tm.m_expire_to_id, m_id_to_expire |-> tm.m_id_to_expire]
    /\ tm.m_expire_to_id \in [DOMAIN tm.m_expire_to_id -> SUBSET Ids]
    /\ DOMAIN tm.m_expire_to_id \subseteq Nat
    /\ tm.m_id_to_expire \in [DOMAIN tm.m_id_to_expire -> Nat]
    /\ DOMAIN tm.m_id_to_expire \subseteq Ids

TimersTypeOK == IsIndex(timers) /\ now \in Nat

\* The two maps describe the same timeouts and keep no empty deadline.
Agrees(tm) ==
    /\ \A id \in DOMAIN tm.m_id_to_expire : Indexed(tm, id)
    /\ \A e \in DOMAIN tm.m_expire_to_id :
          /\ tm.m_expire_to_id[e] # {}
          /\ \A id \in tm.m_expire_to_id[e] :
                /\ id \in DOMAIN tm.m_id_to_expire
                /\ tm.m_id_to_expire[id] = e

(***************************************************************************)
(* The two maps describe the same set of timeouts, and no deadline is kept *)
(* without a coroutine: the "is expired but no child" branch of            *)
(* NextWaitTime (ExpireMgr.h:91-95), which would make the event loop poll  *)
(* without ever sleeping, is never taken.                                  *)
(***************************************************************************)
IndexesAgree == Agrees(timers)

Table == INSTANCE TimerTable WITH deadline <- timers.m_id_to_expire

(***************************************************************************)
(* NextWaitTime keeps its word (ExpireMgr.h:68): it names a coroutine only *)
(* when that coroutine's deadline has passed and is the earliest, and      *)
(* otherwise returns exactly the time left to the earliest deadline, never *)
(* 0, so that epoll_wait neither oversleeps nor spins.                     *)
(***************************************************************************)
NextWaitTimeKeepsWord == Table!IsAnswer(NextWaitTime)

(***************************************************************************)
(* The two-map index implements the plain timeout table: Set is Arm, Del   *)
(* is Disarm, and no other owner's deadline is ever touched.               *)
(***************************************************************************)
ImplementsTimerTable == Table!Spec
=============================================================================
