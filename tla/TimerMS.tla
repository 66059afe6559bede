------------------------------ MODULE TimerMS -------------------------------
(***************************************************************************)
(* CTimerMS (util.h:216) over gettimeofday, as a call to a back end uses   *)
(* it: tcpsendrecv starts one timer for the whole call, tcpconnect waits   *)
(* its full span, tcpsend asks IsTimeout and then both wait LeftTime.  The *)
(* waits go through CExpireMgr, whose clock is GetMs, and the time to the  *)
(* first deadline is what RunOnce gives to epoll_wait.                     *)
(***************************************************************************)
EXTENDS ExpireMgr

CONSTANTS Callers,     \* the coroutines that call back ends
          Spans,       \* the timeouts of calls, in ms
          MsPerSec,    \* 1000
          UsPerMs,     \* 1000
          Word,        \* 2^64, the range of the elapsed time
          IntRange     \* 2^32, the range of the int epoll_wait takes

\* Dates and timeouts are far below 2^64 ms, 580 million years.
ASSUME TimerAssumption ==
    /\ Callers \subseteq Ids
    /\ \A ms \in Spans : ms \in Nat /\ 0 .. ms \subseteq Waits
    /\ MsPerSec \in Nat \ {0} /\ UsPerMs \in Nat \ {0}
    /\ Word \in Nat \ {0}
    /\ IntRange \in Nat \ {0} /\ IntRange % 2 = 0
    /\ \A ms \in ClockSteps \cup {MaxNow}, span \in Spans : ms + span < Word

VARIABLES tv,          \* gettimeofday: seconds and microseconds
          calls        \* caller -> the CTimerMS of its call

timerVars == <<timers, now, tv, calls>>

Times == [tv_sec : Nat, tv_usec : 0 .. MsPerSec * UsPerMs - 1]

\* Microseconds as the wall clock shows them, and the time with so many.
Us(t)  == t.tv_sec * MsPerSec * UsPerMs + t.tv_usec
At(us) == [tv_sec  |-> us \div (MsPerSec * UsPerMs),
           tv_usec |-> us % (MsPerSec * UsPerMs)]

GetMs(t) == t.tv_sec * MsPerSec + t.tv_usec \div UsPerMs

\* Division of C, which drops the fraction on either side of 0.
CDiv(a, b) == IF a >= 0 THEN a \div b ELSE -((-a) \div b)

\* Mutant: the difference of the microseconds is taken without its sign.
ElapsedUnsigned(timer) ==
    ((tv.tv_sec - timer.m_start.tv_sec) * MsPerSec
       + CDiv((tv.tv_usec - timer.m_start.tv_usec) % Word, UsPerMs)) % Word

GetElapsedTime(timer) ==
    ((tv.tv_sec - timer.m_start.tv_sec) * MsPerSec
       + CDiv(tv.tv_usec - timer.m_start.tv_usec, UsPerMs)) % Word

IsTimeout(timer) == GetElapsedTime(timer) >= timer.m_expire

LeftTime(timer) ==
    IF timer.m_expire <= GetElapsedTime(timer) THEN 0
    ELSE timer.m_expire - GetElapsedTime(timer)

\* Mutant: the time passes through an integer of half the width.
EpollTimeoutNarrow(ms) ==
    ((ms + IntRange \div 4) % (IntRange \div 2)) - IntRange \div 4

\* The uint64_t handed to epoll_wait as an int; a negative one means for ever.
EpollTimeout(ms) == ((ms + IntRange \div 2) % IntRange) - IntRange \div 2
-----------------------------------------------------------------------------
Waiting(id) == id \in DOMAIN timers.m_id_to_expire

TimerInit == ExpireInit /\ tv = At(0) /\ calls = EmptyMap

\* Mutant: the span is taken for seconds.
CallBeginsInSeconds(id, ms) ==
    /\ id \notin DOMAIN calls /\ ~ Waiting(id)
    /\ calls' = MapPut(calls, id, [m_start |-> tv, m_expire |-> ms * MsPerSec])
    /\ Set(ms, id)
    /\ UNCHANGED tv

\* tcpsendrecv starts its timer and tcpconnect waits for the connect.
CallBegins(id, ms) ==
    /\ id \notin DOMAIN calls /\ ~ Waiting(id)
    /\ calls' = MapPut(calls, id, [m_start |-> tv, m_expire |-> ms])
    /\ Set(ms, id)
    /\ UNCHANGED tv

\* Mutant: the next wait of the call gets the full span again.
CallWaitsInFull(id) ==
    /\ id \in DOMAIN calls /\ ~ Waiting(id)
    /\ Set(calls[id].m_expire, id)
    /\ UNCHANGED <<tv, calls>>

\* tcpsend waits to send more, or tcpsendrecv for the answer.
CallWaitsOn(id) ==
    /\ id \in DOMAIN calls /\ ~ Waiting(id)
    /\ Set(LeftTime(calls[id]), id)
    /\ UNCHANGED <<tv, calls>>

\* It returns: with the answer, an error, or because tcpsend finds IsTimeout.
CallEnds(id) ==
    /\ id \in DOMAIN calls /\ ~ Waiting(id)
    /\ calls' = MapErase(calls, id)
    /\ UNCHANGED <<timers, now, tv>>

\* Another coroutine waits; a wake-up or a timeout ends a wait; a close drops it.
OtherWaits(id, ms) ==
    /\ id \notin DOMAIN calls
    /\ Set(ms, id)
    /\ UNCHANGED <<tv, calls>>

WaitEnds(id) == Del(id) /\ UNCHANGED <<tv, calls>>

ClockReads(us) == tv' = At(us) /\ now' = GetMs(At(us))

MicroTick ==
    /\ GetMs(At(Us(tv) + 1)) <= MaxNow
    /\ ClockReads(Us(tv) + 1)
    /\ UNCHANGED <<timers, calls>>

\* The wall clock is set, to anywhere within one of the steps' milliseconds.
SetClock ==
    /\ \E ms \in ClockSteps, us \in 0 .. UsPerMs - 1 : ClockReads(ms * UsPerMs + us)
    /\ UNCHANGED <<timers, calls>>

TimerNext ==
    \/ \E id \in Callers : \/ \E ms \in Spans : CallBegins(id, ms)
                           \/ CallWaitsOn(id) \/ CallEnds(id)
    \/ \E id \in Ids : WaitEnds(id) \/ \E ms \in Waits : OtherWaits(id, ms)
    \/ MicroTick \/ SetClock

TimerSpec == TimerInit /\ [][TimerNext]_timerVars
-----------------------------------------------------------------------------
(***************************************************************************)
(* GetMs is the clock of the timeouts, and a call's timer was started at a *)
(* time the clock has shown.                                               *)
(***************************************************************************)
TimerTypeOK ==
    /\ TimersTypeOK
    /\ tv \in Times
    /\ now = GetMs(tv)
    /\ calls \in [DOMAIN calls -> [m_start : Times, m_expire : Spans]]

(***************************************************************************)
(* A timer is right to less than 1 ms although whole milliseconds and the  *)
(* signed rest of the microseconds are added (util.h:238): it has run out  *)
(* when its span is over, and not before all of it but 1 ms is.  A clock   *)
(* set back behind the start does not make it wait any longer: it has run  *)
(* out at once, or (by less than 1 ms) has its whole span left.            *)
(***************************************************************************)
TimersTellTime ==
    \A id \in DOMAIN calls :
        LET timer == calls[id]
            ran   == Us(tv) - Us(timer.m_start)
        IN  IF ran >= 0
            THEN /\ IsTimeout(timer) => ran > (timer.m_expire - 1) * UsPerMs
                 /\ ~ IsTimeout(timer) => ran < timer.m_expire * UsPerMs
            ELSE \/ IsTimeout(timer)
                 \/ LeftTime(timer) = timer.m_expire /\ ran > -UsPerMs

(***************************************************************************)
(* The waits of one call do not add up (EventMgr.cpp:272 and 132): every   *)
(* wait after the first is over 1 ms after the span that began with the    *)
(* call, or at once, also if the clock was set in either direction.        *)
(***************************************************************************)
WaitsDoNotAddUp ==
    [][\A id \in DOMAIN calls :
          Waiting(id)' /\ ~ Waiting(id) =>
             \/ timers'.m_id_to_expire[id] <= GetMs(calls[id].m_start) + calls[id].m_expire + 1
             \/ timers'.m_id_to_expire[id] = now]_timerVars

(***************************************************************************)
(* RunOnce sleeps no longer than until any deadline, in particular never   *)
(* for ever, as long as that deadline is less than 2^31 ms ahead of the    *)
(* clock (EventMgr.h:218 narrows the time to an int).                      *)
(***************************************************************************)
SleepsUntilDeadline ==
    LET sleep == EpollTimeout(NextWaitTime.ms) IN
    NextWaitTime.id = 0 =>
        \A id \in DOMAIN timers.m_id_to_expire :
            LET ahead == timers.m_id_to_expire[id] - now IN
            ahead < IntRange \div 2 => sleep \in 1 .. ahead
=============================================================================
