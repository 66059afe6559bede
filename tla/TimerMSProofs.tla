--------------------------- MODULE TimerMSProofs ----------------------------
(***************************************************************************)
(* Proofs about TimerMS, for any clock and any timeouts far below 2^64 ms: *)
(* CTimerMS is right to less than a millisecond, the waits of one call do  *)
(* not add up, and epoll_wait does not sleep past a deadline.              *)
(***************************************************************************)
EXTENDS TimerMS, ExpireMgrProofs

(* Division of integers, and products that decide an order.                *)
LEMMA Divide ==
    ASSUME NEW a \in Int, NEW u \in Nat \ {0}
    PROVE  /\ a \div u \in Int /\ a % u \in 0 .. u - 1
           /\ a = (a \div u) * u + (a % u)
OBVIOUS

LEMMA FactorOrder ==
    ASSUME NEW x \in Int, NEW y \in Int, NEW u \in Nat \ {0}, x * u < (y + 1) * u
    PROVE  x <= y
OBVIOUS

LEMMA ProductOrder ==
    ASSUME NEW x \in Int, NEW y \in Int, NEW u \in Nat \ {0}, x <= y
    PROVE  x * u <= y * u
OBVIOUS

LEMMA ProductSums ==
    ASSUME NEW x \in Int, NEW y \in Int, NEW u \in Int
    PROVE  /\ (x + y) * u = x * u + y * u /\ (x - y) * u = x * u - y * u
           /\ (-x) * u = -(x * u)
OBVIOUS

LEMMA SameUnit ==
    ASSUME NEW x \in Int, NEW y \in Int, NEW u \in Nat \ {0}, NEW v \in Int,
           x * u <= v, v < (x + 1) * u, y * u <= v, v < (y + 1) * u
    PROVE  x = y
<1>1. x * u < (y + 1) * u /\ y * u < (x + 1) * u
  OBVIOUS
<1> QED BY <1>1, FactorOrder

(* Division of C cuts less than one unit off, towards 0.                   *)
LEMMA CDivBounds ==
    ASSUME NEW a \in Int, NEW u \in Nat \ {0}
    PROVE  /\ CDiv(a, u) \in Int
           /\ a >= 0 => CDiv(a, u) * u <= a /\ a < CDiv(a, u) * u + u /\ CDiv(a, u) >= 0
           /\ a < 0  => CDiv(a, u) * u >= a /\ a > CDiv(a, u) * u - u /\ CDiv(a, u) <= 0
<1>1. CASE a >= 0
  <2>1. CDiv(a, u) = a \div u
    BY <1>1 DEF CDiv
  <2>2. (a \div u) * u <= a /\ a < (a \div u) * u + u /\ a \div u \in Int
    BY Divide
  <2>3. 0 * u < (a \div u + 1) * u
    BY <1>1, <2>2
  <2>4. a \div u >= 0
    BY <2>2, <2>3, FactorOrder
  <2> QED BY <1>1, <2>1, <2>2, <2>4
<1>2. CASE a < 0
  <2> DEFINE b == -a
             q == b \div u
  <2>1. CDiv(a, u) = -q /\ b \in Int
    BY <1>2 DEF CDiv
  <2> HIDE DEF b
  <2>2. q \in Int /\ b % u \in 0 .. u - 1 /\ b = q * u + (b % u)
    BY <2>1, Divide
  <2> HIDE DEF q
  <2>3. q * u <= b /\ b < q * u + u
    BY <2>1, <2>2
  <2>4. b = -a
    BY DEF b
  <2>5. 0 * u < (q + 1) * u
    BY <1>2, <2>2, <2>3, <2>4
  <2>6. q >= 0
    BY <2>2, <2>5, FactorOrder
  <2>7. (-q) * u = -(q * u)
    BY <2>2, ProductSums
  <2> QED BY <1>2, <2>1, <2>2, <2>3, <2>4, <2>6, <2>7
<1> QED BY <1>1, <1>2

LEMMA DivideNat ==
    ASSUME NEW a \in Nat, NEW u \in Nat \ {0}
    PROVE  /\ a \div u \in Nat
           /\ (a \div u) * u <= a /\ a < (a \div u) * u + u
BY CDivBounds DEF CDiv

(* A remainder below the divisor, and the one C gives a negative number.   *)
LEMMA Wraps ==
    ASSUME NEW a \in Int, NEW u \in Nat \ {0}
    PROVE  /\ a \in 0 .. u - 1 => a % u = a
           /\ a \in -u .. -1 => a % u = a + u
<1> DEFINE q == a \div u
<1>1. q \in Int /\ a % u \in 0 .. u - 1 /\ a = q * u + (a % u)
  BY Divide
<1> HIDE DEF q
<1>2. ASSUME a \in 0 .. u - 1
      PROVE  a % u = a
  <2>1. 0 * u < (q + 1) * u /\ q * u < (0 + 1) * u
    BY <1>1, <1>2
  <2>2. q = 0
    BY <1>1, <2>1, FactorOrder
  <2> QED BY <1>1, <2>2
<1>3. ASSUME a \in -u .. -1
      PROVE  a % u = a + u
  <2>1. (-1) * u < (q + 1) * u /\ q * u < (-1 + 1) * u
    BY <1>1, <1>3
  <2>2. q = -1
    BY <1>1, <2>1, FactorOrder
  <2> QED BY <1>1, <2>2
<1> QED BY <1>2, <1>3
-----------------------------------------------------------------------------
(* The units are positive, and their products natural numbers.              *)
LEMMA Units == /\ MsPerSec \in Nat \ {0} /\ UsPerMs \in Nat \ {0}
               /\ MsPerSec * UsPerMs \in Nat \ {0}
BY TimerAssumption

LEMMA UnitProducts ==
    /\ \A s \in Int : s * MsPerSec \in Int /\ s * MsPerSec * UsPerMs \in Int
    /\ \A s \in Nat : s * MsPerSec \in Nat /\ s * MsPerSec * UsPerMs \in Nat
    /\ \A s \in Int : s * MsPerSec * UsPerMs = s * (MsPerSec * UsPerMs)
BY Units

(* GetMs drops less than a millisecond of the time.                        *)
LEMMA GetMsBounds ==
    ASSUME NEW t \in Times
    PROVE  /\ Us(t) \in Nat /\ GetMs(t) \in Nat
           /\ GetMs(t) * UsPerMs <= Us(t) /\ Us(t) < (GetMs(t) + 1) * UsPerMs
<1> DEFINE x == t.tv_sec * MsPerSec
           q == t.tv_usec \div UsPerMs
<1>1. t.tv_sec \in Nat /\ t.tv_usec \in Nat
  BY Units DEF Times
<1>2. x \in Nat /\ x * UsPerMs \in Nat
  BY <1>1, UnitProducts
<1>4. q \in Nat /\ q * UsPerMs <= t.tv_usec /\ t.tv_usec < q * UsPerMs + UsPerMs
  BY <1>1, Units, DivideNat
<1>5. Us(t) = x * UsPerMs + t.tv_usec /\ GetMs(t) = x + q
  BY DEF Us, GetMs
<1> HIDE DEF x, q
<1>6. /\ (x + q) * UsPerMs = x * UsPerMs + q * UsPerMs
      /\ (x + q + 1) * UsPerMs = (x + q) * UsPerMs + 1 * UsPerMs
  BY <1>2, <1>4, Units, ProductSums
<1> QED BY <1>1, <1>2, <1>4, <1>5, <1>6, Units

(* At is the time with that many microseconds.                             *)
LEMMA AtIsTime ==
    ASSUME NEW us \in Nat
    PROVE  At(us) \in Times /\ Us(At(us)) = us
<1> DEFINE p == MsPerSec * UsPerMs
           q == us \div p
<1>1. p \in Nat \ {0}
  BY Units
<1>3. At(us) = [tv_sec |-> q, tv_usec |-> us % p]
  BY DEF At
<1>4. q * MsPerSec * UsPerMs = q * p /\ q \in Nat
  <2> HIDE DEF p
  <2>1. q \in Nat
    BY <1>1, DivideNat
  <2> QED BY <2>1, UnitProducts DEF p
<1> HIDE DEF p
<1>5. us % p \in 0 .. p - 1 /\ us = q * p + (us % p)
  BY <1>1, Divide
<1> HIDE DEF q
<1> QED BY <1>3, <1>4, <1>5 DEF Times, Us, p

(* The millisecond a time falls in is the one GetMs gives.                 *)
LEMMA GetMsIs ==
    ASSUME NEW t \in Times, NEW ms \in Nat,
           ms * UsPerMs <= Us(t), Us(t) < (ms + 1) * UsPerMs
    PROVE  GetMs(t) = ms
<1> DEFINE g == GetMs(t)
           v == Us(t)
<1>1. v \in Nat /\ g \in Nat /\ g * UsPerMs <= v /\ v < (g + 1) * UsPerMs
  BY GetMsBounds
<1>2. ms * UsPerMs <= v /\ v < (ms + 1) * UsPerMs
  OBVIOUS
<1> HIDE DEF g, v
<1>3. UsPerMs \in Nat \ {0} /\ g \in Int /\ ms \in Int /\ v \in Int
  BY <1>1, Units
<1>4. g = ms
  BY <1>1, <1>2, <1>3, SameUnit, Zenon
<1> QED BY <1>4 DEF g

(* The whole milliseconds of a difference of microseconds.                 *)
LEMMA CDivDifference ==
    ASSUME NEW a \in Nat, NEW b \in Nat, NEW u \in Nat \ {0}, NEW c, c = CDiv(a - b, u)
    PROVE  /\ c \in Int /\ c * u - u < a - b /\ a - b < c * u + u
           /\ c <= a \div u /\ -c <= b \div u /\ (a \div u) - (b \div u) <= c + 1
<1> DEFINE qa == a \div u
           qb == b \div u
           e  == a - b
<1>1. /\ qa \in Nat /\ qa * u <= a /\ a < qa * u + u
      /\ qb \in Nat /\ qb * u <= b /\ b < qb * u + u
  BY DivideNat
<1>2. e \in Int /\ c = CDiv(e, u) /\ e = a - b
  OBVIOUS
<1> HIDE DEF qa, qb, e
<1>3. /\ c \in Int
      /\ e >= 0 => c * u <= e /\ e < c * u + u /\ c >= 0
      /\ e < 0  => c * u >= e /\ e > c * u - u /\ c <= 0
  BY <1>2, CDivBounds
<1>4. c * u - u < e /\ e < c * u + u
  BY <1>2, <1>3
<1>5. /\ (qa + 1) * u = qa * u + u /\ (qb + 1) * u = qb * u + u
      /\ (c + 1) * u = c * u + u /\ (-c) * u = -(c * u)
      /\ (qa - qb - 1) * u = qa * u - qb * u - u
      /\ (c + 1 - 1) * u = c * u
  BY <1>1, <1>3
<1>6. c <= qa
  <2>1. CASE e >= 0
    <3>1. c * u < (qa + 1) * u
      BY <1>1, <1>2, <1>3, <1>5, <2>1
    <3> QED BY <1>1, <1>3, <3>1, FactorOrder
  <2>2. CASE e < 0
    BY <1>1, <1>3, <2>2
  <2> QED BY <1>2, <2>1, <2>2
<1>7. -c <= qb
  <2>1. CASE e >= 0
    BY <1>1, <1>3, <2>1
  <2>2. CASE e < 0
    <3>1. (-c) * u < (qb + 1) * u
      BY <1>1, <1>2, <1>3, <1>5, <2>2
    <3> QED BY <1>1, <1>3, <3>1, FactorOrder
  <2> QED BY <1>2, <2>1, <2>2
<1>8. qa - qb <= c + 1
  <2>1. (qa - qb - 1) * u < (c + 1) * u
    <3>1. qa * u \in Int /\ qb * u \in Int /\ c * u \in Int
      BY <1>1, <1>3
    <3>2. qa * u - qb * u - u < c * u + u
      BY <1>1, <1>2, <1>4, <3>1
    <3> QED BY <3>2, <1>5
  <2>2. qa - qb - 1 <= c
    BY <1>1, <1>3, <2>1, FactorOrder
  <2> QED BY <1>1, <1>3, <2>2
<1> QED BY <1>2, <1>3, <1>4, <1>6, <1>7, <1>8 DEF qa, qb, e

(* What GetElapsedTime computes before it is made unsigned: it is less than *)
(* one millisecond away from the time between the two.                     *)
Span(s, t) == (t.tv_sec - s.tv_sec) * MsPerSec + CDiv(t.tv_usec - s.tv_usec, UsPerMs)

LEMMA SpanBounds ==
    ASSUME NEW s \in Times, NEW t \in Times
    PROVE  /\ Span(s, t) \in Int
           /\ Span(s, t) <= GetMs(t) /\ -Span(s, t) <= GetMs(s)
           /\ GetMs(t) - GetMs(s) <= Span(s, t) + 1
           /\ (Span(s, t) - 1) * UsPerMs < Us(t) - Us(s)
           /\ Us(t) - Us(s) < (Span(s, t) + 1) * UsPerMs
<1> DEFINE x == t.tv_sec * MsPerSec
           y == s.tv_sec * MsPerSec
           a == t.tv_usec
           b == s.tv_usec
           c == CDiv(a - b, UsPerMs)
           qa == a \div UsPerMs
           qb == b \div UsPerMs
           u == UsPerMs
<1>1. /\ t.tv_sec \in Nat /\ s.tv_sec \in Nat /\ a \in Nat /\ b \in Nat
      /\ UsPerMs \in Nat \ {0} /\ MsPerSec \in Nat
  BY Units DEF Times
<1>2. x \in Nat /\ y \in Nat /\ (t.tv_sec - s.tv_sec) * MsPerSec = x - y
  BY <1>1, UnitProducts, ProductSums
<1>3. /\ c \in Int /\ c * u - u < a - b /\ a - b < c * u + u
      /\ c <= qa /\ -c <= qb /\ qa - qb <= c + 1
  BY <1>1, CDivDifference
<1>4. qa \in Nat /\ qb \in Nat
  BY <1>1, DivideNat
<1>5. Span(s, t) = (t.tv_sec - s.tv_sec) * MsPerSec + c
  BY DEF Span
<1>6. /\ GetMs(t) = x + qa /\ GetMs(s) = y + qb
      /\ Us(t) = x * u + a /\ Us(s) = y * u + b
  BY DEF GetMs, Us
<1> HIDE DEF x, y, a, b, c, qa, qb
<1>7. Span(s, t) = x - y + c
  BY <1>2, <1>5
<1>8. /\ (x - y + c - 1) * u = x * u - y * u + c * u - u
      /\ (x - y + c + 1) * u = x * u - y * u + c * u + u
  BY <1>1, <1>2, <1>3
<1>9. x * u \in Int /\ y * u \in Int /\ c * u \in Int
  BY <1>1, <1>2, <1>3
<1> QED BY <1>1, <1>2, <1>3, <1>4, <1>6, <1>7, <1>8, <1>9
-----------------------------------------------------------------------------
(* A reading of the clock below which a call may have been started.        *)
Shown(ms) == ms \in Nat /\ \E r \in ClockSteps \cup {MaxNow} : ms <= r

CallsOK == /\ calls \in [DOMAIN calls -> [m_start : Times, m_expire : Spans]]
           /\ \A id \in DOMAIN calls : Shown(GetMs(calls[id].m_start))

ClockOK == tv \in Times /\ now = GetMs(tv) /\ Shown(now)

(* The indexes agree, the clock is the one of the timeouts, and no call was *)
(* started later than the clock can show, so that elapsed times, which are *)
(* unsigned, are told from those of a clock set back: this is inductive.   *)
TimerInv == ExpireInv /\ ClockOK /\ CallsOK

(* At the first reading nothing waits.                                     *)
LEMMA TimerInvInit == TimerInit => TimerInv
<1> SUFFICES ASSUME TimerInit
             PROVE  TimerInv
  OBVIOUS
<1>1. ExpireInv /\ now = 0 /\ tv = At(0)
  BY ExpireInvInit DEF TimerInit, ExpireInit
<1>2. At(0) \in Times /\ Us(At(0)) = 0
  BY AtIsTime
<1>3. GetMs(At(0)) = 0
  <2>1. 0 * UsPerMs <= 0 /\ 0 < (0 + 1) * UsPerMs
    BY Units
  <2> QED BY <1>2, <2>1, GetMsIs
<1>4. Shown(0)
  BY ExpireAssumption DEF Shown
<1>5. CallsOK
  BY DEF CallsOK, TimerInit, EmptyMap
<1> QED BY <1>1, <1>2, <1>3, <1>4, <1>5 DEF TimerInv, ClockOK

(* Set, of any timeout that is a natural number.                           *)
LEMMA SetKeeps ==
    ASSUME ExpireInv, NEW id \in Ids, NEW ms \in Nat, Set(ms, id)
    PROVE  /\ ExpireInv' /\ now' = now
           /\ timers'.m_id_to_expire = MapPut(timers.m_id_to_expire, id, now + ms)
<1>1. IsIndex(timers) /\ Agrees(timers) /\ now \in Nat
  BY DEF ExpireInv, TimersTypeOK, IndexesAgree
<1>2. timers' = SetTimer(timers, id, ms) /\ now' = now
  BY DEF Set
<1>3. /\ IsIndex(SetTimer(timers, id, ms)) /\ Agrees(SetTimer(timers, id, ms))
      /\ SetTimer(timers, id, ms).m_id_to_expire = MapPut(timers.m_id_to_expire, id, now + ms)
  BY <1>1, SetTimerKeeps
<1> QED BY <1>1, <1>2, <1>3 DEF ExpireInv, TimersTypeOK, IndexesAgree, IsIndex, Agrees, Indexed

(* Del of any coroutine.                                                   *)
LEMMA DelKeeps ==
    ASSUME ExpireInv, NEW id, Del(id)
    PROVE  /\ ExpireInv' /\ now' = now
           /\ timers'.m_id_to_expire = MapErase(timers.m_id_to_expire, id)
<1>1. IsIndex(timers) /\ Agrees(timers) /\ now \in Nat
  BY DEF ExpireInv, TimersTypeOK, IndexesAgree
<1>2. timers' = DelTimer(timers, id) /\ now' = now
  BY DEF Del
<1>3. /\ IsIndex(DelTimer(timers, id)) /\ Agrees(DelTimer(timers, id))
      /\ DelTimer(timers, id).m_id_to_expire = MapErase(timers.m_id_to_expire, id)
  BY <1>1, DelTimerType, DelTimerAgrees, DelTimerEffect
<1> QED BY <1>1, <1>2, <1>3 DEF ExpireInv, TimersTypeOK, IndexesAgree, IsIndex, Agrees, Indexed

(* What CTimerMS answers in a call: its span is over when the time since   *)
(* the start is, or when the clock was set back to before it.              *)
LEMMA CallTimer ==
    ASSUME ClockOK, CallsOK, NEW id \in DOMAIN calls,
           NEW timer, timer = calls[id], NEW d, d = Span(timer.m_start, tv)
    PROVE  /\ timer.m_start \in Times /\ d \in Int
           /\ timer.m_expire \in Spans /\ timer.m_expire \in Nat
           /\ IsTimeout(timer) <=> (d < 0 \/ d >= timer.m_expire)
           /\ LeftTime(timer) = IF d < 0 \/ d >= timer.m_expire THEN 0 ELSE timer.m_expire - d
<1> DEFINE w == GetElapsedTime(timer)
           s == timer.m_start
           m == timer.m_expire
<1>1. s \in Times /\ m \in Spans /\ tv \in Times /\ Shown(GetMs(s)) /\ Shown(GetMs(tv))
  BY DEF CallsOK, ClockOK
<1>2. m \in Nat /\ Word \in Nat \ {0}
  BY <1>1, TimerAssumption
<1>3. GetMs(s) + m < Word /\ GetMs(tv) < Word /\ GetMs(s) \in Nat /\ GetMs(tv) \in Nat
  <2>1. ASSUME NEW x, Shown(x)
        PROVE  x \in Nat /\ x + m < Word
    <3>1. PICK r \in ClockSteps \cup {MaxNow} : x <= r
      BY <2>1 DEF Shown
    <3>2. r + m < Word /\ r \in Nat /\ x \in Nat
      BY <1>1, <2>1, TimerAssumption, ExpireAssumption DEF Shown
    <3> QED BY <1>2, <3>1, <3>2
  <2> QED BY <1>1, <1>2, <2>1
<1>4. d \in Int /\ d <= GetMs(tv) /\ -d <= GetMs(s)
  BY <1>1, SpanBounds
<1>5. w = d % Word
  BY DEF GetElapsedTime, Span
<1> HIDE DEF w, s, m
<1>6. /\ d >= 0 => d \in 0 .. Word - 1
      /\ d < 0 => d \in -Word .. -1 /\ d + Word >= m
  BY <1>2, <1>3, <1>4
<1>7. /\ d >= 0 => w = d
      /\ d < 0 => w >= m
  BY <1>2, <1>4, <1>5, <1>6, Wraps
<1>8. (w >= m) <=> (d < 0 \/ d >= m)
  BY <1>2, <1>4, <1>7
<1>9. /\ IsTimeout(timer) <=> w >= m
      /\ LeftTime(timer) = IF m <= w THEN 0 ELSE m - w
  BY DEF IsTimeout, LeftTime, w, m
<1> QED BY <1>1, <1>2, <1>4, <1>7, <1>8, <1>9 DEF m, s

(* A call that starts its timer at the time it is.                         *)
LEMMA StartsKeep ==
    ASSUME ClockOK, CallsOK, NEW id, NEW ms \in Spans,
           calls' = MapPut(calls, id, [m_start |-> tv, m_expire |-> ms])
    PROVE  CallsOK'
<1>1. [m_start |-> tv, m_expire |-> ms] \in [m_start : Times, m_expire : Spans]
  BY DEF ClockOK
<1>2. Shown(GetMs(tv))
  BY DEF ClockOK
<1>3. calls' \in [DOMAIN calls' -> [m_start : Times, m_expire : Spans]]
  BY <1>1 DEF CallsOK, MapPut
<1>4. ASSUME NEW x \in DOMAIN calls'
      PROVE  Shown(GetMs(calls'[x].m_start))
  BY <1>2 DEF CallsOK, MapPut
<1> QED BY <1>3, <1>4 DEF CallsOK, Shown, GetMs

(* The millisecond stays, or the next one begins.                          *)
Ticks == \/ now' = now
         \/ now < MaxNow /\ now' = now + 1

(* The wall clock after a microsecond or after it was set.                 *)
LEMMA MicroTickReads ==
    ASSUME ClockOK, MicroTick
    PROVE  ClockOK' /\ Ticks
<1> DEFINE us == Us(tv) + 1
           t  == At(us)
<1>1. /\ Us(tv) \in Nat /\ now \in Nat
      /\ now * UsPerMs <= Us(tv) /\ Us(tv) < (now + 1) * UsPerMs
  BY GetMsBounds DEF ClockOK
<1>2. t \in Times /\ Us(t) = us /\ us = Us(tv) + 1 /\ us \in Nat
  BY <1>1, AtIsTime
<1>3. tv' = t /\ now' = GetMs(t) /\ GetMs(t) <= MaxNow
  BY DEF MicroTick, ClockReads
<1> HIDE DEF us, t
<1>4. GetMs(t) \in Nat /\ GetMs(t) * UsPerMs <= us /\ us < (GetMs(t) + 1) * UsPerMs
  BY <1>2, GetMsBounds
<1>5. GetMs(t) \in {now, now + 1}
  <2> DEFINE g == GetMs(t)
             v == Us(tv)
             u == UsPerMs
  <2>1. /\ g \in Nat /\ g * u <= v + 1 /\ v + 1 < (g + 1) * u /\ u \in Nat \ {0}
        /\ v \in Nat /\ now \in Nat /\ now * u <= v /\ v < (now + 1) * u
    BY <1>1, <1>2, <1>4, Units
  <2> HIDE DEF g, v, u
  <2>2. now * u < (g + 1) * u
    BY <2>1
  <2>3. (g - 1) * u = g * u - u /\ (now + 1) * u = now * u + u
    BY <2>1
  <2>4. (g - 1) * u < (now + 1) * u
    BY <2>1, <2>3
  <2>5. now <= g /\ g - 1 <= now
    BY <2>1, <2>2, <2>4, FactorOrder
  <2>6. g = now \/ g = now + 1
    BY <2>1, <2>5
  <2> QED BY <2>6 DEF g
<1>6. MaxNow \in Nat
  BY ExpireAssumption
<1>7. Shown(now')
  BY <1>3, <1>4, <1>6 DEF Shown
<1> QED BY <1>1, <1>2, <1>3, <1>5, <1>6, <1>7 DEF ClockOK, GetMs, Ticks

LEMMA SetClockReads ==
    ASSUME SetClock
    PROVE  ClockOK' /\ now' \in ClockSteps
<1>1. PICK ms \in ClockSteps, us \in 0 .. UsPerMs - 1 : ClockReads(ms * UsPerMs + us)
  BY DEF SetClock
<1> DEFINE v == ms * UsPerMs + us
           t == At(v)
<1>2. ms \in Nat /\ us \in Nat /\ us < UsPerMs /\ UsPerMs \in Nat
  BY ExpireAssumption, Units
<1>3. v \in Nat /\ ms * UsPerMs <= v /\ v < (ms + 1) * UsPerMs
  <2>1. ms * UsPerMs \in Nat /\ (ms + 1) * UsPerMs = ms * UsPerMs + UsPerMs
    BY <1>2
  <2> QED BY <1>2, <2>1
<1>4. tv' = t /\ now' = GetMs(t)
  BY <1>1 DEF ClockReads
<1> HIDE DEF v, t
<1>5. t \in Times /\ Us(t) = v
  BY <1>3, AtIsTime DEF t
<1>6. GetMs(t) = ms
  BY <1>2, <1>3, <1>5, GetMsIs
<1>7. Shown(now')
  BY <1>2, <1>4, <1>6 DEF Shown
<1> QED BY <1>4, <1>5, <1>6, <1>7 DEF ClockOK, GetMs

(* What a step does to the timeouts: it arms one coroutine's or drops it,  *)
(* or the clock moves, or nothing changes for the timeouts.                *)
Armed(id, ms) == /\ timers'.m_id_to_expire = MapPut(timers.m_id_to_expire, id, now + ms)
                 /\ now' = now

Disarmed(id) == /\ timers'.m_id_to_expire = MapErase(timers.m_id_to_expire, id)
                /\ now' = now

TableStep ==
    \/ \E id \in Ids, ms \in Waits : Armed(id, ms)
    \/ \E id \in Ids : Disarmed(id)
    \/ timers' = timers /\ Ticks
    \/ timers' = timers /\ now' \in ClockSteps

(* The actions of the module, each with its effect, keep the invariant.    *)
LEMMA TimerStep ==
    ASSUME TimerInv, TimerNext
    PROVE  TimerInv' /\ TableStep
<1> USE DEF TimerInv
<1>1. ASSUME tv' = tv, now' = now
      PROVE  ClockOK'
  BY <1>1 DEF ClockOK, Shown, GetMs
<1>2. ASSUME calls' = calls
      PROVE  CallsOK'
  BY <1>2 DEF CallsOK, Shown, GetMs
<1>3. ASSUME timers' = timers, now' \in Nat
      PROVE  ExpireInv'
  BY <1>3 DEF ExpireInv, TimersTypeOK, IndexesAgree, IsIndex, Agrees, Indexed
<1>4. Callers \subseteq Ids
  BY TimerAssumption
<1>5. ASSUME NEW id \in Callers, NEW ms \in Spans, CallBegins(id, ms)
      PROVE  TimerInv' /\ ms \in Waits /\ Armed(id, ms)
  <2>1. ms \in Nat /\ ms \in Waits /\ id \in Ids
    BY <1>4, TimerAssumption
  <2>2. Set(ms, id) /\ tv' = tv
    BY <1>5 DEF CallBegins
  <2>3. ExpireInv' /\ Armed(id, ms)
    BY <2>1, <2>2, SetKeeps DEF Armed
  <2>4. CallsOK'
    BY <1>5, StartsKeep DEF CallBegins
  <2> QED BY <1>1, <2>1, <2>2, <2>3, <2>4 DEF Armed
<1>6. ASSUME NEW id \in Callers, CallWaitsOn(id)
      PROVE  TimerInv' /\ \E ms \in Waits : Armed(id, ms)
  <2> DEFINE left == LeftTime(calls[id])
             timer == calls[id]
             d == Span(timer.m_start, tv)
  <2>1. Set(left, id) /\ tv' = tv /\ calls' = calls /\ id \in DOMAIN calls
    BY <1>6 DEF CallWaitsOn
  <2>2. left \in Waits /\ left \in Nat
    <3>1. /\ d \in Int /\ timer.m_expire \in Spans /\ timer.m_expire \in Nat
          /\ left = IF d < 0 \/ d >= timer.m_expire THEN 0 ELSE timer.m_expire - d
      BY <2>1, CallTimer
    <3>2. 0 .. timer.m_expire \subseteq Waits
      BY <3>1, TimerAssumption
    <3> HIDE DEF left, d, timer
    <3>3. left \in 0 .. timer.m_expire
      BY <3>1
    <3> QED BY <3>1, <3>2, <3>3
  <2> HIDE DEF left
  <2>3. ExpireInv' /\ Armed(id, left)
    BY <1>4, <2>1, <2>2, SetKeeps DEF Armed
  <2> QED BY <1>1, <1>2, <2>1, <2>2, <2>3 DEF Armed
<1>7. ASSUME NEW id \in Callers, CallEnds(id)
      PROVE  TimerInv' /\ timers' = timers /\ now' = now
  <2>1. /\ calls' = MapErase(calls, id) /\ timers' = timers /\ now' = now /\ tv' = tv
    BY <1>7 DEF CallEnds
  <2>2. CallsOK'
    BY <2>1 DEF CallsOK, MapErase, Shown, GetMs
  <2>3. ExpireInv'
    BY <1>3, <2>1 DEF ExpireInv, TimersTypeOK
  <2> QED BY <1>1, <2>1, <2>2, <2>3
<1>8. ASSUME NEW id \in Ids, WaitEnds(id)
      PROVE  TimerInv' /\ Disarmed(id)
  <2>1. Del(id) /\ tv' = tv /\ calls' = calls
    BY <1>8 DEF WaitEnds
  <2>2. ExpireInv' /\ Disarmed(id)
    BY <2>1, DelKeeps DEF Disarmed
  <2> QED BY <1>1, <1>2, <2>1, <2>2 DEF Disarmed
<1>9. ASSUME NEW id \in Ids, NEW ms \in Waits, OtherWaits(id, ms)
      PROVE  TimerInv' /\ Armed(id, ms)
  <2>1. Set(ms, id) /\ tv' = tv /\ calls' = calls /\ ms \in Nat
    BY <1>9, ExpireAssumption DEF OtherWaits
  <2>2. ExpireInv' /\ Armed(id, ms)
    BY <2>1, SetKeeps DEF Armed
  <2> QED BY <1>1, <1>2, <2>1, <2>2 DEF Armed
<1>10. ASSUME MicroTick
       PROVE  TimerInv' /\ timers' = timers /\ Ticks
  <2>1. timers' = timers /\ calls' = calls
    BY <1>10 DEF MicroTick
  <2>2. ClockOK' /\ Ticks
    BY <1>10, MicroTickReads
  <2> QED BY <1>2, <1>3, <2>1, <2>2 DEF ClockOK, Shown
<1>11. ASSUME SetClock
       PROVE  TimerInv' /\ timers' = timers /\ now' \in ClockSteps
  <2>1. timers' = timers /\ calls' = calls
    BY <1>11 DEF SetClock
  <2>2. ClockOK' /\ now' \in ClockSteps
    BY <1>11, SetClockReads
  <2> QED BY <1>2, <1>3, <2>1, <2>2 DEF ClockOK, Shown
<1>12. ASSUME NEW id \in Callers,
              \/ \E ms \in Spans : CallBegins(id, ms)
              \/ CallWaitsOn(id)
              \/ CallEnds(id)
       PROVE  TimerInv' /\ TableStep
  BY <1>4, <1>5, <1>6, <1>7, <1>12 DEF TableStep, Ticks
<1>13. ASSUME NEW id \in Ids,
              \/ WaitEnds(id)
              \/ \E ms \in Waits : OtherWaits(id, ms)
       PROVE  TimerInv' /\ TableStep
  BY <1>8, <1>9, <1>13 DEF TableStep
<1>14. CASE MicroTick \/ SetClock
  BY <1>10, <1>11, <1>14 DEF TableStep
<1> QED BY <1>12, <1>13, <1>14 DEF TimerNext
-----------------------------------------------------------------------------
(* The invariant holds in every reachable state.                           *)
THEOREM TimerInvariant == TimerSpec => []TimerInv
<1>1. TimerInv /\ UNCHANGED timerVars => TimerInv'
  BY DEF TimerInv, ExpireInv, TimersTypeOK, IndexesAgree, IsIndex, Agrees, Indexed,
         ClockOK, CallsOK, Shown, GetMs, timerVars
<1>2. TimerInv /\ [TimerNext]_timerVars => TimerInv'
  BY <1>1, TimerStep
<1> QED BY TimerInvInit, <1>2, PTL DEF TimerSpec

(***************************************************************************)
(* The clock of the timeouts is GetMs of a valid time, and the timer of    *)
(* every call in progress was started at one (util.h:216-268).             *)
(***************************************************************************)
THEOREM TimerTypeCorrect == TimerSpec => []TimerTypeOK
<1>1. TimerInv => TimerTypeOK
  BY DEF TimerInv, ExpireInv, ClockOK, CallsOK, TimerTypeOK
<1> QED BY TimerInvariant, <1>1, PTL

(***************************************************************************)
(* Also when the waits are those of back end calls and the clock counts    *)
(* microseconds, the two indexes of CExpireMgr agree and NextWaitTime      *)
(* answers right.                                                          *)
(***************************************************************************)
THEOREM CallsKeepIndexes == TimerSpec => [](IndexesAgree /\ NextWaitTimeKeepsWord)
<1>1. TimerInv => IndexesAgree /\ NextWaitTimeKeepsWord
  BY NextWaitTimeAnswers DEF TimerInv, ExpireInv
<1> QED BY TimerInvariant, <1>1, PTL

(***************************************************************************)
(* A timer is right to less than a millisecond, for any units, any span    *)
(* and any time the clock was set to: the division of a negative rest of   *)
(* microseconds (util.h:238) and the cast of a negative time to unsigned   *)
(* never end a call early by a millisecond or keep it past its span.       *)
(***************************************************************************)
THEOREM TimersAreRight == TimerSpec => []TimersTellTime
<1>1. ASSUME TimerInv, NEW id \in DOMAIN calls
      PROVE  LET timer == calls[id]
                 ran   == Us(tv) - Us(timer.m_start)
             IN  IF ran >= 0
                 THEN /\ IsTimeout(timer) => ran > (timer.m_expire - 1) * UsPerMs
                      /\ ~ IsTimeout(timer) => ran < timer.m_expire * UsPerMs
                 ELSE \/ IsTimeout(timer)
                      \/ LeftTime(timer) = timer.m_expire /\ ran > -UsPerMs
  <2> DEFINE timer == calls[id]
             ran   == Us(tv) - Us(timer.m_start)
             d     == Span(timer.m_start, tv)
             m     == timer.m_expire
             u     == UsPerMs
             out   == IsTimeout(timer)
             left  == LeftTime(timer)
  <2>1. /\ timer.m_start \in Times /\ tv \in Times /\ d \in Int /\ m \in Nat
        /\ out <=> (d < 0 \/ d >= m)
        /\ left = IF d < 0 \/ d >= m THEN 0 ELSE m - d
    BY <1>1, CallTimer DEF TimerInv, ClockOK
  <2>2. /\ ran \in Int /\ (d - 1) * u < ran /\ ran < (d + 1) * u
    BY <2>1, SpanBounds, GetMsBounds
  <2>3. u \in Nat \ {0}
    BY Units
  <2> HIDE DEF timer, ran, d, m, u, out, left
  <2>4. ASSUME ran >= 0
        PROVE  /\ out => ran > (m - 1) * u
               /\ ~ out => ran < m * u
    <3>1. 0 * u < (d + 1) * u
      BY <2>1, <2>2, <2>3, <2>4
    <3>2. d >= 0
      BY <2>1, <2>3, <3>1, FactorOrder
    <3>3. CASE out
      <4>1. (m - 1) * u <= (d - 1) * u
        BY <2>1, <2>3, <3>2, <3>3, ProductOrder
      <4>2. (m - 1) * u \in Int /\ (d - 1) * u \in Int
        BY <2>1, <2>3
      <4> QED BY <2>2, <3>3, <4>1, <4>2
    <3>4. CASE ~ out
      <4>1. (d + 1) * u <= m * u
        BY <2>1, <2>3, <3>2, <3>4, ProductOrder
      <4>2. m * u \in Int /\ (d + 1) * u \in Int
        BY <2>1, <2>3
      <4> QED BY <2>2, <3>4, <4>1, <4>2
    <3> QED BY <3>3, <3>4
  <2>5. ASSUME ran < 0
        PROVE  \/ out
               \/ left = m /\ ran > -u
    <3>1. (d - 1) * u < (-1 + 1) * u
      BY <2>1, <2>2, <2>3, <2>5
    <3>2. d <= 0
      BY <2>1, <2>3, <3>1, FactorOrder
    <3>3. CASE d = 0
      <4>1. (d - 1) * u = -u
        BY <2>3, <3>3
      <4> QED BY <2>1, <2>2, <2>3, <3>3, <4>1
    <3>4. CASE d < 0
      BY <2>1, <3>4
    <3> QED BY <2>1, <3>2, <3>3, <3>4
  <2>6. ran >= 0 \/ ran < 0
    BY <2>2
  <2>7. IF ran >= 0 THEN /\ out => ran > (m - 1) * u
                         /\ ~ out => ran < m * u
                    ELSE \/ out
                         \/ left = m /\ ran > -u
    BY <2>4, <2>5, <2>6
  <2> QED BY <2>7 DEF timer, ran, m, u, out, left
<1>2. TimerInv => TimersTellTime
  BY <1>1 DEF TimersTellTime
<1> QED BY TimerInvariant, <1>2, PTL
-----------------------------------------------------------------------------
(* The range of an int is twice that of its non-negative half.             *)
LEMMA HalfRange ==
    /\ IntRange \in Nat \ {0} /\ IntRange \div 2 \in Nat
    /\ IntRange = 2 * (IntRange \div 2)
<1>1. IntRange \in Nat \ {0} /\ IntRange % 2 = 0
  BY TimerAssumption
<1> DEFINE h == IntRange \div 2
<1>2. h \in Nat
  BY <1>1, DivideNat
<1>3. IntRange = h * 2 + (IntRange % 2)
  BY <1>1, Divide
<1> HIDE DEF h
<1>4. IntRange = 2 * h
  BY <1>1, <1>2, <1>3
<1> QED BY <1>1, <1>2, <1>4 DEF h

(* A time within that half passes through the int unchanged.               *)
LEMMA EpollTimeoutFits ==
    ASSUME NEW ms \in Nat, ms < IntRange \div 2
    PROVE  EpollTimeout(ms) = ms
<1> DEFINE h == IntRange \div 2
<1>1. IntRange \in Nat \ {0} /\ h \in Nat /\ IntRange = 2 * h
  BY HalfRange
<1>2. EpollTimeout(ms) = ((ms + h) % IntRange) - h
  BY DEF EpollTimeout
<1>3. ms < h
  OBVIOUS
<1> HIDE DEF h
<1> DEFINE x == ms + h
<1>4. x \in 0 .. IntRange - 1 /\ x \in Int
  BY <1>1, <1>3
<1> HIDE DEF x
<1>5. x % IntRange = x
  BY <1>1, <1>4, Wraps
<1>6. EpollTimeout(ms) = x - h
  BY <1>2, <1>5 DEF x
<1> QED BY <1>1, <1>6 DEF x

(* The time NextWaitTime gives the loop is a number of milliseconds.       *)
LEMMA NextWaitTimeIsNat ==
    ASSUME ExpireInv
    PROVE  NextWaitTime.ms \in Nat
<1>1. now \in Nat
  BY DEF ExpireInv, TimersTypeOK
<1>2. CASE DOMAIN timers.m_expire_to_id = {}
  <2>1. NextWaitTime = [ms |-> IdleWait, id |-> 0]
    BY <1>2 DEF NextWaitTime
  <2> QED BY <2>1, ExpireAssumption
<1>3. CASE DOMAIN timers.m_expire_to_id # {}
  <2> DEFINE first == Min(DOMAIN timers.m_expire_to_id)
             child == timers.m_expire_to_id[first]
  <2>1. first \in Nat
    BY <1>3, FirstDeadline DEF ExpireInv
  <2>2. NextWaitTime = IF first > now THEN [ms |-> first - now, id |-> 0]
                       ELSE [ms |-> 0, id |-> IF child = {} THEN 0 ELSE Min(child)]
    BY <1>3 DEF NextWaitTime
  <2> HIDE DEF first, child
  <2>3. CASE first > now
    BY <1>1, <2>1, <2>2, <2>3
  <2>4. CASE ~ (first > now)
    BY <2>2, <2>4
  <2> QED BY <2>3, <2>4
<1> QED BY <1>2, <1>3

(***************************************************************************)
(* epoll_wait is never given a time that the narrowing to int (EventMgr.h: *)
(* 218) made longer, shorter than 1 ms or negative, that is for ever.      *)
(***************************************************************************)
THEOREM LoopWakesForDeadlines == TimerSpec => []SleepsUntilDeadline
<1>1. ASSUME TimerInv, NextWaitTime.id = 0,
             NEW id \in DOMAIN timers.m_id_to_expire,
             timers.m_id_to_expire[id] - now < IntRange \div 2
      PROVE  EpollTimeout(NextWaitTime.ms) \in 1 .. timers.m_id_to_expire[id] - now
  <2> DEFINE ms == NextWaitTime.ms
             ahead == timers.m_id_to_expire[id] - now
  <2>1. /\ now \in Nat /\ timers.m_id_to_expire[id] \in Nat /\ ms \in Nat
        /\ 0 \notin DOMAIN timers.m_id_to_expire
    BY <1>1, NextWaitTimeIsNat, ExpireAssumption DEF TimerInv, ExpireInv, TimersTypeOK, IsIndex
  <2>2. Table!IsAnswer(NextWaitTime)
    BY <1>1, NextWaitTimeAnswers DEF TimerInv, ExpireInv, NextWaitTimeKeepsWord
  <2>3. ms > 0 /\ timers.m_id_to_expire[id] >= now + ms
    BY <1>1, <2>1, <2>2 DEF Table!IsAnswer
  <2>4. ms < IntRange \div 2
    BY <1>1, <2>1, <2>3, HalfRange
  <2>5. EpollTimeout(ms) = ms
    BY <2>1, <2>4, EpollTimeoutFits
  <2> QED BY <2>1, <2>3, <2>5
<1>2. TimerInv => SleepsUntilDeadline
  BY <1>1 DEF SleepsUntilDeadline
<1> QED BY TimerInvariant, <1>2, PTL
-----------------------------------------------------------------------------
(***************************************************************************)
(* However often tcpsend and tcpsendrecv wait again within one call, no    *)
(* wait ends later than the span of the call after its start (EventMgr.    *)
(* cpp:272 and 132), up to 1 ms, wherever the clock is set meanwhile.      *)
(***************************************************************************)
THEOREM CallsKeepTheirSpan == TimerSpec => WaitsDoNotAddUp
<1>1. ASSUME TimerInv, [TimerNext]_timerVars, NEW id \in DOMAIN calls,
             Waiting(id)', ~ Waiting(id)
      PROVE  \/ timers'.m_id_to_expire[id] <= GetMs(calls[id].m_start) + calls[id].m_expire + 1
             \/ timers'.m_id_to_expire[id] = now
  <2> DEFINE due == timers'.m_id_to_expire
  <2>1. ExpireInv /\ ClockOK /\ CallsOK /\ now \in Nat
    BY <1>1 DEF TimerInv, ExpireInv, TimersTypeOK
  <2>2. timers' # timers /\ id \in DOMAIN due
    BY <1>1 DEF Waiting
  <2>3. CallWaitsOn(id) /\ id \in Ids
    <3>1. ASSUME NEW x \in Ids, NEW ms \in Nat, Set(ms, x), x # id
          PROVE  FALSE
      <4>1. due = MapPut(timers.m_id_to_expire, x, now + ms)
        BY <2>1, <3>1, SetKeeps
      <4> QED BY <1>1, <2>2, <3>1, <4>1 DEF MapPut, Waiting
    <3>2. ASSUME NEW x \in Callers, NEW ms \in Spans, CallBegins(x, ms)
          PROVE  FALSE
      <4>1. x \in Ids /\ ms \in Nat /\ Set(ms, x) /\ x # id
        BY <3>2, TimerAssumption DEF CallBegins
      <4> QED BY <3>1, <4>1
    <3>3. ASSUME NEW x \in Callers, CallWaitsOn(x), x # id
          PROVE  FALSE
      <4> DEFINE left == LeftTime(calls[x])
                 timer == calls[x]
                 d == Span(timer.m_start, tv)
      <4>1. x \in Ids /\ Set(left, x) /\ x \in DOMAIN calls
        BY <3>3, TimerAssumption DEF CallWaitsOn
      <4>2. /\ d \in Int /\ timer.m_expire \in Nat
            /\ left = IF d < 0 \/ d >= timer.m_expire THEN 0 ELSE timer.m_expire - d
        BY <2>1, <4>1, CallTimer
      <4> HIDE DEF left, d, timer
      <4>3. left \in Nat
        BY <4>2
      <4> QED BY <3>1, <3>3, <4>1, <4>3
    <3>4. ASSUME NEW x \in Ids, NEW ms \in Waits, OtherWaits(x, ms)
          PROVE  FALSE
      <4>1. ms \in Nat /\ Set(ms, x) /\ x # id
        BY <3>4, ExpireAssumption DEF OtherWaits
      <4> QED BY <3>1, <4>1
    <3>5. ASSUME NEW x \in Ids, WaitEnds(x)
          PROVE  FALSE
      <4>1. due = MapErase(timers.m_id_to_expire, x)
        BY <2>1, <3>5, DelKeeps DEF WaitEnds
      <4> QED BY <1>1, <2>2, <4>1 DEF MapErase, Waiting
    <3>6. ASSUME timers' = timers
          PROVE  FALSE
      BY <2>2, <3>6
    <3>7. \E x \in Callers : CallWaitsOn(x)
      BY <1>1, <3>2, <3>4, <3>5, <3>6 DEF TimerNext, CallEnds, MicroTick, SetClock, timerVars
    <3> QED BY <3>3, <3>7, TimerAssumption
  <2> DEFINE timer == calls[id]
             d == Span(timer.m_start, tv)
             left == LeftTime(timer)
             start == GetMs(timer.m_start)
             m == timer.m_expire
  <2>4. Set(left, id)
    BY <2>3 DEF CallWaitsOn
  <2>5. /\ timer.m_start \in Times /\ tv \in Times /\ d \in Int /\ m \in Nat
        /\ left = IF d < 0 \/ d >= m THEN 0 ELSE m - d
    BY <2>1, CallTimer DEF ClockOK
  <2>6. now - start <= d + 1 /\ start \in Nat
    BY <2>5, SpanBounds, GetMsBounds, <2>1 DEF ClockOK
  <2> HIDE DEF timer, d, left, start, m
  <2>7. left \in Nat
    BY <2>5
  <2>8. due = MapPut(timers.m_id_to_expire, id, now + left)
    BY <2>1, <2>3, <2>4, <2>7, SetKeeps
  <2>9. due[id] = now + left
    BY <2>8 DEF MapPut
  <2>10. due[id] <= start + m + 1 \/ due[id] = now
    BY <2>1, <2>5, <2>6, <2>9
  <2> QED BY <2>10 DEF start, m, timer
<1>2. TimerInv /\ [TimerNext]_timerVars =>
         [\A id \in DOMAIN calls :
             Waiting(id)' /\ ~ Waiting(id) =>
                \/ timers'.m_id_to_expire[id] <= GetMs(calls[id].m_start) + calls[id].m_expire + 1
                \/ timers'.m_id_to_expire[id] = now]_timerVars
  BY <1>1
<1> QED BY TimerInvariant, <1>2, PTL DEF TimerSpec, WaitsDoNotAddUp

(***************************************************************************)
(* Timers counted in microseconds are a timeout table too: each wait of a  *)
(* call arms its own coroutine and touches no other's deadline.            *)
(***************************************************************************)
THEOREM CallsUseTimerTable == TimerSpec => ImplementsTimerTable
<1>1. TimerInit => Table!Init
  BY DEF TimerInit, ExpireInit, Table!Init, EmptyMap
<1>2. ASSUME TimerInv, [TimerNext]_timerVars
      PROVE  [Table!Next]_(Table!tableVars)
  <2>1. CASE UNCHANGED timerVars
    BY <2>1 DEF timerVars, Table!tableVars
  <2>2. CASE TimerNext
    <3>1. TableStep
      BY <1>2, <2>2, TimerStep
    <3>2. ASSUME NEW id \in Ids, NEW ms \in Waits, Armed(id, ms)
          PROVE  Table!Next
      <4>1. Table!Arm(id, ms)
        BY <3>2 DEF Armed, Table!Arm, MapPut
      <4> QED BY <4>1 DEF Table!Next
    <3>3. ASSUME NEW id \in Ids, Disarmed(id)
          PROVE  Table!Next
      <4>1. Table!Disarm(id)
        BY <3>3 DEF Disarmed, Table!Disarm, MapErase
      <4> QED BY <4>1 DEF Table!Next
    <3>4. CASE timers' = timers /\ Ticks
      BY <3>4 DEF Ticks, Table!Next, Table!Clock, Table!tableVars
    <3>5. CASE timers' = timers /\ now' \in ClockSteps
      BY <3>5 DEF Table!Next, Table!Clock
    <3> QED BY <3>1, <3>2, <3>3, <3>4, <3>5 DEF TableStep
  <2> QED BY <1>2, <2>1, <2>2
<1> QED BY <1>1, <1>2, TimerInvariant, PTL DEF TimerSpec, ImplementsTimerTable, Table!Spec
=============================================================================
