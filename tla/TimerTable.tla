----------------------------- MODULE TimerTable -----------------------------
(***************************************************************************)
(* What a timeout table promises, with no index structure: every armed     *)
(* owner has one deadline, arming again replaces it, and the table can     *)
(* tell at any time how long the event loop may sleep or whose timeout has *)
(* already passed.  ExpireMgr implements this module.                      *)
(***************************************************************************)
EXTENDS Integers

CONSTANTS Ids,         \* owners of timeouts (coroutine ids)
          Waits,       \* timeouts an owner may ask for, in ms
          IdleWait,    \* how long the loop sleeps when nothing is armed
          MaxNow,      \* bound on the clock
          ClockSteps   \* readings the wall clock may be set to

VARIABLES deadline,    \* owner -> absolute ms; its domain is the armed owners
          now          \* the wall clock, in ms

tableVars == <<deadline, now>>

Init ==
    /\ deadline = [id \in {} |-> 0]
    /\ now = 0

Arm(id, ms) ==
    /\ deadline' = [x \in DOMAIN deadline \cup {id} |->
                       IF x = id THEN now + ms ELSE deadline[x]]
    /\ UNCHANGED now

Disarm(id) ==
    /\ deadline' = [x \in DOMAIN deadline \ {id} |-> deadline[x]]
    /\ UNCHANGED now

Clock ==
    /\ \/ now < MaxNow /\ now' = now + 1
       \/ now' \in ClockSteps
    /\ UNCHANGED deadline

Next ==
    \/ \E id \in Ids, ms \in Waits : Arm(id, ms)
    \/ \E id \in Ids : Disarm(id)
    \/ Clock

Spec == Init /\ [][Next]_tableVars

(***************************************************************************)
(* The answer r = [ms, id] is right: an id is named only if it is due and  *)
(* nobody was due before it; no id is named only if nobody is due, and     *)
(* then ms ends exactly at the earliest deadline.                          *)
(***************************************************************************)
IsAnswer(r) ==
    \/ /\ r.id \in DOMAIN deadline
       /\ deadline[r.id] <= now
       /\ \A x \in DOMAIN deadline : deadline[r.id] <= deadline[x]
    \/ /\ r.id = 0
       /\ r.ms = IdleWait
       /\ DOMAIN deadline = {}
    \/ /\ r.id = 0
       /\ r.ms > 0
       /\ \E x \in DOMAIN deadline : deadline[x] = now + r.ms
       /\ \A x \in DOMAIN deadline : deadline[x] >= now + r.ms
=============================================================================
