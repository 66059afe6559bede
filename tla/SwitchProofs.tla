---------------------------- MODULE SwitchProofs ----------------------------
(***************************************************************************)
(* Proofs about the context switch, for any number of coroutines and any   *)
(* sizes of stacks: where every instruction of switch.s finds rsp and what *)
(* it has saved and restored by then, hence that no step writes outside    *)
(* its coroutine's memory and that a coroutine finds its context again.    *)
(***************************************************************************)
EXTENDS Switch, SequenceTheorems, TLAPS

(* stRegister names seventeen registers, and OFFSET is its inverse.        *)
LEMMA RegistersDiffer ==
    \A i, j \in 1 .. 17 : stRegister[i] = stRegister[j] => i = j
BY DEF stRegister

LEMMA RegisterOffsets ==
    /\ Len(stRegister) = 17 /\ DOMAIN stRegister = 1 .. 17 /\ ContextSize = 19
    /\ \A i \in 1 .. 17 : stRegister[i] \in Registers /\ OFFSET[stRegister[i]] = i - 1
    /\ \A r \in Registers : OFFSET[r] \in 0 .. 16 /\ stRegister[OFFSET[r] + 1] = r
<1>1. Len(stRegister) = 17 /\ DOMAIN stRegister = 1 .. 17
  BY DEF stRegister
<1>2. ASSUME NEW i \in 1 .. 17
      PROVE  stRegister[i] \in Registers /\ OFFSET[stRegister[i]] = i - 1
  <2>1. stRegister[i] \in Registers
    BY <1>1 DEF Registers
  <2>2. (CHOOSE j \in DOMAIN stRegister : stRegister[j] = stRegister[i]) = i
    BY <1>1, RegistersDiffer
  <2> QED BY <2>1, <2>2 DEF OFFSET
<1>3. ASSUME NEW r \in Registers
      PROVE  OFFSET[r] \in 0 .. 16 /\ stRegister[OFFSET[r] + 1] = r
  <2>1. PICK i \in 1 .. 17 : r = stRegister[i]
    BY <1>1 DEF Registers
  <2> QED BY <1>2, <2>1
<1> QED BY <1>1, <1>2, <1>3 DEF ContextSize

LEMMA NamedRegisters ==
    /\ {"rax", "rsi", "rdi", "rbp", "rsp", "rip"} \subseteq Registers
    /\ OFFSET["rax"] = 0 /\ OFFSET["rsi"] = 4 /\ OFFSET["rdi"] = 5
    /\ OFFSET["rbp"] = 14 /\ OFFSET["rsp"] = 15 /\ OFFSET["rip"] = 16
    /\ \A r, s \in Registers : OFFSET[r] = OFFSET[s] => r = s
<1>1. /\ stRegister[1] = "rax" /\ stRegister[5] = "rsi" /\ stRegister[6] = "rdi"
      /\ stRegister[15] = "rbp" /\ stRegister[16] = "rsp" /\ stRegister[17] = "rip"
  BY DEF stRegister
<1>2. \A i \in 1 .. 17 : stRegister[i] \in Registers /\ OFFSET[stRegister[i]] = i - 1
  BY RegisterOffsets
<1>3. {1, 5, 6, 15, 16, 17} \subseteq 1 .. 17
  OBVIOUS
<1>4. \A r, s \in Registers : OFFSET[r] = OFFSET[s] => r = s
  BY RegisterOffsets
<1> HIDE DEF Registers
<1> QED BY <1>1, <1>2, <1>3, <1>4

(* Lists of any length, one behind the other.                              *)
IsList(s, n) == n \in Nat /\ s = [i \in 1 .. n |-> s[i]]

Joins(u, s, m, t, n) ==
    /\ IsList(u, m + n)
    /\ \A i \in 1 .. m : u[i] = s[i]
    /\ \A i \in m + 1 .. m + n : u[i] = t[i - m]

LEMMA ListsJoin ==
    ASSUME NEW m \in Nat, NEW n \in Nat, NEW s, IsList(s, m), NEW t, IsList(t, n)
    PROVE  Joins(s \o t, s, m, t, n)
<1> DEFINE S == {s[i] : i \in 1 .. m} \cup {t[i] : i \in 1 .. n}
<1>1. s \in Seq(S) /\ Len(s) = m
  BY DEF IsList
<1>2. t \in Seq(S) /\ Len(t) = n
  BY DEF IsList
<1> HIDE DEF S
<1>3. m \in Nat /\ n \in Nat
  BY DEF IsList
<1>4. /\ s \o t \in Seq(S) /\ Len(s \o t) = m + n
      /\ \A i \in 1 .. m + n : (s \o t)[i] = IF i <= m THEN s[i] ELSE t[i - m]
  BY <1>1, <1>2, ConcatProperties
<1>5. IsList(s \o t, m + n)
  BY <1>3, <1>4 DEF IsList
<1> QED BY <1>3, <1>4, <1>5 DEF Joins

(* The forty instructions.                                                 *)
LEMMA ProgramIs ==
    /\ DOMAIN Program = 1 .. 40
    /\ Program[1] = mov("rsp", "rax") /\ Program[2] = mov("rdi", "rsp")
    /\ Program[3] = add(17, "rsp")    /\ Program[4] = pushAt("rax")
    /\ Program[5] = add(1, "rax")     /\ Program[6] = push("rax")
    /\ \A k \in 7 .. 21 : Program[k] = push(stRegister[22 - k])
    /\ Program[22] = mov("rsi", "rsp")
    /\ \A k \in 23 .. 37 : Program[k] = pop(stRegister[k - 22])
    /\ Program[38] = load(1, "rsp", "rax") /\ Program[39] = pop("rsp")
    /\ Program[40] = jmp("rax")
<1> DEFINE s1 == <<mov("rsp", "rax"), mov("rdi", "rsp"), add(17, "rsp"), pushAt("rax"),
                   add(1, "rax")>>
           s2 == Each(push, Saved)
           s3 == <<mov("rsi", "rsp")>>
           s4 == Each(pop, Restored)
           s5 == <<load(1, "rsp", "rax"), pop("rsp"), jmp("rax")>>
<1>1. IsList(s1, 5) /\ IsList(s3, 1) /\ IsList(s5, 3)
  BY DEF IsList
<1>2. DOMAIN Saved = 1 .. 16 /\ DOMAIN Restored = 1 .. 15
  BY DEF Saved, Restored
<1>3. Saved[1] = "rax" /\ \A j \in 2 .. 16 : Saved[j] = stRegister[17 - j]
  BY DEF Saved, stRegister
<1>4. \A j \in 1 .. 15 : Restored[j] = stRegister[j]
  BY DEF Restored, stRegister
<1>5. IsList(s2, 16) /\ \A j \in 1 .. 16 : s2[j] = push(Saved[j])
  BY <1>2 DEF IsList, Each
<1>6. IsList(s4, 15) /\ \A j \in 1 .. 15 : s4[j] = pop(Restored[j])
  BY <1>2 DEF IsList, Each
<1>7. /\ s1[1] = mov("rsp", "rax") /\ s1[2] = mov("rdi", "rsp") /\ s1[3] = add(17, "rsp")
      /\ s1[4] = pushAt("rax") /\ s1[5] = add(1, "rax") /\ s3[1] = mov("rsi", "rsp")
      /\ s5[1] = load(1, "rsp", "rax") /\ s5[2] = pop("rsp") /\ s5[3] = jmp("rax")
  OBVIOUS
<1>8. Program = s1 \o s2 \o s3 \o s4 \o s5
  BY DEF Program
<1> HIDE DEF s1, s2, s3, s4, s5
<1> DEFINE t2 == s1 \o s2
           t3 == t2 \o s3
           t4 == t3 \o s4
<1>9. Joins(t2, s1, 5, s2, 16)
  BY <1>1, <1>5, ListsJoin
<1> HIDE DEF t2
<1>10. IsList(t2, 21) /\ Joins(t3, t2, 21, s3, 1)
  <2>1. IsList(t2, 21)
    BY <1>9 DEF Joins
  <2> QED BY <1>1, <2>1, ListsJoin
<1> HIDE DEF t3
<1>11. IsList(t3, 22) /\ Joins(t4, t3, 22, s4, 15)
  <2>1. IsList(t3, 22)
    BY <1>10 DEF Joins
  <2> QED BY <1>6, <2>1, ListsJoin
<1>12. Program = t4 \o s5
  BY <1>8 DEF t2, t3
<1> HIDE DEF t4
<1>13. IsList(t4, 37) /\ Joins(Program, t4, 37, s5, 3)
  <2>1. IsList(t4, 37)
    BY <1>11 DEF Joins
  <2> QED BY <1>1, <1>12, <2>1, ListsJoin
<1>14. /\ \A i \in 1 .. 5 : Program[i] = s1[i]
       /\ \A i \in 6 .. 21 : Program[i] = s2[i - 5]
       /\ Program[22] = s3[1]
       /\ \A i \in 23 .. 37 : Program[i] = s4[i - 22]
       /\ Program[38] = s5[1] /\ Program[39] = s5[2] /\ Program[40] = s5[3]
  BY <1>9, <1>10, <1>11, <1>13 DEF Joins
<1>15. Program[6] = push("rax") /\ \A k \in 7 .. 21 : Program[k] = push(stRegister[22 - k])
  <2>1. \A k \in 6 .. 21 : Program[k] = push(Saved[k - 5])
    BY <1>5, <1>14
  <2>2. \A k \in 7 .. 21 : Saved[k - 5] = stRegister[22 - k]
    <3> SUFFICES ASSUME NEW k \in 7 .. 21 PROVE Saved[k - 5] = stRegister[22 - k]
      OBVIOUS
    <3>1. k - 5 \in 2 .. 16 /\ 17 - (k - 5) = 22 - k
      OBVIOUS
    <3> QED BY <1>3, <3>1
  <2> QED BY <1>3, <2>1, <2>2
<1>16. \A k \in 23 .. 37 : Program[k] = pop(stRegister[k - 22])
  BY <1>4, <1>6, <1>14
<1>17. DOMAIN Program = 1 .. 40
  BY <1>13 DEF IsList, Joins
<1> QED BY <1>7, <1>14, <1>15, <1>16, <1>17
-----------------------------------------------------------------------------
(* The memory of a coroutine, and where rsp may be when its code runs.     *)
Home(c) == Area(c) \cup (IF c = Main THEN Thread ELSE {})
Room(c) == StackTop(c) - StackUse + 1 .. StackTop(c)

LEMMA Sizes ==
    /\ AreaSize \in Nat /\ AreaSize >= ContextSize + StackUse + ContextSize
    /\ AreaSize = g_stack_size + ContextSize
    /\ StackUse \in Nat \ {0} /\ ContextSize = 19 /\ g_stack_size \in Nat
    /\ Last \in Nat /\ Coroutines = 0 .. Last /\ Main = 0
BY RegisterOffsets, SwitchAssumption DEF AreaSize, Coroutines, Main

LEMMA Starts ==
    /\ Start(Main) = 0 /\ Start(Last + 1) \in Nat
    /\ \A c \in Coroutines : Start(c) \in Nat /\ Start(c) + AreaSize <= Start(Last + 1)
    /\ \A c, d \in Coroutines : c < d => Start(c) + AreaSize <= Start(d)
<1> DEFINE A == AreaSize
<1>1. A \in Nat /\ Last \in Nat /\ Coroutines = 0 .. Last /\ Main = 0
  BY Sizes
<1> HIDE DEF A
<1>2. \A x, y \in Nat : x < y => x * A + A <= y * A
  <2> SUFFICES ASSUME NEW x \in Nat, NEW y \in Nat, x < y PROVE x * A + A <= y * A
    OBVIOUS
  <2>1. PICK z \in Nat : y = x + 1 + z
    <3>1. y - x - 1 \in Nat /\ y = x + 1 + (y - x - 1)
      OBVIOUS
    <3> QED BY <3>1
  <2>2. y * A = x * A + A + z * A /\ z * A \in Nat /\ x * A \in Nat
    BY <1>1, <2>1
  <2> QED BY <1>1, <2>2
<1>3. \A x \in Nat : x * A \in Nat
  BY <1>1
<1>4. 0 * A = 0
  BY <1>1
<1>5. \A x : Start(x) = x * A
  BY DEF Start, A
<1> QED BY <1>1, <1>2, <1>3, <1>4, <1>5 DEF A

LEMMA HomesApart ==
    ASSUME NEW c \in Coroutines, NEW d \in Coroutines, c # d
    PROVE  Home(c) \cap Home(d) = {}
<1>1. /\ Start(c) \in Nat /\ Start(d) \in Nat /\ AreaSize \in Nat /\ Start(Last + 1) \in Nat
      /\ Start(c) + AreaSize <= Start(Last + 1) /\ Start(d) + AreaSize <= Start(Last + 1)
  BY Starts, Sizes
<1>2. c \in Int /\ d \in Int
  BY Sizes
<1>3. Start(c) + AreaSize <= Start(d) \/ Start(d) + AreaSize <= Start(c)
  BY <1>2, Starts
<1>4. Area(c) \cap Area(d) = {}
  BY <1>1, <1>3 DEF Area
<1>5. StackUse \in Nat
  BY Sizes
<1>6. Area(c) \cap Thread = {}
  BY <1>1, <1>5 DEF Area, Thread
<1>7. Area(d) \cap Thread = {}
  BY <1>1, <1>5 DEF Area, Thread
<1> QED BY <1>4, <1>6, <1>7 DEF Home

LEMMA HomesInMemory ==
    ASSUME NEW c \in Coroutines
    PROVE  /\ Home(c) \subseteq Addrs /\ Addrs \subseteq Nat
           /\ \A o \in 0 .. 18 : Start(c) + o \in Area(c) /\ Start(c) + o \in Home(c)
<1>1. /\ Start(c) \in Nat /\ AreaSize \in Nat /\ Start(Last + 1) \in Nat
      /\ Start(c) + AreaSize <= Start(Last + 1) /\ StackUse \in Nat \ {0}
      /\ AreaSize > 18
  BY Starts, Sizes
<1>2. Area(c) \subseteq Addrs
  BY <1>1 DEF Area, Addrs
<1>3. Thread \subseteq Addrs
  BY <1>1 DEF Thread, Addrs
<1>4. \A o \in 0 .. 18 : Start(c) + o \in Area(c)
  BY <1>1 DEF Area
<1>5. Addrs \subseteq Nat
  BY <1>1 DEF Addrs
<1>6. Home(c) \subseteq Area(c) \cup Thread /\ Area(c) \subseteq Home(c)
  BY DEF Home
<1> QED BY <1>2, <1>3, <1>4, <1>5, <1>6

LEMMA RoomsAtHome ==
    ASSUME NEW c \in Coroutines, NEW x \in Room(c)
    PROVE  /\ x \in Nat /\ x - 1 \in Home(c) /\ x - 1 >= Start(c) + 19
           /\ StackTop(c) \in Nat /\ StackTop(c) \in Room(c)
           /\ StackTop(c) - x \in 0 .. StackUse - 1
           /\ x .. StackTop(c) - 1 \subseteq Home(c)
           /\ x \in Addrs \cup {StackTop(Main)}
<1>1. /\ Start(c) \in Nat /\ AreaSize \in Nat /\ Start(Last + 1) \in Nat
      /\ Start(c) + AreaSize <= Start(Last + 1) /\ StackUse \in Nat \ {0}
      /\ AreaSize = g_stack_size + 19 /\ g_stack_size \in Nat
      /\ AreaSize >= 19 + StackUse + 19
  BY Starts, Sizes
<1>2. CASE c = Main
  <2>1. /\ StackTop(c) = Start(Last + 1) + StackUse /\ Home(c) = Area(c) \cup Thread
        /\ StackTop(Main) = StackTop(c)
    BY <1>2 DEF StackTop, Home
  <2>2. x \in Start(Last + 1) + 1 .. Start(Last + 1) + StackUse
    BY <1>1, <2>1 DEF Room
  <2> QED BY <1>1, <2>1, <2>2 DEF Thread, Room, Addrs
<1>3. CASE c # Main
  <2>1. StackTop(c) = Start(c) + g_stack_size /\ Home(c) = Area(c)
    BY <1>3 DEF StackTop, Home
  <2>2. x \in Start(c) + g_stack_size - StackUse + 1 .. Start(c) + g_stack_size
    BY <1>1, <2>1 DEF Room
  <2>3. /\ x \in Nat /\ x - 1 >= Start(c) + 19 /\ StackTop(c) \in Nat
        /\ StackTop(c) - x \in 0 .. StackUse - 1
    BY <1>1, <2>1, <2>2
  <2>4. StackTop(c) \in Room(c)
    BY <1>1, <2>1 DEF Room
  <2>5. x - 1 .. StackTop(c) \subseteq Area(c)
    <3> SUFFICES ASSUME NEW y \in x - 1 .. StackTop(c) PROVE y \in Area(c)
      OBVIOUS
    <3>1. y \in Int /\ x - 1 <= y /\ y <= Start(c) + g_stack_size
      BY <2>1, <2>3
    <3>2. Start(c) <= y /\ y <= Start(c) + AreaSize - 1
      BY <1>1, <2>3, <3>1
    <3> QED BY <1>1, <3>1, <3>2 DEF Area
  <2>6. x - 1 \in Area(c) /\ x .. StackTop(c) - 1 \subseteq Area(c) /\ x \in Area(c)
    BY <2>3, <2>5
  <2> QED BY <2>1, <2>3, <2>4, <2>6, HomesInMemory
<1> QED BY <1>2, <1>3
-----------------------------------------------------------------------------
(* What an instruction does to registers and memory.                       *)
HasPut(f, dst, w) ==
    /\ f \in [Registers -> Nat] /\ f[dst] = w /\ f["rip"] = regs["rip"] + 1
    /\ \A r \in Registers \ {dst, "rip"} : f[r] = regs[r]

LEMMA PutIs ==
    ASSUME regs \in [Registers -> Nat], NEW dst \in Registers \ {"rip"}, NEW w \in Nat
    PROVE  HasPut(Put(dst, w), dst, w)
<1>1. "rip" \in Registers
  BY NamedRegisters
<1>2. regs["rip"] + 1 \in Nat
  BY <1>1
<1> DEFINE f == [regs EXCEPT !["rip"] = regs["rip"] + 1]
<1>3. /\ f \in [Registers -> Nat] /\ f["rip"] = regs["rip"] + 1
      /\ \A r \in Registers \ {"rip"} : f[r] = regs[r]
  BY <1>1, <1>2
<1>4. Put(dst, w) = [f EXCEPT ![dst] = w]
  BY DEF Put
<1> HIDE DEF f
<1>5. /\ Put(dst, w) \in [Registers -> Nat]
      /\ Put(dst, w)[dst] = w /\ Put(dst, w)["rip"] = regs["rip"] + 1
      /\ \A r \in Registers \ {dst, "rip"} : Put(dst, w)[r] = regs[r]
  BY <1>1, <1>3, <1>4
<1> QED BY <1>5 DEF HasPut

LEMMA Executes ==
    ASSUME NEW r, NEW s, NEW n
    PROVE  /\ Execute(mov(r, s)) => regs' = Put(s, regs[r]) /\ mem' = mem
           /\ Execute(add(n, s)) => regs' = Put(s, regs[s] + n) /\ mem' = mem
           /\ Execute(load(n, r, s)) => regs' = Put(s, mem[regs[r] + n]) /\ mem' = mem
           /\ Execute(push(r)) => Push(regs[r])
           /\ Execute(pushAt(r)) => Push(mem[regs[r]])
           /\ Execute(pop(s)) =>
                 /\ regs' = [Put("rsp", regs.rsp + 1) EXCEPT ![s] = mem[regs.rsp]]
                 /\ mem' = mem
           /\ Execute(jmp(r)) => regs' = [regs EXCEPT !.rip = regs[r]] /\ mem' = mem
<1>1. Execute(mov(r, s)) => regs' = Put(s, regs[r]) /\ mem' = mem
  BY DEF Execute, mov
<1>2. Execute(add(n, s)) => regs' = Put(s, regs[s] + n) /\ mem' = mem
  BY DEF Execute, add
<1>3. Execute(load(n, r, s)) => regs' = Put(s, mem[regs[r] + n]) /\ mem' = mem
  BY DEF Execute, load
<1>4. Execute(push(r)) => Push(regs[r])
  BY DEF Execute, push
<1>5. Execute(pushAt(r)) => Push(mem[regs[r]])
  BY DEF Execute, pushAt
<1>6. Execute(pop(s)) => /\ regs' = [Put("rsp", regs.rsp + 1) EXCEPT ![s] = mem[regs.rsp]]
                         /\ mem' = mem
  BY DEF Execute, pop
<1>7. Execute(jmp(r)) => regs' = [regs EXCEPT !.rip = regs[r]] /\ mem' = mem
  BY DEF Execute, jmp
<1> QED BY <1>1, <1>2, <1>3, <1>4, <1>5, <1>6, <1>7
-----------------------------------------------------------------------------
(***************************************************************************)
(* The inductive invariant.  At is the instruction that comes next, Saves  *)
(* the registers that the one who leaves should find again.                *)
(*   BlocksOK     whoever does not run can be continued;                   *)
(*   RunsOK       code runs where code is, within its room on the stack;   *)
(*   CallOK       who leaves has its stack as it was, and says who is next;*)
(*   PointerOK    where each instruction of switch.s finds rsp;            *)
(*   SavesOK      what is in the registers and in the block on the way out;*)
(*   RestoresOK   what is back in the registers on the way in.             *)
(***************************************************************************)
At     == regs.rip - SwitchAt
Saves  == left.context.regs
Places == {EntryAt} \cup {CallAt(c) : c \in Coroutines}

BlocksOK ==
    /\ blocks[Main] = "live" /\ blocks[Owner] # "none" /\ blocks[m_active] # "none"
    /\ \A c \in Coroutines : blocks[c] # "none" /\ c # Owner =>
          Block(c)["rip"] \in Places /\ Block(c)["rsp"] \in Room(c)

RunsOK == ~ InSwitch => regs["rip"] \in Places /\ regs["rsp"] \in Room(m_active)

CallOK ==
    InSwitch =>
        /\ Saves \in [Kept -> Nat]
        /\ Saves["rip"] \in Places /\ Saves["rsp"] \in Room(left.by)
        /\ Saves["rdi"] = Start(left.by) /\ Saves["rsi"] = Start(m_active)
        /\ left.context =
              [regs  |-> Saves,
               stack |-> [i \in 1 .. StackTop(left.by) - Saves["rsp"] |->
                             mem[Saves["rsp"] + i - 1]]]

PointerOK ==
    InSwitch =>
        /\ At <= 2          => regs["rsp"] = Saves["rsp"] - 1
        /\ At = 3           => regs["rsp"] = Start(left.by)
        /\ At = 4           => regs["rsp"] = Start(left.by) + 17
        /\ At = 5           => regs["rsp"] = Start(left.by) + 16
        /\ At \in 6 .. 22   => regs["rsp"] = Start(left.by) + 22 - At
        /\ At \in 23 .. 38  => regs["rsp"] = Start(m_active) + At - 23
        /\ At = 39          => regs["rsp"] = Start(m_active) + 15
        /\ At = 40          => regs["rsp"] = Block(m_active)["rsp"]

General == Kept \ {"rsp", "rip"}

SavesOK ==
    InSwitch =>
        /\ At <= 22 => \A r \in General : regs[r] = Saves[r]
        /\ At \in 2 .. 5 => regs["rax"] = Saves["rsp"] - 1
        /\ At = 6 => regs["rax"] = Saves["rsp"]
        /\ At <= 4 => mem[Saves["rsp"] - 1] = Saves["rip"]
        /\ At = 5 => Block(left.by)["rip"] = Saves["rip"]
        /\ \A r \in Kept : OFFSET[r] + At >= 22 => Block(left.by)[r] = Saves[r]

RestoresOK ==
    InSwitch =>
        /\ \A r \in General : At >= OFFSET[r] + 24 => regs[r] = Block(m_active)[r]
        /\ At >= 39 => regs["rax"] = Block(m_active)["rip"]

SwitchInv == /\ SwitchTypeOK /\ BlocksOK /\ RunsOK
             /\ CallOK /\ PointerOK /\ SavesOK /\ RestoresOK
-----------------------------------------------------------------------------
(* What is known in the middle of a switch.                                *)
LEMMA InTheSwitch ==
    ASSUME SwitchInv, InSwitch
    PROVE  /\ At \in 1 .. 40 /\ regs["rip"] = 1000 + At
           /\ regs \in [Registers -> Nat] /\ mem \in [Addrs -> Nat]
           /\ left.by \in Coroutines /\ m_active \in Coroutines
           /\ Start(left.by) \in Nat /\ Start(m_active) \in Nat
           /\ Saves \in [Kept -> Nat] /\ Saves["rsp"] \in Nat
           /\ Saves["rsp"] - 1 \in Home(left.by) /\ Saves["rsp"] - 1 >= Start(left.by) + 19
           /\ Owner = left.by
<1>1. PICK k \in 1 .. 40 : regs["rip"] = 1000 + k
  BY ProgramIs DEF InSwitch, SwitchAt
<1>2. At = k
  BY <1>1 DEF At, SwitchAt
<1>3. /\ regs \in [Registers -> Nat] /\ mem \in [Addrs -> Nat]
      /\ left.by \in Coroutines /\ m_active \in Coroutines
  BY DEF SwitchInv, SwitchTypeOK
<1>4. Saves \in [Kept -> Nat] /\ Saves["rsp"] \in Room(left.by)
  BY DEF SwitchInv, CallOK
<1>5. Start(left.by) \in Nat /\ Start(m_active) \in Nat
  BY <1>3, Starts
<1>6. /\ Saves["rsp"] \in Nat /\ Saves["rsp"] - 1 \in Home(left.by)
      /\ Saves["rsp"] - 1 >= Start(left.by) + 19
  BY <1>3, <1>4, RoomsAtHome
<1>7. Owner = left.by
  BY DEF Owner
<1> QED BY <1>1, <1>2, <1>3, <1>4, <1>5, <1>6, <1>7

LEMMA BlockIs ==
    ASSUME NEW c
    PROVE  /\ \A r \in Registers : Block(c)[r] = mem[Start(c) + OFFSET[r]]
           /\ Block(c)' = [r \in Registers |-> mem'[Start(c) + OFFSET[r]]]
           /\ Block(c) = [r \in Registers |-> mem[Start(c) + OFFSET[r]]]
BY DEF Block

(* An instruction in the middle: nobody's memory but the block of the one  *)
(* that leaves is touched, so everything but registers stays right.        *)
Register(c) == Start(c) .. Start(c) + 16

Goes == /\ InSwitch' /\ At' = At + 1 /\ Owner' = Owner
        /\ SwitchTypeOK' /\ BlocksOK' /\ RunsOK' /\ CallOK'
        /\ UNCHANGED <<blocks, m_active, left>>
        /\ \A c \in Coroutines \ {left.by} : Block(c)' = Block(c)
        /\ \A a \in Addrs \ Home(left.by) : mem'[a] = mem[a]

LEMMA BlockOfOthers ==
    ASSUME NEW c \in Coroutines, NEW d \in Coroutines, c # d,
           \A a \in Addrs \ Home(c) : mem'[a] = mem[a]
    PROVE  /\ Block(d)' = Block(d)
           /\ \A a \in Home(d) : mem'[a] = mem[a]
<1>1. \A a \in Home(d) : mem'[a] = mem[a]
  BY HomesApart, HomesInMemory
<1>2. \A r \in Registers : Start(d) + OFFSET[r] \in Home(d)
  BY HomesInMemory, RegisterOffsets
<1>3. \A r \in Registers : mem'[Start(d) + OFFSET[r]] = mem[Start(d) + OFFSET[r]]
  BY <1>1, <1>2
<1> QED BY <1>1, <1>3, BlockIs

LEMMA InstructionGoes ==
    ASSUME SwitchInv, InSwitch, At # 40,
           regs' \in [Registers -> Nat], regs'["rip"] = regs["rip"] + 1,
           regs'["rsp"] \in Addrs \cup {StackTop(Main)}, mem' \in [Addrs -> Nat],
           \A a \in Addrs \ Register(left.by) : mem'[a] = mem[a],
           __SwitchCoroutine__
    PROVE  Goes
<1>1. /\ At \in 1 .. 39 /\ regs["rip"] = 1000 + At
      /\ left.by \in Coroutines /\ m_active \in Coroutines
      /\ Start(left.by) \in Nat /\ Owner = left.by
  BY InTheSwitch
<1>2. InSwitch' /\ At' = At + 1
  <2>1. At + 1 \in 1 .. 40 /\ regs'["rip"] = 1000 + (At + 1)
    BY <1>1
  <2>2. At' = At + 1
    BY <2>1 DEF At, SwitchAt
  <2> QED BY <2>1, <2>2, ProgramIs DEF InSwitch, SwitchAt
<1>3. UNCHANGED <<blocks, m_active, left>>
  BY <1>2 DEF __SwitchCoroutine__
<1>4. Owner' = Owner
  BY <1>1, <1>2, <1>3 DEF Owner
<1>5. SwitchTypeOK'
  BY <1>2, <1>3 DEF SwitchInv, SwitchTypeOK
<1>6. Register(left.by) \subseteq Home(left.by)
  <2>1. \A a \in Register(left.by) : /\ a - Start(left.by) \in 0 .. 18
                                     /\ a = Start(left.by) + (a - Start(left.by))
    BY <1>1 DEF Register
  <2> QED BY <1>1, <2>1, HomesInMemory
<1>7. \A c \in Coroutines \ {left.by} : Block(c)' = Block(c)
  BY <1>1, <1>6, BlockOfOthers
<1>8. BlocksOK'
  BY <1>1, <1>3, <1>4, <1>7 DEF SwitchInv, BlocksOK, Places
<1>9. RunsOK'
  BY <1>2 DEF RunsOK
<1>10. CallOK'
  <2>1. /\ Saves["rsp"] \in Room(left.by)
        /\ left.context = [regs  |-> Saves,
                           stack |-> [i \in 1 .. StackTop(left.by) - Saves["rsp"] |->
                                        mem[Saves["rsp"] + i - 1]]]
    BY DEF SwitchInv, CallOK
  <2> DEFINE x == Saves["rsp"]
             top == StackTop(left.by)
  <2>2. /\ x \in Nat /\ top \in Nat /\ x - 1 >= Start(left.by) + 19
        /\ x .. top - 1 \subseteq Home(left.by)
    BY <1>1, <2>1, RoomsAtHome
  <2>3. Home(left.by) \subseteq Addrs
    BY <1>1, HomesInMemory
  <2> HIDE DEF x, top
  <2>4. ASSUME NEW i \in 1 .. top - x
        PROVE  mem'[x + i - 1] = mem[x + i - 1]
    <3>1. x + i - 1 \in x .. top - 1 /\ x + i - 1 > Start(left.by) + 16
      BY <1>1, <2>2
    <3>2. x + i - 1 \notin Register(left.by)
      BY <1>1, <2>2, <3>1 DEF Register
    <3> QED BY <2>2, <2>3, <3>1, <3>2
  <2>5. [i \in 1 .. top - x |-> mem'[x + i - 1]] = [i \in 1 .. top - x |-> mem[x + i - 1]]
    BY <2>4
  <2>6. left'.context = [regs  |-> Saves,
                         stack |-> [i \in 1 .. StackTop(left.by) - Saves["rsp"] |->
                                        mem'[Saves["rsp"] + i - 1]]]
    BY <1>3, <2>1, <2>5 DEF x, top
  <2>7. Saves' = Saves
    BY <1>3 DEF Saves
  <2> QED BY <1>3, <2>6, <2>7 DEF SwitchInv, CallOK, Places
<1> QED BY <1>2, <1>3, <1>4, <1>5, <1>6, <1>7, <1>8, <1>9, <1>10 DEF Goes

(* An instruction that writes one register.                                *)
Writes(dst, w) ==
    /\ Goes /\ mem' = mem /\ regs'[dst] = w
    /\ \A r \in Registers \ {dst, "rip"} : regs'[r] = regs[r]
    /\ \A c \in Coroutines : Block(c)' = Block(c)

LEMMA RegisterStep ==
    ASSUME SwitchInv, InSwitch, At # 40, NEW dst \in Registers \ {"rip"}, NEW w \in Nat,
           regs' = Put(dst, w), mem' = mem, __SwitchCoroutine__,
           dst = "rsp" => w \in Addrs \cup {StackTop(Main)}
    PROVE  Writes(dst, w)
<1>1. regs \in [Registers -> Nat] /\ mem \in [Addrs -> Nat]
  BY InTheSwitch
<1>2. /\ regs' \in [Registers -> Nat] /\ regs'[dst] = w /\ regs'["rip"] = regs["rip"] + 1
      /\ \A r \in Registers \ {dst, "rip"} : regs'[r] = regs[r]
  BY <1>1, PutIs DEF HasPut
<1>3. regs'["rsp"] \in Addrs \cup {StackTop(Main)}
  <2>1. regs["rsp"] \in Addrs \cup {StackTop(Main)}
    BY DEF SwitchInv, SwitchTypeOK
  <2>2. "rsp" \in Registers \ {"rip"}
    BY NamedRegisters
  <2> QED BY <1>2, <2>1, <2>2
<1>4. Goes
  BY <1>1, <1>2, <1>3, InstructionGoes
<1>5. \A c \in Coroutines : Block(c)' = Block(c)
  BY BlockIs
<1> QED BY <1>2, <1>4, <1>5 DEF Writes

(* A push into the block of the one that leaves.                           *)
Pushes(o, w) ==
    /\ Goes /\ regs'["rsp"] = Start(left.by) + o
    /\ \A r \in Registers \ {"rsp", "rip"} : regs'[r] = regs[r]
    /\ \A r \in Registers :
          Block(left.by)'[r] = IF OFFSET[r] = o THEN w ELSE Block(left.by)[r]
    /\ \A a \in Addrs : a >= Start(left.by) + 17 => mem'[a] = mem[a]

LEMMA PushStep ==
    ASSUME SwitchInv, InSwitch, At # 40, NEW o \in 0 .. 16, NEW w \in Nat,
           regs["rsp"] = Start(left.by) + o + 1,
           Push(w), __SwitchCoroutine__
    PROVE  Pushes(o, w)
<1> DEFINE b == Start(left.by)
<1>1. /\ regs \in [Registers -> Nat] /\ mem \in [Addrs -> Nat] /\ left.by \in Coroutines
      /\ b \in Nat
  BY InTheSwitch
<1>2. regs["rsp"] - 1 = b + o /\ b + o \in Nat
  BY <1>1
<1>3. b + o \in Addrs
  <2>1. o \in 0 .. 18
    OBVIOUS
  <2> QED BY <1>1, <2>1, HomesInMemory
<1>4. mem' = [mem EXCEPT ![b + o] = w] /\ regs' = Put("rsp", b + o)
  BY <1>2 DEF Push
<1>5. /\ regs' \in [Registers -> Nat] /\ regs'["rsp"] = b + o /\ regs'["rip"] = regs["rip"] + 1
      /\ \A r \in Registers \ {"rsp", "rip"} : regs'[r] = regs[r]
  <2>1. "rsp" \in Registers \ {"rip"}
    BY NamedRegisters
  <2>2. HasPut(Put("rsp", b + o), "rsp", b + o)
    BY <1>1, <1>2, <2>1, PutIs
  <2> QED BY <1>4, <2>2 DEF HasPut
<1>6. /\ mem' \in [Addrs -> Nat]
      /\ \A a \in Addrs : mem'[a] = IF a = b + o THEN w ELSE mem[a]
  BY <1>1, <1>3, <1>4
<1>7. \A a \in Addrs \ Register(left.by) : mem'[a] = mem[a]
  <2>1. b + o \in Register(left.by)
    BY <1>1 DEF Register
  <2> QED BY <1>6, <2>1
<1>8. Goes
  BY <1>3, <1>5, <1>6, <1>7, InstructionGoes
<1>9. ASSUME NEW r \in Registers
      PROVE  Block(left.by)'[r] = IF OFFSET[r] = o THEN w ELSE Block(left.by)[r]
  <2>1. OFFSET[r] \in 0 .. 16
    BY RegisterOffsets
  <2>2. b + OFFSET[r] \in Addrs
    <3>1. OFFSET[r] \in 0 .. 18
      BY <2>1
    <3> QED BY <1>1, <3>1, HomesInMemory
  <2>3. b + OFFSET[r] = b + o <=> OFFSET[r] = o
    BY <1>1, <2>1
  <2>4. mem'[b + OFFSET[r]] = IF OFFSET[r] = o THEN w ELSE mem[b + OFFSET[r]]
    BY <1>6, <2>2, <2>3
  <2>5. Block(left.by)[r] = mem[b + OFFSET[r]]
    BY BlockIs
  <2>6. left' = left
    BY <1>8 DEF Goes
  <2>7. Block(left.by)'[r] = mem'[b + OFFSET[r]]
    BY <2>6 DEF Block
  <2> QED BY <2>4, <2>5, <2>7
<1>10. \A a \in Addrs : a >= b + 17 => mem'[a] = mem[a]
  <2>1. \A a \in Addrs : a >= b + 17 => a # b + o
    BY <1>1, <1>3, HomesInMemory
  <2> QED BY <1>6, <2>1
<1> QED BY <1>5, <1>8, <1>9, <1>10 DEF Pushes

(* A pop from the block of the one that is next.                           *)
Pops(s) ==
    /\ Goes /\ mem' = mem
    /\ regs'["rsp"] = regs["rsp"] + 1 /\ regs'[s] = Block(m_active)[s]
    /\ \A r \in Registers \ {s, "rsp", "rip"} : regs'[r] = regs[r]
    /\ \A c \in Coroutines : Block(c)' = Block(c)

LEMMA PopStep ==
    ASSUME SwitchInv, InSwitch, At # 40, NEW s \in Registers \ {"rsp", "rip"},
           regs["rsp"] = Start(m_active) + OFFSET[s],
           regs' = [Put("rsp", regs["rsp"] + 1) EXCEPT ![s] = mem[regs["rsp"]]], mem' = mem,
           __SwitchCoroutine__
    PROVE  Pops(s)
<1>1. /\ regs \in [Registers -> Nat] /\ mem \in [Addrs -> Nat] /\ m_active \in Coroutines
      /\ Start(m_active) \in Nat
  BY InTheSwitch
<1>2. OFFSET[s] \in 0 .. 16
  BY RegisterOffsets
<1> DEFINE p == Put("rsp", regs["rsp"] + 1)
<1>3. /\ p \in [Registers -> Nat] /\ p["rsp"] = regs["rsp"] + 1 /\ p["rip"] = regs["rip"] + 1
      /\ \A r \in Registers \ {"rsp", "rip"} : p[r] = regs[r]
  <2>1. "rsp" \in Registers \ {"rip"}
    BY NamedRegisters
  <2>2. regs["rsp"] + 1 \in Nat
    BY <1>1, <2>1
  <2>3. HasPut(p, "rsp", regs["rsp"] + 1)
    BY <1>1, <2>1, <2>2, PutIs
  <2> HIDE DEF p
  <2> QED BY <2>3 DEF HasPut
<1>4. mem[regs["rsp"]] = Block(m_active)[s] /\ Block(m_active)[s] \in Nat
  <2>1. Start(m_active) + OFFSET[s] \in Addrs
    <3>1. OFFSET[s] \in 0 .. 18
      BY <1>2
    <3> QED BY <1>1, <3>1, HomesInMemory
  <2> QED BY <1>1, <2>1, BlockIs
<1>5. regs' = [p EXCEPT ![s] = Block(m_active)[s]]
  BY <1>4
<1> HIDE DEF p
<1>6. /\ regs' \in [Registers -> Nat] /\ regs'["rsp"] = regs["rsp"] + 1
      /\ regs'["rip"] = regs["rip"] + 1 /\ regs'[s] = Block(m_active)[s]
      /\ \A r \in Registers \ {s, "rsp", "rip"} : regs'[r] = regs[r]
  <2>1. {"rsp", "rip"} \subseteq Registers
    BY NamedRegisters
  <2> QED BY <1>3, <1>4, <1>5, <2>1
<1>7. regs'["rsp"] \in Addrs \cup {StackTop(Main)}
  <2>1. regs["rsp"] + 1 = Start(m_active) + (OFFSET[s] + 1) /\ OFFSET[s] + 1 \in 0 .. 18
    BY <1>1, <1>2
  <2> QED BY <1>1, <1>6, <2>1, HomesInMemory
<1>8. Goes
  BY <1>1, <1>6, <1>7, InstructionGoes
<1>9. \A c \in Coroutines : Block(c)' = Block(c)
  BY BlockIs
<1> QED BY <1>6, <1>8, <1>9 DEF Pops

(* Once the block of the one that leaves is full, the next one's can be    *)
(* continued, also when they are the same.                                 *)
LEMMA NextBlock ==
    ASSUME SwitchInv, InSwitch, At >= 22
    PROVE  Block(m_active)["rip"] \in Places /\ Block(m_active)["rsp"] \in Room(m_active)
<1>1. At \in 1 .. 40 /\ m_active \in Coroutines /\ Owner = left.by
  BY InTheSwitch
<1>2. CASE m_active = left.by
  <2>1. "rip" \in Kept /\ "rsp" \in Kept /\ OFFSET["rip"] = 16 /\ OFFSET["rsp"] = 15
    BY NamedRegisters DEF Kept
  <2>2. 16 + At >= 22 /\ 15 + At >= 22
    BY <1>1
  <2>3. Block(left.by)["rip"] = Saves["rip"] /\ Block(left.by)["rsp"] = Saves["rsp"]
    BY <2>1, <2>2 DEF SwitchInv, SavesOK
  <2> QED BY <1>2, <2>3 DEF SwitchInv, CallOK
<1>3. CASE m_active # left.by
  BY <1>1, <1>3 DEF SwitchInv, BlocksOK
<1> QED BY <1>2, <1>3

LEMMA KeptRegisters ==
    /\ {"rax", "rsi", "rdi", "rsp"} \subseteq Registers \ {"rip"}
    /\ {"rsi", "rdi"} \subseteq General /\ General \subseteq Kept /\ "rax" \notin General
    /\ General \subseteq Registers \ {"rax", "rsp", "rip"}
    /\ "rsp" \in Kept /\ "rip" \in Kept /\ Kept \subseteq Registers
    /\ OFFSET["rsp"] = 15 /\ OFFSET["rip"] = 16
    /\ \A r \in Kept : OFFSET[r] \in 1 .. 16
    /\ \A r \in General : OFFSET[r] \in 1 .. 14
<1>1. {"rax", "rsi", "rdi", "rbp", "rsp", "rip"} \subseteq Registers
  BY NamedRegisters
<1>2. Kept = Registers \ {"rax"} /\ General = Kept \ {"rsp", "rip"}
  BY DEF Kept, General
<1>3. \A r \in Kept : OFFSET[r] \in 1 .. 16
  <2> SUFFICES ASSUME NEW r \in Kept PROVE OFFSET[r] \in 1 .. 16
    OBVIOUS
  <2>1. r \in Registers /\ r # "rax"
    BY <1>2
  <2>2. OFFSET[r] \in 0 .. 16 /\ OFFSET[r] # 0
    BY <1>1, <2>1, NamedRegisters, RegisterOffsets
  <2> QED BY <2>2
<1>4. \A r \in General : OFFSET[r] \in 1 .. 14
  <2> SUFFICES ASSUME NEW r \in General PROVE OFFSET[r] \in 1 .. 14
    OBVIOUS
  <2>1. r \in Kept /\ r \in Registers /\ r # "rsp" /\ r # "rip"
    BY <1>2
  <2>2. OFFSET[r] # 15 /\ OFFSET[r] # 16
    BY <1>1, <2>1, NamedRegisters
  <2> QED BY <1>3, <2>1, <2>2
<1> HIDE DEF Registers
<1> QED BY <1>1, <1>2, <1>3, <1>4, NamedRegisters

(* One instruction, and the parts of the invariant it disturbs.            *)
Proceeds == Goes /\ PointerOK' /\ SavesOK' /\ RestoresOK'

(* Whoever leaves lets rsp point behind the registers of its block.        *)
LEMMA LoadsBlock ==
    ASSUME SwitchInv, InSwitch, At \in 1 .. 3, __SwitchCoroutine__
    PROVE  Proceeds
<1>1. /\ At \in 1 .. 40 /\ regs \in [Registers -> Nat]
      /\ left.by \in Coroutines /\ Start(left.by) \in Nat /\ Saves["rsp"] \in Nat
      /\ Saves["rsp"] - 1 >= Start(left.by) + 19 /\ At # 40
  BY InTheSwitch
<1>2. Execute(Program[At])
  BY DEF __SwitchCoroutine__, At
<1>3. /\ \A r \in General : regs[r] = Saves[r]
      /\ At \in 2 .. 5 => regs["rax"] = Saves["rsp"] - 1
      /\ mem[Saves["rsp"] - 1] = Saves["rip"]
  BY DEF SwitchInv, SavesOK
<1>4. /\ At <= 2 => regs["rsp"] = Saves["rsp"] - 1
      /\ At = 3 => regs["rsp"] = Start(left.by)
  BY DEF SwitchInv, PointerOK
<1> DEFINE Still == /\ \A r \in General : regs'[r] = regs[r]
                    /\ regs'["rax"] = Saves["rsp"] - 1
                    /\ At = 1 => regs'["rsp"] = Saves["rsp"] - 1
                    /\ At = 2 => regs'["rsp"] = Start(left.by)
                    /\ At = 3 => regs'["rsp"] = Start(left.by) + 17
                    /\ Goes /\ mem' = mem
<1>5. Still
  <2>1. CASE At = 1
    <3>1. regs["rsp"] = Saves["rsp"] - 1 /\ regs["rsp"] \in Nat
      BY <1>1, <1>4, <2>1, KeptRegisters
    <3>2. regs' = Put("rax", regs["rsp"]) /\ mem' = mem
      BY <1>2, <2>1, ProgramIs, Executes
    <3>3. Writes("rax", regs["rsp"])
      BY <1>1, <3>1, <3>2, RegisterStep, KeptRegisters
    <3> QED BY <2>1, <3>1, <3>3, KeptRegisters DEF Writes
  <2>2. CASE At = 2
    <3>1. regs["rdi"] = Start(left.by)
      BY <1>3, KeptRegisters DEF SwitchInv, CallOK
    <3>2. regs' = Put("rsp", regs["rdi"]) /\ mem' = mem
      BY <1>2, <2>2, ProgramIs, Executes
    <3>3. Start(left.by) + 0 \in Addrs /\ Start(left.by) + 0 = Start(left.by)
      BY <1>1, HomesInMemory
    <3>4. Writes("rsp", Start(left.by))
      BY <1>1, <3>1, <3>2, <3>3, RegisterStep, KeptRegisters
    <3> QED BY <1>3, <2>2, <3>4, KeptRegisters DEF Writes
  <2>3. CASE At = 3
    <3>1. regs["rsp"] + 17 = Start(left.by) + 17
      BY <1>4, <2>3
    <3>2. Execute(add(17, "rsp"))
      BY <1>2, <2>3, ProgramIs
    <3>3. regs' = Put("rsp", regs["rsp"] + 17) /\ mem' = mem
      BY <3>2, Executes
    <3>4. regs["rsp"] + 17 \in Addrs /\ regs["rsp"] + 17 \in Nat
      BY <1>1, <3>1, HomesInMemory
    <3>5. Writes("rsp", regs["rsp"] + 17)
      BY <1>1, <3>3, <3>4, RegisterStep, KeptRegisters
    <3> QED BY <1>3, <2>3, <3>1, <3>5, KeptRegisters DEF Writes
  <2> QED BY <2>1, <2>2, <2>3
<1>6. /\ Goes /\ InSwitch' /\ At' = At + 1 /\ At' \in 2 .. 4
      /\ left' = left /\ Saves' = Saves /\ mem' = mem
  BY <1>5 DEF Goes, Saves
<1>7. PointerOK'
  BY <1>5, <1>6 DEF PointerOK
<1>8. SavesOK'
  BY <1>3, <1>5, <1>6, KeptRegisters DEF SavesOK
<1>9. RestoresOK'
  BY <1>6, KeptRegisters DEF RestoresOK
<1> QED BY <1>6, <1>7, <1>8, <1>9 DEF Proceeds

(* The return address and the rsp before the call go into the block.       *)
LEMMA SavesPlace ==
    ASSUME SwitchInv, InSwitch, At \in 4 .. 6, __SwitchCoroutine__
    PROVE  Proceeds
<1>1. /\ At \in 1 .. 40 /\ regs \in [Registers -> Nat]
      /\ left.by \in Coroutines /\ Start(left.by) \in Nat /\ Saves["rsp"] \in Nat
      /\ Saves \in [Kept -> Nat] /\ At # 40
  BY InTheSwitch
<1>2. Execute(Program[At])
  BY DEF __SwitchCoroutine__, At
<1>3. /\ \A r \in General : regs[r] = Saves[r]
      /\ At \in 2 .. 5 => regs["rax"] = Saves["rsp"] - 1
      /\ At = 6 => regs["rax"] = Saves["rsp"]
      /\ At = 4 => mem[Saves["rsp"] - 1] = Saves["rip"]
      /\ At = 5 => Block(left.by)["rip"] = Saves["rip"]
      /\ At = 6 => Block(left.by)["rip"] = Saves["rip"]
  BY KeptRegisters DEF SwitchInv, SavesOK
<1>4. /\ At = 4 => regs["rsp"] = Start(left.by) + 17
      /\ At = 5 => regs["rsp"] = Start(left.by) + 16
      /\ At = 6 => regs["rsp"] = Start(left.by) + 16
  BY DEF SwitchInv, PointerOK
<1> DEFINE Still == /\ \A r \in General : regs'[r] = regs[r]
                    /\ At = 4 => regs'["rax"] = Saves["rsp"] - 1
                    /\ At = 5 => regs'["rax"] = Saves["rsp"]
                    /\ At \in 4 .. 5 => regs'["rsp"] = Start(left.by) + 16
                    /\ At = 6 => /\ regs'["rsp"] = Start(left.by) + 15
                                 /\ Block(left.by)'["rsp"] = Saves["rsp"]
                    /\ Block(left.by)'["rip"] = Saves["rip"]
                    /\ Goes
<1>5. Still
  <2>1. CASE At = 4
    <3>1. Execute(pushAt("rax"))
      BY <1>2, <2>1, ProgramIs
    <3>2. mem[regs["rax"]] = Saves["rip"]
      BY <1>3, <2>1
    <3>3. Push(Saves["rip"])
      BY <3>1, <3>2, Executes
    <3>4. Saves["rip"] \in Nat /\ regs["rsp"] = Start(left.by) + 16 + 1 /\ 16 \in 0 .. 16
      BY <1>1, <1>4, <2>1, KeptRegisters
    <3>5. Pushes(16, Saves["rip"])
      BY <1>1, <3>3, <3>4, PushStep
    <3> QED BY <1>3, <2>1, <3>5, KeptRegisters DEF Pushes
  <2>2. CASE At = 5
    <3>1. regs["rax"] + 1 = Saves["rsp"]
      BY <1>1, <1>3, <2>2
    <3>2. regs' = Put("rax", Saves["rsp"]) /\ mem' = mem
      BY <1>2, <2>2, <3>1, ProgramIs, Executes
    <3>3. Writes("rax", Saves["rsp"])
      BY <1>1, <3>2, RegisterStep, KeptRegisters
    <3>4. Goes /\ left' = left /\ Block(left.by)' = Block(left.by)
      BY <1>1, <3>3 DEF Writes, Goes
    <3> QED BY <1>3, <1>4, <2>2, <3>3, <3>4, KeptRegisters DEF Writes
  <2>3. CASE At = 6
    <3>1. Push(Saves["rsp"])
      BY <1>2, <1>3, <2>3, ProgramIs, Executes
    <3>2. regs["rsp"] = Start(left.by) + 15 + 1 /\ 15 \in 0 .. 16
      BY <1>1, <1>4, <2>3
    <3>3. Pushes(15, Saves["rsp"])
      BY <1>1, <3>1, <3>2, PushStep
    <3> QED BY <1>3, <2>3, <3>3, KeptRegisters DEF Pushes
  <2> QED BY <2>1, <2>2, <2>3
<1>6. Goes /\ InSwitch' /\ At' = At + 1 /\ At' \in 5 .. 7 /\ left' = left /\ Saves' = Saves
  BY <1>5 DEF Goes, Saves
<1>7. PointerOK'
  BY <1>5, <1>6 DEF PointerOK
<1>8. SavesOK'
  <2>1. \A r \in Kept : OFFSET[r] + At' >= 22 => Block(left.by)'[r] = Saves[r]
    <3> SUFFICES ASSUME NEW r \in Kept, OFFSET[r] + At' >= 22
                 PROVE  Block(left.by)'[r] = Saves[r]
      OBVIOUS
    <3>1. OFFSET[r] \in 1 .. 16
      BY KeptRegisters
    <3>2. OFFSET[r] = 16 \/ (OFFSET[r] = 15 /\ At = 6)
      BY <1>6, <3>1
    <3>3. r = "rip" \/ (r = "rsp" /\ At = 6)
      BY <3>2, KeptRegisters, NamedRegisters
    <3> QED BY <1>5, <3>3
  <2> QED BY <1>3, <1>5, <1>6, <2>1, KeptRegisters DEF SavesOK
<1>9. RestoresOK'
  BY <1>6, KeptRegisters DEF RestoresOK
<1> QED BY <1>6, <1>7, <1>8, <1>9 DEF Proceeds

(* The registers go into the block, each where its offset says.            *)
LEMMA SavesRegisters ==
    ASSUME SwitchInv, InSwitch, At \in 7 .. 21, __SwitchCoroutine__
    PROVE  Proceeds
<1> DEFINE s == stRegister[22 - At]
<1>1. /\ At \in 1 .. 40 /\ regs \in [Registers -> Nat] /\ Start(left.by) \in Nat /\ At # 40
  BY InTheSwitch
<1>2. /\ 22 - At \in 1 .. 17 /\ s \in Registers /\ OFFSET[s] = 21 - At /\ OFFSET[s] \in 0 .. 14
      /\ s # "rsp" /\ s # "rip"
  BY <1>1, RegisterOffsets, NamedRegisters
<1>3. Push(regs[s])
  <2>1. Execute(push(s))
    BY <1>1, ProgramIs DEF __SwitchCoroutine__, At
  <2> QED BY <2>1, Executes
<1> HIDE DEF s
<1>4. Pushes(OFFSET[s], regs[s])
  <2>1. regs["rsp"] = Start(left.by) + 22 - At
    BY <1>1 DEF SwitchInv, PointerOK
  <2>2. regs["rsp"] = Start(left.by) + OFFSET[s] + 1 /\ OFFSET[s] \in 0 .. 16
    BY <1>1, <1>2, <2>1
  <2> QED BY <1>1, <1>2, <1>3, <2>2, PushStep
<1>5. Goes /\ InSwitch' /\ At' = At + 1 /\ At' \in 8 .. 22 /\ left' = left /\ Saves' = Saves
  BY <1>1, <1>4 DEF Pushes, Goes, Saves
<1>6. PointerOK'
  <2>1. regs'["rsp"] = Start(left.by) + 22 - At'
    BY <1>1, <1>2, <1>4, <1>5 DEF Pushes
  <2> QED BY <1>5, <2>1 DEF PointerOK
<1>7. \A r \in General : regs[r] = Saves[r]
  BY <1>1 DEF SwitchInv, SavesOK
<1>8. \A r \in General : regs'[r] = Saves[r]
  BY <1>4, <1>7, KeptRegisters DEF Pushes
<1>9. ASSUME NEW r \in Kept, OFFSET[r] + At' >= 22
      PROVE  Block(left.by)'[r] = Saves[r]
  <2>1. r \in Registers /\ OFFSET[r] \in 1 .. 16
    BY KeptRegisters
  <2>2. CASE r = s
    <3>1. s \in General
      BY <1>2, <2>2 DEF General
    <3> QED BY <1>4, <1>7, <2>1, <2>2, <3>1 DEF Pushes
  <2>3. CASE r # s
    <3>1. OFFSET[r] # OFFSET[s]
      BY <1>2, <2>1, <2>3, NamedRegisters
    <3>2. OFFSET[r] + At >= 22
      BY <1>1, <1>2, <1>5, <1>9, <2>1, <3>1
    <3>3. Block(left.by)[r] = Saves[r]
      BY <1>1, <3>2 DEF SwitchInv, SavesOK
    <3> QED BY <1>4, <2>1, <3>1, <3>3 DEF Pushes
  <2> QED BY <2>2, <2>3
<1>10. SavesOK'
  BY <1>5, <1>8, <1>9 DEF SavesOK
<1>11. RestoresOK'
  BY <1>5, KeptRegisters DEF RestoresOK
<1> QED BY <1>5, <1>6, <1>10, <1>11 DEF Proceeds

(* From the block of the one that leaves to that of the next.              *)
LEMMA TurnsToNext ==
    ASSUME SwitchInv, InSwitch, At = 22, __SwitchCoroutine__
    PROVE  Proceeds
<1>1. /\ regs \in [Registers -> Nat] /\ m_active \in Coroutines /\ left.by \in Coroutines
      /\ Start(m_active) \in Nat
  BY InTheSwitch
<1>2. \A r \in Kept : OFFSET[r] + At >= 22
  BY KeptRegisters
<1>3. /\ regs["rsi"] = Start(m_active)
      /\ \A r \in Kept : Block(left.by)[r] = Saves[r]
  BY <1>2, KeptRegisters DEF SwitchInv, SavesOK, CallOK
<1>4. regs' = Put("rsp", Start(m_active)) /\ mem' = mem
  <2>1. Execute(mov("rsi", "rsp"))
    BY ProgramIs DEF __SwitchCoroutine__, At
  <2> QED BY <1>3, <2>1, Executes
<1>5. Writes("rsp", Start(m_active))
  <2>1. Start(m_active) + 0 \in Addrs /\ Start(m_active) + 0 = Start(m_active)
    BY <1>1, HomesInMemory
  <2> QED BY <1>1, <1>4, <2>1, RegisterStep, KeptRegisters
<1>6. /\ Goes /\ InSwitch' /\ At' = 23 /\ left' = left /\ m_active' = m_active
      /\ Saves' = Saves /\ regs'["rsp"] = Start(m_active) + At' - 23
      /\ Block(left.by)' = Block(left.by)
  BY <1>1, <1>5 DEF Writes, Goes, Saves
<1>7. PointerOK'
  BY <1>6 DEF PointerOK
<1>8. SavesOK'
  BY <1>3, <1>6 DEF SavesOK
<1>9. RestoresOK'
  BY <1>6, KeptRegisters DEF RestoresOK
<1> QED BY <1>6, <1>7, <1>8, <1>9 DEF Proceeds

(* The registers come back, each from where its offset says.               *)
LEMMA RestoresRegisters ==
    ASSUME SwitchInv, InSwitch, At \in 23 .. 37, __SwitchCoroutine__
    PROVE  Proceeds
<1> DEFINE s == stRegister[At - 22]
<1>1. /\ At \in 1 .. 40 /\ regs \in [Registers -> Nat] /\ Start(m_active) \in Nat /\ At # 40
      /\ m_active \in Coroutines /\ left.by \in Coroutines
  BY InTheSwitch
<1>2. /\ At - 22 \in 1 .. 17 /\ s \in Registers /\ OFFSET[s] = At - 23 /\ OFFSET[s] \in 0 .. 14
      /\ s # "rsp" /\ s # "rip"
  BY <1>1, RegisterOffsets, NamedRegisters
<1>3. regs' = [Put("rsp", regs["rsp"] + 1) EXCEPT ![s] = mem[regs["rsp"]]] /\ mem' = mem
  <2>1. Execute(pop(s))
    BY <1>1, ProgramIs DEF __SwitchCoroutine__, At
  <2> QED BY <2>1, Executes
<1> HIDE DEF s
<1>4. regs["rsp"] = Start(m_active) + At - 23 /\ regs["rsp"] = Start(m_active) + OFFSET[s]
  BY <1>1, <1>2 DEF SwitchInv, PointerOK
<1>5. Pops(s)
  BY <1>1, <1>2, <1>3, <1>4, PopStep
<1>6. /\ Goes /\ InSwitch' /\ At' = At + 1 /\ At' \in 24 .. 38
      /\ left' = left /\ m_active' = m_active /\ Saves' = Saves
      /\ Block(left.by)' = Block(left.by) /\ Block(m_active)' = Block(m_active)
      /\ regs'["rsp"] = Start(m_active) + At' - 23
  BY <1>1, <1>4, <1>5 DEF Pops, Goes, Saves
<1>7. PointerOK'
  BY <1>6 DEF PointerOK
<1>8. SavesOK'
  <2>1. \A r \in Kept : Block(left.by)[r] = Saves[r]
    <3>1. \A r \in Kept : OFFSET[r] + At >= 22
      BY <1>1, KeptRegisters
    <3> QED BY <3>1 DEF SwitchInv, SavesOK
  <2> QED BY <1>6, <2>1 DEF SavesOK
<1>9. ASSUME NEW r \in General, At' >= OFFSET[r] + 24
      PROVE  regs'[r] = Block(m_active)'[r]
  <2>1. r \in Registers \ {"rsp", "rip"} /\ OFFSET[r] \in 1 .. 14
    BY KeptRegisters
  <2>2. CASE r = s
    BY <1>5, <1>6, <2>2 DEF Pops
  <2>3. CASE r # s
    <3>1. OFFSET[r] # OFFSET[s]
      BY <1>2, <2>1, <2>3, NamedRegisters
    <3>2. At >= OFFSET[r] + 24
      BY <1>1, <1>2, <1>6, <1>9, <2>1, <3>1
    <3>3. regs[r] = Block(m_active)[r]
      BY <3>2 DEF SwitchInv, RestoresOK
    <3> QED BY <1>5, <1>6, <2>1, <2>3, <3>3 DEF Pops
  <2> QED BY <2>2, <2>3
<1>10. RestoresOK'
  BY <1>6, <1>9 DEF RestoresOK
<1> QED BY <1>6, <1>7, <1>8, <1>10 DEF Proceeds

(* Where to go on and rsp come back last.                                  *)
LEMMA RestoresPlace ==
    ASSUME SwitchInv, InSwitch, At \in 38 .. 39, __SwitchCoroutine__
    PROVE  Proceeds
<1>1. /\ At \in 1 .. 40 /\ regs \in [Registers -> Nat] /\ mem \in [Addrs -> Nat]
      /\ Start(m_active) \in Nat /\ m_active \in Coroutines /\ left.by \in Coroutines /\ At # 40
  BY InTheSwitch
<1>2. Execute(Program[At])
  BY DEF __SwitchCoroutine__, At
<1>3. \A o \in 0 .. 18 : Start(m_active) + o \in Addrs
  BY <1>1, HomesInMemory
<1>4. regs["rsp"] = Start(m_active) + 15
  BY <1>1 DEF SwitchInv, PointerOK
<1>5. /\ Block(m_active)["rip"] = mem[Start(m_active) + 16]
      /\ Block(m_active)["rsp"] = mem[Start(m_active) + 15]
  BY BlockIs, NamedRegisters
<1>6. \A r \in General : regs[r] = Block(m_active)[r]
  <2>1. \A r \in General : At >= OFFSET[r] + 24
    BY <1>1, KeptRegisters
  <2> QED BY <2>1 DEF SwitchInv, RestoresOK
<1> DEFINE Still == /\ \A r \in General : regs'[r] = regs[r]
                    /\ regs'["rax"] = Block(m_active)["rip"]
                    /\ At = 38 => regs'["rsp"] = Start(m_active) + 15
                    /\ At = 39 => regs'["rsp"] = Block(m_active)["rsp"]
                    /\ Goes /\ \A c \in Coroutines : Block(c)' = Block(c)
<1>7. Still
  <2>1. CASE At = 38
    <3>1. Execute(load(1, "rsp", "rax"))
      BY <1>2, <2>1, ProgramIs
    <3>2. regs["rsp"] + 1 = Start(m_active) + 16 /\ Start(m_active) + 16 \in Addrs
      BY <1>1, <1>3, <1>4
    <3>3. mem[regs["rsp"] + 1] = Block(m_active)["rip"] /\ Block(m_active)["rip"] \in Nat
      BY <1>1, <1>5, <3>2
    <3>4. regs' = Put("rax", Block(m_active)["rip"]) /\ mem' = mem
      BY <3>1, <3>3, Executes
    <3>5. Writes("rax", Block(m_active)["rip"])
      BY <1>1, <3>3, <3>4, RegisterStep, KeptRegisters
    <3> QED BY <1>4, <2>1, <3>5, KeptRegisters DEF Writes
  <2>2. CASE At = 39
    <3>1. Execute(pop("rsp"))
      BY <1>2, <2>2, ProgramIs
    <3>2. Block(m_active)["rsp"] \in Room(m_active)
      BY <1>1, NextBlock
    <3>3. /\ Block(m_active)["rsp"] \in Nat
          /\ Block(m_active)["rsp"] \in Addrs \cup {StackTop(Main)}
      BY <1>1, <3>2, RoomsAtHome
    <3>4. mem[regs["rsp"]] = Block(m_active)["rsp"]
      BY <1>4, <1>5
    <3>5. /\ regs' = [Put("rsp", regs["rsp"] + 1) EXCEPT !["rsp"] = Block(m_active)["rsp"]]
          /\ mem' = mem
      BY <3>1, <3>4, Executes
    <3>6. regs' = Put("rsp", Block(m_active)["rsp"])
      BY <3>5 DEF Put
    <3>7. Writes("rsp", Block(m_active)["rsp"])
      BY <1>1, <3>3, <3>5, <3>6, RegisterStep, KeptRegisters
    <3>8. regs["rax"] = Block(m_active)["rip"]
      BY <2>2 DEF SwitchInv, RestoresOK
    <3> QED BY <2>2, <3>7, <3>8, KeptRegisters DEF Writes
  <2> QED BY <1>1, <2>1, <2>2
<1>8. /\ Goes /\ InSwitch' /\ At' = At + 1 /\ At' \in 39 .. 40
      /\ left' = left /\ m_active' = m_active /\ Saves' = Saves
      /\ Block(left.by)' = Block(left.by) /\ Block(m_active)' = Block(m_active)
  BY <1>1, <1>7 DEF Goes, Saves
<1>9. PointerOK'
  BY <1>7, <1>8 DEF PointerOK
<1>10. SavesOK'
  <2>1. \A r \in Kept : Block(left.by)[r] = Saves[r]
    <3>1. \A r \in Kept : OFFSET[r] + At >= 22
      BY <1>1, KeptRegisters
    <3> QED BY <3>1 DEF SwitchInv, SavesOK
  <2> QED BY <1>8, <2>1 DEF SavesOK
<1>11. RestoresOK'
  BY <1>6, <1>7, <1>8 DEF RestoresOK
<1> QED BY <1>8, <1>9, <1>10, <1>11 DEF Proceeds

LEMMA EveryInstruction ==
    ASSUME SwitchInv, InSwitch, At # 40, __SwitchCoroutine__
    PROVE  Goes /\ SwitchInv'
<1>1. \/ At \in 1 .. 3 \/ At \in 4 .. 6 \/ At \in 7 .. 21 \/ At = 22
      \/ At \in 23 .. 37 \/ At \in 38 .. 39
  <2>1. At \in 1 .. 40
    BY InTheSwitch
  <2> QED BY <2>1
<1>2. Proceeds
  BY <1>1, LoadsBlock, SavesPlace, SavesRegisters, TurnsToNext, RestoresRegisters, RestoresPlace
<1> QED BY <1>2 DEF Proceeds, Goes, SwitchInv
-----------------------------------------------------------------------------
(* The jump into the next one, which is then as its block says.            *)
LEMMA PlacesAreElsewhere ==
    \A p \in Places : p \in Nat /\ p \notin {SwitchAt + i : i \in DOMAIN Program}
<1> SUFFICES ASSUME NEW p \in Places
             PROVE  p \in Nat /\ p \notin {SwitchAt + i : i \in DOMAIN Program}
  OBVIOUS
<1>1. p \in Nat /\ p >= 2000
  BY Sizes DEF Places, EntryAt, CallAt
<1> QED BY <1>1, ProgramIs DEF SwitchAt

Jumps ==
    /\ ~ InSwitch' /\ UNCHANGED <<mem, blocks, m_active>> /\ Owner' = m_active
    /\ \A r \in Kept : regs'[r] = Block(m_active)[r] /\ Block(left.by)[r] = Saves[r]
    /\ \A c \in Coroutines : Block(c)' = Block(c)

LEMMA TheJump ==
    ASSUME SwitchInv, InSwitch, At = 40, __SwitchCoroutine__
    PROVE  Jumps /\ SwitchInv'
<1>1. /\ regs \in [Registers -> Nat] /\ mem \in [Addrs -> Nat] /\ Owner = left.by
      /\ m_active \in Coroutines /\ left.by \in Coroutines
  BY InTheSwitch
<1>2. Block(m_active)["rip"] \in Places /\ Block(m_active)["rsp"] \in Room(m_active)
  BY NextBlock
<1>3. regs["rax"] = Block(m_active)["rip"] /\ regs["rsp"] = Block(m_active)["rsp"]
  BY DEF SwitchInv, RestoresOK, PointerOK
<1>4. regs' = [regs EXCEPT !["rip"] = regs["rax"]] /\ mem' = mem
  <2>1. Execute(jmp("rax"))
    BY ProgramIs DEF __SwitchCoroutine__, At
  <2> QED BY <2>1, Executes
<1>5. /\ regs' \in [Registers -> Nat] /\ regs'["rip"] = Block(m_active)["rip"]
      /\ \A r \in Registers \ {"rip"} : regs'[r] = regs[r]
  BY <1>1, <1>3, <1>4, NamedRegisters
<1>6. ~ InSwitch'
  BY <1>2, <1>5, PlacesAreElsewhere DEF InSwitch
<1>7. UNCHANGED <<blocks, m_active>> /\ left' = NobodyLeft
  BY <1>6 DEF __SwitchCoroutine__
<1>8. Owner' = m_active
  BY <1>6, <1>7 DEF Owner
<1>9. \A r \in Kept : regs'[r] = Block(m_active)[r] /\ Block(left.by)[r] = Saves[r]
  <2>1. \A r \in Kept : OFFSET[r] + At >= 22
    BY KeptRegisters
  <2>2. \A r \in General : At >= OFFSET[r] + 24
    BY KeptRegisters
  <2>3. \A r \in General : regs[r] = Block(m_active)[r]
    BY <2>2 DEF SwitchInv, RestoresOK
  <2>4. \A r \in Kept : r \in Registers /\ (r \in General \/ r = "rsp" \/ r = "rip")
    BY KeptRegisters DEF General
  <2>5. \A r \in Kept : Block(left.by)[r] = Saves[r]
    BY <2>1 DEF SwitchInv, SavesOK
  <2> QED BY <1>3, <1>5, <2>3, <2>4, <2>5
<1>10. \A c \in Coroutines : Block(c)' = Block(c)
  BY <1>4, BlockIs
<1>11. SwitchTypeOK'
  <2>1. regs'["rip"] \in Places /\ Main \in Coroutines
    BY <1>2, <1>5, Sizes
  <2>2. regs'["rsp"] = regs["rsp"]
    BY <1>5, KeptRegisters
  <2> QED BY <1>4, <1>5, <1>7, <2>1, <2>2 DEF SwitchInv, SwitchTypeOK, Places, NobodyLeft
<1>12. BlocksOK'
  <2>1. /\ blocks[Main] = "live" /\ blocks[m_active] # "none"
        /\ \A c \in Coroutines : blocks[c] # "none" /\ c # left.by =>
              Block(c)["rip"] \in Places /\ Block(c)["rsp"] \in Room(c)
    BY <1>1 DEF SwitchInv, BlocksOK
  <2>2. Block(left.by)["rip"] \in Places /\ Block(left.by)["rsp"] \in Room(left.by)
    BY <1>9, KeptRegisters DEF SwitchInv, CallOK
  <2>3. \A c \in Coroutines : blocks[c] # "none" =>
              Block(c)["rip"] \in Places /\ Block(c)["rsp"] \in Room(c)
    BY <2>1, <2>2
  <2> QED BY <1>7, <1>8, <1>10, <2>1, <2>3 DEF BlocksOK, Places
<1>13. RunsOK'
  BY <1>2, <1>7, <1>9, KeptRegisters DEF RunsOK, Places
<1>14. CallOK' /\ PointerOK' /\ SavesOK' /\ RestoresOK'
  BY <1>6 DEF CallOK, PointerOK, SavesOK, RestoresOK
<1>15. Jumps
  BY <1>4, <1>6, <1>7, <1>8, <1>9, <1>10 DEF Jumps
<1> QED BY <1>11, <1>12, <1>13, <1>14, <1>15 DEF SwitchInv
-----------------------------------------------------------------------------
(* The code between two switches.                                          *)
LEMMA CodeIsRunning ==
    ASSUME SwitchInv, ~ InSwitch
    PROVE  /\ regs \in [Registers -> Nat] /\ mem \in [Addrs -> Nat]
           /\ blocks \in [Coroutines -> {"none", "live", "ended"}]
           /\ m_active \in Coroutines /\ Owner = m_active
           /\ regs["rip"] \in Places /\ regs["rsp"] \in Room(m_active)
           /\ regs["rsp"] \in Nat /\ regs["rsp"] - 1 \in Home(m_active)
<1>1. /\ regs \in [Registers -> Nat] /\ mem \in [Addrs -> Nat] /\ m_active \in Coroutines
      /\ blocks \in [Coroutines -> {"none", "live", "ended"}]
  BY DEF SwitchInv, SwitchTypeOK
<1>2. regs["rip"] \in Places /\ regs["rsp"] \in Room(m_active)
  BY DEF SwitchInv, RunsOK
<1>3. Owner = m_active
  BY DEF Owner
<1> QED BY <1>1, <1>2, <1>3, RoomsAtHome

StaysHome ==
    /\ ~ InSwitch' /\ UNCHANGED <<blocks, m_active>> /\ Owner' = m_active
    /\ \A c \in Coroutines \ {m_active} : Block(c)' = Block(c)
    /\ \A a \in Addrs \ Home(m_active) : mem'[a] = mem[a]

LEMMA CodeStaysHome ==
    ASSUME SwitchInv, ~ InSwitch, regs' \in [Registers -> Nat],
           regs'["rip"] = regs["rip"], regs'["rsp"] \in Room(m_active),
           mem' \in [Addrs -> Nat], \A a \in Addrs \ Home(m_active) : mem'[a] = mem[a],
           UNCHANGED <<blocks, m_active, left>>
    PROVE  StaysHome /\ SwitchInv'
<1>1. /\ m_active \in Coroutines /\ Owner = m_active
      /\ regs["rip"] \in Places
  BY CodeIsRunning
<1>2. ~ InSwitch'
  BY DEF InSwitch
<1>3. Owner' = m_active
  BY <1>2 DEF Owner
<1>4. \A c \in Coroutines \ {m_active} : Block(c)' = Block(c)
  BY <1>1, BlockOfOthers
<1>5. SwitchTypeOK'
  <2>1. regs'["rsp"] \in Addrs \cup {StackTop(Main)}
    BY <1>1, RoomsAtHome
  <2> QED BY <1>1, <2>1 DEF SwitchInv, SwitchTypeOK, Places
<1>6. BlocksOK'
  BY <1>1, <1>3, <1>4 DEF SwitchInv, BlocksOK, Places
<1>7. RunsOK'
  BY <1>1 DEF RunsOK, Places
<1>8. CallOK' /\ PointerOK' /\ SavesOK' /\ RestoresOK'
  BY <1>2 DEF CallOK, PointerOK, SavesOK, RestoresOK
<1>9. StaysHome
  BY <1>2, <1>3, <1>4 DEF StaysHome
<1> QED BY <1>5, <1>6, <1>7, <1>8, <1>9 DEF SwitchInv

LEMMA DataIsNat ==
    ASSUME NEW r \in Registers, NEW s \in Seeds, m_active \in Coroutines
    PROVE  Data(r, s) \in Nat
<1>1. OFFSET[r] \in Nat /\ s \in Nat /\ m_active \in Nat
  BY RegisterOffsets, Sizes, SwitchAssumption
<1> QED BY <1>1 DEF Data

LEMMA CodeComputes ==
    ASSUME SwitchInv, NEW s \in Seeds, Computes(s)
    PROVE  StaysHome /\ SwitchInv'
<1>1. ~ InSwitch /\ mem' = mem /\ UNCHANGED <<blocks, m_active, left>>
  BY DEF Computes
<1>2. /\ regs \in [Registers -> Nat] /\ mem \in [Addrs -> Nat] /\ m_active \in Coroutines
      /\ regs["rsp"] \in Room(m_active)
  BY <1>1, CodeIsRunning
<1>3. regs' = [r \in Registers |-> IF r \in {"rsp", "rip"} THEN regs[r] ELSE Data(r, s)]
  BY DEF Computes
<1>4. \A r \in Registers : regs[r] \in Nat /\ Data(r, s) \in Nat
  BY <1>2, DataIsNat
<1>5. regs' \in [Registers -> Nat] /\ regs'["rip"] = regs["rip"] /\ regs'["rsp"] = regs["rsp"]
  BY <1>3, <1>4, NamedRegisters
<1> QED BY <1>1, <1>2, <1>5, CodeStaysHome

LEMMA CodeEnters ==
    ASSUME SwitchInv, NEW s \in Seeds, Enters(s)
    PROVE  StaysHome /\ SwitchInv'
<1>1. ~ InSwitch /\ Depth + 1 < StackUse /\ UNCHANGED <<blocks, m_active, left>>
  BY DEF Enters
<1>2. /\ regs \in [Registers -> Nat] /\ mem \in [Addrs -> Nat] /\ m_active \in Coroutines
      /\ regs["rsp"] \in Room(m_active)
      /\ regs["rsp"] \in Nat /\ regs["rsp"] - 1 \in Home(m_active)
  BY <1>1, CodeIsRunning
<1>3. StackTop(m_active) \in Nat
  BY <1>2, RoomsAtHome
<1>4. regs["rsp"] - 1 \in Room(m_active) /\ regs["rsp"] - 1 \in Nat
  <2>1. regs["rsp"] - 1 \in Addrs /\ regs["rsp"] - 1 \in Nat
    BY <1>2, HomesInMemory
  <2>2. StackTop(m_active) - regs["rsp"] + 1 < StackUse
    BY <1>1 DEF Depth
  <2> QED BY <1>2, <1>3, <2>1, <2>2, Sizes DEF Room
<1>5. regs' = [regs EXCEPT !["rsp"] = regs["rsp"] - 1]
  BY DEF Enters
<1>6. /\ regs' \in [Registers -> Nat] /\ regs'["rip"] = regs["rip"]
      /\ regs'["rsp"] = regs["rsp"] - 1
  BY <1>2, <1>4, <1>5, NamedRegisters
<1>7. /\ mem' \in [Addrs -> Nat]
      /\ \A a \in Addrs \ Home(m_active) : mem'[a] = mem[a]
  <2>1. mem' = [mem EXCEPT ![regs["rsp"] - 1] = Data("rbp", s)]
    BY DEF Enters
  <2>2. Data("rbp", s) \in Nat
    BY <1>2, DataIsNat, NamedRegisters
  <2> QED BY <1>2, <2>1, <2>2
<1> QED BY <1>1, <1>4, <1>6, <1>7, CodeStaysHome

LEMMA CodeReturns ==
    ASSUME SwitchInv, Returns
    PROVE  StaysHome /\ SwitchInv'
<1>1. ~ InSwitch /\ Depth > 0 /\ mem' = mem /\ UNCHANGED <<blocks, m_active, left>>
  BY DEF Returns
<1>2. /\ regs \in [Registers -> Nat] /\ mem \in [Addrs -> Nat] /\ m_active \in Coroutines
      /\ regs["rsp"] \in Room(m_active) /\ regs["rsp"] \in Nat
  BY <1>1, CodeIsRunning
<1>3. StackTop(m_active) \in Nat
  BY <1>2, RoomsAtHome
<1>4. regs["rsp"] + 1 \in Room(m_active)
  BY <1>1, <1>2, <1>3, Sizes DEF Depth, Room
<1>5. regs' = [regs EXCEPT !["rsp"] = regs["rsp"] + 1]
  BY DEF Returns
<1>6. /\ regs' \in [Registers -> Nat] /\ regs'["rip"] = regs["rip"]
      /\ regs'["rsp"] = regs["rsp"] + 1
  BY <1>2, <1>5, NamedRegisters
<1> QED BY <1>1, <1>2, <1>4, <1>6, CodeStaysHome
-----------------------------------------------------------------------------
(* Blocks come and go.                                                     *)
Created(c) ==
    /\ ~ InSwitch /\ ~ InSwitch' /\ c # Main /\ m_active = Main /\ UNCHANGED <<regs, m_active>>
    /\ Owner' = Main /\ Owner = Main
    /\ blocks[c] = "none" /\ blocks' = [blocks EXCEPT ![c] = "live"]
    /\ \A d \in Coroutines \ {c} : Block(d)' = Block(d)
    /\ \A a \in Addrs \ Area(c) : mem'[a] = mem[a]
    /\ \A a \in Addrs \ Home(c) : mem'[a] = mem[a]
    /\ \A r \in Registers :
          Block(c)'[r] = CASE r = "rip" -> EntryAt [] r = "rdi" -> Arg(c)
                           [] r = "rsp" -> StackTop(c) [] OTHER -> 0

LEMMA CoroutineIsCreated ==
    ASSUME SwitchInv, NEW c \in Coroutines, CreateCoroutine(c)
    PROVE  Created(c) /\ SwitchInv'
<1>1. /\ ~ InSwitch /\ m_active = Main /\ blocks[c] = "none"
      /\ blocks' = [blocks EXCEPT ![c] = "live"] /\ UNCHANGED <<regs, m_active, left>>
  BY DEF CreateCoroutine, Running
<1>2. /\ regs \in [Registers -> Nat] /\ mem \in [Addrs -> Nat] /\ Owner = m_active
      /\ blocks \in [Coroutines -> {"none", "live", "ended"}] /\ Main \in Coroutines
  BY <1>1, CodeIsRunning
<1>3. blocks[Main] = "live" /\ c # Main
  BY <1>1 DEF SwitchInv, BlocksOK
<1>4. Start(c) \in Nat /\ StackTop(c) \in Nat /\ StackTop(c) \in Room(c) /\ c \in Nat
  <2>1. Start(c) \in Nat /\ c \in Nat
    BY Starts, Sizes
  <2>2. StackTop(c) = Start(c) + g_stack_size
    BY <1>3 DEF StackTop
  <2> QED BY <2>1, <2>2, Sizes DEF Room
<1>5. Home(c) = Area(c) /\ Area(c) \subseteq Addrs
  BY <1>3, HomesInMemory DEF Home
<1> DEFINE New(a) == CASE a = Start(c) + OFFSET["rip"] -> EntryAt
                       [] a = Start(c) + OFFSET["rdi"] -> Arg(c)
                       [] a = Start(c) + OFFSET["rsp"] -> StackTop(c)
                       [] a = Start(c) + ContextSize - 2 -> Arg(c)
                       [] OTHER -> 0
<1>6. mem' = [a \in Addrs |-> IF a \notin Area(c) THEN mem[a] ELSE New(a)]
  BY DEF CreateCoroutine
<1>7. \A a : New(a) \in Nat
  <2>1. EntryAt \in Nat /\ Arg(c) \in Nat
    BY <1>4 DEF EntryAt, Arg
  <2> HIDE DEF New
  <2> SUFFICES ASSUME NEW a PROVE New(a) \in Nat
    OBVIOUS
  <2> QED BY <1>4, <2>1 DEF New
<1>8. ASSUME NEW r \in Registers
      PROVE  New(Start(c) + OFFSET[r]) =
                CASE r = "rip" -> EntryAt [] r = "rdi" -> Arg(c)
                  [] r = "rsp" -> StackTop(c) [] OTHER -> 0
  <2>1. OFFSET[r] \in 0 .. 16 /\ ContextSize = 19
    BY RegisterOffsets
  <2>2. \A x \in 0 .. 16 : Start(c) + OFFSET[r] = Start(c) + x <=> OFFSET[r] = x
    BY <1>4, <2>1
  <2>3. /\ Start(c) + OFFSET[r] = Start(c) + OFFSET["rip"] <=> r = "rip"
        /\ Start(c) + OFFSET[r] = Start(c) + OFFSET["rdi"] <=> r = "rdi"
        /\ Start(c) + OFFSET[r] = Start(c) + OFFSET["rsp"] <=> r = "rsp"
    <3>1. /\ OFFSET[r] = OFFSET["rip"] <=> r = "rip"
          /\ OFFSET[r] = OFFSET["rdi"] <=> r = "rdi"
          /\ OFFSET[r] = OFFSET["rsp"] <=> r = "rsp"
      BY NamedRegisters
    <3>2. OFFSET["rip"] \in 0 .. 16 /\ OFFSET["rdi"] \in 0 .. 16 /\ OFFSET["rsp"] \in 0 .. 16
      BY NamedRegisters
    <3> QED BY <2>2, <3>1, <3>2
  <2>4. Start(c) + OFFSET[r] # Start(c) + ContextSize - 2
    BY <1>4, <2>1
  <2> QED BY <2>3, <2>4
<1> HIDE DEF New
<1>9. /\ mem' \in [Addrs -> Nat] /\ \A a \in Addrs \ Area(c) : mem'[a] = mem[a]
      /\ \A a \in Area(c) : mem'[a] = New(a)
  BY <1>2, <1>5, <1>6, <1>7
<1>10. \A d \in Coroutines \ {c} : Block(d)' = Block(d)
  BY <1>5, <1>9, BlockOfOthers
<1>11. ASSUME NEW r \in Registers
       PROVE  Block(c)'[r] = CASE r = "rip" -> EntryAt [] r = "rdi" -> Arg(c)
                               [] r = "rsp" -> StackTop(c) [] OTHER -> 0
  <2>1. Start(c) + OFFSET[r] \in Area(c)
    BY HomesInMemory, RegisterOffsets
  <2>2. Block(c)'[r] = mem'[Start(c) + OFFSET[r]]
    BY BlockIs
  <2> QED BY <1>8, <1>9, <2>1, <2>2
<1>12. ~ InSwitch'
  BY <1>1 DEF InSwitch
<1>13. Owner' = Main
  BY <1>1, <1>12 DEF Owner
<1>14. SwitchTypeOK'
  <2>1. blocks' \in [Coroutines -> {"none", "live", "ended"}]
    BY <1>1, <1>2
  <2> QED BY <1>1, <1>9, <1>12, <2>1 DEF SwitchInv, SwitchTypeOK
<1>15. BlocksOK'
  <2>1. Block(c)'["rip"] = EntryAt /\ Block(c)'["rsp"] = StackTop(c)
    BY <1>11, NamedRegisters
  <2>2. blocks'[c] = "live" /\ \A d \in Coroutines \ {c} : blocks'[d] = blocks[d]
    BY <1>1, <1>2
  <2>3. \A d \in Coroutines : blocks[d] # "none" /\ d # Main =>
            Block(d)["rip"] \in Places /\ Block(d)["rsp"] \in Room(d)
    BY <1>1, <1>2 DEF SwitchInv, BlocksOK
  <2>4. EntryAt \in Places
    BY DEF Places
  <2> QED BY <1>1, <1>2, <1>3, <1>4, <1>10, <1>13, <2>1, <2>2, <2>3, <2>4 DEF BlocksOK, Places
<1>16. RunsOK'
  BY <1>1 DEF SwitchInv, RunsOK, Places
<1>17. CallOK' /\ PointerOK' /\ SavesOK' /\ RestoresOK'
  BY <1>12 DEF CallOK, PointerOK, SavesOK, RestoresOK
<1>18. Created(c)
  BY <1>1, <1>2, <1>3, <1>5, <1>9, <1>10, <1>11, <1>12, <1>13 DEF Created
<1> QED BY <1>14, <1>15, <1>16, <1>17, <1>18 DEF SwitchInv

Deleted(c) ==
    /\ ~ InSwitch /\ ~ InSwitch' /\ c # Main /\ m_active = Main /\ UNCHANGED <<regs, mem, m_active>>
    /\ Owner' = Main /\ Owner = Main
    /\ blocks[c] = "ended" /\ blocks' = [blocks EXCEPT ![c] = "none"]
    /\ \A d \in Coroutines : Block(d)' = Block(d)

LEMMA CoroutineIsDeleted ==
    ASSUME SwitchInv, NEW c \in Coroutines, DeleteCoroutine(c)
    PROVE  Deleted(c) /\ SwitchInv'
<1>1. /\ ~ InSwitch /\ m_active = Main /\ blocks[c] = "ended"
      /\ blocks' = [blocks EXCEPT ![c] = "none"] /\ UNCHANGED <<regs, mem, m_active, left>>
  BY DEF DeleteCoroutine, Running
<1>2. /\ Owner = m_active /\ Main \in Coroutines
      /\ blocks \in [Coroutines -> {"none", "live", "ended"}]
  BY <1>1, CodeIsRunning
<1>3. blocks[Main] = "live" /\ c # Main
  BY <1>1 DEF SwitchInv, BlocksOK
<1>4. ~ InSwitch' /\ Owner' = Main
  BY <1>1 DEF InSwitch, Owner
<1>5. \A d \in Coroutines : Block(d)' = Block(d)
  BY <1>1, BlockIs
<1>6. SwitchTypeOK'
  <2>1. blocks' \in [Coroutines -> {"none", "live", "ended"}]
    BY <1>1, <1>2
  <2> QED BY <1>1, <1>4, <2>1 DEF SwitchInv, SwitchTypeOK
<1>7. BlocksOK'
  <2>1. blocks'[c] = "none" /\ \A d \in Coroutines \ {c} : blocks'[d] = blocks[d]
    BY <1>1, <1>2
  <2>2. \A d \in Coroutines : blocks[d] # "none" /\ d # Main =>
            Block(d)["rip"] \in Places /\ Block(d)["rsp"] \in Room(d)
    BY <1>1, <1>2 DEF SwitchInv, BlocksOK
  <2> QED BY <1>1, <1>2, <1>3, <1>4, <1>5, <2>1, <2>2 DEF BlocksOK, Places
<1>8. RunsOK'
  BY <1>1 DEF SwitchInv, RunsOK, Places
<1>9. CallOK' /\ PointerOK' /\ SavesOK' /\ RestoresOK'
  BY <1>4 DEF CallOK, PointerOK, SavesOK, RestoresOK
<1>10. Deleted(c)
  BY <1>1, <1>2, <1>3, <1>4, <1>5 DEF Deleted
<1> QED BY <1>6, <1>7, <1>8, <1>9, <1>10 DEF SwitchInv
-----------------------------------------------------------------------------
(* The call of the switch, from main or from a coroutine.                  *)
SameBlocks ==
    /\ blocks' \in [Coroutines -> {"none", "live", "ended"}]
    /\ blocks'[Main] = blocks[Main]
    /\ \A d \in Coroutines : blocks'[d] = "none" <=> blocks[d] = "none"

Leaves(next) ==
    /\ InSwitch' /\ Owner' = m_active /\ Owner = m_active /\ SameBlocks
    /\ left'.by = m_active /\ left'.context.regs \in [Kept -> Nat]
    /\ \A d \in Coroutines \ {m_active} : Block(d)' = Block(d)
    /\ \A a \in Addrs \ Home(m_active) : mem'[a] = mem[a]

LEMMA TheCall ==
    ASSUME SwitchInv, ~ InSwitch, NEW next \in Coroutines, blocks[next] # "none",
           SameBlocks, Schedule(next)
    PROVE  Leaves(next) /\ SwitchInv'
<1> DEFINE c == m_active
           x == regs["rsp"]
           r0 == Called(c, next)
<1>1. /\ regs \in [Registers -> Nat] /\ mem \in [Addrs -> Nat] /\ c \in Coroutines
      /\ Owner = c /\ x \in Room(c) /\ x \in Nat /\ x - 1 \in Home(c)
      /\ blocks \in [Coroutines -> {"none", "live", "ended"}]
  BY CodeIsRunning
<1>2. /\ mem' = [mem EXCEPT ![x - 1] = CallAt(c)]
      /\ regs' = [r0 EXCEPT !["rsp"] = r0["rsp"] - 1, !["rip"] = SwitchAt + 1]
      /\ left' = [by |-> c, context |-> Context(c, r0)] /\ m_active' = next
  BY DEF Schedule, Calls
<1>3. Start(c) \in Nat /\ Start(next) \in Nat /\ CallAt(c) \in Nat /\ x - 1 \in Addrs
      /\ x - 1 \in Nat
  <2>1. Start(c) \in Nat /\ Start(next) \in Nat
    BY <1>1, Starts
  <2>2. c \in Nat
    BY <1>1, Sizes
  <2>3. CallAt(c) \in Nat
    BY <2>2 DEF CallAt
  <2> HIDE DEF c, x
  <2> QED BY <1>1, <2>1, <2>3, HomesInMemory
<1>4. /\ r0 \in [Registers -> Nat] /\ r0["rdi"] = Start(c) /\ r0["rsi"] = Start(next)
      /\ r0["rip"] = CallAt(c) /\ r0["rsp"] = x
  <2> DEFINE r1 == [regs EXCEPT !["rdi"] = Start(c)]
             r2 == [r1 EXCEPT !["rsi"] = Start(next)]
  <2>1. r1 \in [Registers -> Nat] /\ r1["rdi"] = Start(c) /\ r1["rsp"] = x
    BY <1>1, <1>3, NamedRegisters
  <2>2. r0 = [r2 EXCEPT !["rip"] = CallAt(c)]
    BY DEF Called
  <2> HIDE DEF r1, c, x
  <2>3. /\ r2 \in [Registers -> Nat] /\ r2["rdi"] = Start(c) /\ r2["rsp"] = x
        /\ r2["rsi"] = Start(next)
    BY <1>3, <2>1, NamedRegisters
  <2> HIDE DEF r2, r0
  <2> QED BY <1>3, <2>2, <2>3, NamedRegisters
<1> HIDE DEF r0
<1>5. /\ regs' \in [Registers -> Nat] /\ regs'["rsp"] = x - 1 /\ regs'["rip"] = 1001
      /\ \A r \in General : regs'[r] = r0[r]
  <2> DEFINE r1 == [r0 EXCEPT !["rsp"] = x - 1]
  <2>1. r1 \in [Registers -> Nat] /\ r1["rsp"] = x - 1 /\ \A r \in General : r1[r] = r0[r]
    BY <1>3, <1>4, KeptRegisters
  <2>2. regs' = [r1 EXCEPT !["rip"] = 1001]
    BY <1>2, <1>4 DEF SwitchAt
  <2> HIDE DEF r1, x
  <2> QED BY <2>1, <2>2, KeptRegisters
<1>6. /\ mem' \in [Addrs -> Nat] /\ mem'[x - 1] = CallAt(c)
      /\ \A a \in Addrs \ {x - 1} : mem'[a] = mem[a]
  BY <1>1, <1>2, <1>3
<1>7. \A a \in Addrs \ Home(c) : mem'[a] = mem[a]
  BY <1>1, <1>6
<1>8. \A d \in Coroutines \ {c} : Block(d)' = Block(d)
  BY <1>1, <1>7, BlockOfOthers
<1>9. InSwitch' /\ At' = 1
  BY <1>5, ProgramIs DEF InSwitch, At, SwitchAt
<1>10. left'.by = c /\ left'.context = Context(c, r0) /\ Owner' = c
  BY <1>2, <1>9 DEF Owner
<1>11. left'.context = [regs  |-> [r \in Kept |-> r0[r]],
                        stack |-> [i \in 1 .. StackTop(c) - x |-> mem[x + i - 1]]]
  BY <1>4, <1>10 DEF Context
<1>12. /\ Saves' = [r \in Kept |-> r0[r]] /\ Saves' \in [Kept -> Nat]
       /\ \A r \in Kept : Saves'[r] = r0[r]
  BY <1>4, <1>11, KeptRegisters DEF Saves
<1>13. /\ Saves'["rsp"] = x /\ Saves'["rip"] = CallAt(c) /\ Saves'["rdi"] = Start(c)
       /\ Saves'["rsi"] = Start(next) /\ \A r \in General : Saves'[r] = regs'[r]
  BY <1>4, <1>5, <1>12, KeptRegisters
<1>14. SwitchTypeOK'
  BY <1>1, <1>2, <1>3, <1>5, <1>6, <1>9, <1>10 DEF SwitchTypeOK, SameBlocks
<1>15. BlocksOK'
  <2>1. /\ blocks[Main] = "live" /\ blocks[c] # "none"
        /\ \A d \in Coroutines : blocks[d] # "none" /\ d # c =>
              Block(d)["rip"] \in Places /\ Block(d)["rsp"] \in Room(d)
    BY <1>1 DEF SwitchInv, BlocksOK
  <2> HIDE DEF c
  <2> QED BY <1>1, <1>2, <1>8, <1>10, <2>1 DEF BlocksOK, Places, SameBlocks
<1>16. RunsOK'
  BY <1>9 DEF RunsOK
<1>17. CallOK'
  <2>1. CallAt(c) \in Places'
    BY <1>1 DEF Places
  <2>2. StackTop(c) \in Nat /\ x .. StackTop(c) - 1 \subseteq Home(c) /\ Home(c) \subseteq Addrs
    BY <1>1, RoomsAtHome, HomesInMemory
  <2>3. ASSUME NEW i \in 1 .. StackTop(c) - x
        PROVE  mem'[x + i - 1] = mem[x + i - 1]
    <3>1. x + i - 1 \in x .. StackTop(c) - 1 /\ x + i - 1 # x - 1
      BY <1>1, <2>2
    <3> QED BY <1>6, <2>2, <3>1
  <2>4. left'.context = [regs  |-> Saves',
                         stack |-> [i \in 1 .. StackTop(c) - x |-> mem'[x + i - 1]]]
    BY <1>11, <1>12, <2>3
  <2>5. left'.context =
           [regs  |-> Saves',
            stack |-> [i \in 1 .. StackTop(left'.by) - Saves'["rsp"] |->
                          mem'[Saves'["rsp"] + i - 1]]]
    BY <1>10, <1>13, <2>4
  <2> HIDE DEF c, x
  <2>6. /\ Saves'["rip"] \in Places' /\ Saves'["rsp"] \in Room(left'.by)
        /\ Saves'["rdi"] = Start(left'.by) /\ Saves'["rsi"] = Start(m_active')
    BY <1>1, <1>2, <1>10, <1>13, <2>1
  <2> QED BY <1>12, <2>5, <2>6 DEF CallOK
<1>18. PointerOK'
  BY <1>5, <1>9, <1>13 DEF PointerOK
<1>19. SavesOK'
  <2>1. \A r \in Kept : ~ (OFFSET[r] + 1 >= 22)
    BY KeptRegisters
  <2> QED BY <1>6, <1>9, <1>13, <2>1 DEF SavesOK
<1>20. RestoresOK'
  BY <1>9, KeptRegisters DEF RestoresOK
<1>21. Leaves(next)
  BY <1>1, <1>7, <1>8, <1>9, <1>10, <1>12 DEF Leaves, Saves
<1> QED BY <1>14, <1>15, <1>16, <1>17, <1>18, <1>19, <1>20, <1>21 DEF SwitchInv

LEMMA MainCalls ==
    ASSUME SwitchInv, NEW c \in Coroutines, MainRuns(c)
    PROVE  Leaves(c) /\ SwitchInv'
<1>1. ~ InSwitch /\ blocks[c] = "live" /\ Schedule(c) /\ blocks' = blocks
  BY DEF MainRuns, Running
<1>2. SameBlocks
  BY <1>1, CodeIsRunning DEF SameBlocks
<1> QED BY <1>1, <1>2, TheCall

LEMMA CoroutineCalls ==
    ASSUME SwitchInv, NEW c \in Coroutines, CoroutineLeaves(c)
    PROVE  Leaves(Main) /\ SwitchInv'
<1>1. /\ ~ InSwitch /\ m_active = c /\ c # Main /\ Schedule(Main)
      /\ blocks' \in {blocks, [blocks EXCEPT ![c] = "ended"]}
  BY DEF CoroutineLeaves, Running
<1>2. blocks \in [Coroutines -> {"none", "live", "ended"}] /\ Main \in Coroutines
  BY <1>1, CodeIsRunning, Sizes
<1>3. blocks[Main] = "live" /\ blocks[c] # "none"
  BY <1>1 DEF SwitchInv, BlocksOK
<1>4. SameBlocks
  BY <1>1, <1>2, <1>3 DEF SameBlocks
<1> QED BY <1>1, <1>2, <1>3, <1>4, TheCall

(* Each step of the program is one of these.                               *)
LEMMA EveryStep ==
    ASSUME SwitchInv, [SwitchNext]_switchVars
    PROVE  /\ SwitchInv'
           /\ \/ InSwitch /\ Goes
              \/ InSwitch /\ Jumps
              \/ ~ InSwitch /\ StaysHome
              \/ \E c \in Coroutines : Created(c) \/ Deleted(c) \/ (~ InSwitch /\ Leaves(c))
              \/ UNCHANGED switchVars
<1>1. CASE __SwitchCoroutine__
  <2>1. InSwitch
    BY <1>1 DEF __SwitchCoroutine__
  <2> QED BY <1>1, <2>1, EveryInstruction, TheJump
<1>2. CASE Returns
  BY <1>2, CodeReturns DEF Returns
<1>3. ASSUME NEW s \in Seeds, Computes(s) \/ Enters(s)
      PROVE  ~ InSwitch /\ StaysHome /\ SwitchInv'
  BY <1>3, CodeComputes, CodeEnters DEF Computes, Enters
<1>4. ASSUME NEW c \in Coroutines, CreateCoroutine(c) \/ DeleteCoroutine(c)
      PROVE  (Created(c) \/ Deleted(c)) /\ SwitchInv'
  BY <1>4, CoroutineIsCreated, CoroutineIsDeleted
<1>5. ASSUME NEW c \in Coroutines, MainRuns(c) \/ CoroutineLeaves(c)
      PROVE  ~ InSwitch /\ (\E d \in Coroutines : Leaves(d)) /\ SwitchInv'
  BY <1>5, MainCalls, CoroutineCalls, Sizes DEF MainRuns, CoroutineLeaves, Running
<1>6. CASE UNCHANGED switchVars
  <2> USE <1>6 DEF switchVars
  <2>1. SwitchTypeOK' /\ CallOK' /\ RunsOK'
    BY DEF SwitchInv, SwitchTypeOK, InSwitch, CallOK, Saves, RunsOK, Places
  <2>2. BlocksOK' /\ PointerOK'
    BY DEF SwitchInv, BlocksOK, Block, Owner, InSwitch, PointerOK, Saves, At, Places
  <2>3. SavesOK' /\ RestoresOK'
    BY DEF SwitchInv, SavesOK, RestoresOK, Block, InSwitch, Saves, At
  <2> QED BY <1>6, <2>1, <2>2, <2>3 DEF SwitchInv
<1> QED BY <1>1, <1>2, <1>3, <1>4, <1>5, <1>6 DEF SwitchNext

LEMMA SwitchInvInit == SwitchInit => SwitchInv
<1> SUFFICES ASSUME SwitchInit PROVE SwitchInv
  OBVIOUS
<1> DEFINE top == StackTop(Main)
           r0 == [x \in Registers |->
                    CASE x = "rsp" -> top [] x = "rip" -> CallAt(Main)
                      [] x \in {"rdi", "rsi"} -> Start(Main) [] OTHER -> 0]
<1>1. /\ Main \in Coroutines /\ Start(Main) = 0 /\ top \in Nat /\ top \in Room(Main)
      /\ top - 1 \in Home(Main) /\ top - 1 \in Addrs /\ top - 1 \in Nat /\ CallAt(Main) = 3000
  <2>1. Main \in Coroutines /\ Main = 0 /\ Start(Main) = 0
    BY Sizes, Starts
  <2>2. StackTop(Main) = Start(Last + 1) + StackUse
    BY DEF StackTop
  <2>3. StackTop(Main) \in Room(Main)
    BY <2>2, Starts, Sizes DEF Room
  <2>4. CallAt(Main) = 3000
    BY <2>1 DEF CallAt
  <2> QED BY <2>1, <2>3, <2>4, RoomsAtHome, HomesInMemory
<1>2. /\ regs = [r0 EXCEPT !["rsp"] = top - 1, !["rip"] = SwitchAt + 1]
      /\ mem = [a \in Addrs |-> IF a = top - 1 THEN CallAt(Main) ELSE 0]
      /\ blocks = [c \in Coroutines |-> IF c = Main THEN "live" ELSE "none"]
      /\ m_active = Main /\ left.by = Main
      /\ left.context = [regs |-> [x \in Kept |-> r0[x]], stack |-> <<>>]
  BY DEF SwitchInit
<1> HIDE DEF top
<1>3. /\ r0 \in [Registers -> Nat] /\ r0["rsp"] = top /\ r0["rip"] = CallAt(Main)
      /\ r0["rdi"] = Start(Main) /\ r0["rsi"] = Start(Main)
  BY <1>1, KeptRegisters, NamedRegisters
<1> HIDE DEF r0
<1>4. /\ regs \in [Registers -> Nat] /\ regs["rsp"] = top - 1 /\ regs["rip"] = 1001
      /\ \A r \in General : regs[r] = r0[r]
  BY <1>1, <1>2, <1>3, KeptRegisters, NamedRegisters DEF SwitchAt
<1>5. InSwitch /\ At = 1
  BY <1>4, ProgramIs DEF InSwitch, At, SwitchAt
<1>6. /\ Saves \in [Kept -> Nat] /\ Saves["rsp"] = top /\ Saves["rip"] = CallAt(Main)
      /\ Saves["rdi"] = Start(Main) /\ Saves["rsi"] = Start(Main)
      /\ \A r \in General : regs[r] = Saves[r]
  <2>1. Saves = [x \in Kept |-> r0[x]]
    BY <1>2 DEF Saves
  <2> QED BY <1>3, <1>4, <2>1, KeptRegisters
<1>7. mem \in [Addrs -> Nat] /\ mem[top - 1] = CallAt(Main)
  BY <1>1, <1>2
<1>8. SwitchTypeOK
  <2>1. blocks \in [Coroutines -> {"none", "live", "ended"}]
    BY <1>2
  <2>2. regs["rsp"] \in Addrs
    BY <1>1, <1>4
  <2> QED BY <1>1, <1>2, <1>4, <1>5, <1>7, <2>1, <2>2 DEF SwitchTypeOK
<1>9. BlocksOK
  BY <1>1, <1>2, <1>5 DEF BlocksOK, Owner
<1>10. RunsOK
  BY <1>5 DEF RunsOK
<1>11. CallOK
  <2>1. CallAt(Main) \in Places
    BY <1>1 DEF Places
  <2>2. left.context = [regs |-> Saves, stack |-> <<>>]
    BY <1>2 DEF Saves
  <2>3. StackTop(left.by) - Saves["rsp"] = 0
    BY <1>1, <1>2, <1>6 DEF top
  <2>4. [i \in 1 .. StackTop(left.by) - Saves["rsp"] |-> mem[Saves["rsp"] + i - 1]] = <<>>
    BY <2>3
  <2>5. left.context =
           [regs  |-> Saves,
            stack |-> [i \in 1 .. StackTop(left.by) - Saves["rsp"] |->
                          mem[Saves["rsp"] + i - 1]]]
    BY <2>2, <2>4
  <2>6. Saves["rsp"] \in Room(left.by) /\ Saves["rip"] \in Places
    BY <1>1, <1>2, <1>6, <2>1
  <2> QED BY <1>2, <1>6, <2>5, <2>6 DEF CallOK
<1>12. PointerOK
  BY <1>4, <1>5, <1>6 DEF PointerOK
<1>13. SavesOK
  <2>1. \A r \in Kept : ~ (OFFSET[r] + 1 >= 22)
    BY KeptRegisters
  <2> QED BY <1>5, <1>6, <1>7, <2>1 DEF SavesOK
<1>14. RestoresOK
  BY <1>5, KeptRegisters DEF RestoresOK
<1> QED BY <1>8, <1>9, <1>10, <1>11, <1>12, <1>13, <1>14 DEF SwitchInv
-----------------------------------------------------------------------------
(***************************************************************************)
(* Every state of every run: while a coroutine runs it is within its room  *)
(* on its own stack, while it leaves rsp is where each instruction of      *)
(* switch.s needs it, and whoever does not run has a block that can be     *)
(* jumped into.                                                            *)
(***************************************************************************)
THEOREM SwitchInvariant == SwitchSpec => []SwitchInv
<1>1. SwitchInv /\ [SwitchNext]_switchVars => SwitchInv'
  BY EveryStep
<1> QED BY <1>1, SwitchInvInit, PTL DEF SwitchSpec

(* Registers and words hold numbers, rsp is an address, and outside of     *)
(* switch.s rip is at the entry of a coroutine or behind one of its calls. *)
THEOREM SwitchTypeCorrect == SwitchSpec => []SwitchTypeOK
<1>1. SwitchInv => SwitchTypeOK
  BY DEF SwitchInv
<1> QED BY <1>1, SwitchInvariant, PTL

StepStaysHome ==
    \A a \in Addrs :
        mem'[a] # mem[a] =>
           \/ a \in Area(Owner)
           \/ Owner = Main /\ a \in Thread
           \/ \E c \in Coroutines : blocks[c] # blocks'[c] /\ a \in Area(c)

(* No instruction of switch.s and no callback writes into the block or the *)
(* stack of a coroutine other than the one that runs or leaves.            *)
THEOREM WritesAlwaysStayHome == SwitchSpec => WritesStayHome
<1>1. SwitchInv /\ [SwitchNext]_switchVars => StepStaysHome
  <2> SUFFICES ASSUME SwitchInv, [SwitchNext]_switchVars PROVE StepStaysHome
    OBVIOUS
  <2>1. ASSUME \A a \in Addrs \ Home(Owner) : mem'[a] = mem[a] PROVE StepStaysHome
    BY <2>1 DEF StepStaysHome, Home
  <2>2. ASSUME NEW c \in Coroutines, Created(c) PROVE StepStaysHome
    <3>1. blocks \in [Coroutines -> {"none", "live", "ended"}]
      BY DEF SwitchInv, SwitchTypeOK
    <3>2. blocks[c] # blocks'[c]
      BY <2>2, <3>1 DEF Created
    <3> QED BY <2>2, <3>2 DEF Created, StepStaysHome
  <2>3. ASSUME mem' = mem PROVE StepStaysHome
    BY <2>3 DEF StepStaysHome
  <2>4. InSwitch => Owner = left.by
    BY DEF Owner
  <2>5. ~ InSwitch => Owner = m_active
    BY DEF Owner
  <2>6. \/ InSwitch /\ Goes
        \/ mem' = mem
        \/ ~ InSwitch /\ StaysHome
        \/ \E c \in Coroutines : Created(c) \/ (~ InSwitch /\ Leaves(c))
    BY EveryStep DEF Jumps, Deleted, switchVars
  <2>7. CASE InSwitch /\ Goes
    BY <2>1, <2>4, <2>7 DEF Goes
  <2>8. CASE ~ InSwitch /\ StaysHome
    BY <2>1, <2>5, <2>8 DEF StaysHome
  <2>9. ASSUME NEW c \in Coroutines, ~ InSwitch, Leaves(c) PROVE StepStaysHome
    BY <2>1, <2>5, <2>9 DEF Leaves
  <2> QED BY <2>2, <2>3, <2>6, <2>7, <2>8, <2>9
<1>2. SwitchSpec => [][StepStaysHome]_switchVars
  BY <1>1, SwitchInvariant, PTL DEF SwitchSpec
<1> QED BY <1>2 DEF WritesStayHome, StepStaysHome
-----------------------------------------------------------------------------
(* Contexts read from registers r and memory m.                            *)
ContextIn(c, r, m) ==
    [regs  |-> [x \in Kept |-> r[x]],
     stack |-> [i \in 1 .. StackTop(c) - r["rsp"] |-> m[r["rsp"] + i - 1]]]

LEMMA SameContext ==
    ASSUME NEW c \in Coroutines, NEW r, NEW q, NEW m, NEW n, r["rsp"] \in Room(c),
           \A x \in Kept : q[x] = r[x], \A a \in Home(c) : n[a] = m[a]
    PROVE  ContextIn(c, q, n) = ContextIn(c, r, m)
<1> DEFINE x == r["rsp"]
           top == StackTop(c)
<1>1. x \in Nat /\ top \in Nat /\ x .. top - 1 \subseteq Home(c)
  BY RoomsAtHome
<1>2. q["rsp"] = x
  BY KeptRegisters
<1>3. [y \in Kept |-> q[y]] = [y \in Kept |-> r[y]]
  OBVIOUS
<1> HIDE DEF x, top
<1>4. ASSUME NEW i \in 1 .. top - x
      PROVE  n[x + i - 1] = m[x + i - 1]
  <2>1. x + i - 1 \in x .. top - 1
    BY <1>1
  <2> QED BY <1>1, <2>1
<1>5. [i \in 1 .. top - x |-> n[x + i - 1]] = [i \in 1 .. top - x |-> m[x + i - 1]]
  BY <1>4
<1> QED BY <1>2, <1>3, <1>5 DEF ContextIn, x, top

LEMMA SomeContext ==
    ASSUME NEW f, DOMAIN f = Kept, NEW s
    PROVE  [regs |-> f, stack |-> s] # None
<1>1. f # <<>>
  <2>1. Kept # {}
    BY KeptRegisters
  <2>2. DOMAIN <<>> = {}
    OBVIOUS
  <2> QED BY <2>1, <2>2
<1> QED BY <1>1 DEF None

LEMMA ContextOfIs ==
    ASSUME SwitchInv, NEW c \in Coroutines
    PROVE  /\ blocks[c] = "none" => ContextOf(c) = None
           /\ blocks[c] # "none" => ContextOf(c) # None
           /\ blocks[c] # "none" /\ c # Owner => /\ ContextOf(c) = ContextIn(c, Block(c), mem)
                                                 /\ Block(c)["rsp"] \in Room(c)
           /\ c = Owner /\ InSwitch => /\ ContextOf(c) = left.context
                                       /\ left.context = ContextIn(c, Saves, mem)
                                       /\ Saves["rsp"] \in Room(c)
           /\ c = Owner /\ ~ InSwitch => /\ ContextOf(c) = ContextIn(c, regs, mem)
                                         /\ regs["rsp"] \in Room(c)
<1>1. blocks[c] = "none" => ContextOf(c) = None
  <2> SUFFICES ASSUME blocks[c] = "none" PROVE ContextOf(c) = None
    OBVIOUS
  <2>1. c # Owner
    BY DEF SwitchInv, BlocksOK
  <2>2. ~ (InSwitch /\ left.by = c) /\ ~ (~ InSwitch /\ m_active = c)
    BY <2>1 DEF Owner
  <2> QED BY <2>2 DEF ContextOf
<1>2. \A r : Context(c, r) = ContextIn(c, r, mem)
  BY DEF Context, ContextIn
<1>3. \A r : ContextIn(c, r, mem) # None
  BY SomeContext DEF ContextIn
<1>4. ASSUME blocks[c] # "none", c # Owner
      PROVE  ContextOf(c) = ContextIn(c, Block(c), mem) /\ Block(c)["rsp"] \in Room(c)
  <2>1. ~ (InSwitch /\ left.by = c) /\ ~ (~ InSwitch /\ m_active = c)
    BY <1>4 DEF Owner
  <2>2. ContextOf(c) = Context(c, Block(c))
    BY <1>4, <2>1 DEF ContextOf
  <2> QED BY <1>2, <1>4, <2>2 DEF SwitchInv, BlocksOK
<1>5. ASSUME c = Owner, InSwitch
      PROVE  /\ ContextOf(c) = left.context /\ left.context = ContextIn(c, Saves, mem)
             /\ Saves["rsp"] \in Room(c) /\ blocks[c] # "none"
  <2>1. left.by = c /\ blocks[c] # "none"
    BY <1>5 DEF Owner, SwitchInv, BlocksOK
  <2>2. ContextOf(c) = left.context
    BY <1>5, <2>1 DEF ContextOf
  <2>3. /\ Saves \in [Kept -> Nat] /\ Saves["rsp"] \in Room(c)
        /\ left.context =
              [regs  |-> Saves,
               stack |-> [i \in 1 .. StackTop(c) - Saves["rsp"] |->
                             mem[Saves["rsp"] + i - 1]]]
    BY <1>5, <2>1 DEF SwitchInv, CallOK
  <2>4. Saves = [x \in Kept |-> Saves[x]]
    BY <2>3
  <2> QED BY <2>1, <2>2, <2>3, <2>4 DEF ContextIn
<1>6. ASSUME c = Owner, ~ InSwitch
      PROVE  /\ ContextOf(c) = ContextIn(c, regs, mem) /\ regs["rsp"] \in Room(c)
             /\ blocks[c] # "none"
  <2>1. m_active = c /\ blocks[c] # "none"
    BY <1>6 DEF Owner, SwitchInv, BlocksOK
  <2>2. ContextOf(c) = Context(c, regs)
    BY <1>6, <2>1 DEF ContextOf
  <2> QED BY <1>2, <1>6, <2>1, <2>2, CodeIsRunning
<1> QED BY <1>1, <1>3, <1>4, <1>5, <1>6

(* Whoever does not run keeps its context when its memory is left alone.   *)
LEMMA IdleContext ==
    ASSUME SwitchInv, SwitchInv', NEW c \in Coroutines, c # Owner, c # Owner',
           blocks'[c] = "none" <=> blocks[c] = "none",
           Block(c)' = Block(c), \A a \in Home(c) : mem'[a] = mem[a]
    PROVE  ContextOf(c)' = ContextOf(c)
<1>1. CASE blocks[c] = "none"
  <2>1. ~ (InSwitch' /\ left'.by = c) /\ ~ (~ InSwitch' /\ m_active' = c)
    BY DEF Owner
  <2>2. ContextOf(c)' = None
    BY <1>1, <2>1 DEF ContextOf
  <2> QED BY <1>1, <2>2, ContextOfIs
<1>2. CASE blocks[c] # "none"
  <2>1. ContextOf(c) = ContextIn(c, Block(c), mem) /\ Block(c)["rsp"] \in Room(c)
    BY <1>2, ContextOfIs
  <2>2. ~ (InSwitch' /\ left'.by = c) /\ ~ (~ InSwitch' /\ m_active' = c)
    BY DEF Owner
  <2>3. ContextOf(c)' = Context(c, Block(c))'
    BY <1>2, <2>2 DEF ContextOf
  <2>4. Context(c, Block(c))' = ContextIn(c, Block(c), mem')
    BY DEF Context, ContextIn
  <2>5. ContextIn(c, Block(c), mem') = ContextIn(c, Block(c), mem)
    BY <2>1, SameContext
  <2> QED BY <2>1, <2>3, <2>4, <2>5
<1> QED BY <1>1, <1>2

LEMMA AllContexts ==
    /\ DOMAIN allContexts = Coroutines
    /\ \A c \in Coroutines : allContexts[c] = ContextOf(c)
    /\ allContexts' = [c \in Coroutines |-> ContextOf(c)']
    /\ allContexts = [c \in Coroutines |-> ContextOf(c)]
BY DEF allContexts

(* The steps of the program, as steps of the abstract contexts.            *)
LEMMA MiddleIsNoStep ==
    ASSUME SwitchInv, SwitchInv', InSwitch, Goes
    PROVE  UNCHANGED Abstract!vars
<1>1. Owner' = Owner /\ Owner = left.by /\ left.by \in Coroutines
  BY InTheSwitch DEF Goes
<1>2. ASSUME NEW c \in Coroutines
      PROVE  ContextOf(c)' = ContextOf(c)
  <2>1. CASE c = Owner
    <3>1. InSwitch' /\ left' = left
      BY DEF Goes
    <3>2. ContextOf(c) = left.context
      BY <2>1, ContextOfIs
    <3>3. blocks'[c] # "none" /\ left'.by = c
      BY <1>1, <2>1, <3>1 DEF SwitchInv, BlocksOK
    <3>4. ContextOf(c)' = left'.context
      BY <3>1, <3>3 DEF ContextOf
    <3> QED BY <3>1, <3>2, <3>4
  <2>2. CASE c # Owner
    <3>1. \A a \in Home(c) : mem'[a] = mem[a]
      BY <1>1, <2>2, HomesApart, HomesInMemory DEF Goes
    <3> QED BY <1>1, <2>2, <3>1, IdleContext DEF Goes
  <2> QED BY <2>1, <2>2
<1>3. allContexts' = allContexts
  BY <1>2, AllContexts
<1> QED BY <1>1, <1>3 DEF Abstract!vars

LEMMA JumpIsSwitch ==
    ASSUME SwitchInv, SwitchInv', InSwitch, Jumps
    PROVE  Abstract!SwitchTo(m_active) /\ m_active \in Coroutines
<1> DEFINE next == m_active
<1>1. /\ next \in Coroutines /\ left.by \in Coroutines /\ Owner = left.by /\ Owner' = next
      /\ ~ InSwitch' /\ mem' = mem /\ blocks' = blocks /\ m_active' = next
  BY InTheSwitch DEF Jumps
<1>2. blocks[next] # "none"
  BY DEF SwitchInv, BlocksOK
<1>3. ContextIn(left.by, Block(left.by), mem) = left.context
  <2>1. left.context = ContextIn(left.by, Saves, mem) /\ Saves["rsp"] \in Room(left.by)
    BY <1>1, ContextOfIs
  <2>2. \A r \in Kept : Block(left.by)[r] = Saves[r]
    BY DEF Jumps
  <2> QED BY <1>1, <2>1, <2>2, SameContext
<1>4. ASSUME NEW c \in Coroutines, blocks[c] # "none"
      PROVE  ContextOf(c) = ContextIn(c, Block(c), mem) /\ Block(c)["rsp"] \in Room(c)
  <2>1. CASE c = Owner
    <3>1. ContextOf(c) = ContextIn(c, Block(c), mem)
      BY <1>1, <1>3, <2>1, ContextOfIs
    <3>2. Saves["rsp"] \in Room(c) /\ Block(c)["rsp"] = Saves["rsp"]
      BY <1>1, <2>1, ContextOfIs, KeptRegisters DEF Jumps
    <3> QED BY <3>1, <3>2
  <2>2. CASE c # Owner
    BY <1>4, <2>2, ContextOfIs
  <2> QED BY <2>1, <2>2
<1>5. ASSUME NEW c \in Coroutines
      PROVE  ContextOf(c)' = ContextOf(c)
  <2>1. CASE c = next
    <3>1. ContextOf(c)' = Context(c, regs)'
      BY <1>1, <1>2, <2>1 DEF ContextOf
    <3>2. Context(c, regs)' = ContextIn(c, regs', mem')
      BY DEF Context, ContextIn
    <3>3. \A r \in Kept : regs'[r] = Block(c)[r]
      BY <2>1 DEF Jumps
    <3>4. ContextIn(c, regs', mem') = ContextIn(c, Block(c), mem)
      BY <1>1, <1>2, <1>4, <2>1, <3>3, SameContext
    <3> QED BY <1>2, <1>4, <2>1, <3>1, <3>2, <3>4
  <2>2. CASE c # next /\ blocks[c] = "none"
    <3>1. ~ (InSwitch' /\ left'.by = c) /\ ~ (~ InSwitch' /\ m_active' = c)
      BY <1>1, <2>2
    <3>2. ContextOf(c)' = None
      BY <1>1, <2>2, <3>1 DEF ContextOf
    <3> QED BY <2>2, <3>2, ContextOfIs
  <2>3. CASE c # next /\ blocks[c] # "none"
    <3>1. ~ (InSwitch' /\ left'.by = c) /\ ~ (~ InSwitch' /\ m_active' = c)
      BY <1>1, <2>3
    <3>2. ContextOf(c)' = Context(c, Block(c))'
      BY <1>1, <2>3, <3>1 DEF ContextOf
    <3>3. Context(c, Block(c))' = ContextIn(c, Block(c)', mem') /\ Block(c)' = Block(c)
      BY DEF Context, ContextIn, Jumps
    <3>4. ContextOf(c) = ContextIn(c, Block(c), mem)
      BY <1>4, <2>3
    <3> QED BY <1>1, <3>2, <3>3, <3>4
  <2> QED BY <2>1, <2>2, <2>3
<1>6. allContexts' = allContexts /\ allContexts[next] # None
  BY <1>1, <1>2, <1>5, AllContexts, ContextOfIs
<1> QED BY <1>1, <1>6 DEF Abstract!SwitchTo

LEMMA RunnerHasContext ==
    ASSUME SwitchInv', NEW c, c = Owner'
    PROVE  ContextOf(c)' # None
<1>1. blocks'[c] # "none"
  BY DEF SwitchInv, BlocksOK
<1>2. CASE InSwitch'
  <2>1. left'.by = c
    BY <1>2 DEF Owner
  <2>2. ContextOf(c)' = left'.context
    BY <1>1, <1>2, <2>1 DEF ContextOf
  <2>3. DOMAIN Saves' = Kept
    BY <1>2 DEF SwitchInv, CallOK
  <2>4. \E s : left'.context = [regs |-> Saves', stack |-> s]
    BY <1>2 DEF SwitchInv, CallOK
  <2> QED BY <2>2, <2>3, <2>4, SomeContext
<1>3. CASE ~ InSwitch'
  <2>1. m_active' = c
    BY <1>3 DEF Owner
  <2>2. ContextOf(c)' = Context(c, regs)'
    BY <1>1, <1>3, <2>1 DEF ContextOf
  <2>3. Context(c, regs)' # None
    BY SomeContext DEF Context
  <2> QED BY <2>2, <2>3
<1> QED BY <1>2, <1>3

LEMMA CodeIsRuns ==
    ASSUME SwitchInv, SwitchInv', ~ InSwitch, Owner' = m_active,
           \A c \in Coroutines : blocks'[c] = "none" <=> blocks[c] = "none",
           \A c \in Coroutines \ {m_active} : Block(c)' = Block(c),
           \A a \in Addrs \ Home(m_active) : mem'[a] = mem[a]
    PROVE  Abstract!Runs
<1>1. Owner = m_active /\ m_active \in Coroutines
  BY CodeIsRunning
<1>2. ASSUME NEW c \in Coroutines, c # Owner
      PROVE  ContextOf(c)' = ContextOf(c)
  <2>1. \A a \in Home(c) : mem'[a] = mem[a]
    BY <1>1, <1>2, HomesApart, HomesInMemory
  <2> QED BY <1>1, <1>2, <2>1, IdleContext
<1>3. \A c \in Coroutines : c = Owner' => ContextOf(c)' # None
  BY RunnerHasContext
<1>4. DOMAIN allContexts' = Coroutines
  BY AllContexts
<1>5. allContexts'[Owner] # None
  BY <1>1, <1>3, AllContexts
<1>6. \A c \in Coroutines \ {Owner} : allContexts'[c] = allContexts[c]
  BY <1>2, AllContexts
<1> QED BY <1>1, <1>4, <1>5, <1>6 DEF Abstract!Runs

(* While blocks come and go main stays where it is.                        *)
LEMMA MainStays ==
    ASSUME SwitchInv, SwitchInv', ~ InSwitch, ~ InSwitch',
           m_active = Main, m_active' = Main, regs' = regs,
           \A a \in Home(Main) : mem'[a] = mem[a]
    PROVE  ContextOf(Main)' = ContextOf(Main)
<1>1. Main \in Coroutines /\ Owner = Main /\ Owner' = Main
  BY Sizes DEF Owner
<1>2. ContextOf(Main) = ContextIn(Main, regs, mem) /\ regs["rsp"] \in Room(Main)
  BY <1>1, ContextOfIs
<1>3. ContextOf(Main)' = Context(Main, regs)'
  <2>1. blocks'[Main] # "none"
    BY DEF SwitchInv, BlocksOK
  <2> QED BY <2>1 DEF ContextOf
<1>4. Context(Main, regs)' = ContextIn(Main, regs, mem')
  BY DEF Context, ContextIn
<1>5. ContextIn(Main, regs, mem') = ContextIn(Main, regs, mem)
  BY <1>1, <1>2, SameContext
<1> QED BY <1>2, <1>3, <1>4, <1>5

LEMMA CreationIsCreate ==
    ASSUME SwitchInv, SwitchInv', NEW c \in Coroutines, Created(c)
    PROVE  Abstract!Create(c)
<1>1. /\ c # Main /\ Main \in Coroutines /\ Owner = Main /\ Owner' = Main
      /\ blocks[c] = "none" /\ blocks' = [blocks EXCEPT ![c] = "live"]
      /\ blocks \in [Coroutines -> {"none", "live", "ended"}]
      /\ m_active = Main /\ m_active' = Main /\ regs' = regs /\ ~ InSwitch /\ ~ InSwitch'
  BY CodeIsRunning, Sizes DEF Created
<1>2. ASSUME NEW d \in Coroutines, d # c
      PROVE  ContextOf(d)' = ContextOf(d)
  <2>1. \A a \in Home(d) : mem'[a] = mem[a]
    BY <1>2, HomesApart, HomesInMemory DEF Created
  <2>2. CASE d = Main
    BY <1>1, <2>1, <2>2, MainStays
  <2>3. CASE d # Main
    <3>1. blocks'[d] = blocks[d] /\ Block(d)' = Block(d)
      BY <1>1, <1>2 DEF Created
    <3> QED BY <1>1, <2>1, <2>3, <3>1, IdleContext
  <2> QED BY <2>2, <2>3
<1>3. ContextOf(c)' = FreshContext[c]
  <2>1. ContextOf(c)' = Context(c, Block(c))'
    <3>1. blocks'[c] = "live" /\ ~ (InSwitch' /\ left'.by = c) /\ ~ (~ InSwitch' /\ m_active' = c)
      BY <1>1
    <3> QED BY <3>1 DEF ContextOf
  <2>2. Context(c, Block(c))' = ContextIn(c, Block(c)', mem')
    BY DEF Context, ContextIn
  <2>3. \A r \in Registers :
            Block(c)'[r] = CASE r = "rip" -> EntryAt [] r = "rdi" -> Arg(c)
                             [] r = "rsp" -> StackTop(c) [] OTHER -> 0
    BY DEF Created
  <2>4. Block(c)'["rsp"] = StackTop(c)
    BY <2>3, KeptRegisters
  <2>5. StackTop(c) - StackTop(c) = 0
    <3>1. StackTop(c) = Start(c) + g_stack_size
      BY <1>1 DEF StackTop
    <3> QED BY <3>1, Starts, Sizes
  <2>6. [i \in 1 .. StackTop(c) - Block(c)'["rsp"] |-> mem'[Block(c)'["rsp"] + i - 1]] = <<>>
    BY <2>4, <2>5
  <2>7. [r \in Kept |-> Block(c)'[r]] =
           [r \in Kept |-> CASE r = "rip" -> EntryAt [] r = "rdi" -> Arg(c)
                             [] r = "rsp" -> StackTop(c) [] OTHER -> 0]
    BY <2>3, KeptRegisters
  <2> QED BY <2>1, <2>2, <2>6, <2>7 DEF ContextIn, FreshContext
<1>4. ContextOf(c) = None
  BY <1>1, ContextOfIs
<1>5. allContexts' = [allContexts EXCEPT ![c] = FreshContext[c]] /\ allContexts[c] = None
  BY <1>2, <1>3, <1>4, AllContexts
<1> QED BY <1>1, <1>5 DEF Abstract!Create

LEMMA DeletionIsDelete ==
    ASSUME SwitchInv, SwitchInv', NEW c \in Coroutines, Deleted(c)
    PROVE  Abstract!Delete(c)
<1>1. /\ c # Main /\ Main \in Coroutines /\ Owner = Main /\ Owner' = Main
      /\ blocks[c] = "ended" /\ blocks' = [blocks EXCEPT ![c] = "none"]
      /\ blocks \in [Coroutines -> {"none", "live", "ended"}]
      /\ m_active = Main /\ m_active' = Main /\ regs' = regs /\ mem' = mem
      /\ ~ InSwitch /\ ~ InSwitch'
  BY CodeIsRunning, Sizes DEF Deleted
<1>2. ASSUME NEW d \in Coroutines, d # c
      PROVE  ContextOf(d)' = ContextOf(d)
  <2>1. CASE d = Main
    BY <1>1, <2>1, MainStays
  <2>2. CASE d # Main
    <3>1. blocks'[d] = blocks[d] /\ Block(d)' = Block(d)
      BY <1>1, <1>2 DEF Deleted
    <3> QED BY <1>1, <2>2, <3>1, IdleContext
  <2> QED BY <2>1, <2>2
<1>3. ContextOf(c)' = None
  <2>1. blocks'[c] = "none" /\ ~ (InSwitch' /\ left'.by = c) /\ ~ (~ InSwitch' /\ m_active' = c)
    BY <1>1
  <2> QED BY <2>1 DEF ContextOf
<1>4. ContextOf(c) # None
  BY <1>1, ContextOfIs
<1>5. allContexts' = [allContexts EXCEPT ![c] = None] /\ allContexts[c] # None
  BY <1>2, <1>3, <1>4, AllContexts
<1> QED BY <1>1, <1>5 DEF Abstract!Delete

(***************************************************************************)
(* The context switch implements contexts of the coroutines' own: the      *)
(* instructions up to the jump change no context, the jump goes on with    *)
(* the one of m_active as it left it, and CreateCoroutine makes that of a  *)
(* call of Entry(arg) on an empty stack.                                   *)
(***************************************************************************)
THEOREM SwitchRefinement == SwitchSpec => ImplementsContexts
<1>1. SwitchInit => Abstract!Init
  <2> SUFFICES ASSUME SwitchInit PROVE Abstract!Init
    OBVIOUS
  <2>1. SwitchInv
    BY SwitchInvInit
  <2>2. /\ blocks = [c \in Coroutines |-> IF c = Main THEN "live" ELSE "none"]
        /\ m_active = Main /\ left.by = Main
    BY DEF SwitchInit
  <2>3. Owner = Main
    BY <2>2 DEF Owner
  <2>4. \A c \in Coroutines : ContextOf(c) = None <=> c # Main
    BY <2>1, <2>2, ContextOfIs
  <2> QED BY <2>3, <2>4, AllContexts DEF Abstract!Init
<1>2. SwitchInv /\ SwitchInv' /\ [SwitchNext]_switchVars => [Abstract!Next]_(Abstract!vars)
  <2> SUFFICES ASSUME SwitchInv, SwitchInv', [SwitchNext]_switchVars
               PROVE  [Abstract!Next]_(Abstract!vars)
    OBVIOUS
  <2>1. CASE InSwitch /\ Goes
    BY <2>1, MiddleIsNoStep
  <2>2. CASE InSwitch /\ Jumps
    BY <2>2, JumpIsSwitch DEF Abstract!Next
  <2>3. CASE ~ InSwitch /\ StaysHome
    <3>1. Abstract!Runs
      BY <2>3, CodeIsRuns DEF StaysHome
    <3> QED BY <3>1 DEF Abstract!Next
  <2>4. ASSUME NEW c \in Coroutines, ~ InSwitch, Leaves(c)
        PROVE  Abstract!Next
    <3>1. Abstract!Runs
      BY <2>4, CodeIsRuns DEF Leaves, SameBlocks
    <3> QED BY <3>1 DEF Abstract!Next
  <2>5. ASSUME NEW c \in Coroutines, Created(c)
        PROVE  Abstract!Next
    BY <2>5, CreationIsCreate DEF Abstract!Next
  <2>6. ASSUME NEW c \in Coroutines, Deleted(c)
        PROVE  Abstract!Next
    BY <2>6, DeletionIsDelete DEF Abstract!Next
  <2>7. CASE UNCHANGED switchVars
    BY <2>7 DEF switchVars, Abstract!vars, allContexts, ContextOf, Context, Block, Owner, InSwitch
  <2> QED BY <2>1, <2>2, <2>3, <2>4, <2>5, <2>6, <2>7, EveryStep
<1> QED BY <1>1, <1>2, SwitchInvariant, PTL DEF SwitchSpec, ImplementsContexts, Abstract!Spec
=============================================================================
