------------------------------- MODULE Switch -------------------------------
(***************************************************************************)
(* __SwitchCoroutine__ (lib/coroutine/switch.s) instruction by instruction *)
(* and CreateCoroutine (coroutine.c), on a machine of sixteen registers, a *)
(* rip and a memory of 8 byte words.  A block of calloc holds the context  *)
(* of a coroutine at its low end and its stack above, growing down to it;  *)
(* the stack of main is the thread's own.  What compiled code does between *)
(* two switches is left open, as long as it keeps to its own stack.        *)
(***************************************************************************)
EXTENDS Integers, Sequences, FiniteSetsExt

CONSTANTS Last,          \* coroutines are 1 .. Last; main is 0
          g_stack_size,  \* in words
          StackUse,      \* words a callback has on its stack at most
          Seeds          \* what code leaves in registers and frames

Main       == 0
Coroutines == Main .. Last

\* struct stRegister: the order of the registers in a block.
stRegister == <<"rax", "rbx", "rcx", "rdx", "rsi", "rdi", "r8", "r9", "r10", "r11",
                "r12", "r13", "r14", "r15", "rbp", "rsp", "rip">>
Registers  == {stRegister[i] : i \in DOMAIN stRegister}
OFFSET     == [r \in Registers |-> (CHOOSE i \in DOMAIN stRegister : stRegister[i] = r) - 1]

\* sizeof(struct stContext): the registers, arg and stack.
ContextSize == Len(stRegister) + 2

\* The stack grows down to the block, so it may not use the bottom of it.
ASSUME SwitchAssumption ==
    /\ Last \in Nat
    /\ StackUse \in Nat \ {0}
    /\ g_stack_size \in Nat /\ ContextSize + StackUse <= g_stack_size
    /\ Seeds \subseteq Nat

VARIABLES regs,      \* the registers
          mem,       \* the memory
          blocks,    \* coroutine -> none, live, ended (E_END)
          m_active,  \* the coroutine m_active points to
          left       \* history: who called the switch, with what context

switchVars == <<regs, mem, blocks, m_active, left>>

\* Addresses: the blocks side by side, then the stack of the thread.
AreaSize == g_stack_size + ContextSize
Start(c) == c * AreaSize
Area(c)  == Start(c) .. Start(c) + AreaSize - 1
Thread   == Start(Last + 1) .. Start(Last + 1) + StackUse - 1
Addrs    == 0 .. Start(Last + 1) + StackUse - 1

StackTop(c) == IF c = Main THEN Start(Last + 1) + StackUse ELSE Start(c) + g_stack_size

\* Numbers for what is not an address: places in the code, data, &m_req.
SwitchAt  == 1000
EntryAt   == 2000
CallAt(c) == 3000 + c
Arg(c)    == 4000 + c
Data(r, s) == 5000 + 1000 * m_active + 100 * s + OFFSET[r]
-----------------------------------------------------------------------------
(* switch.s                                                                *)

mov(src, dst)     == [op |-> "mov",  src |-> src, dst |-> dst, n |-> 0]
load(n, src, dst) == [op |-> "load", src |-> src, dst |-> dst, n |-> n]
add(n, dst)       == [op |-> "add",  src |-> dst, dst |-> dst, n |-> n]
push(src)         == [op |-> "push", src |-> src, dst |-> src, n |-> 0]
pushAt(src)       == [op |-> "pushAt", src |-> src, dst |-> src, n |-> 0]
pop(dst)          == [op |-> "pop",  src |-> dst, dst |-> dst, n |-> 0]
jmp(src)          == [op |-> "jmp",  src |-> src, dst |-> src, n |-> 0]

Each(instr(_), rs) == [i \in DOMAIN rs |-> instr(rs[i])]

Saved    == <<"rax", "rbp", "r15", "r14", "r13", "r12", "r11", "r10", "r9", "r8",
              "rdi", "rsi", "rdx", "rcx", "rbx", "rax">>
Restored == <<"rax", "rbx", "rcx", "rdx", "rsi", "rdi", "r8", "r9", "r10", "r11",
              "r12", "r13", "r14", "r15", "rbp">>

\* Mutants: the rsp of the call is kept, with the return address on it; the
\* block is entered at its low end.
ProgramKeepsReturn ==
       <<mov("rsp", "rax"), mov("rdi", "rsp"), add(17, "rsp"), pushAt("rax"), add(0, "rax")>>
    \o Each(push, Saved) \o <<mov("rsi", "rsp")>> \o Each(pop, Restored)
    \o <<load(1, "rsp", "rax"), pop("rsp"), jmp("rax")>>
ProgramNoAdd ==
       <<mov("rsp", "rax"), mov("rdi", "rsp"), add(0, "rsp"), pushAt("rax"), add(1, "rax")>>
    \o Each(push, Saved) \o <<mov("rsi", "rsp")>> \o Each(pop, Restored)
    \o <<load(1, "rsp", "rax"), pop("rsp"), jmp("rax")>>

Program ==
       <<mov("rsp", "rax"), mov("rdi", "rsp"), add(17, "rsp"), pushAt("rax"), add(1, "rax")>>
    \o Each(push, Saved) \o <<mov("rsi", "rsp")>> \o Each(pop, Restored)
    \o <<load(1, "rsp", "rax"), pop("rsp"), jmp("rax")>>

None       == [regs |-> <<>>, stack |-> <<>>]
NobodyLeft == [by |-> Main, context |-> None]

InSwitch == regs.rip \in {SwitchAt + i : i \in DOMAIN Program}

\* The registers with dst holding w, at the next instruction.
Put(dst, w) == [[regs EXCEPT !.rip = @ + 1] EXCEPT ![dst] = w]

\* A word goes on the stack, wherever rsp points.
Push(w) ==
    /\ mem' = [mem EXCEPT ![regs.rsp - 1] = w]
    /\ regs' = Put("rsp", regs.rsp - 1)

Execute(i) ==
    CASE i.op = "mov"    -> regs' = Put(i.dst, regs[i.src]) /\ UNCHANGED mem
      [] i.op = "add"    -> regs' = Put(i.dst, regs[i.dst] + i.n) /\ UNCHANGED mem
      [] i.op = "load"   -> regs' = Put(i.dst, mem[regs[i.src] + i.n]) /\ UNCHANGED mem
      [] i.op = "push"   -> Push(regs[i.src])
      [] i.op = "pushAt" -> Push(mem[regs[i.src]])
      [] i.op = "pop"    -> /\ regs' = [Put("rsp", regs.rsp + 1) EXCEPT ![i.dst] = mem[regs.rsp]]
                            /\ UNCHANGED mem
      [] i.op = "jmp"    -> regs' = [regs EXCEPT !.rip = regs[i.src]] /\ UNCHANGED mem

__SwitchCoroutine__ ==
    /\ InSwitch
    /\ Execute(Program[regs.rip - SwitchAt])
    /\ left' = IF InSwitch' THEN left ELSE NobodyLeft
    /\ UNCHANGED <<blocks, m_active>>
-----------------------------------------------------------------------------
(* Contexts                                                                *)

\* rax does not survive a call; everything else does here.
Kept == Registers \ {"rax"}

Context(c, r) == [regs  |-> [x \in Kept |-> r[x]],
                  stack |-> [i \in 1 .. StackTop(c) - r.rsp |-> mem[r.rsp + i - 1]]]

\* The context in the block of c.
Block(c) == [r \in Registers |-> mem[Start(c) + OFFSET[r]]]

\* The arguments of the call are loaded, the return address is on the stack.
Called(c, next) ==
    [regs EXCEPT !.rdi = Start(c), !.rsi = Start(next), !.rip = CallAt(c)]

Calls(c, next) ==
    /\ mem' = [mem EXCEPT ![regs.rsp - 1] = CallAt(c)]
    /\ regs' = [Called(c, next) EXCEPT !.rsp = @ - 1, !.rip = SwitchAt + 1]
    /\ left' = [by |-> c, context |-> Context(c, Called(c, next))]

\* CoroutineMgr::Init: main calls the switch to itself, which fills its block.
SwitchInit ==
    LET r == [x \in Registers |->
                 CASE x = "rsp" -> StackTop(Main) [] x = "rip" -> CallAt(Main)
                   [] x \in {"rdi", "rsi"} -> Start(Main) [] OTHER -> 0]
    IN  /\ regs = [r EXCEPT !.rsp = StackTop(Main) - 1, !.rip = SwitchAt + 1]
        /\ mem = [a \in Addrs |-> IF a = StackTop(Main) - 1 THEN CallAt(Main) ELSE 0]
        /\ blocks = [c \in Coroutines |-> IF c = Main THEN "live" ELSE "none"]
        /\ m_active = Main
        /\ left = [by |-> Main, context |-> [regs |-> [x \in Kept |-> r[x]], stack |-> <<>>]]
-----------------------------------------------------------------------------
(* The code between two switches                                           *)

Depth == StackTop(m_active) - regs.rsp

Running(c) == ~ InSwitch /\ m_active = c

\* Any register is used for anything.
Computes(s) ==
    /\ ~ InSwitch
    /\ regs' = [r \in Registers |-> IF r \in {"rsp", "rip"} THEN regs[r] ELSE Data(r, s)]
    /\ UNCHANGED <<mem, blocks, m_active, left>>

\* A frame is pushed, with room left for a return address.
Enters(s) ==
    /\ ~ InSwitch /\ Depth + 1 < StackUse
    /\ mem' = [mem EXCEPT ![regs.rsp - 1] = Data("rbp", s)]
    /\ regs' = [regs EXCEPT !.rsp = @ - 1]
    /\ UNCHANGED <<blocks, m_active, left>>

Returns ==
    /\ ~ InSwitch /\ Depth > 0
    /\ regs' = [regs EXCEPT !.rsp = @ + 1]
    /\ UNCHANGED <<mem, blocks, m_active, left>>

\* Mutant: the stack starts where the context does.
CreateAtStart(c) ==
    /\ Running(Main)
    /\ blocks[c] = "none"
    /\ blocks' = [blocks EXCEPT ![c] = "live"]
    /\ mem' = [a \in Addrs |->
                  IF a \notin Area(c) THEN mem[a]
                  ELSE CASE a = Start(c) + OFFSET["rip"] -> EntryAt
                         [] a = Start(c) + OFFSET["rdi"] -> Arg(c)
                         [] a = Start(c) + OFFSET["rsp"] -> Start(c)
                         [] OTHER -> 0]
    /\ UNCHANGED <<regs, m_active, left>>

\* CreateCoroutine: calloc, then the entry, its argument and the stack.
CreateCoroutine(c) ==
    /\ Running(Main)
    /\ blocks[c] = "none"
    /\ blocks' = [blocks EXCEPT ![c] = "live"]
    /\ mem' = [a \in Addrs |->
                  IF a \notin Area(c) THEN mem[a]
                  ELSE CASE a = Start(c) + OFFSET["rip"] -> EntryAt
                         [] a = Start(c) + OFFSET["rdi"] -> Arg(c)
                         [] a = Start(c) + OFFSET["rsp"] -> StackTop(c)
                         [] a = Start(c) + ContextSize - 2 -> Arg(c)
                         [] OTHER -> 0]
    /\ UNCHANGED <<regs, m_active, left>>

\* ScheduleAll destroys a node that has ended.
DeleteCoroutine(c) ==
    /\ Running(Main)
    /\ blocks[c] = "ended"
    /\ blocks' = [blocks EXCEPT ![c] = "none"]
    /\ UNCHANGED <<regs, mem, m_active, left>>

\* CoroutineMgr::Schedule: main runs a coroutine, or a coroutine goes back to
\* main; Entry marks it E_END before its last time.
Schedule(next) ==
    /\ m_active' = next
    /\ Calls(m_active, next)

MainRuns(c) ==
    /\ Running(Main) /\ c # Main
    /\ blocks[c] = "live"
    /\ Schedule(c)
    /\ UNCHANGED blocks

CoroutineLeaves(c) ==
    /\ Running(c) /\ c # Main
    /\ blocks' \in {blocks, [blocks EXCEPT ![c] = "ended"]}
    /\ Schedule(Main)

SwitchNext ==
    \/ __SwitchCoroutine__
    \/ Returns
    \/ \E s \in Seeds : Computes(s) \/ Enters(s)
    \/ \E c \in Coroutines :
          CreateCoroutine(c) \/ DeleteCoroutine(c) \/ MainRuns(c) \/ CoroutineLeaves(c)

SwitchSpec == SwitchInit /\ [][SwitchNext]_switchVars
-----------------------------------------------------------------------------
SwitchTypeOK ==
    /\ regs \in [Registers -> Nat]
    /\ regs.rsp \in Addrs \cup {StackTop(Main)}
    /\ InSwitch \/ regs.rip \in {EntryAt} \cup {CallAt(c) : c \in Coroutines}
    /\ mem \in [Addrs -> Nat]
    /\ blocks \in [Coroutines -> {"none", "live", "ended"}]
    /\ m_active \in Coroutines /\ left.by \in Coroutines

Owner == IF InSwitch THEN left.by ELSE m_active

(***************************************************************************)
(* No instruction and no callback writes outside the block of the          *)
(* coroutine that is running or leaving, and its stack: the pushes of the  *)
(* switch go through rsp while it points into a block (switch.s:13-35).    *)
(***************************************************************************)
WritesStayHome ==
    [][\A a \in Addrs :
          mem'[a] # mem[a] =>
             \/ a \in Area(Owner)
             \/ Owner = Main /\ a \in Thread
             \/ \E c \in Coroutines : blocks[c] # blocks'[c] /\ a \in Area(c)]_switchVars

FreshContext == [c \in Coroutines |->
    [regs  |-> [r \in Kept |-> CASE r = "rip" -> EntryAt [] r = "rdi" -> Arg(c)
                                 [] r = "rsp" -> StackTop(c) [] OTHER -> 0],
     stack |-> <<>>]]

\* In the middle of a switch the one that leaves is the one that runs.
ContextOf(c) ==
    CASE blocks[c] = "none"        -> None
      [] InSwitch /\ left.by = c   -> left.context
      [] ~ InSwitch /\ m_active = c -> Context(c, regs)
      [] OTHER                     -> Context(c, Block(c))

allContexts == [c \in Coroutines |-> ContextOf(c)]

Abstract == INSTANCE Contexts WITH Fresh <- FreshContext, running <- Owner, ctx <- allContexts

(***************************************************************************)
(* A coroutine that is switched to has the registers, stack and place it   *)
(* had when it left, or those of a call of Entry(arg) the first time: the  *)
(* offsets pushed and popped by switch.s are those of stRegister           *)
(* (coroutine.h:9), which CreateCoroutine fills by name.                   *)
(***************************************************************************)
ImplementsContexts == Abstract!Spec
=============================================================================
