------------------------------- MODULE Server -------------------------------
(***************************************************************************)
(* The server of test2/main2.cpp: clients connect, send packages (pb/head) *)
(* and close; NewReq and DoReadTcp (EventMgr.h) serve them; each request   *)
(* gets a coroutine that decodes it, waits and replies over the number of  *)
(* the client's descriptor.  It is the composition of the scheduler with   *)
(* its timeouts (CoroutineMgr), the connection table (FdMgr) and the       *)
(* receive buffer (MemData): a step is a step of each of them.             *)
(*                                                                         *)
(* A byte is the number of its place in what its client sends.  The length *)
(* prefix and the bodies are scaled down.  A batch of epoll_wait is        *)
(* handled event by event, and whether an event is in the batch is decided *)
(* when its turn comes.                                                    *)
(***************************************************************************)
EXTENDS CoroutineMgr, FdMgr, MemData

CONSTANTS Clients,     \* connections clients may make
          PrefixLen,   \* bytes of the length before a body: 4
          Packages,    \* client -> the lengths of the bodies it sends
          DefRecvSize, \* DEF_RECV_SIZE: 1024
          ReplyWait,   \* TIME_10_SECOND
          Window       \* replies the kernel takes for a client that does not read

ASSUME ServerAssumption ==
    /\ PrefixLen \in Nat \ {0}
    /\ Packages \in [Clients -> Seq(Nat)]
    /\ DefRecvSize \in PrefixLen .. MemWord - 1
    /\ ReplyWait \in Waits
    /\ Window \in Nat \ {0}
    /\ Fds \subseteq ClosedFds

VARIABLES client,      \* the connection of each client
          work,        \* coroutine -> its request and where process is
          replies      \* what each client was sent

clientVars == <<client, replies>>
serverVars == <<coroutineVars, fdVars, clientVars, work>>

(***************************************************************************)
(* state       queued for accept, open, gone (closed by DelFd)             *)
(* read        how many of the bytes it sends recv has taken               *)
(* shut        the client closed its end                                   *)
(* unread      replies it has not read                                     *)
(* requests    coroutines created for it                                   *)
(* whole       every recv so far took exactly one package                  *)
(***************************************************************************)
NewClient == [state |-> "queued", fd |-> NoFd, read |-> 0, shut |-> FALSE,
              unread |-> 0, requests |-> 0, whole |-> TRUE]

ServerInit ==
    /\ Init
    /\ FdInit
    /\ client = [n \in Clients |-> NewClient]
    /\ work = EmptyMap
    /\ replies = [n \in Clients |-> <<>>]

IsOpen(n) == client[n].state = "open"

\* Ends(n)[i]: the bytes a client sends up to the end of its i-th package.
Ends(n) ==
    LET end[i \in 0 .. Len(Packages[n])] ==
            IF i = 0 THEN 0 ELSE end[i - 1] + PrefixLen + Packages[n][i]
    IN  end

Sent(n) == Ends(n)[Len(Packages[n])]

\* The bytes of its i-th package.
Package(n, i) == [k \in 1 .. PrefixLen + Packages[n][i] |-> Ends(n)[i - 1] + k]
-----------------------------------------------------------------------------
(* tcprecv and HeadPkg::Check                                              *)

\* One recv into a new buffer.  It takes what has arrived of what was sent.
tcprecv(n) ==
    LET room == IF LeftSize(NewMem) <= DefRecvSize THEN Expand(NewMem, DefRecvSize)
                ELSE NewMem
        most == Min({LeftSize(room), Sent(n) - client[n].read})
    IN  {UpdateUse(Write(room, [i \in 1 .. len |-> client[n].read + i]), len) :
            len \in 1 .. most}

\* The lengths that the first PrefixLen bytes of the buffer may spell.  The
\* high bytes of a length are zero; the middle of a package can be anything.
Lengths(n, md) ==
    LET begun == {i \in DOMAIN Packages[n] : Package(n, i)[1] = md.m_data[1]}
    IN  IF begun = {} THEN 0 .. Size(md) + 1
        ELSE IF Size(md) < PrefixLen THEN {0} ELSE {Packages[n][i] : i \in begun}

\* Mutant: the prefix does not count.
CheckBodyOnly(reallen, len) == IF len = 0 \/ reallen > len THEN 0 ELSE reallen

Check(reallen, len) == IF len = 0 \/ reallen > len THEN 0 ELSE reallen + PrefixLen

\* The recv took exactly the next package.
TookOne(n, md) == \E i \in DOMAIN Packages[n] : Content(md) = Package(n, i)
-----------------------------------------------------------------------------
(* RunOnce: the events                                                     *)

\* NewReq.  At the limit accept fails, nothing changes, the client is queued.
EventAccept(n) ==
    /\ pc = "Dispatch"
    /\ client[n].state = "queued"
    /\ Accept
    /\ client' = [client EXCEPT ![n].state = "open", ![n].fd = NewFd]
    /\ UNCHANGED <<coroutineVars, replies, work>>

Readable(n) == pc = "Dispatch" /\ IsOpen(n) /\ client[n].read < Sent(n)

AfterRead(n, md) ==
    [client[n] EXCEPT !.read = @ + Size(md), !.whole = @ /\ TookOne(n, md)]

\* DoReadTcp: the check fails, what was read is dropped.
EventDrops(n) ==
    /\ Readable(n)
    /\ \E md \in tcprecv(n) :
       /\ \E len \in Lengths(n, md) : Check(len, Size(md)) = 0
       /\ client' = [client EXCEPT ![n] = AfterRead(n, md)]
    /\ UNCHANGED <<coroutineVars, fdVars, replies, work>>

\* Mutant: the coroutine is given the descriptor accepted last.
EventRequestLast(n) ==
    /\ Readable(n)
    /\ DispatchNewReq
    /\ \E md \in tcprecv(n) : \E len \in Lengths(n, md) :
       /\ Check(len, Size(md)) > 0
       /\ client' = [client EXCEPT ![n] = [AfterRead(n, md) EXCEPT !.requests = @ + 1]]
       /\ work' = MapPut(work, NextId,
                     [recvdata |-> Copy(NewMem, Bytes(md, Check(len, Size(md)))),
                      server_socket |-> Max({k.socket_fd : k \in Entries}), asker |-> n,
                      nth |-> client'[n].requests, whole |-> client'[n].whole,
                      at |-> "begin"])
    /\ UNCHANGED <<fdVars, replies>>

\* DoReadTcp: a package goes to a new coroutine, the rest is dropped.
EventRequest(n) ==
    /\ Readable(n)
    /\ DispatchNewReq
    /\ \E md \in tcprecv(n) : \E len \in Lengths(n, md) :
       /\ Check(len, Size(md)) > 0
       /\ client' = [client EXCEPT ![n] = [AfterRead(n, md) EXCEPT !.requests = @ + 1]]
       /\ work' = MapPut(work, NextId,
                     [recvdata |-> Copy(NewMem, Bytes(md, Check(len, Size(md)))),
                      server_socket |-> client[n].fd, asker |-> n,
                      nth |-> client'[n].requests, whole |-> client'[n].whole,
                      at |-> "begin"])
    /\ UNCHANGED <<fdVars, replies>>

\* Mutant: the listening socket is taken off the table.
EventClosedListener(n) ==
    /\ IsOpen(n) /\ client[n].shut
    /\ DispatchClose(client[n].fd)
    /\ Destroy(ListenFd) /\ UNCHANGED connecting
    /\ client' = [client EXCEPT ![n] = [NewClient EXCEPT !.state = "gone"]]
    /\ UNCHANGED <<replies, work>>

\* recv returns 0: DelFd.  What was sent but not read a reset has lost.
EventClosed(n) ==
    /\ IsOpen(n) /\ client[n].shut
    /\ DispatchClose(client[n].fd)
    /\ RemoteClose(client[n].fd)
    /\ client' = [client EXCEPT ![n] = [NewClient EXCEPT !.state = "gone"]]
    /\ UNCHANGED <<replies, work>>
-----------------------------------------------------------------------------
(* process, the callback                                                   *)

Running(at) == pc = "Callback" /\ work[m_active].at = at

\* Mutant: the timeout is armed but the coroutine does not leave.
ProcessWaitsNot ==
    /\ Running("begin")
    /\ timers' = SetTimer(timers, m_active, ReplyWait)
    /\ work' = [work EXCEPT ![m_active].at = "reply", ![m_active].recvdata = NewMem]
    /\ UNCHANGED <<now, m_idtonode, m_active, staticid, pc, iter, fdVars, clientVars>>

\* Decode succeeds: wait_ms.  The data is not read again.
ProcessWaits ==
    /\ Running("begin")
    /\ CallbackWait(ReplyWait)
    /\ work' = [work EXCEPT ![m_active].at = "reply", ![m_active].recvdata = NewMem]
    /\ UNCHANGED <<fdVars, clientVars>>

\* Decode or the body's ParseFromString fails.
ProcessRefuses ==
    /\ Running("begin")
    /\ CallbackEnd
    /\ UNCHANGED <<fdVars, clientVars, work>>

Holders(fd) == {n \in Clients : IsOpen(n) /\ client[n].fd = fd}

\* tcpsend to the descriptor, whoever has it now.  An accepted socket blocks,
\* so the thread stands still until the kernel takes the reply.
ProcessReplies ==
    /\ Running("reply")
    /\ \E n \in Holders(work[m_active].server_socket) :
       /\ client[n].unread < Window \/ client[n].shut
       /\ client' = [client EXCEPT ![n].unread = IF client[n].shut THEN @ ELSE @ + 1]
       /\ replies' = [replies EXCEPT ![n] =
             Append(@, [asker |-> work[m_active].asker, nth |-> work[m_active].nth])]
    /\ CallbackEnd
    /\ UNCHANGED <<fdVars, work>>

\* The descriptor is closed: send fails, process returns.
ProcessReplyFails ==
    /\ Running("reply")
    /\ Holders(work[m_active].server_socket) = {}
    /\ CallbackEnd
    /\ UNCHANGED <<fdVars, clientVars, work>>
-----------------------------------------------------------------------------
(* Clients and the network                                                 *)

\* recv takes any part of what is sent, so it is sent from the start.

Reads(n) ==
    /\ client[n].unread > 0 /\ ~ client[n].shut
    /\ client' = [client EXCEPT ![n].unread = @ - 1]

\* One that closed before accept is not told from one that does so after it.
Closes(n) ==
    /\ IsOpen(n) /\ ~ client[n].shut
    /\ client' = [client EXCEPT ![n].shut = TRUE, ![n].unread = 0]

\* The thread sees what a client does only in recv and send.
ClientStep(n) ==
    /\ pc \in {"Dispatch", "Callback"}
    /\ Reads(n) \/ Closes(n)
    /\ UNCHANGED <<coroutineVars, fdVars, replies, work>>

\* The thread reads the clock only in NextWaitTime and in a wait, and compares
\* it with deadlines only: it need not pass elsewhere, or with none ahead.
TimePasses ==
    /\ pc \in {"RunOnce", "Callback"}
    /\ \E id \in DOMAIN timers.m_id_to_expire : timers.m_id_to_expire[id] > now
    /\ Tick
    /\ UNCHANGED <<m_idtonode, m_active, staticid, pc, iter>>
    /\ UNCHANGED <<fdVars, clientVars, work>>
-----------------------------------------------------------------------------
ServerMain ==
    \/ /\ \/ RunOnceExpired \/ RunOnceWait \/ DispatchDone
          \/ ScheduleAllReady \/ ScheduleAllSkip \/ ScheduleAllDone
       /\ UNCHANGED <<fdVars, clientVars, work>>
    \/ /\ ScheduleAllEnd
       /\ work' = MapErase(work, iter)
       /\ UNCHANGED <<fdVars, clientVars>>

Process ==
    \/ EntryStart /\ UNCHANGED <<fdVars, clientVars, work>>
    \/ ProcessWaits \/ ProcessRefuses \/ ProcessReplies \/ ProcessReplyFails

ServerEvents ==
    \E n \in Clients : EventAccept(n) \/ EventDrops(n) \/ EventRequest(n) \/ EventClosed(n)

ServerNext ==
    \/ ServerMain \/ Process \/ ServerEvents \/ TimePasses
    \/ \E n \in Clients : ClientStep(n)

ServerSpec == ServerInit /\ [][ServerNext]_serverVars

\* As FairSpec of CoroutineMgr, and clients read what they are sent: send
\* blocks the thread for as long as one does not.
FairServerSpec ==
    /\ ServerSpec
    /\ WF_serverVars(ServerMain)
    /\ WF_serverVars(Process)
    /\ SF_serverVars(TimePasses)
    /\ \A n \in Clients :
          WF_serverVars(Reads(n) /\ UNCHANGED <<coroutineVars, fdVars, replies, work>>)
-----------------------------------------------------------------------------
ServerTypeOK ==
    /\ \A n \in Clients :
          LET c == client[n] IN
          /\ c.state \in {"queued", "open", "gone"}
          /\ c.fd \in Fds \cup {NoFd}
          /\ c.read \in 0 .. Sent(n)
          /\ c.unread \in 0 .. Window
          /\ c.requests \in Nat
          /\ {c.shut, c.whole} \subseteq BOOLEAN
          /\ replies[n] \in Seq([asker : Clients, nth : Nat])
    /\ DOMAIN work \ {Main} = Live
    /\ \A id \in Live : /\ work[id].server_socket \in Fds
                        /\ work[id].asker \in Clients
                        /\ work[id].at \in {"begin", "reply"}

(***************************************************************************)
(* The table has an entry for each open client and no other but the        *)
(* listening socket, and no two clients share a descriptor: DelFd closes   *)
(* the client that went away, whichever others come and go.                *)
(***************************************************************************)
EntriesAreClients ==
    /\ Entries = {FdQuery(ListenFd)} \cup {FdQuery(client[n].fd) : n \in {x \in Clients : IsOpen(x)}}
    /\ \A m, n \in Clients : IsOpen(m) /\ IsOpen(n) /\ client[m].fd = client[n].fd => m = n

(***************************************************************************)
(* A coroutine keeps the number of a descriptor, which may be another      *)
(* client's by the time it replies (EventMgr.h:434, main2.cpp:63).  That   *)
(* happens only when its own client has been closed: as long as it stays,  *)
(* a client gets all of its answers and nobody else does.                  *)
(***************************************************************************)
AnswersReachTheirAsker ==
    \A n \in Clients : \A i \in DOMAIN replies[n] :
        replies[n][i].asker # n => client[replies[n][i].asker].state = "gone"

(***************************************************************************)
(* A client's answers come in the order of its requests.  It needs that:   *)
(* Encode replaces the request's seq by the server's own (head.h:75), so   *)
(* the order is all that tells answers apart.  It holds because coroutines *)
(* start in id order, wait equally long and are due in the order of their  *)
(* deadlines and ids, while the clock is not set back and ids do not wrap. *)
(***************************************************************************)
RepliesInOrder ==
    \A n \in Clients : \A i, j \in DOMAIN replies[n] :
        i < j /\ replies[n][i].asker = replies[n][j].asker =>
            replies[n][i].nth < replies[n][j].nth

(***************************************************************************)
(* As long as every recv takes exactly one package, the k-th coroutine of  *)
(* a client gets exactly its k-th package (EventMgr.h:430).  A package in  *)
(* two segments, two in one, or one larger than DEF_RECV_SIZE end that.    *)
(***************************************************************************)
WholeReadsAreExact ==
    \A id \in Live :
        LET w == work[id] IN
        w.whole /\ w.at = "begin" => Content(w.recvdata) = Package(w.asker, w.nth)

(***************************************************************************)
(* The server is a run of the scheduler with its timeouts, and of the      *)
(* connection table: what is proved of them holds of it.                   *)
(***************************************************************************)
ImplementsScheduler == Spec
ImplementsFdTable   == FdSpec

(***************************************************************************)
(* A request that was decoded is answered, or its client has gone, though  *)
(* others come, go, send halves of packages and keep the table full; but   *)
(* not if the coroutine has the number of a descriptor (EventMgr.h:395).   *)
(***************************************************************************)
EveryRequestAnswered ==
    \A id \in (Ids \ Fds) \cup {ListenFd} :
        id \in DOMAIN work /\ work[id].at = "reply" ~>
            id \notin DOMAIN work \/ client[work[id].asker].state = "gone"
=============================================================================
