------------------------------ MODULE TcpCall -------------------------------
(***************************************************************************)
(* Calls to back ends: tcpconnect, tcpsend and tcpsendrecv (EventMgr.cpp)  *)
(* with the event loop that serves them (EventMgr.h: RunOnce, TcpConnect,  *)
(* DoReadTcp, NewReq, DelFd), over the connection table of FdMgr and the   *)
(* scheduling rules of CoroutineMgr: one coroutine runs until it waits,    *)
(* events come only between, ready coroutines run in id order.  A timeout  *)
(* may pass whenever it is armed.                                          *)
(*                                                                         *)
(* loc is where a coroutine's stack is:                                    *)
(*   user       in the callback, outside tcpsendrecv                       *)
(*   connect    in tcpconnect, after its WaitAndSchedule                   *)
(*   connected  there, the connect taken as done, its socket still in tcs  *)
(*   link       in tcpconnect, a connection at hand                        *)
(*   tcpsend    at the head of tcpsend's loop                              *)
(*   send       in tcpsend, after its WaitAndSchedule                      *)
(*   listen     in tcpsendrecv, tcpsend returned IO_OK                     *)
(*   recv       in tcpsendrecv, after its WaitAndSchedule                  *)
(***************************************************************************)
EXTENDS FdMgr, StdMap, Sequences

CONSTANTS Coroutines,  \* ids of the coroutines that may be created, in order
          MaxSeq       \* bound on the requests encoded (HeadPkg::id)

ASSUME CallAssumption ==
    /\ Coroutines \subseteq Nat \ {0}
    /\ MaxSeq \in Nat

VARIABLES co,          \* coroutine -> its state and the locals of its call
          timers,      \* the coroutines with a timeout armed
          m_active,    \* the coroutine that runs
          phase,       \* where main is in its loop
          batch,       \* the events of epoll_wait still to be handled
          epoll,       \* descriptor -> events asked for
          peer,        \* descriptor of a backend socket -> the connection
          lastSeq      \* HeadPkg::id

schedVars == <<timers, m_active, phase, batch>>
callVars  == <<fdVars, co, schedVars, epoll, peer, lastSeq>>

Main     == 0
NoOne    == 0          \* context_id of a connection nobody connects
NoAnswer == 0          \* an empty stSendRecv::data; requests count from 1

\* A data pointer is the key of its entry, null, or points to a destroyed one.
NoData   == [ip_port |-> NoAddr, socket_fd |-> NoFd]
Dangling == [ip_port |-> NoAddr, socket_fd |-> NoFd - 1]

NewData(fd_state, garbage) ==
    [fd_state |-> fd_state, context_id |-> NoOne, last_op_ret |-> garbage,
     check |-> FALSE, seq_to_coroutine |-> EmptyMap]

NewCo(m_state) == [m_state |-> m_state, loc |-> "user", seq |-> 0, fd |-> NoFd,
                   pdata |-> NoData, sent |-> FALSE]

Alive(c)   == co[c].m_state \in {"E_READY", "E_WAIT"}
Ready      == {c \in Coroutines : co[c].m_state = "E_READY"}
Unborn     == {c \in Coroutines : co[c].m_state = "none"}

CallInit ==
    /\ m_fd_to_data = [k \in {FdQuery(ListenFd)} |-> NewData("E_LISTEN", "IO_OK")]
    /\ connecting = {}
    /\ co = [c \in Coroutines |-> NewCo("none")]
    /\ timers = {}
    /\ m_active = Main
    /\ phase = "RunOnce"
    /\ batch = {}
    /\ epoll = [fd \in {ListenFd} |-> {"FD_READ"}]
    /\ peer = EmptyMap
    /\ lastSeq = 0
-----------------------------------------------------------------------------
(* epoll, sockets, and what a destroyed entry takes with it                *)

EpollAdd(fd, events) ==    \* EEXIST: the old registration stays
    IF fd \in DOMAIN epoll THEN epoll ELSE MapPut(epoll, fd, events)
EpollDel(fd) == MapErase(epoll, fd)

\* Descriptors nobody holds any more are closed and leave epoll.
KeepOpen(f) == [fd \in DOMAIN f \cap OpenFds' |-> f[fd]]

\* Pointers to the entries that this step destroys.
Dangle(cos) == [c \in Coroutines |->
    IF cos[c].pdata \in Entries \ Entries' THEN [cos[c] EXCEPT !.pdata = Dangling]
    ELSE cos[c]]

NewConnection(status) == [status |-> status, asked |-> {}, inbox |-> <<>>]
-----------------------------------------------------------------------------
(* The coroutine that runs                                                 *)

At(c, loc) == m_active = c /\ co[c].loc = loc

\* Mutant: the timeout is not armed.
WaitUntimed(c, loc) ==
    /\ co' = [co EXCEPT ![c].m_state = "E_WAIT", ![c].loc = loc]
    /\ m_active' = Main
    /\ UNCHANGED <<timers, phase, batch>>

\* WaitAndSchedule, to go on at loc.
Wait(c, loc) ==
    /\ co' = [co EXCEPT ![c].m_state = "E_WAIT", ![c].loc = loc]
    /\ timers' = timers \cup {c}
    /\ m_active' = Main
    /\ UNCHANGED <<phase, batch>>

GoTo(c, loc) ==
    /\ co' = [co EXCEPT ![c].loc = loc]
    /\ UNCHANGED schedVars

\* tcpsendrecv returns.
CallEnds(c) ==
    /\ co' = [co EXCEPT ![c] = NewCo("E_READY")]
    /\ UNCHANGED schedVars

Encode ==
    /\ lastSeq < MaxSeq
    /\ lastSeq' = lastSeq + 1

\* tcpconnect finds an entry for the address.
CallReuses(c, addr) ==
    /\ At(c, "user")
    /\ Encode
    /\ \E k \in Find(AddrQuery(addr)) :
          co' = [co EXCEPT ![c].loc = "link", ![c].seq = lastSeq', ![c].pdata = k,
                           ![c].fd = k.socket_fd]
    /\ UNCHANGED <<fdVars, schedVars, epoll, peer>>

\* None: a socket and a non-blocking connect.  last_op_ret is uninitialised.
CallConnects(c, addr) ==
    /\ At(c, "user")
    /\ Encode
    /\ Find(AddrQuery(addr)) = {}
    /\ FdsLeft
    /\ \E garbage \in {"IO_OK", "IO_ERR"} :
       LET key   == [ip_port |-> addr, socket_fd |-> NewFd]
           begun == [co EXCEPT ![c].seq = lastSeq', ![c].pdata = key, ![c].fd = NewFd]
       IN  \/ \* EINPROGRESS
              /\ Put(key, [NewData("E_CONNECT", garbage) EXCEPT !.check = TRUE,
                                                                !.context_id = c])
              /\ connecting' = connecting \cup {NewFd}
              /\ peer' = MapPut(peer, NewFd, NewConnection("connecting"))
              /\ epoll' = EpollAdd(NewFd, {"FD_READ", "FD_WRITE"})
              /\ co' = [begun EXCEPT ![c].m_state = "E_WAIT", ![c].loc = "connect"]
              /\ timers' = timers \cup {c}
              /\ m_active' = Main
              /\ UNCHANGED <<phase, batch>>
           \/ \* connected at once
              /\ Put(key, NewData("E_OTHER", garbage))
              /\ peer' = MapPut(peer, NewFd, NewConnection("established"))
              /\ co' = [begun EXCEPT ![c].loc = "link"]
              /\ UNCHANGED <<connecting, schedVars, epoll>>
           \/ \* another error: returns IO_ERR, a positive number, as descriptor;
              \* send on it fails and the entry stays
              /\ Put(key, NewData("E_OTHER", garbage))
              /\ peer' = MapPut(peer, NewFd, NewConnection("refused"))
              /\ UNCHANGED <<connecting, co, schedVars, epoll>>

\* No socket left: tcpconnect returns -1.
CallGetsNoSocket(c, addr) ==
    /\ At(c, "user")
    /\ Encode
    /\ Find(AddrQuery(addr)) = {}
    /\ ~ FdsLeft
    /\ UNCHANGED <<fdVars, co, schedVars, epoll, peer>>

\* After the wait of tcpconnect: last_op_ret decides.
ConnectSucceeds(c) ==
    /\ At(c, "connect")
    /\ co[c].pdata # Dangling
    /\ m_fd_to_data[co[c].pdata].last_op_ret = "IO_OK"
    /\ m_fd_to_data' = [m_fd_to_data EXCEPT ![co[c].pdata].context_id = NoOne]
    /\ epoll' = EpollDel(co[c].fd)
    /\ GoTo(c, "connected")
    /\ UNCHANGED <<connecting, peer, lastSeq>>

\* Mutant: the error return forgets epoll and the entry.
ConnectFailsKeepsEntry(c) ==
    /\ At(c, "connect")
    /\ co[c].pdata # Dangling
    /\ m_fd_to_data[co[c].pdata].last_op_ret # "IO_OK"
    /\ connecting' = connecting \ {co[c].fd}
    /\ CallEnds(c)
    /\ UNCHANGED <<m_fd_to_data, epoll, peer, lastSeq>>

ConnectFails(c) ==
    /\ At(c, "connect")
    /\ co[c].pdata # Dangling
    /\ m_fd_to_data[co[c].pdata].last_op_ret # "IO_OK"
    /\ LET left == [m_fd_to_data EXCEPT ![co[c].pdata].context_id = NoOne]
       IN  m_fd_to_data' = [k \in Entries \ Find(FdQuery(co[c].fd)) |-> left[k]]
    /\ connecting' = connecting \ {co[c].fd}
    /\ epoll' = KeepOpen(EpollDel(co[c].fd))
    /\ peer' = KeepOpen(peer)
    /\ co' = [Dangle(co) EXCEPT ![c] = NewCo("E_READY")]
    /\ UNCHANGED <<schedVars, lastSeq>>

\* Mutants of Link: data->Clear() is missing; or it clears the other calls too.
LinkUnmarked(c) ==
    /\ At(c, "link") \/ At(c, "connected")
    /\ m_fd_to_data' = [m_fd_to_data EXCEPT
          ![co[c].pdata].fd_state = "E_OTHER",
          ![co[c].pdata].seq_to_coroutine =
              MapPut(@, co[c].seq, [id |-> c, data |-> NoAnswer])]
    /\ connecting' = IF co[c].loc = "connected" THEN connecting \ {co[c].fd}
                     ELSE connecting
    /\ GoTo(c, "tcpsend")
    /\ UNCHANGED <<epoll, peer, lastSeq>>

LinkClearsAll(c) ==
    /\ At(c, "link") \/ At(c, "connected")
    /\ m_fd_to_data' = [m_fd_to_data EXCEPT
          ![co[c].pdata].fd_state = "E_OTHER",
          ![co[c].pdata].last_op_ret = "IO_OK",
          ![co[c].pdata].seq_to_coroutine =
              MapPut(EmptyMap, co[c].seq, [id |-> c, data |-> NoAnswer])]
    /\ connecting' = IF co[c].loc = "connected" THEN connecting \ {co[c].fd}
                     ELSE connecting
    /\ GoTo(c, "tcpsend")
    /\ UNCHANGED <<epoll, peer, lastSeq>>

\* The end of tcpconnect: the request is entered in seq_to_coroutine.
Link(c) ==
    /\ At(c, "link") \/ At(c, "connected")
    /\ m_fd_to_data' = [m_fd_to_data EXCEPT
          ![co[c].pdata].fd_state = "E_OTHER",
          ![co[c].pdata].last_op_ret = "IO_OK",
          ![co[c].pdata].seq_to_coroutine =
              MapPut(@, co[c].seq, [id |-> c, data |-> NoAnswer])]
    /\ connecting' = IF co[c].loc = "connected" THEN connecting \ {co[c].fd}
                     ELSE connecting
    /\ GoTo(c, "tcpsend")
    /\ UNCHANGED <<epoll, peer, lastSeq>>

\* send takes the whole request; a closed peer never sees it.
SendAll(c) ==
    /\ At(c, "tcpsend")
    /\ peer[co[c].fd].status \in {"established", "closed"}
    /\ peer' = IF peer[co[c].fd].status = "closed" THEN peer
               ELSE [peer EXCEPT ![co[c].fd].asked = @ \cup {co[c].seq}]
    /\ co' = [co EXCEPT ![c].loc = "listen", ![c].sent = TRUE]
    /\ UNCHANGED <<fdVars, schedVars, epoll, lastSeq>>

\* EAGAIN, after part of the request or before: wait to be able to write.
SendBlocks(c) ==
    /\ At(c, "tcpsend")
    /\ peer[co[c].fd].status \in {"connecting", "established"}
    /\ epoll' = EpollAdd(co[c].fd, {"FD_WRITE"})
    /\ Wait(c, "send")
    /\ UNCHANGED <<fdVars, peer, lastSeq>>

\* The timer has run out, or send reports an error.
SendFails(c) ==
    /\ At(c, "tcpsend")
    /\ CallEnds(c)
    /\ UNCHANGED <<fdVars, epoll, peer, lastSeq>>

\* After the wait tcpsend returns IO_OK.
SendGoesOn(c) ==
    /\ At(c, "send")
    /\ epoll' = EpollDel(co[c].fd)
    /\ GoTo(c, "listen")
    /\ UNCHANGED <<fdVars, peer, lastSeq>>

\* The only request of the connection starts listening; wait for the answer.
\* The size read from a destroyed entry may be anything.
Listen(c) ==
    /\ At(c, "listen")
    /\ LET listened == IF co[c].fd \in OpenFds THEN EpollAdd(co[c].fd, {"FD_READ"})
                       ELSE epoll
       IN  IF co[c].pdata = Dangling THEN epoll' \in {epoll, listened}
           ELSE epoll' = IF Cardinality(DOMAIN m_fd_to_data[co[c].pdata].seq_to_coroutine) = 1
                         THEN listened ELSE epoll
    /\ Wait(c, "recv")
    /\ UNCHANGED <<fdVars, peer, lastSeq>>

Received(c) == m_fd_to_data[co[c].pdata].seq_to_coroutine[co[c].seq].data

TakeAnswer(c) ==
    /\ At(c, "recv")
    /\ co[c].pdata # Dangling
    /\ Received(c) # NoAnswer
    /\ LET rest == MapErase(m_fd_to_data[co[c].pdata].seq_to_coroutine, co[c].seq)
       IN  /\ m_fd_to_data' = [m_fd_to_data EXCEPT ![co[c].pdata].seq_to_coroutine = rest]
           /\ epoll' = IF DOMAIN rest = {} THEN EpollDel(co[c].fd) ELSE epoll
    /\ CallEnds(c)
    /\ UNCHANGED <<connecting, peer, lastSeq>>

\* Nothing came: IO_ERR, the entry in seq_to_coroutine is left.
GiveUp(c) ==
    /\ At(c, "recv")
    /\ co[c].pdata # Dangling
    /\ Received(c) = NoAnswer
    /\ CallEnds(c)
    /\ UNCHANGED <<fdVars, epoll, peer, lastSeq>>

\* The destroyed entry is read and written: undefined.  Whatever is read, the
\* call ends: after a connect the descriptor in it is closed and send fails,
\* after an answer tcpsendrecv returns, perhaps leaving epoll.  What the
\* writes do to memory used again is not modelled.
UseDestroyed(c) ==
    /\ At(c, "connect") \/ At(c, "recv")
    /\ co[c].pdata = Dangling
    /\ connecting' = IF co[c].loc = "connect" THEN connecting \ {co[c].fd} ELSE connecting
    /\ UNCHANGED m_fd_to_data
    /\ \E left \in {EpollDel(co[c].fd)} \cup IF co[c].loc = "recv" THEN {epoll} ELSE {} :
          epoll' = KeepOpen(left)
    /\ peer' = KeepOpen(peer)
    /\ CallEnds(c)
    /\ UNCHANGED lastSeq

\* The callback waits for something else, or returns and is destroyed.
Sleep(c) ==
    /\ At(c, "user")
    /\ Wait(c, "user")
    /\ UNCHANGED <<fdVars, epoll, peer, lastSeq>>

Return(c) ==
    /\ At(c, "user")
    /\ co' = [co EXCEPT ![c].m_state = "E_END"]
    /\ m_active' = Main
    /\ UNCHANGED <<fdVars, timers, phase, batch, epoll, peer, lastSeq>>
-----------------------------------------------------------------------------
(* main: RunOnce and ScheduleAll                                           *)

InMain(ph) == m_active = Main /\ phase = ph

RunOnceExpired(c) ==
    /\ InMain("RunOnce")
    /\ c \in timers
    /\ co' = [co EXCEPT ![c].m_state = "E_READY"]
    /\ timers' = timers \ {c}
    /\ m_active' = c
    /\ phase' = "ScheduleAll"
    /\ UNCHANGED <<fdVars, batch, epoll, peer, lastSeq>>

Reportable(fd) ==
    \/ fd \notin DOMAIN peer
    \/ peer[fd].status = "refused"
    \/ "FD_READ" \in epoll[fd] /\ (peer[fd].inbox # <<>> \/ peer[fd].status = "closed")
    \/ "FD_WRITE" \in epoll[fd] /\ peer[fd].status # "connecting"

\* At most one event per descriptor; events may also be late.
EpollWait ==
    /\ InMain("RunOnce")
    /\ batch' \in SUBSET {fd \in DOMAIN epoll : Reportable(fd)}
    /\ phase' = "Dispatch"
    /\ UNCHANGED <<fdVars, co, timers, m_active, epoll, peer, lastSeq>>

RunOnceReturns ==
    /\ InMain("Dispatch")
    /\ batch = {}
    /\ phase' = "ScheduleAll"
    /\ UNCHANGED <<fdVars, co, timers, m_active, batch, epoll, peer, lastSeq>>

ScheduleAllRuns ==
    /\ InMain("ScheduleAll")
    /\ Ready # {}
    /\ m_active' = Min(Ready)
    /\ UNCHANGED <<fdVars, co, timers, phase, batch, epoll, peer, lastSeq>>

ScheduleAllDone ==
    /\ InMain("ScheduleAll")
    /\ Ready = {}
    /\ phase' = "RunOnce"
    /\ UNCHANGED <<fdVars, co, timers, m_active, batch, epoll, peer, lastSeq>>
-----------------------------------------------------------------------------
(* main: the events of a batch                                             *)

Event(fd) ==
    /\ InMain("Dispatch")
    /\ fd \in batch
    /\ batch' = batch \ {fd}
    /\ UNCHANGED <<m_active, phase, lastSeq>>

EventOf(fd, k) == Event(fd) /\ k \in Find(FdQuery(fd))

\* Mutant: the timeout is not dropped.
SetReadyKeepsTimer(c) ==
    /\ co' = [co EXCEPT ![c].m_state = "E_READY"]
    /\ UNCHANGED timers

SetReady(c) ==
    /\ co' = [co EXCEPT ![c].m_state = "E_READY"]
    /\ timers' = timers \ {c}

\* "unknow fd".
EventUnknown(fd) ==
    /\ Event(fd)
    /\ Find(FdQuery(fd)) = {}
    /\ epoll' = EpollDel(fd)
    /\ UNCHANGED <<fdVars, co, timers, peer>>

\* Mutant: the event loop itself drops a connection that was refused.
EventConnectDrops(fd, k) ==
    /\ EventOf(fd, k)
    /\ m_fd_to_data[k].fd_state = "E_CONNECT"
    /\ Destroy(fd)
    /\ UNCHANGED connecting
    /\ epoll' = KeepOpen(EpollDel(fd))
    /\ peer' = KeepOpen(peer)
    /\ co' = [Dangle(co) EXCEPT ![m_fd_to_data[k].context_id].m_state = "E_READY"]
    /\ timers' = timers \ {m_fd_to_data[k].context_id}

\* TcpConnect.
EventConnect(fd, k) ==
    /\ EventOf(fd, k)
    /\ m_fd_to_data[k].fd_state = "E_CONNECT"
    /\ m_fd_to_data' = [m_fd_to_data EXCEPT ![k].last_op_ret =
                           IF peer[fd].status = "refused" THEN "IO_ERR" ELSE "IO_OK"]
    /\ SetReady(m_fd_to_data[k].context_id)
    /\ UNCHANGED <<connecting, epoll, peer>>

\* NewReq; accept fails at the limit.
EventAccept(fd, k) ==
    /\ EventOf(fd, k)
    /\ m_fd_to_data[k].fd_state = "E_LISTEN"
    /\ \/ FdsLeft /\ Put(FdQuery(NewFd), NewData("E_SERVER_CONN", "IO_OK"))
                  /\ epoll' = EpollAdd(NewFd, {"FD_READ"})
       \/ UNCHANGED <<m_fd_to_data, epoll>>
    /\ UNCHANGED <<connecting, co, timers, peer>>

\* DoReadTcp on a client connection: a request, which gets a coroutine.
EventRequest(fd, k) ==
    /\ EventOf(fd, k)
    /\ m_fd_to_data[k].fd_state = "E_SERVER_CONN"
    /\ Unborn # {}
    /\ co' = [co EXCEPT ![Min(Unborn)] = NewCo("E_READY")]
    /\ UNCHANGED <<fdVars, timers, epoll, peer>>

\* DoReadTcp reads 0 bytes: DelFd, which also takes fd for a coroutine id.
EventClosed(fd, k) ==
    /\ EventOf(fd, k)
    /\ \/ m_fd_to_data[k].fd_state = "E_SERVER_CONN"
       \/ /\ m_fd_to_data[k].fd_state = "E_OTHER" /\ m_fd_to_data[k].check
          /\ "FD_READ" \in epoll[fd]
          /\ peer[fd].inbox = <<>>
          /\ peer[fd].status \in {"closed", "refused"}
    /\ Destroy(fd)
    /\ UNCHANGED connecting
    /\ timers' = timers \ {fd}
    /\ epoll' = KeepOpen(EpollDel(fd))
    /\ peer' = KeepOpen(peer)
    /\ co' = Dangle(co)

\* Mutant: the answer is put to whatever request is the oldest.
OldestRequest(k, seq) == {s \in DOMAIN m_fd_to_data[k].seq_to_coroutine :
    \A x \in DOMAIN m_fd_to_data[k].seq_to_coroutine : s <= x}

\* seq_to_coroutine.find(seq).
RequestOf(k, seq) == {seq} \cap DOMAIN m_fd_to_data[k].seq_to_coroutine

\* DoReadTcp on a backend connection.  recv may take several packages, the
\* first of which is used; its request may have been given up, or be gone.
EventAnswer(fd, k) ==
    /\ EventOf(fd, k)
    /\ m_fd_to_data[k].fd_state = "E_OTHER" /\ m_fd_to_data[k].check
    /\ "FD_READ" \in epoll[fd]
    /\ \E n \in 1 .. Len(peer[fd].inbox) :
          peer' = [peer EXCEPT ![fd].inbox = SubSeq(@, n + 1, Len(@))]
    /\ LET seq  == Head(peer[fd].inbox)
           mine == {s \in RequestOf(k, seq) :
                       Alive(m_fd_to_data[k].seq_to_coroutine[s].id)}
       IN  \/ \E s \in mine :
                 /\ m_fd_to_data' = [m_fd_to_data EXCEPT
                                        ![k].seq_to_coroutine[s].data = seq]
                 /\ SetReady(m_fd_to_data[k].seq_to_coroutine[s].id)
                 /\ UNCHANGED epoll
           \/ /\ mine = {}
              /\ epoll' = EpollDel(fd)
              /\ UNCHANGED <<m_fd_to_data, co, timers>>
    /\ UNCHANGED connecting

\* No check function (the connect never had to wait), only FD_WRITE asked for,
\* or a read error: nothing happens.
EventIgnored(fd, k) ==
    /\ EventOf(fd, k)
    /\ \/ m_fd_to_data[k].fd_state = "E_SERVER_CONN"
       \/ /\ m_fd_to_data[k].fd_state = "E_OTHER"
          /\ \/ ~ m_fd_to_data[k].check
             \/ "FD_READ" \notin epoll[fd]
             \/ peer[fd].inbox = <<>>
    /\ UNCHANGED <<fdVars, co, timers, epoll, peer>>
-----------------------------------------------------------------------------
(* The other side: connects, answers, closes, in its own time.             *)

PeerDecides(fd) ==
    /\ peer[fd].status = "connecting"
    /\ \E s \in {"established", "refused"} : peer' = [peer EXCEPT ![fd].status = s]

PeerAnswers(fd) ==
    /\ peer[fd].status = "established"
    /\ \E s \in peer[fd].asked :
          peer' = [peer EXCEPT ![fd].asked = @ \ {s}, ![fd].inbox = Append(@, s)]

PeerCloses(fd) ==
    /\ peer[fd].status = "established"
    /\ peer' = [peer EXCEPT ![fd].status = "closed"]

Peer ==
    /\ \E fd \in DOMAIN peer : PeerDecides(fd) \/ PeerAnswers(fd) \/ PeerCloses(fd)
    /\ UNCHANGED <<fdVars, co, schedVars, epoll, lastSeq>>
-----------------------------------------------------------------------------
CoroutineStep(c) ==
    \/ \E addr \in Addrs : \/ CallReuses(c, addr)
                          \/ CallConnects(c, addr)
                          \/ CallGetsNoSocket(c, addr)
    \/ ConnectSucceeds(c) \/ ConnectFails(c) \/ Link(c)
    \/ SendAll(c) \/ SendBlocks(c) \/ SendFails(c) \/ SendGoesOn(c)
    \/ Listen(c) \/ TakeAnswer(c) \/ GiveUp(c) \/ UseDestroyed(c)
    \/ Sleep(c) \/ Return(c)

EventStep(fd) ==
    \/ EventUnknown(fd)
    \/ \E k \in Entries :
          \/ EventConnect(fd, k) \/ EventAccept(fd, k) \/ EventRequest(fd, k)
          \/ EventClosed(fd, k) \/ EventAnswer(fd, k) \/ EventIgnored(fd, k)

MainStep ==
    \/ EpollWait \/ RunOnceReturns \/ ScheduleAllRuns \/ ScheduleAllDone
    \/ \E fd \in Fds : EventStep(fd)

CallNext ==
    \/ MainStep
    \/ \E c \in Coroutines : CoroutineStep(c) \/ RunOnceExpired(c)
    \/ Peer

CallSpec == CallInit /\ [][CallNext]_callVars

\* The thread runs, callbacks reach a wait or return, time passes; nothing is
\* asked of the peers.  RunOnce looks at the timeouts before it waits, so one
\* that is due is served whenever main comes round.
FairCallSpec ==
    /\ CallSpec
    /\ WF_callVars(MainStep)
    /\ \A c \in Coroutines : /\ WF_callVars(CoroutineStep(c))
                             /\ SF_callVars(RunOnceExpired(c))
-----------------------------------------------------------------------------
Locs == {"user", "connect", "connected", "link", "tcpsend", "send", "listen", "recv"}

CallTypeOK ==
    /\ Entries \subseteq Keys
    /\ \A k \in Entries :
          LET d == m_fd_to_data[k] IN
          /\ d.fd_state \in {"E_LISTEN", "E_SERVER_CONN", "E_OTHER", "E_CONNECT"}
          /\ d.context_id \in Coroutines \cup {NoOne}
          /\ d.last_op_ret \in {"IO_OK", "IO_ERR"}
          /\ d.check \in BOOLEAN
          /\ DOMAIN d.seq_to_coroutine \subseteq 1 .. lastSeq
    /\ connecting = {co[c].fd : c \in {x \in Coroutines : co[x].loc \in {"connect", "connected"}}}
    /\ \A c \in Coroutines :
          /\ co[c].m_state \in {"none", "E_READY", "E_WAIT", "E_END"}
          /\ co[c].loc \in Locs
          /\ co[c].pdata \in Entries \cup {NoData, Dangling}
    /\ timers \subseteq {c \in Coroutines : co[c].m_state = "E_WAIT"}
    /\ m_active \in {c \in Coroutines : co[c].m_state = "E_READY"} \cup {Main}
    /\ DOMAIN epoll \subseteq OpenFds
    /\ DOMAIN peer \subseteq OpenFds
    /\ batch \subseteq Fds

Table == INSTANCE FdMgr WITH
             m_fd_to_data <- [k \in Entries |-> m_fd_to_data[k].fd_state],
             connecting   <- connecting

(***************************************************************************)
(* Whatever calls, timeouts, answers and closes do, the connection table   *)
(* goes only through the steps of FdMgr, so what is shown there (distinct  *)
(* connections, exact lookups) holds for the real callers: tcpconnect may  *)
(* be resumed long after its entry was destroyed and still releases no     *)
(* descriptor and changes no entry but its own.                            *)
(***************************************************************************)
ImplementsFdTable == Table!FdSpec

(***************************************************************************)
(* A connect event makes nobody ready but the coroutine suspended in this  *)
(* very connect: context_id (EventMgr.h:186) is either that coroutine or 0 *)
(* (main, whose state nobody reads), however connects time out, give up    *)
(* and leave entries that lookups miss, and whoever takes an entry over.   *)
(***************************************************************************)
ConnectWakesItsWaiter ==
    \A k \in Entries :
        m_fd_to_data[k].context_id # NoOne =>
            \E c \in Coroutines : /\ c = m_fd_to_data[k].context_id
                                 /\ co[c].loc = "connect"
                                 /\ co[c].pdata = k

(***************************************************************************)
(* A call that waits on a connection that still exists has its request in  *)
(* seq_to_coroutine under its own id, so find(seq) (EventMgr.cpp:274) does *)
(* not return end(), which the code goes on to dereference.                *)
(***************************************************************************)
WaitersAreEntered ==
    \A c \in Coroutines :
        co[c].loc \in {"tcpsend", "send", "listen", "recv"} /\ co[c].pdata # Dangling =>
            /\ co[c].seq \in DOMAIN m_fd_to_data[co[c].pdata].seq_to_coroutine
            /\ m_fd_to_data[co[c].pdata].seq_to_coroutine[co[c].seq].id = c

(***************************************************************************)
(* An answer is only ever given to the request it answers, with several    *)
(* calls on one connection and answers in any order.                       *)
(***************************************************************************)
AnswersMatch ==
    \A k \in Entries : \A s \in DOMAIN m_fd_to_data[k].seq_to_coroutine :
        m_fd_to_data[k].seq_to_coroutine[s].data \in {NoAnswer, s}

(***************************************************************************)
(* The entry of a connection that is established is never destroyed while  *)
(* a call other than its connect uses it: a connect that gives up, even    *)
(* one that reads an uninitialised last_op_ret, spares a connection that   *)
(* others reuse.                                                           *)
(***************************************************************************)
LiveConnectionsStay ==
    [][\A c \in Coroutines :
          /\ co[c].pdata \in Entries \ Entries'
          /\ co[c].loc \notin {"connect", "connected"}
          => peer[co[c].fd].status \in {"closed", "refused"}]_callVars

(***************************************************************************)
(* A call ends, whatever the back end does or fails to do and although     *)
(* others use and destroy its connection: every wait on its way has a      *)
(* timeout that nothing but its own wake-up takes away.  A coroutine with  *)
(* the number of a descriptor is excepted: DelFd takes its timeout.        *)
(***************************************************************************)
EveryCallEnds ==
    \A c \in Coroutines \ Fds : co[c].loc # "user" ~> co[c].loc = "user"
-----------------------------------------------------------------------------
(* What the comments of the code say, and the code does not keep           *)

(***************************************************************************)
(* EventMgr.cpp:293: a connection is taken out of epoll when no coroutine  *)
(* is associated with it any more.  Here: when main does it, with the      *)
(* connection at hand.                                                     *)
(***************************************************************************)
UnlistenedHasNoWaiter ==
    [][\A fd \in DOMAIN epoll \ DOMAIN epoll' :
          m_active = Main /\ Find(FdQuery(fd)) # {} =>
          \A c \in Coroutines :
              ~ (/\ co'[c].loc = "recv" /\ co'[c].m_state = "E_WAIT"
                 /\ co'[c].fd = fd /\ co'[c].pdata \in Entries')]_callVars

(***************************************************************************)
(* EventMgr.h:467: an answer readies a coroutine that has started (and     *)
(* only has to be made ready because it waits for this answer).            *)
(***************************************************************************)
AnswerWakesItsWaiter ==
    [][\A c \in Coroutines : \A fd \in Fds : \A k \in Find(FdQuery(fd)) :
          /\ EventAnswer(fd, k)
          /\ co[c].m_state = "E_WAIT" /\ co'[c].m_state = "E_READY"
          => co[c].loc = "recv" /\ co[c].seq = Head(peer[fd].inbox)]_callVars

(***************************************************************************)
(* EventMgr.cpp:104-107, "send %zu ok": IO_OK means that the whole request *)
(* was sent; after a full buffer one may try again (128).                  *)
(***************************************************************************)
SendOkSentAll == \A c \in Coroutines : At(c, "listen") => co[c].sent
=============================================================================
