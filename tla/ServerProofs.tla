---------------------------- MODULE ServerProofs ----------------------------
(***************************************************************************)
(* Proofs about the server for any number of clients, descriptors and      *)
(* requests, and any packages, in three parts: the composition is a run of *)
(* the scheduler and of the connection table, so their theorems hold of    *)
(* it, and replies reach nobody else as long as the client that asked is   *)
(* connected (WholeInv); a request that was read whole is a package of its *)
(* client (DataInv); replies come in the order of requests (OrderInv).     *)
(***************************************************************************)
EXTENDS Server, CoroutineMgrProofs, FdMgrProofs, MemDataProofs, SequenceTheorems

IsRecord(c) ==
    c = [state |-> c.state, fd |-> c.fd, read |-> c.read, shut |-> c.shut,
         unread |-> c.unread, requests |-> c.requests, whole |-> c.whole]

IsRequest(w) ==
    w = [recvdata |-> w.recvdata, server_socket |-> w.server_socket, asker |-> w.asker,
         nth |-> w.nth, whole |-> w.whole, at |-> w.at]

\* A client that is open holds a descriptor that is not the listening one.
ClientOK(c) ==
    /\ IsRecord(c)
    /\ c.state \in {"queued", "open", "gone"}
    /\ c.requests \in Nat
    /\ c.state = "open" => c.fd \in Fds \ {ListenFd}

ClientsOK ==
    /\ DOMAIN client = Clients
    /\ client = [n \in Clients |-> client[n]]
    /\ \A n \in Clients : ClientOK(client[n])

\* The number a coroutine holds is its client's, while that client is there.
SocketsOK ==
    \A id \in DOMAIN work :
        LET w == work[id] IN
        /\ w.asker \in Clients
        /\ w.nth \in Nat
        /\ client[w.asker].state # "queued"
        /\ IsOpen(w.asker) => client[w.asker].fd = w.server_socket

RepliesOK == replies \in [Clients -> Seq([asker : Clients, nth : Nat])]

ServerInv ==
    /\ FdInv /\ EntriesAreClients
    /\ ClientsOK /\ SocketsOK
    /\ RepliesOK /\ AnswersReachTheirAsker

\* Every coroutine has a request, so process finds it.
WholeInv == SchedulerInv /\ ServerInv /\ Live \subseteq DOMAIN work
-----------------------------------------------------------------------------
(* What the invariant says of each of its parts when a step leaves the     *)
(* connections as they are: the table, and the clients' states.            *)
SameConnections ==
    /\ UNCHANGED fdVars
    /\ DOMAIN client' = Clients
    /\ client' = [n \in Clients |-> client'[n]]
    /\ \A n \in Clients : /\ ClientOK(client'[n])
                          /\ client'[n].state = client[n].state
                          /\ client'[n].fd = client[n].fd

LEMMA SameConnectionsKeep ==
    ASSUME ServerInv, SameConnections
    PROVE  FdInv' /\ EntriesAreClients' /\ ClientsOK'
<1>1. FdInv'
  BY FdInvStep DEF ServerInv, SameConnections
<1>2. ClientsOK'
  BY DEF SameConnections, ClientsOK, ClientOK, IsRecord
<1>3. /\ Entries' = Entries
      /\ \A n \in Clients : IsOpen(n)' <=> IsOpen(n)
      /\ \A n \in Clients : client'[n].fd = client[n].fd
  BY DEF SameConnections, fdVars, Entries, IsOpen
<1>4. {x \in Clients : IsOpen(x)}' = {x \in Clients : IsOpen(x)}
  BY <1>3
<1>5. EntriesAreClients'
  BY <1>3, <1>4 DEF ServerInv, EntriesAreClients, FdQuery
<1> QED BY <1>1, <1>2, <1>5

(* The requests of a step are those there were, with what they hold.       *)
LEMMA SameSocketsKeep ==
    ASSUME ServerInv, SameConnections,
           \A id \in DOMAIN work' : /\ id \in DOMAIN work
                                    /\ work'[id].asker = work[id].asker
                                    /\ work'[id].nth = work[id].nth
                                    /\ work'[id].server_socket = work[id].server_socket
    PROVE  SocketsOK'
BY DEF ServerInv, SameConnections, SocketsOK, IsOpen

(* What is in replies.                                                     *)
LEMMA RepliesAreRecords ==
    ASSUME RepliesOK, NEW n \in Clients, NEW i \in DOMAIN replies[n]
    PROVE  replies[n][i].asker \in Clients /\ replies[n][i].nth \in Nat
<1>1. replies[n] \in Seq([asker : Clients, nth : Nat])
  BY DEF RepliesOK
<1>2. i \in 1 .. Len(replies[n])
  BY <1>1
<1>3. replies[n][i] \in [asker : Clients, nth : Nat]
  BY <1>1, <1>2, ElementOfSeq
<1> QED BY <1>3

(* Nothing is sent.                                                        *)
LEMMA SameRepliesKeep ==
    ASSUME ServerInv, SameConnections, UNCHANGED replies
    PROVE  RepliesOK' /\ AnswersReachTheirAsker'
<1>1. RepliesOK'
  BY DEF ServerInv, RepliesOK
<1>2. ASSUME NEW n \in Clients, NEW i \in DOMAIN replies[n]
      PROVE  replies[n][i].asker \in Clients
  BY RepliesAreRecords DEF ServerInv
<1>3. AnswersReachTheirAsker'
  BY <1>2 DEF ServerInv, SameConnections, AnswersReachTheirAsker
<1> QED BY <1>1, <1>3

(* Steps that leave clients, table and replies alone.                      *)
LEMMA NothingChangesConnections ==
    ASSUME ServerInv, UNCHANGED <<fdVars, client>>
    PROVE  SameConnections
BY DEF ServerInv, ClientsOK, SameConnections
-----------------------------------------------------------------------------
(* FdQuery tells descriptors apart.                                        *)
LEMMA QueriesDiffer ==
    ASSUME NEW a, NEW b, FdQuery(a) = FdQuery(b)
    PROVE  a = b
BY DEF FdQuery

(* accept: the new descriptor is nobody's, the entry is new.               *)
LEMMA AcceptAddsEntry ==
    ASSUME FdInv, Accept
    PROVE  /\ NewFd \in Fds
           /\ Entries' = Entries \cup {FdQuery(NewFd)}
           /\ FdQuery(NewFd) \notin Entries
<1>1. NewFd \in Fds /\ \A k \in Entries : k.socket_fd # NewFd
  BY NewFdIsFree DEF Accept
<1>2. FdQuery(NewFd).socket_fd = NewFd
  BY DEF FdQuery
<1>3. Find(FdQuery(NewFd)) = {}
  <2>1. \A k \in Find(FdQuery(NewFd)) : k \in Entries /\ k.socket_fd = NewFd
    BY <1>1, FindFdIsSound DEF FdInv, FdTypeOK, FindFdSound, Find
  <2> QED BY <1>1, <2>1
<1>4. Entries' = Entries \cup {FdQuery(NewFd)}
  BY <1>3 DEF Accept, Put, Entries
<1> QED BY <1>1, <1>2, <1>4

LEMMA AcceptKeeps ==
    ASSUME ServerInv, NEW n \in Clients, EventAccept(n)
    PROVE  ServerInv'
<1>1. /\ client[n].state = "queued" /\ Accept
      /\ client' = [client EXCEPT ![n].state = "open", ![n].fd = NewFd]
      /\ UNCHANGED <<replies, work>>
  BY DEF EventAccept
<1>2. /\ NewFd \in Fds
      /\ Entries' = Entries \cup {FdQuery(NewFd)}
      /\ FdQuery(NewFd) \notin Entries
  BY <1>1, AcceptAddsEntry DEF ServerInv
<1>3. /\ FdQuery(ListenFd) \in Entries
      /\ \A m \in Clients : IsOpen(m) => FdQuery(client[m].fd) \in Entries
  BY DEF ServerInv, EntriesAreClients
<1>4. /\ DOMAIN client = Clients
      /\ IsRecord(client[n])
      /\ client' = [m \in Clients |-> client'[m]]
      /\ \A m \in Clients \ {n} : client'[m] = client[m]
      /\ client'[n] = [client[n] EXCEPT !.state = "open", !.fd = NewFd]
  BY <1>1 DEF ServerInv, ClientsOK, ClientOK
<1>5. /\ client'[n].state = "open" /\ client'[n].fd = NewFd
      /\ client'[n].requests = client[n].requests /\ IsRecord(client'[n])
  BY <1>4 DEF IsRecord
<1>6. NewFd # ListenFd
  BY <1>2, <1>3
<1>7. ClientsOK'
  BY <1>2, <1>4, <1>5, <1>6 DEF ServerInv, ClientsOK, ClientOK, IsRecord
<1>8. FdInv'
  BY <1>1, FdInvStep DEF ServerInv, FdNext
<1>9. EntriesAreClients'
  <2>1. \A m \in Clients : IsOpen(m)' <=> m = n \/ IsOpen(m)
    BY <1>4, <1>5 DEF IsOpen
  <2>2. ~ IsOpen(n)
    BY <1>1 DEF IsOpen
  <2>3. ASSUME NEW m \in Clients, IsOpen(m)
        PROVE  client'[m].fd = client[m].fd /\ client[m].fd # NewFd
    BY <1>2, <1>3, <1>4, <2>2, <2>3
  <2>4. Entries' = {FdQuery(ListenFd)} \cup {FdQuery(client'[m].fd) : m \in {x \in Clients : IsOpen(x)'}}
    BY <1>2, <1>5, <2>1, <2>2, <2>3 DEF ServerInv, EntriesAreClients
  <2>5. \A k, m \in Clients : IsOpen(k)' /\ IsOpen(m)' /\ client'[k].fd = client'[m].fd => k = m
    BY <1>5, <2>1, <2>2, <2>3 DEF ServerInv, EntriesAreClients
  <2>6. FdQuery(ListenFd)' = FdQuery(ListenFd)
    BY DEF FdQuery
  <2> QED BY <2>4, <2>5, <2>6 DEF EntriesAreClients, FdQuery
<1>10. SocketsOK'
  BY <1>1, <1>4 DEF ServerInv, SocketsOK, IsOpen
<1>11. RepliesOK'
  BY <1>1 DEF ServerInv, RepliesOK
<1>12. AnswersReachTheirAsker'
  <2>1. \A m \in Clients : client[m].state = "gone" => client'[m].state = "gone"
    BY <1>1, <1>4
  <2> QED BY <1>1, <2>1, RepliesAreRecords DEF ServerInv, AnswersReachTheirAsker
<1> QED BY <1>7, <1>8, <1>9, <1>10, <1>11, <1>12 DEF ServerInv

(* DelFd: the entry of the client that closed goes, and no other.          *)
LEMMA ClosedKeeps ==
    ASSUME ServerInv, NEW n \in Clients, EventClosed(n)
    PROVE  ServerInv'
<1> DEFINE fd == client[n].fd
<1>1. /\ IsOpen(n) /\ RemoteClose(fd)
      /\ client' = [client EXCEPT ![n] = [NewClient EXCEPT !.state = "gone"]]
      /\ UNCHANGED <<replies, work>>
  BY DEF EventClosed
<1>2. fd \in Fds \ {ListenFd}
  BY <1>1 DEF ServerInv, ClientsOK, ClientOK, IsOpen
<1> HIDE DEF fd
<1>3. Find(FdQuery(fd)) = {FdQuery(fd)}
  <2>1. \A k \in Find(FdQuery(fd)) : k \in Entries /\ k.socket_fd = fd
    BY <1>2, FindFdIsSound DEF ServerInv, FdInv, FdTypeOK, FindFdSound, Find
  <2>2. \A k \in Entries : k = FdQuery(k.socket_fd)
    BY DEF ServerInv, EntriesAreClients, FdQuery
  <2>3. Find(FdQuery(fd)) # {}
    BY <1>1 DEF RemoteClose
  <2> QED BY <2>1, <2>2, <2>3
<1>4. Entries' = Entries \ {FdQuery(fd)}
  BY <1>1, <1>3 DEF RemoteClose, Destroy, Entries
<1>5. /\ DOMAIN client = Clients
      /\ client' = [m \in Clients |-> client'[m]]
      /\ \A m \in Clients \ {n} : client'[m] = client[m]
      /\ client'[n] = [NewClient EXCEPT !.state = "gone"]
  BY <1>1 DEF ServerInv, ClientsOK
<1>6. client'[n].state = "gone" /\ client'[n].requests = 0 /\ IsRecord(client'[n])
  BY <1>5 DEF NewClient, IsRecord
<1>7. ClientsOK'
  BY <1>5, <1>6 DEF ServerInv, ClientsOK, ClientOK, IsRecord
<1>8. FdInv'
  BY <1>1, <1>2, FdInvStep DEF ServerInv, FdNext
<1>9. EntriesAreClients'
  <2>1. \A m \in Clients : IsOpen(m)' <=> m # n /\ IsOpen(m)
    BY <1>5, <1>6 DEF IsOpen
  <2>2. \A m \in Clients \ {n} : IsOpen(m) => client'[m].fd = client[m].fd /\ client[m].fd # fd
    BY <1>1, <1>5 DEF ServerInv, EntriesAreClients, fd
  <2>3. \A a, b : FdQuery(a) = FdQuery(b) => a = b
    BY QueriesDiffer
  <2>4. Entries' = {FdQuery(ListenFd)} \cup {FdQuery(client'[m].fd) : m \in {x \in Clients : IsOpen(x)'}}
    BY <1>1, <1>2, <1>4, <2>1, <2>2, <2>3 DEF ServerInv, EntriesAreClients, fd
  <2>5. \A k, m \in Clients : IsOpen(k)' /\ IsOpen(m)' /\ client'[k].fd = client'[m].fd => k = m
    BY <2>1, <2>2 DEF ServerInv, EntriesAreClients
  <2> QED BY <2>4, <2>5 DEF EntriesAreClients, FdQuery
<1>10. SocketsOK'
  BY <1>1, <1>5, <1>6 DEF ServerInv, SocketsOK, IsOpen
<1>11. RepliesOK'
  BY <1>1 DEF ServerInv, RepliesOK
<1>12. AnswersReachTheirAsker'
  <2>1. \A m \in Clients : client[m].state = "gone" => client'[m].state = "gone"
    BY <1>5, <1>6
  <2> QED BY <1>1, <2>1, RepliesAreRecords DEF ServerInv, AnswersReachTheirAsker
<1> QED BY <1>7, <1>8, <1>9, <1>10, <1>11, <1>12 DEF ServerInv
-----------------------------------------------------------------------------
(* AfterRead changes how far a client is read and whether it is whole.      *)
LEMMA AfterReadKeeps ==
    ASSUME NEW n, IsRecord(client[n]), NEW md, NEW d, d = AfterRead(n, md)
    PROVE  /\ d.state = client[n].state /\ d.fd = client[n].fd
           /\ d.requests = client[n].requests
           /\ d.shut = client[n].shut /\ d.unread = client[n].unread
           /\ d.read = client[n].read + Size(md)
           /\ d.whole = (client[n].whole /\ TookOne(n, md))
           /\ IsRecord(d)
<1> DEFINE r == client[n].read + Size(md)
           w == client[n].whole /\ TookOne(n, md)
<1>1. d = [client[n] EXCEPT !.read = r, !.whole = w]
  BY Zenon DEF AfterRead
<1>2. PICK c : c = client[n]
  OBVIOUS
<1>3. PICK x, y : x = r /\ y = w
  OBVIOUS
<1> HIDE DEF r, w
<1>4. d = [c EXCEPT !.read = x, !.whole = y] /\ IsRecord(c)
  BY <1>1, <1>2, <1>3
<1>5. /\ d.state = c.state /\ d.fd = c.fd /\ d.requests = c.requests
      /\ d.shut = c.shut /\ d.unread = c.unread /\ d.read = x /\ IsRecord(d)
  BY <1>4 DEF IsRecord
<1>6. d.whole = y
  BY <1>4 DEF IsRecord
<1>7. d.whole = w /\ d.read = r
  BY <1>3, <1>5, <1>6
<1> QED BY <1>2, <1>5, <1>7 DEF r, w

(* recv moves the place in what a client sends and counts requests.        *)
LEMMA ReadsKeepConnections ==
    ASSUME ServerInv, NEW n \in Clients, NEW md, NEW k \in Nat, UNCHANGED fdVars,
           client' = [client EXCEPT ![n] = [AfterRead(n, md) EXCEPT !.requests = k]]
    PROVE  SameConnections /\ client'[n].requests = k
<1>1. DOMAIN client = Clients /\ ClientOK(client[n])
  BY DEF ServerInv, ClientsOK
<1>2. /\ DOMAIN client' = Clients
      /\ client' = [m \in Clients |-> client'[m]]
      /\ \A m \in Clients \ {n} : client'[m] = client[m]
      /\ client'[n] = [AfterRead(n, md) EXCEPT !.requests = k]
  BY <1>1
<1> DEFINE after == AfterRead(n, md)
<1>3. /\ after.state = client[n].state /\ after.fd = client[n].fd
      /\ IsRecord(after)
  BY <1>1, AfterReadKeeps DEF ClientOK
<1> HIDE DEF after
<1>4. /\ client'[n].state = client[n].state /\ client'[n].fd = client[n].fd
      /\ client'[n].requests = k /\ IsRecord(client'[n])
  BY <1>2, <1>3 DEF IsRecord, after
<1>5. ClientOK(client'[n])
  BY <1>1, <1>4 DEF ClientOK
<1> QED BY <1>2, <1>4, <1>5 DEF SameConnections, ServerInv, ClientsOK

(* The check fails: nothing but the place changes.                         *)
LEMMA DropsKeep ==
    ASSUME ServerInv, NEW n \in Clients, EventDrops(n)
    PROVE  ServerInv'
<1>1. PICK md \in tcprecv(n) : client' = [client EXCEPT ![n] = AfterRead(n, md)]
  BY DEF EventDrops
<1>2. ClientOK(client[n]) /\ UNCHANGED <<fdVars, replies, work>>
  BY DEF EventDrops, ServerInv, ClientsOK
<1> DEFINE after == AfterRead(n, md)
<1>3. after = [after EXCEPT !.requests = client[n].requests]
  BY <1>2, AfterReadKeeps DEF ClientOK, IsRecord
<1> HIDE DEF after
<1>4. client' = [client EXCEPT ![n] = [after EXCEPT !.requests = client[n].requests]]
  BY <1>1, <1>3 DEF after
<1>5. SameConnections
  BY <1>2, <1>4, ReadsKeepConnections DEF ClientOK, after
<1> QED BY <1>2, <1>5, SameConnectionsKeep, SameSocketsKeep, SameRepliesKeep DEF ServerInv

(* A request: the coroutine gets the descriptor its client has now.        *)
LEMMA RequestEffect ==
    ASSUME ServerInv, NEW n \in Clients, EventRequest(n)
    PROVE  /\ SameConnections /\ UNCHANGED replies /\ IsOpen(n)
           /\ client'[n].requests = client[n].requests + 1
           /\ \A m \in Clients \ {n} : client'[m] = client[m]
           /\ DOMAIN work' = DOMAIN work \cup {NextId}
           /\ \A id \in DOMAIN work \ {NextId} : work'[id] = work[id]
           /\ work'[NextId].asker = n /\ work'[NextId].server_socket = client[n].fd
           /\ work'[NextId].nth = client'[n].requests /\ work'[NextId].at = "begin"
           /\ IsRequest(work'[NextId])
<1>1. PICK md \in tcprecv(n) : \E len \in Lengths(n, md) :
        /\ client' = [client EXCEPT ![n] = [AfterRead(n, md) EXCEPT !.requests = @ + 1]]
        /\ work' = MapPut(work, NextId,
                     [recvdata |-> Copy(NewMem, Bytes(md, Check(len, Size(md)))),
                      server_socket |-> client[n].fd, asker |-> n,
                      nth |-> client'[n].requests, whole |-> client'[n].whole,
                      at |-> "begin"])
  BY DEF EventRequest
<1>2. PICK data, whole :
        work' = MapPut(work, NextId,
                     [recvdata |-> data, server_socket |-> client[n].fd, asker |-> n,
                      nth |-> client'[n].requests, whole |-> whole, at |-> "begin"])
  BY <1>1, Zenon
<1>3. ClientOK(client[n]) /\ IsOpen(n) /\ UNCHANGED <<fdVars, replies>>
  BY DEF EventRequest, Readable, ServerInv, ClientsOK
<1> DEFINE after == AfterRead(n, md)
<1>4. after.requests = client[n].requests
  BY <1>3, AfterReadKeeps DEF ClientOK
<1>5. client' = [client EXCEPT ![n] = [after EXCEPT !.requests = after.requests + 1]]
  BY <1>1
<1> HIDE DEF after
<1>6. client' = [client EXCEPT ![n] = [after EXCEPT !.requests = client[n].requests + 1]]
  BY <1>4, <1>5
<1>7. SameConnections /\ client'[n].requests = client[n].requests + 1
  <2>1. client[n].requests + 1 \in Nat
    BY <1>3 DEF ClientOK
  <2>2. client' = [client EXCEPT ![n] = [AfterRead(n, md) EXCEPT !.requests = client[n].requests + 1]]
    BY <1>6 DEF after
  <2> QED BY <1>3, <2>1, <2>2, ReadsKeepConnections
<1>8. \A m \in Clients \ {n} : client'[m] = client[m]
  BY <1>6 DEF ServerInv, ClientsOK
<1>9. /\ DOMAIN work' = DOMAIN work \cup {NextId}
      /\ \A id \in DOMAIN work \ {NextId} : work'[id] = work[id]
      /\ work'[NextId].asker = n /\ work'[NextId].server_socket = client[n].fd
      /\ work'[NextId].nth = client'[n].requests /\ work'[NextId].at = "begin"
      /\ IsRequest(work'[NextId])
  BY <1>2 DEF MapPut, IsRequest
<1> QED BY <1>3, <1>7, <1>8, <1>9

LEMMA RequestKeeps ==
    ASSUME ServerInv, NEW n \in Clients, EventRequest(n)
    PROVE  ServerInv'
<1>1. ClientOK(client[n]) /\ IsOpen(n)
  BY DEF EventRequest, Readable, ServerInv, ClientsOK
<1>2. SocketsOK'
  <2> SUFFICES ASSUME NEW id \in DOMAIN work'
               PROVE  LET w == work'[id] IN
                      /\ w.asker \in Clients
                      /\ w.nth \in Nat
                      /\ client'[w.asker].state # "queued"
                      /\ client'[w.asker].state = "open" =>
                             client'[w.asker].fd = w.server_socket
    BY DEF SocketsOK, IsOpen
  <2>1. CASE id = NextId
    <3>1. /\ work'[id].asker = n /\ work'[id].server_socket = client[n].fd
          /\ work'[id].nth = client'[n].requests
      BY <2>1, RequestEffect
    <3> QED BY <1>1, <3>1, RequestEffect DEF SameConnections, ClientOK, IsOpen
  <2>2. CASE id # NextId
    <3>1. id \in DOMAIN work /\ work'[id] = work[id]
      BY <2>2, RequestEffect
    <3> QED BY <3>1, RequestEffect DEF SameConnections, ServerInv, SocketsOK, IsOpen
  <2> QED BY <2>1, <2>2
<1> QED BY <1>2, RequestEffect, SameConnectionsKeep, SameRepliesKeep DEF ServerInv

(* A coroutine moves on or is destroyed; clients and replies stay.         *)
LEMMA QuietStepsKeep ==
    ASSUME ServerInv, UNCHANGED <<fdVars, clientVars>>,
           \A id \in DOMAIN work' : /\ id \in DOMAIN work
                                    /\ work'[id].asker = work[id].asker
                                    /\ work'[id].nth = work[id].nth
                                    /\ work'[id].server_socket = work[id].server_socket
    PROVE  ServerInv'
<1>1. UNCHANGED <<fdVars, client, replies>>
  BY DEF clientVars
<1>2. SameConnections
  BY <1>1, NothingChangesConnections
<1> QED BY <1>1, <1>2, SameConnectionsKeep, SameSocketsKeep, SameRepliesKeep DEF ServerInv

(* wait_ms keeps what the request holds.                                   *)
LEMMA ProcessWaitsKeeps ==
    ASSUME ServerInv, ProcessWaits
    PROVE  ServerInv'
<1>1. /\ work' = [work EXCEPT ![m_active].at = "reply", ![m_active].recvdata = NewMem]
      /\ UNCHANGED <<fdVars, clientVars>>
  BY DEF ProcessWaits
<1>2. \A id \in DOMAIN work' : /\ id \in DOMAIN work
                              /\ work'[id].asker = work[id].asker
                              /\ work'[id].nth = work[id].nth
                              /\ work'[id].server_socket = work[id].server_socket
  BY <1>1
<1> QED BY <1>1, <1>2, QuietStepsKeep

(* What a client does is no change of its connection.                      *)
LEMMA ClientStepKeeps ==
    ASSUME ServerInv, NEW n \in Clients, ClientStep(n)
    PROVE  ServerInv'
<1>1. /\ UNCHANGED <<fdVars, replies, work>>
      /\ \/ client' = [client EXCEPT ![n].unread = @ - 1]
         \/ client' = [client EXCEPT ![n].shut = TRUE, ![n].unread = 0]
  BY DEF ClientStep, Reads, Closes
<1>2. DOMAIN client = Clients /\ ClientOK(client[n])
  BY DEF ServerInv, ClientsOK
<1>3. /\ DOMAIN client' = Clients /\ client' = [m \in Clients |-> client'[m]]
      /\ \A m \in Clients \ {n} : client'[m] = client[m]
      /\ \/ client'[n] = [client[n] EXCEPT !.unread = @ - 1]
         \/ client'[n] = [client[n] EXCEPT !.shut = TRUE, !.unread = 0]
  BY <1>1, <1>2
<1>4. /\ client'[n].state = client[n].state /\ client'[n].fd = client[n].fd
      /\ client'[n].requests = client[n].requests /\ IsRecord(client'[n])
  BY <1>2, <1>3 DEF ClientOK, IsRecord
<1>5. SameConnections
  BY <1>1, <1>2, <1>3, <1>4 DEF SameConnections, ServerInv, ClientsOK, ClientOK
<1> QED BY <1>1, <1>5, SameConnectionsKeep, SameSocketsKeep, SameRepliesKeep DEF ServerInv
-----------------------------------------------------------------------------
(* What a reply changes: one client has one more to read.                  *)
LEMMA ReplyEffect ==
    ASSUME WholeInv, ProcessReplies
    PROVE  /\ m_active \in DOMAIN work /\ UNCHANGED <<fdVars, work>>
           /\ SameConnections
           /\ \A m \in Clients : client'[m].requests = client[m].requests
           /\ \E n \in Clients :
                 /\ IsOpen(n) /\ client[n].fd = work[m_active].server_socket
                 /\ client[n].unread < Window \/ client[n].shut
                 /\ client' = [client EXCEPT ![n].unread = IF client[n].shut THEN @ ELSE @ + 1]
                 /\ replies' = [replies EXCEPT ![n] =
                       Append(@, [asker |-> work[m_active].asker, nth |-> work[m_active].nth])]
<1>1. m_active \in DOMAIN work
  BY DEF ProcessReplies, Running, WholeInv, SchedulerInv, TypeOK, BlocksBelongToOwners,
         MainLabels, Live
<1>2. PICK n \in Holders(work[m_active].server_socket) :
        /\ client[n].unread < Window \/ client[n].shut
        /\ client' = [client EXCEPT ![n].unread = IF client[n].shut THEN @ ELSE @ + 1]
        /\ replies' = [replies EXCEPT ![n] =
              Append(@, [asker |-> work[m_active].asker, nth |-> work[m_active].nth])]
  BY DEF ProcessReplies
<1>3. UNCHANGED <<fdVars, work>>
  BY DEF ProcessReplies
<1>4. n \in Clients /\ IsOpen(n) /\ client[n].fd = work[m_active].server_socket
  BY <1>2 DEF Holders
<1>5. DOMAIN client = Clients /\ ClientOK(client[n])
  BY <1>4 DEF WholeInv, ServerInv, ClientsOK
<1>6. PICK u : client' = [client EXCEPT ![n].unread = u]
  BY <1>2
<1>7. /\ DOMAIN client' = Clients /\ client' = [m \in Clients |-> client'[m]]
      /\ \A m \in Clients \ {n} : client'[m] = client[m]
      /\ client'[n] = [client[n] EXCEPT !.unread = u]
  BY <1>4, <1>5, <1>6
<1>8. /\ client'[n].state = client[n].state /\ client'[n].fd = client[n].fd
      /\ client'[n].requests = client[n].requests /\ IsRecord(client'[n])
  BY <1>5, <1>7 DEF ClientOK, IsRecord
<1>9. SameConnections
  BY <1>3, <1>4, <1>5, <1>7, <1>8
     DEF SameConnections, WholeInv, ServerInv, ClientsOK, ClientOK
<1> QED BY <1>1, <1>2, <1>3, <1>4, <1>7, <1>8, <1>9

(* What is in replies after one was sent.                                  *)
LEMMA RepliesAfter ==
    ASSUME RepliesOK, NEW n \in Clients, NEW rep,
           replies' = [replies EXCEPT ![n] = Append(@, rep)],
           NEW m \in Clients, NEW i \in DOMAIN replies'[m]
    PROVE  \/ i \in DOMAIN replies[m] /\ replies'[m][i] = replies[m][i]
           \/ m = n /\ i = Len(replies[n]) + 1 /\ replies'[m][i] = rep
<1>1. CASE m # n
  BY <1>1 DEF RepliesOK
<1>2. CASE m = n
  <2>1. replies'[m] = Append(replies[m], rep) /\ replies[m] \in Seq([asker : Clients, nth : Nat])
    BY <1>2 DEF RepliesOK
  <2> QED BY <1>2, <2>1
<1> QED BY <1>1, <1>2

(* The reply goes to whoever holds the number now; if the client that      *)
(* asked is still there, that is this client and nobody else.              *)
LEMMA ReplyKeeps ==
    ASSUME WholeInv, ProcessReplies
    PROVE  ServerInv'
<1> DEFINE w == work[m_active]
<1>1. m_active \in DOMAIN work
  BY ReplyEffect
<1>2. PICK n \in Clients :
        /\ IsOpen(n) /\ client[n].fd = w.server_socket
        /\ replies' = [replies EXCEPT ![n] = Append(@, [asker |-> w.asker, nth |-> w.nth])]
  BY ReplyEffect
<1>3. UNCHANGED <<fdVars, work>>
  BY ReplyEffect
<1>4. /\ w.asker \in Clients /\ w.nth \in Nat
      /\ client[w.asker].state # "queued"
      /\ IsOpen(w.asker) => client[w.asker].fd = w.server_socket
  BY <1>1 DEF WholeInv, ServerInv, SocketsOK
<1> HIDE DEF w
<1>5. n \in Clients /\ IsOpen(n) /\ client[n].fd = w.server_socket
  BY <1>2
<1>6. IsOpen(w.asker) => w.asker = n
  BY <1>4, <1>5 DEF WholeInv, ServerInv, EntriesAreClients
<1>7. w.asker # n => client[w.asker].state = "gone"
  BY <1>4, <1>6 DEF WholeInv, ServerInv, ClientsOK, ClientOK, IsOpen
<1>8. SameConnections
  BY ReplyEffect
<1>9. FdInv' /\ EntriesAreClients' /\ ClientsOK' /\ SocketsOK'
  BY <1>3, <1>8, SameConnectionsKeep, SameSocketsKeep DEF WholeInv
<1> DEFINE rep == [asker |-> w.asker, nth |-> w.nth]
<1>10. rep \in [asker : Clients, nth : Nat] /\ rep.asker = w.asker
  BY <1>4
<1>11. replies' = [replies EXCEPT ![n] = Append(replies[n], rep)]
  BY <1>2
<1> HIDE DEF rep
<1>12. replies \in [Clients -> Seq([asker : Clients, nth : Nat])]
  BY DEF WholeInv, ServerInv, RepliesOK
<1>13. RepliesOK'
  <2> DEFINE S == [asker : Clients, nth : Nat]
  <2>1. replies[n] \in Seq(S) /\ rep \in S
    BY <1>5, <1>10, <1>12
  <2> HIDE DEF S
  <2>2. Append(replies[n], rep) \in Seq(S)
    BY <2>1, AppendProperties
  <2>3. replies' \in [Clients -> Seq(S)]
    BY <1>5, <1>11, <1>12, <2>2 DEF S
  <2> QED BY <2>3 DEF RepliesOK, S
<1>14. AnswersReachTheirAsker'
  <2> SUFFICES ASSUME NEW m \in Clients, NEW i \in DOMAIN replies'[m],
                      replies'[m][i].asker # m
               PROVE  client'[replies'[m][i].asker].state = "gone"
    BY DEF AnswersReachTheirAsker
  <2>1. CASE i \in DOMAIN replies[m] /\ replies'[m][i] = replies[m][i]
    <3>1. replies[m][i].asker \in Clients
      BY <2>1, RepliesAreRecords DEF WholeInv, ServerInv
    <3>2. client[replies[m][i].asker].state = "gone"
      BY <2>1 DEF WholeInv, ServerInv, AnswersReachTheirAsker
    <3> QED BY <1>8, <2>1, <3>1, <3>2 DEF SameConnections
  <2>2. CASE m = n /\ replies'[m][i] = rep
    BY <1>4, <1>7, <1>8, <1>10, <2>2 DEF SameConnections
  <2>3. \/ i \in DOMAIN replies[m] /\ replies'[m][i] = replies[m][i]
        \/ m = n /\ replies'[m][i] = rep
    BY <1>5, <1>11, RepliesAfter DEF WholeInv, ServerInv
  <2> QED BY <2>1, <2>2, <2>3
<1> QED BY <1>9, <1>13, <1>14 DEF ServerInv
-----------------------------------------------------------------------------
(* A step of the server is a step of the scheduler, or none.               *)
LEMMA StepOfScheduler ==
    ASSUME ServerInv, [ServerNext]_serverVars
    PROVE  [Next]_coroutineVars
<1>1. ASSUME NEW n \in Clients, EventClosed(n)
      PROVE  Events
  <2>1. client[n].fd \in ClosedFds
    BY <1>1, ServerAssumption DEF EventClosed, IsOpen, ServerInv, ClientsOK, ClientOK
  <2> QED BY <1>1, <2>1 DEF EventClosed, Events
<1>2. CASE ServerMain
  BY <1>2 DEF ServerMain, MainStep, Next
<1>3. CASE Process
  <2>1. ProcessWaits => CoroutineStep
    BY ServerAssumption DEF ProcessWaits, CoroutineStep
  <2> QED BY <1>3, <2>1 DEF Process, ProcessRefuses, ProcessReplies, ProcessReplyFails,
                           CoroutineStep, Next
<1>4. CASE ServerEvents
  BY <1>1, <1>4 DEF ServerEvents, EventAccept, EventDrops, EventRequest, Events, Next
<1>5. CASE TimePasses
  BY <1>5 DEF TimePasses, Clock, Next
<1>6. CASE \E n \in Clients : ClientStep(n)
  BY <1>6 DEF ClientStep
<1>7. CASE UNCHANGED serverVars
  BY <1>7 DEF serverVars
<1> QED BY <1>2, <1>3, <1>4, <1>5, <1>6, <1>7 DEF ServerNext

(* And a step of the connection table, or none.                            *)
LEMMA StepOfFdTable ==
    ASSUME ServerInv, [ServerNext]_serverVars
    PROVE  [FdNext]_fdVars
<1>1. ASSUME NEW n \in Clients, EventClosed(n)
      PROVE  FdNext
  <2>1. client[n].fd \in Fds
    BY <1>1 DEF EventClosed, IsOpen, ServerInv, ClientsOK, ClientOK
  <2> QED BY <1>1, <2>1 DEF EventClosed, FdNext
<1>2. ASSUME NEW n \in Clients, EventAccept(n)
      PROVE  FdNext
  BY <1>2 DEF EventAccept, FdNext
<1>3. CASE ServerEvents
  BY <1>1, <1>2, <1>3 DEF ServerEvents, EventDrops, EventRequest
<1>4. CASE ServerMain \/ Process \/ TimePasses \/ \E n \in Clients : ClientStep(n)
  BY <1>4 DEF ServerMain, Process, ProcessWaits, ProcessRefuses, ProcessReplies,
              ProcessReplyFails, TimePasses, ClientStep
<1>5. CASE UNCHANGED serverVars
  BY <1>5 DEF serverVars
<1> QED BY <1>3, <1>4, <1>5 DEF ServerNext

(* Only a request adds a node, and only ScheduleAll erases one.            *)
LEMMA NodesStay ==
    ASSUME \/ RunOnceExpired \/ RunOnceWait \/ DispatchDone
           \/ ScheduleAllReady \/ ScheduleAllSkip \/ ScheduleAllDone
           \/ EntryStart \/ CallbackEnd \/ \E ms \in Waits : CallbackWait(ms)
    PROVE  Live' = Live
BY DEF RunOnceExpired, RunOnceWait, DispatchDone, ScheduleAllReady, ScheduleAllSkip,
       ScheduleAllDone, EntryStart, CallbackEnd, CallbackWait, Schedule, WithState, Live

(* Every coroutine keeps its request until it is destroyed.                *)
LEMMA RequestsStay ==
    ASSUME WholeInv, [ServerNext]_serverVars
    PROVE  (Live \subseteq DOMAIN work)'
<1>1. Live \subseteq DOMAIN work
  BY DEF WholeInv
<1>2. ASSUME NEW n \in Clients, EventRequest(n)
      PROVE  Live' \subseteq DOMAIN work'
  <2>1. Live' \subseteq Live \cup {NextId}
    BY <1>2 DEF EventRequest, DispatchNewReq, Create, MapPut, Live
  <2>2. DOMAIN work' = DOMAIN work \cup {NextId}
    BY <1>2 DEF EventRequest, MapPut
  <2> QED BY <1>1, <2>1, <2>2
<1>3. ASSUME NEW n \in Clients, EventAccept(n) \/ EventDrops(n) \/ EventClosed(n) \/ ClientStep(n)
      PROVE  Live' \subseteq DOMAIN work'
  BY <1>1, <1>3 DEF EventAccept, EventDrops, EventClosed, DispatchClose, ClientStep,
                    coroutineVars, Live
<1>4. CASE ServerMain
  <2>1. CASE ScheduleAllEnd /\ work' = MapErase(work, iter)
    BY <1>1, <2>1 DEF ScheduleAllEnd, MapErase, Live
  <2>2. CASE ~ (ScheduleAllEnd /\ work' = MapErase(work, iter))
    BY <1>1, <1>4, <2>2, NodesStay DEF ServerMain
  <2> QED BY <2>1, <2>2
<1>5. CASE Process
  <2>1. Live' = Live
    BY <1>5, NodesStay, ServerAssumption DEF Process, ProcessWaits, ProcessRefuses,
                                              ProcessReplies, ProcessReplyFails
  <2>2. DOMAIN work' = DOMAIN work
    BY <1>5 DEF Process, ProcessWaits, ProcessRefuses, ProcessReplies, ProcessReplyFails
  <2> QED BY <1>1, <2>1, <2>2
<1>6. CASE TimePasses
  BY <1>1, <1>6 DEF TimePasses, Live
<1>7. CASE UNCHANGED serverVars
  BY <1>1, <1>7 DEF serverVars, coroutineVars, Live
<1> QED BY <1>2, <1>3, <1>4, <1>5, <1>6, <1>7 DEF ServerNext, ServerEvents
-----------------------------------------------------------------------------
(* No connections, no requests, no replies.                                *)
LEMMA WholeInvInit == ServerInit => WholeInv
<1> SUFFICES ASSUME ServerInit PROVE WholeInv
  OBVIOUS
<1>1. SchedulerInv /\ FdInv
  BY SchedulerInvInit, FdInvInit DEF ServerInit
<1>2. Live = {}
  BY DEF ServerInit, Init, Live
<1>3. /\ \A n \in Clients : client[n].state = "queued" /\ ~ IsOpen(n)
      /\ ClientsOK
  BY DEF ServerInit, NewClient, ClientsOK, ClientOK, IsRecord, IsOpen
<1>4. EntriesAreClients
  <2>1. Entries = {FdQuery(ListenFd)}
    BY DEF ServerInit, FdInit, Entries
  <2> QED BY <1>3, <2>1 DEF EntriesAreClients
<1>5. SocketsOK
  BY DEF ServerInit, EmptyMap, SocketsOK
<1>6. RepliesOK /\ AnswersReachTheirAsker
  BY DEF ServerInit, RepliesOK, AnswersReachTheirAsker
<1> QED BY <1>1, <1>2, <1>3, <1>4, <1>5, <1>6 DEF WholeInv, ServerInv

(* One case per kind of step.                                              *)
LEMMA ServerInvStep ==
    ASSUME WholeInv, [ServerNext]_serverVars
    PROVE  ServerInv'
<1>1. ASSUME NEW n \in Clients,
             EventAccept(n) \/ EventDrops(n) \/ EventRequest(n) \/ EventClosed(n) \/ ClientStep(n)
      PROVE  ServerInv'
  BY <1>1, AcceptKeeps, DropsKeep, RequestKeeps, ClosedKeeps, ClientStepKeeps DEF WholeInv
<1>2. CASE ProcessWaits
  BY <1>2, ProcessWaitsKeeps DEF WholeInv
<1>3. CASE ProcessReplies
  BY <1>3, ReplyKeeps
<1>4. CASE UNCHANGED <<fdVars, clientVars, work>>
  <2>1. \A id \in DOMAIN work' : id \in DOMAIN work /\ work'[id] = work[id]
    BY <1>4
  <2> QED BY <1>4, <2>1, QuietStepsKeep DEF WholeInv
<1>5. CASE ScheduleAllEnd /\ work' = MapErase(work, iter) /\ UNCHANGED <<fdVars, clientVars>>
  <2>1. \A id \in DOMAIN work' : id \in DOMAIN work /\ work'[id] = work[id]
    BY <1>5 DEF MapErase
  <2> QED BY <1>5, <2>1, QuietStepsKeep DEF WholeInv
<1>6. CASE ServerMain
  BY <1>4, <1>5, <1>6 DEF ServerMain
<1>7. CASE Process
  BY <1>2, <1>3, <1>4, <1>7 DEF Process, ProcessRefuses, ProcessReplyFails
<1>8. CASE TimePasses
  BY <1>4, <1>8 DEF TimePasses
<1>9. CASE UNCHANGED serverVars
  BY <1>4, <1>9 DEF serverVars
<1> QED BY <1>1, <1>6, <1>7, <1>8, <1>9 DEF ServerNext, ServerEvents

(* The scheduler's part is kept because the step is one of the scheduler.  *)
LEMMA WholeInvStep == WholeInv /\ [ServerNext]_serverVars => WholeInv'
<1> SUFFICES ASSUME WholeInv, [ServerNext]_serverVars PROVE WholeInv'
  OBVIOUS
<1>1. SchedulerInv'
  BY StepOfScheduler, SchedulerInvStep DEF WholeInv
<1> QED BY <1>1, ServerInvStep, RequestsStay DEF WholeInv

(* What holds of the server in every reachable state.                      *)
THEOREM ServerInvariant == ServerSpec => []WholeInv
BY WholeInvInit, WholeInvStep, PTL DEF ServerSpec

(***************************************************************************)
(* The server is a run of the scheduler: what is proved of the scheduler   *)
(* (CoroutineMgrProofs) holds of every server built as main2.cpp is.       *)
(***************************************************************************)
THEOREM ServerRunsScheduler == ServerSpec => ImplementsScheduler
<1>1. ServerInit => Init
  BY DEF ServerInit
<1>2. WholeInv /\ [ServerNext]_serverVars => [Next]_coroutineVars
  BY StepOfScheduler DEF WholeInv
<1> QED BY <1>1, <1>2, ServerInvariant, PTL DEF ServerSpec, ImplementsScheduler, Spec

(***************************************************************************)
(* The server uses the connection table as CFdMgr is modelled: clients     *)
(* never share a descriptor and every lookup finds its own entry.          *)
(***************************************************************************)
THEOREM ServerUsesFdTable == ServerSpec => ImplementsFdTable
<1>1. ServerInit => FdInit
  BY DEF ServerInit
<1>2. WholeInv /\ [ServerNext]_serverVars => [FdNext]_fdVars
  BY StepOfFdTable DEF WholeInv
<1> QED BY <1>1, <1>2, ServerInvariant, PTL DEF ServerSpec, ImplementsFdTable, FdSpec

(***************************************************************************)
(* The table has exactly one entry for each open client, whatever clients  *)
(* come and go: DelFd destroys the entry of the client that closed.        *)
(***************************************************************************)
THEOREM EntriesAreAlwaysClients == ServerSpec => []EntriesAreClients
BY ServerInvariant, PTL DEF WholeInv, ServerInv

(***************************************************************************)
(* A reply reaches another client than the one that asked only when that   *)
(* one has been closed and its descriptor's number given to the other.     *)
(***************************************************************************)
THEOREM AnswersAlwaysReachTheirAsker == ServerSpec => []AnswersReachTheirAsker
BY ServerInvariant, PTL DEF WholeInv, ServerInv

(***************************************************************************)
(* Nobody is left ready or ended when the server sleeps in epoll_wait.     *)
(***************************************************************************)
THEOREM ServerLeavesNobodyBehind == ServerSpec => []NobodyLeftBehind
<1>1. WholeInv => NobodyLeftBehind
  BY DEF WholeInv, SchedulerInv
<1> QED BY <1>1, ServerInvariant, PTL
-----------------------------------------------------------------------------
(***************************************************************************)
(* What clients send.  Ends is a recursive function: that it is a sum is   *)
(* shown with the least length for which it would not be.                  *)
(***************************************************************************)

(* A sum over a sequence of any length exists: were there a first length   *)
(* without one, the sum for the length before it could be continued.       *)
IsSum(f, p, step, k) == /\ f \in [0 .. k -> Nat] /\ f[0] = 0
                        /\ \A i \in 1 .. k : f[i] = f[i - 1] + p + step[i]

LEMMA SumsExist ==
    ASSUME NEW N \in Nat, NEW p \in Nat, NEW step \in [1 .. N -> Nat]
    PROVE  \E f : IsSum(f, p, step, N)
<1> DEFINE bad == {k \in 0 .. N : ~ \E f : IsSum(f, p, step, k)}
<1> SUFFICES ASSUME bad # {} PROVE FALSE
  <2>1. N \in bad <=> ~ \E f : IsSum(f, p, step, N)
    OBVIOUS
  <2> HIDE DEF bad
  <2> QED BY <2>1
<1>1. PICK k \in bad : \A j \in bad : k <= j
  <2>1. bad \subseteq Nat
    OBVIOUS
  <2> QED BY <2>1, MinOfNats
<1>2. k \in 0 .. N /\ ~ \E f : IsSum(f, p, step, k)
  OBVIOUS
<1>3. k # 0
  <2>1. IsSum([i \in 0 .. 0 |-> 0], p, step, 0)
    BY DEF IsSum
  <2> QED BY <1>2, <2>1
<1>4. k - 1 \in 0 .. N /\ k \in 1 .. N
  BY <1>2, <1>3
<1>5. \E f : IsSum(f, p, step, k - 1)
  <2>1. bad \subseteq Int
    OBVIOUS
  <2>2. k - 1 \in bad <=> ~ \E f : IsSum(f, p, step, k - 1)
    BY <1>4
  <2> HIDE DEF bad
  <2>3. k - 1 \notin bad
    BY <1>1, <2>1
  <2> QED BY <2>2, <2>3
<1>6. PICK f : IsSum(f, p, step, k - 1)
  BY <1>5
<1> DEFINE g == [i \in 0 .. k |-> IF i = k THEN f[k - 1] + p + step[k] ELSE f[i]]
<1>7. step[k] \in Nat /\ f[k - 1] \in Nat
  BY <1>4, <1>6 DEF IsSum
<1>8. g \in [0 .. k -> Nat]
  BY <1>4, <1>6, <1>7 DEF IsSum
<1>9. g[0] = 0
  BY <1>4, <1>6 DEF IsSum
<1>10. ASSUME NEW i \in 1 .. k
       PROVE  g[i] = g[i - 1] + p + step[i]
  <2>1. i - 1 \in 0 .. k /\ i - 1 # k /\ i \in 0 .. k
    BY <1>4
  <2>2. g[i - 1] = f[i - 1]
    BY <2>1
  <2>3. CASE i = k
    BY <2>1, <2>2, <2>3
  <2>4. CASE i # k
    <3>1. i \in 1 .. k - 1
      BY <1>4, <2>4
    <3>2. g[i] = f[i]
      BY <2>1, <2>4
    <3> QED BY <1>6, <2>2, <3>1, <3>2 DEF IsSum
  <2> QED BY <2>3, <2>4
<1>11. IsSum(g, p, step, k)
  BY <1>8, <1>9, <1>10 DEF IsSum
<1> QED BY <1>2, <1>11

(* What is defined by that recursion is such a sum.                        *)
LEMMA RecursionIsSum ==
    ASSUME NEW N \in Nat, NEW p \in Nat, NEW step \in [1 .. N -> Nat],
           NEW f, f = [i \in 0 .. N |-> IF i = 0 THEN 0 ELSE f[i - 1] + p + step[i]]
    PROVE  IsSum(f, p, step, N)
<1>1. DOMAIN f = 0 .. N /\ f[0] = 0 /\ \A i \in 1 .. N : f[i] = f[i - 1] + p + step[i]
  OBVIOUS
<1> DEFINE bad == {i \in 0 .. N : f[i] \notin Nat}
<1>2. bad = {}
  <2> SUFFICES ASSUME bad # {} PROVE FALSE
    OBVIOUS
  <2>1. bad \subseteq Nat
    OBVIOUS
  <2>2. PICK k \in bad : \A j \in bad : k <= j
    BY <2>1, MinOfNats
  <2>3. k \in 1 .. N
    BY <1>1, <2>2
  <2>4. k - 1 \in 0 .. N /\ step[k] \in Nat
    BY <2>3
  <2>5. k - 1 \in bad <=> f[k - 1] \notin Nat
    BY <2>4
  <2>6. f[k] \notin Nat
    OBVIOUS
  <2> HIDE DEF bad
  <2>7. f[k - 1] \in Nat
    BY <2>1, <2>2, <2>5
  <2> QED BY <1>1, <2>3, <2>4, <2>6, <2>7
<1>3. f = [i \in 0 .. N |-> f[i]] /\ \A i \in 0 .. N : f[i] \in Nat
  BY <1>2
<1> HIDE DEF bad
<1>4. f \in [0 .. N -> Nat]
  BY <1>3
<1> QED BY <1>1, <1>4 DEF IsSum

(* Ends is the sum of what the packages take of the stream.                *)
LEMMA EndsAreSums ==
    ASSUME NEW n \in Clients
    PROVE  /\ Len(Packages[n]) \in Nat
           /\ DOMAIN Packages[n] = 1 .. Len(Packages[n])
           /\ \A i \in DOMAIN Packages[n] : Packages[n][i] \in Nat
           /\ IsSum(Ends(n), PrefixLen, Packages[n], Len(Packages[n]))
<1> DEFINE N == Len(Packages[n])
           Rec(f) == f = [i \in 0 .. N |->
                            IF i = 0 THEN 0 ELSE f[i - 1] + PrefixLen + Packages[n][i]]
<1>1. /\ N \in Nat /\ PrefixLen \in Nat /\ DOMAIN Packages[n] = 1 .. N
      /\ \A i \in 1 .. N : Packages[n][i] \in Nat
  BY ServerAssumption
<1>2. Packages[n] \in [1 .. N -> Nat]
  BY ServerAssumption
<1>3. Ends(n) = CHOOSE f : Rec(f)
  BY DEF Ends
<1>4. \E f : Rec(f)
  <2>1. PICK f : IsSum(f, PrefixLen, Packages[n], N)
    BY <1>1, <1>2, SumsExist
  <2>2. f = [i \in 0 .. N |-> IF i = 0 THEN 0 ELSE f[i - 1] + PrefixLen + Packages[n][i]]
    BY <1>1, <2>1 DEF IsSum
  <2> QED BY <2>2
<1>5. Rec(Ends(n))
  BY <1>3, <1>4
<1> HIDE DEF N
<1>6. IsSum(Ends(n), PrefixLen, Packages[n], N)
  BY <1>1, <1>2, <1>5, RecursionIsSum
<1> QED BY <1>1, <1>6 DEF N

(* Packages end one after the other, each later than the one before.       *)
LEMMA EndsGrow ==
    ASSUME NEW n \in Clients, NEW i \in 0 .. Len(Packages[n]),
           NEW j \in 0 .. Len(Packages[n]), i < j
    PROVE  Ends(n)[i] < Ends(n)[j]
<1> DEFINE N   == Len(Packages[n])
           bad == {k \in 0 .. N : i < k /\ ~ (Ends(n)[i] < Ends(n)[k])}
<1>1. /\ N \in Nat /\ Ends(n) \in [0 .. N -> Nat]
      /\ \A k \in 1 .. N : /\ Ends(n)[k] = Ends(n)[k - 1] + PrefixLen + Packages[n][k]
                           /\ Packages[n][k] \in Nat
      /\ PrefixLen \in Nat \ {0}
  BY EndsAreSums, ServerAssumption DEF IsSum
<1>2. bad = {}
  <2> SUFFICES ASSUME bad # {} PROVE FALSE
    OBVIOUS
  <2>1. bad \subseteq Nat
    OBVIOUS
  <2>2. PICK k \in bad : \A x \in bad : k <= x
    BY <2>1, MinOfNats
  <2>3. k \in 1 .. N /\ i < k /\ ~ (Ends(n)[i] < Ends(n)[k])
    BY <2>2
  <2>4. k - 1 \in 0 .. N
    BY <2>3
  <2>5. k - 1 \in bad <=> i < k - 1 /\ ~ (Ends(n)[i] < Ends(n)[k - 1])
    BY <2>4
  <2> HIDE DEF bad
  <2>6. k - 1 \notin bad
    BY <2>1, <2>2
  <2>7. i = k - 1 \/ Ends(n)[i] < Ends(n)[k - 1]
    BY <2>3, <2>5, <2>6
  <2>8. Ends(n)[i] \in Nat /\ Ends(n)[k - 1] \in Nat /\ Ends(n)[k] \in Nat
    <3>1. \A x \in 0 .. N : Ends(n)[x] \in Nat
      BY <1>1
    <3>2. k \in 0 .. N
      BY <2>3
    <3> QED BY <2>4, <3>1, <3>2
  <2>9. \A x, y \in Nat : x < x + PrefixLen + y
    BY <1>1
  <2>10. Ends(n)[k - 1] < Ends(n)[k]
    BY <1>1, <2>3, <2>8, <2>9
  <2> QED BY <2>3, <2>7, <2>8, <2>10
<1> QED BY <1>1, <1>2

(* What the stream is made of.                                             *)
LEMMA StreamOfPackages ==
    ASSUME NEW n \in Clients
    PROVE  /\ Sent(n) \in Nat
           /\ \A i \in DOMAIN Packages[n] :
                 /\ i \in 1 .. Len(Packages[n]) /\ i - 1 \in 0 .. Len(Packages[n])
                 /\ Packages[n][i] \in Nat
                 /\ Ends(n)[i - 1] \in Nat
                 /\ Ends(n)[i] = Ends(n)[i - 1] + PrefixLen + Packages[n][i]
                 /\ Package(n, i) \in Seq(Int)
                 /\ Len(Package(n, i)) = PrefixLen + Packages[n][i]
                 /\ Package(n, i)[1] = Ends(n)[i - 1] + 1
<1>1. /\ Len(Packages[n]) \in Nat
      /\ Ends(n) \in [0 .. Len(Packages[n]) -> Nat]
      /\ PrefixLen \in Nat \ {0}
  BY EndsAreSums, ServerAssumption DEF IsSum
<1>2. Sent(n) \in Nat
  BY <1>1 DEF Sent
<1>3. ASSUME NEW i \in DOMAIN Packages[n]
      PROVE  /\ i \in 1 .. Len(Packages[n]) /\ i - 1 \in 0 .. Len(Packages[n])
             /\ Packages[n][i] \in Nat
             /\ Ends(n)[i - 1] \in Nat
             /\ Ends(n)[i] = Ends(n)[i - 1] + PrefixLen + Packages[n][i]
             /\ Package(n, i) \in Seq(Int)
             /\ Len(Package(n, i)) = PrefixLen + Packages[n][i]
             /\ Package(n, i)[1] = Ends(n)[i - 1] + 1
  <2>1. i \in 1 .. Len(Packages[n]) /\ i - 1 \in 0 .. Len(Packages[n])
    BY <1>1, EndsAreSums
  <2>2. Packages[n][i] \in Nat /\ Ends(n)[i - 1] \in Nat
    BY <1>1, <2>1, EndsAreSums
  <2>3. Ends(n)[i] = Ends(n)[i - 1] + PrefixLen + Packages[n][i]
    BY <2>1, EndsAreSums DEF IsSum
  <2>4. PrefixLen + Packages[n][i] \in Nat \ {0}
    BY <1>1, <2>2
  <2> DEFINE len == PrefixLen + Packages[n][i]
             end == Ends(n)[i - 1]
  <2>5. Package(n, i) = [k \in 1 .. len |-> end + k]
    BY DEF Package
  <2> HIDE DEF len, end
  <2>6. end \in Nat /\ len \in Nat \ {0}
    BY <2>2, <2>4 DEF end, len
  <2>7. Package(n, i) \in Seq(Int) /\ Len(Package(n, i)) = len /\ Package(n, i)[1] = end + 1
    BY <2>5, <2>6
  <2> QED BY <2>1, <2>2, <2>3, <2>7 DEF len, end
<1> QED BY <1>2, <1>3
-----------------------------------------------------------------------------
(* What one recv takes into a new buffer: the next bytes of the stream.    *)
LEMMA RecvTakesNext ==
    ASSUME NEW n \in Clients, client[n].read \in Nat, client[n].read < Sent(n),
           NEW md \in tcprecv(n)
    PROVE  /\ md \in Buffers /\ Size(md) \in Nat \ {0} /\ Size(md) < MemWord
           /\ client[n].read + Size(md) <= Sent(n)
           /\ Content(md) = [i \in 1 .. Size(md) |-> client[n].read + i]
           /\ Bytes(md, Size(md)) = Content(md)
           /\ md.m_data[1] = client[n].read + 1
<1> DEFINE room == Expand(NewMem, DefRecvSize)
           left == Sent(n) - client[n].read
           most == Min({LeftSize(room), left})
<1>1. Sent(n) \in Nat /\ left \in Nat \ {0}
  BY StreamOfPackages
<1>2. DefRecvSize \in Nat \ {0} /\ DefRecvSize < MemWord /\ MemWord \in Nat \ {0}
  BY ServerAssumption, MemAssumption
<1>3. NewMem \in Buffers /\ NewMem.m_offset = 0 /\ LeftSize(NewMem) = 0 /\ Content(NewMem) = <<>>
  BY <1>2 DEF NewMem, Buffers, Bytewise, LeftSize, Content
<1>4. /\ room \in Buffers /\ Content(room) = <<>> /\ LeftSize(room) >= DefRecvSize
  BY <1>2, <1>3, ExpandMakesRoom
<1>5. LeftSize(room) \in Nat
  BY <1>4, LeftSizeIsRoom DEF Buffers, Bytewise
<1>6. most \in Nat /\ most <= left /\ most <= LeftSize(room)
  <2>1. {LeftSize(room), left} \subseteq Nat
    BY <1>1, <1>5
  <2> HIDE DEF room, left
  <2>2. most \in {LeftSize(room), left} /\ \A y \in {LeftSize(room), left} : most <= y
    BY <2>1, MinOfNats
  <2> QED BY <2>1, <2>2
<1>7. LeftSize(NewMem) <= DefRecvSize
  BY <1>2, <1>3
<1>8. PICK len \in 1 .. most :
         md = UpdateUse(Write(room, [i \in 1 .. len |-> client[n].read + i]), len)
  BY <1>7 DEF tcprecv
<1> DEFINE bytes == [i \in 1 .. len |-> client[n].read + i]
<1> HIDE DEF room, left, most
<1>9. len \in Nat \ {0} /\ len <= left /\ len <= LeftSize(room)
  BY <1>1, <1>5, <1>6
<1>10. bytes \in Bytewise /\ Len(bytes) = len /\ bytes[1] = client[n].read + 1
  BY <1>9 DEF Bytewise
<1>11. md = UpdateUse(Write(room, bytes), Len(bytes))
  BY <1>8, <1>10
<1> HIDE DEF bytes
<1>12. md \in Buffers /\ Content(md) = <<>> \o bytes
  BY <1>4, <1>9, <1>10, <1>11, ReadAppends
<1>13. Content(md) = bytes
  BY <1>10, <1>12 DEF Bytewise
<1>14. /\ md.m_data \in Seq(Int) /\ md.m_offset \in Nat /\ md.m_offset <= Len(md.m_data)
       /\ Len(md.m_data) \in Nat /\ Len(md.m_data) < MemWord
  BY <1>12 DEF Buffers, Bytewise
<1>15. Len(Content(md)) = md.m_offset /\ \A i \in 1 .. md.m_offset : Content(md)[i] = md.m_data[i]
  BY <1>14 DEF Content
<1>16. Size(md) = len
  BY <1>10, <1>13, <1>15 DEF Size
<1>17. Size(md) < MemWord /\ md.m_data[1] = client[n].read + 1
  BY <1>2, <1>9, <1>10, <1>13, <1>14, <1>15, <1>16 DEF Size
<1>18. client[n].read + Size(md) <= Sent(n)
  BY <1>1, <1>9, <1>16 DEF left
<1>19. Bytes(md, Size(md)) = Content(md)
  <2>1. Bytes(md, Size(md)) = [i \in 1 .. len |-> md.m_data[i]]
    BY <1>14, <1>16 DEF Bytes, Size
  <2>2. Content(md) = [i \in 1 .. len |-> md.m_data[i]]
    <3>1. Content(md) \in Seq(Int) /\ DOMAIN Content(md) = 1 .. len
      BY <1>10, <1>13 DEF Bytewise
    <3> QED BY <1>15, <1>16, <3>1 DEF Size
  <2> QED BY <2>1, <2>2
<1> QED BY <1>9, <1>12, <1>13, <1>16, <1>17, <1>18, <1>19 DEF bytes

(* How far a client is read, and that as long as it is whole it is read up *)
(* to the end of the package that became the last request.                 *)
StreamOK(n, c) ==
    /\ c.fd \in Fds \cup {NoFd}
    /\ c.read \in 0 .. Sent(n)
    /\ c.unread \in 0 .. Window
    /\ c.shut \in BOOLEAN /\ c.whole \in BOOLEAN
    /\ c.whole => /\ c.requests \in 0 .. Len(Packages[n])
                  /\ c.read = Ends(n)[c.requests]

(* A recv that took one package took the next, and Check measures it.      *)
LEMMA TookOneTookNext ==
    ASSUME NEW n \in Clients, StreamOK(n, client[n]), client[n].whole,
           client[n].read < Sent(n), NEW md \in tcprecv(n), TookOne(n, md)
    PROVE  LET k == client[n].requests + 1 IN
           /\ k \in 1 .. Len(Packages[n]) /\ Content(md) = Package(n, k)
           /\ client[n].read + Size(md) = Ends(n)[k]
           /\ \A len \in Lengths(n, md) : Check(len, Size(md)) = Size(md)
<1> DEFINE r == client[n].requests
           N == Len(Packages[n])
<1>1. /\ client[n].read \in Nat /\ r \in 0 .. N /\ client[n].read = Ends(n)[r]
      /\ Sent(n) \in Nat /\ N \in Nat
  BY StreamOfPackages, EndsAreSums DEF StreamOK
<1>2. /\ md \in Buffers /\ Size(md) \in Nat \ {0}
      /\ Content(md) = [i \in 1 .. Size(md) |-> client[n].read + i]
      /\ md.m_data[1] = client[n].read + 1
  BY <1>1, RecvTakesNext
<1>3. PICK i \in DOMAIN Packages[n] : Content(md) = Package(n, i)
  BY DEF TookOne
<1>4. ASSUME NEW j \in DOMAIN Packages[n], Package(n, j)[1] = md.m_data[1]
      PROVE  j = r + 1
  <2>1. /\ Ends(n)[j - 1] + 1 = Ends(n)[r] + 1
        /\ j - 1 \in 0 .. N /\ Ends(n)[j - 1] \in Nat /\ Ends(n)[r] \in Nat /\ j \in Int
    BY <1>1, <1>2, <1>4, StreamOfPackages
  <2>2. Ends(n)[j - 1] = Ends(n)[r]
    BY <2>1
  <2>3. ~ (j - 1 < r) /\ ~ (r < j - 1)
    <3>1. ~ (Ends(n)[j - 1] < Ends(n)[r]) /\ ~ (Ends(n)[r] < Ends(n)[j - 1])
      BY <2>1, <2>2
    <3> QED BY <1>1, <2>1, <3>1, EndsGrow
  <2>4. j \in Int /\ r \in Int
    BY <1>1, <2>1
  <2> QED BY <2>3, <2>4
<1>5. /\ Len(Package(n, i)) = PrefixLen + Packages[n][i] /\ Packages[n][i] \in Nat
      /\ Package(n, i)[1] = Ends(n)[i - 1] + 1 /\ i \in 1 .. N
      /\ Ends(n)[i] = Ends(n)[i - 1] + PrefixLen + Packages[n][i]
      /\ Ends(n)[i - 1] \in Nat
  BY StreamOfPackages
<1>6. Package(n, i)[1] = md.m_data[1]
  BY <1>1, <1>2, <1>3
<1>7. i = r + 1
  BY <1>4, <1>6
<1>8. Size(md) = PrefixLen + Packages[n][i]
  <2>1. Len([j \in 1 .. Size(md) |-> client[n].read + j]) = Size(md)
    BY <1>2
  <2> QED BY <1>2, <1>3, <1>5, <2>1
<1>9. PrefixLen \in Nat \ {0}
  BY ServerAssumption
<1>10. Ends(n)[r] = Ends(n)[i - 1]
  BY <1>1, <1>7
<1>11. client[n].read + Size(md) = Ends(n)[i]
  BY <1>1, <1>5, <1>8, <1>9, <1>10
<1>12. ASSUME NEW len \in Lengths(n, md)
       PROVE  Check(len, Size(md)) = Size(md)
  <2>1. ~ (Size(md) < PrefixLen)
    BY <1>5, <1>8, <1>9
  <2>2. {j \in DOMAIN Packages[n] : Package(n, j)[1] = md.m_data[1]} = {i}
    BY <1>4, <1>6, <1>7
  <2>3. len = Packages[n][i]
    BY <2>1, <2>2 DEF Lengths
  <2> QED BY <1>2, <1>5, <1>8, <1>9, <2>3 DEF Check
<1> QED BY <1>3, <1>5, <1>7, <1>11, <1>12
-----------------------------------------------------------------------------
(***************************************************************************)
(* What the clients send and the coroutines hold: work is exactly of those *)
(* in the map, and a request that was read whole is a package.             *)
(***************************************************************************)
StreamsOK == \A n \in Clients : StreamOK(n, client[n])

WorkOK ==
    /\ DOMAIN work \ {Main} = Live
    /\ \A id \in Live : /\ IsRequest(work[id])
                        /\ work[id].server_socket \in Fds
                        /\ work[id].at \in {"begin", "reply"}

DataInv == StreamsOK /\ WorkOK /\ WholeReadsAreExact

(* Requests that stay what they were are as exact as they were.            *)
LEMMA SameWorkKeeps ==
    ASSUME DataInv, DOMAIN work' \ {Main} = Live', Live' \subseteq Live,
           \A id \in Live' : work'[id] = work[id]
    PROVE  WorkOK' /\ WholeReadsAreExact'
<1>1. WorkOK'
  BY DEF DataInv, WorkOK
<1>2. \A m, i : Package(m, i)' = Package(m, i)
  BY DEF Package, Ends
<1>3. WholeReadsAreExact'
  BY <1>2 DEF DataInv, WholeReadsAreExact, Content
<1> QED BY <1>1, <1>3

(* StreamOK only speaks of the record it is given.                         *)
LEMMA StreamsOfSameRecords ==
    ASSUME StreamsOK, NEW n \in Clients, StreamOK(n, client'[n]),
           \A m \in Clients \ {n} : client'[m] = client[m]
    PROVE  StreamsOK'
<1>1. \A m \in Clients : StreamOK(m, client'[m])
  BY DEF StreamsOK
<1> QED BY <1>1 DEF StreamsOK, StreamOK, Sent, Ends

(* A client that is accepted gets a descriptor.                            *)
LEMMA AcceptKeepsData ==
    ASSUME WholeInv, DataInv, NEW n \in Clients, EventAccept(n)
    PROVE  DataInv'
<1>1. DOMAIN client = Clients /\ ClientOK(client[n]) /\ StreamOK(n, client[n])
  BY DEF WholeInv, ServerInv, ClientsOK, DataInv, StreamsOK
<1>2. /\ client'[n] = [client[n] EXCEPT !.state = "open", !.fd = NewFd]
      /\ \A m \in Clients \ {n} : client'[m] = client[m]
      /\ UNCHANGED <<m_idtonode, work>>
  BY <1>1 DEF EventAccept, coroutineVars
<1>3. NewFd \in Fds
  BY AcceptAddsEntry DEF EventAccept, WholeInv, ServerInv
<1>4. /\ client'[n].fd = NewFd /\ client'[n].read = client[n].read
      /\ client'[n].unread = client[n].unread /\ client'[n].shut = client[n].shut
      /\ client'[n].whole = client[n].whole /\ client'[n].requests = client[n].requests
  BY <1>1, <1>2 DEF ClientOK, IsRecord
<1>5. StreamOK(n, client'[n])
  BY <1>1, <1>3, <1>4 DEF StreamOK
<1> QED BY <1>2, <1>5, StreamsOfSameRecords, SameWorkKeeps DEF DataInv, WorkOK, Live

(* A client that is closed is forgotten.                                   *)
LEMMA ClosedKeepsData ==
    ASSUME WholeInv, DataInv, NEW n \in Clients, EventClosed(n)
    PROVE  DataInv'
<1>1. DOMAIN client = Clients
  BY DEF WholeInv, ServerInv, ClientsOK
<1>2. /\ client'[n] = [NewClient EXCEPT !.state = "gone"]
      /\ \A m \in Clients \ {n} : client'[m] = client[m]
      /\ UNCHANGED <<m_idtonode, work>>
  BY <1>1 DEF EventClosed, DispatchClose
<1>3. /\ client'[n].fd = NoFd /\ client'[n].read = 0 /\ client'[n].unread = 0
      /\ client'[n].shut = FALSE /\ client'[n].requests = 0
  BY <1>2 DEF NewClient
<1>4. /\ client'[n].whole = TRUE
  BY <1>2 DEF NewClient
<1>5. /\ Sent(n) \in Nat /\ Window \in Nat /\ Len(Packages[n]) \in Nat /\ Ends(n)[0] = 0
  BY StreamOfPackages, EndsAreSums, ServerAssumption DEF IsSum
<1>6. StreamOK(n, client'[n])
  <2>1. client'[n].requests \in 0 .. Len(Packages[n]) /\ client'[n].read = Ends(n)[client'[n].requests]
    BY <1>3, <1>5
  <2>2. client'[n].read \in 0 .. Sent(n) /\ client'[n].unread \in 0 .. Window
    BY <1>3, <1>5
  <2> QED BY <1>3, <1>4, <2>1, <2>2 DEF StreamOK
<1> QED BY <1>2, <1>6, StreamsOfSameRecords, SameWorkKeeps DEF DataInv, WorkOK, Live

(* A client reads what it was sent, or closes.                             *)
LEMMA ClientStepKeepsData ==
    ASSUME WholeInv, DataInv, NEW n \in Clients, ClientStep(n)
    PROVE  DataInv'
<1>1. DOMAIN client = Clients /\ ClientOK(client[n]) /\ StreamOK(n, client[n])
  BY DEF WholeInv, ServerInv, ClientsOK, DataInv, StreamsOK
<1>2. /\ \/ client[n].unread > 0 /\ client'[n] = [client[n] EXCEPT !.unread = @ - 1]
         \/ client'[n] = [client[n] EXCEPT !.shut = TRUE, !.unread = 0]
      /\ \A m \in Clients \ {n} : client'[m] = client[m]
      /\ UNCHANGED <<m_idtonode, work>>
  BY <1>1 DEF ClientStep, Reads, Closes, coroutineVars
<1>3. /\ client'[n].fd = client[n].fd /\ client'[n].read = client[n].read
      /\ client'[n].whole = client[n].whole /\ client'[n].requests = client[n].requests
      /\ client'[n].shut \in {client[n].shut, TRUE}
      /\ \/ client'[n].unread = 0
         \/ client[n].unread > 0 /\ client'[n].unread = client[n].unread - 1
  BY <1>1, <1>2 DEF ClientOK, IsRecord
<1>4. client[n].unread \in 0 .. Window /\ Window \in Nat
  BY <1>1, ServerAssumption DEF StreamOK
<1>5. client'[n].unread \in 0 .. Window
  BY <1>3, <1>4
<1>6. client'[n].shut \in BOOLEAN
  BY <1>1, <1>3 DEF StreamOK
<1>7. StreamOK(n, client'[n])
  BY <1>1, <1>3, <1>5, <1>6 DEF StreamOK
<1> QED BY <1>2, <1>7, StreamsOfSameRecords, SameWorkKeeps DEF DataInv, WorkOK, Live

(* What a recv makes of a client's stream, with the requests counted if it *)
(* was given to a coroutine.                                               *)
LEMMA ReadKeepsStream ==
    ASSUME WholeInv, DataInv, NEW n \in Clients, client[n].read < Sent(n),
           NEW md \in tcprecv(n), NEW d, IsRecord(d),
           d.fd = client[n].fd, d.shut = client[n].shut, d.unread = client[n].unread,
           d.read = client[n].read + Size(md),
           d.whole = (client[n].whole /\ TookOne(n, md)),
           d.whole => d.requests = client[n].requests + 1
    PROVE  StreamOK(n, d)
<1>1. StreamOK(n, client[n]) /\ client[n].read \in Nat /\ Sent(n) \in Nat
  BY StreamOfPackages DEF DataInv, StreamsOK, StreamOK
<1>2. d.read \in 0 .. Sent(n)
  BY <1>1, RecvTakesNext
<1>3. d.whole \in BOOLEAN
  BY <1>1 DEF StreamOK
<1>4. d.whole => d.requests \in 0 .. Len(Packages[n]) /\ d.read = Ends(n)[d.requests]
  <2> SUFFICES ASSUME d.whole PROVE d.requests \in 0 .. Len(Packages[n]) /\ d.read = Ends(n)[d.requests]
    OBVIOUS
  <2>1. client[n].whole /\ TookOne(n, md)
    OBVIOUS
  <2>2. LET k == client[n].requests + 1 IN
        k \in 1 .. Len(Packages[n]) /\ client[n].read + Size(md) = Ends(n)[k]
    BY <1>1, <2>1, TookOneTookNext
  <2>3. Len(Packages[n]) \in Nat
    BY EndsAreSums
  <2> QED BY <2>2, <2>3
<1> QED BY <1>1, <1>2, <1>3, <1>4 DEF StreamOK

(* What is dropped was not one package: the check would have passed.       *)
LEMMA DropsKeepData ==
    ASSUME WholeInv, DataInv, NEW n \in Clients, EventDrops(n)
    PROVE  DataInv'
<1>1. DOMAIN client = Clients /\ ClientOK(client[n]) /\ StreamOK(n, client[n])
  BY DEF WholeInv, ServerInv, ClientsOK, DataInv, StreamsOK
<1>2. client[n].read < Sent(n) /\ UNCHANGED <<m_idtonode, work>>
  BY DEF EventDrops, Readable, coroutineVars
<1>3. PICK md \in tcprecv(n) : /\ \E len \in Lengths(n, md) : Check(len, Size(md)) = 0
                              /\ client' = [client EXCEPT ![n] = AfterRead(n, md)]
  BY DEF EventDrops
<1>4. client'[n] = AfterRead(n, md) /\ \A m \in Clients \ {n} : client'[m] = client[m]
  BY <1>1, <1>3
<1> DEFINE d == AfterRead(n, md)
<1>5. /\ d.fd = client[n].fd /\ d.shut = client[n].shut /\ d.unread = client[n].unread
      /\ d.read = client[n].read + Size(md)
      /\ d.whole = (client[n].whole /\ TookOne(n, md))
      /\ IsRecord(d)
  BY <1>1, AfterReadKeeps DEF ClientOK
<1>6. ~ (client[n].whole /\ TookOne(n, md))
  <2>1. client[n].read \in Nat /\ Sent(n) \in Nat
    BY <1>1, StreamOfPackages DEF StreamOK
  <2>2. Size(md) # 0
    BY <1>2, <2>1, RecvTakesNext
  <2> QED BY <1>1, <1>2, <1>3, <2>2, TookOneTookNext
<1>7. StreamOK(n, d)
  <2> HIDE DEF d
  <2>1. ~ d.whole
    BY <1>5, <1>6
  <2> QED BY <1>2, <1>5, <2>1, ReadKeepsStream
<1> QED BY <1>2, <1>4, <1>7, StreamsOfSameRecords, SameWorkKeeps DEF DataInv, WorkOK, Live

(* A request that was read whole is the client's next package.             *)
LEMMA RequestKeepsData ==
    ASSUME WholeInv, DataInv, NEW n \in Clients, EventRequest(n)
    PROVE  DataInv'
<1>1. /\ DOMAIN client = Clients /\ ClientOK(client[n]) /\ StreamOK(n, client[n])
      /\ client[n].fd \in Fds
  BY DEF WholeInv, ServerInv, ClientsOK, DataInv, StreamsOK, EventRequest, Readable, IsOpen,
         ClientOK
<1>2. client[n].read < Sent(n) /\ DispatchNewReq
  BY DEF EventRequest, Readable
<1>0. PICK md \in tcprecv(n) : \E len \in Lengths(n, md) :
        /\ client' = [client EXCEPT ![n] = [AfterRead(n, md) EXCEPT !.requests = @ + 1]]
        /\ work' = MapPut(work, NextId,
                     [recvdata |-> Copy(NewMem, Bytes(md, Check(len, Size(md)))),
                      server_socket |-> client[n].fd, asker |-> n,
                      nth |-> client'[n].requests, whole |-> client'[n].whole,
                      at |-> "begin"])
  BY DEF EventRequest
<1>3. PICK len \in Lengths(n, md) :
        /\ client' = [client EXCEPT ![n] = [AfterRead(n, md) EXCEPT !.requests = @ + 1]]
        /\ work' = MapPut(work, NextId,
                     [recvdata |-> Copy(NewMem, Bytes(md, Check(len, Size(md)))),
                      server_socket |-> client[n].fd, asker |-> n,
                      nth |-> client'[n].requests, whole |-> client'[n].whole,
                      at |-> "begin"])
  BY <1>0
<1> DEFINE after == AfterRead(n, md)
           d     == client'[n]
<1>4. /\ d = [after EXCEPT !.requests = after.requests + 1]
      /\ \A m \in Clients \ {n} : client'[m] = client[m]
  BY <1>1, <1>3
<1>5. /\ after.fd = client[n].fd /\ after.shut = client[n].shut
      /\ after.unread = client[n].unread /\ after.requests = client[n].requests
      /\ after.read = client[n].read + Size(md)
      /\ after.whole = (client[n].whole /\ TookOne(n, md))
      /\ IsRecord(after)
  BY <1>1, AfterReadKeeps DEF ClientOK
<1> HIDE DEF after, d
<1>6. /\ d.fd = after.fd /\ d.shut = after.shut /\ d.unread = after.unread
      /\ d.read = after.read /\ d.requests = after.requests + 1 /\ IsRecord(d)
  BY <1>4, <1>5 DEF IsRecord
<1>7. d.whole = after.whole
  BY <1>4, <1>5 DEF IsRecord
<1>8. StreamOK(n, d)
  BY <1>2, <1>5, <1>6, <1>7, ReadKeepsStream
<1>9. StreamsOK'
  BY <1>4, <1>8, StreamsOfSameRecords DEF DataInv, d
<1>10. /\ DOMAIN work' = DOMAIN work \cup {NextId}
       /\ \A id \in DOMAIN work \ {NextId} : work'[id] = work[id]
       /\ work'[NextId].recvdata = Copy(NewMem, Bytes(md, Check(len, Size(md))))
       /\ work'[NextId].asker = n /\ work'[NextId].at = "begin"
       /\ work'[NextId].server_socket = client[n].fd
       /\ work'[NextId].nth = d.requests
       /\ IsRequest(work'[NextId])
  BY <1>3 DEF MapPut, IsRequest, d
<1>11. work'[NextId].whole = d.whole
  BY <1>3 DEF MapPut, d
<1>12. Live' = Live \cup ({NextId} \ {Main})
  BY <1>2 DEF DispatchNewReq, Create, MapPut, Live
<1>13. WorkOK'
  BY <1>1, <1>10, <1>12 DEF DataInv, WorkOK
<1>14. d.whole => Content(work'[NextId].recvdata) = Package(n, d.requests)
  <2> SUFFICES ASSUME d.whole PROVE Content(work'[NextId].recvdata) = Package(n, d.requests)
    OBVIOUS
  <2>1. client[n].whole /\ TookOne(n, md)
    BY <1>5, <1>7
  <2>2. /\ Content(md) = Package(n, client[n].requests + 1)
        /\ client[n].requests + 1 \in 1 .. Len(Packages[n])
        /\ Check(len, Size(md)) = Size(md)
    BY <1>1, <1>2, <2>1, TookOneTookNext
  <2>3. client[n].read \in Nat /\ Sent(n) \in Nat
    BY <1>1, StreamOfPackages DEF StreamOK
  <2>4. /\ md \in Buffers /\ Size(md) \in Nat /\ Size(md) < MemWord
        /\ Bytes(md, Size(md)) = Content(md)
        /\ Content(md) = [i \in 1 .. Size(md) |-> client[n].read + i]
    BY <1>2, <2>3, RecvTakesNext
  <2>5. Content(md) \in Bytewise /\ Len(Content(md)) < MemWord
    BY <2>3, <2>4 DEF Bytewise
  <2>6. NewMem \in Buffers /\ NewMem.m_offset = 0
    BY MemAssumption DEF NewMem, Buffers, Bytewise
  <2>7. Content(Copy(NewMem, Content(md))) = Content(md)
    BY <2>5, <2>6, CopyIntoEmpty
  <2> QED BY <1>5, <1>6, <1>10, <2>2, <2>4, <2>7
<1>15. WholeReadsAreExact'
  <2>1. \A m, i : Package(m, i)' = Package(m, i)
    BY DEF Package, Ends
  <2>2. \A id \in Live' : id # NextId => id \in Live /\ work'[id] = work[id]
    BY <1>10, <1>12 DEF DataInv, WorkOK
  <2>3. \A id \in Live' : work'[id].whole /\ work'[id].at = "begin" =>
           Content(work'[id].recvdata) = Package(work'[id].asker, work'[id].nth)
    BY <1>10, <1>11, <1>14, <2>2 DEF DataInv, WholeReadsAreExact
  <2> QED BY <2>1, <2>3 DEF WholeReadsAreExact, Content
<1> QED BY <1>9, <1>13, <1>15 DEF DataInv

(* Nothing that a client sends is touched.                                 *)
LEMMA SameClientsKeepStreams ==
    ASSUME DataInv, UNCHANGED client
    PROVE  StreamsOK'
BY DEF DataInv, StreamsOK, StreamOK, Sent, Ends

(* wait_ms gives the request's bytes back.                                 *)
LEMMA WaitKeepsData ==
    ASSUME WholeInv, DataInv, ProcessWaits
    PROVE  DataInv'
<1>1. /\ work' = [work EXCEPT ![m_active].at = "reply", ![m_active].recvdata = NewMem]
      /\ UNCHANGED client /\ pc = "Callback" /\ CallbackWait(ReplyWait)
  BY DEF ProcessWaits, Running, clientVars
<1>2. m_active \in Live /\ m_active \in DOMAIN work
  BY <1>1 DEF WholeInv, SchedulerInv, TypeOK, BlocksBelongToOwners, MainLabels, Live
<1>3. Live' = Live
  BY <1>1, NodesStay, ServerAssumption
<1>4. /\ DOMAIN work' = DOMAIN work
      /\ work'[m_active] = [work[m_active] EXCEPT !.at = "reply", !.recvdata = NewMem]
      /\ \A id \in DOMAIN work \ {m_active} : work'[id] = work[id]
  BY <1>1, <1>2
<1>5. /\ work'[m_active].at = "reply" /\ IsRequest(work'[m_active])
      /\ work'[m_active].server_socket = work[m_active].server_socket
  BY <1>2, <1>4 DEF DataInv, WorkOK, IsRequest
<1>6. WorkOK'
  BY <1>2, <1>3, <1>4, <1>5 DEF DataInv, WorkOK
<1>7. WholeReadsAreExact'
  <2>1. \A m, i : Package(m, i)' = Package(m, i)
    BY DEF Package, Ends
  <2>2. \A id \in Live' : work'[id].at = "begin" => id \in Live /\ work'[id] = work[id]
    BY <1>3, <1>4, <1>5 DEF DataInv, WorkOK
  <2>3. \A id \in Live' : work'[id].whole /\ work'[id].at = "begin" =>
           Content(work'[id].recvdata) = Package(work'[id].asker, work'[id].nth)
    BY <2>2 DEF DataInv, WholeReadsAreExact
  <2> QED BY <2>1, <2>3 DEF WholeReadsAreExact, Content
<1> QED BY <1>1, <1>6, <1>7, SameClientsKeepStreams DEF DataInv

(* A reply waits for room, so unread stays within the window.              *)
LEMMA ReplyKeepsData ==
    ASSUME WholeInv, DataInv, ProcessReplies
    PROVE  DataInv'
<1>1. PICK n \in Clients :
        /\ client[n].unread < Window \/ client[n].shut
        /\ client' = [client EXCEPT ![n].unread = IF client[n].shut THEN @ ELSE @ + 1]
  BY ReplyEffect
<1>2. DOMAIN client = Clients /\ ClientOK(client[n]) /\ StreamOK(n, client[n])
  BY DEF WholeInv, ServerInv, ClientsOK, DataInv, StreamsOK
<1> DEFINE u == IF client[n].shut THEN client[n].unread ELSE client[n].unread + 1
<1>3. u \in 0 .. Window
  BY <1>1, <1>2, ServerAssumption DEF StreamOK
<1>4. client'[n] = [client[n] EXCEPT !.unread = u] /\ \A m \in Clients \ {n} : client'[m] = client[m]
  BY <1>1, <1>2
<1> HIDE DEF u
<1>5. /\ client'[n].unread = u /\ client'[n].fd = client[n].fd
      /\ client'[n].read = client[n].read /\ client'[n].shut = client[n].shut
      /\ client'[n].whole = client[n].whole /\ client'[n].requests = client[n].requests
  BY <1>2, <1>4 DEF ClientOK, IsRecord
<1>6. StreamOK(n, client'[n])
  BY <1>2, <1>3, <1>5 DEF StreamOK
<1>7. Live' = Live /\ UNCHANGED work
  BY NodesStay DEF ProcessReplies
<1> QED BY <1>4, <1>6, <1>7, StreamsOfSameRecords, SameWorkKeeps DEF DataInv, WorkOK

(* No stream is read and no request there.                                 *)
LEMMA DataInvInit == ServerInit => DataInv
<1> SUFFICES ASSUME ServerInit PROVE DataInv
  OBVIOUS
<1>1. ASSUME NEW n \in Clients
      PROVE  StreamOK(n, client[n])
  <2>1. /\ client[n].fd = NoFd /\ client[n].read = 0 /\ client[n].unread = 0
        /\ client[n].shut = FALSE /\ client[n].requests = 0
    BY DEF ServerInit, NewClient
  <2>2. client[n].whole = TRUE
    BY DEF ServerInit, NewClient
  <2>3. /\ Sent(n) \in Nat /\ Window \in Nat /\ Len(Packages[n]) \in Nat /\ Ends(n)[0] = 0
    BY StreamOfPackages, EndsAreSums, ServerAssumption DEF IsSum
  <2>4. client[n].requests \in 0 .. Len(Packages[n]) /\ client[n].read = Ends(n)[client[n].requests]
    BY <2>1, <2>3
  <2>5. client[n].read \in 0 .. Sent(n) /\ client[n].unread \in 0 .. Window
    BY <2>1, <2>3
  <2> QED BY <2>1, <2>2, <2>4, <2>5 DEF StreamOK
<1>2. Live = {} /\ DOMAIN work = {}
  BY DEF ServerInit, Init, Live, EmptyMap
<1> QED BY <1>1, <1>2 DEF DataInv, StreamsOK, WorkOK, WholeReadsAreExact

(* One case per kind of step.                                              *)
LEMMA DataInvStep ==
    ASSUME WholeInv, DataInv, [ServerNext]_serverVars
    PROVE  DataInv'
<1>1. ASSUME NEW n \in Clients,
             EventAccept(n) \/ EventDrops(n) \/ EventRequest(n) \/ EventClosed(n) \/ ClientStep(n)
      PROVE  DataInv'
  BY <1>1, AcceptKeepsData, DropsKeepData, RequestKeepsData, ClosedKeepsData, ClientStepKeepsData
<1>2. ASSUME Live' = Live, UNCHANGED <<client, work>>
      PROVE  DataInv'
  BY <1>2, SameClientsKeepStreams, SameWorkKeeps DEF DataInv, WorkOK
<1>3. CASE ServerMain
  <2>1. CASE ScheduleAllEnd /\ work' = MapErase(work, iter) /\ UNCHANGED client
    <3>1. Live' = Live \ {iter} /\ DOMAIN work' = DOMAIN work \ {iter}
      BY <2>1 DEF ScheduleAllEnd, AtNode, MapErase, Live
    <3>2. \A id \in Live' : work'[id] = work[id]
      BY <2>1, <3>1 DEF MapErase, DataInv, WorkOK
    <3> QED BY <2>1, <3>1, <3>2, SameClientsKeepStreams, SameWorkKeeps DEF DataInv, WorkOK
  <2>2. CASE ~ ScheduleAllEnd
    <3>1. Live' = Live /\ UNCHANGED <<client, work>>
      BY <1>3, <2>2, NodesStay DEF ServerMain, clientVars
    <3> QED BY <1>2, <3>1
  <2> QED BY <1>2, <1>3, <2>1, <2>2, NodesStay DEF ServerMain, clientVars
<1>4. CASE Process
  <2>1. CASE EntryStart \/ ProcessRefuses \/ ProcessReplyFails
    <3>1. Live' = Live
      BY <2>1, NodesStay DEF ProcessRefuses, ProcessReplyFails
    <3>2. CASE UNCHANGED <<client, work>>
      BY <1>2, <3>1, <3>2
    <3> QED BY <1>4, <2>1, <3>2, WaitKeepsData, ReplyKeepsData
            DEF Process, ProcessRefuses, ProcessReplyFails, clientVars
  <2> QED BY <1>4, <2>1, WaitKeepsData, ReplyKeepsData DEF Process
<1>5. CASE TimePasses \/ UNCHANGED serverVars
  <2>1. Live' = Live /\ UNCHANGED <<client, work>>
    BY <1>5 DEF TimePasses, serverVars, coroutineVars, clientVars, Live
  <2> QED BY <1>2, <2>1
<1> QED BY <1>1, <1>3, <1>4, <1>5 DEF ServerNext, ServerEvents

(* What clients sent and coroutines hold, in every reachable state.        *)
THEOREM ServerDataInvariant == ServerSpec => []DataInv
<1>1. WholeInv /\ DataInv /\ [ServerNext]_serverVars => DataInv'
  BY DataInvStep
<1> QED BY <1>1, DataInvInit, ServerInvariant, PTL DEF ServerSpec

(***************************************************************************)
(* The server's variables keep their types: nothing is read that was not   *)
(* sent, the window bounds what a client has to read, and stReqData is     *)
(* there for exactly the coroutines of the scheduler's map.                *)
(***************************************************************************)
THEOREM ServerTypeCorrect == ServerSpec => []ServerTypeOK
<1>1. WholeInv /\ DataInv => ServerTypeOK
  <2> SUFFICES ASSUME WholeInv, DataInv PROVE ServerTypeOK
    OBVIOUS
  <2>1. \A n \in Clients : /\ client[n].state \in {"queued", "open", "gone"}
                           /\ client[n].requests \in Nat
                           /\ replies[n] \in Seq([asker : Clients, nth : Nat])
    BY DEF WholeInv, ServerInv, ClientsOK, ClientOK, RepliesOK
  <2>2. \A id \in Live : work[id].asker \in Clients
    BY DEF WholeInv, ServerInv, SocketsOK
  <2> QED BY <2>1, <2>2 DEF ServerTypeOK, DataInv, StreamsOK, StreamOK, WorkOK
<1> QED BY <1>1, ServerInvariant, ServerDataInvariant, PTL

(***************************************************************************)
(* As long as every recv takes exactly one package (EventMgr.h:49), the    *)
(* k-th coroutine of a client gets its k-th package, whatever the lengths  *)
(* of the packages and of the receive buffer are.                          *)
(***************************************************************************)
THEOREM WholeReadsAreAlwaysExact == ServerSpec => []WholeReadsAreExact
BY ServerDataInvariant, PTL DEF DataInv
-----------------------------------------------------------------------------
(***************************************************************************)
(* The order of the replies.  A coroutine that has not ended either did    *)
(* not start (or is the one that starts now), or waits to reply (or is the *)
(* one that replies now); and                                              *)
(*   IdsGrow          ids go up, as long as they do not wrap;              *)
(*   BegunFirst       only the iterator starts a coroutine;                *)
(*   EarlierWaitToo   coroutines started in the order of their ids;        *)
(*   DeadlinesGrow    so their deadlines have that order;                  *)
(*   EarliestReplies  who replies is the first of those with a deadline;   *)
(*   RequestsGrow     ids and a client's requests have the same order;     *)
(*   RepliesCounted   what was sent comes before what may still be sent.   *)
(***************************************************************************)
Armed        == DOMAIN timers.m_id_to_expire
Deadline(id) == timers.m_id_to_expire[id]
Unended      == {id \in Live : m_idtonode[id].m_state # "E_END"}

\* A coroutine whose timeout was dropped waits for ever.
MayReply == {id \in Unended : work[id].at = "begin" \/ id \in Armed \/ id = m_active}

RequestsOK == \A id \in Live : IsRequest(work[id])

IdsGrow == \A id \in Live : id <= staticid

BegunFirst ==
    \A id \in Unended :
        \/ work[id].at = "begin" /\ id \notin Waiting /\ (id = m_active => iter = id)
        \/ work[id].at = "reply" /\ (id \in Waiting \/ id = m_active)

EarlierWaitToo ==
    \A a, b \in Unended : a < b /\ work[b].at = "reply" => work[a].at = "reply"

DeadlinesGrow ==
    /\ \A a \in Armed : Deadline(a) <= now + ReplyWait
    /\ \A a, b \in Armed : a < b => Deadline(a) <= Deadline(b)

EarliestReplies ==
    m_active \in Unended /\ work[m_active].at = "reply" => \A a \in Armed : m_active < a

RequestsGrow ==
    /\ \A a \in Live : client[work[a].asker].state = "open" =>
                         work[a].nth <= client[work[a].asker].requests
    /\ \A a, b \in Live : a < b /\ work[a].asker = work[b].asker => work[a].nth < work[b].nth

RepliesCounted ==
    \A n \in Clients : \A i \in DOMAIN replies[n] :
        LET r == replies[n][i] IN
        /\ client[r.asker].state # "queued"
        /\ client[r.asker].state = "open" => r.nth <= client[r.asker].requests
        /\ \A b \in MayReply : work[b].asker = r.asker => r.nth < work[b].nth

OrderInv ==
    /\ RequestsOK /\ IdsGrow /\ BegunFirst /\ EarlierWaitToo
    /\ DeadlinesGrow /\ EarliestReplies
    /\ RequestsGrow /\ RepliesCounted /\ RepliesInOrder
-----------------------------------------------------------------------------
(* Types the order needs.                                                  *)
LEMMA OrderTypes ==
    ASSUME WholeInv
    PROVE  /\ Live \subseteq Nat \ {0} /\ Armed \subseteq Live \cap Waiting
           /\ Live \subseteq DOMAIN work
           /\ \A id \in Armed : Deadline(id) \in Nat
           /\ \A id \in Live : work[id].asker \in Clients /\ work[id].nth \in Nat
           /\ \A n \in Clients : client[n].requests \in Nat
           /\ staticid \in Nat /\ now \in Nat /\ ReplyWait \in Nat
           /\ m_active # Main => m_active \in Live
<1>1. TypeOK /\ TimersTypeOK /\ TimersOwnedByWaiters
  BY DEF WholeInv, SchedulerInv, TypeOK
<1>2. Live \subseteq Nat \ {0}
  BY <1>1, CoroutineAssumption DEF TypeOK, Live, Main
<1>3. ReplyWait \in Nat
  BY ServerAssumption, ExpireAssumption
<1>4. \A id \in Armed : Deadline(id) \in Nat
  BY <1>1 DEF TimersTypeOK, IsIndex, Armed, Deadline
<1>5. Armed \subseteq Live \cap Waiting
  BY <1>1 DEF TimersOwnedByWaiters, Armed, Waiting
<1>6. \A id \in Live : work[id].asker \in Clients /\ work[id].nth \in Nat
  BY DEF WholeInv, ServerInv, SocketsOK
<1>7. \A n \in Clients : client[n].requests \in Nat
  BY DEF WholeInv, ServerInv, ClientsOK, ClientOK
<1>8. staticid \in Nat /\ now \in Nat
  BY <1>1, CoroutineAssumption DEF TypeOK, TimersTypeOK
<1>9. m_active # Main => m_active \in Live
  BY <1>1 DEF TypeOK, Live
<1> QED BY <1>2, <1>3, <1>4, <1>5, <1>6, <1>7, <1>8, <1>9 DEF WholeInv

(* No coroutine is added, none changes its request, no deadline moves.     *)
CoroutinesShrink ==
    /\ Live' \subseteq Live /\ Unended' \subseteq Unended
    /\ \A id \in Live' : work'[id] = work[id]
    /\ staticid' = staticid
    /\ Armed' \subseteq Armed
    /\ \A id \in Armed' : Deadline(id)' = Deadline(id)
    /\ now' \in Nat /\ now <= now'

LEMMA ShrinkKeepsOrder ==
    ASSUME WholeInv, OrderInv, CoroutinesShrink
    PROVE  RequestsOK' /\ IdsGrow' /\ EarlierWaitToo' /\ DeadlinesGrow'
<1>1. RequestsOK' /\ IdsGrow'
  BY DEF OrderInv, CoroutinesShrink, RequestsOK, IdsGrow
<1>2. EarlierWaitToo'
  BY DEF OrderInv, CoroutinesShrink, EarlierWaitToo, Unended
<1>3. \A a \in Armed : Deadline(a) \in Nat /\ Deadline(a) <= now + ReplyWait
  BY OrderTypes DEF OrderInv, DeadlinesGrow
<1>4. \A a \in Armed' : Deadline(a) <= now' + ReplyWait
  BY <1>3, OrderTypes DEF CoroutinesShrink
<1>5. DeadlinesGrow'
  BY <1>4 DEF OrderInv, CoroutinesShrink, DeadlinesGrow
<1> QED BY <1>1, <1>2, <1>5

(* Who was accepted stays accepted, who is open was open with as many      *)
(* requests or fewer, or was queued.                                       *)
ClientsGoOn ==
    \A n \in Clients :
        /\ client[n].state # "queued" => client'[n].state # "queued"
        /\ client'[n].state = "open" /\ client[n].state # "queued" =>
              /\ client[n].state = "open"
              /\ client'[n].requests \in Nat /\ client[n].requests <= client'[n].requests

SameRequest(id) == work'[id].asker = work[id].asker /\ work'[id].nth = work[id].nth

LEMMA SameRequestsGrow ==
    ASSUME WholeInv, OrderInv, ClientsGoOn, \A id \in Live' : id \in Live /\ SameRequest(id)
    PROVE  RequestsGrow'
<1>1. \A a \in Live : client[work[a].asker].state # "queued"
  BY DEF WholeInv, ServerInv, SocketsOK
<1>2. ASSUME NEW a \in Live'
      PROVE  client'[work[a].asker].state = "open" =>
                 work[a].nth <= client'[work[a].asker].requests
  <2> DEFINE n == work[a].asker
  <2>1. a \in Live /\ n \in Clients /\ work[a].nth \in Nat
    BY OrderTypes
  <2>2. client[n].state = "open" => work[a].nth <= client[n].requests
    BY <2>1 DEF OrderInv, RequestsGrow
  <2>3. client[n].requests \in Nat /\ client[n].state # "queued"
    BY <1>1, <2>1, OrderTypes
  <2> HIDE DEF n
  <2>4. client'[n].state = "open" => work[a].nth <= client'[n].requests
    BY <2>1, <2>2, <2>3 DEF ClientsGoOn
  <2> QED BY <2>4 DEF n
<1>3. \A a, b \in Live' : a < b /\ work'[a].asker = work'[b].asker => work'[a].nth < work'[b].nth
  BY DEF OrderInv, RequestsGrow, SameRequest
<1> QED BY <1>2, <1>3 DEF RequestsGrow, SameRequest

(* Nothing is sent, and nobody may reply that could not before.            *)
LEMMA SameRepliesCounted ==
    ASSUME WholeInv, OrderInv, ClientsGoOn, UNCHANGED replies,
           \A id \in MayReply' : id \in MayReply /\ SameRequest(id)
    PROVE  RepliesCounted' /\ RepliesInOrder'
<1>1. RepliesInOrder'
  BY DEF OrderInv, RepliesInOrder
<1>2. ASSUME NEW n \in Clients, NEW i \in DOMAIN replies[n], NEW r, r = replies[n][i]
      PROVE  /\ client'[r.asker].state # "queued"
             /\ client'[r.asker].state = "open" => r.nth <= client'[r.asker].requests
             /\ \A b \in MayReply' : work'[b].asker = r.asker => r.nth < work'[b].nth
  <2>1. r.asker \in Clients /\ r.nth \in Nat
    BY <1>2, RepliesAreRecords DEF WholeInv, ServerInv
  <2>2. /\ client[r.asker].state # "queued"
        /\ client[r.asker].state = "open" => r.nth <= client[r.asker].requests
        /\ \A b \in MayReply : work[b].asker = r.asker => r.nth < work[b].nth
    BY <1>2 DEF OrderInv, RepliesCounted
  <2>3. client[r.asker].requests \in Nat
    BY <2>1, OrderTypes
  <2>4. client'[r.asker].state # "queued"
    BY <2>1, <2>2 DEF ClientsGoOn
  <2>5. client'[r.asker].state = "open" => r.nth <= client'[r.asker].requests
    BY <2>1, <2>2, <2>3 DEF ClientsGoOn
  <2> QED BY <2>2, <2>4, <2>5 DEF SameRequest
<1>3. RepliesCounted'
  BY <1>2 DEF RepliesCounted
<1> QED BY <1>1, <1>3

(* The clients are as they were, but for what they were sent and read.     *)
LEMMA SameConnectionsGoOn ==
    ASSUME WholeInv, SameConnections,
           \A n \in Clients : client'[n].requests = client[n].requests
    PROVE  ClientsGoOn
BY OrderTypes DEF SameConnections, ClientsGoOn
-----------------------------------------------------------------------------
(* No coroutine moves: the clock, the clients, or main between two of them. *)
LEMMA IdleKeepsOrder ==
    ASSUME WholeInv, OrderInv, UNCHANGED <<m_idtonode, m_active, staticid, work, replies>>,
           iter' = iter \/ m_active = Main,
           Armed' \subseteq Armed, \A id \in Armed' : Deadline(id)' = Deadline(id),
           now' \in Nat, now <= now', ClientsGoOn
    PROVE  OrderInv'
<1>1. Live' = Live /\ Unended' = Unended /\ Waiting' = Waiting
  BY DEF Live, Unended, Waiting
<1>2. CoroutinesShrink
  BY <1>1 DEF CoroutinesShrink
<1>3. BegunFirst'
  BY <1>1 DEF OrderInv, BegunFirst, Unended, Live
<1>4. EarliestReplies'
  BY <1>1 DEF OrderInv, EarliestReplies
<1>5. \A id \in MayReply' : id \in MayReply /\ work'[id] = work[id]
  BY <1>1 DEF MayReply
<1> QED BY <1>2, <1>3, <1>4, <1>5, ShrinkKeepsOrder, SameRequestsGrow, SameRepliesCounted
        DEF OrderInv, CoroutinesShrink, SameRequest

(* A coroutine that is ready when main runs did not start yet.             *)
LEMMA ReadyKeepsOrder ==
    ASSUME WholeInv, OrderInv, ScheduleAllReady, UNCHANGED <<clientVars, work>>
    PROVE  OrderInv'
<1>1. /\ iter \in Live /\ m_idtonode[iter].m_state = "E_READY" /\ m_active = Main
      /\ Schedule(m_idtonode, iter, "ScheduleAll")
      /\ UNCHANGED <<timers, now, staticid, iter, client, replies, work>>
  BY DEF ScheduleAllReady, AtNode, clientVars, WholeInv, SchedulerInv, BlocksBelongToOwners,
         MainLabels
<1>2. /\ DOMAIN m_idtonode' = DOMAIN m_idtonode /\ m_active' = iter
      /\ \A x \in DOMAIN m_idtonode : m_idtonode'[x].m_state = m_idtonode[x].m_state
  BY <1>1, ScheduleEffect DEF WholeInv, SchedulerInv, TypeOK, Live, MainLabels
<1>3. Live' = Live /\ Unended' = Unended /\ Waiting' = Waiting /\ Armed' = Armed
  BY <1>1, <1>2 DEF Live, Unended, Waiting, Armed
<1>4. iter \in Unended /\ work[iter].at = "begin"
  BY <1>1 DEF OrderInv, BegunFirst, Unended, Live, Waiting
<1>5. CoroutinesShrink
  BY <1>1, <1>3, OrderTypes DEF CoroutinesShrink, Deadline
<1>6. BegunFirst'
  BY <1>1, <1>2, <1>3, <1>4 DEF OrderInv, BegunFirst, Unended, Live
<1>7. EarliestReplies'
  BY <1>1, <1>2, <1>4 DEF EarliestReplies
<1>8. \A id \in MayReply' : id \in MayReply /\ work'[id] = work[id]
  BY <1>1, <1>2, <1>3, <1>4 DEF MayReply
<1>9. ClientsGoOn
  BY <1>1, OrderTypes DEF ClientsGoOn
<1> QED BY <1>1, <1>5, <1>6, <1>7, <1>8, <1>9,
           ShrinkKeepsOrder, SameRequestsGrow, SameRepliesCounted
        DEF OrderInv, CoroutinesShrink, SameRequest

(* An ended coroutine leaves the map, and its request goes.                *)
LEMMA ReapKeepsOrder ==
    ASSUME WholeInv, OrderInv, ScheduleAllEnd, work' = MapErase(work, iter),
           UNCHANGED clientVars
    PROVE  OrderInv'
<1>1. /\ iter \in Live /\ m_idtonode[iter].m_state = "E_END" /\ m_active = Main
      /\ m_idtonode' = MapErase(m_idtonode, iter)
      /\ UNCHANGED <<timers, now, staticid, m_active, client, replies>>
  BY DEF ScheduleAllEnd, AtNode, clientVars, WholeInv, SchedulerInv, BlocksBelongToOwners,
         MainLabels
<1>2. /\ Live' = Live \ {iter} /\ Unended' = Unended /\ Waiting' = Waiting
      /\ Armed' = Armed /\ iter \notin Unended
  BY <1>1 DEF Live, Unended, Waiting, Armed, MapErase
<1>3. \A id \in Live' : work'[id] = work[id]
  BY <1>2, OrderTypes DEF MapErase
<1>4. CoroutinesShrink
  BY <1>1, <1>2, <1>3, OrderTypes DEF CoroutinesShrink, Deadline
<1>5. Unended \subseteq Live' /\ Main \notin Live
  BY <1>2 DEF Unended, Live
<1>6. BegunFirst'
  BY <1>1, <1>2, <1>3, <1>5 DEF OrderInv, BegunFirst
<1>7. EarliestReplies'
  BY <1>1, <1>2, <1>5 DEF EarliestReplies
<1>8. \A id \in MayReply' : id \in MayReply /\ work'[id] = work[id]
  BY <1>1, <1>2, <1>3, <1>5 DEF MayReply
<1>9. ClientsGoOn
  BY <1>1, OrderTypes DEF ClientsGoOn
<1> QED BY <1>1, <1>4, <1>6, <1>7, <1>8, <1>9,
           ShrinkKeepsOrder, SameRequestsGrow, SameRepliesCounted
        DEF OrderInv, CoroutinesShrink, SameRequest

(* Of those with the earliest deadline NextWaitTime names the smallest id. *)
LEMMA DueIsFirst ==
    ASSUME TimersTypeOK, IndexesAgree, NextWaitTime.id # 0,
           NEW a \in DOMAIN timers.m_id_to_expire
    PROVE  LET id == NextWaitTime.id IN
           /\ id \in DOMAIN timers.m_id_to_expire
           /\ \/ timers.m_id_to_expire[id] < timers.m_id_to_expire[a]
              \/ timers.m_id_to_expire[id] = timers.m_id_to_expire[a] /\ id <= a
<1> DEFINE first == Min(DOMAIN timers.m_expire_to_id)
           child == timers.m_expire_to_id[first]
<1>1. DOMAIN timers.m_expire_to_id # {}
  BY DEF NextWaitTime
<1>2. /\ first \in Nat /\ child # {}
      /\ \A id \in child : /\ id \in Ids /\ id \in DOMAIN timers.m_id_to_expire
                            /\ timers.m_id_to_expire[id] = first
      /\ first <= timers.m_id_to_expire[a]
  BY <1>1, FirstDeadline
<1>3. child \subseteq Nat
  BY <1>2, ExpireAssumption
<1>4. Min(child) \in child /\ \A y \in child : Min(child) <= y
  BY <1>2, <1>3, MinOfNats
<1>5. NextWaitTime.id = Min(child)
  BY <1>1, <1>2 DEF NextWaitTime
<1>6. timers.m_id_to_expire[a] = first => a \in child
  BY DEF IndexesAgree, Agrees, Indexed
<1>7. timers.m_id_to_expire[a] \in Nat
  BY DEF TimersTypeOK, IsIndex
<1> HIDE DEF first, child
<1> QED BY <1>2, <1>4, <1>5, <1>6, <1>7

(* The one that is due replies: nobody with a smaller id still has a       *)
(* deadline.                                                               *)
LEMMA ExpiredKeepsOrder ==
    ASSUME WholeInv, OrderInv, RunOnceExpired, UNCHANGED <<clientVars, work>>
    PROVE  OrderInv'
<1> DEFINE id    == NextWaitTime.id
           nodes == WithState(m_idtonode, id, "E_READY")
<1>1. /\ id \in Waiting /\ id \in Live /\ m_active = Main /\ NextWaitTime.id # 0
      /\ UNCHANGED <<now, staticid, client, replies, work>>
  BY DueIsWaiting DEF RunOnceExpired, clientVars, WholeInv, SchedulerInv, Waiting,
                      BlocksBelongToOwners, MainLabels
<1>2. timers'.m_id_to_expire = MapErase(timers.m_id_to_expire, id)
  BY DelKeepsTimers DEF RunOnceExpired, WholeInv
<1>3. \A a \in Armed : /\ id \in Armed
                       /\ Deadline(id) < Deadline(a) \/ (Deadline(id) = Deadline(a) /\ id <= a)
  BY <1>1, DueIsFirst DEF WholeInv, SchedulerInv, TypeOK, Armed, Deadline
<1>4. id \in Armed
  BY <1>1, NextWaitTimeAnswers
     DEF WholeInv, SchedulerInv, TypeOK, NextWaitTimeKeepsWord, Table!IsAnswer, Armed
<1>5. /\ nodes \in [DOMAIN m_idtonode -> Nodes]
      /\ nodes[id].m_state = "E_READY"
      /\ \A x \in DOMAIN m_idtonode : x # id => nodes[x].m_state = m_idtonode[x].m_state
  BY <1>1, WithStateEffect DEF WholeInv, SchedulerInv, TypeOK, Live, States
<1>6. Schedule(nodes, id, "ScheduleAll")
  BY DEF RunOnceExpired
<1> HIDE DEF id, nodes
<1>7. /\ DOMAIN m_idtonode' = DOMAIN m_idtonode /\ m_active' = id
      /\ m_idtonode'[id].m_state = "E_READY"
      /\ \A x \in DOMAIN m_idtonode \ {id} : m_idtonode'[x].m_state = m_idtonode[x].m_state
  BY <1>1, <1>5, <1>6, ScheduleEffect DEF WholeInv, SchedulerInv, TypeOK, Live, MainLabels
<1>8. /\ Live' = Live /\ Unended' = Unended /\ Waiting' = Waiting \ {id}
      /\ Armed' = Armed \ {id} /\ \A a \in Armed' : Deadline(a)' = Deadline(a)
  BY <1>1, <1>2, <1>7 DEF Live, Unended, Waiting, Armed, Deadline, MapErase
<1>9. id \in Unended /\ work[id].at = "reply"
  BY <1>1 DEF OrderInv, BegunFirst, Unended, Waiting
<1>10. CoroutinesShrink
  BY <1>1, <1>8, OrderTypes DEF CoroutinesShrink
<1>11. BegunFirst'
  <2>1. \A x \in Unended : x # Main
    BY DEF Unended, Live
  <2> QED BY <1>1, <1>7, <1>8, <1>9, <2>1 DEF OrderInv, BegunFirst
<1>12. EarliestReplies'
  <2>1. ASSUME NEW a \in Armed, a # id
        PROVE  id < a
    <3>1. a \in Nat /\ id \in Nat /\ Deadline(a) \in Nat /\ Deadline(id) \in Nat
      BY <1>4, OrderTypes
    <3>2. a < id => Deadline(a) <= Deadline(id)
      BY <1>4 DEF OrderInv, DeadlinesGrow
    <3> QED BY <1>3, <2>1, <3>1, <3>2
  <2> QED BY <1>7, <1>8, <2>1 DEF EarliestReplies
<1>13. \A x \in MayReply' : x \in MayReply /\ work'[x] = work[x]
  BY <1>1, <1>4, <1>7, <1>8, <1>9 DEF MayReply
<1>14. ClientsGoOn
  BY <1>1, OrderTypes DEF ClientsGoOn
<1> QED BY <1>1, <1>10, <1>11, <1>12, <1>13, <1>14,
           ShrinkKeepsOrder, SameRequestsGrow, SameRepliesCounted
        DEF OrderInv, CoroutinesShrink, SameRequest
-----------------------------------------------------------------------------
(* Who runs is not ended, and its request is there.                        *)
LEMMA RunnerHasWork ==
    ASSUME WholeInv, pc = "Callback"
    PROVE  /\ m_active \in Unended /\ m_active \in Live /\ m_active \in DOMAIN work
           /\ m_active \notin Waiting
<1>1. m_active # Main /\ m_active \in Live
  BY DEF WholeInv, SchedulerInv, TypeOK, BlocksBelongToOwners, MainLabels, Live
<1>2. m_idtonode[m_active].m_state = "E_READY"
  BY <1>1 DEF WholeInv, SchedulerInv, OwnerRuns
<1> QED BY <1>1, <1>2 DEF WholeInv, Unended, Waiting

(* The back half of a wait and of an end, as far as the order sees it.     *)
LEMMA LeavesToMain ==
    ASSUME WholeInv, pc = "Callback", NEW s \in {"E_WAIT", "E_END"}, NEW here \in CoLabels,
           Schedule(WithState(m_idtonode, m_active, s), Main, here)
    PROVE  /\ Live' = Live /\ m_active' = Main
           /\ m_idtonode'[m_active].m_state = s
           /\ \A x \in Live \ {m_active} : m_idtonode'[x].m_state = m_idtonode[x].m_state
<1> DEFINE nodes == WithState(m_idtonode, m_active, s)
<1>1. m_idtonode \in [DOMAIN m_idtonode -> Nodes] /\ m_active \in DOMAIN m_idtonode
      /\ Main \in DOMAIN m_idtonode
  BY DEF WholeInv, SchedulerInv, TypeOK
<1>2. /\ nodes \in [DOMAIN m_idtonode -> Nodes] /\ DOMAIN nodes = DOMAIN m_idtonode
      /\ nodes[m_active].m_state = s
      /\ \A x \in DOMAIN m_idtonode \ {m_active} : nodes[x].m_state = m_idtonode[x].m_state
  BY <1>1, WithStateEffect DEF States
<1>3. Schedule(nodes, Main, here)
  OBVIOUS
<1> HIDE DEF nodes
<1> QED BY <1>1, <1>2, <1>3, ScheduleEffect DEF Live

(* A coroutine that starts to wait is the first that did not, and nobody   *)
(* has a later deadline.                                                   *)
LEMMA WaitKeepsOrder ==
    ASSUME WholeInv, OrderInv, ProcessWaits
    PROVE  OrderInv'
<1> DEFINE c == m_active
<1>1. /\ pc = "Callback" /\ work[c].at = "begin" /\ CallbackWait(ReplyWait)
      /\ work' = [work EXCEPT ![c].at = "reply", ![c].recvdata = NewMem]
      /\ UNCHANGED <<now, staticid, client, replies>>
  BY DEF ProcessWaits, Running, CallbackWait, clientVars
<1>2. c \in Unended /\ c \in Live /\ c \in DOMAIN work /\ iter = c /\ c # Main
  BY <1>1, RunnerHasWork DEF OrderInv, BegunFirst, Live
<1>3. timers'.m_id_to_expire = MapPut(timers.m_id_to_expire, c, now + ReplyWait)
  <2>1. c \in Ids
    BY <1>2, CoroutineAssumption DEF WholeInv, SchedulerInv, TypeOK, Live, Main
  <2> QED BY <1>1, <2>1, SetTimerKeeps, OrderTypes
          DEF CallbackWait, WholeInv, SchedulerInv, TypeOK, TimersTypeOK, IndexesAgree
<1>4. /\ Live' = Live /\ m_active' = Main
      /\ m_idtonode'[c].m_state = "E_WAIT"
      /\ \A x \in Live \ {c} : m_idtonode'[x].m_state = m_idtonode[x].m_state
  BY <1>1, LeavesToMain DEF CallbackWait, CoLabels
<1>5. /\ work'[c].at = "reply" /\ SameRequest(c) /\ IsRequest(work'[c])
      /\ \A x \in DOMAIN work \ {c} : work'[x] = work[x]
  <2>1. IsRequest(work[c])
    BY <1>2 DEF OrderInv, RequestsOK
  <2>2. work'[c] = [work[c] EXCEPT !.at = "reply", !.recvdata = NewMem]
    BY <1>1, <1>2
  <2>3. \A x \in DOMAIN work \ {c} : work'[x] = work[x]
    BY <1>1
  <2> QED BY <2>1, <2>2, <2>3 DEF SameRequest, IsRequest
<1>6. \A a \in Live : a < c => a \in Waiting
  BY <1>1, <1>2 DEF WholeInv, SchedulerInv, BehindWait
<1> HIDE DEF c
<1>7. /\ Unended' = Unended /\ Waiting' = Waiting \cup {c}
      /\ Armed' = Armed \cup {c} /\ timers'.m_id_to_expire[c] = now + ReplyWait
      /\ \A a \in Armed \ {c} : Deadline(a)' = Deadline(a)
  <2>1. /\ Armed' = Armed \cup {c} /\ timers'.m_id_to_expire[c] = now + ReplyWait
        /\ \A a \in Armed \ {c} : Deadline(a)' = Deadline(a)
    BY <1>3 DEF Armed, Deadline, MapPut
  <2>2. Unended' = Unended /\ Waiting' = Waiting \cup {c}
    BY <1>2, <1>4 DEF Unended, Waiting
  <2> QED BY <2>1, <2>2
<1>8. \A x \in Live \ {c} : work'[x] = work[x] /\ x \in Nat
  BY <1>5, OrderTypes
<1>9. \A a \in Unended : a \in Live /\ a # Main
  BY DEF Unended, Live
<1>10. RequestsOK' /\ IdsGrow'
  BY <1>1, <1>4, <1>5, <1>8 DEF OrderInv, RequestsOK, IdsGrow
<1>11. BegunFirst'
  BY <1>2, <1>4, <1>5, <1>7, <1>8, <1>9 DEF OrderInv, BegunFirst, c
<1>12. EarlierWaitToo'
  <2>1. \A a \in Unended : a < c => work[a].at = "reply"
    BY <1>6, <1>9 DEF OrderInv, BegunFirst
  <2> QED BY <1>5, <1>7, <1>8, <1>9, <2>1 DEF OrderInv, EarlierWaitToo
<1>13. DeadlinesGrow'
  <2>1. \A a \in Armed : a \in Unended /\ work[a].at = "reply"
    BY OrderTypes DEF OrderInv, BegunFirst, Unended, Waiting
  <2>2. \A a \in Armed : ~ (c < a) /\ a # c
    BY <1>1, <1>2, <2>1 DEF OrderInv, EarlierWaitToo, c
  <2>3. \A a \in Armed : Deadline(a) <= now + ReplyWait /\ Deadline(a) \in Nat
    BY OrderTypes DEF OrderInv, DeadlinesGrow
  <2>4. now + ReplyWait \in Nat
    BY OrderTypes
  <2>5. /\ timers'.m_id_to_expire[c] = now + ReplyWait /\ now' = now
        /\ \A a \in Armed : timers'.m_id_to_expire[a] = Deadline(a)
    BY <1>1, <1>7, <2>2 DEF Deadline
  <2>6. \A a \in Armed' : timers'.m_id_to_expire[a] <= now' + ReplyWait
    BY <1>7, <2>3, <2>4, <2>5
  <2>7. ASSUME NEW a \in Armed', NEW b \in Armed', a < b
        PROVE  timers'.m_id_to_expire[a] <= timers'.m_id_to_expire[b]
    <3>1. CASE a = c
      BY <1>2, <1>7, <2>2, <2>4, <2>5, <2>7, <3>1, OrderTypes
    <3>2. CASE a # c /\ b = c
      BY <1>7, <2>3, <2>5, <3>2
    <3>3. CASE a # c /\ b # c
      BY <1>7, <2>5, <2>7, <3>3 DEF OrderInv, DeadlinesGrow
    <3> QED BY <3>1, <3>2, <3>3
  <2> QED BY <2>6, <2>7 DEF DeadlinesGrow, Deadline
<1>14. EarliestReplies'
  BY <1>4, <1>7, <1>9 DEF EarliestReplies
<1>15. \A x \in Live' : x \in Live /\ SameRequest(x)
  BY <1>4, <1>5, <1>8 DEF SameRequest
<1>16. MayReply' \subseteq MayReply
  BY <1>1, <1>2, <1>4, <1>7, <1>8, <1>9 DEF MayReply, c
<1>17. ClientsGoOn
  BY <1>1, OrderTypes DEF ClientsGoOn
<1>18. MayReply \subseteq Live
  BY <1>9 DEF MayReply
<1>19. RequestsGrow' /\ RepliesCounted' /\ RepliesInOrder'
  BY <1>1, <1>4, <1>15, <1>16, <1>17, <1>18, SameRequestsGrow, SameRepliesCounted
<1> QED BY <1>10, <1>11, <1>12, <1>13, <1>14, <1>19 DEF OrderInv

(* A coroutine that ends leaves the others as they were.                   *)
LEMMA EndShrinks ==
    ASSUME WholeInv, OrderInv, CallbackEnd, UNCHANGED work
    PROVE  /\ RequestsOK' /\ IdsGrow' /\ BegunFirst' /\ EarlierWaitToo'
           /\ DeadlinesGrow' /\ EarliestReplies'
           /\ \A id \in Live' : id \in Live /\ SameRequest(id)
           /\ \A id \in MayReply' : id \in MayReply \ {m_active} /\ SameRequest(id)
<1>1. pc = "Callback" /\ UNCHANGED <<timers, now, staticid, iter>>
  BY DEF CallbackEnd
<1>2. m_active \in Unended /\ m_active \in Live
  BY <1>1, RunnerHasWork
<1>3. /\ Live' = Live /\ m_active' = Main
      /\ m_idtonode'[m_active].m_state = "E_END"
      /\ \A x \in Live \ {m_active} : m_idtonode'[x].m_state = m_idtonode[x].m_state
  BY <1>1, LeavesToMain DEF CallbackEnd, CoLabels
<1>4. /\ Unended' = Unended \ {m_active} /\ Waiting' = Waiting \ {m_active}
      /\ Armed' = Armed /\ Main \notin Unended
  BY <1>1, <1>2, <1>3 DEF Unended, Waiting, Live, Armed
<1>5. CoroutinesShrink
  BY <1>1, <1>3, <1>4, OrderTypes DEF CoroutinesShrink, Deadline
<1>6. BegunFirst'
  BY <1>3, <1>4 DEF OrderInv, BegunFirst
<1>7. EarliestReplies'
  BY <1>3, <1>4 DEF EarliestReplies
<1>8. \A id \in MayReply' : id \in MayReply \ {m_active}
  BY <1>3, <1>4 DEF MayReply
<1> QED BY <1>3, <1>5, <1>6, <1>7, <1>8, ShrinkKeepsOrder DEF SameRequest

(* A coroutine that does not reply.                                        *)
LEMMA RefusalKeepsOrder ==
    ASSUME WholeInv, OrderInv, CallbackEnd, UNCHANGED <<clientVars, work>>
    PROVE  OrderInv'
<1>1. ClientsGoOn /\ UNCHANGED replies
  BY OrderTypes DEF ClientsGoOn, clientVars
<1> QED BY <1>1, EndShrinks, SameRequestsGrow, SameRepliesCounted DEF OrderInv

(* The reply comes after all that were sent to its client, and before all  *)
(* that may still be sent.                                                 *)
LEMMA ReplyKeepsOrder ==
    ASSUME WholeInv, OrderInv, ProcessReplies
    PROVE  OrderInv'
<1> DEFINE w   == work[m_active]
           rep == [asker |-> w.asker, nth |-> w.nth]
<1>1. CallbackEnd /\ UNCHANGED work /\ pc = "Callback" /\ w.at = "reply"
  BY DEF ProcessReplies, Running
<1>2. m_active \in Unended /\ m_active \in Live
  BY <1>1, RunnerHasWork
<1>3. PICK n \in Clients : replies' = [replies EXCEPT ![n] = Append(@, rep)]
  BY ReplyEffect
<1>4. ClientsGoOn /\ SameConnections
  BY ReplyEffect, SameConnectionsGoOn
<1>5. /\ w.asker \in Clients /\ w.nth \in Nat /\ client[w.asker].state # "queued"
      /\ client[w.asker].state = "open" => w.nth <= client[w.asker].requests
  BY <1>1, <1>2, OrderTypes DEF WholeInv, ServerInv, SocketsOK, OrderInv, RequestsGrow
<1>6. ASSUME NEW b \in MayReply, b # m_active, work[b].asker = w.asker
      PROVE  w.nth < work[b].nth
  <2>1. b \in Unended /\ b \in Live /\ b \in Nat /\ m_active \in Nat
    BY <1>2, OrderTypes DEF MayReply, Unended
  <2>2. m_active < b
    <3>1. CASE b \in Armed
      BY <1>1, <1>2, <3>1 DEF OrderInv, EarliestReplies
    <3>2. CASE work[b].at = "begin"
      BY <1>1, <1>2, <1>6, <2>1, <3>2 DEF OrderInv, EarlierWaitToo
    <3> QED BY <1>6, <3>1, <3>2 DEF MayReply
  <2> QED BY <1>2, <1>6, <2>1, <2>2 DEF OrderInv, RequestsGrow
<1>7. m_active \in MayReply
  BY <1>2 DEF MayReply
<1>8. rep.asker = w.asker /\ rep.nth = w.nth
  OBVIOUS
<1> HIDE DEF w, rep
<1>9. RepliesOK
  BY DEF WholeInv, ServerInv
<1>10. RepliesInOrder'
  <2> SUFFICES ASSUME NEW m \in Clients, NEW i \in DOMAIN replies'[m],
                      NEW j \in DOMAIN replies'[m], i < j,
                      replies'[m][i].asker = replies'[m][j].asker
               PROVE  replies'[m][i].nth < replies'[m][j].nth
    BY DEF RepliesInOrder
  <2>1. /\ \/ i \in DOMAIN replies[m] /\ replies'[m][i] = replies[m][i]
           \/ m = n /\ i = Len(replies[n]) + 1 /\ replies'[m][i] = rep
        /\ \/ j \in DOMAIN replies[m] /\ replies'[m][j] = replies[m][j]
           \/ m = n /\ j = Len(replies[n]) + 1 /\ replies'[m][j] = rep
    BY <1>3, <1>9, RepliesAfter
  <2>2. Len(replies[m]) \in Nat /\ DOMAIN replies[m] = 1 .. Len(replies[m])
    BY <1>9 DEF RepliesOK
  <2>3. i \in DOMAIN replies[m] /\ replies'[m][i] = replies[m][i]
    BY <2>1, <2>2
  <2>4. CASE j \in DOMAIN replies[m] /\ replies'[m][j] = replies[m][j]
    BY <2>3, <2>4 DEF OrderInv, RepliesInOrder
  <2>5. CASE replies'[m][j] = rep
    <3>1. replies[m][i].asker = work[m_active].asker
      BY <1>8, <2>3, <2>5 DEF w
    <3>2. replies[m][i].nth < work[m_active].nth
      BY <1>7, <2>3, <3>1 DEF OrderInv, RepliesCounted
    <3> QED BY <1>8, <2>3, <2>5, <3>2 DEF w
  <2> QED BY <2>1, <2>4, <2>5
<1>11. \A id \in MayReply' : id \in MayReply \ {m_active} /\ SameRequest(id)
  BY <1>1, EndShrinks
<1>12. ASSUME NEW r, r.asker \in Clients, r.nth \in Nat,
              client[r.asker].state # "queued",
              client[r.asker].state = "open" => r.nth <= client[r.asker].requests,
              \A b \in MayReply \ {m_active} : work[b].asker = r.asker => r.nth < work[b].nth
       PROVE  /\ client'[r.asker].state # "queued"
              /\ client'[r.asker].state = "open" => r.nth <= client'[r.asker].requests
              /\ \A b \in MayReply' : work'[b].asker = r.asker => r.nth < work'[b].nth
  <2>1. client[r.asker].requests \in Nat
    BY <1>12, OrderTypes
  <2>2. client'[r.asker].state = "open" => r.nth <= client'[r.asker].requests
    BY <1>4, <1>12, <2>1 DEF ClientsGoOn
  <2> QED BY <1>4, <1>11, <1>12, <2>2 DEF ClientsGoOn, SameRequest
<1>13. RepliesCounted'
  <2> SUFFICES ASSUME NEW m \in Clients, NEW i \in DOMAIN replies'[m],
                      NEW r, r = replies'[m][i]
               PROVE  /\ client'[r.asker].state # "queued"
                      /\ client'[r.asker].state = "open" => r.nth <= client'[r.asker].requests
                      /\ \A b \in MayReply' : work'[b].asker = r.asker => r.nth < work'[b].nth
    BY DEF RepliesCounted
  <2>1. CASE i \in DOMAIN replies[m] /\ r = replies[m][i]
    <3>1. r.asker \in Clients /\ r.nth \in Nat
      BY <1>9, <2>1, RepliesAreRecords
    <3>2. /\ client[r.asker].state # "queued"
          /\ client[r.asker].state = "open" => r.nth <= client[r.asker].requests
          /\ \A b \in MayReply : work[b].asker = r.asker => r.nth < work[b].nth
      BY <2>1 DEF OrderInv, RepliesCounted
    <3> QED BY <1>12, <3>1, <3>2
  <2>2. CASE r = rep
    <3>1. \A b \in MayReply \ {m_active} : work[b].asker = r.asker => r.nth < work[b].nth
      BY <1>6, <1>8, <2>2 DEF w
    <3> QED BY <1>5, <1>8, <1>12, <2>2, <3>1
  <2>3. \/ i \in DOMAIN replies[m] /\ r = replies[m][i]
        \/ r = rep
    BY <1>3, <1>9, RepliesAfter
  <2> QED BY <2>1, <2>2, <2>3
<1>14. RequestsGrow'
  BY <1>1, <1>4, EndShrinks, SameRequestsGrow
<1> QED BY <1>1, <1>10, <1>13, <1>14, EndShrinks DEF OrderInv

(* The new coroutine has the largest id and the largest number.            *)
LEMMA RequestKeepsOrder ==
    ASSUME WholeInv, OrderInv, IdLimit # IdSpace, NEW n \in Clients, EventRequest(n)
    PROVE  OrderInv'
<1> DEFINE new == NextId
<1>1. /\ DispatchNewReq /\ staticid + 1 < IdLimit /\ m_active = Main
      /\ UNCHANGED <<timers, now, m_active, iter>> /\ staticid' = new
  BY DEF EventRequest, DispatchNewReq, Create, WholeInv, SchedulerInv, BlocksBelongToOwners,
         MainLabels
<1>2. new = staticid + 1 /\ new \in Nat \ {0}
  <2>1. /\ staticid \in Nat /\ IdSpace \in Nat /\ IdLimit \in Nat /\ IdLimit <= IdSpace
        /\ staticid + 1 < IdSpace
    BY <1>1, OrderTypes, CoroutineAssumption
  <2> QED BY <2>1 DEF NextId
<1>3. \A id \in Live : id \in Nat /\ id < new
  BY <1>2, OrderTypes DEF OrderInv, IdsGrow
<1>4. m_idtonode' = MapPut(m_idtonode, new, [m_state |-> "E_READY", m_coroutine |-> "Entry"])
  BY <1>1, <1>2, <1>3 DEF DispatchNewReq, Create, Live, Main
<1>5. /\ SameConnections /\ UNCHANGED replies /\ client[n].state = "open"
      /\ client'[n].requests = client[n].requests + 1
      /\ \A m \in Clients \ {n} : client'[m] = client[m]
      /\ \A id \in DOMAIN work \ {new} : work'[id] = work[id]
      /\ work'[new].asker = n /\ work'[new].at = "begin"
      /\ work'[new].nth = client'[n].requests /\ IsRequest(work'[new])
  BY RequestEffect DEF WholeInv, IsOpen
<1> HIDE DEF new
<1>6. /\ Live' = Live \cup {new} /\ new \notin Live /\ Unended' = Unended \cup {new}
      /\ Waiting' = Waiting /\ Armed' = Armed /\ Main \notin Live'
      /\ \A a \in Armed : timers'.m_id_to_expire[a] = Deadline(a)
  BY <1>1, <1>2, <1>3, <1>4 DEF Live, Unended, Waiting, Armed, Deadline, MapPut, Main
<1>7. \A id \in Live : work'[id] = work[id]
  BY <1>5, <1>6, OrderTypes
<1>8. Unended \subseteq Live
  BY DEF Unended
<1>9. client[n].requests \in Nat /\ client'[n].requests \in Nat
  BY <1>5, OrderTypes
<1>10. \A m \in Clients : client[m].requests \in Nat
  BY OrderTypes
<1>11. RequestsOK' /\ IdsGrow'
  <2>1. IdsGrow'
    BY <1>1, <1>2, <1>3, <1>6 DEF IdsGrow
  <2>2. RequestsOK'
    BY <1>5, <1>6, <1>7 DEF OrderInv, RequestsOK
  <2> QED BY <2>1, <2>2
<1>12. BegunFirst'
  BY <1>1, <1>5, <1>6, <1>7, <1>8 DEF OrderInv, BegunFirst, Waiting
<1>13. EarlierWaitToo'
  <2>1. \A b \in Unended : ~ (new < b)
    BY <1>2, <1>3, <1>8
  <2> QED BY <1>5, <1>6, <1>7, <1>8, <2>1 DEF OrderInv, EarlierWaitToo
<1>14. DeadlinesGrow'
  BY <1>1, <1>6 DEF OrderInv, DeadlinesGrow, Deadline
<1>15. EarliestReplies'
  BY <1>1, <1>6, <1>8, <1>2 DEF EarliestReplies, Main
<1>16. ASSUME NEW a \in Live
       PROVE  /\ work[a].asker \in Clients /\ work[a].nth \in Nat
              /\ client[work[a].asker].state = "open" =>
                     work[a].nth <= client[work[a].asker].requests
  BY OrderTypes DEF OrderInv, RequestsGrow
<1>17. RequestsGrow'
  <2>1. ASSUME NEW a \in Live, NEW q, q = work[a].asker, client'[q].state = "open"
        PROVE  work[a].nth <= client'[q].requests
    <3>1. q \in Clients /\ client[q].state = "open"
      BY <1>5, <1>16, <2>1 DEF SameConnections
    <3> QED BY <1>5, <1>9, <1>16, <2>1, <3>1
  <2>2. \A a \in Live' : client'[work'[a].asker].state = "open" =>
                             work'[a].nth <= client'[work'[a].asker].requests
    BY <1>5, <1>6, <1>7, <1>9, <2>1
  <2>3. \A a \in Live : work[a].asker = n => work[a].nth < work'[new].nth
    BY <1>5, <1>9, <1>16
  <2>4. \A a, b \in Live' : a < b /\ work'[a].asker = work'[b].asker =>
                              work'[a].nth < work'[b].nth
    <3> SUFFICES ASSUME NEW a \in Live', NEW b \in Live', a < b,
                        work'[a].asker = work'[b].asker
                 PROVE  work'[a].nth < work'[b].nth
      OBVIOUS
    <3>1. a # new
      BY <1>2, <1>3, <1>6
    <3>2. CASE b = new
      BY <1>5, <1>6, <1>7, <2>3, <3>1, <3>2
    <3>3. CASE b # new
      BY <1>6, <1>7, <3>1, <3>3 DEF OrderInv, RequestsGrow
    <3> QED BY <3>2, <3>3
  <2> QED BY <2>2, <2>4 DEF RequestsGrow
<1>18. MayReply' \subseteq MayReply \cup {new} /\ MayReply \subseteq Live
  BY <1>1, <1>5, <1>6, <1>7, <1>8 DEF MayReply
<1>19. RepliesCounted'
  <2> SUFFICES ASSUME NEW m \in Clients, NEW i \in DOMAIN replies[m],
                      NEW r, r = replies[m][i]
               PROVE  /\ client'[r.asker].state # "queued"
                      /\ client'[r.asker].state = "open" => r.nth <= client'[r.asker].requests
                      /\ \A b \in MayReply' : work'[b].asker = r.asker => r.nth < work'[b].nth
    BY <1>5 DEF RepliesCounted
  <2>1. /\ client[r.asker].state # "queued"
        /\ client[r.asker].state = "open" => r.nth <= client[r.asker].requests
        /\ \A b \in MayReply : work[b].asker = r.asker => r.nth < work[b].nth
    BY DEF OrderInv, RepliesCounted
  <2>2. r.asker \in Clients /\ r.nth \in Nat
    BY RepliesAreRecords DEF WholeInv, ServerInv
  <2>3. client'[r.asker].state = client[r.asker].state
    BY <1>5, <2>2 DEF SameConnections
  <2>4. client[r.asker].state = "open" => r.nth <= client'[r.asker].requests
    BY <1>5, <1>9, <2>1, <2>2
  <2>5. r.asker = n => r.nth < work'[new].nth
    BY <1>5, <1>9, <2>1, <2>2
  <2>6. ASSUME NEW b \in MayReply', work'[b].asker = r.asker
        PROVE  r.nth < work'[b].nth
    BY <1>5, <1>7, <1>18, <2>1, <2>5, <2>6
  <2> QED BY <2>1, <2>3, <2>4, <2>6
<1>20. RepliesInOrder'
  BY <1>5 DEF OrderInv, RepliesInOrder
<1> QED BY <1>11, <1>12, <1>13, <1>14, <1>15, <1>17, <1>19, <1>20 DEF OrderInv
-----------------------------------------------------------------------------
(* No coroutine and no reply: everything is in order.                      *)
LEMMA OrderInvInit == ServerInit => OrderInv
<1> SUFFICES ASSUME ServerInit PROVE OrderInv
  OBVIOUS
<1>1. Live = {} /\ Unended = {} /\ Armed = {} /\ m_active = Main
  BY DEF ServerInit, Init, ExpireInit, EmptyMap, Live, Unended, Armed
<1>2. \A n \in Clients : DOMAIN replies[n] = {}
  BY DEF ServerInit
<1> QED BY <1>1, <1>2
        DEF OrderInv, RequestsOK, IdsGrow, BegunFirst, EarlierWaitToo, DeadlinesGrow,
            EarliestReplies, RequestsGrow, RepliesCounted, RepliesInOrder

(* accept, and what clients and the network do.                            *)
LEMMA ClientsKeepOrder ==
    ASSUME WholeInv, OrderInv, NEW n \in Clients,
           EventAccept(n) \/ EventDrops(n) \/ EventClosed(n) \/ ClientStep(n)
    PROVE  OrderInv'
<1>1. DOMAIN client = Clients /\ ClientOK(client[n])
  BY DEF WholeInv, ServerInv, ClientsOK
<1>2. UNCHANGED <<now, m_idtonode, m_active, staticid, iter, work, replies>>
  BY DEF EventAccept, EventDrops, EventClosed, DispatchClose, ClientStep, coroutineVars
<1>3. Armed' \subseteq Armed /\ \A id \in Armed' : Deadline(id)' = Deadline(id)
  <2>1. CASE EventClosed(n)
    <3>1. timers'.m_id_to_expire = MapErase(timers.m_id_to_expire, client[n].fd)
      BY <1>2, <2>1, DelKeepsTimers DEF EventClosed, DispatchClose, WholeInv
    <3> QED BY <3>1 DEF Armed, Deadline, MapErase
  <2>2. CASE UNCHANGED timers
    BY <2>2 DEF Armed, Deadline
  <2> QED BY <2>1, <2>2 DEF EventAccept, EventDrops, ClientStep, coroutineVars
<1>4. \A m \in Clients \ {n} : client'[m] = client[m]
  BY <1>1 DEF EventAccept, EventDrops, EventClosed, ClientStep, Reads, Closes
<1>5. \/ client[n].state = "queued" /\ client'[n].state # "queued"
      \/ client'[n].state = "gone"
      \/ client'[n].state = client[n].state /\ client'[n].requests = client[n].requests
  <2>1. CASE EventAccept(n)
    <3>1. client[n].state = "queued" /\ client'[n] = [client[n] EXCEPT !.state = "open", !.fd = NewFd]
      BY <1>1, <2>1 DEF EventAccept
    <3>2. client'[n].state = "open"
      BY <1>1, <3>1 DEF ClientOK, IsRecord
    <3> QED BY <3>1, <3>2
  <2>2. CASE EventDrops(n)
    <3>1. PICK md : client' = [client EXCEPT ![n] = AfterRead(n, md)]
      BY <2>2 DEF EventDrops
    <3>2. client'[n] = AfterRead(n, md)
      BY <1>1, <3>1
    <3> QED BY <1>1, <3>2, AfterReadKeeps DEF ClientOK
  <2>3. CASE EventClosed(n)
    <3>1. client'[n] = [NewClient EXCEPT !.state = "gone"]
      BY <1>1, <2>3 DEF EventClosed
    <3> QED BY <3>1 DEF NewClient
  <2>4. CASE ClientStep(n)
    <3>1. \/ client'[n] = [client[n] EXCEPT !.unread = @ - 1]
          \/ client'[n] = [client[n] EXCEPT !.shut = TRUE, !.unread = 0]
      BY <1>1, <2>4 DEF ClientStep, Reads, Closes
    <3> QED BY <1>1, <3>1 DEF ClientOK, IsRecord
  <2> QED BY <2>1, <2>2, <2>3, <2>4
<1>6. ClientsGoOn
  BY <1>4, <1>5, OrderTypes DEF ClientsGoOn
<1> QED BY <1>2, <1>3, <1>6, IdleKeepsOrder, OrderTypes

(* One case per kind of step.                                              *)
LEMMA OrderInvStep ==
    ASSUME WholeInv, OrderInv, IdLimit # IdSpace, [ServerNext]_serverVars
    PROVE  OrderInv'
<1>1. ASSUME NEW n \in Clients,
             EventAccept(n) \/ EventDrops(n) \/ EventRequest(n) \/ EventClosed(n) \/ ClientStep(n)
      PROVE  OrderInv'
  BY <1>1, ClientsKeepOrder, RequestKeepsOrder
<1>2. ASSUME UNCHANGED <<m_idtonode, m_active, staticid, timers, clientVars, work>>,
             iter' = iter \/ m_active = Main, now' \in Nat, now <= now'
      PROVE  OrderInv'
  <2>1. ClientsGoOn /\ UNCHANGED replies
    BY <1>2, OrderTypes DEF ClientsGoOn, clientVars
  <2>2. Armed' = Armed /\ \A id \in Armed : Deadline(id)' = Deadline(id)
    BY <1>2 DEF Armed, Deadline
  <2> QED BY <1>2, <2>1, <2>2, IdleKeepsOrder
<1>3. now \in Nat /\ now <= now
  BY OrderTypes
<1>4. CASE ServerMain
  <2>1. CASE RunOnceExpired /\ UNCHANGED <<clientVars, work>>
    BY <2>1, ExpiredKeepsOrder
  <2>2. CASE ScheduleAllReady /\ UNCHANGED <<clientVars, work>>
    BY <2>2, ReadyKeepsOrder
  <2>3. CASE ScheduleAllEnd /\ work' = MapErase(work, iter) /\ UNCHANGED clientVars
    BY <2>3, ReapKeepsOrder
  <2>4. CASE /\ RunOnceWait \/ DispatchDone \/ ScheduleAllSkip \/ ScheduleAllDone
             /\ UNCHANGED <<clientVars, work>>
    <3>1. m_active = Main
      BY <2>4 DEF RunOnceWait, DispatchDone, ScheduleAllSkip, ScheduleAllDone, AtNode,
                  WholeInv, SchedulerInv, BlocksBelongToOwners, MainLabels
    <3>2. UNCHANGED <<m_idtonode, m_active, staticid, timers, now>>
      BY <2>4 DEF RunOnceWait, DispatchDone, ScheduleAllSkip, ScheduleAllDone
    <3> QED BY <1>2, <1>3, <2>4, <3>1, <3>2
  <2> QED BY <1>4, <2>1, <2>2, <2>3, <2>4 DEF ServerMain
<1>5. CASE Process
  <2>1. CASE EntryStart /\ UNCHANGED <<clientVars, work>>
    BY <1>2, <1>3, <2>1 DEF EntryStart
  <2>2. CASE ProcessRefuses \/ ProcessReplyFails
    BY <2>2, RefusalKeepsOrder DEF ProcessRefuses, ProcessReplyFails
  <2> QED BY <1>5, <2>1, <2>2, WaitKeepsOrder, ReplyKeepsOrder DEF Process
<1>6. CASE TimePasses
  <2>1. now' = now + 1 /\ now' \in Nat /\ now <= now'
    BY <1>3, <1>6 DEF TimePasses, Tick
  <2> QED BY <1>2, <1>6, <2>1 DEF TimePasses, Tick
<1>7. CASE UNCHANGED serverVars
  BY <1>2, <1>3, <1>7 DEF serverVars, coroutineVars
<1> QED BY <1>1, <1>4, <1>5, <1>6, <1>7 DEF ServerNext, ServerEvents

(***************************************************************************)
(* A client gets its replies in the order of its requests (EventMgr.h:434, *)
(* CoroutineMgr.h:241), however its requests, their timeouts and those of  *)
(* others interleave, unless coroutine ids wrap: IdLimit bounds the ids.   *)
(***************************************************************************)
THEOREM RepliesAlwaysInOrder ==
    ASSUME IdLimit # IdSpace
    PROVE  ServerSpec => []RepliesInOrder
<1>1. WholeInv /\ OrderInv /\ [ServerNext]_serverVars => OrderInv'
  BY OrderInvStep
<1>2. OrderInv => RepliesInOrder
  BY DEF OrderInv
<1> QED BY <1>1, <1>2, OrderInvInit, ServerInvariant, PTL DEF ServerSpec
=============================================================================
