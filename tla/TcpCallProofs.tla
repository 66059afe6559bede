---------------------------- MODULE TcpCallProofs ----------------------------
(***************************************************************************)
(* Proofs about the calls to back ends, for any number of coroutines,      *)
(* addresses, descriptors and requests: answers go to their requests, a    *)
(* call that waits is entered, a connect event wakes its own connect, live *)
(* connections stay, and every step is one of the connection table.        *)
(***************************************************************************)
EXTENDS TcpCall, FdMgrProofs

NoKeys == {NoData, Dangling}
Linked == {"tcpsend", "send", "listen", "recv"}  \* after Link
Held   == {"link", "connected", "tcpsend"}       \* no wait since the lookup

States == {"none", "E_READY", "E_WAIT", "E_END"}

CoRec == [m_state : States, loc : Locs, seq : 0 .. MaxSeq, fd : Fds \cup {NoFd},
          pdata : Keys \cup NoKeys, sent : BOOLEAN]

Maps == UNION {[S -> [id : Coroutines, data : 0 .. MaxSeq]] : S \in SUBSET (1 .. MaxSeq)}

Data == [fd_state : {"E_LISTEN", "E_SERVER_CONN", "E_OTHER", "E_CONNECT"},
         context_id : Coroutines \cup {NoOne}, last_op_ret : {"IO_OK", "IO_ERR"},
         check : BOOLEAN, seq_to_coroutine : Maps]

\* Only back ends have addresses, and requests are of the past.
TableOK ==
    /\ KeysOK
    /\ m_fd_to_data \in [Entries -> Data]
    /\ \A k \in Entries :
          /\ k.ip_port = NoAddr <=> m_fd_to_data[k].fd_state \in {"E_LISTEN", "E_SERVER_CONN"}
          /\ DOMAIN m_fd_to_data[k].seq_to_coroutine \subseteq 1 .. lastSeq

\* Who is on its way between two waits is the one that runs.
RunsOK ==
    /\ lastSeq \in 0 .. MaxSeq
    /\ timers \subseteq {c \in Coroutines : co[c].m_state = "E_WAIT"}
    /\ m_active \in {c \in Coroutines : co[c].m_state = "E_READY"} \cup {Main}
    /\ \A c \in Coroutines :
          /\ co[c].m_state \in {"none", "E_END"} => co[c].loc = "user"
          /\ co[c].loc \in Held \cup {"listen"} => m_active = c

\* The data pointer of a call is null, dangling, or that of an entry of its
\* descriptor; it is good where nobody else has run since the lookup.
PointersOK ==
    \A c \in Coroutines :
        IF co[c].loc = "user" THEN co[c].pdata = NoData
        ELSE /\ co[c].seq \in 1 .. lastSeq
             /\ co[c].pdata \in Entries \cup {Dangling}
             /\ co[c].loc \in Held => co[c].pdata \in Entries
             /\ co[c].pdata \in Entries =>
                   /\ co[c].pdata.socket_fd = co[c].fd
                   /\ co[c].pdata.ip_port # NoAddr

SeqsDiffer ==
    \A c, d \in Coroutines :
        co[c].loc # "user" /\ co[d].loc # "user" /\ co[c].seq = co[d].seq => c = d

\* The sockets of suspended connects: nobody else's, whatever is left of them.
InConnect(c) == co[c].loc \in {"connect", "connected"}
ConnectsOK ==
    /\ connecting = {co[c].fd : c \in {x \in Coroutines : InConnect(x)}}
    /\ \A c \in Coroutines : InConnect(c) =>
          /\ co[c].fd \in Fds
          /\ co[c].pdata = Dangling => \A k \in Entries : k.socket_fd # co[c].fd
          /\ \A d \in Coroutines : InConnect(d) /\ co[d].fd = co[c].fd => c = d

\* A connection that a call went on with is taken as established.
LinkedOK ==
    \A c \in Coroutines :
        co[c].loc \in Linked /\ co[c].pdata \in Entries =>
            /\ m_fd_to_data[co[c].pdata].fd_state = "E_OTHER"
            /\ m_fd_to_data[co[c].pdata].last_op_ret = "IO_OK"

DescriptorsOK ==
    /\ DOMAIN epoll \subseteq OpenFds
    /\ DOMAIN peer \subseteq OpenFds
    /\ batch \subseteq Fds

\* What a coroutine's call and the table say of each other.
LinksOK == /\ PointersOK /\ SeqsDiffer /\ ConnectsOK /\ LinkedOK
           /\ WaitersAreEntered /\ ConnectWakesItsWaiter /\ AnswersMatch

CallInv == /\ co \in [Coroutines -> CoRec]
           /\ TableOK /\ RunsOK /\ LinksOK /\ DescriptorsOK
-----------------------------------------------------------------------------
(* Requests of a connection: MapPut, MapErase and a changed answer.        *)
LEMMA MapsAreMaps ==
    ASSUME NEW f \in Maps
    PROVE  /\ DOMAIN f \subseteq 1 .. MaxSeq
           /\ f \in [DOMAIN f -> [id : Coroutines, data : 0 .. MaxSeq]]
<1>1. PICK S \in SUBSET (1 .. MaxSeq) : f \in [S -> [id : Coroutines, data : 0 .. MaxSeq]]
  BY Zenon DEF Maps
<1>2. DOMAIN f = S
  BY <1>1
<1> QED BY <1>1, <1>2

LEMMA MapsIntro ==
    ASSUME NEW S \in SUBSET (1 .. MaxSeq),
           NEW f \in [S -> [id : Coroutines, data : 0 .. MaxSeq]]
    PROVE  f \in Maps /\ DOMAIN f = S
<1>1. f \in Maps
  BY Zenon DEF Maps
<1> QED BY <1>1

LEMMA PutIsMap ==
    ASSUME NEW f \in Maps, NEW s \in 1 .. MaxSeq,
           NEW r \in [id : Coroutines, data : 0 .. MaxSeq]
    PROVE  /\ MapPut(f, s, r) \in Maps
           /\ DOMAIN MapPut(f, s, r) = DOMAIN f \cup {s}
           /\ MapPut(f, s, r)[s] = r
           /\ \A x \in DOMAIN f \ {s} : MapPut(f, s, r)[x] = f[x]
<1>1. MapPut(f, s, r) \in [DOMAIN f \cup {s} -> [id : Coroutines, data : 0 .. MaxSeq]]
  BY MapsAreMaps DEF MapPut
<1>2. DOMAIN f \cup {s} \in SUBSET (1 .. MaxSeq)
  BY MapsAreMaps
<1>3. MapPut(f, s, r) \in Maps /\ DOMAIN MapPut(f, s, r) = DOMAIN f \cup {s}
  BY <1>1, <1>2, MapsIntro
<1> QED BY <1>3 DEF MapPut

LEMMA EraseIsMap ==
    ASSUME NEW f \in Maps, NEW s
    PROVE  /\ MapErase(f, s) \in Maps
           /\ DOMAIN MapErase(f, s) = DOMAIN f \ {s}
           /\ \A x \in DOMAIN f \ {s} : MapErase(f, s)[x] = f[x]
<1>1. MapErase(f, s) \in [DOMAIN f \ {s} -> [id : Coroutines, data : 0 .. MaxSeq]]
  BY MapsAreMaps DEF MapErase
<1>2. DOMAIN f \ {s} \in SUBSET (1 .. MaxSeq)
  BY MapsAreMaps
<1>3. MapErase(f, s) \in Maps /\ DOMAIN MapErase(f, s) = DOMAIN f \ {s}
  BY <1>1, <1>2, MapsIntro
<1> QED BY <1>3 DEF MapErase

LEMMA AnsweredIsMap ==
    ASSUME NEW f \in Maps, NEW s \in DOMAIN f, NEW a \in 0 .. MaxSeq
    PROVE  /\ [f EXCEPT ![s].data = a] \in Maps
           /\ DOMAIN [f EXCEPT ![s].data = a] = DOMAIN f
           /\ [f EXCEPT ![s].data = a][s].data = a
           /\ \A x \in DOMAIN f : [f EXCEPT ![s].data = a][x].id = f[x].id
           /\ \A x \in DOMAIN f \ {s} : [f EXCEPT ![s].data = a][x] = f[x]
<1>1. f \in [DOMAIN f -> [id : Coroutines, data : 0 .. MaxSeq]] /\ DOMAIN f \subseteq 1 .. MaxSeq
  BY MapsAreMaps
<1>2. [f EXCEPT ![s].data = a] \in [DOMAIN f -> [id : Coroutines, data : 0 .. MaxSeq]]
  BY <1>1
<1>3. [f EXCEPT ![s].data = a] \in Maps
  BY <1>1, <1>2, MapsIntro
<1> QED BY <1>1, <1>3

LEMMA EmptyIsMap == EmptyMap \in Maps /\ DOMAIN EmptyMap = {}
<1>1. EmptyMap \in [{} -> [id : Coroutines, data : 0 .. MaxSeq]] /\ DOMAIN EmptyMap = {}
  BY DEF EmptyMap
<1> QED BY <1>1, MapsIntro

(* No key is a null or a dangling pointer.                                 *)
LEMMA KeysAreNotNull ==
    /\ NoData \notin Keys /\ Dangling \notin Keys /\ NoData # Dangling
    /\ Fds \subseteq Nat /\ NoFd \notin Fds
<1>1. NoData.socket_fd = -1 /\ Dangling.socket_fd = -2
  BY DEF NoData, Dangling, NoFd
<1>2. Fds \subseteq Nat
  BY FdAssumption DEF Fds
<1>3. \A k \in Keys : k.socket_fd \in Nat
  BY <1>2 DEF Keys
<1> QED BY <1>1, <1>2, <1>3 DEF NoFd
-----------------------------------------------------------------------------
(* How a step may change a coroutine: it keeps its call, or its call ends. *)
KeepsCall(c) ==
    /\ co'[c].seq = co[c].seq /\ co'[c].fd = co[c].fd /\ co'[c].pdata = co[c].pdata
    /\ \/ co'[c].loc = co[c].loc
       \/ co[c].loc \in Linked /\ co'[c].loc \in Linked \ Held

EndsCall(c) ==
    /\ co[c].loc \in Linked \cup {"user"}
    /\ co'[c].loc = "user" /\ co'[c].pdata = NoData

(* As long as the entries stay, what is said of pointers stays true.       *)
LEMMA QuietCallsKeep ==
    ASSUME RunsOK, RunsOK', PointersOK, SeqsDiffer, ConnectsOK,
           Entries' = Entries, connecting' = connecting,
           lastSeq' = lastSeq \/ lastSeq' = lastSeq + 1,
           \A c \in Coroutines : KeepsCall(c) \/ EndsCall(c)
    PROVE  PointersOK' /\ SeqsDiffer' /\ ConnectsOK'
<1>1. \A n : n \in 1 .. lastSeq => n \in 1 .. lastSeq'
  BY CallAssumption DEF RunsOK
<1>2. PointersOK'
  BY <1>1 DEF PointersOK, KeepsCall, EndsCall, Linked, Held
<1>3. SeqsDiffer'
  BY DEF SeqsDiffer, KeepsCall, EndsCall, Linked, Held
<1>4. \A c \in Coroutines : /\ InConnect(c)' <=> InConnect(c)
                            /\ InConnect(c) => /\ co'[c].fd = co[c].fd
                                               /\ co'[c].pdata = co[c].pdata
  BY DEF InConnect, KeepsCall, EndsCall, Linked, Held
<1>5. connecting' = {co'[c].fd : c \in {x \in Coroutines : InConnect(x)'}}
  BY <1>4 DEF ConnectsOK
<1>6. ConnectsOK'
  BY <1>4, <1>5 DEF ConnectsOK, InConnect
<1> QED BY <1>2, <1>3, <1>6

(* And what is said of the entries, if they do not change at all.          *)
LEMMA QuietStepsKeep ==
    ASSUME TableOK, RunsOK, RunsOK', LinksOK,
           m_fd_to_data' = m_fd_to_data, connecting' = connecting,
           lastSeq' = lastSeq \/ lastSeq' = lastSeq + 1,
           \A c \in Coroutines : KeepsCall(c) \/ EndsCall(c)
    PROVE  TableOK' /\ LinksOK'
<1>1. Entries' = Entries
  BY DEF Entries
<1>2. PointersOK' /\ SeqsDiffer' /\ ConnectsOK'
  BY <1>1, QuietCallsKeep DEF LinksOK
<1>3. \A n : n \in 1 .. lastSeq => n \in 1 .. lastSeq'
  BY CallAssumption DEF RunsOK
<1>4. KeysOK'
  BY <1>1 DEF TableOK, KeysOK, EntriesDistinct
<1>5. TableOK'
  BY <1>1, <1>3, <1>4 DEF TableOK
<1>6. \A c \in Coroutines : co'[c].loc \in Linked =>
          /\ co[c].loc \in Linked /\ co'[c].pdata = co[c].pdata /\ co'[c].seq = co[c].seq
  BY DEF KeepsCall, EndsCall, Linked
<1>7. LinkedOK'
  BY <1>1, <1>6 DEF LinksOK, LinkedOK
<1>8. WaitersAreEntered'
  BY <1>6 DEF LinksOK, WaitersAreEntered, Linked
<1>9. \A c \in Coroutines : co[c].loc = "connect" =>
          co'[c].loc = "connect" /\ co'[c].pdata = co[c].pdata
  BY DEF KeepsCall, EndsCall, Linked
<1>10. ConnectWakesItsWaiter'
  BY <1>1, <1>9 DEF LinksOK, ConnectWakesItsWaiter
<1>11. AnswersMatch'
  BY <1>1 DEF LinksOK, AnswersMatch
<1> QED BY <1>2, <1>5, <1>7, <1>8, <1>10, <1>11 DEF LinksOK
-----------------------------------------------------------------------------
(* What the scheduling operators do to the coroutine that runs.            *)
CoType == co \in [Coroutines -> CoRec]

LEMMA WaitRuns ==
    ASSUME CoType, RunsOK, lastSeq' = lastSeq, NEW c \in Coroutines, m_active = c,
           NEW loc, Wait(c, loc),
           \/ loc \in {"send", "recv"} /\ co[c].loc \in Linked
           \/ loc = "user" /\ co[c].loc = "user"
    PROVE  CoType' /\ RunsOK' /\ \A d \in Coroutines : KeepsCall(d)
<1>1. /\ co' = [co EXCEPT ![c].m_state = "E_WAIT", ![c].loc = loc]
      /\ timers' = timers \cup {c} /\ m_active' = Main
  BY DEF Wait
<1>2. loc \in Locs /\ loc \notin Held \cup {"listen"}
  BY DEF Locs, Held, Linked
<1>3. CoType'
  BY <1>1, <1>2, ZenonT(60) DEF CoType, CoRec, States
<1>4. /\ \A d \in Coroutines \ {c} : co'[d] = co[d]
      /\ co'[c].m_state = "E_WAIT" /\ co'[c].loc = loc
      /\ co'[c].seq = co[c].seq /\ co'[c].fd = co[c].fd /\ co'[c].pdata = co[c].pdata
  BY <1>1 DEF CoType, CoRec
<1>5. RunsOK'
  BY <1>1, <1>2, <1>4, ZenonT(60) DEF RunsOK, Main
<1>6. \A d \in Coroutines : KeepsCall(d)
  BY <1>4 DEF KeepsCall, Linked, Held
<1> QED BY <1>3, <1>5, <1>6

LEMMA GoToRuns ==
    ASSUME CoType, RunsOK, lastSeq' = lastSeq, NEW c \in Coroutines, m_active = c,
           NEW loc \in Locs, GoTo(c, loc), co[c].loc # "user"
    PROVE  /\ CoType' /\ RunsOK'
           /\ \A d \in Coroutines \ {c} : co'[d] = co[d]
           /\ co'[c].loc = loc
           /\ co'[c].seq = co[c].seq /\ co'[c].fd = co[c].fd /\ co'[c].pdata = co[c].pdata
<1>1. /\ co' = [co EXCEPT ![c].loc = loc]
      /\ timers' = timers /\ m_active' = m_active
  BY DEF GoTo, schedVars
<1>2. CoType'
  BY <1>1 DEF CoType, CoRec
<1>3. /\ \A d \in Coroutines \ {c} : co'[d] = co[d]
      /\ co'[c].m_state = co[c].m_state /\ co'[c].loc = loc
      /\ co'[c].seq = co[c].seq /\ co'[c].fd = co[c].fd /\ co'[c].pdata = co[c].pdata
  BY <1>1 DEF CoType, CoRec
<1>4. RunsOK'
  BY <1>1, <1>3 DEF RunsOK, Main
<1> QED BY <1>2, <1>3, <1>4

LEMMA NewCoIsNew ==
    ASSUME NEW s \in States
    PROVE  /\ NewCo(s) \in CoRec
           /\ NewCo(s).m_state = s /\ NewCo(s).loc = "user" /\ NewCo(s).pdata = NoData
           /\ NewCo(s).fd = NoFd
BY CallAssumption DEF NewCo, CoRec, Locs, NoKeys

LEMMA EndsRuns ==
    ASSUME CoType, RunsOK, lastSeq' = lastSeq, NEW c \in Coroutines, m_active = c,
           CallEnds(c)
    PROVE  /\ CoType' /\ RunsOK'
           /\ \A d \in Coroutines \ {c} : co'[d] = co[d]
           /\ co'[c].loc = "user" /\ co'[c].pdata = NoData
<1>1. /\ co' = [co EXCEPT ![c] = NewCo("E_READY")]
      /\ timers' = timers /\ m_active' = m_active
  BY DEF CallEnds, schedVars
<1>2. /\ NewCo("E_READY") \in CoRec
      /\ NewCo("E_READY").m_state = "E_READY"
      /\ NewCo("E_READY").loc = "user" /\ NewCo("E_READY").pdata = NoData
  BY NewCoIsNew DEF States
<1>3. CoType'
  BY <1>1, <1>2 DEF CoType
<1>4. (\A d \in Coroutines \ {c} : co'[d] = co[d]) /\ co'[c] = NewCo("E_READY")
  BY <1>1 DEF CoType
<1>5. RunsOK'
  BY <1>1, <1>2, <1>4, CallAssumption DEF RunsOK, Main, Held
<1> QED BY <1>2, <1>3, <1>4, <1>5

\* An event makes a coroutine ready, or main (0), which is none of them.
LEMMA SetReadyRuns ==
    ASSUME CoType, RunsOK, lastSeq' = lastSeq, m_active' = m_active, m_active = Main,
           NEW id, SetReady(id)
    PROVE  CoType' /\ RunsOK' /\ \A d \in Coroutines : KeepsCall(d)
<1>1. co' = [co EXCEPT ![id].m_state = "E_READY"] /\ timers' = timers \ {id}
  BY DEF SetReady
<1>2. CoType'
  BY <1>1 DEF CoType, CoRec, States
<1>3. \A d \in Coroutines :
        /\ co'[d].m_state = IF d = id THEN "E_READY" ELSE co[d].m_state
        /\ co'[d].loc = co[d].loc
        /\ co'[d].seq = co[d].seq /\ co'[d].fd = co[d].fd /\ co'[d].pdata = co[d].pdata
  BY <1>1 DEF CoType, CoRec
<1>4. RunsOK'
  BY <1>1, <1>3, CallAssumption DEF RunsOK, Main
<1> QED BY <1>2, <1>3, <1>4 DEF KeepsCall
-----------------------------------------------------------------------------
(* Open descriptors, and the domains of what is kept by descriptor.        *)
LEMMA OpenAreFds ==
    ASSUME TableOK, LinksOK
    PROVE  OpenFds \subseteq Fds
<1>1. connecting \subseteq Fds
  BY DEF LinksOK, ConnectsOK
<1> QED BY <1>1 DEF TableOK, KeysOK, OpenFds, Keys

LEMMA EpollDomains ==
    ASSUME NEW fd, NEW events
    PROVE  /\ DOMAIN EpollAdd(fd, events) \subseteq DOMAIN epoll \cup {fd}
           /\ DOMAIN EpollDel(fd) \subseteq DOMAIN epoll
BY DEF EpollAdd, EpollDel, MapPut, MapErase

(* Steps that leave the table and the calls alone keep the whole invariant. *)
LEMMA QuietKeeps ==
    ASSUME CallInv, m_fd_to_data' = m_fd_to_data, connecting' = connecting,
           lastSeq' = lastSeq \/ lastSeq' = lastSeq + 1,
           CoType', RunsOK', \A c \in Coroutines : KeepsCall(c) \/ EndsCall(c),
           DOMAIN epoll' \subseteq OpenFds, DOMAIN peer' \subseteq OpenFds, batch' \subseteq Fds
    PROVE  CallInv'
<1>1. TableOK' /\ LinksOK'
  BY QuietStepsKeep DEF CallInv
<1>2. OpenFds' = OpenFds
  BY DEF OpenFds, Entries
<1>3. DescriptorsOK'
  BY <1>2 DEF DescriptorsOK
<1> QED BY <1>1, <1>3 DEF CallInv, CoType

\* Steps of the scheduler alone.
LEMMA QuietAnywhere ==
    ASSUME CallInv, UNCHANGED <<fdVars, epoll, peer, batch, lastSeq>>,
           CoType', RunsOK', \A c \in Coroutines : KeepsCall(c) \/ EndsCall(c)
    PROVE  CallInv'
BY QuietKeeps DEF CallInv, DescriptorsOK, fdVars
-----------------------------------------------------------------------------
(* The coroutine that runs: steps that do not touch the table.             *)
LEMMA CallGetsNoSocketKeeps ==
    ASSUME CallInv, NEW c \in Coroutines, NEW addr, CallGetsNoSocket(c, addr)
    PROVE  CallInv'
<1>1. /\ lastSeq < MaxSeq /\ lastSeq' = lastSeq + 1
      /\ UNCHANGED <<m_fd_to_data, connecting, co, timers, m_active, phase, batch, epoll, peer>>
  BY DEF CallGetsNoSocket, Encode, fdVars, schedVars
<1>2. RunsOK'
  BY <1>1, CallAssumption DEF CallInv, RunsOK
<1>3. CoType' /\ \A d \in Coroutines : KeepsCall(d)
  BY <1>1 DEF CallInv, CoType, KeepsCall
<1> QED BY <1>1, <1>2, <1>3, QuietKeeps DEF CallInv, DescriptorsOK

LEMMA SendAllKeeps ==
    ASSUME CallInv, NEW c \in Coroutines, SendAll(c)
    PROVE  CallInv'
<1>1. /\ m_active = c /\ co[c].loc = "tcpsend"
      /\ co' = [co EXCEPT ![c].loc = "listen", ![c].sent = TRUE]
      /\ UNCHANGED <<m_fd_to_data, connecting, timers, m_active, phase, batch, epoll, lastSeq>>
      /\ DOMAIN peer' = DOMAIN peer
  BY DEF SendAll, At, fdVars, schedVars
<1>2. CoType'
  BY <1>1, ZenonT(60) DEF CallInv, CoType, CoRec, Locs
<1>3. /\ \A d \in Coroutines \ {c} : co'[d] = co[d]
      /\ co'[c].m_state = co[c].m_state /\ co'[c].loc = "listen"
      /\ co'[c].seq = co[c].seq /\ co'[c].fd = co[c].fd /\ co'[c].pdata = co[c].pdata
  BY <1>1 DEF CallInv, CoRec
<1>4. RunsOK'
  BY <1>1, <1>3 DEF CallInv, RunsOK
<1>5. \A d \in Coroutines : KeepsCall(d)
  BY <1>1, <1>3 DEF KeepsCall, Linked, Held
<1> QED BY <1>1, <1>2, <1>4, <1>5, QuietKeeps DEF CallInv, DescriptorsOK

LEMMA SendBlocksKeeps ==
    ASSUME CallInv, NEW c \in Coroutines, SendBlocks(c)
    PROVE  CallInv'
<1>1. /\ m_active = c /\ co[c].loc = "tcpsend" /\ Wait(c, "send")
      /\ epoll' = EpollAdd(co[c].fd, {"FD_WRITE"})
      /\ UNCHANGED <<m_fd_to_data, connecting, peer, lastSeq, batch>>
  BY DEF SendBlocks, At, Wait, fdVars
<1>2. CoType' /\ RunsOK' /\ \A d \in Coroutines : KeepsCall(d)
  BY <1>1, WaitRuns DEF CallInv, CoType, Linked
<1>3. co[c].fd \in OpenFds
  BY <1>1 DEF CallInv, LinksOK, PointersOK, Held, OpenFds
<1>4. DOMAIN epoll' \subseteq OpenFds
  BY <1>1, <1>3, EpollDomains DEF CallInv, DescriptorsOK
<1> QED BY <1>1, <1>2, <1>4, QuietKeeps DEF CallInv, DescriptorsOK

LEMMA SendFailsKeeps ==
    ASSUME CallInv, NEW c \in Coroutines, SendFails(c)
    PROVE  CallInv'
<1>1. /\ m_active = c /\ co[c].loc = "tcpsend" /\ CallEnds(c)
      /\ UNCHANGED <<fdVars, epoll, peer, batch, lastSeq>>
  BY DEF SendFails, At, CallEnds, schedVars
<1>2. /\ CoType' /\ RunsOK'
      /\ \A d \in Coroutines \ {c} : co'[d] = co[d]
      /\ co'[c].loc = "user" /\ co'[c].pdata = NoData
  BY <1>1, EndsRuns DEF CallInv, CoType
<1>3. \A d \in Coroutines : KeepsCall(d) \/ EndsCall(d)
  BY <1>1, <1>2 DEF KeepsCall, EndsCall, Linked
<1> QED BY <1>1, <1>2, <1>3, QuietAnywhere

LEMMA SendGoesOnKeeps ==
    ASSUME CallInv, NEW c \in Coroutines, SendGoesOn(c)
    PROVE  CallInv'
<1>1. /\ m_active = c /\ co[c].loc = "send" /\ GoTo(c, "listen")
      /\ epoll' = EpollDel(co[c].fd)
      /\ UNCHANGED <<m_fd_to_data, connecting, peer, batch, lastSeq>>
  BY DEF SendGoesOn, At, GoTo, fdVars, schedVars
<1>2. /\ CoType' /\ RunsOK'
      /\ \A d \in Coroutines \ {c} : co'[d] = co[d]
      /\ co'[c].loc = "listen"
      /\ co'[c].seq = co[c].seq /\ co'[c].fd = co[c].fd /\ co'[c].pdata = co[c].pdata
  BY <1>1, GoToRuns DEF CallInv, CoType, Locs
<1>3. \A d \in Coroutines : KeepsCall(d)
  BY <1>1, <1>2 DEF KeepsCall, Linked, Held
<1>4. DOMAIN epoll' \subseteq OpenFds
  BY <1>1, EpollDomains DEF CallInv, DescriptorsOK
<1> QED BY <1>1, <1>2, <1>3, <1>4, QuietKeeps DEF CallInv, DescriptorsOK

LEMMA ListenKeeps ==
    ASSUME CallInv, NEW c \in Coroutines, Listen(c)
    PROVE  CallInv'
<1>1. /\ m_active = c /\ co[c].loc = "listen" /\ Wait(c, "recv")
      /\ UNCHANGED <<m_fd_to_data, connecting, peer, batch, lastSeq>>
  BY DEF Listen, At, Wait, fdVars
<1>2. CoType' /\ RunsOK' /\ \A d \in Coroutines : KeepsCall(d)
  BY <1>1, WaitRuns DEF CallInv, CoType, Linked
<1>3. \/ epoll' = epoll
      \/ epoll' = EpollAdd(co[c].fd, {"FD_READ"}) /\ co[c].fd \in OpenFds
  BY DEF Listen
<1>4. DOMAIN epoll' \subseteq OpenFds
  BY <1>3, EpollDomains DEF CallInv, DescriptorsOK
<1> QED BY <1>1, <1>2, <1>4, QuietKeeps DEF CallInv, DescriptorsOK

LEMMA GiveUpKeeps ==
    ASSUME CallInv, NEW c \in Coroutines, GiveUp(c)
    PROVE  CallInv'
<1>1. /\ m_active = c /\ co[c].loc = "recv" /\ CallEnds(c)
      /\ UNCHANGED <<fdVars, epoll, peer, batch, lastSeq>>
  BY DEF GiveUp, At, CallEnds, schedVars
<1>2. /\ CoType' /\ RunsOK'
      /\ \A d \in Coroutines \ {c} : co'[d] = co[d]
      /\ co'[c].loc = "user" /\ co'[c].pdata = NoData
  BY <1>1, EndsRuns DEF CallInv, CoType
<1>3. \A d \in Coroutines : KeepsCall(d) \/ EndsCall(d)
  BY <1>1, <1>2 DEF KeepsCall, EndsCall, Linked
<1> QED BY <1>1, <1>2, <1>3, QuietAnywhere

LEMMA SleepKeeps ==
    ASSUME CallInv, NEW c \in Coroutines, Sleep(c)
    PROVE  CallInv'
<1>1. /\ m_active = c /\ co[c].loc = "user" /\ Wait(c, "user")
      /\ UNCHANGED <<fdVars, epoll, peer, batch, lastSeq>>
  BY DEF Sleep, At, Wait
<1>2. CoType' /\ RunsOK' /\ \A d \in Coroutines : KeepsCall(d)
  BY <1>1, WaitRuns DEF CallInv, CoType
<1> QED BY <1>1, <1>2, QuietAnywhere

LEMMA ReturnKeeps ==
    ASSUME CallInv, NEW c \in Coroutines, Return(c)
    PROVE  CallInv'
<1>1. /\ m_active = c /\ co[c].loc = "user"
      /\ co' = [co EXCEPT ![c].m_state = "E_END"] /\ m_active' = Main
      /\ UNCHANGED <<fdVars, timers, epoll, peer, batch, lastSeq>>
  BY DEF Return, At
<1>2. CoType'
  BY <1>1 DEF CallInv, CoType, CoRec, States
<1>3. /\ \A d \in Coroutines \ {c} : co'[d] = co[d]
      /\ co'[c].m_state = "E_END" /\ co'[c].loc = "user"
      /\ co'[c].seq = co[c].seq /\ co'[c].fd = co[c].fd /\ co'[c].pdata = co[c].pdata
  BY <1>1 DEF CallInv, CoRec
<1>4. co[c].m_state = "E_READY"
  BY <1>1, CallAssumption DEF CallInv, RunsOK, Main
<1>5. RunsOK'
  BY <1>1, <1>3, <1>4 DEF CallInv, RunsOK, Held
<1>6. \A d \in Coroutines : KeepsCall(d)
  BY <1>1, <1>3 DEF KeepsCall
<1> QED BY <1>1, <1>2, <1>5, <1>6, QuietAnywhere
-----------------------------------------------------------------------------
(* main, and events that do not touch the table.                           *)
LEMMA RunOnceExpiredKeeps ==
    ASSUME CallInv, NEW c \in Coroutines, RunOnceExpired(c)
    PROVE  CallInv'
<1>1. /\ m_active = Main /\ c \in timers
      /\ co' = [co EXCEPT ![c].m_state = "E_READY"]
      /\ timers' = timers \ {c} /\ m_active' = c
      /\ UNCHANGED <<fdVars, epoll, peer, batch, lastSeq>>
  BY DEF RunOnceExpired, InMain
<1>2. CoType'
  BY <1>1 DEF CallInv, CoType, CoRec, States
<1>3. /\ \A d \in Coroutines \ {c} : co'[d] = co[d]
      /\ co'[c].m_state = "E_READY" /\ co'[c].loc = co[c].loc
      /\ co'[c].seq = co[c].seq /\ co'[c].fd = co[c].fd /\ co'[c].pdata = co[c].pdata
  BY <1>1 DEF CallInv, CoRec
<1>4. RunsOK'
  BY <1>1, <1>3, CallAssumption DEF CallInv, RunsOK, Main
<1>5. \A d \in Coroutines : KeepsCall(d)
  BY <1>3 DEF KeepsCall
<1> QED BY <1>1, <1>2, <1>4, <1>5, QuietAnywhere

LEMMA ReadyHasFirst ==
    ASSUME Ready # {}
    PROVE  Min(Ready) \in Ready
<1>1. Ready \subseteq Nat
  BY CallAssumption DEF Ready
<1> QED BY <1>1, LeastIsThere

LEMMA ScheduleAllRunsKeeps ==
    ASSUME CallInv, ScheduleAllRuns
    PROVE  CallInv'
<1>1. /\ m_active = Main /\ m_active' \in Ready
      /\ UNCHANGED <<fdVars, co, timers, epoll, peer, batch, lastSeq>>
  BY ReadyHasFirst DEF ScheduleAllRuns, InMain
<1>2. RunsOK'
  BY <1>1, CallAssumption DEF CallInv, RunsOK, Main, Ready
<1>3. CoType' /\ \A d \in Coroutines : KeepsCall(d)
  BY <1>1 DEF CallInv, CoType, KeepsCall
<1> QED BY <1>1, <1>2, <1>3, QuietAnywhere

LEMMA MainTurnsKeep ==
    ASSUME CallInv, EpollWait \/ RunOnceReturns \/ ScheduleAllDone
    PROVE  CallInv'
<1>1. /\ UNCHANGED <<m_fd_to_data, connecting, co, timers, m_active, epoll, peer, lastSeq>>
      /\ batch' \subseteq DOMAIN epoll \/ batch' = batch
  BY DEF EpollWait, RunOnceReturns, ScheduleAllDone, fdVars
<1>2. batch' \subseteq Fds
  BY <1>1, OpenAreFds DEF CallInv, DescriptorsOK
<1>3. RunsOK' /\ CoType' /\ \A d \in Coroutines : KeepsCall(d)
  BY <1>1 DEF CallInv, RunsOK, CoType, KeepsCall
<1> QED BY <1>1, <1>2, <1>3, QuietKeeps DEF CallInv, DescriptorsOK

LEMMA EventUnknownKeeps ==
    ASSUME CallInv, NEW fd \in Fds, EventUnknown(fd)
    PROVE  CallInv'
<1>1. /\ UNCHANGED <<m_fd_to_data, connecting, co, timers, m_active, peer, lastSeq>>
      /\ batch' \subseteq batch /\ epoll' = EpollDel(fd)
  BY DEF EventUnknown, Event, fdVars
<1>2. batch' \subseteq Fds /\ DOMAIN epoll' \subseteq OpenFds
  BY <1>1, EpollDomains DEF CallInv, DescriptorsOK
<1>3. RunsOK' /\ CoType' /\ \A d \in Coroutines : KeepsCall(d)
  BY <1>1 DEF CallInv, RunsOK, CoType, KeepsCall
<1> QED BY <1>1, <1>2, <1>3, QuietKeeps DEF CallInv, DescriptorsOK

LEMMA EventIgnoredKeeps ==
    ASSUME CallInv, NEW fd \in Fds, NEW k, EventIgnored(fd, k)
    PROVE  CallInv'
<1>1. /\ UNCHANGED <<m_fd_to_data, connecting, co, timers, m_active, peer, epoll, lastSeq>>
      /\ batch' \subseteq batch
  BY DEF EventIgnored, EventOf, Event, fdVars
<1>2. RunsOK' /\ CoType' /\ \A d \in Coroutines : KeepsCall(d)
  BY <1>1 DEF CallInv, RunsOK, CoType, KeepsCall
<1> QED BY <1>1, <1>2, QuietKeeps DEF CallInv, DescriptorsOK

LEMMA EventRequestKeeps ==
    ASSUME CallInv, NEW fd \in Fds, NEW k, EventRequest(fd, k)
    PROVE  CallInv'
<1> DEFINE c == Min(Unborn)
<1>1. c \in Unborn
  <2>1. Unborn \subseteq Nat /\ Unborn # {}
    BY CallAssumption DEF Unborn, EventRequest
  <2> QED BY <2>1, LeastIsThere
<1>2. /\ m_active = Main
      /\ co' = [co EXCEPT ![c] = NewCo("E_READY")]
      /\ UNCHANGED <<m_fd_to_data, connecting, timers, m_active, peer, epoll, lastSeq>>
      /\ batch' \subseteq batch
  BY DEF EventRequest, EventOf, Event, InMain, fdVars
<1>3. c \in Coroutines /\ co[c].m_state = "none"
  BY <1>1 DEF Unborn
<1> HIDE DEF c
<1>4. /\ NewCo("E_READY") \in CoRec
      /\ NewCo("E_READY").m_state = "E_READY"
      /\ NewCo("E_READY").loc = "user" /\ NewCo("E_READY").pdata = NoData
  BY NewCoIsNew DEF States
<1>5. CoType'
  BY <1>2, <1>4 DEF CallInv, CoType
<1>6. (\A d \in Coroutines \ {c} : co'[d] = co[d]) /\ co'[c] = NewCo("E_READY")
  BY <1>2, <1>3 DEF CallInv
<1>7. RunsOK'
  BY <1>2, <1>3, <1>4, <1>6, CallAssumption DEF CallInv, RunsOK, Main, Held
<1>8. \A d \in Coroutines : KeepsCall(d) \/ EndsCall(d)
  BY <1>3, <1>4, <1>6 DEF CallInv, RunsOK, KeepsCall, EndsCall
<1> QED BY <1>2, <1>5, <1>7, <1>8, QuietKeeps DEF CallInv, DescriptorsOK

LEMMA PeerKeeps ==
    ASSUME CallInv, Peer
    PROVE  CallInv'
<1>1. /\ UNCHANGED <<m_fd_to_data, connecting, co, timers, m_active, batch, epoll, lastSeq>>
      /\ DOMAIN peer' = DOMAIN peer
  BY DEF Peer, PeerDecides, PeerAnswers, PeerCloses, fdVars, schedVars
<1>2. RunsOK' /\ CoType' /\ \A d \in Coroutines : KeepsCall(d)
  BY <1>1 DEF CallInv, RunsOK, CoType, KeepsCall
<1> QED BY <1>1, <1>2, QuietKeeps DEF CallInv, DescriptorsOK

LEMMA StutterKeeps ==
    ASSUME CallInv, UNCHANGED callVars
    PROVE  CallInv'
<1>1. UNCHANGED <<m_fd_to_data, connecting, co, timers, m_active, batch, epoll, peer, lastSeq>>
  BY DEF callVars, fdVars, schedVars
<1>2. RunsOK' /\ CoType' /\ \A d \in Coroutines : KeepsCall(d)
  BY <1>1 DEF CallInv, RunsOK, CoType, KeepsCall
<1> QED BY <1>1, <1>2, QuietKeeps DEF CallInv, DescriptorsOK
-----------------------------------------------------------------------------
(* Steps that change the data of an entry and leave the keys.              *)
LEMMA SameKeysKeep ==
    ASSUME TableOK, LinksOK, DescriptorsOK, m_fd_to_data' \in [Entries -> Data],
           lastSeq' = lastSeq, connecting' = connecting,
           \A k \in Entries :
              /\ k.ip_port = NoAddr <=> m_fd_to_data'[k].fd_state \in {"E_LISTEN", "E_SERVER_CONN"}
              /\ DOMAIN m_fd_to_data'[k].seq_to_coroutine \subseteq 1 .. lastSeq
    PROVE  TableOK' /\ Entries' = Entries /\ OpenFds' = OpenFds
<1>1. Entries' = Entries
  BY DEF Entries
<1>2. KeysOK'
  BY <1>1 DEF TableOK, KeysOK, EntriesDistinct
<1>3. OpenFds' = OpenFds
  BY <1>1 DEF OpenFds
<1> QED BY <1>1, <1>2, <1>3 DEF TableOK

\* An entry that is found.
LEMMA FoundIsEntry ==
    ASSUME NEW q, NEW k \in Find(q)
    PROVE  k \in Entries
BY DEF Find

LEMMA EventConnectKeeps ==
    ASSUME CallInv, NEW fd \in Fds, NEW k \in Entries, EventConnect(fd, k)
    PROVE  CallInv'
<1> DEFINE r == IF peer[fd].status = "refused" THEN "IO_ERR" ELSE "IO_OK"
<1>1. /\ m_active = Main /\ m_active' = m_active
      /\ m_fd_to_data[k].fd_state = "E_CONNECT"
      /\ m_fd_to_data' = [m_fd_to_data EXCEPT ![k].last_op_ret = r]
      /\ SetReady(m_fd_to_data[k].context_id)
      /\ connecting' = connecting /\ epoll' = epoll /\ peer' = peer /\ lastSeq' = lastSeq
      /\ batch' \subseteq batch
  BY DEF EventConnect, EventOf, Event, InMain
<1>2. r \in {"IO_OK", "IO_ERR"}
  OBVIOUS
<1> HIDE DEF r
<1>3. CoType' /\ RunsOK' /\ \A d \in Coroutines : KeepsCall(d)
  BY <1>1, SetReadyRuns DEF CallInv, CoType
<1>4. m_fd_to_data' \in [Entries -> Data]
  BY <1>1, <1>2 DEF CallInv, TableOK, Data
<1>5. /\ \A x \in Entries \ {k} : m_fd_to_data'[x] = m_fd_to_data[x]
      /\ m_fd_to_data'[k].fd_state = m_fd_to_data[k].fd_state
      /\ m_fd_to_data'[k].context_id = m_fd_to_data[k].context_id
      /\ m_fd_to_data'[k].seq_to_coroutine = m_fd_to_data[k].seq_to_coroutine
  BY <1>1 DEF CallInv, TableOK, Data
<1>6. TableOK' /\ Entries' = Entries /\ OpenFds' = OpenFds
  BY <1>1, <1>4, <1>5, SameKeysKeep DEF CallInv, TableOK
<1>7. PointersOK' /\ SeqsDiffer' /\ ConnectsOK'
  BY <1>1, <1>3, <1>6, QuietCallsKeep DEF CallInv, LinksOK
<1>8. \A c \in Coroutines : /\ co'[c].loc \in Linked => co[c].loc \in Linked
                            /\ co[c].loc = "connect" => co'[c].loc = "connect"
                            /\ co'[c].pdata = co[c].pdata /\ co'[c].seq = co[c].seq
  BY <1>3 DEF KeepsCall, Linked
<1>9. LinkedOK'
  BY <1>1, <1>5, <1>6, <1>8 DEF CallInv, LinksOK, LinkedOK
<1>10. WaitersAreEntered'
  <2>1. \A c \in Coroutines : co[c].loc \in Linked /\ co[c].pdata # Dangling => co[c].pdata \in Entries
    BY DEF CallInv, LinksOK, PointersOK, Linked
  <2> QED BY <1>5, <1>8, <2>1 DEF CallInv, LinksOK, WaitersAreEntered, Linked
<1>11. ConnectWakesItsWaiter'
  BY <1>5, <1>6, <1>8 DEF CallInv, LinksOK, ConnectWakesItsWaiter
<1>12. AnswersMatch'
  BY <1>5, <1>6 DEF CallInv, LinksOK, AnswersMatch
<1>13. DescriptorsOK'
  BY <1>1, <1>6 DEF CallInv, DescriptorsOK
<1> QED BY <1>3, <1>6, <1>7, <1>9, <1>10, <1>11, <1>12, <1>13 DEF CallInv, LinksOK, CoType

(* The answer is put into the entry of its own request, or nowhere.        *)
LEMMA EventAnswerKeeps ==
    ASSUME CallInv, NEW fd \in Fds, NEW k \in Entries, EventAnswer(fd, k)
    PROVE  CallInv'
<1> DEFINE f    == m_fd_to_data[k].seq_to_coroutine
           seq  == Head(peer[fd].inbox)
           mine == {s \in RequestOf(k, seq) : Alive(f[s].id)}
<1>1. /\ m_active = Main /\ m_active' = m_active
      /\ connecting' = connecting /\ lastSeq' = lastSeq
      /\ DOMAIN peer' = DOMAIN peer /\ batch' \subseteq batch
      /\ UNCHANGED <<m_active, lastSeq>>
  BY DEF EventAnswer, EventOf, Event, InMain
<1>2. CASE \E s \in mine : /\ m_fd_to_data' = [m_fd_to_data EXCEPT
                                                  ![k].seq_to_coroutine[s].data = seq]
                           /\ SetReady(f[s].id)
                           /\ UNCHANGED epoll
  <2>1. PICK s \in mine : /\ m_fd_to_data' = [m_fd_to_data EXCEPT
                                                 ![k].seq_to_coroutine[s].data = seq]
                          /\ SetReady(f[s].id)
                          /\ UNCHANGED epoll
    BY <1>2
  <2>2. s \in DOMAIN f /\ s = seq
    BY DEF RequestOf
  <2>3. f \in Maps /\ s \in 1 .. MaxSeq
    BY <2>2, MapsAreMaps DEF CallInv, TableOK, Data
  <2>4. s \in 0 .. MaxSeq
    BY <2>3, CallAssumption
  <2> DEFINE g == [f EXCEPT ![s].data = s]
  <2>5. /\ g \in Maps /\ DOMAIN g = DOMAIN f
        /\ \A x \in DOMAIN f : g[x].id = f[x].id
        /\ \A x \in DOMAIN f : (g[x].data = s /\ x = s) \/ g[x] = f[x]
    <3> HIDE DEF f
    <3>1. /\ g \in Maps /\ DOMAIN g = DOMAIN f /\ g[s].data = s
          /\ \A x \in DOMAIN f : g[x].id = f[x].id
          /\ \A x \in DOMAIN f \ {s} : g[x] = f[x]
      BY <2>2, <2>3, <2>4, AnsweredIsMap
    <3> HIDE DEF g
    <3> QED BY <3>1
  <2>6. m_fd_to_data' = [m_fd_to_data EXCEPT ![k].seq_to_coroutine = g]
    BY <2>1, <2>2
  <2> HIDE DEF g
  <2>7. m_fd_to_data' \in [Entries -> Data]
    BY <2>5, <2>6 DEF CallInv, TableOK, Data
  <2>8. /\ \A x \in Entries \ {k} : m_fd_to_data'[x] = m_fd_to_data[x]
        /\ m_fd_to_data'[k].fd_state = m_fd_to_data[k].fd_state
        /\ m_fd_to_data'[k].context_id = m_fd_to_data[k].context_id
        /\ m_fd_to_data'[k].last_op_ret = m_fd_to_data[k].last_op_ret
        /\ m_fd_to_data'[k].seq_to_coroutine = g
    BY <2>6 DEF CallInv, TableOK, Data
  <2>9. CoType' /\ RunsOK' /\ \A d \in Coroutines : KeepsCall(d)
    BY <1>1, <2>1, SetReadyRuns DEF CallInv, CoType
  <2>10. TableOK' /\ Entries' = Entries /\ OpenFds' = OpenFds
    BY <1>1, <2>5, <2>7, <2>8, SameKeysKeep DEF CallInv, TableOK
  <2>11. PointersOK' /\ SeqsDiffer' /\ ConnectsOK'
    BY <1>1, <2>9, <2>10, QuietCallsKeep DEF CallInv, LinksOK
  <2>12. \A c \in Coroutines : /\ co'[c].loc \in Linked => co[c].loc \in Linked
                               /\ co[c].loc = "connect" => co'[c].loc = "connect"
                               /\ co'[c].pdata = co[c].pdata /\ co'[c].seq = co[c].seq
    BY <2>9 DEF KeepsCall, Linked
  <2>13. LinkedOK'
    BY <2>8, <2>10, <2>12 DEF CallInv, LinksOK, LinkedOK
  <2>14. WaitersAreEntered'
    <3>1. \A c \in Coroutines : co[c].loc \in Linked /\ co[c].pdata # Dangling => co[c].pdata \in Entries
      BY DEF CallInv, LinksOK, PointersOK, Linked
    <3> QED BY <2>5, <2>8, <2>12, <3>1 DEF CallInv, LinksOK, WaitersAreEntered, Linked
  <2>15. ConnectWakesItsWaiter'
    BY <2>8, <2>10, <2>12 DEF CallInv, LinksOK, ConnectWakesItsWaiter
  <2>16. AnswersMatch'
    BY <2>5, <2>8, <2>10 DEF CallInv, LinksOK, AnswersMatch
  <2>17. DescriptorsOK'
    BY <1>1, <2>1, <2>10 DEF CallInv, DescriptorsOK
  <2> QED BY <2>9, <2>10, <2>11, <2>13, <2>14, <2>15, <2>16, <2>17 DEF CallInv, LinksOK, CoType
<1>3. CASE epoll' = EpollDel(fd) /\ UNCHANGED <<m_fd_to_data, co, timers>>
  <2>1. RunsOK' /\ CoType' /\ \A d \in Coroutines : KeepsCall(d)
    BY <1>1, <1>3 DEF CallInv, RunsOK, CoType, KeepsCall
  <2>2. DOMAIN epoll' \subseteq OpenFds
    BY <1>3, EpollDomains DEF CallInv, DescriptorsOK
  <2> QED BY <1>1, <1>3, <2>1, <2>2, QuietKeeps DEF CallInv, DescriptorsOK
<1> QED BY <1>2, <1>3 DEF EventAnswer

(* The answer is taken, and with it the entry of the request.              *)
LEMMA TakeAnswerKeeps ==
    ASSUME CallInv, NEW c \in Coroutines, TakeAnswer(c)
    PROVE  CallInv'
<1> DEFINE k    == co[c].pdata
           f    == m_fd_to_data[k].seq_to_coroutine
           rest == MapErase(f, co[c].seq)
<1>1. /\ m_active = c /\ co[c].loc = "recv" /\ co[c].pdata # Dangling /\ CallEnds(c)
      /\ m_fd_to_data' = [m_fd_to_data EXCEPT ![k].seq_to_coroutine = rest]
      /\ connecting' = connecting /\ peer' = peer /\ lastSeq' = lastSeq /\ batch' = batch
      /\ epoll' \in {EpollDel(co[c].fd), epoll}
  BY DEF TakeAnswer, At, CallEnds, schedVars
<1>2. k \in Entries
  BY <1>1 DEF CallInv, LinksOK, PointersOK
<1>3. /\ rest \in Maps /\ DOMAIN rest = DOMAIN f \ {co[c].seq}
      /\ \A x \in DOMAIN f \ {co[c].seq} : rest[x] = f[x]
  <2>1. f \in Maps
    BY <1>2 DEF CallInv, TableOK, Data
  <2> QED BY <2>1, EraseIsMap
<1> HIDE DEF rest
<1>4. m_fd_to_data' \in [Entries -> Data]
  BY <1>1, <1>3, ZenonT(60) DEF CallInv, TableOK, Data
<1>5. /\ \A x \in Entries \ {k} : m_fd_to_data'[x] = m_fd_to_data[x]
      /\ m_fd_to_data'[k].fd_state = m_fd_to_data[k].fd_state
      /\ m_fd_to_data'[k].context_id = m_fd_to_data[k].context_id
      /\ m_fd_to_data'[k].last_op_ret = m_fd_to_data[k].last_op_ret
      /\ m_fd_to_data'[k].seq_to_coroutine = rest
  BY <1>1, <1>2 DEF CallInv, TableOK, Data
<1> HIDE DEF k
<1>6. /\ CoType' /\ RunsOK'
      /\ \A d \in Coroutines \ {c} : co'[d] = co[d]
      /\ co'[c].loc = "user" /\ co'[c].pdata = NoData
  BY <1>1, EndsRuns DEF CallInv, CoType
<1>7. \A d \in Coroutines : KeepsCall(d) \/ EndsCall(d)
  BY <1>1, <1>6 DEF KeepsCall, EndsCall, Linked
<1>8. TableOK' /\ Entries' = Entries /\ OpenFds' = OpenFds
  BY <1>1, <1>3, <1>4, <1>5, SameKeysKeep DEF CallInv, TableOK
<1>9. PointersOK' /\ SeqsDiffer' /\ ConnectsOK'
  BY <1>1, <1>6, <1>7, <1>8, QuietCallsKeep DEF CallInv, LinksOK
<1>10. LinkedOK'
  BY <1>5, <1>6, <1>8 DEF CallInv, LinksOK, LinkedOK, Linked
<1>11. WaitersAreEntered'
  <2>1. \A d \in Coroutines : co[d].loc \in Linked /\ co[d].pdata # Dangling => co[d].pdata \in Entries
    BY DEF CallInv, LinksOK, PointersOK, Linked
  <2>2. \A d \in Coroutines \ {c} : co[d].loc # "user" => co[d].seq # co[c].seq
    BY <1>1 DEF CallInv, LinksOK, SeqsDiffer
  <2> QED BY <1>3, <1>5, <1>6, <2>1, <2>2 DEF CallInv, LinksOK, WaitersAreEntered, Linked
<1>12. ConnectWakesItsWaiter'
  BY <1>1, <1>5, <1>6, <1>8 DEF CallInv, LinksOK, ConnectWakesItsWaiter
<1>13. AnswersMatch'
  BY <1>3, <1>5, <1>8 DEF CallInv, LinksOK, AnswersMatch
<1>14. DescriptorsOK'
  BY <1>1, <1>8, EpollDomains DEF CallInv, DescriptorsOK
<1> QED BY <1>6, <1>8, <1>9, <1>10, <1>11, <1>12, <1>13, <1>14 DEF CallInv, LinksOK, CoType
-----------------------------------------------------------------------------
(* tcpconnect, after its wait.                                             *)
LEMMA ConnectSucceedsKeeps ==
    ASSUME CallInv, NEW c \in Coroutines, ConnectSucceeds(c)
    PROVE  CallInv'
<1> DEFINE k == co[c].pdata
<1>1. /\ m_active = c /\ co[c].loc = "connect" /\ co[c].pdata # Dangling
      /\ GoTo(c, "connected")
      /\ m_fd_to_data' = [m_fd_to_data EXCEPT ![k].context_id = NoOne]
      /\ connecting' = connecting /\ peer' = peer /\ lastSeq' = lastSeq /\ batch' = batch
      /\ epoll' = EpollDel(co[c].fd)
  BY DEF ConnectSucceeds, At, GoTo, schedVars
<1>2. k \in Entries
  BY <1>1 DEF CallInv, LinksOK, PointersOK
<1>3. m_fd_to_data' \in [Entries -> Data]
  BY <1>1 DEF CallInv, TableOK, Data
<1>4. /\ \A x \in Entries \ {k} : m_fd_to_data'[x] = m_fd_to_data[x]
      /\ m_fd_to_data'[k].fd_state = m_fd_to_data[k].fd_state
      /\ m_fd_to_data'[k].context_id = NoOne
      /\ m_fd_to_data'[k].last_op_ret = m_fd_to_data[k].last_op_ret
      /\ m_fd_to_data'[k].seq_to_coroutine = m_fd_to_data[k].seq_to_coroutine
  BY <1>1, <1>2 DEF CallInv, TableOK, Data
<1> HIDE DEF k
<1>5. /\ CoType' /\ RunsOK'
      /\ \A d \in Coroutines \ {c} : co'[d] = co[d]
      /\ co'[c].loc = "connected"
      /\ co'[c].seq = co[c].seq /\ co'[c].fd = co[c].fd /\ co'[c].pdata = co[c].pdata
  BY <1>1, GoToRuns DEF CallInv, CoType, Locs
<1>6. TableOK' /\ Entries' = Entries /\ OpenFds' = OpenFds
  BY <1>1, <1>3, <1>4, SameKeysKeep DEF CallInv, TableOK
<1>7. PointersOK'
  BY <1>1, <1>2, <1>5, <1>6 DEF CallInv, LinksOK, PointersOK, k
<1>8. SeqsDiffer'
  BY <1>1, <1>5 DEF CallInv, LinksOK, SeqsDiffer
<1>9. ConnectsOK'
  <2>1. \A d \in Coroutines : /\ InConnect(d)' <=> InConnect(d)
                              /\ co'[d].fd = co[d].fd /\ co'[d].pdata = co[d].pdata
    BY <1>1, <1>5 DEF InConnect
  <2>2. connecting' = {co'[d].fd : d \in {x \in Coroutines : InConnect(x)'}}
    BY <1>1, <2>1 DEF CallInv, LinksOK, ConnectsOK
  <2> QED BY <1>6, <2>1, <2>2 DEF CallInv, LinksOK, ConnectsOK, InConnect
<1>10. LinkedOK'
  BY <1>4, <1>5, <1>6 DEF CallInv, LinksOK, LinkedOK, Linked
<1>11. WaitersAreEntered'
  <2>1. \A d \in Coroutines : co[d].loc \in Linked /\ co[d].pdata # Dangling => co[d].pdata \in Entries
    BY DEF CallInv, LinksOK, PointersOK, Linked
  <2> QED BY <1>4, <1>5, <2>1 DEF CallInv, LinksOK, WaitersAreEntered, Linked
<1>12. ConnectWakesItsWaiter'
  BY <1>4, <1>5, <1>6 DEF CallInv, LinksOK, ConnectWakesItsWaiter, k
<1>13. AnswersMatch'
  BY <1>4, <1>6 DEF CallInv, LinksOK, AnswersMatch
<1>14. DescriptorsOK'
  BY <1>1, <1>6, EpollDomains DEF CallInv, DescriptorsOK
<1> QED BY <1>5, <1>6, <1>7, <1>8, <1>9, <1>10, <1>11, <1>12, <1>13, <1>14
        DEF CallInv, LinksOK, CoType

\* A coroutine that goes on leaves its local tcs: nobody else's is closed.
LEMMA LeavesConnect ==
    ASSUME ConnectsOK, NEW c \in Coroutines, InConnect(c), ~ InConnect(c)',
           Entries' \subseteq Entries,
           connecting' = connecting \ {co[c].fd},
           \A d \in Coroutines \ {c} :
              /\ co'[d].loc = co[d].loc /\ co'[d].fd = co[d].fd
              /\ InConnect(d) => \/ co'[d].pdata = co[d].pdata
                                 \/ \A k \in Entries' : k.socket_fd # co[d].fd
    PROVE  ConnectsOK'
<1>1. \A d \in Coroutines : InConnect(d)' <=> d # c /\ InConnect(d)
  BY DEF InConnect
<1>2. connecting' = {co'[d].fd : d \in {x \in Coroutines : InConnect(x)'}}
  <2>1. \A d \in Coroutines \ {c} : InConnect(d) => co[d].fd # co[c].fd
    BY DEF ConnectsOK
  <2> QED BY <1>1, <2>1 DEF ConnectsOK
<1> QED BY <1>1, <1>2 DEF ConnectsOK, InConnect

LEMMA LinkedIsData ==
    ASSUME NEW d \in Data, NEW f \in Maps
    PROVE  LET linked == [d EXCEPT !.fd_state = "E_OTHER", !.last_op_ret = "IO_OK",
                                   !.seq_to_coroutine = f]
           IN  /\ linked \in Data
               /\ linked.fd_state = "E_OTHER" /\ linked.last_op_ret = "IO_OK"
               /\ linked.context_id = d.context_id
               /\ linked.seq_to_coroutine = f
BY DEF Data

(* The end of tcpconnect.                                                  *)
LEMMA LinkKeeps ==
    ASSUME CallInv, NEW c \in Coroutines, Link(c)
    PROVE  CallInv'
<1> DEFINE k == co[c].pdata
           r == [id |-> c, data |-> NoAnswer]
           f == MapPut(m_fd_to_data[k].seq_to_coroutine, co[c].seq, r)
<1>1. /\ m_active = c /\ co[c].loc \in {"link", "connected"}
      /\ GoTo(c, "tcpsend")
      /\ m_fd_to_data' = [m_fd_to_data EXCEPT ![k].fd_state = "E_OTHER",
                            ![k].last_op_ret = "IO_OK",
                            ![k].seq_to_coroutine = MapPut(@, co[c].seq, r)]
      /\ connecting' = IF co[c].loc = "connected" THEN connecting \ {co[c].fd} ELSE connecting
      /\ epoll' = epoll /\ peer' = peer /\ lastSeq' = lastSeq /\ batch' = batch
  BY DEF Link, At, GoTo, schedVars
<1>2. co[c].loc # "connect"
  BY <1>1
<1>3. /\ k \in Entries /\ k.ip_port # NoAddr /\ k.socket_fd = co[c].fd
      /\ co[c].seq \in 1 .. lastSeq
  BY <1>1 DEF CallInv, LinksOK, PointersOK, Held
<1>4. /\ f \in Maps
      /\ DOMAIN f = DOMAIN m_fd_to_data[k].seq_to_coroutine \cup {co[c].seq}
      /\ f[co[c].seq] = r
      /\ \A x \in DOMAIN m_fd_to_data[k].seq_to_coroutine \ {co[c].seq} :
            f[x] = m_fd_to_data[k].seq_to_coroutine[x]
  <2>1. m_fd_to_data[k].seq_to_coroutine \in Maps
    BY <1>3 DEF CallInv, TableOK, Data
  <2>2. co[c].seq \in 1 .. MaxSeq /\ r \in [id : Coroutines, data : 0 .. MaxSeq]
    BY <1>3, CallAssumption DEF CallInv, RunsOK, NoAnswer
  <2> HIDE DEF r
  <2> QED BY <2>1, <2>2, PutIsMap, ZenonT(60)
<1>5. r.id = c /\ r.data = NoAnswer
  OBVIOUS
<1> HIDE DEF r
<1> DEFINE linked == [m_fd_to_data[k] EXCEPT !.fd_state = "E_OTHER", !.last_op_ret = "IO_OK",
                                             !.seq_to_coroutine = f]
<1>6. m_fd_to_data' = [m_fd_to_data EXCEPT ![k] = linked]
  BY <1>1, <1>3 DEF CallInv, TableOK, Data
<1> HIDE DEF f, k
<1>7. /\ linked \in Data
      /\ linked.fd_state = "E_OTHER" /\ linked.last_op_ret = "IO_OK"
      /\ linked.context_id = m_fd_to_data[k].context_id
      /\ linked.seq_to_coroutine = f
  <2>1. m_fd_to_data[k] \in Data
    BY <1>3 DEF CallInv, TableOK
  <2> QED BY <1>4, <2>1, LinkedIsData
<1> HIDE DEF linked
<1>8. m_fd_to_data' \in [Entries -> Data]
  BY <1>6, <1>7 DEF CallInv, TableOK
<1>9. /\ \A x \in Entries \ {k} : m_fd_to_data'[x] = m_fd_to_data[x]
      /\ m_fd_to_data'[k].fd_state = "E_OTHER"
      /\ m_fd_to_data'[k].context_id = m_fd_to_data[k].context_id
      /\ m_fd_to_data'[k].last_op_ret = "IO_OK"
      /\ m_fd_to_data'[k].seq_to_coroutine = f
  BY <1>6, <1>7, <1>3 DEF CallInv, TableOK
<1>10. /\ CoType' /\ RunsOK'
       /\ \A d \in Coroutines \ {c} : co'[d] = co[d]
       /\ co'[c].loc = "tcpsend"
       /\ co'[c].seq = co[c].seq /\ co'[c].fd = co[c].fd /\ co'[c].pdata = co[c].pdata
  BY <1>1, GoToRuns DEF CallInv, CoType, Locs
<1>11. Entries' = Entries
  BY <1>8 DEF Entries
<1>12. TableOK'
  <2>1. KeysOK'
    BY <1>11 DEF CallInv, TableOK, KeysOK, EntriesDistinct
  <2> QED BY <1>1, <1>3, <1>4, <1>8, <1>9, <1>11, <2>1 DEF CallInv, TableOK
<1>13. PointersOK'
  BY <1>1, <1>3, <1>10, <1>11 DEF CallInv, LinksOK, PointersOK, k
<1>14. SeqsDiffer'
  BY <1>1, <1>10 DEF CallInv, LinksOK, SeqsDiffer
<1>15. ConnectsOK'
  <2>1. CASE co[c].loc = "connected"
    <3>1. InConnect(c) /\ ~ InConnect(c)'
      BY <1>10, <2>1 DEF InConnect
    <3> QED BY <1>1, <1>10, <1>11, <2>1, <3>1, LeavesConnect DEF CallInv, LinksOK
  <2>2. CASE co[c].loc = "link"
    <3>1. \A d \in Coroutines : /\ InConnect(d)' <=> InConnect(d)
                                /\ co'[d].fd = co[d].fd /\ co'[d].pdata = co[d].pdata
      BY <1>10, <2>2 DEF InConnect
    <3>2. connecting' = {co'[d].fd : d \in {x \in Coroutines : InConnect(x)'}}
      BY <1>1, <2>2, <3>1 DEF CallInv, LinksOK, ConnectsOK
    <3> QED BY <1>11, <3>1, <3>2 DEF CallInv, LinksOK, ConnectsOK, InConnect
  <2> QED BY <1>1, <2>1, <2>2
<1>16. LinkedOK'
  BY <1>9, <1>10, <1>11 DEF CallInv, LinksOK, LinkedOK, k
<1>17. WaitersAreEntered'
  <2>1. \A d \in Coroutines : co[d].loc \in Linked /\ co[d].pdata # Dangling => co[d].pdata \in Entries
    BY DEF CallInv, LinksOK, PointersOK, Linked
  <2>2. \A d \in Coroutines \ {c} : co[d].loc # "user" => co[d].seq # co[c].seq
    BY <1>1 DEF CallInv, LinksOK, SeqsDiffer
  <2> QED BY <1>4, <1>5, <1>9, <1>10, <2>1, <2>2 DEF CallInv, LinksOK, WaitersAreEntered, Linked, k
<1>18. ConnectWakesItsWaiter'
  BY <1>2, <1>9, <1>10, <1>11 DEF CallInv, LinksOK, ConnectWakesItsWaiter
<1>19. AnswersMatch'
  BY <1>4, <1>5, <1>9, <1>11 DEF CallInv, LinksOK, AnswersMatch
<1>20. DescriptorsOK'
  <2>1. OpenFds' = OpenFds
    BY <1>1, <1>3, <1>11 DEF OpenFds
  <2> QED BY <1>1, <2>1 DEF CallInv, DescriptorsOK
<1> QED BY <1>10, <1>12, <1>13, <1>14, <1>15, <1>16, <1>17, <1>18, <1>19, <1>20
        DEF CallInv, LinksOK, CoType
-----------------------------------------------------------------------------
(* tcpconnect, up to its wait: the table grows, and a call begins.         *)
Begins(c) ==
    /\ co[c].loc = "user" /\ co'[c].loc \in {"link", "connect"}
    /\ lastSeq' = lastSeq + 1 /\ co'[c].seq = lastSeq'
    /\ co'[c].pdata \in Entries'
    /\ co'[c].pdata.socket_fd = co'[c].fd /\ co'[c].pdata.ip_port # NoAddr

\* The request of the call is a new one.
LEMMA BeginKeeps ==
    ASSUME CallInv, TableOK', RunsOK', Entries \subseteq Entries',
           lastSeq' = lastSeq \/ lastSeq' = lastSeq + 1,
           \A d \in Coroutines : co'[d] = co[d] \/ Begins(d),
           \A d, e \in Coroutines : Begins(d) /\ Begins(e) => d = e
    PROVE  PointersOK' /\ SeqsDiffer'
<1>1. \A n : n \in 1 .. lastSeq => n \in 1 .. lastSeq' /\ n # lastSeq + 1
  BY CallAssumption DEF CallInv, RunsOK
<1>2. lastSeq' = lastSeq + 1 => lastSeq' \in 1 .. lastSeq'
  BY CallAssumption DEF CallInv, RunsOK
<1>3. Dangling \notin Entries'
  BY KeysAreNotNull DEF TableOK, KeysOK
<1>4. PointersOK'
  <2> SUFFICES ASSUME NEW d \in Coroutines
               PROVE  IF co'[d].loc = "user" THEN co'[d].pdata = NoData
                      ELSE /\ co'[d].seq \in 1 .. lastSeq'
                           /\ co'[d].pdata \in Entries' \cup {Dangling}
                           /\ co'[d].loc \in Held => co'[d].pdata \in Entries'
                           /\ co'[d].pdata \in Entries' =>
                                 /\ co'[d].pdata.socket_fd = co'[d].fd
                                 /\ co'[d].pdata.ip_port # NoAddr
    BY Zenon DEF PointersOK
  <2>1. CASE co'[d] = co[d]
    BY <1>1, <1>3, <2>1 DEF CallInv, LinksOK, PointersOK
  <2>2. CASE Begins(d)
    BY <1>2, <2>2 DEF Begins
  <2> QED BY <2>1, <2>2
<1>5. SeqsDiffer'
  <2> SUFFICES ASSUME NEW d \in Coroutines, NEW e \in Coroutines,
                      co'[d].loc # "user", co'[e].loc # "user", co'[d].seq = co'[e].seq
               PROVE  d = e
    BY DEF SeqsDiffer
  <2>1. \A x \in Coroutines : /\ co'[x] = co[x] /\ co'[x].loc # "user" => co'[x].seq \in 1 .. lastSeq
                              /\ Begins(x) => co'[x].seq = lastSeq + 1
    BY DEF CallInv, LinksOK, PointersOK, Begins
  <2>2. \/ co'[d] = co[d] /\ co'[e] = co[e]
        \/ Begins(d) /\ Begins(e)
    BY <1>1, <2>1
  <2> QED BY <2>2 DEF CallInv, LinksOK, SeqsDiffer
<1> QED BY <1>4, <1>5

\* What is said of the data of entries, when an empty one may be added.
LEMMA GrowthKeeps ==
    ASSUME CallInv, TableOK', Entries \subseteq Entries',
           \A k \in Entries : m_fd_to_data'[k] = m_fd_to_data[k],
           \A k \in Entries' \ Entries :
              /\ DOMAIN m_fd_to_data'[k].seq_to_coroutine = {}
              /\ m_fd_to_data'[k].context_id # NoOne =>
                    \E c \in Coroutines : /\ c = m_fd_to_data'[k].context_id
                                         /\ co'[c].loc = "connect" /\ co'[c].pdata = k,
           \A d \in Coroutines : co'[d] = co[d] \/ Begins(d)
    PROVE  LinkedOK' /\ WaitersAreEntered' /\ ConnectWakesItsWaiter' /\ AnswersMatch'
<1>1. \A d \in Coroutines : /\ co'[d].loc \in Linked => co'[d] = co[d]
                            /\ co[d].loc = "connect" => co'[d] = co[d]
  BY DEF Begins, Linked
<1>2. Dangling \notin Entries'
  BY KeysAreNotNull DEF TableOK, KeysOK
<1>3. \A d \in Coroutines : co[d].loc \in Linked => co[d].pdata \in Entries \cup {Dangling}
  BY DEF CallInv, LinksOK, PointersOK, Linked
<1>4. LinkedOK'
  BY <1>1, <1>2, <1>3 DEF CallInv, LinksOK, LinkedOK
<1>5. WaitersAreEntered'
  BY <1>1, <1>3 DEF CallInv, LinksOK, WaitersAreEntered, Linked
<1>6. ConnectWakesItsWaiter'
  <2> SUFFICES ASSUME NEW k \in Entries', m_fd_to_data'[k].context_id # NoOne
               PROVE  \E c \in Coroutines : /\ c = m_fd_to_data'[k].context_id
                                           /\ co'[c].loc = "connect" /\ co'[c].pdata = k
    BY DEF ConnectWakesItsWaiter
  <2>1. CASE k \in Entries
    BY <1>1, <2>1 DEF CallInv, LinksOK, ConnectWakesItsWaiter
  <2> QED BY <2>1
<1>7. AnswersMatch'
  <2> SUFFICES ASSUME NEW k \in Entries', NEW s \in DOMAIN m_fd_to_data'[k].seq_to_coroutine
               PROVE  m_fd_to_data'[k].seq_to_coroutine[s].data \in {NoAnswer, s}
    BY DEF AnswersMatch
  <2>1. k \in Entries
    OBVIOUS
  <2> QED BY <2>1 DEF CallInv, LinksOK, AnswersMatch
<1> QED BY <1>4, <1>5, <1>6, <1>7

\* A coroutine that runs is ready.
LEMMA RunningIsReady ==
    ASSUME RunsOK, NEW c \in Coroutines, m_active = c
    PROVE  co[c].m_state = "E_READY" /\ c # Main
BY CallAssumption DEF RunsOK, Main

LEMMA BegunIsCo ==
    ASSUME NEW r \in CoRec, NEW loc \in Locs, NEW seq \in 0 .. MaxSeq,
           NEW pdata \in Keys \cup NoKeys, NEW fd \in Fds \cup {NoFd}
    PROVE  [r EXCEPT !.loc = loc, !.seq = seq, !.pdata = pdata, !.fd = fd] \in CoRec
BY DEF CoRec

LEMMA CallReusesKeeps ==
    ASSUME CallInv, NEW c \in Coroutines, NEW addr \in Addrs, CallReuses(c, addr)
    PROVE  CallInv'
<1>1. PICK k \in Find(AddrQuery(addr)) :
          co' = [co EXCEPT ![c].loc = "link", ![c].seq = lastSeq', ![c].pdata = k,
                           ![c].fd = k.socket_fd]
  BY DEF CallReuses
<1>2. /\ m_active = c /\ co[c].loc = "user" /\ lastSeq < MaxSeq /\ lastSeq' = lastSeq + 1
      /\ UNCHANGED <<m_fd_to_data, connecting, timers, m_active, batch, epoll, peer>>
  BY DEF CallReuses, At, Encode, fdVars, schedVars
<1>3. k \in Entries /\ k \in Keys /\ k.ip_port = addr /\ addr # NoAddr /\ k.socket_fd \in Fds
  <2>1. k \in Entries /\ k.ip_port = addr
    BY FindAddrIsExact DEF CallInv, TableOK, FindAddrExact
  <2> QED BY <2>1, FdAssumption DEF CallInv, TableOK, KeysOK, Keys, NoAddr
<1>4. Entries' = Entries
  BY <1>2 DEF Entries
<1>5. lastSeq' \in 1 .. MaxSeq
  BY <1>2, CallAssumption DEF CallInv, RunsOK
<1>6. /\ \A d \in Coroutines \ {c} : co'[d] = co[d]
      /\ co'[c].m_state = co[c].m_state /\ co'[c].loc = "link" /\ co'[c].seq = lastSeq'
      /\ co'[c].pdata = k /\ co'[c].fd = k.socket_fd
  BY <1>1 DEF CallInv, CoRec
<1>7. CoType'
  <2> DEFINE new == [co[c] EXCEPT !.loc = "link", !.seq = lastSeq', !.pdata = k,
                                  !.fd = k.socket_fd]
  <2>1. co' = [co EXCEPT ![c] = new]
    BY <1>1 DEF CallInv, CoRec
  <2>2. new \in CoRec
    <3>1. /\ co[c] \in CoRec /\ "link" \in Locs /\ lastSeq' \in 0 .. MaxSeq
          /\ k \in Keys \cup NoKeys /\ k.socket_fd \in Fds \cup {NoFd}
      BY <1>3, <1>5 DEF CallInv, Locs
    <3> QED BY <3>1, BegunIsCo
  <2> HIDE DEF new
  <2> QED BY <2>1, <2>2 DEF CallInv, CoType
<1>8. RunsOK'
  BY <1>2, <1>5, <1>6, RunningIsReady DEF CallInv, RunsOK
<1>9. Begins(c) /\ \A d \in Coroutines : Begins(d) => d = c
  BY <1>2, <1>3, <1>4, <1>6 DEF Begins
<1>10. TableOK'
  <2>1. \A n : n \in 1 .. lastSeq => n \in 1 .. lastSeq'
    BY <1>2, CallAssumption DEF CallInv, RunsOK
  <2>2. KeysOK'
    BY <1>4 DEF CallInv, TableOK, KeysOK, EntriesDistinct
  <2> QED BY <1>2, <1>4, <2>1, <2>2 DEF CallInv, TableOK
<1>11. PointersOK' /\ SeqsDiffer'
  BY <1>2, <1>4, <1>6, <1>8, <1>9, <1>10, BeginKeeps
<1>12. LinkedOK' /\ WaitersAreEntered' /\ ConnectWakesItsWaiter' /\ AnswersMatch'
  BY <1>2, <1>4, <1>6, <1>9, <1>10, GrowthKeeps
<1>13. ConnectsOK'
  <2>1. \A d \in Coroutines : /\ InConnect(d)' <=> InConnect(d)
                              /\ InConnect(d) => co'[d] = co[d]
    BY <1>2, <1>6 DEF InConnect
  <2>2. connecting' = {co'[d].fd : d \in {x \in Coroutines : InConnect(x)'}}
    BY <1>2, <2>1 DEF CallInv, LinksOK, ConnectsOK
  <2> QED BY <1>4, <2>1, <2>2 DEF CallInv, LinksOK, ConnectsOK, InConnect
<1>14. DescriptorsOK'
  BY <1>2, <1>4 DEF CallInv, DescriptorsOK, OpenFds
<1> QED BY <1>7, <1>8, <1>10, <1>11, <1>12, <1>13, <1>14 DEF CallInv, LinksOK, CoType
-----------------------------------------------------------------------------
(* A new entry: its key is equivalent to no other.                         *)
LEMMA NewKeyMisses ==
    ASSUME Entries \subseteq Keys, NEW key \in Keys,
           \A k \in Entries : k.socket_fd # key.socket_fd,
           key.ip_port = NoAddr \/ \A k \in Entries : k.ip_port # key.ip_port
    PROVE  Find(key) = {}
<1> SUFFICES ASSUME NEW k \in Entries
             PROVE  KeyLess(k, key) \/ KeyLess(key, k)
  BY DEF Find
<1>1. /\ k.ip_port \in Nat /\ k.socket_fd \in Nat
      /\ key.ip_port \in Nat /\ key.socket_fd \in Nat
  BY KeyFields
<1>2. k.socket_fd # key.socket_fd /\ (k.ip_port # key.ip_port \/ k.ip_port = NoAddr)
  OBVIOUS
<1> QED BY <1>1, <1>2 DEF KeyLess

LEMMA PutAdds ==
    ASSUME CallInv, NEW key \in Keys, NEW d \in Data, Put(key, d),
           \A k \in Entries : k.socket_fd # key.socket_fd,
           key.ip_port = NoAddr \/ \A k \in Entries : k.ip_port # key.ip_port,
           key.ip_port = NoAddr <=> d.fd_state \in {"E_LISTEN", "E_SERVER_CONN"},
           DOMAIN d.seq_to_coroutine = {},
           lastSeq' = lastSeq \/ lastSeq' = lastSeq + 1
    PROVE  /\ TableOK' /\ Entries' = Entries \cup {key} /\ m_fd_to_data'[key] = d
           /\ \A k \in Entries : m_fd_to_data'[k] = m_fd_to_data[k]
<1>1. Find(key) = {}
  BY NewKeyMisses DEF CallInv, TableOK, KeysOK
<1>2. m_fd_to_data' = [k \in Entries \cup {key} |-> IF k = key THEN d ELSE m_fd_to_data[k]]
  BY <1>1 DEF Put
<1>3. Entries' = Entries \cup {key}
  BY <1>2 DEF Entries
<1>4. m_fd_to_data'[key] = d /\ \A k \in Entries : m_fd_to_data'[k] = m_fd_to_data[k]
  BY <1>2
<1>5. KeysOK'
  BY <1>3 DEF CallInv, TableOK, KeysOK, EntriesDistinct
<1>6. m_fd_to_data' \in [Entries' -> Data]
  BY <1>2, <1>3 DEF CallInv, TableOK
<1>7. \A n : n \in 1 .. lastSeq => n \in 1 .. lastSeq'
  BY CallAssumption DEF CallInv, RunsOK
<1>8. TableOK'
  BY <1>3, <1>4, <1>5, <1>6, <1>7 DEF CallInv, TableOK
<1> QED BY <1>3, <1>4, <1>8

LEMMA NewDataIsData ==
    ASSUME NEW fd_state \in {"E_LISTEN", "E_SERVER_CONN", "E_OTHER", "E_CONNECT"},
           NEW garbage \in {"IO_OK", "IO_ERR"}
    PROVE  /\ NewData(fd_state, garbage) \in Data
           /\ NewData(fd_state, garbage).fd_state = fd_state
           /\ NewData(fd_state, garbage).context_id = NoOne
           /\ NewData(fd_state, garbage).seq_to_coroutine = EmptyMap
BY EmptyIsMap DEF NewData, Data

LEMMA EventAcceptKeeps ==
    ASSUME CallInv, NEW fd \in Fds, NEW k, EventAccept(fd, k)
    PROVE  CallInv'
<1>1. /\ UNCHANGED <<connecting, co, timers, m_active, peer, lastSeq>>
      /\ batch' \subseteq batch
  BY DEF EventAccept, EventOf, Event
<1>2. RunsOK' /\ CoType' /\ \A d \in Coroutines : KeepsCall(d)
  BY <1>1 DEF CallInv, RunsOK, CoType, KeepsCall
<1>3. CASE UNCHANGED <<m_fd_to_data, epoll>>
  BY <1>1, <1>2, <1>3, QuietKeeps DEF CallInv, DescriptorsOK
<1>4. CASE /\ FdsLeft /\ Put(FdQuery(NewFd), NewData("E_SERVER_CONN", "IO_OK"))
           /\ epoll' = EpollAdd(NewFd, {"FD_READ"})
  <2>1. /\ NewFd \in Fds /\ NewFd \notin connecting
        /\ \A x \in Entries : x.socket_fd # NewFd
    BY <1>4, NewFdIsFree
  <2>2. /\ FdQuery(NewFd) \in Keys
        /\ FdQuery(NewFd).ip_port = NoAddr /\ FdQuery(NewFd).socket_fd = NewFd
    BY <2>1 DEF FdQuery, Keys
  <2> DEFINE key == FdQuery(NewFd)
             d   == NewData("E_SERVER_CONN", "IO_OK")
  <2>3. /\ d \in Data /\ d.fd_state = "E_SERVER_CONN" /\ d.context_id = NoOne
        /\ DOMAIN d.seq_to_coroutine = {}
    BY NewDataIsData, EmptyIsMap
  <2>4. Put(key, d)
    BY <1>4
  <2> HIDE DEF key, d
  <2>5. /\ TableOK' /\ Entries' = Entries \cup {key} /\ m_fd_to_data'[key] = d
        /\ \A x \in Entries : m_fd_to_data'[x] = m_fd_to_data[x]
    BY <1>1, <2>1, <2>2, <2>3, <2>4, PutAdds DEF key
  <2>6. \A x \in Coroutines : co'[x] = co[x] /\ ~ Begins(x)
    BY <1>1 DEF Begins
  <2>7. PointersOK' /\ SeqsDiffer'
    BY <1>1, <1>2, <2>5, <2>6, BeginKeeps
  <2>8. LinkedOK' /\ WaitersAreEntered' /\ ConnectWakesItsWaiter' /\ AnswersMatch'
    BY <2>3, <2>5, <2>6, GrowthKeeps
  <2>9. ConnectsOK'
    <3>1. \A x \in Coroutines : InConnect(x) => co[x].fd \in connecting
      BY DEF CallInv, LinksOK, ConnectsOK
    <3>2. \A x \in Coroutines : InConnect(x)' <=> InConnect(x)
      BY <1>1 DEF InConnect
    <3>3. connecting' = {co'[x].fd : x \in {y \in Coroutines : InConnect(y)'}}
      BY <1>1, <3>2 DEF CallInv, LinksOK, ConnectsOK
    <3> QED BY <1>1, <2>1, <2>2, <2>5, <3>1, <3>2, <3>3
            DEF CallInv, LinksOK, ConnectsOK, InConnect, key
  <2>10. DescriptorsOK'
    <3>1. OpenFds' = OpenFds \cup {NewFd}
      BY <1>1, <2>2, <2>5 DEF OpenFds, key
    <3>2. DOMAIN epoll' \subseteq DOMAIN epoll \cup {NewFd}
      BY <1>4, EpollDomains
    <3> QED BY <1>1, <3>1, <3>2 DEF CallInv, DescriptorsOK
  <2> QED BY <1>2, <2>5, <2>7, <2>8, <2>9, <2>10 DEF CallInv, LinksOK, CoType
<1> QED BY <1>3, <1>4 DEF EventAccept

\* The socket of a new connect belongs to nobody yet.
LEMMA SocketAdds ==
    ASSUME CallInv, NEW key \in Keys, Entries' = Entries \cup {key},
           NewFd \in Fds, NewFd \notin connecting, key.socket_fd = NewFd,
           connecting' = connecting, \A d \in Coroutines : InConnect(d)' <=> InConnect(d),
           \A d \in Coroutines : InConnect(d) => co'[d] = co[d]
    PROVE  ConnectsOK' /\ OpenFds' = OpenFds \cup {NewFd}
<1>1. \A x \in Coroutines : InConnect(x) => co[x].fd \in connecting
  BY DEF CallInv, LinksOK, ConnectsOK
<1>2. connecting' = {co'[x].fd : x \in {y \in Coroutines : InConnect(y)'}}
  BY DEF CallInv, LinksOK, ConnectsOK
<1>3. ConnectsOK'
  BY <1>1, <1>2 DEF CallInv, LinksOK, ConnectsOK, InConnect
<1> QED BY <1>3 DEF OpenFds

LEMMA WaitingIsCo ==
    ASSUME NEW r \in CoRec, NEW seq \in 0 .. MaxSeq, NEW pdata \in Keys, NEW fd \in Fds
    PROVE  [r EXCEPT !.seq = seq, !.pdata = pdata, !.fd = fd,
                     !.m_state = "E_WAIT", !.loc = "connect"] \in CoRec
BY DEF CoRec, States, Locs

LEMMA CallConnectsKeeps ==
    ASSUME CallInv, NEW c \in Coroutines, NEW addr \in Addrs, CallConnects(c, addr)
    PROVE  CallInv'
<1> DEFINE key == [ip_port |-> addr, socket_fd |-> NewFd]
<1>1. /\ m_active = c /\ co[c].loc = "user" /\ lastSeq < MaxSeq /\ lastSeq' = lastSeq + 1
      /\ Find(AddrQuery(addr)) = {} /\ FdsLeft
  BY DEF CallConnects, At, Encode
<1>2. /\ NewFd \in Fds /\ NewFd \notin connecting
      /\ \A k \in Entries : k.socket_fd # NewFd
  BY <1>1, NewFdIsFree
<1>3. \A k \in Entries : k.ip_port # addr
  BY <1>1, FindAddrIsExact DEF CallInv, TableOK, FindAddrExact
<1>4. /\ key \in Keys /\ key.ip_port = addr /\ addr # NoAddr /\ key.socket_fd = NewFd
  BY <1>2, FdAssumption DEF Keys, NoAddr
<1>5. lastSeq' \in 1 .. MaxSeq
  BY <1>1, CallAssumption DEF CallInv, RunsOK
<1>6. co[c].m_state = "E_READY" /\ c # Main
  BY <1>1, RunningIsReady DEF CallInv
<1>7. PICK garbage \in {"IO_OK", "IO_ERR"} :
         LET begun == [co EXCEPT ![c].seq = lastSeq', ![c].pdata = key, ![c].fd = NewFd]
         IN  \/ /\ Put(key, [NewData("E_CONNECT", garbage) EXCEPT !.check = TRUE,
                                                                  !.context_id = c])
                /\ connecting' = connecting \cup {NewFd}
                /\ peer' = MapPut(peer, NewFd, NewConnection("connecting"))
                /\ epoll' = EpollAdd(NewFd, {"FD_READ", "FD_WRITE"})
                /\ co' = [begun EXCEPT ![c].m_state = "E_WAIT", ![c].loc = "connect"]
                /\ timers' = timers \cup {c}
                /\ m_active' = Main
                /\ UNCHANGED <<phase, batch>>
             \/ /\ Put(key, NewData("E_OTHER", garbage))
                /\ peer' = MapPut(peer, NewFd, NewConnection("established"))
                /\ co' = [begun EXCEPT ![c].loc = "link"]
                /\ UNCHANGED <<connecting, schedVars, epoll>>
             \/ /\ Put(key, NewData("E_OTHER", garbage))
                /\ peer' = MapPut(peer, NewFd, NewConnection("refused"))
                /\ UNCHANGED <<connecting, co, schedVars, epoll>>
  BY Zenon DEF CallConnects
<1>8. /\ \A r : DOMAIN MapPut(peer, NewFd, r) = DOMAIN peer \cup {NewFd}
      /\ DOMAIN EpollAdd(NewFd, {"FD_READ", "FD_WRITE"}) \subseteq DOMAIN epoll \cup {NewFd}
  BY EpollDomains DEF MapPut
<1> HIDE DEF key
<1>9. CASE /\ Put(key, [NewData("E_CONNECT", garbage) EXCEPT !.check = TRUE,
                                                             !.context_id = c])
           /\ connecting' = connecting \cup {NewFd}
           /\ peer' = MapPut(peer, NewFd, NewConnection("connecting"))
           /\ epoll' = EpollAdd(NewFd, {"FD_READ", "FD_WRITE"})
           /\ co' = [co EXCEPT ![c].seq = lastSeq', ![c].pdata = key, ![c].fd = NewFd,
                               ![c].m_state = "E_WAIT", ![c].loc = "connect"]
           /\ timers' = timers \cup {c}
           /\ m_active' = Main
           /\ batch' = batch
  <2> DEFINE d == [NewData("E_CONNECT", garbage) EXCEPT !.check = TRUE, !.context_id = c]
  <2>1. /\ d \in Data /\ d.fd_state = "E_CONNECT" /\ d.context_id = c
        /\ DOMAIN d.seq_to_coroutine = {}
    BY EmptyIsMap DEF NewData, Data
  <2>2. Put(key, d)
    BY <1>9
  <2> HIDE DEF d
  <2>3. /\ TableOK' /\ Entries' = Entries \cup {key} /\ m_fd_to_data'[key] = d
        /\ \A k \in Entries : m_fd_to_data'[k] = m_fd_to_data[k]
    BY <1>1, <1>2, <1>3, <1>4, <2>1, <2>2, PutAdds
  <2>4. /\ \A x \in Coroutines \ {c} : co'[x] = co[x]
        /\ co'[c].m_state = "E_WAIT" /\ co'[c].loc = "connect" /\ co'[c].seq = lastSeq'
        /\ co'[c].pdata = key /\ co'[c].fd = NewFd
    BY <1>9 DEF CallInv, CoRec
  <2>5. CoType'
    <3> DEFINE new == [co[c] EXCEPT !.seq = lastSeq', !.pdata = key, !.fd = NewFd,
                                    !.m_state = "E_WAIT", !.loc = "connect"]
    <3>1. co' = [co EXCEPT ![c] = new]
      BY <1>9 DEF CallInv, CoRec
    <3>2. co[c] \in CoRec /\ lastSeq' \in 0 .. MaxSeq
      BY <1>5 DEF CallInv
    <3>3. new \in CoRec
      BY <1>2, <1>4, <3>2, WaitingIsCo
    <3> HIDE DEF new
    <3> QED BY <3>1, <3>3 DEF CallInv, CoType
  <2>6. RunsOK'
    BY <1>1, <1>5, <1>6, <1>9, <2>4 DEF CallInv, RunsOK, Held
  <2>7. Begins(c) /\ \A x \in Coroutines : Begins(x) => x = c
    BY <1>1, <1>4, <2>3, <2>4 DEF Begins
  <2>8. PointersOK' /\ SeqsDiffer'
    BY <1>1, <2>3, <2>4, <2>6, <2>7, BeginKeeps
  <2>9. LinkedOK' /\ WaitersAreEntered' /\ ConnectWakesItsWaiter' /\ AnswersMatch'
    <3>1. \A k \in Entries' \ Entries :
             /\ DOMAIN m_fd_to_data'[k].seq_to_coroutine = {}
             /\ m_fd_to_data'[k].context_id = c
             /\ co'[c].loc = "connect" /\ co'[c].pdata = k
      BY <2>1, <2>3, <2>4
    <3> QED BY <2>3, <2>4, <2>7, <3>1, GrowthKeeps
  <2>10. ConnectsOK'
    <3>1. \A x \in Coroutines : InConnect(x) => co[x].fd \in connecting
      BY DEF CallInv, LinksOK, ConnectsOK
    <3>2. \A x \in Coroutines : /\ InConnect(x)' <=> x = c \/ InConnect(x)
                                /\ InConnect(x) => co'[x] = co[x] /\ x # c
      BY <1>1, <2>4 DEF InConnect
    <3>3. connecting' = {co'[x].fd : x \in {y \in Coroutines : InConnect(y)'}}
      BY <1>9, <2>4, <3>2 DEF CallInv, LinksOK, ConnectsOK
    <3>4. key # Dangling
      BY <1>4, KeysAreNotNull
    <3> QED BY <1>2, <1>4, <2>3, <2>4, <3>1, <3>2, <3>3, <3>4
            DEF CallInv, LinksOK, ConnectsOK, InConnect
  <2>11. DescriptorsOK'
    <3>1. OpenFds' = OpenFds \cup {NewFd}
      BY <1>4, <1>9, <2>3 DEF OpenFds
    <3> QED BY <1>8, <1>9, <3>1 DEF CallInv, DescriptorsOK
  <2> QED BY <2>3, <2>5, <2>6, <2>8, <2>9, <2>10, <2>11 DEF CallInv, LinksOK, CoType
<1> DEFINE d == NewData("E_OTHER", garbage)
<1>10. ASSUME Put(key, d), NEW status, peer' = MapPut(peer, NewFd, NewConnection(status)),
              UNCHANGED <<connecting, schedVars, epoll>>,
              \/ co' = co
              \/ co' = [co EXCEPT ![c].seq = lastSeq', ![c].pdata = key, ![c].fd = NewFd,
                                  ![c].loc = "link"]
       PROVE  CallInv'
  <2>1. /\ d \in Data /\ d.fd_state = "E_OTHER" /\ d.context_id = NoOne
        /\ DOMAIN d.seq_to_coroutine = {}
    BY NewDataIsData, EmptyIsMap
  <2> HIDE DEF d
  <2>2. UNCHANGED <<timers, m_active, batch, connecting, epoll>>
    BY <1>10 DEF schedVars
  <2>3. /\ TableOK' /\ Entries' = Entries \cup {key} /\ m_fd_to_data'[key] = d
        /\ \A k \in Entries : m_fd_to_data'[k] = m_fd_to_data[k]
    BY <1>1, <1>2, <1>3, <1>4, <1>10, <2>1, PutAdds
  <2>4. /\ \A x \in Coroutines \ {c} : co'[x] = co[x]
        /\ \/ co'[c] = co[c]
           \/ /\ co'[c].m_state = co[c].m_state /\ co'[c].loc = "link"
              /\ co'[c].seq = lastSeq' /\ co'[c].pdata = key /\ co'[c].fd = NewFd
    BY <1>10 DEF CallInv, CoRec
  <2>5. CoType'
    <3> DEFINE new == [co[c] EXCEPT !.loc = "link", !.seq = lastSeq', !.pdata = key,
                                    !.fd = NewFd]
    <3>1. co' = [co EXCEPT ![c] = new] \/ co' = co
      BY <1>10 DEF CallInv, CoRec
    <3>2. /\ co[c] \in CoRec /\ "link" \in Locs /\ lastSeq' \in 0 .. MaxSeq
          /\ key \in Keys \cup NoKeys /\ NewFd \in Fds \cup {NoFd}
      BY <1>2, <1>4, <1>5 DEF CallInv, Locs
    <3>3. new \in CoRec
      BY <3>2, BegunIsCo
    <3> HIDE DEF new
    <3> QED BY <3>1, <3>3 DEF CallInv, CoType
  <2>6. RunsOK'
    BY <1>1, <1>5, <1>6, <2>2, <2>4 DEF CallInv, RunsOK
  <2>7. /\ co'[c] = co[c] \/ Begins(c)
        /\ \A x \in Coroutines : Begins(x) => x = c
    BY <1>1, <1>4, <2>3, <2>4 DEF Begins
  <2>8. PointersOK' /\ SeqsDiffer'
    BY <1>1, <2>3, <2>4, <2>6, <2>7, BeginKeeps
  <2>9. LinkedOK' /\ WaitersAreEntered' /\ ConnectWakesItsWaiter' /\ AnswersMatch'
    BY <2>1, <2>3, <2>4, <2>7, GrowthKeeps
  <2>10. ConnectsOK' /\ OpenFds' = OpenFds \cup {NewFd}
    <3>1. \A x \in Coroutines : /\ InConnect(x)' <=> InConnect(x)
                                /\ InConnect(x) => co'[x] = co[x]
      BY <1>1, <2>4 DEF InConnect
    <3> QED BY <1>2, <1>4, <2>2, <2>3, <3>1, SocketAdds
  <2>11. DescriptorsOK'
    BY <1>8, <1>10, <2>2, <2>10 DEF CallInv, DescriptorsOK
  <2> QED BY <2>3, <2>5, <2>6, <2>8, <2>9, <2>10, <2>11 DEF CallInv, LinksOK, CoType
<1> QED
  <2>1. /\ [[co EXCEPT ![c].seq = lastSeq', ![c].pdata = key, ![c].fd = NewFd]
              EXCEPT ![c].m_state = "E_WAIT", ![c].loc = "connect"]
           = [co EXCEPT ![c].seq = lastSeq', ![c].pdata = key, ![c].fd = NewFd,
                        ![c].m_state = "E_WAIT", ![c].loc = "connect"]
        /\ [[co EXCEPT ![c].seq = lastSeq', ![c].pdata = key, ![c].fd = NewFd]
              EXCEPT ![c].loc = "link"]
           = [co EXCEPT ![c].seq = lastSeq', ![c].pdata = key, ![c].fd = NewFd,
                        ![c].loc = "link"]
    OBVIOUS
  <2> QED BY Zenon, <1>7, <1>9, <1>10, <2>1
-----------------------------------------------------------------------------
(* Destroyed entries: the calls that use one are left with a dangling      *)
(* pointer, except the one that destroys it, which ends.                   *)
Survives(c) ==
    /\ co'[c].loc = co[c].loc /\ co'[c].seq = co[c].seq /\ co'[c].fd = co[c].fd
    /\ co'[c].pdata = IF co[c].pdata \in Entries \ Entries' THEN Dangling ELSE co[c].pdata

Ends(c) == co'[c].loc = "user" /\ co'[c].pdata = NoData

LEMMA DangleSurvives ==
    ASSUME CoType
    PROVE  /\ Dangle(co) \in [Coroutines -> CoRec]
           /\ \A c \in Coroutines :
                 /\ Dangle(co)[c].m_state = co[c].m_state
                 /\ Dangle(co)[c].loc = co[c].loc
                 /\ Dangle(co)[c].seq = co[c].seq /\ Dangle(co)[c].fd = co[c].fd
                 /\ Dangle(co)[c].pdata = IF co[c].pdata \in Entries \ Entries'
                                          THEN Dangling ELSE co[c].pdata
<1>1. \A c \in Coroutines : [co[c] EXCEPT !.pdata = Dangling] \in CoRec
  BY DEF CoType, CoRec, NoKeys
<1>2. Dangle(co) \in [Coroutines -> CoRec]
  BY <1>1 DEF Dangle, CoType
<1>3. ASSUME NEW c \in Coroutines
      PROVE  Dangle(co)[c] = IF co[c].pdata \in Entries \ Entries'
                             THEN [co[c] EXCEPT !.pdata = Dangling] ELSE co[c]
  BY DEF Dangle
<1> QED BY <1>2, <1>3 DEF CoType, CoRec

\* Of entries that stay only the context_id may be reset.
FewerData ==
    /\ Entries' \subseteq Entries
    /\ m_fd_to_data' \in [Entries' -> Data]
    /\ \A k \in Entries' :
          /\ m_fd_to_data'[k].fd_state = m_fd_to_data[k].fd_state
          /\ m_fd_to_data'[k].last_op_ret = m_fd_to_data[k].last_op_ret
          /\ m_fd_to_data'[k].seq_to_coroutine = m_fd_to_data[k].seq_to_coroutine
          /\ m_fd_to_data'[k].context_id \in {m_fd_to_data[k].context_id, NoOne}

LEMMA RemoveKeeps ==
    ASSUME CallInv, FewerData, lastSeq' = lastSeq,
           \A c \in Coroutines : (Survives(c) /\ co[c].loc \notin Held) \/ Ends(c),
           \A c \in Coroutines : co[c].loc = "connect" /\ co[c].pdata \in Entries' =>
              Survives(c) \/ m_fd_to_data'[co[c].pdata].context_id = NoOne
    PROVE  /\ TableOK' /\ PointersOK' /\ SeqsDiffer' /\ LinkedOK'
           /\ WaitersAreEntered' /\ ConnectWakesItsWaiter' /\ AnswersMatch'
<1>1. Entries' \subseteq Entries /\ Dangling \notin Entries /\ NoData \notin Entries
  BY KeysAreNotNull DEF FewerData, CallInv, TableOK, KeysOK
<1>2. KeysOK'
  BY <1>1 DEF CallInv, TableOK, KeysOK, EntriesDistinct
<1>3. TableOK'
  BY <1>1, <1>2 DEF FewerData, CallInv, TableOK
<1>4. \A c \in Coroutines : co'[c].loc # "user" =>
          /\ co[c].loc = co'[c].loc /\ co[c].seq = co'[c].seq /\ co[c].fd = co'[c].fd
          /\ \/ co'[c].pdata = Dangling
             \/ co'[c].pdata = co[c].pdata /\ co[c].pdata \in Entries'
          /\ co[c].loc \notin Held
  BY <1>1 DEF Survives, Ends, CallInv, LinksOK, PointersOK
<1>5. \A c \in Coroutines : co'[c].loc = "user" => co'[c].pdata = NoData
  BY <1>1 DEF Survives, Ends, CallInv, LinksOK, PointersOK
<1>6. PointersOK'
  BY <1>1, <1>4, <1>5 DEF CallInv, LinksOK, PointersOK
<1>7. SeqsDiffer'
  BY <1>4 DEF CallInv, LinksOK, SeqsDiffer
<1>8. LinkedOK'
  BY <1>1, <1>4 DEF FewerData, CallInv, LinksOK, LinkedOK, Linked
<1>9. WaitersAreEntered'
  BY <1>1, <1>4 DEF FewerData, CallInv, LinksOK, WaitersAreEntered
<1>10. ConnectWakesItsWaiter'
  <2> SUFFICES ASSUME NEW k \in Entries', m_fd_to_data'[k].context_id # NoOne
               PROVE  \E c \in Coroutines : /\ c = m_fd_to_data'[k].context_id
                                           /\ co'[c].loc = "connect" /\ co'[c].pdata = k
    BY DEF ConnectWakesItsWaiter
  <2>1. k \in Entries /\ m_fd_to_data'[k].context_id = m_fd_to_data[k].context_id
    BY <1>1 DEF FewerData
  <2>2. PICK c \in Coroutines : /\ c = m_fd_to_data[k].context_id
                                /\ co[c].loc = "connect" /\ co[c].pdata = k
    BY <2>1 DEF CallInv, LinksOK, ConnectWakesItsWaiter
  <2>3. Survives(c)
    BY <2>2
  <2> QED BY <1>1, <2>1, <2>2, <2>3 DEF Survives
<1>11. AnswersMatch'
  BY <1>1 DEF FewerData, CallInv, LinksOK, AnswersMatch
<1> QED BY <1>3, <1>6, <1>7, <1>8, <1>9, <1>10, <1>11

\* A suspended connect keeps its pointer, or nothing of its socket is left.
LEMMA SurvivorsConnect ==
    ASSUME CallInv, Entries' \subseteq Entries, NEW c \in Coroutines, Survives(c), InConnect(c)
    PROVE  \/ co'[c].pdata = co[c].pdata
           \/ \A k \in Entries' : k.socket_fd # co[c].fd
<1>1. CASE co[c].pdata \in Entries \ Entries'
  <2>1. co[c].pdata.socket_fd = co[c].fd
    BY <1>1 DEF CallInv, LinksOK, PointersOK, InConnect
  <2>2. \A k \in Entries' : k.socket_fd # co[c].pdata.socket_fd
    BY <1>1 DEF CallInv, TableOK, KeysOK, EntriesDistinct
  <2> QED BY <2>1, <2>2
<1>2. CASE co[c].pdata \notin Entries \ Entries'
  BY <1>2 DEF Survives
<1> QED BY <1>1, <1>2

LEMMA KeepOpenDomain == ASSUME NEW f PROVE DOMAIN KeepOpen(f) \subseteq OpenFds'
BY DEF KeepOpen

(* A connect that failed, or timed out with a bad last_op_ret.             *)
LEMMA ConnectFailsKeeps ==
    ASSUME CallInv, NEW c \in Coroutines, ConnectFails(c)
    PROVE  CallInv'
<1> DEFINE k == co[c].pdata
           left == [m_fd_to_data EXCEPT ![k].context_id = NoOne]
           found == Find(FdQuery(co[c].fd))
<1>1. /\ m_active = c /\ co[c].loc = "connect" /\ k # Dangling
      /\ m_fd_to_data' = [x \in Entries \ found |-> left[x]]
      /\ connecting' = connecting \ {co[c].fd}
      /\ epoll' = KeepOpen(EpollDel(co[c].fd)) /\ peer' = KeepOpen(peer)
      /\ co' = [Dangle(co) EXCEPT ![c] = NewCo("E_READY")]
      /\ timers' = timers /\ m_active' = m_active /\ batch' = batch /\ lastSeq' = lastSeq
  BY DEF ConnectFails, At, schedVars
<1>2. k \in Entries
  BY <1>1 DEF CallInv, LinksOK, PointersOK
<1>3. /\ left \in [Entries -> Data]
      /\ \A x \in Entries : /\ left[x].fd_state = m_fd_to_data[x].fd_state
                            /\ left[x].last_op_ret = m_fd_to_data[x].last_op_ret
                            /\ left[x].seq_to_coroutine = m_fd_to_data[x].seq_to_coroutine
                            /\ left[x].context_id \in {m_fd_to_data[x].context_id, NoOne}
      /\ left[k].context_id = NoOne
  BY <1>2 DEF CallInv, TableOK, Data
<1> HIDE DEF left, found
<1>4. Entries' = Entries \ found
  BY <1>1 DEF Entries
<1>5. FewerData
  BY <1>1, <1>3, <1>4 DEF FewerData
<1>6. /\ NewCo("E_READY") \in CoRec
      /\ NewCo("E_READY").m_state = "E_READY"
      /\ NewCo("E_READY").loc = "user" /\ NewCo("E_READY").pdata = NoData
  BY NewCoIsNew DEF States
<1>7. /\ Dangle(co) \in [Coroutines -> CoRec]
      /\ \A d \in Coroutines :
            /\ Dangle(co)[d].m_state = co[d].m_state
            /\ Dangle(co)[d].loc = co[d].loc
            /\ Dangle(co)[d].seq = co[d].seq /\ Dangle(co)[d].fd = co[d].fd
            /\ Dangle(co)[d].pdata = IF co[d].pdata \in Entries \ Entries'
                                     THEN Dangling ELSE co[d].pdata
  BY DangleSurvives DEF CallInv, CoType
<1>8. CoType'
  BY <1>1, <1>6, <1>7 DEF CoType
<1>9. /\ \A d \in Coroutines \ {c} : co'[d].m_state = co[d].m_state /\ Survives(d)
      /\ co'[c] = NewCo("E_READY")
  BY <1>1, <1>7 DEF Survives
<1>10. co[c].m_state = "E_READY"
  BY <1>1, RunningIsReady DEF CallInv
<1>11. RunsOK'
  <2>1. /\ \A d \in Coroutines \ {c} : co'[d].m_state = co[d].m_state /\ co'[d].loc = co[d].loc
        /\ co'[c].m_state = co[c].m_state /\ co'[c].loc = "user"
    BY <1>6, <1>9, <1>10 DEF Survives
  <2> QED BY <1>1, <1>10, <2>1 DEF CallInv, RunsOK, Held
<1>12. \A d \in Coroutines : (Survives(d) /\ co[d].loc \notin Held) \/ Ends(d)
  BY <1>1, <1>6, <1>9 DEF CallInv, RunsOK, Ends
<1>13. \A d \in Coroutines : co[d].loc = "connect" /\ co[d].pdata \in Entries' =>
          Survives(d) \/ m_fd_to_data'[co[d].pdata].context_id = NoOne
  BY <1>1, <1>3, <1>4, <1>9 DEF k
<1>14. /\ TableOK' /\ PointersOK' /\ SeqsDiffer' /\ LinkedOK'
       /\ WaitersAreEntered' /\ ConnectWakesItsWaiter' /\ AnswersMatch'
  BY <1>1, <1>5, <1>12, <1>13, RemoveKeeps
<1>15. ConnectsOK'
  <2>1. InConnect(c) /\ ~ InConnect(c)'
    BY <1>1, <1>6, <1>9 DEF InConnect
  <2>2. \A d \in Coroutines \ {c} : co'[d].loc = co[d].loc /\ co'[d].fd = co[d].fd
    BY <1>9 DEF Survives
  <2>3. \A d \in Coroutines \ {c} :
           InConnect(d) => \/ co'[d].pdata = co[d].pdata
                           \/ \A x \in Entries' : x.socket_fd # co[d].fd
    BY <1>4, <1>9, SurvivorsConnect
  <2> QED BY <1>1, <1>4, <2>1, <2>2, <2>3, LeavesConnect DEF CallInv, LinksOK
<1>16. DescriptorsOK'
  BY <1>1, KeepOpenDomain DEF CallInv, DescriptorsOK
<1> QED BY <1>8, <1>11, <1>14, <1>15, <1>16 DEF CallInv, LinksOK, CoType

(* DelFd by the event loop: no call is on its way there.                   *)
LEMMA EventClosedKeeps ==
    ASSUME CallInv, NEW fd \in Fds, NEW k, EventClosed(fd, k)
    PROVE  CallInv'
<1>1. /\ m_active = Main /\ m_active' = m_active /\ lastSeq' = lastSeq
      /\ batch' \subseteq batch /\ connecting' = connecting
      /\ m_fd_to_data' = [x \in Entries \ Find(FdQuery(fd)) |-> m_fd_to_data[x]]
      /\ timers' = timers \ {fd} /\ co' = Dangle(co)
      /\ epoll' = KeepOpen(EpollDel(fd)) /\ peer' = KeepOpen(peer)
  BY DEF EventClosed, EventOf, Event, InMain, Destroy
<1>2. Entries' = Entries \ Find(FdQuery(fd))
  BY <1>1 DEF Entries
<1>3. FewerData
  BY <1>1, <1>2 DEF FewerData, CallInv, TableOK
<1>4. /\ Dangle(co) \in [Coroutines -> CoRec]
      /\ \A d \in Coroutines :
            /\ Dangle(co)[d].m_state = co[d].m_state
            /\ Dangle(co)[d].loc = co[d].loc
            /\ Dangle(co)[d].seq = co[d].seq /\ Dangle(co)[d].fd = co[d].fd
            /\ Dangle(co)[d].pdata = IF co[d].pdata \in Entries \ Entries'
                                     THEN Dangling ELSE co[d].pdata
  BY DangleSurvives DEF CallInv, CoType
<1>5. CoType' /\ \A d \in Coroutines : co'[d].m_state = co[d].m_state /\ Survives(d)
  BY <1>1, <1>4 DEF CoType, Survives
<1>6. RunsOK'
  BY <1>1, <1>5 DEF CallInv, RunsOK, Survives
<1>7. \A d \in Coroutines : co[d].loc \notin Held
  BY <1>1, CallAssumption DEF CallInv, RunsOK, Main
<1>8. /\ TableOK' /\ PointersOK' /\ SeqsDiffer' /\ LinkedOK'
      /\ WaitersAreEntered' /\ ConnectWakesItsWaiter' /\ AnswersMatch'
  BY <1>1, <1>3, <1>5, <1>7, RemoveKeeps
<1>9. ConnectsOK'
  <2>1. \A d \in Coroutines : /\ InConnect(d)' <=> InConnect(d)
                              /\ co'[d].fd = co[d].fd
    BY <1>5 DEF InConnect, Survives
  <2>2. \A d \in Coroutines :
           InConnect(d) => \/ co'[d].pdata = co[d].pdata
                           \/ \A x \in Entries' : x.socket_fd # co[d].fd
    BY <1>2, <1>5, SurvivorsConnect
  <2>3. connecting' = {co'[d].fd : d \in {x \in Coroutines : InConnect(x)'}}
    BY <1>1, <2>1 DEF CallInv, LinksOK, ConnectsOK
  <2> QED BY <1>2, <2>1, <2>2, <2>3 DEF CallInv, LinksOK, ConnectsOK, InConnect
<1>10. DescriptorsOK'
  BY <1>1, KeepOpenDomain DEF CallInv, DescriptorsOK
<1> QED BY <1>5, <1>6, <1>8, <1>9, <1>10 DEF CallInv, LinksOK, CoType

(* A call that resumes with a dangling pointer ends.                       *)
LEMMA UseDestroyedKeeps ==
    ASSUME CallInv, NEW c \in Coroutines, UseDestroyed(c)
    PROVE  CallInv'
<1>1. /\ m_active = c /\ co[c].loc \in {"connect", "recv"} /\ co[c].pdata = Dangling
      /\ connecting' = IF co[c].loc = "connect" THEN connecting \ {co[c].fd} ELSE connecting
      /\ m_fd_to_data' = m_fd_to_data /\ peer' = KeepOpen(peer)
      /\ CallEnds(c) /\ lastSeq' = lastSeq /\ batch' = batch
  BY DEF UseDestroyed, At, CallEnds, schedVars
<1>2. DOMAIN epoll' \subseteq OpenFds' /\ DOMAIN peer' \subseteq OpenFds'
  BY <1>1, KeepOpenDomain DEF UseDestroyed
<1>3. /\ CoType' /\ RunsOK'
      /\ \A d \in Coroutines \ {c} : co'[d] = co[d]
      /\ co'[c].loc = "user" /\ co'[c].pdata = NoData
  BY <1>1, EndsRuns DEF CallInv, CoType
<1>4. Entries' = Entries
  BY <1>1 DEF Entries
<1>5. FewerData
  BY <1>1, <1>4 DEF FewerData, CallInv, TableOK
<1>6. \A d \in Coroutines : (Survives(d) /\ co[d].loc \notin Held) \/ Ends(d)
  BY <1>1, <1>3, <1>4 DEF Survives, Ends, CallInv, RunsOK
<1>7. Dangling \notin Entries
  BY KeysAreNotNull DEF CallInv, TableOK, KeysOK
<1>8. /\ TableOK' /\ PointersOK' /\ SeqsDiffer' /\ LinkedOK'
      /\ WaitersAreEntered' /\ ConnectWakesItsWaiter' /\ AnswersMatch'
  <2>1. \A d \in Coroutines \ {c} : Survives(d)
    BY <1>3, <1>4 DEF Survives
  <2> QED BY <1>1, <1>4, <1>5, <1>6, <1>7, <2>1, RemoveKeeps
<1>9. ConnectsOK'
  <2>1. CASE co[c].loc = "connect"
    <3>1. InConnect(c) /\ ~ InConnect(c)'
      BY <1>3, <2>1 DEF InConnect
    <3> QED BY <1>1, <1>3, <1>4, <2>1, <3>1, LeavesConnect DEF CallInv, LinksOK
  <2>2. CASE co[c].loc = "recv"
    <3>1. \A d \in Coroutines : /\ InConnect(d)' <=> InConnect(d)
                                /\ InConnect(d) => co'[d] = co[d]
      BY <1>3, <2>2 DEF InConnect
    <3>2. connecting' = {co'[d].fd : d \in {x \in Coroutines : InConnect(x)'}}
      BY <1>1, <2>2, <3>1 DEF CallInv, LinksOK, ConnectsOK
    <3> QED BY <1>4, <3>1, <3>2 DEF CallInv, LinksOK, ConnectsOK, InConnect
  <2> QED BY <1>1, <2>1, <2>2
<1>10. DescriptorsOK'
  BY <1>1, <1>2 DEF CallInv, DescriptorsOK
<1> QED BY <1>3, <1>8, <1>9, <1>10 DEF CallInv, LinksOK, CoType
-----------------------------------------------------------------------------
LEMMA CallInvInit == CallInit => CallInv
<1> SUFFICES ASSUME CallInit PROVE CallInv
  OBVIOUS
<1> DEFINE key == FdQuery(ListenFd)
           d   == NewData("E_LISTEN", "IO_OK")
<1>1. /\ key \in Keys /\ key.ip_port = NoAddr /\ key.socket_fd = ListenFd
      /\ NoAddr \notin Addrs
  BY FdAssumption DEF FdQuery, Keys, Fds, NoAddr
<1>2. /\ d \in Data /\ d.fd_state = "E_LISTEN" /\ d.context_id = NoOne
      /\ DOMAIN d.seq_to_coroutine = {}
  BY NewDataIsData, EmptyIsMap
<1>3. m_fd_to_data = [k \in {key} |-> d]
  BY DEF CallInit
<1> HIDE DEF key, d
<1>4. Entries = {key} /\ m_fd_to_data[key] = d
  BY <1>3 DEF Entries
<1>5. /\ NewCo("none") \in CoRec /\ NewCo("none").m_state = "none"
      /\ NewCo("none").loc = "user" /\ NewCo("none").pdata = NoData
  BY NewCoIsNew DEF States
<1>6. co = [c \in Coroutines |-> NewCo("none")]
  BY DEF CallInit
<1>7. CoType
  BY <1>5, <1>6 DEF CoType
<1>8. \A c \in Coroutines : /\ co[c].m_state = "none" /\ co[c].loc = "user"
                            /\ co[c].pdata = NoData
  BY <1>5, <1>6
<1>9. TableOK
  BY <1>1, <1>2, <1>3, <1>4 DEF TableOK, KeysOK, EntriesDistinct
<1>10. RunsOK
  BY <1>8, CallAssumption DEF CallInit, RunsOK, Main, Held
<1>11. PointersOK /\ SeqsDiffer /\ LinkedOK /\ WaitersAreEntered
  BY <1>8 DEF PointersOK, SeqsDiffer, LinkedOK, WaitersAreEntered, Linked
<1>12. ConnectsOK
  BY <1>8 DEF CallInit, ConnectsOK, InConnect
<1>13. ConnectWakesItsWaiter /\ AnswersMatch
  BY <1>2, <1>4 DEF ConnectWakesItsWaiter, AnswersMatch
<1>14. DescriptorsOK
  <2>1. DOMAIN epoll = {ListenFd} /\ DOMAIN peer = {} /\ batch = {}
    BY EmptyIsMap DEF CallInit
  <2>2. ListenFd \in OpenFds
    BY <1>1, <1>4 DEF OpenFds
  <2> QED BY <2>1, <2>2 DEF DescriptorsOK
<1> QED BY <1>7, <1>9, <1>10, <1>11, <1>12, <1>13, <1>14 DEF CallInv, LinksOK, CoType

LEMMA CoroutineStepKeeps ==
    ASSUME CallInv, NEW c \in Coroutines, CoroutineStep(c) \/ RunOnceExpired(c)
    PROVE  CallInv'
<1>1. CASE \E addr \in Addrs : \/ CallReuses(c, addr)
                               \/ CallConnects(c, addr)
                               \/ CallGetsNoSocket(c, addr)
  BY <1>1, CallReusesKeeps, CallConnectsKeeps, CallGetsNoSocketKeeps
<1>2. CASE ConnectSucceeds(c) \/ ConnectFails(c) \/ Link(c)
  BY <1>2, ConnectSucceedsKeeps, ConnectFailsKeeps, LinkKeeps
<1>3. CASE SendAll(c) \/ SendBlocks(c) \/ SendFails(c) \/ SendGoesOn(c)
  BY <1>3, SendAllKeeps, SendBlocksKeeps, SendFailsKeeps, SendGoesOnKeeps
<1>4. CASE Listen(c) \/ TakeAnswer(c) \/ GiveUp(c) \/ UseDestroyed(c)
  BY <1>4, ListenKeeps, TakeAnswerKeeps, GiveUpKeeps, UseDestroyedKeeps
<1>5. CASE Sleep(c) \/ Return(c) \/ RunOnceExpired(c)
  BY <1>5, SleepKeeps, ReturnKeeps, RunOnceExpiredKeeps
<1> QED BY <1>1, <1>2, <1>3, <1>4, <1>5 DEF CoroutineStep

LEMMA MainStepKeeps ==
    ASSUME CallInv, MainStep
    PROVE  CallInv'
<1>1. CASE EpollWait \/ RunOnceReturns \/ ScheduleAllDone
  BY <1>1, MainTurnsKeep
<1>2. CASE ScheduleAllRuns
  BY <1>2, ScheduleAllRunsKeeps
<1>3. ASSUME NEW fd \in Fds, EventStep(fd)
      PROVE  CallInv'
  <2>1. CASE EventUnknown(fd)
    BY <2>1, EventUnknownKeeps
  <2>2. ASSUME NEW k \in Entries,
               \/ EventConnect(fd, k) \/ EventAccept(fd, k) \/ EventRequest(fd, k)
               \/ EventClosed(fd, k) \/ EventAnswer(fd, k) \/ EventIgnored(fd, k)
        PROVE  CallInv'
    BY <2>2, EventConnectKeeps, EventAcceptKeeps, EventRequestKeeps, EventClosedKeeps,
       EventAnswerKeeps, EventIgnoredKeeps
  <2> QED BY <1>3, <2>1, <2>2 DEF EventStep
<1> QED BY <1>1, <1>2, <1>3 DEF MainStep

LEMMA CallInvStep == CallInv /\ [CallNext]_callVars => CallInv'
<1> SUFFICES ASSUME CallInv, [CallNext]_callVars
             PROVE  CallInv'
  OBVIOUS
<1>1. CASE MainStep
  BY <1>1, MainStepKeeps
<1>2. CASE \E c \in Coroutines : CoroutineStep(c) \/ RunOnceExpired(c)
  BY <1>2, CoroutineStepKeeps
<1>3. CASE Peer
  BY <1>3, PeerKeeps
<1>4. CASE UNCHANGED callVars
  BY <1>4, StutterKeeps
<1> QED BY <1>1, <1>2, <1>3, <1>4 DEF CallNext

(***************************************************************************)
(* The inductive invariant of the calls to back ends: what each suspended  *)
(* call holds (a request number of its own, a pointer into the table, the  *)
(* socket of its connect) and what the table says of it, through every     *)
(* timeout, event and destroyed connection.                                *)
(***************************************************************************)
THEOREM CallInvariant == CallSpec => []CallInv
BY CallInvInit, CallInvStep, PTL DEF CallSpec

(***************************************************************************)
(* Only entries of connections that exist are in the table, in epoll and   *)
(* in the hands of suspended connects, and the coroutine that runs is      *)
(* ready, for any number of coroutines, addresses and descriptors.         *)
(***************************************************************************)
THEOREM CallTypeCorrect == CallSpec => []CallTypeOK
<1>1. ASSUME CallInv
      PROVE  CallTypeOK
  <2>1. CoType /\ TableOK /\ RunsOK /\ PointersOK /\ ConnectsOK /\ DescriptorsOK
    BY <1>1 DEF CallInv, LinksOK, CoType
  <2>2. Entries \subseteq Keys
    BY <2>1 DEF TableOK, KeysOK
  <2>3. \A k \in Entries :
          LET d == m_fd_to_data[k] IN
          /\ d.fd_state \in {"E_LISTEN", "E_SERVER_CONN", "E_OTHER", "E_CONNECT"}
          /\ d.context_id \in Coroutines \cup {NoOne}
          /\ d.last_op_ret \in {"IO_OK", "IO_ERR"}
          /\ d.check \in BOOLEAN
          /\ DOMAIN d.seq_to_coroutine \subseteq 1 .. lastSeq
    BY <2>1 DEF TableOK, Data
  <2>4. connecting = {co[c].fd : c \in {x \in Coroutines : co[x].loc \in {"connect", "connected"}}}
    BY <2>1 DEF ConnectsOK, InConnect
  <2>5. \A c \in Coroutines :
          /\ co[c].m_state \in {"none", "E_READY", "E_WAIT", "E_END"}
          /\ co[c].loc \in Locs
          /\ co[c].pdata \in Entries \cup {NoData, Dangling}
    BY <2>1 DEF CoType, CoRec, States, PointersOK
  <2> QED BY <2>1, <2>2, <2>3, <2>4, <2>5 DEF CallTypeOK, RunsOK, DescriptorsOK
<1> QED BY <1>1, CallInvariant, PTL

(***************************************************************************)
(* Answers may come in any order and after any timeout: none is put into   *)
(* the record of another request.                                          *)
(***************************************************************************)
THEOREM AnswersNeverCross == CallSpec => []AnswersMatch
BY CallInvariant, PTL DEF CallInv, LinksOK

(***************************************************************************)
(* A call that goes on with a connection that exists finds its request     *)
(* there, under its own id: find(seq) does not return end().               *)
(***************************************************************************)
THEOREM EveryWaiterIsEntered == CallSpec => []WaitersAreEntered
BY CallInvariant, PTL DEF CallInv, LinksOK

(***************************************************************************)
(* Whoever times out, leaves an entry behind or takes one over: a connect  *)
(* event readies the coroutine suspended in this connect, or only main.    *)
(***************************************************************************)
THEOREM ConnectsWakeTheirWaiters == CallSpec => []ConnectWakesItsWaiter
BY CallInvariant, PTL DEF CallInv, LinksOK
-----------------------------------------------------------------------------
(* Which steps remove entries.                                             *)
LEMMA EntriesStay ==
    ASSUME [CallNext]_callVars,
           \A c \in Coroutines : ~ ConnectFails(c),
           \A fd \in Fds, k \in Entries : ~ EventClosed(fd, k)
    PROVE  Entries \subseteq Entries'
<1>1. ASSUME NEW key, NEW d, Put(key, d)
      PROVE  Entries \subseteq Entries'
  BY <1>1 DEF Put, Entries
<1>2. CASE MainStep
  <2>1. CASE \E fd \in Fds : EventStep(fd)
    BY <1>1, <2>1 DEF EventStep, EventUnknown, EventConnect, EventAccept, EventRequest,
       EventAnswer, EventIgnored, fdVars, Entries
  <2>2. CASE EpollWait \/ RunOnceReturns \/ ScheduleAllRuns \/ ScheduleAllDone
    BY <2>2 DEF EpollWait, RunOnceReturns, ScheduleAllRuns, ScheduleAllDone, fdVars, Entries
  <2> QED BY <1>2, <2>1, <2>2 DEF MainStep
<1>3. ASSUME NEW c \in Coroutines, CoroutineStep(c) \/ RunOnceExpired(c)
      PROVE  Entries \subseteq Entries'
  <2>1. CASE \E addr \in Addrs : CallConnects(c, addr)
    BY <1>1, <2>1 DEF CallConnects
  <2>2. CASE ConnectSucceeds(c) \/ Link(c) \/ TakeAnswer(c)
    BY <2>2 DEF ConnectSucceeds, Link, TakeAnswer, Entries
  <2>3. CASE \/ \E addr \in Addrs : CallReuses(c, addr) \/ CallGetsNoSocket(c, addr)
             \/ SendAll(c) \/ SendBlocks(c) \/ SendFails(c) \/ SendGoesOn(c)
             \/ Listen(c) \/ GiveUp(c) \/ UseDestroyed(c)
             \/ Sleep(c) \/ Return(c) \/ RunOnceExpired(c)
    BY <2>3 DEF CallReuses, CallGetsNoSocket, SendAll, SendBlocks, SendFails, SendGoesOn,
       Listen, GiveUp, UseDestroyed, Sleep, Return, RunOnceExpired, fdVars, Entries
  <2> QED BY <1>3, <2>1, <2>2, <2>3 DEF CoroutineStep
<1>4. CASE Peer \/ UNCHANGED callVars
  BY <1>4 DEF Peer, callVars, fdVars, Entries
<1> QED BY <1>2, <1>3, <1>4 DEF CallNext

(***************************************************************************)
(* A connect that fails destroys no entry another call uses, as such a     *)
(* call has set last_op_ret to IO_OK; the event loop destroys one only     *)
(* when the peer closed or refused it.                                     *)
(***************************************************************************)
THEOREM LiveConnectionsAreKept == CallSpec => LiveConnectionsStay
<1>1. ASSUME CallInv, [CallNext]_callVars, NEW d \in Coroutines,
             co[d].pdata \in Entries \ Entries', co[d].loc \notin {"connect", "connected"}
      PROVE  peer[co[d].fd].status \in {"closed", "refused"}
  <2>1. /\ co[d].pdata \in Entries /\ co[d].pdata \notin Entries'
        /\ co[d].pdata.socket_fd = co[d].fd /\ co[d].pdata.ip_port # NoAddr
        /\ co[d].loc \in Linked \/ (co[d].loc = "link" /\ m_active = d)
    <3>1. NoData \notin Entries
      BY <1>1, KeysAreNotNull DEF CallInv, TableOK, KeysOK
    <3>2. co[d].loc \in Locs
      BY <1>1 DEF CallInv, CoRec
    <3> QED BY <1>1, <3>1, <3>2 DEF CallInv, LinksOK, PointersOK, RunsOK, Linked, Held, Locs
  <2>2. ASSUME NEW fd \in Fds, NEW k \in Find(FdQuery(fd))
        PROVE  k.socket_fd = fd /\ k \in Entries
    BY <1>1, FindFdIsSound DEF CallInv, TableOK, KeysOK, FindFdSound, Find
  <2>3. \A a, b \in Entries : a.socket_fd = b.socket_fd => a = b
    BY <1>1 DEF CallInv, TableOK, KeysOK, EntriesDistinct
  <2>4. ASSUME NEW c \in Coroutines, ConnectFails(c)
        PROVE  FALSE
    <3>1. /\ m_active = c /\ co[c].loc = "connect" /\ co[c].pdata # Dangling
          /\ m_fd_to_data[co[c].pdata].last_op_ret # "IO_OK"
          /\ Entries' = Entries \ Find(FdQuery(co[c].fd))
      BY <2>4 DEF ConnectFails, At, Entries
    <3>2. co[c].pdata \in Entries /\ co[c].pdata.socket_fd = co[c].fd /\ co[c].fd \in Fds
      BY <1>1, <3>1 DEF CallInv, LinksOK, PointersOK, ConnectsOK, InConnect
    <3>3. co[d].pdata = co[c].pdata
      BY <2>1, <2>2, <2>3, <3>1, <3>2
    <3>4. co[d].loc \in Linked
      BY <2>1, <3>1
    <3> QED BY <1>1, <2>1, <3>1, <3>3, <3>4 DEF CallInv, LinksOK, LinkedOK
  <2>5. PICK fd \in Fds, k \in Entries : EventClosed(fd, k)
    BY <1>1, <2>1, <2>4, EntriesStay
  <2>6. Entries' = Entries \ Find(FdQuery(fd)) /\ k \in Find(FdQuery(fd))
    BY <2>5 DEF EventClosed, EventOf, Destroy, Entries
  <2>7. co[d].pdata = k /\ co[d].fd = fd
    BY <2>1, <2>2, <2>3, <2>6
  <2>8. m_fd_to_data[k].fd_state # "E_SERVER_CONN"
    BY <1>1, <2>1, <2>7 DEF CallInv, TableOK
  <2> QED BY <2>5, <2>7, <2>8 DEF EventClosed
<1>2. CallInv /\ [CallNext]_callVars =>
         [\A c \in Coroutines :
            /\ co[c].pdata \in Entries \ Entries'
            /\ co[c].loc \notin {"connect", "connected"}
            => peer[co[c].fd].status \in {"closed", "refused"}]_callVars
  BY <1>1
<1> QED BY <1>2, CallInvariant, PTL DEF CallSpec, LiveConnectionsStay
-----------------------------------------------------------------------------
(* The table of FdMgr, of which only the keys and the states are seen.     *)

LEMMA TableEntries == Table!Entries = Entries /\ Table!Entries' = Entries'
BY DEF Table!Entries, Entries

LEMMA TableFind == ASSUME NEW q PROVE Table!Find(q) = Find(q)
BY TableEntries DEF Table!Find, Find, Table!KeyLess, KeyLess, Table!NoAddr, NoAddr,
   Table!NoFd, NoFd

LEMMA TableQueries ==
    /\ \A fd : Table!FdQuery(fd) = FdQuery(fd)
    /\ \A addr : Table!AddrQuery(addr) = AddrQuery(addr)
BY DEF Table!FdQuery, FdQuery, Table!AddrQuery, AddrQuery, Table!NoAddr, NoAddr,
   Table!NoFd, NoFd

LEMMA TableFds == /\ Table!Fds = Fds /\ Table!OpenFds = OpenFds
                  /\ Table!FdsLeft <=> FdsLeft
                  /\ Table!NewFd = NewFd
<1>1. Table!Fds = Fds
  BY DEF Table!Fds, Fds
<1>2. Table!OpenFds = OpenFds
  BY TableEntries DEF Table!OpenFds, OpenFds
<1>3. Table!FdsLeft <=> FdsLeft
  BY <1>1, <1>2 DEF Table!FdsLeft, FdsLeft
<1>4. Table!NewFd = NewFd
  BY <1>1, <1>2 DEF Table!NewFd, NewFd, Table!Min, Min
<1> QED BY <1>1, <1>2, <1>3, <1>4

\* Steps that keep the keys and the states, that add a key, and that destroy.
LEMMA TableSame ==
    ASSUME Entries' = Entries, connecting' = connecting,
           \A k \in Entries : m_fd_to_data'[k].fd_state = m_fd_to_data[k].fd_state
    PROVE  UNCHANGED Table!fdVars
BY DEF Table!fdVars

LEMMA TablePut ==
    ASSUME NEW key, NEW s, Find(key) = {}, Entries' = Entries \cup {key}, key \notin Entries,
           m_fd_to_data'[key].fd_state = s,
           \A k \in Entries : m_fd_to_data'[k].fd_state = m_fd_to_data[k].fd_state
    PROVE  Table!Put(key, s)
<1>1. [k \in Entries' |-> m_fd_to_data'[k].fd_state]
        = [k \in Entries \cup {key} |-> IF k = key THEN s
             ELSE [x \in Entries |-> m_fd_to_data[x].fd_state][k]]
  OBVIOUS
<1> QED BY <1>1, TableFind, TableEntries DEF Table!Put

LEMMA TableDestroy ==
    ASSUME NEW fd, Entries' = Entries \ Find(FdQuery(fd)),
           \A k \in Entries' : m_fd_to_data'[k].fd_state = m_fd_to_data[k].fd_state
    PROVE  Table!Destroy(fd)
<1>1. [k \in Entries' |-> m_fd_to_data'[k].fd_state]
        = [k \in Entries \ Find(FdQuery(fd)) |-> [x \in Entries |-> m_fd_to_data[x].fd_state][k]]
  OBVIOUS
<1> QED BY <1>1, TableFind, TableEntries, TableQueries DEF Table!Destroy

LEMMA NoTableStep ==
    ASSUME CallInv, m_fd_to_data' = m_fd_to_data, connecting' = connecting
    PROVE  UNCHANGED Table!fdVars
BY TableSame DEF Entries

LEMMA ConnectIsTableStep ==
    ASSUME CallInv, NEW c \in Coroutines, NEW addr \in Addrs, CallConnects(c, addr)
    PROVE  Table!Connect(addr)
<1> DEFINE key == [ip_port |-> addr, socket_fd |-> NewFd]
<1>1. Find(AddrQuery(addr)) = {} /\ FdsLeft
  BY DEF CallConnects
<1>2. NewFd \in Fds /\ \A k \in Entries : k.socket_fd # NewFd
  BY <1>1, NewFdIsFree
<1>3. \A k \in Entries : k.ip_port # addr
  BY <1>1, FindAddrIsExact DEF CallInv, TableOK, FindAddrExact
<1>4. key \in Keys /\ key.ip_port = addr /\ key.socket_fd = NewFd
  BY <1>2 DEF Keys
<1>5. \E d : /\ Put(key, d)
             /\ \/ d.fd_state = "E_CONNECT" /\ connecting' = connecting \cup {NewFd}
                \/ d.fd_state = "E_OTHER" /\ connecting' = connecting
  <2>1. \A s, garbage : /\ NewData(s, garbage).fd_state = s
                        /\ [NewData(s, garbage) EXCEPT !.check = TRUE, !.context_id = c].fd_state = s
    BY DEF NewData
  <2> QED BY <2>1 DEF CallConnects
<1> HIDE DEF key
<1>6. PICK d : /\ Put(key, d)
               /\ \/ d.fd_state = "E_CONNECT" /\ connecting' = connecting \cup {NewFd}
                  \/ d.fd_state = "E_OTHER" /\ connecting' = connecting
  BY <1>5
<1>7. Find(key) = {}
  BY <1>2, <1>3, <1>4, NewKeyMisses DEF CallInv, TableOK, KeysOK
<1>8. /\ Entries' = Entries \cup {key} /\ m_fd_to_data'[key] = d /\ key \notin Entries
      /\ \A k \in Entries : m_fd_to_data'[k].fd_state = m_fd_to_data[k].fd_state
  BY <1>2, <1>4, <1>6, <1>7 DEF Put, Entries
<1>9. Table!Put(key, d.fd_state)
  BY <1>7, <1>8, TablePut
<1>10. \/ Table!Put(key, "E_CONNECT") /\ connecting' = connecting \cup {NewFd}
       \/ Table!Put(key, "E_OTHER") /\ UNCHANGED connecting
  BY <1>6, <1>9
<1> QED BY <1>1, <1>10, TableFind, TableQueries, TableFds DEF Table!Connect, key

LEMMA AcceptIsTableStep ==
    ASSUME CallInv, NEW fd \in Fds, NEW k, EventAccept(fd, k)
    PROVE  Table!Accept \/ UNCHANGED Table!fdVars
<1> DEFINE key == FdQuery(NewFd)
           d   == NewData("E_SERVER_CONN", "IO_OK")
<1>1. CASE FdsLeft /\ Put(key, d)
  <2>1. NewFd \in Fds /\ \A x \in Entries : x.socket_fd # NewFd
    BY <1>1, NewFdIsFree
  <2>2. key \in Keys /\ key.ip_port = NoAddr /\ key.socket_fd = NewFd
    BY <2>1 DEF FdQuery, Keys
  <2>3. d.fd_state = "E_SERVER_CONN"
    BY DEF NewData
  <2> HIDE DEF key, d
  <2>4. Find(key) = {}
    BY <2>1, <2>2, NewKeyMisses DEF CallInv, TableOK, KeysOK
  <2>5. /\ Entries' = Entries \cup {key} /\ m_fd_to_data'[key] = d /\ key \notin Entries
        /\ \A x \in Entries : m_fd_to_data'[x].fd_state = m_fd_to_data[x].fd_state
    BY <1>1, <2>1, <2>2, <2>4 DEF Put, Entries
  <2>6. Table!Put(key, "E_SERVER_CONN")
    BY <2>3, <2>4, <2>5, TablePut
  <2> QED BY <1>1, <2>6, TableQueries, TableFds DEF EventAccept, Table!Accept, key
<1>2. CASE m_fd_to_data' = m_fd_to_data
  BY <1>2, NoTableStep DEF EventAccept
<1> QED BY <1>1, <1>2 DEF EventAccept

LEMMA LinkIsTableStep ==
    ASSUME CallInv, NEW c \in Coroutines, Link(c)
    PROVE  \/ \E addr \in Addrs : Table!Reuse(addr)
           \/ \E fd \in Fds : Table!ConnectEnds(fd)
<1> DEFINE k == co[c].pdata
<1>1. /\ m_active = c /\ co[c].loc \in {"link", "connected"}
      /\ m_fd_to_data' = [m_fd_to_data EXCEPT ![k].fd_state = "E_OTHER",
             ![k].last_op_ret = "IO_OK",
             ![k].seq_to_coroutine = MapPut(@, co[c].seq, [id |-> c, data |-> NoAnswer])]
      /\ connecting' = IF co[c].loc = "connected" THEN connecting \ {co[c].fd} ELSE connecting
  BY DEF Link, At
<1>2. k \in Entries /\ k.ip_port # NoAddr /\ k.socket_fd = co[c].fd
  BY <1>1 DEF CallInv, LinksOK, PointersOK, Held
<1>3. /\ Entries' = Entries
      /\ \A x \in Entries : m_fd_to_data'[x].fd_state =
                               IF x = k THEN "E_OTHER" ELSE m_fd_to_data[x].fd_state
  BY <1>1, <1>2 DEF CallInv, TableOK, Data, Entries
<1> HIDE DEF k
<1>4. [x \in Entries' |-> m_fd_to_data'[x].fd_state]
        = [x \in Entries |-> IF x = k THEN "E_OTHER"
                             ELSE [y \in Entries |-> m_fd_to_data[y].fd_state][x]]
  BY <1>3
<1>5. CASE co[c].loc = "link"
  <2>1. PICK addr \in Addrs : addr = k.ip_port
    BY <1>2 DEF CallInv, TableOK, KeysOK, Keys
  <2>2. Find(AddrQuery(addr)) = {k}
    <3>1. \A x \in Entries : x.ip_port = k.ip_port => x = k
      BY <1>2 DEF CallInv, TableOK, KeysOK, EntriesDistinct
    <3> QED BY <1>2, <2>1, <3>1, FindAddrIsExact DEF CallInv, TableOK, FindAddrExact
  <2>3. Table!Reuse(addr)
    <3>1. \A x : x \in {k} <=> x = k
      OBVIOUS
    <3> QED BY <1>1, <1>4, <1>5, <2>2, <3>1, TableFind, TableQueries, TableEntries DEF Table!Reuse
  <2> QED BY <2>3
<1>6. CASE co[c].loc = "connected"
  <2>1. PICK fd \in Fds : fd = co[c].fd /\ fd \in connecting
    BY <1>6 DEF CallInv, LinksOK, ConnectsOK, InConnect
  <2>2. \A x \in Entries : x.socket_fd = fd <=> x = k
    BY <1>2, <2>1 DEF CallInv, TableOK, KeysOK, EntriesDistinct
  <2>3. [x \in Entries' |-> m_fd_to_data'[x].fd_state]
          = [x \in Entries |-> IF x.socket_fd = fd THEN "E_OTHER"
                               ELSE [y \in Entries |-> m_fd_to_data[y].fd_state][x]]
    BY <1>4, <2>2
  <2>4. Table!ConnectEnds(fd)
    BY <1>1, <1>6, <2>1, <2>3, TableEntries DEF Table!ConnectEnds
  <2> QED BY <2>4
<1> QED BY <1>1, <1>5, <1>6

LEMMA ConnectFailsIsTableStep ==
    ASSUME CallInv, NEW c \in Coroutines, ConnectFails(c)
    PROVE  \E fd \in Fds : Table!ConnectEnds(fd)
<1>1. /\ co[c].loc = "connect" /\ connecting' = connecting \ {co[c].fd}
      /\ m_fd_to_data' = [k \in Entries \ Find(FdQuery(co[c].fd)) |->
             [m_fd_to_data EXCEPT ![co[c].pdata].context_id = NoOne][k]]
  BY DEF ConnectFails, At
<1>2. PICK fd \in Fds : fd = co[c].fd /\ fd \in connecting
  BY <1>1 DEF CallInv, LinksOK, ConnectsOK, InConnect
<1>3. /\ Entries' = Entries \ Find(FdQuery(fd))
      /\ \A k \in Entries' : m_fd_to_data'[k].fd_state = m_fd_to_data[k].fd_state
  BY <1>1, <1>2 DEF CallInv, TableOK, Data, Entries
<1>4. Table!Destroy(fd)
  BY <1>3, TableDestroy
<1>5. Table!ConnectEnds(fd)
  BY <1>1, <1>2, <1>4 DEF Table!ConnectEnds
<1> QED BY <1>5

LEMMA UseDestroyedIsTableStep ==
    ASSUME CallInv, NEW c \in Coroutines, UseDestroyed(c)
    PROVE  (\E fd \in Fds : Table!ConnectEnds(fd)) \/ UNCHANGED Table!fdVars
<1>1. /\ co[c].loc \in {"connect", "recv"} /\ co[c].pdata = Dangling
      /\ connecting' = IF co[c].loc = "connect" THEN connecting \ {co[c].fd} ELSE connecting
      /\ m_fd_to_data' = m_fd_to_data
  BY DEF UseDestroyed, At
<1>2. CASE co[c].loc = "connect"
  <2>1. PICK fd \in Fds : fd = co[c].fd /\ fd \in connecting
    BY <1>2 DEF CallInv, LinksOK, ConnectsOK, InConnect
  <2>2. \A k \in Entries : k.socket_fd # fd
    BY <1>1, <1>2, <2>1 DEF CallInv, LinksOK, ConnectsOK, InConnect
  <2>3. [k \in Entries' |-> m_fd_to_data'[k].fd_state]
          = [k \in Entries |-> IF k.socket_fd = fd THEN "E_OTHER"
                               ELSE [x \in Entries |-> m_fd_to_data[x].fd_state][k]]
    BY <1>1, <2>2 DEF Entries
  <2>4. Table!ConnectEnds(fd)
    BY <1>1, <1>2, <2>1, <2>3, TableEntries DEF Table!ConnectEnds
  <2> QED BY <2>4
<1>3. CASE co[c].loc = "recv"
  BY <1>1, <1>3, NoTableStep
<1> QED BY <1>1, <1>2, <1>3

LEMMA ClosedIsTableStep ==
    ASSUME CallInv, NEW fd \in Fds, NEW k \in Entries, EventClosed(fd, k)
    PROVE  Table!RemoteClose(fd)
<1>1. /\ k \in Find(FdQuery(fd)) /\ connecting' = connecting
      /\ m_fd_to_data[k].fd_state \in {"E_SERVER_CONN", "E_OTHER"}
      /\ m_fd_to_data' = [x \in Entries \ Find(FdQuery(fd)) |-> m_fd_to_data[x]]
  BY DEF EventClosed, EventOf, Destroy
<1>2. /\ Entries' = Entries \ Find(FdQuery(fd))
      /\ \A x \in Entries' : m_fd_to_data'[x].fd_state = m_fd_to_data[x].fd_state
  BY <1>1 DEF Entries
<1>3. Table!Destroy(fd)
  BY <1>2, TableDestroy
<1>4. /\ k \in Table!Find(Table!FdQuery(fd))
      /\ [x \in Entries |-> m_fd_to_data[x].fd_state][k] \in {"E_SERVER_CONN", "E_OTHER"}
  BY <1>1, TableFind, TableQueries
<1> QED BY <1>1, <1>3, <1>4 DEF Table!RemoteClose

LEMMA DataStepsKeepTable ==
    ASSUME CallInv,
           \/ \E c \in Coroutines : ConnectSucceeds(c) \/ TakeAnswer(c)
           \/ \E fd \in Fds, k \in Entries : EventConnect(fd, k) \/ EventAnswer(fd, k)
    PROVE  UNCHANGED Table!fdVars
<1>1. /\ connecting' = connecting
      /\ \/ m_fd_to_data' = m_fd_to_data
         \/ \E k, v : \/ m_fd_to_data' = [m_fd_to_data EXCEPT ![k].context_id = v]
                      \/ m_fd_to_data' = [m_fd_to_data EXCEPT ![k].last_op_ret = v]
                      \/ m_fd_to_data' = [m_fd_to_data EXCEPT ![k].seq_to_coroutine = v]
  <2>1. CASE \E c \in Coroutines : ConnectSucceeds(c) \/ TakeAnswer(c)
    BY <2>1 DEF ConnectSucceeds, TakeAnswer
  <2>2. CASE \E fd \in Fds, k \in Entries : EventConnect(fd, k)
    BY <2>2 DEF EventConnect
  <2>3. ASSUME NEW fd \in Fds, NEW k \in Entries, EventAnswer(fd, k)
        PROVE  /\ connecting' = connecting
               /\ \/ m_fd_to_data' = m_fd_to_data
                  \/ \E v : m_fd_to_data' = [m_fd_to_data EXCEPT ![k].seq_to_coroutine = v]
    <3>1. /\ connecting' = connecting
          /\ \/ m_fd_to_data' = m_fd_to_data
             \/ \E s : m_fd_to_data' = [m_fd_to_data EXCEPT
                                          ![k].seq_to_coroutine[s].data = Head(peer[fd].inbox)]
      BY <2>3 DEF EventAnswer
    <3>2. ASSUME NEW s, NEW a, m_fd_to_data' = [m_fd_to_data EXCEPT ![k].seq_to_coroutine[s].data = a]
          PROVE  m_fd_to_data' = [m_fd_to_data EXCEPT ![k].seq_to_coroutine =
                                     [m_fd_to_data[k].seq_to_coroutine EXCEPT ![s].data = a]]
      BY <3>2
    <3> QED BY <3>1, <3>2
  <2> QED BY <2>1, <2>2, <2>3
<1>2. /\ Entries' = Entries
      /\ \A k \in Entries : m_fd_to_data'[k].fd_state = m_fd_to_data[k].fd_state
  BY <1>1 DEF CallInv, TableOK, Data, Entries
<1> QED BY <1>1, <1>2, TableSame

(***************************************************************************)
(* Everything the callers of CFdMgr do to it is a step of FdMgr or leaves  *)
(* it alone, so FdMgrProofs' theorems hold of tcpconnect, the event loop   *)
(* and the calls that resume after their entry was destroyed.              *)
(***************************************************************************)
THEOREM CallsUseFdTable == CallSpec => ImplementsFdTable
<1>1. CallInit => Table!FdInit
  <2>1. FdQuery(ListenFd) \in {FdQuery(ListenFd)} /\ NewData("E_LISTEN", "IO_OK").fd_state = "E_LISTEN"
    BY DEF NewData
  <2> QED BY <2>1, TableQueries DEF CallInit, Table!FdInit, Entries
<1>2. CallInv /\ [CallNext]_callVars => [Table!FdNext]_(Table!fdVars)
  <2> SUFFICES ASSUME CallInv, [CallNext]_callVars
               PROVE  Table!FdNext \/ UNCHANGED Table!fdVars
    OBVIOUS
  <2>1. ASSUME NEW c \in Coroutines, CoroutineStep(c) \/ RunOnceExpired(c)
        PROVE  Table!FdNext \/ UNCHANGED Table!fdVars
    <3>1. CASE \E addr \in Addrs : CallConnects(c, addr)
      BY <3>1, ConnectIsTableStep DEF Table!FdNext
    <3>2. CASE Link(c)
      BY <3>2, LinkIsTableStep, TableFds DEF Table!FdNext
    <3>3. CASE ConnectFails(c)
      BY <3>3, ConnectFailsIsTableStep, TableFds DEF Table!FdNext
    <3>4. CASE UseDestroyed(c)
      BY <3>4, UseDestroyedIsTableStep, TableFds DEF Table!FdNext
    <3>5. CASE ConnectSucceeds(c) \/ TakeAnswer(c)
      BY <3>5, DataStepsKeepTable
    <3>6. CASE \/ \E addr \in Addrs : CallReuses(c, addr) \/ CallGetsNoSocket(c, addr)
               \/ SendAll(c) \/ SendBlocks(c) \/ SendFails(c) \/ SendGoesOn(c)
               \/ Listen(c) \/ GiveUp(c) \/ Sleep(c) \/ Return(c) \/ RunOnceExpired(c)
      BY <3>6, NoTableStep DEF CallReuses, CallGetsNoSocket, SendAll, SendBlocks, SendFails,
         SendGoesOn, Listen, GiveUp, Sleep, Return, RunOnceExpired, fdVars
    <3> QED BY <2>1, <3>1, <3>2, <3>3, <3>4, <3>5, <3>6 DEF CoroutineStep
  <2>2. ASSUME NEW fd \in Fds, EventStep(fd)
        PROVE  Table!FdNext \/ UNCHANGED Table!fdVars
    <3>1. CASE EventUnknown(fd)
      BY <3>1, NoTableStep DEF EventUnknown, fdVars
    <3>2. ASSUME NEW k \in Entries, EventAccept(fd, k)
          PROVE  Table!FdNext \/ UNCHANGED Table!fdVars
      BY <3>2, AcceptIsTableStep DEF Table!FdNext
    <3>3. ASSUME NEW k \in Entries, EventClosed(fd, k)
          PROVE  Table!FdNext
      BY <3>3, ClosedIsTableStep, TableFds DEF Table!FdNext
    <3>4. ASSUME NEW k \in Entries, EventConnect(fd, k) \/ EventAnswer(fd, k)
          PROVE  UNCHANGED Table!fdVars
      BY <3>4, DataStepsKeepTable
    <3>5. ASSUME NEW k \in Entries, EventRequest(fd, k) \/ EventIgnored(fd, k)
          PROVE  UNCHANGED Table!fdVars
      BY <3>5, NoTableStep DEF EventRequest, EventIgnored, fdVars
    <3> QED BY <2>2, <3>1, <3>2, <3>3, <3>4, <3>5 DEF EventStep
  <2>3. CASE \/ EpollWait \/ RunOnceReturns \/ ScheduleAllRuns \/ ScheduleAllDone
             \/ Peer \/ UNCHANGED callVars
    BY <2>3, NoTableStep DEF EpollWait, RunOnceReturns, ScheduleAllRuns, ScheduleAllDone,
       Peer, fdVars, callVars
  <2> QED BY <2>1, <2>2, <2>3 DEF CallNext, MainStep
<1> QED BY <1>1, <1>2, CallInvariant, PTL DEF CallSpec, ImplementsFdTable, Table!FdSpec
=============================================================================
