------------------------------- MODULE FdMgr --------------------------------
(***************************************************************************)
(* CFdMgr (lib/eventmgr/FdMgr.h): one std::map from stFdKey to the data of *)
(* a connection, looked up by descriptor (the event loop) or by address    *)
(* (tcpconnect), with the comparator of stFdKey as the only index.  The    *)
(* callers in EventMgr are reduced to what they do to this table and to    *)
(* the descriptors, which live as long as a CFd shares them (Fd.h:40).     *)
(***************************************************************************)
EXTENDS Integers, FiniteSetsExt

CONSTANTS Addrs,       \* backend addresses (ip, port, type), numbered in order
          ListenFd,    \* the listening socket, the first descriptor of the table
          MaxFd        \* the limit on open descriptors

ASSUME FdAssumption ==
    /\ Addrs \subseteq Nat \ {0}
    /\ ListenFd \in Nat
    /\ MaxFd \in Nat /\ ListenFd <= MaxFd

VARIABLES m_fd_to_data,  \* stFdKey -> fd_state
          connecting     \* descriptors of the local tcs of suspended tcpconnects

fdVars == <<m_fd_to_data, connecting>>

NoAddr == 0            \* an empty stIpPort, below every address
NoFd   == -1           \* an empty stFd
Fds    == ListenFd .. MaxFd

Keys   == [ip_port : Addrs \cup {NoAddr}, socket_fd : Fds]
Entries  == DOMAIN m_fd_to_data
-----------------------------------------------------------------------------
(* The comparator and std::map::find, insert and erase under it            *)

\* Mutants of KeyLess: a plain lexicographic order; two empty addresses count
\* as equal ones; an empty address leaves the decision to the descriptors.
KeyLessPlain(a, b) ==
    IF a.ip_port # b.ip_port THEN a.ip_port < b.ip_port ELSE a.socket_fd < b.socket_fd
KeyLessEmptyEqual(a, b) ==
    /\ a.ip_port # b.ip_port
    /\ ~ (a.socket_fd # NoFd /\ b.socket_fd # NoFd /\ a.socket_fd = b.socket_fd)
    /\ a.ip_port < b.ip_port
KeyLessFdDecides(a, b) ==
    IF NoAddr \in {a.ip_port, b.ip_port} THEN a.socket_fd < b.socket_fd
    ELSE a.ip_port < b.ip_port

\* stFdKey::operator<: a field given in both keys and equal in both makes
\* them equivalent, otherwise the first different field decides.
KeyLess(a, b) ==
    /\ ~ (a.ip_port # NoAddr /\ b.ip_port # NoAddr /\ a.ip_port = b.ip_port)
    /\ ~ (a.socket_fd # NoFd /\ b.socket_fd # NoFd /\ a.socket_fd = b.socket_fd)
    /\ IF a.ip_port # b.ip_port THEN a.ip_port < b.ip_port
       ELSE a.socket_fd < b.socket_fd

\* find: the first key in map order that is not less than q, if q is not
\* less than it either.  The result is the set of at most one key.
Find(q) ==
    LET notLess == {k \in Entries : ~ KeyLess(k, q)}
    IN  {k \in notLess : /\ \A x \in notLess \ {k} : KeyLess(k, x)
                         /\ ~ KeyLess(q, k)}

FdQuery(fd)     == [ip_port |-> NoAddr, socket_fd |-> fd]
AddrQuery(addr) == [ip_port |-> addr, socket_fd |-> NoFd]

\* insert: nothing happens when an equivalent key is there.
Put(key, fd_state) ==
    m_fd_to_data' = IF Find(key) # {} THEN m_fd_to_data
                    ELSE [k \in Entries \cup {key} |->
                             IF k = key THEN fd_state ELSE m_fd_to_data[k]]

Destroy(fd) ==
    m_fd_to_data' = [k \in Entries \ Find(FdQuery(fd)) |-> m_fd_to_data[k]]

\* Descriptors somebody holds a CFd of; the kernel hands out the lowest other.
OpenFds == {k.socket_fd : k \in Entries} \cup connecting
FdsLeft == Fds \ OpenFds # {}
NewFd   == Min(Fds \ OpenFds)
-----------------------------------------------------------------------------
\* main: AddServerFd of the listening socket.
FdInit ==
    /\ m_fd_to_data = [k \in {FdQuery(ListenFd)} |-> "E_LISTEN"]
    /\ connecting = {}

\* Mutant: a failed accept is not noticed.
AcceptUnchecked ==
    /\ Put(FdQuery(IF FdsLeft THEN NewFd ELSE NoFd), "E_SERVER_CONN")
    /\ UNCHANGED connecting

\* NewReq: accept and Add(fd).
Accept ==
    /\ FdsLeft
    /\ Put(FdQuery(NewFd), "E_SERVER_CONN")
    /\ UNCHANGED connecting

\* tcpconnect to an address that has no entry: a new socket; connect() is in
\* progress and the coroutine waits, or it returned at once.
Connect(addr) ==
    /\ Find(AddrQuery(addr)) = {}
    /\ FdsLeft
    /\ LET key == [ip_port |-> addr, socket_fd |-> NewFd] IN
       \/ Put(key, "E_CONNECT") /\ connecting' = connecting \cup {NewFd}
       \/ Put(key, "E_OTHER")   /\ UNCHANGED connecting

\* tcpconnect to an address that has one, in whatever state it is.
Reuse(addr) ==
    /\ Find(AddrQuery(addr)) # {}
    /\ m_fd_to_data' = [k \in Entries |-> IF k \in Find(AddrQuery(addr)) THEN "E_OTHER"
                                        ELSE m_fd_to_data[k]]
    /\ UNCHANGED connecting

\* The suspended tcpconnect goes on: connected, or Destroy(tcs.Get()).  Its
\* data may have been destroyed meanwhile: the write to it is then lost.
ConnectEnds(fd) ==
    /\ fd \in connecting
    /\ connecting' = connecting \ {fd}
    /\ \/ m_fd_to_data' = [k \in Entries |-> IF k.socket_fd = fd THEN "E_OTHER"
                                           ELSE m_fd_to_data[k]]
       \/ Destroy(fd)

\* RunOnce reads 0 bytes from fd: DelFd.  An unknown fd only leaves epoll.
RemoteClose(fd) ==
    /\ \E k \in Find(FdQuery(fd)) : m_fd_to_data[k] \in {"E_SERVER_CONN", "E_OTHER"}
    /\ Destroy(fd)
    /\ UNCHANGED connecting

FdNext ==
    \/ Accept
    \/ \E addr \in Addrs : Connect(addr) \/ Reuse(addr)
    \/ \E fd \in Fds : ConnectEnds(fd) \/ RemoteClose(fd)

FdSpec == FdInit /\ [][FdNext]_fdVars
-----------------------------------------------------------------------------
FdTypeOK ==
    /\ m_fd_to_data \in [Entries -> {"E_LISTEN", "E_SERVER_CONN", "E_OTHER", "E_CONNECT"}]
    /\ Entries \subseteq Keys
    /\ connecting \subseteq Fds

(***************************************************************************)
(* No two connections in the table have the same descriptor or the same    *)
(* backend.  The comparator is an order only as long as this holds.        *)
(***************************************************************************)
EntriesDistinct ==
    \A a, b \in Entries :
        \/ a = b
        \/ /\ a.socket_fd # b.socket_fd
           /\ a.ip_port # b.ip_port \/ a.ip_port = NoAddr

(***************************************************************************)
(* std::map needs its keys ordered, and the keys less than the one looked  *)
(* up before all others: then lookups do not depend on the tree's shape.   *)
(* stFdKey::operator< is no strict weak order, the keys in use make it one.*)
(***************************************************************************)
MapIsOrdered ==
    /\ \A a, b \in Entries : a = b \/ (KeyLess(a, b) <=> ~ KeyLess(b, a))
    /\ \A a, b, c \in Entries : KeyLess(a, b) /\ KeyLess(b, c) => KeyLess(a, c)
    /\ \A q \in {FdQuery(fd) : fd \in Fds} \cup {AddrQuery(addr) : addr \in Addrs} :
          \A a, b \in Entries : KeyLess(a, b) /\ KeyLess(b, q) => KeyLess(a, q)

(***************************************************************************)
(* A lookup by descriptor never returns the data of another connection: an *)
(* event is not handled, and an entry not destroyed, for the wrong peer.   *)
(***************************************************************************)
FindFdSound == \A fd \in Fds : \A k \in Find(FdQuery(fd)) : k.socket_fd = fd

(***************************************************************************)
(* A lookup by address finds exactly the connection to that backend.       *)
(***************************************************************************)
FindAddrExact ==
    \A addr \in Addrs : Find(AddrQuery(addr)) = {k \in Entries : k.ip_port = addr}

\* find by the descriptor of k stops at another entry first.
Hidden(k) ==
    /\ k.ip_port # NoAddr
    /\ \E x \in Entries : \/ x.ip_port = NoAddr /\ x.socket_fd > k.socket_fd
                          \/ x.ip_port # NoAddr /\ x.ip_port < k.ip_port

(***************************************************************************)
(* Which connections the event loop can see: every listening and accepted  *)
(* socket, but of the backends only the one with the least address, and    *)
(* that one only if no client has a larger descriptor.                     *)
(***************************************************************************)
VisibilityExact ==
    \A k \in Entries : Find(FdQuery(k.socket_fd)) = IF Hidden(k) THEN {} ELSE {k}

(***************************************************************************)
(* FdMgr.h:159: keys with any field equal are equal elements, so a lookup  *)
(* by the descriptor of an entry finds that entry.                         *)
(***************************************************************************)
AnyEqualFieldFinds == \A k \in Entries : Find(FdQuery(k.socket_fd)) = {k}
=============================================================================
