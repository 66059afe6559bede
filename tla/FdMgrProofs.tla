---------------------------- MODULE FdMgrProofs -----------------------------
(***************************************************************************)
(* Proofs about CFdMgr for any number of addresses and descriptors.  What  *)
(* the lookups return follows from the comparator and from one invariant:  *)
(* no two keys of the map share a descriptor or an address.                *)
(***************************************************************************)
EXTENDS FdMgr, FiniteSetsExt, WellFoundedInduction, TLAPS

(* The kernel's choice of a descriptor, the least that is not open, is one *)
(* of those it chooses from, however many there are.                       *)
LEMMA LeastIsThere ==
    ASSUME NEW S, S \subseteq Nat, S # {}
    PROVE  Min(S) \in S
<1>1. PICK x \in S : \A y \in S : <<y, x>> \notin OpToRel(<, Nat)
  BY NatLessThanWellFounded, WFMin
<1>2. \A y \in S : y < x => <<y, x>> \in OpToRel(<, Nat)
  BY DEF OpToRel
<1>3. \A y \in S : x <= y
  <2>1. \A y \in S : ~(y < x)
    BY <1>1, <1>2
  <2> QED BY <2>1
<1> QED BY <1>3 DEF Min

\* What the lookups need: keys of the right kind, no two of one connection.
KeysOK == Entries \subseteq Keys /\ EntriesDistinct

FdInv == FdTypeOK /\ EntriesDistinct

LEMMA KeysAreOK == FdInv => KeysOK
BY DEF FdInv, FdTypeOK, KeysOK

(* The fields of a key are numbers, an empty address being 0.              *)
LEMMA KeyFields ==
    ASSUME NEW k \in Keys
    PROVE  k.ip_port \in Nat /\ k.socket_fd \in Nat
<1>1. k.ip_port \in Addrs \cup {0} /\ k.socket_fd \in Fds
  BY DEF Keys, NoAddr
<1>2. Fds \subseteq Nat
  BY FdAssumption DEF Fds
<1>3. Addrs \cup {0} \subseteq Nat
  BY FdAssumption
<1> QED BY <1>1, <1>2, <1>3, Zenon

(* What the comparator says about the two kinds of key that are looked up. *)
LEMMA FdQueryLess ==
    ASSUME NEW k \in Keys, NEW fd \in Nat
    PROVE  /\ KeyLess(k, FdQuery(fd)) <=> k.ip_port = NoAddr /\ k.socket_fd < fd
           /\ KeyLess(FdQuery(fd), k) <=>
                  k.socket_fd # fd /\ (k.ip_port = NoAddr => fd < k.socket_fd)
<1>1. k.ip_port \in Nat /\ k.socket_fd \in Nat
  BY KeyFields
<1>2. FdQuery(fd).ip_port = 0 /\ FdQuery(fd).socket_fd = fd
  BY DEF FdQuery, NoAddr
<1> QED BY <1>1, <1>2 DEF KeyLess, NoAddr, NoFd

(* A query by address compares by address alone.                           *)
LEMMA AddrQueryLess ==
    ASSUME NEW k \in Keys, NEW addr \in Addrs
    PROVE  /\ KeyLess(k, AddrQuery(addr)) <=> k.ip_port < addr
           /\ KeyLess(AddrQuery(addr), k) <=> addr < k.ip_port
<1>1. k.ip_port \in Nat /\ k.socket_fd \in Nat /\ addr \in Nat \ {0}
  BY KeyFields, FdAssumption
<1>2. AddrQuery(addr).ip_port = addr /\ AddrQuery(addr).socket_fd = -1
  BY DEF AddrQuery, NoFd
<1> QED BY <1>1, <1>2 DEF KeyLess, NoAddr, NoFd

(* Between two keys of the map the comparator is the lexicographic order.  *)
LEMMA EntriesLess ==
    ASSUME KeysOK, NEW a \in Entries, NEW b \in Entries, a # b
    PROVE  KeyLess(a, b) <=> \/ a.ip_port < b.ip_port
                             \/ a.ip_port = b.ip_port /\ a.socket_fd < b.socket_fd
BY FdAssumption DEF KeysOK, EntriesDistinct, KeyLess, Keys, Fds, NoAddr, NoFd
-----------------------------------------------------------------------------
(* Lookups in a map whose keys are distinct.                               *)
LEMMA FindFdIsSound == ASSUME Entries \subseteq Keys PROVE FindFdSound
<1> SUFFICES ASSUME NEW fd \in Fds, NEW k \in Find(FdQuery(fd))
             PROVE  k.socket_fd = fd
  BY DEF FindFdSound
<1>1. k \in Keys /\ fd \in Nat /\ k.socket_fd \in Nat
  BY FdAssumption DEF Find, Fds, Keys
<1>2. ~ KeyLess(k, FdQuery(fd)) /\ ~ KeyLess(FdQuery(fd), k)
  BY DEF Find
<1> QED BY <1>1, <1>2, FdQueryLess

(* find() by address stops at the entry with that address, if there is one. *)
LEMMA FindAddrIsExact == ASSUME KeysOK PROVE FindAddrExact
<1> SUFFICES ASSUME NEW addr \in Addrs
             PROVE  Find(AddrQuery(addr)) = {k \in Entries : k.ip_port = addr}
  BY DEF FindAddrExact
<1>1. /\ Entries \subseteq Keys /\ addr \in Nat \ {0}
      /\ \A k \in Entries : k.ip_port \in Nat /\ k.socket_fd \in Nat
  BY KeyFields, FdAssumption DEF KeysOK
<1>2. ASSUME NEW k \in Find(AddrQuery(addr))
      PROVE  k \in Entries /\ k.ip_port = addr
  <2>1. k \in Entries /\ ~ KeyLess(k, AddrQuery(addr)) /\ ~ KeyLess(AddrQuery(addr), k)
    BY DEF Find
  <2> QED BY <1>1, <2>1, AddrQueryLess
<1>3. ASSUME NEW k \in Entries, k.ip_port = addr
      PROVE  k \in Find(AddrQuery(addr))
  <2>1. ~ KeyLess(k, AddrQuery(addr)) /\ ~ KeyLess(AddrQuery(addr), k)
    BY <1>1, <1>3, AddrQueryLess
  <2>2. ASSUME NEW x \in Entries, x # k, ~ KeyLess(x, AddrQuery(addr))
        PROVE  KeyLess(k, x)
    <3>1. x.ip_port # k.ip_port
      BY <1>1, <1>3, <2>2 DEF KeysOK, EntriesDistinct, NoAddr
    <3>2. addr < x.ip_port
      BY <1>1, <1>3, <2>2, <3>1, AddrQueryLess
    <3> QED BY <1>3, <2>2, <3>2, EntriesLess
  <2> QED BY <2>1, <2>2 DEF Find
<1> QED BY <1>2, <1>3

(* find() by descriptor misses an entry exactly when another one hides it. *)
LEMMA VisibilityIsExact == ASSUME KeysOK PROVE VisibilityExact
<1> SUFFICES ASSUME NEW k \in Entries
             PROVE  Find(FdQuery(k.socket_fd)) = IF Hidden(k) THEN {} ELSE {k}
  BY DEF VisibilityExact
<1> DEFINE q == FdQuery(k.socket_fd)
<1>1. /\ Entries \subseteq Keys
      /\ \A x \in Entries : x.ip_port \in Nat /\ x.socket_fd \in Nat
      /\ \A x \in Entries : x # k => x.socket_fd # k.socket_fd
      /\ \A x \in Entries : x # k => x.ip_port # k.ip_port \/ x.ip_port = NoAddr
  BY KeyFields DEF KeysOK, EntriesDistinct
<1>2. \A x \in Entries : KeyLess(x, q) <=> x.ip_port = NoAddr /\ x.socket_fd < k.socket_fd
  BY <1>1, FdQueryLess
<1>3. \A x \in Find(q) : x = k
  <2>1. \A x \in Find(q) : x \in Entries /\ ~ KeyLess(x, q) /\ ~ KeyLess(q, x)
    BY DEF Find
  <2> QED BY <1>1, <2>1, FdQueryLess
<1>4. ~ KeyLess(k, q) /\ ~ KeyLess(q, k)
  BY <1>1, FdQueryLess
<1>5. k \in Find(q) <=> \A x \in Entries \ {k} : KeyLess(x, q) \/ KeyLess(k, x)
  BY <1>4 DEF Find
<1>6. \A x \in Entries \ {k} :
        KeyLess(k, x) <=> \/ k.ip_port < x.ip_port
                          \/ k.ip_port = x.ip_port /\ k.socket_fd < x.socket_fd
  BY EntriesLess
<1> HIDE DEF q
<1>7. Hidden(k) <=> \E x \in Entries \ {k} : ~ KeyLess(x, q) /\ ~ KeyLess(k, x)
  BY <1>1, <1>2, <1>6 DEF Hidden, NoAddr
<1> QED BY <1>3, <1>5, <1>7 DEF q

(* The comparator orders the keys of the map, and each query splits them.  *)
LEMMA MapOrdered == ASSUME KeysOK PROVE MapIsOrdered
<1>1. /\ Entries \subseteq Keys
      /\ \A x \in Entries : x.ip_port \in Nat /\ x.socket_fd \in Nat
      /\ \A a, b \in Entries : a # b =>
            /\ a.socket_fd # b.socket_fd
            /\ a.ip_port # b.ip_port \/ a.ip_port = NoAddr
  BY KeyFields DEF KeysOK, EntriesDistinct
<1>2. \A a, b \in Entries : a = b \/ (KeyLess(a, b) <=> ~ KeyLess(b, a))
  BY <1>1, EntriesLess
<1>3. \A a \in Entries : ~ KeyLess(a, a)
  BY <1>1 DEF KeyLess
<1>4. \A a, b, c \in Entries : KeyLess(a, b) /\ KeyLess(b, c) => KeyLess(a, c)
  <2> SUFFICES ASSUME NEW a \in Entries, NEW b \in Entries, NEW c \in Entries,
                      KeyLess(a, b), KeyLess(b, c)
               PROVE  KeyLess(a, c)
    OBVIOUS
  <2>1. a # b /\ b # c
    BY <1>3
  <2>2. a # c
    BY <1>2, <2>1
  <2> QED BY <1>1, <2>1, <2>2, EntriesLess
<1>5. ASSUME NEW fd \in Fds, NEW a \in Entries, NEW b \in Entries,
             KeyLess(a, b), KeyLess(b, FdQuery(fd))
      PROVE  KeyLess(a, FdQuery(fd))
  <2>1. fd \in Nat /\ a # b
    BY <1>3, <1>5, FdAssumption DEF Fds
  <2>2. b.ip_port = NoAddr /\ b.socket_fd < fd
    BY <1>1, <1>5, <2>1, FdQueryLess
  <2>3. a.ip_port = NoAddr /\ a.socket_fd < fd
    BY <1>1, <1>5, <2>1, <2>2, EntriesLess DEF NoAddr
  <2> QED BY <1>1, <2>1, <2>3, FdQueryLess
<1>6. ASSUME NEW addr \in Addrs, NEW a \in Entries, NEW b \in Entries,
             KeyLess(a, b), KeyLess(b, AddrQuery(addr))
      PROVE  KeyLess(a, AddrQuery(addr))
  <2>1. addr \in Nat /\ a # b
    BY <1>3, <1>6, FdAssumption
  <2>2. b.ip_port < addr /\ a.ip_port <= b.ip_port
    BY <1>1, <1>6, <2>1, AddrQueryLess, EntriesLess
  <2> QED BY <1>1, <2>1, <2>2, AddrQueryLess
<1> QED BY <1>2, <1>4, <1>5, <1>6 DEF MapIsOrdered
-----------------------------------------------------------------------------
(* The invariant: a new key differs from every key of the map.             *)
LEMMA NewFdIsFree ==
    ASSUME FdsLeft
    PROVE  NewFd \in Fds /\ NewFd \notin connecting
           /\ \A k \in Entries : k.socket_fd # NewFd
<1>1. Fds \ OpenFds \subseteq Nat /\ Fds \ OpenFds # {}
  BY FdAssumption DEF FdsLeft, Fds
<1>2. NewFd \in Fds \ OpenFds
  BY <1>1, LeastIsThere DEF NewFd
<1> QED BY <1>2 DEF OpenFds

(* insert() of a key with a new descriptor and a new address.              *)
LEMMA PutKeeps ==
    ASSUME FdInv, NEW key \in Keys, NEW s \in {"E_SERVER_CONN", "E_OTHER", "E_CONNECT"},
           Put(key, s), connecting' \subseteq Fds,
           \A k \in Entries : k.socket_fd # key.socket_fd,
           key.ip_port = NoAddr \/ \A k \in Entries : k.ip_port # key.ip_port
    PROVE  FdInv'
<1>1. \/ m_fd_to_data' = m_fd_to_data
      \/ m_fd_to_data' = [k \in Entries \cup {key} |-> IF k = key THEN s ELSE m_fd_to_data[k]]
  BY DEF Put
<1>2. CASE m_fd_to_data' = m_fd_to_data
  BY <1>2 DEF FdInv, FdTypeOK, EntriesDistinct, Entries
<1>3. CASE m_fd_to_data' = [k \in Entries \cup {key} |->
                              IF k = key THEN s ELSE m_fd_to_data[k]]
  <2>1. Entries' = Entries \cup {key}
    BY <1>3 DEF Entries
  <2>2. FdTypeOK'
    BY <1>3, <2>1 DEF FdInv, FdTypeOK
  <2>3. EntriesDistinct'
    BY <2>1 DEF FdInv, EntriesDistinct
  <2> QED BY <2>2, <2>3 DEF FdInv
<1> QED BY <1>1, <1>2, <1>3

\* Keys only leave the map, or their data changes.
LEMMA FewerKeysKeep ==
    ASSUME FdInv, connecting' \subseteq Fds, Entries' \subseteq Entries,
           m_fd_to_data' \in [Entries' -> {"E_LISTEN", "E_SERVER_CONN", "E_OTHER", "E_CONNECT"}]
    PROVE  FdInv'
BY DEF FdInv, FdTypeOK, EntriesDistinct

(* Destroy() only removes keys.                                            *)
LEMMA DestroyKeeps ==
    ASSUME FdInv, connecting' \subseteq Fds, NEW fd, Destroy(fd)
    PROVE  FdInv'
<1>1. m_fd_to_data' = [k \in Entries \ Find(FdQuery(fd)) |-> m_fd_to_data[k]]
  BY DEF Destroy
<1>2. Entries' = Entries \ Find(FdQuery(fd))
  BY <1>1 DEF Entries
<1>3. m_fd_to_data' \in [Entries' -> {"E_LISTEN", "E_SERVER_CONN", "E_OTHER", "E_CONNECT"}]
  BY <1>1, <1>2 DEF FdInv, FdTypeOK
<1> QED BY <1>2, <1>3, FewerKeysKeep

(* One listening socket.                                                   *)
LEMMA FdInvInit == FdInit => FdInv
<1> SUFFICES ASSUME FdInit PROVE FdInv
  OBVIOUS
<1>1. FdQuery(ListenFd) \in Keys
  BY FdAssumption DEF FdQuery, Keys, Fds, NoAddr
<1>2. Entries = {FdQuery(ListenFd)}
  BY DEF FdInit, Entries
<1> QED BY <1>1, <1>2 DEF FdInit, FdInv, FdTypeOK, EntriesDistinct

(* Every caller of CFdMgr keeps the keys distinct: one case per action.    *)
LEMMA FdInvStep == FdInv /\ [FdNext]_fdVars => FdInv'
<1> SUFFICES ASSUME FdInv, [FdNext]_fdVars
             PROVE  FdInv'
  OBVIOUS
<1>1. CASE Accept
  <2>1. FdQuery(NewFd) \in Keys
    BY <1>1, NewFdIsFree DEF Accept, FdQuery, Keys
  <2>2. FdQuery(NewFd).ip_port = NoAddr /\ FdQuery(NewFd).socket_fd = NewFd
    BY DEF FdQuery
  <2>3. \A k \in Entries : k.socket_fd # FdQuery(NewFd).socket_fd
    BY <1>1, <2>2, NewFdIsFree DEF Accept
  <2> QED BY <1>1, <2>1, <2>2, <2>3, PutKeeps DEF Accept, FdInv, FdTypeOK
<1>2. ASSUME NEW addr \in Addrs, Connect(addr)
      PROVE  FdInv'
  <2> DEFINE key == [ip_port |-> addr, socket_fd |-> NewFd]
  <2>1. NewFd \in Fds /\ \A k \in Entries : k.socket_fd # NewFd
    BY <1>2, NewFdIsFree DEF Connect
  <2>2. \A k \in Entries : k.ip_port # addr
    BY <1>2, KeysAreOK, FindAddrIsExact DEF Connect, FindAddrExact
  <2>3. key \in Keys /\ key.ip_port = addr /\ key.socket_fd = NewFd
    BY <2>1 DEF Keys
  <2>4. \/ Put(key, "E_CONNECT") /\ connecting' = connecting \cup {NewFd}
        \/ Put(key, "E_OTHER") /\ connecting' = connecting
    BY <1>2 DEF Connect
  <2> HIDE DEF key
  <2> QED BY <2>1, <2>2, <2>3, <2>4, PutKeeps DEF FdInv, FdTypeOK
<1>3. ASSUME NEW addr \in Addrs, Reuse(addr)
      PROVE  FdInv'
  <2>1. Entries' = Entries
    BY <1>3 DEF Reuse, Entries
  <2> QED BY <1>3, <2>1 DEF Reuse, FdInv, FdTypeOK, EntriesDistinct
<1>4. ASSUME NEW fd \in Fds, ConnectEnds(fd)
      PROVE  FdInv'
  <2>1. connecting' \subseteq Fds
    BY <1>4 DEF ConnectEnds, FdInv, FdTypeOK
  <2>2. CASE Destroy(fd)
    BY <2>1, <2>2, DestroyKeeps
  <2>3. CASE ~ Destroy(fd)
    <3>1. m_fd_to_data' = [k \in Entries |-> IF k.socket_fd = fd THEN "E_OTHER"
                                             ELSE m_fd_to_data[k]]
      BY <1>4, <2>3 DEF ConnectEnds
    <3>2. Entries' = Entries
      BY <3>1 DEF Entries
    <3> QED BY <2>1, <3>1, <3>2 DEF FdInv, FdTypeOK, EntriesDistinct
  <2> QED BY <2>2, <2>3
<1>5. ASSUME NEW fd \in Fds, RemoteClose(fd)
      PROVE  FdInv'
  BY <1>5, DestroyKeeps DEF RemoteClose, FdInv, FdTypeOK
<1>6. CASE UNCHANGED fdVars
  BY <1>6 DEF fdVars, FdInv, FdTypeOK, EntriesDistinct, Entries
<1> QED BY <1>1, <1>2, <1>3, <1>4, <1>5, <1>6 DEF FdNext

(* The keys of the map are distinct in every reachable state.              *)
THEOREM FdInvariant == FdSpec => []FdInv
BY FdInvInit, FdInvStep, PTL DEF FdSpec

(***************************************************************************)
(* Every entry has an address or is a client's, with a descriptor in range *)
(* and a state of stFdData: no accept or connect beyond the limit gets in. *)
(***************************************************************************)
THEOREM FdTypeCorrect == FdSpec => []FdTypeOK
BY FdInvariant, PTL DEF FdInv

(***************************************************************************)
(* No two connections ever share a descriptor or a backend address, so the *)
(* insert of CFdMgr::Add never fails (its NULL is not checked).            *)
(***************************************************************************)
THEOREM EntriesAlwaysDistinct == FdSpec => []EntriesDistinct
BY FdInvariant, PTL DEF FdInv

(***************************************************************************)
(* stFdKey::operator< orders the keys that can be in the map together, and *)
(* every query splits them in two, although it is no strict weak order.    *)
(***************************************************************************)
THEOREM MapAlwaysOrdered == FdSpec => []MapIsOrdered
<1>1. FdInv => MapIsOrdered
  BY KeysAreOK, MapOrdered
<1> QED BY <1>1, FdInvariant, PTL

(***************************************************************************)
(* No lookup by descriptor returns another connection's data.              *)
(***************************************************************************)
THEOREM FindFdAlwaysSound == FdSpec => []FindFdSound
<1>1. FdInv => FindFdSound
  BY FindFdIsSound DEF FdInv, FdTypeOK
<1> QED BY <1>1, FdInvariant, PTL

(***************************************************************************)
(* A lookup by address finds the connection to that backend and no other.  *)
(***************************************************************************)
THEOREM FindAddrAlwaysExact == FdSpec => []FindAddrExact
<1>1. FdInv => FindAddrExact
  BY KeysAreOK, FindAddrIsExact
<1> QED BY <1>1, FdInvariant, PTL

(***************************************************************************)
(* Exactly which connections the event loop can see: all clients, and at   *)
(* most one backend.                                                       *)
(***************************************************************************)
THEOREM VisibilityAlwaysExact == FdSpec => []VisibilityExact
<1>1. FdInv => VisibilityExact
  BY KeysAreOK, VisibilityIsExact
<1> QED BY <1>1, FdInvariant, PTL
=============================================================================
