------------------------------- MODULE StdMap -------------------------------
(***************************************************************************)
(* std::map as a partial function: a key can be present whatever its value *)
(* is, so the domain is part of the state.                                 *)
(***************************************************************************)
EmptyMap == [k \in {} |-> 0]

MapPut(f, k, v) == [x \in DOMAIN f \cup {k} |-> IF x = k THEN v ELSE f[x]]

MapErase(f, k) == [x \in DOMAIN f \ {k} |-> f[x]]
=============================================================================
