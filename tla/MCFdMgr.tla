------------------------------ MODULE MCFdMgr -------------------------------
(***************************************************************************)
(* Three backends, room for four connections beside the listening socket    *)
(***************************************************************************)
EXTENDS FdMgr

MCAddrs == 1 .. 3
=============================================================================
