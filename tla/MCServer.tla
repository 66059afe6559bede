------------------------------ MODULE MCServer ------------------------------
(***************************************************************************)
(* Three clients on two descriptors, two requests.  A body of one byte     *)
(* fits a recv, one of three is as long as a recv without its prefix.      *)
(***************************************************************************)
EXTENDS Server

MCIds       == 1 .. (IdSpace - 1)
MCClosedFds == Fds
MCNoAddrs   == {}
MCClients   == 1 .. 3
MCPackages  == <<<<1, 3>>, <<1>>, <<>>>>
=============================================================================
