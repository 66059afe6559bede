------------------------------ MODULE MCSwitch ------------------------------
(***************************************************************************)
(* Main and two coroutines whose blocks have room for a frame and a return *)
(* address; what a coroutine leaves in registers and frames is its own.    *)
(***************************************************************************)
EXTENDS Switch
=============================================================================
