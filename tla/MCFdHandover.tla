---------------------------- MODULE MCFdHandover ----------------------------
(***************************************************************************)
(* The instance of FdHandover: two workers and enough sockets to fill a    *)
(* task, a queue and a reaper's hands of one of them.                      *)
(***************************************************************************)
EXTENDS FdHandover
=============================================================================
