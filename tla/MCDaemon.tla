------------------------------ MODULE MCDaemon ------------------------------
(***************************************************************************)
(* Daemon for TLC.  The default of --threads is the number of processors.   *)
(***************************************************************************)
EXTENDS Daemon

MCDefault == [o \in Settings |-> IF o = "threads" THEN 2 ELSE 1]
=============================================================================
