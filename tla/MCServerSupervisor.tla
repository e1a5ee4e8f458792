------------------------- MODULE MCServerSupervisor -------------------------
(***************************************************************************)
(* TLC instances of the supervisor.                                        *)
(***************************************************************************)
EXTENDS ServerSupervisor, TLC
=============================================================================
