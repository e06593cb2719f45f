---------------------------- MODULE MCDhcpServer ----------------------------
(* A small instance of DhcpServer for TLC.  No definition tells one client *)
(* from another.                                                           *)
EXTENDS DhcpServer, TLC

Symmetry == Permutations(Macs)
=============================================================================
