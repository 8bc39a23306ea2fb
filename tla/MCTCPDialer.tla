----------------------------- MODULE MCTCPDialer -----------------------------
(***************************************************************************)
(* TCPDialer for TLC.                                                      *)
(***************************************************************************)
EXTENDS TCPDialer

CONSTANTS h1, h2, i1, i2

TwoHosts == <<h1, h2>>
TwoIPs == <<i1, i2>>
=============================================================================
