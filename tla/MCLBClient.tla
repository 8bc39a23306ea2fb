----------------------------- MODULE MCLBClient -----------------------------
(* LBClient with idempotent, other and streamed requests. *)
EXTENDS LBClient

KindsOfRequest ==
    [retryable : BOOLEAN, stream : {FALSE}] \cup [retryable : {TRUE}, stream : {TRUE}]
=============================================================================
