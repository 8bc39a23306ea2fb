---------------------------- MODULE MCServeLoop ----------------------------
(***************************************************************************)
(* ServeLoop for TLC: requests with every kind of body.  A raised limit is *)
(* of interest for a large body, and for what follows another request.     *)
(***************************************************************************)
EXTENDS ServeLoop

Plain == [body : {"none", "chunked", "small", "large"}, expect : BOOLEAN, raise : {FALSE}]
Raising == [body : {"none", "large"}, expect : {FALSE}, raise : {TRUE}]
SomeKinds == Plain \cup Raising
=============================================================================
