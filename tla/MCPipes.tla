------------------------------ MODULE MCPipes ------------------------------
(***************************************************************************)
(* InmemoryListener for TLC: one connection with three writes, which fill  *)
(* its channel, and one that is only read from.                            *)
(***************************************************************************)
EXTENDS InmemoryListener, TLC

CONSTANTS p1, p2

TwoPipes == {p1, p2}
ThreeWritesAndNone == p1 :> 9 @@ p2 :> 0
=============================================================================
