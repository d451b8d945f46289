-------------------------- MODULE MCClientConnector --------------------------
(***************************************************************************)
(* Two windows of a browser with two client certificates.  A window is     *)
(* loaded three times, which signing in and out again takes, and in which  *)
(* it may also be loaded with the response that the other window got; in   *)
(* the first window one poll may overtake another.                         *)
(***************************************************************************)
EXTENDS ClientConnector

CONSTANTS first, second

MCMaxPolls == [w \in {first, second} |-> IF w = first THEN 2 ELSE 1]

=============================================================================
