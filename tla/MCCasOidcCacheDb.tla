-------------------------- MODULE MCCasOidcCacheDb --------------------------
(***************************************************************************)
(* The payload type of the adapter lets one artifact have a uid, a user    *)
(* code and a grant, each or none.  Two artifacts share a uid, as before   *)
(* and after the rotation of a session id; one of them has a user code;    *)
(* each may be saved under either grant or none, with or without a limit.  *)
(***************************************************************************)
EXTENDS CasOidcCacheDb

CONSTANTS i1, i2, u1, g1, g2, k1

MCUidOf == [id \in Ids |-> u1]
MCUserCodeOf == [id \in Ids |-> IF id = i1 THEN k1 ELSE None]

Limits == {0, 1}

=============================================================================
