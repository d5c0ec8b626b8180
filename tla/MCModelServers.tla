--------------------------- MODULE MCModelServers ---------------------------
(* ModelServers with one request and one session; the swap is the second    *)
(* party that asks for the lock.                                            *)
EXTENDS ModelServers
CONSTANTS r1, s1
MCRequests == {r1}
MCSessions == {s1}
=============================================================================
