--------------------------- MODULE MCObjectStore ---------------------------
(***************************************************************************)
(* Small instances of ObjectStore: one user whose uploads all declare the  *)
(* same content, so that every request and every session meets at the same *)
(* chunk, or two contents with a chunk in common.                          *)
(***************************************************************************)
EXTENDS ObjectStore, TLC

CONSTANTS a, n, d1, d2, c1, f1, f2, u1, u2, g1, g2, b1, b2, b3

MCDigestOf == f1 :> d1 @@ f2 :> d2
MCLayoutOf == f1 :> <<c1>> @@ f2 :> <<c1>>
MCUserOf == [u \in Uploads |-> a]
MCNameOf == [u \in Uploads |-> n]
SameFileOf == [u \in Uploads |-> f1]
OtherFileOf == [u \in Uploads |-> IF u = u1 THEN f1 ELSE f2]

AnyWorkerOrBlob == Permutations(Workers) \cup Permutations(Backends)
=============================================================================
