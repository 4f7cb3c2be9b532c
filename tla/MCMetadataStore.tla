-------------------------- MODULE MCMetadataStore --------------------------
(***************************************************************************)
(* Small instances of MetadataStore over six sessions, of which a          *)
(* configuration, or a case of it, opens those that meet:                  *)
(*  - u1, u2, u3 at one chunk, which the third uses twice and whose file b *)
(*    had on the legacy path before the migration;                         *)
(*  - u1, u2, u4 at one digest, for two users and two names of one user;   *)
(*  - u5, u6 at a chunk of two objects, which the second uses twice.       *)
(***************************************************************************)
EXTENDS MetadataStore, TLC

CONSTANTS a, b, n, m, d1, d2, d3, c1, c2, f1, f2, f3,
          u1, u2, u3, u4, u5, u6, x

AllDigestOf == f1 :> d1 @@ f2 :> d2 @@ f3 :> d3
AllLayoutOf == f1 :> <<c1>> @@ f2 :> <<c1, c1>> @@ f3 :> <<c1, c2>>

MCDigestOf == [f \in Files |-> AllDigestOf[f]]
MCLayoutOf == [f \in Files |-> AllLayoutOf[f]]
MCUserOf == [u \in Uploads |-> IF u \in {u2, u3, u6} THEN b ELSE a]
MCNameOf == [u \in Uploads |-> IF u = u4 THEN m ELSE n]
MCFileOf == [u \in Uploads |-> IF u \in {u3, u6} THEN f2
                               ELSE IF u = u5 THEN f3 ELSE f1]

OldLegacy == {<<b, d2, n>>}

\* The sessions of one case only.
Opened == {u \in Uploads : session[u] # "NONE"}
OneCase == Opened \subseteq {u1, u2, u4} \/ Opened \subseteq {u5, u6}
=============================================================================
