--------------------------- MODULE ObjectCatalog ---------------------------
(***************************************************************************)
(* What the V2 object store promises its users, without chunks, leases,    *)
(* reference counts or garbage collection: each user owns digests under    *)
(* names, and while anybody owns a digest its bytes read back as they were *)
(* declared when it was first uploaded.  Parts, retries, aborts, expiries  *)
(* and GC are invisible.                                                   *)
(***************************************************************************)
CONSTANTS Digests, Uploads, DigestOf, LayoutOf, UserOf, NameOf, FileOf,
          LegacyRelations

VARIABLES
    owned,   \* <<user, digest, name>>
    content  \* how each digest is stored and the chunks it reads back as

NoContent == [mode |-> "none", bytes |-> <<>>]
LegacyContent == [mode |-> "legacy", bytes |-> <<>>]
Declared(u) == [mode |-> "manifest", bytes |-> LayoutOf[FileOf[u]]]

Owns(user, d) == \E r \in owned : r[1] = user /\ r[2] = d

CatalogInit ==
    /\ owned = LegacyRelations
    /\ content = [d \in Digests |-> IF \E r \in LegacyRelations : r[2] = d
                                    THEN LegacyContent ELSE NoContent]

\* Knowing a digest is not owning it: the uploader has shown all the bytes,
\* or owns the digest already.
Upload(u) ==
    LET d == DigestOf[FileOf[u]]
    IN  /\ content[d] \in {NoContent, Declared(u)} \/ Owns(UserOf[u], d)
        /\ owned' = owned \cup {<<UserOf[u], d, NameOf[u]>>}
        /\ content' = [content EXCEPT ![d] =
                         IF @ = NoContent THEN Declared(u) ELSE @]

\* The bytes go with the last relation and no earlier.
Delete(r) ==
    /\ content[r[2]].mode = "manifest"
    /\ owned' = owned \ {r}
    /\ content' = IF \E s \in owned' : s[2] = r[2] THEN content
                  ELSE [content EXCEPT ![r[2]] = NoContent]

CatalogNext ==
    \/ \E u \in Uploads : Upload(u)
    \/ \E r \in owned : Delete(r)

CatalogSpec == CatalogInit /\ [][CatalogNext]_<<owned, content>>
=============================================================================
