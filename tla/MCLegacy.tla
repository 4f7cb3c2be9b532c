------------------------------ MODULE MCLegacy ------------------------------
(***************************************************************************)
(* Small instances of LegacyCgi: two users, two files, two parts.  Each    *)
(* workload is a library and the few requests that arrive on it.           *)
(***************************************************************************)
EXTENDS LegacyCgi, TLC

CONSTANTS a, b, f, g, x1, x2

R(n, op, u, file) == [no |-> n, op |-> op, user |-> u, file |-> file, part |-> 1]
P(n, op, u, file, i) == [no |-> n, op |-> op, user |-> u, file |-> file, part |-> i]
L(owns, sh, ranked) ==
    [owns |-> owns, shares |-> sh, links |-> {}, manifests |-> {},
     ranked |-> ranked]

Both == {<<a, f>>, <<b, f>>}
All == Both \cup {<<a, g>>}
ByA == {<<a, f>>}

Sharing == [library |-> L(Both, {}, TRUE), requests |->
    {R(2, "ShareExists", a, f), R(3, "ShareExists", b, f),
     R(4, "RankTotal", a, f)}]
Reshared == [library |-> L(All, {<<a, f>>, <<a, g>>}, TRUE), requests |->
    {R(2, "ViewRead", a, f), R(3, "ShareExists", b, f),
     R(4, "VisitRead", b, f)}]
Unranked == [library |-> L(All, {<<a, f>>, <<a, g>>}, FALSE), requests |->
    {R(2, "VisitRead", b, f), R(3, "ShareExists", b, f),
     R(4, "RankTotal", a, f)}]
Ranked == [library |-> L(Both, ByA, FALSE), requests |->
    {R(2, "RankTotal", a, f), R(3, "CancelMark", a, f),
     R(4, "VisitRead", b, f)}]
Cancelled == [library |-> L(Both, ByA, TRUE), requests |->
    {R(2, "CancelMark", a, f), R(3, "CancelMark", a, f),
     R(4, "DelExists", a, f)}]
Public == [library |-> L(Both, ByA, TRUE), requests |->
    {R(2, "ShareExists", b, f), R(3, "DelExists", a, f),
     R(4, "RankTotal", a, f), R(5, "VisitRead", b, f)}]
Deleted == [library |-> L(Both, ByA, TRUE), requests |->
    {R(2, "DelExists", a, f), R(3, "DelExists", b, f),
     R(4, "SaveOwned", b, f)}]
Saved == [library |-> L(ByA, ByA, TRUE), requests |->
    {R(2, "SaveOwned", b, f), R(3, "DelExists", a, f),
     R(4, "Md5Count", b, f), R(5, "DelExists", b, f)}]
Stored == [library |-> L({}, {}, TRUE), requests |->
    {R(2, "UploadCount", a, f), R(3, "UploadCount", b, f),
     R(4, "DelExists", a, f)}]
Instant == [library |-> L({<<b, f>>}, {}, TRUE), requests |->
    {R(2, "Md5Count", a, f), R(3, "UploadCount", a, f),
     R(4, "DelExists", b, f), R(5, "Md5Count", b, f)}]

Linked(links, owns) ==
    [L(owns, {}, TRUE) EXCEPT !.links =
        {[id |-> 1, user |-> u, file |-> f, url |-> 1, views |-> 0] :
            u \in links}]
Pictures == [library |-> Linked({a}, ByA), requests |->
    {P(2, "DropFind", a, g, 1), P(3, "BrowseRead", b, g, 1),
     R(4, "DelExists", a, f)}]
Pictured == [library |-> Linked({}, ByA), requests |->
    {R(2, "PictureInsert", a, f), P(3, "DropFind", a, f, 2),
     R(4, "DelExists", a, f)}]
Twinned == [library |-> Linked({}, ByA), requests |->
    {R(2, "PictureInsert", a, f), R(3, "PictureInsert", a, f),
     P(4, "DropFind", a, f, 2)}]
Uploaded == [library |-> Linked({a}, {}), requests |->
    {P(2, "DropFind", a, f, 1), R(3, "UploadCount", b, f),
     R(4, "PictureInsert", b, f)}]

Chunked == [library |-> L({}, {}, TRUE), requests |->
    {R(2, "InitExists", a, f), P(3, "PartWrite", a, f, 1),
     P(4, "PartWrite", a, f, 2), R(5, "MergeLocked", a, f)}]
Late == [library |-> L({<<b, f>>}, {}, TRUE), requests |->
    {P(2, "PartWrite", a, f, 1), R(3, "MergeLocked", a, f),
     R(4, "DelExists", b, f), R(5, "InitExists", a, f)}]
Twice == [library |-> L({}, {}, TRUE), requests |->
    {R(2, "InitExists", a, f), P(3, "PartWrite", a, f, 1),
     P(4, "PartWrite", a, f, 2), R(5, "MergeLocked", a, f),
     R(6, "MergeLocked", b, f)}]
Raced == [Twice EXCEPT !.requests = {r \in @ : r.op # "MergeLocked"} \cup
    {R(5, "MergeLocked", a, f), R(6, "UploadCount", b, f)}]

Manifest == [[library |-> L(Both, ByA, TRUE), requests |->
    {R(2, "V2Delete", a, f), R(3, "DelExists", a, f), R(4, "V2Commit", a, f)}]
    EXCEPT !.library.manifests = {f}]
Mixed == [[library |-> L({<<b, f>>}, {}, TRUE), requests |->
    {R(2, "V2Commit", a, f), R(3, "SaveOwned", a, f), R(4, "V2Delete", b, f),
     R(5, "ShareExists", b, f)}]
    EXCEPT !.library.manifests = {f}]
Created == [library |-> L({}, {}, TRUE), requests |->
    {R(2, "V2Commit", a, f), R(3, "UploadCount", b, f), R(4, "V2Delete", a, f)}]

MCWorkloads ==
    {Sharing, Reshared, Unranked, Ranked, Cancelled, Deleted, Saved, Stored,
     Instant, Pictures, Pictured, Twinned, Uploaded, Chunked, Late, Twice, Raced,
     Public, Manifest, Mixed, Created}
ChunkWorkloads == {Chunked}
=============================================================================
