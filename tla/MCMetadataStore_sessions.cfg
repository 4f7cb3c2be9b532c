\* Sessions that meet at a digest, or two objects that share a chunk which the
\* second uses twice.
SPECIFICATION Spec
CONSTANTS
    a = a  b = b  n = n  m = m  d1 = d1  d2 = d2  d3 = d3
    c1 = c1  c2 = c2  f1 = f1  f2 = f2  f3 = f3
    u1 = u1  u2 = u2  u3 = u3  u4 = u4  u5 = u5  u6 = u6  x = x
    Users = {a, b}
    Names = {n, m}
    Digests = {d1, d2, d3}
    Chunks = {c1, c2}
    Files = {f1, f2, f3}
    Uploads = {u1, u2, u4, u5, u6}
    Backends = {x}
    DigestOf <- MCDigestOf
    LayoutOf <- MCLayoutOf
    UserOf <- MCUserOf
    NameOf <- MCNameOf
    FileOf <- MCFileOf
    LegacyRelations = {}
    NoUpload = NoUpload
    NoBackend = NoBackend
    NoFile = NoFile
    MaxEpoch = 1
CONSTRAINT OneCase
INVARIANTS FileCountExact RefCountExact ReferencedReady
PROPERTY ImplementsCatalog
