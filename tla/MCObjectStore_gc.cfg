\* Two contents over one chunk; the gateway and the GC worker may fail once each.
SPECIFICATION FairSpec
CONSTANTS
    a = a  n = n  d1 = d1  d2 = d2  c1 = c1  f1 = f1  f2 = f2
    u1 = u1  u2 = u2  g1 = g1  g2 = g2  b1 = b1  b2 = b2  b3 = b3
    Users = {a}
    Names = {n}
    Digests = {d1, d2}
    Chunks = {c1}
    Files = {f1, f2}
    Uploads = {u1, u2}
    Workers = {g1}
    Backends = {b1, b2}
    DigestOf <- MCDigestOf
    LayoutOf <- MCLayoutOf
    UserOf <- MCUserOf
    NameOf <- MCNameOf
    FileOf <- OtherFileOf
    LegacyRelations = {}
    NoUpload = NoUpload
    NoBackend = NoBackend
    NoFile = NoFile
    MaxEpoch = 2
    MaxGatewayFaults = 1
    MaxGcFaults = 1
INVARIANT NoWrongBytes
PROPERTIES GarbageCollected DeletesOnlyGarbage
