\* One publisher, two nodes that mirror the feed from it and from each other, one
\* write cut short and one eviction.
CONSTANTS
    c1 = c1  c2 = c2  n1 = n1  n2 = n2  t1 = t1  t2 = t2  w1 = w1  e1 = e1
    NoFile = NoFile  Torn = Torn  NoSeq = NoSeq  Author = Author
    Content = {c1, c2}
    Size <- OneSize
    MaxSeq = 2
    MaxDay = 1
    MaxFilesPerFeed = 5  MaxBytesPerFeed = 5  MaxBytesPerFile = 1  MaxFilesPerDay = 5
    Watchers = {w1}
    Editors = {}
    Nodes = {n1, n2}
    Tasks = {t1, t2}
    Home <- TwoHomes
    MaxSigned = 2
    MaxTorn = 1
    MaxEvictions = 1
SPECIFICATION Spec
INVARIANT TypeOK
INVARIANT MirrorAgrees
PROPERTY AppendOnly
PROPERTY AbstractSpec
PROPERTY OnlyEvictionForgets
CHECK_DEADLOCK FALSE
SYMMETRY NodeAndContentSymmetry
