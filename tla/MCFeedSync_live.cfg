\* The author publishes up to three entries over two days, the quota admits one a day.
CONSTANTS
    c1 = c1  c2 = c2  n1 = n1  n2 = n2  t1 = t1  t2 = t2  w1 = w1  e1 = e1
    NoFile = NoFile  Torn = Torn  NoSeq = NoSeq  Author = Author
    Content = {c1, c2}
    Size <- OneSize
    MaxSeq = 3
    MaxDay = 2
    MaxFilesPerFeed = 5  MaxBytesPerFeed = 5  MaxBytesPerFile = 1  MaxFilesPerDay = 1
    Watchers = {}
    Editors = {e1}
    Nodes = {n1}
    Tasks = {t1}
    Home <- OneHome
    MaxSigned = 3
    MaxTorn = 0
    MaxEvictions = 0
SPECIFICATION FairSpec
INVARIANT AdvertisedVerifies
PROPERTY EventuallyMirrored
