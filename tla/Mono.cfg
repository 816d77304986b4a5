SPECIFICATION FairSpec
CONSTANTS
    Threads = {t1, t2}
    Senders = {s1, s2}
    Null = Null
INVARIANTS TypeOK LocksBalance ReleasesWhatItRead CallsLive
PROPERTIES CallsEnd
