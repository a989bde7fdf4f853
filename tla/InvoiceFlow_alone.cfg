SPECIFICATION FairSpec
CONSTANTS
    Photos = {p1, p2}
    NoPhoto = NoPhoto
    Convs = {c1, c2}
    NoConv = NoConv
    Dests = {d1, d2}
    NoDest = NoDest
    Handlers = {h1, h2}
    Overlap = FALSE
INVARIANT SavedOnce
PROPERTIES OneAtATime SavedAsShown ReadingEnds
CHECK_DEADLOCK FALSE
