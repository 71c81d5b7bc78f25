CONSTANTS
    n1 = n1
    n2 = n2
    n3 = n3
    Threads = {t1}
    Nodes <- MCNodes
    Links <- MCLinks
SPECIFICATION Spec
SYMMETRY Symmetry
INVARIANT CacheNeverAhead
