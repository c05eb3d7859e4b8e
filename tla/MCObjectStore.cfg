SPECIFICATION Spec
CONSTANTS
    None = None
    th1 = th1
    th2 = th2
    Threads = {th1, th2}
    Documents <- AllDocuments
    Batch = 1
    MaxObjects = 3
SYMMETRY ThreadSymmetry
INVARIANTS ListingsExact MediaListingsTrue
PROPERTIES StoreImplementsShelf
CHECK_DEADLOCK FALSE
