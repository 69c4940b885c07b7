CONSTANTS
    n1 = n1
    n2 = n2
    n3 = n3
    Nodes = {n1, n2, n3}
    Roots = Roots
    NoNode = NoNode
    MaxEvents = 1
    ClientOps = {"Create", "CreateSub", "Destroy"}
    CallbackOps = {"Create"}

SPECIFICATION FairSpec

INVARIANTS
    SInv
    IteratorsValid
    ExistsExact
    SubwindowsGoFirst
    RequestsKept
    DirtyTellsRemoval

PROPERTIES
    FreedOnceTidied
    DestroyTakesEffect
    KeepsPromise
