CONSTANTS
    n1 = n1
    Nodes = {n1}
    Roots = Roots
    NoNode = NoNode
    MaxEvents = 1
    ClientOps = {"Create", "Destroy"}
    CallbackOps = {}
    Steps = 3
    Full = 2

SPECIFICATION FairSpec

INVARIANTS
    Inv
    BannerOutlivesLoading
    LabelCloseBehind

PROPERTIES
    LoopJoinsFirst
    LoadingEnds
