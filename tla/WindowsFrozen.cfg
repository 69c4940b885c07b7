CONSTANTS
    n1 = n1
    n2 = n2
    Nodes = {n1, n2}
    Roots = Roots
    NoNode = NoNode
    MaxEvents = 1
    ClientOps = {"Create", "CreateSub", "Destroy", "Close", "Freeze", "SetFrozenEvent"}
    CallbackOps = {"Create"}

SPECIFICATION Spec
SYMMETRY Symmetric

INVARIANTS
    FrozenEventBound
