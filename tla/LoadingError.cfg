CONSTANTS
    n1 = n1
    Nodes = {n1}
    Roots = Roots
    NoNode = NoNode
    MaxEvents = 1
    ClientOps = {"Create", "Destroy"}
    CallbackOps = {}
    Steps = 2
    Full = 2

SPECIFICATION Spec

INVARIANTS
    ErrorExits
