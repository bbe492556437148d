CONSTANTS
    f = f
    g = g
    d = d
    h1 = h1
    h2 = h2
    None = None
    Root = Root
    File = {f, g}
    Directory = {d}
    Parent <- MCParent
    Handle = {h1, h2}
    VolumeClusters = 5
    ClusterSize = 2
    MaxSize = 3
    Uses = {}
SPECIFICATION Spec
SYMMETRY Symmetry
VIEW View
INVARIANTS FilesTypeOK ChainsMatchFiles ReadIsExact OpenNodeExists
PROPERTY ImplementsStore
CHECK_DEADLOCK FALSE
