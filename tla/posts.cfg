SPECIFICATION Spec
CONSTANTS
    e1 = e1
    e2 = e2
    Ids = {1, 2}
    Slugs = {"s", "t"}
    Topics = {"", "go"}
    Editors = {e1, e2}
    PreviewTtl = 1
    MaxTime = 2
    MaxWrites = 3
SYMMETRY EditorSymmetry
CHECK_DEADLOCK FALSE
INVARIANTS
    TypeOK
    SurfacesAgree
PROPERTIES
    KeepsOmitted
