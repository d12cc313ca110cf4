\* A task dirties a window after the windows redrew.
SPECIFICATION Spec
CONSTANTS
    Nil = Nil
    Empty = Empty
    v1 = v1
    v2 = v2
    s1 = s1
    s2 = s2
    small = small
    large = large
    View <- TwoViews
    SurfaceId <- OneId
    Size <- TwoSizes
    MaxMounts = 1
    MaxWire = 1
SYMMETRY Symmetry
INVARIANTS
    NoRedrawLeft
