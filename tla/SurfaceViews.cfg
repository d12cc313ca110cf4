\* Mounts, layouts, replacements and drops, in every interleaving with turns.
SPECIFICATION FairSpec
CONSTANTS
    Nil = Nil
    Empty = Empty
    v1 = v1
    v2 = v2
    s1 = s1
    s2 = s2
    small = small
    large = large
    View <- TwoViews
    SurfaceId <- TwoIds
    Size <- ThreeSizes
    MaxMounts = 2
    MaxWire = 1
INVARIANTS
    AttachedViewMeasured
    AttachedViewLive
    ReleasedOnce
PROPERTIES
    DroppedViewCloses
