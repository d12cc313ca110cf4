\* Two windows draw, of one plugin or two, on one surface or two.  The bound on
\* redraws ends every behaviour.
SPECIFICATION Spec
CONSTANTS
    Nil = Nil
    Fallback = Fallback
    Plugin = {p1, p2}
    Window = {w1, w2}
    Surface = {s1, s2}
    Shape = {h1}
    Family = {f1}
    Image = {i1, i2}
    Svg = {v1}
    Color = {c1, c2}
    MaxSprites = 2
    MaxTiles = 3
    MaxMinted = 3
    MaxRedraws = 2
    MaxWire = 2
SYMMETRY Symmetry
INVARIANTS
    ImagesArrive
    PaintsWhatWasDrawn
    ShippedOnce
    OneFontPerFamily
CHECK_DEADLOCK FALSE
