--------------------------- MODULE MCSurfaceView ---------------------------
(***************************************************************************)
(* Model values for SurfaceView.  Views are interchangeable, and so are    *)
(* the ids of the surface; sizes are not, because of the collapsed one.    *)
(***************************************************************************)
EXTENDS SurfaceView

CONSTANTS v1, v2, s1, s2, small, large

TwoViews == {v1, v2}
OneId == {s1}
TwoIds == {s1, s2}
TwoSizes == {Empty, small}
ThreeSizes == {Empty, small, large}
Symmetry == Permutations(View) \cup Permutations(SurfaceId)
=============================================================================
