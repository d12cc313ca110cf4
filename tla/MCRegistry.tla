---------------------------- MODULE MCRegistry ----------------------------
(***************************************************************************)
(* Model values for Registry.  Ids are interchangeable; the two ends are   *)
(* not, because Sharers and Callers tell them apart.                       *)
(***************************************************************************)
EXTENDS Registry, TLC

CONSTANTS i1, i2, i3

ThreeIds == {i1, i2, i3}
TwoIds == {i1, i2}
OneId == {i1}
NoIds == {}
IdSymmetry == Permutations(Id)

OnlyHost == {Host}
OnlyGuest == {Guest}
Neither == {}
Both == {Host, Guest}
=============================================================================
