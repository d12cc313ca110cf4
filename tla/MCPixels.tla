------------------------------ MODULE MCPixels ------------------------------
(***************************************************************************)
(* Model values for Pixels.  Plugins, windows, surfaces, images and        *)
(* colors are interchangeable.                                             *)
(***************************************************************************)
EXTENDS Pixels, TLC

Symmetry == Permutations(Plugin) \cup Permutations(Window)
            \cup Permutations(Surface) \cup Permutations(Image)
            \cup Permutations(Color)
=============================================================================
