--------------------------- MODULE MCImageManager ---------------------------
(* ImageManager with a few items and launches. *)
EXTENDS ImageManager, TLC

CONSTANTS a, b, l1, l2

TwoItems == {a, b}
OneItem == {a}
OneLaunch == {l1}
TwoLaunches == {l1, l2}
NoITunes == {}

ItemSymmetry == Permutations(Items)
=============================================================================
