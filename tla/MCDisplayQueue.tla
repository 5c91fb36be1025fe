--------------------------- MODULE MCDisplayQueue ---------------------------
(* Instances of DisplayQueue for TLC.                                       *)
EXTENDS DisplayQueue, TLC

CONSTANTS p1, p2, blank

MCPictures == {p1, p2}
\* The game's size, an odd width and a height beyond the limit.
MCSizes    == {<<320, 240>>, <<321, 240>>, <<640, 577>>}

PictureSymmetry == Permutations(MCPictures)
=============================================================================
