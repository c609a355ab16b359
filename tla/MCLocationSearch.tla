--------------------------- MODULE MCLocationSearch ---------------------------
(* LocationSearch on a page with links to three images. *)
EXTENDS LocationSearch

CONSTANTS p, q, r

MCPaths == {p, q, r}
=============================================================================
