-------------------------- MODULE MCDownloadClient --------------------------
(* Values for DownloadClient: a page of URLs, two of which share a path. *)
EXTENDS DownloadClient

CONSTANTS p, q, r

MCPaths == {p, q, r}
PageOfFour == [i \in 0 .. 3 |-> CASE i = 0 -> p [] i = 1 -> q [] i = 2 -> p [] OTHER -> r]
=============================================================================
