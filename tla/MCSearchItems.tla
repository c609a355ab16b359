---------------------------- MODULE MCSearchItems ----------------------------
(* SearchItems with a phrase of an older version and a location to add. *)
EXTENDS SearchItems

CONSTANTS phrase, location

MCPhrases == {phrase}
MCLocations == {location}
MCLegacy == <<phrase>>
=============================================================================
