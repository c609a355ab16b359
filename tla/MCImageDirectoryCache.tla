------------------------ MODULE MCImageDirectoryCache ------------------------
(* ImageDirectoryCache with the directories of two songs, one of which has  *)
(* no images, and of one location item.                                    *)
EXTENDS ImageDirectoryCache

CONSTANTS f1, f2, g1, song1, song2, location

MCImages == {f1, f2, g1}
MCDirs == {song1, song2, location}
MCDirOf == [f \in MCImages |-> IF f = g1 THEN location ELSE song1]
MCLocation == {location}
MCSongs == {song1, song2}
=============================================================================
