----------------------------- MODULE MCCacheTrim -----------------------------
(* CacheTrim with the digital photos and one phrase. *)
EXTENDS CacheTrim

CONSTANTS photo, photo2, phraseImage, photos, phrases, phrase

MCImages == {photo, photo2, phraseImage}
MCDirs == {photos, phrases, phrase}
MCParent == [e \in MCImages \cup MCDirs |->
  IF e \in {photo, photo2} THEN photos
  ELSE IF e = phraseImage THEN phrase
  ELSE IF e = phrase THEN phrases
  ELSE Base]
MCSizeOf == [f \in MCImages |-> IF f = photo THEN 2 ELSE 1]
=============================================================================
