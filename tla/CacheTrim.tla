------------------------------- MODULE CacheTrim -------------------------------
(***************************************************************************)
(* The check of the total size of the cache: +checkTotalCacheSize: and     *)
(* +deleteSomeCache:path: of ImageDirectoryCache.m on the files below the  *)
(* base directory.                                                         *)
(*                                                                         *)
(* Images lie in the directory of their item, which lies in that of its    *)
(* kind ("Phrases", "Sites", "Location"), or in "Digital Photos" itself.   *)
(* The date of a directory is that of the last change of its own entries,  *)
(* not of those further down.  The check is made once, when the screen     *)
(* saver starts, before anything is downloaded.                            *)
(***************************************************************************)
EXTENDS Integers, FiniteSets, FiniteSetsExt

CONSTANTS
  Images, Dirs,   \* files and directories that there may be
  Base,           \* the base directory
  Parent,         \* Parent[e]: directory of an image or of a directory
  SizeOf,         \* SizeOf[f]: MiB of an image
  MaxCacheSize,   \* MiB, of the settings
  MaxDate         \* bound: changes of the directories

VARIABLES
  date,      \* modification dates of the entries that exist
  now,
  todo,      \* entries listed by deleteSomeCache and not yet looked at
  amount,    \* its sizeMB, in thousandths
  deleted,   \* its deletedAmountMB, in the same units
  trimmed    \* history: images deleted by the check, with their dates

vars == <<date, now, todo, amount, deleted, trimmed>>

Entries == Images \cup Dirs
Existing == DOMAIN date

Init ==
  /\ date = [e \in {} |-> 0]
  /\ now = 0
  /\ todo = {}
  /\ amount = 0
  /\ deleted = 0
  /\ trimmed = {}
-----------------------------------------------------------------------------
(* The entry made or removed, and its directory, change now. *)

Room(e) == e \notin Existing /\ Parent[e] \in Existing \cup {Base}

(* -ensureDirectoryExists: or the download of an image, moved into place. *)
Create ==
  /\ todo = {}
  /\ now < MaxDate
  /\ now' = now + 1
  /\ \E e \in Entries :
       /\ Room(e)
       /\ date' = [x \in Existing \cup {e} |->
                    IF x \in {e, Parent[e]} THEN now + 1 ELSE date[x]]
  /\ UNCHANGED <<todo, amount, deleted, trimmed>>

(* An image that is too small is removed when it is shown. *)
RemoveFile ==
  /\ todo = {}
  /\ now < MaxDate
  /\ now' = now + 1
  /\ \E f \in Images \cap Existing :
       date' = [x \in Existing \ {f} |->
                 IF x = Parent[f] THEN now + 1 ELSE date[x]]
  /\ UNCHANGED <<todo, amount, deleted, trimmed>>
-----------------------------------------------------------------------------
(* The check.  Sizes are summed in MiB; sizeMB is 1.02 of their sum less    *)
(* the limit, and what is deleted is counted in units of 1024000 bytes:     *)
(* here all of them in thousandths of a MiB, so that an image of n MiB      *)
(* counts 1024 n.                                                           *)

TotalSize == MapThenSumSet(LAMBDA f : SizeOf[f], Images \cap Existing)

Excess == 1020 * TotalSize - 1000 * MaxCacheSize

(* All entries are listed, directories too, with the dates they have now. *)
CheckTotalCacheSize ==
  /\ todo = {}
  /\ TotalSize > MaxCacheSize
  /\ Excess >= 1000
  /\ todo' = {<<e, date[e]>> : e \in Existing}
  /\ amount' = Excess
  /\ deleted' = 0
  /\ trimmed' = {}
  /\ UNCHANGED <<date, now>>

Below(e) ==
  LET inside == {x \in Existing : Parent[x] = e}
  IN {e} \cup inside \cup {x \in Existing : Parent[x] \in inside}

(* The entry of the oldest date is removed, with all that is below it; a    *)
(* directory counts by its own size, which is next to nothing.              *)
DeleteOldest ==
  /\ todo # {}
  /\ deleted < amount
  /\ \E t \in todo :
       LET gone == Below(t[1])
       IN /\ \A u \in todo : t[2] <= u[2]
          /\ todo' = todo \ {t}
          /\ IF t[1] \in Existing
               THEN /\ date' = [x \in Existing \ gone |->
                                 IF x = Parent[t[1]] THEN now ELSE date[x]]
                    /\ deleted' = deleted
                         + (IF t[1] \in Images THEN 1024 * SizeOf[t[1]] ELSE 0)
                    /\ trimmed' = trimmed
                         \cup {<<f, date[f]>> : f \in gone \cap Images}
               ELSE UNCHANGED <<date, deleted, trimmed>>
  /\ UNCHANGED <<now, amount>>

(* Enough is deleted. *)
Enough ==
  /\ todo # {}
  /\ deleted >= amount
  /\ todo' = {}
  /\ UNCHANGED <<date, now, amount, deleted, trimmed>>
-----------------------------------------------------------------------------
Next == Create \/ RemoveFile \/ CheckTotalCacheSize \/ DeleteOldest \/ Enough

Spec == Init /\ [][Next]_vars
-----------------------------------------------------------------------------
(* "Only the oldest images are deleted": no image that a check, once over,  *)
(* has deleted was newer than one that it has kept.                         *)
OnlyOldestDeleted ==
  todo = {} =>
    \A t \in trimmed, f \in Images \cap Existing : t[2] <= date[f]
=============================================================================
