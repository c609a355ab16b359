---------------------------- MODULE LocationSearch ----------------------------
(***************************************************************************)
(* URLSearchParamItem.m and ImageDownloadHandler.m: one search of a        *)
(* location.  The page is scanned with four regular expressions, and each  *)
(* image that one of them finds is downloaded there and then by a          *)
(* DownloadClient of its own, on a thread of its own.                      *)
(*                                                                         *)
(* Three threads meet here.  The search thread scans, and polls while an   *)
(* image is downloaded.  The download thread of the last image is module   *)
(* DownloadClient; it waits for the main thread to add the image.  The     *)
(* main thread may stop the view: it marks the item as cancelled, then     *)
(* cancels whatever client the handler holds, and waits for the search     *)
(* thread for a while.  (That the view is started again before the search  *)
(* has ended, which may take the mark off the item, is not modelled.)      *)
(*                                                                         *)
(* NSURLDownload writes an image to the path where it stays, and deletes   *)
(* it when the download fails or is cancelled; adding the image moves      *)
(* nothing.  Nobody removes an image during the search but for one that is *)
(* too small, whose ".ignore" mark takes its place first.                  *)
(*                                                                         *)
(* A client that has finished is replaced by that of the next image while  *)
(* its thread may still be leaving its run loop; the thread does nothing   *)
(* else any more, and is forgotten here.                                   *)
(***************************************************************************)
EXTENDS Integers, Sequences, FiniteSets

CONSTANTS
  Paths,       \* destinations of the images the page links to
  NoPath,
  MaxCount,    \* [[RWOptions sharedInstance] getLocationMaxCount]
  MaxMatches   \* bound: matches on the page

ASSUME LocationAssumption ==
  /\ NoPath \notin Paths
  /\ MaxCount \in Nat
  /\ MaxMatches \in Nat

VARIABLES
  pc, urlsIndex, downloadCount, currentDownload, timer, timedOut, finished,
  canceled, canceling, net, reports,
  lateCalls,          \* these 12: those of the handler's downloadClient
  match,              \* its destination, or NoPath before the first match
  files,              \* destinations that exist, or are marked ".ignore"
  added,              \* added[p]: times an image was added to the manager's list
  handlerCount,       \* -[ImageDownloadHandler downloadCount]
  itemCanceled,       \* canceled of the search item
  search,             \* where the search thread stands
  pass,               \* regular expression in use
  matches,            \* matches so far
  late,               \* history: downloads begun since the view is being stopped
  lastDownloadCount,  \* of the search item
  main                \* where the main thread stands

clientVars == <<pc, urlsIndex, downloadCount, currentDownload, timer, timedOut,
                finished, canceled, canceling, net, reports, lateCalls>>
pageVars == <<pass, matches>>
vars == <<clientVars, match, files, added, handlerCount, itemCanceled, search,
          pageVars, late, lastDownloadCount, main>>

Passes == 4

(* The client of the current match: a batch of one, on a thread of its own. *)
Client == INSTANCE DownloadClient WITH
  Count <- 1,
  Paths <- {"file"},
  SavePath <- [i \in {0} |-> "file"],
  Host <- "downloadThread",
  disk <- IF match \in files THEN {"file"} ELSE {}

TypeOK ==
  /\ Client!TypeOK
  /\ match \in Paths \cup {NoPath}
  /\ files \subseteq Paths
  /\ added \in [Paths -> Nat]
  /\ handlerCount \in 0 .. MaxMatches
  /\ itemCanceled \in BOOLEAN
  /\ search \in {"pass", "match", "poll", "matched", "completed", "over"}
  /\ pass \in 1 .. Passes
  /\ matches \in 0 .. MaxMatches
  /\ late \in Nat
  /\ lastDownloadCount \in 0 .. MaxMatches
  /\ main \in {"running", "item", "handler", "waiting", "stopped"}

(* Entering -parseSearchData:.  The item may still bear the mark of a stop  *)
(* before this search: only -setSearchItem: takes it away.                  *)
Init ==
  /\ match = NoPath
  /\ files \in SUBSET Paths
  /\ Client!Init
  /\ added = [p \in Paths |-> 0]
  /\ handlerCount = 0
  /\ itemCanceled \in BOOLEAN
  /\ search = "pass"
  /\ pass = 1
  /\ matches = 0
  /\ late = 0
  /\ lastDownloadCount = 0
  /\ main = "running"
-----------------------------------------------------------------------------
(* The search thread. *)

SearchGoes(from, to) == search = from /\ search' = to

(* The next regular expression, or none is left. *)
NextPass ==
  IF pass < Passes
    THEN pass' = pass + 1 /\ search' = "pass"
    ELSE pass' = pass /\ search' = "completed"

(* -searchData: begins; a cancelled item is not scanned, with this regular  *)
(* expression or any other.                                                 *)
SearchData ==
  /\ search = "pass"
  /\ search' = IF itemCanceled THEN "completed" ELSE "match"
  /\ UNCHANGED <<clientVars, match, files, added, handlerCount, itemCanceled,
                 pageVars, late, lastDownloadCount, main>>

(* -handleMatch: finds a URL, -didFindMatch: creates a client for it. *)
DidFindMatch ==
  /\ SearchGoes("match", "poll")
  /\ matches < MaxMatches
  /\ matches' = matches + 1
  /\ match' \in Paths
  /\ pc' = "init"
  /\ urlsIndex' = 0
  /\ downloadCount' = 0
  /\ currentDownload' = Client!None
  /\ timer' = "none"
  /\ timedOut' = FALSE
  /\ finished' = FALSE
  /\ canceled' = FALSE
  /\ canceling' = FALSE
  /\ net' = [i \in {0} |-> "idle"]
  /\ reports' = <<>>
  /\ lateCalls' = 0
  /\ late' = late + (IF main = "running" THEN 0 ELSE 1)
  /\ UNCHANGED <<files, added, handlerCount, itemCanceled, pass,
                 lastDownloadCount, main>>

(* -handleMatch: cannot make a URL of the match. *)
InvalidMatch ==
  /\ SearchGoes("match", "matched")
  /\ matches < MaxMatches
  /\ matches' = matches + 1
  /\ UNCHANGED <<clientVars, match, files, added, handlerCount, itemCanceled,
                 pass, late, lastDownloadCount, main>>

(* There are no more matches. *)
NoMoreMatches ==
  /\ search = "match"
  /\ NextPass
  /\ UNCHANGED <<clientVars, match, files, added, handlerCount, itemCanceled,
                 matches, late, lastDownloadCount, main>>

(* A step of the client that concerns no one else, *)
Alone ==
  UNCHANGED <<match, files, added, handlerCount, itemCanceled, search, pageVars,
              late, lastDownloadCount, main>>

(* or only the file of its image, which it may create or delete. *)
FileOnly ==
  /\ UNCHANGED <<match, added, handlerCount, itemCanceled, search, pageVars,
                 late, lastDownloadCount, main>>
  /\ files' \in {files, files \cup {match}, files \ {match}}

(* -download looks whether the file exists, and launches the thread if not. *)
Download ==
  /\ search = "poll"
  /\ Alone
  /\ Client!Start

(* It returns when the client is cancelled or finished. *)
DownloadReturns ==
  /\ SearchGoes("poll", "matched")
  /\ pc # "init"
  /\ canceled \/ finished \/ pc = "exited"
  /\ UNCHANGED <<clientVars, match, files, added, handlerCount, itemCanceled,
                 pageVars, late, lastDownloadCount, main>>

(* Faulty variant: the limit is passed by one. *)
LimitPassed ==
  /\ search = "matched"
  /\ IF itemCanceled
       THEN NextPass
       ELSE search' = (IF handlerCount > MaxCount THEN "completed" ELSE "match")
              /\ UNCHANGED pass
  /\ UNCHANGED <<clientVars, match, files, added, handlerCount, itemCanceled,
                 matches, late, lastDownloadCount, main>>

(* After each match: a cancelled item is left to the test at the next pass, *)
(* the limit of images ends the search.                                     *)
Matched ==
  /\ search = "matched"
  /\ IF itemCanceled
       THEN NextPass
       ELSE search' = (IF handlerCount >= MaxCount THEN "completed" ELSE "match")
              /\ UNCHANGED pass
  /\ UNCHANGED <<clientVars, match, files, added, handlerCount, itemCanceled,
                 matches, late, lastDownloadCount, main>>

(* -didCompleteMatchSearch: the transfer is over, cancelled or not, and the *)
(* item saved as searched now; its download count is that of the handler.   *)
DidCompleteMatchSearch ==
  /\ SearchGoes("completed", "over")
  /\ lastDownloadCount' = handlerCount
  /\ UNCHANGED <<clientVars, match, files, added, handlerCount, itemCanceled,
                 pageVars, late, main>>
-----------------------------------------------------------------------------
(* The download thread. *)

(* Steps of the client on its way.  When it calls the handler with an image *)
(* that is whole, -didFinishDownload: of the handler counts it, up to its   *)
(* wait for the main thread.                                                *)
DownloadThread ==
  \/ /\ Alone
     /\ \/ Client!DownloadNext \/ Client!CreateDownload \/ Client!StartTimer
        \/ Client!FailWithError \/ Client!ReportError \/ Client!ResetTimer
  \/ FileOnly /\ Client!TimedOut

(* Faulty variant: the handler counts the images that were begun. *)
BegunCounted ==
  /\ UNCHANGED <<match, files, added, itemCanceled, search, pageVars, late,
                 lastDownloadCount, main>>
  /\ handlerCount' = handlerCount + (IF pc = "start" THEN 1 ELSE 0)
  /\ Client!CallListener

CallListener ==
  /\ UNCHANGED <<match, files, added, itemCanceled, search, pageVars, late,
                 lastDownloadCount, main>>
  /\ handlerCount' = handlerCount + (IF pc = "finishing" THEN 1 ELSE 0)
  /\ Client!CallListener

(* The main thread adds the image, unless it is inside -setCanceled:        *)
(* itself.                                                                  *)
AddToImageArray ==
  /\ main \in {"running", "stopped"}
  /\ pc = "finish"
  /\ added' = [added EXCEPT ![match] = @ + 1]
  /\ UNCHANGED <<match, files, handlerCount, itemCanceled, search, pageVars,
                 late, lastDownloadCount, main>>
  /\ Client!ReportFinish

(* -downloadThreadRun leaves its loop when the batch is over, and with it   *)
(* go its callbacks.                                                        *)
LoopEnds == Alone /\ Client!LoopEnds

(* The network: data, the file, the end of the download. *)
Network ==
  /\ FileOnly
  /\ \/ Client!DidReceiveData(0)
     \/ Client!DownloadDidFinish(0)
     \/ Client!DownloadDidFail(0)

TimeoutPasses == Alone /\ Client!TimeoutPasses
-----------------------------------------------------------------------------
(* The main thread stops the view. *)

(* Faulty variant: the item is not told. *)
ItemNotTold ==
  /\ main = "running"
  /\ main' = "item"
  /\ UNCHANGED <<clientVars, match, files, added, handlerCount, itemCanceled,
                 search, pageVars, late, lastDownloadCount>>

(* -[ImageManager setCanceled:YES] first marks the item, *)
CancelItem ==
  /\ main = "running"
  /\ main' = "item"
  /\ itemCanceled' = TRUE
  /\ UNCHANGED <<clientVars, match, files, added, handlerCount, search, pageVars,
                 late, lastDownloadCount>>

(* then has the handler cancel the client it holds: its flag, *)
CancelHandler ==
  /\ main = "item"
  /\ main' = "handler"
  /\ UNCHANGED <<match, files, added, handlerCount, itemCanceled, search,
                 pageVars, late, lastDownloadCount>>
  /\ IF match = NoPath THEN UNCHANGED clientVars ELSE Client!SetCanceled

(* then its download; a client that was replaced in between had ended. *)
CancelDownload ==
  /\ main = "handler"
  /\ main' = "waiting"
  /\ UNCHANGED <<match, added, handlerCount, itemCanceled, search, pageVars,
                 late, lastDownloadCount>>
  /\ IF canceling
       THEN /\ files' \in {files, files \ {match}}
            /\ Client!CancelCurrent
       ELSE UNCHANGED <<clientVars, files>>

(* Faulty variant: waits as long as it takes. *)
StoppedOnceOver ==
  /\ main = "waiting"
  /\ search = "over"
  /\ main' = "stopped"
  /\ UNCHANGED <<clientVars, match, files, added, handlerCount, itemCanceled,
                 search, pageVars, late, lastDownloadCount>>

(* The wait ends with the search thread, or after 200 naps of 0.05 s. *)
Stopped ==
  /\ main = "waiting"
  /\ main' = "stopped"
  /\ UNCHANGED <<clientVars, match, files, added, handlerCount, itemCanceled,
                 search, pageVars, late, lastDownloadCount>>
-----------------------------------------------------------------------------
SearchThread ==
  \/ SearchData \/ DidFindMatch \/ InvalidMatch \/ NoMoreMatches \/ Download
  \/ DownloadReturns \/ Matched \/ DidCompleteMatchSearch

Stopping == CancelHandler \/ CancelDownload \/ Stopped

Next ==
  \/ SearchThread
  \/ DownloadThread \/ CallListener \/ AddToImageArray \/ LoopEnds
  \/ Network \/ TimeoutPasses
  \/ CancelItem \/ Stopping

Spec == Init /\ [][Next]_vars

(* Threads go on, the main thread too once it stops the view, time passes,  *)
(* and a page has an end.  Nothing is assumed of the network, nor that      *)
(* anyone stops.                                                            *)
Fairness ==
  /\ WF_vars(SearchThread)
  /\ WF_vars(DownloadThread \/ CallListener \/ LoopEnds)
  /\ WF_vars(TimeoutPasses)
  /\ WF_vars(AddToImageArray)
  /\ WF_vars(Stopping)

FairSpec == Spec /\ Fairness
-----------------------------------------------------------------------------
(* Properties. *)

(* A search downloads no more images than the settings allow, though the    *)
(* limit is looked at after a download, in all four passes; a limit of zero *)
(* still lets one through.                                                  *)
LimitRespected == handlerCount <= (IF MaxCount = 0 THEN 1 ELSE MaxCount)

(* An image to which the page links more than once is downloaded once: its  *)
(* file is there, whole, before the search thread looks at the next match;  *)
(* and what a failure, a timeout or a cancel deletes was never added.       *)
DownloadedOnce == \A p \in Paths : added[p] <= 1

(* The count shown for a location is that of the images added by a search   *)
(* that nobody cancelled, although two threads keep it.                     *)
CountOfImagesAdded ==
  search = "over" /\ ~itemCanceled =>
    lastDownloadCount = Cardinality({p \in Paths : added[p] > 0})

(* A stop ends the search: at most one more download begins, that of a      *)
(* match already past the tests, when the cancel found the client of the    *)
(* match before.                                                            *)
StopIsHeeded == [][matches' # matches /\ search' = "poll" => late = 0]_vars

(* Data of one image arrive for ever: its watchdog is put off each time. *)
FedForEver == []<>(pc = "reset")

(* Else a search ends, whatever the network does, silence included, and     *)
(* whenever the view is stopped, also when the cancel found no download.    *)
SearchEnds == FedForEver \/ <>(search = "over")
=============================================================================
