---------------------------- MODULE DownloadClient ----------------------------
(***************************************************************************)
(* DownloadClient.m: one batch of URLs, downloaded one after the other     *)
(* with NSURLDownload under a watchdog timer.                              *)
(*                                                                         *)
(* Two threads meet here.  The worker runs -downloadNext and receives the  *)
(* callbacks of NSURLDownload and NSTimer in its run loop, one at a time;  *)
(* `pc' is where it stands.  Any other thread may call -setCanceled:, which *)
(* first sets a flag and then, as a second step, cancels the current       *)
(* download.  The worker looks at the flag first and calls its listener    *)
(* after, as two steps: a cancel may come between.                         *)
(*                                                                         *)
(* NSURLDownload is external: while a download is "loading" it may deliver *)
(* data as often as it likes, finish, fail or stay silent for ever, and it *)
(* delivers nothing once it was cancelled.  Each delivery moves the fire   *)
(* date of the watchdog on.                                                *)
(*                                                                         *)
(* The worker is the search thread, whose run loop ends with the view and  *)
(* takes timer and callbacks with it (SearchDownloadClient), or a thread   *)
(* of its own that ends with the batch while the caller of -download polls *)
(* (ImageDownloadHandler).                                                 *)
(***************************************************************************)
EXTENDS Integers, Sequences, FiniteSets

CONSTANTS
  Count,     \* [urlsArray count]
  Paths,     \* destination files
  SavePath,  \* SavePath[i]: destination of the i-th URL; a page may repeat one
  Host       \* the worker: "searchThread" or "downloadThread"

Index == 0 .. Count - 1

ASSUME BatchAssumption ==
  /\ Count \in Nat
  /\ SavePath \in [Index -> Paths]
  /\ Host \in {"searchThread", "downloadThread"}
  /\ Host = "downloadThread" => Count = 1

VARIABLES
  pc,               \* the worker: see PC
  urlsIndex,        \* URLs consumed so far
  downloadCount,    \* URLs downloaded so far
  currentDownload,  \* index of the NSURLDownload created last, or None
  timer,            \* see Timer
  timedOut,
  finished,
  canceled,
  canceling,        \* -setCanceled: has set the flag, not yet cancelled the download
  net,              \* external: state of each URL's NSURLDownload
  disk,             \* paths that exist (or are marked ".ignore")
  reports,          \* what the listener was told of each URL, in order
  lateCalls         \* history: listener calls that began once canceled was set

batchVars == <<urlsIndex, downloadCount, currentDownload, finished>>
timerVars == <<timer, timedOut>>
cancelVars == <<canceled, canceling>>
fileVars == <<net, disk>>
listenerVars == <<reports, lateCalls>>
vars == <<pc, batchVars, timerVars, cancelVars, fileVars, listenerVars>>

None == -1

(* The listener calls: where the worker stands between its last look at     *)
(* `canceled' and the call, and where it stands inside the call.            *)
InCall == [start |-> "create", data |-> "reset",
           failing |-> "error", finishing |-> "finish"]

(* "loop": in the run loop; "next": entering -downloadNext; "failed": at     *)
(* -failWithError:; "arm": the download is created, not yet timed;          *)
(* "exited": the worker has left its run loop for good, or was never        *)
(* needed.  The others are those of InCall; the worker creates the download *)
(* from "create" and puts the timer off from "reset".                       *)
PC == {"init", "next", "failed", "arm", "loop", "exited"}
        \cup DOMAIN InCall \cup {InCall[c] : c \in DOMAIN InCall}

(* "due": the time has run out, the callback has not begun; "fired": it has. *)
Timer == {"none", "armed", "due", "fired"}

TypeOK ==
  /\ pc \in PC
  /\ urlsIndex \in 0 .. Count
  /\ downloadCount \in 0 .. Count
  /\ currentDownload \in Index \cup {None}
  /\ timer \in Timer
  /\ timedOut \in BOOLEAN
  /\ finished \in BOOLEAN
  /\ canceled \in BOOLEAN
  /\ canceling \in BOOLEAN
  /\ net \in [Index -> {"idle", "loading", "cancelled", "ended"}]
  /\ disk \in SUBSET Paths
  /\ reports \in Seq([index : Index, ok : BOOLEAN])
  /\ lateCalls \in Nat

Init ==
  /\ pc = "init"
  /\ urlsIndex = 0
  /\ downloadCount = 0
  /\ currentDownload = None
  /\ timer = "none"
  /\ timedOut = FALSE
  /\ finished = FALSE
  /\ canceled = FALSE
  /\ canceling = FALSE
  /\ net = [i \in Index |-> "idle"]
  /\ disk \in SUBSET Paths
  /\ reports = <<>>
  /\ lateCalls = 0
-----------------------------------------------------------------------------
(* Helpers. *)

(* Faulty variant: looks at the URL after the one about to be consumed. *)
NextExists == urlsIndex + 1 < Count /\ SavePath[urlsIndex + 1] \in disk

(* -currentExists: the URL about to be consumed is already on disk. *)
CurrentExists == urlsIndex < Count /\ SavePath[urlsIndex] \in disk

(* -cleanup: the watchdog is stopped and the timed-out mark removed. *)
Cleanup == timer' = "none" /\ timedOut' = FALSE

(* An image of a location is downloaded to its final path, by a thread of   *)
(* its own; one of a search to a ".tmp" file, which its listener moves.     *)
Direct == Host = "downloadThread"

(* NSURLDownload is done with the i-th URL: what it has written to a final  *)
(* path stays only if it is whole.                                          *)
Written(i, whole) ==
  disk' = IF ~Direct THEN disk
          ELSE IF whole THEN disk \cup {SavePath[i]} ELSE disk \ {SavePath[i]}

(* [currentDownload cancel]: an NSURLDownload still loading stops, and      *)
(* deletes what it has written.                                             *)
Cancel ==
  IF currentDownload # None /\ net[currentDownload] = "loading"
    THEN /\ net' = [net EXCEPT ![currentDownload] = "cancelled"]
         /\ Written(currentDownload, FALSE)
    ELSE UNCHANGED fileVars

Report(ok) == reports' = Append(reports, [index |-> urlsIndex - 1, ok |-> ok])
-----------------------------------------------------------------------------
(* The worker outside its run loop. *)

(* The batch is handed to its worker: -download gives up at once when the   *)
(* file exists; otherwise -downloadNext is called.                          *)
Start ==
  /\ pc = "init"
  /\ pc' = IF Host = "downloadThread" /\ CurrentExists THEN "exited" ELSE "next"
  /\ UNCHANGED <<batchVars, timerVars, cancelVars, fileVars, listenerVars>>

(* -downloadNext: nothing more once cancelled; else the next URL, skipped   *)
(* as a failure when its file exists; else the batch is finished.           *)
DownloadNext ==
  /\ pc = "next"
  /\ \/ /\ canceled
        /\ pc' = "loop"
        /\ UNCHANGED <<urlsIndex, finished>>
     \/ /\ ~canceled
        /\ urlsIndex < Count
        /\ urlsIndex' = urlsIndex + 1
        /\ pc' = IF CurrentExists THEN "failed" ELSE "start"
        /\ UNCHANGED finished
     \/ /\ ~canceled
        /\ urlsIndex = Count
        /\ finished' = TRUE
        /\ pc' = "loop"
        /\ UNCHANGED urlsIndex
  /\ UNCHANGED <<downloadCount, currentDownload, timerVars, cancelVars,
                 fileVars, listenerVars>>

(* A call of the listener begins: -didStartDownload:, -didLoadData:,        *)
(* -didErrorOnDownload: or -didFinishDownload:.                             *)
CallListener ==
  /\ pc \in DOMAIN InCall
  /\ pc' = InCall[pc]
  /\ lateCalls' = lateCalls + (IF canceled THEN 1 ELSE 0)
  /\ UNCHANGED <<batchVars, timerVars, cancelVars, fileVars, reports>>

(* The NSURLDownload is created and starts loading. *)
CreateDownload ==
  /\ pc = "create"
  /\ currentDownload' = urlsIndex - 1
  /\ net' = [net EXCEPT ![urlsIndex - 1] = "loading"]
  /\ pc' = "arm"
  /\ UNCHANGED <<urlsIndex, downloadCount, finished, timerVars, cancelVars,
                 disk, listenerVars>>

(* Faulty variant: the download is left without its watchdog. *)
UntimedStart ==
  /\ pc = "arm"
  /\ pc' = "loop"
  /\ UNCHANGED <<batchVars, timerVars, cancelVars, fileVars, listenerVars>>

(* -startTimer, the last thing -downloadNext does. *)
StartTimer ==
  /\ pc = "arm"
  /\ timer' = "armed"
  /\ pc' = "loop"
  /\ UNCHANGED <<batchVars, timedOut, cancelVars, fileVars, listenerVars>>

(* -failWithError: up to its listener call: silent once cancelled, and then *)
(* without the cleanup.                                                     *)
FailWithError ==
  /\ pc = "failed"
  /\ pc' = IF canceled THEN "next" ELSE "failing"
  /\ UNCHANGED <<batchVars, timerVars, cancelVars, fileVars, listenerVars>>

(* The listener was told of the failure; cleanup; on to the next URL. *)
ReportError ==
  /\ pc = "error"
  /\ Report(FALSE)
  /\ Cleanup
  /\ pc' = "next"
  /\ UNCHANGED <<batchVars, cancelVars, fileVars, lateCalls>>

(* Faulty variant: the listener returns before the file is moved. *)
FinishWithoutMove ==
  /\ pc = "finish"
  /\ Report(TRUE)
  /\ Cleanup
  /\ pc' = "next"
  /\ UNCHANGED <<batchVars, cancelVars, fileVars, lateCalls>>

(* Faulty variant: a missing return lets a finished URL fail as well. *)
FinishTwice ==
  /\ pc = "finish"
  /\ Report(TRUE)
  /\ disk' = disk \cup {SavePath[urlsIndex - 1]}
  /\ Cleanup
  /\ pc' = "failed"
  /\ UNCHANGED <<batchVars, cancelVars, net, lateCalls>>

(* Faulty variant: the download is counted a second time. *)
FinishCountedAgain ==
  /\ pc = "finish"
  /\ Report(TRUE)
  /\ downloadCount' = downloadCount + 1
  /\ disk' = disk \cup {SavePath[urlsIndex - 1]}
  /\ Cleanup
  /\ pc' = "next"
  /\ UNCHANGED <<urlsIndex, currentDownload, finished, cancelVars, net, lateCalls>>

(* The listener was told of the download and, before it returned, has moved *)
(* a ".tmp" file to its final path; cleanup; on to the next URL.            *)
ReportFinish ==
  /\ pc = "finish"
  /\ Report(TRUE)
  /\ disk' = IF Direct THEN disk ELSE disk \cup {SavePath[urlsIndex - 1]}
  /\ Cleanup
  /\ pc' = "next"
  /\ UNCHANGED <<batchVars, cancelVars, net, lateCalls>>

(* Faulty variant: a datum stops the watchdog. *)
ResetStops ==
  /\ pc = "reset"
  /\ timer' = "none"
  /\ pc' = "loop"
  /\ UNCHANGED <<batchVars, timedOut, cancelVars, fileVars, listenerVars>>

(* -resetTimer: a timer that is still valid starts anew. *)
ResetTimer ==
  /\ pc = "reset"
  /\ timer' = IF timer = "due" THEN "armed" ELSE timer
  /\ pc' = "loop"
  /\ UNCHANGED <<batchVars, timedOut, cancelVars, fileVars, listenerVars>>

(* The worker leaves its run loop: a download thread when the batch is over, *)
(* the search thread whenever the view is stopped.                          *)
LoopEnds ==
  /\ pc = "loop"
  /\ Host = "downloadThread" => canceled \/ finished
  /\ pc' = "exited"
  /\ UNCHANGED <<batchVars, timerVars, cancelVars, fileVars, listenerVars>>
-----------------------------------------------------------------------------
(* Callbacks served by the worker's run loop. *)

(* Data of the i-th URL: NSURLDownload writes them, for a location image    *)
(* where it will stay, whether or not the worker hears of it.  It hears     *)
(* -downloadDidBegin:, -didReceiveResponse: and -didReceiveDataOfLength:,   *)
(* of which only the last tells the listener; all are ignored when the      *)
(* batch is cancelled or timed out.                                         *)
DidReceiveData(i) ==
  /\ net[i] = "loading"
  /\ disk' = IF Direct THEN disk \cup {SavePath[i]} ELSE disk
  /\ IF pc = "loop" /\ ~canceled /\ ~timedOut
       THEN pc' \in {"data", "reset"}
       ELSE UNCHANGED pc
  /\ UNCHANGED <<batchVars, timerVars, cancelVars, net, listenerVars>>

(* Faulty variant: a late success is reported after a cancel. *)
FinishUnguarded(i) ==
  /\ pc = "loop"
  /\ net[i] = "loading"
  /\ net' = [net EXCEPT ![i] = "ended"]
  /\ Written(i, TRUE)
  /\ downloadCount' = downloadCount + 1
  /\ pc' = "finishing"
  /\ UNCHANGED <<urlsIndex, currentDownload, finished, timerVars, cancelVars,
                 listenerVars>>

(* -downloadDidFinish: is ignored when the batch is cancelled or timed out. *)
DownloadDidFinish(i) ==
  /\ pc = "loop"
  /\ net[i] = "loading"
  /\ net' = [net EXCEPT ![i] = "ended"]
  /\ Written(i, TRUE)
  /\ IF canceled \/ timedOut
       THEN UNCHANGED <<downloadCount, pc>>
       ELSE downloadCount' = downloadCount + 1 /\ pc' = "finishing"
  /\ UNCHANGED <<urlsIndex, currentDownload, finished, timerVars, cancelVars,
                 listenerVars>>

(* -download:didFailWithError: has no such guard of its own. *)
DownloadDidFail(i) ==
  /\ pc = "loop"
  /\ net[i] = "loading"
  /\ net' = [net EXCEPT ![i] = "ended"]
  /\ Written(i, FALSE)
  /\ pc' = "failed"
  /\ UNCHANGED <<batchVars, timerVars, cancelVars, listenerVars>>

(* Faulty variant: a timed-out download is failed but not cancelled. *)
TimeoutKeepsLoading ==
  /\ pc = "loop"
  /\ timer = "due"
  /\ timer' = "fired"
  /\ IF canceled
       THEN UNCHANGED <<timedOut, pc>>
       ELSE timedOut' = TRUE /\ pc' = "failed"
  /\ UNCHANGED <<batchVars, cancelVars, fileVars, listenerVars>>

(* Faulty variant: the cancelled flag is tested before the download is stopped. *)
TimeoutIgnoredOnceCanceled ==
  /\ pc = "loop"
  /\ timer = "due"
  /\ timer' = "fired"
  /\ IF canceled
       THEN UNCHANGED <<timedOut, pc, fileVars>>
       ELSE timedOut' = TRUE /\ pc' = "failed" /\ Cancel
  /\ UNCHANGED <<batchVars, cancelVars, listenerVars>>

(* -timedOut: the timer fires.  The current download is cancelled even when *)
(* the batch is; only a batch that is not cancelled goes on to fail the URL.*)
(* (The timer is still valid inside its own callback, so the early return   *)
(* for an invalid timer is never taken.)                                    *)
TimedOut ==
  /\ pc = "loop"
  /\ timer = "due"
  /\ timer' = "fired"
  /\ Cancel
  /\ IF canceled
       THEN UNCHANGED <<timedOut, pc>>
       ELSE timedOut' = TRUE /\ pc' = "failed"
  /\ UNCHANGED <<batchVars, cancelVars, listenerVars>>
-----------------------------------------------------------------------------
(* Beside the worker. *)

(* The time of the watchdog runs out. *)
TimeoutPasses ==
  /\ timer = "armed"
  /\ timer' = "due"
  /\ UNCHANGED <<pc, batchVars, timedOut, cancelVars, fileVars, listenerVars>>

(* -setCanceled:YES, up to its @synchronized block. *)
SetCanceled ==
  /\ ~canceled
  /\ canceled' = TRUE
  /\ canceling' = TRUE
  /\ UNCHANGED <<pc, batchVars, timerVars, fileVars, listenerVars>>

(* Its @synchronized block: whatever download is current is cancelled. *)
CancelCurrent ==
  /\ canceling
  /\ canceling' = FALSE
  /\ Cancel
  /\ UNCHANGED <<pc, batchVars, timerVars, canceled, listenerVars>>
-----------------------------------------------------------------------------
Worker == DownloadNext \/ CallListener \/ CreateDownload \/ StartTimer
            \/ FailWithError \/ ReportError \/ ReportFinish \/ ResetTimer

Network == \E i \in Index :
             DidReceiveData(i) \/ DownloadDidFinish(i) \/ DownloadDidFail(i)

Next == Start \/ Worker \/ Network \/ TimeoutPasses \/ TimedOut \/ LoopEnds
          \/ SetCanceled \/ CancelCurrent

Spec == Init /\ [][Next]_vars

(* A thread that can take a step takes it, time passes, and a run loop that *)
(* is not left serves a timer that stays due.  A datum that arrives before  *)
(* the callback puts the timer off, as often as it likes.  Nothing is       *)
(* assumed of the network, nor of who cancels or stops the view.            *)
Fairness ==
  /\ WF_vars(Start)
  /\ WF_vars(Worker)
  /\ WF_vars(TimeoutPasses)
  /\ WF_vars(TimedOut)
  /\ WF_vars(CancelCurrent)

FairSpec == Spec /\ Fairness
-----------------------------------------------------------------------------
(* Properties. *)

Loading == {i \in Index : net[i] = "loading"}

(* A report is decided and not yet given. *)
Reporting == {"failing", "error", "finishing", "finish"}

(* The k-th report is about the k-th URL: each URL is reported at most once *)
(* and in order, though -downloadNext recurses over skipped URLs and        *)
(* callbacks, timer and cancellation compete for the same index.            *)
ReportsInOrder ==
  /\ \A k \in 1 .. Len(reports) : reports[k].index = k - 1
  /\ Len(reports) <= urlsIndex
  /\ finished => Len(reports) = Count

(* At most one NSURLDownload of the batch is on the network, and it is the  *)
(* one that -setCanceled: and the timer would cancel.                       *)
OneDownloadAtATime == Loading \subseteq {currentDownload}

(* Whenever the worker waits in its run loop on a batch that is neither     *)
(* finished nor cancelled, a download is loading and its watchdog runs; and *)
(* whatever is still loading there is watched, even after a cancel.         *)
NeverStalls ==
  pc = "loop" =>
    /\ ~canceled /\ ~finished => Loading = {urlsIndex - 1}
    /\ Loading # {} => timer \in {"armed", "due"}

(* A destination that two URLs of a page share is downloaded once: the      *)
(* second is skipped because the listener moved the first file in time.     *)
DownloadedOnce ==
  \A j, k \in 1 .. Len(reports) :
    /\ reports[j].ok
    /\ reports[k].ok
    /\ SavePath[reports[j].index] = SavePath[reports[k].index]
    => j = k

(* -getDownloadCount and the reports agree, but for a report under way. *)
CountMatchesReports ==
  downloadCount = Cardinality({k \in 1 .. Len(reports) : reports[k].ok})
                    + (IF pc \in {"finishing", "finish"} THEN 1 ELSE 0)

(* A cancel silences the batch, but for the one call of the listener whose  *)
(* test the worker has passed when the flag is set: not that call and then, *)
(* say, the report of the download it was about.                            *)
OneLateCall == lateCalls <= 1

(* A download created while -setCanceled: was passing by is not left        *)
(* running as long as the worker keeps its run loop, as in a reload: the    *)
(* timer, which a cancel leaves armed, stops it.  (A stop of the view takes *)
(* the run loop away, and the download with it: nothing more is delivered.) *)
OrphanStopped == canceled ~> [](pc = "exited" \/ Loading = {})

(* Refinement. *)
Listener == INSTANCE DownloadReports WITH
  outcomes <- [k \in 1 .. Len(reports) |-> reports[k].ok],
  pending <- pc \in Reporting

ReportsSpec == Listener!Spec

(* Data arrive for ever: the timer is put off again and again. *)
FedForEver == []<>(pc = "reset")

(* Whatever else the network does, silence included, a batch that keeps its *)
(* run loop goes on to its end or to its cancel.                            *)
ReportsGoOn == FedForEver \/ <>(pc = "exited") \/ Listener!Fairness
=============================================================================
