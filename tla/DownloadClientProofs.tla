------------------------ MODULE DownloadClientProofs ------------------------
(***************************************************************************)
(* Proofs about DownloadClient, for every batch, every destination and     *)
(* either kind of worker.                                                  *)
(***************************************************************************)
EXTENDS DownloadClient, SequenceTheorems, FiniteSetTheorems, TLAPS

(* The listener calls, spelled out. *)
LEMMA Calls ==
  /\ DOMAIN InCall = {"start", "data", "failing", "finishing"}
  /\ InCall["start"] = "create" /\ InCall["data"] = "reset"
  /\ InCall["failing"] = "error" /\ InCall["finishing"] = "finish"
  BY DEF InCall

LEMMA PCs ==
  PC = {"init", "next", "failed", "arm", "loop", "exited", "start", "create",
        "data", "reset", "failing", "error", "finishing", "finish"}
  <1>1. {InCall[c] : c \in DOMAIN InCall} = {"create", "reset", "error", "finish"}
    <2>1. DOMAIN InCall = {"start", "data", "failing", "finishing"}
      BY Calls
    <2> QED BY <2>1, Calls
  <1> QED BY <1>1, Calls DEF PC

(* What [currentDownload cancel] leaves. *)
LEMMA CancelEffect ==
  ASSUME TypeOK, Cancel
  PROVE  /\ net' \in [Index -> {"idle", "loading", "cancelled", "ended"}]
         /\ disk' \in SUBSET Paths
         /\ ~Direct => disk' = disk
         /\ \A j \in Index : net'[j] = "loading" =>
              net[j] = "loading" /\ j # currentDownload
  BY BatchAssumption DEF TypeOK, Cancel, Written, fileVars, Index, None

(* The worker has taken a URL from the batch and not returned to its loop,  *)
(* or serves a callback that tells of data.                                 *)
Underway == {"failed", "failing", "error", "start", "create", "arm", "data",
             "reset", "finishing", "finish"}

(* The URL taken from the batch whose report is still owed. *)
Outstanding ==
  IF pc \in Underway \/ (pc = "loop" /\ ~finished) THEN 1 ELSE 0

(* Reports keep pace with urlsIndex: exactly while the batch is not         *)
(* cancelled or a report is under way, as an upper bound otherwise.         *)
Pace ==
  /\ \A k \in 1 .. Len(reports) : reports[k].index = k - 1
  /\ Len(reports) <= urlsIndex
  /\ pc \in Underway => urlsIndex > 0
  /\ pc \in Reporting => urlsIndex = Len(reports) + 1
  /\ ~canceled /\ pc # "exited" => urlsIndex = Len(reports) + Outstanding
  /\ pc = "init" => urlsIndex = 0
  /\ currentDownload < urlsIndex
  /\ downloadCount <= Len(reports) + (IF pc \in {"finishing", "finish"} THEN 1 ELSE 0)

(* The timer is running or about to call. *)
Ticking == timer \in {"armed", "due"}

(* The worker is in its run loop, or serves a callback that tells of data. *)
InLoop == pc \in {"loop", "data", "reset"}

(* A finished batch is complete and idle. *)
Finished ==
  finished => /\ pc \in {"loop", "exited"}
              /\ Len(reports) = Count
              /\ \A i \in Index : net[i] # "loading"
              /\ ~Ticking

(* Only the current download loads, only where the worker can be called     *)
(* back about it, and under a running timer once the worker is in its loop. *)
Watched ==
  /\ \A i \in Index : net[i] = "loading" =>
       /\ i = currentDownload
       /\ pc \in {"arm", "exited"} \/ InLoop
       /\ InLoop => Ticking
  /\ Ticking => currentDownload \in Index
  /\ pc = "arm" \/ (InLoop /\ ~canceled /\ ~finished) =>
       /\ currentDownload = urlsIndex - 1
       /\ ~canceled => net[currentDownload] = "loading"
  /\ pc \in {"init", "next"} /\ ~canceled => ~Ticking
  /\ timedOut => canceled \/ pc \in {"failed", "failing", "error"}
  /\ canceling => canceled

IInv == TypeOK /\ Pace /\ Finished /\ Watched
-----------------------------------------------------------------------------
LEMMA InitIInv == Init => IInv
  <1> SUFFICES ASSUME Init PROVE IInv
    OBVIOUS
  <1> USE BatchAssumption, PCs DEF Init, Index, None, Ticking, InLoop
  <1>1. TypeOK
    <2>1. reports \in Seq([index : Index, ok : BOOLEAN])
      BY DEF Init
    <2>2. /\ urlsIndex \in 0 .. Count /\ downloadCount \in 0 .. Count
          /\ currentDownload \in Index \cup {None}
      OBVIOUS
    <2>3. net \in [Index -> {"idle", "loading", "cancelled", "ended"}]
      OBVIOUS
    <2> QED BY <2>1, <2>2, <2>3 DEF TypeOK, Timer
  <1>2. Pace
    BY DEF Pace, Outstanding, Reporting, Underway
  <1>3. Finished /\ Watched
    BY DEF Finished, Watched
  <1> QED BY <1>1, <1>2, <1>3 DEF IInv

LEMMA NextIInv == IInv /\ [Next]_vars => IInv'
  <1> SUFFICES ASSUME IInv, [Next]_vars PROVE IInv'
    OBVIOUS
  <1> USE BatchAssumption, PCs
      DEF Index, None, Timer, Reporting, Underway, Ticking, InLoop,
          batchVars, timerVars, cancelVars, fileVars, listenerVars
  <1>1. CASE Start
    <2>1. TypeOK' BY <1>1 DEF Start, IInv, TypeOK
    <2>2. Pace' BY <1>1 DEF Start, IInv, TypeOK, Pace, Outstanding
    <2>3. Finished' BY <1>1 DEF Start, IInv, TypeOK, Finished
    <2>4. Watched' BY <1>1 DEF Start, IInv, TypeOK, Watched
    <2> QED BY <2>1, <2>2, <2>3, <2>4 DEF IInv
  <1>14. CASE CallListener
    <2>1. /\ \/ pc = "start" /\ pc' = "create"
             \/ pc = "data" /\ pc' = "reset"
             \/ pc = "failing" /\ pc' = "error"
             \/ pc = "finishing" /\ pc' = "finish"
          /\ lateCalls' \in Nat
          /\ UNCHANGED <<batchVars, timerVars, cancelVars, fileVars, reports>>
      BY <1>14, Calls DEF CallListener, IInv, TypeOK
    <2>2. TypeOK' BY <2>1 DEF IInv, TypeOK
    <2>3. Pace' BY <2>1 DEF IInv, TypeOK, Pace, Outstanding
    <2>4. Finished' BY <2>1 DEF IInv, TypeOK, Finished
    <2>5. Watched' BY <2>1 DEF IInv, TypeOK, Watched
    <2> QED BY <2>2, <2>3, <2>4, <2>5 DEF IInv
  <1>2. CASE DownloadNext
    <2> USE DEF IInv, TypeOK
    <2>1. CASE canceled /\ pc' = "loop" /\ UNCHANGED <<urlsIndex, finished>>
      <3>1. TypeOK' BY <1>2, <2>1 DEF DownloadNext
      <3>2. Pace' BY <1>2, <2>1 DEF DownloadNext, Pace
      <3>3. Finished' /\ Watched' BY <1>2, <2>1 DEF DownloadNext, Finished, Watched
      <3> QED BY <3>1, <3>2, <3>3
    <2>2. CASE /\ ~canceled
               /\ urlsIndex < Count
               /\ urlsIndex' = urlsIndex + 1
               /\ pc' \in {"failed", "start"}
               /\ UNCHANGED finished
      <3>1. TypeOK' BY <1>2, <2>2 DEF DownloadNext
      <3>2. Pace' BY <1>2, <2>2 DEF DownloadNext, Pace, Outstanding
      <3>3. Finished' /\ Watched' BY <1>2, <2>2 DEF DownloadNext, Finished, Watched
      <3> QED BY <3>1, <3>2, <3>3
    <2>3. CASE ~canceled /\ urlsIndex = Count /\ finished' = TRUE /\ pc' = "loop"
                 /\ UNCHANGED urlsIndex
      <3>1. TypeOK' BY <1>2, <2>3 DEF DownloadNext
      <3>2. Len(reports) = Count BY <1>2, <2>3 DEF DownloadNext, Pace, Outstanding
      <3>3. Pace' BY <1>2, <2>3, <3>2 DEF DownloadNext, Pace, Outstanding
      <3>4. Finished' /\ Watched'
        BY <1>2, <2>3, <3>2 DEF DownloadNext, Finished, Watched
      <3> QED BY <3>1, <3>3, <3>4
    <2> QED BY <1>2, <2>1, <2>2, <2>3 DEF DownloadNext
  <1>3. CASE CreateDownload
    <2>1. TypeOK' BY <1>3 DEF CreateDownload, IInv, TypeOK, Pace
    <2>2. Pace' BY <1>3 DEF CreateDownload, IInv, TypeOK, Pace, Outstanding
    <2>3. Finished' BY <1>3 DEF CreateDownload, IInv, TypeOK, Finished
    <2>4. Watched' BY <1>3 DEF CreateDownload, IInv, TypeOK, Watched, Pace
    <2> QED BY <2>1, <2>2, <2>3, <2>4 DEF IInv
  <1>4. CASE StartTimer
    <2>1. TypeOK' BY <1>4 DEF StartTimer, IInv, TypeOK
    <2>2. Pace' BY <1>4 DEF StartTimer, IInv, TypeOK, Pace, Outstanding, Finished
    <2>3. Finished' BY <1>4 DEF StartTimer, IInv, TypeOK, Finished
    <2>4. Watched' BY <1>4 DEF StartTimer, IInv, TypeOK, Watched, Pace
    <2> QED BY <2>1, <2>2, <2>3, <2>4 DEF IInv
  <1>5. CASE FailWithError
    <2>1. TypeOK' BY <1>5 DEF FailWithError, IInv, TypeOK
    <2>2. Pace' BY <1>5 DEF FailWithError, IInv, TypeOK, Pace, Outstanding
    <2>3. Finished' BY <1>5 DEF FailWithError, IInv, TypeOK, Finished
    <2>4. Watched' BY <1>5 DEF FailWithError, IInv, TypeOK, Watched
    <2> QED BY <2>1, <2>2, <2>3, <2>4 DEF IInv
  <1>6. ASSUME ReportError \/ ReportFinish PROVE IInv'
    <2> DEFINE new == [index |-> urlsIndex - 1, ok |-> pc = "finish"]
    <2>1. /\ pc \in {"error", "finish"}
          /\ pc' = "next"
          /\ reports' = Append(reports, new)
          /\ timer' = "none" /\ timedOut' = FALSE
          /\ disk' \in SUBSET Paths
          /\ UNCHANGED <<urlsIndex, downloadCount, currentDownload, finished,
                         canceled, canceling, net, lateCalls>>
      <3>1. CASE ReportError
        BY <3>1 DEF ReportError, Report, Cleanup, IInv, TypeOK
      <3>2. CASE ReportFinish
        <4>1. SavePath[urlsIndex - 1] \in Paths
          BY <3>2 DEF ReportFinish, IInv, TypeOK, Pace
        <4> QED BY <3>2, <4>1 DEF ReportFinish, Report, Cleanup, IInv, TypeOK
      <3> QED BY <1>6, <3>1, <3>2
    <2>2. new \in [index : Index, ok : BOOLEAN]
      BY <2>1 DEF IInv, TypeOK, Pace
    <2>3. /\ reports' \in Seq([index : Index, ok : BOOLEAN])
          /\ Len(reports') = Len(reports) + 1
          /\ \A k \in 1 .. Len(reports) : reports'[k] = reports[k]
          /\ reports'[Len(reports) + 1] = new
      BY <2>1, <2>2 DEF IInv, TypeOK
    <2>4. TypeOK' BY <2>1, <2>3 DEF IInv, TypeOK
    <2>5. Pace'
      <3>1. urlsIndex = Len(reports) + 1 /\ Len(reports) \in Nat
        BY <2>1 DEF IInv, TypeOK, Pace
      <3>2. ASSUME NEW k \in 1 .. Len(reports') PROVE reports'[k].index = k - 1
        <4>1. CASE k = Len(reports) + 1
          BY <3>1, <2>3, <4>1
        <4>2. CASE k \in 1 .. Len(reports)
          BY <2>3, <4>2 DEF IInv, Pace
        <4> QED BY <3>1, <2>3, <4>1, <4>2
      <3> QED BY <3>1, <3>2, <2>1, <2>3 DEF IInv, TypeOK, Pace, Outstanding
    <2>6. Finished' BY <2>1 DEF IInv, TypeOK, Finished
    <2>7. Watched' BY <2>1 DEF IInv, TypeOK, Watched
    <2> QED BY <2>4, <2>5, <2>6, <2>7 DEF IInv
  <1>7. ASSUME NEW i \in Index, DownloadDidFinish(i) PROVE IInv'
    <2>1. TypeOK' BY <1>7 DEF DownloadDidFinish, Written, IInv, TypeOK, Pace, Outstanding, Finished, Watched
    <2>2. Pace' BY <1>7 DEF DownloadDidFinish, IInv, TypeOK, Pace, Outstanding, Finished
    <2>3. Finished' BY <1>7 DEF DownloadDidFinish, IInv, TypeOK, Finished
    <2>4. Watched'
      <3>1. CASE canceled
        BY <1>7, <3>1 DEF DownloadDidFinish, IInv, TypeOK, Watched
      <3>2. CASE ~canceled
        <4>1. ~timedOut /\ pc' = "finishing"
          BY <1>7, <3>2 DEF DownloadDidFinish, IInv, TypeOK, Watched
        <4> QED BY <1>7, <3>2, <4>1 DEF DownloadDidFinish, IInv, TypeOK, Watched
      <3> QED BY <3>1, <3>2
    <2> QED BY <2>1, <2>2, <2>3, <2>4 DEF IInv
  <1>8. ASSUME NEW i \in Index, DownloadDidFail(i) PROVE IInv'
    <2>1. TypeOK' BY <1>8 DEF DownloadDidFail, Written, IInv, TypeOK
    <2>2. Pace' BY <1>8 DEF DownloadDidFail, IInv, TypeOK, Pace, Outstanding, Finished, Watched
    <2>3. Finished' BY <1>8 DEF DownloadDidFail, IInv, TypeOK, Finished
    <2>4. Watched' BY <1>8 DEF DownloadDidFail, IInv, TypeOK, Watched
    <2> QED BY <2>1, <2>2, <2>3, <2>4 DEF IInv
  <1>9. CASE TimedOut
    <2>1. /\ net' \in [Index -> {"idle", "loading", "cancelled", "ended"}]
          /\ disk' \in SUBSET Paths
          /\ \A j \in Index : net'[j] = "loading" =>
               net[j] = "loading" /\ j # currentDownload
      BY <1>9, CancelEffect DEF TimedOut, IInv
    <2>2. \A j \in Index : net'[j] # "loading"
      BY <2>1 DEF IInv, Watched
    <2>3. TypeOK' BY <1>9, <2>1 DEF TimedOut, IInv, TypeOK
    <2>4. Pace' BY <1>9 DEF TimedOut, IInv, TypeOK, Pace, Outstanding, Finished
    <2>5. Finished' BY <1>9, <2>2 DEF TimedOut, IInv, TypeOK, Finished
    <2>6. Watched' BY <1>9, <2>2 DEF TimedOut, IInv, TypeOK, Watched, Finished
    <2> QED BY <2>3, <2>4, <2>5, <2>6 DEF IInv
  <1>10. CASE TimeoutPasses
    <2>1. TypeOK' BY <1>10 DEF TimeoutPasses, IInv, TypeOK
    <2>2. Pace' BY <1>10 DEF TimeoutPasses, IInv, TypeOK, Pace, Outstanding
    <2>3. Finished' BY <1>10 DEF TimeoutPasses, IInv, TypeOK, Finished
    <2>4. Watched' BY <1>10 DEF TimeoutPasses, IInv, TypeOK, Watched
    <2> QED BY <2>1, <2>2, <2>3, <2>4 DEF IInv
  <1>11. CASE SetCanceled
    <2>1. TypeOK' BY <1>11 DEF SetCanceled, IInv, TypeOK
    <2>2. Pace' BY <1>11 DEF SetCanceled, IInv, TypeOK, Pace, Outstanding
    <2>3. Finished' BY <1>11 DEF SetCanceled, IInv, TypeOK, Finished
    <2>4. Watched' BY <1>11 DEF SetCanceled, IInv, TypeOK, Watched
    <2> QED BY <2>1, <2>2, <2>3, <2>4 DEF IInv
  <1>12. CASE CancelCurrent
    <2>1. /\ net' \in [Index -> {"idle", "loading", "cancelled", "ended"}]
          /\ disk' \in SUBSET Paths
          /\ \A j \in Index : net'[j] = "loading" =>
               net[j] = "loading" /\ j # currentDownload
      BY <1>12, CancelEffect DEF CancelCurrent, IInv
    <2>2. TypeOK' BY <1>12, <2>1 DEF CancelCurrent, IInv, TypeOK
    <2>3. Pace' BY <1>12 DEF CancelCurrent, IInv, TypeOK, Pace, Outstanding
    <2>4. Finished' BY <1>12, <2>1 DEF CancelCurrent, IInv, TypeOK, Finished
    <2>5. Watched' BY <1>12, <2>1 DEF CancelCurrent, IInv, TypeOK, Watched
    <2> QED BY <2>2, <2>3, <2>4, <2>5 DEF IInv
  <1>13. CASE UNCHANGED vars
    <2>1. TypeOK' /\ Pace' BY <1>13 DEF vars, IInv, TypeOK, Pace, Outstanding
    <2>2. Finished' /\ Watched' BY <1>13 DEF vars, IInv, Finished, Watched
    <2> QED BY <2>1, <2>2 DEF IInv
  <1>15. CASE ResetTimer
    <2>1. TypeOK' BY <1>15 DEF ResetTimer, IInv, TypeOK
    <2>2. Pace' BY <1>15 DEF ResetTimer, IInv, TypeOK, Pace, Outstanding, Finished
    <2>3. Finished' BY <1>15 DEF ResetTimer, IInv, TypeOK, Finished
    <2>4. Watched' BY <1>15 DEF ResetTimer, IInv, TypeOK, Watched
    <2> QED BY <2>1, <2>2, <2>3, <2>4 DEF IInv
  <1>16. CASE LoopEnds
    <2>1. TypeOK' BY <1>16 DEF LoopEnds, IInv, TypeOK
    <2>2. Pace' BY <1>16 DEF LoopEnds, IInv, TypeOK, Pace, Outstanding
    <2>3. Finished' BY <1>16 DEF LoopEnds, IInv, TypeOK, Finished
    <2>4. Watched' BY <1>16 DEF LoopEnds, IInv, TypeOK, Watched
    <2> QED BY <2>1, <2>2, <2>3, <2>4 DEF IInv
  <1>17. ASSUME NEW i \in Index, DidReceiveData(i) PROVE IInv'
    <2>1. TypeOK' BY <1>17 DEF DidReceiveData, IInv, TypeOK
    <2>2. Pace' BY <1>17 DEF DidReceiveData, IInv, TypeOK, Pace, Outstanding, Finished, Watched
    <2>3. Finished' BY <1>17 DEF DidReceiveData, IInv, TypeOK, Finished
    <2>4. Watched' BY <1>17 DEF DidReceiveData, IInv, TypeOK, Watched
    <2> QED BY <2>1, <2>2, <2>3, <2>4 DEF IInv
  <1> QED
    BY <1>1, <1>2, <1>3, <1>4, <1>5, <1>6, <1>7, <1>8, <1>9, <1>10, <1>11,
       <1>12, <1>13, <1>14, <1>15, <1>16, <1>17 DEF Next, Worker, Network

LEMMA Invariance == Spec => []IInv
  BY InitIInv, NextIInv, PTL DEF Spec
-----------------------------------------------------------------------------
(* The variables keep their types: no index ever leaves the batch. *)
THEOREM TypeCorrect == Spec => []TypeOK
  <1>1. IInv => TypeOK
    BY DEF IInv
  <1> QED BY Invariance, <1>1, PTL

(* Reports are given once per URL and in the order of the batch, and a      *)
(* finished batch has reported them all: what -checkIfFinished: counts on.  *)
THEOREM Order == Spec => []ReportsInOrder
  <1>1. IInv => ReportsInOrder
    BY DEF IInv, Pace, Finished, ReportsInOrder
  <1> QED BY Invariance, <1>1, PTL

(* A second NSURLDownload is never started while one is on the network. *)
THEOREM Exclusive == Spec => []OneDownloadAtATime
  <1>1. IInv => OneDownloadAtATime
    BY DEF IInv, Watched, OneDownloadAtATime, Loading
  <1> QED BY Invariance, <1>1, PTL

(* An unfinished batch in the run loop always has a download under watch,   *)
(* so either the network or the timer will move it on.                      *)
THEOREM NoStall == Spec => []NeverStalls
  <1>1. ASSUME IInv PROVE NeverStalls
    <2>1. ASSUME pc = "loop", ~canceled, ~finished
          PROVE  Loading = {urlsIndex - 1}
      <3>1. /\ currentDownload = urlsIndex - 1
            /\ urlsIndex - 1 \in Index
            /\ net[urlsIndex - 1] = "loading"
        BY <1>1, <2>1 DEF IInv, TypeOK, Watched, InLoop, Pace, Outstanding, Index, None
      <3>2. \A i \in Index : net[i] = "loading" => i = urlsIndex - 1
        BY <1>1, <3>1 DEF IInv, Watched
      <3> QED BY <3>1, <3>2 DEF Loading
    <2>2. ASSUME pc = "loop", Loading # {} PROVE timer \in {"armed", "due"}
      BY <1>1, <2>2 DEF IInv, Watched, Loading, InLoop, Ticking
    <2> QED BY <2>1, <2>2 DEF NeverStalls
  <1> QED BY Invariance, <1>1, PTL

(* No call of the listener has begun after a cancel while the worker is     *)
(* between its test of the flag and a call.                                 *)
NotYetLate ==
  /\ ~canceled \/ pc \in DOMAIN InCall => lateCalls = 0
  /\ OneLateCall

LEMMA NextNotYetLate == IInv /\ NotYetLate /\ [Next]_vars => NotYetLate'
  <1> SUFFICES ASSUME IInv, NotYetLate, [Next]_vars PROVE NotYetLate'
    OBVIOUS
  <1> USE DEF NotYetLate, OneLateCall, cancelVars, listenerVars
  <1>1. CASE CallListener
    <2>1. pc' \notin DOMAIN InCall /\ lateCalls = 0
      BY <1>1, Calls DEF CallListener
    <2> QED BY <1>1, <2>1 DEF CallListener
  <1>2. CASE DownloadNext \/ FailWithError
    <2>1. UNCHANGED <<canceled, lateCalls>> /\ (pc' \in DOMAIN InCall => ~canceled)
      BY <1>2, Calls DEF DownloadNext, FailWithError
    <2> QED BY <2>1
  <1>3. ASSUME NEW i \in Index, DidReceiveData(i) \/ DownloadDidFinish(i)
        PROVE  NotYetLate'
    <2>1. /\ UNCHANGED <<canceled, lateCalls>>
          /\ (pc' \in DOMAIN InCall => ~canceled) \/ UNCHANGED pc
      BY <1>3, Calls DEF DidReceiveData, DownloadDidFinish
    <2> QED BY <2>1
  <1>4. CASE SetCanceled
    BY <1>4 DEF SetCanceled
  <1>5. CASE UNCHANGED <<canceled, lateCalls>> /\ pc' \notin DOMAIN InCall
    BY <1>5
  <1>6. CASE UNCHANGED <<pc, canceled, lateCalls>>
    BY <1>6
  <1> QED
    BY <1>1, <1>2, <1>3, <1>4, <1>5, <1>6, Calls
    DEF Next, Worker, Network, vars, Start, CreateDownload, StartTimer, ReportError,
        ReportFinish, ResetTimer, DownloadDidFail, TimeoutPasses,
        TimedOut, LoopEnds, CancelCurrent

(* A cancel lets at most one more call of the listener begin, wherever it   *)
(* falls between the tests of the flag and the calls.                       *)
THEOREM LateCall == Spec => []OneLateCall
  <1>1. Init => NotYetLate
    BY DEF Init, NotYetLate, OneLateCall
  <1>2. NotYetLate => OneLateCall
    BY DEF NotYetLate
  <1> QED BY <1>1, <1>2, NextNotYetLate, Invariance, PTL DEF Spec
-----------------------------------------------------------------------------
(* Where files are moved into place: the destination of the URL being       *)
(* downloaded is not on disk yet, that of every URL reported as downloaded  *)
(* is, and no two of those share it.                                        *)
Needs ==
  pc \in {"start", "create", "arm", "data", "reset", "finishing", "finish"}
    \/ (pc = "loop" /\ ~canceled /\ ~finished)

Fresh ==
  ~Direct =>
    /\ Needs => SavePath[urlsIndex - 1] \notin disk
    /\ \A k \in 1 .. Len(reports) :
         reports[k].ok => SavePath[reports[k].index] \in disk
    /\ DownloadedOnce

LEMMA InitFresh == Init => Fresh
  BY DEF Init, Fresh, Needs, DownloadedOnce

LEMMA NextFresh == IInv /\ Fresh /\ [Next]_vars => Fresh'
  <1> SUFFICES ASSUME IInv, Fresh, ~Direct, [Next]_vars PROVE Fresh'
    BY DEF Fresh, Direct
  <1> USE DEF batchVars, timerVars, cancelVars, fileVars, listenerVars
  <1>1. CASE UNCHANGED <<reports, disk>>
    <2>1. DownloadedOnce'
      BY <1>1 DEF Fresh, DownloadedOnce
    <2>2. (Needs => SavePath[urlsIndex - 1] \notin disk)'
      <3>1. CASE DownloadNext
        <4>1. Needs' => urlsIndex' = urlsIndex + 1 /\ urlsIndex < Count
                          /\ ~CurrentExists
          BY <3>1 DEF DownloadNext, Needs
        <4> QED BY <1>1, <4>1 DEF CurrentExists, IInv, TypeOK
      <3>2. ASSUME NEW i \in Index, DownloadDidFinish(i) \/ DidReceiveData(i)
            PROVE  (Needs' => Needs) /\ urlsIndex' = urlsIndex
        <4>1. UNCHANGED <<urlsIndex, canceled, finished>>
          BY <3>2 DEF DownloadDidFinish, DidReceiveData
        <4>2. pc' = pc \/ (pc = "loop" /\ ~finished /\ ~canceled)
          BY <3>2 DEF DownloadDidFinish, DidReceiveData, IInv, Finished
        <4> QED BY <4>1, <4>2 DEF Needs
      <3>3. CASE UNCHANGED urlsIndex /\ (Needs' => Needs)
        BY <1>1, <3>3 DEF Fresh
      <3>4. CASE Start \/ FailWithError \/ ReportError \/ ReportFinish \/ LoopEnds
        BY <3>4 DEF Start, FailWithError, ReportError, ReportFinish, LoopEnds, Needs
      <3>5. CASE CreateDownload \/ StartTimer \/ ResetTimer
        <4>1. UNCHANGED urlsIndex /\ Needs
          BY <3>5 DEF CreateDownload, StartTimer, ResetTimer, Needs
        <4> QED BY <4>1, <3>3
      <3>6. CASE CallListener
        <4>1. UNCHANGED urlsIndex /\ (pc' = "error" \/ Needs)
          BY <3>6, Calls DEF CallListener, Needs
        <4>2. pc' = "error" => ~Needs'
          BY DEF Needs
        <4> QED BY <4>1, <4>2, <3>3
      <3>7. CASE TimeoutPasses \/ TimedOut \/ SetCanceled \/ CancelCurrent \/ UNCHANGED vars
        <4>1. UNCHANGED urlsIndex /\ (Needs' => Needs)
          BY <3>7 DEF TimeoutPasses, TimedOut, SetCanceled, CancelCurrent, vars, Needs
        <4> QED BY <4>1, <3>3
      <3>8. ASSUME NEW i \in Index, DownloadDidFail(i) PROVE ~Needs'
        BY <3>8 DEF DownloadDidFail, Needs
      <3> QED
        BY <3>1, <3>2, <3>3, <3>4, <3>5, <3>6, <3>7, <3>8 DEF Next, Worker, Network
    <2> QED BY <1>1, <2>1, <2>2 DEF Fresh
  <1>2. CASE ReportError \/ ReportFinish
    <2>1. /\ Len(reports') = Len(reports) + 1
          /\ \A k \in 1 .. Len(reports) : reports'[k] = reports[k]
          /\ reports'[Len(reports) + 1].index = urlsIndex - 1
          /\ reports'[Len(reports) + 1].ok =>
               SavePath[urlsIndex - 1] \notin disk /\ SavePath[urlsIndex - 1] \in disk'
          /\ disk \subseteq disk'
          /\ pc' = "next"
      <3>1. PICK ok \in BOOLEAN :
              /\ reports' = Append(reports, [index |-> urlsIndex - 1, ok |-> ok])
              /\ ok => pc = "finish" /\ disk' = disk \cup {SavePath[urlsIndex - 1]}
              /\ disk \subseteq disk'
              /\ pc' = "next"
        BY <1>2 DEF ReportError, ReportFinish, Report
      <3>2. [index |-> urlsIndex - 1, ok |-> ok] \in [index : Index, ok : BOOLEAN]
        <4>1. pc \in {"error", "finish"}
          BY <1>2 DEF ReportError, ReportFinish
        <4>2. urlsIndex \in 1 .. Count
          BY BatchAssumption, <4>1 DEF IInv, TypeOK, Pace, Reporting
        <4> QED BY <4>2, BatchAssumption DEF Index
      <3>3. /\ Len(reports') = Len(reports) + 1
            /\ \A k \in 1 .. Len(reports) : reports'[k] = reports[k]
            /\ reports'[Len(reports) + 1] = [index |-> urlsIndex - 1, ok |-> ok]
        BY <3>1, <3>2 DEF IInv, TypeOK
      <3> QED BY <3>1, <3>3 DEF Fresh, Needs
    <2>2. \A k \in 1 .. Len(reports') :
             reports'[k].ok => SavePath[reports'[k].index] \in disk'
      <3>1. Len(reports) \in Nat
        BY DEF IInv, TypeOK
      <3>2. TAKE k \in 1 .. Len(reports')
      <3>3. CASE k = Len(reports) + 1
        BY <2>1, <3>3
      <3>4. CASE k \in 1 .. Len(reports)
        BY <2>1, <3>4 DEF Fresh
      <3> QED BY <2>1, <3>1, <3>3, <3>4
    <2>3. DownloadedOnce'
      <3>1. Len(reports) \in Nat
        BY DEF IInv, TypeOK
      <3> SUFFICES ASSUME NEW j \in 1 .. Len(reports'), NEW k \in 1 .. Len(reports'),
                          reports'[j].ok, reports'[k].ok,
                          SavePath[reports'[j].index] = SavePath[reports'[k].index],
                          j # k
                   PROVE  FALSE
        BY DEF DownloadedOnce
      <3>2. CASE j \in 1 .. Len(reports) /\ k \in 1 .. Len(reports)
        BY <2>1, <3>2 DEF Fresh, DownloadedOnce
      <3>3. CASE j = Len(reports) + 1 /\ k \in 1 .. Len(reports)
        BY <2>1, <3>3 DEF Fresh
      <3>4. CASE k = Len(reports) + 1 /\ j \in 1 .. Len(reports)
        BY <2>1, <3>4 DEF Fresh
      <3> QED BY <2>1, <3>1, <3>2, <3>3, <3>4
    <2> QED BY <2>1, <2>2, <2>3 DEF Fresh, Needs
  <1>3. CASE TimedOut \/ CancelCurrent
    <2>1. UNCHANGED <<reports, disk>>
      BY <1>3, CancelEffect DEF TimedOut, CancelCurrent, IInv
    <2> QED BY <1>1, <2>1
  <1>4. ASSUME NEW i \in Index,
               DidReceiveData(i) \/ DownloadDidFinish(i) \/ DownloadDidFail(i)
        PROVE  UNCHANGED <<reports, disk>>
    BY <1>4 DEF DidReceiveData, DownloadDidFinish, DownloadDidFail, Written
  <1> QED
    BY <1>1, <1>2, <1>3, <1>4 DEF Next, Worker, Network, vars, Start, DownloadNext,
           CallListener, CreateDownload, StartTimer, FailWithError, ResetTimer,
           LoopEnds, TimeoutPasses, SetCanceled

(* No file of a page is downloaded twice, even when the page repeats it. *)
THEOREM NoDuplicates == Spec => []DownloadedOnce
  <1>1. IInv /\ Fresh => DownloadedOnce
    <2>1. ASSUME IInv, Direct PROVE DownloadedOnce
      <3>1. Len(reports) <= 1 /\ Len(reports) \in Nat
        BY <2>1, BatchAssumption DEF IInv, TypeOK, Pace, Direct
      <3> QED BY <3>1 DEF DownloadedOnce
    <2> QED BY <2>1 DEF Fresh
  <1> QED BY InitFresh, NextFresh, Invariance, <1>1, PTL DEF Spec
-----------------------------------------------------------------------------
(* The count of downloads. *)

Downloaded == {k \in 1 .. Len(reports) : reports[k].ok}

LEMMA DownloadedFinite ==
  ASSUME TypeOK
  PROVE  IsFiniteSet(Downloaded) /\ Cardinality(Downloaded) \in Nat
  <1>1. IsFiniteSet(1 .. Len(reports))
    BY FS_Interval DEF TypeOK
  <1>2. IsFiniteSet(Downloaded)
    BY <1>1, FS_Subset DEF Downloaded
  <1> QED BY <1>2, FS_CardinalityType

LEMMA NextCount == IInv /\ CountMatchesReports /\ [Next]_vars => CountMatchesReports'
  <1> SUFFICES ASSUME IInv, CountMatchesReports, [Next]_vars
               PROVE  CountMatchesReports'
    OBVIOUS
  <1> USE DEF batchVars, timerVars, cancelVars, fileVars, listenerVars
  <1> DEFINE owed == pc \in {"finishing", "finish"}
  <1>1. CASE UNCHANGED <<reports, downloadCount>> /\ (owed' <=> owed)
    BY <1>1 DEF CountMatchesReports
  <1>2. CASE ReportError \/ ReportFinish
    <2>1. PICK ok \in BOOLEAN :
            /\ reports' = Append(reports, [index |-> urlsIndex - 1, ok |-> ok])
            /\ ok <=> owed
            /\ pc' = "next" /\ downloadCount' = downloadCount
      BY <1>2 DEF ReportError, ReportFinish, Report
    <2>2. [index |-> urlsIndex - 1, ok |-> ok] \in [index : Index, ok : BOOLEAN]
      <3>1. pc \in {"error", "finish"}
        BY <1>2 DEF ReportError, ReportFinish
      <3>2. urlsIndex \in 1 .. Count
        BY <3>1, BatchAssumption DEF Reporting, IInv, TypeOK, Pace
      <3> QED BY <3>2, BatchAssumption DEF Index
    <2>3. /\ Len(reports) \in Nat /\ Len(reports') = Len(reports) + 1
          /\ \A k \in 1 .. Len(reports) : reports'[k] = reports[k]
          /\ reports'[Len(reports) + 1].ok = ok
      BY <2>1, <2>2 DEF IInv, TypeOK
    <2>4. Downloaded' =
            IF ok THEN Downloaded \cup {Len(reports) + 1} ELSE Downloaded
      <3>1. ASSUME NEW k \in 1 .. Len(reports')
            PROVE  reports'[k].ok <=> k \in Downloaded \/ (ok /\ k = Len(reports) + 1)
        <4>1. CASE k = Len(reports) + 1
          BY <2>3, <4>1 DEF Downloaded
        <4>2. CASE k \in 1 .. Len(reports)
          BY <2>3, <4>2 DEF Downloaded
        <4> QED BY <2>3, <4>1, <4>2
      <3> QED BY <2>3, <3>1 DEF Downloaded
    <2>5. Len(reports) + 1 \notin Downloaded
      BY <2>3 DEF Downloaded
    <2>6. IsFiniteSet(Downloaded) /\ Cardinality(Downloaded) \in Nat
      BY DownloadedFinite DEF IInv
    <2>7. Cardinality(Downloaded') = Cardinality(Downloaded) + (IF ok THEN 1 ELSE 0)
      <3>1. Cardinality(Downloaded \cup {Len(reports) + 1}) = Cardinality(Downloaded) + 1
        BY <2>5, <2>6, FS_AddElement
      <3> QED BY <2>4, <2>6, <3>1
    <2>8. downloadCount = Cardinality(Downloaded) + (IF owed THEN 1 ELSE 0)
      BY DEF CountMatchesReports, Downloaded
    <2>9. downloadCount' = Cardinality(Downloaded') + (IF owed' THEN 1 ELSE 0)
      BY <2>1, <2>6, <2>7, <2>8
    <2> QED BY <2>9 DEF CountMatchesReports, Downloaded
  <1>3. ASSUME NEW i \in Index, DownloadDidFinish(i) PROVE CountMatchesReports'
    <2>1. CASE canceled \/ timedOut
      BY <1>1, <1>3, <2>1 DEF DownloadDidFinish
    <2>2. CASE ~(canceled \/ timedOut)
      <3>1. /\ downloadCount' = downloadCount + 1 /\ reports' = reports
            /\ pc = "loop" /\ pc' = "finishing"
        BY <1>3, <2>2 DEF DownloadDidFinish
      <3>2. Cardinality(Downloaded) \in Nat
        BY DownloadedFinite DEF IInv
      <3> QED BY <3>1, <3>2 DEF CountMatchesReports, Downloaded
    <2> QED BY <2>1, <2>2
  <1>4. CASE CallListener
    BY <1>1, <1>4, Calls DEF CallListener
  <1> QED
    BY <1>1, <1>2, <1>3, <1>4
    DEF Next, Worker, Network, vars, Start, DownloadNext, CreateDownload, StartTimer,
        FailWithError, ResetTimer, LoopEnds, DidReceiveData,
        DownloadDidFail, TimeoutPasses, TimedOut, SetCanceled, CancelCurrent

(* The count that the client gives and what its listener was told agree,    *)
(* whatever was cancelled or timed out in between.                          *)
THEOREM CountIsOfReports == Spec => []CountMatchesReports
  <1>1. Init => CountMatchesReports
    <2> SUFFICES ASSUME Init PROVE CountMatchesReports
      OBVIOUS
    <2>1. {k \in 1 .. Len(reports) : reports[k].ok} = {}
      BY DEF Init
    <2> QED BY <2>1, FS_EmptySet DEF Init, CountMatchesReports
  <1> QED BY <1>1, NextCount, Invariance, PTL DEF Spec
-----------------------------------------------------------------------------
(* The outcomes of a sequence of reports form a sequence as long. *)
LEMMA Outcomes ==
  ASSUME NEW s \in Seq([index : Index, ok : BOOLEAN])
  PROVE  /\ [k \in 1 .. Len(s) |-> s[k].ok] \in Seq(BOOLEAN)
         /\ Len([k \in 1 .. Len(s) |-> s[k].ok]) = Len(s)
  <1>1. Len(s) \in Nat /\ \A k \in 1 .. Len(s) : s[k].ok \in BOOLEAN
    <2>1. \A k \in 1 .. Len(s) : s[k] \in [index : Index, ok : BOOLEAN]
      BY ElementOfSeq
    <2> QED BY <2>1
  <1>2. [k \in 1 .. Len(s) |-> s[k].ok] \in [1 .. Len(s) -> BOOLEAN]
    BY <1>1
  <1> QED BY <1>1, <1>2, SeqDef

(* What the listener sees of a step. *)
LEMMA ListenerStep == IInv /\ [Next]_vars => [Listener!Next]_(Listener!reportVars)
  <1> DEFINE seen(s) == [k \in 1 .. Len(s) |-> s[k].ok]
  <1> SUFFICES ASSUME IInv, [Next]_vars
               PROVE  Listener!Next \/ UNCHANGED Listener!reportVars
    OBVIOUS
  <1>0. seen(reports) \in Seq(BOOLEAN) /\ Len(seen(reports)) = Len(reports)
    BY Outcomes DEF IInv, TypeOK
  <1> USE DEF Reporting, Underway, batchVars, timerVars, cancelVars, fileVars, listenerVars
  <1>1. CASE FailWithError
    <2>1. CASE canceled
      BY <1>1, <2>1 DEF FailWithError, Listener!reportVars
    <2>2. CASE ~canceled
      <3>1. Len(seen(reports)) < Count
        BY BatchAssumption, <1>0, <1>1, <2>2 DEF FailWithError, IInv, TypeOK, Pace, Outstanding
      <3> QED BY <1>1, <2>2, <3>1 DEF FailWithError, Listener!Next, Listener!Decide
    <2> QED BY <2>1, <2>2
  <1>2. CASE ReportError \/ ReportFinish
    <2>1. PICK ok \in BOOLEAN :
            reports' = Append(reports, [index |-> urlsIndex - 1, ok |-> ok])
      BY <1>2 DEF ReportError, ReportFinish, Report
    <2>2. [index |-> urlsIndex - 1, ok |-> ok] \in [index : Index, ok : BOOLEAN]
      <3>1. pc \in {"error", "finish"}
        BY <1>2 DEF ReportError, ReportFinish
      <3>2. urlsIndex \in 1 .. Count
        BY BatchAssumption, <3>1 DEF IInv, TypeOK, Pace
      <3> QED BY <3>2, BatchAssumption DEF Index
    <2>3. /\ reports' \in Seq([index : Index, ok : BOOLEAN])
          /\ Len(reports') = Len(reports) + 1
          /\ \A k \in 1 .. Len(reports) : reports'[k] = reports[k]
          /\ reports'[Len(reports) + 1].ok = ok
          /\ Len(reports) \in Nat
      BY <2>1, <2>2 DEF IInv, TypeOK
    <2>4. seen(reports') \in Seq(BOOLEAN) /\ Len(seen(reports')) = Len(reports')
      BY <2>3, Outcomes
    <2>5. Append(seen(reports), ok) \in Seq(BOOLEAN)
          /\ Len(Append(seen(reports), ok)) = Len(reports) + 1
          /\ \A k \in 1 .. Len(reports) : Append(seen(reports), ok)[k] = reports[k].ok
          /\ Append(seen(reports), ok)[Len(reports) + 1] = ok
      BY <1>0, <2>3
    <2>6. \A k \in 1 .. Len(seen(reports')) :
            seen(reports')[k] = Append(seen(reports), ok)[k]
      BY <2>3, <2>4, <2>5
    <2>7. seen(reports') = Append(seen(reports), ok)
      BY <2>3, <2>4, <2>5, <2>6, SeqEqual
    <2>8. /\ pc \in Reporting /\ pc' \notin Reporting
          /\ UNCHANGED <<finished, canceled>>
      BY <1>2 DEF ReportError, ReportFinish
    <2>9. Listener!Deliver
      <3>1. \E o \in BOOLEAN : seen(reports') = Append(seen(reports), o)
        BY <2>7
      <3>2. (pc \in Reporting)' = FALSE
        BY <2>8
      <3> QED BY <3>1, <3>2, <2>8, Zenon DEF Listener!Deliver
    <2> QED BY <2>9 DEF Listener!Next
  <1>3. ASSUME NEW i \in Index, DownloadDidFinish(i)
        PROVE  Listener!Next \/ UNCHANGED Listener!reportVars
    <2>1. CASE canceled \/ timedOut
      BY <1>3, <2>1 DEF DownloadDidFinish, Listener!reportVars
    <2>2. CASE ~(canceled \/ timedOut)
      <3>1. Len(seen(reports)) < Count
        BY BatchAssumption, <1>0, <1>3, <2>2 DEF DownloadDidFinish, IInv, TypeOK, Pace, Outstanding, Finished
      <3> QED BY <1>3, <2>2, <3>1 DEF DownloadDidFinish, Listener!Next, Listener!Decide
    <2> QED BY <2>1, <2>2
  <1>4. CASE DownloadNext
    <2>1. CASE UNCHANGED finished
      BY <1>4, <2>1 DEF DownloadNext, Listener!reportVars
    <2>2. CASE ~canceled /\ urlsIndex = Count /\ finished' = TRUE /\ pc' = "loop"
      <3>1. Len(seen(reports)) = Count /\ ~finished
        BY <1>0, <1>4, <2>2 DEF DownloadNext, IInv, TypeOK, Pace, Outstanding, Finished
      <3> QED BY <1>4, <2>2, <3>1 DEF DownloadNext, Listener!Next, Listener!Finish
    <2> QED BY <1>4, <2>1, <2>2 DEF DownloadNext
  <1>5. CASE SetCanceled
    BY <1>5 DEF SetCanceled, Listener!Next, Listener!Cancel
  <1>7. CASE CallListener
    <2>1. UNCHANGED <<reports, finished, canceled>>
      BY <1>7 DEF CallListener
    <2>2. pc' \in Reporting <=> pc \in Reporting
      BY <1>7, Calls DEF CallListener
    <2> QED BY <2>1, <2>2 DEF Listener!reportVars
  <1>6. CASE UNCHANGED <<reports, finished, canceled>> /\ (pc' \in Reporting <=> pc \in Reporting)
    BY <1>6 DEF Listener!reportVars
  <1> QED
    BY <1>1, <1>2, <1>3, <1>4, <1>5, <1>6, <1>7
    DEF Next, Worker, Network, vars, Start, CreateDownload, StartTimer, ResetTimer,
        LoopEnds, DidReceiveData, DownloadDidFail,
        TimeoutPasses, TimedOut, CancelCurrent

(* DownloadClient implements the promise of DownloadReports. *)
THEOREM Refinement == Spec => ReportsSpec
  <1>1. Init => Listener!Init
    BY DEF Init, Listener!Init, Reporting
  <1> QED
    BY Invariance, ListenerStep, <1>1, PTL DEF Spec, ReportsSpec, Listener!Spec
=============================================================================
