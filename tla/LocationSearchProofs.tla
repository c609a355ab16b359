------------------------- MODULE LocationSearchProofs -------------------------
(***************************************************************************)
(* Proofs about LocationSearch, for every page, every limit of images and  *)
(* every set of files that are there before.                               *)
(***************************************************************************)
EXTENDS LocationSearch, FiniteSetTheorems, TLAPS

Limit == IF MaxCount = 0 THEN 1 ELSE MaxCount

(* The client of the current match: it downloads its image at most once,    *)
(* and only while its thread is where callbacks are expected.               *)
OneImage ==
  /\ pc = "init" => urlsIndex = 0
  /\ urlsIndex = 0 => net[0] = "idle"
  /\ pc \notin {"init", "next", "loop", "exited"} => urlsIndex = 1
  /\ pc \in {"start", "create"} => net[0] = "idle"
  /\ pc = "finishing" => net[0] = "ended"
  /\ timer \in {"armed", "due"} => urlsIndex = 1
  /\ pc = "init" \/ finished \/ (pc = "next" /\ ~canceled) =>
       timer \notin {"armed", "due"}
  /\ net[0] = "loading" =>
       pc \in {"arm", "loop", "data", "reset", "exited"} /\ currentDownload = 0
  /\ net[0] \in {"idle", "loading"} => downloadCount = 0
  /\ finished => pc \in {"loop", "exited"} /\ net[0] # "loading"

(* The item is marked before anything else is cancelled. *)
Marked ==
  /\ main # "running" => itemCanceled
  /\ canceled \/ canceling => itemCanceled

(* The search thread goes on only when that client will count no more, or   *)
(* when no further match will be looked at.                                 *)
Returned ==
  search # "poll" => \/ finished
                     \/ pc \in {"init", "exited"}
                     \/ canceled /\ search # "match"

(* Whoever may still come to count an image finds room for it.              *)
RoomLeft ==
  /\ handlerCount <= Limit
  /\ handlerCount <= matches
  /\ search = "pass" /\ ~itemCanceled => handlerCount < Limit
  /\ search = "match" => handlerCount < Limit
  /\ pc = "finishing" \/ (search = "poll" /\ net[0] \in {"idle", "loading"}) =>
       handlerCount < Limit /\ handlerCount < matches

(* What was added is in place, and what may be deleted was not added.       *)
InPlace ==
  /\ pc # "init" \/ search = "poll" => match \in Paths
  /\ \A x \in Paths : added[x] <= (IF x \in files THEN 1 ELSE 0)
  /\ pc \in {"start", "create", "arm", "finishing", "finish"} \/ net[0] = "loading"
       => added[match] = 0
  /\ pc \in {"finishing", "finish"} => match \in files

IInv == TypeOK /\ OneImage /\ Marked /\ Returned /\ RoomLeft /\ InPlace
-----------------------------------------------------------------------------
(* The places of the download thread, and what its calls lead to. *)
LEMMA Calls ==
  /\ DOMAIN Client!InCall = {"start", "data", "failing", "finishing"}
  /\ Client!InCall["start"] = "create" /\ Client!InCall["data"] = "reset"
  /\ Client!InCall["failing"] = "error" /\ Client!InCall["finishing"] = "finish"
  BY DEF Client!InCall

LEMMA PCs ==
  Client!PC = {"init", "next", "failed", "arm", "loop", "exited", "start", "create",
               "data", "reset", "failing", "error", "finishing", "finish"}
  <1>1. {Client!InCall[c] : c \in DOMAIN Client!InCall}
          = {"create", "reset", "error", "finish"}
    <2>1. DOMAIN Client!InCall = {"start", "data", "failing", "finishing"}
      BY Calls
    <2> QED BY <2>1, Calls
  <1> QED BY <1>1, Calls DEF Client!PC

(* What NSURLDownload does to the file of the match. *)
LEMMA FileWritten ==
  ASSUME UNCHANGED match, NEW whole \in BOOLEAN, Client!Written(0, whole)
  PROVE  match \in files' <=> whole
  BY DEF Client!Written, Client!Direct

LEMMA FileCancelled ==
  ASSUME IInv, UNCHANGED match, Client!Cancel
  PROVE  /\ net' \in [Client!Index -> {"idle", "loading", "cancelled", "ended"}]
         /\ net'[0] # "loading"
         /\ net[0] # "loading" => net' = net /\ (match \in files' <=> match \in files)
         /\ net[0] = "loading" => net'[0] = "cancelled"
  <1> USE DEF IInv, TypeOK, Client!TypeOK, Client!Index, Client!None, OneImage
  <1>1. CASE net[0] = "loading"
    BY <1>1 DEF Client!Cancel
  <1>2. CASE net[0] # "loading"
    <2>1. currentDownload \in {0, -1}
      BY DEF IInv, TypeOK
    <2>2. UNCHANGED Client!fileVars
      BY <1>2, <2>1 DEF Client!Cancel
    <2> QED BY <1>2, <2>2 DEF Client!fileVars
  <1> QED BY <1>1, <1>2

LEMMA InitIInv == Init => IInv
  <1> SUFFICES ASSUME Init PROVE IInv
    OBVIOUS
  <1> USE LocationAssumption DEF Init, Client!Init, Client!Index, Client!None
  <1>1. TypeOK
    <2>1. reports \in Seq([index : Client!Index, ok : BOOLEAN])
      OBVIOUS
    <2>2. Client!TypeOK
      BY <2>1, PCs DEF Client!TypeOK, Client!Timer
    <2> QED BY <2>2 DEF TypeOK, Passes
  <1>2. OneImage /\ Marked /\ Returned
    BY DEF OneImage, Marked, Returned
  <1>3. RoomLeft
    BY DEF RoomLeft, Limit
  <1>4. InPlace
    BY DEF InPlace
  <1> QED BY <1>1, <1>2, <1>3, <1>4 DEF IInv

LEMMA NextIInv == IInv /\ [Next]_vars => IInv'
  <1> SUFFICES ASSUME IInv, [Next]_vars PROVE IInv'
    OBVIOUS
  <1> USE LocationAssumption, PCs
      DEF IInv, TypeOK, Client!TypeOK, Client!Index, Client!None, Client!Timer,
          SearchGoes, clientVars, pageVars, Marked, Client!batchVars,
          Client!timerVars, Client!cancelVars, Client!fileVars, Client!listenerVars
  <1>1. CASE SearchData
    BY <1>1 DEF SearchData, OneImage, Returned, RoomLeft, InPlace, Limit, Passes
  <1>2. CASE DidFindMatch
    <2> USE <1>2 DEF DidFindMatch
    <2>1. reports' \in Seq([index : Client!Index, ok : BOOLEAN])
      BY DEF DidFindMatch
    <2>2. net' \in [Client!Index -> {"idle", "loading", "cancelled", "ended"}]
      OBVIOUS
    <2>3. Client!TypeOK'
      <3> HIDE DEF TypeOK
      <3> QED BY <2>1, <2>2
    <2>4. TypeOK'
      <3> HIDE DEF Client!TypeOK
      <3> QED BY <2>3 DEF OneImage, RoomLeft, Passes
    <2>5. OneImage' /\ Marked' /\ Returned' BY DEF OneImage, Returned
    <2>6. RoomLeft' BY DEF OneImage, RoomLeft, Limit
    <2>7. InPlace' BY DEF OneImage, InPlace
    <2> QED BY <2>4, <2>5, <2>6, <2>7
  <1>3. CASE InvalidMatch
    BY <1>3 DEF InvalidMatch, OneImage, Returned, RoomLeft, InPlace, Limit,
        Passes
  <1>4. CASE NoMoreMatches
    BY <1>4 DEF NoMoreMatches, NextPass, OneImage, Returned, RoomLeft,
        InPlace, Limit, Passes
  <1>5. CASE Download
    <2>1. /\ search = "poll" /\ pc = "init" /\ pc' \in {"exited", "next"}
          /\ UNCHANGED <<Client!batchVars, Client!timerVars, Client!cancelVars, net,
                         reports, lateCalls, match, files, added, handlerCount,
                         itemCanceled, search, pageVars, late, lastDownloadCount, main>>
      BY <1>5 DEF Download, Client!Start, Alone
    <2> QED BY <2>1 DEF OneImage, Returned, RoomLeft, InPlace, Limit, Passes
  <1>6. CASE DownloadReturns
    BY <1>6 DEF DownloadReturns, OneImage, Returned, RoomLeft, InPlace, Limit,
        Passes
  <1>7. CASE Matched
    BY <1>7 DEF Matched, NextPass, OneImage, Returned, RoomLeft, InPlace,
        Limit, Passes
  <1>8. CASE DidCompleteMatchSearch
    BY <1>8 DEF DidCompleteMatchSearch, OneImage, Returned, RoomLeft, InPlace,
        Limit, Passes
  <1>9. CASE Client!DownloadNext /\ Alone
    <2>1. /\ pc = "next"
          /\ \/ canceled /\ pc' = "loop" /\ UNCHANGED <<urlsIndex, finished>>
             \/ /\ ~canceled /\ urlsIndex = 0 /\ urlsIndex' = 1
                /\ pc' = "failed" \/ (pc' = "start" /\ match \notin files)
                /\ UNCHANGED finished
             \/ /\ ~canceled /\ urlsIndex = 1 /\ finished' = TRUE /\ pc' = "loop"
                /\ UNCHANGED urlsIndex
          /\ UNCHANGED <<downloadCount, currentDownload, Client!timerVars,
                         Client!cancelVars, net, reports, lateCalls, match, files,
                         added, handlerCount, itemCanceled, search, pageVars, late,
                         lastDownloadCount, main>>
      BY <1>9 DEF Client!DownloadNext, Alone, Client!CurrentExists
    <2>2. TypeOK'
      <3>1. /\ pc' \in {"loop", "failed", "start"}
            /\ urlsIndex' \in {urlsIndex, 1} /\ finished' \in {finished, TRUE}
        BY <2>1
      <3>2. Client!TypeOK
        OBVIOUS
      <3>3. Client!TypeOK'
        <4>1. UNCHANGED <<downloadCount, currentDownload, timer, timedOut, canceled,
                          canceling, net, reports, lateCalls, match, files>>
          BY <2>1
        <4> HIDE DEF TypeOK, IInv
        <4> QED BY <3>1, <3>2, <4>1
      <3> HIDE DEF Client!TypeOK
      <3> QED BY <2>1, <3>3 DEF TypeOK
    <2>3. OneImage' /\ Marked' /\ Returned' BY <2>1 DEF OneImage, Returned
    <2>4. RoomLeft' BY <2>1 DEF OneImage, Returned, RoomLeft, Limit
    <2>5. InPlace' BY <2>1 DEF OneImage, InPlace
    <2> QED BY <2>2, <2>3, <2>4, <2>5
  <1>10. CASE Client!CreateDownload /\ Alone
    BY <1>10 DEF Client!CreateDownload, Alone, OneImage, Returned, RoomLeft,
        InPlace, Limit, Passes
  <1>11. CASE Client!StartTimer /\ Alone
    BY <1>11 DEF Client!StartTimer, Alone, OneImage, Returned, RoomLeft,
        InPlace, Limit, Passes
  <1>12. CASE Client!FailWithError /\ Alone
    BY <1>12 DEF Client!FailWithError, Alone, OneImage, Returned, RoomLeft,
        InPlace, Limit, Passes
  <1>13. CASE Client!ReportError /\ Alone
    <2> USE <1>13 DEF Client!ReportError, Alone, Client!Cleanup
    <2>1. reports' \in Seq([index : Client!Index, ok : BOOLEAN])
      BY <1>13, [index |-> urlsIndex - 1, ok |-> FALSE]
                \in [index : Client!Index, ok : BOOLEAN]
      DEF Client!Report, OneImage
    <2>2. TypeOK' BY <2>1 DEF OneImage, RoomLeft, Passes
    <2>3. OneImage' /\ Marked' /\ Returned' BY DEF OneImage, Returned
    <2>4. RoomLeft' BY DEF OneImage, RoomLeft, Limit
    <2>5. InPlace' BY DEF OneImage, InPlace
    <2> QED BY <2>2, <2>3, <2>4, <2>5
  <1>14. CASE Client!ResetTimer /\ Alone
    BY <1>14 DEF Client!ResetTimer, Alone, OneImage, Returned, RoomLeft, InPlace,
        Limit, Passes
  <1>15. CASE LoopEnds
    BY <1>15 DEF LoopEnds, Client!LoopEnds, Alone, OneImage, Returned, RoomLeft,
        InPlace, Limit, Passes
  <1>16. CASE CallListener
    <2>1. /\ \/ pc = "start" /\ pc' = "create" /\ handlerCount' = handlerCount
             \/ pc = "data" /\ pc' = "reset" /\ handlerCount' = handlerCount
             \/ pc = "failing" /\ pc' = "error" /\ handlerCount' = handlerCount
             \/ pc = "finishing" /\ pc' = "finish" /\ handlerCount' = handlerCount + 1
          /\ lateCalls' \in Nat
          /\ UNCHANGED <<Client!batchVars, Client!timerVars, Client!cancelVars,
                         net, reports, match, files, added, itemCanceled, search,
                         pageVars, late, lastDownloadCount, main>>
      BY <1>16, Calls DEF CallListener, Client!CallListener
    <2>2. TypeOK' BY <2>1 DEF OneImage, RoomLeft, Passes
    <2>3. OneImage' /\ Marked' /\ Returned' BY <2>1 DEF OneImage, Returned
    <2>4. RoomLeft'
      <3>1. CASE pc = "finishing"
        <4>1. search # "poll" => itemCanceled /\ search # "match"
          BY <3>1 DEF OneImage, Returned
        <4>2. net[0] \notin {"idle", "loading"}
          <5> HIDE DEF TypeOK, Client!TypeOK
          <5> QED BY <3>1 DEF OneImage
        <4>3. handlerCount' = handlerCount + 1 /\ handlerCount < Limit
                /\ handlerCount < matches
          BY <2>1, <3>1 DEF RoomLeft
        <4> QED BY <2>1, <3>1, <4>1, <4>2, <4>3 DEF RoomLeft, Limit
      <3>2. CASE pc # "finishing"
        BY <2>1, <3>2 DEF RoomLeft, Limit
      <3> QED BY <3>1, <3>2
    <2>5. InPlace' BY <2>1 DEF OneImage, InPlace
    <2> QED BY <2>2, <2>3, <2>4, <2>5
  <1>17. CASE TimeoutPasses
    BY <1>17 DEF TimeoutPasses, Client!TimeoutPasses, Alone, OneImage, Returned,
        RoomLeft, InPlace, Limit, Passes
  <1>25. CASE FileOnly /\ Client!DidReceiveData(0)
    <2>1. match \in Paths /\ match \in files' /\ files' = files \cup {match}
      BY <1>25 DEF FileOnly, Client!DidReceiveData, Client!Direct, OneImage, InPlace
    <2>2. /\ UNCHANGED <<Client!batchVars, Client!timerVars, Client!cancelVars, net,
                         reports, lateCalls, match, added, handlerCount, itemCanceled,
                         search, pageVars, late, lastDownloadCount, main>>
          /\ net[0] = "loading"
          /\ pc' = pc \/ (pc = "loop" /\ ~canceled /\ pc' \in {"data", "reset"})
      BY <1>25 DEF FileOnly, Client!DidReceiveData
    <2>3. TypeOK' BY <2>1, <2>2
    <2>4. OneImage'
      <3>1. CASE UNCHANGED pc
        BY <2>2, <3>1 DEF OneImage
      <3>2. CASE pc = "loop" /\ ~canceled /\ pc' \in {"data", "reset"}
        <4>1. ~finished BY <2>2 DEF OneImage
        <4> QED BY <2>2, <3>2, <4>1 DEF OneImage
      <3> QED BY <2>2, <3>1, <3>2
    <2>5. Marked' /\ Returned' /\ RoomLeft'
      BY <2>2 DEF OneImage, Returned, RoomLeft, Limit
    <2>6. InPlace' BY <2>1, <2>2 DEF InPlace
    <2> QED BY <2>3, <2>4, <2>5, <2>6
  <1>26. CASE FileOnly /\ Client!DownloadDidFinish(0)
    <2>1. match \in Paths /\ match \in files' /\ files' = files \cup {match}
      <3>1. match \in Paths
        BY <1>26 DEF Client!DownloadDidFinish, OneImage, InPlace
      <3> QED BY <1>26, <3>1, FileWritten DEF FileOnly, Client!DownloadDidFinish
    <2>2. /\ pc = "loop" /\ net[0] = "loading" /\ net' = [net EXCEPT ![0] = "ended"]
          /\ \/ UNCHANGED <<downloadCount, pc>>
             \/ ~canceled /\ downloadCount' = downloadCount + 1 /\ pc' = "finishing"
          /\ UNCHANGED <<urlsIndex, currentDownload, finished, timer, timedOut,
                         canceled, canceling, reports, lateCalls, match, added,
                         handlerCount, itemCanceled, search, pageVars, late,
                         lastDownloadCount, main>>
      BY <1>26 DEF FileOnly, Client!DownloadDidFinish
    <2>3. TypeOK' BY <2>1, <2>2 DEF OneImage
    <2>4. OneImage' /\ Marked' /\ Returned' BY <2>2 DEF OneImage, Returned
    <2>5. RoomLeft' BY <2>2 DEF OneImage, Returned, RoomLeft, Limit
    <2>6. InPlace' BY <2>1, <2>2 DEF OneImage, InPlace
    <2> QED BY <2>3, <2>4, <2>5, <2>6
  <1>27. CASE FileOnly /\ Client!DownloadDidFail(0)
    <2>1. match \in Paths /\ match \notin files' /\ files' = files \ {match}
      <3>1. match \in Paths
        BY <1>27 DEF Client!DownloadDidFail, OneImage, InPlace
      <3> QED BY <1>27, <3>1, FileWritten DEF FileOnly, Client!DownloadDidFail
    <2>2. /\ pc = "loop" /\ net[0] = "loading" /\ net' = [net EXCEPT ![0] = "ended"]
          /\ pc' = "failed"
          /\ UNCHANGED <<Client!batchVars, Client!timerVars, Client!cancelVars,
                         reports, lateCalls, match, added, handlerCount, itemCanceled,
                         search, pageVars, late, lastDownloadCount, main>>
      BY <1>27 DEF FileOnly, Client!DownloadDidFail
    <2>3. TypeOK' BY <2>1, <2>2
    <2>4. OneImage' /\ Marked' /\ Returned' BY <2>2 DEF OneImage, Returned
    <2>5. RoomLeft' BY <2>2 DEF OneImage, Returned, RoomLeft, Limit
    <2>6. InPlace' BY <2>1, <2>2 DEF OneImage, InPlace
    <2> QED BY <2>3, <2>4, <2>5, <2>6
  <1>28. CASE FileOnly /\ Client!TimedOut
    <2>1. /\ pc = "loop" /\ timer = "due" /\ timer' = "fired"
          /\ Client!Cancel
          /\ \/ UNCHANGED <<timedOut, pc>>
             \/ ~canceled /\ timedOut' = TRUE /\ pc' = "failed"
          /\ UNCHANGED <<Client!batchVars, Client!cancelVars, reports, lateCalls,
                         match, added, handlerCount, itemCanceled, search, pageVars,
                         late, lastDownloadCount, main>>
      BY <1>28 DEF FileOnly, Client!TimedOut
    <2>2. /\ net' \in [Client!Index -> {"idle", "loading", "cancelled", "ended"}]
          /\ net'[0] # "loading"
          /\ net[0] # "loading" => net' = net /\ (match \in files' <=> match \in files)
          /\ net[0] = "loading" => net'[0] = "cancelled"
      BY <2>1, FileCancelled
    <2>3. files' \in {files, files \cup {match}, files \ {match}} /\ match \in Paths
      BY <1>28, <2>1 DEF FileOnly, InPlace
    <2>4. TypeOK'
      <3>1. pc' \in Client!PC /\ timedOut' \in BOOLEAN /\ files' \subseteq Paths
        BY <2>1, <2>3
      <3>2. Client!TypeOK'
        <4> HIDE DEF TypeOK
        <4> QED BY <2>1, <2>2, <3>1 DEF TypeOK
      <3> HIDE DEF Client!TypeOK
      <3> QED BY <2>1, <3>1, <3>2 DEF TypeOK
    <2>5. OneImage' /\ Marked' /\ Returned'
      <3>1. pc' \in {"loop", "failed"} /\ (pc' = "failed" => ~canceled)
        BY <2>1
      <3>2. OneImage'
        <4>1. UNCHANGED <<urlsIndex, downloadCount, currentDownload, finished>>
          BY <2>1
        <4>2. /\ net[0] \in {"idle", "loading", "cancelled", "ended"}
              /\ net'[0] \in {net[0], "cancelled"}
              /\ net[0] = "idle" => net'[0] = "idle"
          BY <2>2
        <4> HIDE DEF TypeOK, Client!TypeOK, Marked
        <4> QED BY <2>1, <2>2, <3>1, <4>1, <4>2 DEF OneImage
      <3>3. Marked' BY <2>1
      <3>4. Returned' BY <2>1, <3>1 DEF Returned, OneImage
      <3> QED BY <3>2, <3>3, <3>4
    <2>6. RoomLeft' BY <2>1, <2>2 DEF OneImage, Returned, RoomLeft, Limit
    <2>7. InPlace' BY <2>1, <2>2, <2>3 DEF OneImage, InPlace
    <2> QED BY <2>4, <2>5, <2>6, <2>7
  <1>18. CASE AddToImageArray
    <2> USE <1>18 DEF AddToImageArray, Client!ReportFinish, Client!Cleanup
    <2>1. reports' \in Seq([index : Client!Index, ok : BOOLEAN])
      BY [index |-> urlsIndex - 1, ok |-> TRUE]
           \in [index : Client!Index, ok : BOOLEAN]
      DEF Client!Report, OneImage
    <2>2. Client!TypeOK'
      <3> HIDE DEF TypeOK
      <3> QED BY <2>1 DEF TypeOK
    <2>3. files' \subseteq Paths /\ added' \in [Paths -> Nat]
      BY DEF InPlace
    <2>4. TypeOK'
      <3> HIDE DEF Client!TypeOK
      <3> QED BY <2>2, <2>3 DEF RoomLeft, Passes
    <2>5. OneImage' /\ Marked' /\ Returned' BY DEF OneImage, Returned
    <2>6. RoomLeft' BY DEF OneImage, RoomLeft, Limit
    <2>7. InPlace' BY DEF OneImage, InPlace
    <2> QED BY <2>4, <2>5, <2>6, <2>7
  <1>19. CASE CancelItem
    BY <1>19 DEF CancelItem, OneImage, Returned, RoomLeft, InPlace, Limit,
        Passes
  <1>20. CASE CancelHandler
    <2> USE <1>20 DEF CancelHandler, Client!SetCanceled
    <2>1. CASE match = NoPath
      BY <2>1 DEF OneImage, Returned, RoomLeft, InPlace, Limit, Passes
    <2>2. CASE match # NoPath
      <3>1. TypeOK' BY <2>2 DEF OneImage, RoomLeft, Passes
      <3>2. OneImage' /\ Marked' /\ Returned' BY <2>2 DEF OneImage, Returned
      <3>3. RoomLeft' BY <2>2 DEF OneImage, RoomLeft, Limit
      <3>4. InPlace' BY <2>2 DEF OneImage, InPlace
      <3> QED BY <3>1, <3>2, <3>3, <3>4
    <2> QED BY <2>1, <2>2
  <1>21. CASE CancelDownload
    <2> USE <1>21 DEF CancelDownload, Client!CancelCurrent
    <2>1. CASE ~canceling
      BY <2>1 DEF OneImage, Returned, RoomLeft, InPlace, Limit, Passes
    <2>2. CASE canceling
      <3>1. /\ Client!Cancel /\ canceling' = FALSE
            /\ files' \in {files, files \ {match}}
            /\ UNCHANGED <<pc, Client!batchVars, Client!timerVars, canceled, reports,
                           lateCalls, match, added, handlerCount, itemCanceled,
                           search, pageVars, late, lastDownloadCount>>
        BY <2>2
      <3>2. /\ net' \in [Client!Index -> {"idle", "loading", "cancelled", "ended"}]
            /\ net'[0] # "loading"
            /\ net[0] # "loading" => net' = net /\ (match \in files' <=> match \in files)
            /\ net[0] = "loading" => net'[0] = "cancelled"
        BY <3>1, FileCancelled
      <3>3. TypeOK' BY <3>1, <3>2
      <3>4. OneImage' /\ Marked' /\ Returned'
        BY <3>1, <3>2 DEF OneImage, Returned
      <3>5. RoomLeft' BY <3>1, <3>2 DEF OneImage, RoomLeft, Limit
      <3>6. InPlace' BY <3>1, <3>2 DEF OneImage, InPlace
      <3> QED BY <3>3, <3>4, <3>5, <3>6
    <2> QED BY <2>1, <2>2
  <1>22. CASE Stopped
    BY <1>22 DEF Stopped, OneImage, Returned, RoomLeft, InPlace, Limit, Passes
  <1>23. CASE UNCHANGED vars
    BY <1>23 DEF vars, OneImage, Returned, RoomLeft, InPlace
  <1> QED
    BY <1>1, <1>2, <1>3, <1>4, <1>5, <1>6, <1>7, <1>8, <1>9, <1>10, <1>11,
        <1>12, <1>13, <1>14, <1>15, <1>16, <1>17, <1>18, <1>19, <1>20, <1>21,
        <1>22, <1>23, <1>25, <1>26, <1>27, <1>28
    DEF Next, SearchThread, DownloadThread, Network, Stopping

LEMMA Invariance == Spec => []IInv
  BY InitIInv, NextIInv, PTL DEF Spec
-----------------------------------------------------------------------------
(* The variables stay within their types, whatever the page and whoever     *)
(* stops.                                                                   *)
THEOREM TypeCorrect == Spec => []TypeOK
  BY Invariance, PTL DEF IInv

(* The limit of images holds for every limit and every page: a count that   *)
(* the download thread keeps, tested by the search thread in four loops.    *)
THEOREM LimitKept == Spec => []LimitRespected
  <1>1. IInv => LimitRespected
    BY DEF IInv, RoomLeft, Limit, LimitRespected
  <1> QED BY Invariance, <1>1, PTL

(* However often a page links to an image, it is added once.                *)
THEOREM NoDuplicates == Spec => []DownloadedOnce
  <1>1. IInv => DownloadedOnce
    BY DEF IInv, TypeOK, InPlace, DownloadedOnce
  <1> QED BY Invariance, <1>1, PTL
-----------------------------------------------------------------------------
(* Who stops, and when. *)

(* A download that begins after the mark leaves no further match to look at. *)
Heeded == late > 0 => itemCanceled /\ search # "match"

LEMMA NextHeeded == IInv /\ Heeded /\ [Next]_vars => Heeded'
  <1> SUFFICES ASSUME IInv, Heeded, [Next]_vars PROVE Heeded'
    OBVIOUS
  <1> USE DEF Heeded, SearchGoes
  <1>1. CASE SearchData \/ InvalidMatch \/ NoMoreMatches \/ DownloadReturns
               \/ Matched \/ DidCompleteMatchSearch
    BY <1>1 DEF SearchData, InvalidMatch, NoMoreMatches, NextPass, DownloadReturns,
        Matched, DidCompleteMatchSearch
  <1>2. CASE DidFindMatch
    BY <1>2 DEF DidFindMatch, IInv, TypeOK, Marked
  <1>3. CASE CancelItem
    BY <1>3 DEF CancelItem
  <1>4. CASE UNCHANGED <<itemCanceled, late, search>>
    BY <1>4
  <1> QED
    BY <1>1, <1>2, <1>3, <1>4
    DEF Next, SearchThread, Stopping, Download, DownloadThread, CallListener,
        AddToImageArray, LoopEnds, Network, TimeoutPasses, Alone, FileOnly,
        CancelHandler, CancelDownload, Stopped, vars

LEMMA HeededInvariance == Spec => [](IInv /\ Heeded)
  <1>1. Init => Heeded
    BY DEF Init, Heeded
  <1> QED BY <1>1, NextHeeded, InitIInv, NextIInv, PTL DEF Spec

(* One download at most begins after the view was told to stop, though the  *)
(* search thread tests the mark only between matches and passes.            *)
THEOREM StopHeeded == Spec => StopIsHeeded
  <1>1. IInv /\ Heeded /\ [Next]_vars => [matches' # matches /\ search' = "poll" => late = 0]_vars
    <2> SUFFICES ASSUME IInv, Heeded, Next, matches' # matches, search' = "poll"
                 PROVE  late = 0
      OBVIOUS
    <2>1. CASE DidFindMatch
      BY <2>1 DEF DidFindMatch, SearchGoes, Heeded, IInv, TypeOK
    <2>2. CASE ~DidFindMatch
      BY <2>2 DEF Next, SearchThread, DownloadThread, Stopping, SearchData,
          InvalidMatch, NoMoreMatches, Download, DownloadReturns, Matched,
          DidCompleteMatchSearch, CallListener, AddToImageArray, LoopEnds, Network,
          TimeoutPasses, Alone, FileOnly, CancelItem, CancelHandler,
          CancelDownload, Stopped, SearchGoes, pageVars
    <2> QED BY <2>1, <2>2
  <1> QED BY <1>1, HeededInvariance, PTL DEF Spec, StopIsHeeded
-----------------------------------------------------------------------------
(* The count of a search that nobody cancelled. *)

Images == {p \in Paths : added[p] > 0}

(* Every image counted was added, or is being added, *)
Counted ==
  /\ IsFiniteSet(Images)
  /\ ~itemCanceled =>
       handlerCount = Cardinality(Images) + (IF pc = "finish" THEN 1 ELSE 0)

(* and the search ends with that count.                                     *)
Recorded == search = "over" /\ ~itemCanceled => lastDownloadCount = handlerCount

CountInv == Counted /\ Recorded

LEMMA InitCountInv == Init => CountInv
  <1> SUFFICES ASSUME Init PROVE CountInv
    OBVIOUS
  <1>1. Images = {}
    BY DEF Init, Images
  <1>2. IsFiniteSet(Images) /\ Cardinality(Images) = 0
    BY <1>1, FS_EmptySet
  <1> QED BY <1>2 DEF Init, Client!Init, CountInv, Counted, Recorded

(* A step that neither counts nor adds an image.                            *)
LEMMA UncountedStep ==
  ASSUME CountInv, UNCHANGED <<added, handlerCount>>,
         itemCanceled => itemCanceled',
         ~itemCanceled => (pc' = "finish" <=> pc = "finish"),
         search' = "over" /\ ~itemCanceled' =>
           lastDownloadCount' = handlerCount
             \/ (search = "over" /\ lastDownloadCount' = lastDownloadCount)
  PROVE  CountInv'
  <1>1. Images' = Images
    BY DEF Images
  <1> QED BY <1>1 DEF CountInv, Counted, Recorded

LEMMA NextCountInv == IInv /\ CountInv /\ [Next]_vars => CountInv'
  <1> SUFFICES ASSUME IInv, CountInv, [Next]_vars PROVE CountInv'
    OBVIOUS
  <1> USE DEF SearchGoes, clientVars, pageVars, Client!batchVars, Client!timerVars,
              Client!cancelVars, Client!fileVars, Client!listenerVars
  (* Unless the item is marked, the search thread waits for its image. *)
  <1>0. ~itemCanceled /\ search # "poll" => pc \in {"init", "loop", "exited"}
    BY DEF IInv, Marked, Returned, OneImage
  <1>1. CASE SearchData \/ InvalidMatch \/ NoMoreMatches \/ DownloadReturns \/ Matched
    <2>1. UNCHANGED <<added, handlerCount, itemCanceled, pc>> /\ search' # "over"
      BY <1>1 DEF SearchData, InvalidMatch, NoMoreMatches, NextPass, DownloadReturns,
          Matched
    <2> QED BY <2>1, UncountedStep
  <1>2. CASE DidCompleteMatchSearch
    BY <1>2, UncountedStep DEF DidCompleteMatchSearch
  <1>3. CASE DidFindMatch
    <2>1. UNCHANGED <<added, handlerCount, itemCanceled>> /\ search' = "poll"
            /\ pc' = "init" /\ search = "match"
      BY <1>3 DEF DidFindMatch
    <2> QED BY <1>0, <2>1, UncountedStep
  <1>4. CASE Download
    <2>1. /\ UNCHANGED <<added, handlerCount, itemCanceled, search, lastDownloadCount>>
          /\ pc = "init" /\ pc' \in {"exited", "next"}
      BY <1>4 DEF Download, Client!Start, Alone
    <2> QED BY <2>1, UncountedStep
  <1>5. CASE DownloadThread \/ LoopEnds \/ Network \/ TimeoutPasses
    <2>1. UNCHANGED <<added, handlerCount, itemCanceled, search, lastDownloadCount>>
      BY <1>5 DEF DownloadThread, LoopEnds, Network, TimeoutPasses, Alone, FileOnly
    <2>2. pc' = "finish" <=> pc = "finish"
      <3>1. CASE DownloadThread
        <4>1. CASE Client!DownloadNext \/ Client!FailWithError
          BY <4>1 DEF Client!DownloadNext, Client!FailWithError
        <4>2. CASE Client!CreateDownload \/ Client!StartTimer
          BY <4>2 DEF Client!CreateDownload, Client!StartTimer
        <4>3. CASE Client!ReportError \/ Client!ResetTimer
          BY <4>3 DEF Client!ReportError, Client!ResetTimer
        <4>4. CASE Client!TimedOut
          BY <4>4 DEF Client!TimedOut
        <4> QED BY <3>1, <4>1, <4>2, <4>3, <4>4 DEF DownloadThread
      <3>2. CASE LoopEnds \/ TimeoutPasses
        BY <3>2 DEF LoopEnds, TimeoutPasses, Client!LoopEnds, Client!TimeoutPasses
      <3>3. CASE Network
        BY <3>3 DEF Network, Client!DidReceiveData, Client!DownloadDidFinish,
            Client!DownloadDidFail
      <3> QED BY <1>5, <3>1, <3>2, <3>3
    <2> QED BY <2>1, <2>2, UncountedStep
  <1>6. CASE CallListener
    <2>1. /\ UNCHANGED <<added, itemCanceled, search, lastDownloadCount>>
          /\ pc # "finish"
          /\ \/ pc = "finishing" /\ pc' = "finish" /\ handlerCount' = handlerCount + 1
             \/ pc # "finishing" /\ pc' # "finish" /\ handlerCount' = handlerCount
      <3>1. handlerCount + 0 = handlerCount
        BY LocationAssumption DEF IInv, TypeOK
      <3> QED BY <1>6, <3>1, Calls DEF CallListener, Client!CallListener
    <2>2. Images' = Images
      BY <2>1 DEF Images
    <2>3. Counted'
      <3>1. ASSUME IsFiniteSet(Images) PROVE Cardinality(Images) \in Nat
        BY <3>1, FS_CardinalityType
      <3>2. handlerCount \in Int
        BY LocationAssumption DEF IInv, TypeOK
      <3> QED BY <2>1, <2>2, <3>1, <3>2 DEF CountInv, Counted
    <2>4. search = "over" /\ ~itemCanceled => pc # "finishing"
      BY <1>0
    <2>5. Recorded'
      BY <2>1, <2>4 DEF CountInv, Recorded
    <2> QED BY <2>3, <2>5 DEF CountInv
  <1>7. CASE AddToImageArray
    <2>1. /\ UNCHANGED <<match, handlerCount, itemCanceled, search, lastDownloadCount>>
          /\ pc = "finish" /\ pc' = "next"
          /\ added' = [added EXCEPT ![match] = @ + 1]
      BY <1>7 DEF AddToImageArray, Client!ReportFinish
    <2>2. match \in Paths /\ added[match] = 0 /\ added \in [Paths -> Nat]
      BY <2>1 DEF IInv, TypeOK, InPlace
    <2>3. match \notin Images /\ Images' = Images \cup {match}
      BY <2>1, <2>2 DEF Images
    <2>4. IsFiniteSet(Images') /\ Cardinality(Images') = Cardinality(Images) + 1
      BY <2>3, FS_AddElement DEF CountInv, Counted
    <2>5. Cardinality(Images) \in Nat
      BY FS_CardinalityType DEF CountInv, Counted
    <2>6. Counted'
      BY <2>1, <2>4, <2>5 DEF CountInv, Counted
    <2>7. Recorded'
      BY <2>1 DEF CountInv, Recorded
    <2> QED BY <2>6, <2>7 DEF CountInv
  <1>8. CASE CancelItem
    <2>1. UNCHANGED <<added, handlerCount, pc, search, lastDownloadCount>>
            /\ itemCanceled'
      BY <1>8 DEF CancelItem
    <2> QED BY <2>1, UncountedStep
  <1>9. CASE Stopping
    <2>1. UNCHANGED <<added, handlerCount, itemCanceled, search, lastDownloadCount>>
      BY <1>9 DEF Stopping, CancelHandler, CancelDownload, Stopped
    <2>2. pc' = pc
      BY <1>9 DEF Stopping, CancelHandler, CancelDownload, Stopped,
          Client!SetCanceled, Client!CancelCurrent
    <2> QED BY <2>1, <2>2, UncountedStep
  <1>10. CASE UNCHANGED vars
    BY <1>10, UncountedStep DEF vars
  <1> QED
    BY <1>1, <1>2, <1>3, <1>4, <1>5, <1>6, <1>7, <1>8, <1>9, <1>10
    DEF Next, SearchThread

(* The count shown for a location is that of the images added, however many *)
(* matches fail, repeat or are there already: the download thread counts    *)
(* before the main thread adds, and the search ends with both done.         *)
THEOREM CountIsOfImages == Spec => []CountOfImagesAdded
  <1>1. IInv /\ CountInv => CountOfImagesAdded
    <2> SUFFICES ASSUME IInv, CountInv, search = "over", ~itemCanceled
                 PROVE  lastDownloadCount = Cardinality(Images)
      BY DEF CountOfImagesAdded, Images
    <2>1. pc # "finish"
      BY DEF IInv, Marked, Returned, OneImage
    <2>2. Cardinality(Images) \in Nat
      BY FS_CardinalityType DEF CountInv, Counted
    <2> QED BY <2>1, <2>2 DEF CountInv, Counted, Recorded
  <1> QED
    BY <1>1, Invariance, InitCountInv, NextCountInv, PTL DEF Spec
=============================================================================
