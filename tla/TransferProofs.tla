---------------------------- MODULE TransferProofs ----------------------------
(***************************************************************************)
(* Proofs about the transfers of ImageManager.                             *)
(*                                                                         *)
(* That the flag is backed holds for any number of launches and whatever   *)
(* songs change, unless a stop falls between the two calls of a reload.    *)
(* The rest holds in calm behaviours, in which no reload cancels a         *)
(* transfer and no thread of an earlier launch is left over; README, "What *)
(* holds only there", has what TLC finds without these conditions.         *)
(***************************************************************************)
EXTENDS ImageManagerProofs

(* No reload has cancelled and is yet to take it back. *)
NoReload == \A l \in Launches : image[l] # "reload"

(* No stop, up to the next start, finds one there. *)
ReloadsClear == main \in {"waiting", "stopped", "starting"} => NoReload

(* A start finds no thread left over. *)
NoLeftover == main \in {"starting", "reload"} => \A l \in Launches : ~Active(l)

Calm == OnePair /\ NoLeftover /\ NoReload
-----------------------------------------------------------------------------
(* The flag is backed, whatever launches are left over. *)

(* Before the first start nothing has been done; later the manager is       *)
(* cancelled until the view has started again.                              *)
StoppedOrFresh ==
  main \in {"stopped", "starting", "waiting"} =>
    canceled \/ (~transfering /\ clients = <<>> /\ \A l \in Launches : ~Active(l))

(* Client c will lower the flag: its page is yet to be parsed, or it has    *)
(* the number of links that -checkIfFinished: waits for and work to do.     *)
WillEnd(c) ==
  \/ clients[c].conn = "loading"
  \/ \E l \in Launches : serving[l] = c /\ search[l] = "parse"
  \/ /\ clients[c].links = transferImageCount
     /\ \/ Downloading(c)
        \/ \E l \in Launches :
             /\ serving[l] = c
             /\ \/ search[l] = "links" /\ clients[c].links > 0
                \/ search[l] \in {"adding", "check"} /\ clients[c].batch = "running"

(* With several launches the count may be another client's; then that       *)
(* client, the last one to be parsed, ends the transfer.                    *)
FlagWillFall ==
  Undisturbed /\ transfering => \E c \in 1 .. Len(clients) : WillEnd(c)

FlagInv == StoppedOrFresh /\ FlagWillFall

LEMMA InitFlagInv == Init => FlagInv
  BY DEF Init, FlagInv, StoppedOrFresh, FlagWillFall, Active

LEMMA NextStoppedOrFresh ==
  ASSUME IInv, ReloadsClear, StoppedOrFresh, [Next]_vars
  PROVE  StoppedOrFresh'
  <1>1. ASSUME NEW l \in Launches, ImageThread(l)
        PROVE  /\ Active(l) /\ main' = main
               /\ main \in {"stopped", "starting", "waiting"} /\ canceled => canceled'
    <2>1. CASE ReloadEnds(l)
      BY <2>1 DEF ReloadEnds, ImageGoes, viewVars, Active, NoReload, ReloadsClear
    <2>2. CASE ReloadCancels(l)
      BY <2>2 DEF ReloadCancels, ImageGoes, viewVars, Active, CancelManager
    <2>3. CASE ~ReloadEnds(l) /\ ~ReloadCancels(l)
      <3>1. Active(l)
        BY <1>1, <2>3 DEF ImageThread, ImageThreadBegins, ReloadCache, CheckType,
            BeginChoice, CheckSearchItem, GetFromImageArray, ImageThreadEnds,
            ImageGoes, Active
      <3>2. main' = main /\ canceled' = canceled
        BY <1>1, <2>3 DEF ImageThread, ImageThreadBegins, ReloadCache, CheckType,
            BeginChoice, CheckSearchItem, GetFromImageArray, ImageThreadEnds, viewVars
      <3> QED BY <3>1, <3>2
    <2> QED BY <2>1, <2>2, <2>3
  <1>2. ASSUME NEW l \in Launches, SearchThread(l) \/ AddToImageArray(l)
        PROVE  Active(l) /\ main' = main /\ canceled' = canceled
    BY <1>2 DEF SearchThread, Callback, SearchThreadBegins, CheckSearch, TriggerSearch,
        Connect, SearchThreadEnds, SearchFails, SearchLoads, DidFinishDownload,
        DidErrorOnDownload, DidFinishSearch, StartDownloads, NotFinished,
        DidFinishDownloads, CheckResults, AddToImageArray, SearchGoes, viewVars, Active
  <1>3. ASSUME NEW l \in Launches, ImageThread(l) \/ SearchThread(l) \/ AddToImageArray(l)
        PROVE  StoppedOrFresh'
    BY <1>1, <1>2, <1>3 DEF StoppedOrFresh
  <1>4. CASE StartAnimation
    BY <1>4 DEF StartAnimation, StoppedOrFresh, Active
  <1>5. CASE StartManager \/ StartThreads
    BY <1>5 DEF StartManager, StartThreads, StoppedOrFresh
  <1>6. CASE StopAnimation
    BY <1>6 DEF StopAnimation, StoppedOrFresh
  <1>7. CASE StopManager
    BY <1>7 DEF StopManager, CancelManager, StoppedOrFresh
  <1>8. CASE ThreadsFinished \/ GiveUp
    BY <1>8 DEF ThreadsFinished, GiveUp, StoppedOrFresh, Active
  <1>9. CASE UNCHANGED vars
    BY <1>9 DEF vars, viewVars, itemVars, countVars, StoppedOrFresh, Active
  <1>10. ASSUME NEW thread \in asking, Answer(thread) PROVE StoppedOrFresh'
    BY <1>10 DEF Answer, viewVars, StoppedOrFresh, Active
  <1> QED
    BY <1>3, <1>4, <1>5, <1>6, <1>7, <1>8, <1>9, <1>10 DEF Next, MainThread

(* The search thread of m is in the same part of a callback, or in none. *)
SameWork(m) ==
  /\ search'[m] = "parse" <=> search[m] = "parse"
  /\ search'[m] = "links" <=> search[m] = "links"
  /\ search'[m] \in {"adding", "check"} <=> search[m] \in {"adding", "check"}

(* A step outside the callbacks that leaves the clients alone. *)
LEMMA AsideWillEnd ==
  ASSUME clients' = clients, serving' = serving,
         transferImageCount' = transferImageCount,
         \A m \in Launches : SameWork(m)
  PROVE  \A c \in 1 .. Len(clients) : WillEnd(c)' <=> WillEnd(c)
  <1>1. \A c \in 1 .. Len(clients) : Downloading(c)' <=> Downloading(c)
    BY DEF Downloading
  <1> QED BY <1>1 DEF WillEnd, SameWork

(* A callback of thread l for its client c does nothing to another's.       *)
LEMMA OtherWillEnd ==
  ASSUME NEW l \in Launches, NEW c \in 1 .. Len(clients), NEW k \in 1 .. Len(clients),
         k # c, clients'[k] = clients[k], transferImageCount' = transferImageCount,
         search[l] = "loop" \/ serving[l] = c,
         \A m \in Launches : m # l => search'[m] = search[m] /\ serving'[m] = serving[m],
         WillEnd(k)
  PROVE  WillEnd(k)'
  <1>1. Downloading(k)' <=> Downloading(k)
    BY DEF Downloading
  <1> QED BY <1>1 DEF WillEnd

LEMMA NextFlagInv == IInv /\ ReloadsClear /\ FlagInv /\ [Next]_vars => FlagInv'
  <1> SUFFICES ASSUME IInv, ReloadsClear, FlagInv, [Next]_vars PROVE FlagInv'
    OBVIOUS
  <1>1. StoppedOrFresh'
    BY NextStoppedOrFresh DEF FlagInv
  <1> SUFFICES ASSUME Undisturbed', transfering'
               PROVE  \E c \in 1 .. Len(clients') : WillEnd(c)'
    BY <1>1 DEF FlagInv, FlagWillFall
  <1> USE DEF IInv, ImageGoes, SearchGoes, viewVars, itemVars, countVars
  <1>2. clients \in Seq(Client)
    BY DEF TypeOK
  <1>3. ASSUME UNCHANGED <<clients, serving, transferImageCount, transfering>>,
               Undisturbed, \A m \in Launches : SameWork(m)
        PROVE  \E c \in 1 .. Len(clients') : WillEnd(c)'
    <2>1. PICK c \in 1 .. Len(clients) : WillEnd(c)
      BY <1>3 DEF FlagInv, FlagWillFall
    <2>2. WillEnd(c)' /\ clients' = clients
      BY <1>3, <2>1, AsideWillEnd
    <2> QED BY <2>2
  <1>4. CASE MainThread
    <2>1. CASE StartAnimation
      <3>1. Undisturbed
        BY <1>1, <2>1 DEF StartAnimation, Undisturbed, FlagInv, StoppedOrFresh
      <3> QED BY <1>3, <2>1, <3>1 DEF StartAnimation, SameWork
    <2>2. CASE StartManager
      BY <2>2 DEF StartManager, UncancelManager
    <2>3. CASE StopAnimation
      BY <2>3 DEF StopAnimation, Undisturbed
    <2>4. CASE StopManager
      BY <2>4 DEF StopManager, CancelManager, Undisturbed
    <2>5. CASE StartThreads \/ ThreadsFinished \/ GiveUp
      <3>1. /\ UNCHANGED <<clients, serving, transferImageCount, transfering>>
            /\ search' = search /\ canceled' = canceled /\ viewCanceled' = viewCanceled
        BY <2>5 DEF StartThreads, ThreadsFinished, GiveUp
      <3> QED BY <1>3, <3>1 DEF SameWork, Undisturbed
    <2> QED BY <1>4, <2>1, <2>2, <2>3, <2>4, <2>5 DEF MainThread
  <1>5. ASSUME NEW l \in Launches, ImageThread(l)
        PROVE  \E c \in 1 .. Len(clients') : WillEnd(c)'
    <2>1. CASE ReloadCancels(l)
      BY <2>1 DEF ReloadCancels, CancelManager, Undisturbed
    <2>2. CASE ReloadEnds(l)
      BY <2>2 DEF ReloadEnds, UncancelManager
    <2>3. CASE ImageThreadBegins(l)
      <3>1. \A m \in Launches : SameWork(m)
        BY <2>3 DEF ImageThreadBegins, SameWork, TypeOK, Launching
      <3>2. Undisturbed
        BY <2>3 DEF ImageThreadBegins, Undisturbed
      <3> QED BY <1>3, <2>3, <3>1, <3>2 DEF ImageThreadBegins
    <2>4. CASE ReloadCache(l) \/ CheckType(l) \/ BeginChoice(l) \/ CheckSearchItem(l)
                 \/ GetFromImageArray(l) \/ ImageThreadEnds(l)
      <3>1. /\ UNCHANGED <<clients, serving, transferImageCount, transfering>>
            /\ search' = search /\ canceled' = canceled /\ viewCanceled' = viewCanceled
        BY <2>4 DEF ReloadCache, CheckType, BeginChoice, CheckSearchItem,
            GetFromImageArray, ImageThreadEnds
      <3> QED BY <1>3, <3>1 DEF SameWork, Undisturbed
    <2> QED BY <1>5, <2>1, <2>2, <2>3, <2>4 DEF ImageThread
  <1>6. ASSUME NEW l \in Launches,
               SearchThreadBegins(l) \/ CheckSearch(l) \/ CheckResults(l)
                 \/ AddToImageArray(l)
        PROVE  \E c \in 1 .. Len(clients') : WillEnd(c)'
    <2>1. \A m \in Launches : SameWork(m)
      BY <1>6 DEF SearchThreadBegins, CheckSearch, CheckResults, AddToImageArray,
          SameWork, TypeOK
    <2>2. /\ UNCHANGED <<clients, serving, transferImageCount, transfering>>
          /\ canceled' = canceled /\ viewCanceled' = viewCanceled
      BY <1>6 DEF SearchThreadBegins, CheckSearch, CheckResults, AddToImageArray
    <2> QED BY <1>3, <2>1, <2>2 DEF Undisturbed
  <1>7. ASSUME NEW l \in Launches, TriggerSearch(l)
        PROVE  \E c \in 1 .. Len(clients') : WillEnd(c)'
    <2>1. /\ search[l] = "trigger"
          /\ \/ search' = [search EXCEPT ![l] = "loop"] /\ clients' = clients
             \/ ~transfering
          /\ serving' = serving /\ transferImageCount' = transferImageCount
          /\ transfering' = transfering
          /\ canceled' = canceled /\ viewCanceled' = viewCanceled
      BY <1>7 DEF TriggerSearch
    <2>2. \A m \in Launches : SameWork(m)
      BY <2>1 DEF SameWork, TypeOK
    <2> QED BY <1>3, <2>1, <2>2 DEF Undisturbed
  <1>16. ASSUME NEW l \in Launches, Connect(l)
        PROVE  \E c \in 1 .. Len(clients') : WillEnd(c)'
    <2>1. search[l] = "connect" /\ clients' = [clients EXCEPT ![Len(clients)].conn = "loading"]
      BY <1>16 DEF Connect
    <2>2. PICK n \in 1 .. Len(clients) : n = Len(clients)
      BY <1>2, <2>1 DEF Connecting
    <2>3. Len(clients') = Len(clients) /\ clients'[n] = [clients[n] EXCEPT !.conn = "loading"]
      BY <1>2, <2>1, <2>2
    <2>4. clients'[n].conn = "loading"
      BY <1>2, <2>2, <2>3 DEF Client
    <2> QED BY <2>2, <2>3, <2>4 DEF WillEnd
  <1>17. ASSUME NEW thread \in asking, Answer(thread)
         PROVE  \E c \in 1 .. Len(clients') : WillEnd(c)'
    BY <1>3, <1>17 DEF Answer, SameWork, Undisturbed
  <1>8. ASSUME NEW l \in Launches, SearchThreadEnds(l) PROVE FALSE
    BY <1>8 DEF SearchThreadEnds, Undisturbed
  <1>9. ASSUME NEW l \in Launches,
               DidFinishDownloads(l) \/ \E c \in 1 .. Len(clients) : SearchFails(l, c)
        PROVE  FALSE
    BY <1>9 DEF SearchFails, DidFinishDownloads
  <1>10. ASSUME NEW l \in Launches, NEW c \in 1 .. Len(clients), SearchLoads(l, c)
         PROVE  \E k \in 1 .. Len(clients') : WillEnd(k)'
    <2>1. /\ search[l] = "loop" /\ search' = [search EXCEPT ![l] = "parse"]
          /\ serving' = [serving EXCEPT ![l] = c]
          /\ clients' = [clients EXCEPT ![c].conn = "ended"]
      BY <1>10 DEF SearchLoads
    <2>2. search'[l] = "parse" /\ serving'[l] = c /\ Len(clients') = Len(clients)
      BY <1>2, <2>1 DEF TypeOK
    <2>3. WillEnd(c)'
      BY <2>2 DEF WillEnd
    <2> QED BY <2>2, <2>3
  <1>11. ASSUME NEW l \in Launches, DidFinishSearch(l)
         PROVE  \E k \in 1 .. Len(clients') : WillEnd(k)'
    <2> DEFINE c == serving[l]
    <2>1. /\ search[l] = "parse" /\ search' = [search EXCEPT ![l] = "links"]
          /\ serving' = serving /\ transferImageCount' > 0
          /\ clients' = [clients EXCEPT ![c].links = transferImageCount']
      BY <1>11 DEF DidFinishSearch
    <2>2. c \in 1 .. Len(clients) /\ clients[c] \in Client
      BY <1>2, <2>1 DEF Served
    <2>3. /\ search'[l] = "links" /\ serving'[l] = c /\ Len(clients') = Len(clients)
          /\ clients'[c].links = transferImageCount'
      <3>1. search'[l] = "links" /\ serving'[l] = c
        BY <2>1 DEF TypeOK
      <3>2. clients'[c] = [clients[c] EXCEPT !.links = transferImageCount']
              /\ Len(clients') = Len(clients)
        BY <1>2, <2>1, <2>2
      <3>3. clients'[c].links = transferImageCount'
        BY <2>2, <3>2 DEF Client
      <3> QED BY <3>1, <3>2, <3>3
    <2> HIDE DEF c
    <2>4. \E k \in 1 .. Len(clients') : k = c /\ WillEnd(k)'
      BY <2>1, <2>2, <2>3 DEF WillEnd
    <2> QED BY <2>4
  <1>12. ASSUME NEW l \in Launches, StartDownloads(l)
         PROVE  \E k \in 1 .. Len(clients') : WillEnd(k)'
    <2>1. PICK c \in 1 .. Len(clients) : c = serving[l]
      BY <1>12 DEF StartDownloads, Served
    <2>2. /\ search[l] = "links" /\ search' = [search EXCEPT ![l] = "loop"]
          /\ serving' = serving /\ transferImageCount' = transferImageCount
          /\ transfering /\ Undisturbed
          /\ clients' = [clients EXCEPT ![c].batch = "running"]
      BY <1>12, <2>1 DEF StartDownloads, Undisturbed
    <2>3. /\ clients[c] \in Client /\ AtPage(clients[c]) /\ clients[c].owner = l
          /\ InTurn(clients[c])
      BY <1>2, <2>1, <2>2 DEF Served, AllInTurn
    <2>4. /\ Len(clients') = Len(clients)
          /\ \A k \in 1 .. Len(clients) : k # c => clients'[k] = clients[k]
          /\ clients'[c].batch = "running" /\ clients'[c].links = clients[c].links
          /\ clients'[c].reported = clients[c].reported
      BY <1>2, <2>2, <2>3 DEF Client
    <2>5. PICK k \in 1 .. Len(clients) : WillEnd(k)
      BY <2>2 DEF FlagInv, FlagWillFall
    <2>6. CASE k = c
      <3>1. clients[c].links = transferImageCount /\ clients[c].links > 0
        <4>1. clients[c].conn # "loading" /\ ~Downloading(c)
          BY <2>3 DEF AtPage, Downloading
        <4>2. \A m \in Launches :
                serving[m] = c /\ search[m] \in {"parse", "links", "adding", "check"}
                  => m = l
          BY <2>3 DEF Served
        <4> QED BY <2>2, <2>3, <2>5, <2>6, <4>1, <4>2 DEF WillEnd, AtPage
      <3>2. Downloading(c)'
        BY <2>3, <2>4, <3>1 DEF Downloading, AtPage, InTurn
      <3>3. WillEnd(c)'
        BY <2>2, <2>4, <3>1, <3>2 DEF WillEnd
      <3> QED BY <2>4, <3>3
    <2>7. CASE k # c
      <3>1. WillEnd(k)'
        BY <2>1, <2>2, <2>4, <2>5, <2>7, OtherWillEnd DEF TypeOK
      <3> QED BY <2>4, <3>1
    <2> QED BY <2>6, <2>7
  <1>13. ASSUME NEW l \in Launches, NEW c \in 1 .. Len(clients),
                DidFinishDownload(l, c) \/ DidErrorOnDownload(l, c)
         PROVE  \E k \in 1 .. Len(clients') : WillEnd(k)'
    <2>1. /\ search[l] = "loop"
          /\ search' = [search EXCEPT ![l] = "adding"]
               \/ search' = [search EXCEPT ![l] = "check"]
          /\ serving' = [serving EXCEPT ![l] = c]
          /\ transferImageCount' = transferImageCount
          /\ transfering' = transfering
          /\ canceled' = canceled /\ viewCanceled' = viewCanceled
          /\ clients[c].owner = l /\ Downloading(c)
      <3>1. CASE DidFinishDownload(l, c)
        BY <3>1 DEF DidFinishDownload
      <3>2. CASE DidErrorOnDownload(l, c)
        BY <3>2 DEF DidErrorOnDownload
      <3> QED BY <1>13, <3>1, <3>2
    <2>2. /\ search'[l] \in {"adding", "check"} /\ serving'[l] = c
          /\ \A m \in Launches :
               m # l => search'[m] = search[m] /\ serving'[m] = serving[m]
      BY <2>1 DEF TypeOK
    <2>3. /\ clients[c] \in Client /\ InTurn(clients[c])
      BY <1>2 DEF AllInTurn
    <2>4. /\ Len(clients') = Len(clients)
          /\ \A k \in 1 .. Len(clients) : k # c => clients'[k] = clients[k]
          /\ clients'[c].batch = "running" /\ clients'[c].links = clients[c].links
      <3>1. clients[c].batch = "running"
        BY <2>1 DEF Downloading
      <3>2. CASE DidFinishDownload(l, c)
        BY <1>2, <2>3, <3>1, <3>2 DEF DidFinishDownload, Client
      <3>3. CASE DidErrorOnDownload(l, c)
        BY <1>2, <2>3, <3>1, <3>3 DEF DidErrorOnDownload, Client
      <3> QED BY <1>13, <3>2, <3>3
    <2>5. PICK k \in 1 .. Len(clients) : WillEnd(k)
      BY <2>1 DEF FlagInv, FlagWillFall, Undisturbed
    <2>6. CASE k = c
      <3>1. clients[c].links = transferImageCount
        BY <2>1, <2>3, <2>5, <2>6 DEF WillEnd, InTurn, Downloading, Served, AtPage
      <3>2. WillEnd(c)'
        BY <2>1, <2>2, <2>4, <3>1 DEF WillEnd
      <3> QED BY <2>4, <3>2
    <2>7. CASE k # c
      <3>1. WillEnd(k)'
        BY <2>1, <2>2, <2>4, <2>5, <2>7, OtherWillEnd
      <3> QED BY <2>4, <3>1
    <2> QED BY <2>6, <2>7
  <1>14. ASSUME NEW l \in Launches, NotFinished(l)
         PROVE  \E k \in 1 .. Len(clients') : WillEnd(k)'
    <2>1. /\ search[l] = "check" /\ search' = [search EXCEPT ![l] = "loop"]
          /\ UNCHANGED <<clients, serving, transferImageCount>>
          /\ transfering /\ Undisturbed
          /\ clients[serving[l]].reported < transferImageCount
      BY <1>14 DEF NotFinished, Undisturbed
    <2>2. PICK k \in 1 .. Len(clients) : WillEnd(k)
      BY <2>1 DEF FlagInv, FlagWillFall
    <2>3. \A m \in Launches : m # l => search'[m] = search[m]
      BY <2>1 DEF TypeOK
    <2>4. Downloading(k)' <=> Downloading(k)
      BY <2>1 DEF Downloading
    <2>5. WillEnd(k)'
      <3>1. CASE serving[l] = k /\ clients[k].links = transferImageCount
                   /\ clients[k].batch = "running"
        BY <2>1, <2>4, <3>1 DEF WillEnd, Downloading
      <3>2. CASE ~(serving[l] = k /\ clients[k].links = transferImageCount
                   /\ clients[k].batch = "running")
        BY <2>1, <2>2, <2>3, <2>4, <3>2 DEF WillEnd
      <3> QED BY <3>1, <3>2
    <2> QED BY <2>1, <2>5
  <1>15. CASE UNCHANGED vars
    BY <1>3, <1>15 DEF vars, SameWork, Undisturbed
  <1> QED
    BY <1>4, <1>5, <1>6, <1>7, <1>8, <1>9, <1>10, <1>11, <1>12, <1>13, <1>14, <1>15,
       <1>16, <1>17
    DEF Next, SearchThread, Callback

(* Only an item that follows iTunes makes -checkType: reload the cache. *)
NeverLoads == \A l \in Launches : image[l] \notin {"load", "reload"}

LEMMA NextNeverLoads ==
  ASSUME ITunes = {}, TypeOK, NeverLoads, [Next]_vars
  PROVE  NeverLoads'
  <1>1. ASSUME NEW m \in Launches, ImageThread(m) PROVE NeverLoads'
    BY <1>1 DEF ImageThread, ImageThreadBegins, ReloadCache, ReloadCancels, ReloadEnds,
        CheckType, BeginChoice, CheckSearchItem, GetFromImageArray, ImageThreadEnds,
        ImageGoes, NeverLoads, TypeOK, viewVars
  <1>2. ASSUME NEW m \in Launches, SearchThread(m) \/ AddToImageArray(m)
        PROVE  NeverLoads'
    BY <1>2 DEF SearchThread, Callback, SearchThreadBegins, CheckSearch, TriggerSearch,
        Connect, SearchThreadEnds, SearchFails, SearchLoads, DidFinishDownload,
        DidErrorOnDownload, DidFinishSearch, StartDownloads, NotFinished,
        DidFinishDownloads, CheckResults, AddToImageArray, NeverLoads
  <1>3. CASE MainThread
    BY <1>3 DEF MainThread, StartAnimation, StartManager, StartThreads, StopAnimation,
        StopManager, ThreadsFinished, GiveUp, ImageGoes, NeverLoads, TypeOK
  <1>4. CASE UNCHANGED vars
    BY <1>4 DEF vars, NeverLoads
  <1>5. ASSUME NEW thread \in asking, Answer(thread) PROVE NeverLoads'
    BY <1>5 DEF Answer, NeverLoads
  <1> QED BY <1>1, <1>2, <1>3, <1>4, <1>5 DEF Next

LEMMA NeverReloads ==
  ASSUME ITunes = {}
  PROVE  Spec => []NoReload
  <1>1. Init => NeverLoads
    BY DEF Init, NeverLoads
  <1>2. TypeOK /\ NeverLoads /\ [Next]_vars => NeverLoads'
    BY NextNeverLoads
  <1>3. NeverLoads => NoReload
    BY DEF NeverLoads, NoReload
  <1> QED BY <1>1, <1>2, <1>3, TypeCorrect, PTL DEF Spec

(* The flag that keeps searches away is never up with nobody left to lower  *)
(* it, however starts, stops, errors, empty pages and changes of the song   *)
(* follow one another and however many threads of earlier launches are left *)
(* over, unless -reloadCache takes back, with its own, the cancel of a stop.*)
THEOREM FlagBacked == Spec /\ []ReloadsClear => []TransferBacked
  <1>1. IInv /\ FlagInv => TransferBacked
    <2> SUFFICES ASSUME IInv, FlagInv, transfering, Undisturbed
                 PROVE  LiveClients # {}
      BY DEF TransferBacked
    <2>1. PICK c \in 1 .. Len(clients) : WillEnd(c)
      BY DEF FlagInv, FlagWillFall
    <2>2. Live(c)
      BY <2>1 DEF WillEnd, Live
    <2> QED BY <2>2 DEF LiveClients
  <1> QED BY <1>1, InitIInv, NextIInv, InitFlagInv, NextFlagInv, PTL DEF Spec

(* So with items that do not follow iTunes it holds unconditionally. *)
THEOREM FlagAlwaysBacked ==
  ASSUME ITunes = {}
  PROVE  Spec => []TransferBacked
  <1>1. NoReload => ReloadsClear
    BY DEF ReloadsClear
  <1> QED BY <1>1, NeverReloads, FlagBacked, PTL
-----------------------------------------------------------------------------
(* The invariant of calm behaviours. *)

(* Only the last client has work left, and then the flag is up. *)
LastOnly ==
  ~canceled => \A c \in 1 .. Len(clients) : Live(c) => c = Len(clients) /\ transfering

(* The flag is up only if there is such work. *)
Backed ==
  Undisturbed /\ transfering => clients # <<>> /\ Live(Len(clients))

(* The images counted are those of the last client, *)
OwnImages ==
  ~canceled /\ transfering =>
    clients # <<>> /\ imagesDownloaded = clients[Len(clients)].downloadCount

(* and the number of links is that of the batch at work. *)
OwnLinks ==
  ~canceled =>
    /\ \A c \in 1 .. Len(clients) :
         Downloading(c) => clients[c].links = transferImageCount
    /\ \A l \in Launches :
         /\ search[l] \in {"links", "adding", "check"} =>
              clients[serving[l]].links = transferImageCount
         /\ search[l] \in {"adding", "check"} =>
              clients[serving[l]].batch = "running"

CalmInv == StoppedOrFresh /\ LastOnly /\ Backed /\ OwnImages /\ OwnLinks

(* While a search is being connected nothing is transferred or counted.     *)
NothingYet ==
  \A l \in Launches : search[l] = "connect" =>
    /\ ~transfering
    /\ imagesDownloaded = 0
    /\ clients[Len(clients)].downloadCount = 0

(* Who is at work. *)

Busy == {"parse", "adding", "check"}

(* Nobody but l serves a client of l. *)
LEMMA OwnWork ==
  ASSUME Served, NEW l \in Launches, NEW c \in 1 .. Len(clients),
         clients[c].owner = l
  PROVE  Live(c) <=> \/ clients[c].conn = "loading"
                     \/ Downloading(c)
                     \/ /\ serving[l] = c
                        /\ \/ search[l] \in Busy
                           \/ search[l] = "links" /\ clients[c].links > 0
  BY DEF Live, Busy, Served

LEMMA InitCalmInv == Init => CalmInv
  BY DEF Init, CalmInv, StoppedOrFresh, LastOnly, Backed, OwnImages, OwnLinks, Active,
      Downloading, Undisturbed

(* A step outside the callbacks, that neither starts nor stops a transfer.  *)
LEMMA AsideKeeps ==
  ASSUME TypeOK, CalmInv, StoppedOrFresh',
         clients' = clients, serving' = serving, transfering' = transfering,
         canceled' = canceled, transferImageCount' = transferImageCount,
         imagesDownloaded' = imagesDownloaded,
         Undisturbed' /\ transfering => Undisturbed,
         \A m \in Launches : SameWork(m)
  PROVE  CalmInv'
  <1>1. \A c \in 1 .. Len(clients) :
          (Live(c)' <=> Live(c)) /\ (Downloading(c)' <=> Downloading(c))
    BY DEF Live, Downloading, SameWork
  <1>2. LastOnly' /\ Backed'
    <2>1. Len(clients) \in Nat /\ (Len(clients) = 0 => clients = <<>>)
      BY DEF TypeOK
    <2> QED BY <1>1, <2>1 DEF CalmInv, LastOnly, Backed
  <1>3. OwnImages'
    BY DEF CalmInv, OwnImages
  <1>4. OwnLinks'
    BY <1>1 DEF CalmInv, OwnLinks, SameWork
  <1> QED BY <1>2, <1>3, <1>4 DEF CalmInv

(* A callback in which search thread l makes d of its client c. *)
ChangedOnly(l, c, d) ==
  /\ Len(clients) \in Nat /\ Len(clients') = Len(clients)
  /\ clients # <<>> /\ clients' # <<>>
  /\ clients'[c] = d
  /\ \A k \in 1 .. Len(clients) : k # c => /\ clients'[k] = clients[k]
                                           /\ Live(k)' <=> Live(k)
                                           /\ Downloading(k)' <=> Downloading(k)
  /\ \A m \in Launches : m # l => /\ search[m] = "off"
                                  /\ search'[m] = search[m]
                                  /\ serving'[m] = serving[m]

LEMMA CallbackChanges ==
  ASSUME TypeOK, OnePair,
         NEW l \in Launches, NEW c \in 1 .. Len(clients), NEW d \in Client,
         clients' = [clients EXCEPT ![c] = d],
         \A m \in Launches :
           m # l => search'[m] = search[m] /\ serving'[m] = serving[m],
         search[l] = "loop" \/ serving[l] = c,
         search'[l] = "loop" \/ serving'[l] = c,
         search[l] # "off"
  PROVE  ChangedOnly(l, c, d)
  <1>1. /\ Len(clients') = Len(clients)
        /\ clients'[c] = d
        /\ \A k \in 1 .. Len(clients) : k # c => clients'[k] = clients[k]
    BY OneClientChanges DEF TypeOK
  <1>2. \A k \in 1 .. Len(clients) : k # c =>
          (Live(k)' <=> Live(k)) /\ (Downloading(k)' <=> Downloading(k))
    BY <1>1 DEF Live, Downloading
  <1>3. \A m \in Launches : m # l => search[m] = "off"
    BY DEF OnePair, Active
  <1>4. Len(clients) \in Nat /\ clients # <<>> /\ clients' # <<>>
    BY <1>1 DEF TypeOK
  <1> QED BY <1>1, <1>2, <1>3, <1>4 DEF ChangedOnly

LEMMA NextCalmInv ==
  IInv /\ Calm /\ Calm' /\ CalmInv /\ NothingYet /\ [Next]_vars => CalmInv'
  <1> SUFFICES ASSUME IInv, Calm, Calm', CalmInv, NothingYet, [Next]_vars
               PROVE  CalmInv'
    OBVIOUS
  <1>0. IInv' /\ StoppedOrFresh'
    BY NextIInv, NextStoppedOrFresh DEF Calm, CalmInv, ReloadsClear
  <1> USE ManagerAssumption
      DEF IInv, Calm, CalmInv, viewVars, itemVars, countVars, ImageGoes, SearchGoes,
          UncancelManager
  <1>1. CASE StartAnimation
    <2>2. \A m \in Launches : SameWork(m)
      BY <1>1 DEF StartAnimation, SameWork, TypeOK, Launching
    <2>3. Undisturbed' /\ transfering => Undisturbed
      BY <1>1 DEF StartAnimation, Undisturbed, StoppedOrFresh
    <2> QED BY <1>0, <1>1, <2>2, <2>3, AsideKeeps DEF StartAnimation
  <1>2. CASE StartManager
    <2>1. \A m \in Launches : search[m] = "off" /\ search' = search
      BY <1>2 DEF StartManager, NoLeftover, Active
    <2>2. /\ UNCHANGED <<clients, serving, imagesDownloaded, transferImageCount>>
          /\ transfering' = FALSE /\ canceled' = FALSE /\ main' = "reload"
      BY <1>2 DEF StartManager
    <2>3. \A c \in 1 .. Len(clients) : ~Live(c)' /\ ~Downloading(c)'
      <3>1. \A c \in 1 .. Len(clients) : Quiet(clients[c])
        BY <2>1, ClientFields DEF Unserved, TypeOK
      <3> QED BY <2>1, <2>2, <3>1 DEF Live, Downloading, Quiet
    <2> QED BY <2>1, <2>2, <2>3
      DEF StoppedOrFresh, LastOnly, Backed, OwnImages, OwnLinks, Undisturbed
  <1>3. CASE StopAnimation
    <2>2. \A m \in Launches : SameWork(m)
      BY <1>3 DEF StopAnimation, SameWork, TypeOK, Launching
    <2>3. Undisturbed' /\ transfering => Undisturbed
      BY <1>3 DEF StopAnimation, Undisturbed, StoppedOrFresh
    <2> QED BY <1>0, <1>3, <2>2, <2>3, AsideKeeps DEF StopAnimation
  <1>4. CASE StopManager
    <2>1. canceled' = TRUE
      BY <1>4 DEF StopManager, CancelManager
    <2> QED BY <2>1
      DEF StoppedOrFresh, LastOnly, Backed, OwnImages, OwnLinks, Undisturbed
  <1>5. CASE ThreadsFinished
    <2>2. \A m \in Launches : SameWork(m)
      BY <1>5 DEF ThreadsFinished, SameWork, TypeOK, Launching
    <2>3. Undisturbed' /\ transfering => Undisturbed
      BY <1>5 DEF ThreadsFinished, Undisturbed, StoppedOrFresh
    <2> QED BY <1>0, <1>5, <2>2, <2>3, AsideKeeps DEF ThreadsFinished
  <1>6. CASE GiveUp
    <2>2. \A m \in Launches : SameWork(m)
      BY <1>6 DEF GiveUp, SameWork, TypeOK, Launching
    <2>3. Undisturbed' /\ transfering => Undisturbed
      BY <1>6 DEF GiveUp, Undisturbed, StoppedOrFresh
    <2> QED BY <1>0, <1>6, <2>2, <2>3, AsideKeeps DEF GiveUp
  <1>7. ASSUME NEW l \in Launches, ImageThreadBegins(l) PROVE CalmInv'
    <2>2. \A m \in Launches : SameWork(m)
      BY <1>7 DEF ImageThreadBegins, SameWork, TypeOK, Launching
    <2>3. Undisturbed' /\ transfering => Undisturbed
      BY <1>7 DEF ImageThreadBegins, Undisturbed, StoppedOrFresh
    <2> QED BY <1>0, <1>7, <2>2, <2>3, AsideKeeps DEF ImageThreadBegins
  <1>8. ASSUME NEW l \in Launches, ReloadCache(l) PROVE CalmInv'
    <2>2. \A m \in Launches : SameWork(m)
      BY <1>8 DEF ReloadCache, SameWork, TypeOK, Launching
    <2>3. Undisturbed' /\ transfering => Undisturbed
      BY <1>8 DEF ReloadCache, Undisturbed, StoppedOrFresh
    <2> QED BY <1>0, <1>8, <2>2, <2>3, AsideKeeps DEF ReloadCache
  <1>9. ASSUME NEW l \in Launches, ReloadCancels(l) \/ ReloadEnds(l) PROVE CalmInv'
    BY <1>9 DEF ReloadCancels, ReloadEnds, NoReload, TypeOK
  <1>10. ASSUME NEW l \in Launches, CheckType(l) PROVE CalmInv'
    <2>2. \A m \in Launches : SameWork(m)
      BY <1>10 DEF CheckType, SameWork, TypeOK, Launching
    <2>3. Undisturbed' /\ transfering => Undisturbed
      BY <1>10 DEF CheckType, Undisturbed, StoppedOrFresh
    <2> QED BY <1>0, <1>10, <2>2, <2>3, AsideKeeps DEF CheckType
  <1>11. ASSUME NEW l \in Launches, CheckSearchItem(l) PROVE CalmInv'
    <2>2. \A m \in Launches : SameWork(m)
      BY <1>11 DEF CheckSearchItem, SameWork, TypeOK, Launching
    <2>3. Undisturbed' /\ transfering => Undisturbed
      BY <1>11 DEF CheckSearchItem, Undisturbed, StoppedOrFresh
    <2> QED BY <1>0, <1>11, <2>2, <2>3, AsideKeeps DEF CheckSearchItem
  <1>12. ASSUME NEW l \in Launches, GetFromImageArray(l) PROVE CalmInv'
    <2>2. \A m \in Launches : SameWork(m)
      BY <1>12 DEF GetFromImageArray, SameWork, TypeOK, Launching
    <2>3. Undisturbed' /\ transfering => Undisturbed
      BY <1>12 DEF GetFromImageArray, Undisturbed, StoppedOrFresh
    <2> QED BY <1>0, <1>12, <2>2, <2>3, AsideKeeps DEF GetFromImageArray
  <1>13. ASSUME NEW l \in Launches, ImageThreadEnds(l) PROVE CalmInv'
    <2>2. \A m \in Launches : SameWork(m)
      BY <1>13 DEF ImageThreadEnds, SameWork, TypeOK, Launching
    <2>3. Undisturbed' /\ transfering => Undisturbed
      BY <1>13 DEF ImageThreadEnds, Undisturbed, StoppedOrFresh
    <2> QED BY <1>0, <1>13, <2>2, <2>3, AsideKeeps DEF ImageThreadEnds
  <1>14. ASSUME NEW l \in Launches, SearchThreadBegins(l) PROVE CalmInv'
    <2>2. \A m \in Launches : SameWork(m)
      BY <1>14 DEF SearchThreadBegins, SameWork, TypeOK, Launching
    <2>3. Undisturbed' /\ transfering => Undisturbed
      BY <1>14 DEF SearchThreadBegins, Undisturbed, StoppedOrFresh
    <2> QED BY <1>0, <1>14, <2>2, <2>3, AsideKeeps DEF SearchThreadBegins
  <1>15. ASSUME NEW l \in Launches, CheckSearch(l) PROVE CalmInv'
    <2>2. \A m \in Launches : SameWork(m)
      BY <1>15 DEF CheckSearch, SameWork, TypeOK, Launching
    <2>3. Undisturbed' /\ transfering => Undisturbed
      BY <1>15 DEF CheckSearch, Undisturbed, StoppedOrFresh
    <2> QED BY <1>0, <1>15, <2>2, <2>3, AsideKeeps DEF CheckSearch
  <1>16. ASSUME NEW l \in Launches, TriggerSearch(l) PROVE CalmInv'
    <2>1. /\ search[l] = "trigger" /\ search'[l] \in {"loop", "connect"}
          /\ \A m \in Launches : m # l => search'[m] = search[m]
          /\ UNCHANGED <<viewVars, image, serving, canceled, transfering,
                         transferImageCount>>
      BY <1>16 DEF TriggerSearch, TypeOK
    <2>2. \A m \in Launches : SameWork(m)
      BY <2>1 DEF SameWork
    <2>3. StoppedOrFresh'
      BY <1>0
    <2>4. CASE canceled
      BY <2>1, <2>3, <2>4 DEF LastOnly, Backed, OwnImages, OwnLinks, Undisturbed
    <2>5. CASE ~canceled /\ transfering
      <3>1. UNCHANGED <<clients, imagesDownloaded>>
        BY <1>16, <2>5 DEF TriggerSearch
      <3> QED BY <1>0, <2>1, <2>2, <3>1, AsideKeeps DEF Undisturbed
    <2>6. CASE ~canceled /\ ~transfering
      <3>1. PICK n \in Nat : n = Len(clients)
        BY DEF TypeOK
      <3>2. CASE clients' = clients
        <4>1. \A c \in 1 .. Len(clients) :
                (Live(c)' <=> Live(c)) /\ (Downloading(c)' <=> Downloading(c))
          BY <2>1, <2>2, <3>2 DEF Live, Downloading, SameWork
        <4>2. LastOnly' /\ Backed' /\ OwnImages'
          BY <2>1, <2>6, <3>2, <4>1 DEF LastOnly, Backed, OwnImages
        <4>3. OwnLinks'
          BY <2>1, <2>2, <3>2, <4>1 DEF OwnLinks, SameWork
        <4> QED BY <2>3, <4>2, <4>3
      <3>3. CASE clients' # clients
        <4>1. clients' = Append(clients, NewClient(l)) /\ NewClient(l).conn = "none"
                /\ NewClient(l).batch = "none"
          BY <1>16, <3>3 DEF TriggerSearch, NewClient
        <4>2. /\ Len(clients') = n + 1
              /\ clients'[n + 1].conn = "none" /\ clients'[n + 1].batch = "none"
              /\ \A c \in 1 .. n : clients'[c] = clients[c]
          BY <3>1, <4>1 DEF TypeOK
        <4>3. \A m \in Launches : serving'[m] \in 0 .. n
          BY <2>1, <3>1 DEF TypeOK
        <4>4. \A c \in 1 .. n : ~Live(c) /\ ~Downloading(c)
          BY <2>6, <3>1 DEF LastOnly, Live
        <4>5. \A c \in 1 .. n : ~Live(c)' /\ ~Downloading(c)'
          BY <2>1, <2>2, <4>2, <4>4 DEF Live, Downloading, SameWork
        <4>6. ~Live(n + 1)' /\ ~Downloading(n + 1)'
          <5>1. \A m \in Launches : serving'[m] # n + 1
            BY <3>1, <4>3
          <5> QED BY <4>2, <5>1 DEF Live, Downloading
        <4>7. \A c \in 1 .. Len(clients') : c \in 1 .. n \/ c = n + 1
          BY <3>1, <4>2
        <4>8. LastOnly' /\ Backed' /\ OwnImages'
          BY <2>1, <2>6, <4>5, <4>6, <4>7 DEF LastOnly, Backed, OwnImages
        <4>9. OwnLinks'
          <5>1. \A m \in Launches :
                  search'[m] \in {"links", "adding", "check"} =>
                    /\ search[m] = search'[m]
                    /\ serving[m] \in 1 .. n /\ serving'[m] = serving[m]
            BY <2>1, <3>1 DEF Served, TypeOK
          <5> QED BY <2>1, <2>6, <4>2, <4>5, <4>6, <4>7, <5>1 DEF OwnLinks
        <4> QED BY <2>3, <4>8, <4>9
      <3> QED BY <3>2, <3>3
    <2> QED BY <2>4, <2>5, <2>6
  <1>29. ASSUME NEW l \in Launches, Connect(l) PROVE CalmInv'
    <2>1. /\ search[l] = "connect" /\ search' = [search EXCEPT ![l] = "loop"]
          /\ UNCHANGED <<viewVars, image, serving, canceled, transferImageCount,
                         imagesDownloaded>>
      BY <1>29 DEF Connect
    <2>2. PICK n \in 1 .. Len(clients) : n = Len(clients)
      BY <2>1 DEF Connecting, TypeOK
    <2>3. /\ ~transfering /\ imagesDownloaded = 0
          /\ clients[n].downloadCount = 0 /\ clients[n].owner = l
          /\ clients[n].batch = "none" /\ clients[n].conn = "none"
          /\ clients[n] \in Client
      BY <2>1, <2>2 DEF Connecting, NothingYet, TypeOK
    <2>4. \A m \in Launches : SameWork(m)
      BY <2>1 DEF SameWork, TypeOK
    <2>5. StoppedOrFresh'
      BY <1>0
    <2>6. CASE canceled
      BY <2>1, <2>5, <2>6 DEF LastOnly, Backed, OwnImages, OwnLinks, Undisturbed
    <2>7. CASE ~canceled /\ transfering' = FALSE /\ clients' = clients
      <3>1. imagesDownloaded' = imagesDownloaded /\ transfering' = transfering
        BY <2>1, <2>3, <2>7 DEF TypeOK
      <3> QED BY <1>0, <2>1, <2>4, <2>7, <3>1, AsideKeeps DEF Undisturbed
    <2>8. CASE /\ ~canceled /\ transfering' = TRUE
               /\ clients' = [clients EXCEPT ![n].conn = "loading"]
      <3>1. [clients[n] EXCEPT !.conn = "loading"].conn = "loading"
            /\ [clients[n] EXCEPT !.conn = "loading"].batch = "none"
            /\ [clients[n] EXCEPT !.conn = "loading"].downloadCount = 0
        BY <2>3 DEF Client
      <3>2. /\ Len(clients') = n /\ clients' # <<>>
            /\ clients'[n] = [clients[n] EXCEPT !.conn = "loading"]
            /\ \A c \in 1 .. n : c # n => clients'[c] = clients[c]
        BY <2>2, <2>8 DEF TypeOK
      <3>3. \A c \in 1 .. n : ~Live(c)
        BY <2>2, <2>3, <2>8 DEF LastOnly
      <3>4. \A c \in 1 .. n : c # n => ~Live(c)' /\ ~Downloading(c)'
        BY <2>1, <2>4, <3>2, <3>3 DEF Live, Downloading, SameWork
      <3>5. Live(n)' /\ ~Downloading(n)'
        BY <3>1, <3>2 DEF Live, Downloading
      <3>6. LastOnly' /\ Backed' /\ OwnImages'
        BY <2>1, <2>3, <2>8, <3>1, <3>2, <3>4, <3>5
        DEF LastOnly, Backed, OwnImages
      <3>7. \A m \in Launches : search'[m] \notin {"links", "adding", "check"}
        BY <2>1 DEF OnePair, Active, TypeOK
      <3>8. OwnLinks'
        BY <3>2, <3>4, <3>5, <3>7 DEF OwnLinks
      <3> QED BY <2>5, <3>6, <3>8
    <2> QED BY <1>29, <2>2, <2>6, <2>7, <2>8 DEF Connect
  <1>17. ASSUME NEW l \in Launches, SearchThreadEnds(l) PROVE CalmInv'
    <2>1. /\ search[l] = "loop" /\ search' = [search EXCEPT ![l] = "off"]
          /\ serving' = [serving EXCEPT ![l] = 0] /\ viewCanceled
          /\ UNCHANGED <<main, viewCanceled, image, canceled, transfering, countVars>>
      BY <1>17 DEF SearchThreadEnds
    <2>2. Len(clients') = Len(clients)
      BY <1>17 DEF SearchThreadEnds, TypeOK
    <2>3. \A c \in 1 .. Len(clients) : Quieter(clients'[c], clients[c])
      BY <1>17, SilencedType, ClientFields DEF SearchThreadEnds, Quieter, TypeOK
    <2>4. \A c \in 1 .. Len(clients) :
            (Live(c)' => Live(c)) /\ (Downloading(c)' => Downloading(c))
      BY <2>1, <2>3 DEF Live, Downloading, Quieter, TypeOK
    <2>5. StoppedOrFresh'
      BY <2>1 DEF StoppedOrFresh, Active
    <2>6. LastOnly' /\ Backed'
      BY <2>1, <2>2, <2>4 DEF LastOnly, Backed, Undisturbed
    <2>7. Len(clients) \in Nat /\ (clients # <<>> => Len(clients) > 0)
            /\ (Len(clients) = 0 => clients = <<>>)
      BY DEF TypeOK
    <2>8. OwnImages'
      BY <2>1, <2>2, <2>3, <2>7 DEF OwnImages, Quieter, TypeOK
    <2>9. \A m \in Launches : search'[m] \notin {"links", "adding", "check"}
      BY <2>1 DEF OnePair, Active, TypeOK
    <2>10. OwnLinks'
      BY <2>1, <2>2, <2>3, <2>4, <2>9 DEF OwnLinks, Quieter
    <2> QED BY <2>5, <2>6, <2>8, <2>10
  <1>18. ASSUME NEW l \in Launches, NEW c \in 1 .. Len(clients), SearchFails(l, c)
        PROVE  CalmInv'
    <2> DEFINE n == Len(clients)
               c0 == c
               d == [clients[c0] EXCEPT !.conn = "ended"]
    <2>1. /\ c0 \in 1 .. n /\ clients[c0] \in Client
          /\ clients[c0].owner = l /\ InTurn(clients[c0])
      BY <1>18 DEF TypeOK, SearchFails, Served, AllInTurn
    <2>2. search[l] = "loop" /\ clients[c0].conn = "loading"
      BY <1>18 DEF SearchFails, Served
    <2>3. /\ transfering' = FALSE
          /\ UNCHANGED <<main, viewCanceled, canceled, search, serving, countVars>>
      BY <1>18 DEF SearchFails
    <2>4. /\ d.conn = "ended" /\ d.batch = clients[c0].batch
          /\ d.links = clients[c0].links /\ d.downloadCount = clients[c0].downloadCount
      BY <2>1 DEF Client
    <2>5. d \in Client /\ clients' = [clients EXCEPT ![c0] = d]
      <3>1. clients' = [clients EXCEPT ![c0] = d]
        BY <1>18, <2>1, <2>3 DEF SearchFails
      <3> HIDE DEF d
      <3>2. clients \in Seq(Client) /\ clients' \in Seq(Client)
        BY <1>0 DEF TypeOK
      <3>3. clients'[c0] = d /\ clients'[c0] \in Client
        BY <2>1, <3>1, <3>2
      <3> QED BY <3>1, <3>3
    <2> HIDE DEF d
    <2>6. /\ \A m \in Launches : m # l => search'[m] = search[m]
                                       /\ serving'[m] = serving[m]
          /\ search[l] = "loop" \/ serving[l] = c0
          /\ search'[l] = "loop" \/ serving'[l] = c0
          /\ search[l] # "off"
      BY <2>2, <2>3 DEF TypeOK
    <2>7. ChangedOnly(l, c0, d)
      BY <2>1, <2>5, <2>6, CallbackChanges
    <2>8. StoppedOrFresh'
      BY <2>3, <2>7 DEF StoppedOrFresh, ChangedOnly
    <2>9. CASE canceled
      BY <2>3, <2>8, <2>9 DEF LastOnly, Backed, OwnImages, OwnLinks, Undisturbed
    <2>10. CASE ~canceled
      <3>1. Live(c0)
        BY <2>1, <2>2, OwnWork DEF Busy
      <3>2. /\ c0 = n /\ transfering
            /\ \A k \in 1 .. n : k # c0 => ~Live(k) /\ ~Downloading(k)
        BY <2>1, <2>10, <3>1 DEF LastOnly, Live
      <3>3. ~Live(c0)'
        BY <2>1, <2>2, <2>3, <2>4, <2>7
        DEF Live, Downloading, InTurn, ChangedOnly, TypeOK
      <3>4. LastOnly' /\ Backed'
        BY <2>3, <2>7, <2>10, <3>2, <3>3
        DEF LastOnly, Backed, Undisturbed, ChangedOnly
      <3>5. OwnImages'
        BY <2>1, <2>2, <2>3, <2>4, <2>7, <2>10, <3>2
        DEF OwnImages, Client, ChangedOnly
      <3>6. Downloading(c0)' => d.links = transferImageCount'
        BY <2>1, <2>2, <2>3, <2>4, <2>7, <2>10
        DEF OwnLinks, Downloading, InTurn, ChangedOnly
      <3>7. OwnLinks'
        BY <2>1, <2>2, <2>3, <2>4, <2>7, <2>10, <3>2, <3>6
        DEF OwnLinks, Downloading, ChangedOnly, TypeOK
      <3> QED BY <2>8, <3>4, <3>5, <3>7
    <2> QED BY <2>9, <2>10
  <1>19. ASSUME NEW l \in Launches, NEW c \in 1 .. Len(clients), SearchLoads(l, c)
        PROVE  CalmInv'
    <2> DEFINE n == Len(clients)
               c0 == c
               d == [clients[c0] EXCEPT !.conn = "ended"]
    <2>1. /\ c0 \in 1 .. n /\ clients[c0] \in Client
          /\ clients[c0].owner = l /\ InTurn(clients[c0])
      BY <1>19 DEF TypeOK, SearchLoads, Served, AllInTurn
    <2>2. search[l] = "loop" /\ clients[c0].conn = "loading"
      BY <1>19 DEF SearchLoads, Served
    <2>3. /\ search' = [search EXCEPT ![l] = "parse"]
          /\ serving' = [serving EXCEPT ![l] = c0]
          /\ UNCHANGED <<main, viewCanceled, canceled, transfering, countVars>>
      BY <1>19 DEF SearchLoads
    <2>4. /\ d.conn = "ended" /\ d.batch = clients[c0].batch
          /\ d.links = clients[c0].links /\ d.downloadCount = clients[c0].downloadCount
      BY <2>1 DEF Client
    <2>5. d \in Client /\ clients' = [clients EXCEPT ![c0] = d]
      <3>1. clients' = [clients EXCEPT ![c0] = d]
        BY <1>19, <2>1, <2>3 DEF SearchLoads
      <3> HIDE DEF d
      <3>2. clients \in Seq(Client) /\ clients' \in Seq(Client)
        BY <1>0 DEF TypeOK
      <3>3. clients'[c0] = d /\ clients'[c0] \in Client
        BY <2>1, <3>1, <3>2
      <3> QED BY <3>1, <3>3
    <2> HIDE DEF d
    <2>6. /\ \A m \in Launches : m # l => search'[m] = search[m]
                                       /\ serving'[m] = serving[m]
          /\ search[l] = "loop" \/ serving[l] = c0
          /\ search'[l] = "loop" \/ serving'[l] = c0
          /\ search[l] # "off"
      BY <2>2, <2>3 DEF TypeOK
    <2>7. ChangedOnly(l, c0, d)
      BY <2>1, <2>5, <2>6, CallbackChanges
    <2>8. StoppedOrFresh'
      BY <2>3, <2>7 DEF StoppedOrFresh, ChangedOnly
    <2>9. CASE canceled
      BY <2>3, <2>8, <2>9 DEF LastOnly, Backed, OwnImages, OwnLinks, Undisturbed
    <2>10. CASE ~canceled
      <3>1. Live(c0)
        BY <2>1, <2>2, OwnWork DEF Busy
      <3>2. /\ c0 = n /\ transfering
            /\ \A k \in 1 .. n : k # c0 => ~Live(k) /\ ~Downloading(k)
        BY <2>1, <2>10, <3>1 DEF LastOnly, Live
      <3>3. Live(c0)'
        BY <2>1, <2>2, <2>3, <2>4, <2>7
        DEF Live, Downloading, InTurn, ChangedOnly, TypeOK
      <3>4. LastOnly' /\ Backed'
        BY <2>3, <2>7, <2>10, <3>2, <3>3
        DEF LastOnly, Backed, Undisturbed, ChangedOnly
      <3>5. OwnImages'
        BY <2>1, <2>2, <2>3, <2>4, <2>7, <2>10, <3>2
        DEF OwnImages, Client, ChangedOnly
      <3>6. Downloading(c0)' => d.links = transferImageCount'
        BY <2>1, <2>2, <2>3, <2>4, <2>7, <2>10
        DEF OwnLinks, Downloading, InTurn, ChangedOnly
      <3>7. OwnLinks'
        BY <2>1, <2>2, <2>3, <2>4, <2>7, <2>10, <3>2, <3>6
        DEF OwnLinks, Downloading, ChangedOnly, TypeOK
      <3> QED BY <2>8, <3>4, <3>5, <3>7
    <2> QED BY <2>9, <2>10
  <1>20. ASSUME NEW l \in Launches, NEW c \in 1 .. Len(clients), DidFinishDownload(l, c)
        PROVE  CalmInv'
    <2> DEFINE n == Len(clients)
               c0 == c
               d == [clients[c0] EXCEPT !.reported = @ + 1, !.downloadCount = @ + 1]
    <2>1. /\ c0 \in 1 .. n /\ clients[c0] \in Client
          /\ clients[c0].owner = l /\ InTurn(clients[c0])
      BY <1>20 DEF TypeOK, DidFinishDownload, Served, AllInTurn
    <2>2. /\ search[l] = "loop" /\ clients[c0].batch = "running"
          /\ clients[c0].reported < clients[c0].links
      BY <1>20 DEF DidFinishDownload, Served, Downloading
    <2>3. /\ search' = [search EXCEPT ![l] = "adding"]
          /\ serving' = [serving EXCEPT ![l] = c0]
          /\ imagesDownloaded' = imagesDownloaded + 1
          /\ UNCHANGED <<main, viewCanceled, canceled, transfering,
                         transferImageCount>>
      BY <1>20 DEF DidFinishDownload, Downloading
    <2>4. /\ d.conn = clients[c0].conn /\ d.batch = clients[c0].batch
          /\ d.links = clients[c0].links
          /\ d.downloadCount = clients[c0].downloadCount + 1
      BY <2>1 DEF Client
    <2>5. d \in Client /\ clients' = [clients EXCEPT ![c0] = d]
      <3>1. clients' = [clients EXCEPT ![c0] = d]
        BY <1>20, <2>1, <2>3 DEF DidFinishDownload, Downloading
      <3> HIDE DEF d
      <3>2. clients \in Seq(Client) /\ clients' \in Seq(Client)
        BY <1>0 DEF TypeOK
      <3>3. clients'[c0] = d /\ clients'[c0] \in Client
        BY <2>1, <3>1, <3>2
      <3> QED BY <3>1, <3>3
    <2> HIDE DEF d
    <2>6. /\ \A m \in Launches : m # l => search'[m] = search[m]
                                       /\ serving'[m] = serving[m]
          /\ search[l] = "loop" \/ serving[l] = c0
          /\ search'[l] = "loop" \/ serving'[l] = c0
          /\ search[l] # "off"
      BY <2>2, <2>3 DEF TypeOK
    <2>7. ChangedOnly(l, c0, d)
      BY <2>1, <2>5, <2>6, CallbackChanges
    <2>8. StoppedOrFresh'
      BY <2>3, <2>7 DEF StoppedOrFresh, ChangedOnly
    <2>9. CASE canceled
      BY <2>3, <2>8, <2>9 DEF LastOnly, Backed, OwnImages, OwnLinks, Undisturbed
    <2>10. CASE ~canceled
      <3>1. Live(c0) /\ Downloading(c0)
        BY <2>1, <2>2, OwnWork DEF Downloading
      <3>2. /\ c0 = n /\ transfering
            /\ \A k \in 1 .. n : k # c0 => ~Live(k) /\ ~Downloading(k)
        BY <2>1, <2>10, <3>1 DEF LastOnly, Live
      <3>3. Live(c0)'
        BY <2>1, <2>2, <2>3, <2>4, <2>7
        DEF Live, Downloading, InTurn, ChangedOnly, TypeOK
      <3>4. LastOnly' /\ Backed'
        BY <2>3, <2>7, <2>10, <3>2, <3>3
        DEF LastOnly, Backed, Undisturbed, ChangedOnly
      <3>5. OwnImages'
        BY <2>1, <2>2, <2>3, <2>4, <2>7, <2>10, <3>2
        DEF OwnImages, Client, ChangedOnly
      <3>6. d.links = transferImageCount'
        BY <2>1, <2>3, <2>4, <2>10, <3>1 DEF OwnLinks
      <3>7. OwnLinks'
        BY <2>1, <2>2, <2>3, <2>4, <2>7, <2>10, <3>2, <3>6
        DEF OwnLinks, Downloading, ChangedOnly, TypeOK
      <3> QED BY <2>8, <3>4, <3>5, <3>7
    <2> QED BY <2>9, <2>10
  <1>21. ASSUME NEW l \in Launches, NEW c \in 1 .. Len(clients), DidErrorOnDownload(l, c)
        PROVE  CalmInv'
    <2> DEFINE n == Len(clients)
               c0 == c
               d == [clients[c0] EXCEPT !.reported = @ + 1]
    <2>1. /\ c0 \in 1 .. n /\ clients[c0] \in Client
          /\ clients[c0].owner = l /\ InTurn(clients[c0])
      BY <1>21 DEF TypeOK, DidErrorOnDownload, Served, AllInTurn
    <2>2. /\ search[l] = "loop" /\ clients[c0].batch = "running"
          /\ clients[c0].reported < clients[c0].links
      BY <1>21 DEF DidErrorOnDownload, Served, Downloading
    <2>3. /\ search' = [search EXCEPT ![l] = "check"]
          /\ serving' = [serving EXCEPT ![l] = c0]
          /\ imagesDownloaded' = imagesDownloaded
          /\ UNCHANGED <<main, viewCanceled, canceled, transfering,
                         transferImageCount>>
      BY <1>21 DEF DidErrorOnDownload, Downloading
    <2>4. /\ d.conn = clients[c0].conn /\ d.batch = clients[c0].batch
          /\ d.links = clients[c0].links
          /\ d.downloadCount = clients[c0].downloadCount
      BY <2>1 DEF Client
    <2>5. d \in Client /\ clients' = [clients EXCEPT ![c0] = d]
      <3>1. clients' = [clients EXCEPT ![c0] = d]
        BY <1>21, <2>1, <2>3 DEF DidErrorOnDownload, Downloading
      <3> HIDE DEF d
      <3>2. clients \in Seq(Client) /\ clients' \in Seq(Client)
        BY <1>0 DEF TypeOK
      <3>3. clients'[c0] = d /\ clients'[c0] \in Client
        BY <2>1, <3>1, <3>2
      <3> QED BY <3>1, <3>3
    <2> HIDE DEF d
    <2>6. /\ \A m \in Launches : m # l => search'[m] = search[m]
                                       /\ serving'[m] = serving[m]
          /\ search[l] = "loop" \/ serving[l] = c0
          /\ search'[l] = "loop" \/ serving'[l] = c0
          /\ search[l] # "off"
      BY <2>2, <2>3 DEF TypeOK
    <2>7. ChangedOnly(l, c0, d)
      BY <2>1, <2>5, <2>6, CallbackChanges
    <2>8. StoppedOrFresh'
      BY <2>3, <2>7 DEF StoppedOrFresh, ChangedOnly
    <2>9. CASE canceled
      BY <2>3, <2>8, <2>9 DEF LastOnly, Backed, OwnImages, OwnLinks, Undisturbed
    <2>10. CASE ~canceled
      <3>1. Live(c0) /\ Downloading(c0)
        BY <2>1, <2>2, OwnWork DEF Downloading
      <3>2. /\ c0 = n /\ transfering
            /\ \A k \in 1 .. n : k # c0 => ~Live(k) /\ ~Downloading(k)
        BY <2>1, <2>10, <3>1 DEF LastOnly, Live
      <3>3. Live(c0)'
        BY <2>1, <2>2, <2>3, <2>4, <2>7
        DEF Live, Downloading, InTurn, ChangedOnly, TypeOK
      <3>4. LastOnly' /\ Backed'
        BY <2>3, <2>7, <2>10, <3>2, <3>3
        DEF LastOnly, Backed, Undisturbed, ChangedOnly
      <3>5. OwnImages'
        BY <2>1, <2>2, <2>3, <2>4, <2>7, <2>10, <3>2
        DEF OwnImages, Client, ChangedOnly
      <3>6. d.links = transferImageCount'
        BY <2>1, <2>3, <2>4, <2>10, <3>1 DEF OwnLinks
      <3>7. OwnLinks'
        BY <2>1, <2>2, <2>3, <2>4, <2>7, <2>10, <3>2, <3>6
        DEF OwnLinks, Downloading, ChangedOnly, TypeOK
      <3> QED BY <2>8, <3>4, <3>5, <3>7
    <2> QED BY <2>9, <2>10
  <1>22. ASSUME NEW l \in Launches, DidFinishSearch(l) PROVE CalmInv'
    <2> DEFINE n == Len(clients)
               c0 == serving[l]
               d == [clients[c0] EXCEPT !.links = transferImageCount']
    <2>1. /\ c0 \in 1 .. n /\ clients[c0] \in Client
          /\ clients[c0].owner = l /\ InTurn(clients[c0])
      BY <1>22 DEF TypeOK, DidFinishSearch, Served, AllInTurn
    <2>2. search[l] = "parse" /\ AtPage(clients[c0])
      BY <1>22 DEF DidFinishSearch, Served
    <2>3. /\ search' = [search EXCEPT ![l] = "links"]
          /\ transferImageCount' \in 0 .. MaxLinks
          /\ transfering' = (transfering /\ transferImageCount' > 0)
          /\ UNCHANGED <<main, viewCanceled, canceled, serving, imagesDownloaded>>
      BY <1>22 DEF DidFinishSearch
    <2>4. /\ d.conn = clients[c0].conn /\ d.batch = clients[c0].batch
          /\ d.links = transferImageCount'
          /\ d.downloadCount = clients[c0].downloadCount
      BY <2>1 DEF Client
    <2>5. d \in Client /\ clients' = [clients EXCEPT ![c0] = d]
      <3>1. clients' = [clients EXCEPT ![c0] = d]
        BY <1>22, <2>1, <2>3 DEF DidFinishSearch
      <3> HIDE DEF d
      <3>2. clients \in Seq(Client) /\ clients' \in Seq(Client)
        BY <1>0 DEF TypeOK
      <3>3. clients'[c0] = d /\ clients'[c0] \in Client
        BY <2>1, <3>1, <3>2
      <3> QED BY <3>1, <3>3
    <2> HIDE DEF d
    <2>6. /\ \A m \in Launches : m # l => search'[m] = search[m]
                                       /\ serving'[m] = serving[m]
          /\ search[l] = "loop" \/ serving[l] = c0
          /\ search'[l] = "loop" \/ serving'[l] = c0
          /\ search[l] # "off"
      BY <2>2, <2>3 DEF TypeOK
    <2>7. ChangedOnly(l, c0, d)
      BY <2>1, <2>5, <2>6, CallbackChanges
    <2>8. StoppedOrFresh'
      BY <2>3, <2>7 DEF StoppedOrFresh, ChangedOnly
    <2>9. CASE canceled
      BY <2>3, <2>8, <2>9 DEF LastOnly, Backed, OwnImages, OwnLinks, Undisturbed
    <2>10. CASE ~canceled
      <3>1. Live(c0)
        BY <2>1, <2>2, OwnWork DEF Busy
      <3>2. /\ c0 = n /\ transfering
            /\ \A k \in 1 .. n : k # c0 => ~Live(k) /\ ~Downloading(k)
        BY <2>1, <2>10, <3>1 DEF LastOnly, Live
      <3>3. Live(c0)' <=> transferImageCount' > 0
        BY <2>1, <2>2, <2>3, <2>4, <2>7
        DEF Live, Downloading, AtPage, ChangedOnly, TypeOK
      <3>4. LastOnly' /\ Backed'
        BY <2>3, <2>7, <2>10, <3>2, <3>3
        DEF LastOnly, Backed, Undisturbed, ChangedOnly
      <3>5. OwnImages'
        BY <2>1, <2>2, <2>3, <2>4, <2>7, <2>10, <3>2
        DEF OwnImages, Client, ChangedOnly
      <3>6. Downloading(c0)' => d.links = transferImageCount'
        BY <2>1, <2>2, <2>3, <2>4, <2>7, <2>10
        DEF OwnLinks, Downloading, InTurn, ChangedOnly
      <3>7. OwnLinks'
        BY <2>1, <2>2, <2>3, <2>4, <2>7, <2>10, <3>2, <3>6
        DEF OwnLinks, Downloading, ChangedOnly, TypeOK
      <3> QED BY <2>8, <3>4, <3>5, <3>7
    <2> QED BY <2>9, <2>10
  <1>23. ASSUME NEW l \in Launches, StartDownloads(l) PROVE CalmInv'
    <2> DEFINE n == Len(clients)
               c0 == serving[l]
               d == [clients[c0] EXCEPT !.batch = "running"]
    <2>1. /\ c0 \in 1 .. n /\ clients[c0] \in Client
          /\ clients[c0].owner = l /\ InTurn(clients[c0])
      BY <1>23 DEF TypeOK, StartDownloads, Served, AllInTurn
    <2>2. search[l] = "links" /\ AtPage(clients[c0])
      BY <1>23 DEF StartDownloads, Served
    <2>3. /\ search' = [search EXCEPT ![l] = "loop"]
          /\ UNCHANGED <<main, viewCanceled, canceled, transfering, serving,
                         countVars>>
      BY <1>23 DEF StartDownloads
    <2>4. /\ d.conn = clients[c0].conn /\ d.batch = "running"
          /\ d.links = clients[c0].links /\ d.reported = clients[c0].reported
          /\ d.downloadCount = clients[c0].downloadCount
      BY <2>1 DEF Client
    <2>5. d \in Client /\ clients' = [clients EXCEPT ![c0] = d]
      <3>1. clients' = [clients EXCEPT ![c0] = d]
        BY <1>23, <2>1, <2>3 DEF StartDownloads
      <3> HIDE DEF d
      <3>2. clients \in Seq(Client) /\ clients' \in Seq(Client)
        BY <1>0 DEF TypeOK
      <3>3. clients'[c0] = d /\ clients'[c0] \in Client
        BY <2>1, <3>1, <3>2
      <3> QED BY <3>1, <3>3
    <2> HIDE DEF d
    <2>6. /\ \A m \in Launches : m # l => search'[m] = search[m]
                                       /\ serving'[m] = serving[m]
          /\ search[l] = "loop" \/ serving[l] = c0
          /\ search'[l] = "loop" \/ serving'[l] = c0
          /\ search[l] # "off"
      BY <2>2, <2>3 DEF TypeOK
    <2>7. ChangedOnly(l, c0, d)
      BY <2>1, <2>5, <2>6, CallbackChanges
    <2>8. StoppedOrFresh'
      BY <2>3, <2>7 DEF StoppedOrFresh, ChangedOnly
    <2>9. CASE canceled
      BY <2>3, <2>8, <2>9 DEF LastOnly, Backed, OwnImages, OwnLinks, Undisturbed
    <2>10. CASE ~canceled
      <3>1. clients[c0].reported = 0 /\ clients[c0].links \in Nat
        BY <2>1, <2>2 DEF InTurn, AtPage, Client
      <3>2. /\ Live(c0)' <=> Live(c0)
            /\ Downloading(c0)' => Live(c0)
        BY <2>1, <2>2, <2>3, <2>4, <2>7, <3>1
        DEF Live, Downloading, AtPage, ChangedOnly, TypeOK
      <3>3. LastOnly' /\ Backed'
        BY <2>1, <2>3, <2>7, <2>10, <3>2
        DEF LastOnly, Backed, Undisturbed, ChangedOnly
      <3>4. OwnImages'
        BY <2>1, <2>3, <2>4, <2>7, <2>10 DEF OwnImages, ChangedOnly
      <3>5. d.links = transferImageCount
        BY <2>2, <2>4, <2>10 DEF OwnLinks
      <3>6. OwnLinks'
        <4>1. ASSUME NEW k \in 1 .. Len(clients'), Downloading(k)'
              PROVE  clients'[k].links = transferImageCount'
          BY <2>3, <2>7, <2>10, <3>5, <4>1 DEF OwnLinks, ChangedOnly
        <4>2. \A m \in Launches :
                search'[m] \notin {"links", "adding", "check"}
          BY <2>3, <2>7 DEF ChangedOnly, TypeOK
        <4> QED BY <4>1, <4>2 DEF OwnLinks
      <3> QED BY <2>8, <3>3, <3>4, <3>6
    <2> QED BY <2>9, <2>10
  <1>24. ASSUME NEW l \in Launches, NotFinished(l) PROVE CalmInv'
    <2>1. /\ search[l] = "check" /\ search' = [search EXCEPT ![l] = "loop"]
          /\ canceled \/ clients[serving[l]].reported < transferImageCount
          /\ UNCHANGED <<main, viewCanceled, canceled, transfering, serving, clients,
                         countVars>>
      BY <1>24 DEF NotFinished
    <2>2. /\ serving[l] \in 1 .. Len(clients) /\ clients[serving[l]].owner = l
          /\ clients # <<>>
      BY <2>1 DEF Served, TypeOK
    <2>3. StoppedOrFresh'
      BY <2>1, <2>2 DEF StoppedOrFresh
    <2>4. CASE canceled
      BY <2>1, <2>3, <2>4 DEF LastOnly, Backed, OwnImages, OwnLinks, Undisturbed
    <2>5. CASE ~canceled
      <3>1. Downloading(serving[l]) /\ Downloading(serving[l])'
        BY <2>1, <2>5 DEF OwnLinks, Downloading
      <3>2. \A c \in 1 .. Len(clients) :
              (Live(c)' <=> Live(c)) /\ (Downloading(c)' <=> Downloading(c))
        BY <2>1, <3>1 DEF Live, Downloading, TypeOK
      <3>3. LastOnly' /\ Backed' /\ OwnImages'
        <4>1. clients' = clients /\ Len(clients) \in 1 .. Len(clients)
          BY <2>1, <2>2 DEF TypeOK
        <4> QED BY <2>1, <2>5, <3>2, <4>1
          DEF LastOnly, Backed, OwnImages, Undisturbed
      <3>4. OwnLinks'
        BY <2>1, <2>5, <3>2 DEF OwnLinks, TypeOK
      <3> QED BY <2>3, <3>3, <3>4
    <2> QED BY <2>4, <2>5
  <1>25. ASSUME NEW l \in Launches, DidFinishDownloads(l) PROVE CalmInv'
    <2>1. /\ search[l] = "check" /\ search' = [search EXCEPT ![l] = "results"]
          /\ ~canceled /\ transfering' = FALSE
          /\ clients[serving[l]].reported >= transferImageCount
          /\ UNCHANGED <<main, viewCanceled, canceled, serving, clients, countVars>>
      BY <1>25 DEF DidFinishDownloads
    <2>2. /\ serving[l] \in 1 .. Len(clients) /\ clients[serving[l]].owner = l
          /\ clients # <<>>
          /\ InTurn(clients[serving[l]]) /\ clients[serving[l]] \in Client
      BY <2>1 DEF Served, TypeOK, AllInTurn
    <2>3. StoppedOrFresh'
      BY <2>1, <2>2 DEF StoppedOrFresh
    <2>4. ~Downloading(serving[l]) /\ clients[serving[l]].conn # "loading"
      <3>1. /\ clients[serving[l]].links = transferImageCount
            /\ clients[serving[l]].batch = "running"
        BY <2>1 DEF OwnLinks
      <3>2. clients[serving[l]].reported \in Nat /\ transferImageCount \in Nat
        <4>1. clients[serving[l]].reported \in Nat
          BY <2>2 DEF Client
        <4> QED BY <4>1 DEF TypeOK
      <3> QED BY <2>1, <2>2, <3>1, <3>2 DEF Downloading, InTurn
    <2>5. Live(serving[l])
      BY <2>1, <2>2, OwnWork DEF Busy
    <2>6. serving[l] = Len(clients)
      BY <2>1, <2>2, <2>5 DEF LastOnly
    <2>7. \A m \in Launches : m # l => search'[m] = "off"
      BY <2>1 DEF OnePair, Active, TypeOK
    <2>8. \A c \in 1 .. Len(clients) : (Live(c)' => Live(c))
                                          /\ (Downloading(c)' <=> Downloading(c))
      BY <2>1 DEF Live, Downloading, TypeOK
    <2>9. ~Live(serving[l])'
      BY <2>1, <2>4, <2>7 DEF Live, Downloading, TypeOK
    <2>10. LastOnly' /\ Backed' /\ OwnImages'
      BY <2>1, <2>6, <2>8, <2>9 DEF LastOnly, Backed, OwnImages
    <2>11. OwnLinks'
      BY <2>1, <2>8 DEF OwnLinks, TypeOK
    <2> QED BY <2>3, <2>10, <2>11
  <1>26. ASSUME NEW l \in Launches, CheckResults(l) PROVE CalmInv'
    <2>2. \A m \in Launches : SameWork(m)
      BY <1>26 DEF CheckResults, SameWork, TypeOK, Launching
    <2>3. Undisturbed' /\ transfering => Undisturbed
      BY <1>26 DEF CheckResults, Undisturbed, StoppedOrFresh
    <2> QED BY <1>0, <1>26, <2>2, <2>3, AsideKeeps DEF CheckResults
  <1>27. ASSUME NEW l \in Launches, AddToImageArray(l) PROVE CalmInv'
    <2>2. \A m \in Launches : SameWork(m)
      BY <1>27 DEF AddToImageArray, SameWork, TypeOK, Launching
    <2>3. Undisturbed' /\ transfering => Undisturbed
      BY <1>27 DEF AddToImageArray, Undisturbed, StoppedOrFresh
    <2> QED BY <1>0, <1>27, <2>2, <2>3, AsideKeeps DEF AddToImageArray
  <1>28. CASE UNCHANGED vars
    <2>2. \A m \in Launches : SameWork(m)
      BY <1>28 DEF vars, SameWork
    <2>3. Undisturbed' /\ transfering => Undisturbed
      BY <1>28 DEF vars, Undisturbed
    <2> QED BY <1>0, <1>28, <2>2, <2>3, AsideKeeps DEF vars
  <1>30. CASE StartThreads
    <2>2. \A m \in Launches : SameWork(m)
      BY <1>30 DEF StartThreads, SameWork, TypeOK, Launching
    <2>3. Undisturbed' /\ transfering => Undisturbed
      BY <1>30 DEF StartThreads, Undisturbed
    <2> QED BY <1>0, <1>30, <2>2, <2>3, AsideKeeps DEF StartThreads
  <1>31. ASSUME NEW l \in Launches, BeginChoice(l) PROVE CalmInv'
    <2>2. \A m \in Launches : SameWork(m)
      BY <1>31 DEF BeginChoice, SameWork, TypeOK, Launching
    <2>3. Undisturbed' /\ transfering => Undisturbed
      BY <1>31 DEF BeginChoice, Undisturbed, StoppedOrFresh
    <2> QED BY <1>0, <1>31, <2>2, <2>3, AsideKeeps DEF BeginChoice
  <1>32. ASSUME NEW thread \in asking, Answer(thread) PROVE CalmInv'
    <2>2. \A m \in Launches : SameWork(m)
      BY <1>32 DEF Answer, SameWork
    <2>3. Undisturbed' /\ transfering => Undisturbed
      BY <1>32 DEF Answer, Undisturbed
    <2> QED BY <1>0, <1>32, <2>2, <2>3, AsideKeeps DEF Answer
  <1> QED
    BY <1>1, <1>2, <1>3, <1>4, <1>5, <1>6, <1>7, <1>8, <1>9, <1>10, <1>11, <1>12,
       <1>13, <1>14, <1>15, <1>16, <1>17, <1>18, <1>19, <1>20, <1>21, <1>22, <1>23,
       <1>24, <1>25, <1>26, <1>27, <1>28, <1>29, <1>30, <1>31, <1>32
    DEF Next, MainThread, ImageThread, SearchThread, Callback

LEMMA NextNothingYet ==
  ASSUME IInv, Calm, NothingYet, [Next]_vars
  PROVE  NothingYet'
  <1> USE DEF IInv, ImageGoes, SearchGoes, viewVars, itemVars, countVars
  <1> SUFFICES ASSUME NEW l \in Launches, search'[l] = "connect"
               PROVE  /\ ~transfering'
                      /\ imagesDownloaded' = 0
                      /\ clients'[Len(clients')].downloadCount = 0
    BY DEF NothingYet
  <1>1. ASSUME search[l] = "connect", transfering' \in {transfering, FALSE},
               imagesDownloaded' = imagesDownloaded,
               clients' = clients \/ AllQuieter
        PROVE  /\ ~transfering'
               /\ imagesDownloaded' = 0
               /\ clients'[Len(clients')].downloadCount = 0
    <2>1. Len(clients) \in 1 .. Len(clients)
      BY <1>1 DEF Connecting, TypeOK
    <2>2. \/ clients' = clients
          \/ /\ Len(clients') = Len(clients)
             /\ Quieter(clients'[Len(clients)], clients[Len(clients)])
      BY <1>1, <2>1 DEF AllQuieter
    <2>3. /\ ~transfering /\ imagesDownloaded = 0
          /\ clients[Len(clients)].downloadCount = 0
      BY <1>1 DEF NothingYet
    <2>4. clients'[Len(clients')].downloadCount = 0
      BY <2>2, <2>3 DEF Quieter
    <2>5. transfering = FALSE /\ transfering' = FALSE
      BY <1>1, <2>3 DEF TypeOK
    <2> QED BY <1>1, <2>3, <2>4, <2>5
  <1>2. CASE MainThread
    <2>1. /\ search' = search /\ imagesDownloaded' = imagesDownloaded
          /\ transfering' \in {transfering, FALSE}
          /\ clients' = clients \/ AllQuieter
      BY <1>2, CancelQuiets DEF MainThread, StartAnimation, StartManager, StartThreads,
          StopAnimation, StopManager, ThreadsFinished, GiveUp, UncancelManager, TypeOK
    <2> QED BY <1>1, <2>1
  <1>3. ASSUME NEW m \in Launches, ImageThread(m)
        PROVE  /\ search[l] = "connect" /\ imagesDownloaded' = imagesDownloaded
               /\ transfering' \in {transfering, FALSE}
               /\ clients' = clients \/ AllQuieter
    <2>1. search' = search \/ search' = [search EXCEPT ![m] = "launched"]
      BY <1>3 DEF ImageThread, ImageThreadBegins, ReloadCache, ReloadCancels, ReloadEnds,
          CheckType, BeginChoice, CheckSearchItem, GetFromImageArray, ImageThreadEnds
    <2>2. search[l] = "connect"
      BY <2>1 DEF TypeOK
    <2> QED
      BY <1>3, <2>2, CancelQuiets DEF ImageThread, ImageThreadBegins, ReloadCache,
          ReloadCancels, ReloadEnds, CheckType, BeginChoice, CheckSearchItem,
          GetFromImageArray, ImageThreadEnds, UncancelManager, TypeOK
  <1>4. ASSUME NEW m \in Launches, SearchThread(m) \/ AddToImageArray(m),
               ~TriggerSearch(m)
        PROVE  FALSE
    <2>1. /\ search'[m] # "connect" /\ Active(m)
          /\ m # l => search[l] = search'[l]
      BY <1>4 DEF SearchThread, SearchThreadBegins, CheckSearch, Connect,
          SearchThreadEnds, Callback, SearchFails, SearchLoads, DidFinishDownload,
          DidErrorOnDownload, DidFinishSearch, StartDownloads, NotFinished,
          DidFinishDownloads, CheckResults, AddToImageArray, Active, TypeOK
    <2> QED BY <2>1 DEF Calm, OnePair, Active
  <1>5. ASSUME NEW m \in Launches, TriggerSearch(m)
        PROVE  /\ ~transfering'
               /\ imagesDownloaded' = 0
               /\ clients'[Len(clients')].downloadCount = 0
    <2>1. ~Synchronized /\ search[m] = "trigger"
      BY <1>5 DEF TriggerSearch
    <2>2. search' = [search EXCEPT ![m] = "connect"]
      BY <1>5, <2>1 DEF TriggerSearch, Synchronized, TypeOK
    <2>3. /\ ~transfering /\ transfering' = transfering /\ imagesDownloaded' = 0
          /\ clients' = Append(clients, NewClient(m))
      BY <1>5, <2>1, <2>2 DEF TriggerSearch, TypeOK
    <2>4. NewClient(m).downloadCount = 0
      BY DEF NewClient
    <2>5. clients'[Len(clients')] = NewClient(m)
      BY <2>3 DEF TypeOK
    <2> QED BY <2>3, <2>4, <2>5
  <1>6. ASSUME NEW thread \in asking, Answer(thread)
        PROVE  search' = search /\ UNCHANGED <<transfering, imagesDownloaded, clients>>
    BY <1>6 DEF Answer
  <1>7. CASE UNCHANGED vars
    BY <1>1, <1>7 DEF vars
  <1> QED BY <1>1, <1>2, <1>3, <1>4, <1>5, <1>6, <1>7 DEF Next

LEMMA CalmInvariant == Spec /\ []Calm => [](IInv /\ CalmInv)
  <1>1. Init => NothingYet
    BY DEF Init, NothingYet
  <1> QED
    BY <1>1, InitIInv, NextIInv, InitCalmInv, NextCalmInv, NextNothingYet, PTL DEF Spec

(* One results page is worked on at a time. *)
THEOREM OneAtATime == Spec /\ []Calm => []OneTransfer
  <1>1. IInv /\ CalmInv => OneTransfer
    <2> SUFFICES ASSUME IInv, CalmInv, Undisturbed
                 PROVE  Cardinality(LiveClients) <= 1
      BY DEF OneTransfer
    <2>1. LiveClients \subseteq {Len(clients)}
      BY DEF CalmInv, LastOnly, LiveClients, Undisturbed
    <2>2. LiveClients = {} \/ LiveClients = {Len(clients)}
      BY <2>1
    <2>3. Cardinality({}) = 0 /\ Cardinality({Len(clients)}) = 1
      BY FS_EmptySet, FS_Singleton
    <2> QED BY <2>2, <2>3
  <1> QED BY <1>1, CalmInvariant, PTL

(* What a transfer ends with. *)
LEMMA EndOfTransfer ==
  ASSUME IInv, CalmInv, [Next]_vars, NEW l \in Launches,
         search[l] = "check", search'[l] = "results"
  PROVE  /\ clients[serving[l]].reported = clients[serving[l]].links
         /\ imagesDownloaded = clients[serving[l]].downloadCount
  <1>1. DidFinishDownloads(l)
    <2>0. search \in [Launches -> {"off", "launched", "loop", "trigger", "connect",
                                   "parse", "links", "adding", "check", "results"}]
      BY DEF IInv, TypeOK
    <2>1. MainThread \/ UNCHANGED vars => search' = search
      BY DEF MainThread, StartAnimation, StartManager, StartThreads, StopAnimation,
          StopManager, ThreadsFinished, GiveUp, vars
    <2>2. ASSUME NEW m \in Launches, ImageThread(m)
          PROVE  search' = search \/ search' = [search EXCEPT ![m] = "launched"]
      BY <2>2 DEF ImageThread, ImageThreadBegins, ReloadCache, ReloadCancels, ReloadEnds,
          CheckType, BeginChoice, CheckSearchItem, GetFromImageArray, ImageThreadEnds
    <2>3. ASSUME NEW m \in Launches, SearchThread(m) \/ AddToImageArray(m),
                 ~DidFinishDownloads(m)
          PROVE  \E p \in {"off", "loop", "trigger", "connect", "parse", "links",
                           "adding", "check"} :
                   search' = [search EXCEPT ![m] = p]
      <3>1. ASSUME NEW c \in 1 .. Len(clients),
                   SearchFails(m, c) \/ SearchLoads(m, c) \/ DidFinishDownload(m, c)
                     \/ DidErrorOnDownload(m, c)
            PROVE  search' = [search EXCEPT ![m] = "loop"]
                     \/ search' = [search EXCEPT ![m] = "parse"]
                     \/ search' = [search EXCEPT ![m] = "adding"]
                     \/ search' = [search EXCEPT ![m] = "check"]
        BY <2>0, <3>1 DEF SearchFails, SearchLoads, DidFinishDownload,
            DidErrorOnDownload, SearchGoes
      <3> QED
        BY <2>3, <3>1 DEF SearchThread, Callback, SearchThreadBegins, CheckSearch,
            TriggerSearch, Connect, SearchThreadEnds, DidFinishSearch, StartDownloads,
            NotFinished, CheckResults, AddToImageArray, SearchGoes
    <2>4. ASSUME NEW m \in Launches, DidFinishDownloads(m), m # l
          PROVE  FALSE
      BY <2>0, <2>4 DEF DidFinishDownloads, SearchGoes
    <2>5. ASSUME NEW m \in Launches, NEW p, p # "results",
                 search' = [search EXCEPT ![m] = p]
          PROVE  FALSE
      BY <2>0, <2>5
    <2> QED
      <3>1. CASE MainThread \/ UNCHANGED vars
        BY <2>1, <3>1
      <3>2. ASSUME NEW m \in Launches, ImageThread(m) PROVE FALSE
        BY <2>2, <2>5, <3>2
      <3>3. ASSUME NEW m \in Launches, SearchThread(m) \/ AddToImageArray(m)
            PROVE  DidFinishDownloads(l)
        BY <2>3, <2>4, <2>5, <3>3
      <3>4. ASSUME NEW thread \in asking, Answer(thread) PROVE FALSE
        BY <3>4 DEF Answer
      <3> QED BY <3>1, <3>2, <3>3, <3>4 DEF Next
  <1> DEFINE c == serving[l]
  <1>2. /\ c \in 1 .. Len(clients) /\ clients[c].owner = l
        /\ InTurn(clients[c]) /\ clients[c] \in Client
    BY DEF IInv, Served, AllInTurn, TypeOK
  <1>3. ~canceled /\ clients[c].reported >= transferImageCount
    BY <1>1 DEF DidFinishDownloads
  <1>4. clients[c].links = transferImageCount
    BY <1>3 DEF CalmInv, OwnLinks
  <1>5. clients[c].reported = clients[c].links
    BY <1>2, <1>3, <1>4 DEF InTurn, Client
  <1>6. Live(c)
    BY <1>2 DEF Live
  <1>7. c = Len(clients) /\ transfering
    BY <1>2, <1>3, <1>6 DEF CalmInv, LastOnly
  <1>8. imagesDownloaded = clients[c].downloadCount
    BY <1>3, <1>7 DEF CalmInv, OwnImages
  <1> QED BY <1>5, <1>8

(* An item moves on only after the last link of its page was reported. *)
THEOREM LastLink == Spec /\ []Calm => PageAfterLastLink
  <1>1. IInv /\ CalmInv /\ [Next]_vars =>
          [\A l \in Launches : search[l] = "check" /\ search'[l] = "results" =>
             clients[serving[l]].reported = clients[serving[l]].links]_vars
    BY EndOfTransfer
  <1> QED BY <1>1, CalmInvariant, PTL DEF Spec, PageAfterLastLink

(* The count recorded at the end of a transfer is that of its own client. *)
THEOREM OwnCount == Spec /\ []Calm => CountOfOwnClient
  <1>1. IInv /\ CalmInv /\ [Next]_vars =>
          [\A l \in Launches : search[l] = "check" /\ search'[l] = "results" =>
             imagesDownloaded = clients[serving[l]].downloadCount]_vars
    BY EndOfTransfer
  <1> QED BY <1>1, CalmInvariant, PTL DEF Spec, CountOfOwnClient

(* The one pair of threads ends before a view starts again. *)
LEMMA OnePairEnds ==
  ASSUME NEW k, Launches = {k}
  PROVE  Spec => []NoLeftover
  <1>1. Init => NoLeftover
    BY DEF Init, NoLeftover
  <1>2. ASSUME TypeOK, NoLeftover, [Next]_vars PROVE NoLeftover'
    <2>1. ASSUME NEW l \in Launches, ImageThread(l) PROVE NoLeftover'
      BY <1>2, <2>1 DEF ImageThread, ImageThreadBegins, ReloadCache, ReloadCancels,
          ReloadEnds, CheckType, BeginChoice, CheckSearchItem, GetFromImageArray,
          ImageThreadEnds, ImageGoes, viewVars, NoLeftover, Active
    <2>2. ASSUME NEW l \in Launches, SearchThread(l) \/ AddToImageArray(l)
          PROVE  NoLeftover'
      BY <1>2, <2>2 DEF SearchThread, Callback, SearchThreadBegins, CheckSearch,
          TriggerSearch, Connect, SearchThreadEnds, SearchFails, SearchLoads,
          DidFinishDownload, DidErrorOnDownload, DidFinishSearch, StartDownloads,
          NotFinished, DidFinishDownloads, CheckResults, AddToImageArray, SearchGoes,
          viewVars, NoLeftover, Active
    <2>3. CASE MainThread
      BY <1>2, <2>3 DEF MainThread, StartAnimation, StartManager, StartThreads,
          StopAnimation, StopManager, ThreadsFinished, GiveUp, NoLeftover, Active
    <2>4. CASE UNCHANGED vars
      BY <1>2, <2>4 DEF vars, viewVars, NoLeftover, Active
    <2>5. ASSUME NEW thread \in asking, Answer(thread) PROVE NoLeftover'
      BY <1>2, <2>5 DEF Answer, viewVars, NoLeftover, Active
    <2> QED BY <1>2, <2>1, <2>2, <2>3, <2>4, <2>5 DEF Next
  <1> QED BY <1>1, <1>2, TypeCorrect, PTL DEF Spec

(* A view whose threads end before others are launched, with no item that   *)
(* follows iTunes, is calm; all of this holds there unconditionally.        *)
THEOREM OneViewTransfers ==
  ASSUME NEW l, Launches = {l}, ITunes = {}
  PROVE  Spec => []OneTransfer /\ PageAfterLastLink /\ CountOfOwnClient
  <1>1. OnePair
    BY DEF OnePair
  <1>2. Spec => []NoLeftover
    BY OnePairEnds
  <1>3. Spec => []NoReload
    BY NeverReloads
  <1>4. Spec => []Calm
    BY <1>1, <1>2, <1>3, PTL DEF Calm
  <1> QED BY <1>4, OneAtATime, LastLink, OwnCount, PTL
===============================================================================
