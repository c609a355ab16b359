----------------------------- MODULE ImageManager -----------------------------
(***************************************************************************)
(* ImageManager.m with the SearchDownloadClients it creates, driven by the *)
(* threads of one screen saver view:                                       *)
(*                                                                         *)
(*   main     starts and stops the view, and runs -addToImageArray: for a  *)
(*            search thread that waits for it;                             *)
(*   image    (-checkRunnable) chooses the search item and takes images;   *)
(*   search   (-checkSearchRunnable) triggers a search when none is under  *)
(*            way, and serves in its run loop the callbacks of the clients *)
(*            it created.                                                  *)
(*                                                                         *)
(* Every start of the view launches a new pair of threads, a "launch".     *)
(* -triggerSearch, -setCanceled: and the switch of the item exclude each   *)
(* other with @synchronized(self), and the image threads and -reload with  *)
(* sharedLock; the other reads and writes of the manager's fields do not,  *)
(* and are steps of their own here.                                        *)
(*                                                                         *)
(* An item that follows the song asks iTunes for it, which only the main   *)
(* thread does: -performSelectorOnMainThread:...waitUntilDone:YES, in the  *)
(* middle of -triggerSearch, -checkSearchItem and -reloadCache, whose      *)
(* locks are kept, and while a page is parsed.  The keyword is good for    *)
(* five seconds, so that a thread asks or not.                             *)
(*                                                                         *)
(* A client searches one results page over an NSURLConnection and hands    *)
(* the links it finds to a DownloadClient.  Of that batch this module      *)
(* keeps what module DownloadReports promises: reports one by one, in the  *)
(* order of the links, none once cancelled.  Location items, whose images  *)
(* are downloaded while the page is parsed, are not among the Items.       *)
(***************************************************************************)
EXTENDS Integers, Sequences, FiniteSets

CONSTANTS
  Items,       \* search items
  None,        \* no search item
  ITunes,      \* those that follow the song iTunes is playing
  Launches,    \* bound: pairs of threads that may exist at a time
  GivesUp,     \* -setCanceled: stops waiting for its threads after a while
  MaxLinks,    \* bound: links found on a page
  MaxClients   \* bound: searches triggered

ASSUME ManagerAssumption ==
  /\ None \notin Items
  /\ ITunes \subseteq Items
  /\ GivesUp \in BOOLEAN
  /\ MaxLinks \in Nat
  /\ MaxClients \in Nat

VARIABLES
  main,                \* the main thread: see TypeOK
  viewCanceled,        \* the view's own canceled flag
  isImageCheckRunning,
  isSearchCheckRunning,
  image,               \* image[l]: where the image thread of launch l stands
  search,              \* search[l]: where its search thread stands
  serving,             \* serving[l]: client whose callback that thread runs, or 0
  canceled,            \* the manager's canceled flag
  transfering,
  currentSearchItem,
  transferImageCount,
  imagesDownloaded,
  imageArray,          \* items with a new image in the queue
  asking,              \* threads that wait for main to ask iTunes for the song
  clients,             \* the clients created; the last one is `client'
  page,                \* page[i]: result pages of item i done with
  lastDownloadCount    \* lastDownloadCount[i], shown in the status line

viewVars == <<main, viewCanceled, isImageCheckRunning, isSearchCheckRunning>>
itemVars == <<currentSearchItem, page, lastDownloadCount>>
countVars == <<transferImageCount, imagesDownloaded>>
vars == <<viewVars, image, search, serving, canceled, transfering, imageArray,
          asking, clients, itemVars, countVars>>

Client ==
  [item : Items, owner : Launches, canceled : BOOLEAN,
   conn : {"none", "loading", "cancelled", "ended", "lost"},
   links : 0 .. MaxLinks,                        \* [urlsArray count]
   batch : {"none", "running", "cancelled", "lost"},  \* the DownloadClient
   reported : 0 .. MaxLinks,                     \* links reported so far
   downloadCount : 0 .. MaxLinks]

TypeOK ==
  /\ main \in {"stopped", "starting", "reload", "running", "stopping", "waiting"}
  /\ viewCanceled \in BOOLEAN
  /\ isImageCheckRunning \in BOOLEAN
  /\ isSearchCheckRunning \in BOOLEAN
  /\ canceled \in BOOLEAN
  /\ transfering \in BOOLEAN
  /\ image \in [Launches -> {"off", "launched", "loop", "load", "reload",
                             "switch", "choose"}]
  /\ search \in [Launches -> {"off", "launched", "loop", "trigger", "connect",
                              "parse", "links", "adding", "check", "results"}]
  /\ serving \in [Launches -> 0 .. Len(clients)]
  /\ currentSearchItem \in Items \cup {None}
  /\ transferImageCount \in 0 .. MaxLinks
  /\ imagesDownloaded \in Nat
  /\ imageArray \subseteq Items
  /\ asking \subseteq {"image", "search"} \X Launches
  /\ clients \in Seq(Client)
  /\ page \in [Items -> Nat]
  /\ lastDownloadCount \in [Items -> Nat]

Init ==
  /\ main = "stopped"
  /\ viewCanceled = FALSE
  /\ isImageCheckRunning = FALSE
  /\ isSearchCheckRunning = FALSE
  /\ image = [l \in Launches |-> "off"]
  /\ search = [l \in Launches |-> "off"]
  /\ serving = [l \in Launches |-> 0]
  /\ canceled = FALSE
  /\ transfering = FALSE
  /\ currentSearchItem = None
  /\ transferImageCount = 0
  /\ imagesDownloaded = 0
  /\ imageArray = {}
  /\ asking = {}
  /\ clients = <<>>
  /\ page = [i \in Items |-> 0]
  /\ lastDownloadCount = [i \in Items |-> 0]
-----------------------------------------------------------------------------
(* Helpers. *)

(* Where a thread goes. *)
ImageGoes(l, from, to) == image[l] = from /\ image' = [image EXCEPT ![l] = to]
SearchGoes(l, from, to) == search[l] = from /\ search' = [search EXCEPT ![l] = to]

(* A thread may have to ask for the song, and goes on once it has the answer. *)
MayAsk(thread, may) ==
  asking' \in {asking} \cup (IF may THEN {asking \cup {thread}} ELSE {})
Answered(thread) == thread \notin asking

(* @synchronized(self) is held across the question of -triggerSearch, *)
Synchronized == \E l \in Launches : search[l] = "connect"

(* sharedLock by -reloadCache and -checkSearchItem. *)
SharedLock == \E l \in Launches : image[l] \in {"load", "reload", "choose"}

(* The connection and the batch that c has call back no more. *)
Silenced(c, why) ==
  [c EXCEPT !.conn = IF @ = "loading" THEN why ELSE @,
            !.batch = IF @ = "running" THEN why ELSE @]

(* -[SearchDownloadClient setCanceled:YES]. *)
Stopped(c) == [Silenced(c, "cancelled") EXCEPT !.canceled = TRUE]

(* -[ImageManager setCanceled:YES]: cancels the last client only. *)
CancelManager ==
  /\ canceled' = TRUE
  /\ clients' = [c \in 1 .. Len(clients) |->
                   IF c = Len(clients) THEN Stopped(clients[c]) ELSE clients[c]]

(* -[ImageManager setCanceled:NO]. *)
UncancelManager == canceled' = FALSE /\ transfering' = FALSE
-----------------------------------------------------------------------------
(* The main thread. *)

(* -startAnimation: the view's flag, *)
StartAnimation ==
  /\ main = "stopped"
  /\ \E l \in Launches : image[l] = "off" /\ search[l] = "off"
  /\ main' = "starting"
  /\ viewCanceled' = FALSE
  /\ UNCHANGED <<isImageCheckRunning, isSearchCheckRunning, image, search,
                 serving, canceled, transfering, imageArray, clients,
                 itemVars, countVars, asking>>

(* then the manager's, *)
StartManager ==
  /\ main = "starting"
  /\ ~Synchronized
  /\ main' = "reload"
  /\ UncancelManager
  /\ UNCHANGED <<viewCanceled, isImageCheckRunning, isSearchCheckRunning, image,
                 search, serving, imageArray, clients, itemVars, countVars, asking>>

(* -reload, which wants another item soon, and a new image thread. *)
StartThreads ==
  /\ main = "reload"
  /\ ~SharedLock
  /\ main' = "running"
  /\ \E l \in Launches : search[l] = "off" /\ ImageGoes(l, "off", "launched")
  /\ UNCHANGED <<viewCanceled, isImageCheckRunning, isSearchCheckRunning, search,
                 serving, canceled, transfering, imageArray, clients, itemVars,
                 countVars, asking>>

(* -stopAnimation: the view's flag, *)
StopAnimation ==
  /\ main = "running"
  /\ main' = "stopping"
  /\ viewCanceled' = TRUE
  /\ UNCHANGED <<isImageCheckRunning, isSearchCheckRunning, image, search,
                 serving, canceled, transfering, imageArray, clients,
                 itemVars, countVars, asking>>

(* then the manager's. *)
StopManager ==
  /\ main = "stopping"
  /\ ~Synchronized
  /\ main' = "waiting"
  /\ CancelManager
  /\ UNCHANGED <<viewCanceled, isImageCheckRunning, isSearchCheckRunning,
                 image, search, serving, transfering, imageArray, itemVars,
                 countVars, asking>>

(* Faulty variant: the wait ends when either flag is down. *)
EitherThreadFinished ==
  /\ main = "waiting"
  /\ ~isImageCheckRunning \/ ~isSearchCheckRunning
  /\ main' = "stopped"
  /\ UNCHANGED <<viewCanceled, isImageCheckRunning, isSearchCheckRunning,
                 image, search, serving, canceled, transfering, imageArray,
                 clients, itemVars, countVars, asking>>

(* The wait for the threads ends when both flags are down, *)
ThreadsFinished ==
  /\ main = "waiting"
  /\ ~isImageCheckRunning
  /\ ~isSearchCheckRunning
  /\ main' = "stopped"
  /\ UNCHANGED <<viewCanceled, isImageCheckRunning, isSearchCheckRunning,
                 image, search, serving, canceled, transfering, imageArray,
                 clients, itemVars, countVars, asking>>

(* or, in the OpenGL view, after 200 naps of 0.05 s. *)
GiveUp ==
  /\ GivesUp
  /\ main = "waiting"
  /\ main' = "stopped"
  /\ UNCHANGED <<viewCanceled, isImageCheckRunning, isSearchCheckRunning,
                 image, search, serving, canceled, transfering, imageArray,
                 clients, itemVars, countVars, asking>>

(* -addToImageArray: for a search thread that waits; not while the main     *)
(* thread is inside -setCanceled: itself.                                   *)
AddToImageArray(l) ==
  /\ main \in {"stopped", "running"}
  /\ SearchGoes(l, "adding", "check")
  /\ imageArray' = imageArray \cup {clients[serving[l]].item}
  /\ UNCHANGED <<viewVars, image, serving, canceled, transfering, clients,
                 itemVars, countVars, asking>>

(* -[ITunesAccessor getCurrentArtistImpl:], for a thread that waits. *)
Answer(thread) ==
  /\ main \in {"stopped", "running"}
  /\ thread \in asking
  /\ asking' = asking \ {thread}
  /\ UNCHANGED <<viewVars, image, search, serving, canceled, transfering,
                 imageArray, clients, itemVars, countVars>>
-----------------------------------------------------------------------------
(* Image threads. *)

(* -checkRunnable begins: its flag goes up and it launches the search thread.*)
ImageThreadBegins(l) ==
  /\ ImageGoes(l, "launched", "loop")
  /\ isImageCheckRunning' = TRUE
  /\ search' = [search EXCEPT ![l] = "launched"]
  /\ UNCHANGED <<main, viewCanceled, isSearchCheckRunning, serving, canceled,
                 transfering, imageArray, clients, itemVars, countVars,
                 asking>>

(* -checkType, the song has changed: -reloadCache begins with the images, *)
ReloadCache(l) ==
  /\ ~viewCanceled
  /\ currentSearchItem \in ITunes
  /\ ~SharedLock
  /\ ImageGoes(l, "loop", "load")
  /\ imageArray' = {}
  /\ MayAsk(<<"image", l>>, TRUE)
  /\ UNCHANGED <<viewVars, search, serving, canceled, transfering, clients,
                 itemVars, countVars>>

(* and when those of the new song are listed it cancels, *)
ReloadCancels(l) ==
  /\ Answered(<<"image", l>>)
  /\ ~Synchronized
  /\ ImageGoes(l, "load", "reload")
  /\ CancelManager
  /\ UNCHANGED <<viewVars, search, serving, transfering, imageArray, itemVars,
                 countVars, asking>>

(* and takes the cancel back. *)
ReloadEnds(l) ==
  /\ ~Synchronized
  /\ ImageGoes(l, "reload", "loop")
  /\ UncancelManager
  /\ UNCHANGED <<viewVars, search, serving, imageArray, clients, itemVars,
                 countVars, asking>>

(* -checkType: nothing is being transferred ... *)
CheckType(l) ==
  /\ ~viewCanceled
  /\ ~transfering
  /\ ImageGoes(l, "loop", "switch")
  /\ UNCHANGED <<viewVars, search, serving, canceled, transfering, imageArray,
                 clients, itemVars, countVars, asking>>

(* ... so -checkSearchItem takes the lock; an iTunes item among the enabled *)
(* may be chosen only while there is a song, and so asks, here and for the  *)
(* directory of the images when it is chosen.                               *)
BeginChoice(l) ==
  /\ ~SharedLock
  /\ ImageGoes(l, "switch", "choose")
  /\ MayAsk(<<"image", l>>, ITunes # {})
  /\ UNCHANGED <<viewVars, search, serving, canceled, transfering, imageArray,
                 clients, itemVars, countVars>>

(* An item is chosen: the current one when the change is not due or nothing *)
(* else is enabled.                                                         *)
CheckSearchItem(l) ==
  /\ Answered(<<"image", l>>)
  /\ ImageGoes(l, "choose", "loop")
  /\ \/ UNCHANGED <<currentSearchItem, imageArray>>
     \/ /\ ~Synchronized
        /\ currentSearchItem' \in Items \ {currentSearchItem}
        /\ imageArray' = {}
  /\ UNCHANGED <<viewVars, search, serving, canceled, transfering, clients,
                 page, lastDownloadCount, countVars, asking>>

(* -getFromImageArray: the last queued image of an item is taken. *)
GetFromImageArray(l) ==
  /\ image[l] = "loop"
  /\ ~canceled
  /\ \E i \in imageArray : imageArray' = imageArray \ {i}
  /\ UNCHANGED <<viewVars, image, search, serving, canceled, transfering,
                 clients, itemVars, countVars, asking>>

ImageThreadEnds(l) ==
  /\ viewCanceled
  /\ ImageGoes(l, "loop", "off")
  /\ isImageCheckRunning' = FALSE
  /\ UNCHANGED <<main, viewCanceled, isSearchCheckRunning, search, serving,
                 canceled, transfering, imageArray, clients, itemVars,
                 countVars, asking>>
-----------------------------------------------------------------------------
(* Search threads, outside the callbacks. *)

SearchThreadBegins(l) ==
  /\ SearchGoes(l, "launched", "loop")
  /\ isSearchCheckRunning' = TRUE
  /\ UNCHANGED <<main, viewCanceled, isImageCheckRunning, image, serving,
                 canceled, transfering, imageArray, clients, itemVars,
                 countVars, asking>>

(* -checkSearch: nothing is being transferred, the wait is over ... *)
CheckSearch(l) ==
  /\ ~viewCanceled
  /\ ~transfering
  /\ currentSearchItem # None
  /\ Len(clients) < MaxClients
  /\ SearchGoes(l, "loop", "trigger")
  /\ UNCHANGED <<viewVars, image, serving, canceled, transfering, imageArray,
                 clients, itemVars, countVars, asking>>

(* The client that -startSearch: creates. *)
NewClient(l) ==
  [item |-> currentSearchItem, owner |-> l, canceled |-> FALSE, conn |-> "none",
   links |-> 0, batch |-> "none", reported |-> 0, downloadCount |-> 0]

(* Faulty variant: -startSearch: goes on counting where it was. *)
CountNotReset(l) ==
  /\ ~Synchronized
  /\ SearchGoes(l, "trigger", "connect")
  /\ ~transfering /\ ~canceled /\ Len(clients) < MaxClients
  /\ clients' = Append(clients, NewClient(l))
  /\ MayAsk(<<"search", l>>, currentSearchItem \in ITunes)
  /\ UNCHANGED <<viewVars, image, serving, canceled, transfering, imageArray,
                 itemVars, countVars>>

(* ... so -triggerSearch takes the lock and looks again, and -startSearch:  *)
(* creates a client, unless the manager is cancelled.  An iTunes item may   *)
(* have to ask for the song before it has a URL.                            *)
TriggerSearch(l) ==
  /\ ~Synchronized
  /\ \/ /\ transfering
        /\ SearchGoes(l, "trigger", "loop")
        /\ UNCHANGED <<imagesDownloaded, clients, asking>>
     \/ /\ ~transfering
        /\ canceled \/ Len(clients) = MaxClients
        /\ SearchGoes(l, "trigger", "loop")
        /\ imagesDownloaded' = 0
        /\ UNCHANGED <<clients, asking>>
     \/ /\ ~transfering
        /\ ~canceled
        /\ Len(clients) < MaxClients
        /\ SearchGoes(l, "trigger", "connect")
        /\ imagesDownloaded' = 0
        /\ clients' = Append(clients, NewClient(l))
        /\ MayAsk(<<"search", l>>, currentSearchItem \in ITunes)
  /\ UNCHANGED <<viewVars, image, serving, canceled, transfering, imageArray,
                 itemVars, transferImageCount>>

(* -downloadImages:search: opens the connection; an iTunes item may have no *)
(* URL.                                                                     *)
Connect(l) ==
  /\ Answered(<<"search", l>>)
  /\ SearchGoes(l, "connect", "loop")
  /\ \/ /\ transfering' = TRUE
        /\ clients' = [clients EXCEPT ![Len(clients)].conn = "loading"]
     \/ /\ clients[Len(clients)].item \in ITunes
        /\ transfering' = FALSE
        /\ UNCHANGED clients
  /\ UNCHANGED <<viewVars, image, serving, canceled, imageArray, itemVars,
                 countVars, asking>>

(* The thread ends, and with it the run loop its clients call back in. *)
SearchThreadEnds(l) ==
  /\ viewCanceled
  /\ SearchGoes(l, "loop", "off")
  /\ isSearchCheckRunning' = FALSE
  /\ serving' = [serving EXCEPT ![l] = 0]
  /\ clients' = [c \in 1 .. Len(clients) |->
                   IF clients[c].owner = l THEN Silenced(clients[c], "lost")
                                           ELSE clients[c]]
  /\ UNCHANGED <<main, viewCanceled, isImageCheckRunning, image, canceled,
                 transfering, imageArray, itemVars, countVars, asking>>
-----------------------------------------------------------------------------
(* Callbacks of client c, served by the thread that created it. *)

(* -didErrorOnSearch:. *)
SearchFails(l, c) ==
  /\ search[l] = "loop"
  /\ clients[c].owner = l
  /\ clients[c].conn = "loading"
  /\ clients' = [clients EXCEPT ![c].conn = "ended"]
  /\ transfering' = FALSE
  /\ UNCHANGED <<viewVars, image, search, serving, canceled, imageArray,
                 itemVars, countVars, asking>>

(* -didFinishLoading:encoding:, past its test of `canceled'; the path of    *)
(* each image is in the directory of the song.                              *)
SearchLoads(l, c) ==
  /\ SearchGoes(l, "loop", "parse")
  /\ clients[c].owner = l
  /\ clients[c].conn = "loading"
  /\ clients' = [clients EXCEPT ![c].conn = "ended"]
  /\ serving' = [serving EXCEPT ![l] = c]
  /\ MayAsk(<<"search", l>>, clients[c].item \in ITunes)
  /\ UNCHANGED <<viewVars, image, canceled, transfering, imageArray, itemVars,
                 countVars>>

(* Faulty variant: the transfer ends with the search, links or not. *)
SearchEndsTransfer(l) ==
  /\ Answered(<<"search", l>>)
  /\ SearchGoes(l, "parse", "links")
  /\ \E n \in 0 .. MaxLinks :
       /\ clients' = [clients EXCEPT ![serving[l]].links = n]
       /\ transferImageCount' = n
       /\ transfering' = FALSE
  /\ UNCHANGED <<viewVars, image, serving, canceled, imageArray, itemVars,
                 imagesDownloaded, asking>>

(* Faulty variant: an empty page does not end the transfer. *)
EmptyPageIgnored(l) ==
  /\ Answered(<<"search", l>>)
  /\ SearchGoes(l, "parse", "links")
  /\ \E n \in 0 .. MaxLinks :
       /\ clients' = [clients EXCEPT ![serving[l]].links = n]
       /\ transferImageCount' = n
  /\ UNCHANGED <<viewVars, image, serving, canceled, transfering, imageArray,
                 itemVars, imagesDownloaded, asking>>

(* The page is parsed; -didFinishSearch: ends the transfer when it is empty. *)
DidFinishSearch(l) ==
  /\ Answered(<<"search", l>>)
  /\ SearchGoes(l, "parse", "links")
  /\ \E n \in 0 .. MaxLinks :
       /\ clients' = [clients EXCEPT ![serving[l]].links = n]
       /\ transferImageCount' = n
       /\ transfering' = (transfering /\ n > 0)
  /\ UNCHANGED <<viewVars, image, serving, canceled, imageArray, itemVars,
                 imagesDownloaded, asking>>

(* The batch is created, cancelled or not, and started. *)
StartDownloads(l) ==
  /\ SearchGoes(l, "links", "loop")
  /\ clients' = [clients EXCEPT ![serving[l]].batch = "running"]
  /\ UNCHANGED <<viewVars, image, serving, canceled, transfering, imageArray,
                 itemVars, countVars, asking>>

(* A link of c is still to be reported. *)
Downloading(c) == clients[c].batch = "running" /\ clients[c].reported < clients[c].links

(* -didFinishDownload:count:path:, up to its wait for the main thread. *)
DidFinishDownload(l, c) ==
  /\ clients[c].owner = l
  /\ Downloading(c)
  /\ SearchGoes(l, "loop", "adding")
  /\ serving' = [serving EXCEPT ![l] = c]
  /\ clients' = [clients EXCEPT ![c].reported = @ + 1, ![c].downloadCount = @ + 1]
  /\ imagesDownloaded' = imagesDownloaded + 1
  /\ UNCHANGED <<viewVars, image, canceled, transfering, imageArray, itemVars,
                 transferImageCount, asking>>

(* Faulty variant: a failed link is reported twice. *)
ErrorReportedTwice(l, c) ==
  /\ clients[c].owner = l
  /\ Downloading(c)
  /\ SearchGoes(l, "loop", "check")
  /\ serving' = [serving EXCEPT ![l] = c]
  /\ clients' = [clients EXCEPT ![c].reported = @ + 2]
  /\ UNCHANGED <<viewVars, image, canceled, transfering, imageArray, itemVars,
                 countVars, asking>>

(* -didErrorOnDownload:count:. *)
DidErrorOnDownload(l, c) ==
  /\ clients[c].owner = l
  /\ Downloading(c)
  /\ SearchGoes(l, "loop", "check")
  /\ serving' = [serving EXCEPT ![l] = c]
  /\ clients' = [clients EXCEPT ![c].reported = @ + 1]
  /\ UNCHANGED <<viewVars, image, canceled, transfering, imageArray, itemVars,
                 countVars, asking>>

(* -checkIfFinished:, an earlier link, or the manager is cancelled. *)
NotFinished(l) ==
  /\ SearchGoes(l, "check", "loop")
  /\ canceled \/ clients[serving[l]].reported < transferImageCount
  /\ UNCHANGED <<viewVars, image, serving, canceled, transfering, imageArray,
                 clients, itemVars, countVars, asking>>

(* Faulty variant: the index is compared with the count less two. *)
FinishedOneEarly(l) ==
  /\ SearchGoes(l, "check", "results")
  /\ ~canceled
  /\ clients[serving[l]].reported >= transferImageCount - 1
  /\ lastDownloadCount' =
       [lastDownloadCount EXCEPT ![currentSearchItem] = imagesDownloaded]
  /\ transfering' = FALSE
  /\ UNCHANGED <<viewVars, image, serving, canceled, imageArray, clients,
                 currentSearchItem, page, countVars, asking>>

(* -checkIfFinished:, the last link: the count is recorded, the transfer is *)
(* over.                                                                    *)
DidFinishDownloads(l) ==
  /\ SearchGoes(l, "check", "results")
  /\ ~canceled
  /\ clients[serving[l]].reported >= transferImageCount
  /\ lastDownloadCount' =
       [lastDownloadCount EXCEPT ![currentSearchItem] = imagesDownloaded]
  /\ transfering' = FALSE
  /\ UNCHANGED <<viewVars, image, serving, canceled, imageArray, clients,
                 currentSearchItem, page, countVars, asking>>

(* -checkResults: the item moves on to its next page, and is saved. *)
CheckResults(l) ==
  /\ SearchGoes(l, "results", "loop")
  /\ page' = [page EXCEPT ![currentSearchItem] = @ + 1]
  /\ UNCHANGED <<viewVars, image, serving, canceled, transfering, imageArray,
                 clients, currentSearchItem, lastDownloadCount, countVars,
                 asking>>
-----------------------------------------------------------------------------
MainThread ==
  \/ StartAnimation \/ StartManager \/ StartThreads \/ StopAnimation \/ StopManager
  \/ ThreadsFinished \/ GiveUp

ImageThread(l) ==
  \/ ImageThreadBegins(l) \/ ReloadCache(l) \/ ReloadCancels(l) \/ ReloadEnds(l)
  \/ CheckType(l) \/ BeginChoice(l) \/ CheckSearchItem(l)
  \/ GetFromImageArray(l) \/ ImageThreadEnds(l)

Callback(l) ==
  \/ \E c \in 1 .. Len(clients) :
       SearchFails(l, c) \/ SearchLoads(l, c) \/ DidFinishDownload(l, c)
         \/ DidErrorOnDownload(l, c)
  \/ DidFinishSearch(l) \/ StartDownloads(l) \/ NotFinished(l)
  \/ DidFinishDownloads(l) \/ CheckResults(l)

SearchThread(l) ==
  \/ SearchThreadBegins(l) \/ CheckSearch(l) \/ TriggerSearch(l) \/ Connect(l)
  \/ SearchThreadEnds(l) \/ Callback(l)

Next ==
  \/ MainThread
  \/ \E l \in Launches : ImageThread(l) \/ SearchThread(l) \/ AddToImageArray(l)
  \/ \E thread \in asking : Answer(thread)

Spec == Init /\ [][Next]_vars

(* Threads that can take a step take it, and so does the main thread once   *)
(* inside -startAnimation or -stopAnimation, and when it is asked to add an *)
(* image or for the song.  A page loads or fails, for NSURLConnection has a *)
(* timeout, and a batch reports its links: DownloadClient!ReportsGoOn, if   *)
(* no server feeds it data for ever.                                        *)
Fairness ==
  /\ WF_vars(StartManager)
  /\ WF_vars(StartThreads)
  /\ WF_vars(StopManager)
  /\ WF_vars(ThreadsFinished)
  /\ WF_vars(GiveUp)
  /\ \A l \in Launches :
       /\ WF_vars(ImageThreadBegins(l) \/ ReloadCancels(l) \/ ReloadEnds(l))
       /\ WF_vars(BeginChoice(l) \/ CheckSearchItem(l))
       /\ WF_vars(ImageThreadEnds(l))
       /\ WF_vars(SearchThreadBegins(l) \/ TriggerSearch(l) \/ Connect(l))
       /\ WF_vars(SearchThreadEnds(l))
       /\ WF_vars(Callback(l))
       /\ WF_vars(AddToImageArray(l))
       /\ WF_vars(Answer(<<"image", l>>))
       /\ WF_vars(Answer(<<"search", l>>))

FairSpec == Spec /\ Fairness
-----------------------------------------------------------------------------
(* Properties. *)

(* Work on the page of client c is under way: its connection or its batch   *)
(* will call back, or does so right now.                                    *)
Live(c) ==
  \/ clients[c].conn = "loading"
  \/ Downloading(c)
  \/ \E l \in Launches :
       /\ serving[l] = c
       /\ \/ search[l] \in {"parse", "adding", "check"}
          \/ search[l] = "links" /\ clients[c].links > 0

LiveClients == {c \in 1 .. Len(clients) : Live(c)}

(* Nobody has cancelled, or is about to. *)
Undisturbed == ~canceled /\ ~viewCanceled

(* While `transfering' keeps new searches away there is a client that will  *)
(* end the transfer: the flag cannot be stuck, whatever stops, restarts,    *)
(* errors and empty pages came before.                                      *)
TransferBacked == transfering /\ Undisturbed => LiveClients # {}

(* One results page is worked on at a time, as -triggerSearch intends.  It  *)
(* has only the flag to go by, which callbacks lower without the lock.      *)
OneTransfer == Undisturbed => Cardinality(LiveClients) <= 1

(* An item moves to its next page only when every link of the page was      *)
(* reported: -checkIfFinished: compares the index of a report of one client *)
(* with a count kept for all of them.                                       *)
PageAfterLastLink ==
  [][\A l \in Launches :
       search[l] = "check" /\ search'[l] = "results" =>
         clients[serving[l]].reported = clients[serving[l]].links]_vars

(* The count recorded at the end of a transfer is that of its own client,   *)
(* though the manager counts in a field that outlives the client.           *)
CountOfOwnClient ==
  [][\A l \in Launches :
       search[l] = "check" /\ search'[l] = "results" =>
         imagesDownloaded = clients[serving[l]].downloadCount]_vars

(* Once -stopAnimation has returned no image is queued until the next       *)
(* start, in a view that waits for its threads however long it takes.       *)
NothingAfterStop == [][main = "stopped" => imageArray' \subseteq imageArray]_vars

(* A transfer ends, or is cancelled. *)
TransferEnds == transfering ~> ~transfering \/ ~Undisturbed

(* -stopAnimation returns once its threads have. *)
StopReturns == main = "stopping" ~> main = "stopped"

(* "If it is searching when the change is supposed to happen, it will wait  *)
(* until its finished" (AdvSettingsDataSource.m:49).                        *)
ItemKeptWhileTransfering ==
  [][transfering => currentSearchItem' = currentSearchItem]_vars

(* "When a search is finished, it will wait this many minutes before trying *)
(* another search" (AdvSettingsDataSource.m:41).                            *)
SearchAfterSearch ==
  [][Len(clients') > Len(clients) => LiveClients = {}]_vars
=============================================================================
