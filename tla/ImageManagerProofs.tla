-------------------------- MODULE ImageManagerProofs --------------------------
(***************************************************************************)
(* Proofs about ImageManager, for any items, launches, links and searches. *)
(*                                                                         *)
(* Type correctness holds without conditions.  That nothing comes after a  *)
(* stop holds in the view that waits for its threads, while no thread of   *)
(* an earlier launch is left over (OnePair).  Module TransferProofs has    *)
(* the theorems about transfers.                                           *)
(***************************************************************************)
EXTENDS ImageManager, FiniteSetTheorems, TLAPS

(* A thread of launch l exists. *)
Active(l) == image[l] # "off" \/ search[l] # "off"

(* The threads of one launch at most exist. *)
OnePair == \A l, m \in Launches : Active(l) /\ Active(m) => l = m
-----------------------------------------------------------------------------
(* The invariant that needs no conditions. *)

(* Somebody has chosen an item before a search is triggered. *)
ItemChosen == \A l \in Launches : search[l] = "trigger" => currentSearchItem # None

(* A client whose page has loaded and whose batch has not begun. *)
AtPage(d) == d.conn # "loading" /\ d.batch = "none"

(* A search thread inside a callback serves a client it has created. *)
Served ==
  \A l \in Launches : search[l] \in {"parse", "links", "adding", "check"} =>
    /\ serving[l] \in 1 .. Len(clients)
    /\ clients[serving[l]].owner = l
    /\ search[l] \in {"parse", "links"} => AtPage(clients[serving[l]])

(* The batch of a client begins after its page, and reports no link twice.  *)
InTurn(d) ==
  /\ d.downloadCount <= d.reported
  /\ d.reported <= d.links
  /\ d.conn = "loading" => d.batch = "none"
  /\ d.batch = "none" => d.reported = 0

AllInTurn == \A c \in 1 .. Len(clients) : InTurn(clients[c])

(* Nothing calls back in a run loop that does not run. *)
Quiet(d) == d.conn # "loading" /\ d.batch # "running"

Unserved ==
  \A c \in 1 .. Len(clients) :
    search[clients[c].owner] \in {"off", "launched"} => Quiet(clients[c])

(* An image thread launches its search thread, which is not there before.   *)
Launching == \A l \in Launches : image[l] = "launched" => search[l] = "off"

(* While -triggerSearch asks for the song the last client is its new one.   *)
Connecting ==
  \A l \in Launches : search[l] = "connect" =>
    /\ clients # <<>>
    /\ clients[Len(clients)].owner = l
    /\ clients[Len(clients)].conn = "none"
    /\ clients[Len(clients)].batch = "none"

IInv ==
  /\ TypeOK /\ ItemChosen /\ Served /\ AllInTurn /\ Unserved /\ Connecting
  /\ Launching
-----------------------------------------------------------------------------
(* The invariant of behaviours in which nobody gives up waiting. *)

(* The two flags tell whether a thread runs, though the threads set them.   *)
FlagsUp ==
  /\ isImageCheckRunning = (\E l \in Launches : image[l] \notin {"off", "launched"})
  /\ isSearchCheckRunning = (\E l \in Launches : search[l] \notin {"off", "launched"})

(* A thread that was launched before a stop may begin after it: it finds    *)
(* the view cancelled.                                                      *)
QuietStop ==
  /\ main \in {"stopping", "waiting"} => viewCanceled
  /\ main = "stopped" =>
       /\ viewCanceled \/ \A l \in Launches : ~Active(l)
       /\ \A l \in Launches : search[l] \in {"off", "launched", "loop"}
       /\ \A c \in 1 .. Len(clients) : Quiet(clients[c])

StopInv == FlagsUp /\ QuietStop
-----------------------------------------------------------------------------
(* Clients. *)

LEMMA SilencedType ==
  ASSUME NEW c \in Client, NEW why \in {"cancelled", "lost"}
  PROVE  /\ Silenced(c, why) \in Client
         /\ Silenced(c, why).item = c.item
         /\ Silenced(c, why).owner = c.owner
         /\ Silenced(c, why).canceled = c.canceled
         /\ Silenced(c, why).links = c.links
         /\ Silenced(c, why).reported = c.reported
         /\ Silenced(c, why).downloadCount = c.downloadCount
         /\ Silenced(c, why).conn = (IF c.conn = "loading" THEN why ELSE c.conn)
         /\ Silenced(c, why).batch = (IF c.batch = "running" THEN why ELSE c.batch)
  BY DEF Silenced, Client

LEMMA StoppedType ==
  ASSUME NEW c \in Client
  PROVE  /\ Stopped(c) \in Client
         /\ Stopped(c).owner = c.owner
         /\ Stopped(c).links = c.links
         /\ Stopped(c).reported = c.reported
         /\ Stopped(c).downloadCount = c.downloadCount
         /\ Stopped(c).conn = (IF c.conn = "loading" THEN "cancelled" ELSE c.conn)
         /\ Stopped(c).batch = (IF c.batch = "running" THEN "cancelled" ELSE c.batch)
  <1>1. Silenced(c, "cancelled") \in Client
    BY SilencedType
  <1> QED BY <1>1, SilencedType DEF Stopped, Client

(* d is c after some of its calls back were given up. *)
Quieter(d, c) ==
  /\ d.owner = c.owner
  /\ d.links = c.links
  /\ d.reported = c.reported
  /\ d.downloadCount = c.downloadCount
  /\ d.conn = c.conn \/ (c.conn = "loading" /\ d.conn \in {"cancelled", "lost"})
  /\ d.batch = c.batch \/ (c.batch = "running" /\ d.batch \in {"cancelled", "lost"})

AllQuieter ==
  /\ clients' \in Seq(Client)
  /\ Len(clients') = Len(clients)
  /\ \A c \in 1 .. Len(clients) : Quieter(clients'[c], clients[c])

LEMMA CancelQuiets ==
  ASSUME clients \in Seq(Client), CancelManager
  PROVE  AllQuieter
  <1>1. \A c \in 1 .. Len(clients) : clients[c] \in Client
    OBVIOUS
  <1>2. \A c \in 1 .. Len(clients) : Stopped(clients[c]) \in Client
    BY <1>1, StoppedType
  <1>3. clients' \in Seq(Client) /\ Len(clients') = Len(clients)
    BY <1>2 DEF CancelManager
  <1>4. ASSUME NEW c \in 1 .. Len(clients)
        PROVE  Quieter(clients'[c], clients[c])
    BY <1>1, StoppedType DEF CancelManager, Quieter
  <1> QED BY <1>3, <1>4 DEF AllQuieter

LEMMA QuieterKeeps ==
  ASSUME NEW c \in Client, NEW d \in Client, Quieter(d, c)
  PROVE  /\ d.owner = c.owner
         /\ InTurn(c) => InTurn(d)
         /\ Quiet(c) => Quiet(d)
         /\ AtPage(c) => AtPage(d)
  BY DEF Quieter, InTurn, Quiet, AtPage, Client

LEMMA OneClientChanges ==
  ASSUME clients \in Seq(Client), NEW c \in 1 .. Len(clients), NEW d \in Client,
         clients' = [clients EXCEPT ![c] = d]
  PROVE  /\ clients' \in Seq(Client)
         /\ Len(clients') = Len(clients)
         /\ clients'[c] = d
         /\ \A k \in 1 .. Len(clients) : k # c => clients'[k] = clients[k]
  OBVIOUS

LEMMA InitIInv == Init => IInv
  <1> SUFFICES ASSUME Init PROVE IInv
    OBVIOUS
  <1> USE ManagerAssumption DEF Init
  <1>1. TypeOK
    <2>1. clients \in Seq(Client)
      OBVIOUS
    <2>2. serving \in [Launches -> 0 .. Len(clients)]
      OBVIOUS
    <2>3. transferImageCount \in 0 .. MaxLinks
      OBVIOUS
    <2>4. page \in [Items -> Nat] /\ lastDownloadCount \in [Items -> Nat]
      OBVIOUS
    <2>5. image \in [Launches -> {"off", "launched", "loop", "load", "reload",
                                 "switch", "choose"}]
      OBVIOUS
    <2>6. search \in [Launches -> {"off", "launched", "loop", "trigger", "connect",
                                  "parse", "links", "adding", "check", "results"}]
      OBVIOUS
    <2> QED BY <2>1, <2>2, <2>3, <2>4, <2>5, <2>6 DEF TypeOK
  <1>2. ItemChosen /\ Served /\ Connecting /\ Launching
    BY DEF ItemChosen, Served, Connecting, Launching
  <1>3. AllInTurn /\ Unserved
    BY DEF AllInTurn, Unserved
  <1> QED BY <1>1, <1>2, <1>3 DEF IInv

(* A callback changes one client, whose thread runs. *)
LEMMA ClientFields ==
  ASSUME clients \in Seq(Client)
  PROVE  \A c \in 1 .. Len(clients) :
           /\ clients[c] \in Client
           /\ clients[c].owner \in Launches
           /\ clients[c].item \in Items
           /\ clients[c].links \in 0 .. MaxLinks
           /\ clients[c].reported \in 0 .. MaxLinks
           /\ clients[c].downloadCount \in 0 .. MaxLinks
  <1>1. \A c \in 1 .. Len(clients) : clients[c] \in Client
    OBVIOUS
  <1> QED BY <1>1 DEF Client

LEMMA CallbackKeeps ==
  ASSUME clients \in Seq(Client), AllInTurn, Unserved, Connecting,
         NEW c \in 1 .. Len(clients), NEW d \in Client,
         clients' = [clients EXCEPT ![c] = d],
         d.owner = clients[c].owner, InTurn(d),
         \A l \in Launches : search'[l] \in {"off", "launched", "connect"} =>
           l # d.owner /\ search[l] = search'[l]
  PROVE  AllInTurn' /\ Unserved' /\ Connecting'
  <1>1. /\ clients' \in Seq(Client)
        /\ Len(clients') = Len(clients)
        /\ clients'[c] = d
        /\ \A k \in 1 .. Len(clients) : k # c => clients'[k] = clients[k]
    BY OneClientChanges
  <1>2. AllInTurn'
    BY <1>1 DEF AllInTurn
  <1>3. \A k \in 1 .. Len(clients) : clients[k].owner \in Launches
    BY ClientFields
  <1>4. Unserved'
    BY <1>1, <1>3 DEF Unserved
  <1>5. ASSUME NEW l \in Launches, search'[l] = "connect"
        PROVE  /\ clients' # <<>>
               /\ clients'[Len(clients')] = clients[Len(clients)]
               /\ search[l] = "connect"
    <2>1. search[l] = "connect" /\ l # d.owner
      BY <1>5
    <2>2. clients # <<>> /\ clients[Len(clients)].owner = l
      BY <2>1 DEF Connecting
    <2>3. Len(clients) \in 1 .. Len(clients) /\ Len(clients) # c
      BY <2>1, <2>2
    <2>4. clients' # <<>>
      <3>1. Len(clients) # 0
        BY <2>3
      <3>2. Len(clients') # 0
        BY <1>1, <3>1
      <3> QED BY <3>2
    <2> QED BY <1>1, <2>1, <2>3, <2>4
  <1>6. Connecting'
    BY <1>5 DEF Connecting
  <1> QED BY <1>2, <1>4, <1>6

(* A thread that asks for the song is one of those that exist. *)
LEMMA AsksType ==
  ASSUME TypeOK, NEW kind \in {"image", "search"}, NEW l \in Launches, NEW may,
         MayAsk(<<kind, l>>, may)
  PROVE  asking' \subseteq {"image", "search"} \X Launches
  BY DEF MayAsk, TypeOK

(* A cancel leaves nothing but less to do. *)
LEMMA QuietedKeeps ==
  ASSUME IInv, AllQuieter, UNCHANGED <<search, serving>>, ~Synchronized
  PROVE  Served' /\ AllInTurn' /\ Unserved' /\ Connecting'
  <1>1. \A c \in 1 .. Len(clients) :
          clients[c] \in Client /\ clients'[c] \in Client
    BY DEF IInv, TypeOK, AllQuieter
  <1>2. /\ Len(clients') = Len(clients)
        /\ \A c \in 1 .. Len(clients) :
             /\ clients'[c].owner = clients[c].owner
             /\ InTurn(clients[c]) => InTurn(clients'[c])
             /\ Quiet(clients[c]) => Quiet(clients'[c])
             /\ AtPage(clients[c]) => AtPage(clients'[c])
    BY <1>1, QuieterKeeps DEF AllQuieter
  <1>3. Served'
    BY <1>2 DEF IInv, Served
  <1>4. Connecting'
    BY DEF Synchronized, Connecting
  <1> QED BY <1>2, <1>3, <1>4 DEF IInv, AllInTurn, Unserved

LEMMA NextIInv == IInv /\ [Next]_vars => IInv'
  <1> SUFFICES ASSUME IInv, [Next]_vars PROVE IInv'
    OBVIOUS
  <1> USE ManagerAssumption
      DEF IInv, viewVars, itemVars, countVars, ImageGoes, SearchGoes
  <1>1. CASE StartAnimation
    BY <1>1
    DEF StartAnimation, TypeOK, ItemChosen, Served, AllInTurn,
        Unserved, Connecting, Launching
  <1>29. CASE StartManager
    BY <1>29
    DEF StartManager, UncancelManager, TypeOK, ItemChosen, Served, AllInTurn,
        Unserved, Connecting, Launching
  <1>2. CASE StartThreads
    BY <1>2
    DEF StartThreads, TypeOK, ItemChosen, Served, AllInTurn,
        Unserved, Connecting, Launching
  <1>3. CASE StopAnimation
    BY <1>3
    DEF StopAnimation, TypeOK, ItemChosen, Served, AllInTurn,
        Unserved, Connecting, Launching
  <1>4. CASE StopManager
    <2>1. AllQuieter
      BY <1>4, CancelQuiets DEF StopManager, TypeOK
    <2>2. /\ canceled' = TRUE /\ main' = "waiting"
          /\ UNCHANGED <<viewCanceled, isImageCheckRunning, isSearchCheckRunning, image,
                 search, serving, transfering, imageArray, itemVars, countVars, asking>>
      BY <1>4 DEF StopManager, CancelManager
    <2>3. TypeOK'
      BY <2>1, <2>2 DEF TypeOK, AllQuieter
    <2>4. Served' /\ AllInTurn' /\ Unserved' /\ Connecting'
      BY <1>4, <2>1, <2>2, QuietedKeeps DEF StopManager
    <2> QED BY <2>2, <2>3, <2>4 DEF ItemChosen, Launching
  <1>5. CASE ThreadsFinished
    BY <1>5
    DEF ThreadsFinished, TypeOK, ItemChosen, Served, AllInTurn,
        Unserved, Connecting, Launching
  <1>6. CASE GiveUp
    BY <1>6
    DEF GiveUp, TypeOK, ItemChosen, Served, AllInTurn,
        Unserved, Connecting, Launching
  <1>7. ASSUME NEW l \in Launches, ImageThreadBegins(l) PROVE IInv'
    BY <1>7
    DEF ImageThreadBegins, TypeOK, ItemChosen, Served, AllInTurn,
        Unserved, Connecting, Launching
  <1>8. ASSUME NEW l \in Launches, ReloadCache(l) PROVE IInv'
    <2>1. asking' \subseteq {"image", "search"} \X Launches
      BY <1>8, AsksType DEF ReloadCache
    <2> QED BY <1>8, <2>1
      DEF ReloadCache, TypeOK, ItemChosen, Served, AllInTurn,
          Unserved, Connecting, Launching
  <1>30. ASSUME NEW l \in Launches, ReloadCancels(l) PROVE IInv'
    <2>1. AllQuieter
      BY <1>30, CancelQuiets DEF ReloadCancels, TypeOK
    <2>2. /\ canceled' = TRUE /\ image' = [image EXCEPT ![l] = "reload"]
          /\ UNCHANGED <<viewVars, search, serving, transfering, imageArray,
                         itemVars, countVars, asking>>
      BY <1>30 DEF ReloadCancels, CancelManager
    <2>3. TypeOK'
      BY <2>1, <2>2 DEF TypeOK, AllQuieter
    <2>4. Served' /\ AllInTurn' /\ Unserved' /\ Connecting'
      BY <1>30, <2>1, <2>2, QuietedKeeps DEF ReloadCancels
    <2> QED BY <2>2, <2>3, <2>4 DEF ItemChosen, Launching, TypeOK
  <1>9. ASSUME NEW l \in Launches, ReloadEnds(l) PROVE IInv'
    BY <1>9
    DEF ReloadEnds, UncancelManager, TypeOK, ItemChosen, Served, AllInTurn,
        Unserved, Connecting, Launching
  <1>10. ASSUME NEW l \in Launches, CheckType(l) PROVE IInv'
    BY <1>10
    DEF CheckType, TypeOK, ItemChosen, Served, AllInTurn,
        Unserved, Connecting, Launching
  <1>31. ASSUME NEW l \in Launches, BeginChoice(l) PROVE IInv'
    <2>1. asking' \subseteq {"image", "search"} \X Launches
      BY <1>31, AsksType DEF BeginChoice
    <2> QED BY <1>31, <2>1
      DEF BeginChoice, TypeOK, ItemChosen, Served, AllInTurn,
          Unserved, Connecting, Launching
  <1>11. ASSUME NEW l \in Launches, CheckSearchItem(l) PROVE IInv'
    BY <1>11
    DEF CheckSearchItem, TypeOK, ItemChosen, Served, AllInTurn,
        Unserved, Connecting, Launching
  <1>12. ASSUME NEW l \in Launches, GetFromImageArray(l) PROVE IInv'
    BY <1>12
    DEF GetFromImageArray, TypeOK, ItemChosen, Served, AllInTurn,
        Unserved, Connecting, Launching
  <1>13. ASSUME NEW l \in Launches, ImageThreadEnds(l) PROVE IInv'
    BY <1>13
    DEF ImageThreadEnds, TypeOK, ItemChosen, Served, AllInTurn,
        Unserved, Connecting, Launching
  <1>14. ASSUME NEW l \in Launches, SearchThreadBegins(l) PROVE IInv'
    BY <1>14
    DEF SearchThreadBegins, TypeOK, ItemChosen, Served, AllInTurn,
        Unserved, Connecting, Launching
  <1>15. ASSUME NEW l \in Launches, CheckSearch(l) PROVE IInv'
    BY <1>15
    DEF CheckSearch, TypeOK, ItemChosen, Served, AllInTurn,
        Unserved, Connecting, Launching
  <1>16. ASSUME NEW l \in Launches, TriggerSearch(l) PROVE IInv'
    <2>1. CASE search' = [search EXCEPT ![l] = "loop"]
      <3>1. /\ search[l] = "trigger"
            /\ imagesDownloaded' \in {0, imagesDownloaded}
            /\ UNCHANGED <<viewVars, image, serving, canceled, transfering, clients,
                           imageArray, itemVars, transferImageCount, asking>>
        BY <1>16, <2>1 DEF TriggerSearch, TypeOK
      <3>2. TypeOK'
        BY <2>1, <3>1 DEF TypeOK
      <3> QED BY <2>1, <3>1, <3>2
        DEF TypeOK, ItemChosen, Served, AllInTurn, Unserved, Connecting, Launching
    <2>2. CASE search' = [search EXCEPT ![l] = "connect"]
      <3> DEFINE new == NewClient(l)
      <3>1. /\ search[l] = "trigger" /\ ~Synchronized
            /\ clients' = Append(clients, new)
            /\ imagesDownloaded' = 0
            /\ MayAsk(<<"search", l>>, currentSearchItem \in ITunes)
            /\ UNCHANGED <<viewVars, image, serving, canceled, transfering,
                           imageArray, itemVars, transferImageCount>>
        BY <1>16, <2>2 DEF TriggerSearch, TypeOK
      <3>2. /\ new \in Client /\ new.owner = l /\ InTurn(new)
            /\ new.conn = "none" /\ new.batch = "none"
        BY <3>1 DEF NewClient, Client, ItemChosen, TypeOK, InTurn
      <3> HIDE DEF new
      <3>3. /\ clients' \in Seq(Client)
            /\ Len(clients') = Len(clients) + 1
            /\ clients'[Len(clients) + 1] = new
            /\ \A c \in 1 .. Len(clients) : clients'[c] = clients[c]
        BY <3>1, <3>2 DEF TypeOK
      <3>4. TypeOK'
        <4>1. asking' \subseteq {"image", "search"} \X Launches
          BY <3>1, AsksType
        <4>2. serving' \in [Launches -> 0 .. Len(clients')]
          BY <3>1, <3>3 DEF TypeOK
        <4> QED BY <2>2, <3>1, <3>3, <4>1, <4>2 DEF TypeOK
      <3>5. ItemChosen' /\ Launching'
        BY <2>2, <3>1 DEF ItemChosen, Launching, TypeOK
      <3>6. Len(clients) \in Nat
        BY DEF TypeOK
      <3>7. Served'
        BY <2>2, <3>1, <3>3, <3>6 DEF Served, TypeOK
      <3>8. AllInTurn'
        BY <3>2, <3>3, <3>6 DEF AllInTurn
      <3>9. \A m \in Launches : search'[m] \in {"off", "launched"} =>
              search[m] \in {"off", "launched"} /\ m # l
        BY <2>2 DEF TypeOK
      <3>10. \A c \in 1 .. Len(clients) : clients[c].owner \in Launches
        BY ClientFields DEF TypeOK
      <3>11. Unserved'
        BY <3>2, <3>3, <3>6, <3>9, <3>10 DEF Unserved
      <3>12. Connecting'
        <4>1. \A m \in Launches : search'[m] = "connect" => m = l
          BY <2>2, <3>1 DEF Synchronized, TypeOK
        <4>2. clients' # <<>> /\ clients'[Len(clients')] = new
          BY <3>3, <3>6
        <4> QED BY <3>2, <4>1, <4>2 DEF Connecting
      <3> QED BY <3>4, <3>5, <3>7, <3>8, <3>11, <3>12
    <2> QED BY <1>16, <2>1, <2>2 DEF TriggerSearch
  <1>32. ASSUME NEW l \in Launches, Connect(l) PROVE IInv'
    <2> DEFINE n == Len(clients)
    <2>1. /\ search[l] = "connect" /\ search' = [search EXCEPT ![l] = "loop"]
          /\ transfering' \in BOOLEAN
          /\ UNCHANGED <<viewVars, image, serving, canceled, imageArray, itemVars,
                         countVars, asking>>
      BY <1>32 DEF Connect
    <2>2. /\ clients \in Seq(Client) /\ n \in 1 .. Len(clients) /\ clients[n] \in Client
          /\ clients[n].owner = l /\ clients[n].batch = "none"
      BY <2>1 DEF Connecting, TypeOK
    <2>3. \A m \in Launches : m # l => search'[m] = search[m]
      BY <2>1 DEF TypeOK
    <2>4. CASE UNCHANGED clients
      BY <2>1, <2>4
        DEF TypeOK, ItemChosen, Served, AllInTurn, Unserved, Connecting, Launching
    <2>5. CASE clients' = [clients EXCEPT ![Len(clients)].conn = "loading"]
      <3> DEFINE d == [clients[n] EXCEPT !.conn = "loading"]
      <3>1. clients' = [clients EXCEPT ![n] = d]
        BY <2>5
      <3>2. d \in Client /\ d.owner = l /\ InTurn(d)
        BY <2>2 DEF Client, InTurn, AllInTurn
      <3> HIDE DEF d, n
      <3>3. /\ clients' \in Seq(Client) /\ Len(clients') = Len(clients)
            /\ \A k \in 1 .. Len(clients) : k # n => clients'[k] = clients[k]
        BY <2>2, <3>1, <3>2, OneClientChanges
      <3>4. TypeOK'
        BY <2>1, <3>3 DEF TypeOK
      <3>5. ItemChosen' /\ Launching'
        BY <2>1, <2>3 DEF ItemChosen, Launching
      <3>6. AllInTurn' /\ Unserved' /\ Connecting'
        <4>1. \A m \in Launches : search'[m] \in {"off", "launched", "connect"} =>
                m # l /\ search[m] = search'[m]
          BY <2>1, <2>3 DEF TypeOK
        <4> QED BY <2>2, <3>1, <3>2, <4>1, CallbackKeeps
      <3>7. Served'
        <4>1. ASSUME NEW m \in Launches, search'[m] \in {"parse", "links", "adding", "check"}
              PROVE  m # l /\ search[m] = search'[m] /\ serving'[m] = serving[m]
          BY <2>1, <2>3, <4>1 DEF TypeOK
        <4> QED BY <2>2, <3>1, <3>2, <3>3, <4>1 DEF Served
      <3> QED BY <3>4, <3>5, <3>6, <3>7
    <2> QED BY <1>32, <2>4, <2>5 DEF Connect
  <1>17. ASSUME NEW l \in Launches, SearchThreadEnds(l) PROVE IInv'
    <2>1. \A c \in 1 .. Len(clients) : clients[c] \in Client
      BY DEF TypeOK
    <2>2. \A c \in 1 .. Len(clients) : Silenced(clients[c], "lost") \in Client
      BY <2>1, SilencedType
    <2>3. clients' \in Seq(Client) /\ Len(clients') = Len(clients)
      BY <1>17, <2>1, <2>2 DEF SearchThreadEnds
    <2>4. ASSUME NEW c \in 1 .. Len(clients)
          PROVE  /\ Quieter(clients'[c], clients[c])
                 /\ clients[c].owner = l => Quiet(clients'[c])
      BY <1>17, <2>1, SilencedType DEF SearchThreadEnds, Quieter, Quiet
    <2>5. /\ search' = [search EXCEPT ![l] = "off"] /\ search[l] = "loop"
          /\ serving' = [serving EXCEPT ![l] = 0] /\ isSearchCheckRunning' = FALSE
          /\ UNCHANGED <<main, viewCanceled, isImageCheckRunning, image, canceled,
                         transfering, imageArray, itemVars, countVars, asking>>
      BY <1>17 DEF SearchThreadEnds
    <2>6. TypeOK'
      <3>1. serving' \in [Launches -> 0 .. Len(clients')]
        BY <2>3, <2>5 DEF TypeOK
      <3> QED BY <2>3, <2>5, <3>1 DEF TypeOK
    <2>7. ItemChosen' /\ Launching'
      BY <2>5 DEF ItemChosen, Launching, TypeOK
    <2>8. AllQuieter
      BY <2>3, <2>4 DEF AllQuieter
    <2>9. \A c \in 1 .. Len(clients) : clients'[c] \in Client
      BY <2>3
    <2>10. Served'
      BY <2>1, <2>3, <2>4, <2>5, <2>9, QuieterKeeps DEF Served, TypeOK
    <2>11. AllInTurn'
      BY <2>1, <2>3, <2>4, <2>9, QuieterKeeps DEF AllInTurn
    <2>12. Unserved'
      <3>1. \A m \in Launches : search'[m] \in {"off", "launched"} =>
              search[m] \in {"off", "launched"} \/ m = l
        BY <2>5 DEF TypeOK
      <3>2. ASSUME NEW c \in 1 .. Len(clients),
                   search'[clients'[c].owner] \in {"off", "launched"}
            PROVE  Quiet(clients'[c])
        <4>1. clients'[c].owner = clients[c].owner /\ clients[c].owner \in Launches
          BY <2>1, <2>4, <2>9, QuieterKeeps, ClientFields DEF TypeOK
        <4>2. CASE clients[c].owner = l
          BY <2>4, <4>2
        <4>3. CASE clients[c].owner # l
          BY <2>1, <2>4, <2>9, <3>1, <3>2, <4>1, <4>3, QuieterKeeps DEF Unserved
        <4> QED BY <4>2, <4>3
      <3> QED BY <2>3, <3>2 DEF Unserved
    <2>13. Connecting'
      <3>1. \A m \in Launches : search'[m] = "connect" => search[m] = "connect" /\ m # l
        BY <2>5 DEF TypeOK
      <3>2. ASSUME NEW c \in 1 .. Len(clients), clients[c].owner # l
            PROVE  clients'[c] = clients[c]
        BY <1>17, <3>2 DEF SearchThreadEnds
      <3>3. clients # <<>> => clients' # <<>> /\ Len(clients) \in 1 .. Len(clients)
        BY <2>3 DEF TypeOK
      <3> QED BY <2>3, <3>1, <3>2, <3>3 DEF Connecting
    <2> QED BY <2>6, <2>7, <2>10, <2>11, <2>12, <2>13
  <1>18. ASSUME NEW l \in Launches, NEW c \in 1 .. Len(clients), SearchFails(l, c)
        PROVE  IInv'
    <2>1. c \in 1 .. Len(clients) /\ clients[c] \in Client
      BY <1>18 DEF TypeOK, SearchFails, Served
    <2>2. /\ search[l] = "loop" /\ clients[c].owner = l
          /\ clients[c].conn = "loading"
      BY <1>18 DEF SearchFails, Served
    <2>3. /\ transfering' = FALSE
          /\ UNCHANGED <<viewVars, image, search, serving, canceled, imageArray,
                         itemVars, countVars, asking>>
      BY <1>18 DEF SearchFails
    <2> DEFINE d == [clients[c] EXCEPT !.conn = "ended"]
    <2>12. InTurn(clients[c])
      BY <2>1 DEF AllInTurn
    <2>4. /\ d \in Client /\ d.owner = l /\ InTurn(d)
          /\ d.item = clients[c].item
      BY <2>1, <2>2, <2>3, <2>12 DEF Client, InTurn, AtPage
    <2>5. clients' = [clients EXCEPT ![c] = d]
      BY <1>18, <2>1, <2>3 DEF SearchFails
    <2> HIDE DEF d
    <2>6. clients \in Seq(Client)
      BY DEF TypeOK
    <2>7. /\ clients' \in Seq(Client)
          /\ Len(clients') = Len(clients)
          /\ clients'[c] = d
          /\ \A k \in 1 .. Len(clients) : k # c => clients'[k] = clients[k]
      BY <2>1, <2>4, <2>5, <2>6, OneClientChanges
    <2>8. TypeOK'
      BY <2>1, <2>2, <2>3, <2>7 DEF TypeOK
    <2>9. ItemChosen' /\ Launching'
      BY <2>2, <2>3 DEF ItemChosen, Launching, TypeOK
    <2>10. AllInTurn' /\ Unserved' /\ Connecting'
      <3>1. \A m \in Launches : search'[m] \in {"off", "launched", "connect"} =>
              m # l /\ search[m] = search'[m]
        BY <2>2, <2>3 DEF TypeOK
      <3> QED BY <2>1, <2>2, <2>4, <2>5, <2>6, <3>1, CallbackKeeps
    <2>11. Served'
      BY <2>1, <2>2, <2>3, <2>4, <2>7 DEF Served, TypeOK
    <2> QED BY <2>8, <2>9, <2>10, <2>11
  <1>19. ASSUME NEW l \in Launches, NEW c \in 1 .. Len(clients), SearchLoads(l, c)
        PROVE  IInv'
    <2>1. c \in 1 .. Len(clients) /\ clients[c] \in Client
      BY <1>19 DEF TypeOK, SearchLoads, Served
    <2>2. /\ search[l] = "loop" /\ clients[c].owner = l
          /\ clients[c].conn = "loading"
      BY <1>19 DEF SearchLoads, Served
    <2>3. /\ search' = [search EXCEPT ![l] = "parse"]
          /\ serving' = [serving EXCEPT ![l] = c]
          /\ asking' \subseteq {"image", "search"} \X Launches
          /\ UNCHANGED <<viewVars, image, canceled, transfering, imageArray,
                         itemVars, countVars>>
      BY <1>19, AsksType DEF SearchLoads
    <2> DEFINE d == [clients[c] EXCEPT !.conn = "ended"]
    <2>12. InTurn(clients[c])
      BY <2>1 DEF AllInTurn
    <2>4. /\ d \in Client /\ d.owner = l /\ InTurn(d)
          /\ AtPage(d)
      BY <2>1, <2>2, <2>3, <2>12 DEF Client, InTurn, AtPage
    <2>5. clients' = [clients EXCEPT ![c] = d]
      BY <1>19, <2>1, <2>3 DEF SearchLoads
    <2> HIDE DEF d
    <2>6. clients \in Seq(Client)
      BY DEF TypeOK
    <2>7. /\ clients' \in Seq(Client)
          /\ Len(clients') = Len(clients)
          /\ clients'[c] = d
          /\ \A k \in 1 .. Len(clients) : k # c => clients'[k] = clients[k]
      BY <2>1, <2>4, <2>5, <2>6, OneClientChanges
    <2>8. TypeOK'
      BY <2>1, <2>2, <2>3, <2>7 DEF TypeOK
    <2>9. ItemChosen' /\ Launching'
      BY <2>2, <2>3 DEF ItemChosen, Launching, TypeOK
    <2>10. AllInTurn' /\ Unserved' /\ Connecting'
      <3>1. \A m \in Launches : search'[m] \in {"off", "launched", "connect"} =>
              m # l /\ search[m] = search'[m]
        BY <2>2, <2>3 DEF TypeOK
      <3> QED BY <2>1, <2>2, <2>4, <2>5, <2>6, <3>1, CallbackKeeps
    <2>11. Served'
      BY <2>1, <2>2, <2>3, <2>4, <2>7 DEF Served, TypeOK
    <2> QED BY <2>8, <2>9, <2>10, <2>11
  <1>20. ASSUME NEW l \in Launches, NEW c \in 1 .. Len(clients), DidFinishDownload(l, c)
        PROVE  IInv'
    <2>1. c \in 1 .. Len(clients) /\ clients[c] \in Client
      BY <1>20 DEF TypeOK, DidFinishDownload, Served
    <2>2. /\ search[l] = "loop" /\ clients[c].owner = l
          /\ clients[c].batch = "running" /\ clients[c].reported < clients[c].links
      BY <1>20 DEF DidFinishDownload, Served, Downloading
    <2>3. /\ search' = [search EXCEPT ![l] = "adding"]
          /\ serving' = [serving EXCEPT ![l] = c]
          /\ imagesDownloaded' = imagesDownloaded + 1
          /\ UNCHANGED <<viewVars, image, canceled, transfering, imageArray,
                         itemVars, transferImageCount, asking>>
      BY <1>20 DEF DidFinishDownload, Downloading
    <2> DEFINE d == [clients[c] EXCEPT !.reported = @ + 1, !.downloadCount = @ + 1]
    <2>12. InTurn(clients[c])
      BY <2>1 DEF AllInTurn
    <2>4. /\ d \in Client /\ d.owner = l /\ InTurn(d)
          /\ d.item = clients[c].item
      <3>1. /\ clients[c].reported + 1 \in 0 .. MaxLinks
            /\ clients[c].downloadCount + 1 \in 0 .. MaxLinks
        BY <2>1, <2>2, <2>12 DEF Client, InTurn
      <3>2. d \in Client
        BY <2>1, <3>1 DEF Client
      <3> QED BY <2>1, <2>2, <2>12, <3>2 DEF Client, InTurn
    <2>5. clients' = [clients EXCEPT ![c] = d]
      BY <1>20, <2>1, <2>3 DEF DidFinishDownload, Downloading
    <2> HIDE DEF d
    <2>6. clients \in Seq(Client)
      BY DEF TypeOK
    <2>7. /\ clients' \in Seq(Client)
          /\ Len(clients') = Len(clients)
          /\ clients'[c] = d
          /\ \A k \in 1 .. Len(clients) : k # c => clients'[k] = clients[k]
      BY <2>1, <2>4, <2>5, <2>6, OneClientChanges
    <2>8. TypeOK'
      BY <2>1, <2>2, <2>3, <2>7 DEF TypeOK
    <2>9. ItemChosen' /\ Launching'
      BY <2>2, <2>3 DEF ItemChosen, Launching, TypeOK
    <2>10. AllInTurn' /\ Unserved' /\ Connecting'
      <3>1. \A m \in Launches : search'[m] \in {"off", "launched", "connect"} =>
              m # l /\ search[m] = search'[m]
        BY <2>2, <2>3 DEF TypeOK
      <3> QED BY <2>1, <2>2, <2>4, <2>5, <2>6, <3>1, CallbackKeeps
    <2>11. Served'
      BY <2>1, <2>2, <2>3, <2>4, <2>7 DEF Served, TypeOK
    <2> QED BY <2>8, <2>9, <2>10, <2>11
  <1>21. ASSUME NEW l \in Launches, NEW c \in 1 .. Len(clients), DidErrorOnDownload(l, c)
        PROVE  IInv'
    <2>1. c \in 1 .. Len(clients) /\ clients[c] \in Client
      BY <1>21 DEF TypeOK, DidErrorOnDownload, Served
    <2>2. /\ search[l] = "loop" /\ clients[c].owner = l
          /\ clients[c].batch = "running" /\ clients[c].reported < clients[c].links
      BY <1>21 DEF DidErrorOnDownload, Served, Downloading
    <2>3. /\ search' = [search EXCEPT ![l] = "check"]
          /\ serving' = [serving EXCEPT ![l] = c]
          /\ UNCHANGED <<viewVars, image, canceled, transfering, imageArray,
                         itemVars, countVars, asking>>
      BY <1>21 DEF DidErrorOnDownload, Downloading
    <2> DEFINE d == [clients[c] EXCEPT !.reported = @ + 1]
    <2>12. InTurn(clients[c])
      BY <2>1 DEF AllInTurn
    <2>4. /\ d \in Client /\ d.owner = l /\ InTurn(d)
          /\ d.item = clients[c].item
      BY <2>1, <2>2, <2>3, <2>12 DEF Client, InTurn, AtPage
    <2>5. clients' = [clients EXCEPT ![c] = d]
      BY <1>21, <2>1, <2>3 DEF DidErrorOnDownload, Downloading
    <2> HIDE DEF d
    <2>6. clients \in Seq(Client)
      BY DEF TypeOK
    <2>7. /\ clients' \in Seq(Client)
          /\ Len(clients') = Len(clients)
          /\ clients'[c] = d
          /\ \A k \in 1 .. Len(clients) : k # c => clients'[k] = clients[k]
      BY <2>1, <2>4, <2>5, <2>6, OneClientChanges
    <2>8. TypeOK'
      BY <2>1, <2>2, <2>3, <2>7 DEF TypeOK
    <2>9. ItemChosen' /\ Launching'
      BY <2>2, <2>3 DEF ItemChosen, Launching, TypeOK
    <2>10. AllInTurn' /\ Unserved' /\ Connecting'
      <3>1. \A m \in Launches : search'[m] \in {"off", "launched", "connect"} =>
              m # l /\ search[m] = search'[m]
        BY <2>2, <2>3 DEF TypeOK
      <3> QED BY <2>1, <2>2, <2>4, <2>5, <2>6, <3>1, CallbackKeeps
    <2>11. Served'
      BY <2>1, <2>2, <2>3, <2>4, <2>7 DEF Served, TypeOK
    <2> QED BY <2>8, <2>9, <2>10, <2>11
  <1>22. ASSUME NEW l \in Launches, DidFinishSearch(l) PROVE IInv'
    <2>1. serving[l] \in 1 .. Len(clients) /\ clients[serving[l]] \in Client
      BY <1>22 DEF TypeOK, DidFinishSearch, Served
    <2>2. /\ search[l] = "parse" /\ clients[serving[l]].owner = l
          /\ AtPage(clients[serving[l]])
      BY <1>22 DEF DidFinishSearch, Served
    <2>3. /\ search' = [search EXCEPT ![l] = "links"]
          /\ transferImageCount' \in 0 .. MaxLinks
          /\ transfering' = (transfering /\ transferImageCount' > 0)
          /\ UNCHANGED <<viewVars, image, serving, canceled, imageArray,
                         itemVars, imagesDownloaded, asking>>
      BY <1>22 DEF DidFinishSearch
    <2> DEFINE d == [clients[serving[l]] EXCEPT !.links = transferImageCount']
    <2>12. InTurn(clients[serving[l]])
      BY <2>1 DEF AllInTurn
    <2>4. /\ d \in Client /\ d.owner = l /\ InTurn(d)
          /\ AtPage(d)
      BY <2>1, <2>2, <2>3, <2>12 DEF Client, InTurn, AtPage
    <2>5. clients' = [clients EXCEPT ![serving[l]] = d]
      BY <1>22, <2>1, <2>3 DEF DidFinishSearch
    <2> HIDE DEF d
    <2>6. clients \in Seq(Client)
      BY DEF TypeOK
    <2>7. /\ clients' \in Seq(Client)
          /\ Len(clients') = Len(clients)
          /\ clients'[serving[l]] = d
          /\ \A k \in 1 .. Len(clients) : k # serving[l] => clients'[k] = clients[k]
      BY <2>1, <2>4, <2>5, <2>6, OneClientChanges
    <2>8. TypeOK'
      BY <2>1, <2>2, <2>3, <2>7 DEF TypeOK
    <2>9. ItemChosen' /\ Launching'
      BY <2>2, <2>3 DEF ItemChosen, Launching, TypeOK
    <2>10. AllInTurn' /\ Unserved' /\ Connecting'
      <3>1. \A m \in Launches : search'[m] \in {"off", "launched", "connect"} =>
              m # l /\ search[m] = search'[m]
        BY <2>2, <2>3 DEF TypeOK
      <3> QED BY <2>1, <2>2, <2>4, <2>5, <2>6, <3>1, CallbackKeeps
    <2>11. Served'
      BY <2>1, <2>2, <2>3, <2>4, <2>7 DEF Served, TypeOK
    <2> QED BY <2>8, <2>9, <2>10, <2>11
  <1>23. ASSUME NEW l \in Launches, StartDownloads(l) PROVE IInv'
    <2>1. serving[l] \in 1 .. Len(clients) /\ clients[serving[l]] \in Client
      BY <1>23 DEF TypeOK, StartDownloads, Served
    <2>2. /\ search[l] = "links" /\ clients[serving[l]].owner = l
          /\ AtPage(clients[serving[l]])
      BY <1>23 DEF StartDownloads, Served
    <2>3. /\ search' = [search EXCEPT ![l] = "loop"]
          /\ UNCHANGED <<viewVars, image, serving, canceled, transfering,
                         imageArray, itemVars, countVars, asking>>
      BY <1>23 DEF StartDownloads
    <2> DEFINE d == [clients[serving[l]] EXCEPT !.batch = "running"]
    <2>12. InTurn(clients[serving[l]])
      BY <2>1 DEF AllInTurn
    <2>4. /\ d \in Client /\ d.owner = l /\ InTurn(d)
          /\ d.item = clients[serving[l]].item
      BY <2>1, <2>2, <2>3, <2>12 DEF Client, InTurn, AtPage
    <2>5. clients' = [clients EXCEPT ![serving[l]] = d]
      BY <1>23, <2>1, <2>3 DEF StartDownloads
    <2> HIDE DEF d
    <2>6. clients \in Seq(Client)
      BY DEF TypeOK
    <2>7. /\ clients' \in Seq(Client)
          /\ Len(clients') = Len(clients)
          /\ clients'[serving[l]] = d
          /\ \A k \in 1 .. Len(clients) : k # serving[l] => clients'[k] = clients[k]
      BY <2>1, <2>4, <2>5, <2>6, OneClientChanges
    <2>8. TypeOK'
      BY <2>1, <2>2, <2>3, <2>7 DEF TypeOK
    <2>9. ItemChosen' /\ Launching'
      BY <2>2, <2>3 DEF ItemChosen, Launching, TypeOK
    <2>10. AllInTurn' /\ Unserved' /\ Connecting'
      <3>1. \A m \in Launches : search'[m] \in {"off", "launched", "connect"} =>
              m # l /\ search[m] = search'[m]
        BY <2>2, <2>3 DEF TypeOK
      <3> QED BY <2>1, <2>2, <2>4, <2>5, <2>6, <3>1, CallbackKeeps
    <2>11. Served'
      BY <2>1, <2>2, <2>3, <2>4, <2>7 DEF Served, TypeOK
    <2> QED BY <2>8, <2>9, <2>10, <2>11
  <1>24. ASSUME NEW l \in Launches, NotFinished(l) PROVE IInv'
    BY <1>24
    DEF NotFinished, TypeOK, ItemChosen, Served, AllInTurn,
        Unserved, Connecting, Launching
  <1>25. ASSUME NEW l \in Launches, DidFinishDownloads(l) PROVE IInv'
    <2>1. /\ search[l] = "check" /\ search' = [search EXCEPT ![l] = "results"]
          /\ transfering' = FALSE
          /\ UNCHANGED <<viewVars, image, serving, canceled, imageArray, clients,
                         currentSearchItem, page, countVars, asking>>
      BY <1>25 DEF DidFinishDownloads
    <2>2. lastDownloadCount' \in [Items -> Nat]
      BY <1>25 DEF DidFinishDownloads, TypeOK
    <2>3. TypeOK'
      BY <2>1, <2>2 DEF TypeOK
    <2> QED BY <2>1, <2>3
      DEF TypeOK, ItemChosen, Served, AllInTurn, Unserved, Connecting, Launching
  <1>26. ASSUME NEW l \in Launches, CheckResults(l) PROVE IInv'
    <2>1. /\ search[l] = "results" /\ search' = [search EXCEPT ![l] = "loop"]
          /\ UNCHANGED <<viewVars, image, serving, canceled, transfering, imageArray,
                 clients, currentSearchItem, lastDownloadCount, countVars, asking>>
      BY <1>26 DEF CheckResults
    <2>2. page' \in [Items -> Nat]
      <3>1. page' = [page EXCEPT ![currentSearchItem] = @ + 1]
        BY <1>26 DEF CheckResults
      <3>2. page \in [Items -> Nat]
        BY DEF TypeOK
      <3>3. \A i \in Items : page[i] \in Nat /\ page[i] + 1 \in Nat
        BY <3>2
      <3>4. page' = [i \in Items |->
                      IF i = currentSearchItem THEN page[i] + 1 ELSE page[i]]
        BY <3>1, <3>2
      <3> QED BY <3>3, <3>4
    <2>3. TypeOK'
      BY <2>1, <2>2 DEF TypeOK
    <2> QED BY <2>1, <2>3
      DEF TypeOK, ItemChosen, Served, AllInTurn, Unserved, Connecting, Launching
  <1>27. ASSUME NEW l \in Launches, AddToImageArray(l) PROVE IInv'
    <2>1. /\ search[l] = "adding" /\ search' = [search EXCEPT ![l] = "check"]
          /\ UNCHANGED <<viewVars, image, serving, canceled, transfering, clients,
                 itemVars, countVars, asking>>
      BY <1>27 DEF AddToImageArray
    <2>2. clients[serving[l]] \in Client
      BY <2>1 DEF TypeOK, Served
    <2>3. imageArray' \subseteq Items
      BY <1>27, <2>2 DEF AddToImageArray, Client, TypeOK
    <2>4. TypeOK'
      BY <2>1, <2>3 DEF TypeOK
    <2> QED BY <2>1, <2>4
      DEF TypeOK, ItemChosen, Served, AllInTurn, Unserved, Connecting, Launching
  <1>28. CASE UNCHANGED vars
    BY <1>28
    DEF vars, TypeOK, ItemChosen, Served, AllInTurn, Unserved, Connecting, Launching
  <1>33. ASSUME NEW thread \in asking, Answer(thread) PROVE IInv'
    BY <1>33
    DEF Answer, TypeOK, ItemChosen, Served, AllInTurn, Unserved, Connecting, Launching
  <1> QED
    BY <1>1, <1>2, <1>3, <1>4, <1>5, <1>6, <1>7, <1>8, <1>9, <1>10, <1>11, <1>12, <1>13, <1>14, <1>15, <1>16, <1>17, <1>18, <1>19, <1>20, <1>21, <1>22, <1>23, <1>24, <1>25, <1>26, <1>27, <1>28, <1>29, <1>30, <1>31, <1>32, <1>33
    DEF Next, MainThread, ImageThread, SearchThread, Callback

(* Type correctness, for any number of threads, clients and links: also     *)
(* with launches left over and reloads.                                     *)
THEOREM TypeCorrect == Spec => []TypeOK
  <1>1. IInv => TypeOK
    BY DEF IInv
  <1> QED BY InitIInv, NextIInv, <1>1, PTL DEF Spec
-----------------------------------------------------------------------------
(* Nothing after a stop, in the view that waits for its threads. *)

LEMMA InitStopInv == Init => StopInv
  <1> SUFFICES ASSUME Init PROVE StopInv
    OBVIOUS
  <1>1. \A l \in Launches : image[l] = "off" /\ search[l] = "off"
    BY DEF Init
  <1>2. FlagsUp
    BY <1>1 DEF Init, FlagsUp
  <1>3. QuietStop
    BY <1>1 DEF Init, QuietStop, Active
  <1> QED BY <1>2, <1>3 DEF StopInv

LEMMA NextStopInv ==
  ASSUME ~GivesUp
  PROVE  IInv /\ OnePair /\ OnePair' /\ StopInv /\ [Next]_vars => StopInv'
  <1> SUFFICES ASSUME IInv, OnePair, OnePair', StopInv, [Next]_vars PROVE StopInv'
    OBVIOUS
  <1>0. IInv'
    BY NextIInv
  <1> USE DEF IInv, StopInv, viewVars, itemVars, countVars, ImageGoes, SearchGoes
  <1>1. CASE StartAnimation
    <2>1. FlagsUp'
      BY <1>1 DEF StartAnimation, FlagsUp, OnePair, Active, Launching, TypeOK
    <2>2. QuietStop'
      BY <1>1 DEF StartAnimation, QuietStop, FlagsUp, Active, Unserved, TypeOK
    <2> QED BY <2>1, <2>2
  <1>2. CASE StartThreads
    <2>1. FlagsUp'
      BY <1>2 DEF StartThreads, FlagsUp, OnePair, Active, Launching, TypeOK
    <2>2. QuietStop'
      BY <1>2 DEF StartThreads, QuietStop, FlagsUp, Active, Unserved, TypeOK
    <2> QED BY <2>1, <2>2
  <1>3. CASE StopAnimation
    <2>1. FlagsUp'
      BY <1>3 DEF StopAnimation, FlagsUp, OnePair, Active, Launching, TypeOK
    <2>2. QuietStop'
      BY <1>3 DEF StopAnimation, QuietStop, FlagsUp, Active, Unserved, TypeOK
    <2> QED BY <2>1, <2>2
  <1>4. CASE StopManager
    <2>1. FlagsUp'
      BY <1>4 DEF StopManager, FlagsUp, OnePair, Active, Launching, TypeOK
    <2>2. QuietStop'
      BY <1>4 DEF StopManager, QuietStop, FlagsUp, Active, Unserved, TypeOK
    <2> QED BY <2>1, <2>2
  <1>5. CASE ThreadsFinished
    <2>1. FlagsUp'
      BY <1>5 DEF ThreadsFinished, FlagsUp, OnePair, Active, Launching, TypeOK
    <2>2. \A l \in Launches : search[l] \in {"off", "launched"}
      BY <1>5 DEF ThreadsFinished, FlagsUp
    <2>3. \A c \in 1 .. Len(clients) : Quiet(clients[c])
      BY <2>2, ClientFields DEF Unserved, TypeOK
    <2>4. viewCanceled
      BY <1>5 DEF ThreadsFinished, QuietStop
    <2>5. search' = search /\ clients' = clients /\ viewCanceled' = viewCanceled
          /\ main' = "stopped"
      BY <1>5 DEF ThreadsFinished
    <2>6. QuietStop'
      BY <2>2, <2>3, <2>4, <2>5 DEF QuietStop
    <2> QED BY <2>1, <2>6
  <1>6. CASE GiveUp
    BY <1>6 DEF GiveUp
  <1>7. ASSUME NEW l \in Launches, ImageThreadBegins(l) PROVE StopInv'
    <2>1. FlagsUp'
      BY <1>7 DEF ImageThreadBegins, FlagsUp, OnePair, Active, Launching, TypeOK
    <2>2. QuietStop'
      BY <1>7 DEF ImageThreadBegins, QuietStop, FlagsUp, Active, Unserved, TypeOK
    <2> QED BY <2>1, <2>2
  <1>8. ASSUME NEW l \in Launches, ReloadCache(l) PROVE StopInv'
    <2>1. FlagsUp'
      BY <1>8 DEF ReloadCache, FlagsUp, OnePair, Active, Launching, TypeOK
    <2>2. QuietStop'
      BY <1>8 DEF ReloadCache, QuietStop, FlagsUp, Active, Unserved, TypeOK
    <2> QED BY <2>1, <2>2
  <1>9. ASSUME NEW l \in Launches, ReloadEnds(l) PROVE StopInv'
    <2>1. FlagsUp'
      BY <1>9 DEF ReloadEnds, FlagsUp, OnePair, Active, Launching, TypeOK
    <2>2. QuietStop'
      BY <1>9 DEF ReloadEnds, QuietStop, FlagsUp, Active, Unserved, TypeOK
    <2> QED BY <2>1, <2>2
  <1>10. ASSUME NEW l \in Launches, CheckType(l) PROVE StopInv'
    <2>1. FlagsUp'
      BY <1>10 DEF CheckType, FlagsUp, OnePair, Active, Launching, TypeOK
    <2>2. QuietStop'
      BY <1>10 DEF CheckType, QuietStop, FlagsUp, Active, Unserved, TypeOK
    <2> QED BY <2>1, <2>2
  <1>11. ASSUME NEW l \in Launches, CheckSearchItem(l) PROVE StopInv'
    <2>1. FlagsUp'
      BY <1>11 DEF CheckSearchItem, FlagsUp, OnePair, Active, Launching, TypeOK
    <2>2. QuietStop'
      BY <1>11 DEF CheckSearchItem, QuietStop, FlagsUp, Active, Unserved, TypeOK
    <2> QED BY <2>1, <2>2
  <1>12. ASSUME NEW l \in Launches, GetFromImageArray(l) PROVE StopInv'
    <2>1. FlagsUp'
      BY <1>12 DEF GetFromImageArray, FlagsUp, OnePair, Active, Launching, TypeOK
    <2>2. QuietStop'
      BY <1>12 DEF GetFromImageArray, QuietStop, FlagsUp, Active, Unserved, TypeOK
    <2> QED BY <2>1, <2>2
  <1>13. ASSUME NEW l \in Launches, ImageThreadEnds(l) PROVE StopInv'
    <2>1. FlagsUp'
      BY <1>13 DEF ImageThreadEnds, FlagsUp, OnePair, Active, Launching, TypeOK
    <2>2. QuietStop'
      BY <1>13 DEF ImageThreadEnds, QuietStop, FlagsUp, Active, Unserved, TypeOK
    <2> QED BY <2>1, <2>2
  <1>14. ASSUME NEW l \in Launches, SearchThreadBegins(l) PROVE StopInv'
    <2>1. FlagsUp'
      BY <1>14 DEF SearchThreadBegins, FlagsUp, OnePair, Active, Launching, TypeOK
    <2>2. QuietStop'
      BY <1>14 DEF SearchThreadBegins, QuietStop, FlagsUp, Active, Unserved, TypeOK
    <2> QED BY <2>1, <2>2
  <1>15. ASSUME NEW l \in Launches, CheckSearch(l) PROVE StopInv'
    <2>1. FlagsUp'
      BY <1>15 DEF CheckSearch, FlagsUp, OnePair, Active, Launching, TypeOK
    <2>2. QuietStop'
      BY <1>15 DEF CheckSearch, QuietStop, FlagsUp, Active, Unserved, TypeOK
    <2> QED BY <2>1, <2>2
  <1>16. ASSUME NEW l \in Launches, TriggerSearch(l) PROVE StopInv'
    <2>1. FlagsUp'
      <3>1. /\ search[l] = "trigger"
            /\ \/ search' = [search EXCEPT ![l] = "loop"]
               \/ search' = [search EXCEPT ![l] = "connect"]
            /\ UNCHANGED <<image, isImageCheckRunning, isSearchCheckRunning>>
        BY <1>16 DEF TriggerSearch
      <3> QED BY <3>1 DEF FlagsUp, TypeOK
    <2>2. QuietStop'
      BY <1>16 DEF TriggerSearch, QuietStop, FlagsUp, Active, Unserved, TypeOK
    <2> QED BY <2>1, <2>2
  <1>17. ASSUME NEW l \in Launches, SearchThreadEnds(l) PROVE StopInv'
    <2>1. FlagsUp'
      BY <1>17 DEF SearchThreadEnds, FlagsUp, OnePair, Active, Launching, TypeOK
    <2>2. /\ Len(clients') = Len(clients)
          /\ \A c \in 1 .. Len(clients) : Quiet(clients[c]) => Quiet(clients'[c])
      BY <1>17, ClientFields, SilencedType DEF SearchThreadEnds, TypeOK, Quiet
    <2>3. main' = main /\ viewCanceled' = viewCanceled /\ image' = image
          /\ search' = [search EXCEPT ![l] = "off"] /\ viewCanceled
      BY <1>17 DEF SearchThreadEnds
    <2>4. QuietStop'
      BY <2>2, <2>3 DEF QuietStop, TypeOK
    <2> QED BY <2>1, <2>4
  <1>18. ASSUME NEW l \in Launches, NEW c \in 1 .. Len(clients), SearchFails(l, c)
        PROVE  StopInv'
    <2>1. FlagsUp'
      BY <1>18 DEF SearchFails, FlagsUp, OnePair, Active, Launching, TypeOK
    <2>2. QuietStop'
      BY <1>18 DEF SearchFails, QuietStop, FlagsUp, Active, Unserved, TypeOK, Downloading, Quiet
    <2> QED BY <2>1, <2>2
  <1>19. ASSUME NEW l \in Launches, NEW c \in 1 .. Len(clients), SearchLoads(l, c)
        PROVE  StopInv'
    <2>1. FlagsUp'
      BY <1>19 DEF SearchLoads, FlagsUp, OnePair, Active, Launching, TypeOK
    <2>2. QuietStop'
      BY <1>19 DEF SearchLoads, QuietStop, FlagsUp, Active, Unserved, TypeOK, Downloading, Quiet
    <2> QED BY <2>1, <2>2
  <1>20. ASSUME NEW l \in Launches, NEW c \in 1 .. Len(clients), DidFinishDownload(l, c)
        PROVE  StopInv'
    <2>1. FlagsUp'
      BY <1>20 DEF DidFinishDownload, FlagsUp, OnePair, Active, Launching, TypeOK
    <2>2. QuietStop'
      BY <1>20 DEF DidFinishDownload, QuietStop, FlagsUp, Active, Unserved, TypeOK, Downloading, Quiet
    <2> QED BY <2>1, <2>2
  <1>21. ASSUME NEW l \in Launches, NEW c \in 1 .. Len(clients), DidErrorOnDownload(l, c)
        PROVE  StopInv'
    <2>1. FlagsUp'
      BY <1>21 DEF DidErrorOnDownload, FlagsUp, OnePair, Active, Launching, TypeOK
    <2>2. QuietStop'
      BY <1>21 DEF DidErrorOnDownload, QuietStop, FlagsUp, Active, Unserved, TypeOK, Downloading, Quiet
    <2> QED BY <2>1, <2>2
  <1>22. ASSUME NEW l \in Launches, DidFinishSearch(l) PROVE StopInv'
    <2>1. FlagsUp'
      BY <1>22 DEF DidFinishSearch, FlagsUp, OnePair, Active, Launching, TypeOK
    <2>2. QuietStop'
      BY <1>22 DEF DidFinishSearch, QuietStop, FlagsUp, Active, Unserved, TypeOK
    <2> QED BY <2>1, <2>2
  <1>23. ASSUME NEW l \in Launches, StartDownloads(l) PROVE StopInv'
    <2>1. FlagsUp'
      BY <1>23 DEF StartDownloads, FlagsUp, OnePair, Active, Launching, TypeOK
    <2>2. QuietStop'
      BY <1>23 DEF StartDownloads, QuietStop, FlagsUp, Active, Unserved, TypeOK
    <2> QED BY <2>1, <2>2
  <1>24. ASSUME NEW l \in Launches, NotFinished(l) PROVE StopInv'
    <2>1. FlagsUp'
      BY <1>24 DEF NotFinished, FlagsUp, OnePair, Active, Launching, TypeOK
    <2>2. QuietStop'
      BY <1>24 DEF NotFinished, QuietStop, FlagsUp, Active, Unserved, TypeOK
    <2> QED BY <2>1, <2>2
  <1>25. ASSUME NEW l \in Launches, DidFinishDownloads(l) PROVE StopInv'
    <2>1. FlagsUp'
      BY <1>25 DEF DidFinishDownloads, FlagsUp, OnePair, Active, Launching, TypeOK
    <2>2. QuietStop'
      BY <1>25 DEF DidFinishDownloads, QuietStop, FlagsUp, Active, Unserved, TypeOK
    <2> QED BY <2>1, <2>2
  <1>26. ASSUME NEW l \in Launches, CheckResults(l) PROVE StopInv'
    <2>1. FlagsUp'
      BY <1>26 DEF CheckResults, FlagsUp, OnePair, Active, Launching, TypeOK
    <2>2. QuietStop'
      BY <1>26 DEF CheckResults, QuietStop, FlagsUp, Active, Unserved, TypeOK
    <2> QED BY <2>1, <2>2
  <1>27. ASSUME NEW l \in Launches, AddToImageArray(l) PROVE StopInv'
    <2>1. FlagsUp'
      BY <1>27 DEF AddToImageArray, FlagsUp, OnePair, Active, Launching, TypeOK
    <2>2. QuietStop'
      BY <1>27 DEF AddToImageArray, QuietStop, FlagsUp, Active, Unserved, TypeOK
    <2> QED BY <2>1, <2>2
  <1>29. CASE StartManager
    <2>1. FlagsUp'
      BY <1>29 DEF StartManager, FlagsUp, OnePair, Active, Launching, TypeOK
    <2>2. QuietStop'
      BY <1>29 DEF StartManager, QuietStop, FlagsUp, Active, Unserved, TypeOK
    <2> QED BY <2>1, <2>2
  <1>30. ASSUME NEW l \in Launches, ReloadCancels(l) PROVE StopInv'
    <2>1. FlagsUp'
      BY <1>30 DEF ReloadCancels, FlagsUp, OnePair, Active, Launching, TypeOK
    <2>2. AllQuieter
      BY <1>30, CancelQuiets DEF ReloadCancels, TypeOK
    <2>3. /\ Len(clients') = Len(clients)
          /\ \A c \in 1 .. Len(clients) : Quiet(clients[c]) => Quiet(clients'[c])
      BY <2>2 DEF AllQuieter, Quieter, Quiet
    <2>4. /\ image[l] = "load" /\ image' = [image EXCEPT ![l] = "reload"]
          /\ UNCHANGED <<viewVars, search>>
      BY <1>30 DEF ReloadCancels
    <2>5. QuietStop'
      BY <2>3, <2>4 DEF QuietStop, Active, TypeOK
    <2> QED BY <2>1, <2>5
  <1>31. ASSUME NEW l \in Launches, BeginChoice(l) PROVE StopInv'
    <2>1. FlagsUp'
      BY <1>31 DEF BeginChoice, FlagsUp, OnePair, Active, Launching, TypeOK
    <2>2. QuietStop'
      BY <1>31 DEF BeginChoice, QuietStop, FlagsUp, Active, Unserved, TypeOK
    <2> QED BY <2>1, <2>2
  <1>32. ASSUME NEW l \in Launches, Connect(l) PROVE StopInv'
    <2>1. FlagsUp'
      BY <1>32 DEF Connect, FlagsUp, OnePair, Active, Launching, TypeOK
    <2>2. QuietStop'
      BY <1>32 DEF Connect, QuietStop, FlagsUp, Active, Unserved, TypeOK
    <2> QED BY <2>1, <2>2
  <1>33. ASSUME NEW thread \in asking, Answer(thread) PROVE StopInv'
    BY <1>33 DEF Answer, FlagsUp, QuietStop, Active
  <1>28. CASE UNCHANGED vars
    BY <1>28 DEF vars, FlagsUp, QuietStop, Active
  <1> QED
    BY <1>1, <1>2, <1>3, <1>4, <1>5, <1>6, <1>7, <1>8, <1>9, <1>10, <1>11, <1>12, <1>13, <1>14, <1>15, <1>16, <1>17, <1>18, <1>19, <1>20, <1>21, <1>22, <1>23, <1>24, <1>25, <1>26, <1>27, <1>28,
       <1>29, <1>30, <1>31, <1>32, <1>33
    DEF Next, MainThread, ImageThread, SearchThread, Callback

(* In the view that waits for its threads no image is queued after a stop,  *)
(* though the flags it waits on are raised by the threads themselves.  (It  *)
(* says so of the queue of images alone.)                                   *)
THEOREM QuietAfterStop ==
  ASSUME ~GivesUp
  PROVE  Spec /\ []OnePair => NothingAfterStop
  <1>1. IInv /\ OnePair /\ OnePair' /\ StopInv /\ [Next]_vars => StopInv'
    BY NextStopInv
  <1>2. IInv /\ StopInv /\ [Next]_vars =>
          [main = "stopped" => imageArray' \subseteq imageArray]_vars
    <2> SUFFICES ASSUME IInv, StopInv, Next, main = "stopped"
                 PROVE  imageArray' \subseteq imageArray
      OBVIOUS
    <2>1. ASSUME NEW l \in Launches, AddToImageArray(l) PROVE FALSE
      BY <2>1 DEF AddToImageArray, SearchGoes, StopInv, QuietStop
    <2>2. ASSUME NEW l \in Launches, ImageThread(l)
          PROVE  imageArray' \subseteq imageArray
      BY <2>2 DEF ImageThread, ImageThreadBegins, ReloadCache, ReloadCancels, ReloadEnds,
          CheckType, BeginChoice, CheckSearchItem, GetFromImageArray, ImageThreadEnds
    <2>3. ASSUME NEW l \in Launches, SearchThread(l)
          PROVE  imageArray' = imageArray
      BY <2>3 DEF SearchThread, Callback, SearchThreadBegins, CheckSearch, TriggerSearch,
          Connect, SearchThreadEnds, SearchFails, SearchLoads, DidFinishDownload,
          DidErrorOnDownload, DidFinishSearch, StartDownloads, NotFinished,
          DidFinishDownloads, CheckResults
    <2>4. CASE MainThread
      BY <2>4 DEF MainThread, StartAnimation, StartManager, StartThreads, StopAnimation, StopManager,
          ThreadsFinished, GiveUp
    <2>5. ASSUME NEW thread \in asking, Answer(thread) PROVE imageArray' = imageArray
      BY <2>5 DEF Answer
    <2> QED BY <2>1, <2>2, <2>3, <2>4, <2>5 DEF Next
  <1> QED
    BY <1>1, <1>2, InitIInv, NextIInv, InitStopInv, PTL DEF Spec, NothingAfterStop

(* A view whose threads end before others are launched leaves none over. *)
THEOREM OneViewQuiet ==
  ASSUME NEW l, Launches = {l}, ~GivesUp
  PROVE  Spec => NothingAfterStop
  <1>1. OnePair
    BY DEF OnePair
  <1>2. Spec => []OnePair
    BY <1>1, PTL
  <1> QED BY <1>2, QuietAfterStop, PTL
===============================================================================
