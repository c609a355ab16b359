----------------------------- MODULE ManagerLocks -----------------------------
(***************************************************************************)
(* The locks of ImageManager, one step for each acquisition and release.   *)
(* Module ImageManager takes every critical section whole; here nothing is *)
(* kept of what is done inside but the locks, the calls that take more of  *)
(* them, and the flags that decide which calls are made.                   *)
(*                                                                         *)
(*   shared     sharedLock, an NSLock: not even its owner takes it twice;  *)
(*   manager    @synchronized(self), which its owner may take again;       *)
(*   delegates  @synchronized(delegateList), likewise.                     *)
(*                                                                         *)
(* todo[t] is what thread t still has to do before it is back in its loop: *)
(* locks to take and drop, and calls, each replaced by its body when its   *)
(* turn comes.  The threads are those of one ScreenSaverOpenGLView that is *)
(* not a preview: main, image (-checkRunnable), search                     *)
(* (-checkSearchRunnable).                                                 *)
(*                                                                         *)
(* A thread that asks iTunes for the song waits for the main thread too,   *)
(* with the locks it holds: the item that follows the song asks when it is *)
(* looked at, unless its answer is less than five seconds old.             *)
(*                                                                         *)
(* Left out, for nothing waits for another lock inside of them: the locks  *)
(* of RWOptions, of the queue imageArray and of the clients.               *)
(***************************************************************************)
EXTENDS Integers, Sequences

CONSTANT ITunes   \* whether an item that follows the song is enabled

Threads == {"main", "image", "search"}
Locks == {"shared", "manager", "delegates"}
NoOne == "no one"

VARIABLES
  main,            \* "stopped", "starting", "running" or "stopping"
  alive,           \* the threads of the view that have been launched
  viewCanceled,    \* the view's canceled flag
  canceled,        \* the manager's
  transfering,
  listed,          \* the view is in delegateList
  hasCheckedCache,
  todo,
  holder,          \* holder[l]: thread that holds lock l, or NoOne
  depth            \* depth[l]: how many times over

flags == <<viewCanceled, canceled, transfering, listed, hasCheckedCache>>
vars == <<main, alive, flags, todo, holder, depth>>

Init ==
  /\ main = "stopped"
  /\ alive = {"main"}
  /\ viewCanceled = FALSE
  /\ canceled = FALSE
  /\ transfering = FALSE
  /\ listed = FALSE
  /\ hasCheckedCache = FALSE
  /\ todo = [t \in Threads |-> <<>>]
  /\ holder = [l \in Locks |-> NoOne]
  /\ depth = [l \in Locks |-> 0]
-----------------------------------------------------------------------------
(* The code of the methods, as sequences of things to do. *)

Take(l) == <<"take", l>>
Drop(l) == <<"drop", l>>
Call(c) == <<"call", c>>
Within(l, body) == <<Take(l)>> \o body \o <<Drop(l)>>

(* Whether the song is asked for. *)
Asks == {<<>>} \cup (IF ITunes THEN {<<Call("ask")>>} ELSE {})

(* Of ImageManager. *)
SharedInstance == Within("shared", <<>>)
SetStatus == Within("delegates", <<Call("tell")>>)
NotifyTransferAttempt == Within("manager", <<>>)
StoppedTransferring == SetStatus \o NotifyTransferAttempt \o <<Call("lower")>>
SetCanceled == Within("manager", <<Call("cancel")>>)
SetUncanceled == Within("manager", <<Call("uncancel")>>)
Reload == Within("shared", <<>>)
ReloadCache(ask) == Within("shared", ask \o SetCanceled \o SetUncanceled)
SetSearchItem == Within("manager", <<>>)
CheckCache == Within("manager", <<Call("check cache")>>)
TriggerSearch == Within("manager", <<Call("trigger")>>)
StartSearch == SetStatus \o NotifyTransferAttempt \o <<Call("connect")>>

(* Of the view: a call of the manager begins with sharedInstance, and so   *)
(* does -setStatus:, for -getModeString asks for the current item.         *)
ViewSetStatus == SharedInstance
BeginAnimation ==
  SharedInstance \o SetUncanceled
    \o SharedInstance \o Reload \o <<Call("launch image")>>
EndAnimation == SharedInstance \o SetCanceled \o <<Call("return")>>
BeginCheckRunnable ==
  SharedInstance \o Within("delegates", <<Call("list")>>)
    \o ViewSetStatus \o SharedInstance \o CheckCache
    \o ViewSetStatus \o <<Call("launch search")>>
EndCheckRunnable ==
  SharedInstance \o Within("delegates", <<Call("unlist")>>) \o <<Call("exit")>>
CheckTypeAndImage == SharedInstance \o <<Call("check type")>> \o SharedInstance
-----------------------------------------------------------------------------
(* Thread t does the next thing it has to, which may bring others. *)
Does(t, op, body) ==
  /\ todo[t] # <<>>
  /\ Head(todo[t]) = op
  /\ todo' = [todo EXCEPT ![t] = body \o Tail(@)]

TakeLock(t) ==
  \E l \in Locks :
    /\ Does(t, Take(l), <<>>)
    /\ holder[l] = NoOne \/ (holder[l] = t /\ l # "shared")
    /\ holder' = [holder EXCEPT ![l] = t]
    /\ depth' = [depth EXCEPT ![l] = @ + 1]
    /\ UNCHANGED <<main, alive, flags>>

DropLock(t) ==
  \E l \in Locks :
    /\ Does(t, Drop(l), <<>>)
    /\ holder' = [holder EXCEPT ![l] = IF depth[l] = 1 THEN NoOne ELSE t]
    /\ depth' = [depth EXCEPT ![l] = @ - 1]
    /\ UNCHANGED <<main, alive, flags>>

kept == <<main, alive, holder, depth>>

(* The manager's setStatus: tells the delegates. *)
Tell(t) ==
  /\ Does(t, Call("tell"), IF listed THEN ViewSetStatus ELSE <<>>)
  /\ UNCHANGED <<kept, flags>>

Lower(t) ==
  /\ Does(t, Call("lower"), <<>>)
  /\ transfering' = FALSE
  /\ UNCHANGED <<kept, viewCanceled, canceled, listed, hasCheckedCache>>

Cancel(t) ==
  /\ Does(t, Call("cancel"), <<>>)
  /\ canceled' = TRUE
  /\ UNCHANGED <<kept, viewCanceled, transfering, listed, hasCheckedCache>>

Uncancel(t) ==
  /\ Does(t, Call("uncancel"), <<>>)
  /\ canceled' = FALSE
  /\ transfering' = FALSE
  /\ UNCHANGED <<kept, viewCanceled, listed, hasCheckedCache>>

(* The main thread answers in its run loop. *)
Ask(t) ==
  /\ main \in {"stopped", "running"}
  /\ Does(t, Call("ask"), <<>>)
  /\ UNCHANGED <<kept, flags>>

(* The cache is checked once in a process. *)
CheckCacheOnce(t) ==
  /\ Does(t, Call("check cache"), IF hasCheckedCache THEN <<>> ELSE SetStatus)
  /\ hasCheckedCache' = TRUE
  /\ UNCHANGED <<kept, viewCanceled, canceled, transfering, listed>>

(* An item may be exhausted, *)
Trigger(t) ==
  /\ \E start \in {<<>>, StartSearch} :
       Does(t, Call("trigger"),
            IF transfering THEN <<>> ELSE NotifyTransferAttempt \o start)
  /\ UNCHANGED <<kept, flags>>

(* or have no page to search, as the iTunes item without a song; and a     *)
(* manager that is canceled creates no client.                             *)
Connect(t) ==
  /\ \/ canceled /\ Does(t, Call("connect"), <<>>)
     \/ /\ ~canceled
        /\ \E ask \in Asks, found \in {<<>>, SetStatus \o <<Call("raise")>>} :
             Does(t, Call("connect"), Within("manager", <<>>) \o ask \o found)
  /\ UNCHANGED <<kept, flags>>

Raise(t) ==
  /\ Does(t, Call("raise"), <<>>)
  /\ transfering' = TRUE
  /\ UNCHANGED <<kept, viewCanceled, canceled, listed, hasCheckedCache>>
-----------------------------------------------------------------------------
(* The image thread. *)

List ==
  /\ \E add \in BOOLEAN :
       /\ Does("image", Call(IF add THEN "list" ELSE "unlist"), <<>>)
       /\ listed' = add
  /\ UNCHANGED <<kept, viewCanceled, canceled, transfering, hasCheckedCache>>

(* -checkType: the current item needs a reload when the song has changed;  *)
(* if not, and the items change at all and nothing is under way,           *)
CheckType ==
  /\ \/ ITunes /\ \E ask \in Asks :
                    Does("image", Call("check type"), ReloadCache(ask))
     \/ \E body \in {<<>>, SharedInstance \o <<Call("check item")>>} :
          Does("image", Call("check type"), body)
  /\ UNCHANGED <<kept, flags>>

(* it may be time for another one, which may be the same: each item that   *)
(* is enabled is asked whether it may be chosen.                           *)
CheckSearchItem ==
  /\ \E ask \in Asks, switch \in {<<>>, SetSearchItem} :
       Does("image", Call("check item"),
            IF transfering THEN <<>>
            ELSE SharedInstance \o Within("shared", ask \o switch))
  /\ UNCHANGED <<kept, flags>>

ImageRound ==
  /\ "image" \in alive
  /\ todo["image"] = <<>>
  /\ todo' = [todo EXCEPT !["image"] =
                IF viewCanceled THEN EndCheckRunnable ELSE CheckTypeAndImage]
  /\ UNCHANGED <<kept, flags>>

LaunchSearch ==
  /\ Does("image", Call("launch search"), <<>>)
  /\ alive' = alive \cup {"search"}
  /\ UNCHANGED <<main, flags, holder, depth>>

ImageExits ==
  /\ Does("image", Call("exit"), <<>>)
  /\ alive' = alive \ {"image"}
  /\ UNCHANGED <<main, flags, holder, depth>>
-----------------------------------------------------------------------------
(* The search thread. *)

SearchRound ==
  /\ "search" \in alive
  /\ todo["search"] = <<>>
  /\ ~viewCanceled
  /\ todo' = [todo EXCEPT !["search"] =
                SharedInstance \o <<Call("check search")>>]
  /\ UNCHANGED <<kept, flags>>

(* -checkSearch: too early, vetoed by the item, or time for a search;      *)
(* without searches the view shows an empty status.                        *)
CheckSearch ==
  /\ \E body \in {ViewSetStatus, SharedInstance \o SetStatus,
                  SharedInstance \o NotifyTransferAttempt,
                  SharedInstance \o TriggerSearch} :
       Does("search", Call("check search"), IF transfering THEN <<>> ELSE body)
  /\ UNCHANGED <<kept, flags>>

(* A callback in its run loop: of the search, whose images have a path for *)
(* the song, and the downloads, which show their status, and of the last   *)
(* of them.                                                                *)
Callback ==
  /\ "search" \in alive
  /\ todo["search"] = <<>>
  /\ transfering
  /\ ~canceled
  /\ \E ask \in Asks, body \in {SetStatus, StoppedTransferring} :
       todo' = [todo EXCEPT !["search"] = ask \o body]
  /\ UNCHANGED <<kept, flags>>

SearchExits ==
  /\ "search" \in alive
  /\ todo["search"] = <<>>
  /\ viewCanceled
  /\ alive' = alive \ {"search"}
  /\ UNCHANGED <<main, flags, todo, holder, depth>>
-----------------------------------------------------------------------------
(* The main thread. *)

(* Threads left over from the start before are not modelled. *)
StartAnimation ==
  /\ main = "stopped"
  /\ alive = {"main"}
  /\ main' = "starting"
  /\ viewCanceled' = FALSE
  /\ todo' = [todo EXCEPT !["main"] = BeginAnimation]
  /\ UNCHANGED <<alive, canceled, transfering, listed, hasCheckedCache, holder,
                 depth>>

LaunchImage ==
  /\ main = "starting"
  /\ todo["main"] = <<Call("launch image")>>
  /\ main' = "running"
  /\ alive' = alive \cup {"image"}
  /\ todo' = [todo EXCEPT !["main"] = <<>>, !["image"] = BeginCheckRunnable]
  /\ UNCHANGED <<flags, holder, depth>>

StopAnimation ==
  /\ main = "running"
  /\ main' = "stopping"
  /\ viewCanceled' = TRUE
  /\ todo' = [todo EXCEPT !["main"] = EndAnimation]
  /\ UNCHANGED <<alive, canceled, transfering, listed, hasCheckedCache, holder,
                 depth>>

(* It waits for its threads, but no longer than 200 naps. *)
ThreadsFinished ==
  /\ Does("main", Call("return"), <<>>)
  /\ main' = "stopped"
  /\ UNCHANGED <<alive, flags, holder, depth>>
-----------------------------------------------------------------------------
(* What thread t has begun goes on. *)
Continue(t) ==
  \/ TakeLock(t) \/ DropLock(t) \/ Tell(t)
  \/ Lower(t) \/ Cancel(t) \/ Uncancel(t) \/ Ask(t)
  \/ CheckCacheOnce(t) \/ Trigger(t) \/ Connect(t) \/ Raise(t)

ContinueMain == Continue("main") \/ LaunchImage \/ ThreadsFinished
ContinueImage ==
  \/ Continue("image") \/ List \/ CheckType \/ CheckSearchItem
  \/ LaunchSearch \/ ImageExits
ContinueSearch == Continue("search") \/ CheckSearch

Next ==
  \/ ContinueMain \/ StartAnimation \/ StopAnimation
  \/ ContinueImage \/ ImageRound
  \/ ContinueSearch \/ SearchRound \/ Callback \/ SearchExits

(* A thread that is time and again able to go on does: no lock is kept     *)
(* from a thread for ever by others that take it in turns.                 *)
FairSpec ==
  /\ Init /\ [][Next]_vars
  /\ SF_vars(ContinueMain)
  /\ SF_vars(ContinueImage) /\ WF_vars(ImageRound)
  /\ SF_vars(ContinueSearch) /\ WF_vars(SearchRound \/ SearchExits)
-----------------------------------------------------------------------------
(* A stop of the view that waits for its threads at most 200 naps returns, *)
(* ImageManager.m:349, ScreenSaverOpenGLView.m:47-64: no thread keeps the  *)
(* locks it needs for ever.                                                *)
StopReturns == main = "stopping" ~> main = "stopped"
=============================================================================
