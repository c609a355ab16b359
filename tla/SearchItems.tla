------------------------------ MODULE SearchItems ------------------------------
(***************************************************************************)
(* RWOptions.m, the search items and SettingsController.m: the list of     *)
(* searches, shared through the user defaults by two processes.            *)
(*                                                                         *)
(* System Preferences (prefs) shows the settings sheet.  Adding and        *)
(* removing an item is stored at once; the check boxes change the item in  *)
(* memory, OK stores what is dirty, Cancel takes nothing back.  Its        *)
(* preview chooses items but never searches.                               *)
(*                                                                         *)
(* The screen saver (engine) reads the list once, chooses items, searches  *)
(* page after page, and stores the item after each page, with all that it  *)
(* holds of it.  Neither process reads again what the other has stored.    *)
(*                                                                         *)
(* What an item has left to do is one number, start: the position of the   *)
(* next page of a Google item, NoStart for the digital photos, which have  *)
(* no pages, and for a location 1 when lastSearch is too recent to load    *)
(* its page again.                                                         *)
(***************************************************************************)
EXTENDS Integers, Sequences

CONSTANTS
  Phrases,         \* keys of the phrases and sites a user may add
  Locations,       \* keys of the locations
  Photo, ITunes,   \* keys of the two items that are always there
  Legacy,          \* sequence of the phrases stored by versions before 1.2
  Upgraded,        \* the defaults are those of a version without iTunes item
  HighPriority,    \* isITunesHighPriority
  MaxQueryStart,   \* MAX_QUERY_START, 999 in the code
  QueryIncrement,  \* QUERY_INCREMENT, 20 in the code
  MaxId,           \* bound: identifiers
  MaxSteps         \* bound: edits in the settings sheet, and starts

Keys == {Photo, ITunes} \cup Phrases \cup Locations
NoStart == -1

ASSUME ItemsAssumption ==
  /\ Photo # ITunes
  /\ {Photo, ITunes} \cap (Phrases \cup Locations) = {}
  /\ Phrases \cap Locations = {}
  /\ Legacy \in Seq(Phrases)
  /\ Upgraded \in BOOLEAN
  /\ HighPriority \in BOOLEAN
  /\ MaxQueryStart \in Nat
  /\ QueryIncrement \in Nat \ {0}
  /\ MaxId \in Nat
  /\ MaxSteps \in Nat
  /\ Upgraded => Len(Legacy) <= MaxId

VARIABLES
  list,         \* "SearchItems" of the defaults: identifiers, in order
  dicts,        \* "SearchItem-<id>" of the defaults, by identifier
  converted,    \* "HasConverted" of the defaults
  prefs,        \* System Preferences: "off", "closed" or with the "sheet"
  prefsItems,   \* its searchItems
  prefsMax,     \* its MAX_IDENTIFIER
  engine,       \* the screen saver: "off", "idle" or "searching"
  engineItems,  \* its searchItems
  current,      \* index of its currentSearchItem, 0 for nil
  searched,     \* index of the item whose page is asked for, else 0
  steps,        \* edits in the settings sheet, and starts of a process
  wanted,       \* history: keys added and not removed, in order
  confirmed,    \* history: no item was removed since the last OK
  due,          \* history: due[id] is the start that the answers so far ask for
  touched       \* history: identifiers whose position OK has stored, or a
                \* page of another item has changed, since their last page

store == <<list, dicts, converted>>
prefsVars == <<prefs, prefsItems, prefsMax>>
engineVars == <<engine, engineItems, current, searched>>
history == <<wanted, confirmed, due, touched>>
vars == <<store, prefsVars, engineVars, steps, history>>

Starts == NoStart .. (MaxQueryStart + QueryIncrement)
Item == [id : 0 .. MaxId, key : Keys, enabled : BOOLEAN, start : Starts,
         dirty : BOOLEAN]
Dict == [key : Keys, enabled : BOOLEAN, start : Starts]

TypeOK ==
  /\ list \in Seq(0 .. MaxId)
  /\ DOMAIN dicts \subseteq 0 .. MaxId
  /\ \A i \in DOMAIN dicts : dicts[i] \in Dict
  /\ converted \in BOOLEAN
  /\ prefs \in {"off", "closed", "sheet"}
  /\ prefsItems \in Seq(Item)
  /\ prefsMax \in -1 .. MaxId
  /\ engine \in {"off", "idle", "searching"}
  /\ engineItems \in Seq(Item)
  /\ current \in {0} \cup DOMAIN engineItems
  /\ searched \in {0} \cup DOMAIN engineItems
  /\ steps \in 0 .. MaxSteps
  /\ wanted \in Seq(Phrases \cup Locations)
  /\ confirmed \in BOOLEAN
  /\ due \in [0 .. MaxId -> Starts]
  /\ touched \subseteq 0 .. MaxId
-----------------------------------------------------------------------------
(* Items and what is stored of them. *)

NewItem(id, key, enabled) ==
  [id |-> id, key |-> key, enabled |-> enabled,
   start |-> IF key = Photo THEN NoStart ELSE 0, dirty |-> TRUE]

Elements(items) == {items[i] : i \in DOMAIN items}
Ids(items) == {items[i].id : i \in DOMAIN items}
IdsOf(items) == [i \in DOMAIN items |-> items[i].id]
KeysOf(items) == [i \in DOMAIN items |-> items[i].key]

(* What is left of a list when its element i is removed. *)
Without(s, i) ==
  [j \in 1 .. Len(s) - 1 |-> IF j < i THEN s[j] ELSE s[j + 1]]

(* -save:sync: of an item; that of the iTunes item leaves its start out. *)
SavedDict(item) ==
  [key |-> item.key, enabled |-> item.enabled,
   start |-> IF item.key = ITunes THEN 0 ELSE item.start]

(* The dictionaries after those of a set of items are saved. *)
Saved(ds, its) ==
  [i \in DOMAIN ds \cup {it.id : it \in its} |->
    IF \E it \in its : it.id = i
      THEN SavedDict(CHOOSE it \in its : it.id = i)
      ELSE ds[i]]

(* -loadSearchParamItem: makes every item anew, and dirty. *)
LoadItem(id) ==
  [id |-> id, key |-> dicts[id].key, enabled |-> dicts[id].enabled,
   start |-> dicts[id].start, dirty |-> TRUE]

MaxIdOf(items) ==
  CHOOSE m \in Ids(items) \cup {-1} : \A i \in Ids(items) : m >= i

(* -checkMainSearchParamItems: the photo item of an empty list, and the     *)
(* iTunes item in the second place.                                         *)
WithMain(items) ==
  LET photo == IF items = <<>> THEN <<NewItem(0, Photo, TRUE)>> ELSE items
  IN IF Len(photo) > 1 /\ photo[2].key = ITunes
       THEN photo
       ELSE <<photo[1], NewItem(MaxIdOf(photo) + 1, ITunes, FALSE)>>
              \o Tail(photo)

(* -loadSearchParamItems, up to the n-th identifier of the list: those      *)
(* without a dictionary are passed over.                                    *)
LoadedUpTo[n \in 0 .. Len(list)] ==
  IF n = 0 THEN <<>>
  ELSE IF list[n] \in DOMAIN dicts
    THEN Append(LoadedUpTo[n - 1], LoadItem(list[n]))
    ELSE LoadedUpTo[n - 1]

Loaded == WithMain(LoadedUpTo[Len(list)])

(* +[SettingsConvertor convert:] adds the phrases of versions before. *)
Converted(items) ==
  items \o [i \in DOMAIN Legacy |->
              NewItem(MaxIdOf(items) + i, Legacy[i], TRUE)]

Clean(items) == [i \in DOMAIN items |-> [items[i] EXCEPT !.dirty = FALSE]]

(* The first page of an item in which each search size has come to its end  *)
(* is asked for again, with the next size.                                  *)
Cycled(start) == IF start > MaxQueryStart THEN 0 ELSE start
-----------------------------------------------------------------------------
(* The defaults are empty, or hold the items of a version before 1.3. *)
Init ==
  /\ LET old == <<NewItem(0, Photo, TRUE)>>
                   \o [i \in DOMAIN Legacy |-> NewItem(i, Legacy[i], TRUE)]
     IN IF Upgraded
          THEN list = IdsOf(old) /\ dicts = Saved(<<>>, Elements(old)) /\ wanted = Legacy
          ELSE list = <<>> /\ dicts = <<>> /\ wanted = <<>>
  /\ converted = Upgraded
  /\ prefs = "off" /\ prefsItems = <<>> /\ prefsMax = -1
  /\ engine = "off" /\ engineItems = <<>> /\ current = 0 /\ searched = 0
  /\ steps = 0
  /\ confirmed = TRUE
  /\ due = [i \in 0 .. MaxId |-> 0]
  /\ touched = {}
-----------------------------------------------------------------------------
(* Both processes: -[RWOptions init] loads the items, and on the very first *)
(* start converts the old ones and stores everything.                       *)
Options == IF converted THEN Loaded ELSE Clean(Converted(Loaded))

InitOptions ==
  /\ steps < MaxSteps
  /\ MaxIdOf(Options) <= MaxId
  /\ steps' = steps + 1
  /\ IF converted
       THEN UNCHANGED <<store, wanted>>
       ELSE /\ list' = IdsOf(Options)
            /\ dicts' = Saved(dicts, Elements(Options))
            /\ converted' = TRUE
            /\ wanted' = Legacy
-----------------------------------------------------------------------------
(* System Preferences.  It is not started while the screen saver runs (see  *)
(* the README); a sheet that is open may be used while it does.             *)

PrefsStarts ==
  /\ prefs = "off"
  /\ engine = "off"
  /\ InitOptions
  /\ prefs' = "closed"
  /\ prefsItems' = Options
  /\ prefsMax' = MaxIdOf(Options)
  /\ UNCHANGED <<engineVars, confirmed, due, touched>>

(* It quits or crashes, the sheet open or not. *)
PrefsEnds ==
  /\ prefs # "off"
  /\ prefs' = "off"
  /\ prefsItems' = <<>>
  /\ prefsMax' = -1
  /\ UNCHANGED <<store, engineVars, steps, history>>

SheetOpens ==
  /\ prefs = "closed"
  /\ prefs' = "sheet"
  /\ UNCHANGED <<store, prefsItems, prefsMax, engineVars, steps, history>>

Edit ==
  /\ prefs = "sheet"
  /\ steps < MaxSteps
  /\ steps' = steps + 1

EditOnly ==
  /\ Edit
  /\ UNCHANGED <<store, prefs, prefsMax, engineVars, history>>

(* -isEnabled: makes dirty what it changes, *)
SetEnabled(item, b) ==
  [item EXCEPT !.enabled = b, !.dirty = @ \/ item.enabled # b]

(* and -reset starts anew; it leaves the photo item alone. *)
Reset(item) ==
  IF item.start = NoStart
    THEN item
    ELSE [item EXCEPT !.start = 0, !.dirty = TRUE]

CheckBox ==
  /\ EditOnly
  /\ \E i \in DOMAIN prefsItems :
       prefsItems' = [prefsItems EXCEPT ![i] =
         IF @.enabled THEN SetEnabled(@, FALSE) ELSE Reset(SetEnabled(@, TRUE))]

(* -enableAllPressed: and -disableAllPressed: reset nothing. *)
EnableAllPressed ==
  /\ EditOnly
  /\ \E b \in BOOLEAN :
       prefsItems' = [i \in DOMAIN prefsItems |-> SetEnabled(prefsItems[i], b)]

(* -setMinSizeString:, of which only the dirty flag is seen here. *)
MinSizeEdited ==
  /\ EditOnly
  /\ \E i \in DOMAIN prefsItems :
       prefsItems' = [prefsItems EXCEPT ![i].dirty = TRUE]

(* While a song plays, -shouldSelect of the iTunes item, which the choice of *)
(* an item for the preview calls, gives it the artist as keyword.           *)
PreviewAsksITunes ==
  /\ prefs # "off"
  /\ \E i \in DOMAIN prefsItems :
       /\ prefsItems[i].key = ITunes
       /\ prefsItems[i].enabled
       /\ prefsItems' = [prefsItems EXCEPT ![i].dirty = TRUE]
  /\ UNCHANGED <<store, prefs, prefsMax, engineVars, steps, history>>

(* A key that -containsItemLike: finds is refused. *)
NotListed ==
  (Phrases \cup Locations) \ {prefsItems[i].key : i \in DOMAIN prefsItems}

(* -addSearchParamItem:sync: stores the new item and the list. *)
AddWithId(id) ==
  \E key \in NotListed :
    LET item == NewItem(id, key, TRUE)
    IN /\ Edit
       /\ id <= MaxId
       /\ prefsItems' = Append(prefsItems, item)
       /\ prefsMax' = id
       /\ list' = IdsOf(prefsItems')
       /\ dicts' = Saved(dicts, {item})
       /\ wanted' = Append(wanted, key)
       /\ due' = [due EXCEPT ![id] = 0]
       /\ touched' = touched \ {id}
       /\ UNCHANGED <<converted, prefs, engineVars, confirmed>>

(* Faulty variant: the identifier is the number of items. *)
AddNumbered == AddWithId(Len(prefsItems))

(* Each item that is made has the next identifier that this process has not *)
(* yet seen: -okPressed: makes one to look for another like it, and         *)
(* -sheetDidEnd: makes it again.                                            *)
AddItem == AddWithId(prefsMax + 2)

(* The item is refused, for there is one like it or its URL is not valid. *)
AddRefused ==
  /\ Edit
  /\ prefsMax < MaxId
  /\ prefsMax' = prefsMax + 1
  /\ UNCHANGED <<store, prefs, prefsItems, engineVars, history>>

(* -removeSearchParamItem:sync: drops its dictionary and stores the list;   *)
(* the main items, which come before those wanted, cannot be removed.       *)
RemoveItem ==
  \E i \in DOMAIN prefsItems :
    LET item == prefsItems[i]
    IN /\ Edit
       /\ item.key \notin {Photo, ITunes}
       /\ prefsItems' = Without(prefsItems, i)
       /\ dicts' = [d \in DOMAIN dicts \ {item.id} |-> dicts[d]]
       /\ list' = IdsOf(prefsItems')
       /\ wanted' = Without(wanted, i - 2)
       /\ confirmed' = FALSE
       /\ UNCHANGED <<converted, prefs, prefsMax, engineVars, due, touched>>

CheckHasEnabled == \E i \in DOMAIN prefsItems : prefsItems[i].enabled

(* -[RWOptions saveSettings]: the dirty items, then the list. *)
SaveSettings ==
  LET dirty == {it \in Elements(prefsItems) : it.dirty}
  IN /\ dicts' = Saved(dicts, dirty)
     /\ list' = IdsOf(prefsItems)
     /\ prefsItems' = Clean(prefsItems)
     /\ touched' = touched \cup {it.id : it \in dirty}

SheetSaved ==
  /\ prefs = "sheet"
  /\ SaveSettings
  /\ prefs' = "closed"
  /\ confirmed' = TRUE
  /\ UNCHANGED <<converted, prefsMax, engineVars, steps, wanted, due>>

(* Faulty variant: all boxes may be empty. *)
OkUnchecked == SheetSaved

OkPressed == CheckHasEnabled /\ SheetSaved

(* Cancel closes the sheet, on the items as they are by now. *)
CancelPressed ==
  /\ prefs = "sheet"
  /\ CheckHasEnabled
  /\ prefs' = "closed"
  /\ UNCHANGED <<store, prefsItems, prefsMax, engineVars, steps, history>>
-----------------------------------------------------------------------------
(* The screen saver. *)

EngineStarts ==
  /\ engine = "off"
  /\ InitOptions
  /\ engine' = "idle"
  /\ engineItems' = Options
  /\ current' = 0
  /\ searched' = 0
  /\ due' = [i \in 0 .. MaxId |->
              IF \E it \in Elements(Options) :
                   it.id = i /\ it.key = ITunes
                THEN 0 ELSE due[i]]
  /\ UNCHANGED <<prefsVars, confirmed, touched>>

(* It quits or crashes at any point. *)
EngineEnds ==
  /\ engine # "off"
  /\ engine' = "off"
  /\ engineItems' = <<>>
  /\ current' = 0
  /\ searched' = 0
  /\ UNCHANGED <<store, prefsVars, steps, history>>

(* -getRandomItem: prefers the iTunes item while a song plays, and avoids   *)
(* the current one if it can.                                               *)
RandomItems(playing) ==
  LET selectable == {i \in DOMAIN engineItems :
        engineItems[i].enabled /\ (engineItems[i].key = ITunes => playing)}
      urgent == {i \in selectable : HighPriority /\ engineItems[i].key = ITunes}
      others == selectable \ {current}
  IN IF urgent # {} THEN urgent ELSE IF others # {} THEN others ELSE {current}

(* -checkType does not change the item while a transfer runs, but looks     *)
(* before it has the lock: a search may have begun by then.                 *)
CheckSearchItem ==
  /\ engine # "off"
  /\ \E playing \in BOOLEAN : current' \in RandomItems(playing)
  /\ UNCHANGED <<store, prefsVars, engine, engineItems, searched, steps, history>>

Vetoed(item) == item.key \in Locations /\ item.start = 1

SearchFrom(start) ==
  /\ engine = "idle"
  /\ ~Vetoed(engineItems[current])
  /\ engine' = "searching"
  /\ engineItems' = [engineItems EXCEPT ![current].start = start]
  /\ searched' = current
  /\ UNCHANGED <<store, prefsVars, current, steps, history>>

(* Faulty variant: nobody looks whether the pages have come to an end. *)
TriggerUntested ==
  /\ current # 0
  /\ SearchFrom(engineItems[current].start)

(* -triggerSearch asks for the next page; -isSearchExhausted, which it      *)
(* calls first, goes back to the first page after the last one.             *)
TriggerSearch ==
  /\ current # 0
  /\ SearchFrom(Cycled(engineItems[current].start))

(* The page cannot be loaded, or nothing is found on it. *)
SearchFails ==
  /\ engine = "searching"
  /\ engine' = "idle"
  /\ searched' = 0
  /\ UNCHANGED <<store, prefsVars, engineItems, current, steps, history>>

(* What checkResults: makes of a position: the next page, or an exhausted   *)
(* item when the results have come to their end; a location is not to be    *)
(* loaded for some hours.  An exhausted item can only be given the page of  *)
(* another one; how far that takes it beyond the last page is left out.     *)
Results(item, end) ==
  IF item.start = NoStart THEN NoStart
  ELSE IF item.key \in Locations THEN 1
  ELSE IF end THEN MaxQueryStart + 1
  ELSE IF searched # current /\ item.start > MaxQueryStart THEN item.start
  ELSE item.start + QueryIncrement

(* The results are counted, and an item saved: the old or the new one.      *)
(* They are counted on the current item, which by now need not be the one   *)
(* they are of: the page is due no longer, and neither item knows.          *)
Answered(newSaved) ==
  /\ engine = "searching"
  /\ engine' = "idle"
  /\ searched' = 0
  /\ \E end \in BOOLEAN :
       LET old == engineItems[current]
           new == [old EXCEPT !.start = Results(old, end), !.dirty = TRUE]
           asked == engineItems[searched]
       IN /\ engineItems' = [engineItems EXCEPT ![current] = new]
          /\ dicts' = Saved(dicts, {IF newSaved THEN new ELSE old})
          /\ due' = [due EXCEPT ![asked.id] = Cycled(Results(asked, end))]
          /\ touched' = IF searched = current
                          THEN touched \ {new.id}
                          ELSE touched \cup {new.id, asked.id}
  /\ UNCHANGED <<list, converted, prefsVars, current, steps, wanted, confirmed>>

(* Faulty variant: the item is saved before its results are looked at. *)
SavedFirst == Answered(FALSE)

(* -[ImageManager checkResults] counts the page and stores the item. *)
CheckResults == Answered(TRUE)
-----------------------------------------------------------------------------
(* locationSearchWait hours pass: every location may be loaded again. *)
Aged(r) == IF r.key \in Locations THEN [r EXCEPT !.start = 0] ELSE r

HoursPass ==
  /\ dicts' = [i \in DOMAIN dicts |-> Aged(dicts[i])]
  /\ prefsItems' = [i \in DOMAIN prefsItems |-> Aged(prefsItems[i])]
  /\ engineItems' = [i \in DOMAIN engineItems |-> Aged(engineItems[i])]
  /\ due' = [i \in 0 .. MaxId |->
       IF \E it \in Elements(engineItems) \cup {LoadItem(d) : d \in DOMAIN dicts} :
            it.id = i /\ it.key \in Locations
         THEN 0 ELSE due[i]]
  /\ UNCHANGED <<list, converted, prefs, prefsMax, engine, current, searched,
                 steps, wanted, confirmed, touched>>
-----------------------------------------------------------------------------
Prefs ==
  \/ PrefsStarts \/ PrefsEnds \/ SheetOpens \/ CheckBox \/ EnableAllPressed
  \/ MinSizeEdited \/ PreviewAsksITunes \/ AddItem \/ AddRefused \/ RemoveItem
  \/ OkPressed \/ CancelPressed

Engine ==
  \/ EngineStarts \/ EngineEnds \/ CheckSearchItem \/ TriggerSearch
  \/ SearchFails \/ CheckResults

Next == Prefs \/ Engine \/ HoursPass

Spec == Init /\ [][Next]_vars
-----------------------------------------------------------------------------
(* Properties. *)

(* A process that starts finds the photo item first, one iTunes item        *)
(* second, and then what the user has added and not removed, in order: also *)
(* after a crash, a conversion, edits that were cancelled, and with a       *)
(* screen saver that saves an item another process has removed.             *)
ListedIsWanted ==
  LET items == Loaded
  IN converted =>
       /\ KeysOf(items) = <<Photo, ITunes>> \o wanted
       /\ \A i, j \in DOMAIN items : items[i].id = items[j].id => i = j
       /\ prefs # "off" => KeysOf(prefsItems) = KeysOf(items)

(* "At least one search item must be enabled": so it is in what is stored,  *)
(* whatever a screen saver with another list saves, unless an item was      *)
(* removed since the last OK (for that is stored at once, and Cancel, which *)
(* also asks for one, stores nothing).                                      *)
SomeEnabled ==
  converted /\ confirmed =>
    \E id \in DOMAIN dicts :
      /\ \E i \in DOMAIN list : list[i] = id
      /\ dicts[id].enabled

(* The page an item asks for is the one after the last that was counted, or *)
(* the first after the last of all; a location does not ask before its      *)
(* time.  This holds across the end of any process, and of a search that    *)
(* failed, which is asked for again.  It is not so for an item of which OK  *)
(* has stored the older state that System Preferences had loaded, nor, when *)
(* the item changed under a search, for the one searched (it asks for the   *)
(* page again) and the one the page was counted on (it leaves one out).     *)
PagesInOrder ==
  [][engine = "idle" /\ engine' = "searching" =>
       LET item == engineItems'[current]
       IN /\ item.start <= MaxQueryStart
          /\ \/ item.start \in {NoStart, due[item.id]}
             \/ item.id \in touched]_vars
=============================================================================
