--------------------------- MODULE SearchPagesProofs ---------------------------
(***************************************************************************)
(* Proofs about SearchItems, after SearchItemsProofs: that something stays *)
(* enabled, and that pages are asked for in order.                         *)
(***************************************************************************)
EXTENDS SearchItemsProofs

(* What is enabled: the screen saver only uses, and saves, what is enabled  *)
(* for it, and an item that is not dirty is stored as it is.                *)
ItemEnabled ==
  /\ current # 0 => engineItems[current].enabled
  /\ prefs # "off" =>
       \A i \in DOMAIN prefsItems :
         prefsItems[i].enabled /\ ~prefsItems[i].dirty =>
           dicts[prefsItems[i].id].enabled

EnabledInv == ItemEnabled /\ SomeEnabled

(* What System Preferences holds is stored, index by index. *)
PrefsStored ==
  prefs # "off" =>
    /\ converted
    /\ DOMAIN prefsItems = DOMAIN list
    /\ \A i \in DOMAIN prefsItems :
         prefsItems[i].id = list[i] /\ list[i] \in DOMAIN dicts

LEMMA PrefsIndex == TypeInv /\ ListInv => PrefsStored
  <1> SUFFICES ASSUME TypeInv, ListInv, prefs # "off" PROVE PrefsStored
    BY DEF PrefsStored
  <1>1. converted
    BY DEF ListInv, Stored
  <1>2. DOMAIN prefsItems = DOMAIN list
    BY Domains DEF TypeInv, ListInv, PrefsList
  <1> QED BY <1>1, <1>2 DEF ListInv, Stored, PrefsList, PrefsStored

(* Nothing that is stored ceases to be enabled. *)
LEMMA SameEnabled ==
  ASSUME TypeInv, ListInv, EnabledInv, converted, UNCHANGED <<list, confirmed>>,
         \A d \in DOMAIN dicts :
           d \in DOMAIN dicts' /\ (dicts[d].enabled => dicts'[d].enabled),
         current' # 0 => engineItems'[current'].enabled,
         \/ prefs' = "off"
         \/ /\ prefs # "off"
            /\ Len(prefsItems') = Len(prefsItems)
            /\ DOMAIN prefsItems' = DOMAIN prefsItems
            /\ \A i \in DOMAIN prefsItems :
                 /\ prefsItems'[i].id = prefsItems[i].id
                 /\ prefsItems'[i].enabled /\ ~prefsItems'[i].dirty =>
                      prefsItems[i].enabled /\ ~prefsItems[i].dirty
  PROVE  EnabledInv'
  <1>1. SomeEnabled'
    BY DEF EnabledInv, SomeEnabled
  <1>2. prefs # "off" => \A i \in DOMAIN prefsItems : prefsItems[i].id \in DOMAIN dicts
    BY PrefsIndex DEF PrefsStored
  <1> QED BY <1>1, <1>2 DEF EnabledInv, ItemEnabled

(* An edit makes dirty what it enables. *)
LEMMA EditsKeepEnabled ==
  ASSUME TypeInv, TypeInv', ListInv, EnabledInv,
         CheckBox \/ EnableAllPressed \/ MinSizeEdited \/ PreviewAsksITunes
  PROVE  EnabledInv'
  <1>0. ASSUME NEW it \in Item, NEW b \in BOOLEAN, NEW jt,
               \/ jt = it
               \/ jt = SetEnabled(it, b)
               \/ jt = Reset(SetEnabled(it, b))
               \/ jt = [it EXCEPT !.dirty = TRUE],
               jt.enabled, ~jt.dirty
        PROVE  it.enabled /\ ~it.dirty
    <2>1. CASE jt = it
      BY <1>0, <2>1
    <2>2. CASE jt = SetEnabled(it, b)
      BY <1>0, <2>2 DEF SetEnabled, Item
    <2>3. CASE jt = Reset(SetEnabled(it, b))
      BY <1>0, <2>3 DEF SetEnabled, Reset, Item
    <2>4. CASE jt = [it EXCEPT !.dirty = TRUE]
      BY <1>0, <2>4 DEF Item
    <2> QED BY <1>0, <2>1, <2>2, <2>3, <2>4
  <1>1. /\ prefs # "off" /\ UNCHANGED <<list, dicts, confirmed, current, engineItems>>
        /\ Len(prefsItems') = Len(prefsItems)
        /\ \A i \in DOMAIN prefsItems : prefsItems'[i].id = prefsItems[i].id
    <2>1. UNCHANGED confirmed
      BY DEF CheckBox, EnableAllPressed, MinSizeEdited, PreviewAsksITunes, EditOnly, history
    <2> QED BY <2>1, EditLists DEF engineVars
  <1>2. DOMAIN prefsItems' = DOMAIN prefsItems
    BY <1>1 DEF TypeInv, TypeOK
  <1>3. ASSUME NEW i \in DOMAIN prefsItems
        PROVE  prefsItems'[i].enabled /\ ~prefsItems'[i].dirty =>
                 prefsItems[i].enabled /\ ~prefsItems[i].dirty
    <2>0. prefsItems[i] \in Item /\ prefsItems \in Seq(Item)
      BY DEF TypeInv, TypeOK
    <2>1. CASE CheckBox
      <3>1. \/ prefsItems'[i] = prefsItems[i]
            \/ prefsItems'[i] = SetEnabled(prefsItems[i], FALSE)
            \/ prefsItems'[i] = Reset(SetEnabled(prefsItems[i], TRUE))
        <4>1. PICK j \in DOMAIN prefsItems :
                prefsItems' = [prefsItems EXCEPT ![j] =
                  IF @.enabled THEN SetEnabled(@, FALSE) ELSE Reset(SetEnabled(@, TRUE))]
          BY <2>1 DEF CheckBox
        <4> QED BY <4>1
      <3> QED BY <1>0, <2>0, <3>1
    <2>2. CASE EnableAllPressed
      <3>1. PICK b \in BOOLEAN :
              prefsItems' = [j \in DOMAIN prefsItems |-> SetEnabled(prefsItems[j], b)]
        BY <2>2 DEF EnableAllPressed
      <3>2. prefsItems'[i] = SetEnabled(prefsItems[i], b)
        BY <3>1
      <3> QED BY <1>0, <2>0, <3>2
    <2>3. CASE MinSizeEdited \/ PreviewAsksITunes
      <3>1. PICK j \in DOMAIN prefsItems :
              prefsItems' = [prefsItems EXCEPT ![j].dirty = TRUE]
        BY <2>3 DEF MinSizeEdited, PreviewAsksITunes
      <3>2. prefsItems'[i] = prefsItems[i] \/ prefsItems'[i] = [prefsItems[i] EXCEPT !.dirty = TRUE]
        BY <3>1
      <3> QED BY <1>0, <2>0, <3>2
    <2> QED BY <2>1, <2>2, <2>3
  <1>4. converted
    BY <1>1, PrefsIndex DEF PrefsStored
  <1>5. current' # 0 => engineItems'[current'].enabled
    BY <1>1 DEF EnabledInv, ItemEnabled
  <1> QED BY <1>1, <1>2, <1>3, <1>4, <1>5, SameEnabled

(* What -addSearchParamItem:sync: adds, as the n + 1st item. *)
Added(id, n) ==
  /\ n \in Nat
  /\ DOMAIN prefsItems = 1 .. n /\ DOMAIN prefsItems' = 1 .. n + 1
  /\ DOMAIN list = 1 .. n /\ DOMAIN list' = 1 .. n + 1
  /\ \A i \in 1 .. n : /\ prefsItems'[i] = prefsItems[i]
                      /\ list'[i] = list[i] /\ list[i] # id
  /\ prefsItems'[n + 1].dirty /\ list'[n + 1] = id
  /\ DOMAIN dicts' = DOMAIN dicts \cup {id}
  /\ dicts'[id].enabled /\ dicts'[id].start = 0 /\ dicts'[id].key # ITunes
  /\ \A d \in DOMAIN dicts : d # id => dicts'[d] = dicts[d]
  /\ id \in 0 .. MaxId
  /\ due' = [due EXCEPT ![id] = 0]
  /\ touched' = touched \ {id}

LEMMA ItemAdded ==
  ASSUME TypeInv, TypeInv', ListInv, ListInv', AddItem
  PROVE  Added(prefsMax + 2, Len(prefsItems))
  <1> SUFFICES ASSUME NEW id, id = prefsMax + 2, NEW n, n = Len(prefsItems)
               PROVE  Added(id, n)
    OBVIOUS
  <1>1. PICK key \in NotListed :
          /\ id <= MaxId /\ prefs # "off"
          /\ prefsItems' = Append(prefsItems, NewItem(id, key, TRUE))
          /\ dicts' = Saved(dicts, {NewItem(id, key, TRUE)})
          /\ due' = [due EXCEPT ![id] = 0]
          /\ touched' = touched \ {id}
          /\ UNCHANGED <<converted, prefs, engineVars, confirmed>>
    BY DEF AddItem, AddWithId, Edit
  <1> DEFINE item == NewItem(id, key, TRUE)
  <1>2. /\ item \in Item /\ item.id = id /\ item.enabled /\ item.dirty /\ item.start = 0
        /\ item.key # ITunes /\ id \in 0 .. MaxId
    <2>1. id \in 0 .. MaxId /\ key \in Keys /\ key # ITunes /\ key # Photo
      BY <1>1, ItemsAssumption DEF TypeInv, TypeOK, NotListed, Keys
    <2>2. item \in Item
      BY <2>1, NewItemType, ItemsAssumption DEF ItemUpTo, Item
    <2> QED BY <2>1, <2>2 DEF NewItem
  <1>3. prefsItems' = Append(prefsItems, item) /\ dicts' = Saved(dicts, {item})
    BY <1>1
  <1> HIDE DEF item
  <1>4. /\ n \in Nat /\ DOMAIN prefsItems = 1 .. n /\ DOMAIN prefsItems' = 1 .. n + 1
        /\ prefsItems'[n + 1] = item
        /\ \A i \in 1 .. n : prefsItems'[i] = prefsItems[i]
    <2>1. prefsItems \in Seq(Item)
      BY DEF TypeInv, TypeOK
    <2> QED BY <1>2, <1>3, <2>1
  <1>5. /\ converted' /\ DOMAIN list = 1 .. n /\ DOMAIN list' = 1 .. n + 1
        /\ \A i \in 1 .. n : prefsItems[i].id = list[i]
        /\ \A i \in 1 .. n + 1 : prefsItems'[i].id = list'[i]
    <2>1. PrefsStored /\ PrefsStored'
      BY PrefsIndex, PTL
    <2> QED BY <1>1, <1>4, <2>1 DEF PrefsStored
  <1>6. \A i \in 1 .. n : list'[i] = list[i] /\ list'[i] # list'[n + 1]
    <2>1. \A i \in 1 .. n : i \in DOMAIN list' /\ i # n + 1 /\ n + 1 \in DOMAIN list'
      BY <1>4, <1>5
    <2>2. \A i, j \in DOMAIN list' : list'[i] = list'[j] => i = j
      BY <1>5 DEF ListInv, Stored
    <2>3. \A i \in 1 .. n : list'[i] = list[i]
      BY <1>4, <1>5, <2>1
    <2> QED BY <2>1, <2>2, <2>3
  <1>7. list'[n + 1] = id
    <2>1. n + 1 \in 1 .. n + 1
      BY <1>4
    <2> QED BY <1>2, <1>4, <1>5, <2>1
  <1>8. /\ DOMAIN dicts' = DOMAIN dicts \cup {id}
        /\ dicts'[id].enabled /\ dicts'[id].start = 0 /\ dicts'[id].key # ITunes
        /\ \A d \in DOMAIN dicts \ {id} : dicts'[d] = dicts[d]
    <2>1. StoreOf(dicts)
      BY DEF TypeInv, TypeOK, StoreOf
    <2>2. SavedDict(item).enabled /\ SavedDict(item).start = 0 /\ SavedDict(item).key # ITunes
      BY <1>2 DEF SavedDict
    <2>3. /\ DOMAIN Saved(dicts, {item}) = DOMAIN dicts \cup {item.id}
          /\ Saved(dicts, {item})[item.id] = SavedDict(item)
          /\ \A d \in DOMAIN dicts \ {item.id} : Saved(dicts, {item})[d] = dicts[d]
      BY <1>2, <2>1, StoredOne
    <2> QED BY <1>2, <1>3, <2>2, <2>3
  <1> QED BY <1>1, <1>2, <1>4, <1>5, <1>6, <1>7, <1>8 DEF Added

(* What -removeSearchParamItem:sync: leaves. *)
LEMMA ItemRemoved ==
  ASSUME TypeInv, TypeInv', ListInv, ListInv', RemoveItem, NEW i \in DOMAIN list'
  PROVE  \E j \in DOMAIN list :
           /\ prefsItems'[i] = prefsItems[j]
           /\ prefsItems[j].id = list[j]
           /\ list'[i] = list[j]
           /\ list[j] \in DOMAIN dicts /\ dicts'[list[j]] = dicts[list[j]]
  <1>1. PICK r \in DOMAIN prefsItems :
          /\ prefsItems' = Without(prefsItems, r)
          /\ dicts' = [d \in DOMAIN dicts \ {prefsItems[r].id} |-> dicts[d]]
          /\ prefs # "off" /\ prefs' # "off"
    BY DEF RemoveItem, Edit
  <1>2. PrefsStored /\ PrefsStored'
    BY PrefsIndex, PTL
  <1>3. prefsItems \in Seq(Item) /\ prefsItems' \in Seq(Item)
    BY DEF TypeInv, TypeOK
  <1>4. /\ Len(prefsItems') = Len(prefsItems) - 1
        /\ \A j \in 1 .. Len(prefsItems) - 1 :
             prefsItems'[j] = IF j < r THEN prefsItems[j] ELSE prefsItems[j + 1]
    BY <1>1, <1>3, WithoutProperties
  <1>5. i \in 1 .. Len(prefsItems) - 1
    <2>1. i \in DOMAIN prefsItems'
      BY <1>1, <1>2 DEF PrefsStored
    <2> QED BY <1>3, <1>4, <2>1
  <1>6. \E j \in DOMAIN prefsItems : prefsItems'[i] = prefsItems[j]
    <2>1. i \in DOMAIN prefsItems /\ i + 1 \in DOMAIN prefsItems
      BY <1>3, <1>5
    <2> QED BY <1>4, <1>5, <2>1
  <1>7. PICK j \in DOMAIN prefsItems : prefsItems'[i] = prefsItems[j]
    BY <1>6
  <1>8. list'[i] = prefsItems'[i].id /\ list'[i] \in DOMAIN dicts'
    BY <1>1, <1>2 DEF PrefsStored
  <1>9. j \in DOMAIN list /\ prefsItems[j].id = list[j] /\ list[j] \in DOMAIN dicts
    BY <1>1, <1>2 DEF PrefsStored
  <1> QED BY <1>1, <1>7, <1>8, <1>9

(* Adding stores an enabled item; removing takes the promise back. *)
LEMMA ListsKeepEnabled ==
  ASSUME TypeInv, TypeInv', ListInv, ListInv', EnabledInv, AddItem \/ RemoveItem
  PROVE  EnabledInv'
  <1>1. prefs # "off" /\ prefs' # "off" /\ UNCHANGED <<engineItems, current>>
    BY DEF AddItem, RemoveItem, AddWithId, Edit, engineVars
  <1>2. current' # 0 => engineItems'[current'].enabled
    BY <1>1 DEF EnabledInv, ItemEnabled
  <1>3. PrefsStored /\ PrefsStored'
    BY PrefsIndex, PTL
  <1>4. CASE AddItem
    <2>1. PICK id, n : Added(id, n)
      BY <1>4, ItemAdded
    <2>2. SomeEnabled'
      BY <2>1 DEF Added, SomeEnabled
    <2>3. ASSUME NEW i \in DOMAIN prefsItems', prefsItems'[i].enabled, ~prefsItems'[i].dirty
          PROVE  dicts'[prefsItems'[i].id].enabled
      <3>1. i \in 1 .. n
        BY <2>1, <2>3 DEF Added
      <3>2. dicts[prefsItems[i].id].enabled
        BY <1>1, <2>1, <2>3, <3>1 DEF Added, EnabledInv, ItemEnabled
      <3> QED BY <1>1, <1>3, <2>1, <3>1, <3>2 DEF Added, PrefsStored
    <2> QED BY <1>2, <2>2, <2>3 DEF EnabledInv, ItemEnabled
  <1>5. CASE RemoveItem
    <2>1. ~confirmed'
      BY <1>5 DEF RemoveItem
    <2>2. ASSUME NEW i \in DOMAIN prefsItems', prefsItems'[i].enabled, ~prefsItems'[i].dirty
          PROVE  dicts'[prefsItems'[i].id].enabled
      <3>1. i \in DOMAIN list'
        BY <1>1, <1>3 DEF PrefsStored
      <3>2. PICK j \in DOMAIN list :
              /\ prefsItems'[i] = prefsItems[j]
              /\ prefsItems[j].id = list[j]
              /\ dicts'[list[j]] = dicts[list[j]]
        BY <1>5, <3>1, ItemRemoved
      <3>3. j \in DOMAIN prefsItems
        BY <1>1, <1>3 DEF PrefsStored
      <3>4. dicts[prefsItems[j].id].enabled
        BY <1>1, <2>2, <3>2, <3>3 DEF EnabledInv, ItemEnabled
      <3> QED BY <3>2, <3>4
    <2> QED BY <1>2, <2>1, <2>2 DEF EnabledInv, ItemEnabled, SomeEnabled
  <1> QED BY <1>4, <1>5

(* OK is refused when all boxes are empty: one that is not is stored. *)
LEMMA OkKeepsEnabled ==
  ASSUME TypeInv, TypeInv', ListInv, ListInv', EnabledInv, OkPressed
  PROVE  EnabledInv'
  <1>1. /\ SheetSaved /\ CheckHasEnabled /\ prefs # "off" /\ prefs' # "off"
        /\ prefsItems' = Clean(prefsItems)
        /\ UNCHANGED <<engineItems, current>>
    BY DEF OkPressed, SheetSaved, SaveSettings, engineVars
  <1>2. /\ DOMAIN prefsItems' = DOMAIN list'
        /\ \A i \in DOMAIN prefsItems' : prefsItems'[i].id = list'[i] /\ list'[i] \in DOMAIN dicts'
    <2>1. PrefsStored /\ PrefsStored'
      BY PrefsIndex, PTL
    <2> QED BY <1>1, <2>1 DEF PrefsStored
  <1>3. /\ DOMAIN prefsItems' = DOMAIN prefsItems
        /\ \A i \in DOMAIN prefsItems :
             /\ prefsItems'[i].id = prefsItems[i].id
             /\ prefsItems'[i].enabled = prefsItems[i].enabled
    <2>1. Item = ItemUpTo(MaxId) /\ MaxId \in Nat /\ prefsItems \in Seq(Item)
      BY ItemsAssumption DEF Item, ItemUpTo, TypeInv, TypeOK
    <2>2. DOMAIN Clean(prefsItems) = DOMAIN prefsItems
      BY DEF Clean
    <2> QED BY <1>1, <2>1, <2>2, CleanType
  <1>4. ASSUME NEW i \in DOMAIN prefsItems, prefsItems[i].enabled
        PROVE  dicts'[prefsItems[i].id].enabled
    <2>1. dicts'[prefsItems[i].id] =
            IF prefsItems[i].dirty THEN SavedDict(prefsItems[i]) ELSE dicts[prefsItems[i].id]
      BY <1>1, SettingsStored
    <2>2. ~prefsItems[i].dirty => dicts[prefsItems[i].id].enabled
      BY <1>1, <1>4 DEF EnabledInv, ItemEnabled
    <2>3. SavedDict(prefsItems[i]).enabled
      BY <1>4 DEF SavedDict
    <2> QED BY <2>1, <2>2, <2>3
  <1>5. SomeEnabled'
    <2>1. PICK i \in DOMAIN prefsItems : prefsItems[i].enabled
      BY <1>1 DEF CheckHasEnabled
    <2>2. /\ i \in DOMAIN list' /\ list'[i] = prefsItems[i].id
          /\ prefsItems[i].id \in DOMAIN dicts' /\ dicts'[prefsItems[i].id].enabled
      BY <1>2, <1>3, <1>4, <2>1
    <2> QED BY <2>2 DEF SomeEnabled
  <1>6. current' # 0 => engineItems'[current'].enabled
    BY <1>1 DEF EnabledInv, ItemEnabled
  <1> QED BY <1>3, <1>4, <1>5, <1>6 DEF EnabledInv, ItemEnabled

(* A process that starts has what is stored, and the first one stores it. *)
LEMMA StartsEnabled ==
  ASSUME TypeInv, TypeInv', ListInv, ListInv', EnabledInv, PrefsStarts \/ EngineStarts
  PROVE  EnabledInv'
  <1>1. InitOptions /\ UNCHANGED confirmed
    BY DEF PrefsStarts, EngineStarts
  <1>2. /\ DOMAIN Options = 1 .. Len(list') /\ DOMAIN list' = 1 .. Len(list')
        /\ \A i \in DOMAIN Options :
             /\ list'[i] = Options[i].id
             /\ dicts'[list'[i]].enabled = Options[i].enabled
    <2>1. TypeOK
      BY DEF TypeInv
    <2>2. DOMAIN Options = 1 .. Len(list')
      BY <1>1, <2>1, Started DEF ListInv
    <2>3. \A i \in DOMAIN Options :
             /\ list'[i] = Options[i].id
             /\ dicts'[list'[i]].enabled = Options[i].enabled
      BY <1>1, <2>1, Started DEF ListInv
    <2> QED BY <2>2, <2>3 DEF TypeInv, TypeOK
  <1>3. SomeEnabled'
    <2>1. CASE converted
      BY <1>1, <2>1 DEF InitOptions, store, EnabledInv, SomeEnabled
    <2>2. CASE ~converted
      <3>1. Options[1].enabled /\ Len(Options) = Len(Legacy) + 2
        BY <2>2, FirstOptions DEF TypeInv, ListInv
      <3>2. 1 \in DOMAIN Options /\ converted'
        <4>1. Len(Options) = Len(list') /\ converted'
          BY <1>1, <2>2, Started DEF TypeInv, ListInv, InitOptions
        <4> QED BY <1>2, <3>1, <4>1, Domains DEF TypeInv
      <3>3. dicts'[list'[1]].enabled /\ 1 \in DOMAIN list' /\ list'[1] \in DOMAIN dicts'
        BY <1>2, <3>1, <3>2 DEF ListInv, Stored
      <3> QED BY <3>3 DEF SomeEnabled
    <2> QED BY <2>1, <2>2
  <1>4. current' # 0 => engineItems'[current'].enabled
    BY DEF PrefsStarts, EngineStarts, engineVars, EnabledInv, ItemEnabled
  <1>5. prefs' # "off" =>
          \A i \in DOMAIN prefsItems' :
            prefsItems'[i].enabled /\ ~prefsItems'[i].dirty => dicts'[prefsItems'[i].id].enabled
    <2>1. CASE PrefsStarts
      BY <1>2, <2>1 DEF PrefsStarts
    <2>2. CASE EngineStarts
      <3>1. prefs # "off" => UNCHANGED store
        BY <1>1 DEF InitOptions, ListInv, Stored
      <3> QED BY <2>2, <3>1 DEF EngineStarts, prefsVars, store, EnabledInv, ItemEnabled
    <2> QED BY <2>1, <2>2
  <1> QED BY <1>3, <1>4, <1>5 DEF EnabledInv, ItemEnabled

(* Every action keeps what is stored enabled. *)
LEMMA NextEnabledInv ==
  TypeInv /\ TypeInv' /\ ListInv /\ ListInv' /\ EnabledInv /\ [Next]_vars => EnabledInv'
  <1> SUFFICES ASSUME TypeInv, TypeInv', ListInv, ListInv', EnabledInv, [Next]_vars
               PROVE  EnabledInv'
    OBVIOUS
  <1>0. TypeOK /\ TypeOK'
    BY DEF TypeInv
  <1>1. CASE UNCHANGED vars
    BY <1>1
      DEF vars, store, prefsVars, engineVars, history, EnabledInv, ItemEnabled,
        SomeEnabled
  <1>2. CASE PrefsStarts \/ EngineStarts
    BY <1>2, StartsEnabled
  <1>3. CASE CheckBox \/ EnableAllPressed \/ MinSizeEdited \/ PreviewAsksITunes
    BY <1>3, EditsKeepEnabled
  <1>4. CASE AddItem \/ RemoveItem
    BY <1>4, ListsKeepEnabled
  <1>5. CASE OkPressed
    BY <1>5, OkKeepsEnabled
  <1>6. CASE PrefsEnds \/ SheetOpens \/ AddRefused \/ CancelPressed
    BY <1>6 DEF PrefsEnds, SheetOpens, AddRefused, CancelPressed, Edit,
      store, engineVars, history, EnabledInv, ItemEnabled, SomeEnabled
  <1>7. CASE EngineEnds \/ SearchFails
    BY <1>7
      DEF EngineEnds, SearchFails, store, prefsVars, history, EnabledInv, ItemEnabled,
        SomeEnabled
  <1>8. CASE CheckSearchItem
    <2>1. current' # 0 => engineItems[current'].enabled
      <3>1. PICK playing \in BOOLEAN : current' \in RandomItems(playing)
        BY <1>8 DEF CheckSearchItem
      <3> QED BY <3>1 DEF RandomItems, EnabledInv, ItemEnabled
    <2> QED BY <1>8, <2>1 DEF CheckSearchItem, store, prefsVars, history,
      EnabledInv, ItemEnabled, SomeEnabled
  <1>9. CASE TriggerSearch
    <2> DEFINE s == Cycled(engineItems[current].start)
               new == [engineItems[current] EXCEPT !.start = s]
    <2>1. current # 0 /\ engineItems' = [engineItems EXCEPT ![current] = new]
          /\ UNCHANGED <<store, prefsVars, current, steps, history>>
      BY <1>9 DEF TriggerSearch, SearchFrom
    <2>2. current \in DOMAIN engineItems /\ engineItems[current] \in Item
      BY <2>1 DEF TypeInv, TypeOK
    <2>3. new.enabled
      BY <2>1, <2>2 DEF Item, EnabledInv, ItemEnabled
    <2> HIDE DEF new
    <2>4. engineItems'[current].enabled
      BY <2>1, <2>2, <2>3
    <2> QED BY <2>1, <2>4
      DEF store, prefsVars, history, EnabledInv, ItemEnabled, SomeEnabled
  <1>10. CASE CheckResults
    <2> DEFINE old == engineItems[current]
    <2>1. PICK end \in BOOLEAN :
            LET new == [old EXCEPT !.start = Results(old, end), !.dirty = TRUE]
            IN /\ engineItems' = [engineItems EXCEPT ![current] = new]
               /\ dicts' = Saved(dicts, {new})
      BY <1>10 DEF CheckResults, Answered
    <2> DEFINE new == [old EXCEPT !.start = Results(old, end), !.dirty = TRUE]
    <2>2. /\ current # 0 /\ current \in DOMAIN engineItems /\ old \in Item
          /\ UNCHANGED <<list, converted, prefsVars, current, confirmed>>
      BY <1>10, <1>0 DEF CheckResults, Answered, TypeInv, Searching, TypeOK
    <2>3. new.enabled
      BY <2>2 DEF Item, EnabledInv, ItemEnabled
    <2>4. engineItems' = [engineItems EXCEPT ![current] = new] /\ dicts' = Saved(dicts, {new})
      BY <2>1
    <2> HIDE DEF new
    <2>5. engineItems'[current] = new
      BY <2>2, <2>4
    <2>6. new \in Item
      BY <2>2, <2>5, ItemIds, <1>0 DEF TypeOK
    <2>7. \A d \in DOMAIN dicts :
            d \in DOMAIN dicts' /\ (dicts[d].enabled => dicts'[d].enabled)
      <3>1. StoreOf(dicts) /\ SavedDict(new).enabled
        BY <1>0, <2>3 DEF TypeOK, StoreOf, SavedDict
      <3>2. /\ DOMAIN Saved(dicts, {new}) = DOMAIN dicts \cup {new.id}
            /\ Saved(dicts, {new})[new.id] = SavedDict(new)
            /\ \A d \in DOMAIN dicts \ {new.id} : Saved(dicts, {new})[d] = dicts[d]
        BY <2>6, <3>1, StoredOne
      <3> QED BY <2>4, <3>1, <3>2
    <2>8. converted
      BY <1>10 DEF CheckResults, Answered, ListInv, Stored
    <2> QED BY <2>2, <2>3, <2>5, <2>7, <2>8, SameEnabled DEF prefsVars
  <1>11. CASE HoursPass
    <2>1. \A it \in Item : /\ Aged(it).id = it.id /\ Aged(it).enabled = it.enabled
                          /\ Aged(it).dirty = it.dirty
      BY DEF Aged, Item
    <2>2. current' # 0 => engineItems'[current'].enabled
      <3>1. current # 0 => /\ current \in DOMAIN engineItems /\ engineItems[current] \in Item
                           /\ engineItems[current].enabled
        BY <1>0 DEF TypeOK, EnabledInv, ItemEnabled
      <3> QED BY <1>11, <2>1, <3>1 DEF HoursPass
    <2>3. CASE converted
      <3>1. \A d \in DOMAIN dicts : d \in DOMAIN dicts' /\ dicts'[d].enabled = dicts[d].enabled
        BY <1>0, <1>11 DEF HoursPass, Aged, TypeOK, Dict
      <3>2. /\ DOMAIN prefsItems' = DOMAIN prefsItems
            /\ \A i \in DOMAIN prefsItems :
                 /\ prefsItems'[i].id = prefsItems[i].id
                 /\ prefsItems'[i].enabled = prefsItems[i].enabled
                 /\ prefsItems'[i].dirty = prefsItems[i].dirty
        BY <1>0, <1>11, <2>1 DEF HoursPass, TypeOK
      <3>3. Len(prefsItems') = Len(prefsItems)
        BY <1>0, <3>2 DEF TypeOK
      <3>4. UNCHANGED <<list, confirmed, prefs>>
        BY <1>11 DEF HoursPass
      <3> QED BY <2>2, <2>3, <3>1, <3>2, <3>3, <3>4, SameEnabled
    <2>4. CASE ~converted
      <3>1. ~converted' /\ prefs' = "off"
        BY <1>11, <2>4 DEF HoursPass, ListInv, Stored
      <3> QED BY <2>2, <3>1 DEF EnabledInv, ItemEnabled, SomeEnabled
    <2> QED BY <2>3, <2>4
  <1> QED BY <1>1, <1>2, <1>3, <1>4, <1>5, <1>6, <1>7, <1>8, <1>9, <1>10, <1>11
    DEF Next, Prefs, Engine

(* "At least one search item must be enabled" in what is stored, whatever   *)
(* the screen saver saves beside it: it saves only what it has chosen, and  *)
(* -getRandomItem chooses only what is enabled.                             *)
THEOREM SomeEnabledCorrect ==
  ASSUME ~Upgraded
  PROVE  Spec => []SomeEnabled
  <1>1. Init => ListInv
    BY InitListInv
  <1>2. Init => EnabledInv
    BY DEF Init, EnabledInv, ItemEnabled, SomeEnabled
  <1>3. EnabledInv => SomeEnabled
    BY DEF EnabledInv
  <1> QED BY <1>1, <1>2, <1>3, InitTypeInv, NextTypeInv, NextListInv, NextEnabledInv, PTL
    DEF Spec

(* A position from which the page asked for next is the one due.            *)
NextPage(id, start, d, t) ==
  Cycled(start) \in {NoStart, d[id]} \/ id \in t

DictsInOrder ==
  /\ \A d \in DOMAIN dicts : dicts[d].key = ITunes => dicts[d].start = 0
  /\ \A i \in DOMAIN list :
       dicts[list[i]].key # ITunes => NextPage(list[i], dicts[list[i]].start, due, touched)

EngineInOrder ==
  /\ engine = "off" => engineItems = <<>>
  /\ \A i \in DOMAIN engineItems : NextPage(engineItems[i].id, engineItems[i].start, due, touched)

OrderInv == DictsInOrder /\ EngineInOrder

(* A position that has gone back to the first page stays there. *)
LEMMA CycledTwice ==
  ASSUME NEW s \in Starts
  PROVE  /\ Cycled(Cycled(s)) = Cycled(s)
         /\ Cycled(s) \in Starts /\ Cycled(s) <= MaxQueryStart
         /\ Cycled(0) = 0 /\ Cycled(NoStart) = NoStart
  BY ItemsAssumption DEF Cycled, Starts, NoStart

(* The very first start stores nothing but what it has made. *)
LEMMA FirstStored ==
  ASSUME TypeOK, Stored, InitOptions, ~converted
  PROVE  \A d \in DOMAIN dicts' : \E i \in DOMAIN Options : Options[i].id = d
  <1>1. dicts' = Saved(dicts, Elements(Options)) /\ DOMAIN dicts = {}
    BY DEF InitOptions, Stored
  <1>2. StoreOf(dicts) /\ Elements(Options) \in SUBSET Item
    BY OptionsFit DEF InitOptions, TypeOK, StoreOf, Elements
  <1>3. DOMAIN dicts' = DOMAIN dicts \cup {it.id : it \in Elements(Options)}
    BY <1>1, <1>2, SavedProperties
  <1> QED BY <1>1, <1>3 DEF Elements

(* at the positions of new items. *)
LEMMA FirstStarts ==
  ASSUME TypeOK, Stored, ~converted, NEW i \in DOMAIN Options, Options \in Seq(Item)
  PROVE  Options[i].start \in {0, NoStart} /\ (Options[i].key = ITunes => Options[i].start = 0)
  <1>1. i \in 1 .. Len(Legacy) + 2 /\ Len(Legacy) \in Nat
    <2>1. Len(Options) = Len(Legacy) + 2
      BY FirstOptions
    <2> QED BY <2>1, Domains
  <1>2. CASE i <= 2
    <2>1. i = 1 \/ i = 2
      BY <1>1, <1>2
    <2> QED BY <2>1, FirstOptions, ItemsAssumption
  <1>3. CASE i > 2
    <2>1. i - 2 \in DOMAIN Legacy /\ (i - 2) + 2 = i
      BY <1>1, <1>3, Domains
    <2>2. Options[(i - 2) + 2].start = 0
      BY <2>1, FirstOptions
    <2> QED BY <2>1, <2>2
  <1> QED BY <1>1, <1>2, <1>3

(* What a process that starts finds, or makes, is in order. *)
LEMMA StartsInOrder ==
  ASSUME TypeInv, TypeInv', ListInv, ListInv', OrderInv, PrefsStarts \/ EngineStarts
  PROVE  OrderInv'
  <1>0. TypeOK /\ TypeOK' /\ Stored /\ Stored' /\ InitOptions /\ touched' = touched
    BY DEF TypeInv, ListInv, PrefsStarts, EngineStarts
  <1>1. /\ DOMAIN Options = DOMAIN list' /\ Options \in Seq(Item)
        /\ \A i \in DOMAIN Options :
             /\ list'[i] = Options[i].id
             /\ dicts'[list'[i]].key = Options[i].key
             /\ dicts'[list'[i]].start = Options[i].start
    <2>1. DOMAIN Options = 1 .. Len(list')
      BY <1>0, Started
    <2>2. \A i \in DOMAIN Options :
             /\ list'[i] = Options[i].id
             /\ dicts'[list'[i]].key = Options[i].key
             /\ dicts'[list'[i]].start = Options[i].start
      BY <1>0, Started
    <2>3. Options \in Seq(Item)
      BY <1>0, OptionsFit DEF InitOptions
    <2> QED BY <1>0, <2>1, <2>2, <2>3 DEF TypeOK
  <1>2. \A d \in DOMAIN dicts' : dicts'[d].key = ITunes => dicts'[d].start = 0
    <2>1. CASE converted
      BY <1>0, <2>1 DEF InitOptions, store, OrderInv, DictsInOrder
    <2>2. CASE ~converted
      <3> SUFFICES ASSUME NEW d \in DOMAIN dicts', dicts'[d].key = ITunes
                   PROVE  dicts'[d].start = 0
        OBVIOUS
      <3>1. PICK i \in DOMAIN Options : Options[i].id = d
        BY <1>0, <2>2, FirstStored
      <3> QED BY <1>0, <1>1, <2>2, <3>1, FirstStarts
    <2> QED BY <2>1, <2>2
  <1>3. ASSUME NEW i \in DOMAIN Options, Options[i].key # ITunes
        PROVE  NextPage(Options[i].id, Options[i].start, due, touched)
    <2>1. CASE converted
      <3>1. list' = list /\ dicts' = dicts
        BY <1>0, <2>1 DEF InitOptions, store
      <3> QED BY <1>1, <1>3, <3>1 DEF OrderInv, DictsInOrder
    <2>2. CASE ~converted
      <3>1. Options[i].start \in {0, NoStart}
        BY <1>0, <1>1, <2>2, FirstStarts
      <3>2. due[Options[i].id] = 0
        <4>1. Options[i] \in Item
          BY <1>1
        <4>2. Options[i].id \in 0 .. MaxId
          BY <4>1 DEF Item
        <4> QED BY <1>0, <2>2, <4>2 DEF Stored
      <3> QED BY <3>1, <3>2, CycledTwice, StartsKnown DEF NextPage
    <2> QED BY <2>1, <2>2
  <1>4. CASE PrefsStarts
    <2>1. due' = due /\ engineItems' = <<>>
      BY <1>4 DEF PrefsStarts, engineVars, OrderInv, EngineInOrder
    <2>2. \A i \in DOMAIN list' :
            dicts'[list'[i]].key # ITunes => NextPage(list'[i], dicts'[list'[i]].start, due', touched')
      BY <1>0, <1>1, <1>3, <2>1 DEF NextPage
    <2> QED BY <1>2, <2>1, <2>2 DEF OrderInv, DictsInOrder, EngineInOrder
  <1>5. CASE EngineStarts
    <2>1. /\ engine' # "off" /\ engineItems' = Options
          /\ due' = [d \in 0 .. MaxId |->
                      IF \E it \in Elements(Options) : it.id = d /\ it.key = ITunes
                        THEN 0 ELSE due[d]]
      BY <1>5 DEF EngineStarts
    <2>2. \A i, j \in DOMAIN Options : Options[i].id = Options[j].id => i = j
      <3>1. converted'
        BY <1>0 DEF InitOptions, store
      <3> QED BY <1>0, <1>1, <3>1 DEF Stored
    <2>3. ASSUME NEW i \in DOMAIN Options
          PROVE  Cycled(Options[i].start) \in {NoStart, due'[Options[i].id]} \/ Options[i].id \in touched'
      <3>1. Options[i].id \in 0 .. MaxId
        <4>1. Options[i] \in Item
          BY <1>1
        <4> QED BY <4>1 DEF Item
      <3>2. CASE Options[i].key = ITunes
        <4>1. \E it \in Elements(Options) : it.id = Options[i].id /\ it.key = ITunes
          BY <3>2 DEF Elements
        <4>2. due'[Options[i].id] = 0
          BY <2>1, <3>1, <4>1
        <4>3. Options[i].start = 0
          <5>1. list'[i] \in DOMAIN dicts'
            BY <1>0, <1>1 DEF Stored, InitOptions, store
          <5> QED BY <1>1, <1>2, <3>2, <5>1
        <4> QED BY <4>2, <4>3, CycledTwice, StartsKnown
      <3>3. CASE Options[i].key # ITunes
        <4>1. ~ \E it \in Elements(Options) : it.id = Options[i].id /\ it.key = ITunes
          BY <2>2, <3>3 DEF Elements
        <4>2. due'[Options[i].id] = due[Options[i].id]
          BY <2>1, <3>1, <4>1
        <4> QED BY <1>0, <1>3, <3>3, <4>2 DEF NextPage
      <3> QED BY <3>2, <3>3
    <2>4. EngineInOrder'
      BY <2>1, <2>3 DEF EngineInOrder, NextPage
    <2>5. DictsInOrder'
      BY <1>1, <1>2, <2>3 DEF DictsInOrder, NextPage
    <2> QED BY <2>4, <2>5 DEF OrderInv
  <1> QED BY <1>4, <1>5

(* A new item is due from its first page; its identifier is that of no item *)
(* of the screen saver.                                                     *)
LEMMA AddKeepsOrder ==
  ASSUME TypeInv, TypeInv', ListInv, ListInv', OrderInv, AddItem
  PROVE  OrderInv'
  <1>1. Added(prefsMax + 2, Len(prefsItems)) /\ UNCHANGED engineVars /\ prefs # "off"
    BY ItemAdded DEF AddItem, AddWithId, Edit
  <1>2. \A i \in DOMAIN engineItems : engine # "off" =>
          engineItems[i].id # prefsMax + 2 /\ engineItems[i].id \in 0 .. MaxId
    <2>1. ASSUME NEW i \in DOMAIN engineItems, engine # "off"
          PROVE  engineItems[i].id # prefsMax + 2 /\ engineItems[i].id \in 0 .. MaxId
      <3>1. engineItems[i].id <= prefsMax
        BY <1>1, <2>1 DEF ListInv, EngineList
      <3>2. engineItems[i] \in Item /\ prefsMax \in Int
        BY DEF TypeInv, TypeOK
      <3> QED BY <3>1, <3>2 DEF Item
    <2> QED BY <2>1
  <1>3. PICK id, n : /\ Added(id, n)
                     /\ engine # "off" => \A i \in DOMAIN engineItems :
                          engineItems[i].id # id /\ engineItems[i].id \in 0 .. MaxId
    BY <1>1, <1>2
  <1>4. /\ due'[id] = 0
        /\ \A d \in 0 .. MaxId : d # id =>
             due'[d] = due[d] /\ (d \in touched' <=> d \in touched)
    BY <1>3 DEF Added, TypeInv, TypeOK
  <1>5. \A d \in DOMAIN dicts' : dicts'[d].key = ITunes => dicts'[d].start = 0
    BY <1>3 DEF Added, OrderInv, DictsInOrder
  <1>6. ASSUME NEW i \in DOMAIN list', dicts'[list'[i]].key # ITunes
        PROVE  NextPage(list'[i], dicts'[list'[i]].start, due', touched')
    <2>1. CASE i = n + 1
      BY <1>3, <1>4, <2>1, CycledTwice, StartsKnown DEF Added, NextPage
    <2>2. CASE i \in 1 .. n
      <3>1. list[i] \in DOMAIN dicts /\ list'[i] = list[i] /\ list[i] # id /\ list[i] \in 0 .. MaxId
        BY <1>1, <1>3, <2>2 DEF Added, ListInv, Stored, TypeInv, TypeOK
      <3>2. dicts'[list[i]] = dicts[list[i]]
        BY <1>3, <3>1 DEF Added
      <3>3. NextPage(list[i], dicts[list[i]].start, due, touched)
        BY <1>3, <1>6, <2>2, <3>1, <3>2 DEF Added, OrderInv, DictsInOrder
      <3> QED BY <1>4, <3>1, <3>2, <3>3 DEF NextPage
    <2> QED BY <1>3, <2>1, <2>2 DEF Added
  <1>7. EngineInOrder'
    BY <1>1, <1>3, <1>4 DEF engineVars, OrderInv, EngineInOrder, NextPage
  <1> QED BY <1>5, <1>6, <1>7 DEF OrderInv, DictsInOrder

(* What remains is where it was. *)
LEMMA RemoveKeepsOrder ==
  ASSUME TypeInv, TypeInv', ListInv, ListInv', OrderInv, RemoveItem
  PROVE  OrderInv'
  <1>1. /\ UNCHANGED <<engineVars, due, touched>>
        /\ \A d \in DOMAIN dicts' : d \in DOMAIN dicts /\ dicts'[d] = dicts[d]
    BY DEF RemoveItem
  <1>2. ASSUME NEW i \in DOMAIN list', dicts'[list'[i]].key # ITunes
        PROVE  NextPage(list'[i], dicts'[list'[i]].start, due', touched')
    <2>1. PICK j \in DOMAIN list : list'[i] = list[j] /\ dicts'[list[j]] = dicts[list[j]]
      BY ItemRemoved
    <2>2. NextPage(list[j], dicts[list[j]].start, due, touched)
      BY <1>2, <2>1 DEF OrderInv, DictsInOrder
    <2> QED BY <1>1, <2>1, <2>2 DEF NextPage
  <1> QED BY <1>1, <1>2 DEF engineVars, OrderInv, DictsInOrder, EngineInOrder, NextPage

(* OK stores older positions, of items that are then touched. *)
LEMMA OkKeepsOrder ==
  ASSUME TypeInv, TypeInv', ListInv, ListInv', OrderInv, OkPressed
  PROVE  OrderInv'
  <1>1. /\ SheetSaved /\ UNCHANGED <<engineVars, due>> /\ prefs # "off" /\ prefs' # "off"
        /\ touched' = touched \cup {it.id : it \in {it \in Elements(prefsItems) : it.dirty}}
    BY DEF OkPressed, SheetSaved, SaveSettings
  <1>2. /\ DOMAIN dicts' = DOMAIN dicts
        /\ \A i \in DOMAIN prefsItems :
             /\ prefsItems[i].id \in DOMAIN dicts
             /\ dicts'[prefsItems[i].id] =
                  IF prefsItems[i].dirty THEN SavedDict(prefsItems[i])
                    ELSE dicts[prefsItems[i].id]
        /\ \A d \in DOMAIN dicts :
             d \notin Ids(prefsItems) => dicts'[d] = dicts[d]
    BY <1>1, SettingsStored
  <1>3. list' = list /\ DOMAIN prefsItems = DOMAIN list
        /\ \A i \in DOMAIN list : prefsItems[i].id = list[i]
    <2>1. PrefsStored /\ PrefsStored'
      BY PrefsIndex, PTL
    <2>2. prefsItems' = Clean(prefsItems) /\ list' = IdsOf(prefsItems)
      BY <1>1 DEF SheetSaved, SaveSettings
    <2>3. list \in Seq(0 .. MaxId) /\ DOMAIN prefsItems = DOMAIN list
          /\ \A i \in DOMAIN list : prefsItems[i].id = list[i]
      BY <1>1, <2>1 DEF PrefsStored, TypeInv, TypeOK
    <2>4. list' = [i \in DOMAIN list |-> list[i]]
      BY <2>2, <2>3 DEF IdsOf
    <2> QED BY <2>3, <2>4
  <1>4. \A i \in DOMAIN prefsItems : prefsItems[i].dirty => prefsItems[i].id \in touched'
    BY <1>1 DEF Elements
  <1>5. ASSUME NEW d \in DOMAIN dicts', dicts'[d].key = ITunes
        PROVE  dicts'[d].start = 0
    <2>1. CASE dicts'[d] = dicts[d]
      BY <1>2, <1>5, <2>1 DEF OrderInv, DictsInOrder
    <2>2. CASE dicts'[d] # dicts[d]
      <3>1. PICK i \in DOMAIN prefsItems : prefsItems[i].id = d
        BY <1>2, <2>2 DEF Ids
      <3>2. dicts'[d] = SavedDict(prefsItems[i])
        BY <1>2, <2>2, <3>1
      <3> QED BY <1>5, <3>2 DEF SavedDict
    <2> QED BY <2>1, <2>2
  <1>6. ASSUME NEW i \in DOMAIN list', dicts'[list'[i]].key # ITunes
        PROVE  NextPage(list'[i], dicts'[list'[i]].start, due', touched')
    <2>1. CASE prefsItems[i].dirty
      BY <1>3, <1>4, <2>1 DEF NextPage
    <2>2. CASE ~prefsItems[i].dirty
      <3>1. dicts'[list[i]] = dicts[list[i]]
        BY <1>2, <1>3, <2>2
      <3>2. NextPage(list[i], dicts[list[i]].start, due, touched)
        BY <1>3, <1>6, <3>1 DEF OrderInv, DictsInOrder
      <3> QED BY <1>1, <1>3, <3>1, <3>2 DEF NextPage
    <2> QED BY <2>1, <2>2
  <1>7. EngineInOrder'
    BY <1>1 DEF engineVars, OrderInv, EngineInOrder, NextPage
  <1> QED BY <1>5, <1>6, <1>7 DEF OrderInv, DictsInOrder

(* The page asked for is the one due: what is counted changes later. *)
LEMMA TriggerKeepsOrder ==
  ASSUME TypeInv, TypeInv', ListInv, OrderInv, TriggerSearch
  PROVE  OrderInv'
  <1> DEFINE s == Cycled(engineItems[current].start)
             new == [engineItems[current] EXCEPT !.start = s]
  <1>1. /\ engine' # "off" /\ engineItems' = [engineItems EXCEPT ![current] = new]
        /\ UNCHANGED <<store, prefsVars, current, steps, history>>
    BY DEF TriggerSearch, SearchFrom
  <1>2. current \in DOMAIN engineItems /\ engineItems[current] \in Item
    BY DEF TriggerSearch, TypeInv, TypeOK
  <1>3. new.id = engineItems[current].id /\ new.start = s /\ Cycled(s) = s
    BY <1>2, CycledTwice DEF Item
  <1>4. NextPage(new.id, new.start, due, touched)
    BY <1>1, <1>2, <1>3 DEF OrderInv, EngineInOrder, NextPage
  <1> HIDE DEF new
  <1>5. \A i \in DOMAIN engineItems' : NextPage(engineItems'[i].id, engineItems'[i].start, due, touched)
    BY <1>1, <1>2, <1>4 DEF OrderInv, EngineInOrder
  <1> QED BY <1>1, <1>5
    DEF store, history, OrderInv, DictsInOrder, EngineInOrder, NextPage

(* A page that is counted is stored with the next position; one counted on  *)
(* another item touches both.                                               *)
LEMMA ResultsKeepOrder ==
  ASSUME TypeInv, TypeInv', ListInv, OrderInv, CheckResults
  PROVE  OrderInv'
  <1> DEFINE old == engineItems[current]
             asked == engineItems[searched]
  <1>1. PICK end \in BOOLEAN :
          LET new == [old EXCEPT !.start = Results(old, end), !.dirty = TRUE]
          IN /\ engineItems' = [engineItems EXCEPT ![current] = new]
             /\ dicts' = Saved(dicts, {new})
             /\ due' = [due EXCEPT ![asked.id] = Cycled(Results(asked, end))]
             /\ touched' = IF searched = current
                             THEN touched \ {new.id}
                             ELSE touched \cup {new.id, asked.id}
    BY DEF CheckResults, Answered
  <1> DEFINE new == [old EXCEPT !.start = Results(old, end), !.dirty = TRUE]
  <1>2. /\ engine # "off" /\ current \in DOMAIN engineItems /\ old \in Item
        /\ asked \in Item
        /\ UNCHANGED <<list, converted>> /\ engine' # "off"
    BY ItemIds DEF CheckResults, Answered, TypeInv, Searching, TypeOK
  <1>3. /\ engineItems' = [engineItems EXCEPT ![current] = new]
        /\ dicts' = Saved(dicts, {new})
        /\ due' = [due EXCEPT ![asked.id] = Cycled(Results(asked, end))]
        /\ touched' = IF searched = current
                        THEN touched \ {new.id}
                        ELSE touched \cup {new.id, asked.id}
    BY <1>1
  <1>4. new.id = old.id /\ new.key = old.key /\ new.start = Results(old, end)
    <2> HIDE DEF old
    <2> QED BY <1>2 DEF Item
  <1> HIDE DEF new
  <1>5. new \in Item /\ engineItems'[current] = new /\ DOMAIN engineItems' = DOMAIN engineItems
        /\ \A i \in DOMAIN engineItems : i # current => engineItems'[i] = engineItems[i]
    <2>1. engineItems'[current] = new /\ current \in DOMAIN engineItems'
      BY <1>2, <1>3
    <2> QED BY <1>2, <1>3, <2>1, ItemIds DEF TypeInv, TypeOK
  <1>6. /\ NextPage(new.id, new.start, due', touched')
        /\ \A d \in 0 .. MaxId \ {new.id} : \A p :
             NextPage(d, p, due, touched) => NextPage(d, p, due', touched')
    <2>1. new.id \in 0 .. MaxId /\ asked.id \in 0 .. MaxId
      BY <1>2, <1>5 DEF Item
    <2>2. due \in [0 .. MaxId -> Starts]
      BY DEF TypeInv, TypeOK
    <2>3. CASE searched = current
      <3>1. /\ due' = [due EXCEPT ![new.id] = Cycled(new.start)]
            /\ touched' = touched \ {new.id}
        BY <1>3, <1>4, <2>3
      <3> HIDE DEF asked, old
      <3> QED BY <2>1, <2>2, <3>1 DEF NextPage
    <2>4. CASE searched # current
      <3>1. touched' = touched \cup {new.id, asked.id}
        BY <1>3, <2>4
      <3> HIDE DEF asked, old
      <3>2. \A d \in 0 .. MaxId : d # asked.id => due'[d] = due[d]
        BY <1>3, <2>1, <2>2
      <3> QED BY <3>1, <3>2 DEF NextPage
    <2> QED BY <2>3, <2>4
  <1>7. /\ DOMAIN dicts' = DOMAIN dicts \cup {new.id}
        /\ dicts'[new.id] = SavedDict(new)
        /\ \A d \in DOMAIN dicts \ {new.id} : dicts'[d] = dicts[d]
    <2>1. StoreOf(dicts)
      BY DEF TypeInv, TypeOK, StoreOf
    <2> QED BY <1>3, <1>5, <2>1, StoredOne
  <1>8. \A d \in DOMAIN dicts' : dicts'[d].key = ITunes => dicts'[d].start = 0
    <2>1. SavedDict(new).key = ITunes => SavedDict(new).start = 0
      BY DEF SavedDict
    <2> QED BY <1>7, <2>1 DEF OrderInv, DictsInOrder
  <1>9. converted
    BY <1>2 DEF ListInv, Stored
  <1>10. ASSUME NEW i \in DOMAIN list', dicts'[list'[i]].key # ITunes
         PROVE  NextPage(list'[i], dicts'[list'[i]].start, due', touched')
    <2>1. i \in DOMAIN list /\ list'[i] = list[i] /\ list[i] \in DOMAIN dicts /\ list[i] \in 0 .. MaxId
      BY <1>2, <1>9 DEF ListInv, Stored, TypeInv, TypeOK
    <2>2. CASE list[i] = new.id
      <3>1. dicts'[list[i]].start = new.start
        BY <1>7, <1>10, <2>1, <2>2 DEF SavedDict
      <3> QED BY <1>6, <2>1, <2>2, <3>1
    <2>3. CASE list[i] # new.id
      <3>1. dicts'[list[i]] = dicts[list[i]]
        BY <1>7, <2>1, <2>3
      <3>2. NextPage(list[i], dicts[list[i]].start, due, touched)
        BY <1>10, <2>1, <3>1 DEF OrderInv, DictsInOrder
      <3> QED BY <1>6, <2>1, <2>3, <3>1, <3>2
    <2> QED BY <2>2, <2>3
  <1>11. ASSUME NEW i \in DOMAIN engineItems
         PROVE  NextPage(engineItems'[i].id, engineItems'[i].start, due', touched')
    <2>1. CASE i = current
      BY <1>5, <1>6, <2>1
    <2>2. CASE i # current
      <3>1. engineItems[i].id # new.id /\ engineItems[i].id \in 0 .. MaxId
        <4>1. engineItems[i].id # old.id
          BY <1>2, <2>2 DEF ListInv, EngineList
        <4>2. engineItems[i] \in Item
          BY DEF TypeInv, TypeOK
        <4> QED BY <1>4, <4>1, <4>2 DEF Item
      <3>2. NextPage(engineItems[i].id, engineItems[i].start, due, touched)
        BY <1>2 DEF OrderInv, EngineInOrder
      <3> QED BY <1>5, <1>6, <2>2, <3>1, <3>2
    <2> QED BY <2>1, <2>2
  <1> QED BY <1>2, <1>5, <1>8, <1>10, <1>11 DEF OrderInv, DictsInOrder, EngineInOrder

(* When the hours have passed a location is due from its only page. *)
LEMMA HoursKeepOrder ==
  ASSUME TypeInv, TypeInv', ListInv, ListInv', OrderInv, HoursPass
  PROVE  OrderInv'
  <1> DEFINE all == Elements(engineItems) \cup {LoadItem(d) : d \in DOMAIN dicts}
             located(id) == \E it \in all : it.id = id /\ it.key \in Locations
  <1>1. /\ DOMAIN dicts' = DOMAIN dicts /\ \A d \in DOMAIN dicts : dicts'[d] = Aged(dicts[d])
        /\ DOMAIN engineItems' = DOMAIN engineItems
        /\ \A i \in DOMAIN engineItems : engineItems'[i] = Aged(engineItems[i])
        /\ \A d \in 0 .. MaxId : due'[d] = IF located(d) THEN 0 ELSE due[d]
        /\ UNCHANGED <<list, converted, engine, touched>>
    BY DEF HoursPass
  <1>2. ASSUME NEW r \in Dict \cup Item
        PROVE  /\ Aged(r).key = r.key
               /\ r.key \in Locations => Aged(r).start = 0
               /\ r.key \notin Locations => Aged(r) = r
    BY DEF Aged, Dict, Item
  <1>3. /\ \A d \in DOMAIN dicts : dicts[d] \in Dict
        /\ \A i \in DOMAIN engineItems : engineItems[i] \in Item /\ engineItems[i].id \in 0 .. MaxId
    <2>1. \A it \in Item : it.id \in 0 .. MaxId
      BY DEF Item
    <2> QED BY <2>1 DEF TypeInv, TypeOK
  <1>4. \A d \in DOMAIN dicts : dicts[d].key \in Locations => located(d)
    <2>1. \A d \in DOMAIN dicts : LoadItem(d) \in all /\ LoadItem(d).id = d /\ LoadItem(d).key = dicts[d].key
      BY DEF LoadItem
    <2> QED BY <2>1
  <1>5. \A i \in DOMAIN engineItems : engineItems[i].key \in Locations => located(engineItems[i].id)
    BY DEF Elements
  <1>6. ASSUME NEW id, located(id)
        PROVE  \/ id \in DOMAIN dicts /\ dicts[id].key \in Locations
               \/ \E i \in DOMAIN engineItems :
                    engineItems[i].id = id /\ engineItems[i].key \in Locations
    <2>1. PICK it \in all : it.id = id /\ it.key \in Locations
      BY <1>6
    <2>2. CASE it \in Elements(engineItems)
      BY <2>1, <2>2 DEF Elements
    <2>3. CASE it \in {LoadItem(d) : d \in DOMAIN dicts}
      BY <2>1, <2>3 DEF LoadItem
    <2> QED BY <2>1, <2>2, <2>3
  <1>7. engine = "off" => \A i \in DOMAIN engineItems : FALSE
    BY DEF OrderInv, EngineInOrder
  <1> HIDE DEF all, located
  <1>8. \A d \in DOMAIN dicts : dicts[d].key \notin Locations => ~located(d)
    BY <1>6, <1>7 DEF ListInv, EngineList
  <1>9. \A i \in DOMAIN engineItems :
          engineItems[i].key \notin Locations => ~located(engineItems[i].id)
    BY <1>6, <1>7 DEF ListInv, EngineList
  <1>10. ASSUME NEW r \in Dict \cup Item, NEW id \in 0 .. MaxId,
                r.key \in Locations <=> located(id), NextPage(id, r.start, due, touched)
         PROVE  NextPage(id, Aged(r).start, due', touched')
    BY <1>1, <1>2, <1>10, CycledTwice, StartsKnown DEF NextPage
  <1>11. \A d \in DOMAIN dicts' : dicts'[d].key = ITunes => dicts'[d].start = 0
    <2>1. ITunes \notin Locations
      BY ItemsAssumption
    <2> QED BY <1>1, <1>2, <1>3, <2>1 DEF OrderInv, DictsInOrder
  <1>12. ASSUME NEW i \in DOMAIN list', dicts'[list'[i]].key # ITunes
         PROVE  NextPage(list'[i], dicts'[list'[i]].start, due', touched')
    <2>1. converted /\ i \in DOMAIN list /\ list[i] \in DOMAIN dicts /\ list[i] \in 0 .. MaxId
      BY <1>1 DEF ListInv, Stored, TypeInv, TypeOK
    <2>2. NextPage(list[i], dicts[list[i]].start, due, touched)
      BY <1>1, <1>2, <1>3, <1>12, <2>1 DEF OrderInv, DictsInOrder
    <2>3. NextPage(list[i], Aged(dicts[list[i]]).start, due', touched')
      BY <1>3, <1>4, <1>8, <1>10, <2>1, <2>2
    <2> QED BY <1>1, <2>1, <2>3
  <1>13. EngineInOrder'
    <2>1. ASSUME NEW i \in DOMAIN engineItems
          PROVE  NextPage(engineItems'[i].id, engineItems'[i].start, due', touched')
      <3>1. engineItems[i] \in Item /\ engineItems[i].id \in 0 .. MaxId
        BY <1>3
      <3>2. NextPage(engineItems[i].id, engineItems[i].start, due, touched)
        BY DEF OrderInv, EngineInOrder
      <3>3. NextPage(engineItems[i].id, Aged(engineItems[i]).start, due', touched')
        BY <1>5, <1>9, <1>10, <3>1, <3>2
      <3>4. engineItems'[i].id = engineItems[i].id
        BY <1>1, <3>1, ItemsKept
      <3> QED BY <1>1, <3>3, <3>4
    <2>2. engine' = "off" => engineItems' = <<>>
      BY <1>1 DEF HoursPass, OrderInv, EngineInOrder
    <2> QED BY <1>1, <2>1, <2>2 DEF EngineInOrder
  <1> QED BY <1>11, <1>12, <1>13 DEF OrderInv, DictsInOrder

(* Every action keeps the positions in order, *)
LEMMA NextOrderInv ==
  TypeInv /\ TypeInv' /\ ListInv /\ ListInv' /\ OrderInv /\ [Next]_vars => OrderInv'
  <1> SUFFICES ASSUME TypeInv, TypeInv', ListInv, ListInv', OrderInv, [Next]_vars
               PROVE  OrderInv'
    OBVIOUS
  <1>1. CASE UNCHANGED vars
    BY <1>1
      DEF vars, store, engineVars, history, OrderInv, DictsInOrder, EngineInOrder,
        NextPage
  <1>2. CASE PrefsStarts \/ EngineStarts
    BY <1>2, StartsInOrder
  <1>3. CASE AddItem
    BY <1>3, AddKeepsOrder
  <1>4. CASE RemoveItem
    BY <1>4, RemoveKeepsOrder
  <1>5. CASE OkPressed
    BY <1>5, OkKeepsOrder
  <1>6. CASE TriggerSearch
    BY <1>6, TriggerKeepsOrder
  <1>7. CASE CheckResults
    BY <1>7, ResultsKeepOrder
  <1>8. CASE HoursPass
    BY <1>8, HoursKeepOrder
  <1>9. CASE PrefsEnds \/ SheetOpens \/ AddRefused \/ CancelPressed \/ PreviewAsksITunes
    BY <1>9 DEF PrefsEnds, SheetOpens, AddRefused, Edit, CancelPressed, PreviewAsksITunes,
      store, engineVars, history, OrderInv, DictsInOrder, EngineInOrder, NextPage
  <1>10. CASE CheckBox \/ EnableAllPressed \/ MinSizeEdited
    <2>1. UNCHANGED <<store, engineVars, history>>
      BY <1>10 DEF CheckBox, EnableAllPressed, MinSizeEdited, EditOnly
    <2> QED BY <2>1
      DEF store, engineVars, history, OrderInv, DictsInOrder, EngineInOrder, NextPage
  <1>11. CASE EngineEnds \/ CheckSearchItem \/ SearchFails
    BY <1>11 DEF EngineEnds, CheckSearchItem, SearchFails,
      store, history, OrderInv, DictsInOrder, EngineInOrder, NextPage
  <1> QED BY <1>1, <1>2, <1>3, <1>4, <1>5, <1>6, <1>7, <1>8, <1>9, <1>10, <1>11
    DEF Next, Prefs, Engine

(* and the only action that asks for a page asks for the one due. *)
LEMMA SearchInOrder ==
  ASSUME TypeInv, OrderInv, [Next]_vars, engine = "idle", engine' = "searching"
  PROVE  LET item == engineItems'[current]
         IN /\ item.start <= MaxQueryStart
            /\ \/ item.start \in {NoStart, due[item.id]}
               \/ item.id \in touched
  <1>1. TriggerSearch
    <2>1. engine' # engine
      OBVIOUS
    <2> QED BY <2>1 DEF Next, Prefs, Engine, PrefsStarts, PrefsEnds, SheetOpens,
      CheckBox, EnableAllPressed, MinSizeEdited, PreviewAsksITunes, AddItem, AddWithId,
      AddRefused, RemoveItem, OkPressed, SheetSaved, CancelPressed, EditOnly,
      EngineStarts, EngineEnds, CheckSearchItem, SearchFails, CheckResults, Answered,
      HoursPass, vars, engineVars
  <1> DEFINE s == Cycled(engineItems[current].start)
             new == [engineItems[current] EXCEPT !.start = s]
  <1>2. engineItems' = [engineItems EXCEPT ![current] = new]
    BY <1>1 DEF TriggerSearch, SearchFrom
  <1>3. current \in DOMAIN engineItems /\ engineItems[current] \in Item
    BY <1>1 DEF TriggerSearch, TypeInv, TypeOK
  <1>4. new.id = engineItems[current].id /\ new.start = s /\ s <= MaxQueryStart
    BY <1>3, CycledTwice DEF Item
  <1>5. \/ new.start \in {NoStart, due[new.id]}
        \/ new.id \in touched
    BY <1>3, <1>4 DEF OrderInv, EngineInOrder, NextPage
  <1> HIDE DEF new
  <1>6. engineItems'[current] = new
    BY <1>2, <1>3
  <1> QED BY <1>4, <1>5, <1>6

(* The page an item asks for is the one after the last that was counted, or *)
(* the first after the last of all, across every end of a process and every *)
(* change of the item, also under a search: but for items whose older state *)
(* OK has stored, and the two of a page counted on an item not its own.     *)
THEOREM PagesCorrect ==
  ASSUME ~Upgraded
  PROVE  Spec => PagesInOrder
  <1>1. Init => ListInv
    BY InitListInv
  <1>2. Init => OrderInv
    BY DEF Init, OrderInv, DictsInOrder, EngineInOrder
  <1>3. TypeInv /\ OrderInv /\ [Next]_vars =>
          [engine = "idle" /\ engine' = "searching" =>
             LET item == engineItems'[current]
             IN /\ item.start <= MaxQueryStart
                /\ \/ item.start \in {NoStart, due[item.id]}
                   \/ item.id \in touched]_vars
    BY SearchInOrder
  <1> QED BY <1>1, <1>2, <1>3, InitTypeInv, NextTypeInv, NextListInv, NextOrderInv, PTL
    DEF Spec, PagesInOrder
================================================================================
