--------------------------- MODULE SearchItemsProofs ---------------------------
(***************************************************************************)
(* Proofs about SearchItems: the types of what is stored and held, and that *)
(* the list of searches is what the user has made of it.                   *)
(*                                                                         *)
(* The library's induction theorems cannot be used here (they take an      *)
(* operator), so that what the loading loop makes of a list of any length is *)
(* proved from its least counterexample instead.                           *)
(***************************************************************************)
EXTENDS SearchItems, WellFoundedInduction, TLAPS

(* Induction over the naturals, as the existence of a least counterexample. *)
LEMMA Least ==
  ASSUME NEW T \in SUBSET Nat, T # {}
  PROVE  \E n \in T : \A m \in T : n <= m
  <1> DEFINE R == OpToRel(<, Nat)
  <1>1. \A m, n \in Nat : m < n => <<m, n>> \in R
    BY DEF OpToRel
  <1>2. IsWellFoundedOn(R, Nat)
    BY NatLessThanWellFounded
  <1> HIDE DEF R
  <1>3. PICK n \in T : \A m \in T : <<m, n>> \notin R
    BY <1>2, WFMin
  <1>4. \A m \in T : ~(m < n)
    BY <1>1, <1>3
  <1> QED BY <1>4

(* The highest identifier, of any list with identifiers up to b. *)
LEMMA MaxIdProperties ==
  ASSUME NEW items, NEW b \in Nat, \A i \in DOMAIN items : items[i].id \in 0 .. b
  PROVE  /\ MaxIdOf(items) \in -1 .. b
         /\ \A i \in DOMAIN items : items[i].id <= MaxIdOf(items)
         /\ MaxIdOf(items) \in Ids(items) \cup {-1}
  <1> DEFINE T == {n \in Nat : \A i \in Ids(items) : i < n}
  <1>1. Ids(items) \subseteq 0 .. b
    BY DEF Ids
  <1>2. b + 1 \in T
    BY <1>1
  <1>3. PICK n \in T : \A m \in T : n <= m
    BY <1>2, Least
  <1>4. n - 1 \in Ids(items) \cup {-1}
    <2>1. CASE n = 0
      BY <2>1
    <2>2. CASE n # 0 
      <3>1. n - 1 \notin T /\ n - 1 \in Nat
        BY <1>3, <2>2
      <3>2. PICK i \in Ids(items) : ~(i < n - 1)
        BY <3>1
      <3>3. i < n 
        BY <1>3, <3>2
      <3> QED BY <1>1, <3>1, <3>2, <3>3
    <2> QED BY <2>1, <2>2
  <1>5. \A i \in Ids(items) : n - 1 >= i
    BY <1>1, <1>3
  <1>6. MaxIdOf(items) \in Ids(items) \cup {-1} /\ \A i \in Ids(items) : MaxIdOf(items) >= i
    BY <1>4, <1>5, Zenon DEF MaxIdOf
  <1> QED BY <1>1, <1>6 DEF Ids

(* The recursion of the loading loop has a solution. *)
LoadStep(s, n) ==
  IF list[n] \in DOMAIN dicts THEN Append(s, LoadItem(list[n])) ELSE s

Loads(f, m) == f = [n \in 0 .. m |-> IF n = 0 THEN <<>> ELSE LoadStep(f[n - 1], n)]

(* the steps of the loop have a common result, *)
LEMMA LoadingDefined ==
  ASSUME NEW m \in Nat
  PROVE  \E f : Loads(f, m)
  <1> DEFINE T == {n \in Nat : ~ \E f : Loads(f, n)}
  <1> SUFFICES ASSUME T # {} PROVE FALSE
    OBVIOUS
  <1>1. PICK n \in T : \A k \in T : n <= k
    BY Least
  <1>2. CASE n = 0
    <2>1. Loads([k \in 0 .. 0 |-> <<>>], 0)
      BY DEF Loads
    <2> QED BY <1>1, <1>2, <2>1
  <1>3. CASE n # 0
    <2>1. n - 1 \in Nat /\ n - 1 \notin T
      BY <1>1, <1>3
    <2>2. PICK f : Loads(f, n - 1)
      BY <2>1
    <2> DEFINE g == [k \in 0 .. n |-> IF k = n THEN LoadStep(f[n - 1], n) ELSE f[k]]
    <2>3. ASSUME NEW k \in 0 .. n
          PROVE  g[k] = IF k = 0 THEN <<>> ELSE LoadStep(g[k - 1], k)
      <3>1. CASE k = n
        BY <3>1, <1>3, <2>1
      <3>2. CASE k # n
        <4>1. k \in 0 .. n - 1 /\ (k # 0 => k - 1 \in 0 .. n - 1 /\ k - 1 # n)
          BY <3>2
        <4>2. f[k] = IF k = 0 THEN <<>> ELSE LoadStep(f[k - 1], k)
          BY <2>2, <4>1 DEF Loads
        <4> QED BY <3>2, <4>1, <4>2
      <3> QED BY <3>1, <3>2
    <2>4. Loads(g, n)
      <3> HIDE DEF g
      <3>1. g = [k \in 0 .. n |-> g[k]]
        BY DEF g
      <3> QED BY <2>3, <3>1 DEF Loads
    <2> QED BY <1>1, <2>4
  <1> QED BY <1>2, <1>3

(* and LoadedUpTo is it. *)
LEMMA LoadingStep ==
  ASSUME list \in Seq(0 .. MaxId)
  PROVE  /\ LoadedUpTo[0] = <<>>
         /\ \A n \in 1 .. Len(list) : LoadedUpTo[n] = LoadStep(LoadedUpTo[n - 1], n)
  <1>1. Len(list) \in Nat
    OBVIOUS
  <1>2. \E f : Loads(f, Len(list))
    BY <1>1, LoadingDefined
  <1>3. LoadedUpTo = CHOOSE f : Loads(f, Len(list))
    BY DEF LoadedUpTo, Loads, LoadStep
  <1>4. Loads(LoadedUpTo, Len(list))
    BY <1>2, <1>3
  <1> QED BY <1>1, <1>4 DEF Loads
-----------------------------------------------------------------------------
(* Types. *)

ItemUpTo(b) ==
  [id : 0 .. b, key : Keys, enabled : BOOLEAN, start : Starts, dirty : BOOLEAN]

(* The positions that the code writes as constants. *)
LEMMA StartsKnown ==
  /\ NoStart \in Starts
  /\ 0 \in Starts
  /\ 1 \in Starts
  /\ MaxQueryStart + 1 \in Starts
  BY ItemsAssumption DEF Starts, NoStart

(* Items, with identifiers up to any bound: those made anew, *)
LEMMA NewItemType ==
  ASSUME NEW b \in Nat, NEW id \in 0 .. b, NEW key \in Keys, NEW e \in BOOLEAN
  PROVE  NewItem(id, key, e) \in ItemUpTo(b)
  BY StartsKnown DEF NewItem, ItemUpTo

(* those loaded, one *)
LEMMA LoadItemType ==
  ASSUME TypeOK, NEW id \in DOMAIN dicts
  PROVE  LoadItem(id) \in Item
  BY DEF TypeOK, LoadItem, Item, Dict

(* by one, *)
LEMMA LoadingType ==
  ASSUME TypeOK
  PROVE  \A n \in 0 .. Len(list) : LoadedUpTo[n] \in Seq(Item)
  <1> DEFINE T == {n \in 0 .. Len(list) : LoadedUpTo[n] \notin Seq(Item)}
  <1>1. list \in Seq(0 .. MaxId)
    BY DEF TypeOK
  <1>2. Len(list) \in Nat
    BY <1>1
  <1> SUFFICES ASSUME T # {} PROVE FALSE
    OBVIOUS
  <1>3. PICK n \in T : \A k \in T : n <= k
    <2>1. T \in SUBSET Nat
      BY <1>2
    <2> HIDE DEF T
    <2> QED BY <2>1, Least
  <1>4. n # 0
    <2>1. LoadedUpTo[0] = <<>>
      BY <1>1, LoadingStep
    <2>2. <<>> \in Seq(Item)
      OBVIOUS
    <2>3. LoadedUpTo[0] \in Seq(Item)
      BY <2>1, <2>2, Zenon
    <2> QED BY <1>3, <2>3
  <1>5. n \in 1 .. Len(list) /\ n - 1 \in 0 .. Len(list) /\ n - 1 \notin T
    BY <1>2, <1>3, <1>4
  <1>6. LoadedUpTo[n] = LoadStep(LoadedUpTo[n - 1], n)
    BY <1>1, <1>5, LoadingStep
  <1>7. LoadStep(LoadedUpTo[n - 1], n) \in Seq(Item)
    <2>1. LoadedUpTo[n - 1] \in Seq(Item)
      BY <1>5
    <2>2. list[n] \in DOMAIN dicts => LoadItem(list[n]) \in Item
      BY LoadItemType
    <2> QED BY <2>1, <2>2 DEF LoadStep
  <1> QED BY <1>6, <1>7

(* and whole lists of them; *)
LEMMA ItemsTyped ==
  ASSUME NEW b \in Nat, NEW items \in Seq(ItemUpTo(b))
  PROVE  /\ Len(items) \in Nat
         /\ DOMAIN items = 1 .. Len(items)
         /\ \A i \in DOMAIN items :
              /\ items[i] \in ItemUpTo(b)
              /\ items[i].id \in 0 .. b
         /\ MaxIdOf(items) \in -1 .. b
         /\ \A i \in DOMAIN items : items[i].id <= MaxIdOf(items)
  <1>1. \A it \in ItemUpTo(b) : it.id \in 0 .. b
    BY DEF ItemUpTo
  <1>2. \A i \in DOMAIN items : items[i] \in ItemUpTo(b)
    OBVIOUS
  <1>3. \A i \in DOMAIN items : items[i].id \in 0 .. b
    BY <1>1, <1>2
  <1>4. /\ MaxIdOf(items) \in -1 .. b
        /\ \A i \in DOMAIN items : items[i].id <= MaxIdOf(items)
    BY <1>3, MaxIdProperties
  <1>5. Len(items) \in Nat /\ DOMAIN items = 1 .. Len(items)
    OBVIOUS
  <1> QED BY <1>2, <1>3, <1>4, <1>5

(* the list with the main items, which may need one identifier more, *)
LEMMA WithMainType ==
  ASSUME NEW b \in Nat, NEW items \in Seq(ItemUpTo(b))
  PROVE  WithMain(items) \in Seq(ItemUpTo(b + 1)) /\ WithMain(items) # <<>>
  <1> DEFINE photo == IF items = <<>> THEN <<NewItem(0, Photo, TRUE)>> ELSE items
             itunes == NewItem(MaxIdOf(photo) + 1, ITunes, FALSE)
  <1>1. Photo \in Keys /\ ITunes \in Keys
    BY DEF Keys
  <1>2. NewItem(0, Photo, TRUE) \in ItemUpTo(b)
    <2>1. 0 \in 0 .. b
      OBVIOUS
    <2> QED BY <1>1, <2>1, NewItemType
  <1>3. photo \in Seq(ItemUpTo(b)) /\ photo # <<>>
    <2>1. \A it \in ItemUpTo(b) : <<it>> \in Seq(ItemUpTo(b)) /\ <<it>> # <<>>
      OBVIOUS
    <2> QED BY <1>2, <2>1
  <1>5. MaxIdOf(photo) + 1 \in 0 .. b + 1
    <2> HIDE DEF photo
    <2>1. MaxIdOf(photo) \in -1 .. b
      BY <1>3, ItemsTyped
    <2> QED BY <2>1
  <1>6. itunes \in ItemUpTo(b + 1)
    <2> HIDE DEF photo
    <2>1. b + 1 \in Nat
      OBVIOUS
    <2> QED BY <1>1, <1>5, <2>1, NewItemType
  <1>7. \A it \in ItemUpTo(b) : it \in ItemUpTo(b + 1)
    BY DEF ItemUpTo
  <1>8. photo \in Seq(ItemUpTo(b + 1))
    <2> HIDE DEF photo
    <2> QED BY <1>3, <1>7
  <1>9. Tail(photo) \in Seq(ItemUpTo(b + 1)) /\ photo[1] \in ItemUpTo(b + 1)
    <2> HIDE DEF photo
    <2> QED BY <1>3, <1>8
  <1>10. /\ <<photo[1], itunes>> \o Tail(photo) \in Seq(ItemUpTo(b + 1))
         /\ <<photo[1], itunes>> \o Tail(photo) # <<>>
    <2> HIDE DEF photo, itunes
    <2> QED BY <1>6, <1>9
  <1>11. WithMain(items) \in {photo, <<photo[1], itunes>> \o Tail(photo)}
    BY DEF WithMain
  <1> QED BY <1>3, <1>8, <1>10, <1>11

(* the list with the phrases of versions before, *)
LEMMA ConvertedType ==
  ASSUME NEW b \in Nat, NEW items \in Seq(ItemUpTo(b))
  PROVE  Converted(items) \in Seq(ItemUpTo(b + Len(Legacy)))
  <1> DEFINE more == [i \in DOMAIN Legacy |-> NewItem(MaxIdOf(items) + i, Legacy[i], TRUE)]
             c == b + Len(Legacy)
  <1>1. Len(Legacy) \in Nat /\ DOMAIN Legacy = 1 .. Len(Legacy) /\ c \in Nat
    BY ItemsAssumption
  <1>2. MaxIdOf(items) \in -1 .. b
    BY ItemsTyped
  <1>3. ASSUME NEW i \in DOMAIN Legacy
        PROVE  NewItem(MaxIdOf(items) + i, Legacy[i], TRUE) \in ItemUpTo(c)
    <2>1. Legacy[i] \in Keys
      BY ItemsAssumption DEF Keys
    <2>2. MaxIdOf(items) + i \in 0 .. c
      BY <1>1, <1>2
    <2> QED BY <1>1, <2>1, <2>2, NewItemType
  <1>4. more \in Seq(ItemUpTo(c))
    <2> DEFINE it(i) == NewItem(MaxIdOf(items) + i, Legacy[i], TRUE)
    <2>1. \A i \in 1 .. Len(Legacy) : it(i) \in ItemUpTo(c)
      BY <1>1, <1>3
    <2>2. more = [i \in 1 .. Len(Legacy) |-> it(i)]
      BY <1>1
    <2> HIDE DEF c, it, more
    <2> QED BY <1>1, <2>1, <2>2
  <1>5. items \in Seq(ItemUpTo(c))
    <2>1. \A it \in ItemUpTo(b) : it \in ItemUpTo(c)
      BY <1>1 DEF ItemUpTo
    <2> QED BY <2>1
  <1>6. items \o more \in Seq(ItemUpTo(c))
    <2> HIDE DEF more, c
    <2> QED BY <1>4, <1>5
  <1> QED BY <1>6 DEF Converted

(* and the list with no dirty item, the same otherwise. *)
LEMMA CleanType ==
  ASSUME NEW b \in Nat, NEW items \in Seq(ItemUpTo(b))
  PROVE  /\ Clean(items) \in Seq(ItemUpTo(b))
         /\ Len(Clean(items)) = Len(items)
         /\ \A i \in DOMAIN items :
              /\ Clean(items)[i].id = items[i].id
              /\ Clean(items)[i].key = items[i].key
              /\ Clean(items)[i].enabled = items[i].enabled
              /\ Clean(items)[i].start = items[i].start
              /\ ~Clean(items)[i].dirty
  <1>1. \A i \in DOMAIN items : items[i] \in ItemUpTo(b)
    OBVIOUS
  <1>2. \A it \in ItemUpTo(b) :
          /\ [it EXCEPT !.dirty = FALSE] \in ItemUpTo(b)
          /\ [it EXCEPT !.dirty = FALSE].id = it.id
          /\ [it EXCEPT !.dirty = FALSE].key = it.key
          /\ [it EXCEPT !.dirty = FALSE].enabled = it.enabled
          /\ [it EXCEPT !.dirty = FALSE].start = it.start
          /\ ~[it EXCEPT !.dirty = FALSE].dirty
    BY DEF ItemUpTo
  <1> DEFINE S == ItemUpTo(b)
             it(i) == [items[i] EXCEPT !.dirty = FALSE]
  <1>3. \A i \in DOMAIN items : it(i) \in S
    BY <1>1, <1>2
  <1>4. Clean(items) = [i \in 1 .. Len(items) |-> it(i)] /\ DOMAIN items = 1 .. Len(items)
    BY DEF Clean
  <1>5. Clean(items) \in Seq(S) /\ Len(Clean(items)) = Len(items)
    <2> HIDE DEF S, it
    <2> QED BY <1>3, <1>4
  <1> QED BY <1>1, <1>2, <1>5 DEF Clean

(* What -[RWOptions init] has made is a list of items, *)
LEMMA OptionsType ==
  ASSUME TypeOK
  PROVE  \E b \in Nat : Options \in Seq(ItemUpTo(b))
  <1>1. MaxId \in Nat /\ Len(Legacy) \in Nat
    BY ItemsAssumption
  <1>2. LoadedUpTo[Len(list)] \in Seq(ItemUpTo(MaxId))
    <2>1. Len(list) \in 0 .. Len(list)
      BY DEF TypeOK
    <2>2. Item = ItemUpTo(MaxId)
      BY DEF Item, ItemUpTo
    <2> QED BY <2>1, <2>2, LoadingType
  <1>3. Loaded \in Seq(ItemUpTo(MaxId + 1))
    BY <1>1, <1>2, WithMainType DEF Loaded
  <1>4. Clean(Converted(Loaded)) \in Seq(ItemUpTo(MaxId + 1 + Len(Legacy)))
    BY <1>1, <1>3, ConvertedType, CleanType
  <1>5. MaxId + 1 \in Nat /\ MaxId + 1 + Len(Legacy) \in Nat
    BY <1>1
  <1> QED BY <1>3, <1>4, <1>5 DEF Options

(* whose identifiers are in bounds when the highest one is. *)
LEMMA OptionsFit ==
  ASSUME TypeOK, MaxIdOf(Options) <= MaxId
  PROVE  /\ Options \in Seq(Item)
         /\ MaxIdOf(Options) \in -1 .. MaxId
         /\ \A i \in DOMAIN Options : Options[i].id <= MaxIdOf(Options)
  <1>1. PICK b \in Nat : Options \in Seq(ItemUpTo(b))
    BY OptionsType
  <1>2. \A i \in DOMAIN Options : Options[i] \in ItemUpTo(b) /\ Options[i].id \in 0 .. b
    BY <1>1, ItemsTyped
  <1>3. /\ MaxIdOf(Options) \in -1 .. b
        /\ \A i \in DOMAIN Options : Options[i].id <= MaxIdOf(Options)
    BY <1>1, ItemsTyped
  <1>4. \A i \in DOMAIN Options : Options[i] \in Item
    BY <1>2, <1>3, ItemsAssumption DEF ItemUpTo, Item
  <1>5. Options \in Seq(Item)
    BY <1>1, <1>4
  <1> QED BY <1>3, <1>5, ItemsAssumption

(* -removeObject: of a list. *)
LEMMA WithoutProperties ==
  ASSUME NEW S, NEW s \in Seq(S), NEW i \in DOMAIN s
  PROVE  /\ Without(s, i) \in Seq(S)
         /\ Len(Without(s, i)) = Len(s) - 1
         /\ \A j \in 1 .. Len(s) - 1 :
              Without(s, i)[j] = IF j < i THEN s[j] ELSE s[j + 1]
  <1>1. Len(s) \in Nat /\ i \in 1 .. Len(s) /\ Len(s) - 1 \in Nat
    OBVIOUS
  <1>2. \A j \in 1 .. Len(s) - 1 : (IF j < i THEN s[j] ELSE s[j + 1]) \in S
    BY <1>1
  <1> QED BY <1>1, <1>2 DEF Without

(* The wanted items, which the history may number from before the first.    *)
LEMMA WithoutType ==
  ASSUME NEW S, NEW s \in Seq(S), NEW i \in Int, i >= -1
  PROVE  Without(s, i) \in Seq(S)
  <1>1. CASE Len(s) = 0
    BY <1>1 DEF Without
  <1>2. CASE Len(s) > 0
    <2>1. \A j \in 1 .. Len(s) - 1 : (IF j < i THEN s[j] ELSE s[j + 1]) \in S
      OBVIOUS
    <2>2. Len(s) - 1 \in Nat
      BY <1>2
    <2> QED BY <2>1, <2>2 DEF Without
  <1> QED BY <1>1, <1>2

(* What is stored. *)
StoreOf(ds) ==
  /\ DOMAIN ds \subseteq 0 .. MaxId
  /\ \A i \in DOMAIN ds : ds[i] \in Dict

(* What is stored after the items of a set are saved, *)
LEMMA SavedProperties ==
  ASSUME NEW ds, StoreOf(ds), NEW its \in SUBSET Item
  PROVE  /\ StoreOf(Saved(ds, its))
         /\ DOMAIN Saved(ds, its) = DOMAIN ds \cup {it.id : it \in its}
         /\ \A i \in DOMAIN ds \ {it.id : it \in its} : Saved(ds, its)[i] = ds[i]
  <1> DEFINE ids == {it.id : it \in its}
             chosen(i) == CHOOSE it \in its : it.id = i
  <1>1. \A i \in ids : chosen(i) \in its
    OBVIOUS
  <1>2. \A i \in ids : \E it \in its : it.id = i
    OBVIOUS
  <1>3. \A i : (\E it \in its : it.id = i) <=> i \in ids
    OBVIOUS
  <1>4. \A it \in Item : SavedDict(it) \in Dict /\ it.id \in 0 .. MaxId
    BY StartsKnown DEF Item, Dict, SavedDict
  <1>5. Saved(ds, its) =
          [i \in DOMAIN ds \cup ids |-> IF i \in ids THEN SavedDict(chosen(i)) ELSE ds[i]]
    BY <1>3 DEF Saved
  <1>6. ids \subseteq 0 .. MaxId
    BY <1>4
  <1> HIDE DEF ids, chosen
  <1>7. \A i \in DOMAIN ds \cup ids : Saved(ds, its)[i] \in Dict
    BY <1>1, <1>4, <1>5 DEF StoreOf
  <1>8. DOMAIN Saved(ds, its) = DOMAIN ds \cup ids
    BY <1>5
  <1>9. StoreOf(Saved(ds, its))
    BY <1>6, <1>7, <1>8 DEF StoreOf
  <1>10. \A i \in DOMAIN ds \ ids : Saved(ds, its)[i] = ds[i]
    BY <1>5
  <1> QED BY <1>8, <1>9, <1>10 DEF ids

(* and of one of them, when no other has its identifier. *)
LEMMA SavedOne ==
  ASSUME NEW ds, NEW its, NEW it \in its,
         \A jt \in its : jt.id = it.id => jt = it
  PROVE  Saved(ds, its)[it.id] = SavedDict(it)
  <1>1. it = CHOOSE jt \in its : jt.id = it.id
    OBVIOUS
  <1>2. it.id \in {jt.id : jt \in its} /\ \E jt \in its : jt.id = it.id
    OBVIOUS
  <1> QED BY <1>1, <1>2 DEF Saved

(* One item is stored. *)
LEMMA StoredOne ==
  ASSUME NEW ds, StoreOf(ds), NEW it \in Item
  PROVE  /\ DOMAIN Saved(ds, {it}) = DOMAIN ds \cup {it.id}
         /\ Saved(ds, {it})[it.id] = SavedDict(it)
         /\ \A d \in DOMAIN ds \ {it.id} : Saved(ds, {it})[d] = ds[d]
  <1>1. {it} \in SUBSET Item /\ {jt.id : jt \in {it}} = {it.id}
    OBVIOUS
  <1>2. Saved(ds, {it})[it.id] = SavedDict(it)
    BY SavedOne
  <1>3. /\ DOMAIN Saved(ds, {it}) = DOMAIN ds \cup {jt.id : jt \in {it}}
        /\ \A d \in DOMAIN ds \ {jt.id : jt \in {it}} : Saved(ds, {it})[d] = ds[d]
    BY <1>1, SavedProperties
  <1> QED BY <1>1, <1>2, <1>3

(* A page is asked for by an item that has one left; another item may be    *)
(* current by now.                                                          *)
Searching ==
  engine = "searching" =>
    /\ current # 0
    /\ searched # 0
    /\ engineItems[searched].start <= MaxQueryStart

TypeInv == TypeOK /\ Searching

(* The list that is stored of some items. *)
LEMMA IdsTyped ==
  ASSUME NEW items \in Seq(Item)
  PROVE  /\ IdsOf(items) \in Seq(0 .. MaxId)
         /\ Len(IdsOf(items)) = Len(items)
         /\ \A i \in DOMAIN items : IdsOf(items)[i] = items[i].id
  <1> DEFINE id(i) == items[i].id
             S == 0 .. MaxId
  <1>1. \A it \in Item : it.id \in S
    BY DEF Item
  <1>2. \A i \in 1 .. Len(items) : id(i) \in S
    BY <1>1
  <1>3. IdsOf(items) = [i \in 1 .. Len(items) |-> id(i)] /\ DOMAIN items = 1 .. Len(items)
    BY DEF IdsOf
  <1>4. IdsOf(items) \in Seq(S) /\ Len(IdsOf(items)) = Len(items)
    <2> HIDE DEF id, S
    <2> QED BY <1>2, <1>3
  <1> QED BY <1>3, <1>4

(* The types hold of both kinds of defaults the first start can find, *)
LEMMA InitTypeInv == Init => TypeInv
  <1> SUFFICES ASSUME Init PROVE TypeInv
    OBVIOUS
  <1> DEFINE old == <<NewItem(0, Photo, TRUE)>>
                      \o [i \in DOMAIN Legacy |-> NewItem(i, Legacy[i], TRUE)]
  <1>1. ASSUME Upgraded
        PROVE  list \in Seq(0 .. MaxId) /\ StoreOf(dicts)
    <2>1. Len(Legacy) \in Nat /\ Len(Legacy) <= MaxId /\ MaxId \in Nat
      BY <1>1, ItemsAssumption
    <2>2. NewItem(0, Photo, TRUE) \in Item
      <3>1. 0 \in 0 .. MaxId /\ Photo \in Keys
        BY <2>1 DEF Keys
      <3> QED BY <2>1, <3>1, NewItemType DEF Item, ItemUpTo
    <2>3. ASSUME NEW i \in DOMAIN Legacy
          PROVE  NewItem(i, Legacy[i], TRUE) \in Item
      <3>1. i \in 0 .. MaxId /\ Legacy[i] \in Keys
        BY <2>1, ItemsAssumption DEF Keys
      <3> QED BY <2>1, <3>1, NewItemType DEF Item, ItemUpTo
    <2>4. old \in Seq(Item)
      <3> DEFINE it(i) == NewItem(i, Legacy[i], TRUE)
                 first == NewItem(0, Photo, TRUE)
      <3>0. DOMAIN Legacy = 1 .. Len(Legacy)
        BY ItemsAssumption
      <3>1. \A i \in 1 .. Len(Legacy) : it(i) \in Item
        BY <2>3, <3>0
      <3>2. old = <<first>> \o [i \in 1 .. Len(Legacy) |-> it(i)]
        BY <3>0
      <3>3. first \in Item
        BY <2>2
      <3> HIDE DEF it, first, old
      <3>4. [i \in 1 .. Len(Legacy) |-> it(i)] \in Seq(Item)
        BY <2>1, <3>1
      <3> QED BY <3>2, <3>3, <3>4
    <2> HIDE DEF old
    <2>6. IdsOf(old) \in Seq(0 .. MaxId)
      BY <2>4, IdsTyped
    <2>7. Elements(old) \in SUBSET Item
      BY <2>4 DEF Elements
    <2>8. StoreOf(<<>>)
      BY DEF StoreOf
    <2>9. StoreOf(Saved(<<>>, Elements(old)))
      BY <2>7, <2>8, SavedProperties
    <2> QED BY <1>1, <2>6, <2>9 DEF Init, old
  <1>2. ASSUME ~Upgraded
        PROVE  list \in Seq(0 .. MaxId) /\ StoreOf(dicts)
    BY <1>2 DEF Init, StoreOf
  <1>3. wanted \in Seq(Phrases \cup Locations)
    BY ItemsAssumption DEF Init
  <1>4. list \in Seq(0 .. MaxId) /\ StoreOf(dicts)
    BY <1>1, <1>2
  <1>5. prefsItems \in Seq(Item) /\ engineItems \in Seq(Item)
    BY DEF Init
  <1>6. /\ converted \in BOOLEAN /\ prefs = "off" /\ prefsMax \in -1 .. MaxId
        /\ engine = "off" /\ current = 0 /\ searched = 0
        /\ steps \in 0 .. MaxSteps /\ confirmed \in BOOLEAN /\ touched = {}
    BY ItemsAssumption DEF Init
  <1>7. due \in [0 .. MaxId -> Starts]
    BY StartsKnown DEF Init
  <1> QED BY <1>3, <1>4, <1>5, <1>6, <1>7 DEF TypeInv, TypeOK, Searching, StoreOf

(* What a start of either process leaves typed. *)
LEMMA InitOptionsTyped ==
  ASSUME TypeOK, InitOptions
  PROVE  /\ list' \in Seq(0 .. MaxId)
         /\ StoreOf(dicts')
         /\ converted' \in BOOLEAN
         /\ wanted' \in Seq(Phrases \cup Locations)
         /\ steps' \in 0 .. MaxSteps
         /\ Options \in Seq(Item)
         /\ MaxIdOf(Options) \in -1 .. MaxId
  <1>1. Options \in Seq(Item) /\ MaxIdOf(Options) \in -1 .. MaxId
    BY OptionsFit DEF InitOptions
  <1>2. IdsOf(Options) \in Seq(0 .. MaxId)
    BY <1>1, IdsTyped
  <1>3. StoreOf(dicts) /\ StoreOf(Saved(dicts, Elements(Options)))
    <2>1. Elements(Options) \in SUBSET Item
      BY <1>1 DEF Elements
    <2>2. StoreOf(dicts)
      BY DEF TypeOK, StoreOf
    <2> QED BY <2>1, <2>2, SavedProperties
  <1>4. Legacy \in Seq(Phrases \cup Locations)
    BY ItemsAssumption
  <1>5. steps' \in 0 .. MaxSteps
    BY ItemsAssumption DEF InitOptions, TypeOK
  <1> QED BY <1>1, <1>2, <1>3, <1>4, <1>5 DEF InitOptions, TypeOK, store

(* Lists of which one item is replaced, *)
LEMMA ItemOneChanged ==
  ASSUME NEW items \in Seq(Item), NEW i \in DOMAIN items, NEW it \in Item
  PROVE  /\ [items EXCEPT ![i] = it] \in Seq(Item)
         /\ Len([items EXCEPT ![i] = it]) = Len(items)
  OBVIOUS

(* by each of the replacements that the code makes; *)
LEMMA ItemChanges ==
  ASSUME NEW it \in Item, NEW b \in BOOLEAN, NEW s \in Starts
  PROVE  /\ SetEnabled(it, b) \in Item
         /\ Reset(it) \in Item
         /\ Reset(SetEnabled(it, b)) \in Item
         /\ [it EXCEPT !.dirty = TRUE] \in Item
         /\ [it EXCEPT !.start = s] \in Item
         /\ [it EXCEPT !.start = s, !.dirty = TRUE] \in Item
         /\ Aged(it) \in Item
  <1>1. SetEnabled(it, b) \in Item
    BY DEF SetEnabled, Item
  <1>2. ASSUME NEW jt \in Item PROVE Reset(jt) \in Item
    BY StartsKnown DEF Reset, Item
  <1>3. /\ [it EXCEPT !.dirty = TRUE] \in Item
        /\ [it EXCEPT !.start = s] \in Item
        /\ [it EXCEPT !.start = s, !.dirty = TRUE] \in Item
    BY DEF Item
  <1>4. Aged(it) \in Item
    BY StartsKnown DEF Aged, Item
  <1> QED BY <1>1, <1>2, <1>3, <1>4

(* lists of which every item is. *)
LEMMA MappedType ==
  ASSUME NEW items \in Seq(Item), NEW new, DOMAIN new = DOMAIN items,
         new = [i \in DOMAIN items |-> new[i]],
         \A i \in DOMAIN items : new[i] \in Item
  PROVE  new \in Seq(Item) /\ Len(new) = Len(items)
  <1>1. DOMAIN items = 1 .. Len(items) /\ Len(items) \in Nat
    OBVIOUS
  <1> QED BY <1>1

(* An edit of the sheet changes items in memory only. *)
LEMMA EditOnlyTyped ==
  ASSUME TypeInv, EditOnly, prefsItems' \in Seq(Item)
  PROVE  TypeInv'
  <1>1. steps' \in 0 .. MaxSteps
    BY ItemsAssumption DEF EditOnly, Edit, TypeInv, TypeOK
  <1> QED BY <1>1 DEF EditOnly, TypeInv, TypeOK, Searching, store, engineVars, history

(* and every action keeps them. *)
LEMMA NextTypeInv == TypeInv /\ [Next]_vars => TypeInv'
  <1> SUFFICES ASSUME TypeInv, [Next]_vars PROVE TypeInv'
    OBVIOUS
  <1> USE DEF TypeInv
  <1>1. CASE UNCHANGED vars
    BY <1>1 DEF vars, store, prefsVars, engineVars, history, TypeOK, Searching
  <1>2. CASE PrefsStarts
    BY <1>2, InitOptionsTyped
    DEF PrefsStarts, TypeOK, Searching, StoreOf, engineVars, history
  <1>3. CASE PrefsEnds \/ SheetOpens \/ CancelPressed
    <2>1. CASE PrefsEnds
      <3>1. <<>> \in Seq(Item) /\ -1 \in -1 .. MaxId
        BY ItemsAssumption
      <3> QED BY <2>1, <3>1 DEF PrefsEnds, TypeOK, Searching, store, engineVars, history
    <2>2. CASE SheetOpens
      BY <2>2 DEF SheetOpens, TypeOK, Searching, store, engineVars, history
    <2>3. CASE CancelPressed
      BY <2>3 DEF CancelPressed, TypeOK, Searching, store, engineVars, history
    <2> QED BY <1>3, <2>1, <2>2, <2>3
  <1>4. CASE CheckBox
    <2>1. PICK i \in DOMAIN prefsItems :
            prefsItems' = [prefsItems EXCEPT ![i] =
              IF @.enabled THEN SetEnabled(@, FALSE) ELSE Reset(SetEnabled(@, TRUE))]
      BY <1>4 DEF CheckBox
    <2>2. prefsItems[i] \in Item
      BY DEF TypeOK
    <2>3. prefsItems' \in Seq(Item)
      BY <2>1, <2>2, ItemChanges, ItemOneChanged, StartsKnown DEF TypeOK
    <2> QED BY <1>4, <2>3, EditOnlyTyped DEF CheckBox
  <1>5. CASE EnableAllPressed
    <2>1. PICK b \in BOOLEAN :
            prefsItems' = [i \in DOMAIN prefsItems |-> SetEnabled(prefsItems[i], b)]
      BY <1>5 DEF EnableAllPressed
    <2>2. \A i \in DOMAIN prefsItems : SetEnabled(prefsItems[i], b) \in Item
      <3>1. \A i \in DOMAIN prefsItems : prefsItems[i] \in Item
        BY DEF TypeOK
      <3> QED BY <3>1, ItemChanges, StartsKnown
    <2>3. prefsItems' \in Seq(Item)
      BY <2>1, <2>2, MappedType DEF TypeOK
    <2> QED BY <1>5, <2>3, EditOnlyTyped DEF EnableAllPressed
  <1>6. CASE MinSizeEdited
    <2>1. PICK i \in DOMAIN prefsItems :
            prefsItems' = [prefsItems EXCEPT ![i].dirty = TRUE]
      BY <1>6 DEF MinSizeEdited
    <2>2. prefsItems[i] \in Item
      BY DEF TypeOK
    <2>3. [prefsItems[i] EXCEPT !.dirty = TRUE] \in Item
      BY <2>2, ItemChanges, StartsKnown
    <2>4. prefsItems' \in Seq(Item)
      BY <2>1, <2>3, ItemOneChanged DEF TypeOK
    <2> QED BY <1>6, <2>4, EditOnlyTyped DEF MinSizeEdited
  <1>7. CASE PreviewAsksITunes
    <2>1. PICK i \in DOMAIN prefsItems :
            prefsItems' = [prefsItems EXCEPT ![i].dirty = TRUE]
      BY <1>7 DEF PreviewAsksITunes
    <2>2. prefsItems[i] \in Item
      BY DEF TypeOK
    <2>3. [prefsItems[i] EXCEPT !.dirty = TRUE] \in Item
      BY <2>2, ItemChanges, StartsKnown
    <2>4. prefsItems' \in Seq(Item)
      BY <2>1, <2>3, ItemOneChanged DEF TypeOK
    <2> QED BY <1>7, <2>4 DEF PreviewAsksITunes, TypeOK, Searching,
      store, engineVars, history
  <1>8. CASE AddItem
    <2> DEFINE id == prefsMax + 2
    <2>1. PICK key \in NotListed :
            LET item == NewItem(id, key, TRUE)
            IN /\ Edit
               /\ id <= MaxId
               /\ prefsItems' = Append(prefsItems, item)
               /\ prefsMax' = id
               /\ list' = IdsOf(prefsItems')
               /\ dicts' = Saved(dicts, {item})
               /\ wanted' = Append(wanted, key)
               /\ due' = [due EXCEPT ![id] = 0]
               /\ touched' = touched \ {id}
               /\ UNCHANGED <<converted, prefs, engineVars, confirmed>>
      BY <1>8 DEF AddItem, AddWithId
    <2>2. id \in 0 .. MaxId /\ key \in Phrases \cup Locations
      BY <2>1, ItemsAssumption DEF TypeOK, NotListed
    <2>3. NewItem(id, key, TRUE) \in Item
      <3>1. key \in Keys
        BY <2>2 DEF Keys
      <3> HIDE DEF id
      <3> QED BY <2>2, <3>1, NewItemType, ItemsAssumption DEF ItemUpTo, Item
    <2>4. prefsItems' \in Seq(Item)
      <3> DEFINE item == NewItem(id, key, TRUE)
      <3>1. prefsItems' = Append(prefsItems, item)
        BY <2>1
      <3>2. item \in Item
        BY <2>3
      <3> HIDE DEF item
      <3> QED BY <3>1, <3>2 DEF TypeOK
    <2>5. list' \in Seq(0 .. MaxId)
      BY <2>1, <2>4, IdsTyped
    <2>6. StoreOf(dicts')
      <3>1. StoreOf(dicts)
        BY DEF TypeOK, StoreOf
      <3> HIDE DEF id
      <3> QED BY <2>1, <2>3, <3>1, SavedProperties
    <2>7. wanted' \in Seq(Phrases \cup Locations)
      BY <2>1, <2>2 DEF TypeOK
    <2>8. due' \in [0 .. MaxId -> Starts] /\ touched' \subseteq 0 .. MaxId
      BY <2>1, <2>2, StartsKnown DEF TypeOK
    <2>9. prefsMax' \in -1 .. MaxId
      BY <2>1, <2>2
    <2>10. steps' \in 0 .. MaxSteps
      BY <2>1, ItemsAssumption DEF Edit, TypeOK
    <2>11. UNCHANGED <<converted, prefs, engineVars, confirmed>>
      BY <2>1
    <2> HIDE DEF id
    <2> QED BY <2>4, <2>5, <2>6, <2>7, <2>8, <2>9, <2>10, <2>11
      DEF TypeOK, Searching, StoreOf, engineVars
  <1>9. CASE AddRefused
    BY <1>9, ItemsAssumption
      DEF AddRefused, Edit, TypeOK, Searching, store, engineVars, history
  <1>10. CASE RemoveItem
    <2>1. PICK i \in DOMAIN prefsItems :
            LET item == prefsItems[i]
            IN /\ Edit
               /\ item.key \notin {Photo, ITunes}
               /\ prefsItems' = Without(prefsItems, i)
               /\ dicts' = [d \in DOMAIN dicts \ {item.id} |-> dicts[d]]
               /\ list' = IdsOf(prefsItems')
               /\ wanted' = Without(wanted, i - 2)
               /\ confirmed' = FALSE
               /\ UNCHANGED <<converted, prefs, prefsMax, engineVars, due, touched>>
      BY <1>10 DEF RemoveItem
    <2>2. prefsItems' \in Seq(Item)
      BY <2>1, WithoutProperties DEF TypeOK
    <2>3. list' \in Seq(0 .. MaxId)
      BY <2>1, <2>2, IdsTyped
    <2>4. StoreOf(dicts')
      BY <2>1 DEF TypeOK, StoreOf
    <2>5. wanted' \in Seq(Phrases \cup Locations)
      <3>1. i - 2 \in Int /\ i - 2 >= -1
        BY DEF TypeOK
      <3> QED BY <2>1, <3>1, WithoutType DEF TypeOK
    <2>6. steps' \in 0 .. MaxSteps
      BY <2>1, ItemsAssumption DEF Edit, TypeOK
    <2> QED BY <2>1, <2>2, <2>3, <2>4, <2>5, <2>6
      DEF TypeOK, Searching, StoreOf, engineVars
  <1>11. CASE OkPressed
    <2> DEFINE dirty == {it \in Elements(prefsItems) : it.dirty}
    <2>1. /\ dicts' = Saved(dicts, dirty)
          /\ list' = IdsOf(prefsItems)
          /\ prefsItems' = Clean(prefsItems)
          /\ touched' = touched \cup {it.id : it \in dirty}
      BY <1>11 DEF OkPressed, SheetSaved, SaveSettings
    <2>2. dirty \in SUBSET Item
      BY DEF TypeOK, Elements
    <2>3. StoreOf(dicts')
      <3>1. StoreOf(dicts)
        BY DEF TypeOK, StoreOf
      <3> HIDE DEF dirty
      <3> QED BY <2>1, <2>2, <3>1, SavedProperties
    <2>4. list' \in Seq(0 .. MaxId)
      BY <2>1, IdsTyped DEF TypeOK
    <2>5. prefsItems' \in Seq(Item)
      <3>1. Item = ItemUpTo(MaxId) /\ MaxId \in Nat
        BY ItemsAssumption DEF Item, ItemUpTo
      <3> QED BY <2>1, <3>1, CleanType DEF TypeOK
    <2>6. touched' \subseteq 0 .. MaxId
      <3>1. \A it \in dirty : it.id \in 0 .. MaxId
        BY <2>2 DEF Item
      <3> QED BY <2>1, <3>1 DEF TypeOK
    <2>7. prefs' = "closed" /\ confirmed' = TRUE
          /\ UNCHANGED <<converted, prefsMax, engineVars, steps, wanted, due>>
      BY <1>11 DEF OkPressed, SheetSaved
    <2> HIDE DEF dirty
    <2> QED BY <2>3, <2>4, <2>5, <2>6, <2>7 DEF TypeOK, Searching, StoreOf, engineVars
  <1>12. CASE EngineStarts
    <2>1. due' \in [0 .. MaxId -> Starts]
      BY <1>12, StartsKnown DEF EngineStarts, TypeOK
    <2> QED BY <1>12, <2>1, InitOptionsTyped
      DEF EngineStarts, TypeOK, Searching, StoreOf, prefsVars
  <1>13. CASE EngineEnds
    BY <1>13 DEF EngineEnds, TypeOK, Searching, store, prefsVars, history
  <1>14. CASE CheckSearchItem
    <2>1. current' \in {0} \cup DOMAIN engineItems
      BY <1>14 DEF CheckSearchItem, RandomItems, TypeOK
    <2>2. current # 0 => current' # 0
      BY <1>14 DEF CheckSearchItem, RandomItems, TypeOK
    <2> QED BY <1>14, <2>1, <2>2
      DEF CheckSearchItem, TypeOK, Searching, store, prefsVars, history
  <1>15. CASE TriggerSearch
    <2> DEFINE s == Cycled(engineItems[current].start)
    <2>1. current \in DOMAIN engineItems /\ engineItems[current] \in Item
      BY <1>15 DEF TriggerSearch, TypeOK
    <2>2. s \in Starts /\ s <= MaxQueryStart
      BY <2>1, ItemsAssumption DEF Cycled, Item, Starts, NoStart
    <2>3. /\ engineItems' = [engineItems EXCEPT ![current].start = s]
          /\ engine' = "searching" /\ searched' = current /\ current # 0
          /\ UNCHANGED <<store, prefsVars, current, steps, history>>
      BY <1>15 DEF TriggerSearch, SearchFrom
    <2> HIDE DEF s
    <2>4. engineItems' \in Seq(Item) /\ Len(engineItems') = Len(engineItems)
      BY <2>1, <2>2, <2>3, ItemChanges, ItemOneChanged DEF TypeOK
    <2>5. engineItems'[current].start = s
      BY <2>1, <2>3 DEF TypeOK, Item
    <2> QED BY <1>15, <2>1, <2>2, <2>3, <2>4, <2>5
      DEF TriggerSearch, TypeOK, Searching, store, prefsVars, history
  <1>16. CASE SearchFails
    BY <1>16 DEF SearchFails, TypeOK, Searching, store, prefsVars, history
  <1>17. CASE CheckResults
    <2> DEFINE old == engineItems[current]
               asked == engineItems[searched]
    <2>1. PICK end \in BOOLEAN :
            LET new == [old EXCEPT !.start = Results(old, end), !.dirty = TRUE]
            IN /\ engineItems' = [engineItems EXCEPT ![current] = new]
               /\ dicts' = Saved(dicts, {new})
               /\ due' = [due EXCEPT ![asked.id] = Cycled(Results(asked, end))]
               /\ touched' = IF searched = current
                               THEN touched \ {new.id}
                               ELSE touched \cup {new.id, asked.id}
      BY <1>17 DEF CheckResults, Answered
    <2> DEFINE new == [old EXCEPT !.start = Results(old, end), !.dirty = TRUE]
    <2>2. /\ old \in Item /\ current \in DOMAIN engineItems
          /\ asked \in Item /\ asked.start <= MaxQueryStart
      BY <1>17 DEF CheckResults, Answered, Searching, TypeOK
    <2>3. Results(old, end) \in Starts /\ Cycled(Results(asked, end)) \in Starts
      <3>1. searched = current => old.start <= MaxQueryStart
        BY <2>2
      <3> HIDE DEF old, asked
      <3>2. Results(old, end) \in Starts
        BY <2>2, <3>1, StartsKnown, ItemsAssumption DEF Results, Starts, Item, NoStart
      <3>3. Results(asked, end) \in Starts
        BY <2>2, StartsKnown, ItemsAssumption DEF Results, Starts, Item, NoStart
      <3> QED BY <3>2, <3>3, StartsKnown DEF Cycled
    <2>4. new \in Item /\ new.id = old.id /\ new.start = Results(old, end)
      <3> HIDE DEF old
      <3> QED BY <2>2, <2>3, ItemChanges DEF Item
    <2> HIDE DEF new
    <2>5. engineItems' \in Seq(Item) /\ Len(engineItems') = Len(engineItems)
      BY <2>1, <2>2, <2>4, ItemOneChanged DEF TypeOK, new
    <2>6. StoreOf(dicts')
      <3>1. StoreOf(dicts)
        BY DEF TypeOK, StoreOf
      <3> QED BY <2>1, <2>4, <3>1, SavedProperties DEF new
    <2>7. due' \in [0 .. MaxId -> Starts] /\ touched' \subseteq 0 .. MaxId
      <3>1. new.id \in 0 .. MaxId /\ asked.id \in 0 .. MaxId
        BY <2>2, <2>4 DEF Item
      <3>2. /\ due' = [due EXCEPT ![asked.id] = Cycled(Results(asked, end))]
            /\ touched' \subseteq touched \cup {new.id, asked.id}
        BY <2>1 DEF new
      <3> HIDE DEF asked
      <3> QED BY <2>3, <3>1, <3>2 DEF TypeOK
    <2>8. /\ engine' = "idle" /\ searched' = 0
          /\ UNCHANGED <<list, converted, prefsVars, current, steps, wanted, confirmed>>
      BY <1>17 DEF CheckResults, Answered
    <2> HIDE DEF old, asked
    <2> QED BY <2>5, <2>6, <2>7, <2>8 DEF TypeOK, Searching, StoreOf, prefsVars
  <1>18. CASE HoursPass
    <2>1. prefsItems' \in Seq(Item)
      <3>1. \A i \in DOMAIN prefsItems : Aged(prefsItems[i]) \in Item
        <4>1. \A i \in DOMAIN prefsItems : prefsItems[i] \in Item
          BY DEF TypeOK
        <4> QED BY <4>1, ItemChanges, StartsKnown
      <3> QED BY <1>18, <3>1, MappedType DEF HoursPass, TypeOK
    <2>2. engineItems' \in Seq(Item) /\ Len(engineItems') = Len(engineItems)
      <3>1. \A i \in DOMAIN engineItems : Aged(engineItems[i]) \in Item
        <4>1. \A i \in DOMAIN engineItems : engineItems[i] \in Item
          BY DEF TypeOK
        <4> QED BY <4>1, ItemChanges, StartsKnown
      <3> QED BY <1>18, <3>1, MappedType DEF HoursPass, TypeOK
    <2>3. \A i \in DOMAIN dicts : Aged(dicts[i]) \in Dict
      BY StartsKnown DEF TypeOK, Aged, Dict
    <2>4. StoreOf(dicts')
      BY <1>18, <2>3 DEF HoursPass, StoreOf, TypeOK
    <2>5. due' \in [0 .. MaxId -> Starts]
      BY <1>18, StartsKnown DEF HoursPass, TypeOK
    <2>6. Searching'
      <3>1. ASSUME engine = "searching"
            PROVE  current # 0 /\ searched # 0 /\ engineItems'[searched].start <= MaxQueryStart
        <4>1. searched \in DOMAIN engineItems /\ engineItems[searched] \in Item
              /\ engineItems[searched].start <= MaxQueryStart
          BY <3>1 DEF Searching, TypeOK
        <4>2. engineItems'[searched] = Aged(engineItems[searched])
          BY <1>18, <4>1 DEF HoursPass
        <4>3. \A it \in Item : it.start <= MaxQueryStart => Aged(it).start <= MaxQueryStart
          BY ItemsAssumption DEF Aged, Item
        <4>4. Aged(engineItems[searched]).start <= MaxQueryStart
          BY <4>1, <4>3, Zenon
        <4>5. current # 0 /\ searched # 0
          BY <3>1 DEF Searching
        <4> QED BY <4>2, <4>4, <4>5, Zenon
      <3> QED BY <1>18, <3>1 DEF HoursPass, Searching
    <2> QED BY <1>18, <2>1, <2>2, <2>4, <2>5, <2>6 DEF HoursPass, TypeOK, StoreOf
  <1> QED BY <1>1, <1>2, <1>3, <1>4, <1>5, <1>6, <1>7, <1>8, <1>9, <1>10, <1>11, <1>12,
            <1>13, <1>14, <1>15, <1>16, <1>17, <1>18 DEF Next, Prefs, Engine

(* Type correctness, for any list, whatever it held before. *)
THEOREM TypeCorrect == Spec => []TypeOK
  <1>1. TypeInv => TypeOK
    BY DEF TypeInv
  <1> QED BY InitTypeInv, NextTypeInv, <1>1, PTL DEF Spec

(* Nothing is stored before the first start, and then a list without gaps   *)
(* or repetitions, the main items first.                                    *)
Stored ==
  IF converted
    THEN /\ Len(list) = Len(wanted) + 2
         /\ \A i \in DOMAIN list : list[i] \in DOMAIN dicts
         /\ \A i, j \in DOMAIN list : list[i] = list[j] => i = j
         /\ dicts[list[1]].key = Photo
         /\ dicts[list[2]].key = ITunes
         /\ \A i \in DOMAIN wanted : dicts[list[i + 2]].key = wanted[i]
    ELSE /\ list = <<>> /\ DOMAIN dicts = {}
         /\ prefs = "off" /\ engine = "off"
         /\ \A i \in 0 .. MaxId : due[i] = 0

(* System Preferences has the list that is stored. *)
PrefsList ==
  prefs # "off" =>
    /\ Len(prefsItems) = Len(list)
    /\ \A i \in DOMAIN prefsItems :
         /\ prefsItems[i].id = list[i]
         /\ prefsItems[i].key = dicts[list[i]].key
         /\ prefsItems[i].id <= prefsMax

(* The screen saver may have another; no identifier of it is given again.   *)
EngineList ==
  engine # "off" =>
    /\ \A i, j \in DOMAIN engineItems : engineItems[i].id = engineItems[j].id => i = j
    /\ \A i \in DOMAIN engineItems :
         LET id == engineItems[i].id
         IN /\ id \in DOMAIN dicts => dicts[id].key = engineItems[i].key
            /\ prefs # "off" => id <= prefsMax

ListInv == Stored /\ PrefsList /\ EngineList
-----------------------------------------------------------------------------
(* What a process that starts reads. *)

(* The domains of the lists are intervals, *)
LEMMA Domains ==
  ASSUME TypeOK
  PROVE  /\ Len(list) \in Nat /\ DOMAIN list = 1 .. Len(list)
         /\ Len(wanted) \in Nat /\ DOMAIN wanted = 1 .. Len(wanted)
         /\ Len(prefsItems) \in Nat /\ DOMAIN prefsItems = 1 .. Len(prefsItems)
         /\ Len(engineItems) \in Nat /\ DOMAIN engineItems = 1 .. Len(engineItems)
         /\ Len(Legacy) \in Nat /\ DOMAIN Legacy = 1 .. Len(Legacy)
  BY ItemsAssumption DEF TypeOK

(* and the identifiers in them are naturals. *)
LEMMA ItemIds ==
  ASSUME TypeOK
  PROVE  /\ \A i \in DOMAIN prefsItems : prefsItems[i] \in Item /\ prefsItems[i].id \in Nat
         /\ \A i \in DOMAIN engineItems : engineItems[i] \in Item /\ engineItems[i].id \in Nat
  <1>1. \A it \in Item : it.id \in Nat
    BY DEF Item
  <1>2. /\ \A i \in DOMAIN prefsItems : prefsItems[i] \in Item
        /\ \A i \in DOMAIN engineItems : engineItems[i] \in Item
    BY DEF TypeOK
  <1> QED BY <1>1, <1>2

(* The loop of -loadSearchParamItems passes nothing over, *)
LEMMA WholeLoaded ==
  ASSUME TypeOK, Stored, converted
  PROVE  Loaded = [i \in 1 .. Len(list) |-> LoadItem(list[i])]
  <1> DEFINE part(n) == [i \in 1 .. n |-> LoadItem(list[i])]
             T == {n \in 0 .. Len(list) : LoadedUpTo[n] # part(n)}
  <1>1. Len(list) \in Nat /\ list \in Seq(0 .. MaxId) /\ Len(list) >= 2
    BY Domains DEF TypeOK, Stored
  <1>2. T = {}
    <2> SUFFICES ASSUME T # {} PROVE FALSE
      OBVIOUS
    <2>1. PICK n \in T : \A k \in T : n <= k
      <3>1. T \in SUBSET Nat
        BY <1>1
      <3> HIDE DEF T
      <3> QED BY <3>1, Least
    <2>2. n # 0
      <3>1. part(0) = <<>>
        OBVIOUS
      <3>2. LoadedUpTo[0] = <<>>
        BY <1>1, LoadingStep
      <3> QED BY <2>1, <3>1, <3>2
    <2>3. n \in 1 .. Len(list) /\ n - 1 \in 0 .. Len(list) /\ n - 1 \notin T
      BY <1>1, <2>1, <2>2
    <2>4. LoadedUpTo[n - 1] = part(n - 1)
      BY <2>3
    <2>5. LoadedUpTo[n] = LoadStep(LoadedUpTo[n - 1], n)
      BY <1>1, <2>3, LoadingStep
    <2>6. list[n] \in DOMAIN dicts
      BY <1>1, <2>3 DEF Stored
    <2>7. LoadedUpTo[n] = Append(part(n - 1), LoadItem(list[n]))
      BY <2>4, <2>5, <2>6 DEF LoadStep
    <2>8. Append(part(n - 1), LoadItem(list[n])) = part(n)
      <3> DEFINE it(i) == LoadItem(list[i])
      <3>1. n \in Nat /\ n >= 1
        BY <2>3
      <3> HIDE DEF it
      <3>2. Append([i \in 1 .. n - 1 |-> it(i)], it(n)) = [i \in 1 .. n |-> it(i)]
        BY <3>1
      <3> QED BY <3>2 DEF it
    <2> QED BY <2>1, <2>7, <2>8
  <1>3. LoadedUpTo[Len(list)] = part(Len(list))
    <2>1. Len(list) \in 0 .. Len(list)
      BY <1>1
    <2> HIDE DEF part
    <2>2. LoadedUpTo[Len(list)] # part(Len(list)) => Len(list) \in T
      BY <2>1, Zenon
    <2> HIDE DEF T
    <2> QED BY <1>2, <2>2
  <1>4. WithMain(part(Len(list))) = part(Len(list))
    <2> DEFINE items == part(Len(list))
    <2>1. Len(items) = Len(list) /\ items # <<>> /\ items[2] = LoadItem(list[2])
      BY <1>1
    <2>2. items[2].key = ITunes
      BY <2>1 DEF LoadItem, Stored
    <2> HIDE DEF items
    <2>3. WithMain(items) = items
      BY <1>1, <2>1, <2>2 DEF WithMain
    <2> QED BY <2>3 DEF items
  <1> QED BY <1>3, <1>4 DEF Loaded

(* (of the highest identifier it is enough to know that it occurs) *)
LEMMA MaxIdIs ==
  ASSUME NEW items, NEW m \in Nat, \E i \in DOMAIN items : items[i].id = m,
         \A i \in DOMAIN items : items[i].id \in 0 .. m
  PROVE  MaxIdOf(items) = m
  <1>1. MaxIdOf(items) \in -1 .. m /\ \A i \in DOMAIN items : items[i].id <= MaxIdOf(items)
    BY MaxIdProperties
  <1> QED BY <1>1

(* The very first start makes the main items and converts the old ones. *)
LEMMA FirstOptions ==
  ASSUME TypeOK, Stored, ~converted
  PROVE  /\ Len(Options) = Len(Legacy) + 2
         /\ Options[1].id = 0 /\ Options[1].key = Photo /\ Options[1].enabled
         /\ Options[1].start = NoStart
         /\ Options[2].id = 1 /\ Options[2].key = ITunes /\ Options[2].start = 0
         /\ \A i \in DOMAIN Legacy :
              /\ Options[i + 2].id = i + 1
              /\ Options[i + 2].key = Legacy[i]
              /\ Options[i + 2].start = 0
         /\ \A i \in DOMAIN Options : ~Options[i].dirty
  <1> DEFINE photo == NewItem(0, Photo, TRUE)
             itunes == NewItem(1, ITunes, FALSE)
             more == [i \in DOMAIN Legacy |-> NewItem(1 + i, Legacy[i], TRUE)]
             all == <<photo, itunes>> \o more
  <1>0. Len(Legacy) \in Nat /\ DOMAIN Legacy = 1 .. Len(Legacy)
    BY Domains
  <1>1. LoadedUpTo[Len(list)] = <<>>
    <2>1. Len(list) = 0 /\ list \in Seq(0 .. MaxId)
      BY DEF Stored, TypeOK
    <2> QED BY <2>1, LoadingStep
  <1>2. photo.id = 0 /\ itunes.id = 1
    BY DEF NewItem
  <1>3. MaxIdOf(<<photo>>) = 0
    <2> HIDE DEF photo
    <2> QED BY <1>2, MaxIdIs
  <1>4. MaxIdOf(<<photo, itunes>>) = 1
    <2> HIDE DEF photo, itunes
    <2>1. \E i \in DOMAIN <<photo, itunes>> : <<photo, itunes>>[i].id = 1
      BY <1>2
    <2>2. \A i \in DOMAIN <<photo, itunes>> : <<photo, itunes>>[i].id \in 0 .. 1
      BY <1>2
    <2> QED BY <2>1, <2>2, MaxIdIs
  <1>5. Loaded = <<photo, itunes>>
    <2>1. WithMain(<<>>) =
            IF Len(<<photo>>) > 1 /\ <<photo>>[2].key = ITunes
              THEN <<photo>>
              ELSE <<<<photo>>[1], NewItem(MaxIdOf(<<photo>>) + 1, ITunes, FALSE)>>
                     \o Tail(<<photo>>)
      BY DEF WithMain
    <2>2. WithMain(<<>>) = <<photo, itunes>> \o Tail(<<photo>>)
      <3>1. NewItem(MaxIdOf(<<photo>>) + 1, ITunes, FALSE) = itunes
        BY <1>3
      <3> HIDE DEF photo, itunes
      <3>2. ~(Len(<<photo>>) > 1) /\ <<photo>>[1] = photo
        OBVIOUS
      <3>3. WithMain(<<>>) =
              <<<<photo>>[1], NewItem(MaxIdOf(<<photo>>) + 1, ITunes, FALSE)>>
                \o Tail(<<photo>>)
        BY <2>1, <3>2, Zenon
      <3> QED BY <3>1, <3>2, <3>3, Zenon
    <2>3. <<photo, itunes>> \o Tail(<<photo>>) = <<photo, itunes>>
      <3> HIDE DEF photo, itunes
      <3> QED OBVIOUS
    <2> QED BY <1>1, <2>2, <2>3 DEF Loaded
  <1>6. Converted(Loaded) = all
    BY <1>4, <1>5 DEF Converted
  <1>7. /\ Len(all) = Len(Legacy) + 2
        /\ all[1] = photo /\ all[2] = itunes
        /\ \A i \in DOMAIN Legacy : all[i + 2] = more[i]
    <2>1. more = [i \in 1 .. Len(Legacy) |-> more[i]] /\ Len(more) = Len(Legacy)
      BY <1>0
    <2> HIDE DEF photo, itunes, more
    <2> QED BY <1>0, <2>1
  <1>8. ASSUME NEW i \in DOMAIN all
        PROVE  /\ Clean(all)[i].id = all[i].id
               /\ Clean(all)[i].key = all[i].key
               /\ Clean(all)[i].enabled = all[i].enabled
               /\ Clean(all)[i].start = all[i].start
               /\ ~Clean(all)[i].dirty
    <2>1. i \in 1 .. Len(Legacy) + 2
      <3>1. DOMAIN all = 1 .. Len(Legacy) + 2
        <4>1. more = [j \in 1 .. Len(Legacy) |-> more[j]] /\ Len(more) = Len(Legacy)
          BY <1>0
        <4> HIDE DEF photo, itunes, more
        <4> QED BY <1>0, <4>1
      <3> QED BY <3>1
    <2>2. \E id, key, e : all[i] = NewItem(id, key, e)
      <3>1. CASE i = 1
        <4>1. all[i] = photo
          BY <1>7, <3>1
        <4> HIDE DEF all
        <4> QED BY <4>1
      <3>2. CASE i = 2
        <4>1. all[i] = itunes
          BY <1>7, <3>2
        <4> HIDE DEF all
        <4> QED BY <4>1
      <3>3. CASE i > 2
        <4>1. i - 2 \in DOMAIN Legacy /\ all[i] = more[i - 2]
          <5>1. i - 2 \in DOMAIN Legacy /\ (i - 2) + 2 = i
            BY <1>0, <2>1, <3>3
          <5> HIDE DEF all, more
          <5> QED BY <1>7, <5>1
        <4> HIDE DEF all
        <4> QED BY <4>1
      <3>4. i = 1 \/ i = 2 \/ i > 2
        BY <1>0, <2>1
      <3> QED BY <3>1, <3>2, <3>3, <3>4, Zenon
    <2> HIDE DEF all
    <2>3. PICK id, key, e : all[i] = NewItem(id, key, e)
      BY <2>2
    <2>4. Clean(all)[i] = [NewItem(id, key, e) EXCEPT !.dirty = FALSE]
      BY <2>3 DEF Clean
    <2> QED BY <2>3, <2>4 DEF NewItem
  <1>9. Options = Clean(all) /\ DOMAIN Clean(all) = DOMAIN all /\ DOMAIN all = 1 .. Len(Legacy) + 2
    <2>1. Options = Clean(all)
      BY <1>6 DEF Options
    <2>2. more = [i \in 1 .. Len(Legacy) |-> more[i]] /\ Len(more) = Len(Legacy)
      BY <1>0
    <2>3. DOMAIN all = 1 .. Len(Legacy) + 2
      <3> HIDE DEF photo, itunes, more
      <3> QED BY <1>0, <2>2
    <2> QED BY <2>1, <2>3 DEF Clean
  <1>10. Len(Options) = Len(Legacy) + 2
    <2>1. DOMAIN Options = 1 .. Len(Legacy) + 2
      BY <1>9
    <2> HIDE DEF all
    <2> QED BY <1>0, <1>9, <2>1 DEF Clean
  <1>11. \A i \in DOMAIN Legacy : i + 2 \in DOMAIN all
    BY <1>0, <1>9
  <1>12. 1 \in DOMAIN all /\ 2 \in DOMAIN all
    BY <1>0, <1>9
  <1>13. \A i \in DOMAIN Legacy :
           /\ more[i].id = i + 1 /\ more[i].key = Legacy[i] /\ more[i].start = 0
    <2>1. \A i \in DOMAIN Legacy : Legacy[i] # Photo
      BY ItemsAssumption
    <2> QED BY <1>0, <2>1 DEF NewItem
  <1>14. /\ photo.id = 0 /\ photo.key = Photo /\ photo.enabled /\ photo.start = NoStart
         /\ itunes.id = 1 /\ itunes.key = ITunes /\ itunes.start = 0
    BY ItemsAssumption DEF NewItem
  <1> HIDE DEF photo, itunes, more, all
  <1> QED BY <1>7, <1>8, <1>9, <1>10, <1>11, <1>12, <1>13, <1>14
-----------------------------------------------------------------------------
(* Lists. *)

(* What a start of either process finds, or on the very first start makes.  *)
LEMMA Started ==
  ASSUME TypeOK, Stored, InitOptions
  PROVE  /\ Stored'
         /\ Len(Options) \in Nat /\ DOMAIN Options = 1 .. Len(Options)
         /\ Len(Options) = Len(list')
         /\ \A i \in DOMAIN Options :
              /\ list'[i] = Options[i].id
              /\ dicts'[list'[i]].key = Options[i].key
              /\ dicts'[list'[i]].enabled = Options[i].enabled
              /\ dicts'[list'[i]].start = Options[i].start
         /\ \A id \in DOMAIN dicts : id \in DOMAIN dicts' /\ dicts'[id] = dicts[id]
  <1>1. CASE converted
    <2>1. Options = [i \in 1 .. Len(list) |-> LoadItem(list[i])]
      BY <1>1, WholeLoaded DEF Options
    <2>2. list' = list /\ dicts' = dicts /\ converted' = converted /\ wanted' = wanted
      BY <1>1 DEF InitOptions, store
    <2>3. Stored'
      BY <1>1, <2>2 DEF Stored
    <2> QED BY <1>1, <2>1, <2>2, <2>3, Domains DEF LoadItem
  <1>2. CASE ~converted
    <2>1. /\ list' = IdsOf(Options) /\ dicts' = Saved(dicts, Elements(Options))
          /\ converted' /\ wanted' = Legacy
      BY <1>2 DEF InitOptions
    <2>2. Options \in Seq(Item)
      BY OptionsFit DEF InitOptions
    <2>3. Len(Options) \in Nat /\ DOMAIN Options = 1 .. Len(Options)
      BY <2>2
    <2>4. Len(Options) = Len(Legacy) + 2
      BY <1>2, FirstOptions
    <2>5. Len(list') = Len(Options) /\ \A i \in DOMAIN Options : list'[i] = Options[i].id
      BY <2>1, <2>2, IdsTyped
    <2>6. ASSUME NEW i \in DOMAIN Options
          PROVE  Options[i].id = i - 1
      <3>1. CASE i <= 2
        <4>1. i = 1 \/ i = 2
          BY <2>3, <3>1
        <4> QED BY <1>2, <4>1, FirstOptions
      <3>2. CASE i > 2
        <4>1. i - 2 \in DOMAIN Legacy /\ (i - 2) + 2 = i
          BY <2>3, <2>4, <3>2, Domains
        <4>2. Options[(i - 2) + 2].id = (i - 2) + 1
          BY <1>2, <4>1, FirstOptions
        <4> QED BY <2>3, <4>1, <4>2
      <3> QED BY <2>3, <3>1, <3>2
    <2>7. ASSUME NEW i \in DOMAIN Options
          PROVE  /\ list'[i] \in DOMAIN dicts'
                 /\ dicts'[list'[i]] = SavedDict(Options[i])
      <3> DEFINE its == Elements(Options)
      <3>1. Options[i] \in its /\ its \in SUBSET Item
        BY <2>2 DEF Elements
      <3>2. list'[i] \in {it.id : it \in its}
        BY <2>5, <3>1
      <3>3. StoreOf(dicts)
        BY DEF TypeOK, StoreOf
      <3>4. \A it \in its : it.id = list'[i] => it = Options[i]
        <4>1. ASSUME NEW j \in DOMAIN Options, Options[j].id = list'[i]
              PROVE  Options[j] = Options[i]
          BY <2>3, <2>5, <2>6, <4>1
        <4> QED BY <4>1 DEF Elements
      <3> HIDE DEF its
      <3>5. dicts' = Saved(dicts, its)
        BY <2>1 DEF its
      <3>6. list'[i] \in DOMAIN Saved(dicts, its)
        <4>1. DOMAIN Saved(dicts, its) = DOMAIN dicts \cup {it.id : it \in its}
          BY <3>1, <3>3, SavedProperties
        <4> QED BY <3>2, <4>1
      <3>7. Saved(dicts, its)[Options[i].id] = SavedDict(Options[i])
        <4>1. \A it \in its : it.id = Options[i].id => it = Options[i]
          BY <2>5, <3>4
        <4> QED BY <3>1, <4>1, SavedOne
      <3> QED BY <2>5, <3>5, <3>6, <3>7
    <2>8. ASSUME NEW i \in DOMAIN Options
          PROVE  /\ SavedDict(Options[i]).key = Options[i].key
                 /\ SavedDict(Options[i]).enabled = Options[i].enabled
                 /\ SavedDict(Options[i]).start = Options[i].start
      <3>1. Options[i].key = ITunes => Options[i].start = 0
        <4>1. CASE i <= 2
          <5>1. i = 1 \/ i = 2
            BY <2>3, <4>1
          <5> QED BY <1>2, <5>1, FirstOptions, ItemsAssumption
        <4>2. CASE i > 2
          <5>1. i - 2 \in DOMAIN Legacy /\ (i - 2) + 2 = i
            BY <2>3, <2>4, <4>2, Domains
          <5>2. Options[(i - 2) + 2].start = 0
            BY <1>2, <5>1, FirstOptions
          <5> QED BY <5>1, <5>2
        <4> QED BY <2>3, <4>1, <4>2
      <3> QED BY <3>1 DEF SavedDict
    <2>9. Stored'
      <3>1. Len(list') = Len(wanted') + 2
        BY <2>1, <2>4, <2>5
      <3>2. DOMAIN list' = DOMAIN Options
        <4>1. list' \in Seq(0 .. MaxId)
          BY <2>1, <2>2, IdsTyped
        <4> QED BY <2>3, <2>5, <4>1
      <3>3. \A i \in DOMAIN list' : list'[i] \in DOMAIN dicts'
        BY <2>7, <3>2
      <3>4. \A i, j \in DOMAIN list' : list'[i] = list'[j] => i = j
        BY <2>3, <2>5, <2>6, <3>2
      <3>5. \A i \in DOMAIN Options : dicts'[list'[i]].key = Options[i].key
        BY <2>7, <2>8
      <3>6. 1 \in DOMAIN Options /\ 2 \in DOMAIN Options
        BY <2>3, <2>4, Domains
      <3>7. dicts'[list'[1]].key = Photo /\ dicts'[list'[2]].key = ITunes
        BY <1>2, <3>5, <3>6, FirstOptions
      <3>8. ASSUME NEW i \in DOMAIN wanted'
            PROVE  dicts'[list'[i + 2]].key = wanted'[i]
        <4>1. i \in DOMAIN Legacy /\ i + 2 \in DOMAIN Options
          BY <2>1, <2>3, <2>4, Domains
        <4> QED BY <1>2, <2>1, <3>5, <4>1, FirstOptions
      <3> QED BY <2>1, <3>1, <3>3, <3>4, <3>7, <3>8 DEF Stored
    <2> QED BY <1>2, <2>3, <2>5, <2>7, <2>8, <2>9 DEF Stored
  <1> QED BY <1>1, <1>2

(* A step that changes no list, identifier or key of the items it leaves.   *)
LEMMA SameLists ==
  ASSUME TypeOK, TypeOK', ListInv, converted, UNCHANGED <<list, converted, wanted>>,
         \A id \in DOMAIN dicts : id \in DOMAIN dicts' /\ dicts'[id].key = dicts[id].key,
         \/ prefs' = "off"
         \/ /\ prefs # "off" /\ prefsMax' >= prefsMax
            /\ Len(prefsItems') = Len(prefsItems)
            /\ \A i \in DOMAIN prefsItems :
                 /\ prefsItems'[i].id = prefsItems[i].id
                 /\ prefsItems'[i].key = prefsItems[i].key,
         \/ engine' = "off"
         \/ /\ engine # "off"
            /\ Len(engineItems') = Len(engineItems)
            /\ \A i \in DOMAIN engineItems :
                 /\ engineItems'[i].id = engineItems[i].id
                 /\ engineItems'[i].key = engineItems[i].key
            /\ \A i \in DOMAIN engineItems :
                 engineItems[i].id \in DOMAIN dicts' =>
                   dicts'[engineItems[i].id].key = engineItems[i].key
  PROVE  ListInv'
  <1>1. Stored'
    <2>1. \A i \in DOMAIN list : list[i] \in DOMAIN dicts' /\ dicts'[list[i]].key = dicts[list[i]].key
      BY DEF ListInv, Stored
    <2>2. 1 \in DOMAIN list /\ 2 \in DOMAIN list /\ \A i \in DOMAIN wanted : i + 2 \in DOMAIN list
      BY Domains DEF ListInv, Stored
    <2> QED BY <2>1, <2>2 DEF ListInv, Stored
  <1>2. PrefsList'
    <2>1. CASE prefs' = "off"
      BY <2>1 DEF PrefsList
    <2>2. CASE prefs' # "off"
      <3>1. /\ prefs # "off" /\ prefsMax' >= prefsMax
            /\ Len(prefsItems') = Len(prefsItems)
            /\ \A i \in DOMAIN prefsItems :
                 /\ prefsItems'[i].id = prefsItems[i].id
                 /\ prefsItems'[i].key = prefsItems[i].key
        BY <2>2
      <3>2. DOMAIN prefsItems' = DOMAIN prefsItems /\ DOMAIN prefsItems = DOMAIN list
        <4>1. prefsItems' \in Seq(Item) /\ prefsItems \in Seq(Item)
          BY DEF TypeOK
        <4> QED BY <3>1, <4>1, Domains DEF ListInv, PrefsList
      <3>3. \A i \in DOMAIN prefsItems : prefsItems[i].id <= prefsMax'
        <4>1. \A i \in DOMAIN prefsItems : prefsItems[i].id \in Nat
          BY ItemIds
        <4> QED BY <3>1, <4>1 DEF ListInv, PrefsList, TypeOK
      <3>4. \A i \in DOMAIN list : dicts'[list[i]].key = dicts[list[i]].key
        BY DEF ListInv, Stored
      <3> QED BY <3>1, <3>2, <3>3, <3>4 DEF ListInv, PrefsList
    <2> QED BY <2>1, <2>2
  <1>3. EngineList'
    <2>1. CASE engine' = "off"
      BY <2>1 DEF EngineList
    <2>2. CASE engine' # "off"
      <3>1. DOMAIN engineItems' = DOMAIN engineItems
        <4>1. engineItems' \in Seq(Item) /\ engineItems \in Seq(Item)
          BY DEF TypeOK
        <4> QED BY <2>2, <4>1
      <3>2. ASSUME NEW i \in DOMAIN engineItems, prefs' # "off"
            PROVE  engineItems[i].id <= prefsMax'
        <4>1. engineItems[i].id \in Nat
          BY ItemIds
        <4>2. engineItems[i].id <= prefsMax
          BY <2>2, <3>2 DEF ListInv, EngineList
        <4> QED BY <3>2, <4>1, <4>2 DEF TypeOK
      <3>3. /\ engine # "off"
            /\ \A i \in DOMAIN engineItems :
                 /\ engineItems'[i].id = engineItems[i].id
                 /\ engineItems'[i].key = engineItems[i].key
            /\ \A i \in DOMAIN engineItems :
                 engineItems[i].id \in DOMAIN dicts' =>
                   dicts'[engineItems[i].id].key = engineItems[i].key
        BY <2>2
      <3> QED BY <3>1, <3>2, <3>3 DEF ListInv, EngineList
    <2> QED BY <2>1, <2>2
  <1> QED BY <1>1, <1>2, <1>3 DEF ListInv

(* Defaults that are empty are in order. *)
LEMMA InitListInv ==
  ASSUME ~Upgraded
  PROVE  Init => ListInv
  BY DEF Init, ListInv, Stored, PrefsList, EngineList

(* -addSearchParamItem:sync: *)
LEMMA AddItemLists ==
  ASSUME TypeInv, TypeInv', ListInv, AddItem
  PROVE  ListInv'
  <1> DEFINE id == prefsMax + 2
             n == Len(prefsItems)
  <1>1. PICK key \in NotListed :
          LET item == NewItem(id, key, TRUE)
          IN /\ Edit
             /\ id <= MaxId
             /\ prefsItems' = Append(prefsItems, item)
             /\ prefsMax' = id
             /\ list' = IdsOf(prefsItems')
             /\ dicts' = Saved(dicts, {item})
             /\ wanted' = Append(wanted, key)
             /\ UNCHANGED <<converted, prefs, engineVars>>
    BY DEF AddItem, AddWithId
  <1> DEFINE item == NewItem(id, key, TRUE)
  <1>2. prefs # "off" /\ prefs' # "off" /\ converted /\ converted'
    BY <1>1 DEF Edit, ListInv, Stored
  <1>3. prefsMax \in Int /\ prefsMax < id /\ prefsMax <= id
    BY DEF TypeInv, TypeOK
  <1>4. item \in Item /\ item.id = id /\ item.key = key
    <2>1. id \in 0 .. MaxId /\ key \in Keys
      BY <1>1, ItemsAssumption DEF TypeInv, TypeOK, NotListed, Keys
    <2>2. NewItem(id, key, TRUE) \in Item
      <3> HIDE DEF id
      <3> QED BY <2>1, NewItemType, ItemsAssumption DEF ItemUpTo, Item
    <2> QED BY <2>2 DEF NewItem
  <1>5. n \in Nat /\ DOMAIN prefsItems = 1 .. n /\ n = Len(list) /\ DOMAIN list = 1 .. n
        /\ n = Len(wanted) + 2 /\ DOMAIN wanted = 1 .. Len(wanted) /\ Len(wanted) \in Nat
    BY <1>2, Domains DEF TypeInv, ListInv, PrefsList, Stored
  <1>6. /\ Len(prefsItems') = n + 1 /\ DOMAIN prefsItems' = 1 .. n + 1
        /\ prefsItems'[n + 1] = item
        /\ \A i \in 1 .. n : prefsItems'[i] = prefsItems[i]
    <2>1. prefsItems \in Seq(Item)
      BY DEF TypeInv, TypeOK
    <2>2. prefsItems' = Append(prefsItems, item)
      BY <1>1
    <2> HIDE DEF item
    <2> QED BY <1>4, <2>1, <2>2
  <1>7. /\ Len(list') = n + 1 /\ DOMAIN list' = 1 .. n + 1
        /\ list'[n + 1] = id
        /\ \A i \in 1 .. n : list'[i] = list[i]
    <2>1. prefsItems' \in Seq(Item)
      BY DEF TypeInv, TypeOK
    <2>2. Len(list') = n + 1 /\ \A i \in 1 .. n + 1 : list'[i] = prefsItems'[i].id
      BY <1>1, <1>6, <2>1, IdsTyped
    <2>3. DOMAIN list' = 1 .. n + 1
      BY <2>2 DEF TypeInv, TypeOK
    <2>4. \A i \in 1 .. n : list[i] = prefsItems[i].id
      BY <1>2, <1>5 DEF ListInv, PrefsList
    <2>5. n + 1 \in 1 .. n + 1 /\ \A i \in 1 .. n : i \in 1 .. n + 1
      BY <1>5
    <2> HIDE DEF id, n, item
    <2> QED BY <1>4, <1>6, <2>2, <2>3, <2>4, <2>5
  <1>8. /\ DOMAIN dicts' = DOMAIN dicts \cup {id}
        /\ dicts'[id].key = key
        /\ \A d \in DOMAIN dicts : d # id => dicts'[d] = dicts[d]
    <2> HIDE DEF item
    <2>1. dicts' = Saved(dicts, {item})
      BY <1>1 DEF item
    <2>2. StoreOf(dicts)
      BY DEF TypeInv, TypeOK, StoreOf
    <2>3. SavedDict(item).key = key
      BY <1>4 DEF SavedDict
    <2> HIDE DEF id
    <2> QED BY <1>4, <2>1, <2>2, <2>3, StoredOne
  <1>9. \A i \in 1 .. n : list[i] \in Nat /\ list[i] <= prefsMax /\ list[i] # id
    <2>1. \A i \in 1 .. n : prefsItems[i].id \in Nat /\ prefsItems[i].id <= prefsMax
      BY <1>2, <1>5, ItemIds DEF TypeInv, ListInv, PrefsList
    <2>2. \A i \in 1 .. n : prefsItems[i].id = list[i]
      BY <1>2, <1>5 DEF ListInv, PrefsList
    <2> QED BY <1>3, <2>1, <2>2
  <1>10. \A i \in 1 .. n : list[i] \in DOMAIN dicts /\ dicts'[list[i]] = dicts[list[i]]
    BY <1>2, <1>5, <1>8, <1>9 DEF ListInv, Stored
  <1>11. Len(wanted') = Len(wanted) + 1 /\ DOMAIN wanted' = 1 .. Len(wanted) + 1
         /\ wanted'[Len(wanted) + 1] = key
         /\ \A i \in 1 .. Len(wanted) : wanted'[i] = wanted[i]
    BY <1>1 DEF TypeInv, TypeOK
  <1> HIDE DEF id, n, item
  <1>12. Stored'
    <2>1. Len(list') = Len(wanted') + 2
      BY <1>5, <1>7, <1>11
    <2>2. \A i \in 1 .. n + 1 : i \in 1 .. n \/ i = n + 1
      BY <1>5
    <2>3. \A i \in DOMAIN list' : list'[i] \in DOMAIN dicts'
      BY <1>7, <1>8, <1>10, <2>2
    <2>4. \A i, j \in DOMAIN list' : list'[i] = list'[j] => i = j
      <3>1. \A i, j \in 1 .. n : list[i] = list[j] => i = j
        BY <1>2, <1>5 DEF ListInv, Stored
      <3> QED BY <1>7, <1>9, <2>2, <3>1
    <2>5. dicts'[list'[1]].key = Photo /\ dicts'[list'[2]].key = ITunes
      <3>1. 1 \in 1 .. n /\ 2 \in 1 .. n
        BY <1>5
      <3> QED BY <1>2, <1>7, <1>10, <3>1 DEF ListInv, Stored
    <2>6. ASSUME NEW i \in DOMAIN wanted'
          PROVE  dicts'[list'[i + 2]].key = wanted'[i]
      <3>1. CASE i \in 1 .. Len(wanted)
        <4>1. i + 2 \in 1 .. n /\ i \in DOMAIN wanted
          BY <1>5, <3>1
        <4> QED BY <1>2, <1>7, <1>10, <1>11, <3>1, <4>1 DEF ListInv, Stored
      <3>2. CASE i = Len(wanted) + 1
        <4>1. i + 2 = n + 1
          BY <1>5, <3>2
        <4> QED BY <1>7, <1>8, <1>11, <3>2, <4>1
      <3> QED BY <1>5, <1>11, <3>1, <3>2
    <2> QED BY <1>2, <2>1, <2>3, <2>4, <2>5, <2>6 DEF Stored
  <1>13. PrefsList'
    <2>1. ASSUME NEW i \in DOMAIN prefsItems'
          PROVE  /\ prefsItems'[i].id = list'[i]
                 /\ prefsItems'[i].key = dicts'[list'[i]].key
                 /\ prefsItems'[i].id <= prefsMax'
      <3>1. CASE i \in 1 .. n
        <4>1. /\ prefsItems[i].id = list[i]
              /\ prefsItems[i].key = dicts[list[i]].key
          BY <1>2, <1>5, <3>1 DEF ListInv, PrefsList
        <4>2. list[i] <= id
          BY <1>3, <1>9, <3>1 DEF id
        <4> QED BY <1>1, <1>6, <1>7, <1>10, <3>1, <4>1, <4>2
      <3>2. CASE i = n + 1
        <4>1. id <= id
          BY <1>3 DEF id
        <4> QED BY <1>1, <1>4, <1>6, <1>7, <1>8, <3>2, <4>1
      <3> QED BY <1>5, <1>6, <3>1, <3>2
    <2> QED BY <1>6, <1>7, <2>1 DEF PrefsList
  <1>14. EngineList'
    <2>1. ASSUME engine # "off", NEW i \in DOMAIN engineItems
          PROVE  /\ engineItems[i].id \in DOMAIN dicts' =>
                      dicts'[engineItems[i].id].key = engineItems[i].key
                 /\ engineItems[i].id <= id
      <3>1. engineItems[i].id \in Nat /\ engineItems[i].id <= prefsMax
        BY <1>2, <2>1, ItemIds DEF TypeInv, ListInv, EngineList
      <3>2. engineItems[i].id # id /\ engineItems[i].id <= id
        BY <1>3, <3>1 DEF id
      <3> QED BY <1>8, <2>1, <3>2 DEF ListInv, EngineList
    <2>2. engine' = engine /\ engineItems' = engineItems /\ prefsMax' = id
      BY <1>1 DEF engineVars
    <2> QED BY <2>1, <2>2 DEF ListInv, EngineList
  <1> QED BY <1>12, <1>13, <1>14 DEF ListInv

(* -removeSearchParamItem:sync: *)
LEMMA RemoveItemLists ==
  ASSUME TypeInv, TypeInv', ListInv, RemoveItem
  PROVE  ListInv'
  <1> DEFINE n == Len(prefsItems)
  <1>1. PICK r \in DOMAIN prefsItems :
          LET item == prefsItems[r]
          IN /\ Edit
             /\ item.key \notin {Photo, ITunes}
             /\ prefsItems' = Without(prefsItems, r)
             /\ dicts' = [d \in DOMAIN dicts \ {item.id} |-> dicts[d]]
             /\ list' = IdsOf(prefsItems')
             /\ wanted' = Without(wanted, r - 2)
             /\ UNCHANGED <<converted, prefs, prefsMax, engineVars>>
    BY DEF RemoveItem
  <1>2. prefs # "off" /\ prefs' # "off" /\ converted /\ converted'
    BY <1>1 DEF Edit, ListInv, Stored
  <1>3. n \in Nat /\ DOMAIN prefsItems = 1 .. n /\ n = Len(list) /\ DOMAIN list = 1 .. n
        /\ n = Len(wanted) + 2 /\ DOMAIN wanted = 1 .. Len(wanted) /\ Len(wanted) \in Nat
    BY <1>2, Domains DEF TypeInv, ListInv, PrefsList, Stored
  <1>4. \A i \in 1 .. n : prefsItems[i].id = list[i] /\ prefsItems[i].key = dicts[list[i]].key
    BY <1>2, <1>3 DEF ListInv, PrefsList
  <1>5. r \in 3 .. n
    <2>1. r # 1 /\ r # 2
      BY <1>1, <1>2, <1>3, <1>4 DEF ListInv, Stored
    <2> QED BY <1>3, <2>1
  <1>6. /\ Len(prefsItems') = n - 1 /\ DOMAIN prefsItems' = 1 .. n - 1
        /\ \A j \in 1 .. n - 1 :
             prefsItems'[j] = IF j < r THEN prefsItems[j] ELSE prefsItems[j + 1]
    <2>1. prefsItems \in Seq(Item) /\ prefsItems' = Without(prefsItems, r)
      BY <1>1 DEF TypeInv, TypeOK
    <2>2. prefsItems' \in Seq(Item)
      BY DEF TypeInv, TypeOK
    <2>3. /\ Len(prefsItems') = n - 1
          /\ \A j \in 1 .. n - 1 :
               prefsItems'[j] = IF j < r THEN prefsItems[j] ELSE prefsItems[j + 1]
      BY <2>1, WithoutProperties
    <2>4. DOMAIN prefsItems' = 1 .. n - 1
      BY <2>2, <2>3
    <2> QED BY <2>3, <2>4
  <1> DEFINE o(j) == IF j < r THEN j ELSE j + 1
  <1>7. \A j \in 1 .. n - 1 : o(j) \in 1 .. n /\ o(j) # r
    BY <1>3, <1>5
  <1>8. \A i, j \in 1 .. n - 1 : o(i) = o(j) => i = j
    BY <1>3, <1>5
  <1>9. /\ Len(list') = n - 1 /\ DOMAIN list' = 1 .. n - 1
        /\ \A j \in 1 .. n - 1 : prefsItems'[j] = prefsItems[o(j)] /\ list'[j] = list[o(j)]
    <2>1. prefsItems' \in Seq(Item)
      BY DEF TypeInv, TypeOK
    <2>2. Len(list') = n - 1 /\ \A i \in 1 .. n - 1 : list'[i] = prefsItems'[i].id
      BY <1>1, <1>6, <2>1, IdsTyped
    <2>3. DOMAIN list' = 1 .. n - 1
      BY <2>2 DEF TypeInv, TypeOK
    <2>4. \A j \in 1 .. n - 1 : prefsItems'[j] = prefsItems[o(j)]
      BY <1>6
    <2> HIDE DEF o, n
    <2> QED BY <1>4, <1>7, <2>2, <2>3, <2>4
  <1>10. /\ Len(wanted') = Len(wanted) - 1 /\ DOMAIN wanted' = 1 .. Len(wanted) - 1
         /\ \A j \in 1 .. Len(wanted) - 1 :
              wanted'[j] = wanted[IF j < r - 2 THEN j ELSE j + 1]
    <2>1. r - 2 \in DOMAIN wanted
      BY <1>3, <1>5
    <2>2. wanted \in Seq(Phrases \cup Locations) /\ wanted' \in Seq(Phrases \cup Locations)
      BY DEF TypeInv, TypeOK
    <2>3. /\ Len(wanted') = Len(wanted) - 1
          /\ \A j \in 1 .. Len(wanted) - 1 :
               wanted'[j] = IF j < r - 2 THEN wanted[j] ELSE wanted[j + 1]
      BY <1>1, <2>1, <2>2, WithoutProperties
    <2> QED BY <2>2, <2>3
  <1>11. \A i \in 1 .. n : i # r =>
           list[i] \in DOMAIN dicts' /\ dicts'[list[i]] = dicts[list[i]]
    <2>1. \A i \in 1 .. n : i # r => list[i] # list[r]
      BY <1>2, <1>3, <1>5 DEF ListInv, Stored
    <2>2. prefsItems[r].id = list[r]
      BY <1>3, <1>4
    <2>3. \A i \in 1 .. n : list[i] \in DOMAIN dicts
      BY <1>2, <1>3 DEF ListInv, Stored
    <2> QED BY <1>1, <2>1, <2>2, <2>3
  <1>12. Stored'
    <2>1. Len(list') = Len(wanted') + 2
      BY <1>3, <1>9, <1>10
    <2>2. \A j \in 1 .. n - 1 : list'[j] \in DOMAIN dicts' /\ dicts'[list'[j]] = dicts[list[o(j)]]
      <3> HIDE DEF o, n
      <3> QED BY <1>7, <1>9, <1>11
    <2>3. \A i, j \in 1 .. n - 1 : list'[i] = list'[j] => i = j
      <3>1. \A i, j \in 1 .. n : list[i] = list[j] => i = j
        BY <1>2, <1>3 DEF ListInv, Stored
      <3> HIDE DEF o, n
      <3> QED BY <1>7, <1>8, <1>9, <3>1
    <2>4. dicts'[list'[1]].key = Photo /\ dicts'[list'[2]].key = ITunes
      <3>1. 1 \in 1 .. n - 1 /\ 2 \in 1 .. n - 1 /\ o(1) = 1 /\ o(2) = 2
        BY <1>3, <1>5
      <3> HIDE DEF o, n
      <3> QED BY <1>2, <2>2, <3>1 DEF ListInv, Stored
    <2>5. ASSUME NEW i \in DOMAIN wanted'
          PROVE  dicts'[list'[i + 2]].key = wanted'[i]
      <3> DEFINE k == IF i < r - 2 THEN i ELSE i + 1
      <3>1. i + 2 \in 1 .. n - 1 /\ k \in DOMAIN wanted /\ o(i + 2) = k + 2
        BY <1>3, <1>5, <1>10
      <3>2. wanted'[i] = wanted[k]
        BY <1>10
      <3> HIDE DEF o, n, k
      <3> QED BY <1>2, <2>2, <3>1, <3>2 DEF ListInv, Stored
    <2> HIDE DEF o, n
    <2> QED BY <1>2, <1>9, <2>1, <2>2, <2>3, <2>4, <2>5 DEF Stored
  <1>13. PrefsList'
    <2>1. ASSUME NEW i \in 1 .. n - 1
          PROVE  /\ prefsItems'[i].id = list'[i]
                 /\ prefsItems'[i].key = dicts'[list'[i]].key
                 /\ prefsItems'[i].id <= prefsMax'
      <3> HIDE DEF o, n
      <3>1. prefsItems[o(i)].id <= prefsMax
        BY <1>2, <1>3, <1>7 DEF ListInv, PrefsList
      <3>2. /\ prefsItems[o(i)].id = list[o(i)]
            /\ prefsItems[o(i)].key = dicts[list[o(i)]].key
            /\ dicts'[list[o(i)]] = dicts[list[o(i)]]
        BY <1>4, <1>7, <1>11
      <3>3. prefsMax' = prefsMax
        BY <1>1
      <3> QED BY <1>9, <3>1, <3>2, <3>3
    <2> HIDE DEF o, n
    <2> QED BY <1>6, <1>9, <2>1 DEF PrefsList
  <1>14. EngineList'
    <2>1. \A d \in DOMAIN dicts' : d \in DOMAIN dicts /\ dicts'[d] = dicts[d]
      BY <1>1
    <2>2. engine' = engine /\ engineItems' = engineItems /\ prefsMax' = prefsMax /\ prefs' = prefs
      BY <1>1 DEF engineVars
    <2> QED BY <2>1, <2>2 DEF ListInv, EngineList
  <1> QED BY <1>12, <1>13, <1>14 DEF ListInv

(* -saveSettings replaces the dictionaries of the items that are dirty.     *)
LEMMA SettingsStored ==
  ASSUME TypeInv, ListInv, SheetSaved
  PROVE  /\ DOMAIN dicts' = DOMAIN dicts
         /\ \A i \in DOMAIN prefsItems :
              /\ prefsItems[i].id \in DOMAIN dicts
              /\ dicts'[prefsItems[i].id] =
                   IF prefsItems[i].dirty THEN SavedDict(prefsItems[i])
                     ELSE dicts[prefsItems[i].id]
         /\ \A d \in DOMAIN dicts :
              d \notin Ids(prefsItems) => dicts'[d] = dicts[d]
  <1> DEFINE dirty == {it \in Elements(prefsItems) : it.dirty}
             ids == {it.id : it \in dirty}
  <1>1. dicts' = Saved(dicts, dirty) /\ prefs # "off" /\ converted
    BY DEF SheetSaved, SaveSettings, ListInv, Stored
  <1>2. StoreOf(dicts) /\ dirty \in SUBSET Item
    BY DEF TypeInv, TypeOK, StoreOf, Elements
  <1>3. DOMAIN prefsItems = DOMAIN list
    BY <1>1, Domains DEF TypeInv, ListInv, PrefsList
  <1>4. \A i \in DOMAIN prefsItems :
          /\ prefsItems[i].id \in DOMAIN dicts
          /\ \A j \in DOMAIN prefsItems : prefsItems[j].id = prefsItems[i].id => j = i
    BY <1>1, <1>3 DEF ListInv, PrefsList, Stored
  <1>5. \A d \in ids : \E i \in DOMAIN prefsItems : prefsItems[i].dirty /\ prefsItems[i].id = d
    BY DEF Elements
  <1>6. DOMAIN dicts' = DOMAIN dicts \cup ids /\ \A d \in DOMAIN dicts \ ids : dicts'[d] = dicts[d]
    <2> HIDE DEF dirty
    <2> QED BY <1>1, <1>2, SavedProperties
  <1>7. ASSUME NEW i \in DOMAIN prefsItems
        PROVE  dicts'[prefsItems[i].id] =
                 IF prefsItems[i].dirty THEN SavedDict(prefsItems[i])
                   ELSE dicts[prefsItems[i].id]
    <2>1. CASE prefsItems[i].dirty
      <3>1. prefsItems[i] \in dirty
        BY <2>1 DEF Elements
      <3>2. \A jt \in dirty : jt.id = prefsItems[i].id => jt = prefsItems[i]
        BY <1>4 DEF Elements
      <3> HIDE DEF dirty
      <3>3. Saved(dicts, dirty)[prefsItems[i].id] = SavedDict(prefsItems[i])
        BY <3>1, <3>2, SavedOne
      <3> QED BY <1>1, <2>1, <3>3
    <2>2. CASE ~prefsItems[i].dirty
      <3>1. prefsItems[i].id \notin ids
        BY <1>4, <1>5, <2>2
      <3> HIDE DEF ids
      <3> QED BY <1>4, <1>6, <2>2, <3>1
    <2> QED BY <2>1, <2>2
  <1>8. ids \subseteq Ids(prefsItems)
    BY <1>5 DEF Ids
  <1>9. ids \subseteq DOMAIN dicts
    BY <1>4, <1>5
  <1> HIDE DEF ids
  <1> QED BY <1>4, <1>6, <1>7, <1>8, <1>9

(* -saveSettings stores the list that it has, and keys that do not change.  *)
LEMMA SaveSettingsLists ==
  ASSUME TypeInv, TypeInv', ListInv, SheetSaved
  PROVE  ListInv'
  <1>1. /\ list' = IdsOf(prefsItems)
        /\ prefsItems' = Clean(prefsItems)
        /\ prefs # "off" /\ prefs' # "off"
        /\ UNCHANGED <<converted, prefsMax, engineVars, wanted>>
    BY DEF SheetSaved, SaveSettings
  <1>2. converted
    BY <1>1 DEF ListInv, Stored
  <1>3. prefsItems \in Seq(Item)
    BY DEF TypeInv, TypeOK
  <1>4. list' = list
    <2>1. list' \in Seq(0 .. MaxId) /\ list \in Seq(0 .. MaxId)
      BY DEF TypeInv, TypeOK
    <2>2. Len(list') = Len(list) /\ \A i \in DOMAIN prefsItems : list'[i] = list[i]
      BY <1>1, <1>3, IdsTyped DEF ListInv, PrefsList
    <2>3. DOMAIN prefsItems = 1 .. Len(list)
      BY <1>1, <1>3 DEF ListInv, PrefsList
    <2> QED BY <2>1, <2>2, <2>3
  <1>5. /\ Len(prefsItems') = Len(prefsItems)
        /\ \A i \in DOMAIN prefsItems :
             /\ prefsItems'[i].id = prefsItems[i].id
             /\ prefsItems'[i].key = prefsItems[i].key
    <2>1. Item = ItemUpTo(MaxId) /\ MaxId \in Nat
      BY ItemsAssumption DEF Item, ItemUpTo
    <2> QED BY <1>1, <1>3, <2>1, CleanType
  <1>6. /\ DOMAIN dicts' = DOMAIN dicts
        /\ \A i \in DOMAIN prefsItems :
             /\ prefsItems[i].id \in DOMAIN dicts
             /\ dicts'[prefsItems[i].id] =
                  IF prefsItems[i].dirty THEN SavedDict(prefsItems[i])
                    ELSE dicts[prefsItems[i].id]
        /\ \A d \in DOMAIN dicts :
             d \notin Ids(prefsItems) => dicts'[d] = dicts[d]
    BY SettingsStored
  <1>7. \A i \in DOMAIN prefsItems : prefsItems[i].key = dicts[prefsItems[i].id].key
    BY <1>1, <1>2 DEF ListInv, PrefsList
  <1>8. ASSUME NEW d \in DOMAIN dicts
        PROVE  dicts'[d].key = dicts[d].key
    <2>1. CASE d \in Ids(prefsItems)
      <3>1. PICK i \in DOMAIN prefsItems : prefsItems[i].id = d
        BY <2>1 DEF Ids
      <3>2. SavedDict(prefsItems[i]).key = prefsItems[i].key
        BY DEF SavedDict
      <3> QED BY <1>6, <1>7, <3>1, <3>2
    <2>2. CASE d \notin Ids(prefsItems)
      BY <1>6, <2>2
    <2> QED BY <2>1, <2>2
  <1>10. \A d \in DOMAIN dicts : d \in DOMAIN dicts' /\ dicts'[d].key = dicts[d].key
    BY <1>6, <1>8
  <1>11. UNCHANGED <<list, converted, wanted>>
    BY <1>1, <1>4
  <1>12. prefsMax' >= prefsMax
    BY <1>1 DEF TypeInv, TypeOK
  <1>13. ASSUME engine # "off"
         PROVE  \A i \in DOMAIN engineItems :
                  engineItems[i].id \in DOMAIN dicts' =>
                    dicts'[engineItems[i].id].key = engineItems[i].key
    BY <1>6, <1>8, <1>13 DEF ListInv, EngineList
  <1>14. engine' = engine /\ engineItems' = engineItems
    BY <1>1 DEF engineVars
  <1> QED BY <1>1, <1>2, <1>5, <1>10, <1>11, <1>12, <1>13, <1>14, SameLists DEF TypeInv

(* -checkResults stores what the screen saver holds of one item. *)
LEMMA CheckResultsLists ==
  ASSUME TypeInv, TypeInv', ListInv, CheckResults
  PROVE  ListInv'
  <1> DEFINE old == engineItems[current]
  <1>1. PICK end \in BOOLEAN :
          LET new == [old EXCEPT !.start = Results(old, end), !.dirty = TRUE]
          IN /\ engineItems' = [engineItems EXCEPT ![current] = new]
             /\ dicts' = Saved(dicts, {new})
    BY DEF CheckResults, Answered
  <1> DEFINE new == [old EXCEPT !.start = Results(old, end), !.dirty = TRUE]
  <1>2. /\ engine # "off" /\ engine' # "off" /\ current \in DOMAIN engineItems
        /\ UNCHANGED <<list, converted, prefsVars, wanted>>
    BY DEF CheckResults, Answered, TypeInv, Searching, TypeOK
  <1>3. converted
    BY <1>2 DEF ListInv, Stored
  <1>4. old \in Item
    BY <1>2, ItemIds DEF TypeInv
  <1>5. new.id = old.id /\ new.key = old.key
    <2> HIDE DEF old
    <2> QED BY <1>4 DEF Item
  <1>6. new \in Item /\ StoreOf(dicts)
    <2>1. engineItems'[current] = new /\ current \in DOMAIN engineItems'
      <3> HIDE DEF new
      <3>1. engineItems \in Seq(Item) /\ engineItems' = [engineItems EXCEPT ![current] = new]
        BY <1>1 DEF TypeInv, TypeOK, new
      <3> QED BY <1>2, <3>1
    <2>2. engineItems'[current] \in Item
      BY <2>1 DEF TypeInv, TypeOK
    <2> QED BY <2>1, <2>2 DEF TypeInv, TypeOK, StoreOf
  <1> HIDE DEF new
  <1>7. /\ DOMAIN dicts' = DOMAIN dicts \cup {old.id}
        /\ dicts'[old.id].key = old.key
        /\ \A d \in DOMAIN dicts \ {old.id} : dicts'[d] = dicts[d]
    <2>1. dicts' = Saved(dicts, {new})
      BY <1>1 DEF new
    <2>2. SavedDict(new).key = old.key
      BY <1>5 DEF SavedDict
    <2> QED BY <1>5, <1>6, <2>1, <2>2, StoredOne
  <1>8. old.id \in DOMAIN dicts => dicts[old.id].key = old.key
    BY <1>2 DEF ListInv, EngineList
  <1>9. /\ Len(engineItems') = Len(engineItems)
        /\ \A i \in DOMAIN engineItems :
             /\ engineItems'[i].id = engineItems[i].id
             /\ engineItems'[i].key = engineItems[i].key
    <2>1. engineItems \in Seq(Item) /\ engineItems' = [engineItems EXCEPT ![current] = new]
      BY <1>1 DEF TypeInv, TypeOK, new
    <2> QED BY <1>2, <1>5, <2>1
  <1>10. \A d \in DOMAIN dicts : d \in DOMAIN dicts' /\ dicts'[d].key = dicts[d].key
    BY <1>7, <1>8
  <1>11. \A i \in DOMAIN engineItems :
           engineItems[i].id \in DOMAIN dicts' =>
             dicts'[engineItems[i].id].key = engineItems[i].key
    <2>1. \A i \in DOMAIN engineItems : engineItems[i].id = old.id => engineItems[i].key = old.key
      BY <1>2 DEF ListInv, EngineList
    <2>2. \A i \in DOMAIN engineItems :
            engineItems[i].id \in DOMAIN dicts => dicts[engineItems[i].id].key = engineItems[i].key
      BY <1>2 DEF ListInv, EngineList
    <2> HIDE DEF old
    <2> QED BY <1>7, <2>1, <2>2
  <1>12. prefs' = prefs /\ prefsItems' = prefsItems /\ prefsMax' >= prefsMax
    BY <1>2 DEF prefsVars, TypeInv, TypeOK
  <1>13. UNCHANGED <<list, converted, wanted>>
    BY <1>2
  <1> HIDE DEF old
  <1> QED BY <1>2, <1>3, <1>9, <1>10, <1>11, <1>12, <1>13, SameLists DEF TypeInv

(* A step of System Preferences in its memory alone. *)
LEMMA MemoryLists ==
  ASSUME TypeOK, TypeOK', ListInv, prefs # "off",
         UNCHANGED <<list, dicts, converted, wanted>>, UNCHANGED engineVars,
         \/ prefs' = "off"
         \/ /\ prefsMax' >= prefsMax
            /\ Len(prefsItems') = Len(prefsItems)
            /\ \A i \in DOMAIN prefsItems :
                 /\ prefsItems'[i].id = prefsItems[i].id
                 /\ prefsItems'[i].key = prefsItems[i].key
  PROVE  ListInv'
  <1>1. converted
    BY DEF ListInv, Stored
  <1>2. \/ engine' = "off"
        \/ /\ engine # "off"
           /\ Len(engineItems') = Len(engineItems)
           /\ \A i \in DOMAIN engineItems :
                /\ engineItems'[i].id = engineItems[i].id
                /\ engineItems'[i].key = engineItems[i].key
           /\ \A i \in DOMAIN engineItems :
                engineItems[i].id \in DOMAIN dicts' =>
                  dicts'[engineItems[i].id].key = engineItems[i].key
    BY DEF engineVars, ListInv, EngineList
  <1> QED BY <1>1, <1>2, SameLists

(* A step of the screen saver in its memory alone. *)
LEMMA EngineLists ==
  ASSUME TypeInv, TypeInv', ListInv, engine # "off",
         UNCHANGED <<list, dicts, converted, wanted>>, UNCHANGED prefsVars,
         \/ engine' = "off"
         \/ /\ Len(engineItems') = Len(engineItems)
            /\ \A i \in DOMAIN engineItems :
                 /\ engineItems'[i].id = engineItems[i].id
                 /\ engineItems'[i].key = engineItems[i].key
  PROVE  ListInv'
  <1>0. TypeOK /\ TypeOK'
    BY DEF TypeInv
  <1>1. converted
    BY DEF ListInv, Stored
  <1>2. \A i \in DOMAIN engineItems :
          engineItems[i].id \in DOMAIN dicts' =>
            dicts'[engineItems[i].id].key = engineItems[i].key
    BY DEF ListInv, EngineList
  <1>3. \/ prefs' = "off"
        \/ /\ prefs # "off" /\ prefsMax' >= prefsMax
           /\ Len(prefsItems') = Len(prefsItems)
           /\ \A i \in DOMAIN prefsItems :
                /\ prefsItems'[i].id = prefsItems[i].id
                /\ prefsItems'[i].key = prefsItems[i].key
    BY <1>0 DEF prefsVars, TypeOK
  <1> QED BY <1>0, <1>1, <1>2, <1>3, SameLists

(* The changes of an item leave its identifier and its key alone, *)
LEMMA ItemsKept ==
  ASSUME NEW it \in Item, NEW b \in BOOLEAN, NEW s
  PROVE  /\ SetEnabled(it, b).id = it.id /\ SetEnabled(it, b).key = it.key
         /\ Reset(SetEnabled(it, b)).id = it.id /\ Reset(SetEnabled(it, b)).key = it.key
         /\ [it EXCEPT !.dirty = TRUE].id = it.id /\ [it EXCEPT !.dirty = TRUE].key = it.key
         /\ [it EXCEPT !.start = s].id = it.id /\ [it EXCEPT !.start = s].key = it.key
         /\ Aged(it).id = it.id /\ Aged(it).key = it.key
  BY DEF SetEnabled, Reset, Aged, Item

(* and so does the list that one of them is put in. *)
LEMMA OneKept ==
  ASSUME NEW items \in Seq(Item), NEW i \in DOMAIN items, NEW new,
         new.id = items[i].id, new.key = items[i].key
  PROVE  /\ Len([items EXCEPT ![i] = new]) = Len(items)
         /\ \A j \in DOMAIN items :
              /\ [items EXCEPT ![i] = new][j].id = items[j].id
              /\ [items EXCEPT ![i] = new][j].key = items[j].key
  OBVIOUS

(* The edits of the sheet that change no list. *)
LEMMA EditLists ==
  ASSUME TypeInv, TypeInv', CheckBox \/ EnableAllPressed \/ MinSizeEdited \/ PreviewAsksITunes
  PROVE  /\ TypeOK /\ TypeOK' /\ prefs # "off"
         /\ UNCHANGED <<list, dicts, converted, wanted>> /\ UNCHANGED engineVars
         /\ prefsMax' >= prefsMax
         /\ Len(prefsItems') = Len(prefsItems)
         /\ \A i \in DOMAIN prefsItems :
              /\ prefsItems'[i].id = prefsItems[i].id
              /\ prefsItems'[i].key = prefsItems[i].key
  <1>1. /\ prefsItems \in Seq(Item)
        /\ \A i \in DOMAIN prefsItems : prefsItems[i] \in Item
    BY DEF TypeInv, TypeOK
  <1>2. CASE CheckBox
    <2>1. PICK i \in DOMAIN prefsItems :
            prefsItems' = [prefsItems EXCEPT ![i] =
              IF @.enabled THEN SetEnabled(@, FALSE) ELSE Reset(SetEnabled(@, TRUE))]
      BY <1>2 DEF CheckBox
    <2> DEFINE new == IF prefsItems[i].enabled THEN SetEnabled(prefsItems[i], FALSE)
                        ELSE Reset(SetEnabled(prefsItems[i], TRUE))
    <2>2. new.id = prefsItems[i].id /\ new.key = prefsItems[i].key
      BY <1>1, ItemsKept
    <2>3. prefsItems' = [prefsItems EXCEPT ![i] = new]
      BY <2>1
    <2>4. EditOnly
      BY <1>2 DEF CheckBox
    <2> HIDE DEF new
    <2> QED BY <1>1, <2>2, <2>3, <2>4, OneKept
      DEF EditOnly, Edit, store, history, TypeInv, TypeOK
  <1>3. CASE EnableAllPressed
    <2>1. PICK b \in BOOLEAN :
            prefsItems' = [i \in DOMAIN prefsItems |-> SetEnabled(prefsItems[i], b)]
      BY <1>3 DEF EnableAllPressed
    <2>2. \A i \in DOMAIN prefsItems :
            /\ prefsItems'[i].id = prefsItems[i].id
            /\ prefsItems'[i].key = prefsItems[i].key
      BY <1>1, <2>1, ItemsKept
    <2>3. Len(prefsItems') = Len(prefsItems)
      <3>1. DOMAIN prefsItems' = DOMAIN prefsItems
        BY <2>1
      <3> QED BY <3>1 DEF TypeInv, TypeOK
    <2> QED BY <1>3, <2>2, <2>3
      DEF EnableAllPressed, EditOnly, Edit, store, history, TypeInv, TypeOK
  <1>4. CASE MinSizeEdited
    <2>1. PICK i \in DOMAIN prefsItems :
            prefsItems' = [prefsItems EXCEPT ![i].dirty = TRUE]
      BY <1>4 DEF MinSizeEdited
    <2> DEFINE new == [prefsItems[i] EXCEPT !.dirty = TRUE]
    <2>2. new.id = prefsItems[i].id /\ new.key = prefsItems[i].key
      BY <1>1, ItemsKept
    <2>3. prefsItems' = [prefsItems EXCEPT ![i] = new]
      BY <2>1
    <2> HIDE DEF new
    <2> QED BY <1>1, <1>4, <2>2, <2>3, OneKept
      DEF MinSizeEdited, EditOnly, Edit, store, history, TypeInv, TypeOK
  <1>5. CASE PreviewAsksITunes
    <2>1. PICK i \in DOMAIN prefsItems :
            prefsItems' = [prefsItems EXCEPT ![i].dirty = TRUE]
      BY <1>5 DEF PreviewAsksITunes
    <2> DEFINE new == [prefsItems[i] EXCEPT !.dirty = TRUE]
    <2>2. new.id = prefsItems[i].id /\ new.key = prefsItems[i].key
      BY <1>1, ItemsKept
    <2>3. prefsItems' = [prefsItems EXCEPT ![i] = new]
      BY <2>1
    <2> HIDE DEF new
    <2> QED BY <1>1, <1>5, <2>2, <2>3, OneKept
      DEF PreviewAsksITunes, store, history, TypeInv, TypeOK
  <1> QED BY <1>2, <1>3, <1>4, <1>5

(* -triggerSearch changes the position of an item. *)
LEMMA TriggerLists ==
  ASSUME TypeInv, TypeInv', ListInv, TriggerSearch
  PROVE  ListInv'
  <1> DEFINE s == Cycled(engineItems[current].start)
             new == [engineItems[current] EXCEPT !.start = s]
  <1>1. /\ engine = "idle" /\ engineItems' = [engineItems EXCEPT ![current] = new]
        /\ UNCHANGED <<store, prefsVars, current, steps, history>>
    BY DEF TriggerSearch, SearchFrom
  <1>2. current \in DOMAIN engineItems /\ engineItems[current] \in Item
        /\ engineItems \in Seq(Item)
    BY DEF TriggerSearch, TypeInv, TypeOK
  <1>3. new.id = engineItems[current].id /\ new.key = engineItems[current].key
    BY <1>2, ItemsKept
  <1> HIDE DEF new
  <1> QED BY <1>1, <1>2, <1>3, OneKept, EngineLists DEF store, history

(* The hours that pass change positions. *)
LEMMA HoursPassLists ==
  ASSUME TypeInv, TypeInv', ListInv, HoursPass
  PROVE  ListInv'
  <1>1. CASE converted
    <2>1. /\ UNCHANGED <<list, converted, wanted>>
          /\ UNCHANGED <<prefs, prefsMax, engine>>
          /\ TypeOK /\ TypeOK'
      BY DEF HoursPass, TypeInv
    <2>2. \A id \in DOMAIN dicts : id \in DOMAIN dicts' /\ dicts'[id].key = dicts[id].key
      BY DEF HoursPass, Aged, TypeInv, TypeOK, Dict
    <2>3. DOMAIN dicts' = DOMAIN dicts
      BY DEF HoursPass
    <2>4. /\ Len(prefsItems') = Len(prefsItems)
          /\ \A i \in DOMAIN prefsItems :
               /\ prefsItems'[i].id = prefsItems[i].id
               /\ prefsItems'[i].key = prefsItems[i].key
      <3>1. DOMAIN prefsItems' = DOMAIN prefsItems
        BY DEF HoursPass
      <3>2. \A i \in DOMAIN prefsItems : prefsItems[i] \in Item /\ prefsItems'[i] = Aged(prefsItems[i])
        BY DEF HoursPass, TypeInv, TypeOK
      <3> QED BY <3>1, <3>2, ItemsKept DEF TypeInv, TypeOK
    <2>5. /\ Len(engineItems') = Len(engineItems)
          /\ \A i \in DOMAIN engineItems :
               /\ engineItems'[i].id = engineItems[i].id
               /\ engineItems'[i].key = engineItems[i].key
      <3>1. DOMAIN engineItems' = DOMAIN engineItems
        BY DEF HoursPass
      <3>2. \A i \in DOMAIN engineItems : engineItems[i] \in Item /\ engineItems'[i] = Aged(engineItems[i])
        BY DEF HoursPass, TypeInv, TypeOK
      <3> QED BY <3>1, <3>2, ItemsKept DEF TypeInv, TypeOK
    <2>6. engine # "off" => \A i \in DOMAIN engineItems :
            engineItems[i].id \in DOMAIN dicts' =>
              dicts'[engineItems[i].id].key = engineItems[i].key
      BY <2>2, <2>3 DEF ListInv, EngineList
    <2>7. prefsMax' >= prefsMax
      BY <2>1 DEF TypeOK
    <2> QED BY <1>1, <2>1, <2>2, <2>4, <2>5, <2>6, <2>7, SameLists
  <1>2. CASE ~converted
    <2>1. due' = [i \in 0 .. MaxId |->
            IF \E it \in Elements(engineItems) \cup {LoadItem(d) : d \in DOMAIN dicts} :
                 it.id = i /\ it.key \in Locations
              THEN 0 ELSE due[i]]
      BY DEF HoursPass
    <2>2. \A i \in 0 .. MaxId : due'[i] = 0
      BY <1>2, <2>1 DEF ListInv, Stored
    <2> QED BY <1>2, <2>2 DEF HoursPass, ListInv, Stored, PrefsList, EngineList
  <1> QED BY <1>1, <1>2

(* Every action keeps the lists in order. *)
LEMMA NextListInv == TypeInv /\ TypeInv' /\ ListInv /\ [Next]_vars => ListInv'
  <1> SUFFICES ASSUME TypeInv, TypeInv', ListInv, [Next]_vars PROVE ListInv'
    OBVIOUS
  <1>0. TypeOK /\ TypeOK'
    BY DEF TypeInv
  <1>1. CASE UNCHANGED vars
    BY <1>1
      DEF vars, store, prefsVars, engineVars, history, ListInv, Stored, PrefsList,
        EngineList
  <1>2. CASE PrefsStarts
    <2>1. InitOptions /\ prefs' = "closed" /\ prefsItems' = Options /\ prefsMax' = MaxIdOf(Options)
          /\ engine = "off" /\ UNCHANGED engineVars
      BY <1>2 DEF PrefsStarts
    <2>2. \A i \in DOMAIN Options : Options[i].id <= MaxIdOf(Options)
      BY <1>0, <2>1, OptionsFit DEF InitOptions
    <2>3. PrefsList'
      BY <1>0, <2>1, <2>2, Started DEF ListInv, PrefsList
    <2>4. EngineList'
      BY <2>1 DEF EngineList, engineVars
    <2> QED BY <1>0, <2>1, <2>3, <2>4, Started DEF ListInv
  <1>3. CASE EngineStarts
    <2>1. InitOptions /\ engine' = "idle" /\ engineItems' = Options /\ UNCHANGED prefsVars
      BY <1>3 DEF EngineStarts
    <2>2. Stored' /\ DOMAIN Options = DOMAIN list' /\ converted'
      <3>1. Stored' /\ DOMAIN Options = 1 .. Len(list') /\ converted'
        BY <1>0, <2>1, Started DEF ListInv, InitOptions, store
      <3> QED BY <1>0, <3>1 DEF TypeOK
    <2>3. \A i \in DOMAIN Options : list'[i] = Options[i].id /\ dicts'[list'[i]].key = Options[i].key
      BY <1>0, <2>1, Started DEF ListInv
    <2>4. prefs # "off" => UNCHANGED store
      BY <2>1 DEF InitOptions, ListInv, Stored
    <2>5. PrefsList'
      BY <2>1, <2>4 DEF prefsVars, store, ListInv, PrefsList
    <2>6. EngineList'
      <3>1. \A i, j \in DOMAIN Options : Options[i].id = Options[j].id => i = j
        BY <2>2, <2>3 DEF Stored
      <3>2. ASSUME NEW i \in DOMAIN Options, prefs # "off"
            PROVE  Options[i].id <= prefsMax
        <4>1. i \in DOMAIN prefsItems
          BY <1>0, <2>2, <2>4, <3>2, Domains DEF store, ListInv, PrefsList
        <4> QED BY <2>3, <2>4, <3>2, <4>1 DEF store, ListInv, PrefsList
      <3> QED BY <2>1, <2>3, <3>1, <3>2 DEF prefsVars, EngineList
    <2> QED BY <2>2, <2>5, <2>6 DEF ListInv
  <1>4. CASE AddItem
    BY <1>4, AddItemLists
  <1>5. CASE RemoveItem
    BY <1>5, RemoveItemLists
  <1>6. CASE OkPressed
    BY <1>6, SaveSettingsLists DEF OkPressed
  <1>7. CASE CheckResults
    BY <1>7, CheckResultsLists
  <1>8. CASE HoursPass
    BY <1>8, HoursPassLists
  <1>9. CASE PrefsEnds \/ SheetOpens \/ CancelPressed
    <2>1. prefsMax >= prefsMax
      BY <1>0 DEF TypeOK
    <2>2. CASE PrefsEnds
      BY <1>0, <2>2, MemoryLists DEF PrefsEnds, store, history
    <2>3. CASE SheetOpens
      BY <1>0, <2>1, <2>3, MemoryLists DEF SheetOpens, store, history
    <2>4. CASE CancelPressed
      BY <1>0, <2>1, <2>4, MemoryLists DEF CancelPressed, store, history
    <2> QED BY <1>9, <2>2, <2>3, <2>4
  <1>10. CASE CheckBox \/ EnableAllPressed \/ MinSizeEdited \/ PreviewAsksITunes
    BY <1>10, EditLists, MemoryLists DEF history
  <1>11. CASE AddRefused
    BY <1>11, <1>0, MemoryLists DEF AddRefused, Edit, store, engineVars, history, TypeOK
  <1>12. CASE EngineEnds
    BY <1>12, EngineLists DEF EngineEnds, store, prefsVars, history
  <1>13. CASE CheckSearchItem
    BY <1>13, EngineLists DEF CheckSearchItem, store, prefsVars, history
  <1>14. CASE SearchFails
    BY <1>14, EngineLists DEF SearchFails, store, prefsVars, history
  <1>15. CASE TriggerSearch
    BY <1>15, TriggerLists
  <1> QED BY <1>1, <1>2, <1>3, <1>4, <1>5, <1>6, <1>7, <1>8, <1>9, <1>10, <1>11, <1>12,
            <1>13, <1>14, <1>15 DEF Next, Prefs, Engine
(* A process that starts finds what the user has added and not removed, in  *)
(* order and behind the main items, whatever was stored, cancelled or cut   *)
(* short before: the list part of -loadSearchParamItems, of the edits in    *)
(* SettingsController.m and of -checkResults.                               *)
THEOREM ListedCorrect ==
  ASSUME ~Upgraded
  PROVE  Spec => []ListedIsWanted
  <1>1. TypeInv /\ ListInv => ListedIsWanted
    <2> SUFFICES ASSUME TypeOK, ListInv, converted
                 PROVE  /\ KeysOf(Loaded) = <<Photo, ITunes>> \o wanted
                        /\ \A i, j \in DOMAIN Loaded : Loaded[i].id = Loaded[j].id => i = j
                        /\ prefs # "off" => KeysOf(prefsItems) = KeysOf(Loaded)
      BY DEF TypeInv, ListedIsWanted
    <2> DEFINE n == Len(list)
    <2>1. /\ n \in Nat /\ DOMAIN list = 1 .. n /\ n = Len(wanted) + 2
          /\ Len(wanted) \in Nat /\ DOMAIN wanted = 1 .. Len(wanted)
      BY Domains DEF ListInv, Stored
    <2>2. /\ DOMAIN Loaded = 1 .. n
          /\ \A i \in 1 .. n : Loaded[i].id = list[i] /\ Loaded[i].key = dicts[list[i]].key
      BY WholeLoaded DEF ListInv, LoadItem
    <2>3. KeysOf(Loaded) = [i \in 1 .. n |-> dicts[list[i]].key]
      BY <2>2 DEF KeysOf
    <2>4. KeysOf(Loaded) = <<Photo, ITunes>> \o wanted
      <3> DEFINE key(i) == dicts[list[i]].key
      <3>1. key(1) = Photo /\ key(2) = ITunes /\ \A i \in 1 .. Len(wanted) : key(i + 2) = wanted[i]
        BY <2>1 DEF ListInv, Stored
      <3>2. wanted \in Seq(Phrases \cup Locations)
        BY DEF TypeOK
      <3> HIDE DEF key, n
      <3>3. [i \in 1 .. n |-> key(i)] = <<Photo, ITunes>> \o wanted
        <4> DEFINE ks == <<Photo, ITunes>> \o wanted
        <4>1. DOMAIN ks = 1 .. n /\ ks = [i \in 1 .. n |-> ks[i]]
          BY <2>1, <3>2
        <4>2. ASSUME NEW i \in 1 .. n PROVE ks[i] = key(i)
          <5>1. CASE i <= 2
            BY <2>1, <3>1, <3>2, <5>1
          <5>2. CASE i > 2
            <6>1. i - 2 \in 1 .. Len(wanted) /\ (i - 2) + 2 = i
              BY <2>1, <5>2
            <6>2. ks[i] = wanted[i - 2]
              BY <2>1, <3>2, <5>2
            <6> QED BY <3>1, <6>1, <6>2
          <5> QED BY <2>1, <5>1, <5>2
        <4> HIDE DEF ks
        <4>3. [i \in 1 .. n |-> key(i)] = ks
          BY <4>1, <4>2
        <4> QED BY <4>3 DEF ks
      <3> QED BY <2>3, <3>3 DEF key
    <2>5. \A i, j \in DOMAIN Loaded : Loaded[i].id = Loaded[j].id => i = j
      BY <2>1, <2>2 DEF ListInv, Stored
    <2>6. prefs # "off" => KeysOf(prefsItems) = KeysOf(Loaded)
      BY <2>1, <2>2, Domains DEF ListInv, PrefsList, KeysOf
    <2> QED BY <2>4, <2>5, <2>6
  <1>2. Init => ListInv
    BY InitListInv
  <1> QED BY <1>1, <1>2, InitTypeInv, NextTypeInv, NextListInv, PTL DEF Spec
================================================================================
