---------------------- MODULE ImageDirectoryCacheProofs ----------------------
(***************************************************************************)
(* Proofs about ImageDirectoryCache, for every set of images and           *)
(* directories, every kind of item and every size of chunk.                *)
(***************************************************************************)
EXTENDS ImageDirectoryCache, FiniteSetTheorems, TLAPS

(* Nothing unfinished is ever at the final path of a file that comes by way *)
(* of a .tmp file: that file is complete when the main thread moves it, or  *)
(* has been removed.                                                        *)
Finished ==
  /\ \A f \in Images : ViaTmp(f) => disk[f] # "partial"
  /\ stage = "adding" /\ ViaTmp(download) => tmp[download] # "partial"

(* A download without .tmp file is unfinished on disk as long as it loads,  *)
(* if it has not been removed.                                              *)
Unfinished ==
  stage = "loading" /\ ~ViaTmp(download) => disk[download] \in {"partial", "none"}

(* Nothing goes on before an item is chosen. *)
Chosen == loaded = None => image = "idle" /\ stage = "idle"

IInv == TypeOK /\ Finished /\ Unfinished /\ Chosen
-----------------------------------------------------------------------------
(* The queue after a refill holds listed images, and one at least. *)
LEMMA RefilledType ==
  ASSUME TypeOK PROVE Refilled \subseteq Seq(Images)
  <1> USE CacheAssumption DEF TypeOK
  <1>1. ASSUME NEW S \in SUBSET Images, NEW c \in SetToSeqs(S)
        PROVE  c \in Seq(Images)
    <2>1. IsFiniteSet(S) BY <1>1, FS_Subset
    <2>2. Cardinality(S) \in Nat BY <2>1, FS_CardinalityType
    <2>3. c \in [1 .. Cardinality(S) -> S] BY <1>1 DEF SetToSeqs
    <2> QED BY <2>2, <2>3
  <1>2. ASSUME NEW c \in RandomChunk(ChunkSize, ToSet(randomImageArray))
        PROVE  c \in Seq(Images)
    <2>1. PICK drawn \in kSubset(ChunkSize, cacheDir) :
            c \in SetToSeqs(drawn \ ToSet(randomImageArray))
      BY <1>2 DEF RandomChunk
    <2>2. drawn \ ToSet(randomImageArray) \in SUBSET Images
      BY <2>1 DEF kSubset
    <2> QED BY <2>1, <2>2, <1>1
  <1>3. ASSUME NEW queue \in Refilled PROVE queue \in Seq(Images)
    <2>1. CASE queue = randomImageArray BY <2>1
    <2>2. CASE \E c \in RandomChunk(ChunkSize, ToSet(randomImageArray)) :
                 queue = randomImageArray \o c
      <3>1. PICK c \in RandomChunk(ChunkSize, ToSet(randomImageArray)) :
              queue = randomImageArray \o c
        BY <2>2
      <3>2. c \in Seq(Images) BY <3>1, <1>2
      <3> QED BY <3>1, <3>2
    <2> QED BY <1>3, <2>1, <2>2 DEF Refilled
  <1> QED BY <1>3

LEMMA RefilledNonempty ==
  ASSUME TypeOK, cacheDir # {}, NEW queue \in Refilled
  PROVE  queue # <<>>
  <1> USE CacheAssumption DEF TypeOK
  <1>1. IsFiniteSet(cacheDir) BY FS_Subset
  <1>2. Cardinality(cacheDir) \in Nat \ {0}
    BY <1>1, FS_CardinalityType, FS_EmptySet
  <1>3. ChunkSize \in Nat \ {0} BY <1>2 DEF ChunkSize
  <1>4. CASE Len(randomImageArray) = 0
    <2>1. ToSet(randomImageArray) = {} BY <1>4 DEF ToSet
    <2>2. ChunkSize \div 4 >= 0 BY <1>3
    <2>3. PICK c \in RandomChunk(ChunkSize, {}) : queue = randomImageArray \o c
      BY <1>4, <2>1, <2>2 DEF Refilled
    <2>4. PICK drawn \in kSubset(ChunkSize, cacheDir) : c \in SetToSeqs(drawn \ {})
      BY <2>3 DEF RandomChunk
    <2>5. Cardinality(drawn) = ChunkSize BY <2>4 DEF kSubset
    <2>6. drawn \ {} = drawn OBVIOUS
    <2>7. c \in [1 .. ChunkSize -> drawn] BY <2>4, <2>5, <2>6 DEF SetToSeqs
    <2>8. c \in Seq(drawn) /\ Len(c) = ChunkSize BY <2>7, <1>3
    <2>9. queue = c BY <1>4, <2>3, <2>8
    <2> QED BY <2>8, <2>9, <1>3
  <1>5. CASE Len(randomImageArray) # 0
    <2>1. CASE queue = randomImageArray BY <1>5, <2>1
    <2>2. CASE \E c \in RandomChunk(ChunkSize, ToSet(randomImageArray)) :
                 queue = randomImageArray \o c
      <3>1. PICK c \in RandomChunk(ChunkSize, ToSet(randomImageArray)) :
              queue = randomImageArray \o c
        BY <2>2
      <3>2. PICK drawn \in kSubset(ChunkSize, cacheDir) :
              c \in SetToSeqs(drawn \ ToSet(randomImageArray))
        BY <3>1 DEF RandomChunk
      <3>3. IsFiniteSet(drawn \ ToSet(randomImageArray))
        BY <3>2, <1>1, FS_Subset DEF kSubset
      <3>4. Cardinality(drawn \ ToSet(randomImageArray)) \in Nat
        BY <3>3, FS_CardinalityType
      <3>5. c \in Seq(drawn \ ToSet(randomImageArray))
        <4> DEFINE S == drawn \ ToSet(randomImageArray)
        <4>1. Cardinality(S) \in Nat BY <3>4
        <4>2. c \in [1 .. Cardinality(S) -> S] BY <3>2 DEF SetToSeqs
        <4> HIDE DEF S
        <4>3. c \in Seq(S) BY <4>1, <4>2
        <4> QED BY <4>3 DEF S
      <3>6. Len(randomImageArray \o c) = Len(randomImageArray) + Len(c)
        BY <3>5
      <3> QED BY <3>1, <3>5, <3>6, <1>5
    <2> QED BY <2>1, <2>2 DEF Refilled
  <1> QED BY <1>4, <1>5
-----------------------------------------------------------------------------
LEMMA InitIInv == Init => IInv
  <1> SUFFICES ASSUME Init PROVE IInv
    OBVIOUS
  <1> USE CacheAssumption DEF Init
  <1>1. downloads \in 0 .. MaxDownloads /\ clears \in 0 .. MaxClears OBVIOUS
  <1>2. TypeOK
    <2>1. disk \in [Images -> Content] /\ tmp \in [Images -> Content]
      BY DEF Whole, Content
    <2>2. randomImageArray \in Seq(Images) /\ imageArray \in Seq(Images) OBVIOUS
    <2> QED BY <1>1, <2>1, <2>2 DEF TypeOK
  <1>3. Finished /\ Unfinished /\ Chosen
    BY DEF Finished, Unfinished, Chosen, Whole
  <1> QED BY <1>2, <1>3 DEF IInv

LEMMA NextIInv == IInv /\ [Next]_vars => IInv'
  <1> SUFFICES ASSUME IInv, [Next]_vars PROVE IInv'
    OBVIOUS
  <1> USE CacheAssumption DEF IInv, TypeOK, Whole, Content, ViaTmp
  <1>1. ASSUME NEW d \in Dirs, Load(d) PROVE IInv'
    <2>1. TypeOK' BY <1>1 DEF Load, ReadCacheDir, queueVars, downloadVars,
       imageVars, screenVars
    <2>2. Finished' BY <1>1 DEF Load, ReadCacheDir, Finished, queueVars, downloadVars,
       imageVars, screenVars
    <2>3. Unfinished' /\ Chosen'
      BY <1>1 DEF Load, ReadCacheDir, Unfinished, Chosen, queueVars, downloadVars,
       imageVars, screenVars
    <2> QED BY <2>1, <2>2, <2>3
  <1>2. ASSUME NEW d \in Songs, ReloadCache(d) PROVE IInv'
    <2>1. TypeOK' BY <1>2 DEF ReloadCache, ReadCacheDir, queueVars, downloadVars,
       imageVars, screenVars
    <2>2. Finished' BY <1>2 DEF ReloadCache, ReadCacheDir, Finished, queueVars, downloadVars,
       imageVars, screenVars
    <2>3. Unfinished' /\ Chosen'
      BY <1>2 DEF ReloadCache, ReadCacheDir, Unfinished, Chosen, queueVars, downloadVars,
       imageVars, screenVars
    <2> QED BY <2>1, <2>2, <2>3
  <1>3. CASE GetFromImageArray
    <2>1. Head(imageArray) \in Images /\ Tail(imageArray) \in Seq(Images)
      BY <1>3 DEF GetFromImageArray
    <2>2. TypeOK' BY <1>3, <2>1 DEF GetFromImageArray, queueVars, downloadVars,
       imageVars, screenVars
    <2>3. Finished' /\ Unfinished' /\ Chosen'
      BY <1>3 DEF GetFromImageArray, Finished, Unfinished, Chosen, queueVars, downloadVars,
       imageVars, screenVars
    <2> QED BY <2>2, <2>3
  <1>4. CASE GetRandomImage
    <2>1. PICK queue \in Refilled : /\ queue # <<>>
                                    /\ currentPath' = Head(queue)
                                    /\ randomImageArray' = Tail(queue)
      BY <1>4 DEF GetRandomImage
    <2>2. queue \in Seq(Images) BY RefilledType, <2>1
    <2>3. Head(queue) \in Images /\ Tail(queue) \in Seq(Images) BY <2>1, <2>2
    <2>4. TypeOK' BY <1>4, <2>1, <2>3 DEF GetRandomImage, queueVars, downloadVars,
       imageVars, screenVars
    <2>5. Finished' /\ Unfinished' /\ Chosen'
      BY <1>4 DEF GetRandomImage, Finished, Unfinished, Chosen, queueVars, downloadVars,
       imageVars, screenVars
    <2> QED BY <2>4, <2>5
  <1>5. CASE ClearImages
    <2>1. TypeOK' BY <1>5 DEF ClearImages, queueVars, downloadVars,
       imageVars, screenVars
    <2>2. Finished' BY <1>5 DEF ClearImages, Finished, queueVars, downloadVars,
       imageVars, screenVars
    <2>3. Unfinished' /\ Chosen'
      BY <1>5 DEF ClearImages, Unfinished, Chosen, queueVars, downloadVars,
       imageVars, screenVars
    <2> QED BY <2>1, <2>2, <2>3
  <1>6. CASE ReloadEnds
    <2>1. TypeOK' BY <1>6 DEF ReloadEnds, queueVars, downloadVars,
       imageVars, screenVars
    <2>2. Finished' BY <1>6 DEF ReloadEnds, Finished, queueVars, downloadVars,
       imageVars, screenVars
    <2>3. Unfinished' /\ Chosen'
      BY <1>6 DEF ReloadEnds, Unfinished, Chosen, queueVars, downloadVars,
       imageVars, screenVars
    <2> QED BY <2>1, <2>2, <2>3
  <1>7. CASE LoadImage
    <2>1. TypeOK' BY <1>7 DEF LoadImage, queueVars, downloadVars,
       imageVars, screenVars
    <2>2. Finished' BY <1>7 DEF LoadImage, Finished, queueVars, downloadVars,
       imageVars, screenVars
    <2>3. Unfinished' /\ Chosen'
      BY <1>7 DEF LoadImage, Unfinished, Chosen, queueVars, downloadVars,
       imageVars, screenVars
    <2> QED BY <2>1, <2>2, <2>3
  <1>8. CASE HandleInvalidImage
    <2>1. TypeOK' BY <1>8 DEF HandleInvalidImage, queueVars, downloadVars,
       imageVars, screenVars
    <2>2. Finished' BY <1>8 DEF HandleInvalidImage, Finished, queueVars, downloadVars,
       imageVars, screenVars
    <2>3. Unfinished' /\ Chosen'
      BY <1>8 DEF HandleInvalidImage, Unfinished, Chosen, queueVars, downloadVars,
       imageVars, screenVars
    <2> QED BY <2>1, <2>2, <2>3
  <1>9. CASE RemoveFile
    <2>1. TypeOK' BY <1>9 DEF RemoveFile, queueVars, downloadVars,
       imageVars, screenVars
    <2>2. Finished' BY <1>9 DEF RemoveFile, Finished, queueVars, downloadVars,
       imageVars, screenVars
    <2>3. Unfinished' /\ Chosen'
      BY <1>9 DEF RemoveFile, Unfinished, Chosen, queueVars, downloadVars,
       imageVars, screenVars
    <2> QED BY <2>1, <2>2, <2>3
  <1>10. ASSUME NEW f \in Images, BeginDownload(f) PROVE IInv'
    <2>1. TypeOK' BY <1>10 DEF BeginDownload, Writes, queueVars, downloadVars,
       imageVars, screenVars
    <2>2. Finished' BY <1>10 DEF BeginDownload, Writes, Finished, queueVars, downloadVars,
       imageVars, screenVars
    <2>3. Unfinished' /\ Chosen'
      BY <1>10 DEF BeginDownload, Writes, Unfinished, Chosen, queueVars, downloadVars,
       imageVars, screenVars
    <2> QED BY <2>1, <2>2, <2>3
  <1>11. CASE DownloadFails
    <2>1. TypeOK' BY <1>11 DEF DownloadFails, Writes, queueVars, downloadVars,
       imageVars, screenVars
    <2>2. Finished' BY <1>11 DEF DownloadFails, Writes, Finished, queueVars, downloadVars,
       imageVars, screenVars
    <2>3. Unfinished' /\ Chosen'
      BY <1>11 DEF DownloadFails, Writes, Unfinished, Chosen, queueVars, downloadVars,
       imageVars, screenVars
    <2> QED BY <2>1, <2>2, <2>3
  <1>12. CASE DidFinishDownload
    <2>1. TypeOK' BY <1>12 DEF DidFinishDownload, Writes, FileThere, queueVars, downloadVars,
       imageVars, screenVars
    <2>2. Finished' BY <1>12 DEF DidFinishDownload, Writes, FileThere, Finished, queueVars, downloadVars,
       imageVars, screenVars
    <2>3. Unfinished' /\ Chosen'
      BY <1>12 DEF DidFinishDownload, Writes, FileThere, Unfinished, Chosen, queueVars, downloadVars,
       imageVars, screenVars
    <2> QED BY <2>1, <2>2, <2>3
  <1>13. CASE AddToCacheDir
    <2>1. TypeOK' BY <1>13 DEF AddToCacheDir, queueVars, downloadVars,
       imageVars, screenVars
    <2>2. Finished' BY <1>13 DEF AddToCacheDir, Finished, queueVars, downloadVars,
       imageVars, screenVars
    <2>3. Unfinished' /\ Chosen'
      BY <1>13 DEF AddToCacheDir, Unfinished, Chosen, queueVars, downloadVars,
       imageVars, screenVars
    <2> QED BY <2>1, <2>2, <2>3
  <1>14. CASE AddToImageArray
    <2>1. Append(imageArray, download) \in Seq(Images) BY <1>14 DEF AddToImageArray
    <2>2. TypeOK' BY <1>14, <2>1 DEF AddToImageArray, queueVars, downloadVars,
       imageVars, screenVars
    <2>3. Finished' /\ Unfinished' /\ Chosen'
      BY <1>14 DEF AddToImageArray, Finished, Unfinished, Chosen, queueVars, downloadVars,
       imageVars, screenVars
    <2> QED BY <2>2, <2>3
  <1>15. CASE ClearScreen
    <2>0. clears - 1 \in 0 .. MaxClears BY <1>15 DEF ClearScreen
    <2>1. TypeOK' BY <1>15, <2>0 DEF ClearScreen, queueVars, downloadVars,
       imageVars, screenVars
    <2>2. Finished' BY <1>15 DEF ClearScreen, Finished, queueVars, downloadVars,
       imageVars, screenVars
    <2>3. Unfinished' /\ Chosen'
      BY <1>15 DEF ClearScreen, Unfinished, Chosen, queueVars, downloadVars,
       imageVars, screenVars
    <2> QED BY <2>1, <2>2, <2>3
  <1>16. CASE SetCanceled
    <2>1. TypeOK' BY <1>16 DEF SetCanceled, queueVars, downloadVars,
       imageVars, screenVars
    <2>2. Finished' BY <1>16 DEF SetCanceled, Finished, queueVars, downloadVars,
       imageVars, screenVars
    <2>3. Unfinished' /\ Chosen'
      BY <1>16 DEF SetCanceled, Unfinished, Chosen, queueVars, downloadVars,
       imageVars, screenVars
    <2> QED BY <2>1, <2>2, <2>3
  <1>17. CASE ProcessEnds
    <2>0. 0 \in 0 .. MaxClears OBVIOUS
    <2>01. randomImageArray' \in Seq(Images) /\ imageArray' \in Seq(Images)
      BY <1>17 DEF ProcessEnds
    <2>1. TypeOK' BY <1>17, <2>0, <2>01 DEF ProcessEnds
    <2>2. Finished' BY <1>17 DEF ProcessEnds, Finished, queueVars, downloadVars,
       imageVars, screenVars
    <2>3. Unfinished' /\ Chosen'
      BY <1>17 DEF ProcessEnds, Unfinished, Chosen, queueVars, downloadVars,
       imageVars, screenVars
    <2> QED BY <2>1, <2>2, <2>3
  <1>18. CASE UNCHANGED vars
    <2>1. TypeOK' BY <1>18 DEF vars, queueVars, downloadVars,
       imageVars, screenVars
    <2>2. Finished' BY <1>18 DEF vars, Finished, queueVars, downloadVars,
       imageVars, screenVars
    <2>3. Unfinished' /\ Chosen'
      BY <1>18 DEF vars, Unfinished, Chosen, queueVars, downloadVars,
       imageVars, screenVars
    <2> QED BY <2>1, <2>2, <2>3
  <1> QED
    BY <1>1, <1>2, <1>3, <1>4, <1>5, <1>6, <1>7, <1>8, <1>9, <1>10, <1>11, <1>12,
       <1>13, <1>14, <1>15, <1>16, <1>17, <1>18 DEF Next, ImageThread, SearchThread, MainThread

LEMMA Invariance == Spec => []IInv
  BY InitIInv, NextIInv, PTL DEF Spec
-----------------------------------------------------------------------------
(* The variables of the cache keep their types. *)
THEOREM TypeCorrect == Spec => []TypeOK
  <1>1. IInv => TypeOK BY DEF IInv
  <1> QED BY <1>1, Invariance, PTL

(* However often the process is cut short, the item switched, and the       *)
(* directory of a running download loaded, no listed file that came by way  *)
(* of a .tmp file is cut short.  (It may be missing: see AddToCacheDir.)    *)
THEOREM ListedNotCutShort == Spec => []ListedNotPartial
  <1>1. IInv => ListedNotPartial BY DEF IInv, TypeOK, Finished, ListedNotPartial
  <1> QED BY <1>1, Invariance, PTL

(* No step of -load:, of a download, of a move or of the end of a process   *)
(* costs a good image; only the image thread does, of the image it took.    *)
THEOREM ImagesKept == Spec => GoodImagesKept
  <1>1. ASSUME IInv, [Next]_vars, NEW f \in Images,
               disk[f] = "good", disk'[f] # "good"
        PROVE  image = "remove" /\ currentPath = f
    <2> USE CacheAssumption, <1>1 DEF IInv, TypeOK, Whole, Content, ViaTmp
    <2>1. CASE RemoveFile
      BY <2>1 DEF RemoveFile
    <2>2. ASSUME NEW g \in Images, BeginDownload(g) PROVE FALSE
      BY <2>2 DEF BeginDownload, Writes
    <2>3. CASE DownloadFails
      BY <2>3 DEF DownloadFails, Writes, Unfinished
    <2>4. CASE DidFinishDownload
      BY <2>4 DEF DidFinishDownload, Writes, FileThere, Unfinished
    <2>5. CASE AddToCacheDir
      BY <2>5 DEF AddToCacheDir
    <2>6. CASE ProcessEnds \/ AddToImageArray \/ ClearScreen \/ SetCanceled
      BY <2>6 DEF ProcessEnds, AddToImageArray, ClearScreen, SetCanceled
    <2>7. CASE (\E d \in Dirs : Load(d)) \/ (\E d \in Songs : ReloadCache(d))
      BY <2>7 DEF Load, ReloadCache, ReadCacheDir
    <2>8. CASE GetFromImageArray \/ GetRandomImage \/ ClearImages \/ LoadImage
                 \/ HandleInvalidImage \/ ReloadEnds
      BY <2>8 DEF GetFromImageArray, GetRandomImage, ClearImages, LoadImage,
         HandleInvalidImage, ReloadEnds
    <2>9. CASE UNCHANGED vars
      BY <2>9 DEF vars
    <2> QED
      BY <2>1, <2>2, <2>3, <2>4, <2>5, <2>6, <2>7, <2>8, <2>9
         DEF Next, ImageThread, SearchThread, MainThread
  <1>2. IInv /\ [Next]_vars =>
          [\A f \in Images :
             disk[f] = "good" /\ disk'[f] # "good" =>
               image = "remove" /\ currentPath = f]_vars
    BY <1>1
  <1> QED BY <1>2, Invariance, PTL DEF Spec, GoodImagesKept

(* -getRandomImage never returns nil while images are listed, whatever the  *)
(* queue holds and however few they are: nobody asks for a clear then but   *)
(* because of a stop.                                                       *)
THEOREM ClearedForGoodReason == Spec => ClearedOnlyIfEmpty
  <1>1. ASSUME IInv, [Next]_vars, clears' > clears
        PROVE  cacheDir = {} \/ canceled
    <2> USE CacheAssumption, <1>1 DEF IInv, TypeOK
    <2>1. CASE ClearImages
      <3>1. SUFFICES ASSUME ~canceled, cacheDir # {} PROVE FALSE OBVIOUS
      <3>2. <<>> \in Refilled BY <2>1, <3>1 DEF ClearImages
      <3> QED BY <3>1, <3>2, RefilledNonempty
    <2>2. CASE GetFromImageArray \/ GetRandomImage \/ LoadImage \/ HandleInvalidImage
                 \/ RemoveFile \/ ReloadEnds
      BY <2>2 DEF GetFromImageArray, GetRandomImage, LoadImage, HandleInvalidImage,
         RemoveFile, ReloadEnds, screenVars
    <2>3. CASE MainThread \/ SearchThread
      BY <2>3 DEF MainThread, AddToCacheDir, AddToImageArray, ClearScreen,
         SearchThread, BeginDownload, DownloadFails, DidFinishDownload, screenVars
    <2>4. CASE (\E d \in Dirs : Load(d)) \/ (\E d \in Songs : ReloadCache(d))
      BY <2>4 DEF Load, ReloadCache, ReadCacheDir, screenVars
    <2>5. CASE ProcessEnds \/ SetCanceled \/ UNCHANGED vars
      BY <2>5 DEF ProcessEnds, SetCanceled, vars, screenVars
    <2> QED BY <2>1, <2>2, <2>3, <2>4, <2>5 DEF Next, ImageThread
  <1>2. IInv /\ [Next]_vars => [clears' > clears => cacheDir = {} \/ canceled]_vars
    BY <1>1
  <1> QED BY <1>2, Invariance, PTL DEF Spec, ClearedOnlyIfEmpty
=============================================================================
