------------------------- MODULE ImageDirectoryCache -------------------------
(***************************************************************************)
(* ImageDirectoryCache.m: the images of the current search item, on disk   *)
(* and in the two queues from which the screen saver shows them.           *)
(*                                                                         *)
(* Three threads meet here.  The search thread downloads one image at a    *)
(* time and waits for the main thread, which moves the file to its final   *)
(* path, lists it and queues it.  The image thread loads the directory of  *)
(* the item it chose, takes images from the queues, decodes them, and      *)
(* removes those that are too small.  The process may end at any step: the *)
(* disk stays as it is, the rest is gone.                                  *)
(*                                                                         *)
(* Google items download to a .tmp file beside the final path, location    *)
(* items straight to the final path.  A load follows a switch of the item, *)
(* which should not but does happen during a transfer (module              *)
(* ImageManager), or a reload for another song.  Neither asks whether a    *)
(* download is running in the directory that is loaded: an item that       *)
(* follows the song knows of the new song, and saves its images in the     *)
(* directory of it, before the image thread reloads.                       *)
(***************************************************************************)
EXTENDS Naturals, Sequences, FiniteSets, FiniteSetsExt, SequencesExt

CONSTANTS
  Images,       \* image files, named by their final path
  Dirs,         \* directories, one for each search item
  DirOf,        \* DirOf[f]: the directory of f
  Location,     \* directories of location items
  Songs,        \* directories of an item that follows the song, one a song
  None,
  ChunkMax,     \* random paths queued at a time; 100 in the code
  MaxDownloads, \* bound: downloads begun
  MaxClears     \* bound: calls of -clearImages that wait for the main thread

ASSUME CacheAssumption ==
  /\ IsFiniteSet(Images)
  /\ DirOf \in [Images -> Dirs]
  /\ Location \subseteq Dirs
  /\ Songs \subseteq Dirs \ Location
  /\ None \notin Images \cup Dirs
  /\ ChunkMax \in Nat \ {0}
  /\ MaxDownloads \in Nat
  /\ MaxClears \in Nat \ {0}

(* What a file that was downloaded completely holds: an image that is large *)
(* enough, one that is not, or no image at all.                             *)
Whole == {"good", "small", "junk"}
Content == Whole \cup {"none", "partial"}

VARIABLES
  disk,              \* disk[f]: the file at the final path
  tmp,               \* tmp[f]: the file at the path with .tmp appended
  ignored,           \* files with a .ignore mark beside them
  loaded,            \* directory of the current item
  cacheDir,          \* files listed
  randomImageArray,  \* listed files, in the order they will be shown
  imageArray,        \* new files, shown before those
  batch,             \* directory the batch of downloads saves in
  download,          \* the file being downloaded
  stage,             \* where its download stands
  downloads,
  canceled,          \* the manager's flag
  currentPath,       \* the file taken last
  image,             \* where the image thread stands
  shown,             \* whether there is an image on the screen
  clears             \* calls of -clearImages posted to the main thread

queueVars == <<randomImageArray, imageArray>>
downloadVars == <<batch, download, stage, downloads>>
imageVars == <<currentPath, image>>
screenVars == <<shown, clears>>
vars == <<disk, tmp, ignored, loaded, cacheDir, queueVars, downloadVars, canceled,
          imageVars, screenVars>>

TypeOK ==
  /\ disk \in [Images -> Content]
  /\ tmp \in [Images -> Content]
  /\ ignored \subseteq Images
  /\ loaded \in Dirs \cup {None}
  /\ cacheDir \subseteq Images
  /\ randomImageArray \in Seq(Images)
  /\ imageArray \in Seq(Images)
  /\ batch \in Dirs \cup {None}
  /\ download \in Images \cup {None}
  /\ stage \in {"idle", "loading", "adding", "queueing"}
  /\ downloads \in 0 .. MaxDownloads
  /\ stage # "idle" => download # None
  /\ currentPath \in Images \cup {None}
  /\ canceled \in BOOLEAN
  /\ image \in {"idle", "load", "remove", "reload"}
  /\ image \in {"load", "remove"} => currentPath # None
  /\ shown \in BOOLEAN
  /\ clears \in 0 .. MaxClears

(* A process starts on whatever complete images the runs before it left. *)
Init ==
  /\ disk \in [Images -> Whole \cup {"none"}]
  /\ tmp = [f \in Images |-> "none"]
  /\ ignored = {}
  /\ loaded = None
  /\ cacheDir = {}
  /\ randomImageArray = <<>>
  /\ imageArray = <<>>
  /\ batch = None
  /\ download = None
  /\ stage = "idle"
  /\ downloads = 0
  /\ canceled = FALSE
  /\ currentPath = None
  /\ image = "idle"
  /\ shown = FALSE
  /\ clears = 0
-----------------------------------------------------------------------------
(* Helpers. *)

ViaTmp(f) == DirOf[f] \notin Location

(* Faulty variant: every download is saved at its final path. *)
WritesInPlace(f, content) ==
  disk' = [disk EXCEPT ![f] = content] /\ UNCHANGED tmp

(* The download writes `content' to where it saves its file. *)
Writes(f, content) ==
  IF ViaTmp(f)
    THEN tmp' = [tmp EXCEPT ![f] = content] /\ UNCHANGED disk
    ELSE disk' = [disk EXCEPT ![f] = content] /\ UNCHANGED tmp

(* The file of the running download is still there. *)
FileThere == (IF ViaTmp(download) THEN tmp[download] ELSE disk[download]) # "none"

(* -getRandomChunk:except: draws `count' listed files and returns, in the   *)
(* order drawn, those that are not excepted.                                *)
RandomChunk(count, except) ==
  UNION {SetToSeqs(drawn \ except) : drawn \in kSubset(count, cacheDir)}

ChunkSize ==
  IF Cardinality(cacheDir) > ChunkMax THEN ChunkMax ELSE Cardinality(cacheDir)

(* Faulty variant: the queue is refilled only when one image is left. *)
RefilledAtOne ==
  IF Len(randomImageArray) = 1
    THEN {randomImageArray \o c : c \in RandomChunk(ChunkSize, ToSet(randomImageArray))}
    ELSE {randomImageArray}

(* What -getRandomImage makes of the queue before it takes from it. *)
Refilled ==
  IF Len(randomImageArray) = 1 \/ Len(randomImageArray) <= ChunkSize \div 4
    THEN {randomImageArray \o c : c \in RandomChunk(ChunkSize, ToSet(randomImageArray))}
    ELSE {randomImageArray}
-----------------------------------------------------------------------------
(* The image thread. *)

(* -load: lists every file of the directory but the .ignore marks, and      *)
(* removes the .tmp files; the queue of new images is emptied too.          *)
ReadCacheDir(d) ==
  /\ loaded' = d
  /\ tmp' = [f \in Images |-> IF DirOf[f] = d THEN "none" ELSE tmp[f]]
  /\ cacheDir' = {f \in Images : DirOf[f] = d /\ disk[f] # "none"}
  /\ randomImageArray' = <<>>
  /\ imageArray' = <<>>
  /\ UNCHANGED <<disk, ignored, downloadVars, currentPath, screenVars>>

(* Directories of one item. *)
SameItem(d, e) == d = e \/ {d, e} \subseteq Songs

(* -setSearchItem:, another item was chosen. *)
Load(d) ==
  /\ image = "idle"
  /\ ~SameItem(d, loaded)
  /\ ReadCacheDir(d)
  /\ UNCHANGED <<canceled, image>>

(* -reloadCache, the song has changed, if only for a while: the images of   *)
(* the song are listed and the manager cancelled,                           *)
ReloadCache(d) ==
  /\ image = "idle"
  /\ loaded \in Songs
  /\ ReadCacheDir(d)
  /\ canceled' = TRUE
  /\ image' = "reload"

(* which is taken back. *)
ReloadEnds ==
  /\ image = "reload"
  /\ canceled' = FALSE
  /\ image' = "idle"
  /\ UNCHANGED <<disk, tmp, ignored, loaded, cacheDir, queueVars, downloadVars,
                 currentPath, screenVars>>

(* -getFromImageArray: a new image, *)
GetFromImageArray ==
  /\ image = "idle"
  /\ loaded # None
  /\ ~canceled
  /\ imageArray # <<>>
  /\ currentPath' = Head(imageArray)
  /\ imageArray' = Tail(imageArray)
  /\ image' = "load"
  /\ UNCHANGED <<disk, tmp, ignored, loaded, cacheDir, randomImageArray, downloadVars,
                 canceled, screenVars>>

(* Faulty variant: takes the image queued last. *)
GetLastRandomImage ==
  /\ image = "idle"
  /\ loaded # None
  /\ ~canceled
  /\ imageArray = <<>>
  /\ cacheDir # {}
  /\ \E queue \in Refilled :
       /\ queue # <<>>
       /\ currentPath' = Last(queue)
       /\ randomImageArray' = Front(queue)
  /\ image' = "load"
  /\ UNCHANGED <<disk, tmp, ignored, loaded, cacheDir, imageArray, downloadVars,
                 canceled, screenVars>>

(* or else -getRandomImage, one of the listed; *)
GetRandomImage ==
  /\ image = "idle"
  /\ loaded # None
  /\ ~canceled
  /\ imageArray = <<>>
  /\ cacheDir # {}
  /\ \E queue \in Refilled :
       /\ queue # <<>>
       /\ currentPath' = Head(queue)
       /\ randomImageArray' = Tail(queue)
  /\ image' = "load"
  /\ UNCHANGED <<disk, tmp, ignored, loaded, cacheDir, imageArray, downloadVars,
                 canceled, screenVars>>

(* with neither, or cancelled, it returns nil, and the main thread is asked *)
(* to clear the screen when it finds the time.                              *)
ClearImages ==
  /\ image = "idle"
  /\ loaded # None
  /\ \/ canceled
     \/ imageArray = <<>> /\ (cacheDir = {} \/ <<>> \in Refilled)
  /\ clears < MaxClears
  /\ clears' = clears + 1
  /\ currentPath' = None
  /\ UNCHANGED <<disk, tmp, ignored, loaded, cacheDir, queueVars, downloadVars,
                 canceled, image, shown>>

(* -loadImage: shows the image, or leaves a file it cannot decode alone.    *)
(* The minimum size is that of the current item, whichever the image is of. *)
LoadImage ==
  /\ image = "load"
  /\ disk[currentPath] = "small" => DirOf[currentPath] # loaded
  /\ image' = "idle"
  /\ shown' = (shown \/ disk[currentPath] \notin {"junk", "none"})
  /\ UNCHANGED <<disk, tmp, ignored, loaded, cacheDir, queueVars, downloadVars,
                 canceled, currentPath, clears>>

(* -loadImage: finds the image too small, or an exception is raised while   *)
(* it is decoded or scaled: -handleInvalidImage:, which marks it for a      *)
(* location item,                                                           *)
HandleInvalidImage ==
  /\ image = "load"
  /\ ignored' = IF loaded \in Location THEN ignored \cup {currentPath} ELSE ignored
  /\ image' = "remove"
  /\ UNCHANGED <<disk, tmp, loaded, cacheDir, queueVars, downloadVars, canceled,
                 currentPath, screenVars>>

(* and -removeFile:, from the listing and from the disk. *)
RemoveFile ==
  /\ image = "remove"
  /\ cacheDir' = cacheDir \ {currentPath}
  /\ disk' = [disk EXCEPT ![currentPath] = "none"]
  /\ image' = "idle"
  /\ UNCHANGED <<tmp, ignored, loaded, queueVars, downloadVars, canceled, currentPath,
                 screenVars>>
-----------------------------------------------------------------------------
(* The search thread. *)

(* The page of a search has links: the batch saves in a directory of the    *)
(* current item, that of a new song at once; or it goes on, whatever has    *)
(* become of the item.                                                      *)
MaySaveIn(d) == d = batch \/ SameItem(d, loaded)

(* Faulty variant: does not look for the file. *)
DownloadAgain(f) ==
  /\ stage = "idle"
  /\ downloads < MaxDownloads
  /\ loaded # None
  /\ MaySaveIn(DirOf[f])
  /\ batch' = DirOf[f]
  /\ download' = f
  /\ stage' = "loading"
  /\ downloads' = downloads + 1
  /\ Writes(f, "partial")
  /\ UNCHANGED <<ignored, loaded, cacheDir, queueVars, canceled, imageVars, screenVars>>

(* A download of an image that is neither on disk nor ignored. *)
BeginDownload(f) ==
  /\ stage = "idle"
  /\ downloads < MaxDownloads
  /\ loaded # None
  /\ MaySaveIn(DirOf[f])
  /\ disk[f] = "none"
  /\ f \notin ignored
  /\ batch' = DirOf[f]
  /\ download' = f
  /\ stage' = "loading"
  /\ downloads' = downloads + 1
  /\ Writes(f, "partial")
  /\ UNCHANGED <<ignored, loaded, cacheDir, queueVars, canceled, imageVars, screenVars>>

(* It fails, times out or is cancelled: NSURLDownload deletes the file. *)
DownloadFails ==
  /\ stage = "loading"
  /\ stage' = "idle"
  /\ download' = None
  /\ Writes(download, "none")
  /\ UNCHANGED <<ignored, loaded, cacheDir, queueVars, batch, downloads, canceled,
                 imageVars, screenVars>>

(* -didFinishDownload:, up to its wait for the main thread.  A file that    *)
(* was removed meanwhile has no name to come back under.                    *)
DidFinishDownload ==
  /\ stage = "loading"
  /\ stage' = "adding"
  /\ IF FileThere THEN \E content \in Whole : Writes(download, content)
                  ELSE UNCHANGED <<disk, tmp>>
  /\ UNCHANGED <<ignored, loaded, cacheDir, queueVars, batch, download, downloads, canceled,
                 imageVars, screenVars>>
-----------------------------------------------------------------------------
(* The main thread, for the search thread. *)

(* Faulty variant: the path is given up before it is queued. *)
PathReleasedEarly ==
  /\ stage = "adding"
  /\ stage' = "queueing"
  /\ disk' = [disk EXCEPT ![download] = IF ViaTmp(download) THEN tmp[download] ELSE @]
  /\ tmp' = [tmp EXCEPT ![download] = "none"]
  /\ cacheDir' = cacheDir \cup {download}
  /\ download' = None
  /\ UNCHANGED <<ignored, loaded, queueVars, batch, downloads, canceled, imageVars,
                 screenVars>>

(* -addToCacheDir:destPath: moves the file, unless one is in its place or   *)
(* it has been removed, and lists it either way;                            *)
AddToCacheDir ==
  /\ stage = "adding"
  /\ stage' = "queueing"
  /\ IF ViaTmp(download) /\ disk[download] = "none"
       THEN /\ disk' = [disk EXCEPT ![download] = tmp[download]]
            /\ tmp' = [tmp EXCEPT ![download] = "none"]
       ELSE UNCHANGED <<disk, tmp>>
  /\ cacheDir' = cacheDir \cup {download}
  /\ UNCHANGED <<ignored, loaded, queueVars, batch, download, downloads, canceled, imageVars,
                 screenVars>>

(* the path is added to the queue of new images, and the search goes on. *)
AddToImageArray ==
  /\ stage = "queueing"
  /\ stage' = "idle"
  /\ imageArray' = Append(imageArray, download)
  /\ download' = None
  /\ UNCHANGED <<disk, tmp, ignored, loaded, cacheDir, randomImageArray, batch, downloads,
                 canceled, imageVars, screenVars>>

(* A clear that was posted: it may be long since there was nothing to show. *)
ClearScreen ==
  /\ clears > 0
  /\ clears' = clears - 1
  /\ shown' = FALSE
  /\ UNCHANGED <<disk, tmp, ignored, loaded, cacheDir, queueVars, downloadVars,
                 canceled, imageVars>>

(* -setCanceled:, when the screen saver stops and starts again. *)
SetCanceled ==
  /\ loaded # None
  /\ canceled' = ~canceled
  /\ UNCHANGED <<disk, tmp, ignored, loaded, cacheDir, queueVars, downloadVars,
                 imageVars, screenVars>>
-----------------------------------------------------------------------------
(* The process ends, anywhere, and another one starts. *)
ProcessEnds ==
  /\ loaded # None
  /\ loaded' = None
  /\ cacheDir' = {}
  /\ randomImageArray' = <<>>
  /\ imageArray' = <<>>
  /\ batch' = None
  /\ download' = None
  /\ stage' = "idle"
  /\ canceled' = FALSE
  /\ currentPath' = None
  /\ image' = "idle"
  /\ shown' = FALSE
  /\ clears' = 0
  /\ UNCHANGED <<disk, tmp, ignored, downloads>>

ImageThread ==
  \/ ReloadEnds \/ GetFromImageArray \/ GetRandomImage \/ ClearImages \/ LoadImage
  \/ HandleInvalidImage \/ RemoveFile

SearchThread == (\E f \in Images : BeginDownload(f)) \/ DownloadFails \/ DidFinishDownload

MainThread == AddToCacheDir \/ AddToImageArray \/ ClearScreen

Next ==
  \/ \E d \in Dirs : Load(d)
  \/ \E d \in Songs : ReloadCache(d)
  \/ ImageThread \/ SearchThread \/ MainThread \/ SetCanceled \/ ProcessEnds

Spec == Init /\ [][Next]_vars

(* The image thread goes on showing images, and the main thread answers. *)
FairSpec == Spec /\ WF_vars(ImageThread) /\ WF_vars(MainThread)
-----------------------------------------------------------------------------
(* Properties. *)

(* Of a directory whose files come by way of .tmp files no file is listed,  *)
(* and shown, that was cut short, wherever the process ended and whichever  *)
(* directory was loaded during a download.  (It may be missing.)            *)
ListedNotPartial == \A f \in cacheDir : ViaTmp(f) => disk[f] # "partial"

(* A good image is lost only when the image thread, which took it, finds it *)
(* too small or raises an exception over it: never by a download, a move,   *)
(* a load, or the end of a process.                                         *)
GoodImagesKept ==
  [][\A f \in Images :
       disk[f] = "good" /\ disk'[f] # "good" => image = "remove" /\ currentPath = f]_vars

(* It is decided to clear the screen only when no image is listed or the    *)
(* screen saver is being stopped: -getRandomImage finds one if there is     *)
(* one, whatever is left of its queue.                                      *)
ClearedOnlyIfEmpty == [][clears' > clears => cacheDir = {} \/ canceled]_vars

(* Every listed image is taken in time, at random though the order is, if   *)
(* all of them fit in one chunk, and nobody cancels.                        *)
EveryImageShown ==
  \A f \in Images :
    f \in cacheDir ~> currentPath = f \/ f \notin cacheDir \/ canceled

(* "While downloading saves to a temporary file and then moves it on        *)
(* completion" (ChangeLog:21): no item ever lists a file cut short, but for *)
(* the one that is being downloaded.                                        *)
WholeImagesOnly == \A f \in cacheDir : disk[f] # "partial" \/ f = download
=============================================================================
