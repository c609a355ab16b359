# RandomWeb: a TLA+ verification project

RandomWeb is a Mac OS X screen saver. While it runs it searches the web for
images (Google image searches of random phrases and digital photo names,
searches for the song iTunes is playing, or the pages at a location the user
gave), downloads them into one directory per search, and shows them at random.
This project models the parts of it that run concurrently or survive a restart,
checks them with TLC, and proves the main safety properties with TLAPS.

Contents: [the system](#the-system) ·
[modules](#modules-and-the-code) · [runs](#runs) · [fairness](#fairness) ·
[proofs](#proofs) · [findings](#findings) · [limits](#what-is-not-modelled) ·
[plan](#plan)

## The system

### Threads and their meetings

| Thread | Runs | Touches |
|---|---|---|
| main | `startAnimation`, `stopAnimation`, `addToImageArray:`, drawing timer | every flag, the listing, the queue of new images |
| image (`checkRunnable`) | every 0.5 s: `checkType`, then takes, decodes and hands over an image | search item, cache directory, both queues |
| search (`checkSearchRunnable`) | its run loop and `checkSearch`; `NSURLConnection`, `NSURLDownload` and timer callbacks | `transfering`, counters, clients, the item's page |
| download (`downloadThreadRun`) | one image of a location item, while the search thread polls | its `DownloadClient` |

Every start of the view creates a new image thread, which creates a new search
thread. They share one `ImageManager` singleton. The critical sections are
`@synchronized(self)` in `triggerSearch`, `setCanceled:` and the switch of the
item, `sharedLock` in `checkSearchItem` and `reloadCache`, and
`@synchronized(imageArray)` for one of the accesses to that queue. Most reads
and writes of the manager's flags are outside of them.

### Components

| Component | State | Operations | What makes it correct | Module |
|---|---|---|---|---|
| Image downloads (`DownloadClient.m`) | index and count in the batch, current download, watchdog, `canceled`, `finished` | `downloadNext`, `timedOut`, callbacks, `setCanceled:` | each URL reported once and in order; nothing stalls; a cancel silences it but for one call; no download left over | `DownloadClient`, `DownloadReports` |
| Search and transfer control (`ImageManager.m`, `SearchDownloadClient.m`, `ConnectionClient.m`) | `transfering`, `canceled`, current item, current client, counters, queue of new images, three locks | `checkSearch`, `triggerSearch`, `checkSearchItem`, `reloadCache`, `setCanceled:`, listener callbacks | one transfer at a time; the flag is never stuck; results go to the right item with the right count; no thread waits for ever | `ImageManager`, `ManagerLocks` |
| Views and threads (`ScreenSaver*View.m`) | `canceled`, `isImageCheckRunning`, `isSearchCheckRunning` | start, stop, the two thread loops, `loadImage:` | stopping returns; nothing happens after it | `ImageManager`, `ImageDirectoryCache`, `ManagerLocks` |
| Image cache (`ImageDirectoryCache.m`, `FileUtil.m`) | files, listing (`cacheDir`), `randomImageArray` | `load:`, `addToCacheDir:destPath:`, `getRandomImage`, `removeFile:`, size check | no image listed that was cut short; good ones kept; each one shown; size bounded | `ImageDirectoryCache`; size check `CacheTrim` |
| Location search (`URLSearchParamItem.m`, `ImageDownloadHandler.m`) | links matched, images counted, `canceled` of the item | four passes over a page, one download per match, `cancel` | the limit of images; each image once; a stop is heeded; the search ends | `LocationSearch`, with `DownloadClient` |
| Search items (`SearchParamItem.m`, `GoogleSearchParamItem.m`, `ITunesSearchParamItem.m`) | start position, `lastSearch`, `needsReload`, dirty flag | `checkResults:`, `isSearchExhausted`, `vetoSearch`, `getKeyword`, load, save | pages asked for once and in order, across restarts | `SearchItems` |
| Options (`RWOptions.m`) | list of items, the user defaults | load, convert, add, remove, save, `getRandomItem:` | list and defaults agree; a removed item stays removed | `SearchItems` |
| Settings window (`SettingsController.m`, ...) | edited list | check boxes, add, remove, OK, Cancel | something enabled is stored; what is listed is what the user added | `SearchItems` |
| OpenGL drawing (`RWOpenGLView.m`) | `newImage`, `oldItem`, `currentItem`, `nextItem` | `setImage:path:`, `drawRect:`, `clearImages` | no image handed over is lost or used half-made | not modelled |
| iTunes access (`ITunesAccessor.m`) | none that lasts | asks for the song on the main thread, which its caller waits for | nobody who waits for it holds what the main thread needs | in `ImageManager`, `ManagerLocks` |
| Page parsing, image processing | none that lasts | | | not modelled |
| Superseded user interface, vendored libraries | | | | not modelled |

### How the modelled parts interact

```
 ScreenSaver*View -- start/stop, checkType, checkSearch --> ImageManager
        |                                                     |  creates
        | getFromImageArray, handleInvalidImage               v
        v                                        SearchDownloadClient (one page)
 ImageDirectoryCache <-- addToImageArray: (main) --           |  creates
        |                                                     v
        +-- .tmp / final files <-- NSURLDownload -- DownloadClient (one batch)
```

Module `DownloadReports` is the contract in the middle: `DownloadClient`
implements it, and `ImageManager` relies on it for the batches of its clients.
The edge from `ImageManager` to the cache is cut at the path of a file: the
cache module downloads any image that is neither on disk nor ignored, in any
order, with the guards of `DownloadClient`, into a directory of the item that is
current or of the one the batch began with.

### Hard behaviours

Callbacks, a timer and a canceller compete for the index of a batch; flags are
tested and acted on in separate steps without a lock; a search thread waits for
the main thread, which may be waiting for the search thread, or for a lock that it
holds; a client that was
cancelled is still parsing; the process may end between the write of a file, its
move and its listing; the shown image comes from a queue that no longer matches
the listing; a directory is loaded again while a download runs in it; two locks are taken in both orders; two processes edit one list in
the user defaults, and neither reads again what the other has stored.
`PROJECT.json` lists each at its line, with the property that would catch it
going wrong or the reason why none does.

## Modules and the code

Each module says in its header which threads it has. A source step that other
threads can observe is an action of its own; a critical section is one action.
Operators preceded by "Faulty variant:" are not part of the specification: each
is a definition the way a plausible bug would have it, and the property it is
paired with in `PROJECT.json` fails when it takes that definition's place.

### `DownloadReports` and `DownloadClient`

`DownloadReports` (abstract): `outcomes`, `pending`, `finished`, `canceled`;
actions `Decide`, `Deliver`, `Finish`, `Cancel`.

`DownloadClient` (detailed): `pc` is where the worker stands. In the code
`downloadNext`, `failWithError:` and the listener calls nest as recursive calls
on one thread; they are consecutive values of `pc` here, and what lies between
two of them is where a cancel from another thread can fall. Each test of `canceled`
is a step before the call of the listener that it guards: `start`, `data`,
`failing` and `finishing` are the places between a test that was passed and its
call (`CallListener`), and `lateCalls` counts the calls that begin when the flag is
set all the same. In the same way `create` lies between the test of `canceled` and
the creation of the `NSURLDownload`, and `setCanceled:` has two steps, the flag
(`SetCanceled`) and the cancel of the current download (`CancelCurrent`).

Network and timer callbacks are enabled only at `pc = "loop"`, for they run on the
worker's run loop. The watchdog is `"armed"`, then `"due"` when its time is over
(`TimeoutPasses`), and `"fired"` when the run loop serves it (`TimedOut`). A datum
that arrives before that puts it off (`DidReceiveData`, `ResetTimer`), and nothing
bounds how often. `-startTimer` is `StartTimer`, and `Cleanup` is `-cleanup`.

`Host` selects the worker: the search thread, or the thread of `-download` (one
URL) that a location search polls. Either may leave its run loop (`LoopEnds`), and
timer and callbacks go with it: the search thread whenever the view is stopped
(`checkSearchRunnable` looks at its own flag, not at the batch), the other one when
the batch is over. The batch of the search thread saves to `.tmp` files, which its
listener moves (`ReportFinish`); on the other thread `NSURLDownload` writes to the
path where the file stays, and deletes it when it fails.

Abstracted: a URL is its index, `SavePath` gives its file, and two URLs may have
the same file. `disk` also stands for the files marked `.ignore`, which
`currentExists` treats alike.

### `ImageManager`

One module for the manager, the clients it creates and the threads of one view,
for the interesting behaviours are in what they do to one another's flags.
`main`, `image[l]` and `search[l]` are where the threads of launch `l` stand;
`clients` is the sequence of `SearchDownloadClient`s created, with the state of
the connection and of the batch of each, and the last one is the manager's
`client`; `serving[l]` is the client in whose callback search thread `l` is.

`checkType`/`checkSearchItem` and `checkSearch`/`triggerSearch` are two steps
each, as in the code: the test of `transfering` without the lock, then the act
under it. A callback that comes to `performSelectorOnMainThread:waitUntilDone:YES`
stands at `"adding"` until `AddToImageArray`, which the main thread cannot take
inside `setCanceled:`. When a search thread ends, its run loop and all that
would have called back in it are lost (`Silenced(c, "lost")`).

An iTunes item has to ask for the song: `MayAsk` puts a thread among those that
wait for the main thread (`asking`), which answers (`Answer`) when it is not inside
`startAnimation` or `stopAnimation`. The locks of the methods that ask are kept
meanwhile: `Synchronized` and `SharedLock` say that a thread is inside
`triggerSearch`, `checkSearchItem` or `reloadCache`, and guard what takes the same
lock. So a search is triggered in two steps, `TriggerSearch` up to the question and
`Connect` after it, a choice of the item in `BeginChoice` and `CheckSearchItem`, and a
reload in `ReloadCache`, `ReloadCancels` and `ReloadEnds`. The question that is asked
while a page is parsed (`"parse"`) holds no lock, and is the wait at `"adding"` over
again.

Abstracted: time (a due search, a due change of item and a change of song may
occur at any step), the contents of a page (a number of links), pages (a
counter). `GivesUp` is the difference between the two views: the OpenGL view
waits at most 200 naps of 0.05 s for its threads, the other one without limit.
Location items are not among the `Items`: see `LocationSearch`.

### `ManagerLocks`

`ImageManager` takes each critical section whole, so that no thread can be found
waiting for a lock. `ManagerLocks` is the same code seen from the other side:
nothing but `sharedLock`, `@synchronized(self)`, `@synchronized(delegateList)`, the
calls made while they are held and the flags that decide which calls. `todo[t]` is
what thread `t` still has to do; a method is a sequence of locks to take and drop
and of calls, which are replaced by their bodies when their turn comes. Each
method of the manager is one definition with the method's name
(`ReloadCache(ask) == Within("shared", ask \o SetCanceled \o SetUncanceled)`), so that the order
in which locks are taken can be read off and compared. A view's call of the
manager begins with `sharedInstance`, which takes `sharedLock`; that is easily
overlooked in `setStatus:`, which is called with the other two held. With `ITunes`
an enabled item follows the song, and whoever looks at it may have to wait for the
main thread (`Asks`, `Ask`). The wait of a
stop for its threads is a step that may be taken at any time, for it is limited.

### `LocationSearch`

One search of a location, from `parseSearchData:` to its return. `search` is
where the search thread stands in the four nested passes and the match loop; the
client of the current match is `INSTANCE DownloadClient` with a batch of one, on
a thread of its own, and its actions take their guards from there. `files` are
the destinations that exist. `NSURLDownload` creates the file of an image where it
will stay, as its data arrive, heard by the thread or not (`DidReceiveData`),
and deletes it when the download fails, times out or is cancelled; the main thread,
when it runs `addToImageArray:`, moves nothing and lists it (`added`), which it
cannot while it is inside `setCanceled:`. A stop is three steps (`CancelItem`,
`CancelHandler`, `CancelDownload`), since the item, the client's flag and its
download are told one after the other, between which the search thread may
replace the client. A search may begin with an item still marked canceled from a
stop before it; it then looks at nothing. That the view is started again while the
search of before the stop still runs, and its `setSearchItem:` takes the mark off
(`ImageManager.m:148`), is not modelled: such a search goes on.

### `SearchItems`

The list of searches in the user defaults (`list`, `dicts`, `converted`) and in
the memory of two processes: System Preferences with its sheet (`prefs*`) and
the screen saver (`engine*`). `start` is what an item has left to do: the
position of its next page, `NoStart` for the digital photos, or for a location
whether it may be loaded again. The removal and the addition of an item are
stored at once, a check box changes memory only, OK stores every dirty item, and
Cancel takes nothing back. The item may change while a search is under way
(`CheckSearchItem`), as `item_switch` shows it can: `searched` is then another item than
`current`, on which the page is counted. `-loadSearchParamItem` makes items dirty, as in the
code. Either process may end at any point and start again.

Assumed: System Preferences is not started while the screen saver runs
(`PrefsStarts`, which leaves out much of what two processes that store the same list
could do to each other), and the defaults are not those of an older version (`Upgraded`).
`ListedIsWanted` needs both, for an identifier is the highest one this process has
seen plus one. Without the first (the conjunct `engine = "off"` dropped, two
locations, no `Legacy`, `MaxSteps = 7`, `MaxId = 8`) TLC finds it violated: add a
location, let the screen saver start, remove the location, quit and start System
Preferences, add another location: it gets the identifier of the first, and the
page that the screen saver then stores writes the first one over it. With
`Upgraded = TRUE` (`MaxSteps = 6`, `MaxId = 8`) it is violated under the first
assumption too: the dictionary of a removed phrase, stored once more by the screen
saver, is taken for that of the iTunes item, which is made anew at each start with
the identifier that has become free and is not stored. No document promises
otherwise, so neither is a run of the project.

### `CacheTrim`

The check of the cache size on a small tree of directories with dates and sizes.
The two units of the code, 1048576 bytes in sums and 1024000 in what has been
deleted, are kept by counting in thousandths of a MiB (`1024`, `1000`, `1020`). The
date of a directory changes with its own entries only.

### `ImageDirectoryCache`

`disk` and `tmp` are the files at the final path and at the path with `.tmp`;
`cacheDir`, `randomImageArray` and `imageArray` are as in the code, except that
the listing is a set (a file that is downloaded is never listed already, since
`currentExists` was false, so no entry can repeat). A downloaded file is `good`,
`small` (below the minimum size: deleted when shown) or `junk` (does not decode:
left alone by `loadImage:`).

The image thread loads a directory, takes an image, decodes and perhaps removes
it, each a step of its own; the search thread downloads one file at a time; the
main thread moves and lists it (`AddToCacheDir`) and then queues it
(`AddToImageArray`), two steps between which the image thread may refill its
queue. `RandomChunk` is the draw without replacement of `getRandomChunk:except:`
with every possible outcome; `Refilled` has the threshold of `getRandomImage`
(one image left, or a quarter of the chunk in integer division).
`ProcessEnds` may occur at any step: the files stay, everything else is gone,
and the next process goes on with `loaded = None`.

A directory may be loaded at any time, also that of a running download: `Load` is
the switch to another item, `ReloadCache` the change of the song, to another of the
`Songs` or to the same again. The batch saves in a directory of the current item
(`MaySaveIn`), which for an iTunes item is that of the new song as soon as
`getKeyword` has seen it, before the image thread reloads; or it goes on in the
directory it began with. A reload then removes the `.tmp` file of the running
download (`FileThere` no more), `AddToCacheDir` has nothing to move and lists the path
all the same. `HandleInvalidImage` is reached with any image, for `loadImage:` calls
it from its `@catch` too. `getFromImageArray` returns nil whenever the manager is
`canceled`, by a stop or inside a reload; `ClearImages` then posts a clear to the main
thread, which takes effect later (`ClearScreen`), when something may be on the
screen again.

## Runs

All runs together take a few minutes on two workers.

| Run | Instance | What it shows |
|---|---|---|
| `batch` | 4 URLs, the first and third to one file, search thread; 14 thousand states | the promises of `DownloadClient` and the refinement of `DownloadReports`, safety and liveness |
| `location_search` | 3 images, a limit of 2, 3 matches; any file may be there already; fair; 804 thousand states | the limit holds, each image is downloaded once and counted, a stop lets at most one more download begin, the search ends unless data of one image arrive for ever |
| `one_view` | 1 launch, 2 items (no iTunes item), 2 searches of up to 2 links; 949 thousand states | no two transfers at once, no stuck flag, results of a page recorded after its last link and with its own count, nothing queued after a stop |
| `stopping` | 1 launch, an iTunes item, 2 searches of up to 1 link, `GivesUp`, fair; 137 thousand states | transfers end or are cancelled |
| `cache` | 2 images of an item that follows the song, with 2 songs, 1 location image, 1 download, `ChunkMax` 3, fair; 559 thousand states | nothing listed that was cut short on its way through a `.tmp` file, good images removed by the image thread only, the screen cleared only for want of images or in a cancel, each image taken in time |
| `search_items` | photo and iTunes item, a phrase of an older version, a location; 2 pages; 4 edits and starts; 1.3 million states | what is listed is what the user added, something enabled is stored, pages are asked for in order, whenever processes end |
| `item_switch`, `stop_hangs`, `locks_hang`, `reload_overlap`, `partial_image`, `cache_trim` | | the [findings](#findings) |

**Why the bounds suffice.** *Batch:* four URLs are a first, a middle, a
repetition and a last one; the recursion over skipped URLs is entered from a
success, a failure and a timeout. The safety results are also proved for every
length. *Manager:* two searches are the least at which one client's callbacks
meet another's state; two links the least at which a last link differs from an
earlier one; two items the least for a switch. `MaxClients` bounds the searches
triggered and appears in the guards of `CheckSearch` and `TriggerSearch`, where
the manager behaves as if no search were due. *Location:* three matches with a
limit of two reach the limit with a match to spare, or return to an image seen
before; the passes are all four of them. *Items:* the list has the two items
that are always there, one converted and one added, so that an item is removed
before, between and after others; four edits and starts are a start of each
process with two edits, or two starts of each, one after the conversion. Two pages are a first and a
last one. *Cache:* a chunk of three holds all images, so `EveryImageShown` is
about the order of the queue; with more images than `ChunkMax` it is false, as
TLC confirms, because a random chunk of some may leave one out time after time.
`MaxDownloads` is needed for it as well: an endless supply of new images, which
are shown first, would keep the listed ones waiting. It also excepts a manager that
is cancelled, which shows nothing. `MaxClears` bounds the clears that wait for the
main thread: one suffices to come late. Two songs are a directory before and one
after a change; one download is cut short by each of the things that may happen
beside it (`partial_image` has three), and the safety properties are proved for any
number.

**What holds only there.** `one_view` leaves out two things on purpose, and TLC
shows why. With an iTunes item (`MaxLinks` and `MaxClients` 2), a reload cancels a
client that is parsing its page and that starts its batch all the same:
`OneTransfer`, `PageAfterLastLink` and `CountOfOwnClient` are then violated (finding
`reload_overlap`); and a reload's `setCanceled:NO` that takes back a stop's
`setCanceled:YES` violates `TransferBacked`. With two launches, one left over from a
stop and one new, `OneTransfer`, `PageAfterLastLink`, `CountOfOwnClient` and
`NothingAfterStop` are violated, for the two share flags and counters;
`TransferBacked` still holds, as `FlagAlwaysBacked` proves for any number of launches.
There can be two because the threads raise the flags that a stop waits on
themselves: one that was launched and has not begun is not waited for, although
`ScreenSaverMainView.m:40` then logs "Threads finished". With one launch and
`GivesUp` the first four still hold (`OneViewTransfers`) and `NothingAfterStop` does
not: giving up is returning before the threads end. `OneTransfer` in `one_view` is
about a single search thread, which triggers searches and serves callbacks in turn:
what it shows is that the flag is not lowered early, not that two threads could not
collide, which they can.

`StopReturns` in `locks_hang` is checked with `ITunes = FALSE`, where nobody waits for
the main thread to ask for the song. There `setSearchItem:` under `sharedLock` is the
cause: TLC finds no violation when `CheckSearchItem` in `ManagerLocks` is changed to
drop `sharedLock` before `SetSearchItem`. With `ITunes = TRUE` that does not help:
`StopReturns` is violated also because the image thread asks for the song with
`sharedLock` held, which the main thread waits for, and answers nobody
(`ITunesAccessor.m:122`). In module `ImageManager`, with one launch, an iTunes item and
`GivesUp`, TLC finds `StopReturns` violated by the search thread, which asks inside of
`triggerSearch`: the stop waits for `@synchronized(self)` in `setCanceled:`, called at
`ScreenSaverOpenGLView.m:49`, and does not get to the wait that it would give up.

`ListedNotPartial` does not say that a listed file exists: with a song that changes
during a download TLC finds a path listed without its file (the formula
`\A f \in cacheDir : ViaTmp(f) => disk[f] # "none"` fails in `cache`). Such an image is
taken from the queue, and not shown. `GoodImagesKept` allows the image thread to
remove what it took, for `loadImage:` deletes a good image over which an exception
was raised, or which it judges by the minimum size of another item.

`SomeEnabled` is about lists that OK has stored last (`confirmed`): a removal is
stored at once, and the removal of the only other enabled item after the photo
item was disabled leaves nothing enabled in store. `PagesInOrder` excepts (`touched`) items
that OK has stored: OK stores the positions System Preferences has loaded, which
may be older than those the screen saver has reached, and pages are asked for
again. It also excepts, when the item changed under a search, the one searched,
which asks for its page again, and the one the page was counted on, which leaves
one out, until they are searched once more. It does not say that a page is asked
for only once: one that failed is asked for again, and after the last page comes
the first.

**Deadlock.** `CHECK_DEADLOCK FALSE` stands in `batch` and `location_search` (a
batch and a search end), in `cache_trim` (the bound on changes is reached), in
`locks_hang` and `stop_hangs`, where the system hangs: that is the finding; in
`one_view`, whose properties are checked in spite of the hang of `stop_hangs`; and in
`stopping` and `reload_overlap`, where a stop can hang on the question of an iTunes
item. In the other runs TLC checks deadlock.

## Fairness

- *DownloadClient.* Weak fairness of each step of the worker, of the time of
  the watchdog, of its callback (`TimedOut`) and of the rest of a cancel begun.
  None of the network: a server may stay silent for ever, or send data for ever.
  `TimedOut` is fair only while the timer stays due and the run loop is served:
  each datum moves the timer on (`ResetTimer`), and `LoopEnds`, of which nothing is
  assumed, ends the run loop. So `ReportsGoOn`, the liveness of `DownloadReports`,
  excepts data that arrive for ever and a run loop that has ended, and
  `OrphanStopped` a run loop that has ended: after a stop of the view the watchdog
  stops nothing. After a reload, which leaves the run loop, it does, and there the
  watchdog alone makes `OrphanStopped` true.
- *ImageManager.* Weak fairness of threads that can take a step, of the main
  thread inside a start or a stop, asked to add an image or asked for the song,
  and of callbacks: a page loads or fails because `NSURLConnection` times out, and a
  batch reports because of `ReportsGoOn`. The last is an assumption about the
  network: no server feeds a download data for ever. A server that does keeps the
  transfer, and `TransferEnds` does not hold. No fairness of starting, stopping,
  triggering a search or choosing an item: those are the user's and the clock's.
- *ManagerLocks.* Strong fairness of what a thread has begun, so that no lock is
  kept from it by others that take turns: what remains is a real hang.
- *LocationSearch.* The search thread, the download thread and its run loop go
  on, time passes, the main thread adds an image when asked and finishes a stop it
  has begun. None of the network: `SearchEnds` excepts data that arrive for ever. A
  page has finitely many matches.
- *ImageDirectoryCache.* The image thread goes on showing images and the main
  thread answers. No fairness of downloads, of loads or of the end of a process.

## Proofs

In seven modules: `DownloadClientProofs`, `ImageDirectoryCacheProofs`,
`LocationSearchProofs`, `ImageManagerProofs`, `TransferProofs`, which extends the
one before, `SearchItemsProofs` and `SearchPagesProofs`, which extends that. Every
obligation is discharged by SMT, Zenon or LS4. With them every safety property
that a passing run checks is a theorem; what TLC alone shows is liveness.

**`DownloadClientProofs`**, from `BatchAssumption` (any number of URLs, any
repetition of destinations; a download thread has one URL):

| Theorem | Establishes |
|---|---|
| `TypeCorrect` | `Spec => []TypeOK` |
| `Order` | each URL is reported once and in order |
| `Exclusive` | only the current download is on the network |
| `NoStall` | a waiting worker has a download under an armed watchdog |
| `LateCall` | at most one call of the listener begins after a cancel |
| `NoDuplicates` | a shared destination is downloaded at most once |
| `CountIsOfReports` | the count of downloads is the number of successes reported |
| `Refinement` | `Spec => ReportsSpec`: each step maps to a step of `DownloadReports` or to a stutter |

None of these is inductive. The invariant `IInv` adds to `TypeOK` three parts.
`Pace` ties the number of reports to `urlsIndex` and `pc`: one report is owed
exactly at the places between taking a URL and telling the listener; this
carries `Order` and `Refinement`. `Finished` says that a finished batch owes
nothing. `Watched` says that only the current download is on the network, and
only at places from which the worker gets to its run loop with the timer armed;
the case that needs it is a cancel, which sends the worker back to the run loop
without the cleanup, possibly with a download still on the network.
`LateCall` needs `NotYetLate`: as long as the worker has not made the call whose
test it had passed when the flag was set, no call was late; after it, every test
fails. `NoDuplicates` needs `Fresh`: a download that is under way has a destination
not on disk, and every success reported so far is on disk.
`CountIsOfReports` is inductive with `IInv`: the set of successes grows by one
exactly where `downloadCount` does, and is finite as part of an interval.

**`ImageDirectoryCacheProofs`**, from `CacheAssumption` (finitely many images,
any directories, any chunk size of at least one, any bound on downloads):

| Theorem | Establishes |
|---|---|
| `TypeCorrect` | `Spec => []TypeOK` |
| `ListedNotCutShort` | no listed file that came by way of a `.tmp` file is cut short, wherever processes end and whatever is loaded during a download |
| `ImagesKept` | a good image is lost only when the image thread, which took it, removes it |
| `ClearedForGoodReason` | a clear of the screen is asked for only when nothing is listed or the manager is cancelled |

`IInv` adds to `TypeOK`: that the final path of a file with a `.tmp` path is free or
holds a whole file, and its `.tmp` path no partial one by the time it is moved, though
it may have been removed meanwhile (`Finished`); that a location image is still
partial, or removed, while it loads, so that a download that fails deletes no good
file (`Unfinished`); and `Chosen`. The first is what a reload in the middle of a
download endangers. `ClearedForGoodReason` rests on two lemmas about the refill
rule: `RefilledNonempty` says that an empty queue is always refilled with something
when the listing is not empty (the threshold `chunk / 4` is at least 0, and the
chunk at least 1), and `RefilledType`.

**`LocationSearchProofs`**, from `LocationAssumption` (any images, any limit, any
bound on matches):

| Theorem | Establishes |
|---|---|
| `TypeCorrect` | `Spec => []TypeOK` |
| `LimitKept` | a search keeps to its limit of images |
| `NoDuplicates` | an image is added at most once |
| `StopHeeded` | after a stop has begun at most one more download does |
| `CountIsOfImages` | the images counted are those added to the cache |

`IInv` adds to `TypeOK`: `OneImage`, that the client of a match creates one
download, which loads only where its thread expects callbacks; `Marked`, that the
item is marked before its client is cancelled; `Returned`, that the search thread
leaves its poll only when that client is cancelled, finished or its thread gone, so
that it will count no more; `RoomLeft`, that whoever may still count an image, or go
on to another match, finds the limit not reached; and `InPlace`, that an image that
was added has its file, and that the one whose file may yet be deleted, by a failure
or a cancel, was not added. `RoomLeft` needs the case of a cancelled item, which goes
on through the passes with the limit already reached, and is saved by the test at
the head of each. `StopHeeded` needs `Heeded`: a stop marks the item before it tells anybody
else, and a download that begins after that leaves the match loop for good.
`CountIsOfImages` needs `Counted`, in which the count is one ahead of the images
between the two steps that count and add one (`pc = "finish"`), and `Recorded`,
for what the search returns; both are about a search nobody has cancelled.

**`ImageManagerProofs` and `TransferProofs`**, from `ManagerAssumption` (any items,
any number of launches, searches and links):

| Theorem | Hypothesis | Establishes |
|---|---|---|
| `TypeCorrect` | | `Spec => []TypeOK` |
| `FlagBacked` | `[]ReloadsClear` | the transferring flag is never up with nobody to lower it |
| `FlagAlwaysBacked` | no iTunes item | the same |
| `OneAtATime` | `[]Calm` | one client transfers at a time |
| `LastLink` | `[]Calm` | results are recorded after the last link of the page |
| `OwnCount` | `[]Calm` | the results recorded are those the client itself counted |
| `OneViewTransfers` | one launch, no iTunes item | the last three |
| `QuietAfterStop` | `~GivesUp`, `[]OnePair` | no image is queued after a stop |
| `OneViewQuiet` | `~GivesUp`, one launch | the same |

The hypotheses are not conveniences: without them TLC finds each of these
violated ([what holds only there](#runs)). `ReloadsClear` says that from a stop to the
next start no image thread is between the `setCanceled:YES` and the
`setCanceled:NO` of a `reloadCache`; songs may change and be reloaded at any other
time. `Calm` has three parts: `OnePair`, that the threads of one launch at most exist;
`NoLeftover`, that none are left when a start gets to the manager; and `NoReload`, that
nothing is reloaded. They do not limit how often the view starts and stops, only that
the threads of one start end before those of the next begin. `FlagAlwaysBacked`,
`OneViewTransfers` and `OneViewQuiet` derive the hypotheses from the constants, so that
they are known to hold of some behaviours: of all of those that `one_view` explores,
at any number of searches and links.

`IInv` holds without conditions and adds to `TypeOK`: `Served`, that a search
thread in a callback serves a client of its own; `AllInTurn`, that no client
reports more links than it has, or any before its page; `Unserved`, that a client
whose thread is gone waits for nothing; `Connecting`, that the client being connected
has not begun, and nobody else is inside the lock; `ItemChosen` and `Launching`.

*The flag.* That `transfering` is backed by some live client is not inductive: a
client is live also when the count of links that `-checkIfFinished:` compares with
(`transferImageCount`, a field of the manager) is that of another client, and
then its own last link does not lower the flag. `FlagWillFall` therefore names the
clients that will (`WillEnd`): one whose page is still to be parsed, for it will
set the count, or the one whose count stands there. That is why the theorem
holds with any number of launches, where several clients work at once.
`StoppedOrFresh` covers the time from a stop to the next start, in which the
flag may be up, and says that the manager is cancelled then.

*Calm behaviours.* `CalmInv` says more: only the last client is live and the flag is
up while it is (`LastOnly`), the flag is up only then (`Backed`), and the two
counters in the manager are that client's (`OwnImages`, `OwnLinks`). A search is
triggered only when the flag is down, hence when no client is live, which is what
keeps `LastOnly` (and `NothingYet` carries it over the question for the song, between
that test and the rise of the flag); a second pair of threads would fall between the test of the flag
and the creation of the client.

*After a stop.* The threads themselves raise and lower the flags that a stop waits
on. `FlagsUp` says that each flag is right about the threads that have begun;
`QuietStop`, that the threads not waited for, which were launched and have not
begun, will find the view cancelled.

**`SearchItemsProofs` and `SearchPagesProofs`**, from `ItemsAssumption` (any
phrases, locations and phrases of versions before, any number of pages, and any
bounds on identifiers and starts):

| Theorem | Hypothesis | Establishes |
|---|---|---|
| `TypeCorrect` | | `Spec => []TypeOK` |
| `ListedCorrect` | `~Upgraded` | a process that starts finds what the user has added and not removed, in order |
| `SomeEnabledCorrect` | `~Upgraded` | something enabled is stored after OK |
| `PagesCorrect` | `~Upgraded` | the page asked for is the one due and none is beyond the last, but for what `touched` excepts ([runs](#runs)) |

`~Upgraded` is the assumption of section [SearchItems](#searchitems) about older
versions, without which `ListedIsWanted` is violated; the other two properties rest
here on the same list invariant, so that the theorems leave open, as the run
does, what holds of them for defaults of an older version. That System Preferences
is not started while the screen saver runs is the guard of `PrefsStarts`.

*The list.* `ListedIsWanted` speaks of what a process *would* load. `Stored` says
what the defaults are like before the first start, and after it: a list without
gaps or repetitions, whose dictionaries have the keys wanted. `PrefsList` says that
System Preferences holds the list that is stored, and has seen all its
identifiers. `EngineList` is about the screen saver, which may hold items that
were removed and will store them again: the dictionary it writes has the key that
is there, if any, and no identifier it holds is given to a new item while it runs.
That last part is what the guard of `PrefsStarts` is needed for.

*What loading computes.* `LoadedUpTo` is recursive over a list of any length, and
induction theorems cannot be cited (their parameter is an operator). The proofs
take a least counterexample instead: `Least` gives every nonempty set of naturals
its least element (`WFMin` of the library), `LoadingDefined` and `LoadingStep` derive
from it that the recursion has a solution and what its steps are, and
`WholeLoaded` that it loads every item of the list. `MaxIdProperties` gets the
highest identifier of a list in the same way.

*What is enabled* (`EnabledInv`). An item that is not dirty is stored as it is held;
and the item the screen saver is at is enabled for it, since `getRandomItem:`
chooses no other, so that what it stores again is enabled too.

*Positions* (`OrderInv`). From each position listed, stored or held by the screen
saver, the next page is the one due, unless OK has stored the item or it changed under a
search. The iTunes
item is stored without a position and starts anew with each process.

**Only model-checked.** Every liveness property (`SearchEnds`, `OrphanStopped`,
`ReportsGoOn`, `TransferEnds`, `StopReturns`, `EveryImageShown`): liveness and
`ENABLED` are out of the prover's reach. Of `ManagerLocks` and `CacheTrim` nothing is
proved: the one property of each is violated.

## Findings

| Run | What the code does | What the repository says |
|---|---|---|
| `item_switch` | the item changes while a search is under way: `checkType` tests `isTransferring`, a search is triggered, `checkSearchItem` changes the item | `AdvSettingsDataSource.m:49`: it will wait until the search is finished |
| `stop_hangs` | the view without OpenGL waits for the search thread, which waits for the main thread | `ChangeLog:35`: crash when interrupting during the search phase fixed; here it hangs |
| `locks_hang` | `sharedLock` and `@synchronized(self)` are taken in both orders by the image and the search thread; the main thread then waits for `sharedLock`, before the wait it would give up | `ScreenSaverOpenGLView.m:59`: "Threads still running, giving up..." |
| `reload_overlap` | a client cancelled while parsing starts its batch; the next search runs beside it | `AdvSettingsDataSource.m:41`: waits after a search is finished |
| `partial_image` | location images are downloaded to their final path, so that one cut short is listed for good | `ChangeLog:21`: downloads go to a temporary file that is moved on completion |
| `cache_trim` | directories are listed among the images and removed by their own, older, date with all that is in them | `AdvSettingsDataSource.m:61`: only the oldest images are deleted |

## What is not modelled

- *Time*: intervals, waits and the back-off between searches. Whatever depends
  on a time having passed may happen at any step, which allows more behaviours.
- *Unsynchronised `NSMutableArray`s*: an access is taken whole. In the code two
  accesses that collide are undefined, up to a crash.
- *Retain and release*: objects live as long as they are used.
- *Parsing, drawing, image processing, AppleScript, layout of the windows*: a
  page is a number of links, an image is valid, too small or neither, and any image
  may raise an exception. Of AppleScript there is the wait for the main thread, in
  `ImageManager` and `ManagerLocks`, and not what it answers, nor that iTunes itself
  may keep the main thread waiting.
- *A view started again while a location search of before still runs*
  (`LocationSearch`).
- *Several views in one process*, and the *image directories* as shared by
  several processes (`SearchItems` has their shared defaults).
- *The hand-off of an image to the drawing timer* (`RWOpenGLView.m`): `newImage`
  and `nextItem` are tested and set on two threads without a lock; planned.
- *The sizes a Google search cycles through*: no longer loaded, so nothing
  depends on them.
- *The advanced settings*: plain values that each process reads once.
- *Vendored code* (PCRE, AGRegex, SQLite, Apple samples) and the *superseded
  user interface* (`MainView.m`, `OptionsController.m`, `Settings.m`,
  `ThreadWorker.m`), which nothing running refers to. All `.c` files of the
  repository are vendored; the program itself is Objective-C (`.m`), and it is
  those lines that the definitions of this project translate.

## Plan

Done, in this order: `DownloadReports` and `DownloadClient` (checked and
proved), `ImageManager` (checked, its safety proved), `ImageDirectoryCache`
(checked and proved), `LocationSearch` (checked, its safety proved), `SearchItems`
(checked, its safety proved), `CacheTrim` and `ManagerLocks` (checked). Left:

1. Theorems: the safety half of the promise that a stop returns, that
   `ManagerLocks` with `sharedLock` dropped first has no cycle of waiting threads;
   `SomeEnabled` and `PagesInOrder` with `Upgraded`.
2. `ImageHandOff`: `setImage:path:` on the image thread against `drawRect:` and
   `clearImages` on the main thread.
3. A set of views in `ImageManager`.
