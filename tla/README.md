# SwiftApp in TLA+

SwiftApp is an iOS demo application: pages that each show a library, and a layer
of helpers of its own (uploads to an object store, cached row heights, HUDs, a
news list, a database).  Its database is WCDB over a modified SQLite, both built
from source under `Pods/`.  This directory holds TLA+ models of the helpers that
have behaviour over time, and of what the database rests on when it is used from
several threads and when the app is killed: the handle pool of WCDB and the
write-ahead log of its SQLite.  It says what TLC checks about them, and has
theorems that TLAPS proves.  Paths below are relative to `src/SwiftApp/SwiftApp/`, unless they start
with `Pods/`, which is in `src/SwiftApp/`.

    tlc -workers 2 -config OSSUpload_serial.cfg MCOSSUpload     # a run
    tlapm OSSUploadProofs.tla                                   # its proofs

A definition marked "Mutant" is not part of the model: it is a plausible mistake
in the definition after it, and shows that the run would find it.

## 1. Inventory

| component | state | operations | who it talks to |
|---|---|---|---|
| `AliyunOSSTool` (image upload) | singleton: `client`, `dataSourece` | upload one image, upload an array of images (old and New variant) | calls the OSS client; its completion blocks run on the main queue and call the caller's blocks |
| OSS SDK (`Pods/AliyunOSSiOS`) | tasks, retry counts | PUT, retry, CRC check, presigned URL | network threads; completes tasks |
| `FDIndexPathHeightCache` | two arrays of arrays of heights, a flag | cached height, eight swizzled updates, invalidation | swizzles `UITableView`; asked by the delegate of the table |
| `LottieHUD`, `LottieViewController` | mask, animation, window flag, timers | show, stop, timer | main queue, UIKit animations, Lottie, key window |
| `AliyunUploadVideoTool` (video upload) | singleton: uploader, view, hud, block | upload, delayed start, listener callbacks | VOD SDK (binary), `MBProgressHUD` |
| `MBProgressHUD+TL`, `HUDExpand` | HUDs in windows, the last HUD | show, hide, timed hide | UIKit |
| news list (`HandyJSONViewController`) | articles, page | refresh, cell for row | Moya request, image loader, height cache (`reloadData`) |
| database (`DBmanager`, `WCDBViewController`) | a table of users | insert, update, delete, query | WCDB |
| WCDB `SharedLock` (`Pods/WCDB.swift/src/common/base/Lock.cpp`) | readers per thread, owner, two queues | lock, unlock, shared or not, recursive | every guard of a WCDB database |
| WCDB `HandleCounter` (`.../core/HandleCounter.cpp`) | two counts, two queues | count, uncount, wait | the pool |
| WCDB `HandlePool`, handles of `InnerDatabase` (`.../core/`) | open and free handles, the handle of each thread | get and give back a handle, close, blockade, purge, initialize | the lock, the counter; SQLite connections |
| write-ahead log of SQLite (`Pods/WCDBOptimizedSQLCipher/src/wal.c`) | WAL file, database file, wal-index, locks, per connection a header | read and write transactions, rollback, checkpoint, recovery | a connection per handle; the page cache (`pager.c`) |
| image pickers | images picked so far | pick, remove | TZImagePickerController |
| button throttle | a flag per button | tap, delayed enable | run loop |
| start-up, WeChat, globals, demo pages | none, or constants | | UIKit |
| the other vendored libraries | | | not this repository's code |

### What is hard, and what would be correct

* **Image upload.** PUTs of a batch end on network threads, in any order, after
  retries; their blocks share one array, which the next batch call clears.  A
  batch must be answered once, by its last image, with the URLs of its own
  images in their order; a failure must reach the caller; keys made from a clock
  must not collide; no block may write beyond the array.
* **Height cache.** The cache is a second copy of the shape of the table, edited
  by its own code at every update, for two orientations.  A height it returns
  must be the one that would be computed; heights must move along with rows.
* **LottieHUD.** Showing disables the key window, so a user can never end it:
  something must be on its way that does.  Shows, clears, fades, timers and
  callbacks of removed animations of several calls interleave.
* **Video upload.** Callbacks of one upload act on the view, the HUD and the
  block of the newest call.  Each call must be answered once, and no HUD left.
* **HUDs.** Hiding takes the topmost one, or the last one remembered.
* **News list.** Answers of overlapping refreshes are applied as they arrive;
  reused cells may show the image of another article.
* **Database.** Errors are swallowed.
* **Handles.** Threads share handles that are limited in number.  Getting one takes
  a recursive lock that favours writers, a counter with two queues of waiting
  threads, and a free list, in several steps, each of which may fail; giving one
  back does so in another order; close and blockade wait for everybody.  Nobody
  may sleep for ever, use a handle that is closed, or keep a lock on some path.
* **Write-ahead log.** Writers append, readers read and a checkpoint copies to the
  database file at the same time, on agreements about frame numbers, salts and
  marks in shared memory; the process may be killed between any two writes.  A
  transaction reads one committed state, and a commit outlives the process.
  WCDB's build changes three of these agreements.
* **Image picker.** The limit of nine holds for one pick, not for the list.

`PROJECT.json` lists these hazards at their lines, with the properties that
cover them, or the reason why none does.

## 2. Plan

Done, in this order: `OSSUpload` over `BatchPromise` with `OSSUploadProofs`;
`HeightCache`; `LottieHUD` with `LottieHUDProofs`; `Wal` over `WalStore`;
`Conditional`, `SharedLock`, `HandleCounter` and `HandlePool`, which composes the
two, with `LockAndCounterProofs` and `HandlePoolProofs`; `WalInv`, the inductive
invariant of `Wal`, with `WalProofs` and `WalDataProofs`; `HeightCacheLemmas` and
`HeightCacheProofs`.

The app's other helpers were planned once and are not any more: section 9 says
why.  To come: loss of power, that is, writes that reach the disk in another
order, which needs `xSync` of `os_unix.c` in `Wal`.

## 3. Image upload: `OSSUpload`, `BatchPromise`, `OSSUploadProofs`

**State.**  `dataSourece` is the array of `AliyunOSSTool.m` (its spelling), a
place holder or an object key per image; `client` says whether the property was
set; `loop` is the batch call inside its `for` loop.  `status`, `tries` and
`objectKey` follow each request (an image of a call) from the call through
`putObject:` and its retries to its block; `mainQueue` holds the blocks queued
by `dispatch_async`; `bucket` is the store; `answers` is what each caller's
blocks were called with.

**Actions.**  `UpLoadImageWithImageDataArray` clears the array and enters the
loop; `UploadOneImage` is one turn (place holder, key, PUT); network threads and
the clock may run between turns.  The two variants of the code, old and New, are
the same but for bucket and URL prefix.  `UpLoadImageWithImageData` is a single
upload.  `PutSucceeds`, `PutCorrupted`, `PutRejected` and `PutInterrupted` are
the ways an attempt ends (`OSSNetworking.m`); only the last may be tried again
(`OSSURLRequestRetryHandler.m`).  `BatchBlock` and `SingleBlock` are the main
queue blocks.

The point of the batch block is the variable `task`: its continuation assigns
the task of `presignPublicURLWithBucketName:` to it (lines 105, 158) before it
tests `task.error`.  That task has a result whatever the PUT did, hence
`PresignError(r) == FALSE`.

`BatchPromise` is what a caller may expect: each image finishes once, and the
step that finishes the last one answers the batch.  `PromiseKept` says that
`OSSUpload` implements it, with an image finished when its block ran.

**Assumptions on the environment.**  Calls are made on the main thread: the code
touches UIKit right after them, and the loop and the blocks share the array
without a lock.  A caller on another thread would race with the blocks.  The
store replaces an object on a PUT to its key.

| run | instance | shows |
|---|---|---|
| `OSSUpload_serial` | batches of 2, 1 and 0 images that do not overlap, one retry, clock 0..2 | batches are answered once, by their last image, with their own URLs, in order; nothing is written beyond the array; images of a batch do not replace each other; a reported array changes only by being cleared; every batch that reaches the network is answered |
| `OSSUpload_overlap` | two batches of 2 images and a single upload, all overlapping | a URL always lands in its position; when all is quiet, the array was reported to some batch; a single upload reports what is stored |
| `OSSUpload_put_failure` | as serial | **violated**: a batch whose PUTs fail is told success |

**Bounds.**  Two images are the least that can finish out of order; the third
batch, empty, clears the array between the others.  One retry has both outcomes
of the retry test.  `KeyStep` is 1 and the clock may stand still or go on between
two turns, so equal and different clock readings both occur; `MaxRandom` 0 makes
a single upload's random part its worst case, none.

**A single upload that fails** is only logged (`AliyunOSSTool.m:66`): its caller's
`faile` is never called, though `AliyunOSSTool.h:30` offers it.  The model has it
so; `SingleSuccessIsStored` is the half that holds.

**Batches of different sizes that overlap** are left out of the passing runs: a
block of the longer one then writes beyond the array of the shorter, later one,
and `replaceObjectAtIndex:` raises (`NoCrash` fails).  Nor does overlap keep
`AnswerIsOwnImages` or `PromiseKept`: the array is shared.  These hold, and are
proved, with `Overlapping = FALSE`.

**Fairness** (`Fairness`).  A loop that was entered goes on; the main queue is
served; every attempt of a PUT ends, by an answer or the timeout of the session,
and retries are bounded.  Nobody has to start a batch or set the client.

**Proved** (`OSSUploadProofs`), for any batches, sizes, retry counts and clocks,
from `OSSAssumption`:

* `TypeCorrect`: `TypeOK`.
* `BatchInvariant`: `BatchInv`, the conjunction of
  `QueueInv` (the main queue holds each finished request once),
  `LoopInv` (inside a loop the array is the place holders so far, and their
  requests went out together),
  `UniformInv` (outside its loop a batch is idle, dropped or in flight as a whole),
  `OwnArrayInv` (without overlap the array has the length of the batch with open
  requests, and a place holder exactly for the open ones) and
  `AnsweredInv` (without overlap only a finished batch was answered).
  `NoCrash` alone is not inductive: that the index of a block is in range follows
  from whose array it is, which needs `OwnArrayInv`, which needs the others to
  know that a batch starts, or is dropped, as a whole.
* `NoCrashTheorem`, `AnswerTheorem`, `PromiseTheorem`: for `~Overlapping`, no
  write beyond the array, answers are a batch's own URLs in order, and every step
  of `OSSUpload` is a step of `BatchPromise` or a stutter.
* `SlotsTheorem`: `SlotsAligned`, with any overlap.
* `StableTheorem`: without overlap, a reported array changes only by being cleared
  for the next batch (`ReportedArrayIsStable`): by `OwnArrayInv` a block that is
  still to come has a place holder in the array, and a reported array has none.
* `QuietTheorem`: `QuietIsReported`, with any overlap.  Inductive is `QuietInv`:
  outside a loop each place holder of the array is that of an image of the newest
  batch that is still under way or was dropped, and an array without any was
  reported by the block that removed the last one, to its own batch.
* `SingleTheorem`: `SingleSuccessIsStored`, from `SingleInv`: from the moment its PUT
  succeeds there is an object at the key of a single upload, whole if it is its own.
* `KeysTheorem`, `SavedTheorem`: keys increase along a batch because the clock
  does not go back and each index adds `KeyStep`; so a saved image is not
  replaced by another one of its batch.

Model-checked only: `BatchAnswered`, which is liveness.

## 4. Height cache: `HeightCache`, `MCHeightCache`, `HeightCacheLemmas`, `HeightCacheProofs`

**State.**  `table` is what the table view shows: the content of each row, by
section.  `heights` are the two caches, `device` is what `UIDevice` reports,
`interface` the orientation that gives the table its width.  A height is a pair
of the content and the width it was computed from: that is all layout depends on.

**Actions.**  Each swizzled method is one action, which runs the edit of the
library on both caches and that of UIKit on the table, side by side: insert,
delete, reload and move, of sections and rows, `reloadData`, reload without
invalidation, explicit invalidation.  `CacheHit` and `CacheMiss` are
`fd_heightForCellWithIdentifier:cacheByIndexPath:configuration:`; `Rotate` turns
the device.  The library's helpers (`BuildSections`, `InsertRows`, ...) take a
cache and index paths, as the code enumerates them, one after the other; UIKit's
(`Inserted`, `Deleted`, `Moved`) are external, and stated as one change: a row that
is not inserted is where it was, but for the insertions before it (`Before`).

Where the library departs from UIKit, a constant says whether an instance may go
there: `Updates` allows moves over more than one position, deletion of several
sections, and insertions in an order that is not ascending; `Devices` allows a
device that lies flat.

| run | instance | shows |
|---|---|---|
| `HeightCache` | two sections, three rows, two contents, portrait and landscape | no sequence of updates, queries and rotations leaves a stale height; the caches keep one shape; insertions and moves keep cached heights |
| `HeightCache_flat` | also a device lying flat | **violated**: a portrait height is cached for landscape, as the orientation of the device is not that of the interface |

**Far moves, several sections, unordered insertions** are left out by the
`Updates` of both runs.  With any of them `CacheIsFresh` fails: a move exchanges
two heights where UIKit shifts the rows between (`UITableView+FDIndexPathHeightCache.m:279`),
sections are removed in ascending order without correcting the later indexes
(`:192`), and index paths are inserted in the order they are given (`:229`).

**Bounds.**  Three rows over two sections have a row before, at and after an
edit, in its section and in another; two cached heights have one of each
orientation, or two of one, to be mixed up; updates name up to two index paths.
`Loads` limits what `reloadData` shows: it empties the caches anyway, so what
follows differs from a table built by insertions only in how it was reached.
The model has no fairness and no liveness property: nothing here must happen.

**Left out.**  `beginUpdates`/`endUpdates` batches; how auto layout computes a
height; `FDKeyedHeightCache`, which no code of the app uses.

**Proofs**, for any contents, any number of sections and rows, and updates of any
number of index paths.

| theorem | of `HeightCacheProofs` states | assumes |
|---|---|---|
| `TypeCorrect` | `TypeOK` | |
| `SameShapes` | `SameShape`: both caches have the same sections and rows | |
| `CacheCorrect` | `CacheInv` | `Updates = {}`, no device is flat |
| `CacheFresh` | `CacheIsFresh` | the same |
| `HeightsKeptByMoves` | `HeightsSurvive` | |

The two assumptions are those under which the code keeps its promise: without the
first one see *far moves* above, without the second `HeightCache_flat`.  Where a
theorem assumes nothing, it holds for the other updates and for a flat device too.

`CacheIsFresh` is not inductive, as an update or a rotation uncovers heights that
were not asked for; `CacheInv`, of all heights of both caches, is.  `CacheInv` is
stated by index paths, as a reader of the code would; the proof is about
`HeightAt`, the height at any position, which is `NoHeight` where a cache has no
row, so that building sections and rows changes nothing (`BuildCacheIs`,
`SameFresh`).  `ShapeInv` (the type, and `SameShape`) holds without assumptions;
`FreshInv` (`Fresh` of both caches, none before invalidation is enabled, the
orientation of the device is that of the interface) holds together with it, and
the two give `CacheInv` (`FreshInvGives`).

The library edits its cache one index path after another, UIKit changes the table at once.
That both come to the same is what `HeightCacheLemmas` shows, update by update
(`InsertRowsFresh`, `DeleteRowsFresh`, `MoveRowFresh`, ...).  A fold is replaced by the
function of its intermediate results (`FoldExists`, `FoldRuns`: the fold of the community
modules is the last of them), and a fact that one step keeps then holds at the end by
`Climb`, which needs no induction theorem: the numbers at which it fails would have a
least one.  For insertions that fact is `Spread`: after the first k index paths the cache
is the old one with a blank at each of them, which needs them in ascending order
(`AscendingRises`, `Ordered`).  `HeightsSurvive` follows from an injection of the
positions for each of the three edits (`HeightsKept`).

## 5. LottieHUD: `LottieHUD`, `LottieHUDProofs`

**State.**  The interaction flag of the key window, which all HUDs share; per
HUD its loop mode, what its animation plays, whether its mask is in the window,
and whether that is opaque (`alpha`, the value UIKit holds as soon as an animation
to it starts); the blocks on the main queue; per HUD the fades under way and the
removed animations whose completion is still to be called; the timers of the page.
`Page` is the HUD of `LottieViewController`, `Locals` are those `deleteAction`
creates.

**Actions.**  `AddAction`, `DeleteAction`, `UpdateAction` are the buttons; a
touch needs an enabled window, and one event may touch several buttons, so two
actions can run before the first block.  `CreateBlock` and `ClearBlock` are the
blocks of `createHUD` and `clearHUD`, with the early return when no window is
key; `FadeOut` makes the mask transparent as the fade starts (`LottieHUD.swift:162`);
`FadeEnds` is the completion of the fade, `AnimationEnds` and
`InterruptedCompletion` are the completion block given to `play`, which Lottie
also calls, with `false`, for an animation that is removed
(`AnimationContext.swift`), by `stop` or by playing again.  It is not called when
the animation was not displayed yet or was paused by its engine: `Interrupt`
leaves both open.  `TimerFires` is `dismissHUD`.  `queryAction` is empty.
Durations are not modelled: anything pending may end at any time.

| run | instance | shows |
|---|---|---|
| `LottieHUD_page` | the HUD of the page, up to 3 blocks and timers pending at a touch | whenever the HUD is shown, something is pending that clears it; no touch passes the mask; the window always comes back |
| `LottieHUD_locals` | two HUDs of `deleteAction` besides, moments without a key window | a page is left disabled under transparent masks only by a fade that ends without a key window; no animation plays without a mask |

**Bounds.**  `MaxPending` limits what is pending when a touch is taken, not how
often the HUD is shown: behaviours are infinite.  Three blocks let a stale clear,
a show and the clear of its timer be queued together.

**Fairness.**  The main queue is served; animations played once, fades, removed
animations and timers end.  Nobody has to touch anything, and nothing is assumed
about the key window.

**A fade that ends without a key window** returns early (`LottieHUD.swift:164`)
and leaves its mask in the window, transparent since `:162`, and the window
disabled: the page looks usable and is not, until something else clears a HUD.
The code does this, so `DisabledIsSeen` is no invariant of `LottieHUD_locals`.
`SeenUntilKeyless` says that no other step leads there, whatever shows, clears and
fades are interleaved.  "Seen" is a mask whose `alpha` is 1 or that fades with its
completion to come; that `deleteAction` lets its mask appear two seconds late over
a window disabled at once is a duration, and left out.

**The HUDs of `deleteAction`** are never cleared: they loop, have no timer, and
nobody keeps them (`LottieViewController.swift:94`; its comment at `:92-93` calls
it the better way).  So `PageComesBack` is stated without `Locals`.

**Proved**, for any HUDs and any `MaxPending`, from `HUDAssumption`:
`TypeCorrect`; `RescueTheorem` (`RescueInv`); `SeenTheorem` (`SeenUntilKeyless`);
`KeyedIsSeen` (with `~KeyMayChange`, `DisabledIsSeen` always holds);
`TouchTheorem` (`MaskedIsDisabled`); `AnimationTheorem` (`AnimationIsMasked`).
The heart of `RescueInv` is `PageIsRescued`:
the HUD of the page is never shown without a clear, a fade, a callback, an
animation that ends, or a timer.  It needs `QueuedShowIsTimed`, since the mode is
set when a button is touched and the animation starts in a later block: a show
still queued in loop mode has its timer to come, or the block of its timer behind
it in the queue.  Model-checked only: `PageComesBack` (liveness).

With `KeyMayChange` the early return of a fade leaves nothing pending, so
`PageIsRescued` is stated for `~KeyMayChange`.

## 6. Handles: `Conditional`, `SharedLock`, `HandleCounter`, `HandlePool`

Paths in this section are under `Pods/WCDB.swift/src/common/`.

**The lock** (`SharedLock`, of `base/Lock.cpp`).  `m_threadedReaders`, `m_writers`,
`m_locking` and the queue `m_pendingWriters` are the code's; `m_readers` is the
sum of the first, and `m_pendingReaders` a set in place of a count.  `asleep` are
the threads inside a wait.  A step is one critical section of the lock's mutex,
up to a wait or the end: `lockShared`, `unlockShared`, `lock`, `unlock`, and
`ReaderWoken` and `WriterWoken` for a turn of the waiting loops.  A thread may
wake without a signal (`SpuriousWakeup`).

**The counter** (`HandleCounter`, of `core/HandleCounter.cpp`).  Two counts and two
queues; `place` says where in `tryIncreaseHandleCount` a thread is.  The two inner
loops and the outer one are entered at different points, hence `FromNormals` and
`FromWriters`.  Here threads wake by a signal only: the waits do not test whose
turn it is and pop the front, so a wakeup without a signal would take another
thread off the queue.

**The pool** (`HandlePool`, of `core/HandlePool.cpp` and `core/InnerDatabase.cpp`)
extends both.  `pc` is where a thread is in a call, `m_threadedHandles` its handle,
type, hint and reference count, `owner` whether it is inside close's callback or a
blockade.

| call | actions |
|---|---|
| `getHandle` | `GetHandle` or `GetSame`; `Initialized`, or `NotInitialized`, `LockToInitialize`, `InitializeNow`, `InitializeAgain`; `FlowOut` or `Exceed`; `TakeFree` and `Reuse`, or `TakeNone` and `Generate`; `SetupFails`, `LeaveFailed` |
| giving a handle back | `Release`; `FlowBack`, `Unshare`, `Uncount` |
| `close` | `Close`, `Suspend`, `LockToDrain`, `Drain`, `Drained` |
| `blockade`, `unblockade` | `Blockade`, `Blockaded`, `Unblockade` |
| `purge` | `Purge`, `PurgeNow` |

A section under `m_memory` waits for nothing and is part of one step.

| run | instance | shows |
|---|---|---|
| `HandlePool` | three threads, two handles, one for writing, a type that waits and one that does not, four calls | a handle has one user and stays open while it has one (`HandleIsOwn`), none is lost (`NoLeak`), the limits hold (`HandlesBounded`), close and blockade are alone (`OwnerIsAlone`), a thread's locks and count follow from where it is (`FollowInv`), the lock and the counter keep their invariants (`PartsInv`), and in the end all is given back (`CallsEnd`) |
| `HandleCounter_starved` | four threads, two handles, one for writing, no end of calls | **violated**: a thread waits for ever while handles are given back and are free again and again |

**Bounds.**  Three threads: two with a handle and one that waits, or a reader, a
writer and one that queues behind.  `MaxCalls` is four calls or wakeups without a
signal, over all threads: one to fill each handle and two to get in the way; it
also ends the calls, so that `CallsEnd` is not refuted by the starvation that the
other run shows.  `MaxDepth` 2 is the deepest nesting there is, the owner of a
blockade that initializes the database.  Callers may stop, so `CHECK_DEADLOCK` is
off; that nobody is stuck is `CallsEnd`.

**Fairness.**  A thread that was woken runs, and a thread goes on inside a call;
callbacks of close end, blockades are lifted and handles are given back
(`GoOn`).  Nobody has to call anything.

**Proved**, from the assumptions on the constants only, for any finite set of
threads, any limits, types of handles and number of calls:

* `LockInvariant` (`LockAndCounterProofs`): `LockInv`, that is `Exclusion`,
  `PendingInv` and `NoLostWakeup`.  That no wakeup is lost is not inductive alone:
  the thread to be notified is at the front of the queue, is there once, and has
  no lock itself, which is `PendingInv`, and that needs `Exclusion`.
* `CounterInvariant` (there): the limits, `CountInv`, `QueueInv`,
  `NobodyStranded`.  A woken thread pops the front of its queue; that this is the
  thread itself is `QueueInv`, and everything else rests on it.
* `HandlePoolProofs`: `PoolTypeCorrect`, `PartsCorrect`, `CallsKeepOrder`,
  `HandlesOwned`, `HandlesKept`, `HandlesLimited`, `OwnerAlone`: every invariant of
  the run.  A step of the pool is a step of the lock, or leaves it, and one of the
  counter, or leaves it (`LockSteps`, `CounterSteps`), so their invariants hold.
  `FollowInv` then ties the locks, the count and the handle of each thread to its
  place in the code; a step of one thread leaves those of the others
  (`LockOfOthers`, `PlaceOfOthers`, `PoolOfOthers`).  The rest follows: close finds
  no user because the lock excludes and every user has the shared lock; the limit
  holds after the purge of `flowOut` because the handles left have users, which
  are counted.  `PInv` is the conjunction.

Model-checked only: `CallsEnd` and `WaitsForHandles`, which are liveness.

**Left out.**  In-memory databases; handles kept for a transaction, and threads
with handles of two categories; `m_closing` and what suspending a task does to
SQLite; the branch of `Conditional` for systems other than Apple's, which notifies
everybody; a drain callback that keeps a handle beyond its end, after which
`unlock` refuses.

## 7. Write-ahead log: `Wal`, `WalStore`, `WalInv`

`Pods/WCDBOptimizedSQLCipher/src/wal.c`, as WCDB compiles it, with
`SQLITE_WCDB_IMPROVED_CHECKPOINT`: a PASSIVE checkpoint that backfilled everything
restarts the log itself, a writer keeps the header it finds in the file, and
recovery takes the backfilled part over from the shm file of a dead process.

**State.**  `wal` and `db` are the files, `shm` the wal-index (header,
`nBackfill`, read marks), `writeLock` and `ckptLock` two of the locks; the locks of
the read marks follow from `conn`, which has the `Wal` object of each connection
and where in a call it is.  `cache` is its page cache.  A checksum is ideal: the
sequence it was computed from.

**Actions.**  A step is one write to a file or to shared memory, or the taking of a
lock with the reads that it protects.  Readers: `OpenShm`, `Recover`, `ReadHdr`,
`LockZero`, `ChooseMark`, `LockMark`, `CheckMark`, `EndRead`.  Writers:
`BeginWrite`, `WalFrames` (a commit or a spill), `RestartLog`, `RestartInfo`,
`WriteHeader` or `KeepHeader`, `WriteFrame`, `RewriteChecksum`, `Publish`,
`Rollback`.  Checkpoints: the `Ckpt` actions, in the order of `walCheckpoint`.
`Kill` ends the process between any two steps.
`OpenShm` reads the backfill number of the file (`wal.c:2352`) and maps it in one
step: what another connection does between these two is left out, what it does
before the number is used in `Recover` is not.

`WalStore` is what a log promises: one database that moves from commit to commit,
transactions that each read one committed state and commit only if it is the
last, and crashes that keep what was committed.  `ImplementsWalStore` maps the
state of `Wal` to it: `Store` is the last commit, `View` what a connection reads.

| run | instance | shows |
|---|---|---|
| `Wal_readers` | a writer, a reader and a checkpointer, two pages, two read marks, two transactions | the log implements the store, while it is backfilled, restarted and written under a reader |
| `Wal_crash` | a writer and a checkpointer that also reads, one read mark, two transactions, two rare events | wherever the process is killed, recovery finds the last commit (`Recoverable`); a page cache that is kept is the right one (`CacheCoherent`); the invariant that the proofs rest on holds (`IndInv`, of `WalInv`) |
| `Wal_kept_header` | a writer and a checkpointer, one rare event | **violated**: a commit is written under a header it does not continue, and the next recovery discards it |

**Bounds.**  Two pages are the least that a commit can tear; two transactions are
one that is checkpointed or rolled back and one that follows it into the restarted
log.  `MaxRare` counts spills, rollbacks, failed and TRUNCATE checkpoints and
deaths together: two are a rollback or a checkpoint that failed, and the death
that follows.  After a header was kept wrongly nothing is promised: the passing
runs leave such states out (`CONSTRAINT Intact`), and `Wal_kept_header` is about
them.  A connection tries to read as often as it likes, so no fairness is stated
and no liveness checked.

**Left out.**  The number of pages, the hash tables of the index, the second copy
of its header, `iChange`; savepoints; FULL and RESTART checkpoints, exclusive and
read-only modes, `walLimitSize`; a connection that closes while others go on;
several processes; loss of power.

**Proved** (`WalProofs`, `WalDataProofs`), for any connections and their roles, pages,
read marks, transactions and rare events, from `WalConstants`.  The inductive
invariant is `WalInv!IndInv`, in four parts; the first three (`LogInv`) also hold after
a foreign header was kept, the fourth until then.

* `TypeInv`: the types.
* `LockInv`: which locks a connection holds where in its call.  It makes the steps of
  writers, of the checkpoint that restarts the log and of recovery exclude each other.
* `PosInv`: how far the log reaches (`ShapeInv`); that a reader's mark is at or before
  its header, and its `minFrame` not beyond what is backfilled (`ReaderInv`); that a
  writer's header is the shared one, or ahead of it by its own frames (`WriterInv`);
  that what a checkpoint copies is committed and not beyond the header of any reader
  whose mark it has passed (`CkptInv`).  That a mark stands still while it is locked is
  why a reader keeps its frames; that a header names a salt nobody else has is why a
  header from before a restart is noticed.
* `DataInv`: what the files hold.  While the index is live, recovery would stop at the
  last commit, or at the commit frame just written, and the database file has every
  page whose last frame counts as backfilled; all of them while a restarted log has
  its old file.  When the index is not live, the same holds for each backfill that
  recovery might take over.  Each transaction reads what its page cache holds, and a
  writer reads the last commit.

`CacheCoherent` alone is not inductive: that a cache may be kept depends on headers
with equal salts and frame numbers being headers of one commit, which is about the
files.  Nor is `Recoverable`: a checkpoint may copy a page only because the frames up
to it are what recovery will find.

| theorem | states |
|---|---|
| `LogTheorem` | `LogInv`, that is `TypeInv`, `LockInv` and `PosInv` |
| `WalTypeTheorem` | `TypeOK` |
| `IndTheorem` | `IndInv` |
| `CacheTheorem` | `CacheCoherent` |
| `RecoverableTheorem` | `Recoverable` |
| `StoreTheorem` | `ImplementsWalStore`, the refinement of `WalStore` |

The proofs first turn each action into its effect (`ReadHdrEffect`, ...), as the code's
records have many fields; then each part of the invariant has a lemma per action.
`Img`, `EndsAt`, `BackfilledBy` are the images, the recovery and the backfill of a log
given as parameters, so that facts about them are stated once for the state before and
after a step.  For the refinement each action is shown to be one of `Unseen`, `Begins`,
`Ends`, `Prepares`, `Commits` or `Crashes` (`StoreSteps`), the steps of the store
(`StoreMaps`).  A largest frame exists because the naturals are well founded (`WFMin`).

Every property of the two passing runs is proved.  `CommitsSurvive`, which is
`Recoverable` without its proviso, is false: see the next section.

## 8. Findings

1. A failed image of a batch counts as uploaded (`AliyunOSSTool.m:105`, `:158`
   against `AliyunOSSTool.h:40-41`; run `OSSUpload_put_failure`).
2. The cache is chosen by the orientation of the device, not of the interface
   (`UITableView+FDIndexPathHeightCache.m:45`; run `HeightCache_flat`).
3. After the first transaction of a log was rolled back, the next commit may be
   written under a WAL header with other salts: readers find it, recovery after a
   crash does not (`wal.c:3591` against `wal.c:20-21`, `:59-70`; run
   `Wal_kept_header`).
4. A thread may wait for a handle for ever although others are recycled
   (`HandleCounter.cpp:84` against `HandleCounter.hpp:43-44`; run
   `HandleCounter_starved`).

Sections 3 to 5 name three more observations, without a run of their own.

## 9. Not modelled

* `AliyunUploadVideoTool`: when its callbacks run is up to the VOD SDK, a binary.
* `MBProgressHUD+TL`, `HUDExpand`: what is in doubt is which spinner goes; no
  other state depends on it.
* The news list: its only update of a table is `reloadData`, which `HeightCache`
  has; whether refreshes overlap is up to MJRefresh.
* `DBmanager`, `WCDBViewController`: calls of WCDB on the main thread whose errors
  are dropped; sections 6 and 7 have what they rest on.
* Image pickers, the button throttle: an array, and a flag with a delay.
* `FDKeyedHeightCache` and template cells: no code of the app uses the first, the
  second is layout.
* Start-up code, constants, layout and demo pages keep no state over time.
* The rest of `Pods/`: the pager, B-tree, virtual machine, parser and extensions of
  SQLite, the other parts of WCDB, and the libraries of the demo pages.

Out of the prover's reach, and left to TLC: liveness (`BatchAnswered`,
`PageComesBack`, `CallsEnd`, and that `WaitsForHandles` fails).  Every safety and
action property of a passing run is proved.
