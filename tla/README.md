# Verification of FileCamera

FileCamera is an Android application with two halves that share one USB port:
it shows and records the picture of a USB video class (UVC) camera, and it
browses USB mass-storage devices. This directory models the parts of it that
decide whether it works when several things happen at once or when something
fails. Paths below are relative to the repository.

## 1. The system

| part | where | state it keeps | operations | interacts with |
|---|---|---|---|---|
| Preview object | `jni/UVCCamera/UVCPreview.cpp`, `objectarray.h` | running/capturing flags, two queues, frame pool, windows, callback object, negotiated mode | start, stop, setPreviewSize, setPreviewDisplay, setFrameCallback, setCaptureDisplay | starts a libuvc stream; called by JNI; calls Java's `IFrameCallback` |
| libuvc streaming | `jni/libuvc/src/stream.c` | transfers, the double buffer, sequence numbers, `running` | open, start, stop, close, payload and completion callbacks, user callback thread, polling | libusb completes transfers on the event thread |
| libuvc device, context | `device.c`, `init.c`, `diag.c` | open handles, the event thread, `kill_handler_thread`, parsed descriptors | open, close, init, exit | libusb |
| libuvc controls, frames | `ctrl.c`, `frame.c`, `frame-mjpeg.c` | none | one transfer per control; conversions | called by the camera object and the preview |
| Camera object and JNI | `jni/UVCCamera/UVCCamera.cpp`, `serenegiant_usb_UVCCamera.cpp`, status and button callbacks | device handle, fd, parameter ranges | connect, release, ~60 controls | owns one preview object |
| Java camera and monitor | `java/com/serenegiant/usb` | connected control blocks, counts, permission receiver | register, requestPermission, attach, detach, processConnect; open, close, startPreview, ... | broadcasts of Android, the native object |
| FAT32 allocation | `libaums/.../fat32/FAT.java`, `ClusterChain.java`, `FsInfoStructure.java` | the table on disk, cached chains, free hints | alloc, free, getChain, setClusters, setLength, read, write | block device |
| FAT32 directories and files | `FatDirectory.java`, `FatFile.java`, entries and names | entry lists, name maps, cached chain of each handle | create, move, rename, delete, write, flush | cluster chains |
| Block devices | `Partition.java`, `ScsiBlockDevice.java`, `UsbMassStorageDevice.java` | block size, tags | read, write, init | bulk endpoints |
| Application models | `app/.../Models/UsbCameraManager.java`, `UsbFileManager.java` | camera, surface, active flag; storage, current directory | callbacks of the monitor, of the surface and of broadcasts | everything above |
| User interface | `app/.../Views`, `MainActivity` | fragments | navigation | models, through presenters |

Third-party code (libusb, libjpeg-turbo, rapidjson) is not modelled; what the
project expects of it is part of the models of its callers.

What makes the system hard:

* The camera path runs on at least five threads: the caller, the libusb event
  thread, the libuvc callback thread, the preview thread and the capture
  thread. Frames and flags cross between them under four mutexes, and some
  flags are read and written without any.
* A stop may meet every one of those threads at any point of its work, and a
  device may be unplugged while it does.
* On the storage side nothing is concurrent, but one logical operation is many
  writes of the disk, and several Java handles cache the same on-disk state.
* Permission and attach events are queued and arrive after the device is gone.

What makes each part correct is listed with its module in sections 3 to 10, and
what could go wrong in each of them, line by line, under "hazards" in `PROJECT.json`.

## 2. The modules

| module | what it models | state |
|---|---|---|
| `UVCPreview` | the preview object with its client, USB, preview and capture threads | checked, five theorems |
| `UVCStream` | one libuvc stream: transfers, event thread, callback thread, polling, start, stop, close | checked, five theorems |
| `LatestFrame` | abstract specification of a stream: a mailbox that keeps the newest frame | `UVCStream` implements it, proved |
| `UVCDevice` | handles of one libuvc context: open, close, exit, the event thread, `kill_handler_thread`, status callbacks | checked, two theorems |
| `FAT` | the allocation table, transfer by transfer, with the calls that create, open, resize and delete files | checked, five theorems |
| `ClusterStore` | abstract specification of the table: files with disjoint chains | `FAT` implements it, proved |
| `FatDirectory` | directories seen through several handles: list, create, rename, move, flush, delete, with the order of their writes, failing transfers and mounting again | checked, five theorems |
| `ScsiBlockDevice` | one SCSI command over the bulk-only transport, with short, late and failed transfers | checked and proved under `Partition` |
| `Partition` | reads and writes at any byte of a partition, on `ScsiBlockDevice` | checked, three theorems |
| `USBMonitor` | attach, detach and permission events, posted runnables, control blocks | checked and proved under `UsbCameraManager` |
| `UsbCameraManager` | the application's camera on `USBMonitor`: connects, the executor's tasks, the surface | checked, six theorems |
| `UsbFileManager` | the application's storage device: broadcasts, permission, set-up | checked, three theorems |

`UVCPreview_proofs`, `UVCStream_proofs`, `UVCDevice_proofs`, `FAT_proofs`,
`FatDirectory_proofs`, `Partition_proofs`, `UsbCameraManager_proofs` and
`UsbFileManager_proofs` hold the proofs. `MC`
modules only add the symmetry set for TLC; a `.cfg` gives the constants their
values.

Which module composes which: `UsbCameraManager` extends `USBMonitor` and
`Partition` extends `ScsiBlockDevice`; in both the upper part calls the lower one
within its own steps, as the code does. `UVCPreview` and `UVCStream` are not put
together. What the first takes from libuvc is that callbacks come one at a time
and that none comes once `uvc_stop_streaming` has returned; the second one's stop
joins the callback thread, and `StopReturns` and `CloseQuiesces` are about that.
In the same way `FatDirectory` takes from `FAT` that clusters are given to one
item at a time (`StoreSpec`), and `UsbCameraManager` takes from the camera that
its calls return (`SetterReturns`, `CloseReturns`).

Every invariant that a run checks is also proved. Modules that are proved about
use no recursive operator.

## 3. UVCPreview

**Correspondence.** Variables carry the names of the fields of the class. The
variables `client`, `usb`, `pv` and `cp[c]` are program counters: of the thread
that calls through JNI, of libuvc's callback thread inside
`uvc_preview_frame_callback`, of `preview_thread_func`, and of each
`capture_thread_func` created (a restart may find the previous one still alive,
so there is one for each start). `hold` gives the frame in each local variable
that can hold one. `leaked` is the set of frames nothing refers to.

A critical section of one mutex is one action. Between two actions a thread holds
a lock only after it has tested its condition and before it sleeps (`enterWait`,
`callbackWait`, `displayWait`), because `stopPreview` signals without the lock
and can come exactly there. Code outside every lock is split at each access
to a field another thread uses: `stopPreview` is nine steps, the start of the
preview thread five, a turn of `do_capture`'s loop four, the end of
`do_capture_surface` four.

Pixel data is abstracted away: a conversion succeeds or fails. A frame is its
identity; what it contains is told apart only as far as the format matters
(`frameMode`, `ctrl`). `mPixelFormat` is not initialised by the constructor, so
the first value is a choice. Deleting the object, calling a null callback and
releasing a window once too often end the behaviour (`Alive`): what comes then is
undefined.

**What makes it correct.**

| property | claim |
|---|---|
| `FrameOwnership` | a frame has one owner among queue, pool and all local variables, in every interleaving |
| `NoSleepOnFrame` | no consumer sleeps while its frame is there |
| `StoppedQuiet` | when `stopPreview` has returned the preview thread has ended, the stream is off, the queues are empty |
| `LeakBounded` | a stop loses at most one frame |
| `QueueDrained` | a full queue, which makes the producer drop frames, is drained or the preview stops |
| `SetterReturns` | the setters that pause the capture thread return |
| `CaptureIsYuyv`, `CallbackObjectStable`, `StopReturns` | what comments in the code say; the code does not keep them (section 12) |

**Fairness.** `LiveSpec` assumes strong fairness for each thread: a thread that
can run again and again does. The code justifies it as far as any pthread program
can: the threads have equal priority and the mutexes are held for a bounded
time. Weak fairness is not enough, because a thread that wants a mutex is enabled
only while the other one does not hold it. The camera goes on delivering frames
(separate conjuncts for the steps of the callback thread); the client
finishes the call it is in and need not make another.

## 4. UVCStream

**Correspondence.** `xfer[t]` says what libusb does with `transfers[t]`; the
event thread `ev` handles one completion at a time (`cur`, `payload`), split at
each place where `_uvc_stream_callback` leaves or enters `cb_mutex` or reads
`running` without it, and so is the poller: `Poll` tests `running` before
`PollLocked` enters the mutex. `hold_*` and `holdbuf` are what listeners see, `outbuf`
what is being collected. A buffer is the set of camera frames whose bytes are in
it, which is all that "no mixed picture" depends on. Sequence numbers are
counters; the code's are 32 bits wide and a camera with 30 frames a second takes
four years to wrap one, so the wrap is left out. `own` is the thread that starts
and stops the stream, `uc` is `_uvc_user_caller`, `pl` a thread that polls.

The environment: a transfer in flight completes with data, an error, as
cancelled or because the camera is gone; the camera numbers its frames, so the
frame ID bit is the parity; up to `MaxLossRun` payloads are lost between two that
arrive; a wait may end without a signal or by its timeout. Any submission of a
transfer may be refused (`SubmitMayFail`), and is if the camera is gone.

Once the handle has been freed nothing that would use it takes a step. That is
no licence to misbehave: `CloseQuiesces` says there is nothing left that would.

**What makes it correct.**

| property | claim |
|---|---|
| `LatestSpec` | no frame is delivered twice or after a newer one; the counters start again at an open |
| `NoMissedNews` | nobody sleeps on `cb_cond` after what it waits for has happened |
| `FreshFrames` | the callback gets the frame that was looked at under the lock; the code does not keep it (section 12) |
| `WholeFrames` | no picture mixes two frames of the camera although payloads get lost |
| `CloseQuiesces` | after the handle is freed nothing points to it |
| `StopReturns` | `uvc_stream_stop` ends |

**Fairness.** Weak, for the stopping owner, the completions, the event thread
and the callback thread. Each of these stays enabled until it runs. Completion is
fair because each transfer is submitted with a timeout of five seconds, the
callback thread because user callbacks return. Nothing is assumed of the poller
or the camera.

## 5. FAT

**Correspondence.** `getChain`, `alloc` and `free` work on the table through a
buffer of two blocks. An action is one transfer with the code up to the next
one: `Follow` is one turn of `getChain`'s loop, `Search` one of `alloc`'s. The
writing halves of `alloc` and `free` are the same loop over a list of entries and
new values, which is `todo`: `Links` gives `alloc`'s and `Cuts` gives `free`'s,
`WriteBack` and `Put` change the window and an entry, `Flush` writes the last
window and changes the info structure in memory, `Finish` writes it and returns.
A read that finds its window in the buffer is no transfer in the code and still
one action here; the transfer that may then fail does no harm, since it only
allows more failures.

`table` is the table on the device, `start` the start cluster in each file's
directory entry, `chain` the array cached by the file's handle (`Closed` when
there is none). `kept` and `failed` are history: the chain each file was left
with, and the files a call has failed on after it had begun to write. Values are
small numbers: 0 is free, `FAT32_EOF_CLUSTER` any value from there on. What the code
does to the 32 bits of an entry (it masks the top four, and takes all values from
0x0FFFFFF8 for the end) tells entries apart no further than these numbers do. `Skew` makes
the windows start off the table's start, as the offset of a real table does.

`CreateFile`, `OpenFile`, `Grow`, `Shrink`, `Delete` are the calls of `FatFile` and
`FatDirectory` that reach the table. The directory's own writes are part of
the step and do not fail here; the module `FatDirectory` takes them apart.
`OtherHost` stands for the volume being used elsewhere between two sessions.
A file has one handle at a time, and the client leaves a file alone once a
writing call on it has thrown. If it does not, a chain that runs into a free
cluster may come to share it with another file.

**What makes it correct.** `StoreSpec`: the table implements `ClusterStore`, so
that files are disjoint, calls touch only their own file, and an exception costs
no other file anything. `OnDisk`: between calls the disk holds exactly the chains.
`FreeCountExact`: the count of free clusters stays exact. `ChainsKept`: a
handle goes by the chain the file was given (violated, section 12).

Deadlock is not checked: once writing calls have failed on every file the client
makes no further call.

## 6. FatDirectory

**Correspondence.** An item is a file or a folder and stands for its start
cluster. `disk` holds the entries of each directory and `used` the items whose
clusters are allocated. A handle is a `FatDirectory` object: `inited`, `entries`
and `lfnMap` are its fields, and as each search and list creates new objects,
several handles may stand for one directory. A call changes the copies first
and then writes each directory it changed; `call.writes` are the writes to come,
and each, like the freeing of clusters, is a step of its own. `Fail` ends a call
at any of them, with the write carried out or not. `Remount` is the unplugged and
mounted device, with a new root object. `Descend`, `DeleteChild` and `Ascend` are
the recursion of `delete`. `Flush` is `flush` and `close` of a file, which write
the list of its parent.

A call on an item goes through a Java object that remembers the item's entry and
the directory object it was listed by. `Has` says which calls the client can make:
it has an object as long as the list has the entry, and it may keep one after
another object has moved the item away. `strays` are these old objects. The code
takes calls on them: `removeEntry` finds nothing to remove (`Held`), the rest goes
on.

A name stands for all its spellings in upper and lower case, as in `lfnMap`. A
directory fits into one cluster, the volume has a label (so that the root is
never written empty), and short names are left out.

**History.** Some calls break a promise, and the code does not refuse them. Two
of these mistakes mix up *names* (`clashed`), and are against what `UsbFile` says (section 12):

* a rename to a name that is taken (269 does not look): two entries of one name,
  of which one cannot be found;
* a create or move through a handle that has not been listed (344, 366, 585 and
  626 look into the map before it has been read): the same.

Three more spoil *items* (`spoiled`), as an exception spoils the item of its call:

* a write through a handle whose list is out of date: entries another handle has
  made are lost, and those it has removed come back, pointing to free clusters;
* a move of a folder into itself or under it, after which it can no longer be
  reached, or of an item within its directory;
* a call through an old object of an item that was moved. `setName` adds the entry to the
  list of the old directory, so that the item is in two; `delete` writes that list
  without a change and frees the clusters the new directory's entry points to;
  both take the name out of the map, whoever has it by now.

The properties say that all this hits the item of the call, what is under it, and
what a stale list has wrong; every other item and name keeps its promises. From a
spoiled item on nothing is followed up: the client makes no call on it, nor on a
directory that is spoiled or deleted (`Usable`), nor through an old object whose
directory's handle is closed, and a new item gets none of a spoiled item's
clusters. `MaxSpoiled` bounds how many items and names may be hit when another call
begins, `MaxStrays` how many old objects the client keeps.

Nothing in the code stops calls on a folder that was deleted: a list that is out of date still
has the folder, `search` makes a handle of it from there, and what is created in
it cannot be reached from the root. An object that another one has as its `parent`, or that a recursive
delete works with, stays alive (`Referred`); the others a client may drop.

| property | claim |
|---|---|
| `OnePlace` | between calls each unspoiled item is where its last call left it, whichever up to date handle and object was used; never in two directories, even in the middle of a move |
| `NoDangling` | what a directory on the disk points to is allocated, but for spoiled items |
| `NamesUnique` | no two entries of a directory, spoiled or not, have one name but a name that was mixed up |
| `Rooted` | whatever a call has not deleted can be reached |
| `CreateRefusesTaken`, `ItemNamesDiffer` | what `UsbFile` promises about names; the code does not keep it (section 12) |

A move that fails between its two writes loses the item: the source is written
first (595, 636). `OnePlace` shows that this is the price of never having it in
two directories; the item is then in `spoiled`.

## 7. Partition and ScsiBlockDevice

**Correspondence.** `transferCommand` is a command, the data in one or more
transfers and a status, each a step. A transfer may be cut short, and up to
`MaxLate` of them, of any kind, fail or time out: the command, which is only logged (135),
a piece of data in either direction, which throws, the status, which is only
logged too. What is failed, missing or garbled in a status is ignored
(182, 186): `csw` remembers whether it was passed. All commands carry tag 0, so an
answer that is late cannot be told from the one to the next command.

The device is external. `answers` is what it still has to send and `taking` the
write whose data it waits for, with what has come of it. If the host gives up in
between, both stay as they are: the next command is then taken for data
(`CommandByte`), and so may be the data of a later call.
`Partition.read` and `write` are at most three commands: a read of the first
block, for a write its patched write back (157), and the rest.

A byte is its position and the version that wrote it, which shows every byte
that ends up in the wrong place.

| property | claim |
|---|---|
| `CallOutcome` | a call that returns has moved each byte unless it is doubtful; it throws only if it is, if one of its transfers has failed, or if it is a read that ends inside its first block (127) |
| `OnlyOwnBytes` | a byte changes only by a write the device has taken, in the blocks of the call that issued it, in whichever call the data comes: never before the partition or in a block of no write; unless doubtful that call is the one in progress, and what changes are its own bytes and, to zeros, those behind them up to the end of the block |
| `BytesBehindKept` | what the interface's comment says; the code does not keep it (section 12) |

The history variable `doubtful` says that the call began with a device that had
something left to send or waited for data, or that a status in it was failed or
missing. `failed` says that a transfer of the call has failed, and `writer` is the
call whose data the device takes. Deadlock is checked: a call is always possible.

## 8. USBMonitor and UsbCameraManager

**Correspondence.** All of `USBMonitor` runs on the main thread, one message at a
time. `intents` are broadcasts of Android on their way, `queue` the messages posted
to the main thread; `place` and `permitted` are Android's and run ahead of both. A
device that comes back has another name, hence another key in `mCtrlBlocks`.
`blocks` are all control blocks ever made, as a reference to one may be kept
after it was closed. `CheckDevices` is the poll with its comparison of counts,
`ReceiveAnswer` and `ReceiveDetached` the receiver, `Notify` the posted runnables,
`RunConnect` `processConnect`'s with the call of `onConnect`.

`UsbCameraManager` adds the camera in use, the executor's queue (`tasks`) and the
steps of its thread (`taskAt`), and the callbacks of the surface. `surfaceDestroyed`
and `surfaceChanged` are two steps each, since they change fields outside of `mSync`.
The camera is taken by its results: `orphans` are open cameras that nothing refers
to any more. A call on null ends the process; `crashed` says whose. That can be
`surfaceChanged`'s, or `destoryUVCCamera`'s (72) if there is no camera: nobody in the
repository calls it and nothing says when one may, so nothing is claimed of it.

Assumed: `unregister` drops the broadcasts on their way, as Android does, and those
that have reached the queue are handled by nobody (`Unheard`);
messages are delivered in order; `openDevice` returns null for a device that has
gone or is not permitted; `UsbControlBlock.close` is only called by the monitor.

| property | claim |
|---|---|
| `AttachReported` | whatever the order of attach, detach and poll, a device that nobody was told of will be reported |
| `GoneClosed` | a connection to a device that has gone is open only until the pending detach is handled |
| `OrphansBounded` | an open camera is lost only where a second connect comes before the task of the first |
| `NoDeadSurface` | the camera in use draws on a surface that is gone only if the task ran between the halves of `surfaceDestroyed` (a camera that is lost may go on drawing on its own) |
| `CrashCause` | `surfaceChanged` fails on a null camera only after a camera was given up in the executor |
| `ConnectOpened` | what the listener's comment says; the code does not keep it (section 12) |

The names in `OrphansBounded`, `NoDeadSurface` and `CrashCause` are the defects that
remain: the properties say that there is no other way to them.

## 9. UVCDevice

**Correspondence.** `at` is where the one caller is in `uvc_open`, `uvc_close` or
`uvc_exit`: `Connect` goes up to the point where the device is not yet in the list
(`append`) or where its status callback is not yet set (`register`);
`uvc_set_status_callback` stores the function (`Register`) and then the object
(`RegisterObject`);
`Release` begins `UVCCamera::release`, which deletes the status callback object, and `Kill`, `CloseUsb`,
`JoinHandler` and `FreeHandle` are the parts of `uvc_close`. `handler` is the
event thread and `serving` the handle whose callback it runs. libusb is taken by its
contract: callbacks run under the events lock, `libusb_close` takes that lock and
forgets what is in flight, waiting for events ends after 60 seconds.

`kill_handler_thread` is never cleared (1524): the thread of the second first
device exits at once. It starts as false, since `uvc_init2` allocates the context zeroed,
and `Exit` is the end of this context and the start of another.

| property | claim |
|---|---|
| `NoUseAfterFree` | no callback runs or can still come for a freed handle; a deleted status callback object can be met only until `libusb_close` has returned, one not yet set only between the two stores |
| `CloseReturns` | `uvc_close` returns |
| `StatusHandled` | a status that arrives gets its callback while the flag is not set |
| `FirstIsHandled` | what a comment says about the first device; false for a context used again (section 12) |

**Fairness.** Weak for a call that has begun and for the thread; strong for
`CloseUsb`, which needs the events lock while the thread takes it again and again
(libusb's `pollfd_modify` keeps others from taking it), and for `StartCallback`, as
each poll reports every transfer that has arrived. Nothing is assumed of the
caller between calls or of cameras.

## 10. UsbFileManager

**Correspondence.** `broadcasts` are what Android has sent and the receiver not yet
handled; `usbMassStorageDevice` is the object in use with the device it stands for,
whether its connection is open and whether it has a partition. `DiscoverDevice` is
`discoverDevice`, which takes any of the devices that are plugged in (the order
of `getDeviceList().values()`); `Attached` and `Detached` call it for every USB device, of any
kind; `Granted` calls `setupDevice`, whose failures are `Fails`: a null object, no
connection, no partition table or no partition, also when the object has been set up before and
reads them again. `fault` is the device whose answer ended the process.
`register` looks for no device, so one that is there before it (`early`) is not
broadcast.

| property | claim |
|---|---|
| `SetUpIsOpen` | the state in which the dialog shows files has an open device with a file system; if it has gone the broadcast that ends the state is on its way |
| `CrashCause` | the process ends only for an answer about a device that has gone or was replaced, or if `init` opened the device and could not use what it read |
| `PluggedIsFound` | while a storage device is plugged in, one is found; for one that was there before `register` only once another USB device comes or goes (or the dialog asks for it) |

**Fairness.** Weak, for the receiver. Users need not answer, cables need not move.

Deadlock is not checked: devices are plugged in once.

## 11. The runs

All runs are exhaustive within their bounds. Symmetry is used where no liveness
property is checked; the identities it permutes (frames, transfers, files) are
never compared except for equality.

| run | question | instance |
|---|---|---|
| `UVCPreview_sessions` | Do two sessions with failures in between end quiet, and how many frames do they lose? | 3 frames, queue of 1, MJPEG, two starts each possibly failing, `setPreviewSize`, release |
| `UVCPreview_clients` | Do frames keep one owner and do consumers wake while both setters pause the capture thread? | 4 frames, queue of 1, one callback, one window |
| `UVCPreview_live` | Is the queue drained, do setters return? | 1 frame, one start, fairness |
| `UVCStream_callback` | Does the stream with a callback keep its promises while the camera stays? | 2 transfers, 4 camera frames, fairness |
| `UVCStream_polling` | Are pictures whole with malformed and lost payloads, a failing start and an unplugged camera? | 2 transfers, 4 camera frames |
| `UVCDevice` | Does closing return and leave nothing that runs for a freed handle? | 3 devices, 2 threads, fairness |
| `FAT_store` | Does the table keep the chains through its window, whatever transfer fails? | 2 files of up to 3 clusters, clusters 2 to 6 in windows of 2 |
| `FAT_emptied` | What becomes of a file that was empty? (section 12) | 2 files of up to 2 clusters, of which the other host may leave one empty |
| `FatDirectory` | Do several handles, failing writes, mounting again and old objects leave each item in its place? | 1 file, 2 folders, 2 names, 3 handles, one old object; one item or name is hit and calls go on |
| `Partition` | Does a call move its bytes and no others, however its transfers go? | 3 blocks of 2 bytes, the partition being the last two, one late or failed transfer |
| `UsbCamera` | Are attaches reported, connections closed, and what can cost a camera, a surface or the process? | 2 devices, 2 requests, 2 registers, 2 surfaces |
| `UsbFiles` | Is the device in use open, is one that is plugged in found? | 2 storage devices and another, each there before `register` or plugged in later, fairness |

Why the bounds are enough:

* A queue of one frame (four in the code) is empty, partly taken and full with the
  fewest frames; the pool holds two more than the queue, so with three frames
  both the full pool and, with the local variables holding them, no memory left
  occur. Four frames let every thread hold one while the queue and the pool have
  one too. The theorems cover every capacity and number.
* Two starts are what is needed for a thread of one session to meet the
  next; a third meets nothing new.
* Two transfers (ten in the code) already complete in either order, and one can be
  handled while the other is cancelled. Four camera frames are the frame being
  read, the one held, the one collected and the next with the same frame ID
  bit.
* Five clusters of two files, three to a file, in windows of two at an odd offset:
  a chain enters a window twice, shares it with the other file, and has its last
  cluster before its first. Reuse of a freed cluster is reached through the hint.
* Three handles are the root and either two handles of one folder or one of each
  folder, so that a list is out of date, a move has two directories and a delete
  goes down two levels. With two names an item can be renamed and meet
  another. They are too few for a folder that is deleted through one
  handle while another one still lists it, seen with four, and for two
  items left with one name by a mistake and listed again, seen with
  five. Both came up when the theorems were proved, and are in the model since;
  the theorems hold for any number of items and handles. With one old object the item
  is moved by one object and renamed, moved or deleted by the other, while
  another item may have taken its name.
* Blocks of two bytes have an inside; a partition that starts at block 1 shows a
  write that goes in front of it. A call is in one block, in two, ends or starts
  inside of either, or has nothing behind its first block. One late or failed transfer is
  enough to shift the answers of all later commands, or to leave the device waiting for
  the data of a write through all later calls.
* Two cameras meet in every order of connect, detach and task; the second
  request, register and surface find what the first has left. With two storage
  devices one may take the place of the other, and the third device is of
  another kind. In `UVCDevice` the first, a second and the last device open differ
  from each other, and the second thread is the one that finds the flag set.

Deadlock is not checked where the client may legally make no further call
(UVCPreview with a bounded number of starts, UVCStream with a camera that ran
out of frames or was unplugged, FAT and FatDirectory with all files failed, the
two managers with all devices gone or the process ended, UVCDevice with no thread
left to start). In `UVCStream_callback` and `Partition` it is.

Every property of a passing run has a mutant in `PROJECT.json`: one definition
replaced by what a plausible slip in the code would make of it (an
operator with a comment that starts "Mistake:"), with which TLC finds the property
violated.

## 12. Where code and comments disagree

One disagreement is a run that ends in a counterexample: `FAT_emptied`. `setLength`
never sets the start cluster (`FatFile.java` 151): an empty file another host left
loses what is written to it when it is closed, against `UsbFile.java` 171, "Every change to the
file is then committed to the disk". `ChainsKept` says so: a handle goes by the
chain the file was given.

The others are stated as properties in the modules, without a run. TLC finds each
violated when it is added to the run's configuration:

| property | what happens |
|---|---|
| `UVCPreview!StopReturns` | `stopPreview` clears the flag and signals without the mutex; a thread between its test and its wait misses both, and the join never returns |
| `UVCPreview!CallbackObjectStable` | the setter's wait is ended by the broadcast that announces a new frame, and the callback is replaced while the capture thread calls it |
| `UVCPreview!CaptureIsYuyv`, with both modes in `Modes` | `requestMode` is read before and after the negotiation; a change in between hands MJPEG data to the capture thread as YUYV |
| `UVCStream!CloseQuiesces`, with `MayUnplug` | after `NO_DEVICE` the close skips the stop and frees what transfers and the callback thread still use |
| `UVCStream!FreshFrames`, with `BadPayloads` | listeners "may only access hold*, and only when holding a lock on cb_mutex" (`libuvc_internal.h` 264), but `hold_bfh_err` is read again after the unlock (`stream.c` 1645): if the next frame has been published by then, the callback gets an older picture as a new one |
| `FatDirectory!ItemNamesDiffer` | `setName` throws "if new name is already assigned" (`UsbFile.java` 69), but `renameEntry` does not look (`FatDirectory.java` 269): the directory has two entries of one name |
| `FatDirectory!CreateRefusesTaken` | creating throws if "a item with the same name already exists" (`UsbFile.java` 196, 208; for moves 224), but the map is looked at before it has been read (344, 366, 585, 626): on a handle not yet listed a taken name is given again |
| `Partition!BytesBehindKept` | the "amount of bytes to be written are determined by `ByteBuffer.remaining()`" (`BlockDeviceDriver.java` 61), but the write is rounded up to whole blocks (`ScsiBlockDevice.java` 239) and the rest of the last one is written as zeros |
| `UVCDevice!FirstIsHandled` | `device.c` 286 spawns the thread for the first device; on a context used again it finds the old flag and exits |
| `UsbCameraManager!ConnectOpened` | "called after device opend" (`USBMonitor.java` 78), but a connect that was posted before the detach opens nothing and calls `onConnect` |

The modules also state `WindowRefsOwned` (the capture
thread releases its window without a lock, `UVCPreview.cpp` 835, and so may the
setter), `NoCaptureAfterStop` (a stop before the capture thread exists joins a
stale id, 361), `PollersCancelled` (a close does not wait for a poller, `stream.c`
1883). With `StartMayFail` the setters of `UVCPreview` can wait for a capture
thread that was never created (781), and with `SubmitMayFail` a failed start
frees a handle that is in use (`stream.c` 1595): `SetterReturns` and
`CloseQuiesces` are therefore checked without them, and the hazards name the
lines. `StopReturns` of the stream likewise needs a camera that stays: a
resubmission that fails leaves its transfer in the list for ever (988). With
`PaddingMayBeFree` the search for free clusters hands out what lies behind the
last cluster (`FAT.java` 194), and `StoreSpec` is violated.

## 13. The proofs

The proof modules are checked by tlapm with SMT, Zenon
and, for the temporal steps, LS4. The theorems hold for every set of frames,
transfers, threads, callbacks, windows and devices, every queue capacity and
every length of run; those on `FAT` for every size of table, window and block;
those on `Partition` for every block size, device, partition and place of a call. Their assumptions are the named `ASSUME`s of the modules: identities
differ from the "none" values, the sets that must be finite are, bounds are
naturals.

| theorem | says | argument |
|---|---|---|
| `UVCPreview_proofs!TypeCorrect` | `TypeOK` | inductive together with `HoldInv`: a thread about to use its frame has one |
| `UVCPreview_proofs!FramesOwned` | `FrameOwnership` | `FrameInv` = types, `HoldInv`, ownership; lemmas for the few ways a frame moves (`TakeFrame`, `GiveFrames`, `EnqueueFrame`, `DequeueFrame`, `LeakFrame`, ...), one of which fits each action |
| `UVCPreview_proofs!NoFrameSleepsUnseen` | `NoSleepOnFrame` | inductive with the types: every enqueueing action wakes or excludes a sleeper |
| `UVCPreview_proofs!StopLeavesQuiet` | `StoppedQuiet` | `StopInv`: during a stop the flag is down and each phase has done its part; the joins make the queues final |
| `UVCPreview_proofs!LeaksAreBounded` | `LeakBounded` | `LeakInv`: each lost frame has a preview of its own that can lose no other, and one that still can is not among them |
| `UVCStream_proofs!TypeCorrect` | `TypeOK` | with `SetupInv` (a new handle has no transfers) and `CallerInv` |
| `UVCStream_proofs!NewsHeard` | `NoMissedNews` | with `StoppingInv`: a stop has cleared `running` |
| `UVCStream_proofs!ImplementsMailbox` | `LatestSpec` | `SeqInv` relates the copies of the sequence number; each action is one of the mailbox's or a stutter |
| `UVCStream_proofs!CloseLeavesNothing` | `CloseQuiesces`, if the camera stays and takes the submissions | `LifeInv`: while anything is left the stream is running or being stopped |
| `UVCStream_proofs!FramesAreWhole` | `WholeFrames`, if at most one payload in a row is lost | `PayloadInv`: what is collected comes from the current camera frame, or from the one before it with the other frame ID bit |
| `UVCDevice_proofs!TypeCorrect` | `TypeOK` | with `HandleInv`, next |
| `UVCDevice_proofs!CallbacksInTime` | `NoUseAfterFree` | `HandleInv`: which handles exist at each step of open and close, when the status callback object is set, that a transfer belongs to a handle and is idle from `libusb_close` on, and that there is a thread only while a device is open |
| `FAT_proofs!TypeCorrect` | `TypeOK` | `TypeInv`: how the length of the new chain and what was found belong together |
| `FAT_proofs!ChainsOnDisk` | `OnDisk`, if `Supported` | `IInv`, below |
| `FAT_proofs!CountStaysExact` | `FreeCountExact`, if `Supported` | `CountInv`: while a call writes, the count is the one of the table it will leave, up to what it still has to add |
| `FAT_proofs!HandlesAgree` | `ChainsKept`, if `Supported` | `KeptInv` |
| `FAT_proofs!ImplementsStore` | `StoreSpec`, if `Supported` | each action is one of `ClusterStore` or a stutter; the return of a call is the step of the store |
| `FatDirectory_proofs!TypeCorrect` | `TypeOK` | `TypeInv`: a call and the handles it works with belong together |
| `FatDirectory_proofs!ItemsStay` | `OnePlace` | `IInv`, below |
| `FatDirectory_proofs!ClustersKept` | `NoDangling` | `IInv` |
| `FatDirectory_proofs!NamesDiffer` | `NamesUnique` | `IInv` |
| `FatDirectory_proofs!FoldersReached` | `Rooted` | `IInv` |
| `Partition_proofs!TypeCorrect` | `TypeOK` | `TypeInv`: which command each phase of a call has issued; `HistoryInv` |
| `Partition_proofs!CallsDoTheirWork` | `CallOutcome` | `ContentInv`, below |
| `Partition_proofs!NoOtherBytes` | `OnlyOwnBytes` (of steps) | `HistoryInv`: what the device waits for is in the blocks of `writer`; `TypeInv` says what the buffer of each write holds, `ContentInv` that the patched block holds what was stored |
| `UsbCameraManager_proofs!TypeCorrect` | `TypeOK` | `MonitorInv` and `ManagerTypes`, one lemma for each step |
| `UsbCameraManager_proofs!AttachesReported` | `AttachReported` | `CountInv`: while no detach is pending, `mDeviceCounts` and the unseen devices together are at most the devices plugged in |
| `UsbCameraManager_proofs!GoneAreClosed` | `GoneClosed` | `BlockInv`: a block with a connection is in `mCtrlBlocks`, so the detach closes it; `FirstInv`: before the first register there are no blocks |
| `UsbCameraManager_proofs!OrphansAreBounded` | `OrphansBounded` | `OrphanInv`: while tasks wait, lost cameras, tasks and the open camera together are at most `overlaps + 1` |
| `UsbCameraManager_proofs!DeadSurfaceRaced` | `NoDeadSurface` | `SurfaceInv`: between the halves of `surfaceDestroyed` only the task turns the preview on |
| `UsbCameraManager_proofs!CrashesHaveCause` | `CrashCause` | `ActiveInv`: `isActive` is set with a camera, and cleared with it unless the camera is given up |
| `UsbFileManager_proofs!TypeCorrect` | `TypeOK` | with `AnswerInv` |
| `UsbFileManager_proofs!SetUpDeviceIsOpen` | `SetUpIsOpen` | inductive with the types; a detach stays in the queue until the state has ended |
| `UsbFileManager_proofs!CrashesHaveCause` | `CrashCause` | `AnswerInv`: before an answer arrives its device was found, so there is an object, and its permission holds if it was given |

The conditions of the last two theorems on `UVCStream` are those without which
the property is false (section 12) or can be: two lost payloads in a row may hide a frame boundary.

**FAT.** `Supported` is what the code needs and does not establish itself: the
client empties no file (`MayEmpty` is false; `FAT_emptied` shows what happens
otherwise) and the entries behind the last cluster are not zero
(`PaddingMayBeFree`; `StoreSpec` is false otherwise, section 12). Types need
neither. A property of the table alone is not inductive, since in the middle of a
call the table holds neither the old chain nor the new one, and part of the
change is in the window and not yet on the device. `IInv` therefore speaks of
three tables: `table` on the device, `Stored`, which is what the device will hold
once the window is written back, and `Final`, which is `Stored` with the entries
of `todo` changed. A transfer moves one towards the next and none changes `Final`
(lemmas `WriteBackInv`, `PutInv`). `FilesInv` says that every other
file's chain is in the first two at any time, so it survives whatever fails; `WriteInv`
that the new chain is in `Final`, so it is on the disk when `todo` is
empty; `FoundInv` and `SearchInv` that what `alloc` has found is free and distinct.
How many clusters are free is settled once, when a call begins to write.

**Partition.** `TypeInv` ties the command in progress to the phase of the call and
says what a written buffer holds. `HistoryInv` is about a device that waits for
data, whichever call it is that sends some: the write it will carry out lies in the blocks
of the call that issued it. `ContentInv` is about calls that nothing has made
doubtful: either the device waits for exactly what the call has still to send, or
a transfer has failed and the call is on its way to throw. What has been moved,
what the device still has to send (or to store) and what it has stored are the whole
of the command, and the commands that are done
are the whole of the call so far (`MovedUpTo`). The places of a
call's bytes within blocks, all of it arithmetic with `BlockSize`, is settled in
`CallGeometry`; the steps only add. There are no conditions: status
errors, late answers and failed transfers of any kind are all included.

**FatDirectory.** The promises are about the disk, but a call writes lists, and a
list may be out of date; in the middle of a call the disk is neither what it was nor
what it will be. `IInv` speaks of the settled items, which are those neither spoiled nor the
call's own. The disk has them in their places and nowhere else (`SettledInv`). A
list may say anything of them as long as no call writes it: when a call begins,
what its lists and the disk disagree on becomes spoiled (lemmas `Fresh`, `Spoils`), so
that the lists to be written agree with the disk on what is settled (`WritesInv`) and a write
leaves it alone (`OneWrite`). `MovingInv` follows the call's item: the lists to be
written and the directories that are not to be written have it in its new place
only, and only the directory to be written first may still have it in its old
one; so it is never in two. A call through an old object spoils its own item when
it begins, so that it need not be followed. `NamesInv` says that no list and no directory on the disk has a name
twice that was not mixed up, and that the map has the names of its list; the map is what
`createFile` and `moveTo` look at (`NewName`). `EmptyingInv` says that a folder holds nothing that the list it is
being emptied by does not have, so that it is empty when the list is.

The invariant has no condition: failing writes, a volume mounted again at any
time, lists that are out of date, old objects and the client's mistakes are all included.
What it costs to make one is counted in `spoiled` and `clashed`.

Only model-checked: what is about liveness (`QueueDrained`, `SetterReturns`,
both `StopReturns`, `CloseReturns`, `StatusHandled`, `PluggedIsFound`), which is
out of the prover's reach.

To be proved next: that `FatDirectory` implements a specification of a volume as
a tree, in which a call is one step.

## 14. Not modelled

* Pixel conversion (`frame.c`, `frame-mjpeg.c`): arithmetic on whole pictures,
  without state; `UVCPreview` has its success and failure.
* The controls (`ctrl.c`, and some sixty of them in `UVCCamera.cpp` and
  `UVCCamera.java`): each is one transfer and one conversion, and keeps nothing.
* Descriptor parsing and printing (`device.c`, `diag.c`): functions of the
  descriptors.
* Isochronous packets: `stream.c` has a second copy of the payload code for them
  (788-930), with several packets to a completion; `UVCStream` models bulk
  transfers.
* Mirrored FATs: `alloc` and `free` write the first one only, as their own TODO
  says (212, 334).
* Contents of files (`ClusterChain.read` and `write`) and file streams: a position
  and a loop over clusters, by one thread and without a buffer.
* Names: the short names made for long ones, their checksums, the parsing
  of entries; time stamps; the volume label; a directory that grows by a cluster.
* The master boot record and the first commands to a block device (inquiry,
  ready, capacity): done once, in a fixed order, before anything else.
* The user interface, its presenters and dialogs: they start calls and show
  results.

libusb, libjpeg-turbo, rapidjson and the generated tables that make up most
lines of the repository are third-party code and appear as far as their callers
rely on them. The part of the source that is mapped is small next to all of it
for that reason.
