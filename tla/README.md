# OpenList: TLA+ models, checks and proofs

OpenList serves many storage providers through one file tree: an HTTP API,
WebDAV, S3, FTP and SFTP in front, several hundred storage drivers behind, and
in between the parts that hold state shared by concurrent requests. This
directory models those parts in TLA+, checks them with TLC on small instances
and proves their main invariants with TLAPS for all instances. `PROJECT.json`
lists components, runs, mutants, the map from definitions to source lines,
findings, hazards and theorems.

## 1. Inventory

| Component | State | Operations | What is hard | What makes it correct |
|---|---|---|---|---|
| Receiving window (`internal/multipart/window.go`) | ring file, slot states, read position, checksums, sticky error | `WriteChunk`, `Read`, `CloseWithError`, `Snapshot`, `CRCs` | bodies are copied and slots read outside the mutex; parked requests with a deadline; close at any moment | the driver reads the file in order; no two unlocked copies on one slot; no lost wakeup; the file is removed once |
| Sessions (`internal/multipart/session.go`) | two maps, per session: state, attempt, window, done channel, checksums of the last attempt | `Init`, `Chunk`, `Complete`, `Status`, `Find`, `Abort`, `gc`, the pipeline goroutine | two locks, verdicts that meet aborts and expiry, retries, the gap between the close of the window and the verdict | one pipeline per session; ended sessions stay ended; maps agree; requests return; abandoned sessions are released; a chunk index out of range harms nobody else |
| Multipart handlers (`server/handles/multipart.go`) | none | one Manager call each | clients that repeat, reorder and drop requests | as above |
| WebDAV locks (`server/webdav/lock.go`) | locks, nodes with reference counts, heap of timeouts | `Create`, `Refresh`, `Unlock`, `Confirm` and its release | timeouts of claimed locks, shared locks, depth | no conflicting locks; counts exact; claims never expire |
| WebDAV handlers (`server/webdav/webdav.go`) | temporary locks of a request | `confirmLocks`, `handleLock`, `handleUnlock` | two locks taken in two steps, the rollback, locks without a timeout | a temporary lock never outlives its request |
| Task groups and transfers (`internal/task_group`, `internal/fs/copy_move.go`) | pending count and payloads per group | `AddTask`, `AppendPayload`, `Done`, `HookAndRemove` | completion runs unlocked, retries and restarts add tasks again, failed uploads leave parts | a source is removed only when the destination has it |
| Multi-part downloader (`internal/net/request.go`, `pkg/buffer/pipe.go`) | part queue, recycled buffers, concurrency slots shared by all downloads | `Download`, `sendChunkTask`, `downloadPart`, `tryDownloadChunk`, `finishBuf`, `interrupt`; `Read`, `Write`, `Reset`, `Close` of a buffer | workers, reader and close race; refused requests give up workers; blocks are freed under I/O | bytes in order; slots given back; nobody waits forever |
| Links (`internal/op/link_lifecycle.go`, `SyncClosers` in `pkg/utils/io.go`) | reference count of a shared link | `acquire`, `AcquireReference`, `Close` | lock-free counting against close | closers run once, never under a holder |
| Single flight (`pkg/singleflight`) | running call per key | `Do` (`DoChan` and `Forget` are not used) | waiters share a result | one execution per key at a time |
| Caches (`internal/cache`) | entries by key and type, with an expiry each | get, set, delete, purge, collection | an entry read under one lock is removed under another | nothing expired or invalidated is handed out |
| File operations (`internal/op/fs.go`, `cache.go`) | directory cache, link cache | list, get, link, put, move, remove | cached values used after they were invalidated | a cached listing contains finished writes; links lead to the current file |
| Storage registry (`internal/op/storage.go`) | storages by mount path, balance counters | create, update, enable, disable, delete, lookup | updates while requests run | a path resolves to one working storage |
| Background tasks (`internal/task`, `pkg/task`; `tache` is external) | task states | run, cancel, retry, remove | cancel against completion | a task ends in one final state |
| Search index, offline download | queues of updates, polled downloads | build, update, add, transfer | external engines and tools | updates applied in order |
| Users, metas, settings, sharings | caches over tables | CRUD | invalidation | cache agrees with the table |
| Streams, `errgroup`, `generic_sync`, `mem`, `hybrid_cache` | buffers and containers | read, cache, get, set | limits | data returned unchanged |
| S3, FTP, SFTP, MCP, HTTP API | per connection | protocol operations | protocol rules | forwarded faithfully |
| Signatures, sharing links, archives, bootstrap, configuration, database, drivers, client packages, assets | little or external | pure functions and I/O | third-party behaviour | out of scope here |

How they interact: HTTP handlers call `multipart.DefaultManager` and the file
operations; a session's pipeline goroutine gives its window to `op.Put` as the
stream of a regular upload, and the driver reads it; `op.Put` closes the window
when the upload ends, before the session records the verdict. WebDAV handlers
confirm or take locks, call the file system facade, and release. Copy and move
tasks report to their task group, whose completion lists and removes through
the file operations. A download asks `op.Link` for a link, shares it with others
through its cache, and reads the remote file through the downloader; all
downloads take their workers from one `ConcurrencyLimit`. An upload drops the
cached links of the file it replaces.

## 2. Plan

Order: (1) window and sessions, the parts with the most concurrency and a
data-integrity promise; (2) WebDAV locks; (3) task groups and transfers; (4) the
downloader with its pipe buffers; (5) the link cache with reference counts on top
of single flight. These five are done. Left: (6) the directory cache under
concurrent listing and writing, and the storage registry with its balanced
mounts. Abstract specification: `UploadStream`, which the window implements.
Proofs: every invariant and action property of the five components that a run
checks is proved, and the refinement of `UploadStream`; liveness is model-checked
(section 5).

## 3. Modules

`UploadStream` is the abstract specification of a receiving window: a chunk is
accepted once, at most `Window` chunks ahead of the reader; bytes are delivered
in order from accepted chunks; a delivery under way at the close may finish.

`MultipartWindow` models `window.go`. `slotState`, `slotChunk`, `readPos`, `crcs`
(-1 where `crcSet` is false), `err` and `handle` (`w.f # nil`) are the fields of
`Window`; `fdOpen`, `ringFile` and `ring` are the descriptor, the file and what
the bytes of each slot are. Each critical section of `Window.mu` is one action:
`ReturnEarly`, `Admit`, `Park`, `GiveUp` are the four outcomes of a pass of
`WriteChunk`'s loop, `FinishChunk` its second half, `ReadFails`, `ReadStarts`,
`ReadParks`, `ReadFinishes` those of `Read`, `CloseWithError` and `RemoveRing` the
close. `CopyBody` and `ReadAt` run outside the mutex and are actions of their own;
a body may be short, too long or cut by the close. A `Broadcast` moves everybody
from "parked" to "loop". `stored` and `out` are history: the payload accepted for
each chunk and the bytes the driver received.

`MultipartSession` models `session.go` on top of that abstraction: a session's
window is the table of accepted chunks, the number consumed and the sticky
error. Each critical section of `Manager.mu` and `Session.mu` is one action, named
after its method; a session is created (`Create`) and inserted into the maps
(`Insert`) in two sections, terminated (`Terminate`) and removed (`Remove`) in
two. The driver is external: it consumes chunks, succeeds (`PutSucceeds`, also
early by a known hash) or fails (`PutFails`), and `op.Put` closes the window before
it returns unless the failure came before. `Harvest`, `FinishAttempt` and
`CloseDone` are the rest of the pipeline goroutine. `prev` holds the checksums of
the last attempt that `Chunk` compares with. The file's chunks are numbers; two
files may share some. A chunk index is any integer (`Indices`): one above the range
is refused by the window, one below it panics in `Chunk` with the session's mutex held
(`ChunkPanics`), and `locked` are the sessions whose mutex is never released. Whoever
needs such a session stays where it is; an Init that finds it by its key waits inside
the manager's critical section ("stuck"), and from then on no step that needs the
manager is possible (`ManagerFree`). `MCSessionClients` restricts the clients: each has
a file, declares its hash, and sends chunks only to sessions that its own Init was
answered with (`told`). Left out: header parsing, error texts, the storage
percentage, the drain of request bodies.

`WebdavLocks` models `lock.go` and the lock handling of `webdav.go`. `byToken`,
`det`, `expiry` are the locks, `byExpiry` the members of the heap, `refCount` and
`locks` the nodes of `byName`, `held` the claimed locks. `Above[p]` is what
`walkToRoot` visits. An operation first removes what has expired by the time its
caller read (`Expired(at)`: `confirmLocks` reads the time once), then acts.
`LockSrc`, `LockDst`, `UnlockDst`, `UnlockSrc` are the temporary locks of a request
without an `If` header, `TryList` a list of the header, the `Probe` actions the
search for a conflict after a negated token failed. Tokens of removed locks are
recycled; clients only use tokens a LOCK request returned (`Issued`; the code takes any
string). `handleLock` reads the time a few lines before `Create`, with a lookup of the
file in between; the model reads it at `Create`. `req.src` is the name a request has
confirmed, which for a tagged list of the `If` header is the tagged one.

`TransferGroups` models `task_group` and the transfers between two storages in
`copy_move.go`. `pending`, `hasSuccess` and `payload` are the coordinator's groups,
one per destination directory; `src` and `dst` are the two trees, an object
standing for its path in both; `task` holds the tasks and the requests run
inline. `AddTask`, `AppendPayload` and `Done` are the coordinator's critical
sections. A request adds its task (`Transfer`) and appends the payload of a move
in a second section, before the task is given to the manager (`Append`) or after
an inline run (`AppendInline`). `RunTask`, `NextTask`, `NextInline`, `AllHandedOn`,
`Uploaded` and `Fails` are `RunWithNextTaskCallback`, whose callback adds a task or
runs the object inline. `Report` is the call of `Done`; the task that reports last
goes on to verify and remove, one storage call per action (`VerifyObject`,
`VerifyFails`, `RemoveDir`, `KeepDir`, `HookReturns`), while a new group of the same
destination may form. `RetryByUser` and `Restore` are `SetRetry`; the manager's
own retries, persistence and `Restart` are external (tache). While a file is being
uploaded a part of it may be visible at the destination (`Appears`; `Local.Put` creates
the file first), and an upload that fails may leave what was there, the part, or
nothing (`Leftovers`): `op.Put` cleans nothing up, and drivers do as they like. The
rename of an old file aside and back on storages without overwriting is one of these
outcomes and no step of its own. Left out: the native
copy or move inside one storage, hooks that only notify, cancellation by users.

`Downloader` models `request.go` and `pipe.go`: the reader that `Download` returns,
which also closes, the worker goroutines, and the fields they share. `pos`,
`maxPos`, `nextChunk`, `concurrency`, `bufMap` and `chunkCh` are the fields of
`downloader`; `hc` counts the blocks taken from the store and is -1 once it is
closed; `buf` holds the pipe buffers by block. The positions of a range are
numbers from 0, a byte is its own position, so that a block shows which bytes it
holds, those of an earlier part included. A critical section of `d.mu` is one
action; `mu` is a variable because two callers wait while they hold the lock:
`interrupt` for I/O (`InterruptLocks`, `InterruptCloses`, `InterruptEnds`), and the
reader for room in the channel (`FinishWaits`, `FinishResumes`). `sendChunkTask` is an
operator used by the three steps that call it: the first part (`DownloadFirst`), a
request that was answered (`RequestSucceeds`), and the reader's `FinishSends`. A
configuration also bounds what its download meets: status errors, calls of `Close`,
cancellations, and slots that other downloads hold. `Acquire`,
`DownloadSingle` and `CloseSingle` are the range of one part. `Read*` are the passes
of `PipeBuffer.Read` under `multiReadCloser.Read`; `NextPart`, `FinishSends`,
`FinishCloses` and `FinishPops` are `finishBuf`. A worker takes a part
(`WorkerTakes`), asks for it (`RequestFails`, `RequestRefused`, `RequestSucceeds`),
copies the body piece by piece (`WriteEnters`, `WriteStart`, `WriteEnd`; `BodyBreaks`,
`BodyEnds`), and `Judge` is what `downloadChunk` makes of an error. `Requeue` is the
select that puts a refused part back; it may pick a channel that was closed
meanwhile, which sets `panicked` and ends every behaviour. Other downloads take and
return slots at any time. Left out: error values, the byte count and `readingID`,
which choose texts and delays only; a server that answers another range than it
was asked for; a `Close` by another goroutine while a `Read` is running.

`FileLinks` models the links to one file: `op.Link`, `admitLink` and `acquire`, the
typed cache, the single flight and `SyncClosers`, while `op.Put` replaces the file.
A link has one of three kinds: with an expiration, reference-counted, or counted
but still of use when closed. `maps` and `current` are the inner maps of the typed
cache, because `GetType` finds an expired entry under one lock and removes it under
another, from the map it saw. The atomic operations of `AcquireReference` (`Acquire`,
`AcquireFails`) and of `Close` (`CloseLoads`, `CloseSwaps`) are single steps.
`closersClosed` stands for `math.MinInt32`: so far below zero that the callers
cannot count it up to zero. `FlightGets`, `FlightLinks`, `FlightCaches` and
`FlightEnds` are the function of the flight; `PutUploads`, `PutInvalidates`,
`PutLists` and `PutReturns` the end of `Put`. The content of the file is the number
of Puts; `since` (Puts that had returned when a call began) and `until`
(invalidations seen when the link was handed out) are history. Left out: other keys
and types, which share nothing; panics inside a flight; `Put` when the driver
fails or the old file has to be renamed first.

`MC*` modules give the constants of the runs. Operators commented "Mutant" are
faulty variants used to show that each property can fail; no specification uses
them.

## 4. Runs

| Run | Question |
|---|---|
| `window_safety` | Three chunks, the last one short, two slots, two requests, a reader, a closer. `NoRace`: unlocked copies. `DeliveredInOrder`, `ImplementsStream`: the driver gets the file, the window is the ordered stream. `ReportsExact`: what clients are told is true. `NoLostWakeup`. |
| `window_liveness` | Two chunks for one slot, two closers. `RingReleasedOnce`; `CallsReturn` under fairness. |
| `session_core` | Two clients with two versions of a file, one session, a retry, an abort, an index below the range. `OneAttempt`, `EndedStaysEnded`, `OnlyMismatchOverturns`, `StragglersAbsorbed`; `RequestReturns` under fairness: every request returns, in either attempt, unless a mutex was lost to the panic. |
| `session_expiry` | One session that may expire in either attempt, Init, chunks (an index above the range too), Abort, Complete, the collector. `MapsAgree`; `ReleasedOrRevived` under fairness: a session nobody touches loses its pipeline, whichever attempt it is in, unless it was revived after its removal. |
| `locks_safety` | A directory and a file in it, two handlers, two client locks, timeouts. `CountsExact`, `NoConflictingLocks`, `ExpiryExact`, `ClaimsExact`, `TempLocksOwned`; `OnlySharersMeet`: nobody else has a name confirmed that the locks of a working request protect. |
| `transfer` | A directory with a file is moved by a task and once more inline; uploads that fail half way, a retry by the manager, one by a user, a restart. `CountsExact`, `NothingLost`; `CompletionsExact`: no payload outlives its group and no move is forgotten; `GroupsDrain`, `MovedAway` under fairness. |
| `download` | Ranges of one, two and four parts, one or two workers, one status error, broken bodies, cancellation, two closes, other downloads. `DeliveredInOrder`; `SlotsBalanced`: every slot is somewhere; `WithinConcurrency`: until the download is cancelled it takes no more blocks than its concurrency, and only a part with nothing left can fill the channel; `BlocksOutliveIO`; `SlotsReturned`, `ServedByWorkers` under fairness. |
| `links` | Two callers, four calls, two links of any kind, a Put. `SharedLinksAlive`, `StaleOnlyIfRaced`; `LinksReleased` under fairness. |
| `session_mixed`, `session_pinned`, `transfer_partial`, `download_hang` | violated, see findings |

Bounds. Two slots and three chunks are the smallest ring in which a slot is
reused while another is read, and the last chunk is short; one slot makes every
pair of chunks compete. Two requests suffice for every pairwise race; the third
party is the reader or the closer. Two attempts give one retry. One
session suffices where a property speaks about one session; that the maps agree while
several sessions of a key supersede each other is a theorem (`KeysLeadToSessions`)
and beyond TLC together with retries and expiry, so `session_expiry` checks it for the
removals by Abort, Complete and the collector only. One chunk is enough for every
verdict, straggler and mismatch; `session_mixed` has two, to mix. Each thread's kinds of requests are restricted (`Serves`) per run to keep
the interesting combinations small. Two nested paths exhibit every relation of
two roots except siblings, which do not interact; six tokens are the two client
locks and every handler's two temporary ones, so that no Create waits for a
token. `Hashes` and `Targets` bound which uploads and which pairs of names the
requests choose from. A directory and its file, moved twice, give a destination with
several tasks, nested groups, removals under way while a new group forms, and a file
uploaded by two tasks. Copies and merges beside a move, larger trees and objects that
existed at the destination are covered by the theorems, which hold for every set of
requests. Four parts for two workers
make buffers be recycled while others are filled, and let an empty part fill the
channel; the range of three bytes has a short first part (1 of 2), the one of five a
first part raised to half a part (2 of 4, the second 3); a limit of two slots is
exhausted by another download. Two callers give every race
on a count; four calls let a link be closed, found closed and made again; one Put
gives a before and an after, with a flight on either side or across. Deadlock is
checked in every run except those of the transfers, the downloads and the links,
where everything may be finished and nobody asks for more (and a panic ends a
download), and the two of the sessions in which a mutex can be lost.

Fairness. The Go scheduler runs every goroutine that can run (weak fairness of
each handler's and the pipeline's own steps), time passes (deadlines, timeouts,
the collector's ticker), a request body ends, and a driver returns once its
stream has ended or was closed. Nobody is assumed to send a request, to hang up,
to close a window, and no driver to return before its stream ends. For the
transfers: workers run their tasks and the manager restores what it persisted;
requests, retries and restarts need not happen. For a download: its goroutines run
and the remote side answers or fails in the end; nobody has to close or to cancel,
and slots of other downloads need not come back. For the links: a call under way
goes on and whoever holds a link closes it, as every caller of `op.Link` does; new
calls, Puts, expiry and the collection need not happen.

Findings. `session_mixed`: both clients follow the protocol. The first attempt fails
before a chunk arrived, the Init of the second client, with another hash, is answered
with the failed session, and since the failed attempt had received nothing there is
nothing to compare with: the retried window takes chunks of both files and the upload
succeeds. (`OneFileUploaded` speaks of retries only; in a first attempt the clients
would have to share an id on purpose.) `session_pinned`: `Chunk` indexes a slice with the
number the client sent before anything has checked that it is not negative, between a
`Lock` and an `Unlock` that is not deferred. The panic ends that request only, but the
session stays locked, so its requests and the goroutine of its upload never end; `gc`
waits for it, and after the next Init of its key so does everybody who needs the
manager. `RequestReturns` says what does hold: nothing else keeps a request.
`transfer_partial`: the task that creates a directory reports success, so the group of
its files completes with `hasSuccess` although the upload of a file failed. The
completion looks for an object of the file's name at the destination, finds the part
that the upload left, and removes the source. `NothingLost` says what does hold: a file
that was never written is never removed. `download_hang`: a status error for a later part
puts the part back into the channel and ends the worker, also when it is the last
one. That is so after one error if the `ConcurrencyLimit` refused the second worker,
and otherwise when every worker that picks the part up is refused once, since the
part keeps its mark `newConcurrency`. Nothing is cancelled, and `Read` waits until
the client gives up. `ServedByWorkers` says what does hold: as long as a worker is
left, the reader is served.

Smaller ones have no run of their own. In the downloader, a worker that puts a part
back does so after it released the lock; if `Close` closes the channel in between,
the select may choose the send and panic (`panicked`). A part whose body broke after
its last byte is asked for again with nothing left; refused then, it is put back and
takes room in the channel that was made for one part per block. With four parts and
two workers the reader can then wait for room with `d.mu` held (`FinishWaits`) while
the worker that would take the next part waits for that lock, until the client
cancels; `WithinConcurrency` says that nothing else fills the channel. After a
cancellation more blocks than the concurrency may be taken, since a send that is
cancelled keeps the block it has prepared. In the sessions, `terminate`
leaves a `failed_retriable` session retriable until `remove` and after, so a chunk 0
already past the lookup restarts it, and its pipeline then belongs to no map: nobody
can send it a chunk, complete, abort or collect it, and its driver waits for good.
`session_expiry` includes that case; `ReleasedOrRevived` names it (`Orphan`) as the one
exception, and without it in the formula TLC finds the orphan. Two concurrent Inits of one key both
create a session, and the key leads to one of them. A chunk found changed may
already be uploaded and overturns the recorded success (`OnlyMismatchOverturns`
says that nothing else does). Complete in the gap between close and verdict
reports missing bytes. Two requests with a shared WebDAV lock each are confirmed
together, although the comment on `Confirm` promises exclusive access
(`OnlySharersMeet` says what holds). Nor does a request without an `If` header keep
others from what is below its names: its temporary locks have zero depth, so a DELETE
of a directory and a PUT of a file in it work at the same time. A link whose flight read the listing before a
Put ended is cached after the Put dropped the cached links, and is served until it
expires (`StaleOnlyIfRaced` says that nothing else is stale).

## 5. Proofs

Each proof module extends the module it is about. A theorem holds for every value
of the constants that satisfies the named assumptions; the inductive invariants
were checked by TLC on the runs' instances first.

**Window.** `MultipartWindowProofs` proves `WindowTypes` (`TypeOK`) and `WindowSafety`
(`SlotDiscipline /\ NoRace`) for every chunk size, file size, number of slots, set of
requests, closers and payloads, from `WindowParams`, `ChecksumAssumption` and
`MarkerAssumption`. `NoRace` is not inductive: that a copying request still owns its
slot needs `SlotDiscipline` (the slot's chunk lies in the window, so no other chunk
maps to it), that the reader's slot is ready needs `ReaderLocals` (the reader stays
inside the chunk it started in, so it frees that slot only at its end), and both need
`ClosedIsEmpty` and `RequestLocals`. Their conjunction is `WindowInv`. The arithmetic of
chunks, slots and positions is in `ChunkFacts`, `SlotFacts`, `FrontierAdvance` and the
lemmas they rest on.

`WindowStreamProofs` adds what the bytes are. `StreamInv` says that a ready slot holds
the payload stored for its chunk (`RingData`), that exactly the chunks before the
frontier and the ready ones are stored (`StoredExact`), and that checksums are those of
stored payloads; it gives `ReadInOrder` and, with the sums below, `ReportsTrue`, which is
all of `ReportsExact`. `RingGoesOnce` and
`SleepersHaveNothingToDo` are inductive relative to `WindowInv`. `WindowIsStream` is the
refinement: every step of the window is a step of `UploadStream` or changes nothing
there, under the mapping of `ImplementsStream`.

The bytes a snapshot reports are computed as the reader's position plus the ready
slots, and `ReportsExact` compares them with a sum over the chunks reported. The sum
is the library's fold over a set, defined by a choice of one element after another, so
that its value must first be shown to exist and not to depend on the choice. The
induction theorems of the library take a predicate as a parameter and cannot be
applied; the proofs use sets instead: the subsets for which a claim fails have a
minimal one under strict inclusion (`FS_StrictSubsetOrderingWellFounded`, `WFMin`),
and removing one element from it contradicts its minimality (`PartInduction`, and
`CountInduction` for numbers). From these: the fold over a finite set exists
(`FoldExists`) and is a sum in any order (`FoldIsSum`, `SameSum`), the sum over a
disjoint union is the sum of the sums (`SumUnion`), and the chunks before the frontier
add up to the bytes before it (`PrefixSum`). `BytesExact` puts them together.

**Sessions.** `MultipartSessionProofs` proves `TypeOK`, `MapsAgree`, `OneAttempt`,
`StragglersAbsorbed` and the action properties `EndedStaysEnded` and
`OnlyMismatchOverturns`, for every set of sessions, requests and files and any number of
attempts, from `SessionParams`. `SessionInv` has a part per session (`SessionOK`: how
its state, its window and its pipeline go together) and a part per request (`ThreadOK`:
what a request remembers between two critical sections is still true, or the attempt
it belongs to is over). `OneAttempt` also says that a session which ended under its
running upload has aborted the window; it holds because both ways to end a session
(`Terminate`, `Mismatch`) kill the attempt in the same critical section, and because the
window is closed with success only behind the driver's return. The second part is
what `StragglersAbsorbed` needs: a chunk that
found the window closed waits on the attempt's channel, which is closed only behind
the verdict.

**Locks.** `WebdavLocksProofs` proves `TypeOK`, `CountsExact`, `NoConflictingLocks`
(`LockSafety`), `ExpiryExact`, `ClaimsExact`, `TempLocksOwned` and `OnlySharersMeet`
for every tree of paths, every finite set of tokens and every set of handlers and
timeouts, from `PathAssumption` (the names walked from a path form a chain up to the
root) and `LockParams`. The inductive invariant `LockInv` has two halves. `LockPart`
speaks of the lock system: its types, exact counts, no conflict, the heap, claims only
of locks in force. The counts are needed for the conflicts, because `canCreate` reads
nothing but counts and node contents on the way to the root (`CanCreateSound`: a count
of zero, or one equal to the locks at the node, shows that nothing below is locked; two
paths that both reach a node are comparable, which the chain gives). The heap and the
claims are needed for the counts, because an operation removes what has expired, and
that must be unclaimed (`ExpiredFree`). `HandlerPart` speaks of the users: their types
and that claims are disjoint and belong to working handlers. `TempInv` adds the
temporary locks: each is owned by one handler in one place, and what a handler
believes to hold by its stage (`HandlerOK`) is in force; the other handlers' steps
leave temporary and claimed locks alone (`Protected`). `OnlySharersMeet` then compares
the locks of two working handlers: each is in force (`OwnLocks`), each name a handler
has confirmed lies under one of its locks (`WorksUnderLock`), and two locks that cover one
name do not conflict, so they are shared, or one lock, and then a claim of one handler
only. The names a lock protects are its root and, with infinite depth, all below it.

**Transfers.** `TransferGroupsProofs` proves `TypeOK`, `CountsExact`, `CompletionsExact` and
`NothingLost` for every finite tree, any set of requests, slots, retries and restarts,
from `TreeAssumption` (what a tree is: the ancestors of an object are its parent's and
itself, no object is its own ancestor, ancestors are directories with a child on the
way) and `TransferParams`. `GroupInv` is the types, the counts and
`NoStalePayload`, with what holds at each stage of a task and the origin of payloads.
`MoveInv` adds the walk of a completion, which is what
`NothingLost` needs, because an object is removed many steps after it was verified:
what the walk has reached lies under directories still open (`WalkOK`), a file below
an open directory is safe, still to be visited or below a directory in which something
failed (`Covered`), a directory that is gone is gone with all that was in it
(`SourceClosed`), and an object at the destination that is not the transferred one was
there before (`OldExisted`). Safe is a file that is whole at the destination or that an
upload has torn; the second case is the finding `transfer_partial`, and it goes away
only for drivers that publish whole objects. `FaultFree` is for `NoMoveForgotten`, the safety half of
`MovedAway`: as long as nothing has failed, a requested move whose source is still there
is on its way (`OnItsWay`), in a task that has still to append it, in the payload of the
group, or in the walk of a completion; and whoever reports has succeeded
(`AllSucceed`), so that the last report of a group starts its completion and the payload
is handed over, not dropped.

**Downloader.** `DownloaderProofs` proves `SlotsBalanced` for every finite set of
configurations and every limit, from `DownloaderParams`. `SlotInv` joins the balance
with the shape of the data, the position in the range (`Positions`: the sizes
`ChunkSize` hands out add up, which is `PartFacts`, integer division included), the
stages of the reader (`Stage`), and `Spawned`: the workers started and those still to
be started are no more than the concurrency, so that a name is free for each.
`DownloaderOrderProofs` first sorts the steps by what they do to the blocks (`Kinds`)
and then builds three invariants on one another.

- `BlockInv`: `ioWg` counts who is inside a block (`IoCounted`), and every block in use
  is in `bufMap` (`Kept`), the one being read under -1 until its successor is there.
  `interrupt` closes the blocks of `bufMap` and waits for them, hence `BlocksOutliveIO`.
- `OrderInv`: each part from the reader's on has a block of its own (`Placed`,
  `Filled`, `Opened`), which holds a prefix of it (`Content`); a part not yet copied is
  once in the channel or with one worker, and its task says where the block goes on
  (`Tasks`, `Fresh`); what was returned is the range up to the reader (`Returned`). It
  gives `DeliveredInOrder` and `TypeOK`; that at most one worker writes into a block
  follows because two writers would have the same part.
- `RoomInv`: the blocks taken, and one that is owed to a reader whose block went to a
  new worker, are no more than the workers started (`Bounded`), and while workers are
  still to be started no empty part is in the channel (`Whole`). The parts in the channel
  have different blocks, which with `FS_Injection` bounds their number
  (`ChannelFits`) and gives `WithinConcurrency`.

**Links.** `FileLinksProofs` proves `TypeOK`, `SharedLinksAlive` and `StaleOnlyIfRaced` for
every finite set of callers and any number of calls, links and Puts, from `LinkParams`.
None is inductive. For the first two the invariant is `LinkInv`: `Types`; `Placed`
(what each caller refers to by its stage: a link that was made, the map it found,
the flight it runs); and `Counted`. `CountOf(l)` says that until its closers have run
the count of a link equals the number of its `Owners`, the callers whose
acquisition counted, and that afterwards it lies between the mark and the mark plus
the callers that have counted it up and not yet put the mark back. That is why
neither an acquisition nor a late store of the mark can make a closed link look
open. `OwnsRightly(c)` ties callers to counts: whoever owns a reference holds an open
link, and whoever holds a closed one holds it without a reference, which only a
link allows that does not require it. `Awaited` is for the last part of
`SharedLinksAlive`: an open link that nobody owns is about to be acquired, by the flight
that made it or by a caller the flight returned it to, so that no link is forgotten.
This is the safety half of `LinksReleased`; that those callers go on is left to TLC.
For `StaleOnlyIfRaced`, `Dated` bounds the history: a
caller was not begun after the Puts that have returned, a link it is to be given was
handed out no earlier than the caller began, and a cached link saw every invalidation
so far.

**Only model-checked.** Liveness (`CallsReturn`, `RequestReturns`, `ReleasedOrRevived`,
`GroupsDrain`, `MovedAway`, `SlotsReturned`, `ServedByWorkers`, `LinksReleased`): fairness
is out of the prover's reach.

## 6. Not modelled

See the components with status `not_modelled` and `partly` in `PROJECT.json`: parts
of the plan above, protocol front ends, pure computations, third-party API glue.
The map covers a small share of the repository's lines: of some 130 000, 77 000 are
storage drivers (translations of one interface to one provider's HTTP API, each
with its own formats) and most of the others protocol front ends, parsers, clients
and request handlers. They keep little state that concurrent requests share, their
correctness is that of a third party's interface, and a model of one would say
nothing that its own text does not. What the drivers do to the modelled parts (an
upload that succeeds, fails for good or for now; a link of any kind or an error; a
body that breaks off) is in the models as a choice.
Restarts: sessions and locks live in memory only, and a restart is `Init` (ring
files left behind are swept by `ensureGC`). Tasks are persisted, and
`TransferGroups` has a restart of its own.

Known limits of the code that no property contradicts: after a move, only the
presence of an object at the destination is verified, so an object that existed
there before counts as moved (`NothingLost` and `MovedWhole` exempt it), and a file that
appears in a source directory while it is being removed goes with it.

Limits of the models: Puts of one file are taken one after the other (`PutUploads`),
although `op.Put` excludes nobody. A remote server answers the range it was asked for;
the request for a part of which nothing is left names an empty range, which a server
may answer with the whole file. The wait of the reader with `d.mu` held
(`FinishWaits`) lasts until the remote side fails a request, which the fairness of
the download lets happen. `StragglersAbsorbed` is about the attempt a chunk was sent
to; a straggler that meets the next attempt is answered from its state, and
`RequestReturns` says that it is answered.
