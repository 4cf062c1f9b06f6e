# A formal model of EventDrop

EventDrop collects the photos and videos of an event's guests. This directory
holds TLA+ specifications of the parts of it that keep state, TLC
configurations that check them on small instances, and proofs about seven of them
that TLAPS checks for every instance. Paths are relative to
`src/src/eventdrop/` unless they start with `src/`; `README.md:n` is the
repository's own README.

## 1. The system

One asyncio process (uvicorn, FastAPI) serves requests and runs two background
loops. Its state lives in a database (SQLite or MySQL, through SQLAlchemy), in
a storage backend (a local directory or S3), in a directory for ZIP files, in
mailboxes on other servers, and in the pages that browsers have open. There is
no lock anywhere: what the process does between two `await`s is atomic, and at
every `await` any other request or task may run. A database session commits or
rolls back as a whole (`database/session.py`), files and mailboxes do not take
part in it.

| Component | State | Operations | Interacts with | What is hard |
|---|---|---|---|---|
| Archive service (`services/archive_service.py`, `routes/api.py`, `routes/admin.py`) | `archive_requests`, `tmp_*` directories and ZIPs, one task per batch | enqueue, build, cancel, delete, expire, sweep, download | event deletion, media store | build, admins and sweep work on one row without a lock; every await may fail; tasks do not survive a restart |
| Media store (`services/media_service.py`, `routes/upload.py`) | `media_files`, originals, thumbnails | upload, overwrite, delete one or many, new thumbnail, purge of the event | storage, e-mail ingestion, archives | two stores without a common transaction; check-then-insert |
| Thumbnail regeneration (`services/media_service.py:347`) | `_regen_tasks` | start, step, report | media store | two tasks, one progress dictionary; rows that vanish |
| E-mail ingestion (`services/email_ingestion.py`) | `event_email_configs`, `processed_emails`, the mailbox | scheduled poll, forced poll | media store, mail server | mailbox changed before storing; two polls at once; connections that break |
| Upload page (`templates/upload/upload.html`) | queue and counters in the browser | choose, send, answer, retry | upload request | counters changed by five handlers, message of a batch |
| Gallery page (`static/js/gallery.js`) | selection, elements of the page, requests, overlay, lightbox | select, delete, download, view | bulk deletion, archives | answers that come late, in part or never, while the user goes on |
| Accounts (`auth/`, `services/user_service.py`, `routes/account.py`, `routes/admin.py`) | `users`, `password_reset_tokens`, session cookie | sign up, log in, OIDC, change and reset password, delete, toggle admin | events | check-then-write on tokens, names, admin rights |
| Settings (`services/settings_service.py`, `utils/context.py`) | `app_settings`, a 60 s cache | save, read through the cache | sign-up page | a fill that was under way when the cache was invalidated; the clock near 0 |
| Events (`services/event_service.py`, `routes/events.py`) | `events`, e-mail configuration | create, edit, delete | all of the above | deletion while others work on the event |
| Gallery and dashboards on the server, statistics, i18n, QR codes, client address, mail sending, configuration, migrations | none of their own | read, render | | nothing that depends on order |

What makes each of them correct is stated by the properties below; events and
what is left of accounts (reset tokens, OIDC) have no module yet. `PROJECT.json`
lists every component and every hazard with its line.

## 2. Modules

Names follow the code. Each definition's source lines are in `PROJECT.json`,
"map". A definition `Bad...` is a plausible defect of the definition after it;
no specification uses it, and each property has one that it detects.

### DownloadLink, ArchiveService, ArchiveServiceProofs

`DownloadLink` is what the holder of a link can tell: it is issued, open, ready,
failed, cancelled, expired or gone, and which of these may follow which. It
records what the code allows, such as a cancelled link that turns to open
because the build starts after all.

`ArchiveService` is the implementation. `row` is the table, `zips` and `tmp` the
disk, `pc[b]` the place of the request and then of the task of batch `b`, `cur`
the part it builds, `admin[d]` an admin request between its SELECT and its
commit, `sweep` the same for the cleanup loop, `event` the deletion of an event.

| Action | Code |
|---|---|
| `EnqueueBatch`, `EnqueueArchive`, `EnqueueFails` | `enqueue_archive_batch`: one commit per part, then one task |
| `Start` ... `Save` | `_build_archive_task`, one action between two awaits |
| `Raise`, `RecordFailure`, `FailureUnrecorded` | its `except` block, and the one inside it |
| `FlushRaises` | a flush that fails; the session then refuses the handler's statements too |
| `CancelRead/Commit/Fails`, `DeleteRead/Commit/Fails` | the two admin requests |
| `DeleteEventFiles/Commit/Fails` | `event_service.delete_event` and the commit after it |
| `CleanupSelect/Commit/Fails` | `archive_cleanup_loop` |
| `Restart` | the process ends; nothing resumes a task |

Abstractions. Removing a ZIP or a directory succeeds (the code ignores errors
there, and a file that cannot be removed stays in any model). A SELECT that only
finds the row is merged into the commit after it: both raise if the row is
gone. A ZIP or a directory that is incomplete when the process ends counts as
present, as if the process had ended a step later. Expiry is a step that may
come at any time, for any row; the order of the rows' expiry is left open.
`torn` is history: the rows that name a file which a deletion has removed before
it failed to commit.

### StoredFiles, MediaStore, MediaStoreProofs, StoredFilesProofs

`media` is the table, `files` and `thumbs` the storage, `req[q]` a request in
flight with the row as it read it (`old`), the row it is going to write (`new`)
and its place. Every storage call and the commit is a step. A stored path is
the pair of directory and name with a time stamp (seconds): the stamp of a file
is its EXIF date or the time of the upload, so uploads of one name may have the
same path or not. Two guests may share a directory (`email_hash` lower-cases
the address). SQLAlchemy writes only the columns that differ from what it read
(`Written`).

Two simplifications: `UploadSelect` checks the event in the step of the duplicate
lookup, although the code does it earlier (`upload.py:119`, with the reading of the
file in between), so an upload into an event that is deleted within these awaits is
not in the model; and the name of a thumbnail carries the stamp of its file,
although a file without a date reads the clock twice (`media_service.py:197-198`).

The code promises nothing for requests that overlap on a file: there is no lock.
`disturbed` is history: the keys (directory and name) where two requests
overlapped, two guests share the stored name, or a request broke off after it
had changed the storage. The invariants speak of the keys that are not
disturbed and not being worked on, so they say that every *sequence* of uploads,
overwrites, deletions, regenerations and purges leaves table and storage in
step, with requests on other files in between.

A deletion is that of `bulk_delete_media`, which takes a list of files through
`Unlink` and `UnlinkThumb` one by one and deletes the rows in one commit at the
end; `delete_single_media` is the list of one. A row that is not found is passed
over (`DeleteNext`), and so is a file that the storage does not remove
(`RemovalFails`). If the commit fails (`BreaksOff`) all rows stay without their
files, and all of them count as disturbed.

`StoredFiles` is what a guest can rely on for one file: it has one content or none,
and changes by whole requests only. A request begins with a goal (`Begin`), gives up
(`GiveUp`) or starts to write (`Change`), and ends with its goal reached
(`Finish`). A file is `Lost` where nothing is promised, which is exactly where the
key is disturbed. `FileOf` is the mapping: before the first write (`HasWritten`)
the content is that of the stored original, afterwards that of the row, and the goal is
`GoalOf` the request that has the file in hand. Rows, paths, stamps and
thumbnails do not show.

### EmailIngestion, EmailIngestionProofs

`box` is the mailbox (external), `poll[p]` the poll of the loop (`Loop`) or the
one a user forces (`Forced`), `processed` the table `processed_emails`. `Search`,
`Fetch` and `Disconnect` run in the poll's thread, so they interleave with the other
poll; `StoreItem` and `Commit` are its one transaction.

`media` is the table `media_files`. `store_media_file` finds a row by event, sender
and file name (`media_service.py:201-208`); `NameOf` gives each attachment that
name, and messages of one sender may share it, as all attachments without a file name
do (`email_ingestion.py:83`). A row is known by its name and by the poll that
inserted it: a poll that finds a row of the name overwrites it (`Existing`, `Overlay`),
so what a row shows is the last attachment of its name. Lookups see the committed
table and the session's own rows, not the other poll's; hence two polls can insert
the same name, and from then on `scalar_one_or_none` raises for it (`Ambiguous`). The
files of a row, those of an overwrite that is rolled back included, and the users who
upload and delete are `MediaStore`'s and left out here.

The connection may break before, in the middle of and after what the server does: in
`Disconnects` before the removal, a message fetched but not flagged included, in
`DisconnectBreaks` at EXPUNGE, LOGOUT or QUIT, when the server has removed all, some
or none of the messages. In both the thread raises and its results are lost.
`fate` is history: an attachment is open, imported by a commit, or lost, which is
set where a poll that has it in hand lets go of it (`Drops`) and the message is
marked or removed. POP3's exclusive lock on a mailbox is not assumed: not every
server has it. Whether a forced poll's status is written depends on whether the
refresh in `routes/api.py:352` flushes first, which is the library's business:
both are allowed.

### UploadQueue, UploadQueueProofs

The variables of the script in `upload.html`, with what the page shows of each
file. One action is one run of an event handler. `CONCURRENT_UPLOADS` is a
constant. A file is an entry of the queue, so choosing the same file twice is
two entries; each is added once. The visibility toggle of the message is captured
and cleared with it and is left out.

### Gallery, GalleryProofs

The variables of `static/js/gallery.js`, with the page (`items`, `checked`) and
the table behind it (`rows`). One action is one run of a handler or of the rest
of a handler after its `await`: `DeleteSelected` sends what is selected at that
moment, `BulkDone` removes from the page what was *sent* and clears what is
selected *now*. `Serve` is the server together with the connection: a request
may be done in part, and an error may come after all was done. `DeletedElsewhere`
is another user. Two histories say what the page cannot be blamed for:
`excused`, the files it cannot know of (deleted by others, or with an answer
that was lost) or that a bulk deletion reported under "errors" (they leave the
page all the same, `gallery.js:203-213`); and `stray`, what a long press selected
after its element had left the page (the timer at line 109 is not stopped).
The selection between two clicks with the shift key is never taken: the event
"change" has no `shiftKey` (`gallery.js:25`). The number of files in the modal,
the file count of the page and what messages say are left out.

No template loads this script; `templates/gallery/gallery.html:478-762`
has its own, which keeps the selection in the boxes alone and has no requests in
common with it but those of deleting and downloading. The module is about the
script as it stands in `static/`.

### Accounts, AccountsProofs

`status[u]` is what the row of a user is (`new` for one who has not signed up),
`named` the row with the configured admin's name, `setting` the row
`allow_registration`, `cache` the dictionary `_reg_cache` with its time. A request
reads in one step and writes in a later one (`req`): `PageReads`/`PageFills` are
the two sides of the await at `context.py:17`, `SaveCommits`/`Invalidates` those of
`admin_settings_post`, whose invalidation comes after its commit;
`SignUpReads`/`SignUpInserts` are `signup_post`, `ToggleSelects`/`ToggleCommits` and
`DeleteSelects`/`DeleteCommits` the admin's two operations. A save writes only what
differs from what it has read, as SQLAlchemy does, so that two saves at the same
time may cancel out. `Fails` is every way out of a request without a write.
`Restart` is `create_admin_user` and the fresh cache: it looks for the name, not
for the right. The clock is that of the host, which the process finds at
`Uptime`; `ClockAssumption` says that the host has been up for longer than the life
of the cache, without which the made-up first value is taken for a stored one
(`context.py:7,12`). `Slow` is the longest time between the read of a request and
its next step: the code has no time limit there, so it is a parameter and the
properties are stated with it. `raced` is history: an admin acted after he had
lost the right.

### ThumbnailTask, ThumbnailTaskProofs

`task[t]` is a background task with the rows it has selected, `progress` the
entry of the event in `_regen_tasks`. The check of a request and `create_task`
are one step of the event loop, but the entry says "running" only from `Begin`
on: two requests in between start two tasks, and `shared` (history) says so.
Each storage call, the query and the commit is a step. `read` is what the
session has loaded: with `expire_on_commit=False` (`database/engine.py:10`) it
stays so for the whole task, however long. `CommitBreaks` is the handler at
`media_service.py:396`, which reads `mf.id` from a session whose flush has
failed: that raises again, and the outer handler ends the task.

Deletions run beside it in two steps, files and row (`MediaStore` has all of
their steps). Left out: uploads during the task; the regeneration of one thumbnail
(`regenerate_single_thumbnail`, `media_service.py:301-340`, `routes/api.py:257`) beside
it, which replaces a thumbnail under the task's rows, so that `RepairsThumbnails`
would need an exception for it (`MediaStore` has it among other requests); and two
files of one name and date, whose thumbnails share a path. A thumbnail that was deleted under the task
and comes back, or one under an old name, may stay in the storage; nothing is
said of such leftovers here.

## 3. Runs

| Run | Question | Instance | Result |
|---|---|---|---|
| `archive` | Do rows and disk agree, is a deleted row gone for good, is `DownloadLink` implemented, does every archive end? | 1 batch of 1 or 2 parts, 1 admin request at a time, event deletion, sweep, failures everywhere, restarts | holds |
| `archive_cancel` | Does the build respect a cancellation before it starts? (`archive_service.py:111`) | the same without restarts | violated |
| `archive_orphan` | Does the cleanup loop remove files along with rows? (`README.md:305`) | the same, no admins, no event deletion | violated |
| `media` | Does every sequence of requests keep table and storage in step, and is `StoredFiles` implemented? | 2 guests in one directory, 2 names, 2 stamps, 2 contents, 2 rows, 2 requests | holds |
| `media_duplicate` | Does the same guest's upload always overwrite? (`README.md:46`) | the same, overlapping | violated |
| `email` | Is nothing imported twice, do UIDs and rows go together, is nothing forgotten that left the mailbox, and nothing left unattended? | 2 messages with 2 and 1 attachments under 2 names, 2 polls, 4 configurations, 2 faults | holds |
| `email_loss` | Is a message marked only after its processing? (`README.md:366`) | the same, 1 fault | violated |
| `queue` | Do counters, queue and page agree, are slots used, is the message the batch's own, is every file answered? | 3 files, 2 slots, 2 texts | holds |
| `queue_retry` | Does every file carry the message of its session? (`README.md:313`) | the same | violated |
| `gallery` | Do selection, toolbar, page and table agree, does everything that covers the page go away, is the user told? | 2 files, 2 requests, others who delete, lost and partial answers | holds |
| `accounts` | How old may the shown setting be, can anyone sign up after registration is closed, is an admin left? | 3 users, 2 requests, cache of 1, requests of 1, clock 1..4, restarts | holds |
| `thumbnails` | Does the progress add up, is what counts as done repaired, does every regeneration end? | 2 files, 1 stamp, 2 tasks, deletions, failures everywhere, restarts | holds |

The violations are explained under "findings" in `PROJECT.json`.

**Properties of `archive`.** `ReadyHasZip`: a link that shows "ready" serves a file.
`DiskOwned`, `SettledLeavesNothing`: every way out of a build cleans up.
`NoResurrection`: no actor that still holds a deleted row writes it again.
`ImplementsLink`: refinement of `DownloadLink`. `BatchIsWorkedThrough`: one part's
failure does not stop the next. `EveryLinkEnds`: every archive is withdrawn in
the end, those whose build was lost included. The cleanup loop is what ends
them, not the build.
**`media`.** `RowsHaveFiles`, `NothingLeftOver`: the two directions of agreement.
`OneRowPerName`: a guest has one row per name. `ImplementsFiles`: refinement of
`StoredFiles`. It sees what the other three do not: an upload must leave *its*
content, a new thumbnail the old content, and a request that gives up must not
have touched anything.
**`email`.** `ImportedOnce` holds for POP3 only by the unique constraint on
`processed_emails`, which makes the second of two overlapping polls roll back.
`ProcessedHasMedia` (POP3): a UID is recorded only with a row under a name of its
message, and no row comes without the UID of the message it shows; it does not say
that the row still shows that message, because an attachment of the same name takes
it over. `NoneForgotten`: what has been marked or removed on the server is imported,
in a poll's hands, or was in the hands of a poll that failed; in particular EXPUNGE
and QUIT remove nothing that nobody has fetched. How much a failure loses is what
`email_loss` shows. `EveryMessageIsTaken` says that IMAP comes to *mark* a message
and POP3 to record or remove it, not that the attachments arrive. It excuses a
message all whose names are in the table twice. That takes three messages and two
faults to be needed; the run has two messages.
**`queue`.** `CountersAgree`, `SlotsAreUsed`, `SentWithItsBatch`,
`EveryFileIsAnswered`.
**`gallery`.** `PageShowsSelection`: the selection is kept twice, and five kinds of
events change it. `SelectedOnPage`: what an answer takes off the page is not
selected any more. `PageFollowsTable`: a file leaves the page exactly if it was
deleted. `OverlayMeansWork`, `LightboxLetsGo`: nothing covers the page for ever.
Of two downloads the first one that ends takes the overlay of both away: the
converse of `OverlayMeansWork` is not claimed. `EveryCallIsReported`: liveness.
**`accounts`.** `ShownIsRecent`: the race between a fill and an invalidation shows
an old value again, but not for longer than `TTL + Slow` after the change.
`SignUpWasOpen` (action property): sign-up goes by the table, so that only a
request that was under way gets in. `AlwaysAnAdmin`: only two admins who act on
each other at the same time can leave none.
**`thumbnails`.** `ProgressAddsUp`: while one task has the entry for itself, done
and failed are what it has tried. With two tasks they are not: the second sets
the entry back, and the first counts on in it. `RepairsThumbnails`: a run without
failures leaves every row with a stored thumbnail, or none. `RegenerationEnds`
holds for two tasks as well, by the outer handler.

**Bounds.** Two parts are the least with a "next part" and a failure in the
first that could touch the second; batches share no state but the sweep and
the event's deletion, and the theorems cover any number of them, of parts, of
events and of admins. Two requests on two names is the least with an overlap on
one file and independent work on another; three stamps add a path but no case,
since a step compares two. `MCMediaStore` stops exploring at the first
disturbance (`CONSTRAINT Relevant`), because a disturbed key stays so and nothing
is claimed of it; the first state of a disturbance is still checked. The theorems
have no such limit: they speak of every behaviour, and of the undisturbed keys in it.
Two messages with two and one attachments are enough for a failed
attachment beside a stored one, and for two polls that take the messages in
different orders; `MaxFaults` bounds broken connections, failed stores, failed
commits and restarts together, and two of them already meet in one poll and in
two polls. Three files and two slots make files wait and batches overlap. Two files and
two requests make a deletion overlap with another and with a selection; the
gallery's other bounds are one finger, and a lightbox that is opened only when no
request is under way and behind which none is started (it shares no variable
with them). Of three users two can act on each other while a third signs up; a
clock of 1..4 with a cache and requests of one unit has room for a change, a fill
that was under way and its end. The durations are equal in the run; the theorems
are for any. Two files let a
regeneration fail on the one and succeed on the other; with one stamp the path
of a row changes between NULL and a name, and not from one name to another.

**Fairness.** *Build tasks*: the event loop runs every task that is ready, and
the thread that zips ends (weak fairness of `BuildTask`). *Time*: every
`expires_at` passes (`Expire`). *Cleanup*: the loop catches all exceptions and
comes back after five minutes (weak fairness of `CleanupSelect`); a commit that
is tried again and again succeeds some time (strong fairness of
`CleanupCommit`). That is an assumption on the database, not on the code;
without it no row would have to go. Nothing is assumed of
requests and admins. *Mail loop*: weak fairness of `PollStep(Loop)`, since it
catches all exceptions; faults are finitely many by `MaxFaults`, because a
server that never answers can keep a message for ever. *Browser*: every request
ends with `onload` or `onerror` (weak fairness of `Answered`). *Gallery*: a fetch is
answered or fails (weak fairness of `Serve`, as for the browser above), the rest
of a handler that can run runs (`Handled`), and a message is taken away by its
timer (`ToastFades`). Nothing is assumed of the user. *Accounts*: no fairness; its
properties are all safety. *Regeneration*: the
event loop runs every task that is ready (weak fairness of `TaskStep`).

**Deadlock** is checked in `thumbnails` (the process can always restart) and in
`gallery` (the user can always press Escape). In the other modules the system may
rest, with all archives gone, the event deleted, or no file left to send;
`accounts` stops at the bound of its clock.

## 4. Proofs

Eight modules of proofs, each about the specification of its module for all values
of its constants. All but `StoredFilesProofs`, which builds on `MediaStoreProofs`,
have the same shape: `IInv` is the inductive
invariant, a lemma per action (or per group of variables) shows that it is kept,
`StepKeeps` (`InvariantStep` in the first) puts them together, and the theorems
about the properties follow from `Invariant == Spec => []IInv`.

| Module | Assumes | Theorems, beside `Invariant` and `TypeCorrect` |
|---|---|---|
| `ArchiveServiceProofs` | `MaxParts` is positive, `EventOf` maps batches to events | `ReadyLinksServe` (`ReadyHasZip`), `BuildsOwnTheirFiles` (`DiskOwned`), `BuildsCleanUp` (`SettledLeavesNothing`), `DeletedStaysDeleted` (`NoResurrection`), `ServiceImplementsLink` (`ImplementsLink`) |
| `MediaStoreProofs` | `DirOf` maps guests to directories | `RowsAreUnique` (`OneRowPerName`), `RowsAreStored` (`RowsHaveFiles`), `NothingIsLeft` (`NothingLeftOver`) |
| `StoredFilesProofs` | the same | `StoreImplementsFiles` (`ImplementsFiles`), from the `Invariant` of `MediaStoreProofs` |
| `EmailIngestionProofs` | `PartsOf` maps messages to sets of parts, `NameOf` attachments to names, the two polls differ, `MaxFaults` is a number | `NoneImportedTwice` (`ImportedOnce`), `RowsComeWithUids` (`ProcessedHasMedia`), `NoneIsForgotten` (`NoneForgotten`) |
| `UploadQueueProofs` | finitely many files, at least one slot, the empty text is a text | `CountersAreRight` (`CountersAgree`), `NoSlotIsIdle` (`SlotsAreUsed`), `MessagesGoWithTheirBatch` (`SentWithItsBatch`) |
| `ThumbnailTaskProofs` | files are finitely many numbers | `ProgressIsRight` (`ProgressAddsUp`), `ThumbnailsAreRepaired` (`RepairsThumbnails`) |
| `GalleryProofs` | finitely many files | `SelectionIsShown` (`PageShowsSelection`), `SelectionIsOnPage` (`SelectedOnPage`), `PageIsCurrent` (`PageFollowsTable`), `OverlayIsJustified` (`OverlayMeansWork`), `LightboxIsReleased` (`LightboxLetsGo`) |
| `AccountsProofs` | durations are numbers, the setting is not newer than the process, `TTL <= Uptime` | `PagesCatchUp` (`ShownIsRecent`), `AnAdminIsLeft` (`AlwaysAnAdmin`), `SignUpsWereOpen` (`SignUpWasOpen`) |

**ArchiveService.** None of the safety properties is inductive. `ReadyHasZip` survives the cleanup
of a failed build only if the row of that part is not ready yet, so the
invariant must relate the place of each task to the row and the files of its
part: the parts beyond the current one have neither a directory nor a ZIP nor a
path; the current one has a directory exactly in the middle of the build,
a ZIP only at its end, and no path before `Save`; a row has a path only if it has
been saved. `IInv` collects these facts with the properties themselves.
`InitInvariant` and `InvariantStep` are the two halves of the induction;
`InvariantStep` goes through the actions, and under each through the conjuncts it
can disturb. The refinement (`LinkStep`) uses `IInv` for one thing above all: a
commit of a build never meets a row that is already ready or failed, so a ready
link does not turn back. Deletions withdraw several links in one step, which
is why `DownloadLink` has `Withdraw(S)`.

**MediaStore.** The properties speak of keys between requests; what makes them true
is what holds during one. `KeyOK` says it for one undisturbed key: it has one row
at most, one request at most has it in hand (`Alone`), and table and storage agree
as far as the place of that request says (`UploadAt`, `DeletionAt`, `ChangeAt`,
`DoneAt` for the files a bulk deletion is through with, `Purged` while the event is
deleted). The argument is one of non-interference: a request writes rows, originals
and thumbnails of the key it is at and of no other (`ShapeOf`, `RowsOf`), so that
`KeyStays` carries `KeyOK` over for every other key, and the lemma of an action has
to look at its own key only. Where two requests meet on a key it becomes disturbed
in that step. `IInv` was checked by TLC without the constraint of the run, on
instances small enough for that, before it was proved. The refinement
(`StoreImplementsFiles`) uses `IInv` to read the file of a key off the table
and the one request that has it in hand (`Mapped`): at rest it is what is recorded, in
hand what `Working` says. A step then has to be compared at these two only, key by
key (`Moved`), and `FilesMove` puts the keys together, of which a bulk deletion,
the deletion of the event and the end of the process move many at once.

**EmailIngestion.** What the tables come to say is decided in the sessions of the
two polls. `Fit` says of a session that its rows show what it has stored, one row per
attachment, and that whatever it has stored has a row of its name. A commit lays the
rows over the table (`OverlayFits`, `OverlayKeepsNames`): no name disappears from it,
and since the unique constraint lets only a session commit whose UIDs are new, no row
of the table shows an attachment that the session has too. `NoneSlips` is the argument
for `NoneForgotten`: a step may take an attachment out of a poll's hands only by
dropping it, which sets its `fate`, or by the commit; and it may mark or remove a
message only if a poll has it in hand, drops it in that step, or had it taken before.
The last of these covers the message that another poll has flagged.

**UploadQueue.** A handler changes the page and then sends what the queue holds;
`Agrees` states the counters for the values in between, and a lemma about
`ProcessUploadQueue` shows that it keeps them, however many files it sends.
`WaitsInItsBatch` is what `SentWithItsBatch` rests on: as long as a file of a batch
waits, the batch has not been cleared.

**ThumbnailTask.** While the entry is not shared one task is alive at most
(`Alone`), and `Sole` says of it: what it has read of a row still holds when it
writes the row (`ReadsHold`; a deletion only matters if the original is still
there), what it is about to write is stored (`StoredFirst`), and the entry counts
what it has tried (`CountsTried`). `DoneAddsUp` keeps the last of these beyond its end.

**Gallery.** `PageFollowsTable` says nothing of an answer that is not handled yet;
`AnswersHold` does: what it reports as done is gone from the table, or excused,
from the moment the server answers.

**Accounts.** `ShownIsRecent` looks at the cache alone, but a request that has read
the old value fills it later: `ReadsAreRecent` says that such a read is older
than the change and younger than `Slow`, `CacheIsRecent` what remains of it in the
cache. `AlwaysAnAdmin` needs `ActsOnOthers`: who acts keeps his own right.

Only model-checked: all liveness (`EveryLinkEnds`, `BatchIsWorkedThrough`,
`EveryMessageIsTaken`, `EveryFileIsAnswered`, `RegenerationEnds`,
`EveryCallIsReported`), which is out of TLAPS's reach here.

## 5. Not modelled, and the plan

Pure functions (QR codes, client address, translations, path and header
formatting), read-only pages, set-up and migrations have no behaviour to check.

Seen while modelling, without a property of its own:

- The loop loads its configurations in a session that it closes
  (`email_ingestion.py:280-284`), and `poll_mailbox` commits a session of its own:
  what it sets at line 256 is never written. `README.md:375` says that the
  dashboard shows the last poll's time and status; it does so for forced polls
  only. `lastPoll` and `Records` in `EmailIngestion` have this.
- `README.md:348` says that all image and video attachments are imported. One of the
  same sender and file name as an earlier one overwrites it
  (`media_service.py:201-208`), and all attachments without a file name have the same
  one (`email_ingestion.py:83`), so that of two such photos in one message the first is
  lost without any failure. If two polls have inserted the same name, nothing
  can be stored under it until a user deletes one of the rows. `StoreItem` and `Ambiguous` have this.
- `gallery.js` expects `download_url` and `file_count` of an answer
  (lines 256-262), which `routes/api.py` does not send any more; a single deletion
  does not change the file count of the page; the modal shows the number of files
  that were selected when it was opened.
- The inline script of `gallery.html` reads `pendingDeleteIds` again after the
  answer (lines 701-709): Escape or another dialog in between changes what leaves
  the page.

The rest is planned in this order:

1. The inline script of the gallery page, beside `Gallery`.
2. `Accounts`: reset tokens (two requests with one token), OIDC linking, and the
   events of a user who is deleted.
3. The deletion of an event during a poll, as a composition of `MediaStore` and
   `EmailIngestion`.
4. Names in a ZIP (`archive_service.py:133-142`) as an operator, checked against
   "as many names as files" over small inputs.
