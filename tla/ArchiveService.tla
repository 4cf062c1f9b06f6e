--------------------------- MODULE ArchiveService ---------------------------
(***************************************************************************)
(* The asynchronous ZIP downloads of EventDrop: the rows of                *)
(* archive_requests, the files in EVENTDROP_ARCHIVE_TEMP_PATH, and the     *)
(* actors that share them without any lock:                                *)
(*                                                                         *)
(*   - a download request, which inserts one row per part of the batch     *)
(*     (one commit each) and then spawns the build task of the batch;      *)
(*   - the build task, which builds the parts one after the other;         *)
(*   - admins, who cancel and delete single archives;                      *)
(*   - the deletion of the whole event;                                    *)
(*   - the cleanup loop, which removes expired archives;                   *)
(*   - the end of the process, after which no build task is restarted.     *)
(*                                                                         *)
(* The server is one asyncio process: what it does between two awaits is   *)
(* one step, and any other actor may run at an await.  A statement or a    *)
(* commit that raises is a step of its own.  A SELECT that only tells the  *)
(* code that its row exists is part of the commit that follows it: the     *)
(* UPDATE of a row deleted in between raises too, with the same outcome.   *)
(*                                                                         *)
(* A definition named Bad... is a plausible defect of the definition that  *)
(* follows it and is part of no specification: the property named in       *)
(* PROJECT.json fails when it takes that definition's place.               *)
(***************************************************************************)
EXTENDS Naturals

CONSTANTS
    Batches,        \* download requests that may ever be made
    MaxParts,       \* bound on the parts of one batch
    Events,
    EventOf,        \* the event a batch downloads from
    Admins          \* concurrent requests of the admin pages

ASSUME ArchiveAssumption ==
    /\ MaxParts \in Nat \ {0}
    /\ EventOf \in [Batches -> Events]

Archives == Batches \X (1 .. MaxParts)

VARIABLES
    row,            \* table archive_requests
    zips,           \* archives whose ZIP file is on disk
    tmp,            \* archives whose directory tmp_<archive_id> is on disk
    event,          \* table events: "live", "deleting" (request open), "gone"
    total,          \* number of parts the request split the media into
    made,           \* rows the request has committed so far
    pc,             \* where the request, then the build task, of a batch is
    cur,            \* the part the build task is at
    admin,          \* the row an admin request has read and not committed yet
    sweep,          \* rows the cleanup loop has selected and not committed yet
    torn            \* history: rows whose deletion failed after the file went

vars == <<row, zips, tmp, event, total, made, pc, cur, admin, sweep, torn>>
disk == <<zips, tmp>>
task == <<total, made, pc, cur>>
others == <<event, admin, sweep, torn>>

-----------------------------------------------------------------------------
(* Types *)

Status == {"absent", "pending", "processing", "ready", "failed", "cancelled"}
Phase == {"none", "retrieving", "archiving"}

(* "absent" is the row before its INSERT and after its DELETE; filed says  *)
(* that file_path is set, due that expires_at has passed.                  *)
ArchiveRequest ==
    [status : Status, phase : Phase, filed : BOOLEAN, due : BOOLEAN]

Absent ==
    [status |-> "absent", phase |-> "none", filed |-> FALSE, due |-> FALSE]

Working == {"start", "recheck", "retrieve", "rephase", "zip", "zipped",
            "save", "failing"}
Alive == Working \cup {"enqueue"}

(* "lost": the request or the task ended, by an error or with the process, *)
(* before it had dealt with all parts.                                     *)
PC == Alive \cup {"idle", "done", "lost"}

Op == {"idle", "cancel", "delete"}
NoRequest == [op |-> "idle"]
AdminRequest == {NoRequest} \cup [op : {"cancel", "delete"}, on : Archives]

TypeOK ==
    /\ row \in [Archives -> ArchiveRequest]
    /\ zips \subseteq Archives
    /\ tmp \subseteq Archives
    /\ event \in [Events -> {"live", "deleting", "gone"}]
    /\ total \in [Batches -> 0 .. MaxParts]
    /\ made \in [Batches -> 0 .. MaxParts]
    /\ pc \in [Batches -> PC]
    /\ cur \in [Batches -> 0 .. MaxParts]
    /\ admin \in [Admins -> AdminRequest]
    /\ sweep \subseteq Archives
    /\ torn \subseteq Archives

Init ==
    /\ row = [a \in Archives |-> Absent]
    /\ zips = {}
    /\ tmp = {}
    /\ event = [e \in Events |-> "live"]
    /\ total = [b \in Batches |-> 0]
    /\ made = [b \in Batches |-> 0]
    /\ pc = [b \in Batches |-> "idle"]
    /\ cur = [b \in Batches |-> 0]
    /\ admin = [d \in Admins |-> NoRequest]
    /\ sweep = {}
    /\ torn = {}

-----------------------------------------------------------------------------
(* Helpers *)

Exists(a) == row[a].status # "absent"
Cur(b) == <<b, cur[b]>>
Filed(S) == {a \in S : row[a].filed}
OfEvent(e) == {a \in Archives : EventOf[a[1]] = e}

(* The UPDATE of a row sets the columns the session has seen change. *)
Sets(a, status, phase) ==
    row' = [row EXCEPT ![a].status = status, ![a].phase = phase]

Deletes(S) == row' = [a \in Archives |-> IF a \in S THEN Absent ELSE row[a]]

(* Rows that name a file which is not there. *)
Unfiled == {a \in Archives : row[a].filed /\ a \notin zips}

BadNextPartBeyondLast(b) ==
    /\ pc' = [pc EXCEPT ![b] = IF cur[b] <= total[b] THEN "start" ELSE "done"]
    /\ cur' = [cur EXCEPT ![b] = IF cur[b] <= total[b] THEN @ + 1 ELSE @]
    /\ UNCHANGED <<total, made>>

BadNextPartSamePart(b) ==
    /\ pc' = [pc EXCEPT ![b] = "start"]
    /\ UNCHANGED <<total, made, cur>>

(* The task turns to the next part of the batch, or ends. *)
NextPart(b) ==
    /\ IF cur[b] < total[b]
       THEN /\ pc' = [pc EXCEPT ![b] = "start"]
            /\ cur' = [cur EXCEPT ![b] = @ + 1]
       ELSE /\ pc' = [pc EXCEPT ![b] = "done"]
            /\ cur' = cur
    /\ UNCHANGED <<total, made>>

Goto(b, from, to) ==
    /\ pc[b] = from
    /\ pc' = [pc EXCEPT ![b] = to]
    /\ UNCHANGED <<total, made, cur>>

(* What the exception handler of the build does before its first await. *)
RemoveLeftovers(b) ==
    /\ tmp' = tmp \ {Cur(b)}
    /\ zips' = zips \ {Cur(b)}

-----------------------------------------------------------------------------
(* The download request *)

(* The media are split into chunks; the number of chunks is all that      *)
(* matters here.                                                          *)
EnqueueBatch(b) ==
    /\ pc[b] = "idle"
    /\ event[EventOf[b]] # "gone"
    /\ \E n \in 1 .. MaxParts : total' = [total EXCEPT ![b] = n]
    /\ pc' = [pc EXCEPT ![b] = "enqueue"]
    /\ UNCHANGED <<row, disk, made, cur, others>>

(* One INSERT and commit per part; after the last one the task is created. *)
(* The event may be gone by then: SQLite checks no foreign key.            *)
EnqueueArchive(b) ==
    /\ pc[b] = "enqueue"
    /\ made' = [made EXCEPT ![b] = @ + 1]
    /\ row' = [row EXCEPT ![<<b, made[b] + 1>>].status = "pending"]
    /\ IF made[b] + 1 = total[b]
       THEN /\ pc' = [pc EXCEPT ![b] = "start"]
            /\ cur' = [cur EXCEPT ![b] = 1]
       ELSE UNCHANGED <<pc, cur>>
    /\ UNCHANGED <<disk, total, others>>

(* A commit raises: the request answers 500, no task is created, and the  *)
(* rows of the earlier parts stay.                                        *)
EnqueueFails(b) ==
    /\ Goto(b, "enqueue", "lost")
    /\ UNCHANGED <<row, disk, others>>

-----------------------------------------------------------------------------
(* The build task *)

(* The status is overwritten whatever it is: "cancelled" too. *)
Start(b) ==
    /\ Goto(b, "start", "recheck")
    /\ Exists(Cur(b))
    /\ Sets(Cur(b), "processing", "retrieving")
    /\ UNCHANGED <<disk, others>>

Recheck(b) ==
    /\ Goto(b, "recheck", "retrieve")
    /\ row[Cur(b)].status \notin {"absent", "cancelled"}
    /\ UNCHANGED <<row, disk, others>>

FoundCancelled(b) ==
    /\ pc[b] = "recheck"
    /\ row[Cur(b)].status = "cancelled"
    /\ NextPart(b)
    /\ UNCHANGED <<row, disk, others>>

(* Files that cannot be retrieved are left out of the ZIP. *)
Retrieve(b) ==
    /\ Goto(b, "retrieve", "rephase")
    /\ tmp' = tmp \cup {Cur(b)}
    /\ UNCHANGED <<row, zips, others>>

(* Only the phase is written: a cancellation meanwhile is kept, unread. *)
Rephase(b) ==
    /\ Goto(b, "rephase", "zip")
    /\ Exists(Cur(b))
    /\ row' = [row EXCEPT ![Cur(b)].phase = "archiving"]
    /\ UNCHANGED <<disk, others>>

MakeZip(b) ==
    /\ Goto(b, "zip", "zipped")
    /\ zips' = zips \cup {Cur(b)}
    /\ UNCHANGED <<row, tmp, others>>

RemoveTmp(b) ==
    /\ Goto(b, "zipped", "save")
    /\ tmp' = tmp \ {Cur(b)}
    /\ UNCHANGED <<row, zips, others>>

BadSaveThenCleanUp(b) ==
    /\ pc[b] = "save"
    /\ Exists(Cur(b))
    /\ row' = [row EXCEPT ![Cur(b)].status = "ready", ![Cur(b)].phase = "none",
                          ![Cur(b)].filed = TRUE]
    /\ RemoveLeftovers(b)
    /\ NextPart(b)
    /\ UNCHANGED others

Save(b) ==
    /\ pc[b] = "save"
    /\ Exists(Cur(b))
    /\ row' = [row EXCEPT ![Cur(b)].status = "ready", ![Cur(b)].phase = "none",
                          ![Cur(b)].filed = TRUE]
    /\ NextPart(b)
    /\ UNCHANGED <<disk, others>>

BadRaiseKeepsZip(b) ==
    /\ pc[b] \in Working \ {"failing"}
    /\ Goto(b, pc[b], "failing")
    /\ tmp' = tmp \ {Cur(b)}
    /\ UNCHANGED <<row, zips, others>>

(* An exception that leaves the session usable. *)
Raise(b) ==
    /\ pc[b] \in Working \ {"failing"}
    /\ Goto(b, pc[b], "failing")
    /\ RemoveLeftovers(b)
    /\ UNCHANGED <<row, others>>

BadRecordFailureUpserts(b) ==
    /\ pc[b] = "failing"
    /\ Sets(Cur(b), "failed", "none")
    /\ NextPart(b)
    /\ UNCHANGED <<disk, others>>

(* The handler finds the row and marks it. *)
RecordFailure(b) ==
    /\ pc[b] = "failing"
    /\ Exists(Cur(b))
    /\ Sets(Cur(b), "failed", "none")
    /\ NextPart(b)
    /\ UNCHANGED <<disk, others>>

BadFailureRetried(b) ==
    /\ pc[b] = "failing"
    /\ Exists(Cur(b))
    /\ NextPart(b)
    /\ UNCHANGED <<row, disk, others>>

(* The handler cannot mark the row: it is gone, or the database refuses. *)
FailureUnrecorded(b) ==
    /\ pc[b] = "failing"
    /\ NextPart(b)
    /\ UNCHANGED <<row, disk, others>>

BadFlushRaisesKeepsTmp(b) ==
    /\ pc[b] \in {"start", "rephase", "save"}
    /\ zips' = zips \ {Cur(b)}
    /\ NextPart(b)
    /\ UNCHANGED <<row, tmp, others>>

(* A flush raises, because the row is gone or the database refuses it: the *)
(* session then refuses every statement of the handler, too.               *)
FlushRaises(b) ==
    /\ pc[b] \in {"start", "rephase", "save"}
    /\ RemoveLeftovers(b)
    /\ NextPart(b)
    /\ UNCHANGED <<row, others>>

BuildTask(b) ==
    \/ Start(b) \/ Recheck(b) \/ FoundCancelled(b) \/ Retrieve(b)
    \/ Rephase(b) \/ MakeZip(b) \/ RemoveTmp(b) \/ Save(b) \/ Raise(b)
    \/ RecordFailure(b) \/ FailureUnrecorded(b) \/ FlushRaises(b)

-----------------------------------------------------------------------------
(* The admin pages *)

CancelRead(d, a) ==
    /\ admin[d] = NoRequest
    /\ row[a].status \in {"pending", "processing"}
    /\ admin' = [admin EXCEPT ![d] = [op |-> "cancel", on |-> a]]
    /\ UNCHANGED <<row, disk, task, event, sweep, torn>>

(* The row is written as it was decided, whatever has become of it. *)
CancelCommit(d) ==
    /\ admin[d].op = "cancel"
    /\ Exists(admin[d].on)
    /\ row' = [row EXCEPT ![admin[d].on].status = "cancelled"]
    /\ admin' = [admin EXCEPT ![d] = NoRequest]
    /\ UNCHANGED <<disk, task, event, sweep, torn>>

(* The row is gone, or the commit raises. *)
CancelFails(d) ==
    /\ admin[d].op = "cancel"
    /\ admin' = [admin EXCEPT ![d] = NoRequest]
    /\ UNCHANGED <<row, disk, task, event, sweep, torn>>

(* The file named by the row goes before the row does. *)
DeleteRead(d, a) ==
    /\ admin[d] = NoRequest
    /\ Exists(a)
    /\ zips' = zips \ Filed({a})
    /\ admin' = [admin EXCEPT ![d] = [op |-> "delete", on |-> a]]
    /\ UNCHANGED <<row, tmp, task, event, sweep, torn>>

DeleteCommit(d) ==
    /\ admin[d].op = "delete"
    /\ Deletes({admin[d].on})
    /\ admin' = [admin EXCEPT ![d] = NoRequest]
    /\ UNCHANGED <<disk, task, event, sweep, torn>>

DeleteFails(d) ==
    /\ admin[d].op = "delete"
    /\ admin' = [admin EXCEPT ![d] = NoRequest]
    /\ torn' = torn \cup Unfiled
    /\ UNCHANGED <<row, disk, task, event, sweep>>

-----------------------------------------------------------------------------
(* The deletion of an event: delete_event, then the commit of get_db *)

DeleteEventFiles(e) ==
    /\ event[e] = "live"
    /\ event' = [event EXCEPT ![e] = "deleting"]
    /\ zips' = zips \ Filed(OfEvent(e))
    /\ UNCHANGED <<row, tmp, task, admin, sweep, torn>>

(* The bulk DELETE takes the rows that are there now. *)
DeleteEventCommit(e) ==
    /\ event[e] = "deleting"
    /\ event' = [event EXCEPT ![e] = "gone"]
    /\ Deletes(OfEvent(e))
    /\ UNCHANGED <<disk, task, admin, sweep, torn>>

DeleteEventFails(e) ==
    /\ event[e] = "deleting"
    /\ event' = [event EXCEPT ![e] = "live"]
    /\ torn' = torn \cup Unfiled
    /\ UNCHANGED <<row, disk, task, admin, sweep>>

-----------------------------------------------------------------------------
(* Time and the cleanup loop *)

Expire(a) ==
    /\ Exists(a)
    /\ ~row[a].due
    /\ row' = [row EXCEPT ![a].due = TRUE]
    /\ UNCHANGED <<disk, task, others>>

Expired == {a \in Archives : row[a].due}

BadCleanupSelectReadyOnly ==
    /\ sweep = {}
    /\ Filed(Expired) # {}
    /\ sweep' = Filed(Expired)
    /\ zips' = zips \ Filed(Expired)
    /\ UNCHANGED <<row, tmp, task, event, admin, torn>>

CleanupSelect ==
    /\ sweep = {}
    /\ Expired # {}
    /\ sweep' = Expired
    /\ zips' = zips \ Filed(Expired)
    /\ UNCHANGED <<row, tmp, task, event, admin, torn>>

CleanupCommit ==
    /\ sweep # {}
    /\ Deletes(sweep)
    /\ sweep' = {}
    /\ UNCHANGED <<disk, task, event, admin, torn>>

CleanupFails ==
    /\ sweep # {}
    /\ sweep' = {}
    /\ UNCHANGED <<row, disk, task, event, admin, torn>>

-----------------------------------------------------------------------------
(* The process ends, by a crash or a shutdown: the open transactions are   *)
(* rolled back, the files stay, and the next start resumes no build.       *)
Restart ==
    /\ pc' = [b \in Batches |-> IF pc[b] \in Alive THEN "lost" ELSE pc[b]]
    /\ event' = [e \in Events |->
                    IF event[e] = "deleting" THEN "live" ELSE event[e]]
    /\ admin' = [d \in Admins |-> NoRequest]
    /\ sweep' = {}
    /\ torn' = torn \cup Unfiled
    /\ UNCHANGED <<row, disk, total, made, cur>>

-----------------------------------------------------------------------------
Requests ==
    \E b \in Batches : EnqueueBatch(b) \/ EnqueueArchive(b) \/ EnqueueFails(b)

AdminPages ==
    \E d \in Admins :
        \/ \E a \in Archives : CancelRead(d, a) \/ DeleteRead(d, a)
        \/ CancelCommit(d) \/ CancelFails(d)
        \/ DeleteCommit(d) \/ DeleteFails(d)

EventDeletion ==
    \E e \in Events :
        DeleteEventFiles(e) \/ DeleteEventCommit(e) \/ DeleteEventFails(e)

CleanupLoop == CleanupSelect \/ CleanupCommit \/ CleanupFails

OneLife ==
    \/ Requests
    \/ \E b \in Batches : BuildTask(b)
    \/ AdminPages
    \/ EventDeletion
    \/ \E a \in Archives : Expire(a)
    \/ CleanupLoop

Next == OneLife \/ Restart

Spec == Init /\ [][Next]_vars

(***************************************************************************)
(* The event loop runs every task that is not waiting, time passes, and    *)
(* the loop sweeps every five minutes.  A sweep that is rolled back is     *)
(* tried again: it is assumed not to be rolled back for ever.              *)
(***************************************************************************)
Fairness ==
    /\ \A b \in Batches : WF_vars(BuildTask(b))
    /\ \A a \in Archives : WF_vars(Expire(a))
    /\ WF_vars(CleanupSelect)
    /\ SF_vars(CleanupCommit)

FairSpec == Spec /\ Fairness
-----------------------------------------------------------------------------
(* Safety *)

BeingDeleted(a) ==
    \/ event[EventOf[a[1]]] = "deleting"
    \/ \E d \in Admins : admin[d] = [op |-> "delete", on |-> a]

(***************************************************************************)
(* A link that shows "ready" can be downloaded: its ZIP is on disk until   *)
(* the link expires.  Only a deletion takes the file first, and leaves a   *)
(* ready link without a file only if its own commit fails (torn).          *)
(* archive_service.py:170-185 and 226-251, routes/admin.py:157-171.        *)
(***************************************************************************)
ReadyHasZip ==
    \A a \in Archives :
        row[a].status = "ready" /\ ~row[a].due /\ a \notin zips
            => a \in torn \/ BeingDeleted(a)

(***************************************************************************)
(* Builds leave nothing behind: a temporary directory belongs to the part  *)
(* its task is at, or was at when the process ended, and a ZIP whose row   *)
(* still exists is named by that row or belongs to that part.  So every    *)
(* way out of the build cleans up, and one part of a batch is built at a   *)
(* time.  archive_service.py:47-50, 128-207.                               *)
(***************************************************************************)
DiskOwned ==
    /\ \A a \in tmp :
           /\ cur[a[1]] = a[2]
           /\ pc[a[1]] \in {"rephase", "zip", "zipped", "lost"}
    /\ \A a \in zips :
           \/ ~Exists(a)
           \/ row[a].filed
           \/ cur[a[1]] = a[2] /\ pc[a[1]] \in {"zipped", "save", "lost"}

(***************************************************************************)
(* A failed part leaves neither a ZIP nor a temporary directory, and a     *)
(* ready one no temporary directory.  archive_service.py:173-174, 188-205. *)
(***************************************************************************)
SettledLeavesNothing ==
    \A a \in Archives :
        /\ row[a].status = "failed" => a \notin zips \cup tmp
        /\ row[a].status = "ready" => a \notin tmp

(***************************************************************************)
(* A deleted archive stays deleted: a build, a cancellation or a handler   *)
(* that still holds it must not write its row again.                       *)
(* archive_service.py:147-207, routes/admin.py:145-171.                    *)
(***************************************************************************)
Issued(a) == a[2] <= made[a[1]]
NoResurrection ==
    [][\A a \in Archives : Issued(a) /\ ~Exists(a) => ~Exists(a)']_vars

-----------------------------------------------------------------------------
(* Liveness *)

(***************************************************************************)
(* A batch whose task was created is worked through to its last part,      *)
(* whatever fails, is cancelled or is deleted on the way, unless the       *)
(* process ends.  archive_service.py:47-50, 188-207.                       *)
(***************************************************************************)
BatchIsWorkedThrough ==
    \A b \in Batches : pc[b] = "start" ~> pc[b] \in {"done", "lost"}

-----------------------------------------------------------------------------
(* The link a row stands for *)

LinkOf(a) ==
    CASE ~Exists(a) /\ ~Issued(a) -> "unissued"
      [] ~Exists(a) /\ Issued(a) -> "gone"
      [] Exists(a) /\ row[a].due -> "expired"
      [] Exists(a) /\ ~row[a].due ->
            IF row[a].status \in {"pending", "processing"}
            THEN "open" ELSE row[a].status

Link == INSTANCE DownloadLink
            WITH Links <- Archives, link <- [a \in Archives |-> LinkOf(a)]

(***************************************************************************)
(* The service implements the promise of DownloadLink: a link that has     *)
(* expired or is gone never comes back, a ready one never turns to         *)
(* waiting or failed, and a failed one is never published.                 *)
(***************************************************************************)
ImplementsLink == Link!LinkSpec

(***************************************************************************)
(* Every link ends up withdrawn, by a deletion or by the cleanup loop:     *)
(* also those whose build never ran, failed, was cancelled or was lost.    *)
(***************************************************************************)
EveryLinkEnds == Link!EveryLinkEnds
=============================================================================
