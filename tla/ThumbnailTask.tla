---------------------------- MODULE ThumbnailTask ----------------------------
(***************************************************************************)
(* The regeneration of all thumbnails of one event, or of the missing      *)
(* ones: a request starts a background task, which reports its progress in *)
(* a dictionary in memory.  A request is refused while the dictionary says *)
(* "running"; the task says so only once it runs, so that two requests in  *)
(* a row may start two tasks, which then share the entry.  Meanwhile files *)
(* of the event are deleted.                                               *)
(*                                                                         *)
(* MediaStore has the single steps of an upload or a deletion; here a      *)
(* deletion removes the files in one step and the row in another, no file  *)
(* is uploaded, no single thumbnail is regenerated by hand, and no two     *)
(* files have thumbnails of the same name.                                 *)
(*                                                                         *)
(* A definition named Bad... is a plausible defect of the one after it.    *)
(***************************************************************************)
EXTENDS Naturals, FiniteSets

CONSTANTS
    Files,      \* rows of media_files, in the order in which a query returns them
    Stamps,     \* the second in the name of a thumbnail
    Tasks       \* tasks that may run at the same time

ASSUME FilesAssumption == Files \subseteq Nat /\ IsFiniteSet(Files)

VARIABLES
    present,    \* rows in the table
    thumbPath,  \* thumb_path, {} for NULL
    thumbs,     \* thumbnails in the storage
    stripped,   \* rows without files: a deletion is halfway, or has failed there
    task,       \* the background tasks
    progress,   \* _regen_tasks[event_id]
    shared      \* history: two tasks have had the entry to share

vars == <<present, thumbPath, thumbs, stripped, task, progress, shared>>
table == <<present, thumbPath>>

-----------------------------------------------------------------------------
(* Types *)

Path == {{}} \cup {{s} : s \in Stamps}
NoProgress == [status |-> "idle"]
Progress ==
    [status : {"running", "done", "failed"},
     total : Nat, done : Nat, failed : Nat]

Ended == [pc |-> "none"]

(* missing is for the query only; files are the rows it has selected, todo  *)
(* those not yet tried, read the thumb_path that the session has of them,   *)
(* new the one it is going to write.                                        *)
Task ==
    [pc : {"created", "select", "next", "clear", "store", "commit"},
     missing : BOOLEAN, files : SUBSET Files, todo : SUBSET Files,
     at : SUBSET Files, read : [Files -> Path], new : Path]

TypeOK ==
    /\ present \subseteq Files
    /\ thumbPath \in [Files -> Path]
    /\ thumbs \subseteq Files \X Stamps
    /\ stripped \subseteq present
    /\ task \in [Tasks -> {Ended} \cup Task]
    /\ progress \in {NoProgress} \cup Progress
    /\ shared \in BOOLEAN

Named(f, path) == {f} \X path

(* Any rows, and whatever earlier runs, failures and restarts have left of *)
(* their thumbnails.                                                       *)
Init ==
    /\ present \in SUBSET Files
    /\ thumbPath \in [Files -> Path]
    /\ \A f \in Files \ present : thumbPath[f] = {}
    /\ thumbs \in SUBSET UNION {Named(f, thumbPath[f]) : f \in Files}
    /\ stripped = {}
    /\ task = [t \in Tasks |-> Ended]
    /\ progress = NoProgress
    /\ shared = FALSE

-----------------------------------------------------------------------------
(* Helpers *)

At(t, pc) == task[t].pc = pc
Alive(t) == ~At(t, "none")
OthersAlive(t) == \E o \in Tasks \ {t} : Alive(o)

(* A deletion takes the original first. *)
HasOriginal(f) == f \in present \ stripped

(* The task takes the rows in the order of the query. *)
IsNext(t, f) == f \in task[t].todo /\ \A g \in task[t].todo : f <= g

Ends(t) == task' = [task EXCEPT ![t] = Ended]

(* The path that a session has read matters until its file has been tried. *)
Forget(read, tried) == [f \in Files |-> IF f \in tried THEN {} ELSE read[f]]

(* The task is through with a file, however it went. *)
Next1(t) ==
    task' = [task EXCEPT ![t].pc = "next", ![t].at = {}, ![t].new = {},
                         ![t].read = Forget(@, task[t].at)]

Counts(field) == progress' = [progress EXCEPT ![field] = @ + 1]

-----------------------------------------------------------------------------
(* The request: the check and create_task are one step of the event loop *)

StartRegeneration(t, missing) ==
    /\ At(t, "none")
    /\ progress.status # "running"
    /\ task' = [task EXCEPT ![t] =
                   [pc |-> "created", missing |-> missing, files |-> {}, todo |-> {},
                    at |-> {}, read |-> [f \in Files |-> {}], new |-> {}]]
    /\ shared' = (shared \/ OthersAlive(t))
    /\ UNCHANGED <<table, thumbs, stripped, progress>>

-----------------------------------------------------------------------------
(* The task: regenerate_thumbnails_task *)

BadBegin(t) ==
    /\ At(t, "created")
    /\ task' = [task EXCEPT ![t].pc = "select"]
    /\ progress' = [progress EXCEPT !.status = "running"]
    /\ shared' = OthersAlive(t)
    /\ UNCHANGED <<table, thumbs, stripped>>

(* A new entry takes the place of the one before. *)
Begin(t) ==
    /\ At(t, "created")
    /\ task' = [task EXCEPT ![t].pc = "select"]
    /\ progress' = [status |-> "running", total |-> 0, done |-> 0, failed |-> 0]
    /\ shared' = OthersAlive(t)
    /\ UNCHANGED <<table, thumbs, stripped>>

SelectFiles(t) ==
    LET selected == {f \in present : task[t].missing => thumbPath[f] = {}}
    IN  /\ At(t, "select")
        /\ task' = [task EXCEPT ![t].pc = "next", ![t].missing = FALSE,
                                ![t].files = selected, ![t].todo = selected,
                                ![t].read = Forget(thumbPath, Files \ selected)]
        /\ progress' = [progress EXCEPT !.total = Cardinality(selected)]
        /\ UNCHANGED <<table, thumbs, stripped, shared>>

SelectFails(t) ==
    /\ At(t, "select")
    /\ Ends(t)
    /\ progress' = [progress EXCEPT !.status = "failed"]
    /\ UNCHANGED <<table, thumbs, stripped, shared>>

Retrieve(t, f) ==
    /\ At(t, "next")
    /\ IsNext(t, f)
    /\ HasOriginal(f)
    /\ task' = [task EXCEPT ![t].pc = "clear", ![t].todo = @ \ {f}, ![t].at = {f}]
    /\ UNCHANGED <<table, thumbs, stripped, progress, shared>>

BadRetrieveFails(t, f) ==
    /\ At(t, "next")
    /\ IsNext(t, f)
    /\ task' = [task EXCEPT ![t].todo = @ \ {f}, ![t].read = Forget(@, {f})]
    /\ UNCHANGED <<table, thumbs, stripped, progress, shared>>

(* The original is gone, or the storage fails. *)
RetrieveFails(t, f) ==
    /\ At(t, "next")
    /\ IsNext(t, f)
    /\ task' = [task EXCEPT ![t].todo = @ \ {f}, ![t].read = Forget(@, {f})]
    /\ Counts("failed")
    /\ UNCHANGED <<table, thumbs, stripped, shared>>

(* Whether the old thumbnail could be removed is not looked at. *)
ClearThumb(t) ==
    /\ At(t, "clear")
    /\ task' = [task EXCEPT ![t].pc = "store"]
    /\ \E gone \in {{}} \cup {Named(f, task[t].read[f]) : f \in task[t].at} :
          thumbs' = thumbs \ gone
    /\ UNCHANGED <<table, stripped, progress, shared>>

(* The name has the EXIF date of the file or, without one, the time now; a  *)
(* file that cannot be decoded gets no thumbnail.                           *)
StoreThumb(t) ==
    /\ At(t, "store")
    /\ \E new \in Path :
          /\ task' = [task EXCEPT ![t].pc = "commit", ![t].new = new]
          /\ thumbs' = thumbs \cup task[t].at \X new
    /\ UNCHANGED <<table, stripped, progress, shared>>

BadStoreThumbFails(t) ==
    /\ At(t, "store")
    /\ Next1(t)
    /\ Counts("done")
    /\ UNCHANGED <<table, thumbs, stripped, shared>>

(* The row still names the old thumbnail. *)
StoreThumbFails(t) ==
    /\ At(t, "store")
    /\ Next1(t)
    /\ Counts("failed")
    /\ UNCHANGED <<table, thumbs, stripped, shared>>

(* The row is written only if the path has changed since it was read. *)
Changes(t) == \E f \in task[t].at : task[t].new # task[t].read[f]

Commit(t) ==
    /\ At(t, "commit")
    /\ Changes(t) => task[t].at \subseteq present
    /\ thumbPath' = [f \in Files |-> IF f \in task[t].at /\ Changes(t)
                                     THEN task[t].new ELSE thumbPath[f]]
    /\ Next1(t)
    /\ Counts("done")
    /\ UNCHANGED <<present, thumbs, stripped, shared>>

BadCommitBreaks(t) ==
    /\ At(t, "commit")
    /\ Changes(t)
    /\ Ends(t)
    /\ UNCHANGED <<table, thumbs, stripped, progress, shared>>

(* The row is gone or the database refuses: the handler for one file reads *)
(* mf.id, which the broken session refuses, so that the whole task ends.   *)
CommitBreaks(t) ==
    /\ At(t, "commit")
    /\ Changes(t)
    /\ Ends(t)
    /\ progress' = [progress EXCEPT !.status = "failed"]
    /\ UNCHANGED <<table, thumbs, stripped, shared>>

Finish(t) ==
    /\ At(t, "next")
    /\ task[t].todo = {}
    /\ Ends(t)
    /\ progress' = [progress EXCEPT !.status = "done"]
    /\ UNCHANGED <<table, thumbs, stripped, shared>>

-----------------------------------------------------------------------------
(* The deletion of a file: delete_media_file *)

(* A deletion that fails after this leaves the row; it may be asked for    *)
(* again.  The storage's own failures are those of MediaStore.             *)
DeleteFiles(f) ==
    /\ f \in present
    /\ stripped' = stripped \cup {f}
    /\ thumbs' = thumbs \ Named(f, thumbPath[f])
    /\ UNCHANGED <<table, task, progress, shared>>

DeleteRow(f) ==
    /\ f \in stripped
    /\ present' = present \ {f}
    /\ thumbPath' = [thumbPath EXCEPT ![f] = {}]
    /\ stripped' = stripped \ {f}
    /\ UNCHANGED <<thumbs, task, progress, shared>>

(* The process ends: tasks and dictionary were in memory. *)
Restart ==
    /\ task' = [t \in Tasks |-> Ended]
    /\ progress' = NoProgress
    /\ shared' = FALSE
    /\ UNCHANGED <<table, thumbs, stripped>>

-----------------------------------------------------------------------------
TaskStep(t) ==
    \/ Begin(t) \/ SelectFiles(t) \/ SelectFails(t)
    \/ \E f \in Files : Retrieve(t, f) \/ RetrieveFails(t, f)
    \/ ClearThumb(t) \/ StoreThumb(t) \/ StoreThumbFails(t)
    \/ Commit(t) \/ CommitBreaks(t) \/ Finish(t)

Next ==
    \/ \E t \in Tasks :
          \/ \E missing \in BOOLEAN : StartRegeneration(t, missing)
          \/ TaskStep(t)
    \/ \E f \in Files : DeleteFiles(f) \/ DeleteRow(f)
    \/ Restart

Spec == Init /\ [][Next]_vars

(* The event loop runs every task that is ready. *)
FairSpec == Spec /\ \A t \in Tasks : WF_vars(TaskStep(t))

-----------------------------------------------------------------------------
(* Properties *)

Tried(t) == task[t].files \ (task[t].todo \cup task[t].at)

(***************************************************************************)
(* While one task has the entry for itself, the progress adds up: what is  *)
(* done and what has failed is what has been tried, and a run that says    *)
(* "done" has tried every file that it has selected, whatever was deleted  *)
(* meanwhile.  media_service.py:351-402.                                   *)
(***************************************************************************)
ProgressAddsUp ==
    ~shared =>
        /\ progress.status = "done" =>
              progress.done + progress.failed = progress.total
        /\ \A t \in Tasks : task[t].pc \in {"next", "clear", "store", "commit"} =>
              /\ progress.status = "running"
              /\ progress.done + progress.failed = Cardinality(Tried(t))
              /\ progress.total = Cardinality(task[t].files)

(***************************************************************************)
(* A regeneration of all thumbnails repairs what earlier failures left, and *)
(* loses none without counting it: as long as it reports no failure, every *)
(* row it has tried names a thumbnail that is stored, or none.  Rows that  *)
(* a deletion has taken the files of are excepted; the regeneration of one *)
(* thumbnail by hand (api.py:257) would need the same exception and is not *)
(* in the module.  media_service.py:364-397.                               *)
(***************************************************************************)
RepairsThumbnails ==
    \A t \in Tasks :
        Alive(t) /\ ~shared /\ progress.status = "running" /\ progress.failed = 0 =>
            \A f \in Tried(t) :
                HasOriginal(f) => Named(f, thumbPath[f]) \subseteq thumbs

(***************************************************************************)
(* A regeneration comes to an end, also when two share the entry: the      *)
(* button that starts one is not refused for ever.                         *)
(* media_service.py:399-402, routes/api.py:284-286.                        *)
(***************************************************************************)
RegenerationEnds ==
    progress.status = "running" ~> progress.status # "running"
=============================================================================
