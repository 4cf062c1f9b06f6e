-------------------------- MODULE MCArchiveService --------------------------
(***************************************************************************)
(* Small instances of ArchiveService for TLC.                              *)
(***************************************************************************)
EXTENDS ArchiveService, TLC

CONSTANTS b1, e1, d1

OneBatchOneEvent == b1 :> e1

(* The life of one process, without a restart. *)
OneLifeSpec == Init /\ [][OneLife]_vars

(* The same without admins and deleted events: only the cleanup loop removes *)
(* rows.                                                                    *)
CleanupOnly ==
    \/ Requests
    \/ \E b \in Batches : BuildTask(b)
    \/ \E a \in Archives : Expire(a)
    \/ CleanupLoop

CleanupOnlySpec == Init /\ [][CleanupOnly]_vars

(***************************************************************************)
(* An archive that is cancelled before its build has started is not built: *)
(* archive_service.py:111-115 re-checks for a cancellation "while we were  *)
(* starting".  It fails: the build first overwrites the status.            *)
(***************************************************************************)
CancelledBeforeStartIsNotBuilt ==
    [][\A a \in Archives :
          row[a].status = "cancelled" => row'[a].status # "processing"]_vars

(***************************************************************************)
(* The removal of a row takes its file along: README.md:305 says that the  *)
(* cleanup job "removes expired archives and their files from disk".  It   *)
(* fails without any error or restart: a row selected before its build     *)
(* saves file_path is deleted after it, and its ZIP stays on disk.         *)
(***************************************************************************)
RemovedRowLeavesNoZip ==
    \A a \in zips :
        \/ Exists(a)
        \/ cur[a[1]] = a[2] /\ pc[a[1]] \in {"zipped", "save"}
=============================================================================
