--------------------------- MODULE MCUploadQueue ---------------------------
(***************************************************************************)
(* Small instances of UploadQueue for TLC.                                 *)
(***************************************************************************)
EXTENDS UploadQueue

(***************************************************************************)
(* README.md:313: the message "is attached to every file in that upload    *)
(* session".  It fails for a file that is sent again once the rest of its  *)
(* batch is done: updateSummary has cleared the message by then.           *)
(***************************************************************************)
MessageOnEveryFile ==
    \A f \in Files :
        item[f] \notin {"none", "queued"} => sent[f] = batchOf[f]
=============================================================================
