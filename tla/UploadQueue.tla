---------------------------- MODULE UploadQueue ----------------------------
(***************************************************************************)
(* The upload page of a guest: the queue in the browser that sends the     *)
(* chosen files, at most CONCURRENT_UPLOADS at a time, each with the       *)
(* message of its batch.  Every action is one run of an event handler,     *)
(* which JavaScript never interrupts.                                      *)
(*                                                                         *)
(* A definition named Bad... is a plausible defect of the one after it.    *)
(***************************************************************************)
EXTENDS Naturals, Sequences, FiniteSets, SequencesExt

CONSTANTS
    Files,
    Texts,              \* what the guest may type as a message
    NoText,             \* the empty message
    CONCURRENT_UPLOADS

ASSUME QueueAssumption ==
    /\ IsFiniteSet(Files)
    /\ NoText \in Texts
    /\ CONCURRENT_UPLOADS \in Nat \ {0}

VARIABLES
    item,           \* what the page shows of a file
    uploadPending,
    pendingCount, activeUploads, doneCount, errorCount,
    batch,          \* batchStarted and batchMessage
    text,           \* the message field
    sent,           \* the message a file was last sent with
    batchOf,        \* history: the message of the batch a file was added to
    retried         \* history: the files that were sent again

vars == <<item, uploadPending, pendingCount, activeUploads, doneCount, errorCount,
          batch, text, sent, batchOf, retried>>

-----------------------------------------------------------------------------
(* "error" has a button to retry, "failed" (a network error) has none. *)
Shown == {"none", "queued", "sending", "done", "error", "failed"}

Showing(s) == {f \in Files : item[f] = s}

TypeOK ==
    /\ item \in [Files -> Shown]
    /\ uploadPending \in Seq(Files)
    /\ {pendingCount, activeUploads, doneCount, errorCount} \subseteq Nat
    /\ batch \in [started : BOOLEAN, message : Texts]
    /\ text \in Texts
    /\ sent \in [Files -> Texts]
    /\ batchOf \in [Files -> Texts]
    /\ retried \subseteq Files

Init ==
    /\ item = [f \in Files |-> "none"]
    /\ uploadPending = <<>>
    /\ pendingCount = 0 /\ activeUploads = 0 /\ doneCount = 0 /\ errorCount = 0
    /\ batch = [started |-> FALSE, message |-> NoText]
    /\ text = NoText
    /\ sent = [f \in Files |-> NoText]
    /\ batchOf = [f \in Files |-> NoText]
    /\ retried = {}

-----------------------------------------------------------------------------
(* Helpers *)

(* processUploadQueue, called with queue, active and items: the first files *)
(* are sent until every slot is taken, with the message of the moment.      *)
BadProcessUploadQueue(queue, active, items, message) ==
    LET first == IF queue # <<>> /\ active = 0 THEN {Head(queue)} ELSE {}
    IN  /\ uploadPending' = IF first = {} THEN queue ELSE Tail(queue)
        /\ activeUploads' = active + Cardinality(first)
        /\ item' = [f \in Files |-> IF f \in first THEN "sending" ELSE items[f]]
        /\ sent' = [f \in Files |-> IF f \in first THEN message ELSE sent[f]]

ProcessUploadQueue(queue, active, items, message) ==
    LET free == CONCURRENT_UPLOADS - active
        n == IF Len(queue) < free THEN Len(queue) ELSE free
        first == ToSet(SubSeq(queue, 1, n))
    IN  /\ uploadPending' = SubSeq(queue, n + 1, Len(queue))
        /\ activeUploads' = active + n
        /\ item' = [f \in Files |-> IF f \in first THEN "sending" ELSE items[f]]
        /\ sent' = [f \in Files |-> IF f \in first THEN message ELSE sent[f]]

(* updateSummary *)
BadUpdateSummary(pending, done) ==
    batch' = IF done > 0
             THEN [started |-> FALSE, message |-> NoText] ELSE batch

UpdateSummary(pending, done) ==
    batch' = IF pending = 0 /\ done > 0
             THEN [started |-> FALSE, message |-> NoText] ELSE batch

-----------------------------------------------------------------------------
(* Event handlers *)

Types(t) ==
    /\ text # t
    /\ text' = t
    /\ UNCHANGED <<item, uploadPending, pendingCount, activeUploads, doneCount,
                   errorCount, batch, sent, batchOf, retried>>

(* handleFiles: the first file of a batch captures the message. *)
HandleFiles(files) ==
    /\ pendingCount' = pendingCount + Len(files)
    /\ batch' = IF batch.started THEN batch
                ELSE [started |-> TRUE, message |-> text]
    /\ batchOf' = [f \in Files |-> IF f \in ToSet(files) THEN batch'.message
                                   ELSE batchOf[f]]
    /\ ProcessUploadQueue(
          uploadPending \o files, activeUploads,
          [f \in Files |-> IF f \in ToSet(files) THEN "queued" ELSE item[f]],
          batch'.message)
    /\ UNCHANGED <<doneCount, errorCount, text, retried>>

(* xhr.onload, with status 200 and with any other. *)
Done(f) ==
    /\ item[f] = "sending"
    /\ pendingCount' = pendingCount - 1
    /\ doneCount' = doneCount + 1
    /\ UpdateSummary(pendingCount', doneCount')
    /\ ProcessUploadQueue(uploadPending, activeUploads - 1,
                          [item EXCEPT ![f] = "done"], batch'.message)
    /\ UNCHANGED <<errorCount, text, batchOf, retried>>

Error(f) ==
    /\ item[f] = "sending"
    /\ pendingCount' = pendingCount - 1
    /\ errorCount' = errorCount + 1
    /\ UpdateSummary(pendingCount', doneCount)
    /\ ProcessUploadQueue(uploadPending, activeUploads - 1,
                          [item EXCEPT ![f] = "error"], batch'.message)
    /\ UNCHANGED <<doneCount, text, batchOf, retried>>

(* xhr.onerror *)
BadNetworkError(f) ==
    /\ item[f] = "sending"
    /\ pendingCount' = pendingCount - 1
    /\ errorCount' = errorCount + 1
    /\ UpdateSummary(pendingCount', doneCount)
    /\ ProcessUploadQueue(uploadPending, activeUploads,
                          [item EXCEPT ![f] = "failed"], batch'.message)
    /\ UNCHANGED <<doneCount, text, batchOf, retried>>

NetworkError(f) ==
    /\ item[f] = "sending"
    /\ pendingCount' = pendingCount - 1
    /\ errorCount' = errorCount + 1
    /\ UpdateSummary(pendingCount', doneCount)
    /\ ProcessUploadQueue(uploadPending, activeUploads - 1,
                          [item EXCEPT ![f] = "failed"], batch'.message)
    /\ UNCHANGED <<doneCount, text, batchOf, retried>>

(* retryBtn.onclick: the file is queued again. *)
BadRetry(f) ==
    /\ item[f] = "error"
    /\ errorCount' = errorCount - 1
    /\ retried' = retried \cup {f}
    /\ ProcessUploadQueue(Append(uploadPending, f), activeUploads,
                          [item EXCEPT ![f] = "queued"], batch.message)
    /\ UNCHANGED <<pendingCount, doneCount, batch, text, batchOf>>

Retry(f) ==
    /\ item[f] = "error"
    /\ pendingCount' = pendingCount + 1
    /\ errorCount' = errorCount - 1
    /\ retried' = retried \cup {f}
    /\ ProcessUploadQueue(Append(uploadPending, f), activeUploads,
                          [item EXCEPT ![f] = "queued"], batch.message)
    /\ UNCHANGED <<doneCount, batch, text, batchOf>>

-----------------------------------------------------------------------------
Answered(f) == Done(f) \/ Error(f) \/ NetworkError(f)

Next ==
    \/ \E t \in Texts : Types(t)
    \/ \E new \in SUBSET Showing("none") \ {{}} :
          \E files \in SetToSeqs(new) : HandleFiles(files)
    \/ \E f \in Files : Answered(f) \/ Retry(f)

Spec == Init /\ [][Next]_vars

(* The browser comes to an end with every request, one way or the other. *)
FairSpec == Spec /\ \A f \in Files : WF_vars(Answered(f))

-----------------------------------------------------------------------------
(* Properties *)

(***************************************************************************)
(* The four counters, which every handler changes by one, agree with what  *)
(* the page shows, and the queue holds the queued files, each once; so the *)
(* progress bar adds up.  upload.html:289-336, 364-371, 396-398, 438-443.  *)
(***************************************************************************)
CountersAgree ==
    /\ pendingCount = Cardinality(Showing("queued") \cup Showing("sending"))
    /\ activeUploads = Cardinality(Showing("sending"))
    /\ doneCount = Cardinality(Showing("done"))
    /\ errorCount = Cardinality(Showing("error") \cup Showing("failed"))
    /\ ToSet(uploadPending) = Showing("queued")
    /\ IsInjective(uploadPending)

(***************************************************************************)
(* A file waits only while every slot is taken, and no more slots are      *)
(* taken than there are.  upload.html:364-371.                             *)
(***************************************************************************)
SlotsAreUsed ==
    /\ activeUploads <= CONCURRENT_UPLOADS
    /\ uploadPending # <<>> => activeUploads = CONCURRENT_UPLOADS

(***************************************************************************)
(* A file is sent with the message of the batch it was added to, however   *)
(* long it has waited and whatever was typed or finished meanwhile, unless *)
(* it is sent again.  upload.html:293-297, 373-377, 477-488.               *)
(***************************************************************************)
SentWithItsBatch ==
    \A f \in Files :
        item[f] \notin {"none", "queued"} /\ f \notin retried => sent[f] = batchOf[f]

(***************************************************************************)
(* Every file that is queued is sent and answered.                         *)
(* upload.html:364-371, 396-475.                                           *)
(***************************************************************************)
EveryFileIsAnswered ==
    \A f \in Files :
        item[f] = "queued" ~> item[f] \in {"done", "error", "failed"}
=============================================================================
