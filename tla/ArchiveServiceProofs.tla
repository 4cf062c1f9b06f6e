------------------------ MODULE ArchiveServiceProofs ------------------------
(***************************************************************************)
(* Proofs about ArchiveService, for every number of batches, parts, events *)
(* and concurrent admin requests.                                          *)
(***************************************************************************)
EXTENDS ArchiveService, TLAPS

-----------------------------------------------------------------------------
(* The inductive invariant *)

(* How far the request and the task of a batch are. *)
Counters ==
    \A b \in Batches :
        /\ cur[b] <= made[b] /\ made[b] <= total[b]
        /\ pc[b] = "idle" => total[b] = 0
        /\ pc[b] = "enqueue" => cur[b] = 0 /\ made[b] < total[b]
        /\ pc[b] \in Working => 1 <= cur[b] /\ made[b] = total[b]

(* Rows that are not in the table have no columns. *)
RowShape ==
    \A a \in Archives :
        /\ ~Exists(a) => row[a] = Absent
        /\ ~Issued(a) => ~Exists(a)
        /\ row[a].status = "ready" => row[a].filed
        /\ row[a].status = "failed" => ~row[a].filed

(* A part the task has not come to is untouched. *)
Untouched(a) ==
    /\ row[a].status \in {"absent", "pending", "cancelled"}
    /\ ~row[a].filed
    /\ a \notin zips
    /\ a \notin tmp

AheadUntouched ==
    \A a \in Archives : a[2] > cur[a[1]] => Untouched(a)

(* What the task knows about the part it is at. *)
AtWork(a, p) ==
    /\ p = "start" => Untouched(a)
    /\ row[a].status \notin {"ready", "failed"}
    /\ ~row[a].filed
    /\ p \in {"recheck", "retrieve", "save", "failing"} => a \notin tmp
    /\ p \in {"recheck", "retrieve", "rephase", "zip", "failing"}
          => a \notin zips
    /\ p \in {"zipped", "save"} => a \in zips

PartAtWork ==
    \A a \in Archives :
        cur[a[1]] = a[2] /\ pc[a[1]] \in Working => AtWork(a, pc[a[1]])

IInv ==
    /\ TypeOK
    /\ Counters
    /\ RowShape
    /\ AheadUntouched
    /\ PartAtWork
    /\ DiskOwned
    /\ SettledLeavesNothing
    /\ ReadyHasZip

-----------------------------------------------------------------------------
(* Facts about the part a task is at *)

LEMMA PairsOfArchives ==
    ASSUME NEW a \in Archives
    PROVE  a[1] \in Batches /\ a[2] \in 1 .. MaxParts /\ a = <<a[1], a[2]>>
  BY DEF Archives

LEMMA ArchivesOfPairs ==
    ASSUME NEW b \in Batches, NEW i \in 1 .. MaxParts
    PROVE  <<b, i>> \in Archives
  BY DEF Archives

LEMMA CurIsArchive ==
    ASSUME TypeOK, Counters, NEW b \in Batches, pc[b] \in Working
    PROVE  Cur(b) \in Archives
  <1>1. cur[b] \in 1 .. MaxParts
    BY ArchiveAssumption DEF TypeOK, Counters
  <1> QED
    BY <1>1, ArchivesOfPairs DEF Cur

LEMMA NextIsArchive ==
    ASSUME TypeOK, Counters, NEW b \in Batches, pc[b] = "enqueue"
    PROVE  made[b] + 1 \in 1 .. MaxParts /\ <<b, made[b] + 1>> \in Archives
  <1>1. made[b] + 1 \in 1 .. MaxParts
    BY ArchiveAssumption DEF TypeOK, Counters
  <1> QED
    BY <1>1, ArchivesOfPairs

(* The task's own variables keep their types when it turns to the next part. *)
LEMMA NextPartType ==
    ASSUME TypeOK, Counters, NEW b \in Batches, pc[b] \in Working, NextPart(b)
    PROVE  /\ pc' \in [Batches -> PC]
           /\ cur' \in [Batches -> 0 .. MaxParts]
           /\ total' = total /\ made' = made
  <1>1. CASE cur[b] < total[b]
    <2>1. cur[b] + 1 \in 0 .. MaxParts
      BY <1>1, ArchiveAssumption DEF TypeOK
    <2> QED
      BY <1>1, <2>1 DEF TypeOK, NextPart, PC, Alive, Working
  <1>2. CASE ~(cur[b] < total[b])
    BY <1>2 DEF TypeOK, NextPart, PC
  <1> QED
    BY <1>1, <1>2

-----------------------------------------------------------------------------
(* Type correctness *)

LEMMA RowUpdates ==
    ASSUME TypeOK, NEW a \in Archives,
           NEW s \in Status, NEW p \in Phase
    PROVE  /\ [row EXCEPT ![a].status = s] \in [Archives -> ArchiveRequest]
           /\ [row EXCEPT ![a].phase = p] \in [Archives -> ArchiveRequest]
           /\ [row EXCEPT ![a].due = TRUE] \in [Archives -> ArchiveRequest]
           /\ [row EXCEPT ![a].status = s, ![a].phase = p]
                  \in [Archives -> ArchiveRequest]
           /\ [row EXCEPT ![a].status = s, ![a].phase = p, ![a].filed = TRUE]
                  \in [Archives -> ArchiveRequest]
  <1> DEFINE Table == [Archives -> ArchiveRequest]
  <1>1. ASSUME NEW r \in Table
        PROVE  /\ [r EXCEPT ![a].status = s] \in Table
               /\ [r EXCEPT ![a].phase = p] \in Table
               /\ [r EXCEPT ![a].due = TRUE] \in Table
               /\ [r EXCEPT ![a].filed = TRUE] \in Table
    <2>1. [r EXCEPT ![a].status = s] \in Table
      BY DEF ArchiveRequest
    <2>2. [r EXCEPT ![a].phase = p] \in Table
      BY DEF ArchiveRequest
    <2>3. [r EXCEPT ![a].due = TRUE] \in Table
      BY DEF ArchiveRequest
    <2>4. [r EXCEPT ![a].filed = TRUE] \in Table
      BY DEF ArchiveRequest
    <2> QED
      BY <2>1, <2>2, <2>3, <2>4
  <1>2. row \in Table
    BY DEF TypeOK
  <1>3. [row EXCEPT ![a].status = s, ![a].phase = p] \in Table
    BY <1>1, <1>2
  <1> HIDE DEF Table
  <1> QED
    BY <1>1, <1>2, <1>3 DEF Table

LEMMA SomeStatus ==
    /\ {"pending", "processing", "ready", "failed", "cancelled"} \subseteq Status
    /\ {"none", "retrieving", "archiving"} \subseteq Phase
  BY DEF Status, Phase

LEMMA InitType == Init => TypeOK
  BY ArchiveAssumption
  DEF Init, TypeOK, Absent, ArchiveRequest, Status, Phase, PC, AdminRequest

LEMMA RequestsType ==
    ASSUME TypeOK, Counters, Requests
    PROVE  TypeOK'
  <1> SUFFICES ASSUME NEW b \in Batches,
                      EnqueueBatch(b) \/ EnqueueArchive(b) \/ EnqueueFails(b)
               PROVE  TypeOK'
    BY DEF Requests
  <1>1. CASE EnqueueBatch(b)
    BY <1>1 DEF EnqueueBatch, TypeOK, PC, Alive, disk, others
  <1>2. CASE EnqueueArchive(b)
    <2>1. pc[b] = "enqueue"
      BY <1>2 DEF EnqueueArchive
    <2>2. made' \in [Batches -> 0 .. MaxParts]
      BY <1>2, <2>1, NextIsArchive DEF EnqueueArchive, TypeOK
    <2>3. row' \in [Archives -> ArchiveRequest]
      BY <1>2, <2>1, NextIsArchive, RowUpdates, SomeStatus DEF EnqueueArchive
    <2>4. pc' \in [Batches -> PC] /\ cur' \in [Batches -> 0 .. MaxParts]
      BY <1>2, ArchiveAssumption
      DEF EnqueueArchive, TypeOK, PC, Alive, Working
    <2> QED
      BY <1>2, <2>2, <2>3, <2>4 DEF EnqueueArchive, TypeOK, disk, others
  <1>3. CASE EnqueueFails(b)
    BY <1>3 DEF EnqueueFails, Goto, TypeOK, PC, disk, others
  <1> QED
    BY <1>1, <1>2, <1>3

LEMMA BuildTaskType ==
    ASSUME TypeOK, Counters, NEW b \in Batches, BuildTask(b)
    PROVE  TypeOK'
  <1>1. pc[b] \in Working
    BY DEF BuildTask, Start, Recheck, FoundCancelled, Retrieve, Rephase,
           MakeZip, RemoveTmp, Save, Raise, RecordFailure,
           FailureUnrecorded, FlushRaises, Goto, Working
  <1>2. Cur(b) \in Archives
    BY <1>1, CurIsArchive
  <1>3. row' \in [Archives -> ArchiveRequest]
    <2>1. CASE Start(b)
      BY <1>2, <2>1, RowUpdates, SomeStatus DEF Start, Sets
    <2>2. CASE Rephase(b)
      BY <1>2, <2>2, RowUpdates, SomeStatus DEF Rephase
    <2>3. CASE Save(b)
      BY <1>2, <2>3, RowUpdates, SomeStatus DEF Save
    <2>4. CASE RecordFailure(b)
      BY <1>2, <2>4, RowUpdates, SomeStatus DEF RecordFailure, Sets
    <2>5. CASE UNCHANGED row
      BY <2>5 DEF TypeOK
    <2> QED
      BY <2>1, <2>2, <2>3, <2>4, <2>5
      DEF BuildTask, Recheck, FoundCancelled, Retrieve, MakeZip, RemoveTmp,
          Raise, FailureUnrecorded, FlushRaises
  <1>4. zips' \subseteq Archives /\ tmp' \subseteq Archives
    BY <1>2
    DEF TypeOK, BuildTask, Start, Recheck, FoundCancelled, Retrieve, Rephase,
        MakeZip, RemoveTmp, Save, Raise, RecordFailure, FailureUnrecorded,
        FlushRaises, RemoveLeftovers, disk
  <1>5. /\ pc' \in [Batches -> PC]
        /\ cur' \in [Batches -> 0 .. MaxParts]
        /\ total' = total /\ made' = made
    BY <1>1, NextPartType
    DEF TypeOK, BuildTask, Start, Recheck, FoundCancelled, Retrieve, Rephase,
        MakeZip, RemoveTmp, Save, Raise, RecordFailure, FailureUnrecorded,
        FlushRaises, Goto, PC, Alive, Working
  <1>6. UNCHANGED others
    BY DEF BuildTask, Start, Recheck, FoundCancelled, Retrieve, Rephase,
           MakeZip, RemoveTmp, Save, Raise, RecordFailure,
           FailureUnrecorded, FlushRaises
  <1> QED
    BY <1>3, <1>4, <1>5, <1>6 DEF TypeOK, others

(* What DELETE leaves is a table, whatever rows it takes. *)
LEMMA DeletesType ==
    ASSUME TypeOK, NEW S, Deletes(S)
    PROVE  row' \in [Archives -> ArchiveRequest]
  BY DEF TypeOK, Deletes, Absent, ArchiveRequest, Status, Phase

LEMMA AdminPagesType ==
    ASSUME TypeOK, AdminPages
    PROVE  TypeOK'
  <1> SUFFICES ASSUME NEW d \in Admins,
                      \/ \E a \in Archives : CancelRead(d, a) \/ DeleteRead(d, a)
                      \/ CancelCommit(d) \/ CancelFails(d)
                      \/ DeleteCommit(d) \/ DeleteFails(d)
               PROVE  TypeOK'
    BY DEF AdminPages
  <1>1. ASSUME NEW a \in Archives, CancelRead(d, a) PROVE TypeOK'
    BY <1>1 DEF CancelRead, TypeOK, AdminRequest, disk, task
  <1>2. ASSUME NEW a \in Archives, DeleteRead(d, a) PROVE TypeOK'
    BY <1>2 DEF DeleteRead, TypeOK, AdminRequest, task
  <1>3. CASE CancelCommit(d)
    <2>1. admin[d].on \in Archives
      BY <1>3 DEF CancelCommit, TypeOK, AdminRequest, NoRequest
    <2>2. row' \in [Archives -> ArchiveRequest]
      BY <1>3, <2>1, RowUpdates, SomeStatus DEF CancelCommit
    <2> QED
      BY <1>3, <2>2 DEF CancelCommit, TypeOK, AdminRequest, disk, task
  <1>4. CASE CancelFails(d)
    BY <1>4 DEF CancelFails, TypeOK, AdminRequest, disk, task
  <1>5. CASE DeleteCommit(d)
    <2>1. row' \in [Archives -> ArchiveRequest]
      BY <1>5, DeletesType DEF DeleteCommit
    <2> QED
      BY <1>5, <2>1 DEF DeleteCommit, TypeOK, AdminRequest, disk, task
  <1>6. CASE DeleteFails(d)
    BY <1>6 DEF DeleteFails, TypeOK, AdminRequest, Unfiled, disk, task
  <1> QED
    BY <1>1, <1>2, <1>3, <1>4, <1>5, <1>6

LEMMA EventDeletionType ==
    ASSUME TypeOK, EventDeletion
    PROVE  TypeOK'
  <1> SUFFICES ASSUME NEW e \in Events,
                      \/ DeleteEventFiles(e)
                      \/ DeleteEventCommit(e)
                      \/ DeleteEventFails(e)
               PROVE  TypeOK'
    BY DEF EventDeletion
  <1>1. CASE DeleteEventFiles(e)
    BY <1>1 DEF DeleteEventFiles, TypeOK, task
  <1>2. CASE DeleteEventCommit(e)
    <2>1. row' \in [Archives -> ArchiveRequest]
      BY <1>2, DeletesType DEF DeleteEventCommit
    <2> QED
      BY <1>2, <2>1 DEF DeleteEventCommit, TypeOK, disk, task
  <1>3. CASE DeleteEventFails(e)
    BY <1>3 DEF DeleteEventFails, TypeOK, Unfiled, disk, task
  <1> QED
    BY <1>1, <1>2, <1>3

LEMMA ExpireType ==
    ASSUME TypeOK, NEW a \in Archives, Expire(a)
    PROVE  TypeOK'
  <1>1. row' \in [Archives -> ArchiveRequest]
    BY RowUpdates, SomeStatus DEF Expire
  <1> QED
    BY <1>1 DEF Expire, TypeOK, disk, task, others

LEMMA CleanupLoopType ==
    ASSUME TypeOK, CleanupLoop
    PROVE  TypeOK'
  <1>1. CASE CleanupSelect
    BY <1>1 DEF CleanupSelect, TypeOK, Expired, task
  <1>2. CASE CleanupCommit
    <2>1. row' \in [Archives -> ArchiveRequest]
      BY <1>2, DeletesType DEF CleanupCommit
    <2> QED
      BY <1>2, <2>1 DEF CleanupCommit, TypeOK, disk, task
  <1>3. CASE CleanupFails
    BY <1>3 DEF CleanupFails, TypeOK, disk, task
  <1> QED
    BY <1>1, <1>2, <1>3 DEF CleanupLoop

LEMMA RestartType ==
    ASSUME TypeOK, Restart
    PROVE  TypeOK'
  BY DEF TypeOK, Restart, PC, AdminRequest, Unfiled, disk

LEMMA StepType ==
    ASSUME TypeOK, Counters, [Next]_vars
    PROVE  TypeOK'
  <1>1. CASE Requests
    BY <1>1, RequestsType
  <1>2. CASE \E b \in Batches : BuildTask(b)
    BY <1>2, BuildTaskType
  <1>3. CASE AdminPages
    BY <1>3, AdminPagesType
  <1>4. CASE EventDeletion
    BY <1>4, EventDeletionType
  <1>5. CASE \E a \in Archives : Expire(a)
    BY <1>5, ExpireType
  <1>6. CASE CleanupLoop
    BY <1>6, CleanupLoopType
  <1>7. CASE Restart
    BY <1>7, RestartType
  <1>8. CASE UNCHANGED vars
    BY <1>8 DEF TypeOK, vars
  <1> QED
    BY <1>1, <1>2, <1>3, <1>4, <1>5, <1>6, <1>7, <1>8 DEF Next, OneLife

-----------------------------------------------------------------------------
(* The steps of the build task preserve the inductive invariant *)

(* The invariant without its type part. *)
Rest ==
    /\ Counters
    /\ RowShape
    /\ AheadUntouched
    /\ PartAtWork
    /\ DiskOwned
    /\ SettledLeavesNothing
    /\ ReadyHasZip

LEMMA TheCurrentPart ==
    ASSUME NEW b \in Batches, NEW a \in Archives
    PROVE  a = Cur(b) <=> a[1] = b /\ a[2] = cur[b]
  BY PairsOfArchives DEF Cur

LEMMA InitInvariant == Init => IInv
  <1> SUFFICES ASSUME Init PROVE IInv
    OBVIOUS
  <1>1. TypeOK
    BY InitType
  <1>2. Counters
    <2> SUFFICES ASSUME NEW b \in Batches
                 PROVE  Counters!(b)
      BY DEF Counters
    <2>1. cur[b] = 0 /\ made[b] = 0 /\ total[b] = 0
      BY DEF Init
    <2>2. pc[b] = "idle" /\ pc[b] \notin Working
      BY DEF Init, Working
    <2> QED
      BY <2>1, <2>2
  <1>3. \A a \in Archives :
            Untouched(a) /\ row[a] = Absent /\ row[a].status = "absent"
    BY DEF Init, Untouched, Absent
  <1>4. RowShape
    BY <1>3 DEF RowShape, Exists
  <1>5. PartAtWork
    BY PairsOfArchives DEF Init, PartAtWork, Working
  <1> QED
    BY <1>1, <1>2, <1>3, <1>4, <1>5
    DEF IInv, Init, AheadUntouched, DiskOwned, SettledLeavesNothing,
        ReadyHasZip, Absent

(* A step of a task touches no archive but c. *)
OnlyTouches(c) ==
    \A a \in Archives \ {c} :
        /\ row'[a] = row[a]
        /\ a \in zips' <=> a \in zips
        /\ a \in tmp' <=> a \in tmp

(* A step that leaves the task of b at part c, at place p. *)
LEMMA TaskStays ==
    ASSUME IInv, TypeOK', NEW b \in Batches, NEW c \in Archives, NEW p \in Working,
           c = Cur(b), pc[b] \in Working, pc' = [pc EXCEPT ![b] = p],
           UNCHANGED <<total, made, cur>>, UNCHANGED others, OnlyTouches(c),
           ~Exists(c)' => row'[c] = Absent,
           c \in tmp' => p \in {"rephase", "zip", "zipped"},
           c \in zips' => p \in {"zipped", "save"},
           AtWork(c, p)'
    PROVE  Rest'
  <1>1. \A a \in Archives : a = c <=> a[1] = b /\ a[2] = cur[b]
    BY TheCurrentPart
  <1>2. pc'[b] = p /\ \A x \in Batches : x # b => pc'[x] = pc[x]
    BY DEF IInv, TypeOK
  <1>3. Counters'
    BY <1>2 DEF IInv, Counters, Working
  <1>4. Issued(c)
    BY <1>1 DEF IInv, TypeOK, Counters, Issued
  <1>5. row'[c].status \notin {"ready", "failed"}
    BY DEF AtWork
  <1>6. RowShape'
    BY <1>4, <1>5 DEF IInv, RowShape, OnlyTouches, Exists, Issued
  <1>7. AheadUntouched'
    BY <1>1, PairsOfArchives
    DEF IInv, TypeOK, AheadUntouched, Untouched, OnlyTouches
  <1>8. PartAtWork'
    <2> SUFFICES ASSUME NEW a \in Archives, cur[a[1]] = a[2], pc'[a[1]] \in Working
                 PROVE  AtWork(a, pc[a[1]])'
      BY DEF PartAtWork
    <2>1. CASE a = c
      BY <2>1, <1>1, <1>2 DEF AtWork, Untouched
    <2>2. CASE a # c
      BY <2>2, <1>1, <1>2, PairsOfArchives
      DEF IInv, PartAtWork, AtWork, Untouched, OnlyTouches
    <2> QED
      BY <2>1, <2>2
  <1>9. DiskOwned'
    BY <1>1, <1>2, PairsOfArchives
    DEF IInv, TypeOK, DiskOwned, OnlyTouches, Exists
  <1>10. SettledLeavesNothing'
    BY <1>5 DEF IInv, SettledLeavesNothing, OnlyTouches
  <1>11. ReadyHasZip'
    BY <1>5 DEF IInv, ReadyHasZip, BeingDeleted, OnlyTouches, others
  <1> QED
    BY <1>3, <1>6, <1>7, <1>8, <1>9, <1>10, <1>11 DEF Rest

(* A step with which the task of b leaves part c. *)
LEMMA TaskTurns ==
    ASSUME IInv, TypeOK', NEW b \in Batches, NEW c \in Archives,
           c = Cur(b), pc[b] \in Working, NextPart(b),
           UNCHANGED others, OnlyTouches(c),
           ~Exists(c)' => row'[c] = Absent,
           c \notin tmp',
           c \in zips' => row'[c].filed,
           row'[c].status = "ready" => row'[c].filed /\ c \in zips',
           row'[c].status = "failed" => ~row'[c].filed
    PROVE  Rest'
  <1>1. \A a \in Archives : a = c <=> a[1] = b /\ a[2] = cur[b]
    BY TheCurrentPart
  <1>2. /\ total' = total /\ made' = made
        /\ \A x \in Batches : x # b => pc'[x] = pc[x] /\ cur'[x] = cur[x]
        /\ \/ pc'[b] = "start" /\ cur'[b] = cur[b] + 1 /\ cur[b] < total[b]
           \/ pc'[b] = "done" /\ cur'[b] = cur[b]
    BY DEF NextPart, IInv, TypeOK
  <1>3. Counters'
    BY <1>2 DEF IInv, TypeOK, Counters, Working
  <1>4. Issued(c)
    BY <1>1 DEF IInv, TypeOK, Counters, Issued
  <1>5. RowShape'
    BY <1>2, <1>4 DEF IInv, RowShape, OnlyTouches, Exists, Issued
  <1>6. AheadUntouched'
    BY <1>1, <1>2, PairsOfArchives
    DEF IInv, TypeOK, AheadUntouched, Untouched, OnlyTouches
  <1>7. PartAtWork'
    <2> SUFFICES ASSUME NEW a \in Archives, cur'[a[1]] = a[2], pc'[a[1]] \in Working
                 PROVE  AtWork(a, pc[a[1]])'
      BY DEF PartAtWork
    <2>1. CASE a[1] = b
      <3>1. pc'[b] = "start" /\ a[2] > cur[b] /\ a # c
        BY <2>1, <1>1, <1>2 DEF Working, IInv, TypeOK
      <3>2. Untouched(a)'
        BY <2>1, <3>1 DEF IInv, AheadUntouched, Untouched, OnlyTouches
      <3> QED
        BY <2>1, <3>1, <3>2 DEF AtWork, Untouched
    <2>2. CASE a[1] # b
      BY <2>2, <1>1, <1>2, PairsOfArchives
      DEF IInv, PartAtWork, AtWork, Untouched, OnlyTouches
    <2> QED
      BY <2>1, <2>2
  <1>8. DiskOwned'
    <2>1. \A a \in Archives \ {c} : a[1] = b => a[2] # cur[b]
      BY <1>1
    <2>2. \A a \in Archives \ {c} : a[1] = b => a \notin tmp
      BY <2>1 DEF IInv, DiskOwned
    <2>3. \A a \in Archives \ {c} :
            a[1] = b /\ a \in zips => ~Exists(a) \/ row[a].filed
      BY <2>1 DEF IInv, DiskOwned
    <2> QED
      BY <2>2, <2>3, <1>2, PairsOfArchives
      DEF IInv, TypeOK, DiskOwned, OnlyTouches, Exists
  <1>9. SettledLeavesNothing'
    BY DEF IInv, TypeOK, SettledLeavesNothing, OnlyTouches
  <1>10. ReadyHasZip'
    BY DEF IInv, TypeOK, ReadyHasZip, BeingDeleted, OnlyTouches, others
  <1> QED
    BY <1>3, <1>5, <1>6, <1>7, <1>8, <1>9, <1>10 DEF Rest

LEMMA BuildTaskRest ==
    ASSUME IInv, TypeOK', NEW b \in Batches, BuildTask(b)
    PROVE  Rest'
  <1>1. pc[b] \in Working
    BY DEF BuildTask, Start, Recheck, FoundCancelled, Retrieve, Rephase,
           MakeZip, RemoveTmp, Save, Raise, RecordFailure,
           FailureUnrecorded, FlushRaises, Goto, Working
  <1>2. PICK c \in Archives : c = Cur(b)
    BY <1>1, CurIsArchive DEF IInv
  <1>3. /\ AtWork(c, pc[b])
        /\ ~Exists(c) => row[c] = Absent
        /\ c \in tmp => pc[b] \in {"rephase", "zip", "zipped"}
        /\ c \in zips => pc[b] \in {"zipped", "save"}
    BY <1>1, <1>2, TheCurrentPart
    DEF IInv, PartAtWork, AtWork, RowShape, DiskOwned, Working, Untouched
  <1>5. CASE Start(b)
    <2>1. /\ OnlyTouches(c)
          /\ pc' = [pc EXCEPT ![b] = "recheck"]
          /\ UNCHANGED <<total, made, cur>> /\ UNCHANGED others
      BY <1>2, <1>5 DEF Start, Goto, Sets, OnlyTouches, disk, IInv, TypeOK
    <2>2. AtWork(c, "recheck")'
      BY <1>2, <1>3, <1>5
      DEF Start, Goto, Sets, AtWork, Untouched, Exists, disk, IInv, TypeOK,
          ArchiveRequest
    <2>3. /\ ~Exists(c)' => row'[c] = Absent
          /\ c \in tmp' => "recheck" \in {"rephase", "zip", "zipped"}
          /\ c \in zips' => "recheck" \in {"zipped", "save"}
      BY <1>2, <1>3, <1>5
      DEF Start, Goto, Sets, Exists, disk, IInv, TypeOK, ArchiveRequest
    <2> QED
      BY <1>1, <1>2, <2>1, <2>2, <2>3, TaskStays DEF Working
  <1>6. CASE Recheck(b)
    <2>1. /\ OnlyTouches(c)
          /\ pc' = [pc EXCEPT ![b] = "retrieve"]
          /\ UNCHANGED <<total, made, cur>> /\ UNCHANGED others
      BY <1>2, <1>6 DEF Recheck, Goto, OnlyTouches, disk, IInv, TypeOK
    <2>2. AtWork(c, "retrieve")'
      BY <1>2, <1>3, <1>6
      DEF Recheck, Goto, AtWork, Untouched, Exists, disk, IInv, TypeOK,
          ArchiveRequest
    <2>3. /\ ~Exists(c)' => row'[c] = Absent
          /\ c \in tmp' => "retrieve" \in {"rephase", "zip", "zipped"}
          /\ c \in zips' => "retrieve" \in {"zipped", "save"}
      BY <1>2, <1>3, <1>6
      DEF Recheck, Goto, Exists, disk, IInv, TypeOK, ArchiveRequest
    <2> QED
      BY <1>1, <1>2, <2>1, <2>2, <2>3, TaskStays DEF Working
  <1>7. CASE Retrieve(b)
    <2>1. /\ OnlyTouches(c)
          /\ pc' = [pc EXCEPT ![b] = "rephase"]
          /\ UNCHANGED <<total, made, cur>> /\ UNCHANGED others
      BY <1>2, <1>7 DEF Retrieve, Goto, OnlyTouches, disk, IInv, TypeOK
    <2>2. AtWork(c, "rephase")'
      BY <1>2, <1>3, <1>7
      DEF Retrieve, Goto, AtWork, Untouched, Exists, disk, IInv, TypeOK,
          ArchiveRequest
    <2>3. /\ ~Exists(c)' => row'[c] = Absent
          /\ c \in tmp' => "rephase" \in {"rephase", "zip", "zipped"}
          /\ c \in zips' => "rephase" \in {"zipped", "save"}
      BY <1>2, <1>3, <1>7
      DEF Retrieve, Goto, Exists, disk, IInv, TypeOK, ArchiveRequest
    <2> QED
      BY <1>1, <1>2, <2>1, <2>2, <2>3, TaskStays DEF Working
  <1>8. CASE Rephase(b)
    <2>1. /\ OnlyTouches(c)
          /\ pc' = [pc EXCEPT ![b] = "zip"]
          /\ UNCHANGED <<total, made, cur>> /\ UNCHANGED others
      BY <1>2, <1>8 DEF Rephase, Goto, OnlyTouches, disk, IInv, TypeOK
    <2>2. AtWork(c, "zip")'
      BY <1>2, <1>3, <1>8
      DEF Rephase, Goto, AtWork, Untouched, Exists, disk, IInv, TypeOK,
          ArchiveRequest
    <2>3. /\ ~Exists(c)' => row'[c] = Absent
          /\ c \in tmp' => "zip" \in {"rephase", "zip", "zipped"}
          /\ c \in zips' => "zip" \in {"zipped", "save"}
      BY <1>2, <1>3, <1>8
      DEF Rephase, Goto, Exists, disk, IInv, TypeOK, ArchiveRequest
    <2> QED
      BY <1>1, <1>2, <2>1, <2>2, <2>3, TaskStays DEF Working
  <1>9. CASE MakeZip(b)
    <2>1. /\ OnlyTouches(c)
          /\ pc' = [pc EXCEPT ![b] = "zipped"]
          /\ UNCHANGED <<total, made, cur>> /\ UNCHANGED others
      BY <1>2, <1>9 DEF MakeZip, Goto, OnlyTouches, disk, IInv, TypeOK
    <2>2. AtWork(c, "zipped")'
      BY <1>2, <1>3, <1>9
      DEF MakeZip, Goto, AtWork, Untouched, Exists, disk, IInv, TypeOK,
          ArchiveRequest
    <2>3. /\ ~Exists(c)' => row'[c] = Absent
          /\ c \in tmp' => "zipped" \in {"rephase", "zip", "zipped"}
          /\ c \in zips' => "zipped" \in {"zipped", "save"}
      BY <1>2, <1>3, <1>9
      DEF MakeZip, Goto, Exists, disk, IInv, TypeOK, ArchiveRequest
    <2> QED
      BY <1>1, <1>2, <2>1, <2>2, <2>3, TaskStays DEF Working
  <1>10. CASE RemoveTmp(b)
    <2>1. /\ OnlyTouches(c)
          /\ pc' = [pc EXCEPT ![b] = "save"]
          /\ UNCHANGED <<total, made, cur>> /\ UNCHANGED others
      BY <1>2, <1>10 DEF RemoveTmp, Goto, OnlyTouches, disk, IInv, TypeOK
    <2>2. AtWork(c, "save")'
      BY <1>2, <1>3, <1>10
      DEF RemoveTmp, Goto, AtWork, Untouched, Exists, disk, IInv, TypeOK,
          ArchiveRequest
    <2>3. /\ ~Exists(c)' => row'[c] = Absent
          /\ c \in tmp' => "save" \in {"rephase", "zip", "zipped"}
          /\ c \in zips' => "save" \in {"zipped", "save"}
      BY <1>2, <1>3, <1>10
      DEF RemoveTmp, Goto, Exists, disk, IInv, TypeOK, ArchiveRequest
    <2> QED
      BY <1>1, <1>2, <2>1, <2>2, <2>3, TaskStays DEF Working
  <1>11. CASE Raise(b)
    <2>1. /\ OnlyTouches(c)
          /\ pc' = [pc EXCEPT ![b] = "failing"]
          /\ UNCHANGED <<total, made, cur>> /\ UNCHANGED others
      BY <1>2, <1>11 DEF Raise, Goto, RemoveLeftovers, OnlyTouches, disk, IInv, TypeOK
    <2>2. AtWork(c, "failing")'
      BY <1>2, <1>3, <1>11
      DEF Raise, Goto, RemoveLeftovers, AtWork, Untouched, Exists, disk, IInv, TypeOK,
          ArchiveRequest
    <2>3. /\ ~Exists(c)' => row'[c] = Absent
          /\ c \in tmp' => "failing" \in {"rephase", "zip", "zipped"}
          /\ c \in zips' => "failing" \in {"zipped", "save"}
      BY <1>2, <1>3, <1>11
      DEF Raise, Goto, RemoveLeftovers, Exists, disk, IInv, TypeOK, ArchiveRequest
    <2> QED
      BY <1>1, <1>2, <2>1, <2>2, <2>3, TaskStays DEF Working
  <1>12. CASE FoundCancelled(b)
    <2>1. OnlyTouches(c) /\ UNCHANGED others /\ NextPart(b)
      BY <1>2, <1>12 DEF FoundCancelled, OnlyTouches, disk, IInv, TypeOK
    <2>2. /\ ~Exists(c)' => row'[c] = Absent
          /\ c \notin tmp'
          /\ c \in zips' => row'[c].filed
          /\ row'[c].status = "ready" => row'[c].filed /\ c \in zips'
          /\ row'[c].status = "failed" => ~row'[c].filed
      BY <1>2, <1>3, <1>12
      DEF FoundCancelled, AtWork, Exists, disk, IInv, TypeOK, ArchiveRequest
    <2> QED
      BY <1>1, <1>2, <2>1, <2>2, TaskTurns
  <1>13. CASE Save(b)
    <2>1. OnlyTouches(c) /\ UNCHANGED others /\ NextPart(b)
      BY <1>2, <1>13 DEF Save, OnlyTouches, disk, IInv, TypeOK
    <2>2. /\ ~Exists(c)' => row'[c] = Absent
          /\ c \notin tmp'
          /\ c \in zips' => row'[c].filed
          /\ row'[c].status = "ready" => row'[c].filed /\ c \in zips'
          /\ row'[c].status = "failed" => ~row'[c].filed
      BY <1>2, <1>3, <1>13
      DEF Save, AtWork, Exists, disk, IInv, TypeOK, ArchiveRequest
    <2> QED
      BY <1>1, <1>2, <2>1, <2>2, TaskTurns
  <1>14. CASE RecordFailure(b)
    <2>1. OnlyTouches(c) /\ UNCHANGED others /\ NextPart(b)
      BY <1>2, <1>14 DEF RecordFailure, Sets, OnlyTouches, disk, IInv, TypeOK
    <2>2. /\ ~Exists(c)' => row'[c] = Absent
          /\ c \notin tmp'
          /\ c \in zips' => row'[c].filed
          /\ row'[c].status = "ready" => row'[c].filed /\ c \in zips'
          /\ row'[c].status = "failed" => ~row'[c].filed
      BY <1>2, <1>3, <1>14
      DEF RecordFailure, Sets, AtWork, Exists, disk, IInv, TypeOK, ArchiveRequest
    <2> QED
      BY <1>1, <1>2, <2>1, <2>2, TaskTurns
  <1>15. CASE FailureUnrecorded(b)
    <2>1. OnlyTouches(c) /\ UNCHANGED others /\ NextPart(b)
      BY <1>2, <1>15 DEF FailureUnrecorded, OnlyTouches, disk, IInv, TypeOK
    <2>2. /\ ~Exists(c)' => row'[c] = Absent
          /\ c \notin tmp'
          /\ c \in zips' => row'[c].filed
          /\ row'[c].status = "ready" => row'[c].filed /\ c \in zips'
          /\ row'[c].status = "failed" => ~row'[c].filed
      BY <1>2, <1>3, <1>15
      DEF FailureUnrecorded, AtWork, Exists, disk, IInv, TypeOK, ArchiveRequest
    <2> QED
      BY <1>1, <1>2, <2>1, <2>2, TaskTurns
  <1>16. CASE FlushRaises(b)
    <2>1. OnlyTouches(c) /\ UNCHANGED others /\ NextPart(b)
      BY <1>2, <1>16 DEF FlushRaises, RemoveLeftovers, OnlyTouches, disk, IInv, TypeOK
    <2>2. /\ ~Exists(c)' => row'[c] = Absent
          /\ c \notin tmp'
          /\ c \in zips' => row'[c].filed
          /\ row'[c].status = "ready" => row'[c].filed /\ c \in zips'
          /\ row'[c].status = "failed" => ~row'[c].filed
      BY <1>2, <1>3, <1>16
      DEF FlushRaises, RemoveLeftovers, AtWork, Exists, disk, IInv, TypeOK, ArchiveRequest
    <2> QED
      BY <1>1, <1>2, <2>1, <2>2, TaskTurns
  <1> QED
    BY <1>5, <1>6, <1>7, <1>8, <1>9, <1>10, <1>11, <1>12, <1>13,
       <1>14, <1>15, <1>16 DEF BuildTask

-----------------------------------------------------------------------------
(* The steps of the other actors preserve it *)

(* What they do to a row: nothing, delete it, cancel it or let it expire. *)
RowKept(a) ==
    \/ row'[a] = row[a]
    \/ row'[a] = Absent
    \/ /\ Exists(a) /\ Exists(a)'
       /\ row'[a].filed = row[a].filed
       /\ row'[a].status \in {row[a].status, "cancelled"}

(* They remove only files that a row names. *)
OnlyFiledGo == zips' \subseteq zips /\ \A a \in zips \ zips' : row[a].filed

LEMMA NoTaskStep ==
    ASSUME IInv, TypeOK', UNCHANGED task, tmp' = tmp, OnlyFiledGo,
           \A a \in Archives : RowKept(a), ReadyHasZip'
    PROVE  Rest'
  <1>1. Counters'
    BY DEF IInv, Counters, task
  <1>2. \A a \in Archives : row'[a] = Absent => row'[a].status = "absent"
                                            /\ ~row'[a].filed /\ ~Exists(a)'
    BY DEF Absent, Exists
  <1>3. RowShape'
    BY <1>2 DEF IInv, RowShape, RowKept, Exists, Issued, task
  <1>4. ASSUME NEW a \in Archives, Untouched(a)
        PROVE  Untouched(a)'
    BY <1>2, <1>4 DEF Untouched, RowKept, OnlyFiledGo
  <1>5. AheadUntouched'
    BY <1>4 DEF IInv, AheadUntouched, task
  <1>6. PartAtWork'
    BY <1>2, <1>4 DEF IInv, PartAtWork, AtWork, RowKept, OnlyFiledGo, task
  <1>7. DiskOwned'
    BY <1>2 DEF IInv, TypeOK, DiskOwned, RowKept, OnlyFiledGo, task, Exists
  <1>8. SettledLeavesNothing'
    BY <1>2 DEF IInv, SettledLeavesNothing, RowKept, OnlyFiledGo
  <1> QED
    BY <1>1, <1>3, <1>5, <1>6, <1>7, <1>8 DEF Rest

LEMMA RequestsRest ==
    ASSUME IInv, TypeOK', Requests
    PROVE  Rest'
  <1> SUFFICES ASSUME NEW b \in Batches,
                      EnqueueBatch(b) \/ EnqueueArchive(b) \/ EnqueueFails(b)
               PROVE  Rest'
    BY DEF Requests
  <1>1. CASE EnqueueBatch(b) \/ EnqueueFails(b)
    <2>1. UNCHANGED <<row, disk, made, cur, others>>
      BY <1>1 DEF EnqueueBatch, EnqueueFails, Goto
    <2>2. \A x \in Batches : x # b => pc'[x] = pc[x] /\ total'[x] = total[x]
      BY <1>1 DEF EnqueueBatch, EnqueueFails, Goto, IInv, TypeOK
    <2>3. pc[b] \notin Working /\ pc'[b] \notin Working /\ pc[b] # "lost"
      BY <1>1 DEF EnqueueBatch, EnqueueFails, Goto, IInv, TypeOK, Working
    <2>4. Counters'
      BY <1>1, <2>1, <2>2, <2>3
      DEF EnqueueBatch, EnqueueFails, Goto, IInv, TypeOK, Counters
    <2>5. PartAtWork'
      BY <2>1, <2>2, <2>3, PairsOfArchives
      DEF IInv, PartAtWork, AtWork, Untouched, disk
    <2>6. DiskOwned'
      BY <2>1, <2>2, <2>3, PairsOfArchives
      DEF IInv, TypeOK, DiskOwned, Exists, disk, Working
    <2> QED
      BY <2>1, <2>4, <2>5, <2>6
      DEF Rest, IInv, RowShape, Exists, Issued, AheadUntouched, Untouched,
          SettledLeavesNothing, ReadyHasZip, BeingDeleted, disk, others
  <1>2. CASE EnqueueArchive(b)
    <2>1. pc[b] = "enqueue" /\ cur[b] = 0
      BY <1>2 DEF EnqueueArchive, IInv, Counters
    <2>2. PICK c \in Archives : c = <<b, made[b] + 1>>
      BY <2>1, NextIsArchive DEF IInv
    <2>3. c[1] = b /\ c[2] = made[b] + 1 /\ row[c] = Absent /\ Untouched(c)
      BY <2>1, <2>2 DEF IInv, TypeOK, RowShape, Issued, AheadUntouched
    <2>4. /\ \A a \in Archives : a # c => row'[a] = row[a]
          /\ row'[c] = [Absent EXCEPT !.status = "pending"]
      BY <1>2, <2>2, <2>3 DEF EnqueueArchive, IInv, TypeOK
    <2>5. row'[c].status = "pending" /\ ~row'[c].filed
      BY <2>4 DEF Absent
    <2>6. /\ UNCHANGED <<disk, total, others>>
          /\ made'[b] = made[b] + 1
          /\ \A x \in Batches : x # b => /\ pc'[x] = pc[x]
                                        /\ cur'[x] = cur[x]
                                        /\ made'[x] = made[x]
          /\ \/ pc'[b] = "enqueue" /\ cur'[b] = 0 /\ made'[b] # total[b]
             \/ pc'[b] = "start" /\ cur'[b] = 1 /\ made'[b] = total[b]
      BY <1>2, <2>1 DEF EnqueueArchive, IInv, TypeOK
    <2>7. Counters'
      BY <2>1, <2>6 DEF IInv, TypeOK, Counters, Working
    <2>8. \A a \in Archives : a[1] = b => Untouched(a) /\ Untouched(a)'
      <3> TAKE a \in Archives
      <3>1. a[1] = b => a[2] > cur[a[1]]
        BY <2>1, PairsOfArchives
      <3>2. a[1] = b => Untouched(a)
        BY <3>1 DEF IInv, AheadUntouched
      <3> QED
        BY <3>2, <2>3, <2>4, <2>5, <2>6 DEF Untouched, disk
    <2>9. RowShape'
      <3> SUFFICES ASSUME NEW a \in Archives
                   PROVE  RowShape!(a)'
        BY DEF RowShape
      <3>1. CASE a = c
        BY <3>1, <2>3, <2>5, <2>6 DEF Exists, Issued, IInv, TypeOK
      <3>2. CASE a # c
        <4>1. row'[a] = row[a]
          BY <3>2, <2>4
        <4>2. a[2] \in Nat /\ made[a[1]] \in Nat /\ made'[a[1]] \in Nat
          BY PairsOfArchives DEF IInv, TypeOK
        <4>3. Issued(a) => Issued(a)'
          BY <4>2, <2>6, PairsOfArchives DEF Issued
        <4> QED
          BY <4>1, <4>3 DEF IInv, RowShape, Exists
      <3> QED
        BY <3>1, <3>2
    <2>10. AheadUntouched'
      <3> SUFFICES ASSUME NEW a \in Archives, a[2] > cur'[a[1]], a[1] # b
                   PROVE  Untouched(a)'
        BY <2>8 DEF AheadUntouched
      <3>1. Untouched(a)
        BY <2>6, PairsOfArchives DEF IInv, AheadUntouched
      <3> QED
        BY <3>1, <2>3, <2>4, <2>6 DEF Untouched, disk
    <2>11. PartAtWork'
      <3> SUFFICES ASSUME NEW a \in Archives, cur'[a[1]] = a[2], pc'[a[1]] \in Working
                   PROVE  AtWork(a, pc[a[1]])'
        BY DEF PartAtWork
      <3>1. CASE a[1] = b
        BY <3>1, <2>6, <2>8 DEF AtWork, Untouched, Working
      <3>2. CASE a[1] # b
        BY <3>2, <2>3, <2>4, <2>6, PairsOfArchives
        DEF IInv, PartAtWork, AtWork, Untouched, disk
      <3> QED
        BY <3>1, <3>2
    <2>12. DiskOwned'
      <3>1. \A a \in zips \cup tmp : a[1] # b
        BY <2>8 DEF IInv, TypeOK, Untouched
      <3> QED
        BY <3>1, <2>3, <2>4, <2>6, <2>8, PairsOfArchives
        DEF IInv, TypeOK, DiskOwned, Exists, disk
    <2>13. SettledLeavesNothing' /\ ReadyHasZip'
      BY <2>4, <2>5, <2>6
      DEF IInv, SettledLeavesNothing, ReadyHasZip, BeingDeleted, disk, others
    <2> QED
      BY <2>7, <2>9, <2>10, <2>11, <2>12, <2>13 DEF Rest
  <1> QED
    BY <1>1, <1>2

LEMMA AdminPagesRest ==
    ASSUME IInv, TypeOK', AdminPages
    PROVE  Rest'
  <1> SUFFICES ASSUME NEW d \in Admins,
                      \/ \E a \in Archives : CancelRead(d, a) \/ DeleteRead(d, a)
                      \/ CancelCommit(d) \/ CancelFails(d)
                      \/ DeleteCommit(d) \/ DeleteFails(d)
               PROVE  Rest'
    BY DEF AdminPages
  <1>1. ASSUME NEW a \in Archives, CancelRead(d, a) PROVE Rest'
    <2>1. ReadyHasZip'
      BY <1>1 DEF CancelRead, IInv, TypeOK, ReadyHasZip, BeingDeleted, disk,
                  NoRequest
    <2> QED
      BY <1>1, <2>1, NoTaskStep DEF CancelRead, RowKept, OnlyFiledGo, disk
  <1>2. ASSUME NEW a \in Archives, DeleteRead(d, a) PROVE Rest'
    <2>1. \A x \in Archives : BeingDeleted(x) \/ x = a => BeingDeleted(x)'
      BY <1>2 DEF DeleteRead, IInv, TypeOK, BeingDeleted, NoRequest
    <2>2. ReadyHasZip'
      BY <1>2, <2>1 DEF DeleteRead, IInv, ReadyHasZip, Filed
    <2> QED
      BY <1>2, <2>2, NoTaskStep
      DEF DeleteRead, RowKept, OnlyFiledGo, Filed
  <1>3. CASE CancelCommit(d)
    <2>1. PICK c \in Archives : c = admin[d].on
      BY <1>3 DEF CancelCommit, IInv, TypeOK, AdminRequest, NoRequest
    <2>2. /\ \A a \in Archives : a # c => row'[a] = row[a]
          /\ row'[c].status = "cancelled" /\ row'[c].filed = row[c].filed
          /\ Exists(c) /\ Exists(c)'
      BY <1>3, <2>1 DEF CancelCommit, IInv, TypeOK, ArchiveRequest, Exists
    <2>3. \A x \in Archives : BeingDeleted(x) => BeingDeleted(x)'
      BY <1>3 DEF CancelCommit, IInv, TypeOK, BeingDeleted
    <2>4. ReadyHasZip'
      BY <1>3, <2>2, <2>3 DEF CancelCommit, IInv, ReadyHasZip, disk
    <2> QED
      BY <1>3, <2>2, <2>4, NoTaskStep DEF CancelCommit, RowKept, OnlyFiledGo, disk
  <1>4. CASE CancelFails(d)
    <2>1. ReadyHasZip'
      BY <1>4 DEF CancelFails, IInv, TypeOK, ReadyHasZip, BeingDeleted, disk
    <2> QED
      BY <1>4, <2>1, NoTaskStep DEF CancelFails, RowKept, OnlyFiledGo, disk
  <1>5. CASE DeleteCommit(d)
    <2>1. \A x \in Archives : BeingDeleted(x) => BeingDeleted(x)' \/ x = admin[d].on
      BY <1>5 DEF DeleteCommit, IInv, TypeOK, BeingDeleted
    <2>2. \A a \in Archives : row'[a] = row[a] \/ row'[a] = Absent
      BY <1>5 DEF DeleteCommit, Deletes
    <2>3. ReadyHasZip'
      BY <1>5, <2>1
      DEF DeleteCommit, Deletes, IInv, ReadyHasZip, Absent, disk
    <2> QED
      BY <1>5, <2>2, <2>3, NoTaskStep DEF DeleteCommit, RowKept, OnlyFiledGo, disk
  <1>6. CASE DeleteFails(d)
    <2>1. ReadyHasZip'
      BY <1>6 DEF DeleteFails, IInv, RowShape, ReadyHasZip, Unfiled, disk
    <2> QED
      BY <1>6, <2>1, NoTaskStep DEF DeleteFails, RowKept, OnlyFiledGo, disk
  <1> QED
    BY <1>1, <1>2, <1>3, <1>4, <1>5, <1>6

LEMMA EventDeletionRest ==
    ASSUME IInv, TypeOK', EventDeletion
    PROVE  Rest'
  <1> SUFFICES ASSUME NEW e \in Events,
                      \/ DeleteEventFiles(e)
                      \/ DeleteEventCommit(e)
                      \/ DeleteEventFails(e)
               PROVE  Rest'
    BY DEF EventDeletion
  <1>1. CASE DeleteEventFiles(e)
    <2>1. ReadyHasZip'
      BY <1>1 DEF DeleteEventFiles, IInv, TypeOK, ReadyHasZip, BeingDeleted,
                  Filed, OfEvent
    <2> QED
      BY <1>1, <2>1, NoTaskStep
      DEF DeleteEventFiles, RowKept, OnlyFiledGo, Filed
  <1>2. CASE DeleteEventCommit(e)
    <2>1. \A a \in Archives : row'[a] = row[a] \/ row'[a] = Absent
      BY <1>2 DEF DeleteEventCommit, Deletes
    <2>2. ReadyHasZip'
      BY <1>2
      DEF DeleteEventCommit, Deletes, IInv, TypeOK, ReadyHasZip, BeingDeleted,
          OfEvent, Absent, disk
    <2> QED
      BY <1>2, <2>1, <2>2, NoTaskStep
      DEF DeleteEventCommit, RowKept, OnlyFiledGo, disk
  <1>3. CASE DeleteEventFails(e)
    <2>1. ReadyHasZip'
      BY <1>3 DEF DeleteEventFails, IInv, RowShape, ReadyHasZip, Unfiled, disk
    <2> QED
      BY <1>3, <2>1, NoTaskStep DEF DeleteEventFails, RowKept, OnlyFiledGo, disk
  <1> QED
    BY <1>1, <1>2, <1>3

LEMMA ExpireRest ==
    ASSUME IInv, TypeOK', NEW a \in Archives, Expire(a)
    PROVE  Rest'
  <1>1. /\ \A x \in Archives : x # a => row'[x] = row[x]
        /\ row'[a].status = row[a].status /\ row'[a].filed = row[a].filed
        /\ row'[a].due
    BY DEF Expire, IInv, TypeOK, ArchiveRequest
  <1>2. ReadyHasZip'
    BY <1>1 DEF Expire, IInv, ReadyHasZip, BeingDeleted, disk, others
  <1> QED
    BY <1>1, <1>2, NoTaskStep DEF Expire, RowKept, OnlyFiledGo, Exists, disk

LEMMA CleanupLoopRest ==
    ASSUME IInv, TypeOK', CleanupLoop
    PROVE  Rest'
  <1>1. CASE CleanupSelect
    <2>1. ReadyHasZip'
      BY <1>1 DEF CleanupSelect, IInv, ReadyHasZip, BeingDeleted, Filed, Expired
    <2> QED
      BY <1>1, <2>1, NoTaskStep DEF CleanupSelect, RowKept, OnlyFiledGo, Filed
  <1>2. CASE CleanupCommit
    <2>1. \A a \in Archives : row'[a] = row[a] \/ row'[a] = Absent
      BY <1>2 DEF CleanupCommit, Deletes
    <2>2. ReadyHasZip'
      BY <1>2, <2>1
      DEF CleanupCommit, IInv, ReadyHasZip, BeingDeleted, Absent, disk
    <2> QED
      BY <1>2, <2>1, <2>2, NoTaskStep
      DEF CleanupCommit, RowKept, OnlyFiledGo, disk
  <1>3. CASE CleanupFails
    <2>1. ReadyHasZip'
      BY <1>3 DEF CleanupFails, IInv, ReadyHasZip, BeingDeleted, disk
    <2> QED
      BY <1>3, <2>1, NoTaskStep DEF CleanupFails, RowKept, OnlyFiledGo, disk
  <1> QED
    BY <1>1, <1>2, <1>3 DEF CleanupLoop

LEMMA RestartRest ==
    ASSUME IInv, TypeOK', Restart
    PROVE  Rest'
  <1>1. \A b \in Batches : /\ pc'[b] \notin Working /\ pc'[b] # "enqueue"
                           /\ pc'[b] # "idle" \/ pc[b] = "idle"
                           /\ pc'[b] = "lost" \/ pc'[b] = pc[b]
    BY DEF Restart, Alive, Working
  <1>2. Counters'
    BY <1>1 DEF Restart, IInv, TypeOK, Counters
  <1>3. PartAtWork'
    BY <1>1, PairsOfArchives DEF PartAtWork
  <1>4. DiskOwned'
    BY <1>1, PairsOfArchives DEF Restart, IInv, TypeOK, DiskOwned, Exists, disk
  <1>5. ReadyHasZip'
    BY DEF Restart, IInv, RowShape, ReadyHasZip, Unfiled, disk
  <1> QED
    BY <1>2, <1>3, <1>4, <1>5
    DEF Restart, Rest, IInv, RowShape, Exists, Issued, AheadUntouched, Untouched,
        SettledLeavesNothing, disk

LEMMA StutterRest ==
    ASSUME IInv, UNCHANGED vars
    PROVE  Rest'
  BY DEF vars, Rest, IInv, Counters, RowShape, Exists, Issued, AheadUntouched,
         Untouched, PartAtWork, AtWork, DiskOwned, SettledLeavesNothing,
         ReadyHasZip, BeingDeleted

LEMMA InvariantStep ==
    ASSUME IInv, [Next]_vars
    PROVE  IInv'
  <1>1. TypeOK'
    BY StepType DEF IInv
  <1>2. Rest'
    BY <1>1, RequestsRest, BuildTaskRest, AdminPagesRest, EventDeletionRest,
       ExpireRest, CleanupLoopRest, RestartRest, StutterRest DEF Next, OneLife
  <1> QED
    BY <1>1, <1>2 DEF IInv, Rest

-----------------------------------------------------------------------------
(* The theorems *)

(* The inductive invariant holds in every state of the service.            *)
THEOREM Invariant == Spec => []IInv
  BY InitInvariant, InvariantStep, PTL DEF Spec

(* Every variable keeps its type, for every number of batches and parts.   *)
THEOREM TypeCorrect == Spec => []TypeOK
  <1>1. IInv => TypeOK
    BY DEF IInv
  <1> QED
    BY <1>1, Invariant, PTL

(* A ready link that has not expired has its ZIP on disk, unless it is     *)
(* being deleted or its deletion failed half-way: get /downloads/../file.  *)
THEOREM ReadyLinksServe == Spec => []ReadyHasZip
  <1>1. IInv => ReadyHasZip
    BY DEF IInv
  <1> QED
    BY <1>1, Invariant, PTL

(* Whatever a build is doing, each directory and each ZIP has an owner: a  *)
(* task at work, a row, or the restart that took its task.                 *)
THEOREM BuildsOwnTheirFiles == Spec => []DiskOwned
  <1>1. IInv => DiskOwned
    BY DEF IInv
  <1> QED
    BY <1>1, Invariant, PTL

(* Whatever way a build ends, it cleans up: a failed part leaves nothing   *)
(* on the disk, a ready one only its ZIP.                                  *)
THEOREM BuildsCleanUp == Spec => []SettledLeavesNothing
  <1>1. IInv => SettledLeavesNothing
    BY DEF IInv
  <1> QED
    BY <1>1, Invariant, PTL

(* A deleted archive never gets its row back.                              *)
THEOREM DeletedStaysDeleted == Spec => NoResurrection
  <1> DEFINE Stays == \A a \in Archives : Issued(a) /\ ~Exists(a) => ~Exists(a)'
  <1>1. ASSUME IInv, [Next]_vars PROVE Stays
    <2>1. CASE Requests
      <3>1. ASSUME NEW b \in Batches, EnqueueArchive(b)
            PROVE  Stays
        <4>1. <<b, made[b] + 1>> \in Archives
          BY <3>1, <1>1, NextIsArchive DEF EnqueueArchive, IInv
        <4>2. \A a \in Archives : Issued(a) => a # <<b, made[b] + 1>>
          BY <1>1 DEF Issued, IInv, TypeOK
        <4> QED
          BY <3>1, <1>1, <4>1, <4>2 DEF EnqueueArchive, Exists, IInv, TypeOK
      <3> QED
        BY <2>1, <3>1 DEF Requests, EnqueueBatch, EnqueueFails, Exists
    <2>2. ASSUME NEW b \in Batches, BuildTask(b)
          PROVE  Stays
      <3>1. CASE Exists(Cur(b))
        <4>1. \A a \in Archives : a # Cur(b) => row'[a] = row[a]
          BY <1>1, <2>2
          DEF BuildTask, Start, Recheck, FoundCancelled, Retrieve, Rephase,
              MakeZip, RemoveTmp, Save, Raise, RecordFailure,
              FailureUnrecorded, FlushRaises, Sets, IInv, TypeOK
        <4> QED
          BY <3>1, <4>1 DEF Exists
      <3>2. CASE ~Exists(Cur(b))
        BY <3>2, <2>2
        DEF BuildTask, Start, Recheck, FoundCancelled, Retrieve, Rephase,
            MakeZip, RemoveTmp, Save, Raise, RecordFailure,
            FailureUnrecorded, FlushRaises, Exists
      <3> QED
        BY <3>1, <3>2
    <2>3. CASE AdminPages
      <3>1. ASSUME NEW d \in Admins, CancelCommit(d)
            PROVE  Stays
        <4>1. \A a \in Archives : a # admin[d].on => row'[a] = row[a]
          BY <1>1, <3>1 DEF CancelCommit, IInv, TypeOK
        <4> QED
          BY <3>1, <4>1 DEF CancelCommit, Exists
      <3>2. ASSUME NEW S, Deletes(S)
            PROVE  Stays
        BY <3>2 DEF Deletes, Absent, Exists
      <3> QED
        BY <2>3, <3>1, <3>2
        DEF AdminPages, CancelRead, DeleteRead, CancelFails, DeleteCommit,
            DeleteFails, Exists
    <2>4. CASE EventDeletion
      BY <2>4
      DEF EventDeletion, DeleteEventFiles, DeleteEventCommit,
          DeleteEventFails, Deletes, Absent, Exists
    <2>5. CASE \E a \in Archives : Expire(a)
      BY <1>1, <2>5 DEF Expire, Exists, IInv, TypeOK
    <2>6. CASE CleanupLoop
      BY <2>6
      DEF CleanupLoop, CleanupSelect, CleanupCommit, CleanupFails, Deletes,
          Absent, Exists
    <2>7. CASE Restart \/ UNCHANGED vars
      BY <2>7 DEF Restart, vars, Exists
    <2> QED
      BY <1>1, <2>1, <2>2, <2>3, <2>4, <2>5, <2>6, <2>7 DEF Next, OneLife
  <1> QED
    BY <1>1, Invariant, PTL DEF Spec, NoResurrection

-----------------------------------------------------------------------------
(* ArchiveService implements DownloadLink *)

LEMMA SameLink ==
    ASSUME NEW a \in Archives, row'[a] = row[a], made' = made
    PROVE  LinkOf(a)' = LinkOf(a)
  BY DEF LinkOf, Exists, Issued

(* Where a link can go when its row is written. *)
LEMMA LinkMoves ==
    ASSUME NEW c \in Archives,
           \A a \in Archives \ {c} : LinkOf(a)' = LinkOf(a),
           \/ LinkOf(c)' = LinkOf(c)
           \/ LinkOf(c) = "unissued" /\ LinkOf(c)' = "open"
           \/ LinkOf(c) \in {"open", "cancelled"} /\ LinkOf(c)' = "ready"
           \/ LinkOf(c) \in {"open", "cancelled"} /\ LinkOf(c)' = "failed"
           \/ LinkOf(c) = "cancelled" /\ LinkOf(c)' = "open"
           \/ LinkOf(c) \in {"open", "ready", "failed"} /\ LinkOf(c)' = "cancelled"
           \/ LinkOf(c) \in Link!Standing /\ LinkOf(c)' = "expired"
    PROVE  [Link!LinkNext]_[a \in Archives |-> LinkOf(a)]
  <1> DEFINE m == [a \in Archives |-> LinkOf(a)]
  <1>1. m' = [m EXCEPT ![c] = LinkOf(c)']
    OBVIOUS
  <1>2. m[c] = LinkOf(c)
    OBVIOUS
  <1>3. CASE LinkOf(c)' = LinkOf(c)
    BY <1>3
  <1>4. CASE LinkOf(c)' # LinkOf(c)
    <2>1. \/ Link!Issue(c) \/ Link!Publish(c) \/ Link!Fail(c)
          \/ Link!Resume(c) \/ Link!Cancel(c) \/ Link!Expire(c)
      BY <1>1, <1>2, <1>4
      DEF Link!Issue, Link!Publish, Link!Fail, Link!Resume, Link!Cancel,
          Link!Expire, Link!Moves
    <2> QED
      BY <2>1 DEF Link!LinkNext
  <1> QED
    BY <1>3, <1>4

(* Deleting rows withdraws the links that had one. *)
LEMMA LinksWithdrawn ==
    ASSUME IInv, NEW S, Deletes(S), made' = made
    PROVE  [Link!LinkNext]_[a \in Archives |-> LinkOf(a)]
  <1> DEFINE W == {a \in Archives : a \in S /\ Exists(a)}
  <1>1. \A a \in W : Issued(a) /\ LinkOf(a) \in Link!Standing \cup {"expired"}
    BY DEF IInv, TypeOK, RowShape, LinkOf, Exists, ArchiveRequest, Status,
           Link!Standing
  <1>2. \A a \in W : LinkOf(a)' = "gone"
    BY <1>1 DEF Deletes, LinkOf, Exists, Issued, Absent
  <1>3. \A a \in Archives \ W : LinkOf(a)' = LinkOf(a)
    BY DEF Deletes, LinkOf, Exists, Issued, Absent, IInv, RowShape
  <1>4. Link!Withdraw(W)
    BY <1>1, <1>2, <1>3 DEF Link!Withdraw
  <1> QED
    BY <1>4 DEF Link!LinkNext

LEMMA LinkStep ==
    ASSUME IInv, [Next]_vars
    PROVE  [Link!LinkNext]_[a \in Archives |-> LinkOf(a)]
  <1>1. ASSUME UNCHANGED <<row, made>>
        PROVE  UNCHANGED [a \in Archives |-> LinkOf(a)]
    BY <1>1, SameLink
  <1>2. CASE Requests
    <2>1. ASSUME NEW b \in Batches, EnqueueArchive(b)
          PROVE  [Link!LinkNext]_[a \in Archives |-> LinkOf(a)]
      <3>1. PICK c \in Archives : c = <<b, made[b] + 1>>
        BY <2>1, NextIsArchive DEF EnqueueArchive, IInv
      <3>2. c[1] = b /\ c[2] = made[b] + 1 /\ row[c] = Absent
        BY <3>1 DEF IInv, TypeOK, RowShape, Issued
      <3>3. LinkOf(c) = "unissued"
        BY <3>2 DEF LinkOf, Exists, Issued, Absent, IInv, TypeOK
      <3>4. LinkOf(c)' = "open"
        <4>1. row'[c].status = "pending" /\ ~row'[c].due
          BY <2>1, <3>1, <3>2 DEF EnqueueArchive, IInv, TypeOK, Absent
        <4> QED
          BY <4>1 DEF LinkOf, Exists
      <3>5. ASSUME NEW a \in Archives \ {c}
            PROVE  LinkOf(a)' = LinkOf(a)
        <4>1. row'[a] = row[a]
          BY <2>1, <3>1 DEF EnqueueArchive, IInv, TypeOK
        <4>2. a[1] # b \/ a[2] # made[b] + 1
          BY <3>1, PairsOfArchives
        <4>3. /\ made' = [made EXCEPT ![b] = @ + 1]
              /\ a[1] \in Batches /\ a[2] \in Nat /\ made \in [Batches -> Nat]
          BY <2>1, PairsOfArchives DEF EnqueueArchive, IInv, TypeOK
        <4>4. Issued(a)' <=> Issued(a)
          BY <4>2, <4>3 DEF Issued
        <4> QED
          BY <4>1, <4>4 DEF LinkOf, Exists
      <3> QED
        BY <3>3, <3>4, <3>5, LinkMoves
    <2> QED
      BY <1>1, <1>2, <2>1 DEF Requests, EnqueueBatch, EnqueueFails, Goto
  <1>3. ASSUME NEW b \in Batches, BuildTask(b)
        PROVE  [Link!LinkNext]_[a \in Archives |-> LinkOf(a)]
    <2>1. pc[b] \in Working /\ made' = made
      BY <1>3
      DEF BuildTask, Start, Recheck, FoundCancelled, Retrieve, Rephase,
          MakeZip, RemoveTmp, Save, Raise, RecordFailure,
          FailureUnrecorded, FlushRaises, Goto, NextPart, Working
    <2>2. PICK c \in Archives : c = Cur(b)
      BY <2>1, CurIsArchive DEF IInv
    <2>3. row[c].status \in {"absent", "pending", "processing", "cancelled"}
      BY <2>1, <2>2, TheCurrentPart
      DEF IInv, TypeOK, ArchiveRequest, Status, PartAtWork, AtWork
    <2>4. CASE Start(b) \/ Rephase(b) \/ Save(b) \/ RecordFailure(b)
      <3>1. /\ Exists(c) /\ row'[c].due = row[c].due
            /\ row'[c].status \in {row[c].status, "processing", "ready", "failed"}
        BY <2>2, <2>4
        DEF Start, Rephase, Save, RecordFailure, Sets, IInv, TypeOK,
            ArchiveRequest
      <3>2. \A a \in Archives \ {c} : LinkOf(a)' = LinkOf(a)
        BY <2>1, <2>2, <2>4, SameLink
        DEF Start, Rephase, Save, RecordFailure, Sets, IInv, TypeOK
      <3>3. \/ LinkOf(c)' = LinkOf(c)
            \/ LinkOf(c) \in {"open", "cancelled"} /\ LinkOf(c)' = "ready"
            \/ LinkOf(c) \in {"open", "cancelled"} /\ LinkOf(c)' = "failed"
            \/ LinkOf(c) = "cancelled" /\ LinkOf(c)' = "open"
        BY <2>3, <3>1 DEF LinkOf, Exists
      <3> QED
        BY <3>2, <3>3, LinkMoves
    <2>5. CASE UNCHANGED row
      BY <2>1, <2>5, <1>1
    <2> QED
      BY <1>3, <2>4, <2>5
      DEF BuildTask, Recheck, FoundCancelled, Retrieve, MakeZip, RemoveTmp,
          Raise, FailureUnrecorded, FlushRaises
  <1>4. ASSUME NEW d \in Admins, CancelCommit(d)
        PROVE  [Link!LinkNext]_[a \in Archives |-> LinkOf(a)]
    <2>1. PICK c \in Archives : c = admin[d].on
      BY <1>4 DEF CancelCommit, IInv, TypeOK, AdminRequest, NoRequest
    <2>2. /\ Exists(c) /\ row'[c].due = row[c].due
          /\ row'[c].status = "cancelled" /\ made' = made
      BY <1>4, <2>1 DEF CancelCommit, IInv, TypeOK, ArchiveRequest, task
    <2>3. \A a \in Archives \ {c} : LinkOf(a)' = LinkOf(a)
      BY <1>4, <2>1, <2>2, SameLink DEF CancelCommit, IInv, TypeOK
    <2>4. \/ LinkOf(c)' = LinkOf(c)
          \/ /\ LinkOf(c) \in {"open", "ready", "failed"}
             /\ LinkOf(c)' = "cancelled"
      BY <2>2 DEF LinkOf, Exists, IInv, TypeOK, ArchiveRequest, Status
    <2> QED
      BY <2>3, <2>4, LinkMoves
  <1>5. CASE AdminPages
    BY <1>1, <1>4, <1>5, LinksWithdrawn
    DEF AdminPages, CancelRead, DeleteRead, CancelFails, DeleteCommit,
        DeleteFails, task
  <1>6. CASE EventDeletion
    BY <1>1, <1>6, LinksWithdrawn
    DEF EventDeletion, DeleteEventFiles, DeleteEventCommit, DeleteEventFails,
        task
  <1>7. ASSUME NEW c \in Archives, Expire(c)
        PROVE  [Link!LinkNext]_[a \in Archives |-> LinkOf(a)]
    <2>1. /\ row'[c].status = row[c].status /\ row'[c].due /\ made' = made
          /\ Exists(c) /\ ~row[c].due
      BY <1>7 DEF Expire, Exists, IInv, TypeOK, ArchiveRequest, task
    <2>2. \A a \in Archives \ {c} : LinkOf(a)' = LinkOf(a)
      BY <1>7, <2>1, SameLink DEF Expire, IInv, TypeOK
    <2>3. LinkOf(c) \in Link!Standing /\ LinkOf(c)' = "expired"
      BY <2>1 DEF LinkOf, Exists, Link!Standing, IInv, TypeOK,
                  ArchiveRequest, Status
    <2> QED
      BY <2>2, <2>3, LinkMoves
  <1>8. CASE CleanupLoop
    BY <1>1, <1>8, LinksWithdrawn
    DEF CleanupLoop, CleanupSelect, CleanupCommit, CleanupFails, task
  <1>9. CASE Restart \/ UNCHANGED vars
    BY <1>1, <1>9 DEF Restart, vars
  <1> QED
    BY <1>2, <1>3, <1>5, <1>6, <1>7, <1>8, <1>9 DEF Next, OneLife

(* The ZIP service keeps the promise of DownloadLink: expired and deleted  *)
(* links never come back, ready ones never turn to waiting or failed.      *)
THEOREM ServiceImplementsLink == Spec => ImplementsLink
  <1>1. Init => Link!LinkInit
    BY PairsOfArchives
    DEF Init, Link!LinkInit, LinkOf, Exists, Issued, Absent
  <1>2. IInv /\ [Next]_vars => [Link!LinkNext]_[a \in Archives |-> LinkOf(a)]
    BY LinkStep
  <1> QED
    BY <1>1, <1>2, Invariant, PTL DEF Spec, ImplementsLink, Link!LinkSpec
=============================================================================
