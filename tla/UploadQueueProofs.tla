------------------------- MODULE UploadQueueProofs -------------------------
(***************************************************************************)
(* Proofs about UploadQueue, for any files, any messages and any number of *)
(* slots.                                                                  *)
(*                                                                         *)
(* Every handler first changes the page and then sends what the queue has: *)
(* Agrees states the counters for what is between the two.  The messages   *)
(* need WaitsInItsBatch: a batch lasts as long as one of its files waits.  *)
(***************************************************************************)
EXTENDS UploadQueue, FiniteSetTheorems, SequenceTheorems, TLAPS

With(items, s) == {f \in Files : items[f] = s}

(* CountersAgree, of the values that a handler passes on. *)
Agrees(items, queue, active, pending, done, errors) ==
    /\ pending = Cardinality(With(items, "queued") \cup With(items, "sending"))
    /\ active = Cardinality(With(items, "sending"))
    /\ done = Cardinality(With(items, "done"))
    /\ errors = Cardinality(With(items, "error") \cup With(items, "failed"))
    /\ ToSet(queue) = With(items, "queued")
    /\ IsInjective(queue)

WaitsInItsBatch ==
    \A f \in Files : item[f] = "queued" /\ f \notin retried =>
        batch.started /\ batchOf[f] = batch.message

IInv ==
    /\ TypeOK
    /\ CountersAgree
    /\ SlotsAreUsed
    /\ SentWithItsBatch
    /\ WaitsInItsBatch

-----------------------------------------------------------------------------
(* Counting *)

LEMMA FilesAreFinite ==
    ASSUME NEW S \in SUBSET Files
    PROVE  IsFiniteSet(S) /\ Cardinality(S) \in Nat
<1> QED
  BY FS_Subset, FS_CardinalityType, QueueAssumption

LEMMA AddFile ==
    ASSUME NEW S \in SUBSET Files, NEW f \in Files \ S
    PROVE  Cardinality(S \cup {f}) = Cardinality(S) + 1
<1> QED
  BY FilesAreFinite, FS_AddElement

LEMMA RemoveFile ==
    ASSUME NEW S \in SUBSET Files, NEW f \in S
    PROVE  Cardinality(S \ {f}) = Cardinality(S) - 1
<1> QED
  BY FilesAreFinite, FS_RemoveElement

LEMMA AddFiles ==
    ASSUME NEW S \in SUBSET Files, NEW T \in SUBSET Files, S \cap T = {}
    PROVE  Cardinality(S \cup T) = Cardinality(S) + Cardinality(T)
<1>1. IsFiniteSet(S) /\ IsFiniteSet(T) /\ Cardinality(S) \in Nat /\ Cardinality(T) \in Nat
  BY FilesAreFinite
<1>2. Cardinality(S \cap T) = 0
  BY FS_EmptySet, Zenon
<1>3. Cardinality(S \cup T) = Cardinality(S) + Cardinality(T) - Cardinality(S \cap T)
  BY <1>1, FS_Union, Zenon
<1> QED
  BY <1>1, <1>2, <1>3

(* An injective sequence has as many elements as places. *)
LEMMA CountQueue ==
    ASSUME NEW queue \in Seq(Files), IsInjective(queue), NEW n \in 0..Len(queue)
    PROVE  Cardinality({queue[i] : i \in 1..n}) = n
<1> DEFINE S == {queue[i] : i \in 1..n}
           b == [i \in 1..n |-> queue[i]]
<1>1. \A i, j \in 1..n : queue[i] = queue[j] => i = j
  BY DEF IsInjective
<1>2. b \in Bijection(1..n, S)
  BY <1>1 DEF Bijection, Injection, Surjection, IsInjective
<1> QED
  BY <1>2, FS_CountingElements DEF ExistsBijection

(* Two queues of different files, one behind the other. *)
LEMMA AppendFiles ==
    ASSUME NEW queue \in Seq(Files), IsInjective(queue),
           NEW files \in Seq(Files), IsInjective(files),
           ToSet(queue) \cap ToSet(files) = {}
    PROVE  /\ ToSet(queue \o files) = ToSet(queue) \cup ToSet(files)
           /\ IsInjective(queue \o files)
<1> DEFINE both == queue \o files
           m == Len(queue)
           n == Len(files)
<1>1. m \in Nat /\ n \in Nat /\ DOMAIN queue = 1..m /\ DOMAIN files = 1..n
  OBVIOUS
<1>2. DOMAIN both = 1..m + n
  OBVIOUS
<1>3. /\ \A i \in 1..m : both[i] = queue[i]
      /\ \A i \in 1..n : both[m + i] = files[i]
  OBVIOUS
<1>4. \A i \in 1..m + n : i \in 1..m \/ (i - m \in 1..n /\ m + (i - m) = i)
  BY <1>1
<1> HIDE DEF both, m, n
<1>5. \A i \in 1..m : queue[i] \in ToSet(queue)
  BY <1>1 DEF ToSet
<1>6. \A i \in 1..n : files[i] \in ToSet(files)
  BY <1>1 DEF ToSet
<1>7. ToSet(both) = ToSet(queue) \cup ToSet(files)
  <2>1. ASSUME NEW f \in ToSet(both)
        PROVE  f \in ToSet(queue) \cup ToSet(files)
    <3>1. PICK i \in 1..m + n : f = both[i]
      BY <1>2, <2>1 DEF ToSet
    <3> QED
      BY <1>3, <1>4, <1>5, <1>6, <3>1
  <2>2. \A i \in 1..m : i \in 1..m + n
    BY <1>1
  <2>3. \A i \in 1..n : m + i \in 1..m + n
    BY <1>1
  <2>4. ToSet(queue) \subseteq ToSet(both)
    BY <1>1, <1>2, <1>3, <2>2 DEF ToSet
  <2>5. ToSet(files) \subseteq ToSet(both)
    BY <1>1, <1>2, <1>3, <2>3 DEF ToSet
  <2> QED
    BY <2>1, <2>4, <2>5
<1>8. IsInjective(both)
  <2> SUFFICES ASSUME NEW i \in 1..m + n, NEW j \in 1..m + n, both[i] = both[j]
               PROVE  i = j
    BY <1>2 DEF IsInjective
  <2>1. CASE i \in 1..m /\ j \in 1..m
    BY <1>1, <1>3, <2>1 DEF IsInjective
  <2>2. CASE i \in 1..m /\ j \notin 1..m
    <3>1. both[i] \in ToSet(queue) /\ both[j] \in ToSet(files)
      BY <1>3, <1>4, <1>5, <1>6, <2>2
    <3> QED
      BY <3>1
  <2>3. CASE i \notin 1..m /\ j \in 1..m
    <3>1. both[j] \in ToSet(queue) /\ both[i] \in ToSet(files)
      BY <1>3, <1>4, <1>5, <1>6, <2>3
    <3> QED
      BY <3>1
  <2>4. CASE i \notin 1..m /\ j \notin 1..m
    <3>1. i - m \in 1..n /\ j - m \in 1..n /\ files[i - m] = files[j - m]
      BY <1>3, <1>4, <2>4
    <3>2. i - m = j - m
      BY <1>1, <3>1 DEF IsInjective
    <3> QED
      BY <1>1, <3>2
  <2> QED
    BY <2>1, <2>2, <2>3, <2>4
<1> QED
  BY <1>7, <1>8 DEF both

LEMMA AppendFile ==
    ASSUME NEW queue \in Seq(Files), IsInjective(queue), NEW f \in Files,
           f \notin ToSet(queue)
    PROVE  /\ ToSet(Append(queue, f)) = ToSet(queue) \cup {f}
           /\ IsInjective(Append(queue, f))
<1>1. <<f>> \in Seq(Files) /\ ToSet(<<f>>) = {f} /\ IsInjective(<<f>>)
  BY DEF ToSet, IsInjective
<1>2. Append(queue, f) = queue \o <<f>>
  OBVIOUS
<1>3. ToSet(queue) \cap ToSet(<<f>>) = {}
  BY <1>1
<1> QED
  BY <1>1, <1>2, <1>3, AppendFiles

(* A set of files, in any order. *)
LEMMA SeqOfSet ==
    ASSUME NEW new \in SUBSET Files, NEW files \in SetToSeqs(new)
    PROVE  /\ files \in Seq(Files) /\ Len(files) = Cardinality(new)
           /\ ToSet(files) = new /\ IsInjective(files)
<1> DEFINE n == Cardinality(new)
<1>1. n \in Nat /\ IsFiniteSet(new)
  BY FilesAreFinite
<1>2. files \in [1..n -> new] /\ \A i, j \in 1..n : i # j => files[i] # files[j]
  BY DEF SetToSeqs
<1>3. files \in Seq(Files) /\ Len(files) = n /\ DOMAIN files = 1..n
  BY <1>1, <1>2
<1>4. files \in Injection(1..n, new)
  BY <1>2 DEF Injection, IsInjective
<1>5. IsFiniteSet(1..n) /\ Cardinality(1..n) = n
  BY <1>1, FS_Interval
<1>6. files \in Surjection(1..n, new)
  BY <1>1, <1>4, <1>5, FS_Injection
<1>7. ToSet(files) = new
  BY <1>3, <1>6 DEF ToSet, Surjection
<1> QED
  BY <1>2, <1>3, <1>7 DEF IsInjective

(* The first n of the queue, and the others. *)
LEMMA SplitQueue ==
    ASSUME NEW queue \in Seq(Files), IsInjective(queue), NEW n \in 0..Len(queue)
    PROVE  LET first == ToSet(SubSeq(queue, 1, n))
               rest == SubSeq(queue, n + 1, Len(queue))
           IN  /\ first \subseteq ToSet(queue) /\ Cardinality(first) = n
               /\ rest \in Seq(Files) /\ IsInjective(rest)
               /\ ToSet(rest) = ToSet(queue) \ first
               /\ Len(rest) = Len(queue) - n
<1> DEFINE first == ToSet(SubSeq(queue, 1, n))
           rest == SubSeq(queue, n + 1, Len(queue))
<1>1. Len(queue) \in Nat /\ \A i \in 1..Len(queue) : queue[i] \in Files
  OBVIOUS
<1>2. /\ SubSeq(queue, 1, n) \in Seq(Files) /\ Len(SubSeq(queue, 1, n)) = n
      /\ \A i \in 1..n : SubSeq(queue, 1, n)[i] = queue[i]
  <2>1. \A i \in 1..n : queue[i] \in Files
    BY <1>1
  <2> QED
    BY <1>1, <2>1, SubSeqProperties
<1>3. /\ rest \in Seq(Files) /\ Len(rest) = Len(queue) - n
      /\ \A i \in 1..Len(queue) - n : rest[i] = queue[n + i]
  <2>1. \A i \in n + 1 .. Len(queue) : queue[i] \in Files
    BY <1>1
  <2>2. /\ SubSeq(queue, n + 1, Len(queue)) \in Seq(Files)
        /\ Len(SubSeq(queue, n + 1, Len(queue))) =
             IF n + 1 <= Len(queue) THEN Len(queue) - (n + 1) + 1 ELSE 0
        /\ \A i \in 1 .. Len(queue) - (n + 1) + 1 :
              SubSeq(queue, n + 1, Len(queue))[i] = queue[n + 1 + i - 1]
    BY <1>1, <2>1, SubSeqProperties
  <2> QED
    BY <1>1, <2>2
<1>4. DOMAIN queue = 1..Len(queue) /\ DOMAIN rest = 1..Len(queue) - n
  BY <1>3
<1>5. first = {queue[i] : i \in 1..n}
  <2>1. DOMAIN SubSeq(queue, 1, n) = 1..n
    BY <1>2
  <2> QED
    BY <1>2, <2>1 DEF ToSet
<1>6. ToSet(queue) = {queue[i] : i \in 1..Len(queue)}
  BY <1>4 DEF ToSet
<1>7. ToSet(rest) = {queue[n + i] : i \in 1..Len(queue) - n}
  BY <1>3, <1>4 DEF ToSet
<1>8. \A i, j \in 1..Len(queue) : queue[i] = queue[j] => i = j
  BY <1>4 DEF IsInjective
<1>9. IsInjective(rest)
  <2> SUFFICES ASSUME NEW i \in 1..Len(queue) - n, NEW j \in 1..Len(queue) - n,
                      rest[i] = rest[j]
               PROVE  i = j
    BY <1>4 DEF IsInjective
  <2>1. n + i \in 1..Len(queue) /\ n + j \in 1..Len(queue) /\ queue[n + i] = queue[n + j]
    BY <1>1, <1>3
  <2>2. n + i = n + j
    BY <1>8, <2>1
  <2> QED
    BY <2>2
<1>10. ToSet(rest) = ToSet(queue) \ first
  <2>1. ASSUME NEW f \in ToSet(rest)
        PROVE  f \in ToSet(queue) \ first
    <3>1. PICK i \in 1..Len(queue) - n : f = queue[n + i]
      BY <1>7, <2>1
    <3>2. n + i \in 1..Len(queue)
      BY <1>1
    <3>3. ASSUME NEW j \in 1..n
          PROVE  queue[j] # f
      <4>1. j \in 1..Len(queue) /\ j # n + i
        BY <1>1, <3>3
      <4> QED
        BY <1>8, <3>1, <3>2, <4>1
    <3> QED
      BY <1>5, <1>6, <3>1, <3>2, <3>3
  <2>2. ASSUME NEW f \in ToSet(queue) \ first
        PROVE  f \in ToSet(rest)
    <3>1. PICK i \in 1..Len(queue) : f = queue[i]
      BY <1>6, <2>2
    <3>2. i \notin 1..n
      BY <1>5, <2>2, <3>1
    <3>3. i - n \in 1..Len(queue) - n /\ n + (i - n) = i
      BY <1>1, <3>2
    <3> QED
      BY <1>7, <3>1, <3>3
  <2> QED
    BY <2>1, <2>2
<1>11. first \subseteq ToSet(queue)
  BY <1>1, <1>5, <1>6
<1> QED
  BY <1>3, <1>5, <1>9, <1>10, <1>11, CountQueue
-----------------------------------------------------------------------------
(* Sending what there are free slots for keeps the counters in agreement   *)
(* and the slots in use: processUploadQueue, upload.html:364-395.          *)
LEMMA SendingKeeps ==
    ASSUME NEW items \in [Files -> Shown], NEW queue \in Seq(Files), NEW active \in Nat,
           NEW message \in Texts, sent \in [Files -> Texts],
           Agrees(items, queue, active, pendingCount', doneCount', errorCount'),
           active <= CONCURRENT_UPLOADS,
           ProcessUploadQueue(queue, active, items, message)
    PROVE  /\ item' \in [Files -> Shown] /\ uploadPending' \in Seq(Files)
           /\ activeUploads' \in Nat /\ sent' \in [Files -> Texts]
           /\ CountersAgree' /\ SlotsAreUsed'
           /\ \A f \in Files :
                 \/ item'[f] = items[f] /\ sent'[f] = sent[f]
                 \/ items[f] = "queued" /\ item'[f] = "sending" /\ sent'[f] = message
<1> DEFINE free == CONCURRENT_UPLOADS - active
           n == IF Len(queue) < free THEN Len(queue) ELSE free
           first == ToSet(SubSeq(queue, 1, n))
           rest == SubSeq(queue, n + 1, Len(queue))
<1>1. CONCURRENT_UPLOADS \in Nat /\ Len(queue) \in Nat
  BY QueueAssumption
<1>2. n \in 0..Len(queue)
  BY <1>1
<1>3. /\ uploadPending' = rest
      /\ activeUploads' = active + n
      /\ item' = [f \in Files |-> IF f \in first THEN "sending" ELSE items[f]]
      /\ sent' = [f \in Files |-> IF f \in first THEN message ELSE sent[f]]
  BY DEF ProcessUploadQueue
<1>4. IsInjective(queue) /\ ToSet(queue) = With(items, "queued")
  BY DEF Agrees
<1>5. /\ first \subseteq ToSet(queue) /\ Cardinality(first) = n
      /\ rest \in Seq(Files) /\ IsInjective(rest)
      /\ ToSet(rest) = ToSet(queue) \ first
      /\ Len(rest) = Len(queue) - n
  <2> HIDE DEF n
  <2> QED
    BY <1>2, <1>4, SplitQueue
<1>6. activeUploads' <= CONCURRENT_UPLOADS /\ activeUploads' \in Nat
  BY <1>1, <1>3
<1>7. uploadPending' # <<>> => activeUploads' = CONCURRENT_UPLOADS
  <2>1. rest # <<>> => Len(queue) - n # 0
    BY <1>5
  <2> QED
    BY <1>1, <1>3, <2>1
<1> HIDE DEF first, rest, n
<1>8. first \subseteq With(items, "queued") /\ first \subseteq Files
  BY <1>4, <1>5 DEF With
<1>9. item' \in [Files -> Shown] /\ sent' \in [Files -> Texts]
  BY <1>3 DEF Shown
<1>10. /\ With(item', "queued") = With(items, "queued") \ first
       /\ With(item', "sending") = With(items, "sending") \cup first
       /\ \A s \in {"done", "error", "failed"} : With(item', s) = With(items, s)
  BY <1>3, <1>8 DEF With
<1>11. activeUploads' = Cardinality(With(item', "sending"))
  <2>1. With(items, "sending") \cap first = {} /\ With(items, "sending") \subseteq Files
    BY <1>8 DEF With
  <2>2. Cardinality(With(items, "sending") \cup first) =
          Cardinality(With(items, "sending")) + Cardinality(first)
    BY <1>8, <2>1, AddFiles
  <2> QED
    BY <1>3, <1>5, <1>10, <2>2 DEF Agrees
<1>12. With(item', "queued") \cup With(item', "sending") =
         With(items, "queued") \cup With(items, "sending")
  BY <1>8, <1>10
<1>13. With(item', "error") \cup With(item', "failed") =
         With(items, "error") \cup With(items, "failed")
  BY <1>10
<1>14. CountersAgree'
  <2>1. \A s : Showing(s)' = With(item', s)
    BY DEF Showing, With
  <2>2. /\ pendingCount' = Cardinality(With(item', "queued") \cup With(item', "sending"))
        /\ doneCount' = Cardinality(With(item', "done"))
        /\ errorCount' = Cardinality(With(item', "error") \cup With(item', "failed"))
    BY <1>10, <1>12, <1>13 DEF Agrees
  <2>3. ToSet(uploadPending') = With(item', "queued") /\ IsInjective(uploadPending')
    BY <1>3, <1>4, <1>5, <1>10
  <2> QED
    BY <1>11, <2>1, <2>2, <2>3 DEF CountersAgree
<1>15. SlotsAreUsed'
  BY <1>6, <1>7 DEF SlotsAreUsed
<1>16. \A f \in Files :
         \/ item'[f] = items[f] /\ sent'[f] = sent[f]
         \/ items[f] = "queued" /\ item'[f] = "sending" /\ sent'[f] = message
  BY <1>3, <1>8 DEF With
<1> QED
  BY <1>3, <1>5, <1>6, <1>9, <1>14, <1>15, <1>16

(* The counters of a state, in terms of Agrees. *)
LEMMA AgreesNow ==
    ASSUME IInv
    PROVE  Agrees(item, uploadPending, activeUploads, pendingCount, doneCount, errorCount)
<1> QED
  BY DEF IInv, CountersAgree, Agrees, Showing, With

(* The files that show one thing or another. *)
LEMMA WithFiles ==
    ASSUME NEW items, NEW s
    PROVE  With(items, s) \in SUBSET Files
<1> QED
  BY DEF With

-----------------------------------------------------------------------------
(* What the handlers do before they send *)

(* A file that is answered leaves its slot. *)
LEMMA AnswerAgrees ==
    ASSUME IInv, NEW f \in Files, item[f] = "sending",
           NEW s \in {"done", "error", "failed"}
    PROVE  /\ Agrees([item EXCEPT ![f] = s], uploadPending, activeUploads - 1,
                     pendingCount - 1,
                     IF s = "done" THEN doneCount + 1 ELSE doneCount,
                     IF s = "done" THEN errorCount ELSE errorCount + 1)
           /\ activeUploads - 1 \in Nat /\ pendingCount - 1 \in Nat
<1> DEFINE items == [item EXCEPT ![f] = s]
           open == With(item, "queued") \cup With(item, "sending")
           wrong == With(item, "error") \cup With(item, "failed")
<1>1. item \in [Files -> Shown]
  BY DEF IInv, TypeOK
<1>2. /\ pendingCount = Cardinality(open) /\ activeUploads = Cardinality(With(item, "sending"))
      /\ doneCount = Cardinality(With(item, "done")) /\ errorCount = Cardinality(wrong)
      /\ ToSet(uploadPending) = With(item, "queued") /\ IsInjective(uploadPending)
  BY AgreesNow DEF Agrees
<1>3. /\ With(item, "sending") \in SUBSET Files /\ f \in With(item, "sending")
      /\ open \in SUBSET Files /\ f \in open
      /\ With(item, "done") \in SUBSET Files /\ f \in Files \ With(item, "done")
      /\ wrong \in SUBSET Files /\ f \in Files \ wrong
  BY <1>1 DEF With
<1>4. /\ With(items, "queued") = With(item, "queued")
      /\ With(items, "sending") = With(item, "sending") \ {f}
      /\ With(items, "queued") \cup With(items, "sending") = open \ {f}
      /\ s = "done" => /\ With(items, "done") = With(item, "done") \cup {f}
                       /\ With(items, "error") \cup With(items, "failed") = wrong
      /\ s # "done" => /\ With(items, "done") = With(item, "done")
                       /\ With(items, "error") \cup With(items, "failed") = wrong \cup {f}
  BY <1>1 DEF With
<1> HIDE DEF open, wrong, items
<1>5. /\ Cardinality(With(item, "sending") \ {f}) = activeUploads - 1
      /\ Cardinality(open \ {f}) = pendingCount - 1
      /\ Cardinality(With(item, "done") \cup {f}) = doneCount + 1
      /\ Cardinality(wrong \cup {f}) = errorCount + 1
  BY <1>2, <1>3, AddFile, RemoveFile
<1>6. activeUploads - 1 \in Nat /\ pendingCount - 1 \in Nat
  <2>1. With(item, "sending") \ {f} \in SUBSET Files /\ open \ {f} \in SUBSET Files
    BY <1>3
  <2> QED
    BY <1>5, <2>1, FilesAreFinite
<1>7. Agrees(items, uploadPending, activeUploads - 1, pendingCount - 1,
             IF s = "done" THEN doneCount + 1 ELSE doneCount,
             IF s = "done" THEN errorCount ELSE errorCount + 1)
  BY <1>2, <1>4, <1>5 DEF Agrees
<1> QED
  BY <1>6, <1>7 DEF items

(* A file that is retried waits again, at the end of the queue. *)
LEMMA RetryAgrees ==
    ASSUME IInv, NEW f \in Files, item[f] = "error"
    PROVE  /\ Agrees([item EXCEPT ![f] = "queued"], Append(uploadPending, f), activeUploads,
                     pendingCount + 1, doneCount, errorCount - 1)
           /\ errorCount - 1 \in Nat
<1> DEFINE items == [item EXCEPT ![f] = "queued"]
           open == With(item, "queued") \cup With(item, "sending")
           wrong == With(item, "error") \cup With(item, "failed")
<1>1. item \in [Files -> Shown] /\ uploadPending \in Seq(Files)
  BY DEF IInv, TypeOK
<1>2. /\ pendingCount = Cardinality(open) /\ activeUploads = Cardinality(With(item, "sending"))
      /\ doneCount = Cardinality(With(item, "done")) /\ errorCount = Cardinality(wrong)
      /\ ToSet(uploadPending) = With(item, "queued") /\ IsInjective(uploadPending)
  BY AgreesNow DEF Agrees
<1>3. /\ open \in SUBSET Files /\ f \in Files \ open
      /\ wrong \in SUBSET Files /\ f \in wrong
  BY <1>1 DEF With
<1>4. /\ With(items, "queued") = With(item, "queued") \cup {f}
      /\ With(items, "sending") = With(item, "sending")
      /\ With(items, "queued") \cup With(items, "sending") = open \cup {f}
      /\ With(items, "done") = With(item, "done")
      /\ With(items, "error") \cup With(items, "failed") = wrong \ {f}
  BY <1>1 DEF With
<1>5. f \notin ToSet(uploadPending)
  BY <1>2, <1>3
<1>6. ToSet(Append(uploadPending, f)) = ToSet(uploadPending) \cup {f}
      /\ IsInjective(Append(uploadPending, f))
  BY <1>1, <1>2, <1>5, AppendFile
<1> HIDE DEF open, wrong, items
<1>7. /\ Cardinality(open \cup {f}) = pendingCount + 1
      /\ Cardinality(wrong \ {f}) = errorCount - 1
  BY <1>2, <1>3, AddFile, RemoveFile
<1>8. errorCount - 1 \in Nat
  <2>1. wrong \ {f} \in SUBSET Files
    BY <1>3
  <2> QED
    BY <1>7, <2>1, FilesAreFinite
<1>9. Agrees(items, Append(uploadPending, f), activeUploads,
             pendingCount + 1, doneCount, errorCount - 1)
  BY <1>2, <1>4, <1>6, <1>7 DEF Agrees
<1> QED
  BY <1>8, <1>9 DEF items

(* Files that are chosen wait behind the others. *)
LEMMA ChoiceAgrees ==
    ASSUME IInv, NEW new \in SUBSET Files, \A f \in new : item[f] = "none",
           NEW files \in SetToSeqs(new)
    PROVE  /\ Agrees([f \in Files |-> IF f \in ToSet(files) THEN "queued" ELSE item[f]],
                     uploadPending \o files, activeUploads,
                     pendingCount + Len(files), doneCount, errorCount)
           /\ ToSet(files) = new /\ files \in Seq(Files)
<1> DEFINE items == [f \in Files |-> IF f \in new THEN "queued" ELSE item[f]]
           open == With(item, "queued") \cup With(item, "sending")
<1>1. item \in [Files -> Shown] /\ uploadPending \in Seq(Files)
  BY DEF IInv, TypeOK
<1>2. /\ pendingCount = Cardinality(open) /\ activeUploads = Cardinality(With(item, "sending"))
      /\ doneCount = Cardinality(With(item, "done"))
      /\ errorCount = Cardinality(With(item, "error") \cup With(item, "failed"))
      /\ ToSet(uploadPending) = With(item, "queued") /\ IsInjective(uploadPending)
  BY AgreesNow DEF Agrees
<1>3. /\ files \in Seq(Files) /\ Len(files) = Cardinality(new)
      /\ ToSet(files) = new /\ IsInjective(files)
  BY SeqOfSet
<1>4. open \in SUBSET Files /\ open \cap new = {}
  BY DEF With
<1>5. /\ With(items, "queued") = With(item, "queued") \cup new
      /\ With(items, "queued") \cup With(items, "sending") = open \cup new
      /\ \A s \in {"sending", "done", "error", "failed"} : With(items, s) = With(item, s)
  BY <1>1 DEF With
<1>6. ToSet(uploadPending) \cap ToSet(files) = {}
  BY <1>2, <1>3, <1>4
<1>7. /\ ToSet(uploadPending \o files) = With(items, "queued")
      /\ IsInjective(uploadPending \o files)
  BY <1>1, <1>2, <1>3, <1>5, <1>6, AppendFiles
<1> HIDE DEF open, items
<1>8. Cardinality(open \cup new) = pendingCount + Len(files)
  BY <1>2, <1>3, <1>4, AddFiles
<1>9. Agrees(items, uploadPending \o files, activeUploads,
             pendingCount + Len(files), doneCount, errorCount)
  BY <1>2, <1>5, <1>7, <1>8 DEF Agrees
<1> QED
  BY <1>3, <1>9 DEF items

-----------------------------------------------------------------------------
(* The steps *)

(* Once the waiting files are in the batch that lasts, it does not matter  *)
(* which of them are sent: upload.html:373-377.                            *)
LEMMA BatchKeeps ==
    ASSUME NEW items \in [Files -> Shown], NEW message,
           \A g \in Files :
              \/ item'[g] = items[g] /\ sent'[g] = sent[g]
              \/ items[g] = "queued" /\ item'[g] = "sending" /\ sent'[g] = message,
           \A g \in Files : items[g] \notin {"none", "queued"} /\ g \notin retried' =>
              sent[g] = batchOf'[g],
           \A g \in Files : items[g] = "queued" /\ g \notin retried' =>
              batch'.started /\ batchOf'[g] = batch'.message /\ batchOf'[g] = message
    PROVE  SentWithItsBatch' /\ WaitsInItsBatch'
<1>1. ASSUME NEW g \in Files, item'[g] \notin {"none", "queued"}, g \notin retried'
      PROVE  sent'[g] = batchOf'[g]
  BY <1>1
<1>2. ASSUME NEW g \in Files, item'[g] = "queued", g \notin retried'
      PROVE  batch'.started /\ batchOf'[g] = batch'.message
  BY <1>2
<1> QED
  BY <1>1, <1>2 DEF SentWithItsBatch, WaitsInItsBatch

(* The guest types; no file is concerned. *)
LEMMA TypingKeeps ==
    ASSUME IInv, NEW t \in Texts, Types(t)
    PROVE  IInv'
<1>1. UNCHANGED <<item, uploadPending, pendingCount, activeUploads, doneCount,
                  errorCount, batch, sent, batchOf, retried>> /\ text' = t
  BY DEF Types
<1>2. TypeOK'
  BY <1>1 DEF IInv, TypeOK
<1>3. CountersAgree'
  BY <1>1 DEF IInv, CountersAgree, Showing
<1>4. SlotsAreUsed'
  BY <1>1 DEF IInv, SlotsAreUsed
<1>5. SentWithItsBatch' /\ WaitsInItsBatch'
  BY <1>1 DEF IInv, SentWithItsBatch, WaitsInItsBatch
<1> QED
  BY <1>2, <1>3, <1>4, <1>5 DEF IInv

(* New files join the batch that lasts, or begin one: in that case no file *)
(* of an earlier one waits (upload.html:271-336).                          *)
LEMMA ChoosingKeeps ==
    ASSUME IInv, NEW new \in SUBSET Showing("none") \ {{}}, NEW files \in SetToSeqs(new),
           HandleFiles(files)
    PROVE  IInv'
<1> DEFINE items == [f \in Files |-> IF f \in ToSet(files) THEN "queued" ELSE item[f]]
<1>1. /\ pendingCount' = pendingCount + Len(files)
      /\ batch' = IF batch.started THEN batch ELSE [started |-> TRUE, message |-> text]
      /\ batchOf' = [f \in Files |-> IF f \in ToSet(files) THEN batch'.message ELSE batchOf[f]]
      /\ ProcessUploadQueue(uploadPending \o files, activeUploads, items, batch'.message)
      /\ UNCHANGED <<doneCount, errorCount, text, retried>>
  BY DEF HandleFiles
<1>2. new \subseteq Files /\ \A f \in new : item[f] = "none"
  BY DEF Showing
<1>3. /\ Agrees(items, uploadPending \o files, activeUploads, pendingCount',
                doneCount', errorCount')
      /\ ToSet(files) = new /\ files \in Seq(Files)
  BY <1>1, <1>2, ChoiceAgrees
<1>4. /\ item \in [Files -> Shown] /\ uploadPending \in Seq(Files)
      /\ pendingCount \in Nat /\ activeUploads \in Nat /\ doneCount \in Nat /\ errorCount \in Nat
      /\ batch \in [started : BOOLEAN, message : Texts] /\ text \in Texts
      /\ sent \in [Files -> Texts] /\ batchOf \in [Files -> Texts] /\ retried \subseteq Files
      /\ activeUploads <= CONCURRENT_UPLOADS
  BY DEF IInv, TypeOK, SlotsAreUsed
<1>5. items \in [Files -> Shown] /\ uploadPending \o files \in Seq(Files)
  BY <1>3, <1>4 DEF Shown
<1>6. /\ batch' \in [started : BOOLEAN, message : Texts] /\ batchOf' \in [Files -> Texts]
      /\ batch'.started /\ batch'.message \in Texts
      /\ batch.started => batch' = batch
      /\ \A f \in Files : batchOf'[f] = IF f \in new THEN batch'.message ELSE batchOf[f]
  BY <1>1, <1>3, <1>4
<1>7. \A f \in Files : items[f] = IF f \in new THEN "queued" ELSE item[f]
  BY <1>3
<1> HIDE DEF items
<1>8. /\ item' \in [Files -> Shown] /\ uploadPending' \in Seq(Files)
      /\ activeUploads' \in Nat /\ sent' \in [Files -> Texts]
      /\ CountersAgree' /\ SlotsAreUsed'
      /\ \A f \in Files :
            \/ item'[f] = items[f] /\ sent'[f] = sent[f]
            \/ items[f] = "queued" /\ item'[f] = "sending" /\ sent'[f] = batch'.message
  <2> DEFINE queue == uploadPending \o files
  <2>1. ProcessUploadQueue(queue, activeUploads, items, batch'.message)
    BY <1>1
  <2>2. queue \in Seq(Files) /\ Agrees(items, queue, activeUploads, pendingCount',
                                       doneCount', errorCount')
    BY <1>3, <1>5
  <2> HIDE DEF queue
  <2> QED
    BY <1>4, <1>5, <1>6, <2>1, <2>2, SendingKeeps
<1>9. pendingCount' \in Nat
  BY <1>1, <1>3, <1>4
<1>10. TypeOK'
  BY <1>1, <1>4, <1>6, <1>8, <1>9 DEF TypeOK
<1>11. \A g \in Files : items[g] \notin {"none", "queued"} /\ g \notin retried' =>
         sent[g] = batchOf'[g]
  BY <1>1, <1>6, <1>7 DEF IInv, SentWithItsBatch
<1>12. \A g \in Files : items[g] = "queued" /\ g \notin retried' =>
         batch'.started /\ batchOf'[g] = batch'.message
  BY <1>1, <1>6, <1>7 DEF IInv, WaitsInItsBatch
<1>13. SentWithItsBatch' /\ WaitsInItsBatch'
  BY <1>5, <1>8, <1>11, <1>12, BatchKeeps
<1> QED
  BY <1>8, <1>10, <1>13 DEF IInv

(* An answer ends the batch only if no file waits any more                 *)
(* (upload.html:396-475, 477-488).                                         *)
LEMMA AnsweringKeeps ==
    ASSUME IInv, NEW f \in Files, Answered(f)
    PROVE  IInv'
<1>1. PICK s \in {"done", "error", "failed"} :
         /\ item[f] = "sending"
         /\ pendingCount' = pendingCount - 1
         /\ doneCount' = IF s = "done" THEN doneCount + 1 ELSE doneCount
         /\ errorCount' = IF s = "done" THEN errorCount ELSE errorCount + 1
         /\ UpdateSummary(pendingCount', doneCount')
         /\ ProcessUploadQueue(uploadPending, activeUploads - 1,
                               [item EXCEPT ![f] = s], batch'.message)
         /\ UNCHANGED <<text, batchOf, retried>>
  <2>1. CASE Done(f)
    BY <2>1 DEF Done
  <2>2. CASE Error(f)
    BY <2>2 DEF Error
  <2>3. CASE NetworkError(f)
    BY <2>3 DEF NetworkError
  <2> QED
    BY <2>1, <2>2, <2>3 DEF Answered
<1> DEFINE items == [item EXCEPT ![f] = s]
<1>2. /\ item \in [Files -> Shown] /\ uploadPending \in Seq(Files)
      /\ pendingCount \in Nat /\ activeUploads \in Nat /\ doneCount \in Nat /\ errorCount \in Nat
      /\ batch \in [started : BOOLEAN, message : Texts] /\ text \in Texts
      /\ sent \in [Files -> Texts] /\ batchOf \in [Files -> Texts] /\ retried \subseteq Files
      /\ activeUploads <= CONCURRENT_UPLOADS
  BY DEF IInv, TypeOK, SlotsAreUsed
<1>3. /\ Agrees(items, uploadPending, activeUploads - 1, pendingCount', doneCount', errorCount')
      /\ activeUploads - 1 \in Nat /\ pendingCount' \in Nat
  BY <1>1, AnswerAgrees
<1>4. doneCount' \in Nat /\ errorCount' \in Nat
  BY <1>1, <1>2
<1>5. /\ batch' \in [started : BOOLEAN, message : Texts] /\ batch'.message \in Texts
      /\ pendingCount' # 0 => batch' = batch
  BY <1>1, <1>2, QueueAssumption DEF UpdateSummary
<1>6. items \in [Files -> Shown] /\ \A g \in Files : items[g] = IF g = f THEN s ELSE item[g]
  BY <1>2 DEF Shown
<1> HIDE DEF items
<1>7. /\ item' \in [Files -> Shown] /\ uploadPending' \in Seq(Files)
      /\ activeUploads' \in Nat /\ sent' \in [Files -> Texts]
      /\ CountersAgree' /\ SlotsAreUsed'
      /\ \A g \in Files :
            \/ item'[g] = items[g] /\ sent'[g] = sent[g]
            \/ items[g] = "queued" /\ item'[g] = "sending" /\ sent'[g] = batch'.message
  <2>1. ProcessUploadQueue(uploadPending, activeUploads - 1, items, batch'.message)
    BY <1>1 DEF items
  <2>2. activeUploads - 1 <= CONCURRENT_UPLOADS
    BY <1>2, QueueAssumption
  <2> QED
    BY <1>2, <1>3, <1>5, <1>6, <2>1, <2>2, SendingKeeps
<1>8. TypeOK'
  BY <1>1, <1>2, <1>3, <1>4, <1>5, <1>7 DEF TypeOK
<1>9. ASSUME NEW g \in Files, items[g] = "queued"
      PROVE  batch' = batch
  <2>1. g \in With(items, "queued") \cup With(items, "sending")
    BY <1>9 DEF With
  <2>2. With(items, "queued") \cup With(items, "sending") \in SUBSET Files
    BY DEF With
  <2>3. pendingCount' # 0
    BY <1>3, <2>1, <2>2, FilesAreFinite, FS_EmptySet DEF Agrees
  <2> QED
    BY <1>5, <2>3
<1>10. \A g \in Files : items[g] \notin {"none", "queued"} /\ g \notin retried' =>
         sent[g] = batchOf'[g]
  BY <1>1, <1>6 DEF IInv, SentWithItsBatch
<1>11. \A g \in Files : items[g] = "queued" /\ g \notin retried' =>
         batch'.started /\ batchOf'[g] = batch'.message
  BY <1>1, <1>6, <1>9 DEF IInv, WaitsInItsBatch
<1>12. SentWithItsBatch' /\ WaitsInItsBatch'
  <2>1. /\ items \in [Files -> Shown]
        /\ \A g \in Files :
              \/ item'[g] = items[g] /\ sent'[g] = sent[g]
              \/ items[g] = "queued" /\ item'[g] = "sending" /\ sent'[g] = batch'.message
    BY <1>6, <1>7
  <2> QED
    BY <1>10, <1>11, <2>1, BatchKeeps
<1> QED
  BY <1>7, <1>8, <1>12 DEF IInv

(* A file that is sent again is in no batch (upload.html:433-443). *)
LEMMA RetryingKeeps ==
    ASSUME IInv, NEW f \in Files, Retry(f)
    PROVE  IInv'
<1> DEFINE items == [item EXCEPT ![f] = "queued"]
<1>1. /\ item[f] = "error"
      /\ pendingCount' = pendingCount + 1 /\ errorCount' = errorCount - 1
      /\ retried' = retried \cup {f}
      /\ ProcessUploadQueue(Append(uploadPending, f), activeUploads, items, batch.message)
      /\ UNCHANGED <<doneCount, batch, text, batchOf>>
  BY DEF Retry
<1>2. /\ item \in [Files -> Shown] /\ uploadPending \in Seq(Files)
      /\ pendingCount \in Nat /\ activeUploads \in Nat /\ doneCount \in Nat /\ errorCount \in Nat
      /\ batch \in [started : BOOLEAN, message : Texts] /\ text \in Texts
      /\ sent \in [Files -> Texts] /\ batchOf \in [Files -> Texts] /\ retried \subseteq Files
      /\ activeUploads <= CONCURRENT_UPLOADS
  BY DEF IInv, TypeOK, SlotsAreUsed
<1>3. /\ Agrees(items, Append(uploadPending, f), activeUploads, pendingCount',
                doneCount', errorCount')
      /\ errorCount' \in Nat
  BY <1>1, RetryAgrees
<1>4. /\ items \in [Files -> Shown] /\ Append(uploadPending, f) \in Seq(Files)
      /\ \A g \in Files : items[g] = IF g = f THEN "queued" ELSE item[g]
  BY <1>2 DEF Shown
<1>5. batch.message \in Texts /\ pendingCount' \in Nat /\ retried' \subseteq Files
  BY <1>1, <1>2
<1> HIDE DEF items
<1>6. /\ item' \in [Files -> Shown] /\ uploadPending' \in Seq(Files)
      /\ activeUploads' \in Nat /\ sent' \in [Files -> Texts]
      /\ CountersAgree' /\ SlotsAreUsed'
      /\ \A g \in Files :
            \/ item'[g] = items[g] /\ sent'[g] = sent[g]
            \/ items[g] = "queued" /\ item'[g] = "sending" /\ sent'[g] = batch.message
  <2> DEFINE queue == Append(uploadPending, f)
  <2>1. ProcessUploadQueue(queue, activeUploads, items, batch.message)
    BY <1>1
  <2>2. queue \in Seq(Files) /\ Agrees(items, queue, activeUploads, pendingCount',
                                       doneCount', errorCount')
    BY <1>3, <1>4
  <2> HIDE DEF queue
  <2> QED
    BY <1>2, <1>4, <1>5, <2>1, <2>2, SendingKeeps
<1>7. TypeOK'
  BY <1>1, <1>2, <1>3, <1>5, <1>6 DEF TypeOK
<1>8. \A g \in Files : items[g] \notin {"none", "queued"} /\ g \notin retried' =>
         sent[g] = batchOf'[g]
  BY <1>1, <1>4 DEF IInv, SentWithItsBatch
<1>9. \A g \in Files : items[g] = "queued" /\ g \notin retried' =>
         batch'.started /\ batchOf'[g] = batch'.message /\ batchOf'[g] = batch.message
  BY <1>1, <1>4 DEF IInv, WaitsInItsBatch
<1>10. SentWithItsBatch' /\ WaitsInItsBatch'
  <2>1. /\ items \in [Files -> Shown]
        /\ \A g \in Files :
              \/ item'[g] = items[g] /\ sent'[g] = sent[g]
              \/ items[g] = "queued" /\ item'[g] = "sending" /\ sent'[g] = batch.message
    BY <1>4, <1>6
  <2> QED
    BY <1>8, <1>9, <2>1, BatchKeeps
<1> QED
  BY <1>6, <1>7, <1>10 DEF IInv

LEMMA Initially ==
    ASSUME Init
    PROVE  IInv
<1>1. TypeOK
  BY QueueAssumption DEF Init, TypeOK, Shown
<1>2. CountersAgree
  <2>1. \A s : s # "none" => Showing(s) = {}
    BY DEF Init, Showing
  <2>2. ToSet(uploadPending) = {} /\ IsInjective(uploadPending)
    BY DEF Init, ToSet, IsInjective
  <2>3. /\ Showing("queued") \cup Showing("sending") = {}
        /\ Showing("error") \cup Showing("failed") = {}
        /\ Showing("sending") = {} /\ Showing("done") = {} /\ Showing("queued") = {}
    BY <2>1
  <2> QED
    BY <2>2, <2>3, FS_EmptySet DEF Init, CountersAgree
<1>3. SlotsAreUsed
  BY QueueAssumption DEF Init, SlotsAreUsed
<1>4. SentWithItsBatch /\ WaitsInItsBatch
  BY DEF Init, SentWithItsBatch, WaitsInItsBatch
<1> QED
  BY <1>1, <1>2, <1>3, <1>4 DEF IInv

LEMMA StepKeeps ==
    ASSUME IInv, [Next]_vars
    PROVE  IInv'
<1>1. ASSUME NEW t \in Texts, Types(t)
      PROVE  IInv'
  BY <1>1, TypingKeeps
<1>2. ASSUME NEW new \in SUBSET Showing("none") \ {{}}, NEW files \in SetToSeqs(new),
             HandleFiles(files)
      PROVE  IInv'
  BY <1>2, ChoosingKeeps
<1>3. ASSUME NEW f \in Files, Answered(f)
      PROVE  IInv'
  BY <1>3, AnsweringKeeps
<1>4. ASSUME NEW f \in Files, Retry(f)
      PROVE  IInv'
  BY <1>4, RetryingKeeps
<1>5. CASE UNCHANGED vars
  BY <1>5 DEF vars, IInv, TypeOK, CountersAgree, Showing, SlotsAreUsed, SentWithItsBatch,
     WaitsInItsBatch
<1> QED
  BY <1>1, <1>2, <1>3, <1>4, <1>5 DEF Next

-----------------------------------------------------------------------------
(* The inductive invariant holds of every state of the page, for any files *)
(* and any number of slots (upload.html:217-488).                          *)
THEOREM Invariant == Spec => []IInv
<1>1. Init => IInv
  BY Initially
<1>2. IInv /\ [Next]_vars => IInv'
  BY StepKeeps
<1> QED
  BY <1>1, <1>2, PTL DEF Spec

(* The variables keep their types; in particular no counter goes below 0.  *)
THEOREM TypeCorrect == Spec => []TypeOK
<1>1. IInv => TypeOK
  BY DEF IInv
<1> QED
  BY <1>1, Invariant, PTL

(* The four counters agree with what the page shows, in whatever order the *)
(* answers come (upload.html:289-336, 364-475).                            *)
THEOREM CountersAreRight == Spec => []CountersAgree
<1>1. IInv => CountersAgree
  BY DEF IInv
<1> QED
  BY <1>1, Invariant, PTL

(* No file waits while a slot is free, and there are never more uploads    *)
(* than slots (upload.html:364-371).                                       *)
THEOREM NoSlotIsIdle == Spec => []SlotsAreUsed
<1>1. IInv => SlotsAreUsed
  BY DEF IInv
<1> QED
  BY <1>1, Invariant, PTL

(* Every file goes with the message of the batch it was chosen in, unless  *)
(* it is sent again (upload.html:373-377, 477-488).                        *)
THEOREM MessagesGoWithTheirBatch == Spec => []SentWithItsBatch
<1>1. IInv => SentWithItsBatch
  BY DEF IInv
<1> QED
  BY <1>1, Invariant, PTL
============================================================================
