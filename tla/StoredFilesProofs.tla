------------------------- MODULE StoredFilesProofs -------------------------
(***************************************************************************)
(* MediaStore implements StoredFiles, for any guests, files, rows and      *)
(* requests: the refinement step by step.                                  *)
(*                                                                         *)
(* What is stored at an undisturbed key follows from IInv; with it the     *)
(* file of a key can be read off the table and the request that has it in  *)
(* hand (Mapped), and a step has to be compared at those two only.         *)
(***************************************************************************)
EXTENDS MediaStoreProofs

(* What the table says is stored. *)
Recorded(k) == {media[i].checksum : i \in RowsAt(k)}

Working(q, k) ==
    [at |-> IF HasWritten(q, k) THEN "changed" ELSE "begun",
     was |-> Recorded(k), will |-> GoalOf(q)]

Leaving(k) ==
    [at |-> IF \A i \in RowsAt(k) : media[i] \in doomed THEN "begun" ELSE "changed",
     was |-> Recorded(k), will |-> {}]

Mapped ==
    /\ \A k \in Keys \cap disturbed : FileOf(k) = Files!Lost
    /\ \A k \in Keys \ disturbed : ~Busy(k) => FileOf(k) = Files!Rest(Recorded(k))
    /\ \A k \in Keys \ disturbed : event = "deleting" => FileOf(k) = Leaving(k)
    /\ \A k \in Keys \ disturbed, q \in Requests :
          k \in InHand(q) => FileOf(k) = Working(q, k)

Typed == \A k \in Keys : FileOf(k) \in Files!FileState

-----------------------------------------------------------------------------
(* The file of a key *)

LEMMA StoredAsRecorded ==
    ASSUME NEW k,
           \A i \in RowsAt(k) : files[<<k, media[i].stamp>>] = media[i].checksum
    PROVE  {files[PathOf(r)] : r \in {media[i] : i \in RowsAt(k)}} = Recorded(k)
<1>1. \A i \in RowsAt(k) : PathOf(media[i]) = <<k, media[i].stamp>>
  BY DEF RowsAt, PathOf
<1> QED
  BY <1>1 DEF Recorded

LEMMA SettledAsRecorded ==
    ASSUME NEW k, Settled(k)
    PROVE  \A i \in RowsAt(k) : files[<<k, media[i].stamp>>] = media[i].checksum
<1> QED
  BY DEF Settled, StoredAt

(* Before its first write to a file the request finds it as it should be. *)
LEMMA NotYetWritten ==
    ASSUME IInv, NEW k \in Keys \ disturbed, NEW q \in Requests, k \in InHand(q),
           ~HasWritten(q, k)
    PROVE  Settled(k)
<1>1. req[q].pc \in {"store", "unlink", "read", "clear"} /\ KeyOf(req[q].new) = k
  BY DEF HasWritten
<1>2. WorkAt(k, q)
  BY <1>1, MyWork
<1> QED
  BY <1>1, <1>2 DEF WorkAt, UploadAt, DeletionAt, ChangeAt, UploadPC, DeletePC, ThumbPC

LEMMA MappingHolds == IInv => Mapped
<1> SUFFICES ASSUME IInv
             PROVE  Mapped
  OBVIOUS
<1>1. ASSUME NEW k \in Keys \cap disturbed
      PROVE  FileOf(k) = Files!Lost
  BY <1>1 DEF FileOf, Files!Lost
<1>2. ASSUME NEW k \in Keys \ disturbed, ~Busy(k)
      PROVE  FileOf(k) = Files!Rest(Recorded(k))
  <2>1. Settled(k)
    BY <1>2 DEF IInv, KeyOK
  <2>2. {files[PathOf(r)] : r \in {media[i] : i \in RowsAt(k)}} = Recorded(k)
    BY <2>1, SettledAsRecorded, StoredAsRecorded
  <2> QED
    BY <1>2, <2>2 DEF FileOf, Files!Rest
<1>3. ASSUME NEW k \in Keys \ disturbed, event = "deleting"
      PROVE  FileOf(k) = Leaving(k)
  <2>1. Busy(k)
    BY <1>3 DEF Busy
  <2>2. Purged(k)
    BY <1>3 DEF IInv, KeyOK
  <2>3. {media[i] : i \in RowsAt(k)} \subseteq doomed
            <=> \A i \in RowsAt(k) : media[i] \in doomed
    OBVIOUS
  <2>4. {r.checksum : r \in {media[i] : i \in RowsAt(k)}} = Recorded(k)
    BY DEF Recorded
  <2>5. CASE \A i \in RowsAt(k) : media[i] \in doomed
    <3>1. \A i \in RowsAt(k) : files[<<k, media[i].stamp>>] = media[i].checksum
      BY <2>2, <2>5 DEF Purged, StoredAt
    <3>2. {files[PathOf(r)] : r \in {media[i] : i \in RowsAt(k)}} = Recorded(k)
      BY <3>1, StoredAsRecorded
    <3> QED
      BY <1>3, <2>1, <2>3, <2>5, <3>2 DEF FileOf, Leaving
  <2>6. CASE ~\A i \in RowsAt(k) : media[i] \in doomed
    BY <1>3, <2>1, <2>3, <2>4, <2>6 DEF FileOf, Leaving
  <2> QED
    BY <2>5, <2>6
<1>4. ASSUME NEW k \in Keys \ disturbed, NEW q \in Requests, k \in InHand(q)
      PROVE  FileOf(k) = Working(q, k)
  <2>1. event = "live" /\ {o \in Requests : k \in InHand(o)} = {q}
    BY <1>4, MineAlone
  <2>2. Busy(k) /\ event # "deleting"
    BY <1>4, <2>1 DEF Busy
  <2>3. {r.checksum : r \in {media[i] : i \in RowsAt(k)}} = Recorded(k)
    BY DEF Recorded
  <2>4. UNION {GoalOf(o) : o \in {p \in Requests : k \in InHand(p)}} = GoalOf(q)
    BY <2>1
  <2>5. (\E o \in {p \in Requests : k \in InHand(p)} : HasWritten(o, k)) <=> HasWritten(q, k)
    BY <2>1
  <2>6. CASE HasWritten(q, k)
    BY <2>2, <2>3, <2>4, <2>5, <2>6 DEF FileOf, Working
  <2>7. CASE ~HasWritten(q, k)
    <3>1. {files[PathOf(r)] : r \in {media[i] : i \in RowsAt(k)}} = Recorded(k)
      BY <1>4, <2>7, NotYetWritten, SettledAsRecorded, StoredAsRecorded
    <3> QED
      BY <2>2, <2>4, <2>5, <2>7, <3>1 DEF FileOf, Working
  <2> QED
    BY <2>6, <2>7
<1> QED
  BY <1>1, <1>2, <1>3, <1>4 DEF Mapped

LEMMA GoalIsAHolding ==
    ASSUME IInv, NEW q \in Requests, req[q].pc # "idle"
    PROVE  GoalOf(q) \in Files!Holdings
<1>1. TypeOK /\ ShapeOf(q) /\ req[q] \in RequestType
  BY RequestParts DEF IInv
<1>2. /\ req[q].new.checksum \in Contents
      /\ req[q].pc \in ThumbPC => req[q].old.checksum \in Contents
  BY <1>1, OldIsAFile, FileParts
<1>3. req[q].pc \in UploadPC \/ req[q].pc \in DeletePC \/ req[q].pc \in ThumbPC
  BY <1>1, Kinds
<1> QED
  BY <1>2, <1>3 DEF GoalOf, Files!Holdings, UploadPC, DeletePC, ThumbPC

LEMMA RecordedIsAHolding ==
    ASSUME IInv, NEW k \in Keys \ disturbed
    PROVE  Recorded(k) \in Files!Holdings
<1>1. \A i, j \in RowsAt(k) : i = j
  BY DEF IInv, KeyOK
<1>2. \A i \in RowsAt(k) : media[i].checksum \in Contents
  BY FileParts DEF IInv, TypeOK, Row, RowsAt, Rows
<1>3. CASE RowsAt(k) = {}
  BY <1>3 DEF Recorded, Files!Holdings
<1>4. ASSUME NEW i \in RowsAt(k)
      PROVE  Recorded(k) \in Files!Holdings
  <2>1. Recorded(k) = {media[i].checksum}
    BY <1>1, <1>4 DEF Recorded
  <2> QED
    BY <1>2, <2>1 DEF Files!Holdings
<1> QED
  BY <1>3, <1>4

LEMMA FilesTyped == IInv => Typed
<1> SUFFICES ASSUME IInv, NEW k \in Keys
             PROVE  FileOf(k) \in Files!FileState
  BY DEF Typed
<1>1. Mapped
  BY MappingHolds
<1>2. {} \in Files!Holdings
  BY DEF Files!Holdings
<1>3. CASE k \in disturbed
  BY <1>1, <1>2, <1>3 DEF Mapped, Files!Lost, Files!FileState, Files!Place
<1>4. ASSUME k \notin disturbed
      PROVE  Recorded(k) \in Files!Holdings
  BY <1>4, RecordedIsAHolding
<1>5. CASE k \notin disturbed /\ ~Busy(k)
  BY <1>1, <1>4, <1>5 DEF Mapped, Files!Rest, Files!FileState, Files!Place
<1>6. CASE k \notin disturbed /\ event = "deleting"
  BY <1>1, <1>2, <1>4, <1>6 DEF Mapped, Leaving, Files!FileState, Files!Place
<1>7. ASSUME k \notin disturbed, NEW q \in Requests, k \in InHand(q)
      PROVE  FileOf(k) \in Files!FileState
  <2>1. req[q].pc # "idle"
    BY <1>7, RequestParts, Kinds DEF InHand, IInv
  <2>2. GoalOf(q) \in Files!Holdings
    BY <2>1, GoalIsAHolding
  <2> QED
    BY <1>1, <1>4, <1>7, <2>2 DEF Mapped, Working, Files!FileState, Files!Place
<1> QED
  BY <1>3, <1>5, <1>6, <1>7 DEF Busy

-----------------------------------------------------------------------------
(* A step of StoredFiles, key by key *)

Moved(k) ==
    \/ FileOf(k)' = FileOf(k)
    \/ FileOf(k)' = Files!Lost
    \/ /\ FileOf(k).at = "rest"
       /\ \E goal \in Files!Holdings :
             FileOf(k)' = [at |-> "begun", was |-> FileOf(k).was, will |-> goal]
    \/ FileOf(k).at = "begun" /\ FileOf(k)' = Files!Rest(FileOf(k).was)
    \/ FileOf(k).at = "begun" /\ FileOf(k)' = [FileOf(k) EXCEPT !.at = "changed"]
    \/ FileOf(k).at = "changed" /\ FileOf(k)' = Files!Rest(FileOf(k).will)

LEMMA FilesMove ==
    ASSUME Typed', \A k \in Keys : Moved(k)
    PROVE  Files!FilesNext
<1> DEFINE file == [k \in Keys |-> FileOf(k)]
<1>1. file' \in [Keys -> Files!FileState]
  BY DEF Typed
<1>2. \A k \in Keys : file[k] = FileOf(k) /\ file'[k] = FileOf(k)'
  OBVIOUS
<1>3. ASSUME NEW k \in Keys
      PROVE  \/ Files!Begin(k) \/ Files!GiveUp(k) \/ Files!Change(k)
             \/ Files!Finish(k) \/ Files!Lose(k) \/ Files!Stays(k)
  BY <1>2, <1>3 DEF Moved, Files!Begin, Files!GiveUp, Files!Change, Files!Finish,
     Files!Lose, Files!Stays
<1> QED
  BY <1>1, <1>3 DEF Files!FilesNext

(* The table has not changed for the key. *)
SameRows(k) ==
    /\ RowsAt(k)' = RowsAt(k)
    /\ \A i \in RowsAt(k) : media'[i] = media[i]

LEMMA SameRecorded ==
    ASSUME NEW k, SameRows(k)
    PROVE  Recorded(k)' = Recorded(k)
<1> QED
  BY DEF SameRows, Recorded

(* A step of one request, which may have had the key in hand before, and   *)
(* may have it afterwards.                                                 *)
OneSteps(q) ==
    /\ \A o \in Requests \ {q} : req'[o] = req[o]
    /\ event' = event
    /\ doomed' = doomed
    /\ disturbed \subseteq disturbed'

LEMMA OthersMove ==
    ASSUME Mapped, Mapped', NEW q \in Requests, OneSteps(q),
           NEW k \in Keys \ disturbed', k \notin InHand(q), (k \notin InHand(q))',
           SameRows(k)
    PROVE  FileOf(k)' = FileOf(k)
<1>1. k \notin disturbed
  BY DEF OneSteps
<1>2. \A o \in Requests : (k \in InHand(o))' <=> k \in InHand(o)
  BY DEF OneSteps, InHand
<1>3. Busy(k)' <=> Busy(k)
  BY <1>2 DEF Busy, OneSteps
<1>4. Recorded(k)' = Recorded(k)
  BY SameRecorded
<1>5. CASE ~Busy(k)
  <2>1. FileOf(k) = Files!Rest(Recorded(k))
    BY <1>1, <1>5 DEF Mapped
  <2>2. FileOf(k)' = Files!Rest(Recorded(k)')
    BY <1>3, <1>5 DEF Mapped, Files!Rest
  <2> QED
    BY <1>4, <2>1, <2>2
<1>6. CASE event = "deleting"
  <2>1. FileOf(k) = Leaving(k)
    BY <1>1, <1>6 DEF Mapped
  <2>2. FileOf(k)' = Leaving(k)'
    BY <1>6 DEF Mapped, OneSteps
  <2>3. Leaving(k)' = Leaving(k)
    BY <1>4 DEF Leaving, SameRows, OneSteps
  <2> QED
    BY <2>1, <2>2, <2>3
<1>7. ASSUME NEW o \in Requests, k \in InHand(o)
      PROVE  FileOf(k)' = FileOf(k)
  <2>1. o # q /\ req'[o] = req[o] /\ (k \in InHand(o))'
    BY <1>2, <1>7 DEF OneSteps
  <2>2. FileOf(k) = Working(o, k)
    BY <1>1, <1>7 DEF Mapped
  <2>3. FileOf(k)' = Working(o, k)'
    BY <2>1 DEF Mapped
  <2>4. Working(o, k)' = Working(o, k)
    BY <1>4, <2>1 DEF Working, HasWritten, GoalOf
  <2> QED
    BY <2>2, <2>3, <2>4
<1> QED
  BY <1>5, <1>6, <1>7 DEF Busy

(* The key comes into the hand of the request, and is untouched. *)
LEMMA WorkBegins ==
    ASSUME Mapped, Mapped', Typed', NEW q \in Requests,
           NEW k \in Keys \ disturbed', k \notin disturbed, ~Busy(k),
           (k \in InHand(q))', ~HasWritten(q, k)', SameRows(k)
    PROVE  Moved(k)
<1>1. FileOf(k) = Files!Rest(Recorded(k))
  BY DEF Mapped
<1>2. FileOf(k)' = Working(q, k)'
  BY DEF Mapped
<1>3. /\ FileOf(k)' \in Files!FileState
      /\ FileOf(k)' = [at |-> "begun", was |-> Recorded(k), will |-> GoalOf(q)']
  BY <1>2, SameRecorded DEF Typed, Working
<1>4. PICK goal \in Files!Holdings : goal = GoalOf(q)'
  BY <1>3 DEF Files!FileState
<1>5. FileOf(k)' = [at |-> "begun", was |-> FileOf(k).was, will |-> goal]
  BY <1>1, <1>3, <1>4 DEF Files!Rest
<1>6. FileOf(k).at = "rest"
  BY <1>1 DEF Files!Rest
<1> QED
  BY <1>5, <1>6 DEF Moved

(* The key stays in its hand. *)
LEMMA WorkGoesOn ==
    ASSUME Mapped, Mapped', NEW q \in Requests,
           NEW k \in Keys \ disturbed', k \notin disturbed,
           k \in InHand(q), (k \in InHand(q))', SameRows(k),
           GoalOf(q)' = GoalOf(q), HasWritten(q, k) => HasWritten(q, k)'
    PROVE  Moved(k)
<1>1. FileOf(k) = Working(q, k)
  BY DEF Mapped
<1>2. FileOf(k)' = Working(q, k)'
  BY DEF Mapped
<1> QED
  BY <1>1, <1>2, SameRecorded DEF Moved, Working

(* The key is let go by the only request that had it in hand. *)
LEMMA WorkEnds ==
    ASSUME IInv, Mapped, Mapped', NEW q \in Requests, OneSteps(q),
           NEW k \in Keys \ disturbed', k \in InHand(q), (k \notin InHand(q))',
           HasWritten(q, k) => Recorded(k)' = GoalOf(q),
           ~HasWritten(q, k) => Recorded(k)' = Recorded(k)
    PROVE  Moved(k)
<1>1. k \notin disturbed
  BY DEF OneSteps
<1>2. /\ event = "live"
      /\ \A o \in Requests \ {q} : k \notin InHand(o)
  BY <1>1, MineAlone
<1>3. \A o \in Requests : (k \notin InHand(o))'
  BY <1>2 DEF OneSteps, InHand
<1>4. ~Busy(k)'
  BY <1>2, <1>3 DEF Busy, OneSteps
<1>5. FileOf(k)' = Files!Rest(Recorded(k)')
  BY <1>4 DEF Mapped, Files!Rest
<1>6. FileOf(k) = Working(q, k)
  BY <1>1 DEF Mapped
<1> QED
  BY <1>5, <1>6 DEF Moved, Working

(* What is known before and after a step, by the lemmas above. *)
Known == IInv /\ Mapped /\ IInv' /\ Mapped' /\ Typed'

LEMMA RequestMoves ==
    ASSUME Known, NEW q \in Requests, OneSteps(q),
           \A k \in Keys \ disturbed' : k \notin InHand(q) => SameRows(k),
           \A k \in Keys \ disturbed' : k \in InHand(q) /\ (k \in InHand(q))' =>
               /\ SameRows(k)
               /\ GoalOf(q)' = GoalOf(q)
               /\ HasWritten(q, k) => HasWritten(q, k)',
           \A k \in Keys \ disturbed' : k \in InHand(q) /\ (k \notin InHand(q))' =>
               /\ HasWritten(q, k) => Recorded(k)' = GoalOf(q)
               /\ ~HasWritten(q, k) => SameRows(k),
           \A k \in Keys \ disturbed' : k \notin InHand(q) /\ (k \in InHand(q))' =>
               ~Busy(k) /\ ~HasWritten(q, k)'
    PROVE  \A k \in Keys : Moved(k)
<1> SUFFICES ASSUME NEW k \in Keys
             PROVE  Moved(k)
  OBVIOUS
<1>1. CASE k \in disturbed'
  <2>1. FileOf(k)' = Files!Lost
    BY <1>1 DEF Known, Mapped, Files!Lost
  <2> QED
    BY <2>1 DEF Moved
<1>2. ASSUME k \notin disturbed'
      PROVE  k \in Keys \ disturbed' /\ k \notin disturbed
  BY <1>2 DEF OneSteps
<1>3. CASE k \notin disturbed' /\ k \notin InHand(q) /\ (k \notin InHand(q))'
  <2>1. FileOf(k)' = FileOf(k)
    BY <1>2, <1>3, OthersMove DEF Known
  <2> QED
    BY <2>1 DEF Moved
<1>4. CASE k \notin disturbed' /\ k \notin InHand(q) /\ (k \in InHand(q))'
  BY <1>2, <1>4, WorkBegins DEF Known
<1>5. CASE k \notin disturbed' /\ k \in InHand(q) /\ (k \in InHand(q))'
  BY <1>2, <1>5, WorkGoesOn DEF Known
<1>6. CASE k \notin disturbed' /\ k \in InHand(q) /\ (k \notin InHand(q))'
  BY <1>2, <1>6, WorkEnds, SameRecorded DEF Known
<1> QED
  BY <1>1, <1>3, <1>4, <1>5, <1>6

LEMMA SameTable ==
    ASSUME media' = media
    PROVE  \A k : SameRows(k)
<1> QED
  BY DEF SameRows, RowsAt, Rows

(* A request ends: what it leaves in the table is what it was to leave. *)
LEMMA EndMoves ==
    ASSUME Known, NEW q \in Requests, Ends(q),
           event' = event, doomed' = doomed, disturbed \subseteq disturbed',
           \A k \in Keys \ disturbed' : k \notin InHand(q) => SameRows(k),
           \A k \in Keys \ disturbed' : k \in InHand(q) =>
               /\ HasWritten(q, k) => Recorded(k)' = GoalOf(q)
               /\ ~HasWritten(q, k) => SameRows(k)
    PROVE  \A k \in Keys : Moved(k)
<1>1. /\ req'[q].pc = "idle"
      /\ \A o \in Requests \ {q} : req'[o] = req[o]
  BY OneMoves, IdleIsARequest DEF Ends, IInv, Known
<1>2. \A k : ~Works(q, k)' /\ ~Done(q, k)'
  BY <1>1 DEF Works, Done, DeletePC
<1>3. \A k : (k \notin InHand(q))'
  BY <1>2, HandPartsNext DEF Known, IInv
<1>4. OneSteps(q)
  BY <1>1 DEF OneSteps
<1> QED
  BY <1>3, <1>4, RequestMoves

(* A request starts on a file that nobody has in hand, or disturbs it. *)
LEMMA StartMoves ==
    ASSUME Known, NEW q \in Requests, NEW r, Starts(q, r),
           r.pc \in {"store", "unlink", "read"}, r.pc = "unlink" => r.keys = {},
           media' = media, purge' = purge
    PROVE  \A k \in Keys : Moved(k)
<1> DEFINE key == KeyOf(r.new)
<1>1. /\ req'[q] = r
      /\ \A o \in Requests \ {q} : req'[o] = req[o]
      /\ req[q] = Idle
  BY OneMoves DEF Starts, Known, IInv
<1>2. \A k : k \notin InHand(q)
  BY <1>1 DEF InHand
<1>3. \A k : (k \in InHand(q))' => k = key
  BY <1>1, HandPartsNext DEF Works, Done, DeletePC, Known, IInv
<1>4. ~HasWritten(q, key)'
  BY <1>1 DEF HasWritten
<1>5. key \notin disturbed' => ~Busy(key)
  BY DEF Starts
<1>6. OneSteps(q)
  BY <1>1 DEF OneSteps, Starts, purge
<1>7. \A k : SameRows(k)
  BY SameTable
<1> HIDE DEF key
<1> QED
  BY <1>2, <1>3, <1>4, <1>5, <1>6, <1>7, RequestMoves

(* A request goes on with the same files, towards the same end. *)
LEMMA WorkMoves ==
    ASSUME Known, NEW q \in Requests, OneSteps(q), Kept(q), media' = media,
           KeyOf(req'[q].new) = KeyOf(req[q].new), GoalOf(q)' = GoalOf(q),
           req'[q].pc \in {"store", "unlink", "read", "clear"} =>
               req[q].pc \in {"store", "unlink", "read", "clear"}
    PROVE  \A k \in Keys : Moved(k)
<1>1. req[q].pc # "idle" /\ req'[q].pc # "idle"
  BY DEF Kept, UploadPC, DeletePC, ThumbPC
<1>2. \A k : /\ Works(q, k)' <=> Works(q, k)
             /\ Done(q, k)' <=> Done(q, k)
  BY <1>1 DEF Works, Done, Kept, UploadPC, DeletePC, ThumbPC
<1>3. \A k : (k \in InHand(q))' <=> k \in InHand(q)
  BY <1>2, HandParts, HandPartsNext DEF Known, IInv
<1>4. \A k : HasWritten(q, k) => HasWritten(q, k)'
  BY DEF HasWritten
<1>5. \A k : SameRows(k)
  BY SameTable
<1> QED
  BY <1>3, <1>4, <1>5, RequestMoves

-----------------------------------------------------------------------------
(* The steps of a request *)

LEMMA PlaceMoves ==
    ASSUME Known, NEW q \in Requests, NEW to,
           req' = [req EXCEPT ![q] = [req[q] EXCEPT !.pc = to]],
           media' = media, event' = event, doomed' = doomed, disturbed \subseteq disturbed',
           \/ req[q].pc \in UploadPC /\ to \in UploadPC \ {"store"}
           \/ req[q].pc \in DeletePC /\ to \in DeletePC \ {"unlink"}
           \/ req[q].pc = "read" /\ to = "clear"
           \/ req[q].pc \in ThumbPC /\ to \in ThumbPC \ {"read", "clear"}
    PROVE  \A k \in Keys : Moved(k)
<1> USE DEF UploadPC, DeletePC, ThumbPC
<1>1. TypeOK /\ req[q].pc # "idle"
  BY DEF Known, IInv
<1>2. /\ \A o \in Requests \ {q} : req'[o] = req[o]
      /\ req'[q].pc = to /\ req'[q].new = req[q].new /\ req'[q].old = req[q].old
      /\ req[q].pc \in UploadPC => req'[q].ids = req[q].ids
      /\ req[q].pc \in DeletePC => /\ req'[q].id = req[q].id
                                   /\ req'[q].held = req[q].held
                                   /\ req'[q].keys = req[q].keys
      /\ req[q].pc \in ThumbPC => req'[q].id = req[q].id
  BY <1>1, OnlyMoves
<1>3. Kept(q)
  BY <1>2 DEF Kept
<1>4. GoalOf(q)' = GoalOf(q)
  BY <1>2 DEF GoalOf
<1>5. OneSteps(q)
  BY <1>2 DEF OneSteps
<1> QED
  BY <1>2, <1>3, <1>4, <1>5, WorkMoves

LEMMA PlainSteps ==
    ASSUME Known, NEW q \in Requests,
           \/ Store(q) \/ DropFile(q) \/ DropThumb(q) \/ Unlink(q) \/ UnlinkThumb(q)
           \/ ReadOriginal(q) \/ ClearThumb(q) \/ RemovalFails(q)
    PROVE  \A k \in Keys : Moved(k)
<1> USE DEF UploadPC, DeletePC, ThumbPC
<1>1. /\ media' = media /\ event' = event /\ doomed' = doomed
      /\ disturbed \subseteq disturbed'
  BY DEF Store, DropFile, DropThumb, Unlink, UnlinkThumb, ReadOriginal, ClearThumb,
     RemovalFails, purge, storage
<1>2. ASSUME NEW from, NEW to, Goto(q, from, to)
      PROVE  /\ req[q].pc = from
             /\ req' = [req EXCEPT ![q] = [req[q] EXCEPT !.pc = to]]
  BY <1>2 DEF Goto
<1>3. CASE Store(q)
  <2>1. Goto(q, "store", "thumb")
    BY <1>3 DEF Store
  <2> QED
    BY <1>1, <1>2, <2>1, PlaceMoves
<1>4. CASE DropFile(q)
  <2>1. Goto(q, "drop", "dropthumb")
    BY <1>4 DEF DropFile
  <2> QED
    BY <1>1, <1>2, <2>1, PlaceMoves
<1>5. CASE DropThumb(q)
  <2>1. Goto(q, "dropthumb", "commit")
    BY <1>5 DEF DropThumb
  <2> QED
    BY <1>1, <1>2, <2>1, PlaceMoves
<1>6. CASE Unlink(q)
  <2>1. Goto(q, "unlink", "unlinkthumb")
    BY <1>6 DEF Unlink
  <2> QED
    BY <1>1, <1>2, <2>1, PlaceMoves
<1>7. CASE UnlinkThumb(q)
  <2>1. Goto(q, "unlinkthumb", "delete")
    BY <1>7 DEF UnlinkThumb
  <2> QED
    BY <1>1, <1>2, <2>1, PlaceMoves
<1>8. CASE ReadOriginal(q)
  <2>1. Goto(q, "read", "clear")
    BY <1>8 DEF ReadOriginal
  <2> QED
    BY <1>1, <1>2, <2>1, PlaceMoves
<1>9. CASE ClearThumb(q)
  <2>1. Goto(q, "clear", "rethumb")
    BY <1>9 DEF ClearThumb
  <2> QED
    BY <1>1, <1>2, <2>1, PlaceMoves
<1>10. CASE RemovalFails(q)
  <2>1. /\ req[q].pc \in {"drop", "dropthumb", "unlink", "unlinkthumb", "clear"}
        /\ req' = [req EXCEPT ![q] = [req[q] EXCEPT !.pc = AfterRemoval[req[q].pc]]]
    BY <1>10 DEF RemovalFails, AfterRemoval
  <2>2. PICK to : to = AfterRemoval[req[q].pc]
    OBVIOUS
  <2>3. /\ req[q].pc \in {"drop", "dropthumb"} => to \in {"dropthumb", "commit"}
        /\ req[q].pc \in {"unlink", "unlinkthumb"} => to \in {"unlinkthumb", "delete"}
        /\ req[q].pc = "clear" => to = "rethumb"
    BY <2>1, <2>2 DEF AfterRemoval
  <2> QED
    BY <1>1, <2>1, <2>2, <2>3, PlaceMoves
<1> QED
  BY <1>3, <1>4, <1>5, <1>6, <1>7, <1>8, <1>9, <1>10

(* The thumbnail of a file is no part of what its key and content are. *)
LEMMA ThumbSteps ==
    ASSUME Known, NEW q \in Requests, StoreThumb(q) \/ StoreNewThumb(q)
    PROVE  \A k \in Keys : Moved(k)
<1> USE DEF UploadPC, DeletePC, ThumbPC
<1>1. TypeOK /\ ShapeOf(q)
  BY DEF Known, IInv
<1>2. /\ media' = media /\ event' = event /\ doomed' = doomed
      /\ disturbed' = disturbed
  BY DEF StoreThumb, StoreNewThumb, purge
<1>3. req[q].pc \in {"thumb", "rethumb"} /\ req[q].new \in MediaFile
  BY <1>1, OldIsAFile DEF StoreThumb, StoreNewThumb
<1>4. CASE StoreThumb(q)
  <2>1. req[q].pc = "thumb" /\ req[q] \in Upload
    BY <1>1, <1>4, OldIsAFile DEF StoreThumb
  <2>2. PICK t \in {{}, {req[q].new.stamp}} :
           req' = [req EXCEPT
                      ![q].pc = IF req[q].ids = {} THEN "commit" ELSE "drop",
                      ![q].new.thumb = t]
    BY <1>4 DEF StoreThumb
  <2>3. /\ \A o \in Requests \ {q} : req'[o] = req[o]
        /\ req'[q].pc \in {"commit", "drop"} /\ req'[q].ids = req[q].ids
        /\ req'[q].new = [req[q].new EXCEPT !.thumb = t]
    BY <1>1, <2>1, <2>2 DEF TypeOK, Upload
  <2>4. /\ KeyOf(req'[q].new) = KeyOf(req[q].new)
        /\ req'[q].new.checksum = req[q].new.checksum
    BY <1>3, <2>3 DEF KeyOf, MediaFile
  <2>5. Kept(q) /\ GoalOf(q)' = GoalOf(q)
    BY <2>1, <2>3, <2>4 DEF Kept, GoalOf
  <2>6. OneSteps(q)
    BY <1>2, <2>3 DEF OneSteps
  <2> QED
    BY <1>2, <2>3, <2>4, <2>5, <2>6, WorkMoves
<1>5. CASE StoreNewThumb(q)
  <2>1. req[q].pc = "rethumb" /\ req[q] \in Change
    BY <1>1, <1>5, OldIsAFile DEF StoreNewThumb
  <2>2. PICK t \in {{}} \cup {{s} : s \in Stamps} :
           req' = [req EXCEPT ![q].pc = "save", ![q].new.thumb = t]
    BY <1>5 DEF StoreNewThumb
  <2>3. /\ \A o \in Requests \ {q} : req'[o] = req[o]
        /\ req'[q].pc = "save" /\ req'[q].id = req[q].id /\ req'[q].old = req[q].old
        /\ req'[q].new = [req[q].new EXCEPT !.thumb = t]
    BY <1>1, <2>1, <2>2 DEF TypeOK, Change
  <2>4. KeyOf(req'[q].new) = KeyOf(req[q].new)
    BY <1>3, <2>3 DEF KeyOf, MediaFile
  <2>5. Kept(q) /\ GoalOf(q)' = GoalOf(q)
    BY <2>1, <2>3 DEF Kept, GoalOf
  <2>6. OneSteps(q)
    BY <1>2, <2>3 DEF OneSteps
  <2> QED
    BY <1>2, <2>3, <2>4, <2>5, <2>6, WorkMoves
<1> QED
  BY <1>4, <1>5

LEMMA Selections ==
    ASSUME Known, NEW q \in Requests,
           \/ \E new \in MediaFile : UploadSelect(q, new)
           \/ \E i \in RowIds, others \in SUBSET RowIds : DeleteSelect(q, i, others)
           \/ \E i \in RowIds : ThumbSelect(q, i)
    PROVE  \A k \in Keys : Moved(k)
<1>1. ASSUME NEW new \in MediaFile, UploadSelect(q, new)
      PROVE  \A k \in Keys : Moved(k)
  <2>1. media' = media /\ purge' = purge
    BY <1>1 DEF UploadSelect
  <2>2. PICK ids, old : Starts(q, [pc |-> "store", new |-> new, ids |-> ids, old |-> old])
    BY <1>1 DEF UploadSelect
  <2>3. PICK r : r = [pc |-> "store", new |-> new, ids |-> ids, old |-> old]
    OBVIOUS
  <2>4. r.pc = "store" /\ Starts(q, r)
    BY <2>2, <2>3
  <2> QED
    BY <2>1, <2>4, StartMoves
<1>2. ASSUME NEW i \in RowIds, NEW others \in SUBSET RowIds, DeleteSelect(q, i, others)
      PROVE  \A k \in Keys : Moved(k)
  <2>1. media' = media /\ purge' = purge
    BY <1>2 DEF DeleteSelect
  <2>2. PICK r : r = [pc |-> "unlink", new |-> media[i], id |-> i, old |-> media[i],
                      todo |-> others, held |-> {}, keys |-> {}]
    OBVIOUS
  <2>3. r.pc = "unlink" /\ r.keys = {} /\ Starts(q, r)
    BY <1>2, <2>2 DEF DeleteSelect
  <2> QED
    BY <2>1, <2>3, StartMoves
<1>3. ASSUME NEW i \in RowIds, ThumbSelect(q, i)
      PROVE  \A k \in Keys : Moved(k)
  <2>1. media' = media /\ purge' = purge
    BY <1>3 DEF ThumbSelect
  <2>2. PICK r : r = [pc |-> "read", new |-> media[i], id |-> i, old |-> media[i]]
    OBVIOUS
  <2>3. r.pc = "read" /\ Starts(q, r)
    BY <1>3, <2>2 DEF ThumbSelect
  <2> QED
    BY <2>1, <2>3, StartMoves
<1> QED
  BY <1>1, <1>2, <1>3

(* A failure before the request has written anything, or one that disturbs *)
(* what it has in hand.                                                    *)
LEMMA Failures ==
    ASSUME Known, NEW q \in Requests, StoreFails(q) \/ ReadFails(q) \/ BreaksOff(q)
    PROVE  \A k \in Keys : Moved(k)
<1>1. TypeOK
  BY DEF Known, IInv
<1>2. /\ Ends(q) /\ media' = media /\ event' = event /\ doomed' = doomed
      /\ disturbed \subseteq disturbed'
  BY DEF StoreFails, ReadFails, BreaksOff, purge, storage
<1>3. \A k : SameRows(k)
  BY <1>2, SameTable
<1>4. ASSUME NEW k \in Keys \ disturbed', k \in InHand(q)
      PROVE  ~HasWritten(q, k)
  <2>1. CASE StoreFails(q)
    <3>1. InHand(q) = {KeyOf(req[q].new)}
      BY <1>1, <2>1, HandOfOne DEF StoreFails, UploadPC
    <3> QED
      BY <1>4, <2>1, <3>1 DEF StoreFails
  <2>2. CASE ReadFails(q)
    <3>1. req[q].pc = "read" /\ InHand(q) = {KeyOf(req[q].new)}
      BY <1>1, <2>2, HandOfOne DEF ReadFails, ThumbPC
    <3> QED
      BY <1>4, <3>1 DEF HasWritten
  <2>3. CASE BreaksOff(q)
    BY <1>4, <2>3 DEF BreaksOff
  <2> QED
    BY <1>2, <2>1, <2>2, <2>3, Zenon DEF StoreFails
<1> QED
  BY <1>2, <1>3, <1>4, EndMoves

(* The commit of an upload leaves the new content in the only row. *)
LEMMA Insertion ==
    ASSUME Known, NEW q \in Requests, Insert(q)
    PROVE  \A k \in Keys : Moved(k)
<1>1. TypeOK /\ ShapeOf(q) /\ IInv
  BY DEF Known, IInv
<1>2. /\ req[q].pc = "commit" /\ req[q].ids = {} /\ Ends(q)
      /\ event' = event /\ doomed' = doomed
      /\ disturbed' =
            IF \E i \in Rows : /\ KeyOf(media[i]) = KeyOf(req[q].new)
                               /\ media[i].guest # req[q].new.guest
            THEN disturbed \cup {KeyOf(req[q].new)} ELSE disturbed
  BY DEF Insert, purge
<1>3. PICK i \in RowIds \ Rows : media' = [media EXCEPT ![i] = req[q].new]
  BY DEF Insert
<1>4. req[q].new \in MediaFile
  BY <1>1, <1>2, OldIsAFile DEF UploadPC
<1>5. PICK key \in Keys : key = KeyOf(req[q].new)
  BY <1>4, FileParts
<1>6. InHand(q) = {key}
  BY <1>1, <1>2, <1>5, HandOfOne DEF UploadPC
<1>7. media'[i] = req[q].new /\ \A j \in RowIds \ {i} : media'[j] = media[j]
  BY <1>1, <1>3 DEF TypeOK
<1>8. Rows' = Rows \cup {i}
  BY <1>3, <1>4, <1>7, NoRowIsNoFile DEF Rows
<1>9. ASSUME NEW k \in Keys, k # key
      PROVE  SameRows(k)
  BY <1>3, <1>5, <1>7, <1>8, <1>9 DEF SameRows, RowsAt, Rows
<1>10. ASSUME key \notin disturbed'
       PROVE  Recorded(key)' = GoalOf(q)
  <2>1. UploadAt(key, q)
    BY <1>1, <1>2, <1>5, <1>10, MyWork DEF WorkAt, UploadPC
  <2>2. RowsAt(key) = {}
    BY <1>2, <1>5, <1>10, <2>1 DEF RowsAt, UploadAt
  <2>3. RowsAt(key)' = {i}
    BY <1>3, <1>5, <1>7, <1>8, <2>2 DEF RowsAt, Rows
  <2>4. Recorded(key)' = {req[q].new.checksum}
    BY <1>7, <2>3 DEF Recorded
  <2> QED
    BY <1>2, <2>4 DEF GoalOf, UploadPC, DeletePC, ThumbPC
<1>11. HasWritten(q, key)
  BY <1>2 DEF HasWritten
<1>12. disturbed \subseteq disturbed'
  BY <1>2
<1> QED
  BY <1>2, <1>6, <1>9, <1>10, <1>11, <1>12, EndMoves

LEMMA Overwriting ==
    ASSUME Known, NEW q \in Requests, Update(q)
    PROVE  \A k \in Keys : Moved(k)
<1>1. TypeOK /\ ShapeOf(q) /\ RowsOf(q) /\ IInv
  BY DEF Known, IInv
<1>2. /\ req[q].pc = "commit" /\ Ends(q)
      /\ event' = event /\ doomed' = doomed /\ disturbed' = disturbed
  BY DEF Update, purge
<1>3. PICK i \in req[q].ids :
          /\ media[i] # NoRow
          /\ media' = [media EXCEPT ![i] = Written(media[i], req[q].old, req[q].new)]
  BY DEF Update
<1>4. req[q].new \in MediaFile /\ req[q].ids \subseteq RowIds
  BY <1>1, <1>2, OldIsAFile DEF UploadPC
<1>5. PICK key \in Keys : key = KeyOf(req[q].new)
  BY <1>4, FileParts
<1>6. InHand(q) = {key}
  BY <1>1, <1>2, <1>5, HandOfOne DEF UploadPC
<1>7. i \in Rows /\ KeyOf(media[i]) = key
  BY <1>1, <1>2, <1>3, <1>4, <1>5 DEF Rows, RowsOf, UploadPC
<1>8. /\ \A j \in RowIds \ {i} : media'[j] = media[j]
      /\ \A k : RowsAt(k)' = RowsAt(k)
      /\ media[i] = req[q].old => media'[i].checksum = req[q].new.checksum
  BY <1>1, <1>3, <1>4, <1>7, RowUpdated
<1>9. ASSUME NEW k \in Keys, k # key
      PROVE  SameRows(k)
  BY <1>7, <1>8, <1>9 DEF SameRows, RowsAt, Rows
<1>10. ASSUME key \notin disturbed
       PROVE  Recorded(key)' = GoalOf(q)
  <2>1. UploadAt(key, q)
    BY <1>1, <1>2, <1>5, <1>10, MyWork DEF WorkAt, UploadPC
  <2>2. \A j, l \in RowsAt(key) : j = l
    BY <1>1, <1>6, <1>10, MineAlone
  <2>3. RowsAt(key)' = {i}
    BY <1>7, <1>8, <2>2 DEF RowsAt
  <2>4. media'[i].checksum = req[q].new.checksum
    BY <1>3, <1>8, <2>1 DEF UploadAt
  <2>5. Recorded(key)' = {req[q].new.checksum}
    BY <2>3, <2>4 DEF Recorded
  <2> QED
    BY <1>2, <2>5 DEF GoalOf, UploadPC, DeletePC, ThumbPC
<1>11. HasWritten(q, key)
  BY <1>2 DEF HasWritten
<1> QED
  BY <1>2, <1>6, <1>9, <1>10, <1>11, EndMoves

(* A new thumbnail: the row is written, but not what it says of the file. *)
LEMMA Saving ==
    ASSUME Known, NEW q \in Requests, SaveThumb(q)
    PROVE  \A k \in Keys : Moved(k)
<1>1. TypeOK /\ ShapeOf(q) /\ RowsOf(q) /\ IInv
  BY DEF Known, IInv
<1>2. /\ req[q].pc = "save" /\ Ends(q)
      /\ media[req[q].id] # NoRow
      /\ media' = [media EXCEPT
                      ![req[q].id] = Written(media[req[q].id], req[q].old, req[q].new)]
      /\ event' = event /\ doomed' = doomed /\ disturbed' = disturbed
  BY DEF SaveThumb, purge
<1>3. req[q].new \in MediaFile /\ req[q].id \in RowIds
  BY <1>1, <1>2, OldIsAFile DEF ThumbPC
<1>4. PICK key \in Keys, i \in RowIds : key = KeyOf(req[q].new) /\ i = req[q].id
  BY <1>3, FileParts
<1>5. InHand(q) = {key}
  BY <1>1, <1>2, <1>4, HandOfOne DEF ThumbPC
<1>6. i \in Rows /\ KeyOf(media[i]) = key
  BY <1>1, <1>2, <1>4 DEF Rows, RowsOf, ThumbPC
<1>7. /\ \A j \in RowIds \ {i} : media'[j] = media[j]
      /\ \A k : RowsAt(k)' = RowsAt(k)
      /\ media[i] = req[q].old => media'[i].checksum = req[q].new.checksum
  BY <1>1, <1>2, <1>3, <1>4, <1>6, RowUpdated
<1>8. ASSUME NEW k \in Keys, k # key
      PROVE  SameRows(k)
  BY <1>6, <1>7, <1>8 DEF SameRows, RowsAt, Rows
<1>9. ASSUME key \notin disturbed
      PROVE  Recorded(key)' = GoalOf(q)
  <2>1. ChangeAt(key, q) /\ RowsAt(key) = {i}
    BY <1>1, <1>2, <1>4, <1>9, MyChange DEF ThumbPC
  <2>2. media'[i].checksum = req[q].old.checksum
    BY <1>1, <1>2, <1>4, <1>7, <2>1 DEF ChangeAt, ShapeOf, ThumbPC
  <2>3. Recorded(key)' = {req[q].old.checksum}
    BY <1>7, <2>1, <2>2 DEF Recorded
  <2> QED
    BY <1>2, <2>3 DEF GoalOf, UploadPC, DeletePC, ThumbPC
<1>10. HasWritten(q, key)
  BY <1>2 DEF HasWritten
<1> QED
  BY <1>2, <1>5, <1>8, <1>9, <1>10, EndMoves

(* The commit of a deletion takes the rows of all its files away at once. *)
LEMMA Deleting ==
    ASSUME Known, NEW q \in Requests, DeleteRows(q)
    PROVE  \A k \in Keys : Moved(k)
<1>1. TypeOK /\ RowsOf(q) /\ IInv
  BY DEF Known, IInv
<1>2. /\ req[q].pc = "delete" /\ Ends(q)
      /\ media' = [i \in RowIds |->
                      IF i \in req[q].held \cup {req[q].id} THEN NoRow ELSE media[i]]
      /\ event' = event /\ doomed' = doomed /\ disturbed' = disturbed
  BY DEF DeleteRows, purge
<1>3. PICK key : key = KeyOf(req[q].new)
  OBVIOUS
<1>4. \A k : k \in InHand(q) <=> k = key \/ k \in req[q].keys
  BY <1>1, <1>2, <1>3, HandParts DEF Works, Done, DeletePC
<1>5. /\ Rows' = Rows \ (req[q].held \cup {req[q].id})
      /\ \A i \in Rows' : media'[i] = media[i]
  BY <1>2 DEF Rows
<1>6. \A k : RowsAt(k)' = RowsAt(k) \ (req[q].held \cup {req[q].id})
  BY <1>5 DEF RowsAt
<1>7. ASSUME NEW k \in Keys, k \notin InHand(q)
      PROVE  SameRows(k)
  <2>1. \A i \in RowsAt(k) : i \notin req[q].held \cup {req[q].id}
    BY <1>1, <1>2, <1>3, <1>4, <1>7 DEF RowsOf, RowsAt, DeletePC
  <2> QED
    BY <1>5, <1>6, <2>1 DEF SameRows, RowsAt
<1>8. ASSUME NEW k \in Keys \ disturbed, k \in InHand(q)
      PROVE  Recorded(k)' = GoalOf(q)
  <2>1. RowsAt(k) \subseteq req[q].held \cup {req[q].id}
    BY <1>1, <1>2, <1>3, <1>8, ReadyToDelete
  <2>2. RowsAt(k)' = {}
    BY <1>6, <2>1
  <2>3. Recorded(k)' = {}
    BY <2>2 DEF Recorded
  <2> QED
    BY <1>2, <2>3 DEF GoalOf, UploadPC, DeletePC, ThumbPC
<1>9. \A k : HasWritten(q, k)
  BY <1>2 DEF HasWritten
<1> QED
  BY <1>2, <1>7, <1>8, <1>9, EndMoves

(* And before, it is through with one file and comes to the next. *)
LEMMA DeletingNext ==
    ASSUME Known, NEW q \in Requests, NEW i \in RowIds, DeleteNext(q, i)
    PROVE  \A k \in Keys : Moved(k)
<1> USE DEF UploadPC, DeletePC, ThumbPC
<1>1. TypeOK /\ ShapeOf(q) /\ IInv /\ TypeOK'
  BY DEF Known, IInv
<1>2. /\ req[q].pc = "delete" /\ i \in Rows
      /\ media' = media /\ event' = event /\ doomed' = doomed
      /\ disturbed' = IF Busy(KeyOf(media[i]))
                      THEN disturbed \cup {KeyOf(media[i])} ELSE disturbed
  BY DEF DeleteNext, purge
<1>3. /\ req[q].new \in MediaFile /\ media[i] \in MediaFile
  BY <1>1, <1>2, OldIsAFile DEF TypeOK, Row, Rows
<1>4. PICK key \in Keys, next \in Keys : key = KeyOf(req[q].new) /\ next = KeyOf(media[i])
  BY <1>3, FileParts
<1>5. /\ \A o \in Requests \ {q} : req'[o] = req[o]
      /\ req'[q].pc = "unlink" /\ req'[q].new = media[i]
      /\ req'[q].keys = req[q].keys \cup {key}
  <2> DEFINE r == [pc |-> "unlink", new |-> media[i], id |-> i, old |-> media[i],
                   todo |-> req[q].todo \ {i}, held |-> req[q].held \cup {req[q].id},
                   keys |-> req[q].keys \cup {KeyOf(req[q].new)}]
  <2>1. req' = [req EXCEPT ![q] = r]
    BY DEF DeleteNext
  <2>2. r.pc = "unlink" /\ r.new = media[i] /\ r.keys = req[q].keys \cup {key}
    BY <1>4
  <2> HIDE DEF r
  <2> QED
    BY <1>1, <2>1, <2>2, OneMoves
<1>6. \A k : /\ Works(q, k)' <=> k = next
             /\ Done(q, k)' <=> k \in req[q].keys \cup {key}
             /\ Works(q, k) <=> k = key
             /\ Done(q, k) <=> k \in req[q].keys
  BY <1>2, <1>4, <1>5 DEF Works, Done
<1>7. \A k : /\ (k \in InHand(q))' <=> k \in req[q].keys \cup {key, next}
             /\ k \in InHand(q) <=> k \in req[q].keys \cup {key}
  BY <1>1, <1>6, HandParts, HandPartsNext
<1>8. \A k : SameRows(k)
  BY <1>2, SameTable
<1>9. GoalOf(q)' = GoalOf(q)
  BY <1>2, <1>5 DEF GoalOf
<1>10. next \notin disturbed' => ~Busy(next)
  BY <1>2, <1>4
<1>11. ASSUME next \notin disturbed'
       PROVE  next \notin InHand(q) /\ ~HasWritten(q, next)'
  BY <1>4, <1>5, <1>10, <1>11 DEF Busy, HasWritten
<1>12. \A k : k # next => HasWritten(q, k)'
  BY <1>4, <1>5 DEF HasWritten
<1>13. OneSteps(q)
  BY <1>2, <1>5 DEF OneSteps
<1>14. \A k \in Keys \ disturbed' : k \in InHand(q) => HasWritten(q, k)'
  BY <1>11, <1>12
<1>15. \A k \in Keys \ disturbed' : k \notin InHand(q) /\ (k \in InHand(q))' => k = next
  BY <1>7
<1>16. \A k : k \in InHand(q) => (k \in InHand(q))'
  BY <1>7
<1> QED
  BY <1>8, <1>9, <1>10, <1>11, <1>13, <1>14, <1>15, <1>16, RequestMoves

-----------------------------------------------------------------------------
(* The deletion of the event, the end of the process *)

LEMMA PurgeBegins ==
    ASSUME Known, PurgeSelect
    PROVE  \A k \in Keys : Moved(k)
<1>1. /\ event = "live" /\ event' = "deleting"
      /\ doomed' = {media[i] : i \in Rows}
      /\ disturbed' = disturbed \cup UNION {InHand(q) : q \in Requests}
      /\ media' = media
  BY DEF PurgeSelect
<1> SUFFICES ASSUME NEW k \in Keys
             PROVE  Moved(k)
  OBVIOUS
<1>2. CASE k \in disturbed'
  <2>1. FileOf(k)' = Files!Lost
    BY <1>2 DEF Known, Mapped, Files!Lost
  <2> QED
    BY <2>1 DEF Moved
<1>3. CASE k \notin disturbed'
  <2>1. k \notin disturbed /\ ~Busy(k)
    BY <1>1, <1>3 DEF Busy
  <2>2. FileOf(k) = Files!Rest(Recorded(k))
    BY <2>1 DEF Known, Mapped
  <2>3. FileOf(k)' = Leaving(k)'
    BY <1>1, <1>3 DEF Known, Mapped
  <2>4. \A i \in RowsAt(k)' : media'[i] \in doomed'
    BY <1>1 DEF RowsAt, Rows
  <2>5. Recorded(k)' = Recorded(k)
    BY <1>1, SameTable, SameRecorded
  <2>6. FileOf(k)' = [at |-> "begun", was |-> Recorded(k), will |-> {}]
    BY <2>3, <2>4, <2>5 DEF Leaving
  <2>7. {} \in Files!Holdings
    BY DEF Files!Holdings
  <2>8. FileOf(k).at = "rest" /\ FileOf(k).was = Recorded(k)
    BY <2>2 DEF Files!Rest
  <2> QED
    BY <2>6, <2>7, <2>8 DEF Moved
<1> QED
  BY <1>2, <1>3

LEMMA PurgeGoesOn ==
    ASSUME Known, NEW r \in doomed, PurgeFiles(r) \/ PurgeFilesFails(r)
    PROVE  \A k \in Keys : Moved(k)
<1>1. /\ event = "deleting" /\ event' = "deleting"
      /\ doomed' = doomed \ {r} /\ media' = media
      /\ disturbed \subseteq disturbed'
  BY DEF PurgeFiles, PurgeFilesFails
<1> SUFFICES ASSUME NEW k \in Keys
             PROVE  Moved(k)
  OBVIOUS
<1>2. CASE k \in disturbed'
  <2>1. FileOf(k)' = Files!Lost
    BY <1>2 DEF Known, Mapped, Files!Lost
  <2> QED
    BY <2>1 DEF Moved
<1>3. CASE k \notin disturbed'
  <2>1. FileOf(k) = Leaving(k)
    BY <1>1, <1>3 DEF Known, Mapped
  <2>2. FileOf(k)' = Leaving(k)'
    BY <1>1, <1>3 DEF Known, Mapped
  <2>3. Recorded(k)' = Recorded(k) /\ RowsAt(k)' = RowsAt(k)
    BY <1>1, SameTable, SameRecorded DEF SameRows
  <2>4. (\A i \in RowsAt(k)' : media'[i] \in doomed')
            => \A i \in RowsAt(k) : media[i] \in doomed
    BY <1>1, <2>3
  <2> QED
    BY <2>1, <2>2, <2>3, <2>4 DEF Moved, Leaving
<1> QED
  BY <1>2, <1>3

LEMMA PurgeEnds ==
    ASSUME Known, PurgeRows
    PROVE  \A k \in Keys : Moved(k)
<1>1. /\ event = "deleting" /\ doomed = {} /\ event' = "gone"
      /\ media' = [i \in RowIds |-> NoRow]
      /\ req' = req /\ disturbed' = disturbed
  BY DEF PurgeRows
<1> SUFFICES ASSUME NEW k \in Keys
             PROVE  Moved(k)
  OBVIOUS
<1>2. CASE k \in disturbed'
  <2>1. FileOf(k)' = Files!Lost
    BY <1>2 DEF Known, Mapped, Files!Lost
  <2> QED
    BY <2>1 DEF Moved
<1>3. CASE k \notin disturbed'
  <2>1. FileOf(k) = Leaving(k)
    BY <1>1, <1>3 DEF Known, Mapped
  <2>2. \A q \in Requests : k \notin InHand(q)
    BY <1>1, <1>3, NoWorkWhileDeleted DEF Known
  <2>3. ~Busy(k)'
    BY <1>1, <2>2 DEF Busy, InHand
  <2>4. FileOf(k)' = Files!Rest(Recorded(k)')
    BY <1>3, <2>3 DEF Known, Mapped, Files!Rest
  <2>5. Recorded(k)' = {}
    BY <1>1 DEF Recorded, RowsAt, Rows
  <2>6. CASE RowsAt(k) = {}
    <3>1. FileOf(k) = [at |-> "begun", was |-> {}, will |-> {}]
      BY <2>1, <2>6 DEF Leaving, Recorded
    <3> QED
      BY <2>4, <2>5, <3>1 DEF Moved
  <2>7. CASE RowsAt(k) # {}
    <3>1. FileOf(k) = [at |-> "changed", was |-> Recorded(k), will |-> {}]
      BY <1>1, <2>1, <2>7 DEF Leaving
    <3> QED
      BY <2>4, <2>5, <3>1 DEF Moved
  <2> QED
    BY <2>6, <2>7
<1> QED
  BY <1>2, <1>3

(* The process ends: what a request had not changed yet is as it was. *)
LEMMA ProcessEnds ==
    ASSUME Known, Restart \/ PurgeFails
    PROVE  \A k \in Keys : Moved(k)
<1> SUFFICES ASSUME NEW k \in Keys
             PROVE  Moved(k)
  OBVIOUS
<1>1. CASE k \in disturbed'
  <2>1. FileOf(k)' = Files!Lost
    BY <1>1 DEF Known, Mapped, Files!Lost
  <2> QED
    BY <2>1 DEF Moved
<1>2. CASE k \notin disturbed'
  <2>1. Restart /\ event # "deleting"
    BY <1>2 DEF Restart, PurgeFails
  <2>2. /\ \A q \in Requests : req'[q] = Idle
        /\ event' = event /\ media' = media
        /\ disturbed \subseteq disturbed'
        /\ \A q \in Requests : Underway(q) => k \notin InHand(q)
    BY <1>2, <2>1 DEF Restart
  <2>3. ~Busy(k)'
    BY <2>1, <2>2 DEF Busy, InHand
  <2>4. FileOf(k)' = Files!Rest(Recorded(k))
    <3>1. FileOf(k)' = Files!Rest(Recorded(k)')
      BY <1>2, <2>3 DEF Known, Mapped, Files!Rest
    <3> QED
      BY <2>2, <3>1, SameTable, SameRecorded
  <2>5. CASE ~Busy(k)
    <3>1. FileOf(k) = Files!Rest(Recorded(k))
      BY <1>2, <2>2, <2>5 DEF Known, Mapped
    <3> QED
      BY <2>4, <3>1 DEF Moved
  <2>6. ASSUME NEW q \in Requests, k \in InHand(q)
        PROVE  Moved(k)
    <3>1. ~Underway(q)
      BY <2>2, <2>6
    <3>2. ~Done(q, k) /\ req[q].pc \in {"idle", "store", "unlink", "read"}
      BY <3>1 DEF Underway, Done, DeletePC
    <3>3. Works(q, k)
      BY <2>6, <3>2, HandParts DEF Known, IInv
    <3>4. ~HasWritten(q, k)
      BY <3>2, <3>3 DEF HasWritten, Works
    <3>5. FileOf(k) = Working(q, k)
      BY <1>2, <2>2, <2>6 DEF Known, Mapped
    <3> QED
      BY <2>4, <3>4, <3>5 DEF Moved, Working
  <2> QED
    BY <2>1, <2>5, <2>6 DEF Busy
<1> QED
  BY <1>1, <1>2

LEMMA FilesStep ==
    ASSUME Known, [Next]_vars
    PROVE  [Files!FilesNext]_[k \in Keys |-> FileOf(k)]
<1>1. CASE UNCHANGED vars
  <2>1. /\ media' = media /\ files' = files /\ req' = req /\ event' = event
        /\ doomed' = doomed /\ disturbed' = disturbed
    BY <1>1 DEF vars
  <2>2. \A k \in Keys : FileOf(k)' = FileOf(k)
    BY <2>1 DEF FileOf, RowsAt, Rows, InHand, Busy, HasWritten, GoalOf
  <2> QED
    BY <2>2
<1>2. CASE Next
  <2>1. ASSUME NEW q \in Requests, UploadStep(q)
        PROVE  \A k \in Keys : Moved(k)
    BY <2>1, Selections, PlainSteps, ThumbSteps, Failures, Insertion, Overwriting
       DEF UploadStep
  <2>2. ASSUME NEW q \in Requests, DeleteStep(q)
        PROVE  \A k \in Keys : Moved(k)
    BY <2>2, Selections, PlainSteps, DeletingNext, Deleting DEF DeleteStep
  <2>3. ASSUME NEW q \in Requests, ThumbStep(q) \/ RemovalFails(q) \/ BreaksOff(q)
        PROVE  \A k \in Keys : Moved(k)
    BY <2>3, Selections, PlainSteps, ThumbSteps, Failures, Saving DEF ThumbStep
  <2>4. ASSUME PurgeStep \/ Restart
        PROVE  \A k \in Keys : Moved(k)
    BY <2>4, PurgeBegins, PurgeGoesOn, PurgeEnds, ProcessEnds DEF PurgeStep
  <2>5. \A k \in Keys : Moved(k)
    BY <1>2, <2>1, <2>2, <2>3, <2>4 DEF Next
  <2> QED
    BY <2>5, FilesMove DEF Known
<1> QED
  BY <1>1, <1>2

LEMMA FilesStart ==
    ASSUME Init
    PROVE  Files!FilesInit
<1>1. IInv /\ Mapped
  BY Initially, MappingHolds
<1>2. ASSUME NEW k \in Keys
      PROVE  FileOf(k) = Files!Rest({})
  <2>1. \A q \in Requests : k \notin InHand(q)
    BY DEF Init, InHand
  <2>2. k \notin disturbed /\ ~Busy(k)
    BY <2>1 DEF Init, Busy
  <2>3. Recorded(k) = {}
    BY DEF Init, Recorded, RowsAt, Rows
  <2> QED
    BY <1>1, <2>2, <2>3 DEF Mapped
<1> QED
  BY <1>2 DEF Files!FilesInit

(***************************************************************************)
(* The media store keeps the promise of StoredFiles: a stored file is      *)
(* changed by whole requests only, to what the request was to leave, and   *)
(* one that fails before it has written leaves it as it was.               *)
(* media_service.py:182-340, routes/api.py:198-230,                        *)
(* event_service.py:88-133.                                                *)
(***************************************************************************)
THEOREM StoreImplementsFiles == Spec => ImplementsFiles
<1>1. Init => Files!FilesInit
  BY FilesStart
<1>2. IInv /\ IInv' /\ [Next]_vars => [Files!FilesNext]_[k \in Keys |-> FileOf(k)]
  <2>1. IInv => Mapped /\ Typed
    BY MappingHolds, FilesTyped
  <2>2. IInv' => Mapped' /\ Typed'
    BY MappingHolds, FilesTyped, PTL
  <2> QED
    BY <2>1, <2>2, FilesStep DEF Known
<1> QED
  BY <1>1, <1>2, Invariant, PTL DEF Spec, ImplementsFiles, Files!FilesSpec
=============================================================================
