-------------------------- MODULE MediaStoreProofs --------------------------
(***************************************************************************)
(* Proofs about MediaStore, for any guests, files, rows and requests.      *)
(*                                                                         *)
(* A key that is not disturbed has at most one request at work, and what   *)
(* is stored there follows from how far that request is: KeyOK says this   *)
(* for one key.  A request writes at the key of the file it is at, and     *)
(* only there: every other key is left as it was (KeyStays).               *)
(***************************************************************************)
EXTENDS MediaStore, TLAPS

RequestType == {Idle} \cup Upload \cup Deletion \cup Change

(* The originals and the thumbnails of a key. *)
Originals(k) == {s \in Stamps : files[<<k, s>>] # "none"}
Thumbs(k) == {s \in Stamps : <<k, s>> \in thumbs}

(* The original of r is stored, none outside stamps, and these thumbnails. *)
StoredAt(k, r, stamps, thumbnails) ==
    /\ files[<<k, r.stamp>>] = r.checksum
    /\ Originals(k) \subseteq stamps
    /\ Thumbs(k) = thumbnails

NothingAt(k) == Originals(k) = {} /\ Thumbs(k) = {}

(* The table and the storage agree. *)
Settled(k) ==
    /\ \A i \in RowsAt(k) : StoredAt(k, media[i], {media[i].stamp}, media[i].thumb)
    /\ RowsAt(k) = {} => NothingAt(k)

(* They agree as far as the deletion of the event has not come yet. *)
Purged(k) ==
    /\ \A i \in RowsAt(k) : media[i] \in doomed =>
          StoredAt(k, media[i], {media[i].stamp}, media[i].thumb)
    /\ \A r \in doomed : KeyOf(r) = k => \E i \in RowsAt(k) : media[i] = r
    /\ (\A i \in RowsAt(k) : media[i] \notin doomed) => NothingAt(k)

(* The upload q at key k: the row it has read is still that row, and both  *)
(* the new file and what is left of the old one are stored.  A new row     *)
(* beside that of another guest will disturb the key: no claim is made.    *)
UploadAt(k, q) ==
    LET r == req[q]
    IN  /\ r.ids = {} => \A i \in RowsAt(k) : media[i].guest # r.new.guest
        /\ \A i \in r.ids : media[i] = r.old
        /\ r.pc = "store" => Settled(k)
        /\ r.ids = {} /\ RowsAt(k) = {} =>
              /\ r.pc = "thumb" => StoredAt(k, r.new, {r.new.stamp}, {})
              /\ r.pc = "commit" => StoredAt(k, r.new, {r.new.stamp}, r.new.thumb)
        /\ r.ids # {} =>
              /\ r.pc = "thumb" =>
                    StoredAt(k, r.new, {r.old.stamp, r.new.stamp}, r.old.thumb)
              /\ r.pc = "drop" =>
                    StoredAt(k, r.new, {r.old.stamp, r.new.stamp},
                             r.old.thumb \cup r.new.thumb)
              /\ r.pc = "dropthumb" =>
                    StoredAt(k, r.new, {r.new.stamp}, r.old.thumb \cup r.new.thumb)
              /\ r.pc = "commit" => StoredAt(k, r.new, {r.new.stamp}, r.new.thumb)

DeletionAt(k, q) ==
    LET r == req[q]
    IN  /\ media[r.id] = r.old
        /\ r.pc = "unlink" => Settled(k)
        /\ r.pc = "unlinkthumb" => Originals(k) = {} /\ Thumbs(k) = r.old.thumb
        /\ r.pc = "delete" => NothingAt(k)

ChangeAt(k, q) ==
    LET r == req[q]
    IN  /\ media[r.id] = r.old
        /\ r.pc \in {"read", "clear"} => Settled(k)
        /\ r.pc = "rethumb" => StoredAt(k, r.old, {r.old.stamp}, {})
        /\ r.pc = "save" => StoredAt(k, r.old, {r.old.stamp}, r.new.thumb)

WorkAt(k, q) ==
    /\ req[q].pc \in UploadPC => UploadAt(k, q)
    /\ req[q].pc \in DeletePC => DeletionAt(k, q)
    /\ req[q].pc \in ThumbPC => ChangeAt(k, q)

(* A deletion has removed the files of this key; its rows go at the end. *)
DoneAt(k, q) == RowsAt(k) \subseteq req[q].held /\ NothingAt(k)

Works(q, k) == req[q].pc # "idle" /\ KeyOf(req[q].new) = k
Done(q, k) == req[q].pc \in DeletePC /\ k \in req[q].keys

Alone(k) ==
    /\ \A q, o \in Requests : k \in InHand(q) /\ k \in InHand(o) => q = o
    /\ \A q \in Requests : ~(Works(q, k) /\ Done(q, k))
    /\ event # "live" => \A q \in Requests : k \notin InHand(q)

KeyOK(k) ==
    /\ \A i, j \in RowsAt(k) : i = j
    /\ Alone(k)
    /\ event = "gone" => RowsAt(k) = {}
    /\ event = "deleting" => Purged(k)
    /\ ~Busy(k) => Settled(k)
    /\ \A q \in Requests : Works(q, k) => WorkAt(k, q)
    /\ \A q \in Requests : Done(q, k) => DoneAt(k, q)

(* What a request knows of its own file, and which rows it may write to. *)
ShapeOf(q) ==
    LET r == req[q]
    IN  /\ r.pc \in UploadPC =>
              /\ r.ids = {} <=> r.old = NoRow
              /\ r.ids # {} => KeyOf(r.old) = KeyOf(r.new)
              /\ r.pc \in {"drop", "dropthumb"} => r.ids # {}
        /\ r.pc \in DeletePC => r.new = r.old
        /\ r.pc \in ThumbPC =>
              /\ KeyOf(r.new) = KeyOf(r.old)
              /\ r.new.stamp = r.old.stamp
              /\ r.new.checksum = r.old.checksum

RowsOf(q) ==
    LET r == req[q]
    IN  /\ r.pc \in UploadPC =>
              \A i \in r.ids \cap Rows : KeyOf(media[i]) = KeyOf(r.new)
        /\ r.pc \in DeletePC =>
              /\ r.id \in Rows => KeyOf(media[r.id]) = KeyOf(r.new)
              /\ \A i \in r.held \cap Rows : KeyOf(media[i]) \in r.keys
        /\ r.pc \in ThumbPC =>
              (r.id \in Rows => KeyOf(media[r.id]) = KeyOf(r.new))

IInv ==
    /\ TypeOK
    /\ \A q \in Requests : ShapeOf(q)
    /\ \A q \in Requests : RowsOf(q)
    /\ \A k \in Keys \ disturbed : KeyOK(k)

-----------------------------------------------------------------------------
(* Types *)

LEMMA NoRowIsNoFile == NoRow \notin MediaFile
<1> QED
  BY DEF NoRow, MediaFile

(* The key, the path and the thumbnail of a row. *)
LEMMA FileParts ==
    ASSUME NEW r \in MediaFile
    PROVE  /\ KeyOf(r) \in Keys
           /\ PathOf(r) = <<KeyOf(r), r.stamp>>
           /\ PathOf(r) \in Paths
           /\ r.stamp \in Stamps
           /\ r.checksum \in Contents
           /\ r.thumb \subseteq Stamps
           /\ ThumbPaths(r) \subseteq Paths
           /\ \A k, s : <<k, s>> \in ThumbPaths(r) <=> k = KeyOf(r) /\ s \in r.thumb
<1>1. KeyOf(r) \in Keys
  BY MediaAssumption DEF MediaFile, KeyOf, Keys
<1>2. r.stamp \in Stamps /\ r.checksum \in Contents /\ r.thumb \subseteq Stamps
  BY DEF MediaFile
<1>3. PathOf(r) = <<KeyOf(r), r.stamp>>
  BY DEF PathOf
<1> HIDE DEF KeyOf
<1>4. PathOf(r) \in Paths /\ ThumbPaths(r) \subseteq Paths
  BY <1>1, <1>2, <1>3 DEF Paths, ThumbPaths
<1>5. \A k, s : <<k, s>> \in ThumbPaths(r) <=> k = KeyOf(r) /\ s \in r.thumb
  BY DEF ThumbPaths
<1> QED
  BY <1>1, <1>2, <1>3, <1>4, <1>5

(* A request is of the kind that its place in the code says. *)
LEMMA Kinds ==
    ASSUME NEW r \in RequestType
    PROVE  /\ r.pc = "idle" <=> r = Idle
           /\ r.pc = "idle" \/ r.pc \in UploadPC \/ r.pc \in DeletePC \/ r.pc \in ThumbPC
           /\ r.pc \in UploadPC => r \in Upload
           /\ r.pc \in DeletePC => r \in Deletion
           /\ r.pc \in ThumbPC => r \in Change
           /\ r.pc # "idle" => r.new \in MediaFile
<1>1. CASE r = Idle
  BY <1>1 DEF Idle, UploadPC, DeletePC, ThumbPC
<1>2. CASE r \in Upload
  BY <1>2 DEF Upload, Idle, UploadPC, DeletePC, ThumbPC
<1>3. CASE r \in Deletion
  BY <1>3 DEF Deletion, Idle, UploadPC, DeletePC, ThumbPC
<1>4. CASE r \in Change
  BY <1>4 DEF Change, Idle, UploadPC, DeletePC, ThumbPC
<1> QED
  BY <1>1, <1>2, <1>3, <1>4 DEF RequestType

LEMMA RequestParts ==
    ASSUME TypeOK, NEW q \in Requests
    PROVE  req[q] \in RequestType
<1> QED
  BY DEF TypeOK, RequestType

(* What a request has in hand, by its place in the code. *)
LEMMA HandParts ==
    ASSUME TypeOK, NEW q \in Requests, NEW k
    PROVE  k \in InHand(q) <=> Works(q, k) \/ Done(q, k)
<1>1. req[q].pc = "idle" <=> req[q] = Idle
  BY RequestParts, Kinds
<1> QED
  BY <1>1 DEF InHand, Works, Done, DeletePC

LEMMA OneMoves ==
    ASSUME TypeOK, NEW q \in Requests, NEW r, req' = [req EXCEPT ![q] = r]
    PROVE  /\ req'[q] = r
           /\ \A o \in Requests \ {q} : req'[o] = req[o]
           /\ r \in RequestType => req' \in [Requests -> RequestType]
<1> QED
  BY DEF TypeOK, RequestType

(* A record with another place, or another thumbnail, keeps its kind. *)
LEMMA UploadMoves ==
    ASSUME NEW r \in Upload, NEW pc \in UploadPC,
           NEW t \in {{}} \cup {{s} : s \in Stamps}
    PROVE  /\ [r EXCEPT !.pc = pc] \in Upload
           /\ [r EXCEPT !.pc = pc, !.new.thumb = t] \in Upload
<1>1. [r.new EXCEPT !.thumb = t] \in MediaFile
  BY DEF Upload, MediaFile
<1> QED
  BY <1>1 DEF Upload

LEMMA DeletionMoves ==
    ASSUME NEW r \in Deletion, NEW pc \in DeletePC
    PROVE  [r EXCEPT !.pc = pc] \in Deletion
<1> QED
  BY DEF Deletion

LEMMA ChangeMoves ==
    ASSUME NEW r \in Change, NEW pc \in ThumbPC,
           NEW t \in {{}} \cup {{s} : s \in Stamps}
    PROVE  /\ [r EXCEPT !.pc = pc] \in Change
           /\ [r EXCEPT !.pc = pc, !.new.thumb = t] \in Change
<1>1. [r.new EXCEPT !.thumb = t] \in MediaFile
  BY DEF Change, MediaFile
<1> QED
  BY <1>1 DEF Change

LEMMA IdleIsARequest == Idle \in RequestType /\ Idle.pc = "idle"
<1> QED
  BY DEF RequestType, Idle

(* What is written to a row of the same file. *)
LEMMA WrittenIsAFile ==
    ASSUME NEW now \in MediaFile, NEW old, NEW new \in MediaFile
    PROVE  /\ Written(now, old, new) \in MediaFile
           /\ KeyOf(Written(now, old, new)) = KeyOf(now)
           /\ now = old =>
                /\ Written(now, old, new).stamp = new.stamp
                /\ Written(now, old, new).thumb = new.thumb
                /\ Written(now, old, new).checksum = new.checksum
<1> DEFINE s == IF new.stamp = old.stamp THEN now.stamp ELSE new.stamp
           t == IF new.thumb = old.thumb THEN now.thumb ELSE new.thumb
           c == IF new.checksum = old.checksum THEN now.checksum ELSE new.checksum
           w == [now EXCEPT !.stamp = s, !.thumb = t, !.checksum = c]
<1>1. Written(now, old, new) = w
  BY DEF Written
<1>2. /\ s \in Stamps /\ c \in Contents
      /\ t \in {{}} \cup {{x} : x \in Stamps}
  BY DEF MediaFile
<1>3. now = old => s = new.stamp /\ t = new.thumb /\ c = new.checksum
  OBVIOUS
<1> HIDE DEF s, t, c
<1>4. w \in MediaFile
  BY <1>2 DEF MediaFile
<1>5. /\ w.guest = now.guest /\ w.name = now.name
      /\ w.stamp = s /\ w.thumb = t /\ w.checksum = c
  BY DEF MediaFile
<1>6. KeyOf(w) = KeyOf(now)
  BY <1>5 DEF KeyOf
<1> QED
  BY <1>1, <1>3, <1>4, <1>5, <1>6

LEMMA Initially ==
    ASSUME Init
    PROVE  IInv
<1>1. \A q \in Requests : req[q] = Idle /\ req[q].pc = "idle"
  BY IdleIsARequest DEF Init
<1>2. TypeOK
  BY DEF Init, TypeOK, Row, File
<1>3. \A q \in Requests : ShapeOf(q) /\ RowsOf(q)
  BY <1>1 DEF ShapeOf, RowsOf, UploadPC, DeletePC, ThumbPC
<1>4. ASSUME NEW k \in Keys
      PROVE  KeyOK(k)
  <2>1. RowsAt(k) = {} /\ NothingAt(k)
    <3>1. \A s \in Stamps : files[<<k, s>>] = "none"
      BY DEF Init, Paths
    <3> QED
      BY <3>1 DEF Init, RowsAt, Rows, NothingAt, Originals, Thumbs
  <2>2. \A q \in Requests : ~Works(q, k) /\ ~Done(q, k) /\ k \notin InHand(q)
    BY <1>1 DEF Works, Done, InHand, DeletePC
  <2>3. event = "live"
    BY DEF Init
  <2> QED
    BY <2>1, <2>2, <2>3 DEF KeyOK, Alone, Settled
<1> QED
  BY <1>2, <1>3, <1>4 DEF IInv

-----------------------------------------------------------------------------
(* Every step leaves values of the right types. *)

LEMMA StartsTypes ==
    ASSUME TypeOK, NEW q \in Requests, NEW r \in RequestType, r.new \in MediaFile, Starts(q, r)
    PROVE  req' \in [Requests -> RequestType] /\ disturbed' \subseteq Keys
<1>1. KeyOf(r.new) \in Keys
  BY FileParts
<1> QED
  BY <1>1, OneMoves DEF Starts, TypeOK

LEMMA EndsTypes ==
    ASSUME TypeOK, NEW q \in Requests, Ends(q)
    PROVE  req' \in [Requests -> RequestType]
<1> QED
  BY OneMoves, IdleIsARequest DEF Ends

LEMMA GotoTypes ==
    ASSUME TypeOK, NEW q \in Requests, NEW from, NEW to, Goto(q, from, to),
           \/ from \in UploadPC /\ to \in UploadPC
           \/ from \in DeletePC /\ to \in DeletePC
           \/ from \in ThumbPC /\ to \in ThumbPC
    PROVE  /\ req' \in [Requests -> RequestType]
           /\ req' = [req EXCEPT ![q] = [req[q] EXCEPT !.pc = to]]
<1> DEFINE r == [req[q] EXCEPT !.pc = to]
<1>1. req[q].pc = from /\ req' = [req EXCEPT ![q] = r]
  BY DEF Goto
<1>2. r \in RequestType
  BY <1>1, RequestParts, Kinds, UploadMoves, DeletionMoves, ChangeMoves DEF RequestType
<1> HIDE DEF r
<1>3. req' \in [Requests -> RequestType]
  BY <1>1, <1>2, OneMoves
<1> QED
  BY <1>1, <1>3 DEF r

LEMMA UploadTypes ==
    ASSUME TypeOK, NEW q \in Requests, UploadStep(q)
    PROVE  TypeOK'
<1> USE DEF UploadPC
<1>1. ASSUME NEW new \in MediaFile, UploadSelect(q, new)
      PROVE  TypeOK'
  <2> DEFINE ids == {i \in Rows : media[i].guest = new.guest /\ media[i].name = new.name}
  <2>1. ids \in {{}} \cup {{i} : i \in RowIds}
    BY <1>1 DEF UploadSelect, Rows
  <2>2. PICK old \in IF ids = {} THEN {NoRow} ELSE {media[i] : i \in ids} :
               Starts(q, [pc |-> "store", new |-> new, ids |-> ids, old |-> old])
    BY <1>1 DEF UploadSelect
  <2>3. old \in Row
    BY DEF TypeOK, Row, Rows
  <2> DEFINE r == [pc |-> "store", new |-> new, ids |-> ids, old |-> old]
  <2>4. r \in RequestType /\ r.new \in MediaFile
    BY <1>1, <2>1, <2>3 DEF RequestType, Upload
  <2> HIDE DEF r
  <2>5. req' \in [Requests -> RequestType] /\ disturbed' \subseteq Keys
    BY <2>2, <2>4, StartsTypes DEF r
  <2> QED
    BY <1>1, <2>5 DEF UploadSelect, TypeOK, RequestType, storage, purge
<1>2. CASE Store(q)
  <2>1. req' \in [Requests -> RequestType]
    BY <1>2, GotoTypes DEF Store
  <2>2. req[q].new \in MediaFile
    BY <1>2, RequestParts, Kinds DEF Store, Goto
  <2>3. files' \in [Paths -> File]
    BY <1>2, <2>2, FileParts DEF Store, TypeOK, File
  <2> QED
    BY <1>2, <2>1, <2>3 DEF Store, TypeOK, RequestType, purge
<1>3. CASE StoreFails(q)
  <2>1. req' \in [Requests -> RequestType]
    BY <1>3, EndsTypes DEF StoreFails
  <2>2. req[q].new \in MediaFile
    BY <1>3, RequestParts, Kinds DEF StoreFails
  <2>3. files' \in [Paths -> File] /\ disturbed' \subseteq Keys
    BY <1>3, <2>2, FileParts DEF StoreFails, TypeOK, File
  <2> QED
    BY <1>3, <2>1, <2>3 DEF StoreFails, TypeOK, RequestType, purge
<1>4. CASE StoreThumb(q)
  <2>1. req[q] \in Upload /\ req[q].new \in MediaFile
    BY <1>4, RequestParts, Kinds DEF StoreThumb
  <2>2. PICK t \in {{}, {req[q].new.stamp}} :
          /\ req' = [req EXCEPT
                        ![q].pc = IF req[q].ids = {} THEN "commit" ELSE "drop",
                        ![q].new.thumb = t]
          /\ thumbs' = thumbs \cup {<<KeyOf(req[q].new), s>> : s \in t}
    BY <1>4 DEF StoreThumb
  <2>3. PICK pc \in UploadPC : pc = IF req[q].ids = {} THEN "commit" ELSE "drop"
    OBVIOUS
  <2> DEFINE r == [req[q] EXCEPT !.pc = pc, !.new.thumb = t]
  <2>4. req' = [req EXCEPT ![q] = r]
    BY <2>2, <2>3 DEF TypeOK
  <2>5. t \in {{}} \cup {{s} : s \in Stamps}
    BY <2>1, FileParts
  <2>6. r \in RequestType
    BY <2>1, <2>5, UploadMoves DEF RequestType
  <2> HIDE DEF r
  <2>7. req' \in [Requests -> RequestType]
    BY <2>4, <2>6, OneMoves
  <2>8. thumbs' \subseteq Paths
    BY <2>1, <2>2, <2>5, FileParts DEF TypeOK, Paths
  <2> QED
    BY <1>4, <2>7, <2>8 DEF StoreThumb, TypeOK, RequestType, purge
<1>5. CASE DropFile(q)
  <2>1. req' \in [Requests -> RequestType]
    BY <1>5, GotoTypes DEF DropFile
  <2>2. files' \in [Paths -> File]
    BY <1>5 DEF DropFile, TypeOK, File
  <2> QED
    BY <1>5, <2>1, <2>2 DEF DropFile, TypeOK, RequestType, purge
<1>6. CASE DropThumb(q)
  <2>1. req' \in [Requests -> RequestType]
    BY <1>6, GotoTypes DEF DropThumb
  <2> QED
    BY <1>6, <2>1 DEF DropThumb, TypeOK, RequestType, purge
<1>7. CASE Insert(q)
  <2>1. req' \in [Requests -> RequestType]
    BY <1>7, EndsTypes DEF Insert
  <2>2. req[q].new \in MediaFile
    BY <1>7, RequestParts, Kinds DEF Insert
  <2>3. media' \in [RowIds -> Row]
    BY <1>7, <2>2 DEF Insert, TypeOK, Row
  <2>4. disturbed' \subseteq Keys
    BY <1>7, <2>2, FileParts DEF Insert, TypeOK
  <2> QED
    BY <1>7, <2>1, <2>3, <2>4 DEF Insert, TypeOK, RequestType, storage, purge
<1>8. CASE Update(q)
  <2>1. req' \in [Requests -> RequestType]
    BY <1>8, EndsTypes DEF Update
  <2>2. req[q] \in Upload /\ req[q].new \in MediaFile
    BY <1>8, RequestParts, Kinds DEF Update
  <2>3. PICK i \in req[q].ids :
          /\ media[i] # NoRow
          /\ media' = [media EXCEPT ![i] = Written(media[i], req[q].old, req[q].new)]
    BY <1>8 DEF Update
  <2>4. i \in RowIds /\ media[i] \in MediaFile
    BY <2>2, <2>3 DEF TypeOK, Row, Upload
  <2>5. media' \in [RowIds -> Row]
    BY <2>2, <2>3, <2>4, WrittenIsAFile DEF TypeOK, Row
  <2> QED
    BY <1>8, <2>1, <2>5 DEF Update, TypeOK, RequestType, storage, purge
<1> QED
  BY <1>1, <1>2, <1>3, <1>4, <1>5, <1>6, <1>7, <1>8 DEF UploadStep

LEMMA DeletionTypes ==
    ASSUME TypeOK, NEW q \in Requests, DeleteStep(q)
    PROVE  TypeOK'
<1> USE DEF DeletePC
<1>1. ASSUME NEW i \in RowIds, NEW others \in SUBSET RowIds, DeleteSelect(q, i, others)
      PROVE  TypeOK'
  <2> DEFINE r == [pc |-> "unlink", new |-> media[i], id |-> i, old |-> media[i],
                   todo |-> others, held |-> {}, keys |-> {}]
  <2>1. media[i] \in MediaFile
    BY <1>1 DEF DeleteSelect, Rows, TypeOK, Row
  <2>2. r \in RequestType /\ r.new \in MediaFile
    BY <2>1 DEF RequestType, Deletion
  <2>3. Starts(q, r)
    BY <1>1 DEF DeleteSelect
  <2> HIDE DEF r
  <2>4. req' \in [Requests -> RequestType] /\ disturbed' \subseteq Keys
    BY <2>2, <2>3, StartsTypes
  <2> QED
    BY <1>1, <2>4 DEF DeleteSelect, TypeOK, RequestType, storage, purge
<1>2. ASSUME NEW i \in RowIds, DeleteNext(q, i)
      PROVE  TypeOK'
  <2> DEFINE r == [pc |-> "unlink", new |-> media[i], id |-> i, old |-> media[i],
                   todo |-> req[q].todo \ {i}, held |-> req[q].held \cup {req[q].id},
                   keys |-> req[q].keys \cup {KeyOf(req[q].new)}]
  <2>1. req[q] \in Deletion /\ req[q].new \in MediaFile
    BY <1>2, RequestParts, Kinds DEF DeleteNext
  <2>2. media[i] \in MediaFile
    BY <1>2 DEF DeleteNext, Rows, TypeOK, Row
  <2>3. KeyOf(req[q].new) \in Keys /\ KeyOf(media[i]) \in Keys
    BY <2>1, <2>2, FileParts
  <2>4. r \in RequestType
    BY <2>1, <2>2, <2>3 DEF RequestType, Deletion
  <2>5. req' = [req EXCEPT ![q] = r]
    BY <1>2 DEF DeleteNext
  <2> HIDE DEF r
  <2>6. req' \in [Requests -> RequestType]
    BY <2>4, <2>5, OneMoves
  <2>7. disturbed' \subseteq Keys
    BY <1>2, <2>3 DEF DeleteNext, TypeOK
  <2> QED
    BY <1>2, <2>6, <2>7 DEF DeleteNext, TypeOK, RequestType, storage, purge
<1>3. CASE Unlink(q)
  <2>1. req' \in [Requests -> RequestType]
    BY <1>3, GotoTypes DEF Unlink
  <2>2. files' \in [Paths -> File]
    BY <1>3 DEF Unlink, TypeOK, File
  <2> QED
    BY <1>3, <2>1, <2>2 DEF Unlink, TypeOK, RequestType, purge
<1>4. CASE UnlinkThumb(q)
  <2>1. req' \in [Requests -> RequestType]
    BY <1>4, GotoTypes DEF UnlinkThumb
  <2> QED
    BY <1>4, <2>1 DEF UnlinkThumb, TypeOK, RequestType, purge
<1>5. CASE DeleteRows(q)
  <2>1. req' \in [Requests -> RequestType]
    BY <1>5, EndsTypes DEF DeleteRows
  <2>2. media' \in [RowIds -> Row]
    BY <1>5 DEF DeleteRows, TypeOK, Row
  <2> QED
    BY <1>5, <2>1, <2>2 DEF DeleteRows, TypeOK, RequestType, storage, purge
<1> QED
  BY <1>1, <1>2, <1>3, <1>4, <1>5 DEF DeleteStep

LEMMA ChangeTypes ==
    ASSUME TypeOK, NEW q \in Requests, ThumbStep(q)
    PROVE  TypeOK'
<1> USE DEF ThumbPC
<1>1. ASSUME NEW i \in RowIds, ThumbSelect(q, i)
      PROVE  TypeOK'
  <2> DEFINE r == [pc |-> "read", new |-> media[i], id |-> i, old |-> media[i]]
  <2>1. media[i] \in MediaFile
    BY <1>1 DEF ThumbSelect, Rows, TypeOK, Row
  <2>2. r \in RequestType /\ r.new \in MediaFile
    BY <2>1 DEF RequestType, Change
  <2>3. Starts(q, r)
    BY <1>1 DEF ThumbSelect
  <2> HIDE DEF r
  <2>4. req' \in [Requests -> RequestType] /\ disturbed' \subseteq Keys
    BY <2>2, <2>3, StartsTypes
  <2> QED
    BY <1>1, <2>4 DEF ThumbSelect, TypeOK, RequestType, storage, purge
<1>2. CASE ReadOriginal(q)
  <2>1. req' \in [Requests -> RequestType]
    BY <1>2, GotoTypes DEF ReadOriginal
  <2> QED
    BY <1>2, <2>1 DEF ReadOriginal, TypeOK, RequestType, storage, purge
<1>3. CASE ReadFails(q)
  <2>1. req' \in [Requests -> RequestType]
    BY <1>3, EndsTypes DEF ReadFails
  <2> QED
    BY <1>3, <2>1 DEF ReadFails, TypeOK, RequestType, storage, purge
<1>4. CASE ClearThumb(q)
  <2>1. req' \in [Requests -> RequestType]
    BY <1>4, GotoTypes DEF ClearThumb
  <2> QED
    BY <1>4, <2>1 DEF ClearThumb, TypeOK, RequestType, purge
<1>5. CASE StoreNewThumb(q)
  <2>1. req[q] \in Change /\ req[q].new \in MediaFile
    BY <1>5, RequestParts, Kinds DEF StoreNewThumb
  <2>2. PICK t \in {{}} \cup {{s} : s \in Stamps} :
          /\ req' = [req EXCEPT ![q].pc = "save", ![q].new.thumb = t]
          /\ thumbs' = thumbs \cup {<<KeyOf(req[q].new), s>> : s \in t}
    BY <1>5 DEF StoreNewThumb
  <2> DEFINE r == [req[q] EXCEPT !.pc = "save", !.new.thumb = t]
  <2>3. req' = [req EXCEPT ![q] = r]
    BY <2>2 DEF TypeOK
  <2>4. r \in RequestType
    BY <2>1, ChangeMoves DEF RequestType
  <2> HIDE DEF r
  <2>5. req' \in [Requests -> RequestType]
    BY <2>3, <2>4, OneMoves
  <2>6. thumbs' \subseteq Paths
    BY <2>1, <2>2, FileParts DEF TypeOK, Paths
  <2> QED
    BY <1>5, <2>5, <2>6 DEF StoreNewThumb, TypeOK, RequestType, purge
<1>6. CASE SaveThumb(q)
  <2>1. req' \in [Requests -> RequestType]
    BY <1>6, EndsTypes DEF SaveThumb
  <2>2. req[q] \in Change /\ req[q].new \in MediaFile
    BY <1>6, RequestParts, Kinds DEF SaveThumb
  <2>3. req[q].id \in RowIds /\ media[req[q].id] \in MediaFile
    BY <1>6, <2>2 DEF SaveThumb, TypeOK, Row, Change
  <2>4. media' \in [RowIds -> Row]
    BY <1>6, <2>2, <2>3, WrittenIsAFile DEF SaveThumb, TypeOK, Row
  <2> QED
    BY <1>6, <2>1, <2>4 DEF SaveThumb, TypeOK, RequestType, storage, purge
<1> QED
  BY <1>1, <1>2, <1>3, <1>4, <1>5, <1>6 DEF ThumbStep

(* What a request has in hand are keys. *)
LEMMA HandKeys ==
    ASSUME TypeOK, NEW q \in Requests
    PROVE  InHand(q) \subseteq Keys
<1>1. req[q] # Idle => KeyOf(req[q].new) \in Keys
  BY RequestParts, Kinds, FileParts
<1>2. req[q].pc \in DeletePC => req[q].keys \subseteq Keys
  BY RequestParts, Kinds DEF Deletion
<1> QED
  BY <1>1, <1>2 DEF InHand

LEMMA FailureTypes ==
    ASSUME TypeOK, NEW q \in Requests, RemovalFails(q) \/ BreaksOff(q)
    PROVE  TypeOK'
<1>1. CASE RemovalFails(q)
  <2> DEFINE r == [req[q] EXCEPT !.pc = AfterRemoval[req[q].pc]]
  <2>1. req[q].pc \in {"drop", "dropthumb", "unlink", "unlinkthumb", "clear"}
    BY <1>1 DEF RemovalFails, AfterRemoval
  <2>2. req[q].new \in MediaFile
    BY <2>1, RequestParts, Kinds
  <2>3. \/ req[q].pc \in UploadPC /\ AfterRemoval[req[q].pc] \in UploadPC
        \/ req[q].pc \in DeletePC /\ AfterRemoval[req[q].pc] \in DeletePC
        \/ req[q].pc \in ThumbPC /\ AfterRemoval[req[q].pc] \in ThumbPC
    BY <2>1 DEF AfterRemoval, UploadPC, DeletePC, ThumbPC
  <2>4. r \in RequestType
    BY <2>3, RequestParts, Kinds, UploadMoves, DeletionMoves, ChangeMoves DEF RequestType
  <2>5. req' = [req EXCEPT ![q] = r]
    BY <1>1 DEF RemovalFails
  <2> HIDE DEF r
  <2>6. req' \in [Requests -> RequestType]
    BY <2>4, <2>5, OneMoves
  <2>7. disturbed' \subseteq Keys
    BY <1>1, <2>2, FileParts DEF RemovalFails, TypeOK
  <2> QED
    BY <1>1, <2>6, <2>7 DEF RemovalFails, TypeOK, RequestType, storage, purge
<1>2. CASE BreaksOff(q)
  <2>1. req' \in [Requests -> RequestType]
    BY <1>2, EndsTypes DEF BreaksOff
  <2>2. disturbed' \subseteq Keys
    BY <1>2, HandKeys DEF BreaksOff, TypeOK
  <2> QED
    BY <1>2, <2>1, <2>2 DEF BreaksOff, TypeOK, RequestType, storage, purge
<1> QED
  BY <1>1, <1>2

LEMMA EventTypes ==
    ASSUME TypeOK, PurgeStep \/ Restart
    PROVE  TypeOK'
<1>1. UNION {InHand(q) : q \in Requests} \subseteq Keys
  BY HandKeys
<1>2. CASE PurgeSelect
  BY <1>1, <1>2 DEF PurgeSelect, TypeOK, Rows, Row, storage
<1>3. ASSUME NEW r \in doomed, PurgeFiles(r)
      PROVE  TypeOK'
  <2>1. files' \in [Paths -> File]
    BY <1>3 DEF PurgeFiles, TypeOK, File
  <2> QED
    BY <1>3, <2>1 DEF PurgeFiles, TypeOK
<1>4. ASSUME NEW r \in doomed, PurgeFilesFails(r)
      PROVE  TypeOK'
  <2>1. KeyOf(r) \in Keys
    BY FileParts DEF TypeOK
  <2> QED
    BY <1>4, <2>1 DEF PurgeFilesFails, TypeOK, storage
<1>5. CASE PurgeRows
  BY <1>5 DEF PurgeRows, TypeOK, Row, storage
<1>6. CASE PurgeFails
  BY <1>6 DEF PurgeFails, TypeOK, storage
<1>7. CASE Restart
  <2>1. disturbed' \subseteq Keys
    BY <1>1, <1>7 DEF Restart, TypeOK
  <2>2. req' \in [Requests -> RequestType]
    BY <1>7, IdleIsARequest DEF Restart
  <2> QED
    BY <1>7, <2>1, <2>2 DEF Restart, TypeOK, RequestType, storage
<1> QED
  BY <1>2, <1>3, <1>4, <1>5, <1>6, <1>7 DEF PurgeStep

LEMMA TypesStay ==
    ASSUME TypeOK, [Next]_vars
    PROVE  TypeOK'
<1>1. CASE UNCHANGED vars
  BY <1>1 DEF vars, TypeOK
<1>2. CASE Next
  BY <1>2, UploadTypes, DeletionTypes, ChangeTypes, FailureTypes, EventTypes DEF Next
<1> QED
  BY <1>1, <1>2

-----------------------------------------------------------------------------
(* A key at which a step has changed neither the rows nor what is stored. *)
Same(k) ==
    /\ RowsAt(k)' = RowsAt(k)
    /\ \A i \in RowsAt(k) : media'[i] = media[i]
    /\ \A s \in Stamps : /\ files'[<<k, s>>] = files[<<k, s>>]
                         /\ <<k, s>> \in thumbs' <=> <<k, s>> \in thumbs

LEMMA SameStored ==
    ASSUME TypeOK, NEW k \in Keys, Same(k)
    PROVE  /\ Originals(k)' = Originals(k)
           /\ Thumbs(k)' = Thumbs(k)
           /\ NothingAt(k)' <=> NothingAt(k)
           /\ Settled(k)' <=> Settled(k)
<1>1. Originals(k)' = Originals(k) /\ Thumbs(k)' = Thumbs(k)
  BY DEF Same, Originals, Thumbs
<1>2. NothingAt(k)' <=> NothingAt(k)
  BY <1>1 DEF NothingAt
<1>3. \A i \in RowsAt(k) : media[i].stamp \in Stamps
  BY FileParts DEF RowsAt, Rows, TypeOK, Row
<1>4. Settled(k)' <=> Settled(k)
  BY <1>1, <1>2, <1>3 DEF Settled, StoredAt, Same
<1> QED
  BY <1>1, <1>2, <1>4

(* What a request has read, as a member of the table's types. *)
LEMMA OldIsAFile ==
    ASSUME TypeOK, NEW q \in Requests, ShapeOf(q), req[q].pc # "idle"
    PROVE  /\ req[q].new \in MediaFile
           /\ req[q].pc \in UploadPC =>
                /\ req[q] \in Upload
                /\ req[q].ids \subseteq RowIds
                /\ req[q].ids # {} => req[q].old \in MediaFile
           /\ req[q].pc \in DeletePC =>
                /\ req[q] \in Deletion
                /\ req[q].id \in RowIds
                /\ req[q].old \in MediaFile
           /\ req[q].pc \in ThumbPC =>
                /\ req[q] \in Change
                /\ req[q].id \in RowIds
                /\ req[q].old \in MediaFile
<1>1. req[q] \in RequestType
  BY RequestParts
<1>2. req[q].pc \in UploadPC => req[q] \in Upload
  BY <1>1, Kinds
<1>3. req[q].pc \in DeletePC => req[q] \in Deletion
  BY <1>1, Kinds
<1>4. req[q].pc \in ThumbPC => req[q] \in Change
  BY <1>1, Kinds
<1>5. req[q].new \in MediaFile
  BY <1>1, Kinds
<1>6. ASSUME req[q] \in Upload
      PROVE  req[q].ids \subseteq RowIds /\ req[q].old \in Row
  BY <1>6 DEF Upload
<1>7. ASSUME req[q].pc \in UploadPC, req[q].ids # {}
      PROVE  req[q].old # NoRow
  BY <1>7 DEF ShapeOf
<1>8. req[q] \in Deletion => req[q].id \in RowIds /\ req[q].old \in MediaFile
  BY DEF Deletion
<1>9. req[q] \in Change => req[q].id \in RowIds /\ req[q].old \in MediaFile
  BY DEF Change
<1> QED
  BY <1>2, <1>3, <1>4, <1>5, <1>6, <1>7, <1>8, <1>9 DEF Row

(* What was said of a request at such a key still holds. *)
LEMMA WorkStays ==
    ASSUME TypeOK, NEW k \in Keys, Same(k), NEW q \in Requests, req'[q] = req[q],
           ShapeOf(q), Works(q, k), WorkAt(k, q)
    PROVE  WorkAt(k, q)'
<1>1. /\ Originals(k)' = Originals(k)
      /\ Thumbs(k)' = Thumbs(k)
      /\ NothingAt(k)' <=> NothingAt(k)
      /\ Settled(k)' <=> Settled(k)
  BY SameStored
<1>2. req[q].new \in MediaFile /\ req[q].new.stamp \in Stamps
  BY OldIsAFile, FileParts DEF Works
<1>3. CASE req[q].pc \in UploadPC
  <2>1. \A i \in req[q].ids : media'[i] = req[q].old
    <3>1. ASSUME NEW i \in req[q].ids
          PROVE  i \in RowsAt(k)
      <4>1. media[i] = req[q].old /\ i \in RowIds /\ req[q].old \in MediaFile
        BY <1>3, <3>1, OldIsAFile DEF WorkAt, UploadAt, Works
      <4>2. KeyOf(req[q].old) = k
        BY <1>3, <3>1 DEF ShapeOf, Works
      <4> QED
        BY <4>1, <4>2, NoRowIsNoFile DEF RowsAt, Rows
    <3> QED
      BY <1>3, <3>1 DEF WorkAt, UploadAt, Same
  <2>2. req[q].ids = {} => \A i \in RowsAt(k)' : media'[i].guest # req[q].new.guest
    BY <1>3 DEF WorkAt, UploadAt, Same
  <2>3. RowsAt(k)' = RowsAt(k)
    BY DEF Same
  <2>4. files'[<<k, req[q].new.stamp>>] = files[<<k, req[q].new.stamp>>]
    BY <1>2 DEF Same
  <2>5. UploadAt(k, q)
    BY <1>3 DEF WorkAt
  <2>6. UploadAt(k, q)'
    BY <1>1, <2>1, <2>2, <2>3, <2>4, <2>5 DEF UploadAt, StoredAt
  <2> QED
    BY <1>3, <2>6 DEF WorkAt, UploadPC, DeletePC, ThumbPC
<1>4. CASE req[q].pc \in DeletePC
  <2>1. req[q].old \in MediaFile /\ req[q].id \in RowIds /\ KeyOf(req[q].old) = k
    BY <1>4, OldIsAFile DEF Works, ShapeOf
  <2>2. DeletionAt(k, q)
    BY <1>4 DEF WorkAt
  <2>3. req[q].id \in RowsAt(k)
    BY <2>1, <2>2, NoRowIsNoFile DEF RowsAt, Rows, DeletionAt
  <2>4. DeletionAt(k, q)'
    BY <1>1, <2>2, <2>3 DEF DeletionAt, Same
  <2> QED
    BY <1>4, <2>4 DEF WorkAt, UploadPC, DeletePC, ThumbPC
<1>5. CASE req[q].pc \in ThumbPC
  <2>1. /\ req[q].old \in MediaFile /\ req[q].id \in RowIds
        /\ KeyOf(req[q].old) = k /\ req[q].old.stamp \in Stamps
    BY <1>5, OldIsAFile, FileParts DEF Works, ShapeOf
  <2>2. ChangeAt(k, q)
    BY <1>5 DEF WorkAt
  <2>3. req[q].id \in RowsAt(k)
    BY <2>1, <2>2, NoRowIsNoFile DEF RowsAt, Rows, ChangeAt
  <2>4. files'[<<k, req[q].old.stamp>>] = files[<<k, req[q].old.stamp>>]
    BY <2>1 DEF Same
  <2>5. ChangeAt(k, q)'
    BY <1>1, <2>2, <2>3, <2>4 DEF ChangeAt, StoredAt, Same
  <2> QED
    BY <1>5, <2>5 DEF WorkAt, UploadPC, DeletePC, ThumbPC
<1> QED
  BY <1>3, <1>4, <1>5, RequestParts, Kinds DEF Works

LEMMA HandPartsNext ==
    ASSUME TypeOK', NEW q \in Requests, NEW k
    PROVE  (k \in InHand(q))' <=> Works(q, k)' \/ Done(q, k)'
<1>1. req'[q] \in RequestType
  BY DEF TypeOK, RequestType
<1>2. req'[q].pc = "idle" <=> req'[q] = Idle
  BY <1>1, Kinds
<1> QED
  BY <1>2 DEF InHand, Works, Done, DeletePC

(* A step of another file leaves a key as it was. *)
LEMMA KeyStays ==
    ASSUME IInv, TypeOK', NEW k \in Keys, k \notin disturbed, Same(k),
           NEW q \in Requests, \A o \in Requests \ {q} : req'[o] = req[o],
           event' = event, doomed' = doomed,
           k \notin InHand(q), (k \notin InHand(q))'
    PROVE  KeyOK(k)'
<1>1. TypeOK /\ KeyOK(k) /\ \A o \in Requests : ShapeOf(o)
  BY DEF IInv
<1>2. /\ ~Works(q, k) /\ ~Done(q, k)
      /\ ~Works(q, k)' /\ ~Done(q, k)'
  BY <1>1, HandParts, HandPartsNext
<1>3. \A o \in Requests : /\ Works(o, k)' <=> Works(o, k)
                          /\ Done(o, k)' <=> Done(o, k)
                          /\ (k \in InHand(o))' <=> k \in InHand(o)
  BY <1>2 DEF Works, Done, InHand
<1>4. Alone(k)'
  BY <1>1, <1>3 DEF KeyOK, Alone
<1>5. /\ NothingAt(k)' <=> NothingAt(k)
      /\ Settled(k)' <=> Settled(k)
      /\ Originals(k)' = Originals(k) /\ Thumbs(k)' = Thumbs(k)
  BY <1>1, SameStored
<1>6. ~Busy(k)' => Settled(k)'
  BY <1>1, <1>3, <1>5 DEF KeyOK, Busy
<1>7. event' = "deleting" => Purged(k)'
  <2>1. \A i \in RowsAt(k) : media[i].stamp \in Stamps
    BY <1>1, FileParts DEF RowsAt, Rows, TypeOK, Row
  <2> QED
    BY <1>1, <1>5, <2>1 DEF KeyOK, Purged, StoredAt, Same
<1>8. ASSUME NEW o \in Requests, Works(o, k)'
      PROVE  WorkAt(k, o)'
  <2>1. o # q /\ Works(o, k) /\ req'[o] = req[o] /\ ShapeOf(o) /\ WorkAt(k, o)
    BY <1>1, <1>2, <1>3, <1>8 DEF KeyOK
  <2> QED
    BY <1>1, <2>1, WorkStays
<1>9. ASSUME NEW o \in Requests, Done(o, k)'
      PROVE  DoneAt(k, o)'
  <2>1. o # q /\ Done(o, k) /\ req'[o] = req[o]
    BY <1>2, <1>3, <1>9
  <2> QED
    BY <1>1, <1>5, <2>1 DEF KeyOK, DoneAt, Same
<1>10. /\ \A i, j \in RowsAt(k)' : i = j
       /\ event' = "gone" => RowsAt(k)' = {}
  BY <1>1 DEF KeyOK, Same
<1> QED
  BY <1>4, <1>6, <1>7, <1>8, <1>9, <1>10 DEF KeyOK

(* A step of the only request that has the key in hand, before or after:   *)
(* what is said of the key has to be shown of this request alone.          *)
LEMMA KeyMine ==
    ASSUME TypeOK', NEW k \in Keys, NEW q \in Requests,
           event' = "live",
           \A o \in Requests \ {q} : k \notin InHand(o) /\ req'[o] = req[o],
           \A i, j \in RowsAt(k)' : i = j,
           ~(Works(q, k)' /\ Done(q, k)'),
           Works(q, k)' => WorkAt(k, q)',
           Done(q, k)' => DoneAt(k, q)',
           ~Works(q, k)' /\ ~Done(q, k)' => Settled(k)'
    PROVE  KeyOK(k)'
<1>1. \A o \in Requests : (k \in InHand(o))' <=> Works(o, k)' \/ Done(o, k)'
  BY HandPartsNext
<1>2. \A o \in Requests \ {q} : (k \notin InHand(o))'
  BY DEF InHand
<1>3. \A o \in Requests \ {q} : ~Works(o, k)' /\ ~Done(o, k)'
  BY <1>1, <1>2
<1>4. Alone(k)'
  BY <1>2, <1>3 DEF Alone
<1>5. ~Busy(k)' => Settled(k)'
  BY <1>1 DEF Busy
<1>6. /\ event' # "gone" /\ event' # "deleting"
  OBVIOUS
<1>7. /\ \A o \in Requests : Works(o, k)' => WorkAt(k, o)'
      /\ \A o \in Requests : Done(o, k)' => DoneAt(k, o)'
  BY <1>3
<1> QED
  BY <1>4, <1>5, <1>6, <1>7 DEF KeyOK

(* A request that has an undisturbed key in hand has it for itself. *)
LEMMA MineAlone ==
    ASSUME IInv, NEW k \in Keys, k \notin disturbed, NEW q \in Requests, k \in InHand(q)
    PROVE  /\ event = "live"
           /\ \A o \in Requests \ {q} : k \notin InHand(o)
           /\ ~(Works(q, k) /\ Done(q, k))
           /\ \A i, j \in RowsAt(k) : i = j
           /\ Works(q, k) => WorkAt(k, q)
           /\ Done(q, k) => DoneAt(k, q)
<1>1. KeyOK(k)
  BY DEF IInv
<1> QED
  BY <1>1 DEF KeyOK, Alone

-----------------------------------------------------------------------------
(* Steps of one request *)

LEMMA InUseParts ==
    ASSUME TypeOK, NEW q \in Requests
    PROVE  /\ req[q].pc \in UploadPC => InUse(q) = req[q].ids
           /\ req[q].pc \in DeletePC =>
                 InUse(q) = {req[q].id} \cup req[q].todo \cup req[q].held
           /\ req[q].pc \in ThumbPC => InUse(q) = {req[q].id}
<1> QED
  BY DEF InUse, UploadPC, DeletePC, ThumbPC

(* Rows keep their key, and a new one is not known to any request. *)
RowsKeep ==
    \A i \in Rows' :
        \/ i \in Rows /\ KeyOf(media'[i]) = KeyOf(media[i])
        \/ \A o \in Requests : i \notin InUse(o)

LEMMA RowsOfOthers ==
    ASSUME TypeOK, RowsKeep, NEW o \in Requests, req'[o] = req[o], RowsOf(o)
    PROVE  RowsOf(o)'
<1>1. ASSUME NEW i \in InUse(o), i \in Rows'
      PROVE  i \in Rows /\ KeyOf(media'[i]) = KeyOf(media[i])
  BY <1>1 DEF RowsKeep
<1>2. req[o].pc \in UploadPC =>
         \A i \in req[o].ids \cap Rows' : KeyOf(media'[i]) = KeyOf(req[o].new)
  <2> SUFFICES ASSUME req[o].pc \in UploadPC, NEW i \in req[o].ids \cap Rows'
               PROVE  KeyOf(media'[i]) = KeyOf(req[o].new)
    OBVIOUS
  <2> QED
    BY <1>1, InUseParts DEF RowsOf
<1>3. req[o].pc \in DeletePC =>
         /\ req[o].id \in Rows' => KeyOf(media'[req[o].id]) = KeyOf(req[o].new)
         /\ \A i \in req[o].held \cap Rows' : KeyOf(media'[i]) \in req[o].keys
  <2> SUFFICES ASSUME req[o].pc \in DeletePC
               PROVE  /\ req[o].id \in Rows' => KeyOf(media'[req[o].id]) = KeyOf(req[o].new)
                      /\ \A i \in req[o].held \cap Rows' : KeyOf(media'[i]) \in req[o].keys
    OBVIOUS
  <2> QED
    BY <1>1, InUseParts DEF RowsOf
<1>4. req[o].pc \in ThumbPC =>
         (req[o].id \in Rows' => KeyOf(media'[req[o].id]) = KeyOf(req[o].new))
  BY <1>1, InUseParts DEF RowsOf
<1> QED
  BY <1>2, <1>3, <1>4 DEF RowsOf

LEMMA RequestStep ==
    ASSUME IInv, TypeOK', NEW q \in Requests,
           \A o \in Requests \ {q} : req'[o] = req[o],
           event' = event, doomed' = doomed, disturbed \subseteq disturbed',
           RowsKeep, ShapeOf(q)', RowsOf(q)',
           \A k \in Keys \ disturbed' :
               k \notin InHand(q) /\ (k \notin InHand(q))' => Same(k),
           \A k \in Keys \ disturbed' :
               k \in InHand(q) \/ (k \in InHand(q))' => KeyOK(k)'
    PROVE  IInv'
<1>1. ASSUME NEW o \in Requests
      PROVE  ShapeOf(o)' /\ RowsOf(o)'
  <2>1. CASE o = q
    BY <2>1
  <2>2. CASE o # q
    BY <2>2, RowsOfOthers DEF IInv, ShapeOf
  <2> QED
    BY <2>1, <2>2
<1>2. ASSUME NEW k \in Keys \ disturbed'
      PROVE  KeyOK(k)'
  <2>1. CASE k \in InHand(q) \/ (k \in InHand(q))'
    BY <2>1
  <2>2. CASE k \notin InHand(q) /\ (k \notin InHand(q))'
    BY <2>2, KeyStays
  <2> QED
    BY <2>1, <2>2
<1> QED
  BY <1>1, <1>2 DEF IInv

(* The request stays of its kind, with the rows that it knows. *)
Kept(q) ==
    \/ /\ req[q].pc \in UploadPC /\ req'[q].pc \in UploadPC
       /\ req'[q].ids = req[q].ids
    \/ /\ req[q].pc \in DeletePC /\ req'[q].pc \in DeletePC
       /\ req'[q].id = req[q].id
       /\ req'[q].held = req[q].held
       /\ req'[q].keys = req[q].keys
    \/ /\ req[q].pc \in ThumbPC /\ req'[q].pc \in ThumbPC
       /\ req'[q].id = req[q].id

(* A step within the work on one file, which only writes to the storage. *)
LEMMA WorkStep ==
    ASSUME IInv, TypeOK', NEW q \in Requests, Kept(q),
           NEW key \in Keys, KeyOf(req[q].new) = key, KeyOf(req'[q].new) = key,
           \A o \in Requests \ {q} : req'[o] = req[o],
           media' = media, event' = event, doomed' = doomed,
           disturbed \subseteq disturbed',
           ShapeOf(q)',
           \A k \in Keys \ {key} : \A s \in Stamps :
               /\ files'[<<k, s>>] = files[<<k, s>>]
               /\ <<k, s>> \in thumbs' <=> <<k, s>> \in thumbs,
           key \notin disturbed' => WorkAt(key, q)'
    PROVE  IInv'
<1> USE DEF UploadPC, DeletePC, ThumbPC
<1>1. TypeOK /\ RowsOf(q)
  BY DEF IInv
<1>2. Rows' = Rows /\ \A k : RowsAt(k)' = RowsAt(k)
  BY DEF Rows, RowsAt
<1>3. RowsKeep
  BY <1>2 DEF RowsKeep
<1>4. RowsOf(q)'
  BY <1>1, <1>2 DEF RowsOf, Kept
<1>5. req[q].pc # "idle" /\ req'[q].pc # "idle"
  BY DEF Kept
<1>6. \A k : /\ Works(q, k)' <=> Works(q, k)
             /\ Works(q, k) <=> k = key
             /\ Done(q, k)' <=> Done(q, k)
  BY <1>5 DEF Works, Done, Kept
<1>7. \A k : (k \in InHand(q))' <=> k \in InHand(q)
  BY <1>1, <1>6, HandParts, HandPartsNext
<1>8. ASSUME NEW k \in Keys, k # key
      PROVE  Same(k)
  BY <1>2, <1>8 DEF Same
<1>9. \A k \in Keys : k \notin InHand(q) => Same(k)
  BY <1>1, <1>6, <1>8, HandParts
<1>10. ASSUME NEW k \in Keys \ disturbed', k \in InHand(q)
       PROVE  KeyOK(k)'
  <2>1. /\ event = "live"
        /\ \A o \in Requests \ {q} : k \notin InHand(o)
        /\ ~(Works(q, k) /\ Done(q, k))
        /\ \A i, j \in RowsAt(k) : i = j
        /\ Done(q, k) => DoneAt(k, q)
    BY <1>10, MineAlone
  <2>2. Works(q, k)' => WorkAt(k, q)'
    BY <1>6, <1>10
  <2>3. Done(q, k)' => DoneAt(k, q)'
    <3> SUFFICES ASSUME Done(q, k)
                 PROVE  DoneAt(k, q)'
      BY <1>6
    <3>1. Same(k)
      BY <1>6, <1>8, <2>1
    <3>2. NothingAt(k)'
      BY <1>1, <2>1, <3>1, SameStored DEF DoneAt
    <3>3. req'[q].held = req[q].held
      BY DEF Kept, Done
    <3> QED
      BY <1>2, <2>1, <3>2, <3>3 DEF DoneAt
  <2>4. Works(q, k) \/ Done(q, k)
    BY <1>1, <1>10, HandParts
  <2> QED
    BY <1>2, <1>6, <2>1, <2>2, <2>3, <2>4, KeyMine
<1> QED
  BY <1>3, <1>4, <1>7, <1>9, <1>10, RequestStep

(* The end of a request: its files are as the table has them. *)
LEMMA EndStep ==
    ASSUME IInv, TypeOK', NEW q \in Requests, Ends(q),
           event' = event, doomed' = doomed, disturbed \subseteq disturbed', RowsKeep,
           \A k \in Keys \ disturbed' : k \notin InHand(q) => Same(k),
           \A k \in Keys \ disturbed' : k \in InHand(q) =>
               Settled(k)' /\ \A i, j \in RowsAt(k)' : i = j
    PROVE  IInv'
<1>1. /\ req'[q].pc = "idle"
      /\ \A o \in Requests \ {q} : req'[o] = req[o]
  BY OneMoves, IdleIsARequest DEF Ends, IInv
<1>2. ShapeOf(q)' /\ RowsOf(q)'
  BY <1>1 DEF ShapeOf, RowsOf, UploadPC, DeletePC, ThumbPC
<1>3. \A k : ~Works(q, k)' /\ ~Done(q, k)'
  BY <1>1 DEF Works, Done, DeletePC
<1>4. \A k : (k \notin InHand(q))'
  BY <1>3, HandPartsNext
<1>5. ASSUME NEW k \in Keys \ disturbed', k \in InHand(q)
      PROVE  KeyOK(k)'
  <2>1. /\ event = "live"
        /\ \A o \in Requests \ {q} : k \notin InHand(o)
    BY <1>5, MineAlone
  <2> QED
    BY <1>1, <1>3, <1>5, <2>1, KeyMine
<1> QED
  BY <1>1, <1>2, <1>4, <1>5, RequestStep

(* The start of a request: what it has read is the row that is there. *)
LEMMA StartStep ==
    ASSUME IInv, TypeOK', NEW q \in Requests, NEW r \in RequestType,
           r.pc \in {"store", "unlink", "read"}, r.pc = "unlink" => r.keys = {},
           Starts(q, r), media' = media, storage' = storage, purge' = purge,
           req'[q] = r => ShapeOf(q)' /\ RowsOf(q)',
           req'[q] = r /\ Settled(KeyOf(r.new))' => WorkAt(KeyOf(r.new), q)'
    PROVE  IInv'
<1> DEFINE key == KeyOf(r.new)
<1>1. TypeOK
  BY DEF IInv
<1>2. /\ req'[q] = r
      /\ \A o \in Requests \ {q} : req'[o] = req[o]
      /\ req[q] = Idle
  BY <1>1, OneMoves DEF Starts
<1>3. event' = event /\ doomed' = doomed /\ files' = files /\ thumbs' = thumbs
  BY DEF storage, purge
<1>4. Rows' = Rows /\ \A k : RowsAt(k)' = RowsAt(k) /\ Same(k)
  BY <1>3 DEF Rows, RowsAt, Same
<1>5. RowsKeep
  BY <1>4 DEF RowsKeep
<1>6. \A k : /\ Works(q, k)' <=> k = key
             /\ ~Done(q, k)'
             /\ ~Works(q, k) /\ ~Done(q, k)
  BY <1>2, IdleIsARequest DEF Works, Done, DeletePC
<1>7. \A k : (k \in InHand(q))' <=> k = key
  BY <1>6, HandPartsNext
<1>8. \A k : k \notin InHand(q)
  BY <1>1, <1>6, HandParts
<1>9. ASSUME key \in Keys \ disturbed'
      PROVE  KeyOK(key)'
  <2>1. ~Busy(key) /\ key \notin disturbed
    BY <1>9 DEF Starts
  <2>2. KeyOK(key)
    BY <1>9, <2>1 DEF IInv
  <2>3. Settled(key)' /\ \A i, j \in RowsAt(key)' : i = j
    BY <1>1, <1>4, <1>9, <2>1, <2>2, SameStored DEF KeyOK
  <2>4. WorkAt(key, q)'
    BY <1>2, <2>3
  <2>5. event' = "live"
    BY <1>1, <1>3, <2>1 DEF Busy, Starts, TypeOK
  <2>6. \A o \in Requests \ {q} : key \notin InHand(o)
    BY <2>1 DEF Busy
  <2> HIDE DEF key
  <2> QED
    BY <1>2, <1>6, <1>9, <2>3, <2>4, <2>5, <2>6, KeyMine
<1>10. disturbed \subseteq disturbed'
  BY DEF Starts
<1> HIDE DEF key
<1> QED
  BY <1>2, <1>3, <1>4, <1>5, <1>7, <1>8, <1>9, <1>10, RequestStep

(* What a write to the storage does at a key. *)
LEMMA FileWritten ==
    ASSUME TypeOK, NEW key \in Keys, NEW stamp \in Stamps, NEW f,
           \A p \in Paths : files'[p] = IF p = <<key, stamp>> THEN f ELSE files[p]
    PROVE  /\ files'[<<key, stamp>>] = f
           /\ \A k \in Keys, s \in Stamps : k # key \/ s # stamp =>
                 files'[<<k, s>>] = files[<<k, s>>]
           /\ Originals(key)' \subseteq Originals(key) \cup {stamp}
<1>1. \A k \in Keys, s \in Stamps : <<k, s>> \in Paths
  BY DEF Paths
<1>2. files'[<<key, stamp>>] = f
  BY <1>1
<1>3. \A k \in Keys, s \in Stamps : k # key \/ s # stamp =>
         files'[<<k, s>>] = files[<<k, s>>]
  BY <1>1
<1> QED
  BY <1>1, <1>2, <1>3 DEF Originals

LEMMA FileRemoved ==
    ASSUME TypeOK, NEW key \in Keys, NEW stamp \in Stamps,
           \A p \in Paths : files'[p] = IF p = <<key, stamp>> THEN "none" ELSE files[p]
    PROVE  /\ \A k \in Keys, s \in Stamps : k # key \/ s # stamp =>
                 files'[<<k, s>>] = files[<<k, s>>]
           /\ Originals(key)' = Originals(key) \ {stamp}
<1>1. \A k \in Keys, s \in Stamps : <<k, s>> \in Paths
  BY DEF Paths
<1>2. \A k \in Keys, s \in Stamps : k # key \/ s # stamp =>
         files'[<<k, s>>] = files[<<k, s>>]
  BY <1>1
<1>3. files'[<<key, stamp>>] = "none"
  BY <1>1
<1> QED
  BY <1>2, <1>3 DEF Originals

-----------------------------------------------------------------------------
(* The steps of an upload *)

LEMMA UploadSelectKeeps ==
    ASSUME IInv, TypeOK', NEW q \in Requests, NEW new \in MediaFile, UploadSelect(q, new)
    PROVE  IInv'
<1> DEFINE ids == {i \in Rows : media[i].guest = new.guest /\ media[i].name = new.name}
<1>1. /\ \A i, j \in ids : i = j
      /\ ids \subseteq RowIds
      /\ media' = media /\ storage' = storage /\ purge' = purge
  BY DEF UploadSelect, Rows
<1>2. PICK old \in IF ids = {} THEN {NoRow} ELSE {media[i] : i \in ids} :
             Starts(q, [pc |-> "store", new |-> new, ids |-> ids, old |-> old])
  BY DEF UploadSelect
<1>3. old \in Row
  BY DEF IInv, TypeOK, Row, Rows
<1>4. PICK r : r = [pc |-> "store", new |-> new, ids |-> ids, old |-> old]
  OBVIOUS
<1>5. r.pc = "store" /\ r.new = new /\ r.ids = ids /\ r.old = old
  BY <1>4
<1>6. r \in RequestType
  BY <1>1, <1>3, <1>4 DEF RequestType, Upload, UploadPC
<1>7. /\ ids = {} <=> old = NoRow
      /\ \A i \in ids : i \in Rows /\ media[i] = old /\ KeyOf(media[i]) = KeyOf(new)
      /\ ids # {} => KeyOf(old) = KeyOf(new)
  BY <1>1 DEF Rows, KeyOf
<1>8. Rows' = Rows /\ \A k : RowsAt(k)' = RowsAt(k)
  BY <1>1 DEF Rows, RowsAt
<1>9. \A i \in RowsAt(KeyOf(new)) : ids = {} => media[i].guest # new.guest
  BY DEF RowsAt, KeyOf
<1> HIDE DEF ids
<1>10. ASSUME req'[q] = r
       PROVE  ShapeOf(q)' /\ RowsOf(q)'
  BY <1>1, <1>5, <1>7, <1>10 DEF ShapeOf, RowsOf, UploadPC, DeletePC, ThumbPC
<1>11. ASSUME req'[q] = r, Settled(KeyOf(r.new))'
       PROVE  WorkAt(KeyOf(r.new), q)'
  BY <1>1, <1>5, <1>7, <1>8, <1>9, <1>11 DEF WorkAt, UploadAt, UploadPC, DeletePC, ThumbPC
<1>12. Starts(q, r)
  BY <1>2, <1>4
<1> QED
  BY <1>1, <1>5, <1>6, <1>10, <1>11, <1>12, StartStep

(* A request at another place of its code, and nothing else of it changed. *)
LEMMA OnlyMoves ==
    ASSUME TypeOK, NEW q \in Requests, req[q].pc # "idle", NEW to,
           req' = [req EXCEPT ![q] = [req[q] EXCEPT !.pc = to]]
    PROVE  /\ \A o \in Requests \ {q} : req'[o] = req[o]
           /\ req'[q].pc = to /\ req'[q].new = req[q].new /\ req'[q].old = req[q].old
           /\ req[q].pc \in UploadPC => req'[q].ids = req[q].ids
           /\ req[q].pc \in DeletePC => /\ req'[q].id = req[q].id
                                        /\ req'[q].held = req[q].held
                                        /\ req'[q].keys = req[q].keys
           /\ req[q].pc \in ThumbPC => req'[q].id = req[q].id
<1>1. /\ req'[q] = [req[q] EXCEPT !.pc = to]
      /\ \A o \in Requests \ {q} : req'[o] = req[o]
  BY OneMoves
<1>2. CASE req[q].pc \in UploadPC
  <2>1. req[q] \in Upload
    BY <1>2, RequestParts, Kinds
  <2> QED
    BY <1>1, <1>2, <2>1 DEF Upload, UploadPC, DeletePC, ThumbPC
<1>3. CASE req[q].pc \in DeletePC
  <2>1. req[q] \in Deletion
    BY <1>3, RequestParts, Kinds
  <2> QED
    BY <1>1, <1>3, <2>1 DEF Deletion, UploadPC, DeletePC, ThumbPC
<1>4. CASE req[q].pc \in ThumbPC
  <2>1. req[q] \in Change
    BY <1>4, RequestParts, Kinds
  <2> QED
    BY <1>1, <1>4, <2>1 DEF Change, UploadPC, DeletePC, ThumbPC
<1> QED
  BY <1>2, <1>3, <1>4, RequestParts, Kinds

LEMMA StoreKeeps ==
    ASSUME IInv, TypeOK', NEW q \in Requests, Store(q)
    PROVE  IInv'
<1>1. TypeOK /\ ShapeOf(q)
  BY DEF IInv
<1>2. req[q].pc = "store" /\ req' = [req EXCEPT ![q] = [req[q] EXCEPT !.pc = "thumb"]]
  BY DEF Store, Goto
<1>3. req[q] \in Upload /\ req[q].new \in MediaFile
  BY <1>1, <1>2, OldIsAFile DEF UploadPC
<1>4. /\ req'[q].pc = "thumb" /\ req'[q].new = req[q].new
      /\ req'[q].ids = req[q].ids /\ req'[q].old = req[q].old
      /\ \A o \in Requests \ {q} : req'[o] = req[o]
  BY <1>1, <1>2, OnlyMoves DEF UploadPC
<1>5. Kept(q) /\ ShapeOf(q)'
  BY <1>1, <1>2, <1>4 DEF Kept, ShapeOf, UploadPC, DeletePC, ThumbPC
<1>0. PICK key \in Keys : key = KeyOf(req[q].new)
  BY <1>3, FileParts
<1>6. /\ files' = [files EXCEPT ![PathOf(req[q].new)] = req[q].new.checksum]
      /\ media' = media /\ thumbs' = thumbs /\ event' = event /\ doomed' = doomed
      /\ disturbed' = disturbed
  BY DEF Store, purge
<1>7. /\ files'[<<key, req[q].new.stamp>>] = req[q].new.checksum
      /\ \A k \in Keys, s \in Stamps : k # key \/ s # req[q].new.stamp =>
            files'[<<k, s>>] = files[<<k, s>>]
      /\ Originals(key)' \subseteq Originals(key) \cup {req[q].new.stamp}
  <2>1. PICK stamp \in Stamps, f \in Contents :
           f = req[q].new.checksum /\ PathOf(req[q].new) = <<key, stamp>>
                                   /\ stamp = req[q].new.stamp
    BY <1>0, <1>3, FileParts
  <2>2. \A p \in Paths : files'[p] = IF p = <<key, stamp>> THEN f ELSE files[p]
    BY <1>1, <1>6, <2>1 DEF TypeOK
  <2> QED
    BY <1>1, <2>1, <2>2, FileWritten
<1>8. ASSUME key \notin disturbed'
      PROVE  WorkAt(key, q)'
  <2>1. Works(q, key) /\ KeyOK(key)
    BY <1>0, <1>1, <1>2, <1>6, <1>8 DEF Works, IInv
  <2>2. UploadAt(key, q) /\ Settled(key)
    BY <1>2, <2>1 DEF KeyOK, WorkAt, UploadAt, UploadPC
  <2>3. RowsAt(key)' = RowsAt(key) /\ Thumbs(key)' = Thumbs(key)
    BY <1>4, <1>6 DEF RowsAt, Rows, Thumbs
  <2>4. \A i \in req[q].ids : i \in RowsAt(key)
    <3>1. req[q].ids # {} => req[q].old \in MediaFile /\ KeyOf(req[q].old) = key
      BY <1>0, <1>1, <1>2, OldIsAFile DEF ShapeOf, UploadPC
    <3> QED
      BY <1>3, <2>2, <3>1, NoRowIsNoFile DEF UploadAt, RowsAt, Rows, Upload
  <2>5. req[q].ids # {} => /\ Originals(key) \subseteq {req[q].old.stamp}
                           /\ Thumbs(key) = req[q].old.thumb
    BY <2>2, <2>4 DEF UploadAt, Settled, StoredAt
  <2>6. RowsAt(key) = {} => Originals(key) = {} /\ Thumbs(key) = {}
    BY <2>2 DEF Settled, NothingAt
  <2>7. UploadAt(key, q)'
    BY <1>4, <1>6, <1>7, <2>2, <2>3, <2>5, <2>6 DEF UploadAt, StoredAt
  <2> QED
    BY <1>4, <2>7 DEF WorkAt, UploadPC, DeletePC, ThumbPC
<1> QED
  BY <1>0, <1>4, <1>5, <1>6, <1>7, <1>8, WorkStep

LEMMA MyWork ==
    ASSUME IInv, NEW q \in Requests, req[q].pc # "idle",
           NEW key \in Keys \ disturbed, key = KeyOf(req[q].new)
    PROVE  WorkAt(key, q)
<1> QED
  BY DEF IInv, KeyOK, Works

LEMMA StoreThumbKeeps ==
    ASSUME IInv, TypeOK', NEW q \in Requests, StoreThumb(q)
    PROVE  IInv'
<1>1. TypeOK /\ ShapeOf(q)
  BY DEF IInv
<1>2. /\ req[q].pc = "thumb"
      /\ media' = media /\ files' = files /\ event' = event /\ doomed' = doomed
      /\ disturbed' = disturbed
  BY DEF StoreThumb, purge
<1>3. req[q] \in Upload /\ req[q].new \in MediaFile
  BY <1>1, <1>2, OldIsAFile DEF UploadPC
<1>4. PICK key \in Keys : key = KeyOf(req[q].new)
  BY <1>3, FileParts
<1>5. PICK t \in {{}, {req[q].new.stamp}} :
        /\ req' = [req EXCEPT
                      ![q].pc = IF req[q].ids = {} THEN "commit" ELSE "drop",
                      ![q].new.thumb = t]
        /\ thumbs' = thumbs \cup {<<KeyOf(req[q].new), s>> : s \in t}
  BY DEF StoreThumb
<1>6. PICK pc \in UploadPC : pc = IF req[q].ids = {} THEN "commit" ELSE "drop"
  BY DEF UploadPC
<1>7. t \subseteq Stamps
  BY <1>3, FileParts
<1>8. /\ \A o \in Requests \ {q} : req'[o] = req[o]
      /\ req'[q].pc = pc /\ req'[q].ids = req[q].ids /\ req'[q].old = req[q].old
      /\ req'[q].new = [req[q].new EXCEPT !.thumb = t]
  BY <1>1, <1>3, <1>5, <1>6 DEF TypeOK, Upload
<1>9. /\ KeyOf(req'[q].new) = key
      /\ req'[q].new.stamp = req[q].new.stamp
      /\ req'[q].new.checksum = req[q].new.checksum
      /\ req'[q].new.guest = req[q].new.guest
      /\ req'[q].new.thumb = t
  BY <1>3, <1>4, <1>8 DEF KeyOf, MediaFile
<1>10. Kept(q) /\ ShapeOf(q)'
  BY <1>1, <1>2, <1>4, <1>6, <1>8, <1>9 DEF Kept, ShapeOf, UploadPC, DeletePC, ThumbPC
<1>11. /\ \A k \in Keys \ {key}, s \in Stamps : <<k, s>> \in thumbs' <=> <<k, s>> \in thumbs
       /\ Thumbs(key)' = Thumbs(key) \cup t
  <2>1. \A k \in Keys, s \in Stamps :
           <<k, s>> \in thumbs' <=> (k = key /\ s \in t) \/ <<k, s>> \in thumbs
    BY <1>4, <1>5
  <2> QED
    BY <1>7, <2>1 DEF Thumbs
<1>12. ASSUME key \notin disturbed'
       PROVE  WorkAt(key, q)'
  <2>1. UploadAt(key, q)
    BY <1>2, <1>4, <1>12, MyWork DEF WorkAt, UploadPC
  <2>2. RowsAt(key)' = RowsAt(key) /\ Originals(key)' = Originals(key)
    BY <1>2 DEF RowsAt, Rows, Originals
  <2>3. UploadAt(key, q)'
    BY <1>2, <1>6, <1>8, <1>9, <1>11, <2>1, <2>2 DEF UploadAt, StoredAt
  <2> QED
    BY <1>6, <1>8, <2>3 DEF WorkAt, UploadPC, DeletePC, ThumbPC
<1> QED
  BY <1>2, <1>4, <1>8, <1>9, <1>10, <1>11, <1>12, WorkStep

LEMMA DropFileKeeps ==
    ASSUME IInv, TypeOK', NEW q \in Requests, DropFile(q)
    PROVE  IInv'
<1>1. TypeOK /\ ShapeOf(q)
  BY DEF IInv
<1>2. /\ req[q].pc = "drop" /\ req' = [req EXCEPT ![q] = [req[q] EXCEPT !.pc = "dropthumb"]]
      /\ media' = media /\ thumbs' = thumbs /\ event' = event /\ doomed' = doomed
      /\ disturbed' = disturbed
      /\ files' = IF PathOf(req[q].old) # PathOf(req[q].new)
                  THEN [files EXCEPT ![PathOf(req[q].old)] = "none"] ELSE files
  BY DEF DropFile, Goto, purge
<1>3. /\ req[q].new \in MediaFile
      /\ req[q].ids # {} /\ req[q].old \in MediaFile
      /\ KeyOf(req[q].old) = KeyOf(req[q].new)
  BY <1>1, <1>2, OldIsAFile DEF ShapeOf, UploadPC
<1>4. PICK key \in Keys : key = KeyOf(req[q].new)
  BY <1>3, FileParts
<1>5. /\ \A o \in Requests \ {q} : req'[o] = req[o]
      /\ req'[q].pc = "dropthumb" /\ req'[q].new = req[q].new
      /\ req'[q].ids = req[q].ids /\ req'[q].old = req[q].old
  BY <1>1, <1>2, OnlyMoves DEF UploadPC
<1>6. Kept(q) /\ ShapeOf(q)'
  BY <1>1, <1>2, <1>3, <1>5 DEF Kept, ShapeOf, UploadPC, DeletePC, ThumbPC
<1>7. PICK os \in Stamps, ns \in Stamps :
         /\ os = req[q].old.stamp /\ PathOf(req[q].old) = <<key, os>>
         /\ ns = req[q].new.stamp /\ PathOf(req[q].new) = <<key, ns>>
  BY <1>3, <1>4, FileParts
<1>8. /\ \A k \in Keys, s \in Stamps : k # key \/ s # os \/ s = ns =>
            files'[<<k, s>>] = files[<<k, s>>]
      /\ Originals(key) \subseteq {os, ns} => Originals(key)' \subseteq {ns}
  <2>1. CASE os = ns
    BY <1>2, <1>7, <2>1 DEF Originals
  <2>2. CASE os # ns
    <3>1. \A p \in Paths : files'[p] = IF p = <<key, os>> THEN "none" ELSE files[p]
      BY <1>1, <1>2, <1>7, <2>2 DEF TypeOK
    <3>2. /\ \A k \in Keys, s \in Stamps : k # key \/ s # os =>
                files'[<<k, s>>] = files[<<k, s>>]
          /\ Originals(key)' = Originals(key) \ {os}
      BY <1>1, <3>1, FileRemoved
    <3> QED
      BY <2>2, <3>2
  <2> QED
    BY <2>1, <2>2
<1>9. ASSUME key \notin disturbed'
      PROVE  WorkAt(key, q)'
  <2>1. UploadAt(key, q)
    BY <1>2, <1>4, <1>9, MyWork DEF WorkAt, UploadPC
  <2>2. RowsAt(key)' = RowsAt(key) /\ Thumbs(key)' = Thumbs(key)
    BY <1>2 DEF RowsAt, Rows, Thumbs
  <2>3. UploadAt(key, q)'
    BY <1>2, <1>3, <1>5, <1>7, <1>8, <2>1, <2>2 DEF UploadAt, StoredAt
  <2> QED
    BY <1>5, <2>3 DEF WorkAt, UploadPC, DeletePC, ThumbPC
<1> QED
  BY <1>2, <1>4, <1>5, <1>6, <1>8, <1>9, WorkStep

LEMMA DropThumbKeeps ==
    ASSUME IInv, TypeOK', NEW q \in Requests, DropThumb(q)
    PROVE  IInv'
<1>1. TypeOK /\ ShapeOf(q)
  BY DEF IInv
<1>2. /\ req[q].pc = "dropthumb" /\ req' = [req EXCEPT ![q] = [req[q] EXCEPT !.pc = "commit"]]
      /\ media' = media /\ files' = files /\ event' = event /\ doomed' = doomed
      /\ disturbed' = disturbed
      /\ thumbs' = thumbs \ (ThumbPaths(req[q].old) \ ThumbPaths(req[q].new))
  BY DEF DropThumb, Goto, purge
<1>3. /\ req[q].new \in MediaFile
      /\ req[q].ids # {} /\ req[q].old \in MediaFile
      /\ KeyOf(req[q].old) = KeyOf(req[q].new)
  BY <1>1, <1>2, OldIsAFile DEF ShapeOf, UploadPC
<1>4. PICK key \in Keys : key = KeyOf(req[q].new)
  BY <1>3, FileParts
<1>5. /\ \A o \in Requests \ {q} : req'[o] = req[o]
      /\ req'[q].pc = "commit" /\ req'[q].new = req[q].new
      /\ req'[q].ids = req[q].ids /\ req'[q].old = req[q].old
  BY <1>1, <1>2, OnlyMoves DEF UploadPC
<1>6. Kept(q) /\ ShapeOf(q)'
  BY <1>1, <1>2, <1>5 DEF Kept, ShapeOf, UploadPC, DeletePC, ThumbPC
<1>7. PICK ot \in SUBSET Stamps, nt \in SUBSET Stamps :
         ot = req[q].old.thumb /\ nt = req[q].new.thumb
  BY <1>3, FileParts
<1>8. /\ \A k \in Keys \ {key}, s \in Stamps : <<k, s>> \in thumbs' <=> <<k, s>> \in thumbs
      /\ Thumbs(key)' = Thumbs(key) \ (ot \ nt)
  <2>1. \A k \in Keys, s \in Stamps :
           <<k, s>> \in thumbs' <=> <<k, s>> \in thumbs /\ ~(k = key /\ s \in ot \ nt)
    BY <1>2, <1>3, <1>4, <1>7, FileParts
  <2> QED
    BY <2>1 DEF Thumbs
<1>9. ASSUME key \notin disturbed'
      PROVE  WorkAt(key, q)'
  <2>1. UploadAt(key, q)
    BY <1>2, <1>4, <1>9, MyWork DEF WorkAt, UploadPC
  <2>2. RowsAt(key)' = RowsAt(key) /\ Originals(key)' = Originals(key)
    BY <1>2 DEF RowsAt, Rows, Originals
  <2>3. StoredAt(key, req[q].new, {req[q].new.stamp}, ot \cup nt)
    BY <1>2, <1>3, <1>7, <2>1 DEF UploadAt
  <2>4. Thumbs(key)' = nt
    BY <1>8, <2>3 DEF StoredAt
  <2>5. UploadAt(key, q)'
    BY <1>2, <1>3, <1>5, <1>7, <2>1, <2>2, <2>3, <2>4 DEF UploadAt, StoredAt
  <2> QED
    BY <1>5, <2>5 DEF WorkAt, UploadPC, DeletePC, ThumbPC
<1> QED
  BY <1>2, <1>4, <1>5, <1>6, <1>8, <1>9, WorkStep

LEMMA HandOfOne ==
    ASSUME TypeOK, NEW q \in Requests, req[q].pc \in UploadPC \cup ThumbPC
    PROVE  InHand(q) = {KeyOf(req[q].new)}
<1>1. req[q].pc \notin DeletePC /\ req[q] # Idle
  BY RequestParts, Kinds DEF UploadPC, DeletePC, ThumbPC
<1> QED
  BY <1>1 DEF InHand

LEMMA StoreFailsKeeps ==
    ASSUME IInv, TypeOK', NEW q \in Requests, StoreFails(q)
    PROVE  IInv'
<1>1. TypeOK /\ ShapeOf(q)
  BY DEF IInv
<1>2. PICK f \in {files[PathOf(req[q].new)], "torn"} :
        /\ req[q].pc = "store"
        /\ files' = [files EXCEPT ![PathOf(req[q].new)] = f]
        /\ disturbed' = disturbed \cup {KeyOf(req[q].new)}
        /\ Ends(q)
        /\ media' = media /\ thumbs' = thumbs /\ event' = event /\ doomed' = doomed
  BY DEF StoreFails, purge
<1>3. req[q].new \in MediaFile
  BY <1>1, <1>2, OldIsAFile DEF UploadPC
<1>4. PICK key \in Keys, stamp \in Stamps :
         /\ key = KeyOf(req[q].new) /\ PathOf(req[q].new) = <<key, stamp>>
  BY <1>3, FileParts
<1>5. InHand(q) = {key}
  BY <1>1, <1>2, <1>4, HandOfOne DEF UploadPC
<1>6. \A k \in Keys \ {key}, s \in Stamps : files'[<<k, s>>] = files[<<k, s>>]
  BY <1>1, <1>2, <1>4 DEF TypeOK, Paths
<1>7. Rows' = Rows /\ \A k : RowsAt(k)' = RowsAt(k)
  BY <1>2 DEF Rows, RowsAt
<1>8. \A k \in Keys \ {key} : Same(k)
  BY <1>2, <1>6, <1>7 DEF Same
<1>9. RowsKeep
  BY <1>2, <1>7 DEF RowsKeep
<1> QED
  BY <1>2, <1>4, <1>5, <1>8, <1>9, EndStep

LEMMA InsertKeeps ==
    ASSUME IInv, TypeOK', NEW q \in Requests, Insert(q)
    PROVE  IInv'
<1>1. TypeOK /\ ShapeOf(q)
  BY DEF IInv
<1>2. /\ req[q].pc = "commit" /\ req[q].ids = {} /\ Ends(q)
      /\ files' = files /\ thumbs' = thumbs /\ event' = event /\ doomed' = doomed
      /\ disturbed' =
            IF \E i \in Rows : /\ KeyOf(media[i]) = KeyOf(req[q].new)
                               /\ media[i].guest # req[q].new.guest
            THEN disturbed \cup {KeyOf(req[q].new)} ELSE disturbed
  BY DEF Insert, storage, purge
<1>3. PICK i \in RowIds \ Rows :
          /\ \A o \in Requests : i \notin InUse(o)
          /\ media' = [media EXCEPT ![i] = req[q].new]
  BY DEF Insert
<1>4. req[q].new \in MediaFile
  BY <1>1, <1>2, OldIsAFile DEF UploadPC
<1>5. PICK key \in Keys : key = KeyOf(req[q].new)
  BY <1>4, FileParts
<1>6. InHand(q) = {key}
  BY <1>1, <1>2, <1>5, HandOfOne DEF UploadPC
<1>7. media'[i] = req[q].new /\ \A j \in RowIds \ {i} : media'[j] = media[j]
  BY <1>1, <1>3 DEF TypeOK
<1>8. Rows' = Rows \cup {i}
  BY <1>3, <1>4, <1>7, NoRowIsNoFile DEF Rows
<1>9. RowsKeep
  BY <1>3, <1>7, <1>8 DEF RowsKeep, Rows
<1>10. \A k \in Keys \ {key} : Same(k)
  <2> SUFFICES ASSUME NEW k \in Keys \ {key}
               PROVE  Same(k)
    OBVIOUS
  <2>1. RowsAt(k)' = RowsAt(k)
    BY <1>3, <1>5, <1>7, <1>8 DEF RowsAt, Rows
  <2>2. \A j \in RowsAt(k) : media'[j] = media[j]
    BY <1>3, <1>7 DEF RowsAt, Rows
  <2> QED
    BY <1>2, <2>1, <2>2 DEF Same
<1>11. ASSUME key \notin disturbed'
       PROVE  Settled(key)' /\ \A j, l \in RowsAt(key)' : j = l
  <2>1. UploadAt(key, q)
    BY <1>2, <1>5, <1>11, MyWork DEF WorkAt, UploadPC
  <2>2. RowsAt(key) = {}
    BY <1>2, <1>5, <1>11, <2>1 DEF RowsAt, UploadAt
  <2>3. RowsAt(key)' = {i}
    BY <1>3, <1>5, <1>7, <1>8, <2>2 DEF RowsAt, Rows
  <2>4. StoredAt(key, req[q].new, {req[q].new.stamp}, req[q].new.thumb)
    BY <1>2, <2>1, <2>2 DEF UploadAt
  <2>5. Originals(key)' = Originals(key) /\ Thumbs(key)' = Thumbs(key)
    BY <1>2 DEF Originals, Thumbs
  <2> QED
    BY <1>2, <1>7, <2>3, <2>4, <2>5 DEF Settled, StoredAt
<1> QED
  BY <1>2, <1>6, <1>9, <1>10, <1>11, EndStep

(* The row of an update is changed at its own key. *)
LEMMA RowUpdated ==
    ASSUME TypeOK, NEW q \in Requests, req[q].new \in MediaFile, NEW i \in Rows,
           media' = [media EXCEPT ![i] = Written(media[i], req[q].old, req[q].new)]
    PROVE  /\ KeyOf(media'[i]) = KeyOf(media[i])
           /\ \A j \in RowIds \ {i} : media'[j] = media[j]
           /\ Rows' = Rows
           /\ \A k : RowsAt(k)' = RowsAt(k)
           /\ RowsKeep
           /\ media[i] = req[q].old => /\ media'[i].stamp = req[q].new.stamp
                                       /\ media'[i].thumb = req[q].new.thumb
                                       /\ media'[i].checksum = req[q].new.checksum
<1>1. media[i] \in MediaFile /\ i \in RowIds
  BY DEF TypeOK, Row, Rows
<1>2. /\ media'[i] = Written(media[i], req[q].old, req[q].new)
      /\ \A j \in RowIds \ {i} : media'[j] = media[j]
  BY <1>1 DEF TypeOK
<1>3. /\ media'[i] \in MediaFile /\ KeyOf(media'[i]) = KeyOf(media[i])
      /\ media[i] = req[q].old => /\ media'[i].stamp = req[q].new.stamp
                                  /\ media'[i].thumb = req[q].new.thumb
                                  /\ media'[i].checksum = req[q].new.checksum
  BY <1>1, <1>2, WrittenIsAFile
<1>4. Rows' = Rows
  BY <1>1, <1>2, <1>3, NoRowIsNoFile DEF Rows
<1>5. \A j \in Rows : KeyOf(media'[j]) = KeyOf(media[j])
  BY <1>2, <1>3 DEF Rows
<1> QED
  BY <1>2, <1>3, <1>4, <1>5 DEF RowsAt, RowsKeep

LEMMA UpdateKeeps ==
    ASSUME IInv, TypeOK', NEW q \in Requests, Update(q)
    PROVE  IInv'
<1>1. TypeOK /\ ShapeOf(q) /\ RowsOf(q)
  BY DEF IInv
<1>2. /\ req[q].pc = "commit" /\ Ends(q)
      /\ files' = files /\ thumbs' = thumbs /\ event' = event /\ doomed' = doomed
      /\ disturbed' = disturbed
  BY DEF Update, storage, purge
<1>3. PICK i \in req[q].ids :
          /\ media[i] # NoRow
          /\ media' = [media EXCEPT ![i] = Written(media[i], req[q].old, req[q].new)]
  BY DEF Update
<1>4. req[q].new \in MediaFile /\ req[q].ids \subseteq RowIds
  BY <1>1, <1>2, OldIsAFile DEF UploadPC
<1>5. PICK key \in Keys : key = KeyOf(req[q].new)
  BY <1>4, FileParts
<1>6. InHand(q) = {key}
  BY <1>1, <1>2, <1>5, HandOfOne DEF UploadPC
<1>7. i \in Rows /\ KeyOf(media[i]) = key
  BY <1>1, <1>2, <1>3, <1>4, <1>5 DEF Rows, RowsOf, UploadPC
<1>8. /\ \A j \in RowIds \ {i} : media'[j] = media[j]
      /\ \A k : RowsAt(k)' = RowsAt(k)
      /\ RowsKeep
      /\ media[i] = req[q].old => /\ media'[i].stamp = req[q].new.stamp
                                  /\ media'[i].thumb = req[q].new.thumb
                                  /\ media'[i].checksum = req[q].new.checksum
  BY <1>1, <1>3, <1>4, <1>7, RowUpdated
<1>9. \A k \in Keys \ {key} : Same(k)
  <2> SUFFICES ASSUME NEW k \in Keys \ {key}
               PROVE  Same(k)
    OBVIOUS
  <2>1. \A j \in RowsAt(k) : media'[j] = media[j]
    BY <1>7, <1>8 DEF RowsAt, Rows
  <2> QED
    BY <1>2, <1>8, <2>1 DEF Same
<1>10. ASSUME key \notin disturbed'
       PROVE  Settled(key)' /\ \A j, l \in RowsAt(key)' : j = l
  <2>1. UploadAt(key, q)
    BY <1>2, <1>5, <1>10, MyWork DEF WorkAt, UploadPC
  <2>2. \A j, l \in RowsAt(key) : j = l
    BY <1>2, <1>6, <1>10, MineAlone
  <2>3. RowsAt(key)' = {i}
    BY <1>7, <1>8, <2>2 DEF RowsAt
  <2>4. StoredAt(key, req[q].new, {req[q].new.stamp}, req[q].new.thumb)
    BY <1>2, <1>3, <2>1 DEF UploadAt
  <2>5. media[i] = req[q].old
    BY <1>3, <2>1 DEF UploadAt
  <2>6. Originals(key)' = Originals(key) /\ Thumbs(key)' = Thumbs(key)
    BY <1>2 DEF Originals, Thumbs
  <2> QED
    BY <1>2, <1>8, <2>3, <2>4, <2>5, <2>6 DEF Settled, StoredAt
<1> QED
  BY <1>2, <1>6, <1>8, <1>9, <1>10, EndStep

-----------------------------------------------------------------------------
(* The steps of a deletion *)

LEMMA DeleteSelectKeeps ==
    ASSUME IInv, TypeOK', NEW q \in Requests, NEW i \in RowIds,
           NEW others \in SUBSET RowIds, DeleteSelect(q, i, others)
    PROVE  IInv'
<1>1. /\ i \in Rows
      /\ media' = media /\ storage' = storage /\ purge' = purge
  BY DEF DeleteSelect
<1>2. PICK row \in MediaFile : row = media[i]
  BY <1>1 DEF IInv, TypeOK, Row, Rows
<1>3. PICK r : r = [pc |-> "unlink", new |-> row, id |-> i, old |-> row,
                    todo |-> others, held |-> {}, keys |-> {}]
  OBVIOUS
<1>4. /\ r.pc = "unlink" /\ r.new = row /\ r.id = i /\ r.old = row
      /\ r.held = {} /\ r.keys = {}
  BY <1>3
<1>5. r \in RequestType
  BY <1>3 DEF RequestType, Deletion, DeletePC
<1>6. Starts(q, r)
  BY <1>2, <1>3 DEF DeleteSelect
<1>7. ASSUME req'[q] = r
      PROVE  ShapeOf(q)' /\ RowsOf(q)'
  BY <1>1, <1>2, <1>4, <1>7 DEF ShapeOf, RowsOf, UploadPC, DeletePC, ThumbPC
<1>8. ASSUME req'[q] = r, Settled(KeyOf(r.new))'
      PROVE  WorkAt(KeyOf(r.new), q)'
  BY <1>1, <1>2, <1>4, <1>8 DEF WorkAt, DeletionAt, UploadPC, DeletePC, ThumbPC
<1> QED
  BY <1>1, <1>4, <1>5, <1>6, <1>7, <1>8, StartStep

LEMMA UnlinkKeeps ==
    ASSUME IInv, TypeOK', NEW q \in Requests, Unlink(q)
    PROVE  IInv'
<1>1. TypeOK /\ ShapeOf(q)
  BY DEF IInv
<1>2. /\ req[q].pc = "unlink"
      /\ req' = [req EXCEPT ![q] = [req[q] EXCEPT !.pc = "unlinkthumb"]]
      /\ media' = media /\ thumbs' = thumbs /\ event' = event /\ doomed' = doomed
      /\ disturbed' = disturbed
      /\ files' = [files EXCEPT ![PathOf(req[q].old)] = "none"]
  BY DEF Unlink, Goto, purge
<1>3. req[q].old \in MediaFile /\ req[q].new = req[q].old /\ req[q].id \in RowIds
  BY <1>1, <1>2, OldIsAFile DEF ShapeOf, DeletePC
<1>4. PICK key \in Keys, stamp \in Stamps :
         /\ key = KeyOf(req[q].new) /\ PathOf(req[q].old) = <<key, stamp>>
         /\ stamp = req[q].old.stamp
  BY <1>3, FileParts
<1>5. /\ \A o \in Requests \ {q} : req'[o] = req[o]
      /\ req'[q].pc = "unlinkthumb" /\ req'[q].new = req[q].new
      /\ req'[q].id = req[q].id /\ req'[q].old = req[q].old
      /\ req'[q].held = req[q].held /\ req'[q].keys = req[q].keys
  BY <1>1, <1>2, OnlyMoves DEF DeletePC
<1>6. Kept(q) /\ ShapeOf(q)'
  BY <1>1, <1>2, <1>3, <1>5 DEF Kept, ShapeOf, UploadPC, DeletePC, ThumbPC
<1>7. \A p \in Paths : files'[p] = IF p = <<key, stamp>> THEN "none" ELSE files[p]
  BY <1>1, <1>2, <1>4 DEF TypeOK
<1>8. /\ \A k \in Keys, s \in Stamps : k # key \/ s # stamp =>
            files'[<<k, s>>] = files[<<k, s>>]
      /\ Originals(key)' = Originals(key) \ {stamp}
  BY <1>1, <1>7, FileRemoved
<1>9. ASSUME key \notin disturbed'
      PROVE  WorkAt(key, q)'
  <2>1. DeletionAt(key, q)
    BY <1>2, <1>4, <1>9, MyWork DEF WorkAt, DeletePC
  <2>2. req[q].id \in RowsAt(key)
    BY <1>3, <1>4, <2>1, NoRowIsNoFile DEF DeletionAt, RowsAt, Rows
  <2>3. Originals(key) \subseteq {stamp} /\ Thumbs(key) = req[q].old.thumb
    BY <1>2, <1>4, <2>1, <2>2 DEF DeletionAt, Settled, StoredAt
  <2>4. Thumbs(key)' = Thumbs(key)
    BY <1>2 DEF Thumbs
  <2>5. DeletionAt(key, q)'
    BY <1>2, <1>5, <1>8, <2>1, <2>3, <2>4 DEF DeletionAt
  <2> QED
    BY <1>5, <2>5 DEF WorkAt, UploadPC, DeletePC, ThumbPC
<1> QED
  BY <1>2, <1>4, <1>5, <1>6, <1>8, <1>9, WorkStep

LEMMA UnlinkThumbKeeps ==
    ASSUME IInv, TypeOK', NEW q \in Requests, UnlinkThumb(q)
    PROVE  IInv'
<1>1. TypeOK /\ ShapeOf(q)
  BY DEF IInv
<1>2. /\ req[q].pc = "unlinkthumb"
      /\ req' = [req EXCEPT ![q] = [req[q] EXCEPT !.pc = "delete"]]
      /\ media' = media /\ files' = files /\ event' = event /\ doomed' = doomed
      /\ disturbed' = disturbed
      /\ thumbs' = thumbs \ ThumbPaths(req[q].old)
  BY DEF UnlinkThumb, Goto, purge
<1>3. req[q].old \in MediaFile /\ req[q].new = req[q].old /\ req[q].id \in RowIds
  BY <1>1, <1>2, OldIsAFile DEF ShapeOf, DeletePC
<1>4. PICK key \in Keys, t \in SUBSET Stamps : key = KeyOf(req[q].new) /\ t = req[q].old.thumb
  BY <1>3, FileParts
<1>5. /\ \A o \in Requests \ {q} : req'[o] = req[o]
      /\ req'[q].pc = "delete" /\ req'[q].new = req[q].new
      /\ req'[q].id = req[q].id /\ req'[q].old = req[q].old
      /\ req'[q].held = req[q].held /\ req'[q].keys = req[q].keys
  BY <1>1, <1>2, OnlyMoves DEF DeletePC
<1>6. Kept(q) /\ ShapeOf(q)'
  BY <1>1, <1>2, <1>3, <1>5 DEF Kept, ShapeOf, UploadPC, DeletePC, ThumbPC
<1>7. /\ \A k \in Keys \ {key}, s \in Stamps : <<k, s>> \in thumbs' <=> <<k, s>> \in thumbs
      /\ Thumbs(key)' = Thumbs(key) \ t
  <2>1. \A k \in Keys, s \in Stamps :
           <<k, s>> \in thumbs' <=> <<k, s>> \in thumbs /\ ~(k = key /\ s \in t)
    BY <1>2, <1>3, <1>4, FileParts
  <2> QED
    BY <2>1 DEF Thumbs
<1>8. ASSUME key \notin disturbed'
      PROVE  WorkAt(key, q)'
  <2>1. DeletionAt(key, q)
    BY <1>2, <1>4, <1>8, MyWork DEF WorkAt, DeletePC
  <2>2. Originals(key)' = {} /\ Thumbs(key)' = {}
    BY <1>2, <1>4, <1>7, <2>1 DEF DeletionAt, Originals
  <2>3. DeletionAt(key, q)'
    BY <1>2, <1>5, <2>1, <2>2 DEF DeletionAt, NothingAt
  <2> QED
    BY <1>5, <2>3 DEF WorkAt, UploadPC, DeletePC, ThumbPC
<1> QED
  BY <1>2, <1>4, <1>5, <1>6, <1>7, <1>8, WorkStep

(* What a deletion holds when it has removed the files of a row. *)
LEMMA ReadyToDelete ==
    ASSUME IInv, NEW q \in Requests, req[q].pc = "delete", NEW key, key = KeyOf(req[q].new),
           NEW k \in Keys \ disturbed, k \in InHand(q)
    PROVE  /\ NothingAt(k)
           /\ k = key => RowsAt(k) = {req[q].id}
           /\ k # key => k \in req[q].keys /\ RowsAt(k) \subseteq req[q].held
<1>1. TypeOK /\ ShapeOf(q)
  BY DEF IInv
<1>2. /\ \A i, j \in RowsAt(k) : i = j
      /\ Works(q, k) => WorkAt(k, q)
      /\ Done(q, k) => DoneAt(k, q)
      /\ Works(q, k) \/ Done(q, k)
  BY <1>1, MineAlone, HandParts
<1>3. CASE k = key
  <2>1. DeletionAt(k, q)
    BY <1>2, <1>3 DEF Works, WorkAt, DeletePC
  <2>2. req[q].old \in MediaFile /\ req[q].new = req[q].old /\ req[q].id \in RowIds
    BY <1>1, OldIsAFile DEF ShapeOf, DeletePC
  <2>3. req[q].id \in RowsAt(k)
    BY <1>3, <2>1, <2>2, NoRowIsNoFile DEF DeletionAt, RowsAt, Rows
  <2> QED
    BY <1>2, <1>3, <2>1, <2>3 DEF DeletionAt
<1>4. CASE k # key
  BY <1>2, <1>4 DEF Works, Done, DoneAt
<1> QED
  BY <1>3, <1>4

LEMMA DeleteNextKeeps ==
    ASSUME IInv, TypeOK', NEW q \in Requests, NEW i \in RowIds, DeleteNext(q, i)
    PROVE  IInv'
<1> USE DEF DeletePC
<1>1. TypeOK /\ ShapeOf(q) /\ RowsOf(q)
  BY DEF IInv
<1>2. /\ req[q].pc = "delete" /\ i \in Rows
      /\ media' = media /\ files' = files /\ thumbs' = thumbs
      /\ event' = event /\ doomed' = doomed
      /\ disturbed' = IF Busy(KeyOf(media[i]))
                      THEN disturbed \cup {KeyOf(media[i])} ELSE disturbed
  BY DEF DeleteNext, storage, purge
<1>3. req[q] \in Deletion /\ req[q].new \in MediaFile /\ media[i] \in MediaFile
  BY <1>1, <1>2, OldIsAFile DEF TypeOK, Row, Rows
<1>4. PICK key \in Keys, next \in Keys : key = KeyOf(req[q].new) /\ next = KeyOf(media[i])
  BY <1>3, FileParts
<1>5. /\ \A o \in Requests \ {q} : req'[o] = req[o]
      /\ req'[q].pc = "unlink" /\ req'[q].new = media[i] /\ req'[q].old = media[i]
      /\ req'[q].id = i
      /\ req'[q].held = req[q].held \cup {req[q].id}
      /\ req'[q].keys = req[q].keys \cup {key}
  <2> DEFINE r == [pc |-> "unlink", new |-> media[i], id |-> i, old |-> media[i],
                   todo |-> req[q].todo \ {i}, held |-> req[q].held \cup {req[q].id},
                   keys |-> req[q].keys \cup {KeyOf(req[q].new)}]
  <2>1. req' = [req EXCEPT ![q] = r]
    BY DEF DeleteNext
  <2>2. /\ r.pc = "unlink" /\ r.new = media[i] /\ r.old = media[i] /\ r.id = i
        /\ r.held = req[q].held \cup {req[q].id}
        /\ r.keys = req[q].keys \cup {key}
    BY <1>4
  <2> HIDE DEF r
  <2> QED
    BY <1>1, <2>1, <2>2, OneMoves
<1>6. Rows' = Rows /\ \A k : RowsAt(k)' = RowsAt(k)
  BY <1>2 DEF Rows, RowsAt
<1>7. RowsKeep
  BY <1>2, <1>6 DEF RowsKeep
<1>8. ShapeOf(q)'
  BY <1>5 DEF ShapeOf, UploadPC, ThumbPC
<1>9. RowsOf(q)'
  BY <1>1, <1>2, <1>4, <1>5, <1>6 DEF RowsOf, UploadPC, ThumbPC
<1>10. \A k : /\ Works(q, k)' <=> k = next
              /\ Done(q, k)' <=> k \in req[q].keys \cup {key}
              /\ Works(q, k) <=> k = key
              /\ Done(q, k) <=> k \in req[q].keys
  BY <1>2, <1>4, <1>5 DEF Works, Done
<1>11. \A k : /\ (k \in InHand(q))' <=> k \in req[q].keys \cup {key, next}
              /\ k \in InHand(q) <=> k \in req[q].keys \cup {key}
  BY <1>1, <1>10, HandParts, HandPartsNext
<1>12. \A k \in Keys : Same(k)
  BY <1>2, <1>6 DEF Same
<1>13. ASSUME next \notin disturbed'
       PROVE  KeyOK(next)'
  <2>1. next \notin disturbed /\ ~Busy(next)
    BY <1>2, <1>4, <1>13
  <2>2. KeyOK(next) /\ i \in RowsAt(next)
    BY <1>2, <1>4, <2>1 DEF IInv, RowsAt
  <2>3. event' = "live"
    BY <1>1, <1>2, <2>1, <2>2 DEF KeyOK, Busy, TypeOK
  <2>4. \A o \in Requests : next \notin InHand(o)
    BY <2>1 DEF Busy
  <2>5. Settled(next)'
    BY <1>1, <1>12, <2>1, <2>2, SameStored DEF KeyOK
  <2>6. WorkAt(next, q)'
    BY <1>2, <1>5, <2>5 DEF WorkAt, DeletionAt, UploadPC, ThumbPC
  <2>7. \A j, l \in RowsAt(next)' : j = l
    BY <1>6, <2>2 DEF KeyOK
  <2>8. ~Done(q, next)'
    BY <1>10, <1>11, <2>4
  <2> QED
    BY <1>5, <1>10, <2>3, <2>4, <2>6, <2>7, <2>8, KeyMine
<1>14. ASSUME NEW k \in Keys \ disturbed', k # next, k \in InHand(q)
       PROVE  KeyOK(k)'
  <2>1. k \notin disturbed
    BY <1>2
  <2>2. /\ event' = "live"
        /\ \A o \in Requests \ {q} : k \notin InHand(o)
        /\ \A j, l \in RowsAt(k)' : j = l
    BY <1>2, <1>6, <1>14, <2>1, MineAlone
  <2>3. /\ NothingAt(k)
        /\ RowsAt(k) \subseteq req[q].held \cup {req[q].id}
    BY <1>2, <1>4, <1>14, <2>1, ReadyToDelete
  <2>4. DoneAt(k, q)'
    BY <1>1, <1>5, <1>6, <1>12, <2>3, SameStored DEF DoneAt
  <2>5. ~Works(q, k)' /\ Done(q, k)'
    BY <1>10, <1>11, <1>14
  <2> QED
    BY <1>5, <2>2, <2>4, <2>5, KeyMine
<1>15. disturbed \subseteq disturbed'
  BY <1>2
<1>16. \A k \in Keys \ disturbed' :
          k \in InHand(q) \/ (k \in InHand(q))' => KeyOK(k)'
  BY <1>11, <1>13, <1>14
<1> QED
  BY <1>2, <1>5, <1>7, <1>8, <1>9, <1>12, <1>15, <1>16, RequestStep

LEMMA DeleteRowsKeeps ==
    ASSUME IInv, TypeOK', NEW q \in Requests, DeleteRows(q)
    PROVE  IInv'
<1>1. TypeOK /\ RowsOf(q)
  BY DEF IInv
<1>2. /\ req[q].pc = "delete" /\ Ends(q)
      /\ media' = [i \in RowIds |->
                      IF i \in req[q].held \cup {req[q].id} THEN NoRow ELSE media[i]]
      /\ files' = files /\ thumbs' = thumbs /\ event' = event /\ doomed' = doomed
      /\ disturbed' = disturbed
  BY DEF DeleteRows, storage, purge
<1>3. PICK key : key = KeyOf(req[q].new)
  OBVIOUS
<1>4. \A k : k \in InHand(q) <=> k = key \/ k \in req[q].keys
  BY <1>1, <1>2, <1>3, HandParts DEF Works, Done, DeletePC
<1>5. /\ Rows' = Rows \ (req[q].held \cup {req[q].id})
      /\ \A i \in Rows' : media'[i] = media[i]
  BY <1>2 DEF Rows
<1>6. RowsKeep
  BY <1>5 DEF RowsKeep
<1>7. \A k : RowsAt(k)' = RowsAt(k) \ (req[q].held \cup {req[q].id})
  BY <1>5 DEF RowsAt
<1>8. ASSUME NEW k \in Keys, k \notin InHand(q)
      PROVE  Same(k)
  <2>1. \A i \in RowsAt(k) : i \notin req[q].held \cup {req[q].id}
    BY <1>1, <1>2, <1>3, <1>4, <1>8 DEF RowsOf, RowsAt, DeletePC
  <2>2. RowsAt(k)' = RowsAt(k) /\ \A i \in RowsAt(k) : media'[i] = media[i]
    BY <1>5, <1>7, <2>1 DEF RowsAt
  <2> QED
    BY <1>2, <2>2 DEF Same
<1>9. ASSUME NEW k \in Keys \ disturbed', k \in InHand(q)
      PROVE  Settled(k)' /\ \A i, j \in RowsAt(k)' : i = j
  <2>1. NothingAt(k) /\ RowsAt(k) \subseteq req[q].held \cup {req[q].id}
    BY <1>2, <1>3, <1>9, ReadyToDelete
  <2>2. RowsAt(k)' = {}
    BY <1>7, <2>1
  <2>3. NothingAt(k)'
    BY <1>2, <2>1 DEF NothingAt, Originals, Thumbs
  <2> QED
    BY <2>2, <2>3 DEF Settled
<1> QED
  BY <1>2, <1>6, <1>8, <1>9, EndStep

-----------------------------------------------------------------------------
(* The steps of the regeneration of a thumbnail *)

LEMMA ThumbSelectKeeps ==
    ASSUME IInv, TypeOK', NEW q \in Requests, NEW i \in RowIds, ThumbSelect(q, i)
    PROVE  IInv'
<1>1. /\ i \in Rows
      /\ media' = media /\ storage' = storage /\ purge' = purge
  BY DEF ThumbSelect
<1>2. PICK row \in MediaFile : row = media[i]
  BY <1>1 DEF IInv, TypeOK, Row, Rows
<1>3. PICK r : r = [pc |-> "read", new |-> row, id |-> i, old |-> row]
  OBVIOUS
<1>4. r.pc = "read" /\ r.new = row /\ r.id = i /\ r.old = row
  BY <1>3
<1>5. r \in RequestType
  BY <1>3 DEF RequestType, Change, ThumbPC
<1>6. Starts(q, r)
  BY <1>2, <1>3 DEF ThumbSelect
<1>7. ASSUME req'[q] = r
      PROVE  ShapeOf(q)' /\ RowsOf(q)'
  BY <1>1, <1>2, <1>4, <1>7 DEF ShapeOf, RowsOf, UploadPC, DeletePC, ThumbPC
<1>8. ASSUME req'[q] = r, Settled(KeyOf(r.new))'
      PROVE  WorkAt(KeyOf(r.new), q)'
  BY <1>1, <1>2, <1>4, <1>8 DEF WorkAt, ChangeAt, UploadPC, DeletePC, ThumbPC
<1> QED
  BY <1>1, <1>4, <1>5, <1>6, <1>7, <1>8, StartStep

(* What a change knows at an undisturbed key. *)
LEMMA MyChange ==
    ASSUME IInv, NEW q \in Requests, req[q].pc \in ThumbPC,
           NEW key \in Keys \ disturbed, key = KeyOf(req[q].new)
    PROVE  /\ ChangeAt(key, q)
           /\ RowsAt(key) = {req[q].id}
<1>1. TypeOK /\ ShapeOf(q) /\ req[q].pc # "idle"
  BY DEF IInv, ThumbPC
<1>2. ChangeAt(key, q)
  BY <1>1, MyWork DEF WorkAt
<1>3. req[q].old \in MediaFile /\ req[q].id \in RowIds /\ KeyOf(req[q].old) = key
  BY <1>1, OldIsAFile DEF ShapeOf
<1>4. req[q].id \in RowsAt(key)
  BY <1>2, <1>3, NoRowIsNoFile DEF ChangeAt, RowsAt, Rows
<1>5. \A i, j \in RowsAt(key) : i = j
  BY DEF IInv, KeyOK
<1> QED
  BY <1>2, <1>4, <1>5

LEMMA ReadOriginalKeeps ==
    ASSUME IInv, TypeOK', NEW q \in Requests, ReadOriginal(q)
    PROVE  IInv'
<1>1. TypeOK /\ ShapeOf(q)
  BY DEF IInv
<1>2. /\ req[q].pc = "read"
      /\ req' = [req EXCEPT ![q] = [req[q] EXCEPT !.pc = "clear"]]
      /\ media' = media /\ files' = files /\ thumbs' = thumbs
      /\ event' = event /\ doomed' = doomed /\ disturbed' = disturbed
  BY DEF ReadOriginal, Goto, storage, purge
<1>3. PICK key \in Keys : key = KeyOf(req[q].new)
  BY <1>1, <1>2, OldIsAFile, FileParts DEF ThumbPC
<1>4. /\ \A o \in Requests \ {q} : req'[o] = req[o]
      /\ req'[q].pc = "clear" /\ req'[q].new = req[q].new
      /\ req'[q].id = req[q].id /\ req'[q].old = req[q].old
  BY <1>1, <1>2, OnlyMoves DEF ThumbPC
<1>5. Kept(q) /\ ShapeOf(q)'
  BY <1>1, <1>2, <1>4 DEF Kept, ShapeOf, UploadPC, DeletePC, ThumbPC
<1>6. ASSUME key \notin disturbed'
      PROVE  WorkAt(key, q)'
  <2>1. ChangeAt(key, q)
    BY <1>2, <1>3, <1>6, MyChange DEF ThumbPC
  <2>2. Same(key)
    BY <1>2 DEF Same, RowsAt, Rows
  <2>3. Settled(key)'
    BY <1>1, <1>2, <2>1, <2>2, SameStored DEF ChangeAt
  <2>4. ChangeAt(key, q)'
    BY <1>2, <1>4, <2>1, <2>3 DEF ChangeAt
  <2> QED
    BY <1>4, <2>4 DEF WorkAt, UploadPC, DeletePC, ThumbPC
<1> QED
  BY <1>2, <1>3, <1>4, <1>5, <1>6, WorkStep

LEMMA ReadFailsKeeps ==
    ASSUME IInv, TypeOK', NEW q \in Requests, ReadFails(q)
    PROVE  IInv'
<1>1. TypeOK /\ ShapeOf(q)
  BY DEF IInv
<1>2. /\ req[q].pc = "read" /\ Ends(q)
      /\ media' = media /\ files' = files /\ thumbs' = thumbs
      /\ event' = event /\ doomed' = doomed /\ disturbed' = disturbed
  BY DEF ReadFails, storage, purge
<1>3. PICK key \in Keys : key = KeyOf(req[q].new)
  BY <1>1, <1>2, OldIsAFile, FileParts DEF ThumbPC
<1>4. InHand(q) = {key}
  BY <1>1, <1>2, <1>3, HandOfOne DEF ThumbPC
<1>5. Rows' = Rows /\ \A k : RowsAt(k)' = RowsAt(k) /\ Same(k)
  BY <1>2 DEF Rows, RowsAt, Same
<1>6. RowsKeep
  BY <1>2, <1>5 DEF RowsKeep
<1>7. ASSUME key \notin disturbed'
      PROVE  Settled(key)' /\ \A i, j \in RowsAt(key)' : i = j
  <2>1. Settled(key) /\ RowsAt(key) = {req[q].id}
    BY <1>2, <1>3, <1>7, MyChange DEF ChangeAt, ThumbPC
  <2> QED
    BY <1>1, <1>5, <2>1, SameStored
<1> QED
  BY <1>2, <1>4, <1>5, <1>6, <1>7, EndStep

LEMMA ClearThumbKeeps ==
    ASSUME IInv, TypeOK', NEW q \in Requests, ClearThumb(q)
    PROVE  IInv'
<1>1. TypeOK /\ ShapeOf(q)
  BY DEF IInv
<1>2. /\ req[q].pc = "clear"
      /\ req' = [req EXCEPT ![q] = [req[q] EXCEPT !.pc = "rethumb"]]
      /\ media' = media /\ files' = files /\ event' = event /\ doomed' = doomed
      /\ disturbed' = disturbed
      /\ thumbs' = thumbs \ ThumbPaths(req[q].old)
  BY DEF ClearThumb, Goto, purge
<1>3. /\ req[q].old \in MediaFile /\ req[q].new \in MediaFile
      /\ KeyOf(req[q].new) = KeyOf(req[q].old)
  BY <1>1, <1>2, OldIsAFile DEF ShapeOf, ThumbPC
<1>4. PICK key \in Keys, t \in SUBSET Stamps : key = KeyOf(req[q].new) /\ t = req[q].old.thumb
  BY <1>3, FileParts
<1>5. /\ \A o \in Requests \ {q} : req'[o] = req[o]
      /\ req'[q].pc = "rethumb" /\ req'[q].new = req[q].new
      /\ req'[q].id = req[q].id /\ req'[q].old = req[q].old
  BY <1>1, <1>2, OnlyMoves DEF ThumbPC
<1>6. Kept(q) /\ ShapeOf(q)'
  BY <1>1, <1>2, <1>5 DEF Kept, ShapeOf, UploadPC, DeletePC, ThumbPC
<1>7. /\ \A k \in Keys \ {key}, s \in Stamps : <<k, s>> \in thumbs' <=> <<k, s>> \in thumbs
      /\ Thumbs(key)' = Thumbs(key) \ t
  <2>1. \A k \in Keys, s \in Stamps :
           <<k, s>> \in thumbs' <=> <<k, s>> \in thumbs /\ ~(k = key /\ s \in t)
    BY <1>2, <1>3, <1>4, FileParts
  <2> QED
    BY <2>1 DEF Thumbs
<1>8. ASSUME key \notin disturbed'
      PROVE  WorkAt(key, q)'
  <2>1. ChangeAt(key, q) /\ RowsAt(key) = {req[q].id}
    BY <1>2, <1>4, <1>8, MyChange DEF ThumbPC
  <2>2. StoredAt(key, req[q].old, {req[q].old.stamp}, t)
    BY <1>2, <1>4, <2>1 DEF ChangeAt, Settled
  <2>3. Originals(key)' = Originals(key) /\ Thumbs(key)' = {}
    BY <1>2, <1>7, <2>2 DEF StoredAt, Originals
  <2>4. ChangeAt(key, q)'
    BY <1>2, <1>5, <2>1, <2>2, <2>3 DEF ChangeAt, StoredAt
  <2> QED
    BY <1>5, <2>4 DEF WorkAt, UploadPC, DeletePC, ThumbPC
<1> QED
  BY <1>2, <1>4, <1>5, <1>6, <1>7, <1>8, WorkStep

LEMMA StoreNewThumbKeeps ==
    ASSUME IInv, TypeOK', NEW q \in Requests, StoreNewThumb(q)
    PROVE  IInv'
<1>1. TypeOK /\ ShapeOf(q)
  BY DEF IInv
<1>2. /\ req[q].pc = "rethumb"
      /\ media' = media /\ files' = files /\ event' = event /\ doomed' = doomed
      /\ disturbed' = disturbed
  BY DEF StoreNewThumb, purge
<1>3. req[q] \in Change /\ req[q].new \in MediaFile
  BY <1>1, <1>2, OldIsAFile DEF ThumbPC
<1>4. PICK key \in Keys : key = KeyOf(req[q].new)
  BY <1>3, FileParts
<1>5. PICK t \in {{}} \cup {{s} : s \in Stamps} :
        /\ req' = [req EXCEPT ![q].pc = "save", ![q].new.thumb = t]
        /\ thumbs' = thumbs \cup {<<KeyOf(req[q].new), s>> : s \in t}
  BY DEF StoreNewThumb
<1>6. /\ \A o \in Requests \ {q} : req'[o] = req[o]
      /\ req'[q].pc = "save" /\ req'[q].id = req[q].id /\ req'[q].old = req[q].old
      /\ req'[q].new = [req[q].new EXCEPT !.thumb = t]
  BY <1>1, <1>3, <1>5 DEF TypeOK, Change
<1>7. /\ KeyOf(req'[q].new) = key
      /\ req'[q].new.stamp = req[q].new.stamp
      /\ req'[q].new.checksum = req[q].new.checksum
      /\ req'[q].new.thumb = t
  BY <1>3, <1>4, <1>6 DEF KeyOf, MediaFile
<1>8. Kept(q) /\ ShapeOf(q)'
  BY <1>1, <1>2, <1>4, <1>6, <1>7 DEF Kept, ShapeOf, UploadPC, DeletePC, ThumbPC
<1>9. /\ \A k \in Keys \ {key}, s \in Stamps : <<k, s>> \in thumbs' <=> <<k, s>> \in thumbs
      /\ Thumbs(key)' = Thumbs(key) \cup t
  <2>1. \A k \in Keys, s \in Stamps :
           <<k, s>> \in thumbs' <=> (k = key /\ s \in t) \/ <<k, s>> \in thumbs
    BY <1>4, <1>5
  <2> QED
    BY <2>1 DEF Thumbs
<1>10. ASSUME key \notin disturbed'
       PROVE  WorkAt(key, q)'
  <2>1. ChangeAt(key, q)
    BY <1>2, <1>4, <1>10, MyChange DEF ThumbPC
  <2>2. StoredAt(key, req[q].old, {req[q].old.stamp}, {})
    BY <1>2, <2>1 DEF ChangeAt
  <2>3. Originals(key)' = Originals(key) /\ Thumbs(key)' = t
    BY <1>2, <1>9, <2>2 DEF StoredAt, Originals
  <2>4. ChangeAt(key, q)'
    BY <1>2, <1>6, <1>7, <2>1, <2>2, <2>3 DEF ChangeAt, StoredAt
  <2> QED
    BY <1>6, <2>4 DEF WorkAt, UploadPC, DeletePC, ThumbPC
<1> QED
  BY <1>2, <1>4, <1>6, <1>7, <1>8, <1>9, <1>10, WorkStep

LEMMA SaveThumbKeeps ==
    ASSUME IInv, TypeOK', NEW q \in Requests, SaveThumb(q)
    PROVE  IInv'
<1>1. TypeOK /\ ShapeOf(q) /\ RowsOf(q)
  BY DEF IInv
<1>2. /\ req[q].pc = "save" /\ Ends(q)
      /\ media[req[q].id] # NoRow
      /\ media' = [media EXCEPT
                      ![req[q].id] = Written(media[req[q].id], req[q].old, req[q].new)]
      /\ files' = files /\ thumbs' = thumbs /\ event' = event /\ doomed' = doomed
      /\ disturbed' = disturbed
  BY DEF SaveThumb, storage, purge
<1>3. req[q].new \in MediaFile /\ req[q].id \in RowIds
  BY <1>1, <1>2, OldIsAFile DEF ThumbPC
<1>4. PICK key \in Keys, i \in RowIds : key = KeyOf(req[q].new) /\ i = req[q].id
  BY <1>3, FileParts
<1>5. InHand(q) = {key}
  BY <1>1, <1>2, <1>4, HandOfOne DEF ThumbPC
<1>6. i \in Rows /\ KeyOf(media[i]) = key
  BY <1>1, <1>2, <1>4 DEF Rows, RowsOf, ThumbPC
<1>7. /\ \A j \in RowIds \ {i} : media'[j] = media[j]
      /\ \A k : RowsAt(k)' = RowsAt(k)
      /\ RowsKeep
      /\ media[i] = req[q].old => /\ media'[i].stamp = req[q].new.stamp
                                  /\ media'[i].thumb = req[q].new.thumb
                                  /\ media'[i].checksum = req[q].new.checksum
  BY <1>1, <1>2, <1>3, <1>4, <1>6, RowUpdated
<1>8. \A k \in Keys \ {key} : Same(k)
  <2> SUFFICES ASSUME NEW k \in Keys \ {key}
               PROVE  Same(k)
    OBVIOUS
  <2>1. \A j \in RowsAt(k) : media'[j] = media[j]
    BY <1>6, <1>7 DEF RowsAt, Rows
  <2> QED
    BY <1>2, <1>7, <2>1 DEF Same
<1>9. ASSUME key \notin disturbed'
      PROVE  Settled(key)' /\ \A j, l \in RowsAt(key)' : j = l
  <2>1. ChangeAt(key, q) /\ RowsAt(key) = {i}
    BY <1>2, <1>4, <1>9, MyChange DEF ThumbPC
  <2>2. /\ media[i] = req[q].old
        /\ StoredAt(key, req[q].old, {req[q].old.stamp}, req[q].new.thumb)
    BY <1>2, <1>4, <2>1 DEF ChangeAt
  <2>3. Originals(key)' = Originals(key) /\ Thumbs(key)' = Thumbs(key)
    BY <1>2 DEF Originals, Thumbs
  <2>4. req[q].new.stamp = req[q].old.stamp /\ req[q].new.checksum = req[q].old.checksum
    BY <1>1, <1>2 DEF ShapeOf, ThumbPC
  <2> QED
    BY <1>2, <1>7, <2>1, <2>2, <2>3, <2>4 DEF Settled, StoredAt
<1> QED
  BY <1>2, <1>5, <1>7, <1>8, <1>9, EndStep

-----------------------------------------------------------------------------
(* Failures, the deletion of the event, a restart *)

LEMMA RemovalFailsKeeps ==
    ASSUME IInv, TypeOK', NEW q \in Requests, RemovalFails(q)
    PROVE  IInv'
<1>1. TypeOK /\ ShapeOf(q)
  BY DEF IInv
<1>2. /\ req[q].pc \in {"drop", "dropthumb", "unlink", "unlinkthumb", "clear"}
      /\ req' = [req EXCEPT ![q] = [req[q] EXCEPT !.pc = AfterRemoval[req[q].pc]]]
      /\ media' = media /\ files' = files /\ thumbs' = thumbs
      /\ event' = event /\ doomed' = doomed
      /\ disturbed' = disturbed \cup {KeyOf(req[q].new)}
  BY DEF RemovalFails, AfterRemoval, storage, purge
<1>3. req[q].pc # "idle" /\ req[q].new \in MediaFile
  BY <1>1, <1>2, OldIsAFile
<1>4. PICK key \in Keys : key = KeyOf(req[q].new)
  BY <1>3, FileParts
<1>5. PICK to : to = AfterRemoval[req[q].pc]
  OBVIOUS
<1>6. /\ req[q].pc \in {"drop", "dropthumb"} => to \in {"dropthumb", "commit"}
      /\ req[q].pc \in {"unlink", "unlinkthumb"} => to \in {"unlinkthumb", "delete"}
      /\ req[q].pc = "clear" => to = "rethumb"
  BY <1>2, <1>5 DEF AfterRemoval
<1>7. req' = [req EXCEPT ![q] = [req[q] EXCEPT !.pc = to]]
  BY <1>2, <1>5
<1>8. /\ \A o \in Requests \ {q} : req'[o] = req[o]
      /\ req'[q].pc = to /\ req'[q].new = req[q].new /\ req'[q].old = req[q].old
      /\ req[q].pc \in UploadPC => req'[q].ids = req[q].ids
      /\ req[q].pc \in DeletePC => /\ req'[q].id = req[q].id
                                   /\ req'[q].held = req[q].held
                                   /\ req'[q].keys = req[q].keys
      /\ req[q].pc \in ThumbPC => req'[q].id = req[q].id
  BY <1>1, <1>3, <1>7, OnlyMoves
<1>9. Kept(q)
  BY <1>2, <1>6, <1>8 DEF Kept, UploadPC, DeletePC, ThumbPC
<1>10. ShapeOf(q)'
  BY <1>1, <1>2, <1>6, <1>8 DEF ShapeOf, UploadPC, DeletePC, ThumbPC
<1>11. key \in disturbed' /\ disturbed \subseteq disturbed'
  BY <1>2, <1>4
<1> QED
  BY <1>2, <1>4, <1>8, <1>9, <1>10, <1>11, WorkStep

LEMMA BreaksOffKeeps ==
    ASSUME IInv, TypeOK', NEW q \in Requests, BreaksOff(q)
    PROVE  IInv'
<1>1. /\ Ends(q) /\ disturbed' = disturbed \cup InHand(q)
      /\ media' = media /\ files' = files /\ thumbs' = thumbs
      /\ event' = event /\ doomed' = doomed
  BY DEF BreaksOff, storage, purge
<1>2. Rows' = Rows /\ \A k : RowsAt(k)' = RowsAt(k) /\ Same(k)
  BY <1>1 DEF Rows, RowsAt, Same
<1>3. RowsKeep
  BY <1>1, <1>2 DEF RowsKeep
<1> QED
  BY <1>1, <1>2, <1>3, EndStep

(* A key that no request has in hand afterwards. *)
LEMMA KeyAtRest ==
    ASSUME TypeOK', NEW k \in Keys, \A q \in Requests : (k \notin InHand(q))',
           \A i, j \in RowsAt(k)' : i = j,
           event' = "gone" => RowsAt(k)' = {},
           event' = "deleting" => Purged(k)',
           event' # "deleting" => Settled(k)'
    PROVE  KeyOK(k)'
<1>1. \A q \in Requests : ~Works(q, k)' /\ ~Done(q, k)'
  BY HandPartsNext
<1> QED
  BY <1>1 DEF KeyOK, Alone, Busy

LEMMA NoWorkWhileDeleted ==
    ASSUME IInv, event # "live", NEW k \in Keys \ disturbed
    PROVE  \A q \in Requests : k \notin InHand(q)
<1> QED
  BY DEF IInv, KeyOK, Alone

LEMMA PurgeSelectKeeps ==
    ASSUME IInv, TypeOK', PurgeSelect
    PROVE  IInv'
<1>1. TypeOK
  BY DEF IInv
<1>2. /\ event = "live" /\ event' = "deleting"
      /\ doomed' = {media[i] : i \in Rows}
      /\ disturbed' = disturbed \cup UNION {InHand(q) : q \in Requests}
      /\ media' = media /\ files' = files /\ thumbs' = thumbs /\ req' = req
  BY DEF PurgeSelect, storage
<1>3. Rows' = Rows /\ \A k : RowsAt(k)' = RowsAt(k) /\ Same(k)
  BY <1>2 DEF Rows, RowsAt, Same
<1>4. \A q \in Requests : ShapeOf(q)' /\ RowsOf(q)'
  BY <1>2, <1>3 DEF IInv, ShapeOf, RowsOf
<1>5. ASSUME NEW k \in Keys \ disturbed'
      PROVE  KeyOK(k)'
  <2>1. \A q \in Requests : k \notin InHand(q)
    BY <1>2, <1>5
  <2>2. \A q \in Requests : (k \notin InHand(q))'
    BY <1>2, <2>1 DEF InHand
  <2>3. KeyOK(k) /\ ~Busy(k)
    BY <1>2, <1>5, <2>1 DEF IInv, Busy
  <2>4. Settled(k)'
    BY <1>1, <1>3, <1>5, <2>3, SameStored DEF KeyOK
  <2>5. Purged(k)'
    <3>1. \A i \in RowsAt(k)' : media'[i] \in doomed'
      BY <1>2, <1>3 DEF RowsAt
    <3>2. \A r \in doomed' : KeyOf(r) = k => \E i \in RowsAt(k)' : media'[i] = r
      BY <1>2, <1>3 DEF RowsAt
    <3> QED
      BY <2>4, <3>1, <3>2 DEF Purged, Settled
  <2>6. \A i, j \in RowsAt(k)' : i = j
    BY <1>3, <2>3 DEF KeyOK
  <2> QED
    BY <1>2, <1>5, <2>2, <2>5, <2>6, KeyAtRest
<1> QED
  BY <1>4, <1>5 DEF IInv

LEMMA PurgeFilesKeeps ==
    ASSUME IInv, TypeOK', NEW r \in doomed, PurgeFiles(r) \/ PurgeFilesFails(r)
    PROVE  IInv'
<1>1. TypeOK /\ r \in MediaFile
  BY DEF IInv, TypeOK
<1>2. /\ event = "deleting" /\ event' = "deleting"
      /\ doomed' = doomed \ {r}
      /\ media' = media /\ req' = req
      /\ disturbed \subseteq disturbed'
  BY DEF PurgeFiles, PurgeFilesFails, storage
<1>3. Rows' = Rows /\ \A k : RowsAt(k)' = RowsAt(k)
  BY <1>2 DEF Rows, RowsAt
<1>4. \A q \in Requests : ShapeOf(q)' /\ RowsOf(q)'
  BY <1>2, <1>3 DEF IInv, ShapeOf, RowsOf
<1>5. PICK key \in Keys, stamp \in Stamps, t \in SUBSET Stamps :
         /\ key = KeyOf(r) /\ stamp = r.stamp /\ t = r.thumb
         /\ PathOf(r) = <<key, stamp>>
         /\ \A k, s : <<k, s>> \in ThumbPaths(r) <=> k = key /\ s \in t
  BY <1>1, FileParts
<1>6. ASSUME NEW k \in Keys \ disturbed'
      PROVE  KeyOK(k)'
  <2>1. KeyOK(k) /\ Purged(k) /\ \A q \in Requests : k \notin InHand(q)
    BY <1>2, <1>6, NoWorkWhileDeleted DEF IInv, KeyOK
  <2>2. \A q \in Requests : (k \notin InHand(q))'
    BY <1>2, <2>1 DEF InHand
  <2>3. \A i, j \in RowsAt(k)' : i = j
    BY <1>3, <2>1 DEF KeyOK
  <2>4. CASE k # key
    <3>1. \A s \in Stamps : /\ files'[<<k, s>>] = files[<<k, s>>]
                            /\ <<k, s>> \in thumbs' <=> <<k, s>> \in thumbs
      BY <1>1, <1>5, <2>4 DEF PurgeFiles, PurgeFilesFails, storage, TypeOK, Paths
    <3>2. Same(k)
      BY <1>2, <1>3, <3>1 DEF Same
    <3>3. /\ Originals(k)' = Originals(k) /\ Thumbs(k)' = Thumbs(k)
          /\ NothingAt(k)' <=> NothingAt(k)
      BY <1>1, <3>2, SameStored
    <3>4. \A i \in RowsAt(k) : /\ media[i] # r
                               /\ media[i].stamp \in Stamps
      BY <1>1, <1>5, <2>4, FileParts DEF RowsAt, Rows, TypeOK, Row
    <3>5. Purged(k)'
      BY <1>2, <1>3, <1>5, <2>1, <2>4, <3>1, <3>3, <3>4 DEF Purged, StoredAt
    <3> QED
      BY <1>2, <2>2, <2>3, <3>5, KeyAtRest
  <2>5. CASE k = key
    <3>1. PurgeFiles(r)
      BY <1>5, <1>6, <2>5 DEF PurgeFilesFails
    <3>2. PICK i \in RowsAt(k) : media[i] = r
      BY <1>5, <2>1, <2>5 DEF Purged
    <3>3. RowsAt(k)' = {i}
      BY <1>3, <2>3, <3>2
    <3>4. StoredAt(k, r, {stamp}, t)
      BY <1>5, <2>1, <3>2 DEF Purged
    <3>5. Originals(k)' = {}
      <4>1. \A p \in Paths : files'[p] = IF p = <<key, stamp>> THEN "none" ELSE files[p]
        BY <1>1, <1>5, <3>1 DEF PurgeFiles, TypeOK
      <4>2. Originals(key)' = Originals(key) \ {stamp}
        BY <1>1, <4>1, FileRemoved
      <4> QED
        BY <2>5, <3>4, <4>2 DEF StoredAt
    <3>6. Thumbs(k)' = {}
      BY <1>5, <2>5, <3>1, <3>4 DEF StoredAt, Thumbs, PurgeFiles
    <3>7. \A x \in doomed' : KeyOf(x) # k
      BY <1>2, <2>1, <3>2 DEF Purged, KeyOK
    <3>8. Purged(k)'
      BY <1>2, <3>2, <3>3, <3>5, <3>6, <3>7 DEF Purged, NothingAt
    <3> QED
      BY <1>2, <2>2, <2>3, <3>8, KeyAtRest
  <2> QED
    BY <2>4, <2>5
<1> QED
  BY <1>4, <1>6 DEF IInv

LEMMA PurgeRowsKeeps ==
    ASSUME IInv, TypeOK', PurgeRows
    PROVE  IInv'
<1>1. /\ event = "deleting" /\ doomed = {} /\ event' = "gone"
      /\ media' = [i \in RowIds |-> NoRow]
      /\ files' = files /\ thumbs' = thumbs /\ req' = req /\ disturbed' = disturbed
  BY DEF PurgeRows, storage
<1>2. Rows' = {} /\ \A k : RowsAt(k)' = {}
  BY <1>1 DEF Rows, RowsAt
<1>3. \A q \in Requests : ShapeOf(q)' /\ RowsOf(q)'
  BY <1>1, <1>2 DEF IInv, ShapeOf, RowsOf
<1>4. ASSUME NEW k \in Keys \ disturbed'
      PROVE  KeyOK(k)'
  <2>1. Purged(k) /\ \A q \in Requests : k \notin InHand(q)
    BY <1>1, <1>4, NoWorkWhileDeleted DEF IInv, KeyOK
  <2>2. \A q \in Requests : (k \notin InHand(q))'
    BY <1>1, <2>1 DEF InHand
  <2>3. NothingAt(k)'
    BY <1>1, <2>1 DEF Purged, NothingAt, Originals, Thumbs
  <2>4. Settled(k)'
    BY <1>2, <2>3 DEF Settled
  <2> QED
    BY <1>1, <1>2, <2>2, <2>4, KeyAtRest
<1> QED
  BY <1>3, <1>4 DEF IInv

LEMMA PurgeFailsKeeps ==
    ASSUME IInv, TypeOK', PurgeFails
    PROVE  IInv'
<1>1. disturbed' = Keys /\ media' = media /\ req' = req
  BY DEF PurgeFails, storage
<1>2. \A q \in Requests : ShapeOf(q)' /\ RowsOf(q)'
  BY <1>1 DEF IInv, ShapeOf, RowsOf, Rows
<1> QED
  BY <1>1, <1>2 DEF IInv

LEMMA RestartKeeps ==
    ASSUME IInv, TypeOK', Restart
    PROVE  IInv'
<1>1. TypeOK
  BY DEF IInv
<1>2. /\ \A q \in Requests : req'[q] = Idle
      /\ media' = media /\ files' = files /\ thumbs' = thumbs
      /\ event = "deleting" => disturbed' = Keys
      /\ event # "deleting" =>
            /\ event' = event
            /\ disturbed \subseteq disturbed'
            /\ \A q \in Requests : Underway(q) => InHand(q) \subseteq disturbed'
  BY DEF Restart, storage
<1>3. \A q \in Requests : ShapeOf(q)' /\ RowsOf(q)'
  BY <1>2, IdleIsARequest DEF ShapeOf, RowsOf, UploadPC, DeletePC, ThumbPC
<1>4. Rows' = Rows /\ \A k : RowsAt(k)' = RowsAt(k) /\ Same(k)
  BY <1>2 DEF Rows, RowsAt, Same
<1>5. ASSUME NEW k \in Keys \ disturbed'
      PROVE  KeyOK(k)'
  <2>1. event # "deleting" /\ event' = event /\ k \notin disturbed
    BY <1>2, <1>5
  <2>2. KeyOK(k)
    BY <1>5, <2>1 DEF IInv
  <2>3. Settled(k)
    <3>1. CASE \A q \in Requests : k \notin InHand(q)
      BY <2>1, <2>2, <3>1 DEF KeyOK, Busy
    <3>2. ASSUME NEW q \in Requests, k \in InHand(q)
          PROVE  Settled(k)
      <4>1. ~Underway(q)
        BY <1>2, <1>5, <2>1, <3>2
      <4>2. req[q].pc \in {"idle", "store", "unlink", "read"} /\ ~Done(q, k)
        BY <4>1 DEF Underway, Done, DeletePC
      <4>3. Works(q, k)
        BY <1>1, <3>2, <4>2, HandParts
      <4>4. WorkAt(k, q)
        BY <2>2, <4>3 DEF KeyOK
      <4> QED
        BY <4>2, <4>3, <4>4 DEF WorkAt, UploadAt, DeletionAt, ChangeAt, Works,
           UploadPC, DeletePC, ThumbPC
    <3> QED
      BY <3>1, <3>2
  <2>4. Settled(k)'
    BY <1>1, <1>4, <1>5, <2>3, SameStored
  <2>5. \A q \in Requests : (k \notin InHand(q))'
    BY <1>2 DEF InHand
  <2>6. /\ \A i, j \in RowsAt(k)' : i = j
        /\ event' = "gone" => RowsAt(k)' = {}
    BY <1>4, <2>1, <2>2 DEF KeyOK
  <2> QED
    BY <1>5, <2>1, <2>4, <2>5, <2>6, KeyAtRest
<1> QED
  BY <1>3, <1>5 DEF IInv

-----------------------------------------------------------------------------
LEMMA UploadKeeps ==
    ASSUME IInv, TypeOK', NEW q \in Requests, UploadStep(q)
    PROVE  IInv'
<1> QED
  BY UploadSelectKeeps, StoreKeeps, StoreFailsKeeps, StoreThumbKeeps, DropFileKeeps,
     DropThumbKeeps, InsertKeeps, UpdateKeeps DEF UploadStep

LEMMA DeletionKeeps ==
    ASSUME IInv, TypeOK', NEW q \in Requests, DeleteStep(q)
    PROVE  IInv'
<1> QED
  BY DeleteSelectKeeps, DeleteNextKeeps, UnlinkKeeps, UnlinkThumbKeeps, DeleteRowsKeeps
     DEF DeleteStep

LEMMA ChangeKeeps ==
    ASSUME IInv, TypeOK', NEW q \in Requests, ThumbStep(q)
    PROVE  IInv'
<1> QED
  BY ThumbSelectKeeps, ReadOriginalKeeps, ReadFailsKeeps, ClearThumbKeeps,
     StoreNewThumbKeeps, SaveThumbKeeps DEF ThumbStep

LEMMA PurgeKeeps ==
    ASSUME IInv, TypeOK', PurgeStep
    PROVE  IInv'
<1> QED
  BY PurgeSelectKeeps, PurgeFilesKeeps, PurgeRowsKeeps, PurgeFailsKeeps DEF PurgeStep

LEMMA StutterKeeps ==
    ASSUME IInv, UNCHANGED vars
    PROVE  IInv'
<1>1. /\ media' = media /\ files' = files /\ thumbs' = thumbs /\ req' = req
      /\ event' = event /\ doomed' = doomed /\ disturbed' = disturbed
  BY DEF vars
<1>2. TypeOK'
  BY <1>1 DEF IInv, TypeOK
<1>3. \A q \in Requests : ShapeOf(q)' /\ RowsOf(q)'
  BY <1>1 DEF IInv, ShapeOf, RowsOf, Rows
<1>4. ASSUME NEW k \in Keys \ disturbed'
      PROVE  KeyOK(k)'
  <2>1. TypeOK /\ KeyOK(k) /\ \A q \in Requests : ShapeOf(q)
    BY <1>1, <1>4 DEF IInv
  <2>2. RowsAt(k)' = RowsAt(k) /\ Same(k)
    BY <1>1 DEF RowsAt, Rows, Same
  <2>3. /\ Originals(k)' = Originals(k) /\ Thumbs(k)' = Thumbs(k)
        /\ NothingAt(k)' <=> NothingAt(k)
        /\ Settled(k)' <=> Settled(k)
    BY <1>4, <2>1, <2>2, SameStored
  <2>4. /\ \A q \in Requests : /\ Works(q, k)' <=> Works(q, k)
                               /\ Done(q, k)' <=> Done(q, k)
                               /\ (k \in InHand(q))' <=> k \in InHand(q)
        /\ Alone(k)' <=> Alone(k)
        /\ Busy(k)' <=> Busy(k)
    BY <1>1 DEF Works, Done, InHand, Alone, Busy
  <2>5. Purged(k)' <=> Purged(k)
    BY <1>1, <2>2, <2>3 DEF Purged, StoredAt
  <2>6. \A q \in Requests : Works(q, k) => WorkAt(k, q)'
    BY <1>1, <1>4, <2>1, <2>2, WorkStays DEF KeyOK
  <2>7. \A q \in Requests : Done(q, k) => DoneAt(k, q)'
    BY <1>1, <2>1, <2>2, <2>3 DEF KeyOK, DoneAt
  <2> QED
    BY <1>1, <2>1, <2>2, <2>3, <2>4, <2>5, <2>6, <2>7 DEF KeyOK
<1> QED
  BY <1>2, <1>3, <1>4 DEF IInv

(***************************************************************************)
(* The invariant behind all that follows: whatever overlaps elsewhere, at  *)
(* a key that is not disturbed one request is at work at most, and table   *)
(* and storage are as its progress says.                                   *)
(***************************************************************************)
THEOREM Invariant == Spec => []IInv
<1>1. Init => IInv
  BY Initially
<1>2. IInv /\ [Next]_vars => IInv'
  <2> SUFFICES ASSUME IInv, [Next]_vars
               PROVE  IInv'
    OBVIOUS
  <2>1. TypeOK'
    BY TypesStay DEF IInv
  <2>2. CASE UNCHANGED vars
    BY <2>2, StutterKeeps
  <2>3. CASE PurgeStep \/ Restart
    BY <2>1, <2>3, PurgeKeeps, RestartKeeps
  <2>4. ASSUME NEW q \in Requests,
               UploadStep(q) \/ DeleteStep(q) \/ ThumbStep(q)
               \/ RemovalFails(q) \/ BreaksOff(q)
        PROVE  IInv'
    BY <2>1, <2>4, UploadKeeps, DeletionKeeps, ChangeKeeps, RemovalFailsKeeps,
       BreaksOffKeeps
  <2> QED
    BY <2>2, <2>3, <2>4 DEF Next
<1> QED
  BY <1>1, <1>2, PTL DEF Spec

(***************************************************************************)
(* The table, the storage and the requests have the values they should:    *)
(* an upload, a deletion and a new thumbnail never mix their records.      *)
(***************************************************************************)
THEOREM TypeCorrect == Spec => []TypeOK
<1>1. IInv => TypeOK
  BY DEF IInv
<1> QED
  BY <1>1, Invariant, PTL

(***************************************************************************)
(* An upload inserts a row only where there is none, unless its key was    *)
(* disturbed between its SELECT and its commit.  media_service.py:200-208. *)
(***************************************************************************)
THEOREM RowsAreUnique == Spec => []OneRowPerName
<1>1. IInv => OneRowPerName
  <2> SUFFICES ASSUME IInv, NEW i \in Rows, NEW j \in Rows, i # j,
                      KeyOf(media[i]) = KeyOf(media[j]),
                      KeyOf(media[i]) \notin disturbed
               PROVE  FALSE
    BY DEF OneRowPerName
  <2>1. KeyOf(media[i]) \in Keys
    BY FileParts DEF IInv, TypeOK, Row, Rows
  <2> QED
    BY <2>1 DEF IInv, KeyOK, RowsAt
<1> QED
  BY <1>1, Invariant, PTL

LEMMA QuietIsSettled ==
    ASSUME IInv, NEW k \in Keys, Quiet(k)
    PROVE  Settled(k)
<1> QED
  BY DEF IInv, KeyOK, Quiet

(***************************************************************************)
(* The original and the thumbnail of every row are stored, with the        *)
(* content of the checksum, while nothing is at work on the file and       *)
(* nothing has disturbed it.  media_service.py:182-289, 301-340.           *)
(***************************************************************************)
THEOREM RowsAreStored == Spec => []RowsHaveFiles
<1>1. IInv => RowsHaveFiles
  <2> SUFFICES ASSUME IInv, NEW i \in Rows, Quiet(KeyOf(media[i]))
               PROVE  /\ files[PathOf(media[i])] = media[i].checksum
                      /\ ThumbPaths(media[i]) \subseteq thumbs
    BY DEF RowsHaveFiles
  <2>1. media[i] \in MediaFile
    BY DEF IInv, TypeOK, Row, Rows
  <2>2. PICK key \in Keys : key = KeyOf(media[i])
    BY <2>1, FileParts
  <2>3. StoredAt(key, media[i], {media[i].stamp}, media[i].thumb)
    BY <2>2, QuietIsSettled DEF Settled, RowsAt
  <2>4. files[PathOf(media[i])] = media[i].checksum
    BY <2>1, <2>2, <2>3, FileParts DEF StoredAt
  <2>5. ThumbPaths(media[i]) \subseteq thumbs
    BY <2>2, <2>3 DEF StoredAt, Thumbs, ThumbPaths
  <2> QED
    BY <2>4, <2>5
<1> QED
  BY <1>1, Invariant, PTL

(***************************************************************************)
(* And nothing else is stored: an overwritten file, a deleted one and the  *)
(* files of a deleted event are gone.                                      *)
(* media_service.py:222-235, 278-287, 318-336, event_service.py:97-108.    *)
(***************************************************************************)
THEOREM NothingIsLeft == Spec => []NothingLeftOver
<1>1. IInv => NothingLeftOver
  <2> SUFFICES ASSUME IInv, NEW p \in Paths, Quiet(p[1])
               PROVE  /\ files[p] # "none" => \E i \in Rows : PathOf(media[i]) = p
                      /\ p \in thumbs => \E i \in Rows : p \in ThumbPaths(media[i])
    BY DEF NothingLeftOver
  <2>1. PICK k \in Keys, s \in Stamps : p = <<k, s>>
    BY DEF Paths
  <2>2. Settled(k)
    BY <2>1, QuietIsSettled
  <2>3. ASSUME files[p] # "none"
        PROVE  \E i \in Rows : PathOf(media[i]) = p
    <3>1. s \in Originals(k)
      BY <2>1, <2>3 DEF Originals
    <3>2. PICK i \in RowsAt(k) : Originals(k) \subseteq {media[i].stamp}
      BY <2>2, <3>1 DEF Settled, NothingAt, StoredAt
    <3> QED
      BY <2>1, <3>1, <3>2 DEF RowsAt, PathOf
  <2>4. ASSUME p \in thumbs
        PROVE  \E i \in Rows : p \in ThumbPaths(media[i])
    <3>1. s \in Thumbs(k)
      BY <2>1, <2>4 DEF Thumbs
    <3>2. PICK i \in RowsAt(k) : Thumbs(k) = media[i].thumb
      BY <2>2, <3>1 DEF Settled, NothingAt, StoredAt
    <3> QED
      BY <2>1, <3>1, <3>2 DEF RowsAt, ThumbPaths
  <2> QED
    BY <2>3, <2>4
<1> QED
  BY <1>1, Invariant, PTL
=============================================================================
