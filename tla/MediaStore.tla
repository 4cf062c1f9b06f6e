----------------------------- MODULE MediaStore -----------------------------
(***************************************************************************)
(* The media of one event: the table media_files, and the originals and    *)
(* thumbnails in the storage backend (local disk or S3).  No transaction   *)
(* spans the two, and no lock orders the requests that change them:        *)
(*                                                                         *)
(*   - an upload, which overwrites the earlier upload of the same guest    *)
(*     and file name;                                                      *)
(*   - the deletion of one or more files by the event's owner;             *)
(*   - the regeneration of one thumbnail;                                  *)
(*   - the deletion of the whole event.                                    *)
(*                                                                         *)
(* Every await of a request on the storage or the database is a step.      *)
(* A definition named Bad... is a plausible defect of the one after it.    *)
(***************************************************************************)
EXTENDS Naturals

CONSTANTS
    Guests,     \* uploader_email, as the guest typed it
    Dirs,       \* email_hash: directories within the event
    DirOf,      \* the directory of a guest
    Names,      \* original_filename
    Stamps,     \* the second in a stored name: EXIF date, or now
    Contents,   \* what a file may contain
    RowIds,
    Requests    \* concurrent requests

ASSUME MediaAssumption == DirOf \in [Guests -> Dirs]

Keys == Dirs \X Names
Paths == Keys \X Stamps

VARIABLES
    media,      \* table media_files
    files,      \* originals in the storage
    thumbs,     \* paths of the thumbnails in the storage
    req,        \* the requests in flight
    event,      \* "live", "deleting" or "gone"
    doomed,     \* rows whose files the deletion of the event has yet to remove
    disturbed   \* history: keys where requests overlapped, or broke off late

vars == <<media, files, thumbs, req, event, doomed, disturbed>>
storage == <<files, thumbs>>
purge == <<event, doomed>>

-----------------------------------------------------------------------------
(* Types *)

NoRow == [id |-> "none"]
MediaFile ==
    [guest : Guests, name : Names, stamp : Stamps,
     thumb : {{}} \cup {{s} : s \in Stamps},     \* thumb_path, {} for NULL
     checksum : Contents]

Row == MediaFile \cup {NoRow}

(* "torn" is what a write that breaks off leaves. *)
File == Contents \cup {"none", "torn"}

Idle == [pc |-> "idle"]

UploadPC == {"store", "thumb", "drop", "dropthumb", "commit"}
DeletePC == {"unlink", "unlinkthumb", "delete"}
ThumbPC == {"read", "clear", "rethumb", "save"}

(* old is the row as the request has read it, id its key in the table.  A  *)
(* deletion works through a list: todo is yet to be looked up, the rows in *)
(* held are deleted at the commit, and files of their keys are gone.       *)
Upload ==
    [pc : UploadPC, new : MediaFile, ids : {{}} \cup {{i} : i \in RowIds}, old : Row]
Deletion ==
    [pc : DeletePC, new : MediaFile, id : RowIds, old : MediaFile,
     todo : SUBSET RowIds, held : SUBSET RowIds, keys : SUBSET Keys]
Change == [pc : ThumbPC, new : MediaFile, id : RowIds, old : MediaFile]

KeyOf(r) == <<DirOf[r.guest], r.name>>
PathOf(r) == <<KeyOf(r), r.stamp>>
ThumbPaths(r) == {<<KeyOf(r), s>> : s \in r.thumb}

Rows == {i \in RowIds : media[i] # NoRow}

TypeOK ==
    /\ media \in [RowIds -> Row]
    /\ files \in [Paths -> File]
    /\ thumbs \subseteq Paths
    /\ req \in [Requests -> {Idle} \cup Upload \cup Deletion \cup Change]
    /\ event \in {"live", "deleting", "gone"}
    /\ doomed \subseteq MediaFile
    /\ disturbed \subseteq Keys

Init ==
    /\ media = [i \in RowIds |-> NoRow]
    /\ files = [p \in Paths |-> "none"]
    /\ thumbs = {}
    /\ req = [q \in Requests |-> Idle]
    /\ event = "live"
    /\ doomed = {}
    /\ disturbed = {}

-----------------------------------------------------------------------------
(* Helpers *)

(* The files that a request has in hand. *)
InHand(q) ==
    IF req[q] = Idle THEN {}
    ELSE {KeyOf(req[q].new)} \cup IF req[q].pc \in DeletePC THEN req[q].keys ELSE {}

Busy(k) == event = "deleting" \/ \E q \in Requests : k \in InHand(q)

(* The request has changed the storage. *)
Underway(q) ==
    \/ req[q].pc \notin {"idle", "store", "unlink", "read"}
    \/ req[q].pc = "unlink" /\ req[q].keys # {}

Goto(q, from, to) ==
    /\ req[q].pc = from
    /\ req' = [req EXCEPT ![q].pc = to]

(* A request starts; it disturbs the key if another one is at work there. *)
Starts(q, r) ==
    /\ req[q] = Idle
    /\ event # "gone"
    /\ req' = [req EXCEPT ![q] = r]
    /\ disturbed' = IF Busy(KeyOf(r.new))
                    THEN disturbed \cup {KeyOf(r.new)} ELSE disturbed

Ends(q) == req' = [req EXCEPT ![q] = Idle]

-----------------------------------------------------------------------------
(* An upload: upload_file and store_media_file *)

(* The event was checked before; two rows of the same guest and name make  *)
(* the query raise.                                                        *)
BadUploadSelect(q, new) ==
    LET ids == {i \in Rows : media[i].guest = new.guest
                             /\ PathOf(media[i]) = PathOf(new)}
    IN  /\ \A i, j \in ids : i = j
        /\ \E old \in IF ids = {} THEN {NoRow} ELSE {media[i] : i \in ids} :
              Starts(q, [pc |-> "store", new |-> new, ids |-> ids, old |-> old])
        /\ UNCHANGED <<media, storage, purge>>

UploadSelect(q, new) ==
    LET ids == {i \in Rows : media[i].guest = new.guest
                             /\ media[i].name = new.name}
    IN  /\ \A i, j \in ids : i = j
        /\ \E old \in IF ids = {} THEN {NoRow} ELSE {media[i] : i \in ids} :
              Starts(q, [pc |-> "store", new |-> new, ids |-> ids, old |-> old])
        /\ UNCHANGED <<media, storage, purge>>

Store(q) ==
    /\ Goto(q, "store", "thumb")
    /\ files' = [files EXCEPT ![PathOf(req[q].new)] = req[q].new.checksum]
    /\ UNCHANGED <<media, thumbs, purge, disturbed>>

(* The local backend truncates the file before it writes it. *)
StoreFails(q) ==
    /\ req[q].pc = "store"
    /\ \E f \in {files[PathOf(req[q].new)], "torn"} :
          files' = [files EXCEPT ![PathOf(req[q].new)] = f]
    /\ disturbed' = disturbed \cup {KeyOf(req[q].new)}
    /\ Ends(q)
    /\ UNCHANGED <<media, thumbs, purge>>

(* There is no thumbnail of what cannot be decoded or ffmpeg fails on.  The *)
(* code reads the clock once for the file and once for its thumbnail; one   *)
(* reading stands for both.                                                 *)
StoreThumb(q) ==
    /\ req[q].pc = "thumb"
    /\ \E t \in {{}, {req[q].new.stamp}} :
          /\ req' = [req EXCEPT
                        ![q].pc = IF req[q].ids = {} THEN "commit" ELSE "drop",
                        ![q].new.thumb = t]
          /\ thumbs' = thumbs \cup {<<KeyOf(req[q].new), s>> : s \in t}
    /\ UNCHANGED <<media, files, purge, disturbed>>

BadDropFile(q) ==
    /\ Goto(q, "drop", "dropthumb")
    /\ files' = [files EXCEPT ![PathOf(req[q].old)] = "none"]
    /\ UNCHANGED <<media, thumbs, purge, disturbed>>

(* The files of the overwritten row go before the row is updated. *)
DropFile(q) ==
    /\ Goto(q, "drop", "dropthumb")
    /\ files' = IF PathOf(req[q].old) # PathOf(req[q].new)
                THEN [files EXCEPT ![PathOf(req[q].old)] = "none"]
                ELSE files
    /\ UNCHANGED <<media, thumbs, purge, disturbed>>

BadDropThumb(q) ==
    /\ Goto(q, "dropthumb", "commit")
    /\ thumbs' = IF req[q].new.thumb = {} THEN thumbs
                 ELSE thumbs \ (ThumbPaths(req[q].old) \ ThumbPaths(req[q].new))
    /\ UNCHANGED <<media, files, purge, disturbed>>

DropThumb(q) ==
    /\ Goto(q, "dropthumb", "commit")
    /\ thumbs' = thumbs \ (ThumbPaths(req[q].old) \ ThumbPaths(req[q].new))
    /\ UNCHANGED <<media, files, purge, disturbed>>

(* A row id is not given away again while a request knows it. *)
InUse(o) ==
    CASE req[o].pc = "idle" -> {}
      [] req[o].pc \in UploadPC -> req[o].ids
      [] req[o].pc \in DeletePC -> {req[o].id} \cup req[o].todo \cup req[o].held
      [] req[o].pc \in ThumbPC -> {req[o].id}

(* Nothing in the table forbids a second row of the guest and name.  A row *)
(* of a guest with the same directory disturbs the key, too: two rows      *)
(* then share what is stored there.                                        *)
Insert(q) ==
    /\ req[q].pc = "commit"
    /\ req[q].ids = {}
    /\ \E i \in RowIds \ Rows :
          /\ \A o \in Requests : i \notin InUse(o)
          /\ media' = [media EXCEPT ![i] = req[q].new]
    /\ disturbed' =
          IF \E i \in Rows : /\ KeyOf(media[i]) = KeyOf(req[q].new)
                              /\ media[i].guest # req[q].new.guest
          THEN disturbed \cup {KeyOf(req[q].new)} ELSE disturbed
    /\ Ends(q)
    /\ UNCHANGED <<storage, purge>>

(* Only the columns are written that differ from the row as it was read. *)
Written(now, old, new) ==
    [now EXCEPT !.stamp = IF new.stamp = old.stamp THEN @ ELSE new.stamp,
                !.thumb = IF new.thumb = old.thumb THEN @ ELSE new.thumb,
                !.checksum = IF new.checksum = old.checksum
                             THEN @ ELSE new.checksum]

Update(q) ==
    /\ req[q].pc = "commit"
    /\ \E i \in req[q].ids :
          /\ media[i] # NoRow
          /\ media' = [media EXCEPT ![i] = Written(@, req[q].old, req[q].new)]
    /\ Ends(q)
    /\ UNCHANGED <<storage, purge, disturbed>>

-----------------------------------------------------------------------------
(* The deletion of one file or of many, in one transaction:                *)
(* delete_single_media, bulk_delete_media and delete_media_file            *)

DeleteSelect(q, i, others) ==
    /\ i \in Rows \ others
    /\ Starts(q, [pc |-> "unlink", new |-> media[i], id |-> i, old |-> media[i],
                  todo |-> others, held |-> {}, keys |-> {}])
    /\ UNCHANGED <<media, storage, purge>>

Unlink(q) ==
    /\ Goto(q, "unlink", "unlinkthumb")
    /\ files' = [files EXCEPT ![PathOf(req[q].old)] = "none"]
    /\ UNCHANGED <<media, thumbs, purge, disturbed>>

UnlinkThumb(q) ==
    /\ Goto(q, "unlinkthumb", "delete")
    /\ thumbs' = thumbs \ ThumbPaths(req[q].old)
    /\ UNCHANGED <<media, files, purge, disturbed>>

(* The row goes at the commit; the next one of the list is looked up now. *)
DeleteNext(q, i) ==
    /\ req[q].pc = "delete"
    /\ i \in req[q].todo \cap Rows
    /\ req' = [req EXCEPT ![q] =
                [pc |-> "unlink", new |-> media[i], id |-> i, old |-> media[i],
                 todo |-> req[q].todo \ {i}, held |-> req[q].held \cup {req[q].id},
                 keys |-> req[q].keys \cup {KeyOf(req[q].new)}]]
    /\ disturbed' = IF Busy(KeyOf(media[i]))
                    THEN disturbed \cup {KeyOf(media[i])} ELSE disturbed
    /\ UNCHANGED <<media, storage, purge>>

BadDeleteRows(q) ==
    /\ req[q].pc = "delete"
    /\ req[q].todo \cap Rows = {}
    /\ media' = [media EXCEPT ![req[q].id] = NoRow]
    /\ Ends(q)
    /\ UNCHANGED <<storage, purge, disturbed>>

(* What is left of the list is not found. *)
DeleteRows(q) ==
    /\ req[q].pc = "delete"
    /\ req[q].todo \cap Rows = {}
    /\ media' = [i \in RowIds |->
                    IF i \in req[q].held \cup {req[q].id} THEN NoRow ELSE media[i]]
    /\ Ends(q)
    /\ UNCHANGED <<storage, purge, disturbed>>

-----------------------------------------------------------------------------
(* A new thumbnail for one file: regenerate_single_thumbnail *)

ThumbSelect(q, i) ==
    /\ i \in Rows
    /\ Starts(q, [pc |-> "read", new |-> media[i], id |-> i, old |-> media[i]])
    /\ UNCHANGED <<media, storage, purge>>

ReadOriginal(q) ==
    /\ Goto(q, "read", "clear")
    /\ files[PathOf(req[q].old)] # "none"
    /\ UNCHANGED <<media, storage, purge, disturbed>>

ReadFails(q) ==
    /\ req[q].pc = "read"
    /\ Ends(q)
    /\ UNCHANGED <<media, storage, purge, disturbed>>

(* The old thumbnail goes before the new one is made. *)
ClearThumb(q) ==
    /\ Goto(q, "clear", "rethumb")
    /\ thumbs' = thumbs \ ThumbPaths(req[q].old)
    /\ UNCHANGED <<media, files, purge, disturbed>>

BadStoreNewThumb(q) ==
    /\ req[q].pc = "rethumb"
    /\ \E t \in {{}} \cup {{s} : s \in Stamps} :
          /\ req' = [req EXCEPT ![q].pc = "save", ![q].new.thumb = @ \cup t]
          /\ thumbs' = thumbs \cup {<<KeyOf(req[q].new), s>> : s \in t}
    /\ UNCHANGED <<media, files, purge, disturbed>>

(* Its name has the EXIF date of the file or, without one, the time now. *)
StoreNewThumb(q) ==
    /\ req[q].pc = "rethumb"
    /\ \E t \in {{}} \cup {{s} : s \in Stamps} :
          /\ req' = [req EXCEPT ![q].pc = "save", ![q].new.thumb = t]
          /\ thumbs' = thumbs \cup {<<KeyOf(req[q].new), s>> : s \in t}
    /\ UNCHANGED <<media, files, purge, disturbed>>

SaveThumb(q) ==
    /\ req[q].pc = "save"
    /\ media[req[q].id] # NoRow
    /\ media' = [media EXCEPT ![req[q].id] = Written(@, req[q].old, req[q].new)]
    /\ Ends(q)
    /\ UNCHANGED <<storage, purge, disturbed>>

-----------------------------------------------------------------------------
(* The deletion of a stored file fails: storage.delete returns False or     *)
(* raises, which no caller looks at.                                        *)
AfterRemoval ==
    [drop |-> "dropthumb", dropthumb |-> "commit", unlink |-> "unlinkthumb",
     unlinkthumb |-> "delete", clear |-> "rethumb"]

RemovalFails(q) ==
    /\ req[q].pc \in DOMAIN AfterRemoval
    /\ req' = [req EXCEPT ![q].pc = AfterRemoval[@]]
    /\ disturbed' = disturbed \cup {KeyOf(req[q].new)}
    /\ UNCHANGED <<media, storage, purge>>

(* A storage call or a commit raises once the storage has been changed: the *)
(* transaction is rolled back, the storage stays as it is.                  *)
BreaksOff(q) ==
    /\ Underway(q)
    /\ Ends(q)
    /\ disturbed' = disturbed \cup InHand(q)
    /\ UNCHANGED <<media, storage, purge>>

(* The deletion of the event: delete_event *)

PurgeSelect ==
    /\ event = "live"
    /\ event' = "deleting"
    /\ doomed' = {media[i] : i \in Rows}
    /\ disturbed' = disturbed \cup UNION {InHand(q) : q \in Requests}
    /\ UNCHANGED <<media, storage, req>>

PurgeFiles(r) ==
    /\ event = "deleting"
    /\ doomed' = doomed \ {r}
    /\ files' = [files EXCEPT ![PathOf(r)] = "none"]
    /\ thumbs' = thumbs \ ThumbPaths(r)
    /\ UNCHANGED <<media, req, event, disturbed>>

PurgeFilesFails(r) ==
    /\ event = "deleting"
    /\ doomed' = doomed \ {r}
    /\ disturbed' = disturbed \cup {KeyOf(r)}
    /\ UNCHANGED <<media, storage, req, event>>

PurgeRows ==
    /\ event = "deleting"
    /\ doomed = {}
    /\ event' = "gone"
    /\ media' = [i \in RowIds |-> NoRow]
    /\ UNCHANGED <<storage, req, doomed, disturbed>>

PurgeFails ==
    /\ event = "deleting"
    /\ event' = "live"
    /\ doomed' = {}
    /\ disturbed' = Keys
    /\ UNCHANGED <<media, storage, req>>

(* The process ends and takes every request with it. *)
Restart ==
    /\ req' = [q \in Requests |-> Idle]
    /\ event' = IF event = "deleting" THEN "live" ELSE event
    /\ doomed' = {}
    /\ disturbed' = IF event = "deleting" THEN Keys
                    ELSE disturbed \cup
                         UNION {InHand(q) : q \in {o \in Requests : Underway(o)}}
    /\ UNCHANGED <<media, storage>>

-----------------------------------------------------------------------------
UploadStep(q) ==
    \/ \E new \in {r \in MediaFile : r.thumb = {}} : UploadSelect(q, new)
    \/ Store(q) \/ StoreFails(q) \/ StoreThumb(q) \/ DropFile(q) \/ DropThumb(q)
    \/ Insert(q) \/ Update(q)

DeleteStep(q) ==
    \/ \E i \in RowIds, others \in SUBSET RowIds : DeleteSelect(q, i, others)
    \/ \E i \in RowIds : DeleteNext(q, i)
    \/ Unlink(q) \/ UnlinkThumb(q) \/ DeleteRows(q)

ThumbStep(q) ==
    \/ \E i \in RowIds : ThumbSelect(q, i)
    \/ ReadOriginal(q) \/ ReadFails(q) \/ ClearThumb(q) \/ StoreNewThumb(q)
    \/ SaveThumb(q)

PurgeStep ==
    PurgeSelect \/ (\E r \in doomed : PurgeFiles(r) \/ PurgeFilesFails(r))
    \/ PurgeRows \/ PurgeFails

Next ==
    \/ \E q \in Requests :
          \/ UploadStep(q) \/ DeleteStep(q) \/ ThumbStep(q)
          \/ RemovalFails(q) \/ BreaksOff(q)
    \/ PurgeStep
    \/ Restart

Spec == Init /\ [][Next]_vars

-----------------------------------------------------------------------------
(* Safety *)

Quiet(k) == k \notin disturbed /\ ~Busy(k)

(***************************************************************************)
(* Requests that do not overlap on a file, and finish, keep the table and  *)
(* the storage in step: the original of every row is stored with the       *)
(* content its checksum was taken from, and so is its thumbnail.           *)
(* media_service.py:182-289, 301-340.                                      *)
(***************************************************************************)
RowsHaveFiles ==
    \A i \in Rows : Quiet(KeyOf(media[i])) =>
        /\ files[PathOf(media[i])] = media[i].checksum
        /\ ThumbPaths(media[i]) \subseteq thumbs

(***************************************************************************)
(* And nothing is stored that no row names: overwriting, deleting and      *)
(* regenerating leave no old version behind, nor does deleting the event.  *)
(* media_service.py:222-235, 278-287, 318-336, event_service.py:97-108.    *)
(***************************************************************************)
NothingLeftOver ==
    \A p \in Paths : Quiet(p[1]) =>
        /\ files[p] # "none" => \E i \in Rows : PathOf(media[i]) = p
        /\ p \in thumbs => \E i \in Rows : p \in ThumbPaths(media[i])

(***************************************************************************)
(* A guest has one row per file name while no two requests for the file    *)
(* overlap.  media_service.py:200-208; media_files has no such constraint. *)
(***************************************************************************)
OneRowPerName ==
    \A i, j \in Rows :
        i # j /\ KeyOf(media[i]) = KeyOf(media[j]) => KeyOf(media[i]) \in disturbed

-----------------------------------------------------------------------------
(* The file that is stored under a key *)

RowsAt(k) == {i \in Rows : KeyOf(media[i]) = k}

(* What a request is going to leave of the files that it has in hand. *)
GoalOf(q) ==
    CASE req[q].pc \in UploadPC -> {req[q].new.checksum}
      [] req[q].pc \in DeletePC -> {}
      [] req[q].pc \in ThumbPC -> {req[q].old.checksum}

(* Of a file that it has in hand: it has written to it, or has been        *)
(* through with it and is at another file now.                             *)
HasWritten(q, k) ==
    \/ KeyOf(req[q].new) # k
    \/ req[q].pc \notin {"store", "unlink", "read", "clear"}

(* Before a request writes to the storage the file is what is stored there, *)
(* then what the table still has of it.                                     *)
FileOf(k) ==
    LET rows == {media[i] : i \in RowsAt(k)}
        stored == {files[PathOf(r)] : r \in rows}
        recorded == {r.checksum : r \in rows}
        atWork == {q \in Requests : k \in InHand(q)}
        changed ==
            IF event = "deleting" THEN ~(rows \subseteq doomed)
            ELSE \E q \in atWork : HasWritten(q, k)
        goal ==
            IF event = "deleting" THEN {} ELSE UNION {GoalOf(q) : q \in atWork}
    IN  CASE k \in disturbed -> [at |-> "lost", was |-> {}, will |-> {}]
          [] k \notin disturbed /\ ~Busy(k) ->
                [at |-> "rest", was |-> stored, will |-> stored]
          [] k \notin disturbed /\ Busy(k) /\ ~changed ->
                [at |-> "begun", was |-> stored, will |-> goal]
          [] k \notin disturbed /\ Busy(k) /\ changed ->
                [at |-> "changed", was |-> recorded, will |-> goal]

Files == INSTANCE StoredFiles WITH file <- [k \in Keys |-> FileOf(k)]

(***************************************************************************)
(* Seen from outside, a stored file is changed by whole requests only: an  *)
(* upload that ends leaves its own content, under whatever name and beside *)
(* whichever thumbnails; a deletion leaves nothing; a new thumbnail, a     *)
(* file that is not found and a request that fails before it has written   *)
(* leave the content as it was.  media_service.py:182-340, api.py:198-230. *)
(***************************************************************************)
ImplementsFiles == Files!FilesSpec
=============================================================================
