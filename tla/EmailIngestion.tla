--------------------------- MODULE EmailIngestion ---------------------------
(***************************************************************************)
(* The mailbox of one event, and the polls that import the photos and      *)
(* videos attached to its messages.  A poll fetches everything in a thread *)
(* of its own, which also removes or marks the messages on the server, and *)
(* stores what it has fetched afterwards, in one transaction.  A poll is   *)
(* started by the ingestion loop or by a user who forces one, so that two  *)
(* of them may run at the same time.                                       *)
(*                                                                         *)
(* The mail server is external.  IMAP: fetching a message by RFC822 marks  *)
(* it \Seen, and EXPUNGE removes every message flagged \Deleted, whoever   *)
(* has flagged it.  POP3: a message is removed by the QUIT of the session  *)
(* that has deleted it.  The server does what it is asked to do, but the   *)
(* connection may break before it does or before it answers.               *)
(*                                                                         *)
(* A definition named Bad... is a plausible defect of the one after it.    *)
(***************************************************************************)
EXTENDS Naturals, FiniteSets

CONSTANTS
    Messages,
    Parts,          \* attachments
    PartsOf,        \* the photos and videos attached to a message
    Names,          \* a sender with a file name
    NameOf,         \* the name of an attachment; those without one share it
    Loop, Forced,   \* the two who poll
    MaxFaults       \* bound: connections, stores and commits that fail

Pollers == {Loop, Forced}
Items == UNION {{m} \X PartsOf[m] : m \in Messages}

ASSUME EmailAssumption ==
    /\ PartsOf \in [Messages -> SUBSET Parts]
    /\ NameOf \in [Items -> Names]
    /\ Loop # Forced
    /\ MaxFaults \in Nat

VARIABLES
    config,         \* protocol and delete_after_ingestion; they do not change
    box,            \* the messages on the server
    media,          \* the rows of table media_files
    processed,      \* table processed_emails: the UIDs imported by POP3
    poll,
    lastPoll,       \* last_poll_status, as the table has it
    faults,         \* how much has failed
    fate            \* history: what has become of an attachment

vars == <<config, box, media, processed, poll, lastPoll, faults, fate>>

-----------------------------------------------------------------------------
(* Types *)

Mail == {"unsent", "new", "seen", "flagged", "gone"}

(* A row of media_files is known by its name and by who has inserted it:   *)
(* who finds one of the name inserts no other.                             *)
Row == [by : Pollers, item : Items]

SameRow(r, s) == r.by = s.by /\ NameOf[r.item] = NameOf[s.item]

Idle == [pc |-> "idle", known |-> {}, work |-> {}, fetched |-> {}, items |-> {},
         stored |-> {}, rows |-> {}, broken |-> FALSE]

Poll ==
    [pc : {"idle", "search", "fetch", "store", "failed"},
     known : SUBSET Messages,       \* processed_uids
     work : SUBSET Messages,        \* still to be fetched
     fetched : SUBSET Messages,
     items : SUBSET Items,          \* fetched, still to be stored
     stored : SUBSET Items,         \* stored without an error
     rows : SUBSET Row,             \* inserted or overwritten, not committed
     broken : BOOLEAN]              \* a flush has failed in the session

TypeOK ==
    /\ config \in [imap : BOOLEAN, delete : BOOLEAN]
    /\ box \in [Messages -> Mail]
    /\ media \subseteq Row
    /\ \A r, s \in media : SameRow(r, s) => r = s
    /\ processed \subseteq Messages
    /\ poll \in [Pollers -> Poll]
    /\ \A p \in Pollers : \A r, s \in poll[p].rows : SameRow(r, s) => r = s
    /\ lastPoll \in {"none", "success", "error"}
    /\ faults \in 0..MaxFaults
    /\ fate \in [Items -> {"open", "imported", "lost"}]

Init ==
    /\ config \in [imap : BOOLEAN, delete : BOOLEAN]
    /\ box = [m \in Messages |-> "unsent"]
    /\ media = {}
    /\ processed = {}
    /\ poll = [p \in Pollers |-> Idle]
    /\ lastPoll = "none"
    /\ faults = 0
    /\ fate = [i \in Items |-> "open"]

-----------------------------------------------------------------------------
(* Helpers *)

Listed == {m \in Messages : box[m] \in {"new", "seen", "flagged"}}
Unseen == {m \in Messages : box[m] = "new"}

At(p, pc) == poll[p].pc = pc

Fault ==
    /\ faults < MaxFaults
    /\ faults' = faults + 1

(* newly_recorded_uids *)
Uids(p) == IF config.imap THEN {} ELSE {i[1] : i \in poll[p].stored}

(* The pending processed_emails collide with the unique constraint.  They  *)
(* are flushed by the SELECT of the next store_media_file, or at the end.  *)
BadCollides(p) == FALSE

Collides(p) == Uids(p) \cap processed # {}

(* The table with the rows of a session in it. *)
Overlay(table, rows) == {r \in table : \A s \in rows : ~SameRow(r, s)} \cup rows

Named(rows, n) == {r \in rows : NameOf[r.item] = n}

(* What store_media_file finds under the name of an attachment. *)
Existing(p, i) == Named(Overlay(media, poll[p].rows), NameOf[i])

(* scalar_one_or_none raises: two polls have inserted the name. *)
Ambiguous(p, i) == \E r, s \in Existing(p, i) : r # s

(* The poll has the attachment and can still store or commit it. *)
InHand(p, i) ==
    \/ At(p, "fetch") /\ i[1] \in poll[p].fetched
    \/ At(p, "store") /\ i \in poll[p].items \cup poll[p].stored

Taken == {"seen", "flagged", "gone"}

(* Attachments that a poll lets go of, of messages that nobody fetches again. *)
Drops(items) ==
    fate' = [i \in Items |->
                IF i \in items /\ fate[i] = "open" /\ box'[i[1]] \in Taken
                THEN "lost" ELSE fate[i]]

Held(p) == {i \in Items : InHand(p, i)}

-----------------------------------------------------------------------------
(* The server *)

Arrives(m) ==
    /\ box[m] = "unsent"
    /\ box' = [box EXCEPT ![m] = "new"]
    /\ UNCHANGED <<config, media, processed, poll, lastPoll, faults, fate>>

-----------------------------------------------------------------------------
(* One poll: poll_mailbox, poll_imap and poll_pop3 *)

(* POP3 reads the table first. *)
Start(p) ==
    /\ At(p, "idle")
    /\ poll' = [poll EXCEPT ![p].pc = "search",
                            ![p].known = IF config.imap THEN {} ELSE processed]
    /\ UNCHANGED <<config, box, media, processed, lastPoll, faults, fate>>

Search(p) ==
    /\ At(p, "search")
    /\ poll' = [poll EXCEPT
                    ![p].pc = "fetch",
                    ![p].known = {},
                    ![p].work = IF config.imap THEN Unseen
                                ELSE Listed \ poll[p].known]
    /\ UNCHANGED <<config, box, media, processed, lastPoll, faults, fate>>

(* Fetches a message and takes its attachments; IMAP flags it on the server, *)
(* POP3 has it in to_delete.                                                *)
Fetch(p, m) ==
    /\ At(p, "fetch")
    /\ m \in poll[p].work \cap Listed
    /\ poll' = [poll EXCEPT ![p].work = @ \ {m}, ![p].fetched = @ \cup {m}]
    /\ box' = [box EXCEPT ![m] = IF ~config.imap THEN @
                                 ELSE IF config.delete THEN "flagged" ELSE "seen"]
    /\ UNCHANGED <<config, media, processed, lastPoll, faults, fate>>

(* Another poll has removed the message. *)
FetchFindsNone(p, m) ==
    /\ At(p, "fetch")
    /\ m \in poll[p].work \ Listed
    /\ poll' = [poll EXCEPT ![p].pc = "failed"]
    /\ UNCHANGED <<config, box, media, processed, lastPoll, faults>>
    /\ Drops(Held(p))

(* The connection breaks, at once or when a message has been fetched but    *)
(* not flagged.                                                             *)
Disconnects(p) ==
    /\ poll[p].pc \in {"search", "fetch"}
    /\ Fault
    /\ poll' = [poll EXCEPT ![p].pc = "failed"]
    /\ \E ms \in {{}} \cup {{m} : m \in IF config.imap THEN poll[p].work \cap Unseen
                                        ELSE {}} :
          /\ box' = [m \in Messages |-> IF m \in ms THEN "seen" ELSE box[m]]
          /\ Drops(Held(p) \cup {i \in Items : i[1] \in ms})
    /\ UNCHANGED <<config, media, processed, lastPoll>>

(* What EXPUNGE, or QUIT, removes. *)
Removed(p) ==
    IF ~config.delete THEN {}
    ELSE IF config.imap THEN {m \in Messages : box[m] = "flagged"}
    ELSE poll[p].fetched

(* EXPUNGE and LOGOUT, or QUIT: only then does the poll have its results. *)
BadDisconnect(p) ==
    /\ At(p, "fetch")
    /\ poll' = [poll EXCEPT
                    ![p].pc = "store",
                    ![p].items = {i \in Items : i[1] \in poll[p].fetched}]
    /\ box' = [m \in Messages |->
                  IF m \in poll[p].fetched \cup poll[p].work /\ config.delete
                  THEN "gone" ELSE box[m]]
    /\ UNCHANGED <<config, media, processed, lastPoll, faults, fate>>

Disconnect(p) ==
    /\ At(p, "fetch")
    /\ poll[p].work = {}
    /\ poll' = [poll EXCEPT
                    ![p].pc = "store",
                    ![p].items = {i \in Items : i[1] \in poll[p].fetched}]
    /\ box' = [m \in Messages |-> IF m \in Removed(p) THEN "gone" ELSE box[m]]
    /\ UNCHANGED <<config, media, processed, lastPoll, faults, fate>>

(* The server removes all or some, but EXPUNGE, LOGOUT or QUIT raises: the *)
(* results are gone with the thread.                                       *)
DisconnectBreaks(p) ==
    /\ At(p, "fetch")
    /\ poll[p].work = {}
    /\ Fault
    /\ poll' = [poll EXCEPT ![p].pc = "failed"]
    /\ \E ms \in SUBSET Removed(p) :
          box' = [m \in Messages |-> IF m \in ms THEN "gone" ELSE box[m]]
    /\ UNCHANGED <<config, media, processed, lastPoll>>
    /\ Drops(Held(p))

(* store_media_file overwrites the row that it finds, whichever attachment *)
(* of that name it is of.                                                  *)
BadStoreItem(p, i) ==
    /\ At(p, "store")
    /\ ~poll[p].broken /\ ~Collides(p)
    /\ i \in poll[p].items
    /\ poll' = [poll EXCEPT
                    ![p].items = @ \ {i},
                    ![p].stored = @ \cup {i},
                    ![p].rows = @ \cup {[by |-> p, item |-> i]}]
    /\ UNCHANGED <<config, box, media, processed, lastPoll, faults, fate>>

StoreItem(p, i) ==
    /\ At(p, "store")
    /\ ~poll[p].broken /\ ~Collides(p) /\ ~Ambiguous(p, i)
    /\ i \in poll[p].items
    /\ LET by == IF Existing(p, i) = {} THEN p
                 ELSE (CHOOSE r \in Existing(p, i) : TRUE).by
       IN  poll' = [poll EXCEPT
                       ![p].items = @ \ {i},
                       ![p].stored = @ \cup {i},
                       ![p].rows = Overlay(@, {[by |-> by, item |-> i]})]
    /\ UNCHANGED <<config, box, media, processed, lastPoll, faults, fate>>

(* A flush that fails leaves the session unusable: every later store fails  *)
(* too.  A storage call that fails, or a name that is there twice, loses    *)
(* this attachment only.                                                    *)
BadStoreItemFails(p, i) ==
    /\ At(p, "store")
    /\ i \in poll[p].items
    /\ IF poll[p].broken \/ Collides(p) \/ Ambiguous(p, i) THEN UNCHANGED faults ELSE Fault
    /\ \E broken \in BOOLEAN :
          /\ poll[p].broken \/ Collides(p) => broken
          /\ poll' = [poll EXCEPT ![p].items = @ \ {i}, ![p].broken = broken,
                                  ![p].stored = @ \cup {i}]
    /\ UNCHANGED <<config, box, media, processed, lastPoll>>
    /\ Drops({i})

StoreItemFails(p, i) ==
    /\ At(p, "store")
    /\ i \in poll[p].items
    /\ IF poll[p].broken \/ Collides(p) \/ Ambiguous(p, i) THEN UNCHANGED faults ELSE Fault
    /\ \E broken \in BOOLEAN :
          /\ poll[p].broken \/ Collides(p) => broken
          /\ broken => poll[p].broken \/ Collides(p) \/ ~Ambiguous(p, i)
          /\ poll' = [poll EXCEPT ![p].items = @ \ {i}, ![p].broken = broken]
    /\ UNCHANGED <<config, box, media, processed, lastPoll>>
    /\ Drops({i})

(* The loop has loaded its configurations in a session that it has closed: *)
(* the commit does not write what it sets in them.  A forced poll sets     *)
(* them in the session of its request, which reloads them before it        *)
(* commits: whether they are written first is up to the library.           *)
Records(p, status) ==
    lastPoll' \in IF p = Forced THEN {status, lastPoll} ELSE {lastPoll}

Commit(p) ==
    /\ At(p, "store")
    /\ poll[p].items = {}
    /\ ~poll[p].broken /\ ~Collides(p)
    /\ media' = Overlay(media, poll[p].rows)
    /\ processed' = processed \cup Uids(p)
    /\ fate' = [i \in Items |-> IF i \in poll[p].stored THEN "imported" ELSE fate[i]]
    /\ Records(p, "success")
    /\ poll' = [poll EXCEPT ![p] = Idle]
    /\ UNCHANGED <<config, box, faults>>

CommitFails(p) ==
    /\ At(p, "store")
    /\ poll[p].items = {}
    /\ IF poll[p].broken \/ Collides(p) THEN UNCHANGED faults ELSE Fault
    /\ poll' = [poll EXCEPT ![p].pc = "failed"]
    /\ UNCHANGED <<config, box, media, processed, lastPoll>>
    /\ Drops(Held(p))

(* The error is logged; the session rolls back what it has. *)
BadFailed(p) ==
    /\ At(p, "failed")
    /\ Records(p, "error")
    /\ UNCHANGED <<config, box, media, processed, poll, faults, fate>>

Failed(p) ==
    /\ At(p, "failed")
    /\ Records(p, "error")
    /\ poll' = [poll EXCEPT ![p] = Idle]
    /\ UNCHANGED <<config, box, media, processed, faults, fate>>

(* The process ends and takes the polls with it. *)
Restart ==
    /\ Fault
    /\ poll' = [p \in Pollers |-> Idle]
    /\ UNCHANGED <<config, box, media, processed, lastPoll>>
    /\ Drops(UNION {Held(p) : p \in Pollers})

-----------------------------------------------------------------------------
PollStep(p) ==
    \/ Start(p) \/ Search(p)
    \/ \E m \in Messages : Fetch(p, m) \/ FetchFindsNone(p, m)
    \/ Disconnects(p) \/ Disconnect(p) \/ DisconnectBreaks(p)
    \/ \E i \in Items : StoreItem(p, i) \/ StoreItemFails(p, i)
    \/ Commit(p) \/ CommitFails(p) \/ Failed(p)

Next ==
    \/ \E m \in Messages : Arrives(m)
    \/ \E p \in Pollers : PollStep(p)
    \/ Restart

Spec == Init /\ [][Next]_vars

(* The loop polls for ever; nobody has to force a poll. *)
FairSpec == Spec /\ WF_vars(PollStep(Loop))

-----------------------------------------------------------------------------
(* Properties *)

(***************************************************************************)
(* POP3 imports no attachment twice, even when two polls fetch the same    *)
(* message and each has read processed_emails before the other commits.    *)
(* email_ingestion.py:159-165, 231-242; the constraint is in models.py:170. *)
(***************************************************************************)
ImportedOnce ==
    ~config.imap => \A r, s \in media : r.item = s.item => r = s

(***************************************************************************)
(* Rows and recorded UIDs go together, whatever fails: a UID is recorded   *)
(* only if there is a row under the name of one of the attachments, and a  *)
(* row only comes with the UID of its message.  The row may be that of a   *)
(* later message: an attachment of the same name overwrites it, and of the *)
(* first message nothing is left.  Users who delete rows are MediaStore's. *)
(* email_ingestion.py:212-242, media_service.py:200-246.                   *)
(***************************************************************************)
ProcessedHasMedia ==
    ~config.imap =>
        /\ \A m \in processed : \E i \in Items : i[1] = m /\ Named(media, NameOf[i]) # {}
        /\ \A r \in media : r.item[1] \in processed

(***************************************************************************)
(* What is taken from the mailbox is not forgotten: of a message that is   *)
(* marked or removed, each attachment has been imported, or a poll still   *)
(* has it in hand, or a poll that failed had it.  That holds of messages   *)
(* which one poll flags and the other one expunges, and if QUIT fails      *)
(* after the server has removed them.                                      *)
(* email_ingestion.py:108-148, 186-243.                                    *)
(***************************************************************************)
NoneForgotten ==
    \A i \in Items :
        /\ box[i[1]] \in Taken /\ fate[i] = "open" => \E p \in Pollers : InHand(p, i)
        /\ fate[i] = "imported" => Named(media, NameOf[i]) # {}

(***************************************************************************)
(* While only finitely much fails, no message with attachments stays in    *)
(* the mailbox unattended: IMAP comes to mark it, POP3 to record its UID   *)
(* or to remove it, unless all its names are there twice: store_media_file *)
(* then raises for ever.  email_ingestion.py:273-294.                      *)
(***************************************************************************)
EveryMessageIsTaken ==
    \A m \in Messages :
        PartsOf[m] # {} /\ box[m] = "new"
            ~> \/ config.imap /\ box[m] # "new"
               \/ m \in processed \/ box[m] = "gone"
               \/ \A i \in Items : i[1] = m =>
                     \E r, s \in Named(media, NameOf[i]) : r # s
=============================================================================
