------------------------ MODULE EmailIngestionProofs ------------------------
(***************************************************************************)
(* Proofs about EmailIngestion, for any messages, attachments and names    *)
(* and any number of faults.                                               *)
(*                                                                         *)
(* What the table says is decided by what the two polls have in their      *)
(* sessions before they commit.  Fit says of a session that its rows are   *)
(* those of what it has stored, and that what it has stored has a row; the *)
(* unique constraint on UIDs then decides which sessions may commit.       *)
(***************************************************************************)
EXTENDS EmailIngestion, TLAPS

Fit(s) ==
    /\ \A r, t \in s.rows : SameRow(r, t) \/ r.item = t.item => r = t
    /\ \A r \in s.rows : r.item \in s.stored
    /\ \A i \in s.stored : Named(s.rows, NameOf[i]) # {}
    /\ s.items \cap s.stored = {}
    /\ s.pc \in {"idle", "search", "fetch"} => s.stored = {} /\ s.rows = {}

Sessions == \A p \in Pollers : Fit(poll[p])

Tables == ImportedOnce /\ ProcessedHasMedia

IInv == TypeOK /\ Sessions /\ Tables /\ NoneForgotten

-----------------------------------------------------------------------------
(* Sessions and tables *)

LEMMA ItemsOfMessages ==
    ASSUME NEW i \in Items
    PROVE  i[1] \in Messages
<1> QED
  BY DEF Items

LEMMA IdlePoll == Idle \in Poll /\ Fit(Idle)
<1> QED
  BY DEF Idle, Poll, Fit

LEMMA OverlayFits ==
    ASSUME NEW table, NEW rows,
           \A r, t \in table : SameRow(r, t) => r = t,
           \A r, t \in rows : SameRow(r, t) => r = t
    PROVE  \A r, t \in Overlay(table, rows) : SameRow(r, t) => r = t
<1> QED
  BY DEF Overlay, SameRow

(* A row is overwritten by one of its name: no name disappears. *)
LEMMA OverlayKeepsNames ==
    ASSUME NEW table, NEW rows, NEW n,
           Named(table, n) # {} \/ Named(rows, n) # {}
    PROVE  Named(Overlay(table, rows), n) # {}
<1>1. CASE Named(rows, n) # {}
  BY <1>1 DEF Named, Overlay
<1>2. CASE Named(table, n) # {}
  <2>1. PICK r \in table : NameOf[r.item] = n
    BY <1>2 DEF Named
  <2>2. CASE \A s \in rows : ~SameRow(r, s)
    BY <2>1, <2>2 DEF Named, Overlay
  <2>3. ASSUME NEW s \in rows, SameRow(r, s)
        PROVE  Named(Overlay(table, rows), n) # {}
    BY <2>1, <2>3 DEF Named, Overlay, SameRow
  <2> QED
    BY <2>2, <2>3
<1> QED
  BY <1>1, <1>2

LEMMA Initially ==
    ASSUME Init
    PROVE  IInv
<1>1. TypeOK
  BY EmailAssumption, IdlePoll DEF Init, TypeOK, Mail, Idle
<1>2. Sessions
  BY IdlePoll DEF Init, Sessions
<1>3. Tables /\ NoneForgotten
  BY ItemsOfMessages DEF Init, Tables, ImportedOnce, ProcessedHasMedia, NoneForgotten, Taken
<1> QED
  BY <1>1, <1>2, <1>3 DEF IInv

(* A step of the polls that leaves the tables alone. *)
LEMMA TablesStay ==
    ASSUME IInv, UNCHANGED <<config, media, processed>>,
           poll' \in [Pollers -> Poll], \A o \in Pollers : Fit(poll'[o]),
           box' \in [Messages -> Mail], lastPoll' \in {"none", "success", "error"},
           faults' \in 0..MaxFaults,
           fate' \in [Items -> {"open", "imported", "lost"}]
    PROVE  TypeOK' /\ Sessions' /\ Tables'
<1>1. Sessions'
  BY DEF Sessions
<1>2. TypeOK'
  BY DEF IInv, TypeOK, Fit, SameRow
<1>3. Tables'
  BY DEF IInv, Tables, ImportedOnce, ProcessedHasMedia, Named
<1> QED
  BY <1>1, <1>2, <1>3

(* Attachments that no poll has in hand any longer have been dropped. *)
LEMMA NoneSlips ==
    ASSUME IInv, media' = media, NEW S,
           \A i \in Items : fate'[i] = IF /\ i \in S /\ fate[i] = "open"
                                          /\ box'[i[1]] \in Taken
                                       THEN "lost" ELSE fate[i],
           \A p \in Pollers, i \in Items : InHand(p, i) => InHand(p, i)' \/ i \in S,
           \A i \in Items : box'[i[1]] \in Taken =>
               \/ box[i[1]] \in Taken \/ i \in S
               \/ \E p \in Pollers : InHand(p, i)'
    PROVE  NoneForgotten'
<1> SUFFICES ASSUME NEW i \in Items
             PROVE  /\ box'[i[1]] \in Taken /\ fate'[i] = "open" =>
                           \E p \in Pollers : InHand(p, i)'
                    /\ fate'[i] = "imported" => Named(media', NameOf[i]) # {}
  BY DEF NoneForgotten, Named, Taken
<1>1. /\ box[i[1]] \in Taken /\ fate[i] = "open" => \E p \in Pollers : InHand(p, i)
      /\ fate[i] = "imported" => Named(media, NameOf[i]) # {}
  BY DEF IInv, NoneForgotten
<1>2. ASSUME box'[i[1]] \in Taken, fate'[i] = "open"
      PROVE  \E p \in Pollers : InHand(p, i)'
  <2>1. fate[i] = "open" /\ i \notin S
    BY <1>2
  <2>2. CASE box[i[1]] \in Taken
    BY <1>1, <2>1, <2>2
  <2>3. CASE box[i[1]] \notin Taken
    BY <1>2, <2>1, <2>3
  <2> QED
    BY <2>2, <2>3
<1>3. ASSUME fate'[i] = "imported"
      PROVE  Named(media', NameOf[i]) # {}
  BY <1>1, <1>3
<1> QED
  BY <1>2, <1>3

(* The types of what an attachment comes to. *)
LEMMA DropsTyped ==
    ASSUME IInv, NEW S, Drops(S)
    PROVE  /\ fate' \in [Items -> {"open", "imported", "lost"}]
           /\ \A i \in Items : fate'[i] = IF /\ i \in S /\ fate[i] = "open"
                                             /\ box'[i[1]] \in Taken
                                          THEN "lost" ELSE fate[i]
<1> QED
  BY DEF Drops, IInv, TypeOK

(* What a step of one poll has to show. *)
LEMMA OnePoll ==
    ASSUME IInv, UNCHANGED <<config, media, processed>>,
           NEW p \in Pollers, NEW new \in Poll, Fit(new),
           poll' = [poll EXCEPT ![p] = new],
           box' \in [Messages -> Mail], lastPoll' \in {"none", "success", "error"},
           faults' = faults \/ Fault,
           NEW S, (S = {} /\ fate' = fate) \/ Drops(S),
           \A i \in Items : InHand(p, i) =>
               \/ i \in S
               \/ new.pc = "fetch" /\ i[1] \in new.fetched
               \/ new.pc = "store" /\ i \in new.items \cup new.stored,
           \A i \in Items : box'[i[1]] \in Taken =>
               \/ box[i[1]] \in Taken \/ i \in S
               \/ new.pc = "fetch" /\ i[1] \in new.fetched
               \/ new.pc = "store" /\ i \in new.items \cup new.stored
    PROVE  IInv'
<1>1. poll \in [Pollers -> Poll] /\ faults \in 0..MaxFaults /\ MaxFaults \in Nat
  BY EmailAssumption DEF IInv, TypeOK
<1>2. /\ poll' \in [Pollers -> Poll] /\ poll'[p] = new
      /\ \A o \in Pollers \ {p} : poll'[o] = poll[o]
  BY <1>1
<1>3. \A o \in Pollers : Fit(poll'[o])
  BY <1>2 DEF IInv, Sessions
<1>4. faults' \in 0..MaxFaults
  BY <1>1 DEF Fault
<1>5. /\ fate' \in [Items -> {"open", "imported", "lost"}]
      /\ \A i \in Items : fate'[i] = IF /\ i \in S /\ fate[i] = "open"
                                        /\ box'[i[1]] \in Taken
                                     THEN "lost" ELSE fate[i]
  <2>1. CASE S = {} /\ fate' = fate
    BY <2>1 DEF IInv, TypeOK
  <2> QED
    BY <2>1, DropsTyped
<1>6. \A o \in Pollers, i \in Items : InHand(o, i) => InHand(o, i)' \/ i \in S
  <2> SUFFICES ASSUME NEW o \in Pollers, NEW i \in Items, InHand(o, i), i \notin S
               PROVE  InHand(o, i)'
    OBVIOUS
  <2>1. CASE o = p
    BY <1>2, <2>1 DEF InHand, At
  <2>2. CASE o # p
    BY <1>2, <2>2 DEF InHand, At
  <2> QED
    BY <2>1, <2>2
<1>7. \A i \in Items : box'[i[1]] \in Taken =>
          box[i[1]] \in Taken \/ i \in S \/ \E o \in Pollers : InHand(o, i)'
  BY <1>2 DEF InHand, At
<1>8. TypeOK' /\ Sessions' /\ Tables'
  BY <1>2, <1>3, <1>4, <1>5, TablesStay
<1>9. NoneForgotten'
  BY <1>5, <1>6, <1>7, NoneSlips
<1> QED
  BY <1>8, <1>9 DEF IInv

-----------------------------------------------------------------------------
(* The thread of a poll: it stores nothing. *)

LEMMA StartingKeeps ==
    ASSUME IInv, NEW p \in Pollers, Start(p) \/ Search(p)
    PROVE  IInv'
<1>1. poll \in [Pollers -> Poll] /\ poll[p] \in Poll /\ Fit(poll[p])
  BY DEF IInv, TypeOK, Sessions
<1>2. /\ UNCHANGED <<config, media, processed>>
      /\ box' = box /\ lastPoll' = lastPoll /\ faults' = faults /\ fate' = fate
      /\ poll[p].pc \in {"idle", "search"}
  BY DEF Start, Search, At
<1>3. box' \in [Messages -> Mail] /\ lastPoll' \in {"none", "success", "error"}
  BY <1>2 DEF IInv, TypeOK
<1>4. \A i \in Items : ~InHand(p, i)
  BY <1>2 DEF InHand, At
<1>5. PICK new \in Poll : Fit(new) /\ poll' = [poll EXCEPT ![p] = new]
  <2>1. CASE Start(p)
    <3> DEFINE new == [poll[p] EXCEPT !.pc = "search",
                                      !.known = IF config.imap THEN {} ELSE processed]
    <3>1. new \in Poll /\ Fit(new)
      BY <1>1, <1>2 DEF Poll, Fit, IInv, TypeOK
    <3>2. poll' = [poll EXCEPT ![p] = new]
      BY <1>1, <2>1 DEF Start
    <3> QED
      BY <3>1, <3>2
  <2>2. CASE Search(p)
    <3> DEFINE new == [poll[p] EXCEPT !.pc = "fetch", !.known = {},
                                      !.work = IF config.imap THEN Unseen
                                               ELSE Listed \ poll[p].known]
    <3>1. new \in Poll /\ Fit(new)
      BY <1>1, <1>2 DEF Poll, Fit, Unseen, Listed
    <3>2. poll' = [poll EXCEPT ![p] = new]
      BY <1>1, <2>2 DEF Search
    <3> QED
      BY <3>1, <3>2
  <2> QED
    BY <2>1, <2>2
<1> QED
  BY <1>2, <1>3, <1>4, <1>5, OnePoll

LEMMA FetchingKeeps ==
    ASSUME IInv, NEW p \in Pollers, NEW m \in Messages, Fetch(p, m)
    PROVE  IInv'
<1>1. /\ poll \in [Pollers -> Poll] /\ poll[p] \in Poll /\ Fit(poll[p])
      /\ box \in [Messages -> Mail]
  BY DEF IInv, TypeOK, Sessions
<1> DEFINE new == [poll[p] EXCEPT !.work = @ \ {m}, !.fetched = @ \cup {m}]
<1>2. /\ UNCHANGED <<config, media, processed>>
      /\ lastPoll' = lastPoll /\ faults' = faults /\ fate' = fate
      /\ poll[p].pc = "fetch" /\ poll' = [poll EXCEPT ![p] = new]
      /\ box' = [box EXCEPT ![m] = IF ~config.imap THEN @
                                   ELSE IF config.delete THEN "flagged" ELSE "seen"]
  BY <1>1 DEF Fetch, At
<1>3. new \in Poll /\ Fit(new) /\ new.pc = "fetch" /\ new.fetched = poll[p].fetched \cup {m}
  BY <1>1, <1>2 DEF Poll, Fit
<1>4. box' \in [Messages -> Mail] /\ lastPoll' \in {"none", "success", "error"}
  BY <1>1, <1>2 DEF IInv, TypeOK, Mail
<1>5. \A i \in Items : InHand(p, i) => i[1] \in poll[p].fetched
  BY <1>2 DEF InHand, At
<1>6. \A i \in Items : box'[i[1]] # box[i[1]] => i[1] = m
  BY <1>1, <1>2, ItemsOfMessages
<1> HIDE DEF new
<1>7. \A i \in Items : box'[i[1]] \in Taken => box[i[1]] \in Taken \/ i[1] \in new.fetched
  BY <1>3, <1>6
<1> QED
  BY <1>2, <1>3, <1>4, <1>5, <1>7, OnePoll

(* The results are handed over: what the session has in hand stays there, *)
(* and what is removed is in it (email_ingestion.py:123-126, 201-204).    *)
LEMMA DisconnectingKeeps ==
    ASSUME IInv, NEW p \in Pollers, Disconnect(p)
    PROVE  IInv'
<1>1. /\ poll \in [Pollers -> Poll] /\ poll[p] \in Poll /\ Fit(poll[p])
      /\ box \in [Messages -> Mail]
  BY DEF IInv, TypeOK, Sessions
<1> DEFINE new == [poll[p] EXCEPT !.pc = "store",
                                  !.items = {i \in Items : i[1] \in poll[p].fetched}]
<1>2. /\ UNCHANGED <<config, media, processed>>
      /\ lastPoll' = lastPoll /\ faults' = faults /\ fate' = fate
      /\ poll[p].pc = "fetch" /\ poll' = [poll EXCEPT ![p] = new]
      /\ box' = [m \in Messages |-> IF m \in Removed(p) THEN "gone" ELSE box[m]]
  BY <1>1 DEF Disconnect, At
<1>3. /\ new \in Poll /\ Fit(new) /\ new.pc = "store"
      /\ new.items = {i \in Items : i[1] \in poll[p].fetched}
  BY <1>1, <1>2 DEF Poll, Fit
<1>4. box' \in [Messages -> Mail] /\ lastPoll' \in {"none", "success", "error"}
  BY <1>1, <1>2 DEF IInv, TypeOK, Mail
<1>5. \A i \in Items : InHand(p, i) => i[1] \in poll[p].fetched
  BY <1>2 DEF InHand, At
<1> HIDE DEF new
<1>6. \A i \in Items : box'[i[1]] \in Taken => box[i[1]] \in Taken \/ i \in new.items
  BY <1>2, <1>3, ItemsOfMessages DEF Removed, Taken
<1> QED
  BY <1>2, <1>3, <1>4, <1>5, <1>6, OnePoll

(* The thread fails: what it has fetched is dropped. *)
LEMMA BreakingKeeps ==
    ASSUME IInv, NEW p \in Pollers,
           \/ \E m \in Messages : FetchFindsNone(p, m)
           \/ Disconnects(p) \/ DisconnectBreaks(p)
    PROVE  IInv'
<1>1. /\ poll \in [Pollers -> Poll] /\ poll[p] \in Poll /\ Fit(poll[p])
      /\ box \in [Messages -> Mail]
  BY DEF IInv, TypeOK, Sessions
<1> DEFINE new == [poll[p] EXCEPT !.pc = "failed"]
<1>2. new \in Poll /\ Fit(new)
  BY <1>1 DEF Poll, Fit
<1>3. /\ UNCHANGED <<config, media, processed>> /\ lastPoll' = lastPoll
      /\ faults' = faults \/ Fault
      /\ poll' = [poll EXCEPT ![p] = new]
  BY <1>1 DEF FetchFindsNone, Disconnects, DisconnectBreaks
<1>4. \E S : /\ Drops(S) /\ Held(p) \subseteq S
             /\ box' \in [Messages -> Mail]
             /\ \A i \in Items : box'[i[1]] \in Taken => box[i[1]] \in Taken \/ i \in S
  <2>1. ASSUME NEW m \in Messages, FetchFindsNone(p, m)
        PROVE  /\ Drops(Held(p)) /\ box' = box
    BY <2>1 DEF FetchFindsNone
  <2>2. CASE Disconnects(p)
    <3>1. PICK ms \in {{}} \cup {{m} : m \in IF config.imap THEN poll[p].work \cap Unseen
                                              ELSE {}} :
             /\ box' = [m \in Messages |-> IF m \in ms THEN "seen" ELSE box[m]]
             /\ Drops(Held(p) \cup {i \in Items : i[1] \in ms})
      BY <2>2 DEF Disconnects
    <3>2. box' \in [Messages -> Mail]
      BY <1>1, <3>1 DEF Mail
    <3>3. \A i \in Items : box'[i[1]] # box[i[1]] => i[1] \in ms
      BY <1>1, <3>1, ItemsOfMessages
    <3> QED
      BY <3>1, <3>2, <3>3
  <2>3. CASE DisconnectBreaks(p)
    <3>1. PICK ms \in SUBSET Removed(p) :
             box' = [m \in Messages |-> IF m \in ms THEN "gone" ELSE box[m]]
      BY <2>3 DEF DisconnectBreaks
    <3>2. box' \in [Messages -> Mail] /\ Drops(Held(p)) /\ poll[p].pc = "fetch"
      BY <1>1, <2>3, <3>1 DEF Mail, DisconnectBreaks, At
    <3>3. \A i \in Items : box'[i[1]] # box[i[1]] => box[i[1]] = "flagged" \/ i \in Held(p)
      BY <1>1, <3>1, <3>2, ItemsOfMessages DEF Removed, Held, InHand, At
    <3> QED
      BY <3>2, <3>3 DEF Taken
  <2> QED
    BY <1>1, <2>1, <2>2, <2>3
<1>5. PICK S : /\ Drops(S) /\ Held(p) \subseteq S
               /\ box' \in [Messages -> Mail]
               /\ \A i \in Items : box'[i[1]] \in Taken => box[i[1]] \in Taken \/ i \in S
  BY <1>4
<1>6. \A i \in Items : InHand(p, i) => i \in S
  BY <1>5 DEF Held
<1>7. lastPoll' \in {"none", "success", "error"}
  BY <1>3 DEF IInv, TypeOK
<1> HIDE DEF new
<1> QED
  BY <1>2, <1>3, <1>5, <1>6, <1>7, OnePoll

-----------------------------------------------------------------------------
(* The session *)

(* The row that is found, or inserted, has the new attachment: no other    *)
(* row of the session has it (media_service.py:200-270).                   *)
LEMMA StoringKeeps ==
    ASSUME IInv, NEW p \in Pollers, NEW i \in Items, StoreItem(p, i)
    PROVE  IInv'
<1>1. /\ poll \in [Pollers -> Poll] /\ poll[p] \in Poll /\ Fit(poll[p])
      /\ media \subseteq Row
  BY DEF IInv, TypeOK, Sessions
<1> DEFINE by == IF Existing(p, i) = {} THEN p
                 ELSE (CHOOSE r \in Existing(p, i) : TRUE).by
           row == [by |-> by, item |-> i]
           new == [poll[p] EXCEPT !.items = @ \ {i}, !.stored = @ \cup {i},
                                  !.rows = Overlay(@, {row})]
<1>2. /\ UNCHANGED <<config, media, processed>>
      /\ box' = box /\ lastPoll' = lastPoll /\ faults' = faults /\ fate' = fate
      /\ poll[p].pc = "store" /\ i \in poll[p].items
      /\ poll' = [poll EXCEPT ![p] = new]
  BY <1>1 DEF StoreItem, At
<1>3. row \in Row
  <2>1. Existing(p, i) \subseteq Row
    BY <1>1 DEF Existing, Named, Overlay, Poll
  <2> QED
    BY <2>1 DEF Row
<1>4. row.item = i
  OBVIOUS
<1> HIDE DEF row
<1>5. new.rows = {r \in poll[p].rows : ~SameRow(r, row)} \cup {row}
  BY <1>1 DEF Overlay, Poll
<1>6. /\ new \in Poll /\ new.pc = "store"
      /\ new.items = poll[p].items \ {i} /\ new.stored = poll[p].stored \cup {i}
  BY <1>1, <1>2, <1>3 DEF Poll, Overlay
<1> HIDE DEF new
<1>7. Fit(new)
  <2>1. i \notin poll[p].stored
    BY <1>1, <1>2 DEF Fit
  <2>2. \A r \in poll[p].rows : r.item # i
    BY <1>1, <2>1 DEF Fit
  <2>3. \A r, t \in new.rows : SameRow(r, t) \/ r.item = t.item => r = t
    BY <1>1, <1>4, <1>5, <2>2 DEF Fit, SameRow
  <2>4. \A r \in new.rows : r.item \in new.stored
    BY <1>1, <1>4, <1>5, <1>6 DEF Fit
  <2>5. ASSUME NEW j \in new.stored
        PROVE  Named(new.rows, NameOf[j]) # {}
    <3>1. CASE j = i
      BY <1>4, <1>5, <3>1 DEF Named
    <3>2. CASE j # i
      <4>1. PICK r \in poll[p].rows : NameOf[r.item] = NameOf[j]
        BY <1>1, <1>6, <3>2 DEF Fit, Named
      <4> QED
        BY <1>5, <4>1 DEF Named, SameRow
    <3> QED
      BY <3>1, <3>2
  <2>6. new.items \cap new.stored = {}
    BY <1>1, <1>6 DEF Fit
  <2> QED
    BY <1>6, <2>3, <2>4, <2>5, <2>6 DEF Fit
<1>8. \A j \in Items : InHand(p, j) => j \in new.items \cup new.stored
  BY <1>2, <1>6 DEF InHand, At
<1>9. box' \in [Messages -> Mail] /\ lastPoll' \in {"none", "success", "error"}
  BY <1>2 DEF IInv, TypeOK
<1> QED
  BY <1>2, <1>6, <1>7, <1>8, <1>9, OnePoll

(* A store that fails drops one attachment, a commit all that are left. *)
LEMMA FailingKeeps ==
    ASSUME IInv, NEW p \in Pollers,
           CommitFails(p) \/ \E i \in Items : StoreItemFails(p, i)
    PROVE  IInv'
<1>1. /\ poll \in [Pollers -> Poll] /\ poll[p] \in Poll /\ Fit(poll[p])
      /\ box \in [Messages -> Mail]
  BY DEF IInv, TypeOK, Sessions
<1>2. /\ UNCHANGED <<config, media, processed>>
      /\ box' = box /\ lastPoll' = lastPoll
      /\ faults' = faults \/ Fault
      /\ poll[p].pc = "store"
  BY DEF CommitFails, StoreItemFails, At, Fault
<1>3. box' \in [Messages -> Mail] /\ lastPoll' \in {"none", "success", "error"}
  BY <1>2 DEF IInv, TypeOK
<1>4. CASE CommitFails(p)
  <2> DEFINE new == [poll[p] EXCEPT !.pc = "failed"]
  <2>1. new \in Poll /\ Fit(new)
    BY <1>1 DEF Poll, Fit
  <2>2. poll' = [poll EXCEPT ![p] = new] /\ Drops(Held(p))
    BY <1>1, <1>4 DEF CommitFails
  <2>3. \A i \in Items : InHand(p, i) => i \in Held(p)
    BY DEF Held
  <2> HIDE DEF new
  <2> QED
    BY <1>2, <1>3, <2>1, <2>2, <2>3, OnePoll
<1>5. ASSUME NEW i \in Items, StoreItemFails(p, i)
      PROVE  IInv'
  <2>1. PICK broken \in BOOLEAN :
           poll' = [poll EXCEPT ![p].items = @ \ {i}, ![p].broken = broken]
    BY <1>5 DEF StoreItemFails
  <2> DEFINE new == [poll[p] EXCEPT !.items = @ \ {i}, !.broken = broken]
  <2>2. new \in Poll /\ Fit(new)
    BY <1>1 DEF Poll, Fit
  <2>3. poll' = [poll EXCEPT ![p] = new] /\ Drops({i})
    BY <1>1, <1>5, <2>1 DEF StoreItemFails
  <2>4. /\ new.pc = "store" /\ new.items = poll[p].items \ {i}
        /\ new.stored = poll[p].stored
    BY <1>1, <1>2 DEF Poll
  <2>5. \A j \in Items : InHand(p, j) => j \in {i} \/ j \in new.items \cup new.stored
    BY <1>2, <2>4 DEF InHand, At
  <2> HIDE DEF new
  <2> QED
    BY <1>2, <1>3, <2>2, <2>3, <2>4, <2>5, OnePoll
<1> QED
  BY <1>4, <1>5

(* The commit: with POP3 none of its UIDs is in the table, so that none of *)
(* its rows is there either (email_ingestion.py:242-260).                  *)
LEMMA CommittingKeeps ==
    ASSUME IInv, NEW p \in Pollers, Commit(p)
    PROVE  IInv'
<1>1. /\ poll \in [Pollers -> Poll] /\ poll[p] \in Poll /\ Fit(poll[p])
      /\ media \subseteq Row /\ processed \subseteq Messages
      /\ \A r, t \in media : SameRow(r, t) => r = t
      /\ Tables /\ NoneForgotten
  BY DEF IInv, TypeOK, Sessions
<1>2. /\ Uids(p) \cap processed = {}
      /\ media' = Overlay(media, poll[p].rows)
      /\ processed' = processed \cup Uids(p)
      /\ fate' = [i \in Items |-> IF i \in poll[p].stored THEN "imported" ELSE fate[i]]
      /\ poll' = [poll EXCEPT ![p] = Idle]
      /\ UNCHANGED <<config, box, faults>>
      /\ poll[p].pc = "store" /\ poll[p].items = {}
  BY DEF Commit, Collides, At
<1>3. /\ poll' \in [Pollers -> Poll] /\ poll'[p] = Idle
      /\ \A o \in Pollers \ {p} : poll'[o] = poll[o]
  BY <1>1, <1>2, IdlePoll
<1>4. poll[p].rows \subseteq Row /\ poll[p].stored \subseteq Items
  BY <1>1 DEF Poll
<1>5. media' \subseteq Row /\ \A r, t \in media' : SameRow(r, t) => r = t
  <2>1. \A r, t \in poll[p].rows : SameRow(r, t) => r = t
    BY <1>1 DEF Fit
  <2>2. \A r, t \in media' : SameRow(r, t) => r = t
    BY <1>1, <1>2, <2>1, OverlayFits
  <2> QED
    BY <1>1, <1>2, <1>4, <2>2 DEF Overlay
<1>6. Sessions'
  BY <1>3, IdlePoll DEF IInv, Sessions
<1>7. TypeOK'
  <2>1. lastPoll' \in {"none", "success", "error"}
    BY DEF Commit, Records, IInv, TypeOK
  <2>2. processed' \subseteq Messages
    BY <1>1, <1>2, <1>4, ItemsOfMessages DEF Uids
  <2>3. fate' \in [Items -> {"open", "imported", "lost"}]
    BY <1>2 DEF IInv, TypeOK
  <2>4. \A o \in Pollers : \A r, t \in poll'[o].rows : SameRow(r, t) => r = t
    BY <1>6 DEF Sessions, Fit, SameRow
  <2> QED
    BY <1>2, <1>3, <1>5, <2>1, <2>2, <2>3, <2>4 DEF IInv, TypeOK, SameRow
<1>8. ASSUME ~config.imap
      PROVE  /\ \A r \in poll[p].rows : r.item[1] \in Uids(p)
             /\ \A r \in media : r.item[1] \in processed
  BY <1>1, <1>8 DEF Fit, Uids, Tables, ProcessedHasMedia
<1>9. ImportedOnce'
  <2> SUFFICES ASSUME ~config.imap, NEW r \in media', NEW t \in media', r.item = t.item
               PROVE  r = t
    BY <1>2 DEF ImportedOnce
  <2>1. \A u \in media' : u \in media \/ u \in poll[p].rows
    BY <1>2 DEF Overlay
  <2>2. CASE r \in media /\ t \in media
    BY <1>1, <2>2 DEF Tables, ImportedOnce
  <2>3. CASE r \in poll[p].rows /\ t \in poll[p].rows
    BY <1>1, <2>3 DEF Fit
  <2>4. CASE \/ r \in media /\ t \in poll[p].rows
             \/ t \in media /\ r \in poll[p].rows
    BY <1>2, <1>8, <2>4
  <2> QED
    BY <2>1, <2>2, <2>3, <2>4
<1>10. ProcessedHasMedia'
  <2> SUFFICES ASSUME ~config.imap
               PROVE  /\ \A m \in processed' :
                             \E i \in Items : i[1] = m /\ Named(media', NameOf[i]) # {}
                      /\ \A r \in media' : r.item[1] \in processed'
    BY <1>2 DEF ProcessedHasMedia, Named
  <2>1. ASSUME NEW m \in processed'
        PROVE  \E i \in Items : i[1] = m /\ Named(media', NameOf[i]) # {}
    <3>1. CASE m \in processed
      <4>1. PICK i \in Items : i[1] = m /\ Named(media, NameOf[i]) # {}
        BY <1>1, <3>1 DEF Tables, ProcessedHasMedia
      <4> QED
        BY <1>2, <4>1, OverlayKeepsNames
    <3>2. CASE m \in Uids(p)
      <4>1. PICK i \in poll[p].stored : i[1] = m
        BY <3>2 DEF Uids
      <4>2. Named(poll[p].rows, NameOf[i]) # {}
        BY <1>1 DEF Fit
      <4> QED
        BY <1>2, <1>4, <4>1, <4>2, OverlayKeepsNames
    <3> QED
      BY <1>2, <3>1, <3>2
  <2>2. \A r \in media' : r.item[1] \in processed'
    BY <1>2, <1>8 DEF Overlay
  <2> QED
    BY <2>1, <2>2
<1>11. NoneForgotten'
  <2> SUFFICES ASSUME NEW i \in Items
               PROVE  /\ box[i[1]] \in Taken /\ fate'[i] = "open" =>
                             \E o \in Pollers : InHand(o, i)'
                      /\ fate'[i] = "imported" => Named(media', NameOf[i]) # {}
    BY <1>2 DEF NoneForgotten, Named, Taken
  <2>1. CASE i \in poll[p].stored
    <3>1. Named(poll[p].rows, NameOf[i]) # {}
      BY <1>1, <2>1 DEF Fit
    <3> QED
      BY <1>2, <2>1, <3>1, OverlayKeepsNames
  <2>2. CASE i \notin poll[p].stored
    <3>1. fate'[i] = fate[i] /\ ~InHand(p, i)
      BY <1>2, <2>2 DEF InHand, At
    <3>2. \A o \in Pollers : InHand(o, i) => InHand(o, i)'
      BY <1>3, <3>1 DEF InHand, At
    <3>3. Named(media, NameOf[i]) # {} => Named(media', NameOf[i]) # {}
      BY <1>2, OverlayKeepsNames
    <3> QED
      BY <1>1, <3>1, <3>2, <3>3 DEF NoneForgotten
  <2> QED
    BY <2>1, <2>2
<1> QED
  BY <1>6, <1>7, <1>9, <1>10, <1>11 DEF IInv, Tables

-----------------------------------------------------------------------------
LEMMA StepKeeps ==
    ASSUME IInv, [Next]_vars
    PROVE  IInv'
<1>1. ASSUME NEW m \in Messages, Arrives(m)
      PROVE  IInv'
  <2>1. /\ UNCHANGED <<config, media, processed, poll, lastPoll, faults, fate>>
        /\ box[m] = "unsent" /\ box' = [box EXCEPT ![m] = "new"]
    BY <1>1 DEF Arrives
  <2>2. /\ box \in [Messages -> Mail] /\ poll \in [Pollers -> Poll] /\ faults \in 0..MaxFaults
        /\ lastPoll \in {"none", "success", "error"}
        /\ fate \in [Items -> {"open", "imported", "lost"}]
        /\ \A o \in Pollers : Fit(poll[o])
    BY DEF IInv, TypeOK, Sessions
  <2>3. box' \in [Messages -> Mail]
    BY <2>1, <2>2 DEF Mail
  <2>4. \A i \in Items : box'[i[1]] \in Taken => box[i[1]] \in Taken
    BY <2>1, <2>2, ItemsOfMessages DEF Taken
  <2>5. \A o \in Pollers, i \in Items : InHand(o, i) => InHand(o, i)'
    BY <2>1 DEF InHand, At
  <2>6. TypeOK' /\ Sessions' /\ Tables'
    BY <2>1, <2>2, <2>3, TablesStay
  <2>7. NoneForgotten'
    <3> DEFINE S == {}
    <3>1. \A i \in Items : fate'[i] = IF /\ i \in S /\ fate[i] = "open"
                                          /\ box'[i[1]] \in Taken
                                       THEN "lost" ELSE fate[i]
      BY <2>1
    <3> HIDE DEF S
    <3> QED
      BY <2>1, <2>4, <2>5, <3>1, NoneSlips
  <2> QED
    BY <2>6, <2>7 DEF IInv
<1>2. ASSUME NEW p \in Pollers, PollStep(p)
      PROVE  IInv'
  <2>1. CASE Failed(p)
    <3>1. /\ UNCHANGED <<config, media, processed>>
          /\ box' = box /\ faults' = faults /\ fate' = fate
          /\ poll' = [poll EXCEPT ![p] = Idle] /\ poll[p].pc = "failed"
      BY <2>1 DEF Failed, At
    <3>2. box' \in [Messages -> Mail] /\ lastPoll' \in {"none", "success", "error"}
      BY <2>1, <3>1 DEF Failed, Records, IInv, TypeOK
    <3>3. \A i \in Items : ~InHand(p, i)
      BY <3>1 DEF InHand, At
    <3> QED
      BY <3>1, <3>2, <3>3, IdlePoll, OnePoll
  <2>2. CASE Commit(p) \/ \E i \in Items : StoreItem(p, i)
    BY <2>2, CommittingKeeps, StoringKeeps
  <2>3. CASE CommitFails(p) \/ \E i \in Items : StoreItemFails(p, i)
    BY <2>3, FailingKeeps
  <2>4. CASE \/ \E m \in Messages : FetchFindsNone(p, m)
             \/ Disconnects(p) \/ DisconnectBreaks(p)
    BY <2>4, BreakingKeeps
  <2>5. CASE Start(p) \/ Search(p) \/ Disconnect(p) \/ \E m \in Messages : Fetch(p, m)
    BY <2>5, StartingKeeps, DisconnectingKeeps, FetchingKeeps
  <2> QED
    BY <1>2, <2>1, <2>2, <2>3, <2>4, <2>5 DEF PollStep
<1>3. CASE Restart
  <2>1. /\ UNCHANGED <<config, box, media, processed, lastPoll>> /\ Fault
        /\ poll' = [p \in Pollers |-> Idle]
        /\ Drops(UNION {Held(p) : p \in Pollers})
    BY <1>3 DEF Restart
  <2>2. /\ box' \in [Messages -> Mail] /\ lastPoll' \in {"none", "success", "error"}
        /\ faults' \in 0..MaxFaults
    BY <2>1, EmailAssumption DEF Fault, IInv, TypeOK
  <2>3. \A o \in Pollers : poll'[o] \in Poll /\ Fit(poll'[o])
    BY <2>1, IdlePoll
  <2>4. TypeOK' /\ Sessions' /\ Tables'
    BY <2>1, <2>2, <2>3, DropsTyped, TablesStay
  <2>5. \A o \in Pollers, i \in Items : InHand(o, i) => i \in UNION {Held(p) : p \in Pollers}
    BY DEF Held
  <2>6. NoneForgotten'
    BY <2>1, <2>5, DropsTyped, NoneSlips
  <2> QED
    BY <2>4, <2>6 DEF IInv
<1>4. CASE UNCHANGED vars
  <2>1. UNCHANGED <<config, box, media, processed, poll, lastPoll, faults, fate>>
    BY <1>4 DEF vars
  <2>2. TypeOK' /\ Sessions'
    BY <2>1 DEF IInv, TypeOK, Sessions, SameRow, Fit
  <2>3. Tables' /\ NoneForgotten'
    BY <2>1 DEF IInv, Tables, ImportedOnce, ProcessedHasMedia, NoneForgotten, Named, Taken,
       InHand, At
  <2> QED
    BY <2>2, <2>3 DEF IInv
<1> QED
  BY <1>1, <1>2, <1>3, <1>4 DEF Next

-----------------------------------------------------------------------------
(* The inductive invariant holds of every state, for any mailbox, any      *)
(* attachments and any faults (email_ingestion.py:246-270).                *)
THEOREM Invariant == Spec => []IInv
<1>1. Init => IInv
  BY Initially
<1>2. IInv /\ [Next]_vars => IInv'
  BY StepKeeps
<1> QED
  BY <1>1, <1>2, PTL DEF Spec

(* The variables keep their types; who has inserted a row of a name        *)
(* overwrites it from then on (media_service.py:200-208).                  *)
THEOREM TypeCorrect == Spec => []TypeOK
<1>1. IInv => TypeOK
  BY DEF IInv
<1> QED
  BY <1>1, Invariant, PTL

(* POP3 imports no attachment twice, though two polls fetch it: the unique *)
(* constraint on the UID undoes the rows, too (email_ingestion.py:231-242).*)
THEOREM NoneImportedTwice == Spec => []ImportedOnce
<1>1. IInv => ImportedOnce
  BY DEF IInv, Tables
<1> QED
  BY <1>1, Invariant, PTL

(* With POP3 a UID in processed_emails has a row under a name of its       *)
(* message, and a row the UID of the message it shows, whatever has failed *)
(* on the way (email_ingestion.py:212-242).                                *)
THEOREM RowsComeWithUids == Spec => []ProcessedHasMedia
<1>1. IInv => ProcessedHasMedia
  BY DEF IInv, Tables
<1> QED
  BY <1>1, Invariant, PTL

(* An attachment whose message is marked or removed has been imported, is  *)
(* in the hand of a poll, or was in that of one that failed, the connection *)
(* that breaks at QUIT included (email_ingestion.py:108-148, 186-243).     *)
THEOREM NoneIsForgotten == Spec => []NoneForgotten
<1>1. IInv => NoneForgotten
  BY DEF IInv
<1> QED
  BY <1>1, Invariant, PTL
=============================================================================
