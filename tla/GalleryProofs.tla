---------------------------- MODULE GalleryProofs ----------------------------
(***************************************************************************)
(* Proofs about Gallery, for any set of files and any number of requests   *)
(* at the same time.                                                       *)
(*                                                                         *)
(* PageFollowsTable is not inductive: when an answer is handled, its files *)
(* leave the page, and nothing in the property says that they have left    *)
(* the table.  AnswersHold says so, from the moment the server answers.    *)
(***************************************************************************)
EXTENDS Gallery, FiniteSetTheorems, TLAPS

(* What a deletion reports as done is gone, or is excused. *)
AnswersHold ==
    \A c \in Calls : At(c, "ok") =>
        \A f \in call[c].ids : f \in excused \/ f \notin rows

IInv ==
    /\ TypeOK
    /\ PageShowsSelection
    /\ SelectedOnPage
    /\ PageFollowsTable
    /\ AnswersHold
    /\ OverlayMeansWork
    /\ LightboxLetsGo

-----------------------------------------------------------------------------
(* The toolbar can show any selection, whatever boxes there are: the type  *)
(* of what updateToolbar (gallery.js:145-166) leaves behind.               *)
LEMMA ToolbarType ==
    ASSUME NEW chosen \in SUBSET Files, NEW boxes \in SUBSET Files
    PROVE  Toolbar(chosen, boxes) \in [count : 0..Cardinality(Files), all : BOOLEAN]
<1>1. /\ IsFiniteSet(chosen)
      /\ Cardinality(chosen) <= Cardinality(Files)
  BY FilesAreFinite, FS_Subset
<1>2. Cardinality(chosen) \in Nat /\ Cardinality(Files) \in Nat
  BY <1>1, FilesAreFinite, FS_CardinalityType
<1>3. Cardinality(chosen) \in 0..Cardinality(Files)
  BY <1>1, <1>2
<1> QED
  BY <1>3 DEF Toolbar

(* A change of the selection leaves the set, the boxes and the toolbar in  *)
(* agreement, whatever boxes are on the page then (gallery.js:22-172).     *)
LEMMA SelectAgrees ==
    ASSUME NEW chosen \in SUBSET Files, NEW ticked \in SUBSET Files,
           items' \in SUBSET Files, stray \in SUBSET Files,
           chosen \cap items' = ticked \cap items',
           chosen \subseteq items' \cup stray,
           Select(chosen, ticked, items')
    PROVE  /\ selected' \in SUBSET Files /\ checked' \in SUBSET Files
           /\ stray' \in SUBSET Files
           /\ toolbar' \in [count : 0..Cardinality(Files), all : BOOLEAN]
           /\ PageShowsSelection'
           /\ SelectedOnPage'
<1>1. toolbar' = Toolbar(chosen, items') /\ selected' = chosen
  BY DEF Select
<1>2. Toolbar(chosen, items') \in [count : 0..Cardinality(Files), all : BOOLEAN]
  BY ToolbarType
<1>3. (toolbar = Toolbar(selected, items))'
  BY <1>1 DEF Toolbar
<1> QED
  BY <1>1, <1>2, <1>3 DEF Select, PageShowsSelection, SelectedOnPage

(* A request that is sent is new, so that no other one changes by it       *)
(* (gallery.js:192-197, 275-277, 240-245).                                 *)
LEMMA SendsType ==
    ASSUME TypeOK, NEW c \in Calls, NEW ids \in SUBSET Files,
           NEW kind \in {"bulk", "single", "download"},
           kind = "download" => ids = {}, Sends(c, kind, ids)
    PROVE  /\ call' \in [Calls -> {NoCall, Told} \cup Call]
           /\ call[c].pc = "none"
           /\ call'[c] = [pc |-> "sent", kind |-> kind, ids |-> ids]
           /\ \A d \in Calls \ {c} : call'[d] = call[d]
<1>1. [pc |-> "sent", kind |-> kind, ids |-> ids] \in Call
  BY DEF Call
<1> QED
  BY <1>1 DEF Sends, TypeOK, At

(* A request whose outcome is told is over, and no other one changes by it *)
(* (gallery.js:351-368).                                                   *)
LEMMA TellsType ==
    ASSUME TypeOK, NEW c \in Calls, Tells(c)
    PROVE  /\ call' \in [Calls -> {NoCall, Told} \cup Call]
           /\ call'[c] = Told
           /\ \A d \in Calls \ {c} : call'[d] = call[d]
<1> QED
  BY DEF Tells, TypeOK

(* A request under way is one of the records of Call. *)
LEMMA UnderwayType ==
    ASSUME TypeOK, NEW c \in Calls, call[c].pc \in {"sent", "ok", "bad"}
    PROVE  /\ call[c] \in Call
           /\ call[c].ids \in SUBSET Files
           /\ call[c].kind = "download" => call[c].ids = {}
<1>1. call[c] \in {NoCall, Told} \cup Call
  BY DEF TypeOK
<1>2. NoCall.pc = "none" /\ Told.pc = "told"
  BY DEF NoCall, Told
<1>3. call[c] \in Call
  BY <1>1, <1>2
<1> QED
  BY <1>3 DEF Call

(* Page, table and answers stay in agreement in a step that touches none   *)
(* of them.                                                                *)
LEMMA PageStays ==
    ASSUME IInv, UNCHANGED <<table, items, call>>
    PROVE  PageFollowsTable' /\ AnswersHold'
<1> QED
  BY DEF IInv, PageFollowsTable, AnswersHold, At, table

(* So does the selection. *)
LEMMA SelectionStays ==
    ASSUME IInv, UNCHANGED <<items, selection>>
    PROVE  PageShowsSelection' /\ SelectedOnPage'
<1>1. (toolbar = Toolbar(selected, items))'
  BY DEF IInv, PageShowsSelection, Toolbar, selection
<1> QED
  BY <1>1 DEF IInv, PageShowsSelection, SelectedOnPage, selection

(* And the view, if no request changes. *)
LEMMA ViewStays ==
    ASSUME IInv, UNCHANGED <<call, view>>
    PROVE  OverlayMeansWork' /\ LightboxLetsGo'
<1> QED
  BY DEF IInv, OverlayMeansWork, LightboxLetsGo, Underway, Is, view

(* A change of the selection and of nothing else on the page: clicks, keys *)
(* and buttons (gallery.js:22-102, 168-172).                               *)
LEMMA SelectionChanges ==
    ASSUME IInv, UNCHANGED <<table, items, modal, call>>,
           press' \in SUBSET Files,
           selected' \in SUBSET Files /\ checked' \in SUBSET Files,
           stray' \in SUBSET Files,
           toolbar' \in [count : 0..Cardinality(Files), all : BOOLEAN],
           PageShowsSelection', SelectedOnPage',
           overlay' = overlay, lightbox' \in Lightbox, LightboxLetsGo'
    PROVE  IInv'
<1>1. TypeOK'
  BY DEF IInv, TypeOK, table
<1>2. OverlayMeansWork'
  BY DEF IInv, OverlayMeansWork, Underway, Is
<1> QED
  BY <1>1, <1>2, PageStays DEF IInv

LEMMA Initially ==
    ASSUME Init
    PROVE  IInv
<1>1. Toolbar({}, Files) = [count |-> 0, all |-> FALSE]
  <2>1. Cardinality({}) = 0
    BY FS_EmptySet
  <2>2. Files # {} => Cardinality(Files) # 0
    BY FilesAreFinite, FS_EmptySet
  <2> QED
    BY <2>1, <2>2 DEF Toolbar
<1>2. TypeOK
  <2>1. [count |-> 0, all |-> FALSE] \in [count : 0..Cardinality(Files), all : BOOLEAN]
    BY <1>1, ToolbarType
  <2> QED
    BY <2>1 DEF Init, TypeOK, Closed, Lightbox
<1>3. PageShowsSelection /\ SelectedOnPage
  BY <1>1 DEF Init, PageShowsSelection, SelectedOnPage
<1>4. PageFollowsTable /\ AnswersHold
  BY DEF Init, PageFollowsTable, AnswersHold, At, NoCall
<1>5. OverlayMeansWork /\ LightboxLetsGo
  BY DEF Init, OverlayMeansWork, LightboxLetsGo, Closed
<1> QED
  BY <1>2, <1>3, <1>4, <1>5 DEF IInv

-----------------------------------------------------------------------------
(* What the user selects, by any of the means of init (gallery.js:17-143). *)
LEMMA SelectingKeeps ==
    ASSUME IInv,
           \/ \E f \in Files : Change(f) \/ LongPress(f)
           \/ SelectAll \/ CtrlA \/ CancelSelection \/ Escape
    PROVE  IInv'
<1>1. /\ items \in SUBSET Files /\ selected \in SUBSET Files /\ checked \in SUBSET Files
      /\ stray \in SUBSET Files /\ press \in SUBSET Files /\ lightbox \in Lightbox
      /\ selected \cap items = checked \cap items
      /\ selected \subseteq items \cup stray
  BY DEF IInv, TypeOK, PageShowsSelection, SelectedOnPage
<1>2. ASSUME NEW f \in Files, Change(f), f \in checked PROVE IInv'
  <2>1. Select(selected \ {f}, checked \ {f}, items') /\ items' = items
    BY <1>2 DEF Change
  <2>2. UNCHANGED <<table, press, modal, call, view>>
    BY <1>2 DEF Change
  <2>3. PageShowsSelection' /\ SelectedOnPage'
    BY <1>1, <2>1, SelectAgrees
  <2> QED
    BY <1>1, <2>1, <2>2, <2>3, SelectAgrees, SelectionChanges, ViewStays DEF view
<1>3. ASSUME NEW f \in Files, Change(f), f \notin checked PROVE IInv'
  <2>1. Select(selected \cup {f}, checked \cup {f}, items') /\ items' = items /\ f \in items
    BY <1>3 DEF Change
  <2>2. UNCHANGED <<table, press, modal, call, view>>
    BY <1>3 DEF Change
  <2> QED
    BY <1>1, <2>1, <2>2, SelectAgrees, SelectionChanges, ViewStays DEF view
<1>4. CASE SelectAll
  <2>1. /\ \/ Select(selected \ items, checked \ items, items')
           \/ Select(selected \cup items, checked \cup items, items')
        /\ items' = items
    BY <1>4 DEF SelectAll
  <2>2. UNCHANGED <<table, press, modal, call, view>>
    BY <1>4 DEF SelectAll
  <2> QED
    BY <1>1, <2>1, <2>2, SelectAgrees, SelectionChanges, ViewStays DEF view
<1>5. CASE CtrlA
  <2>1. Select(selected \cup items, checked \cup items, items') /\ items' = items
    BY <1>5 DEF CtrlA
  <2>2. UNCHANGED <<table, press, modal, call, view>>
    BY <1>5 DEF CtrlA
  <2> QED
    BY <1>1, <2>1, <2>2, SelectAgrees, SelectionChanges, ViewStays DEF view
<1>6. CASE CancelSelection
  <2>1. Select({}, checked \ items, items') /\ items' = items
    BY <1>6 DEF CancelSelection, ClearSelection
  <2>2. UNCHANGED <<table, press, modal, call, view>>
    BY <1>6 DEF CancelSelection
  <2> QED
    BY <1>1, <2>1, <2>2, SelectAgrees, SelectionChanges, ViewStays DEF view
<1>7. CASE Escape
  <2>1. Select({}, checked \ items, items') /\ items' = items
    BY <1>7 DEF Escape, ClearSelection
  <2>2. UNCHANGED <<table, press, modal, call, overlay>> /\ lightbox' = Closed
    BY <1>7 DEF Escape
  <2>3. lightbox' \in Lightbox /\ LightboxLetsGo'
    BY <2>2 DEF Closed, Lightbox, LightboxLetsGo
  <2> QED
    BY <1>1, <2>1, <2>2, <2>3, SelectAgrees, SelectionChanges
<1>8. ASSUME NEW f \in Files, LongPress(f), f \in checked PROVE IInv'
  <2>1. Select(selected \ {f}, checked \ {f}, items') /\ items' = items
    BY <1>8 DEF LongPress
  <2>2. UNCHANGED <<table, modal, call, view>> /\ press' = press \ {f}
    BY <1>8 DEF LongPress
  <2> QED
    BY <1>1, <2>1, <2>2, SelectAgrees, SelectionChanges, ViewStays DEF view
<1>9. ASSUME NEW f \in Files, LongPress(f), f \notin checked PROVE IInv'
  <2>1. /\ selected' = selected \cup {f} /\ checked' = checked \cup {f}
        /\ toolbar' = Toolbar(selected', items) /\ items' = items
        /\ stray' = stray \cup ({f} \ items)
        /\ press' = press \ {f}
    BY <1>9 DEF LongPress
  <2>2. UNCHANGED <<table, modal, call, view>>
    BY <1>9 DEF LongPress
  <2>3. toolbar' \in [count : 0..Cardinality(Files), all : BOOLEAN]
    BY <1>1, <2>1, ToolbarType
  <2>4. PageShowsSelection' /\ SelectedOnPage'
    <3>1. (toolbar = Toolbar(selected, items))'
      BY <2>1 DEF Toolbar
    <3> QED
      BY <1>1, <2>1, <3>1 DEF PageShowsSelection, SelectedOnPage
  <2> QED
    BY <1>1, <2>1, <2>2, <2>3, <2>4, SelectionChanges, ViewStays DEF view
<1> QED
  BY <1>2, <1>3, <1>4, <1>5, <1>6, <1>7, <1>8, <1>9

(* What the user does beside it: fingers, the modal, the lightbox.         *)
LEMMA ViewingKeeps ==
    ASSUME IInv,
           \/ \E f \in Files : TouchStart(f) \/ TouchEnd(f)
           \/ ShowDeleteModal \/ HideDeleteModal
           \/ \E view_ \in {"image", "video"} : OpenLightbox(view_)
           \/ CloseLightbox
    PROVE  IInv'
<1>1. UNCHANGED <<table, items, selection, call, overlay>>
  BY DEF TouchStart, TouchEnd, ShowDeleteModal, HideDeleteModal, OpenLightbox,
         CloseLightbox, view
<1>2. PageShowsSelection' /\ SelectedOnPage' /\ PageFollowsTable' /\ AnswersHold'
  BY <1>1, PageStays, SelectionStays
<1>3. press' \in SUBSET Files /\ modal' \in BOOLEAN
  BY DEF TouchStart, TouchEnd, ShowDeleteModal, HideDeleteModal, OpenLightbox,
         CloseLightbox, IInv, TypeOK
<1>4. lightbox' \in Lightbox /\ LightboxLetsGo'
  <2>1. ASSUME NEW view_ \in {"image", "video"}, OpenLightbox(view_)
        PROVE  lightbox' \in Lightbox /\ LightboxLetsGo'
    <3>1. lightbox' = [view |-> view_, locked |-> TRUE, playing |-> view_ = "video"]
      BY <2>1 DEF OpenLightbox
    <3>2. (view_ = "video") \in BOOLEAN
      OBVIOUS
    <3> QED
      BY <3>1, <3>2 DEF Lightbox, LightboxLetsGo
  <2>2. CASE CloseLightbox
    BY <2>2 DEF CloseLightbox, Closed, Lightbox, LightboxLetsGo
  <2>3. CASE UNCHANGED lightbox
    BY <2>3 DEF IInv, TypeOK, LightboxLetsGo
  <2> QED
    BY <2>1, <2>2, <2>3 DEF TouchStart, TouchEnd, ShowDeleteModal, HideDeleteModal, view
<1>5. OverlayMeansWork'
  BY <1>1 DEF IInv, OverlayMeansWork, Underway, Is
<1>6. TypeOK'
  BY <1>1, <1>3, <1>4 DEF IInv, TypeOK, table, selection
<1> QED
  BY <1>2, <1>4, <1>5, <1>6 DEF IInv

-----------------------------------------------------------------------------
(* A request that starts has no answer yet, and none that covers the page  *)
(* ends by it (gallery.js:186-197, 227-245, 271-277).                      *)
LEMMA SendingKeeps ==
    ASSUME IInv, NEW c \in Calls,
           \/ DeleteSelected(c) \/ DownloadSelected(c) \/ DownloadAll(c)
           \/ \E f \in Files : DeleteSingleItem(c, f)
    PROVE  IInv'
<1>1. ASSUME NEW kind \in {"bulk", "single", "download"}, NEW ids \in SUBSET Files,
             Sends(c, kind, ids), kind = "download" => ids = {},
             overlay' = overlay \/ (kind = "download" /\ overlay' = TRUE),
             UNCHANGED <<table, items, selection, press, lightbox>>, modal' \in BOOLEAN
      PROVE  IInv'
  <2>1. /\ call' \in [Calls -> {NoCall, Told} \cup Call]
        /\ call[c].pc = "none"
        /\ call'[c] = [pc |-> "sent", kind |-> kind, ids |-> ids]
        /\ \A d \in Calls \ {c} : call'[d] = call[d]
    BY <1>1, SendsType DEF IInv
  <2>2. TypeOK'
    BY <1>1, <2>1 DEF IInv, TypeOK, table, selection
  <2>3. PageShowsSelection' /\ SelectedOnPage'
    BY <1>1, SelectionStays
  <2>4. PageFollowsTable'
    BY <1>1, <2>1 DEF IInv, PageFollowsTable, At, table
  <2>5. AnswersHold'
    BY <1>1, <2>1 DEF IInv, AnswersHold, At, table
  <2>6. OverlayMeansWork'
    <3>1. CASE overlay' = overlay
      BY <3>1, <2>1 DEF IInv, OverlayMeansWork, Underway, Is
    <3>2. CASE kind = "download"
      BY <3>2, <2>1 DEF OverlayMeansWork, Underway, Is
    <3> QED
      BY <1>1, <3>1, <3>2
  <2>7. LightboxLetsGo'
    BY <1>1 DEF IInv, LightboxLetsGo
  <2> QED
    BY <2>2, <2>3, <2>4, <2>5, <2>6, <2>7 DEF IInv
<1>2. CASE DeleteSelected(c)
  <2>1. selected \in SUBSET Files
    BY DEF IInv, TypeOK
  <2>2. /\ Sends(c, "bulk", selected) /\ overlay' = overlay /\ modal' = FALSE
        /\ UNCHANGED <<table, items, selection, press, lightbox>>
    BY <1>2 DEF DeleteSelected, view
  <2> QED
    BY <1>1, <2>1, <2>2
<1>3. CASE DownloadSelected(c) \/ DownloadAll(c)
  <2>1. /\ Sends(c, "download", {}) /\ overlay' = TRUE /\ modal' \in BOOLEAN
        /\ UNCHANGED <<table, items, selection, press, lightbox>>
    BY <1>3 DEF DownloadSelected, DownloadAll, Download, IInv, TypeOK
  <2> QED
    BY <1>1, <2>1
<1>4. ASSUME NEW f \in Files, DeleteSingleItem(c, f)
      PROVE  IInv'
  <2>1. /\ Sends(c, "single", {f}) /\ overlay' = overlay /\ modal' \in BOOLEAN
        /\ UNCHANGED <<table, items, selection, press, lightbox>>
    BY <1>4 DEF DeleteSingleItem, view, IInv, TypeOK
  <2>2. {f} \in SUBSET Files
    BY <1>4
  <2> QED
    BY <1>1, <2>1, <2>2
<1> QED
  BY <1>2, <1>3, <1>4

(* The server's step: what it reports as done is gone or excused, and what *)
(* it has done without saying so is excused (routes/api.py:198-252).       *)
LEMMA ServingKeeps ==
    ASSUME IInv, NEW c \in Calls, Serve(c)
    PROVE  IInv'
<1>1. call[c] \in Call /\ call[c].ids \in SUBSET Files /\ call[c].pc = "sent"
  BY UnderwayType DEF Serve, At, IInv
<1>2. PICK done \in SUBSET (call[c].ids \cap rows), pc \in {"ok", "bad"} :
        /\ Is(c, "single") /\ pc = "ok" => done = call[c].ids \cap rows
        /\ rows' = rows \ done
        /\ excused' = excused \cup
              (items \cap IF pc = "bad" THEN done ELSE call[c].ids \cap rows')
        /\ call' = [call EXCEPT ![c].pc = pc]
  BY DEF Serve
<1>3. UNCHANGED <<items, selection, press, modal, view>>
  BY DEF Serve
<1>4. /\ call'[c] = [call[c] EXCEPT !.pc = pc]
      /\ call'[c] \in Call
      /\ call'[c].pc = pc /\ call'[c].kind = call[c].kind /\ call'[c].ids = call[c].ids
      /\ \A d \in Calls \ {c} : call'[d] = call[d]
      /\ call' \in [Calls -> {NoCall, Told} \cup Call]
  BY <1>1, <1>2 DEF IInv, TypeOK, Call
<1>5. TypeOK'
  BY <1>1, <1>2, <1>3, <1>4 DEF IInv, TypeOK, selection, view
<1>6. PageShowsSelection' /\ SelectedOnPage'
  BY <1>3, SelectionStays
<1>7. AnswersHold'
  <2> SUFFICES ASSUME NEW d \in Calls, call'[d].pc = "ok", NEW f \in call'[d].ids
               PROVE  f \in excused' \/ f \notin rows'
    BY DEF AnswersHold, At
  <2>1. CASE d # c
    BY <2>1, <1>2, <1>4 DEF IInv, AnswersHold, At
  <2>2. CASE d = c /\ f \in items
    BY <2>2, <1>2, <1>4
  <2>3. CASE d = c /\ f \notin items
    (* It left the page by an earlier answer, which was true then. *)
    <3>1. f \in Files
      BY <2>3, <1>1, <1>4
    <3>2. f \in excused \/ f \notin rows
      BY <3>1, <2>3 DEF IInv, PageFollowsTable, AnswersHold, At
    <3> QED
      BY <3>2, <1>2
  <2> QED
    BY <2>1, <2>2, <2>3
<1>8. PageFollowsTable'
  <2> SUFFICES ASSUME NEW f \in Files
               PROVE  \/ f \in items' <=> f \in rows'
                      \/ f \in excused'
                      \/ \E d \in Calls : call'[d].pc = "ok" /\ f \in call'[d].ids
    BY DEF PageFollowsTable, At
  <2>1. CASE f \in excused
    BY <2>1, <1>2
  <2>2. CASE \E d \in Calls : call[d].pc = "ok" /\ f \in call[d].ids
    <3>1. PICK d \in Calls : call[d].pc = "ok" /\ f \in call[d].ids
      BY <2>2
    <3>2. d # c
      BY <3>1, <1>1
    <3> QED
      BY <3>1, <3>2, <1>4
  <2>3. CASE f \in items <=> f \in rows
    <3>1. CASE f \notin done
      BY <3>1, <2>3, <1>2, <1>3
    <3>2. CASE f \in done /\ pc = "ok"
      BY <3>2, <1>4
    <3>3. CASE f \in done /\ pc = "bad"
      BY <3>3, <2>3, <1>2
    <3> QED
      BY <3>1, <3>2, <3>3, <1>2
  <2> QED
    BY <2>1, <2>2, <2>3 DEF IInv, PageFollowsTable, At
<1>9. OverlayMeansWork'
  <2> SUFFICES ASSUME overlay
               PROVE  \E d \in Calls : (Underway(d) /\ Is(d, "download"))'
    BY <1>3 DEF OverlayMeansWork, view
  <2>1. PICK d \in Calls : Underway(d) /\ Is(d, "download")
    BY DEF IInv, OverlayMeansWork
  <2>2. (Underway(d) /\ Is(d, "download"))'
    BY <2>1, <1>4 DEF Underway, Is
  <2> QED
    BY <2>2
<1>10. LightboxLetsGo'
  BY <1>3 DEF IInv, LightboxLetsGo, view
<1> QED
  BY <1>5, <1>6, <1>7, <1>8, <1>9, <1>10 DEF IInv

(* Others delete: the page cannot know, and is excused. *)
LEMMA DeletedElsewhereKeeps ==
    ASSUME IInv, NEW f \in Files, DeletedElsewhere(f)
    PROVE  IInv'
<1>1. /\ rows' = rows \ {f} /\ excused' = excused \cup ({f} \cap items)
      /\ UNCHANGED <<items, selection, press, modal, call, view>>
  BY DEF DeletedElsewhere
<1>2. TypeOK'
  BY <1>1 DEF IInv, TypeOK, selection, view
<1>3. PageFollowsTable' /\ AnswersHold'
  BY <1>1 DEF IInv, PageFollowsTable, AnswersHold, At
<1> QED
  BY <1>1, <1>2, <1>3, SelectionStays, ViewStays DEF IInv

-----------------------------------------------------------------------------
(* An answer is handled: what leaves the page has left the table, and the  *)
(* overlay goes with the download (gallery.js:199-224, 247-268, 279-290).  *)
LEMMA HandlingKeeps ==
    ASSUME IInv, NEW c \in Calls,
           BulkDone(c) \/ SingleDone(c) \/ DeletionFails(c) \/ DownloadEnds(c)
    PROVE  IInv'
<1>1. /\ call[c].pc \in {"ok", "bad"} /\ Tells(c)
      /\ UNCHANGED <<table, press, modal, lightbox>>
  BY DEF BulkDone, SingleDone, DeletionFails, DownloadEnds, At, view
<1>2. /\ call[c].ids \in SUBSET Files
      /\ Is(c, "download") => call[c].ids = {}
  BY <1>1, UnderwayType DEF IInv, Is
<1>3. /\ call' \in [Calls -> {NoCall, Told} \cup Call]
      /\ call'[c].pc = "told"
      /\ \A d \in Calls \ {c} : call'[d] = call[d]
  BY <1>1, TellsType DEF IInv, Told
<1>4. /\ \/ items' = items /\ (Is(c, "download") \/ call[c].pc = "bad") /\ UNCHANGED selection
         \/ items' = items \ call[c].ids /\ call[c].pc = "ok" /\ ~Is(c, "download")
      /\ overlay' \in {overlay, FALSE}
      /\ Is(c, "download") => overlay' = FALSE
  BY DEF BulkDone, SingleDone, DeletionFails, DownloadEnds, At, Is, view
<1>5. /\ items' \in SUBSET Files
      /\ selected' \in SUBSET Files /\ checked' \in SUBSET Files
      /\ stray' \in SUBSET Files
      /\ toolbar' \in [count : 0..Cardinality(Files), all : BOOLEAN]
      /\ PageShowsSelection' /\ SelectedOnPage'
  <2>1. /\ items \in SUBSET Files /\ selected \in SUBSET Files /\ checked \in SUBSET Files
        /\ stray \in SUBSET Files
        /\ selected \cap items = checked \cap items
        /\ selected \subseteq items \cup stray
    BY DEF IInv, TypeOK, PageShowsSelection, SelectedOnPage
  <2>2. items' \in SUBSET Files
    BY <2>1, <1>4
  <2>3. CASE BulkDone(c)
    <3>1. Select({}, checked \ items', items')
      BY <2>3 DEF BulkDone, ClearSelection
    <3> QED
      BY <2>1, <2>2, <3>1, SelectAgrees
  <2>4. CASE SingleDone(c)
    <3>1. Select(selected \ call[c].ids, checked, items') /\ items' = items \ call[c].ids
      BY <2>4 DEF SingleDone
    <3> QED
      BY <2>1, <2>2, <3>1, SelectAgrees
  <2>5. CASE DeletionFails(c) \/ DownloadEnds(c)
    <3>1. UNCHANGED <<items, selection>>
      BY <2>5 DEF DeletionFails, DownloadEnds
    <3> QED
      BY <3>1, SelectionStays DEF IInv, TypeOK, selection
  <2> QED
    BY <2>2, <2>3, <2>4, <2>5
<1>6. TypeOK'
  BY <1>1, <1>3, <1>4, <1>5 DEF IInv, TypeOK, table
<1>7. AnswersHold'
  BY <1>1, <1>3 DEF IInv, AnswersHold, At, table
<1>8. PageFollowsTable'
  <2> SUFFICES ASSUME NEW f \in Files
               PROVE  \/ f \in items' <=> f \in rows
                      \/ f \in excused
                      \/ \E d \in Calls : call'[d].pc = "ok" /\ f \in call'[d].ids
    BY <1>1 DEF PageFollowsTable, At, table
  <2>1. CASE call[c].pc = "ok" /\ f \in call[c].ids /\ f \notin items'
    BY <2>1 DEF IInv, AnswersHold, At
  <2>2. CASE call[c].pc = "ok" /\ f \in call[c].ids /\ f \in items'
    BY <2>2, <1>2, <1>4
  <2>3. CASE ~(call[c].pc = "ok" /\ f \in call[c].ids)
    <3>1. f \in items' <=> f \in items
      BY <2>3, <1>4
    <3>2. \A d \in Calls : call[d].pc = "ok" /\ f \in call[d].ids => call'[d] = call[d]
      BY <2>3, <1>3
    <3> QED
      BY <3>1, <3>2 DEF IInv, PageFollowsTable, At
  <2> QED
    BY <2>1, <2>2, <2>3
<1>9. OverlayMeansWork'
  <2> SUFFICES ASSUME overlay'
               PROVE  \E d \in Calls : (Underway(d) /\ Is(d, "download"))'
    BY DEF OverlayMeansWork
  <2>1. overlay /\ ~Is(c, "download")
    BY <1>4
  <2>2. PICK d \in Calls : Underway(d) /\ Is(d, "download")
    BY <2>1 DEF IInv, OverlayMeansWork
  <2>3. (Underway(d) /\ Is(d, "download"))'
    BY <2>1, <2>2, <1>3 DEF Underway, Is
  <2> QED
    BY <2>3
<1>10. LightboxLetsGo'
  BY <1>1 DEF IInv, LightboxLetsGo
<1> QED
  BY <1>5, <1>6, <1>7, <1>8, <1>9, <1>10 DEF IInv

(* A message that fades changes nothing else (gallery.js:364-367). *)
LEMMA FadingKeeps ==
    ASSUME IInv, NEW c \in Calls, ToastFades(c)
    PROVE  IInv'
<1>1. /\ call[c].pc = "told"
      /\ call'[c] = NoCall
      /\ \A d \in Calls \ {c} : call'[d] = call[d]
      /\ call' \in [Calls -> {NoCall, Told} \cup Call]
      /\ UNCHANGED <<table, items, selection, press, modal, view>>
  BY DEF ToastFades, At, IInv, TypeOK
<1>2. call'[c].pc = "none"
  BY <1>1 DEF NoCall
<1>3. TypeOK'
  BY <1>1 DEF IInv, TypeOK, table, selection, view
<1>4. PageFollowsTable' /\ AnswersHold'
  BY <1>1, <1>2 DEF IInv, PageFollowsTable, AnswersHold, At, table
<1>5. OverlayMeansWork' /\ LightboxLetsGo'
  BY <1>1 DEF IInv, OverlayMeansWork, LightboxLetsGo, Underway, Is, view
<1> QED
  BY <1>1, <1>3, <1>4, <1>5, SelectionStays DEF IInv

-----------------------------------------------------------------------------
LEMMA StepKeeps ==
    ASSUME IInv, [Next]_vars
    PROVE  IInv'
<1>1. CASE User
  BY <1>1, SelectingKeeps, ViewingKeeps DEF User
<1>2. ASSUME NEW c \in Calls,
             \/ DeleteSelected(c) \/ DownloadSelected(c) \/ DownloadAll(c)
             \/ \E f \in Files : DeleteSingleItem(c, f)
      PROVE  IInv'
  BY <1>2, SendingKeeps
<1>3. ASSUME NEW c \in Calls, Serve(c) \/ Handled(c) \/ ToastFades(c)
      PROVE  IInv'
  BY <1>3, ServingKeeps, HandlingKeeps, FadingKeeps DEF Handled
<1>4. CASE \E f \in Files : DeletedElsewhere(f)
  BY <1>4, DeletedElsewhereKeeps
<1>5. CASE UNCHANGED vars
  <2>1. TypeOK'
    BY <1>5 DEF IInv, TypeOK, vars
  <2>2. UNCHANGED <<table, items, selection, call, view>>
    BY <1>5 DEF vars, table, selection, view
  <2> QED
    BY <2>1, <2>2, PageStays, SelectionStays, ViewStays DEF IInv
<1> QED
  BY <1>1, <1>2, <1>3, <1>4, <1>5 DEF Next

-----------------------------------------------------------------------------
(***************************************************************************)
(* The inductive invariant holds in every reachable state of the page.     *)
(***************************************************************************)
THEOREM Invariant == Spec => []IInv
<1>1. Init => IInv
  BY Initially
<1>2. IInv /\ [Next]_vars => IInv'
  BY StepKeeps
<1> QED
  BY <1>1, <1>2, PTL DEF Spec

(***************************************************************************)
(* Type correctness of the page.                                           *)
(***************************************************************************)
THEOREM TypeCorrect == Spec => []TypeOK
<1>1. IInv => TypeOK
  BY DEF IInv
<1> QED
  BY <1>1, Invariant, PTL

(***************************************************************************)
(* The set selectedIds, the ticked boxes and the toolbar agree in every    *)
(* state.                                                                  *)
(***************************************************************************)
THEOREM SelectionIsShown == Spec => []PageShowsSelection
<1>1. IInv => PageShowsSelection
  BY DEF IInv
<1> QED
  BY <1>1, Invariant, PTL

(***************************************************************************)
(* Nothing else than a press that outlived its element selects what the    *)
(* page does not show.                                                     *)
(***************************************************************************)
THEOREM SelectionIsOnPage == Spec => []SelectedOnPage
<1>1. IInv => SelectedOnPage
  BY DEF IInv
<1> QED
  BY <1>1, Invariant, PTL

(***************************************************************************)
(* However many requests are under way, and in whatever order they are     *)
(* answered, the page has the files of the table but for the excused ones. *)
(***************************************************************************)
THEOREM PageIsCurrent == Spec => []PageFollowsTable
<1>1. IInv => PageFollowsTable
  BY DEF IInv
<1> QED
  BY <1>1, Invariant, PTL

(***************************************************************************)
(* The overlay is there only while a download is prepared.                 *)
(***************************************************************************)
THEOREM OverlayIsJustified == Spec => []OverlayMeansWork
<1>1. IInv => OverlayMeansWork
  BY DEF IInv
<1> QED
  BY <1>1, Invariant, PTL

(***************************************************************************)
(* Closed, the lightbox neither plays nor locks the page; open, it plays   *)
(* only what it shows.                                                     *)
(***************************************************************************)
THEOREM LightboxIsReleased == Spec => []LightboxLetsGo
<1>1. IInv => LightboxLetsGo
  BY DEF IInv
<1> QED
  BY <1>1, Invariant, PTL
=============================================================================
