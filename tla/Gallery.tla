------------------------------- MODULE Gallery -------------------------------
(***************************************************************************)
(* The gallery page as static/js/gallery.js drives it: a selection kept    *)
(* twice, in a set and in the boxes of the page, changed by clicks, by the *)
(* keyboard and by a long press; deletions and downloads whose answers     *)
(* come back while the user goes on; and the lightbox.                     *)
(*                                                                         *)
(* The server is what routes/api.py lets the page see of it: a request may *)
(* be done in part, and its answer may be an error or be lost whatever was *)
(* done.  Others delete files meanwhile.                                   *)
(*                                                                         *)
(* A definition named Bad... is a plausible defect of the one after it.    *)
(***************************************************************************)
EXTENDS Naturals, FiniteSets

CONSTANTS
    Files,      \* the files that the page is loaded with
    Calls       \* requests of the page at the same time, messages included

ASSUME FilesAreFinite == IsFiniteSet(Files)

VARIABLES
    rows,       \* files of the event in the table
    items,      \* .media-item elements of the page
    checked,    \* boxes that are ticked, those of removed elements included
    selected,   \* selectedIds
    toolbar,    \* selected-count, and whether the button says "Deselect All"
    press,      \* long presses whose timer runs
    modal,      \* the deletion is being confirmed
    call,       \* fetches under way
    overlay,    \* download-overlay is shown
    lightbox,   \* what the lightbox shows, plays and locks
    excused,    \* history: page and table may differ, by no fault of the page
    stray       \* history: selected by a press that outlived its element

vars == <<rows, items, checked, selected, toolbar, press, modal, call, overlay,
          lightbox, excused, stray>>
table == <<rows, excused>>
selection == <<checked, selected, toolbar, stray>>
view == <<overlay, lightbox>>

-----------------------------------------------------------------------------
(* Types *)

NoCall == [pc |-> "none"]

(* "ok" and "bad": the answer has arrived and is not handled yet.  "told": *)
(* it has been, and its message is on the screen.                          *)
Told == [pc |-> "told"]
Call ==
    [pc : {"sent", "ok", "bad"}, kind : {"bulk", "single"}, ids : SUBSET Files]
    \cup [pc : {"sent", "ok", "bad"}, kind : {"download"}, ids : {{}}]

Lightbox == [view : {"none", "image", "video"}, playing : BOOLEAN, locked : BOOLEAN]

TypeOK ==
    /\ rows \subseteq Files
    /\ items \subseteq Files
    /\ checked \subseteq Files
    /\ selected \subseteq Files
    /\ toolbar \in [count : 0..Cardinality(Files), all : BOOLEAN]
    /\ press \subseteq Files
    /\ modal \in BOOLEAN
    /\ call \in [Calls -> {NoCall, Told} \cup Call]
    /\ overlay \in BOOLEAN
    /\ lightbox \in Lightbox
    /\ excused \subseteq Files
    /\ stray \subseteq Files

-----------------------------------------------------------------------------
(* Helpers *)

BadToolbar(chosen, boxes) ==
    [count |-> toolbar.count + Cardinality(chosen), all |-> chosen = boxes]

(* updateToolbar: the toolbar is hidden while nothing is selected. *)
Toolbar(chosen, boxes) ==
    [count |-> Cardinality(chosen),
     all |-> boxes # {} /\ Cardinality(chosen) = Cardinality(boxes)]

(* The set and the boxes of the page change together; a box that has left *)
(* the page keeps its tick.                                               *)
Select(chosen, ticked, boxes) ==
    /\ selected' = chosen
    /\ checked' = ticked
    /\ toolbar' = Toolbar(chosen, boxes)
    /\ stray' = stray \cap chosen

BadClearSelection(boxes) == Select({}, checked, boxes)

ClearSelection(boxes) == Select({}, checked \ boxes, boxes)

At(c, pc) == call[c].pc = pc
Is(c, kind) == call[c].kind = kind
Underway(c) == call[c].pc \in {"sent", "ok", "bad"}

(* Bound: no request is started behind the lightbox, which covers the page *)
(* and shares nothing with requests.                                       *)
Sends(c, kind, ids) ==
    /\ At(c, "none")
    /\ lightbox.view = "none"
    /\ call' = [call EXCEPT ![c] = [pc |-> "sent", kind |-> kind, ids |-> ids]]

(* showToast *)
Tells(c) == call' = [call EXCEPT ![c] = Told]

-----------------------------------------------------------------------------
(* init *)

Closed == [view |-> "none", playing |-> FALSE, locked |-> FALSE]

Init ==
    /\ rows = Files
    /\ items = Files
    /\ checked = {}
    /\ selected = {}
    /\ toolbar = [count |-> 0, all |-> FALSE]
    /\ press = {}
    /\ modal = FALSE
    /\ call = [c \in Calls |-> NoCall]
    /\ overlay = FALSE
    /\ lightbox = Closed
    /\ excused = {}
    /\ stray = {}

-----------------------------------------------------------------------------
(* The selection *)

(* A box is ticked or unticked.  The event "change" has no shiftKey, so    *)
(* that the range between two clicks is never taken.                       *)
Change(f) ==
    /\ f \in items
    /\ IF f \in checked THEN Select(selected \ {f}, checked \ {f}, items)
                        ELSE Select(selected \cup {f}, checked \cup {f}, items)
    /\ UNCHANGED <<table, items, press, modal, call, view>>

(* The button goes by the number of selected files. *)
SelectAll ==
    /\ IF Cardinality(selected) = Cardinality(items)
       THEN Select(selected \ items, checked \ items, items)
       ELSE Select(selected \cup items, checked \cup items, items)
    /\ UNCHANGED <<table, items, press, modal, call, view>>

CtrlA ==
    /\ Select(selected \cup items, checked \cup items, items)
    /\ UNCHANGED <<table, items, press, modal, call, view>>

CancelSelection ==
    /\ toolbar.count > 0
    /\ ClearSelection(items)
    /\ UNCHANGED <<table, items, press, modal, call, view>>

(* Bound: one finger. *)
TouchStart(f) ==
    /\ f \in items
    /\ press = {}
    /\ press' = {f}
    /\ UNCHANGED <<table, items, selection, modal, call, view>>

TouchEnd(f) ==
    /\ f \in press
    /\ press' = press \ {f}
    /\ UNCHANGED <<table, items, selection, modal, call, view>>

(* The timer is not stopped when its element is removed. *)
LongPress(f) ==
    /\ f \in press
    /\ press' = press \ {f}
    /\ IF f \in checked
       THEN Select(selected \ {f}, checked \ {f}, items)
       ELSE /\ selected' = selected \cup {f}
            /\ checked' = checked \cup {f}
            /\ toolbar' = Toolbar(selected', items)
            /\ stray' = stray \cup ({f} \ items)
    /\ UNCHANGED <<table, items, modal, call, view>>

-----------------------------------------------------------------------------
(* Deletions *)

ShowDeleteModal ==
    /\ toolbar.count > 0
    /\ modal' = TRUE
    /\ UNCHANGED <<table, items, selection, press, call, view>>

HideDeleteModal ==
    /\ modal
    /\ modal' = FALSE
    /\ UNCHANGED <<table, items, selection, press, call, view>>

(* What is selected now, which need not be what the modal has counted. *)
DeleteSelected(c) ==
    /\ modal
    /\ modal' = FALSE
    /\ Sends(c, "bulk", selected)
    /\ UNCHANGED <<table, items, selection, press, view>>

DeleteSingleItem(c, f) ==
    /\ f \in items
    /\ Sends(c, "single", {f})
    /\ UNCHANGED <<table, items, selection, press, modal, view>>

BulkDone(c) ==
    /\ At(c, "ok") /\ Is(c, "bulk")
    /\ items' = items \ call[c].ids
    /\ ClearSelection(items')
    /\ Tells(c)
    /\ UNCHANGED <<table, press, modal, view>>

BadSingleDone(c) ==
    /\ At(c, "ok") /\ Is(c, "single")
    /\ items' = items \ call[c].ids
    /\ Select(selected, checked, items')
    /\ Tells(c)
    /\ UNCHANGED <<table, press, modal, view>>

SingleDone(c) ==
    /\ At(c, "ok") /\ Is(c, "single")
    /\ items' = items \ call[c].ids
    /\ Select(selected \ call[c].ids, checked, items')
    /\ Tells(c)
    /\ UNCHANGED <<table, press, modal, view>>

BadDeletionFails(c) ==
    /\ At(c, "bad") /\ ~Is(c, "download")
    /\ items' = items \ call[c].ids
    /\ Tells(c)
    /\ UNCHANGED <<table, selection, press, modal, view>>

BadDeletionFailsSilently(c) ==
    /\ At(c, "bad") /\ ~Is(c, "download")
    /\ call' = [call EXCEPT ![c] = NoCall]
    /\ UNCHANGED <<table, items, selection, press, modal, view>>

(* The page stays as it is, whatever the server has done. *)
DeletionFails(c) ==
    /\ At(c, "bad") /\ ~Is(c, "download")
    /\ Tells(c)
    /\ UNCHANGED <<table, items, selection, press, modal, view>>

-----------------------------------------------------------------------------
(* Downloads.  Which files they are of changes nothing on the page. *)

Download(c) ==
    /\ Sends(c, "download", {})
    /\ overlay' = TRUE
    /\ UNCHANGED <<table, items, selection, press, modal, lightbox>>

DownloadSelected(c) == toolbar.count > 0 /\ Download(c)

DownloadAll(c) == Download(c)

BadDownloadEnds(c) ==
    /\ At(c, "ok") \/ At(c, "bad")
    /\ Is(c, "download")
    /\ Tells(c)
    /\ overlay' = (overlay /\ At(c, "bad"))
    /\ UNCHANGED <<table, items, selection, press, modal, lightbox>>

(* However it ends, the overlay goes, that of another download included. *)
DownloadEnds(c) ==
    /\ At(c, "ok") \/ At(c, "bad")
    /\ Is(c, "download")
    /\ Tells(c)
    /\ overlay' = FALSE
    /\ UNCHANGED <<table, items, selection, press, modal, lightbox>>

-----------------------------------------------------------------------------
(* The server, the connection and the clock *)

(* The answer to a bulk deletion is "ok" with the files that were not      *)
(* found or failed among its errors, which the page does not look up.  A   *)
(* single one is "ok" too if someone else was faster.  An error may come   *)
(* after all was done.                                                     *)
Serve(c) ==
    /\ At(c, "sent")
    /\ \E done \in SUBSET (call[c].ids \cap rows), pc \in {"ok", "bad"} :
          /\ Is(c, "download") => done = {}
          /\ Is(c, "single") /\ pc = "ok" => done = call[c].ids \cap rows
          /\ rows' = rows \ done
          /\ excused' = excused \cup
                (items \cap IF pc = "bad" THEN done ELSE call[c].ids \cap rows')
          /\ call' = [call EXCEPT ![c].pc = pc]
    /\ UNCHANGED <<items, selection, press, modal, view>>

DeletedElsewhere(f) ==
    /\ f \in rows
    /\ rows' = rows \ {f}
    /\ excused' = excused \cup ({f} \cap items)
    /\ UNCHANGED <<items, selection, press, modal, call, view>>

ToastFades(c) ==
    /\ At(c, "told")
    /\ call' = [call EXCEPT ![c] = NoCall]
    /\ UNCHANGED <<table, items, selection, press, modal, view>>

-----------------------------------------------------------------------------
(* The lightbox *)

BadOpenLightbox(view_) ==
    /\ lightbox' = [view |-> view_, locked |-> TRUE,
                    playing |-> lightbox.playing \/ view_ = "video"]
    /\ UNCHANGED <<table, items, selection, press, modal, call, overlay>>

(* Bound: see Sends. *)
OpenLightbox(view_) ==
    /\ items # {}
    /\ \A c \in Calls : ~Underway(c)
    /\ lightbox' = [view |-> view_, locked |-> TRUE,
                    playing |-> view_ = "video"]
    /\ UNCHANGED <<table, items, selection, press, modal, call, overlay>>

CloseLightbox ==
    /\ lightbox.view # "none"
    /\ lightbox' = Closed
    /\ UNCHANGED <<table, items, selection, press, modal, call, overlay>>

(* The key closes the lightbox and clears the selection, not the modal. *)
Escape ==
    /\ ClearSelection(items)
    /\ lightbox' = Closed
    /\ UNCHANGED <<table, items, press, modal, call, overlay>>

-----------------------------------------------------------------------------
Handled(c) == BulkDone(c) \/ SingleDone(c) \/ DeletionFails(c) \/ DownloadEnds(c)

User ==
    \/ \E f \in Files : Change(f) \/ TouchStart(f) \/ TouchEnd(f) \/ LongPress(f)
    \/ SelectAll \/ CtrlA \/ CancelSelection \/ Escape
    \/ ShowDeleteModal \/ HideDeleteModal
    \/ \E view_ \in {"image", "video"} : OpenLightbox(view_)
    \/ CloseLightbox

Next ==
    \/ User
    \/ \E c \in Calls :
          \/ DeleteSelected(c) \/ DownloadSelected(c) \/ DownloadAll(c)
          \/ \E f \in Files : DeleteSingleItem(c, f)
          \/ Serve(c) \/ Handled(c) \/ ToastFades(c)
    \/ \E f \in Files : DeletedElsewhere(f)

Spec == Init /\ [][Next]_vars

(* A fetch is answered or fails; a handler that can run runs; a message is *)
(* taken away by its timer.                                                *)
FairSpec ==
    Spec /\ \A c \in Calls : WF_vars(Serve(c)) /\ WF_vars(Handled(c)) /\ WF_vars(ToastFades(c))

-----------------------------------------------------------------------------
(* Properties *)

(***************************************************************************)
(* The selection is what the page shows: a file of the page is in the set  *)
(* exactly if its box is ticked, and the toolbar counts the set, whichever *)
(* of click, key, press, button or answer changed it last.                 *)
(* gallery.js:13-172, 202-208, 281-285.                                    *)
(***************************************************************************)
PageShowsSelection ==
    /\ selected \cap items = checked \cap items
    /\ toolbar = Toolbar(selected, items)

(***************************************************************************)
(* Nothing is selected that the page does not show, unless a long press    *)
(* was under way on an element that an answer took off the page.           *)
(* gallery.js:106-121, 203-208, 281-285.                                   *)
(***************************************************************************)
SelectedOnPage == selected \subseteq items \cup stray

(***************************************************************************)
(* The page follows the table: a file leaves it exactly if it was deleted. *)
(* Excused are the deletions that the page cannot know of (others', or one *)
(* whose answer was lost), and the files that a bulk deletion reports as   *)
(* not deleted: those leave the page all the same.                         *)
(* gallery.js:186-225, 271-291.                                            *)
(***************************************************************************)
PageFollowsTable ==
    \A f \in Files :
        \/ f \in items <=> f \in rows
        \/ f \in excused
        \/ \E c \in Calls : At(c, "ok") /\ f \in call[c].ids

(***************************************************************************)
(* The overlay covers the page only while a download is being prepared.    *)
(* gallery.js:236-269.                                                     *)
(***************************************************************************)
OverlayMeansWork == overlay => \E c \in Calls : Underway(c) /\ Is(c, "download")

(***************************************************************************)
(* The lightbox lets go of the page: closed, it neither plays nor locks    *)
(* the scrolling; open, it plays only what it shows.                       *)
(* gallery.js:99-102, 308-349.                                             *)
(***************************************************************************)
LightboxLetsGo ==
    /\ lightbox.locked = (lightbox.view # "none")
    /\ lightbox.playing => lightbox.view = "video"

(***************************************************************************)
(* Whatever becomes of a request, the user is told, however many there     *)
(* are.  gallery.js:222-224, 264-268, 288-290, 351-368.                    *)
(***************************************************************************)
EveryCallIsReported == \A c \in Calls : At(c, "sent") ~> At(c, "told")
=============================================================================
