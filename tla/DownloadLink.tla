---------------------------- MODULE DownloadLink ----------------------------
(***************************************************************************)
(* What EventDrop promises about a download link: the abstract view of one *)
(* row of archive_requests that the status page polls, and that the holder *)
(* of the link can tell apart.  ArchiveService implements it.              *)
(*                                                                         *)
(*   "unissued"   no request has handed the link out yet                   *)
(*   "open"       the ZIP is being prepared                                *)
(*   "ready"      the ZIP can be downloaded                                *)
(*   "failed"     the preparation ended with an error                      *)
(*   "cancelled"  an admin stopped it                                      *)
(*   "expired"    the configured hours have passed                         *)
(*   "gone"       the link answers 404                                     *)
(***************************************************************************)

CONSTANT Links      \* the links that may ever be handed out

VARIABLE link       \* what each link shows

LinkState == {"unissued", "open", "ready", "failed", "cancelled",
              "expired", "gone"}

Standing == {"open", "ready", "failed", "cancelled"}

LinkTypeOK == link \in [Links -> LinkState]

LinkInit == link = [l \in Links |-> "unissued"]

Moves(l, from, to) == link[l] \in from /\ link' = [link EXCEPT ![l] = to]

Issue(l) == Moves(l, {"unissued"}, "open")

(* The build may finish although an admin has cancelled it. *)
Publish(l) == Moves(l, {"open", "cancelled"}, "ready")

Fail(l) == Moves(l, {"open", "cancelled"}, "failed")

(* The build of a cancelled link may start after all. *)
Resume(l) == Moves(l, {"cancelled"}, "open")

(* A cancellation decided on a stale row can land on a finished one. *)
Cancel(l) == Moves(l, {"open", "ready", "failed"}, "cancelled")

Expire(l) == Moves(l, Standing, "expired")

(* Deleting rows withdraws several links at once. *)
Withdraw(S) ==
    /\ \A l \in S : link[l] \in Standing \cup {"expired"}
    /\ link' = [l \in Links |-> IF l \in S THEN "gone" ELSE link[l]]

LinkNext ==
    \/ \E l \in Links : \/ Issue(l) \/ Publish(l) \/ Fail(l)
                        \/ Resume(l) \/ Cancel(l) \/ Expire(l)
    \/ \E S \in SUBSET Links : Withdraw(S)

LinkSpec == LinkInit /\ [][LinkNext]_link

(***************************************************************************)
(* Every link that was handed out ends: it is withdrawn in the end,        *)
(* whatever became of its build.                                           *)
(***************************************************************************)
EveryLinkEnds == \A l \in Links : link[l] # "unissued" ~> link[l] = "gone"
=============================================================================
