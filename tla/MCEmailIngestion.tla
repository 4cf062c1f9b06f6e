-------------------------- MODULE MCEmailIngestion --------------------------
(***************************************************************************)
(* Small instances of EmailIngestion for TLC.                              *)
(***************************************************************************)
EXTENDS EmailIngestion, TLC

CONSTANTS m1, m2, x1, x2, n1, n2

(* One message with two photos, one with a single one. *)
TwoAndOne == m1 :> {x1, x2} @@ m2 :> {x1}

(* The second message comes under a name of the first. *)
SharedName == [i \in Items |-> IF i = <<m1, x2>> THEN n2 ELSE n1]

(***************************************************************************)
(* A message is marked as read or deleted after its processing: README.md  *)
(* :366, "fetches only UNSEEN messages and marks them read (or deletes     *)
(* them) after processing".  It fails: the server is told before anything  *)
(* is stored.                                                              *)
(***************************************************************************)
MarkedAfterProcessing ==
    \A m \in Messages : box[m] \in {"seen", "flagged", "gone"} =>
        \/ \E p \in Pollers : m \in poll[p].fetched \cup poll[p].work
        \/ \A i \in Items : i[1] = m => fate[i] = "imported"
=============================================================================
