---------------------------- MODULE MCMediaStore ----------------------------
(***************************************************************************)
(* Small instances of MediaStore for TLC.                                  *)
(***************************************************************************)
EXTENDS MediaStore, TLC

CONSTANTS g1, g2, d1

(* Two spellings of one address: email_hash lower-cases it, the table does *)
(* not.                                                                    *)
OneDirectory == g1 :> d1 @@ g2 :> d1

Symmetry ==
    Permutations(Names) \cup Permutations(Stamps) \cup Permutations(Contents)
    \cup Permutations(RowIds) \cup Permutations(Requests) \cup Permutations(Guests)

(* A disturbed key stays so and nothing is claimed of it: what comes after  *)
(* the first disturbance is not explored.                                   *)
Relevant == disturbed = {}

(***************************************************************************)
(* README.md:46: "re-uploading the same filename by the same guest         *)
(* overwrites the previous file".  It fails when the same file is uploaded *)
(* twice at the same time: both uploads find no row, and both insert one.  *)
(* (SQLite prevents it for guests who come with the uploader cookie, whose *)
(* first statement is an UPDATE that locks the database for the request;   *)
(* not for users who are logged in, for the email ingestion, or on MySQL.) *)
(***************************************************************************)
SameGuestOverwrites ==
    \A i, j \in Rows :
        i # j => media[i].guest # media[j].guest \/ media[i].name # media[j].name
=============================================================================
