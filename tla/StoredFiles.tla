----------------------------- MODULE StoredFiles -----------------------------
(***************************************************************************)
(* What EventDrop promises about the file that is stored under a guest's   *)
(* directory and file name: it is there with one content, or not at all,   *)
(* and it changes only by a request that is carried out, to what the       *)
(* request was to leave.  One that gives up beforehand changes nothing.    *)
(* MediaStore implements it.  No promise is made any more for a file that  *)
(* is "lost": requests overlapped on it, or one broke off in the middle.   *)
(*                                                                         *)
(*   "rest"      no request is at work on the file                         *)
(*   "begun"     one is, and has not changed anything                      *)
(*   "changed"   one is in the middle of its changes                       *)
(*   "lost"      see above                                                 *)
(***************************************************************************)
CONSTANTS Keys, Contents

VARIABLE file    \* for each key its place, what is stored, what will be

(* The contents of no file, or of one. *)
Holdings == {{}} \cup {{c} : c \in Contents}

Place == {"rest", "begun", "changed", "lost"}

FileState == [at : Place, was : Holdings, will : Holdings]

Rest(content) == [at |-> "rest", was |-> content, will |-> content]
Lost == [at |-> "lost", was |-> {}, will |-> {}]

FilesInit == file = [k \in Keys |-> Rest({})]

Begin(k) ==
    /\ file[k].at = "rest"
    /\ \E goal \in Holdings :
          file'[k] = [at |-> "begun", was |-> file[k].was, will |-> goal]

GiveUp(k) ==
    /\ file[k].at = "begun"
    /\ file'[k] = Rest(file[k].was)

Change(k) ==
    /\ file[k].at = "begun"
    /\ file'[k] = [file[k] EXCEPT !.at = "changed"]

Finish(k) ==
    /\ file[k].at = "changed"
    /\ file'[k] = Rest(file[k].will)

Lose(k) == file'[k] = Lost

Stays(k) == file'[k] = file[k]

(* A bulk deletion, the deletion of the event and the end of the process   *)
(* move several files at once, each in its own way.                        *)
FilesNext ==
    /\ file' \in [Keys -> FileState]
    /\ \A k \in Keys :
          Begin(k) \/ GiveUp(k) \/ Change(k) \/ Finish(k) \/ Lose(k) \/ Stays(k)

FilesSpec == FilesInit /\ [][FilesNext]_file
=============================================================================
