------------------------ MODULE ThumbnailTaskProofs ------------------------
(***************************************************************************)
(* Proofs about ThumbnailTask, for any files and any number of tasks.      *)
(*                                                                         *)
(* While the entry is not shared one task is alive at most (Alone), and    *)
(* everything else is said of that task: what it has read is still what    *)
(* the row says (ReadsHold), and what it is going to write is stored.      *)
(***************************************************************************)
EXTENDS ThumbnailTask, FiniteSetTheorems, TLAPS

Working(t) == task[t].pc \in {"next", "clear", "store", "commit"}

(* What a task has selected, what is left of it and what it is at. *)
Shape(t) ==
    /\ task[t].pc \in {"created", "select"} =>
          task[t].files = {} /\ task[t].todo = {} /\ task[t].at = {}
    /\ Working(t) =>
          task[t].todo \subseteq task[t].files /\ task[t].at \subseteq task[t].files \ task[t].todo
    /\ task[t].pc = "next" => task[t].at = {}
    /\ task[t].pc \in {"clear", "store", "commit"} => \E f \in Files : task[t].at = {f}

Begun == \A t \in Tasks : task[t].pc \notin {"none", "created"} => progress \in Progress

Alone == \A t, o \in Tasks : Alive(t) /\ Alive(o) => t = o

NewEntry == [status |-> "running", total |-> 0, done |-> 0, failed |-> 0]

FreshEntry(t) == task[t].pc = "select" => progress = NewEntry

ReadsHold(t) ==
    Working(t) => \A f \in task[t].todo \cup task[t].at :
                     HasOriginal(f) => task[t].read[f] = thumbPath[f]

StoredFirst(t) ==
    task[t].pc = "commit" => \A f \in task[t].at :
                                HasOriginal(f) => Named(f, task[t].new) \subseteq thumbs

CountsTried(t) ==
    Working(t) => /\ progress.status = "running"
                  /\ progress.done + progress.failed = Cardinality(Tried(t))
                  /\ progress.total = Cardinality(task[t].files)

Repairs(t) ==
    Alive(t) /\ progress.status = "running" /\ progress.failed = 0 =>
        \A f \in Tried(t) : HasOriginal(f) => Named(f, thumbPath[f]) \subseteq thumbs

(* What holds of a task that has the entry for itself. *)
Sole(t) == FreshEntry(t) /\ ReadsHold(t) /\ StoredFirst(t) /\ CountsTried(t) /\ Repairs(t)

DoneAddsUp == progress.status = "done" => progress.done + progress.failed = progress.total

IInv ==
    /\ TypeOK
    /\ \A t \in Tasks : Shape(t)
    /\ Begun
    /\ ~shared => Alone /\ DoneAddsUp /\ \A t \in Tasks : Sole(t)

-----------------------------------------------------------------------------
LEMMA FilesAreFinite ==
    ASSUME NEW S \in SUBSET Files
    PROVE  IsFiniteSet(S) /\ Cardinality(S) \in Nat
<1> QED
  BY FS_Subset, FS_CardinalityType, FilesAssumption

(* What the type says of a task that is alive. *)
LEMMA TaskParts ==
    ASSUME TypeOK, NEW t \in Tasks, Alive(t)
    PROVE  task[t] \in Task
<1> QED
  BY DEF TypeOK, Alive, At, Ended

(* A task that has ended has nothing to say. *)
LEMMA EndedIsFine ==
    ASSUME NEW t \in Tasks, task[t].pc = "none"
    PROVE  Shape(t) /\ Sole(t)
<1> QED
  BY DEF Shape, Working, Sole, FreshEntry, ReadsHold, StoredFirst, CountsTried, Repairs,
     Alive, At

LEMMA Initially ==
    ASSUME Init
    PROVE  IInv
<1>1. \A t \in Tasks : task[t].pc = "none"
  BY DEF Init, Ended
<1>2. TypeOK
  <2>1. thumbs \subseteq Files \X Stamps
    <3>1. \A f \in Files : Named(f, thumbPath[f]) \subseteq Files \X Stamps
      BY DEF Init, Named, Path
    <3> QED
      BY <3>1 DEF Init
  <2> QED
    BY <2>1 DEF Init, TypeOK
<1>3. \A t \in Tasks : Shape(t) /\ Sole(t)
  BY <1>1, EndedIsFine
<1>4. Begun /\ Alone /\ DoneAddsUp
  BY <1>1 DEF Init, Begun, Alone, Alive, At, DoneAddsUp, NoProgress
<1> QED
  BY <1>2, <1>3, <1>4 DEF IInv

(* A step of a task has to be looked at for this task only: another one    *)
(* that is alive means that the entry is shared.                           *)
LEMMA OneTask ==
    ASSUME IInv, NEW t \in Tasks, Alive(t), TypeOK', shared' = shared,
           \A o \in Tasks \ {t} : task'[o] = task[o],
           progress' \in Progress, Shape(t)',
           ~shared => DoneAddsUp' /\ Sole(t)'
    PROVE  IInv'
<1>1. \A o \in Tasks : Shape(o)'
  BY DEF IInv, Shape, Working
<1>2. Begun'
  BY DEF Begun
<1>3. ASSUME ~shared
      PROVE  Alone' /\ \A o \in Tasks : Sole(o)'
  <2>1. \A o \in Tasks \ {t} : task'[o].pc = "none"
    BY <1>3 DEF IInv, Alone, Alive, At
  <2>2. \A o \in Tasks \ {t} : Sole(o)'
    BY <2>1 DEF Working, Sole, FreshEntry, ReadsHold, StoredFirst, CountsTried, Repairs,
       Alive, At
  <2>3. Alone'
    BY <2>1 DEF Alone, Alive, At
  <2> QED
    BY <1>3, <2>2, <2>3
<1> QED
  BY <1>1, <1>2, <1>3 DEF IInv

(* A task that ends leaves no one alive if the entry is not shared. *)
LEMMA EndingKeeps ==
    ASSUME IInv, NEW t \in Tasks, Alive(t), Ends(t),
           UNCHANGED <<table, thumbs, stripped, shared>>,
           progress' \in Progress, ~shared => DoneAddsUp'
    PROVE  IInv'
<1>1. task'[t].pc = "none" /\ \A o \in Tasks \ {t} : task'[o] = task[o]
  BY DEF Ends, Ended, IInv, TypeOK
<1>2. TypeOK'
  BY DEF Ends, IInv, TypeOK, table
<1>3. Shape(t)' /\ Sole(t)'
  BY <1>1 DEF Shape, Working, Sole, FreshEntry, ReadsHold, StoredFirst, CountsTried,
     Repairs, Alive, At
<1> QED
  BY <1>1, <1>2, <1>3, OneTask

(* A task that is replaced by a new state of it. *)
LEMMA Moves ==
    ASSUME TypeOK, NEW t \in Tasks, NEW new \in Task, task' = [task EXCEPT ![t] = new]
    PROVE  /\ task' \in [Tasks -> {Ended} \cup Task]
           /\ task'[t] = new
           /\ \A o \in Tasks \ {t} : task'[o] = task[o]
<1> QED
  BY DEF TypeOK

(* Counting one more file. *)
LEMMA CountsOne ==
    ASSUME progress \in Progress, NEW field \in {"done", "failed"}, Counts(field)
    PROVE  /\ progress' \in Progress
           /\ progress'.status = progress.status /\ progress'.total = progress.total
           /\ progress'.done + progress'.failed = progress.done + progress.failed + 1
           /\ progress'.failed = progress.failed + (IF field = "failed" THEN 1 ELSE 0)
<1>1. CASE field = "done"
  <2>1. progress' = [progress EXCEPT !.done = @ + 1]
    BY <1>1 DEF Counts
  <2> QED
    BY <1>1, <2>1 DEF Progress
<1>2. CASE field = "failed"
  <2>1. progress' = [progress EXCEPT !.failed = @ + 1]
    BY <1>2 DEF Counts
  <2> QED
    BY <1>2, <2>1 DEF Progress
<1> QED
  BY <1>1, <1>2

LEMMA OneMore ==
    ASSUME NEW S \in SUBSET Files, NEW f \in Files \ S
    PROVE  Cardinality(S \cup {f}) = Cardinality(S) + 1
<1> QED
  BY FilesAreFinite, FS_AddElement

-----------------------------------------------------------------------------
(* One lemma for each action *)

LEMMA StartKeeps ==
    ASSUME IInv, NEW t \in Tasks, NEW missing \in BOOLEAN, StartRegeneration(t, missing)
    PROVE  IInv'
<1> DEFINE new == [pc |-> "created", missing |-> missing, files |-> {}, todo |-> {},
                   at |-> {}, read |-> [f \in Files |-> {}], new |-> {}]
<1>1. new \in Task
  BY DEF Task, Path
<1>2. task' = [task EXCEPT ![t] = new]
  BY DEF StartRegeneration
<1>3. /\ task' \in [Tasks -> {Ended} \cup Task]
      /\ task'[t] = new
      /\ \A o \in Tasks \ {t} : task'[o] = task[o]
  <2> HIDE DEF new
  <2> QED
    BY <1>1, <1>2, Moves DEF IInv
<1>4. TypeOK'
  BY <1>3 DEF IInv, TypeOK, StartRegeneration, table
<1>5. \A o \in Tasks : Shape(o)'
  BY <1>3 DEF IInv, Shape, Working
<1>6. Begun'
  BY <1>3 DEF IInv, Begun, StartRegeneration
<1>7. ASSUME ~shared'
      PROVE  Alone' /\ DoneAddsUp' /\ \A o \in Tasks : Sole(o)'
  <2>1. \A o \in Tasks \ {t} : task'[o].pc = "none"
    BY <1>3, <1>7 DEF StartRegeneration, OthersAlive, Alive, At
  <2>2. Alone'
    BY <2>1 DEF Alone, Alive, At
  <2>3. progress' = progress /\ progress.status # "running" /\ ~shared
    BY <1>7 DEF StartRegeneration
  <2>4. DoneAddsUp'
    BY <2>3 DEF IInv, DoneAddsUp
  <2>5. Sole(t)'
    BY <1>3, <2>3 DEF Working, Sole, FreshEntry, ReadsHold, StoredFirst, CountsTried, Repairs
  <2>6. \A o \in Tasks \ {t} : Sole(o)'
    BY <2>1 DEF Working, Sole, FreshEntry, ReadsHold, StoredFirst, CountsTried, Repairs,
       Alive, At
  <2> QED
    BY <2>2, <2>4, <2>5, <2>6
<1> QED
  BY <1>4, <1>5, <1>6, <1>7 DEF IInv

LEMMA BeginKeeps ==
    ASSUME IInv, NEW t \in Tasks, Begin(t)
    PROVE  IInv'
<1> DEFINE new == [task[t] EXCEPT !.pc = "select"]
<1>0. task[t] \in Task /\ task[t].pc = "created"
  BY TaskParts DEF IInv, Begin, Alive, At
<1>1. new \in Task /\ new.pc = "select" /\ new.files = task[t].files
      /\ new.todo = task[t].todo /\ new.at = task[t].at
  BY <1>0 DEF Task
<1>2. task' = [task EXCEPT ![t] = new]
  BY DEF Begin
<1>3. /\ task' \in [Tasks -> {Ended} \cup Task]
      /\ task'[t] = new
      /\ \A o \in Tasks \ {t} : task'[o] = task[o]
  <2> HIDE DEF new
  <2> QED
    BY <1>1, <1>2, Moves DEF IInv
<1> HIDE DEF new
<1>4. progress' = NewEntry /\ progress' \in Progress
  BY DEF Begin, NewEntry, Progress
<1>5. TypeOK'
  BY <1>3, <1>4 DEF IInv, TypeOK, Begin, table, OthersAlive
<1>6. \A o \in Tasks : Shape(o)'
  BY <1>0, <1>1, <1>3 DEF IInv, Shape, Working
<1>7. Begun'
  BY <1>4 DEF Begun
<1>8. ASSUME ~shared'
      PROVE  Alone' /\ DoneAddsUp' /\ \A o \in Tasks : Sole(o)'
  <2>1. \A o \in Tasks \ {t} : task'[o].pc = "none"
    BY <1>3, <1>8 DEF Begin, OthersAlive, Alive, At
  <2>2. Alone'
    BY <2>1 DEF Alone, Alive, At
  <2>3. DoneAddsUp'
    BY <1>4 DEF NewEntry, DoneAddsUp
  <2>4. Tried(t)' = {}
    BY <1>0, <1>1, <1>3 DEF IInv, Shape, Tried
  <2>5. Sole(t)'
    BY <1>1, <1>3, <1>4, <2>4 DEF Working, Sole, FreshEntry, ReadsHold, StoredFirst,
       CountsTried, Repairs
  <2>6. \A o \in Tasks \ {t} : Sole(o)'
    BY <2>1 DEF Working, Sole, FreshEntry, ReadsHold, StoredFirst, CountsTried, Repairs,
       Alive, At
  <2> QED
    BY <2>2, <2>3, <2>5, <2>6
<1> QED
  BY <1>5, <1>6, <1>7, <1>8 DEF IInv

LEMMA SelectKeeps ==
    ASSUME IInv, NEW t \in Tasks, SelectFiles(t)
    PROVE  IInv'
<1> DEFINE sel == {f \in present : task[t].missing => thumbPath[f] = {}}
           new == [task[t] EXCEPT !.pc = "next", !.missing = FALSE, !.files = sel,
                                  !.todo = sel, !.read = Forget(thumbPath, Files \ sel)]
<1>0. task[t] \in Task /\ task[t].pc = "select" /\ task[t].at = {} /\ Alive(t)
  BY TaskParts DEF IInv, SelectFiles, Alive, At, Shape
<1>1. sel \subseteq Files /\ Cardinality(sel) \in Nat
  <2>1. sel \subseteq Files
    BY DEF IInv, TypeOK
  <2> QED
    BY <2>1, FilesAreFinite
<1>2. progress \in Progress
  BY <1>0 DEF IInv, Begun
<1>3. progress' \in Progress /\ progress' = [progress EXCEPT !.total = Cardinality(sel)]
  <2>1. progress' = [progress EXCEPT !.total = Cardinality(sel)]
    BY DEF SelectFiles
  <2> HIDE DEF sel
  <2> QED
    BY <1>1, <1>2, <2>1 DEF Progress
<1>4. task' = [task EXCEPT ![t] = new]
  BY DEF SelectFiles
<1> HIDE DEF sel
<1>5. new \in Task /\ new.pc = "next" /\ new.files = sel /\ new.todo = sel /\ new.at = {}
      /\ new.read = Forget(thumbPath, Files \ sel)
  <2>1. Forget(thumbPath, Files \ sel) \in [Files -> Path]
    BY DEF Forget, IInv, TypeOK, Path
  <2> QED
    BY <1>0, <1>1, <2>1 DEF Task
<1> HIDE DEF new
<1>6. /\ task' \in [Tasks -> {Ended} \cup Task]
      /\ task'[t] = new
      /\ \A o \in Tasks \ {t} : task'[o] = task[o]
  BY <1>4, <1>5, Moves DEF IInv
<1>7. TypeOK'
  BY <1>3, <1>6 DEF IInv, TypeOK, SelectFiles, table
<1>8. Shape(t)'
  BY <1>1, <1>5, <1>6 DEF Shape, Working
<1>9. ASSUME ~shared
      PROVE  DoneAddsUp' /\ Sole(t)'
  <2>1. progress = NewEntry
    BY <1>0, <1>9 DEF IInv, Sole, FreshEntry
  <2>2. /\ progress'.status = "running" /\ progress'.done + progress'.failed = 0
        /\ progress'.total = Cardinality(sel)
    BY <1>3, <2>1 DEF NewEntry
  <2>3. Tried(t)' = {} /\ Cardinality(Tried(t)') = 0
    BY <1>5, <1>6, FS_EmptySet DEF Tried
  <2>4. DoneAddsUp'
    BY <2>2 DEF DoneAddsUp
  <2>5. CountsTried(t)'
    <3>1. task'[t].files = sel
      BY <1>5, <1>6
    <3> QED
      BY <2>2, <2>3, <3>1 DEF CountsTried
  <2>6. ReadsHold(t)'
    <3>1. thumbPath' = thumbPath
      BY DEF SelectFiles, table
    <3> QED
      BY <1>1, <1>5, <1>6, <3>1 DEF ReadsHold, Forget
  <2>7. FreshEntry(t)' /\ StoredFirst(t)' /\ Repairs(t)'
    BY <1>5, <1>6, <2>3 DEF FreshEntry, StoredFirst, Repairs
  <2> QED
    BY <2>4, <2>5, <2>6, <2>7 DEF Sole
<1>10. shared' = shared
  BY DEF SelectFiles
<1> QED
  BY <1>0, <1>3, <1>6, <1>7, <1>8, <1>9, <1>10, OneTask

(* A step of a task from file to file, that leaves the table as it is. *)
LEMMA SelfStep ==
    ASSUME IInv, NEW t \in Tasks, NEW new \in Task, task' = [task EXCEPT ![t] = new],
           UNCHANGED <<stripped, shared>>,
           task[t].pc \notin {"none", "created"}, progress' \in Progress,
           present' = present, thumbPath' \in [Files -> Path],
           thumbs' \subseteq Files \X Stamps,
           Shape(t)', ~shared => DoneAddsUp' /\ Sole(t)'
    PROVE  IInv'
<1>1. /\ task' \in [Tasks -> {Ended} \cup Task]
      /\ task'[t] = new
      /\ \A o \in Tasks \ {t} : task'[o] = task[o]
  BY Moves DEF IInv
<1>2. TypeOK'
  BY <1>1 DEF IInv, TypeOK
<1>3. Alive(t)
  BY DEF Alive, At
<1> QED
  BY <1>1, <1>2, <1>3, OneTask

LEMMA RetrieveKeeps ==
    ASSUME IInv, NEW t \in Tasks, NEW f \in Files, Retrieve(t, f)
    PROVE  IInv'
<1> DEFINE new == [task[t] EXCEPT !.pc = "clear", !.todo = @ \ {f}, !.at = {f}]
<1>1. task[t] \in Task /\ task[t].pc = "next" /\ task[t].at = {} /\ f \in task[t].todo
      /\ task[t].todo \subseteq task[t].files
  BY TaskParts DEF IInv, Retrieve, Alive, At, Shape, Working, IsNext
<1>2. new \in Task /\ new.pc = "clear" /\ new.files = task[t].files /\ new.at = {f}
      /\ new.todo = task[t].todo \ {f} /\ new.read = task[t].read
  BY <1>1 DEF Task
<1>3. task' = [task EXCEPT ![t] = new] /\ task'[t] = new
  BY DEF Retrieve, IInv, TypeOK
<1> HIDE DEF new
<1>4. UNCHANGED <<table, thumbs, stripped, progress, shared>>
  BY DEF Retrieve
<1>5. Shape(t)'
  BY <1>1, <1>2, <1>3 DEF Shape, Working
<1>6. Tried(t)' = Tried(t) /\ task'[t].files = task[t].files /\ Alive(t) /\ Working(t)
  BY <1>1, <1>2, <1>3 DEF Tried, Alive, At, Working
<1>7. ASSUME ~shared
      PROVE  DoneAddsUp' /\ Sole(t)'
  <2>1. DoneAddsUp /\ Sole(t)
    BY <1>7 DEF IInv
  <2>2. DoneAddsUp'
    BY <1>4, <2>1 DEF DoneAddsUp
  <2>3. FreshEntry(t)' /\ StoredFirst(t)'
    BY <1>2, <1>3 DEF FreshEntry, StoredFirst
  <2>4. ReadsHold(t)'
    BY <1>1, <1>2, <1>3, <1>4, <1>6, <2>1 DEF Sole, ReadsHold, HasOriginal, table
  <2>5. CountsTried(t)'
    BY <1>4, <1>6, <2>1 DEF Sole, CountsTried
  <2>6. Repairs(t)'
    BY <1>4, <1>6, <2>1 DEF Sole, Repairs, HasOriginal, table, Named
  <2> QED
    BY <2>2, <2>3, <2>4, <2>5, <2>6 DEF Sole
<1>8. progress \in Progress
  BY <1>1 DEF IInv, Begun
<1> QED
  BY <1>1, <1>2, <1>3, <1>4, <1>5, <1>7, <1>8, SelfStep DEF IInv, TypeOK, table

LEMMA RetrieveFailsKeeps ==
    ASSUME IInv, NEW t \in Tasks, NEW f \in Files, RetrieveFails(t, f)
    PROVE  IInv'
<1> DEFINE new == [task[t] EXCEPT !.todo = @ \ {f}, !.read = Forget(@, {f})]
<1>1. task[t] \in Task /\ task[t].pc = "next" /\ task[t].at = {} /\ f \in task[t].todo
      /\ task[t].todo \subseteq task[t].files
  BY TaskParts DEF IInv, RetrieveFails, Alive, At, Shape, Working, IsNext
<1>2. new \in Task /\ new.pc = "next" /\ new.files = task[t].files /\ new.at = {}
      /\ new.todo = task[t].todo \ {f} /\ new.read = Forget(task[t].read, {f})
  <2>1. Forget(task[t].read, {f}) \in [Files -> Path]
    BY <1>1 DEF Forget, Task, Path
  <2> QED
    BY <1>1, <2>1 DEF Task
<1>3. task' = [task EXCEPT ![t] = new] /\ task'[t] = new
  BY DEF RetrieveFails, IInv, TypeOK
<1> HIDE DEF new
<1>4. UNCHANGED <<table, thumbs, stripped, shared>>
  BY DEF RetrieveFails
<1>5. Shape(t)'
  BY <1>1, <1>2, <1>3 DEF Shape, Working
<1>6. task'[t].files = task[t].files /\ Working(t) /\ Tried(t) \subseteq Files
      /\ f \in Files \ Tried(t) /\ Tried(t)' = Tried(t) \cup {f}
  BY <1>1, <1>2, <1>3 DEF Tried, Working, Task
<1>7. progress \in Progress
  BY <1>1 DEF IInv, Begun
<1>8. /\ progress' \in Progress
      /\ progress'.status = progress.status /\ progress'.total = progress.total
      /\ progress'.done + progress'.failed = progress.done + progress.failed + 1
      /\ progress'.failed = progress.failed + 1
  BY <1>7, CountsOne DEF RetrieveFails
<1>9. ASSUME ~shared
      PROVE  DoneAddsUp' /\ Sole(t)'
  <2>1. Sole(t)
    BY <1>9 DEF IInv
  <2>2. progress.status = "running"
    BY <1>6, <2>1 DEF Sole, CountsTried
  <2>3. DoneAddsUp'
    BY <1>8, <2>2 DEF DoneAddsUp
  <2>4. FreshEntry(t)' /\ StoredFirst(t)'
    BY <1>2, <1>3 DEF FreshEntry, StoredFirst
  <2>5. ReadsHold(t)'
    <3>1. \A g \in task[t].todo : HasOriginal(g) => task[t].read[g] = thumbPath[g]
      BY <1>6, <2>1 DEF Sole, ReadsHold
    <3>2. task'[t].todo \cup task'[t].at = task[t].todo \ {f}
          /\ task'[t].read = Forget(task[t].read, {f})
      BY <1>2, <1>3
    <3>3. \A g \in task[t].todo \ {f} : Forget(task[t].read, {f})[g] = task[t].read[g]
      BY <1>1 DEF Forget, Task
    <3> QED
      BY <1>4, <3>1, <3>2, <3>3 DEF ReadsHold, HasOriginal, table
  <2>6. CountsTried(t)'
    <3>1. Cardinality(Tried(t)') = Cardinality(Tried(t)) + 1
      BY <1>6, OneMore
    <3>2. /\ progress.done + progress.failed = Cardinality(Tried(t))
          /\ progress.total = Cardinality(task[t].files)
      BY <1>6, <2>1 DEF Sole, CountsTried
    <3> QED
      BY <1>6, <1>8, <2>2, <3>1, <3>2 DEF CountsTried
  <2>7. Repairs(t)'
    BY <1>7, <1>8 DEF Repairs, Progress
  <2> QED
    BY <2>3, <2>4, <2>5, <2>6, <2>7 DEF Sole
<1> QED
  BY <1>1, <1>2, <1>3, <1>4, <1>5, <1>8, <1>9, SelfStep DEF IInv, TypeOK, table

LEMMA ClearKeeps ==
    ASSUME IInv, NEW t \in Tasks, ClearThumb(t)
    PROVE  IInv'
<1> DEFINE new == [task[t] EXCEPT !.pc = "store"]
<1>1. task[t] \in Task /\ task[t].pc = "clear" /\ Alive(t) /\ Working(t) /\ Shape(t)
  BY TaskParts DEF IInv, ClearThumb, Alive, At, Working
<1>2. PICK f \in Files : task[t].at = {f}
  BY <1>1 DEF Shape
<1>3. new \in Task /\ new.pc = "store" /\ new.files = task[t].files /\ new.at = task[t].at
      /\ new.todo = task[t].todo /\ new.read = task[t].read
  BY <1>1 DEF Task
<1>4. task' = [task EXCEPT ![t] = new] /\ task'[t] = new
  BY DEF ClearThumb, IInv, TypeOK
<1> HIDE DEF new
<1>5. UNCHANGED <<table, stripped, progress, shared>>
  BY DEF ClearThumb
<1>6. thumbs' \subseteq thumbs
  BY DEF ClearThumb
<1>7. \A g \in Files \ {f}, s \in Stamps : <<g, s>> \in thumbs => <<g, s>> \in thumbs'
  BY <1>2 DEF ClearThumb, Named
<1>8. Shape(t)'
  BY <1>1, <1>2, <1>3, <1>4 DEF Shape, Working
<1>9. Tried(t)' = Tried(t) /\ task'[t].files = task[t].files /\ f \notin Tried(t)
      /\ Tried(t) \subseteq Files
  BY <1>1, <1>2, <1>3, <1>4 DEF Tried, Task
<1>10. ASSUME ~shared
       PROVE  DoneAddsUp' /\ Sole(t)'
  <2>1. DoneAddsUp /\ Sole(t)
    BY <1>10 DEF IInv
  <2>2. DoneAddsUp'
    BY <1>5, <2>1 DEF DoneAddsUp
  <2>3. FreshEntry(t)' /\ StoredFirst(t)'
    BY <1>3, <1>4 DEF FreshEntry, StoredFirst
  <2>4. ReadsHold(t)'
    BY <1>1, <1>3, <1>4, <1>5, <2>1 DEF Sole, ReadsHold, HasOriginal, table
  <2>5. CountsTried(t)'
    BY <1>1, <1>5, <1>9, <2>1 DEF Sole, CountsTried
  <2>6. Repairs(t)'
    <3> SUFFICES ASSUME progress.status = "running", progress.failed = 0,
                        NEW g \in Tried(t), HasOriginal(g)
                 PROVE  Named(g, thumbPath[g]) \subseteq thumbs'
      BY <1>5, <1>9 DEF Repairs, HasOriginal, table, Named
    <3>1. Named(g, thumbPath[g]) \subseteq thumbs
      BY <1>1, <2>1 DEF Sole, Repairs
    <3>2. thumbPath[g] \subseteq Stamps
      BY <1>9 DEF IInv, TypeOK, Path
    <3> QED
      BY <1>7, <1>9, <3>1, <3>2 DEF Named
  <2> QED
    BY <2>2, <2>3, <2>4, <2>5, <2>6 DEF Sole
<1>11. progress \in Progress
  BY <1>1 DEF IInv, Begun
<1> QED
  BY <1>1, <1>3, <1>4, <1>5, <1>6, <1>8, <1>10, <1>11, SelfStep DEF IInv, TypeOK, table

LEMMA StoreKeeps ==
    ASSUME IInv, NEW t \in Tasks, StoreThumb(t)
    PROVE  IInv'
<1>0. PICK path \in Path : /\ task' = [task EXCEPT ![t].pc = "commit", ![t].new = path]
                           /\ thumbs' = thumbs \cup task[t].at \X path
  BY DEF StoreThumb
<1> DEFINE new == [task[t] EXCEPT !.pc = "commit", !.new = path]
<1>1. task[t] \in Task /\ task[t].pc = "store" /\ Alive(t) /\ Working(t) /\ Shape(t)
  BY TaskParts DEF IInv, StoreThumb, Alive, At, Working
<1>2. PICK f \in Files : task[t].at = {f}
  BY <1>1 DEF Shape
<1>3. new \in Task /\ new.pc = "commit" /\ new.files = task[t].files /\ new.at = task[t].at
      /\ new.todo = task[t].todo /\ new.read = task[t].read /\ new.new = path
  BY <1>1 DEF Task
<1>4. task' = [task EXCEPT ![t] = new] /\ task'[t] = new
  BY <1>0 DEF IInv, TypeOK
<1> HIDE DEF new
<1>5. UNCHANGED <<table, stripped, progress, shared>>
  BY DEF StoreThumb
<1>6. thumbs' \subseteq Files \X Stamps
  <2>1. task[t].at \X path \subseteq Files \X Stamps
    BY <1>2 DEF Path
  <2> QED
    BY <1>0, <2>1 DEF IInv, TypeOK
<1>8. Shape(t)'
  BY <1>1, <1>2, <1>3, <1>4 DEF Shape, Working
<1>9. Tried(t)' = Tried(t) /\ task'[t].files = task[t].files
  BY <1>1, <1>3, <1>4 DEF Tried
<1>10. ASSUME ~shared
       PROVE  DoneAddsUp' /\ Sole(t)'
  <2>1. DoneAddsUp /\ Sole(t)
    BY <1>10 DEF IInv
  <2>2. DoneAddsUp'
    BY <1>5, <2>1 DEF DoneAddsUp
  <2>3. FreshEntry(t)'
    BY <1>3, <1>4 DEF FreshEntry
  <2>4. ReadsHold(t)'
    BY <1>1, <1>3, <1>4, <1>5, <2>1 DEF Sole, ReadsHold, HasOriginal, table
  <2>5. CountsTried(t)'
    BY <1>1, <1>5, <1>9, <2>1 DEF Sole, CountsTried
  <2>6. Repairs(t)'
    <3>1. thumbs \subseteq thumbs'
      BY <1>0
    <3> QED
      BY <1>1, <1>5, <1>9, <2>1, <3>1 DEF Sole, Repairs, HasOriginal, table
  <2>7. StoredFirst(t)'
    BY <1>0, <1>2, <1>3, <1>4 DEF StoredFirst, Named
  <2> QED
    BY <2>2, <2>3, <2>4, <2>5, <2>6, <2>7 DEF Sole
<1>11. progress \in Progress
  BY <1>1 DEF IInv, Begun
<1> QED
  BY <1>1, <1>3, <1>4, <1>5, <1>6, <1>8, <1>10, <1>11, SelfStep DEF IInv, TypeOK, table

(* A file has been tried: one more is counted.  Whether it is repaired     *)
(* depends on the action.                                                  *)
LEMMA TriedOne ==
    ASSUME IInv, NEW t \in Tasks, task[t].pc \in {"store", "commit"}, Next1(t),
           NEW field \in {"done", "failed"}, Counts(field),
           UNCHANGED <<present, thumbs, stripped, shared>>,
           thumbPath' \in [Files -> Path],
           \A g \in Files \ task[t].at : thumbPath'[g] = thumbPath[g],
           ~shared /\ field = "done" =>
               \A f \in task[t].at : HasOriginal(f) => Named(f, thumbPath'[f]) \subseteq thumbs
    PROVE  IInv'
<1> DEFINE new == [task[t] EXCEPT !.pc = "next", !.at = {}, !.new = {},
                                  !.read = Forget(@, task[t].at)]
<1>1. task[t] \in Task /\ Alive(t) /\ Working(t) /\ Shape(t)
  BY TaskParts DEF IInv, Alive, At, Working
<1>2. PICK f \in Files : task[t].at = {f}
  BY <1>1 DEF Shape
<1>3. new \in Task /\ new.pc = "next" /\ new.files = task[t].files /\ new.at = {}
      /\ new.todo = task[t].todo /\ new.read = Forget(task[t].read, {f})
  <2>1. Forget(task[t].read, task[t].at) \in [Files -> Path]
    BY <1>1 DEF Forget, Task, Path
  <2> QED
    BY <1>1, <1>2, <2>1 DEF Task, Path
<1>4. task' = [task EXCEPT ![t] = new] /\ task'[t] = new
  BY DEF Next1, IInv, TypeOK
<1> HIDE DEF new
<1>5. Shape(t)'
  BY <1>1, <1>3, <1>4 DEF Shape, Working
<1>6. task'[t].files = task[t].files /\ Tried(t) \subseteq Files
      /\ f \in Files \ Tried(t) /\ Tried(t)' = Tried(t) \cup {f} /\ f \notin task[t].todo
  BY <1>1, <1>2, <1>3, <1>4 DEF Tried, Working, Task, Shape
<1>7. progress \in Progress
  BY <1>1 DEF IInv, Begun, Working
<1>8. /\ progress' \in Progress
      /\ progress'.status = progress.status /\ progress'.total = progress.total
      /\ progress'.done + progress'.failed = progress.done + progress.failed + 1
      /\ progress'.failed = progress.failed + (IF field = "failed" THEN 1 ELSE 0)
  BY <1>7, CountsOne
<1>9. ASSUME ~shared
      PROVE  DoneAddsUp' /\ Sole(t)'
  <2>1. Sole(t)
    BY <1>9 DEF IInv
  <2>2. progress.status = "running"
    BY <1>1, <2>1 DEF Sole, CountsTried
  <2>3. DoneAddsUp'
    BY <1>8, <2>2 DEF DoneAddsUp
  <2>4. FreshEntry(t)' /\ StoredFirst(t)'
    BY <1>3, <1>4 DEF FreshEntry, StoredFirst
  <2>5. ReadsHold(t)'
    <3>1. \A g \in task[t].todo : HasOriginal(g) => task[t].read[g] = thumbPath[g]
      BY <1>1, <2>1 DEF Sole, ReadsHold
    <3>2. task'[t].todo \cup task'[t].at = task[t].todo
          /\ task'[t].read = Forget(task[t].read, {f})
      BY <1>3, <1>4
    <3>3. \A g \in task[t].todo : /\ Forget(task[t].read, {f})[g] = task[t].read[g]
                                 /\ thumbPath'[g] = thumbPath[g]
      BY <1>1, <1>2, <1>6 DEF Forget, Task
    <3> QED
      BY <3>1, <3>2, <3>3 DEF ReadsHold, HasOriginal
  <2>6. CountsTried(t)'
    <3>1. Cardinality(Tried(t)') = Cardinality(Tried(t)) + 1
      BY <1>6, OneMore
    <3>2. /\ progress.done + progress.failed = Cardinality(Tried(t))
          /\ progress.total = Cardinality(task[t].files)
      BY <1>1, <2>1 DEF Sole, CountsTried
    <3> QED
      BY <1>6, <1>8, <2>2, <3>1, <3>2 DEF CountsTried
  <2>7. Repairs(t)'
    <3> SUFFICES ASSUME progress'.failed = 0, NEW g \in Tried(t) \cup {f}, HasOriginal(g)
                 PROVE  Named(g, thumbPath'[g]) \subseteq thumbs
      BY <1>6 DEF Repairs, HasOriginal
    <3>1. field = "done" /\ progress.failed = 0
      BY <1>7, <1>8 DEF Progress
    <3>2. CASE g = f
      BY <1>2, <1>9, <3>1, <3>2
    <3>3. CASE g \in Tried(t)
      <4>1. Named(g, thumbPath[g]) \subseteq thumbs
        BY <1>1, <2>1, <2>2, <3>1, <3>3 DEF Sole, Repairs
      <4>2. thumbPath'[g] = thumbPath[g]
        BY <1>2, <1>6, <3>3
      <4> QED
        BY <4>1, <4>2
    <3> QED
      BY <3>2, <3>3
  <2> QED
    BY <2>3, <2>4, <2>5, <2>6, <2>7 DEF Sole
<1>10. task[t].pc \notin {"none", "created"} /\ thumbs' \subseteq Files \X Stamps
  BY DEF IInv, TypeOK
<1> QED
  BY <1>3, <1>4, <1>5, <1>8, <1>9, <1>10, SelfStep

LEMMA StoreFailsKeeps ==
    ASSUME IInv, NEW t \in Tasks, StoreThumbFails(t)
    PROVE  IInv'
<1>1. thumbPath' \in [Files -> Path] /\ thumbPath' = thumbPath
  BY DEF IInv, TypeOK, StoreThumbFails, table
<1> QED
  BY <1>1, TriedOne DEF StoreThumbFails, At, table

LEMMA CommitKeeps ==
    ASSUME IInv, NEW t \in Tasks, Commit(t)
    PROVE  IInv'
<1>1. task[t] \in Task /\ task[t].pc = "commit" /\ Working(t) /\ Shape(t)
  BY TaskParts DEF IInv, Commit, Alive, At, Working
<1>2. PICK f \in Files : task[t].at = {f}
  BY <1>1 DEF Shape
<1>3. thumbPath' = [g \in Files |-> IF g = f /\ Changes(t) THEN task[t].new ELSE thumbPath[g]]
  BY <1>2 DEF Commit
<1>4. thumbPath' \in [Files -> Path]
  BY <1>1, <1>3 DEF IInv, TypeOK, Task
<1>5. \A g \in Files \ task[t].at : thumbPath'[g] = thumbPath[g]
  BY <1>2, <1>3
<1>6. ASSUME ~shared, HasOriginal(f)
      PROVE  Named(f, thumbPath'[f]) \subseteq thumbs
  <2>1. Named(f, task[t].new) \subseteq thumbs
    BY <1>1, <1>2, <1>6 DEF IInv, Sole, StoredFirst
  <2>2. thumbPath'[f] = task[t].new
    <3>1. task[t].read[f] = thumbPath[f]
      BY <1>1, <1>2, <1>6 DEF IInv, Sole, ReadsHold
    <3> QED
      BY <1>2, <1>3, <3>1 DEF Changes
  <2> QED
    BY <2>1, <2>2
<1>7. Next1(t) /\ Counts("done") /\ UNCHANGED <<present, thumbs, stripped, shared>>
  BY DEF Commit
<1> QED
  BY <1>1, <1>2, <1>4, <1>5, <1>6, <1>7, TriedOne

LEMMA FailsKeeps ==
    ASSUME IInv, NEW t \in Tasks, SelectFails(t) \/ CommitBreaks(t)
    PROVE  IInv'
<1>1. Alive(t) /\ progress \in Progress /\ Ends(t)
  BY DEF IInv, Begun, SelectFails, CommitBreaks, Alive, At
<1>2. progress' = [progress EXCEPT !.status = "failed"]
      /\ UNCHANGED <<table, thumbs, stripped, shared>>
  BY DEF SelectFails, CommitBreaks
<1>3. progress' \in Progress /\ DoneAddsUp'
  BY <1>1, <1>2 DEF Progress, DoneAddsUp
<1> QED
  BY <1>1, <1>2, <1>3, EndingKeeps

(* At the end nothing is left: what has been tried is what was selected. *)
LEMMA FinishKeeps ==
    ASSUME IInv, NEW t \in Tasks, Finish(t)
    PROVE  IInv'
<1>1. Alive(t) /\ Working(t) /\ Shape(t) /\ progress \in Progress /\ Ends(t)
  BY DEF IInv, Begun, Finish, Alive, At, Working
<1>2. progress' = [progress EXCEPT !.status = "done"]
      /\ UNCHANGED <<table, thumbs, stripped, shared>>
  BY DEF Finish
<1>3. Tried(t) = task[t].files
  BY <1>1 DEF Finish, At, Shape, Tried
<1>4. progress' \in Progress /\ progress'.done = progress.done
      /\ progress'.failed = progress.failed /\ progress'.total = progress.total
  BY <1>1, <1>2 DEF Progress
<1>5. ASSUME ~shared
      PROVE  DoneAddsUp'
  <2>1. CountsTried(t)
    BY <1>5 DEF IInv, Sole
  <2> QED
    BY <1>1, <1>3, <1>4, <2>1 DEF CountsTried, DoneAddsUp
<1> QED
  BY <1>1, <1>2, <1>4, <1>5, EndingKeeps

(* A deletion only takes from the files that have an original, and only    *)
(* the thumbnails and the path of the file that it is about.               *)
LEMMA DeletionKeeps ==
    ASSUME IInv, TypeOK', NEW f \in Files, UNCHANGED <<task, progress, shared>>,
           \A g \in Files : HasOriginal(g)' => HasOriginal(g) /\ g # f,
           \A g \in Files \ {f} : thumbPath'[g] = thumbPath[g],
           \A g \in Files \ {f}, s \in Stamps : <<g, s>> \in thumbs => <<g, s>> \in thumbs'
    PROVE  IInv'
<1>1. \A t \in Tasks : Shape(t)'
  BY DEF IInv, Shape, Working
<1>2. Begun'
  BY DEF IInv, Begun
<1>3. ASSUME ~shared
      PROVE  Alone' /\ DoneAddsUp'
  BY <1>3 DEF IInv, Alone, Alive, At, DoneAddsUp
<1>4. ASSUME ~shared, NEW t \in Tasks
      PROVE  Sole(t)'
  <2>1. Sole(t) /\ Shape(t)
    BY <1>4 DEF IInv
  <2>2. FreshEntry(t)' /\ CountsTried(t)'
    BY <2>1 DEF Sole, FreshEntry, CountsTried, Working, Tried
  <2>3. ASSUME task[t].pc # "none"
        PROVE  task[t] \in Task
    BY <2>3, TaskParts DEF IInv, Alive, At
  <2>4. Working(t)' <=> Working(t)
    BY DEF Working
  <2>5. ReadsHold(t)'
    <3>1. ASSUME Working(t), NEW g \in task[t].todo \cup task[t].at, HasOriginal(g)'
          PROVE  task[t].read[g] = thumbPath'[g]
      <4>1. g \in Files
        BY <2>1, <2>3, <3>1 DEF Working, Task, Shape
      <4> QED
        BY <2>1, <3>1, <4>1 DEF Sole, ReadsHold
    <3> QED
      BY <2>4, <3>1 DEF ReadsHold
  <2>6. StoredFirst(t)'
    <3>1. ASSUME task[t].pc = "commit", NEW g \in task[t].at, HasOriginal(g)'
          PROVE  Named(g, task[t].new) \subseteq thumbs'
      <4>1. g \in Files /\ task[t].new \subseteq Stamps
        BY <2>3, <3>1 DEF Task, Path
      <4>2. Named(g, task[t].new) \subseteq thumbs
        BY <2>1, <3>1, <4>1 DEF Sole, StoredFirst
      <4> QED
        BY <3>1, <4>1, <4>2 DEF Named
    <3> QED
      BY <3>1 DEF StoredFirst, Named
  <2>7. Repairs(t)'
    <3>1. ASSUME Alive(t), progress.status = "running", progress.failed = 0,
                 NEW g \in Tried(t), HasOriginal(g)'
          PROVE  Named(g, thumbPath'[g]) \subseteq thumbs'
      <4>1. g \in Files
        BY <2>3, <3>1 DEF Tried, Task, Alive, At
      <4>2. thumbPath[g] \subseteq Stamps /\ thumbPath'[g] = thumbPath[g]
        BY <3>1, <4>1 DEF IInv, TypeOK, Path
      <4>3. Named(g, thumbPath[g]) \subseteq thumbs
        BY <2>1, <3>1, <4>1 DEF Sole, Repairs
      <4> QED
        BY <3>1, <4>1, <4>2, <4>3 DEF Named
    <3>2. Tried(t)' = Tried(t) /\ (Alive(t)' <=> Alive(t))
      BY DEF Tried, Alive, At
    <3> QED
      BY <3>1, <3>2 DEF Repairs, Named
  <2> QED
    BY <2>2, <2>5, <2>6, <2>7 DEF Sole
<1> QED
  BY <1>1, <1>2, <1>3, <1>4 DEF IInv

LEMMA DeleteFilesKeeps ==
    ASSUME IInv, NEW f \in Files, DeleteFiles(f)
    PROVE  IInv'
<1>1. TypeOK'
  BY DEF IInv, TypeOK, DeleteFiles, table
<1>2. \A g \in Files : HasOriginal(g)' => HasOriginal(g) /\ g # f
  BY DEF DeleteFiles, HasOriginal, table
<1>3. \A g \in Files \ {f}, s \in Stamps : <<g, s>> \in thumbs => <<g, s>> \in thumbs'
  BY DEF DeleteFiles, Named
<1>4. thumbPath' = thumbPath /\ UNCHANGED <<task, progress, shared>>
  BY DEF DeleteFiles, table
<1> QED
  BY <1>1, <1>2, <1>3, <1>4, DeletionKeeps

LEMMA DeleteRowKeeps ==
    ASSUME IInv, NEW f \in Files, DeleteRow(f)
    PROVE  IInv'
<1>1. TypeOK'
  BY DEF IInv, TypeOK, DeleteRow, Path
<1>2. \A g \in Files : HasOriginal(g)' => HasOriginal(g) /\ g # f
  BY DEF DeleteRow, HasOriginal
<1>3. \A g \in Files \ {f} : thumbPath'[g] = thumbPath[g]
  BY DEF DeleteRow, IInv, TypeOK
<1>4. thumbs' = thumbs /\ UNCHANGED <<task, progress, shared>>
  BY DEF DeleteRow
<1> QED
  BY <1>1, <1>2, <1>3, <1>4, DeletionKeeps

LEMMA RestartKeeps ==
    ASSUME IInv, Restart
    PROVE  IInv'
<1>1. \A t \in Tasks : task'[t].pc = "none"
  BY DEF Restart, Ended
<1>2. TypeOK'
  BY DEF IInv, TypeOK, Restart, table
<1>3. \A t \in Tasks : Shape(t)' /\ Sole(t)'
  BY <1>1 DEF Shape, Working, Sole, FreshEntry, ReadsHold, StoredFirst, CountsTried,
     Repairs, Alive, At
<1>4. Begun' /\ Alone' /\ DoneAddsUp'
  BY <1>1 DEF Restart, Begun, Alone, Alive, At, DoneAddsUp, NoProgress
<1> QED
  BY <1>2, <1>3, <1>4 DEF IInv

LEMMA StutteringKeeps ==
    ASSUME IInv, UNCHANGED vars
    PROVE  IInv'
<1> QED
  BY DEF IInv, vars, table, TypeOK, Shape, Working, Begun, Alone, Alive, At, DoneAddsUp, Sole,
     FreshEntry, ReadsHold, StoredFirst, CountsTried, Repairs, HasOriginal, Tried, Named

LEMMA StepKeeps == IInv /\ [Next]_vars => IInv'
<1> SUFFICES ASSUME IInv, [Next]_vars
             PROVE  IInv'
  OBVIOUS
<1>1. ASSUME NEW t \in Tasks, NEW missing \in BOOLEAN, StartRegeneration(t, missing)
      PROVE  IInv'
  BY <1>1, StartKeeps
<1>2. ASSUME NEW t \in Tasks, TaskStep(t)
      PROVE  IInv'
  <2>1. CASE Begin(t)
    BY <2>1, BeginKeeps
  <2>2. CASE SelectFiles(t)
    BY <2>2, SelectKeeps
  <2>3. CASE SelectFails(t) \/ CommitBreaks(t)
    BY <2>3, FailsKeeps
  <2>4. ASSUME NEW f \in Files, Retrieve(t, f)
        PROVE  IInv'
    BY <2>4, RetrieveKeeps
  <2>5. ASSUME NEW f \in Files, RetrieveFails(t, f)
        PROVE  IInv'
    BY <2>5, RetrieveFailsKeeps
  <2>6. CASE ClearThumb(t)
    BY <2>6, ClearKeeps
  <2>7. CASE StoreThumb(t)
    BY <2>7, StoreKeeps
  <2>8. CASE StoreThumbFails(t)
    BY <2>8, StoreFailsKeeps
  <2>9. CASE Commit(t)
    BY <2>9, CommitKeeps
  <2>10. CASE Finish(t)
    BY <2>10, FinishKeeps
  <2> QED
    BY <1>2, <2>1, <2>2, <2>3, <2>4, <2>5, <2>6, <2>7, <2>8, <2>9, <2>10 DEF TaskStep
<1>3. ASSUME NEW f \in Files, DeleteFiles(f) \/ DeleteRow(f)
      PROVE  IInv'
  BY <1>3, DeleteFilesKeeps, DeleteRowKeeps
<1>4. CASE Restart
  BY <1>4, RestartKeeps
<1>5. CASE UNCHANGED vars
  BY <1>5, StutteringKeeps
<1> QED
  BY <1>1, <1>2, <1>3, <1>4, <1>5 DEF Next

-----------------------------------------------------------------------------
(***************************************************************************)
(* The inductive invariant: a task that has the entry for itself counts    *)
(* every file once, and what it has read of a row still holds when it      *)
(* writes it.  media_service.py:351-402.                                   *)
(***************************************************************************)
THEOREM Invariant == Spec => []IInv
<1> QED
  BY Initially, StepKeeps, PTL DEF Spec

(***************************************************************************)
(* The variables have their types.                                         *)
(***************************************************************************)
THEOREM TypeCorrect == Spec => []TypeOK
<1>1. IInv => TypeOK
  BY DEF IInv
<1> QED
  BY <1>1, Invariant, PTL

(***************************************************************************)
(* The progress of a regeneration adds up while its task has the entry for *)
(* itself.  media_service.py:351-402.                                      *)
(***************************************************************************)
THEOREM ProgressIsRight == Spec => []ProgressAddsUp
<1>1. IInv => ProgressAddsUp
  BY DEF IInv, DoneAddsUp, Sole, CountsTried, Working, ProgressAddsUp
<1> QED
  BY <1>1, Invariant, PTL

(***************************************************************************)
(* A regeneration that reports no failure has repaired every row that it   *)
(* has tried.  media_service.py:364-397.                                   *)
(***************************************************************************)
THEOREM ThumbnailsAreRepaired == Spec => []RepairsThumbnails
<1>1. IInv => RepairsThumbnails
  BY DEF IInv, Sole, Repairs, RepairsThumbnails
<1> QED
  BY <1>1, Invariant, PTL
=============================================================================
