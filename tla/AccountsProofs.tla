--------------------------- MODULE AccountsProofs ---------------------------
(***************************************************************************)
(* Proofs about Accounts, for any users, any number of requests and any    *)
(* durations.                                                              *)
(*                                                                         *)
(* ShownIsRecent looks at the cache alone and is not inductive: a request  *)
(* that has read the setting fills the cache later.  ReadsAreRecent says   *)
(* that a read which the setting has overtaken is older than the change,   *)
(* and CacheIsRecent what is left of it once it is in the cache.           *)
(* AlwaysAnAdmin needs ActsOnOthers: that the one who acts keeps his right.*)
(***************************************************************************)
EXTENDS Accounts, TLAPS

Reads(q) == req[q].pc \in {"fill", "signup"}

ReadsAreRecent ==
    \A q \in Requests : Reads(q) =>
        /\ req[q].at <= now /\ now <= req[q].at + Slow
        /\ req[q].value # setting => req[q].at <= changed
        /\ req[q].pc = "signup" => req[q].value

CacheIsRecent ==
    cache.value # setting => cache.ts = 0 \/ cache.ts <= changed + Slow

ClockIsAhead == changed <= now /\ Uptime <= now /\ cache.ts <= now

ActsOnOthers ==
    \A q \in Requests : req[q].pc \in {"toggle", "delete"} => req[q].by # req[q].who

IInv ==
    /\ TypeOK
    /\ ActsOnOthers
    /\ ReadsAreRecent
    /\ CacheIsRecent
    /\ ClockIsAhead
    /\ AlwaysAnAdmin

-----------------------------------------------------------------------------
(* What the types of the requests say of their parts. *)
LEMMA RequestParts ==
    ASSUME TypeOK, NEW q \in Requests
    PROVE  /\ req[q].pc \in {"fill", "signup"} => req[q].value \in BOOLEAN /\ req[q].at \in Int
           /\ req[q].pc \in {"save", "invalidate"} =>
                req[q].value \in BOOLEAN /\ req[q].was \in BOOLEAN
           /\ req[q].pc \in {"toggle", "delete"} =>
                req[q].by \in Users /\ req[q].who \in Users /\ req[q].was \in Status
<1>1. req[q] \in {Idle} \cup Request
  BY DEF TypeOK
<1>2. Idle.pc = "idle"
  BY DEF Idle
<1> QED
  BY <1>1, <1>2 DEF Request

(* A request that ends leaves the others as they are. *)
LEMMA EndsType ==
    ASSUME TypeOK, NEW q \in Requests, Ends(q)
    PROVE  /\ req' \in [Requests -> {Idle} \cup Request]
           /\ req'[q].pc = "idle"
           /\ \A o \in Requests \ {q} : req'[o] = req[o]
<1> QED
  BY DEF Ends, TypeOK, Idle

(* So does one that starts. *)
LEMMA StartsType ==
    ASSUME TypeOK, NEW q \in Requests, NEW r \in Request, Starts(q, r)
    PROVE  /\ req' \in [Requests -> {Idle} \cup Request]
           /\ req'[q] = r
           /\ \A o \in Requests \ {q} : req'[o] = req[o]
<1> QED
  BY DEF Starts, TypeOK

(* A request that ends, or starts without having read the setting, keeps   *)
(* the reads recent while setting and clock stand still.                   *)
LEMMA ReadsStay ==
    ASSUME ReadsAreRecent, UNCHANGED <<setting, changed, now>>, NEW q \in Requests,
           req'[q].pc \notin {"fill", "signup"},
           \A o \in Requests \ {q} : req'[o] = req[o]
    PROVE  ReadsAreRecent'
<1> QED
  BY DEF ReadsAreRecent, Reads

(* Nor does a request act on its sender when it does not act at all. *)
LEMMA ActsStay ==
    ASSUME ActsOnOthers, NEW q \in Requests,
           req'[q].pc \in {"toggle", "delete"} => req'[q].by # req'[q].who,
           \A o \in Requests \ {q} : req'[o] = req[o]
    PROVE  ActsOnOthers'
<1> QED
  BY DEF ActsOnOthers

LEMMA Initially ==
    ASSUME Init
    PROVE  IInv
<1>1. TypeOK
  BY ClockAssumption DEF Init, TypeOK, Status, Cache, NoCache
<1>2. ReadsAreRecent
  BY DEF Init, ReadsAreRecent, Reads, Idle
<1>3. CacheIsRecent /\ ClockIsAhead
  BY ClockAssumption DEF Init, CacheIsRecent, ClockIsAhead, NoCache
<1>4. AlwaysAnAdmin /\ ActsOnOthers
  BY DEF Init, AlwaysAnAdmin, ActsOnOthers, Idle
<1> QED
  BY <1>1, <1>2, <1>3, <1>4 DEF IInv

-----------------------------------------------------------------------------
(* A step that touches neither clock, setting nor cache, and ends its      *)
(* request or starts one that has read nothing of the setting.             *)
LEMMA OtherRequests ==
    ASSUME IInv, UNCHANGED <<registration, cache, now>>, NEW q \in Requests,
           req' \in [Requests -> {Idle} \cup Request],
           req'[q].pc \notin {"fill", "signup"},
           req'[q].pc \in {"toggle", "delete"} => req'[q].by # req'[q].who,
           \A o \in Requests \ {q} : req'[o] = req[o],
           status' \in [Users -> Status], named' \subseteq Users, raced' \in BOOLEAN,
           AlwaysAnAdmin'
    PROVE  IInv'
<1>1. TypeOK'
  BY DEF IInv, TypeOK, registration
<1>2. ReadsAreRecent'
  BY ReadsStay DEF IInv, registration
<1>3. CacheIsRecent' /\ ClockIsAhead' /\ ActsOnOthers'
  BY ActsStay DEF IInv, CacheIsRecent, ClockIsAhead, registration
<1> QED
  BY <1>1, <1>2, <1>3 DEF IInv

(* The table stays as it is, and with it its admins. *)
LEMMA TableStays ==
    ASSUME IInv, UNCHANGED table
    PROVE  /\ status' \in [Users -> Status] /\ named' \subseteq Users
           /\ raced' \in BOOLEAN /\ AlwaysAnAdmin'
<1> QED
  BY DEF IInv, TypeOK, AlwaysAnAdmin, table

(* A request reads the setting: context.py:11-19, auth/routes.py:96-104.   *)
LEMMA ReadingKeeps ==
    ASSUME IInv, NEW q \in Requests, PageReads(q) \/ SignUpReads(q)
    PROVE  IInv'
<1> DEFINE Read(pc) == [pc |-> pc, value |-> setting, at |-> now]
<1>1. setting \in BOOLEAN /\ now \in Nat /\ changed <= now
  BY DEF IInv, TypeOK, ClockIsAhead
<1>2. PICK pc \in {"fill", "signup"} : Starts(q, Read(pc)) /\ (pc = "signup" => setting)
  <2>1. CASE PageReads(q)
    BY <2>1 DEF PageReads
  <2>2. CASE SignUpReads(q)
    <3>1. setting = TRUE
      BY <1>1, <2>2 DEF SignUpReads
    <3> QED
      BY <2>2, <3>1 DEF SignUpReads
  <2> QED
    BY <2>1, <2>2
<1>3. UNCHANGED <<table, registration, cache, now>>
  BY DEF PageReads, SignUpReads
<1>4. Read(pc) \in Request
  BY <1>1 DEF Request
<1>5. /\ req' \in [Requests -> {Idle} \cup Request]
      /\ req'[q] = Read(pc)
      /\ \A o \in Requests \ {q} : req'[o] = req[o]
  BY <1>2, <1>4, StartsType DEF IInv
<1>6. TypeOK' /\ AlwaysAnAdmin'
  BY <1>3, <1>5, TableStays DEF IInv, TypeOK, registration
<1>7. ReadsAreRecent'
  <2> SUFFICES ASSUME NEW o \in Requests, req'[o].pc \in {"fill", "signup"}
               PROVE  /\ req'[o].at <= now /\ now <= req'[o].at + Slow
                      /\ req'[o].value # setting => req'[o].at <= changed
                      /\ req'[o].pc = "signup" => req'[o].value
    BY <1>3 DEF ReadsAreRecent, Reads, registration
  <2>1. CASE o = q
    BY <2>1, <1>1, <1>2, <1>5, ClockAssumption
  <2>2. CASE o # q
    BY <2>2, <1>5 DEF IInv, ReadsAreRecent, Reads
  <2> QED
    BY <2>1, <2>2
<1>8. CacheIsRecent' /\ ClockIsAhead' /\ ActsOnOthers'
  BY <1>3, <1>5, ActsStay DEF IInv, CacheIsRecent, ClockIsAhead, registration
<1> QED
  BY <1>6, <1>7, <1>8 DEF IInv

(* What the cache is filled with was the setting until the change at       *)
(* least, and the read is no older than Slow: context.py:17-20.            *)
LEMMA FillingKeeps ==
    ASSUME IInv, NEW q \in Requests, PageFills(q)
    PROVE  IInv'
<1>1. /\ req[q].pc = "fill" /\ Ends(q)
      /\ cache' = [value |-> req[q].value, ts |-> now]
      /\ UNCHANGED <<table, registration, now>>
  BY DEF PageFills, At
<1>2. /\ req[q].value \in BOOLEAN /\ req[q].at \in Int
      /\ now <= req[q].at + Slow
      /\ req[q].value # setting => req[q].at <= changed
  BY <1>1, RequestParts DEF IInv, ReadsAreRecent, Reads
<1>3. now \in Nat /\ changed \in Int /\ Slow \in Int
  BY ClockAssumption DEF IInv, TypeOK
<1>4. /\ req' \in [Requests -> {Idle} \cup Request]
      /\ req'[q].pc = "idle"
      /\ \A o \in Requests \ {q} : req'[o] = req[o]
  BY <1>1, EndsType DEF IInv
<1>5. TypeOK' /\ AlwaysAnAdmin'
  <2>1. cache' \in Cache
    BY <1>1, <1>2, <1>3 DEF Cache
  <2> QED
    BY <2>1, <1>1, <1>4, TableStays DEF IInv, TypeOK, registration
<1>6. ReadsAreRecent'
  BY <1>1, <1>4, ReadsStay DEF IInv, registration
<1>7. CacheIsRecent'
  <2>1. req[q].value # setting => now <= changed + Slow
    BY <1>2, <1>3
  <2> QED
    BY <2>1, <1>1 DEF CacheIsRecent, registration
<1>8. ClockIsAhead' /\ ActsOnOthers'
  BY <1>1, <1>3, <1>4, ActsStay DEF IInv, ClockIsAhead, registration
<1> QED
  BY <1>5, <1>6, <1>7, <1>8 DEF IInv

(* The setting changes now, so that every read is older: admin.py:183-184. *)
LEMMA SavingKeeps ==
    ASSUME IInv, NEW q \in Requests, SaveCommits(q)
    PROVE  IInv'
<1>1. /\ req[q].pc = "save"
      /\ setting' = IF req[q].value = req[q].was THEN setting ELSE req[q].value
      /\ changed' = IF setting' = setting THEN changed ELSE now
      /\ req' = [req EXCEPT ![q].pc = "invalidate"]
      /\ UNCHANGED <<table, cache, now>>
  BY DEF SaveCommits, At
<1>2. req[q] \in Request /\ req[q].value \in BOOLEAN /\ req[q].was \in BOOLEAN
  <2>1. req[q] \in {Idle} \cup Request /\ Idle.pc = "idle"
    BY DEF IInv, TypeOK, Idle
  <2> QED
    BY <2>1, <1>1, RequestParts DEF IInv
<1>3. /\ req'[q] = [pc |-> "invalidate", value |-> req[q].value, was |-> req[q].was]
      /\ \A o \in Requests \ {q} : req'[o] = req[o]
      /\ req' \in [Requests -> {Idle} \cup Request]
  <2>1. req[q] \in [pc : {"save", "invalidate"}, value : BOOLEAN, was : BOOLEAN]
    BY <1>1, <1>2 DEF Request
  <2>2. [req[q] EXCEPT !.pc = "invalidate"] = [pc |-> "invalidate", value |-> req[q].value, was |-> req[q].was]
    BY <2>1
  <2>3. [pc |-> "invalidate", value |-> req[q].value, was |-> req[q].was] \in Request
    BY <1>2 DEF Request
  <2> QED
    BY <1>1, <2>2, <2>3 DEF IInv, TypeOK
<1>4. now \in Nat /\ changed \in Int /\ changed <= now /\ setting \in BOOLEAN
      /\ cache \in Cache /\ cache.ts <= now /\ Slow \in Nat
  BY ClockAssumption DEF IInv, TypeOK, ClockIsAhead
<1>5. TypeOK' /\ AlwaysAnAdmin'
  BY <1>1, <1>2, <1>3, <1>4, TableStays DEF IInv, TypeOK
<1>6. ReadsAreRecent'
  <2> SUFFICES ASSUME NEW o \in Requests, req'[o].pc \in {"fill", "signup"}
               PROVE  /\ req'[o].at <= now /\ now <= req'[o].at + Slow
                      /\ req'[o].value # setting' => req'[o].at <= changed'
                      /\ req'[o].pc = "signup" => req'[o].value
    BY <1>1 DEF ReadsAreRecent, Reads
  <2>1. o # q /\ req'[o] = req[o]
    BY <1>3
  <2>2. /\ req[o].at <= now /\ now <= req[o].at + Slow
        /\ req[o].value # setting => req[o].at <= changed
        /\ req[o].pc = "signup" => req[o].value
    BY <2>1 DEF IInv, ReadsAreRecent, Reads
  <2>3. CASE setting' = setting
    BY <2>1, <2>2, <2>3, <1>1
  <2>4. CASE setting' # setting
    BY <2>1, <2>2, <2>4, <1>1
  <2> QED
    BY <2>3, <2>4
<1>7. CacheIsRecent'
  <2>1. CASE setting' = setting
    BY <2>1, <1>1 DEF IInv, CacheIsRecent
  <2>2. CASE setting' # setting
    <3>1. cache.ts \in Nat /\ changed' = now
      BY <2>2, <1>1, <1>4 DEF Cache
    <3>2. cache.ts <= changed' + Slow
      BY <3>1, <1>4
    <3> QED
      BY <3>2, <1>1 DEF CacheIsRecent
  <2> QED
    BY <2>1, <2>2
<1>8. ClockIsAhead' /\ ActsOnOthers'
  BY <1>1, <1>3, <1>4, ActsStay DEF IInv, ClockIsAhead
<1> QED
  BY <1>5, <1>6, <1>7, <1>8 DEF IInv

(* A time of 0 says that the cache is empty: context.py:27-29. *)
LEMMA InvalidatingKeeps ==
    ASSUME IInv, NEW q \in Requests, Invalidates(q)
    PROVE  IInv'
<1>1. /\ Ends(q) /\ cache' = [cache EXCEPT !.ts = 0]
      /\ UNCHANGED <<table, registration, now>>
  BY DEF Invalidates
<1>2. cache' \in Cache /\ cache'.ts = 0
  BY <1>1 DEF IInv, TypeOK, Cache
<1>3. /\ req' \in [Requests -> {Idle} \cup Request]
      /\ req'[q].pc = "idle"
      /\ \A o \in Requests \ {q} : req'[o] = req[o]
  BY <1>1, EndsType DEF IInv
<1>4. TypeOK' /\ AlwaysAnAdmin'
  BY <1>1, <1>2, <1>3, TableStays DEF IInv, TypeOK, registration
<1>5. ReadsAreRecent'
  BY <1>1, <1>3, ReadsStay DEF IInv, registration
<1>6. CacheIsRecent' /\ ClockIsAhead' /\ ActsOnOthers'
  BY <1>1, <1>2, <1>3, ActsStay DEF IInv, TypeOK, CacheIsRecent, ClockIsAhead, registration
<1> QED
  BY <1>4, <1>5, <1>6 DEF IInv

(* What begins or fails leaves table, setting and cache alone. *)
LEMMA BeginningKeeps ==
    ASSUME IInv, NEW q \in Requests,
           \/ \E a \in Users, value \in BOOLEAN : SaveStarts(q, a, value)
           \/ \E a, u \in Users : ToggleSelects(q, a, u) \/ DeleteSelects(q, a, u)
           \/ Fails(q)
    PROVE  IInv'
<1> DEFINE Begun == /\ req' \in [Requests -> {Idle} \cup Request]
                    /\ req'[q].pc \notin {"fill", "signup"}
                    /\ req'[q].pc \in {"toggle", "delete"} => req'[q].by # req'[q].who
                    /\ \A o \in Requests \ {q} : req'[o] = req[o]
<1>1. UNCHANGED <<table, registration, cache, now>>
  BY DEF SaveStarts, ToggleSelects, DeleteSelects, AdminSelects, Fails
<1>2. Begun
  <2>1. ASSUME NEW a \in Users, NEW value \in BOOLEAN, SaveStarts(q, a, value)
        PROVE  Begun
    <3>1. Starts(q, [pc |-> "save", value |-> value, was |-> setting])
      BY <2>1 DEF SaveStarts
    <3>2. [pc |-> "save", value |-> value, was |-> setting] \in Request
      BY DEF Request, IInv, TypeOK
    <3> QED
      BY <3>1, <3>2, StartsType DEF IInv
  <2>2. ASSUME NEW a \in Users, NEW u \in Users, NEW pc \in {"toggle", "delete"},
               AdminSelects(q, pc, a, u)
        PROVE  Begun
    <3>1. u # a /\ Starts(q, [pc |-> pc, by |-> a, who |-> u, was |-> status[u]])
      BY <2>2 DEF AdminSelects
    <3>2. [pc |-> pc, by |-> a, who |-> u, was |-> status[u]] \in Request
      BY DEF Request, IInv, TypeOK
    <3> QED
      BY <3>1, <3>2, StartsType DEF IInv
  <2>3. CASE Fails(q)
    BY <2>3, EndsType DEF Fails, IInv
  <2> QED
    BY <2>1, <2>2, <2>3 DEF ToggleSelects, DeleteSelects
<1> QED
  BY <1>1, <1>2, TableStays, OtherRequests

(* An admin does nothing to himself: if he is one still, one is left       *)
(* (admin.py:86-111).  A sign-up takes nobody's right.                     *)
LEMMA ActingKeeps ==
    ASSUME IInv, NEW q \in Requests,
           \/ \E u \in Users : SignUpInserts(q, u)
           \/ ToggleCommits(q) \/ DeleteCommits(q)
    PROVE  IInv'
<1> DEFINE TableHolds == /\ status' \in [Users -> Status] /\ named' \subseteq Users
                         /\ raced' \in BOOLEAN /\ AlwaysAnAdmin'
<1>1. Ends(q) /\ UNCHANGED <<registration, cache, now>>
  BY DEF SignUpInserts, ToggleCommits, DeleteCommits
<1>2. /\ req' \in [Requests -> {Idle} \cup Request]
      /\ req'[q].pc = "idle"
      /\ \A o \in Requests \ {q} : req'[o] = req[o]
  BY <1>1, EndsType DEF IInv
<1>3. TableHolds
  <2>1. ASSUME NEW u \in Users, SignUpInserts(q, u)
        PROVE  TableHolds
    BY <2>1 DEF SignUpInserts, IInv, TypeOK, Status, AlwaysAnAdmin
  <2>2. CASE ToggleCommits(q) \/ DeleteCommits(q)
    <3>1. req[q].by \in Users /\ req[q].who \in Users /\ req[q].by # req[q].who
      BY <2>2, RequestParts DEF IInv, ActsOnOthers, ToggleCommits, DeleteCommits, At
    <3>2. /\ \E new \in Status : status' = [status EXCEPT ![req[q].who] = new]
          /\ named' \subseteq named
          /\ raced' = (raced \/ status[req[q].by] # "admin")
      BY <2>2 DEF ToggleCommits, DeleteCommits, Acts, Status
    <3>3. status' \in [Users -> Status] /\ named' \subseteq Users
      BY <3>2 DEF IInv, TypeOK
    <3>4. status'[req[q].by] = status[req[q].by]
      BY <3>1, <3>2 DEF IInv, TypeOK
    <3>5. raced' \in BOOLEAN
      BY <3>2 DEF IInv, TypeOK
    <3>6. AlwaysAnAdmin'
      BY <3>1, <3>2, <3>4 DEF AlwaysAnAdmin
    <3> QED
      BY <3>3, <3>5, <3>6
  <2> QED
    BY <2>1, <2>2
<1> QED
  BY <1>1, <1>2, <1>3, OtherRequests

(* A process that starts knows of no request and has an empty cache, and   *)
(* gives the right to a user of the name if there is none: main.py:31-60.  *)
LEMMA RestartKeeps ==
    ASSUME IInv, Restart
    PROVE  IInv'
<1>1. /\ req' = [q \in Requests |-> Idle] /\ cache' = NoCache
      /\ UNCHANGED <<registration, now, raced>>
  BY DEF Restart
<1>2. status' \in [Users -> Status] /\ named' \subseteq Users /\ AlwaysAnAdmin'
  <2>1. CASE named # {}
    BY <2>1 DEF Restart, IInv, TypeOK, AlwaysAnAdmin
  <2>2. CASE named = {}
    BY <2>2 DEF Restart, IInv, TypeOK, Status, AlwaysAnAdmin
  <2> QED
    BY <2>1, <2>2
<1>3. TypeOK'
  BY <1>1, <1>2 DEF IInv, TypeOK, registration, NoCache, Cache
<1>4. ReadsAreRecent' /\ ActsOnOthers'
  BY <1>1 DEF ReadsAreRecent, Reads, ActsOnOthers, Idle
<1>5. CacheIsRecent' /\ ClockIsAhead'
  BY <1>1 DEF IInv, TypeOK, CacheIsRecent, ClockIsAhead, NoCache, registration
<1> QED
  BY <1>2, <1>3, <1>4, <1>5 DEF IInv

(* Time passes, but for no request longer than Slow. *)
LEMMA TickKeeps ==
    ASSUME IInv, Tick
    PROVE  IInv'
<1>1. now' = now + 1 /\ UNCHANGED <<table, registration, cache, req>>
  BY DEF Tick
<1>2. now \in Nat /\ changed \in Int /\ Uptime \in Nat /\ cache.ts \in Nat /\ Slow \in Nat
  BY ClockAssumption DEF IInv, TypeOK, Cache
<1>3. TypeOK' /\ AlwaysAnAdmin' /\ ActsOnOthers' /\ CacheIsRecent'
  BY <1>1, <1>2 DEF IInv, TypeOK, AlwaysAnAdmin, ActsOnOthers, CacheIsRecent,
     table, registration
<1>4. ClockIsAhead'
  BY <1>1, <1>2 DEF IInv, ClockIsAhead, registration
<1>5. ReadsAreRecent'
  <2> SUFFICES ASSUME NEW q \in Requests, Reads(q)
               PROVE  req[q].at <= now' /\ now' <= req[q].at + Slow
    BY <1>1 DEF IInv, ReadsAreRecent, Reads, registration
  <2>1. req[q].at \in Int /\ req[q].at <= now
    BY RequestParts DEF IInv, ReadsAreRecent, Reads
  <2>2. now - req[q].at < Slow
    BY DEF Tick, Reads, At
  <2> QED
    BY <1>1, <1>2, <2>1, <2>2
<1> QED
  BY <1>3, <1>4, <1>5 DEF IInv

LEMMA StepKeeps ==
    ASSUME IInv, [Next]_vars
    PROVE  IInv'
<1>1. ASSUME NEW q \in Requests, PageReads(q) \/ SignUpReads(q)
      PROVE  IInv'
  BY <1>1, ReadingKeeps
<1>2. ASSUME NEW q \in Requests, PageFills(q)
      PROVE  IInv'
  BY <1>2, FillingKeeps
<1>3. ASSUME NEW q \in Requests, SaveCommits(q)
      PROVE  IInv'
  BY <1>3, SavingKeeps
<1>4. ASSUME NEW q \in Requests, Invalidates(q)
      PROVE  IInv'
  BY <1>4, InvalidatingKeeps
<1>5. ASSUME NEW q \in Requests,
             \/ \E a \in Users, value \in BOOLEAN : SaveStarts(q, a, value)
             \/ \E a, u \in Users : ToggleSelects(q, a, u) \/ DeleteSelects(q, a, u)
             \/ Fails(q)
      PROVE  IInv'
  BY <1>5, BeginningKeeps
<1>6. ASSUME NEW q \in Requests,
             \/ \E u \in Users : SignUpInserts(q, u)
             \/ ToggleCommits(q) \/ DeleteCommits(q)
      PROVE  IInv'
  BY <1>6, ActingKeeps
<1>7. CASE Restart
  BY <1>7, RestartKeeps
<1>8. CASE Tick
  BY <1>8, TickKeeps
<1>9. CASE UNCHANGED vars
  BY <1>9 DEF vars, table, registration, IInv, TypeOK, ReadsAreRecent, Reads, CacheIsRecent,
     ClockIsAhead, ActsOnOthers, AlwaysAnAdmin
<1> QED
  BY <1>1, <1>2, <1>3, <1>4, <1>5, <1>6, <1>7, <1>8, <1>9 DEF Next

-----------------------------------------------------------------------------
(* The inductive invariant holds of every state, for every number of       *)
(* users and requests and every length of TTL and Slow (context.py,        *)
(* admin.py, auth/routes.py).                                              *)
THEOREM Invariant == Spec => []IInv
<1>1. Init => IInv
  BY Initially
<1>2. IInv /\ [Next]_vars => IInv'
  BY StepKeeps
<1> QED
  BY <1>1, <1>2, PTL DEF Spec

(* The variables keep their types. *)
THEOREM TypeCorrect == Spec => []TypeOK
<1>1. IInv => TypeOK
  BY DEF IInv
<1> QED
  BY <1>1, Invariant, PTL

(* No page shows an old value for longer than TTL and Slow after the       *)
(* change (context.py:11-29): a made-up value is not fresh, because the    *)
(* clock is ahead of TTL.                                                  *)
THEOREM PagesCatchUp == Spec => []ShownIsRecent
<1>1. IInv => ShownIsRecent
  <2> SUFFICES ASSUME IInv, Fresh, cache.value # setting
               PROVE  now - changed < TTL + Slow
    BY DEF ShownIsRecent
  <2>1. now \in Nat /\ changed \in Int /\ cache.ts \in Nat /\ Uptime <= now
    BY DEF IInv, TypeOK, Cache, ClockIsAhead
  <2>2. now - cache.ts < TTL
    BY DEF Fresh
  <2>3. cache.ts # 0
    BY <2>1, <2>2, ClockAssumption
  <2>4. cache.ts <= changed + Slow
    BY <2>3 DEF IInv, CacheIsRecent
  <2> QED
    BY <2>1, <2>2, <2>4, ClockAssumption
<1> QED
  BY <1>1, Invariant, PTL

(* There is an admin as long as no one acts who has lost the right:        *)
(* admin.py:86-111, main.py:31-60.                                         *)
THEOREM AnAdminIsLeft == Spec => []AlwaysAnAdmin
<1>1. IInv => AlwaysAnAdmin
  BY DEF IInv
<1> QED
  BY <1>1, Invariant, PTL

(* Who signs up did so while registration was open, or had begun to no     *)
(* earlier than Slow before (auth/routes.py:96-145): what a sign-up has    *)
(* read is TRUE, and older than the change if the setting says otherwise.  *)
THEOREM SignUpsWereOpen == Spec => SignUpWasOpen
<1> DEFINE Open == setting \/ now - changed <= Slow
<1>1. ASSUME IInv, [Next]_vars, NEW u \in Users, status[u] = "new", status'[u] = "user"
      PROVE  Open
  <2>1. PICK q \in Requests : At(q, "signup")
    <3>1. ASSUME NEW q \in Requests, ToggleCommits(q) \/ DeleteCommits(q)
          PROVE  FALSE
      <4>1. req[q].who # u
        BY <1>1, <3>1 DEF ToggleCommits, DeleteCommits, Present
      <4>2. \E new \in Status : status' = [status EXCEPT ![req[q].who] = new]
        BY <3>1 DEF ToggleCommits, DeleteCommits, Status
      <4> QED
        BY <1>1, <4>1, <4>2 DEF IInv, TypeOK
    <3>2. ~Restart
      BY <1>1 DEF Restart, IInv, TypeOK
    <3>3. ~UNCHANGED status
      BY <1>1
    <3>4. ~UNCHANGED table /\ ~Tick /\ ~UNCHANGED vars
      BY <3>3 DEF table, Tick, vars
    <3>5. PICK q \in Requests : \E new \in Users : SignUpInserts(q, new)
      BY <1>1, <3>1, <3>2, <3>4 DEF Next, PageReads, PageFills, SaveStarts, SaveCommits,
         Invalidates, SignUpReads, ToggleSelects, DeleteSelects, AdminSelects, Fails
    <3> QED
      BY <3>5 DEF SignUpInserts
  <2>2. /\ req[q].value \in BOOLEAN /\ req[q].at \in Int
        /\ now <= req[q].at + Slow
        /\ req[q].value # setting => req[q].at <= changed
        /\ req[q].value
    BY <1>1, <2>1, RequestParts DEF IInv, ReadsAreRecent, Reads, At
  <2>3. now \in Nat /\ changed \in Int /\ setting \in BOOLEAN
    BY <1>1 DEF IInv, TypeOK
  <2>4. CASE setting
    BY <2>4
  <2>5. CASE ~setting
    <3>1. req[q].at <= changed
      BY <2>2, <2>3, <2>5
    <3> QED
      BY <2>2, <2>3, <3>1, ClockAssumption
  <2> QED
    BY <2>4, <2>5
<1>2. IInv /\ [Next]_vars =>
        [\A u \in Users : status[u] = "new" /\ status'[u] = "user" => Open]_vars
  BY <1>1
<1> QED
  BY <1>2, Invariant, PTL DEF Spec, SignUpWasOpen
=============================================================================
