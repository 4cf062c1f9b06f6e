------------------------------ MODULE Accounts ------------------------------
(***************************************************************************)
(* The users table with the rights of the admins, the setting that opens   *)
(* or closes registration, and the cache through which every page shows    *)
(* the setting (utils/context.py).                                         *)
(*                                                                         *)
(* A request reads first and writes later, with awaits in between, and no  *)
(* lock orders requests: what a request was allowed to do may have been    *)
(* taken from its sender when it does it.  The clock is time.monotonic().  *)
(***************************************************************************)
EXTENDS Integers

CONSTANTS
    Users,      \* rows of the table, those to come included
    Requests,   \* concurrent requests
    TTL,        \* _REG_TTL
    Slow,       \* the longest time from a read of a request to its next step
    Uptime,     \* the clock when the process starts, which is that of the host
    Stored,     \* when the setting got the value that the process finds
    Horizon     \* bound of the clock

ASSUME ClockAssumption ==
    /\ TTL \in Nat /\ Slow \in Nat /\ Uptime \in Nat /\ Stored \in Int
    /\ Stored <= Uptime
    /\ TTL <= Uptime           \* the host has been up for longer than _REG_TTL

VARIABLES
    status,     \* what each row of users is
    named,      \* the row with the name settings.admin_username, if any
    setting,    \* allow_registration in app_settings
    cache,      \* _reg_cache
    req,        \* the requests in flight
    now,        \* time.monotonic()
    changed,    \* history: when the setting got its value
    raced       \* history: an admin acted whose right had been withdrawn

vars == <<status, named, setting, cache, req, now, changed, raced>>
table == <<status, named, raced>>
registration == <<setting, changed>>

-----------------------------------------------------------------------------
Idle == [pc |-> "idle"]

Status == {"new", "user", "admin", "deleted"}
Cache == [value : BOOLEAN, ts : Nat]
Request ==
    [pc : {"fill", "signup"}, value : BOOLEAN, at : Int]
    \cup [pc : {"save", "invalidate"}, value : BOOLEAN, was : BOOLEAN]
    \cup [pc : {"toggle", "delete"}, by : Users, who : Users, was : Status]

TypeOK ==
    /\ status \in [Users -> Status]
    /\ named \subseteq Users
    /\ setting \in BOOLEAN
    /\ cache \in Cache
    /\ req \in [Requests -> {Idle} \cup Request]
    /\ now \in Nat
    /\ changed \in Int
    /\ raced \in BOOLEAN

(* The first value of the cache is made up: a time of 0.0 says so, as long *)
(* as the host has been up for a while.                                    *)
NoCache == [value |-> TRUE, ts |-> 0]

(* After the first start: create_admin_user has made the first admin.  The *)
(* setting may have been stored by an earlier process.                     *)
Init ==
    /\ \E first \in Users :
          /\ status = [u \in Users |-> IF u = first THEN "admin" ELSE "new"]
          /\ named = {first}
    /\ setting \in BOOLEAN
    /\ cache = NoCache
    /\ req = [q \in Requests |-> Idle]
    /\ now = Uptime
    /\ changed = Stored
    /\ raced = FALSE

-----------------------------------------------------------------------------
At(q, pc) == req[q].pc = pc
Fresh == now - cache.ts < TTL

Starts(q, r) == req[q] = Idle /\ req' = [req EXCEPT ![q] = r]
Ends(q) == req' = [req EXCEPT ![q] = Idle]

(* Every error path of a request, and a user that is not let in. *)
Fails(q) ==
    /\ req[q] # Idle
    /\ Ends(q)
    /\ UNCHANGED <<table, registration, cache, now>>

-----------------------------------------------------------------------------
(* A page: _get_allow_registration, when the cache is old *)

PageReads(q) ==
    /\ ~Fresh
    /\ Starts(q, [pc |-> "fill", value |-> setting, at |-> now])
    /\ UNCHANGED <<table, registration, cache, now>>

BadPageFills(q) ==
    /\ At(q, "fill")
    /\ cache' = [value |-> cache.value, ts |-> now]
    /\ Ends(q)
    /\ UNCHANGED <<table, registration, now>>

PageFills(q) ==
    /\ At(q, "fill")
    /\ cache' = [value |-> req[q].value, ts |-> now]
    /\ Ends(q)
    /\ UNCHANGED <<table, registration, now>>

-----------------------------------------------------------------------------
(* The settings page of an admin: admin_settings_post *)

SaveStarts(q, a, value) ==
    /\ status[a] = "admin"
    /\ Starts(q, [pc |-> "save", value |-> value, was |-> setting])
    /\ UNCHANGED <<table, registration, cache, now>>

(* A value that is the one set_setting has read is not written. *)
SaveCommits(q) ==
    /\ At(q, "save")
    /\ setting' = IF req[q].value = req[q].was THEN setting ELSE req[q].value
    /\ changed' = IF setting' = setting THEN changed ELSE now
    /\ req' = [req EXCEPT ![q].pc = "invalidate"]
    /\ UNCHANGED <<table, cache, now>>

BadInvalidates(q) ==
    /\ At(q, "invalidate")
    /\ cache' = [cache EXCEPT !.ts = @ - TTL]
    /\ Ends(q)
    /\ UNCHANGED <<table, registration, now>>

Invalidates(q) ==
    /\ At(q, "invalidate")
    /\ cache' = [cache EXCEPT !.ts = 0]
    /\ Ends(q)
    /\ UNCHANGED <<table, registration, now>>

-----------------------------------------------------------------------------
(* signup_post goes by the table, not by the cache.  Names are unique, but *)
(* once the first admin is deleted anyone can take his name.               *)

BadSignUpReads(q) ==
    /\ IF Fresh THEN cache.value ELSE setting
    /\ Starts(q, [pc |-> "signup", value |-> TRUE, at |-> now])
    /\ UNCHANGED <<table, registration, cache, now>>

SignUpReads(q) ==
    /\ setting
    /\ Starts(q, [pc |-> "signup", value |-> TRUE, at |-> now])
    /\ UNCHANGED <<table, registration, cache, now>>

SignUpInserts(q, u) ==
    /\ At(q, "signup")
    /\ status[u] = "new"
    /\ status' = [status EXCEPT ![u] = "user"]
    /\ \/ named' = named
       \/ named = {} /\ named' = {u}
    /\ Ends(q)
    /\ UNCHANGED <<raced, registration, cache, now>>

-----------------------------------------------------------------------------
(* The admin's users page: admin_toggle_admin, admin_delete_user *)

Present(u) == status[u] \in {"user", "admin"}

BadAdminSelects(q, pc, a, u) ==
    /\ status[a] = "admin"
    /\ Present(u)
    /\ Starts(q, [pc |-> pc, by |-> a, who |-> u, was |-> status[u]])
    /\ UNCHANGED <<table, registration, cache, now>>

(* Nobody does it to himself. *)
AdminSelects(q, pc, a, u) ==
    /\ status[a] = "admin"
    /\ Present(u)
    /\ u # a
    /\ Starts(q, [pc |-> pc, by |-> a, who |-> u, was |-> status[u]])
    /\ UNCHANGED <<table, registration, cache, now>>

ToggleSelects(q, a, u) == AdminSelects(q, "toggle", a, u)
DeleteSelects(q, a, u) == AdminSelects(q, "delete", a, u)

(* The right was checked when the request began. *)
Acts(q) == raced' = (raced \/ status[req[q].by] # "admin")

(* A row that is gone cannot be updated. *)
ToggleCommits(q) ==
    /\ At(q, "toggle")
    /\ Present(req[q].who)
    /\ status' = [status EXCEPT ![req[q].who] =
                    IF req[q].was = "admin" THEN "user" ELSE "admin"]
    /\ Acts(q)
    /\ Ends(q)
    /\ UNCHANGED <<named, registration, cache, now>>

(* A user with events is not deleted: owner_id must not be NULL (Fails). *)
DeleteCommits(q) ==
    /\ At(q, "delete")
    /\ Present(req[q].who)
    /\ status' = [status EXCEPT ![req[q].who] = "deleted"]
    /\ named' = named \ {req[q].who}
    /\ Acts(q)
    /\ Ends(q)
    /\ UNCHANGED <<registration, cache, now>>

-----------------------------------------------------------------------------
(* The process ends and starts anew: create_admin_user only looks for the  *)
(* name, not for the right.                                                *)
Restart ==
    /\ req' = [q \in Requests |-> Idle]
    /\ cache' = NoCache
    /\ \/ named # {} /\ UNCHANGED <<status, named>>
       \/ /\ named = {}
          /\ \E u \in Users :
                /\ status[u] = "new"
                /\ status' = [status EXCEPT ![u] = "admin"]
                /\ named' = {u}
    /\ UNCHANGED <<registration, now, raced>>

(* No request is slower than Slow. *)
Tick ==
    /\ now < Horizon
    /\ \A q \in Requests : At(q, "fill") \/ At(q, "signup") => now - req[q].at < Slow
    /\ now' = now + 1
    /\ UNCHANGED <<table, registration, cache, req>>

Next ==
    \/ \E q \in Requests :
          \/ PageReads(q) \/ PageFills(q)
          \/ \E a \in Users, value \in BOOLEAN : SaveStarts(q, a, value)
          \/ SaveCommits(q) \/ Invalidates(q)
          \/ SignUpReads(q)
          \/ \E u \in Users : SignUpInserts(q, u)
          \/ \E a, u \in Users : ToggleSelects(q, a, u) \/ DeleteSelects(q, a, u)
          \/ ToggleCommits(q) \/ DeleteCommits(q)
          \/ Fails(q)
    \/ Restart
    \/ Tick

Spec == Init /\ [][Next]_vars

-----------------------------------------------------------------------------
(* Properties *)

(***************************************************************************)
(* A page that shows another value than the setting's does so for less     *)
(* than the life of the cache and of one request after the change, though  *)
(* a request that has read the old value may fill the cache after it was   *)
(* invalidated.  context.py:11-29, admin.py:174-187.                       *)
(***************************************************************************)
ShownIsRecent == Fresh /\ cache.value # setting => now - changed < TTL + Slow

(***************************************************************************)
(* No one signs up after registration was closed, but with a request that  *)
(* was on its way, whatever the pages showed.  auth/routes.py:96-145.      *)
(***************************************************************************)
SignUpWasOpen ==
    [][\A u \in Users : status[u] = "new" /\ status'[u] = "user" =>
          setting \/ now - changed <= Slow]_vars

(***************************************************************************)
(* There is an admin, unless one acted after his right had been withdrawn: *)
(* two who take each other's right at the same time leave none.            *)
(* admin.py:86-111, main.py:30-60.                                         *)
(***************************************************************************)
AlwaysAnAdmin == raced \/ \E u \in Users : status[u] = "admin"
=============================================================================
