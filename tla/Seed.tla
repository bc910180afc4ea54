---------------------------------- MODULE Seed ----------------------------------
(***************************************************************************)
(* The seed script (backend/prisma/seed.ts): it empties the databases and  *)
(* fills them again, one insert after the other and in no transaction,     *)
(* while the backend may be serving.  Rows are counted per table; users,   *)
(* their notification settings and the platform settings are kept by their *)
(* unique key, since an insert of one that is there already ends the seed. *)
(* What the rows say (the pools of names, places and messages) is left     *)
(* out.                                                                    *)
(***************************************************************************)
EXTENDS Integers, FiniteSets

CONSTANTS
    Seeded,     \* the emails of the three users
    Guest,      \* emails of other users
    Key,        \* the keys of the platform settings
    Amount,     \* Amount[t]: the rows the seed makes in table t
    MaxRows,    \* bound: rows of a table
    MaxRuns     \* bound: seeds started

Table == {"log", "alert", "threatScore", "blockedIP", "auditLog", "report"}
Owned == {"blockedIP", "auditLog", "report"}    \* a row refers to its user

VARIABLES
    users, settings, keys,    \* emails; emails with a notification setting; platform settings
    rows,                     \* rows[t]
    stage,                    \* of the seed that runs, or off, or done
    left,                     \* what is left to do of the stage
    runs,                     \* seeds started
    disturbed                 \* history: the backend wrote since the last seed began

vars == <<users, settings, keys, rows, stage, left, runs, disturbed>>

Stages == <<"clean", "cleanUsers", "cleanLogs", "users", "log", "alert", "threatScore",
            "blockedIP", "auditLog", "settings", "keys", "done">>

Running == stage \notin {"off", "done"}

SeedTypeOK ==
    /\ users \subseteq Seeded \cup Guest
    /\ settings \subseteq users
    /\ keys \subseteq Key
    /\ rows \in [Table -> 0..MaxRows]
    /\ stage \in {"off"} \cup {Stages[i] : i \in DOMAIN Stages}
    /\ runs \in 0..MaxRuns
    /\ disturbed \in BOOLEAN

(* An empty database, or one in use. *)
Init ==
    /\ users \in {{}, Guest}
    /\ settings = {} /\ keys = {}
    /\ rows = [t \in Table |-> 0]
    /\ stage = "off" /\ left = {}
    /\ runs = 0
    /\ disturbed = FALSE

-------------------------------------------------------------------------------
(* The backend in use: registration, the lazily made notification setting, *)
(* the upsert of a platform setting, and rows of the worker and the reports. *)

Disturb == disturbed' = (disturbed \/ stage # "off")

Register(e) ==
    /\ e \notin users
    /\ users' = users \cup {e}
    /\ Disturb
    /\ UNCHANGED <<settings, keys, rows, stage, left, runs>>

OpenSettings(e) ==
    /\ e \in users \ settings
    /\ settings' = settings \cup {e}
    /\ Disturb
    /\ UNCHANGED <<users, keys, rows, stage, left, runs>>

SetKey(k) ==
    /\ k \notin keys
    /\ keys' = keys \cup {k}
    /\ Disturb
    /\ UNCHANGED <<users, settings, rows, stage, left, runs>>

Write(t) ==
    /\ rows[t] < MaxRows
    /\ t \in Owned => users # {}
    /\ rows' = [rows EXCEPT ![t] = @ + 1]
    /\ Disturb
    /\ UNCHANGED <<users, settings, keys, stage, left, runs>>

-------------------------------------------------------------------------------
(* The seed *)

(* Mutant: the alerts are not among the tables cleaned. *)
CleanedButAlerts == {"auditLog", "blockedIP", "threatScore", "report", "settings", "keys"}

Cleaned == {"auditLog", "blockedIP", "threatScore", "alert", "report", "settings", "keys"}

(* The inserts of a stage; those of a table are alike, in whatever order. *)
Work(s) ==
    CASE s = "clean" -> Cleaned
      [] s \in {"users", "settings"} -> Seeded
      [] s = "keys" -> Key
      [] s \in Table -> 1..Amount[s]
      [] s = "done" -> {}
      [] OTHER -> {s}

Start ==
    /\ ~Running
    /\ runs < MaxRuns
    /\ runs' = runs + 1
    /\ stage' = "clean" /\ left' = Work("clean")
    /\ disturbed' = FALSE
    /\ UNCHANGED <<users, settings, keys, rows>>

(* deleteMany of the users fails while a row refers to one of them. *)
Clean(x) ==
    CASE x = "settings" -> settings' = {} /\ UNCHANGED <<users, keys, rows>>
      [] x = "keys" -> keys' = {} /\ UNCHANGED <<users, settings, rows>>
      [] x = "cleanUsers" ->
           /\ users = {} \/ (settings = {} /\ \A t \in Owned : rows[t] = 0)
           /\ users' = {} /\ UNCHANGED <<settings, keys, rows>>
      [] x = "cleanLogs" ->
           rows' = [rows EXCEPT !["log"] = 0] /\ UNCHANGED <<users, settings, keys>>
      [] OTHER -> rows' = [rows EXCEPT ![x] = 0] /\ UNCHANGED <<users, settings, keys>>

(* The database refuses a second row of a unique key. *)
CreateUser(x) ==
    /\ x \notin users
    /\ users' = users \cup {x} /\ UNCHANGED <<settings, keys, rows>>

CreateNotificationSetting(x) ==
    /\ x \in users \ settings
    /\ settings' = settings \cup {x} /\ UNCHANGED <<users, keys, rows>>

CreatePlatformSetting(x) ==
    /\ x \notin keys
    /\ keys' = keys \cup {x} /\ UNCHANGED <<users, settings, rows>>

Insert(t) ==
    /\ rows[t] < MaxRows
    /\ rows' = [rows EXCEPT ![t] = @ + 1] /\ UNCHANGED <<users, settings, keys>>

InsertLogs == Insert("log")
CreateAlert == Insert("alert")
CreateThreatScore == Insert("threatScore")
BlockIP == users # {} /\ Insert("blockedIP")
CreateAuditLog == users # {} /\ Insert("auditLog")

Do(x) ==
    /\ x \in left
    /\ left' = left \ {x}
    /\ CASE stage = "users" -> CreateUser(x)
         [] stage = "log" -> InsertLogs
         [] stage = "alert" -> CreateAlert
         [] stage = "threatScore" -> CreateThreatScore
         [] stage = "blockedIP" -> BlockIP
         [] stage = "auditLog" -> CreateAuditLog
         [] stage = "settings" -> CreateNotificationSetting(x)
         [] stage = "keys" -> CreatePlatformSetting(x)
         [] OTHER -> Clean(x)
    /\ UNCHANGED <<stage, runs, disturbed>>

Proceed ==
    /\ Running
    /\ left = {}
    /\ \E i \in DOMAIN Stages :
          /\ Stages[i] = stage
          /\ stage' = Stages[i + 1] /\ left' = Work(Stages[i + 1])
    /\ UNCHANGED <<users, settings, keys, rows, runs, disturbed>>

(* A statement fails (as Do does where it is not enabled),                 *)
(* or the script is stopped: what was done stays.                          *)
Fail ==
    /\ Running
    /\ stage' = "off" /\ left' = {}
    /\ UNCHANGED <<users, settings, keys, rows, runs, disturbed>>

Next ==
    \/ \E e \in Seeded \cup Guest : Register(e) \/ OpenSettings(e)
    \/ \E k \in Key : SetKey(k)
    \/ \E t \in Table \ {"blockedIP", "auditLog"} : Write(t)
    \/ Start \/ (\E x \in left : Do(x)) \/ Proceed \/ Fail

Spec == Init /\ [][Next]_vars

-------------------------------------------------------------------------------
(* A seed that ends well leaves just what it makes, whatever earlier seeds *)
(* that failed half way or the use of the system had left in the           *)
(* databases, unless the backend wrote since.                               *)
SeedConverges ==
    stage = "done" /\ ~disturbed =>
        /\ users = Seeded /\ settings = Seeded /\ keys = Key
        /\ rows = Amount

===============================================================================
