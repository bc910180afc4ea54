----------------------------- MODULE OfficePartProofs -----------------------------
(***************************************************************************)
(* Proofs about the components of MCOffice, for every set of accounts,     *)
(* passwords, requests, tabs, reports, alerts and logs.  They do not       *)
(* interact; each has its own variables here, and the names of the         *)
(* instances of MCOffice.                                                  *)
(***************************************************************************)
EXTENDS Integers, Sequences, FiniteSets, FiniteSetTheorems, SequenceTheorems, TLAPS

CONSTANTS Email, Password, Slot,   \* of Accounts
          User, MaxPairs, Call,    \* of TokenRefresh
          Tab, MaxSaves,           \* of NotificationForm
          Name, Stock, Phrase, Strong, Long, MaxCalls,   \* of AccountForms
          Contact, Grade, DemoUser, Stranger, FirstUsers, UserLimit,
          MaxTrouble,              \* of UsersPage
          ReportType, ReportLength, PickDate, ServeTime,   \* of ReportForm
          MockReport,              \* of ReportsPage, with Slot, MaxReports and ListLimit
          MaxReports, ReportTypeOf, ReportFormatOf, ListLimit,  \* of ReportList
          AlertId, AlertSeverity, AlertStatus, AttackType, LoggedKind, LogBound,
          IpRows, PortRows, PdfLimit   \* of ReportNumbers

VARIABLES
    account, tokens, req, revoked,
    owner, issued, fresh, pair, user, signedIn, leaving, call, out, carried,
    route, going, due, panel, local, isAuthenticated, isLoading, error, attempt, kept,
    row, tab, late, saves, stale,
    stored, known, open, text, isSaving, message, calls, edited, settled,
    rows, order, shown, empty, dialog, asking, clean, trouble,
    opened, filled, preview, strip, generating, current,
    archive, ever, list, fetch, drawer, inspecting, generator, making, deleting, crossed,
    quiet,
    reports, made, table, tiles, asked, counts, dirty, downloading, marker,
    alerts, logs, request, ahead, left, number, top, disturbed

People == INSTANCE Accounts WITH Request <- Slot

Tokens == INSTANCE TokenRefresh WITH Request <- Call, req <- call

Entry == INSTANCE SignIn WITH call <- attempt

Notices == INSTANCE NotificationForm

Forms == INSTANCE AccountForms WITH Password <- Phrase, isLoading <- isSaving

Users == INSTANCE UsersPage WITH
    Email <- Contact, Role <- Grade, Demo <- DemoUser, Else <- Stranger,
    First <- FirstUsers, Limit <- UserLimit, req <- asking

Form == INSTANCE ReportForm WITH
    Type <- ReportType, Length <- ReportLength, Date <- PickDate, Clock <- ServeTime,
    open <- opened, form <- filled, shown <- strip, making <- generating

Archive == INSTANCE ReportsPage WITH
    Reports <- MaxReports, Limit <- ListLimit, Mock <- MockReport, Fetch <- Slot,
    known <- ever, clean <- quiet

Rows == INSTANCE ReportList WITH
    Reports <- MaxReports, Type <- ReportType, TypeOf <- ReportTypeOf,
    FormatOf <- ReportFormatOf, Limit <- ListLimit,
    archive <- reports, rows <- table, stats <- tiles, list <- asked

Numbers == INSTANCE ReportNumbers WITH
    Alert <- AlertId, Severity <- AlertSeverity, Status <- AlertStatus,
    Type <- AttackType, LogKind <- LoggedKind, MaxLogs <- LogBound,
    TopIps <- IpRows, TopPorts <- PortRows, PdfIps <- PdfLimit

-------------------------------------------------------------------------------
(* Accounts.  A request past its first await names rows that exist: rows   *)
(* are never deleted, the delete of the code only deactivates.             *)
RowsStay ==
    \A q \in Slot :
        /\ req[q].phase \in {"update", "remove"} => People!Exists(req[q].target)
        /\ req[q].phase \in {"compare", "store"} => People!Exists(req[q].email)

AccountsInv == People!AccountsTypeOK /\ RowsStay /\ People!RevokedIsOut

(* An account is a row with three columns, and no row is another thing. *)
LEMMA AccountShape ==
  ASSUME People!AccountsTypeOK, NEW e \in Email, People!Exists(e)
  PROVE  /\ account[e] \in People!Account
         /\ account[e] = [role |-> account[e].role, active |-> account[e].active,
                          password |-> account[e].password]
         /\ account[e].role \in People!Role
  BY DEF People!AccountsTypeOK, People!Exists, People!Account

(* Only a row is active. *)
LEMMA ActiveExists ==
  ASSUME NEW e, People!Active(e)
  PROVE  People!Exists(e)
  BY DEF People!Active, People!Exists, People!NoAccount

(* What a request's phase says of its fields. *)
LEMMA RequestShape ==
  ASSUME People!AccountsTypeOK, NEW q \in Slot
  PROVE  /\ req[q] \in People!Requests
         /\ req[q].phase \in {"create", "login"} =>
               req[q].email \in Email /\ req[q].password \in Password
         /\ req[q].phase = "sign" => req[q].email \in Email
         /\ req[q].phase \in {"update", "remove"} =>
               req[q].email \in Email /\ req[q].target \in Email
         /\ req[q].phase = "update" => req[q].change \in People!Change
         /\ req[q].phase \in {"compare", "store"} =>
               /\ req[q].email \in Email /\ req[q].old \in Password
               /\ req[q].new \in Password
  BY DEF People!AccountsTypeOK, People!Requests, People!Idle

(* An empty server. *)
LEMMA AccountsInitInv == People!Init => AccountsInv
<1> SUFFICES ASSUME People!Init PROVE AccountsInv
  OBVIOUS
<1>1. People!AccountsTypeOK
  BY DEF People!Init, People!AccountsTypeOK, People!Account, People!Requests
<1>2. \A q \in Slot : People!Relies(req[q]) = {} /\ req[q].phase = "idle"
  BY DEF People!Init, People!Relies, People!Idle
<1> QED BY <1>1, <1>2 DEF AccountsInv, RowsStay, People!RevokedIsOut

-------------------------------------------------------------------------------
(* Revocation.  A credential gets on the list of revoked ones only when no *)
(* request relies on it; so a step is safe if whatever a request newly     *)
(* relies on was checked against the accounts it leaves.                   *)
LEMMA StaysOut ==
  ASSUME People!RevokedIsOut, People!Track,
         \A q \in Slot : \A c \in People!Relies(req'[q]) :
            c \in People!Relies(req[q]) \/ People!InForce(account', c)
  PROVE  People!RevokedIsOut'
<1> SUFFICES ASSUME NEW q \in Slot, NEW c \in People!Relies(req'[q]), c \in revoked'
             PROVE  FALSE
  BY DEF People!RevokedIsOut
<1>1. ~People!InForce(account', c) /\ c \in revoked
  BY DEF People!Track
<1>2. c \in People!Relies(req[q])
  BY <1>1
<1> QED BY <1>1, <1>2 DEF People!RevokedIsOut

(* Rows that were there are there, under the same key, with what they had. *)
KeepsRows == \A e \in Email : People!Exists(e) => account'[e] # People!NoAccount

(* A handler passes its first await: the checks it made hold of the        *)
(* accounts, which it has not changed.                                     *)
LEMMA BeginInv ==
  ASSUME AccountsInv, NEW q \in Slot, NEW r \in People!Requests, People!Begin(q, r),
         UNCHANGED <<account, tokens>>, People!Track,
         \A c \in People!Relies(r) : People!InForce(account, c),
         r.phase \in {"update", "remove"} => People!Exists(r.target),
         r.phase \in {"compare", "store"} => People!Exists(r.email)
  PROVE  AccountsInv'
<1>1. req' = [req EXCEPT ![q] = r] /\ req \in [Slot -> People!Requests]
  BY DEF People!Begin, AccountsInv, People!AccountsTypeOK
<1>2. People!AccountsTypeOK'
  BY <1>1 DEF AccountsInv, People!AccountsTypeOK, People!Track
<1>3. RowsStay'
  BY <1>1 DEF AccountsInv, RowsStay, People!Exists
<1>4. People!RevokedIsOut'
  BY <1>1, StaysOut DEF AccountsInv
<1> QED BY <1>2, <1>3, <1>4 DEF AccountsInv

(* A handler ends: it relies on nothing any more, and what it writes keeps *)
(* the rows.                                                               *)
LEMMA EndInv ==
  ASSUME AccountsInv, NEW q \in Slot, People!End(q), People!Track, KeepsRows,
         account' \in [Email -> People!Account \cup {People!NoAccount}],
         tokens' \subseteq People!Kind \X Email
  PROVE  AccountsInv'
<1>1. req' = [req EXCEPT ![q] = People!Idle] /\ req \in [Slot -> People!Requests]
  BY DEF People!End, AccountsInv, People!AccountsTypeOK
<1>2. People!Idle \in People!Requests /\ People!Relies(People!Idle) = {}
      /\ People!Idle.phase = "idle"
  BY DEF People!Requests, People!Relies, People!Idle
<1>3. People!AccountsTypeOK'
  BY <1>1, <1>2 DEF AccountsInv, People!AccountsTypeOK, People!Track
<1>4. RowsStay'
  <2> SUFFICES ASSUME NEW s \in Slot, s # q
               PROVE  /\ req[s].phase \in {"update", "remove"} =>
                            account'[req[s].target] # People!NoAccount
                      /\ req[s].phase \in {"compare", "store"} =>
                            account'[req[s].email] # People!NoAccount
    BY <1>1, <1>2 DEF RowsStay, People!Exists
  <2>1. /\ req[s].phase \in {"update", "remove"} =>
              req[s].target \in Email /\ People!Exists(req[s].target)
        /\ req[s].phase \in {"compare", "store"} =>
              req[s].email \in Email /\ People!Exists(req[s].email)
    BY RequestShape DEF AccountsInv, RowsStay
  <2> QED BY <2>1 DEF KeepsRows
<1>5. People!RevokedIsOut'
  BY <1>1, <1>2, StaysOut DEF AccountsInv
<1> QED BY <1>3, <1>4, <1>5 DEF AccountsInv

(* auth.service.ts: what begins and ends there. *)
LEMMA AuthInv ==
  ASSUME AccountsInv, People!Track, NEW q \in Slot,
         \/ \E e \in Email, p \in Password :
               People!Register(q, e, p) \/ People!ValidateUser(q, e, p)
         \/ \E e \in Email : People!Refresh(q, e)
         \/ People!Login(q) \/ People!GenerateTokens(q)
  PROVE  AccountsInv'
<1>1. ASSUME NEW e \in Email, NEW p \in Password, People!Register(q, e, p)
      PROVE  AccountsInv'
  <2> DEFINE r == [phase |-> "create", email |-> e, password |-> p]
  <2>1. r \in People!Requests /\ People!Relies(r) = {}
    BY DEF People!Requests, People!Relies
  <2> QED BY <1>1, <2>1, BeginInv DEF People!Register
<1>2. ASSUME NEW e \in Email, NEW p \in Password, People!ValidateUser(q, e, p)
      PROVE  AccountsInv'
  <2> DEFINE r == [phase |-> "login", email |-> e, password |-> p]
  <2>1. r \in People!Requests /\ r.phase = "login"
        /\ People!Relies(r) = {<<e, "active">>, <<e, p>>}
    BY DEF People!Requests, People!Relies
  <2>2. People!Exists(e) /\ People!Active(e) /\ account[e].password = p
    BY <1>2, ActiveExists DEF People!ValidateUser
  <2>3. \A c \in People!Relies(r) : People!InForce(account, c)
    BY <2>1, <2>2 DEF People!InForce, People!Exists, People!Active
  <2> HIDE DEF r
  <2> QED BY <1>2, <2>1, <2>3, BeginInv DEF People!ValidateUser, r
<1>3. ASSUME NEW e \in Email, People!Refresh(q, e) PROVE AccountsInv'
  <2> DEFINE r == [phase |-> "sign", email |-> e]
  <2>1. r \in People!Requests /\ r.phase = "sign" /\ People!Relies(r) = {<<e, "active">>}
    BY DEF People!Requests, People!Relies
  <2>2. \A c \in People!Relies(r) : People!InForce(account, c)
    BY <1>3, <2>1, ActiveExists
    DEF People!Refresh, People!InForce, People!Exists, People!Active
  <2> QED BY <1>3, <2>1, <2>2, BeginInv DEF People!Refresh
<1>4. CASE People!Login(q) \/ People!GenerateTokens(q)
  <2>1. req[q].email \in Email /\ People!Issue(req[q].email) /\ People!End(q)
        /\ UNCHANGED account
    BY <1>4, RequestShape DEF AccountsInv, People!Login, People!GenerateTokens
  <2> QED BY <2>1, EndInv
          DEF AccountsInv, People!AccountsTypeOK, People!Issue, KeepsRows, People!Exists
<1> QED BY <1>1, <1>2, <1>3, <1>4

(* The insert: a new row, active, of the least role. *)
LEMMA CreateInv ==
  ASSUME AccountsInv, People!Track, NEW q \in Slot, People!Create(q)
  PROVE  AccountsInv'
<1>1. PICK e \in Email, p \in Password : e = req[q].email /\ p = req[q].password
  BY RequestShape DEF AccountsInv, People!Create
<1>2. People!End(q)
  BY DEF People!Create
<1>3. CASE People!Exists(e)
  BY <1>1, <1>2, <1>3, EndInv
  DEF People!Create, KeepsRows, People!Exists, AccountsInv, People!AccountsTypeOK
<1>4. CASE ~People!Exists(e)
  <2> DEFINE r == [role |-> "VIEWER", active |-> TRUE, password |-> p]
  <2>1. r \in People!Account /\ r # People!NoAccount
    BY DEF People!Account, People!Role, People!NoAccount
  <2>2. account' = [account EXCEPT ![e] = r] /\ People!Issue(e)
    BY <1>1, <1>4 DEF People!Create
  <2> HIDE DEF r
  <2>3. account' \in [Email -> People!Account \cup {People!NoAccount}]
    BY <2>1, <2>2 DEF AccountsInv, People!AccountsTypeOK
  <2>4. KeepsRows
    BY <2>1, <2>2 DEF KeepsRows, People!Exists, AccountsInv, People!AccountsTypeOK
  <2>5. tokens' \subseteq People!Kind \X Email
    BY <2>2 DEF People!Issue, AccountsInv, People!AccountsTypeOK
  <2> QED BY <1>2, <2>3, <2>4, <2>5, EndInv
<1> QED BY <1>3, <1>4

(* Requests of somebody who is let in by JwtStrategy. *)
LEMMA AskInv ==
  ASSUME AccountsInv, People!Track, NEW q \in Slot, NEW e \in Email,
         \/ \E target \in Email, change \in People!Change :
               People!AskUpdate(q, e, target, change)
         \/ \E target \in Email : People!AskRemove(q, e, target)
         \/ \E old, new \in Password : People!AskPassword(q, e, old, new)
  PROVE  AccountsInv'
<1>1. People!InForce(account, <<e, "active">>) /\ People!Exists(e)
  BY ActiveExists DEF People!AskUpdate, People!AskRemove, People!AskPassword,
     People!Authenticated, People!InForce, People!Exists, People!Active
<1>2. ASSUME NEW target \in Email, NEW change \in People!Change,
             People!AskUpdate(q, e, target, change)
      PROVE  AccountsInv'
  <2> DEFINE r == [phase |-> "update", email |-> e, target |-> target, change |-> change]
  <2>1. r \in People!Requests /\ r.phase = "update" /\ People!Relies(r) = {<<e, "active">>}
    BY DEF People!Requests, People!Relies
  <2>2. \A c \in People!Relies(r) : People!InForce(account, c)
    BY <1>1, <2>1
  <2> QED BY <1>2, <2>1, <2>2, BeginInv DEF People!AskUpdate
<1>3. ASSUME NEW target \in Email, People!AskRemove(q, e, target) PROVE AccountsInv'
  <2> DEFINE r == [phase |-> "remove", email |-> e, target |-> target]
  <2>1. r \in People!Requests /\ r.phase = "remove" /\ People!Relies(r) = {<<e, "active">>}
    BY DEF People!Requests, People!Relies
  <2>2. \A c \in People!Relies(r) : People!InForce(account, c)
    BY <1>1, <2>1
  <2> QED BY <1>3, <2>1, <2>2, BeginInv DEF People!AskRemove
<1>4. ASSUME NEW old \in Password, NEW new \in Password, People!AskPassword(q, e, old, new)
      PROVE  AccountsInv'
  <2> DEFINE r == [phase |-> "compare", email |-> e, old |-> old, new |-> new]
  <2>1. r \in People!Requests /\ r.phase = "compare" /\ People!Relies(r) = {<<e, "active">>}
    BY DEF People!Requests, People!Relies
  <2>2. \A c \in People!Relies(r) : People!InForce(account, c)
    BY <1>1, <2>1
  <2> QED BY <1>1, <1>4, <2>1, <2>2, BeginInv DEF People!AskPassword
<1> QED BY <1>2, <1>3, <1>4

(* The fields that were sent are written, the others keep what they had. *)
LEMMA UpdatedRow ==
  ASSUME NEW a \in People!Account, NEW change \in People!Change, NEW new,
         new = [f \in DOMAIN a |-> IF f \in DOMAIN change THEN change[f] ELSE a[f]]
  PROVE  /\ new \in People!Account /\ new # People!NoAccount
         /\ new.active # a.active => "active" \in DOMAIN change /\ change.active = new.active
<1>1. DOMAIN a = {"role", "active", "password"} /\ a.role \in People!Role
      /\ a.active \in BOOLEAN /\ a.password \in Password
  BY DEF People!Account
<1>2. new = [role |-> new.role, active |-> new.active, password |-> new.password]
  BY <1>1
<1>3. /\ "password" \notin DOMAIN change
      /\ "role" \in DOMAIN change => change.role \in People!Role
      /\ "active" \in DOMAIN change => change.active \in BOOLEAN
  <2>1. CASE change \in [role : People!Role]
    BY <2>1
  <2>2. CASE change \in [active : BOOLEAN]
    BY <2>2
  <2>3. CASE change \in [role : People!Role, active : BOOLEAN]
    BY <2>3
  <2> QED BY <2>1, <2>2, <2>3 DEF People!Change
<1>4. /\ new.role = IF "role" \in DOMAIN change THEN change.role ELSE a.role
      /\ new.active = IF "active" \in DOMAIN change THEN change.active ELSE a.active
      /\ new.password = a.password
  BY <1>1, <1>3
<1>5. new.role \in People!Role
  BY <1>1, <1>3, <1>4
<1>6. new.active \in BOOLEAN
  <2>1. CASE "active" \in DOMAIN change
    BY <1>3, <1>4, <2>1
  <2>2. CASE "active" \notin DOMAIN change
    BY <1>1, <1>4, <2>2
  <2> QED BY <2>1, <2>2
<1>7. new \in People!Account
  BY <1>1, <1>2, <1>4, <1>5, <1>6 DEF People!Account
<1>8. new # People!NoAccount
  BY <1>5 DEF People!NoAccount, People!Role
<1>9. ASSUME new.active # a.active
      PROVE  "active" \in DOMAIN change /\ change.active = new.active
  <2>1. "active" \in DOMAIN change
    BY <1>4, <1>9
  <2> QED BY <1>4, <2>1
<1> QED BY <1>7, <1>8, <1>9

(* A handler that rewrites one row, and leaves it a row. *)
LEMMA RewriteInv ==
  ASSUME AccountsInv, People!Track, NEW q \in Slot, People!End(q), UNCHANGED tokens,
         NEW e \in Email, NEW r \in People!Account, r # People!NoAccount,
         account' = [account EXCEPT ![e] = r]
  PROVE  AccountsInv'
<1>1. account' \in [Email -> People!Account \cup {People!NoAccount}]
  BY DEF AccountsInv, People!AccountsTypeOK
<1>2. KeepsRows
  BY DEF KeepsRows, People!Exists, AccountsInv, People!AccountsTypeOK
<1> QED BY <1>1, <1>2, EndInv DEF AccountsInv, People!AccountsTypeOK

(* users.service.ts update *)
LEMMA UpdateInv ==
  ASSUME AccountsInv, People!Track, NEW q \in Slot, People!Update(q)
  PROVE  AccountsInv'
<1>1. PICK e \in Email, change \in People!Change :
         e = req[q].target /\ change = req[q].change /\ People!Exists(e)
  BY RequestShape DEF AccountsInv, RowsStay, People!Update
<1>2. account[e] \in People!Account
  BY <1>1, AccountShape DEF AccountsInv
<1>3. PICK r : /\ r = [f \in DOMAIN account[e] |->
                             IF f \in DOMAIN change THEN change[f] ELSE account[e][f]]
                 /\ account' = [account EXCEPT ![e] = r]
  BY <1>1 DEF People!Update
<1>4. r \in People!Account /\ r # People!NoAccount
  BY <1>2, <1>3, UpdatedRow
<1> QED BY <1>3, <1>4, RewriteInv DEF People!Update

(* users.service.ts remove, and settings.service.ts changePassword *)
LEMMA RemoveOrStoreInv ==
  ASSUME AccountsInv, People!Track, NEW q \in Slot,
         People!Remove(q) \/ People!StorePassword(q)
  PROVE  AccountsInv'
<1>1. CASE People!Remove(q)
  <2>1. PICK e \in Email : e = req[q].target /\ People!Exists(e)
    BY <1>1, RequestShape DEF AccountsInv, RowsStay, People!Remove
  <2> DEFINE r == [account[e] EXCEPT !.active = FALSE]
  <2>2. account[e] \in People!Account
    BY <2>1, AccountShape DEF AccountsInv
  <2>3. r \in People!Account /\ r # People!NoAccount
    BY <2>2 DEF People!Account, People!NoAccount, People!Role
  <2>4. account' = [account EXCEPT ![e] = r] /\ People!End(q) /\ UNCHANGED tokens
    BY <1>1, <2>1 DEF People!Remove
  <2> HIDE DEF r
  <2> QED BY <2>3, <2>4, RewriteInv
<1>2. CASE People!StorePassword(q)
  <2>1. PICK e \in Email : e = req[q].email /\ People!Exists(e) /\ req[q].new \in Password
    BY <1>2, RequestShape DEF AccountsInv, RowsStay, People!StorePassword
  <2> DEFINE r == [account[e] EXCEPT !.password = req[q].new]
  <2>2. account[e] \in People!Account
    BY <2>1, AccountShape DEF AccountsInv
  <2>3. r \in People!Account /\ r # People!NoAccount
    BY <2>1, <2>2 DEF People!Account, People!NoAccount, People!Role
  <2>4. account' = [account EXCEPT ![e] = r] /\ People!End(q) /\ UNCHANGED tokens
    BY <1>2, <2>1 DEF People!StorePassword
  <2> HIDE DEF r
  <2> QED BY <2>3, <2>4, RewriteInv
<1> QED BY <1>1, <1>2

(* The old password is right when it is compared, and the request relies   *)
(* on it from there on.                                                    *)
LEMMA CompareInv ==
  ASSUME AccountsInv, People!Track, NEW q \in Slot, People!Compare(q)
  PROVE  AccountsInv'
<1>1. PICK e \in Email, old \in Password, new \in Password :
         /\ req[q] = [phase |-> "compare", email |-> e, old |-> old, new |-> new]
         /\ People!Exists(e)
  <2>1. /\ req[q] \in People!Requests /\ req[q].phase = "compare"
        /\ req[q].email \in Email /\ req[q].old \in Password /\ req[q].new \in Password
        /\ People!Exists(req[q].email)
    BY RequestShape DEF AccountsInv, RowsStay, People!Compare
  <2>2. req[q] = [phase |-> "compare", email |-> req[q].email, old |-> req[q].old,
                  new |-> req[q].new]
    BY <2>1 DEF People!Requests, People!Idle
  <2> QED BY <2>1, <2>2
<1> DEFINE r == [phase |-> "store", email |-> e, old |-> old, new |-> new]
<1>2. req' = [req EXCEPT ![q] = IF account[e].password = old THEN r ELSE People!Idle]
      /\ UNCHANGED <<account, tokens>>
  <2>1. [req[q] EXCEPT !.phase = "store"] = r
    BY <1>1
  <2>2. req[q].email = e /\ req[q].old = old
    BY <1>1
  <2> HIDE DEF r
  <2> QED BY <2>1, <2>2 DEF People!Compare
<1>3. /\ r \in People!Requests /\ r.phase = "store" /\ r.email = e
      /\ People!Relies(r) = {<<e, "active">>, <<e, old>>}
      /\ People!Relies(req[q]) = {<<e, "active">>}
  BY <1>1 DEF People!Requests, People!Relies
<1>4. /\ People!Idle \in People!Requests /\ People!Relies(People!Idle) = {}
      /\ People!Idle.phase = "idle"
  BY DEF People!Requests, People!Relies, People!Idle
<1> HIDE DEF r
<1>5. /\ req'[q] = r \/ req'[q] = People!Idle
      /\ \A s \in Slot \ {q} : req'[s] = req[s]
      /\ req' \in [Slot -> People!Requests]
  BY <1>2, <1>3, <1>4 DEF AccountsInv, People!AccountsTypeOK
<1>6. People!AccountsTypeOK'
  BY <1>2, <1>5 DEF AccountsInv, People!AccountsTypeOK, People!Track
<1>7. RowsStay'
  BY <1>1, <1>2, <1>3, <1>4, <1>5 DEF AccountsInv, RowsStay, People!Exists
<1>8. People!RevokedIsOut'
  <2>1. ASSUME req'[q] = r, account[e].password = old, NEW c \in People!Relies(r)
        PROVE  c \in People!Relies(req[q]) \/ People!InForce(account', c)
    <3>1. CASE c = <<e, "active">>
      BY <1>3, <3>1
    <3>2. CASE c = <<e, old>> /\ old # "active"
      BY <1>1, <1>2, <2>1, <3>2 DEF People!InForce, People!Exists
    <3> QED BY <1>3, <2>1, <3>1, <3>2
  <2>2. req'[q] = People!Idle \/ (req'[q] = r /\ account[e].password = old)
    BY <1>2 DEF AccountsInv, People!AccountsTypeOK
  <2>3. ASSUME NEW s \in Slot, NEW c \in People!Relies(req'[s])
        PROVE  c \in People!Relies(req[s]) \/ People!InForce(account', c)
    BY <1>4, <1>5, <2>1, <2>2, <2>3
  <2> QED BY <2>3, StaysOut DEF AccountsInv
<1> QED BY <1>6, <1>7, <1>8 DEF AccountsInv

(* Every step keeps the invariant. *)
LEMMA AccountsNext == AccountsInv /\ [People!Next]_(People!vars) => AccountsInv'
<1> SUFFICES ASSUME AccountsInv, [People!Next]_(People!vars) PROVE AccountsInv'
  OBVIOUS
<1>1. ASSUME NEW t \in tokens, People!Expire(t), People!Track PROVE AccountsInv'
  <2>1. People!AccountsTypeOK'
    BY <1>1 DEF AccountsInv, People!AccountsTypeOK, People!Expire, People!Track
  <2>2. RowsStay'
    BY <1>1 DEF AccountsInv, RowsStay, People!Exists, People!Expire
  <2>3. People!RevokedIsOut'
    BY <1>1, StaysOut DEF AccountsInv, People!Expire
  <2> QED BY <2>1, <2>2, <2>3 DEF AccountsInv
<1>2. CASE UNCHANGED People!vars
  <2>1. UNCHANGED <<account, tokens, req, revoked>>
    BY <1>2 DEF People!vars
  <2> QED BY <2>1
          DEF AccountsInv, People!AccountsTypeOK, RowsStay, People!Exists, People!RevokedIsOut
<1>3. ASSUME NEW q \in Slot, People!Serve(q), People!Track PROVE AccountsInv'
  <2>1. CASE \E e \in Email, p \in Password : People!Register(q, e, p) \/ People!ValidateUser(q, e, p)
    BY <1>3, <2>1, AuthInv
  <2>2. CASE \E e \in Email : People!Refresh(q, e)
    BY <1>3, <2>2, AuthInv
  <2>3. CASE \E e, target \in Email : People!AskRemove(q, e, target)
    BY <1>3, <2>3, AskInv
  <2>4. CASE \E e, target \in Email, change \in People!Change :
                People!AskUpdate(q, e, target, change)
    BY <1>3, <2>4, AskInv
  <2>5. CASE \E e \in Email, old, new \in Password : People!AskPassword(q, e, old, new)
    BY <1>3, <2>5, AskInv
  <2>6. CASE People!Login(q) \/ People!GenerateTokens(q)
    BY <1>3, <2>6, AuthInv
  <2> QED BY <1>3, <2>1, <2>2, <2>3, <2>4, <2>5, <2>6, CreateInv, UpdateInv,
             RemoveOrStoreInv, CompareInv DEF People!Serve
<1> QED BY <1>1, <1>2, <1>3 DEF People!Next

LEMMA AccountsInvHolds == People!Spec => []AccountsInv
<1> QED BY AccountsInitInv, AccountsNext, PTL DEF People!Spec

(* What was revoked lets nothing in, whatever overlaps. *)
THEOREM RevocationHolds == People!Spec => []People!RevokedIsOut
<1>1. AccountsInv => People!RevokedIsOut
  BY DEF AccountsInv
<1> QED BY <1>1, AccountsInvHolds, PTL

(* A step that leaves accounts alone, or writes one row of which the key   *)
(* is new or the active flag is not raised, revives nobody.                *)
LEMMA KeepsDisabled ==
  ASSUME AccountsInv, NEW e \in Email, NEW r,
         account' = account \/ account' = [account EXCEPT ![e] = r],
         People!Exists(e) /\ ~People!Active(e) => r.active = FALSE
  PROVE  People!NotRevived
  BY DEF People!NotRevived, People!Exists, People!Active, AccountsInv, People!AccountsTypeOK

(* The handlers that write an account, one by one. *)
LEMMA NoneRevived == AccountsInv /\ [People!Next]_(People!vars) => [People!NotRevived]_(People!vars)
<1> SUFFICES ASSUME AccountsInv, People!Next PROVE People!NotRevived
  OBVIOUS
<1>1. ASSUME UNCHANGED account PROVE People!NotRevived
  BY <1>1 DEF People!NotRevived, People!Exists, People!Active
<1>2. ASSUME NEW q \in Slot, People!Create(q) PROVE People!NotRevived
  <2>1. PICK e \in Email : e = req[q].email
    BY <1>2, RequestShape DEF AccountsInv, People!Create
  <2>2. CASE People!Exists(e)
    BY <1>1, <1>2, <2>1, <2>2 DEF People!Create
  <2>3. CASE ~People!Exists(e)
    <3>1. PICK r : account' = [account EXCEPT ![e] = r]
      BY <1>2, <2>1, <2>3 DEF People!Create
    <3> QED BY <2>3, <3>1, KeepsDisabled
  <2> QED BY <2>2, <2>3
<1>3. ASSUME NEW q \in Slot, People!Update(q) PROVE People!NotRevived
  <2>1. PICK e \in Email, change \in People!Change :
           e = req[q].target /\ change = req[q].change /\ People!Exists(e)
    BY <1>3, RequestShape DEF AccountsInv, RowsStay, People!Update
  <2>2. account[e] \in People!Account
    BY <2>1, AccountShape DEF AccountsInv
  <2>3. PICK r : /\ r = [f \in DOMAIN account[e] |->
                               IF f \in DOMAIN change THEN change[f] ELSE account[e][f]]
                   /\ account' = [account EXCEPT ![e] = r]
    BY <1>3, <2>1 DEF People!Update
  <2>4. /\ r \in People!Account
        /\ r.active # account[e].active => "active" \in DOMAIN change /\ change.active = r.active
    BY <2>2, <2>3, UpdatedRow
  <2>5. CASE r.active = account[e].active
    <3>1. People!Exists(e) /\ ~People!Active(e) => r.active = FALSE
      <4>1. account[e].active \in BOOLEAN
        BY <2>2 DEF People!Account
      <4> QED BY <2>5, <4>1 DEF People!Active
    <3> QED BY <2>3, <3>1, KeepsDisabled
  <2>6. CASE r.active # account[e].active
    <3>1. "active" \in DOMAIN change /\ change.active = r.active /\ r.active \in BOOLEAN
      BY <2>4, <2>6 DEF People!Account
    <3>2. CASE r.active = TRUE
      <4>0. <<req[q].email, "active">> \notin revoked
        BY <1>3 DEF AccountsInv, People!RevokedIsOut, People!Relies, People!Update
      <4>1. /\ req[q].phase = "update" /\ req[q].target = e
            /\ "active" \in DOMAIN req[q].change /\ req[q].change.active
        BY <1>3, <2>1, <3>1, <3>2 DEF People!Update
      <4>2. \A d \in Email \ {e} : account'[d] = account[d]
        BY <2>3 DEF AccountsInv, People!AccountsTypeOK
      <4> QED BY <4>0, <4>1, <4>2 DEF People!NotRevived, People!Active
    <3>3. CASE r.active = FALSE
      BY <2>3, <3>3, KeepsDisabled
    <3> QED BY <3>1, <3>2, <3>3
  <2> QED BY <2>5, <2>6
<1>4. ASSUME NEW q \in Slot, People!Remove(q) PROVE People!NotRevived
  <2>1. PICK e \in Email : e = req[q].target /\ People!Exists(e)
    BY <1>4, RequestShape DEF AccountsInv, RowsStay, People!Remove
  <2> DEFINE r == [account[e] EXCEPT !.active = FALSE]
  <2>2. account' = [account EXCEPT ![e] = r]
    BY <1>4, <2>1 DEF People!Remove
  <2>3. r.active = FALSE
    BY <2>1, AccountShape DEF AccountsInv, People!Account
  <2> HIDE DEF r
  <2> QED BY <2>2, <2>3, KeepsDisabled
<1>5. ASSUME NEW q \in Slot, People!StorePassword(q) PROVE People!NotRevived
  <2>1. PICK e \in Email : e = req[q].email /\ People!Exists(e)
    BY <1>5, RequestShape DEF AccountsInv, RowsStay, People!StorePassword
  <2> DEFINE r == [account[e] EXCEPT !.password = req[q].new]
  <2>2. account' = [account EXCEPT ![e] = r]
    BY <1>5, <2>1 DEF People!StorePassword
  <2>3. r.active = account[e].active /\ account[e].active \in BOOLEAN
    BY <2>1, AccountShape DEF AccountsInv, People!Account
  <2> HIDE DEF r
  <2>4. People!Exists(e) /\ ~People!Active(e) => r.active = FALSE
    BY <2>3 DEF People!Active
  <2> QED BY <2>2, <2>4, KeepsDisabled
<1>6. ASSUME NEW q \in Slot, People!Serve(q) PROVE People!NotRevived
  <2>1. CASE \/ People!Create(q) \/ People!Update(q) \/ People!Remove(q)
            \/ People!StorePassword(q)
    BY <1>2, <1>3, <1>4, <1>5, <2>1
  <2>2. CASE ~ (\/ People!Create(q) \/ People!Update(q) \/ People!Remove(q)
                \/ People!StorePassword(q))
    <3>1. UNCHANGED account
      BY <1>6, <2>2 DEF People!Serve, People!Register, People!ValidateUser, People!Refresh,
         People!AskRemove, People!AskUpdate, People!AskPassword, People!Login,
         People!GenerateTokens, People!Compare
    <3> QED BY <1>1, <3>1
  <2> QED BY <2>1, <2>2
<1>7. ASSUME NEW t \in tokens, People!Expire(t) PROVE People!NotRevived
  BY <1>1, <1>7 DEF People!Expire
<1> QED BY <1>6, <1>7 DEF People!Next

(* Only an activation brings a deactivated account back, however updates   *)
(* overlap with the deactivation.                                          *)
THEOREM NobodyRevived == People!Spec => People!DisabledUntilReactivated
<1>1. AccountsInv /\ [People!Next]_(People!vars) => [People!NotRevived]_(People!vars)
  BY NoneRevived
<1> QED BY <1>1, AccountsInvHolds, PTL DEF People!Spec, People!DisabledUntilReactivated

-------------------------------------------------------------------------------
(* TokenRefresh.  A call under way carries a pair that was issued, and     *)
(* unless the session changed under it, one of the user signed in.         *)
Busy(q) == call[q] # Tokens!Idle

CallsHavePairs == \A q \in Call : Busy(q) => call[q].pair \in 1..issued

SignedInIsSomebody == signedIn => user \in User

OneSession ==
    ~carried => /\ pair # 0 => owner[pair] = user
                /\ \A q \in Call : Busy(q) => owner[call[q].pair] = user /\ call[q].user = user
                /\ out => /\ ~signedIn /\ pair = 0 /\ user = Tokens!NoUser
                          /\ \A q \in Call : ~Busy(q)

TokensInv ==
    /\ Tokens!RefreshTypeOK /\ CallsHavePairs /\ SignedInIsSomebody
    /\ Tokens!SignedInHasTokens /\ OneSession

(* A tab nobody has signed in to. *)
LEMMA TokensInitInv == MaxPairs \in Nat /\ Tokens!Init => TokensInv
<1> SUFFICES ASSUME MaxPairs \in Nat, Tokens!Init PROVE TokensInv
  OBVIOUS
<1>1. \A q \in Call : ~Busy(q)
  BY DEF Tokens!Init, Busy
<1>2. Tokens!RefreshTypeOK
  <2>1. signedIn \in BOOLEAN /\ leaving \in BOOLEAN /\ out \in BOOLEAN /\ carried \in BOOLEAN
    BY DEF Tokens!Init
  <2>2. call \in [Call -> Tokens!Requests]
    BY DEF Tokens!Init, Tokens!Requests
  <2> QED BY <2>1, <2>2 DEF Tokens!Init, Tokens!RefreshTypeOK
<1>3. CallsHavePairs /\ OneSession
  BY <1>1 DEF Tokens!Init, CallsHavePairs, OneSession
<1> QED BY <1>2, <1>3 DEF Tokens!Init, TokensInv, SignedInIsSomebody, Tokens!SignedInHasTokens

(* A call that is not at rest has all its fields. *)
LEMMA CallShape ==
  ASSUME Tokens!RefreshTypeOK, NEW q \in Call
  PROVE  /\ call[q] \in Tokens!Requests
         /\ call[q].phase # "idle" => Busy(q)
         /\ Busy(q) => /\ call[q].phase \in {"sent", "refresh", "retry"}
                       /\ call[q].pair \in 1..MaxPairs /\ call[q].save \in BOOLEAN
                       /\ call[q].user \in User
  BY DEF Tokens!RefreshTypeOK, Tokens!Requests, Tokens!Idle, Tokens!Pair, Busy

(* A new pair takes the owner of no pair before it. *)
LEMMA IssueEffect ==
  ASSUME MaxPairs \in Nat, Tokens!RefreshTypeOK,
         NEW u \in User \cup {Tokens!NoUser}, Tokens!Issue(u)
  PROVE  /\ issued' \in 0..MaxPairs /\ issued' = issued + 1 /\ pair' = issued' /\ pair' # 0
         /\ owner' \in [Tokens!Pair -> User \cup {Tokens!NoUser}]
         /\ fresh' \subseteq 1..issued'
         /\ owner'[pair'] = u /\ \A p \in 1..issued : owner'[p] = owner[p] /\ p \in 1..issued'
  BY DEF Tokens!RefreshTypeOK, Tokens!Issue, Tokens!Pair

(* A call that ends leaves the others. *)
LEMMA CallEnds ==
  ASSUME Tokens!RefreshTypeOK, NEW q \in Call, Tokens!End(q)
  PROVE  /\ call' \in [Call -> Tokens!Requests] /\ call'[q] = Tokens!Idle
         /\ \A s \in Call \ {q} : call'[s] = call[s]
  BY DEF Tokens!RefreshTypeOK, Tokens!End, Tokens!Requests

(* login, register, Sign Out, and a page that is loaded *)
LEMMA SessionStep ==
  ASSUME MaxPairs \in Nat, TokensInv,
         (\E u \in User : Tokens!LogIn(u)) \/ Tokens!Logout \/ Tokens!Load
  PROVE  TokensInv'
<1> USE DEF TokensInv, Tokens!tokens, Tokens!history
<1>1. ASSUME NEW u \in User, Tokens!LogIn(u) PROVE TokensInv'
  <2>1. Tokens!Issue(u) /\ UNCHANGED <<leaving, call>> /\ user' = u /\ signedIn' = TRUE
        /\ out' = FALSE /\ carried' = Tokens!Pending
    BY <1>1 DEF Tokens!LogIn
  <2>2. Tokens!RefreshTypeOK'
    <3>1. carried' \in BOOLEAN
      BY <2>1 DEF Tokens!Pending
    <3>2. signedIn' \in BOOLEAN /\ out' \in BOOLEAN /\ leaving' \in BOOLEAN
      BY <2>1 DEF Tokens!RefreshTypeOK
    <3>3. /\ issued' \in 0..MaxPairs /\ pair' \in 0..issued' /\ fresh' \subseteq 1..issued'
          /\ owner' \in [Tokens!Pair -> User \cup {Tokens!NoUser}]
          /\ user' \in User \cup {Tokens!NoUser} /\ call' \in [Call -> Tokens!Requests]
      BY <2>1, IssueEffect DEF Tokens!RefreshTypeOK
    <3> QED BY <3>1, <3>2, <3>3 DEF Tokens!RefreshTypeOK
  <2>3. CallsHavePairs'
    BY <2>1, IssueEffect DEF CallsHavePairs, Busy
  <2>4. OneSession'
    BY <2>1, IssueEffect DEF OneSession, Busy, Tokens!Pending
  <2> QED BY <2>1, <2>2, <2>3, <2>4, IssueEffect
          DEF SignedInIsSomebody, Tokens!SignedInHasTokens
<1>2. CASE Tokens!Logout
  <2>1. Tokens!RefreshTypeOK'
    <3>1. carried' \in BOOLEAN
      BY <1>2 DEF Tokens!Logout, Tokens!Pending
    <3>2. signedIn' \in BOOLEAN /\ out' \in BOOLEAN /\ leaving' \in BOOLEAN
      BY <1>2 DEF Tokens!RefreshTypeOK, Tokens!Logout
    <3>3. UNCHANGED <<owner, issued, fresh, call>> /\ pair' = 0 /\ user' = Tokens!NoUser
      BY <1>2 DEF Tokens!Logout
    <3>4. pair' \in 0..issued' /\ user' \in User \cup {Tokens!NoUser}
      BY <3>3 DEF Tokens!RefreshTypeOK
    <3> QED BY <3>1, <3>2, <3>3, <3>4 DEF Tokens!RefreshTypeOK
  <2> QED BY <1>2, <2>1 DEF Tokens!Logout, CallsHavePairs, SignedInIsSomebody,
             Tokens!SignedInHasTokens, OneSession, Busy, Tokens!Pending
<1>3. CASE Tokens!Load
  <2>1. Tokens!RefreshTypeOK'
    <3>1. signedIn' \in BOOLEAN /\ leaving' \in BOOLEAN
      BY <1>3 DEF Tokens!Load
    <3>2. call' \in [Call -> Tokens!Requests]
      BY <1>3 DEF Tokens!Load, Tokens!Requests
    <3> QED BY <1>3, <3>1, <3>2 DEF Tokens!RefreshTypeOK, Tokens!Load
  <2>2. \A q \in Call : call'[q] = Tokens!Idle
    BY <1>3 DEF Tokens!Load
  <2>3. OneSession' /\ CallsHavePairs'
    BY <1>3, <2>2 DEF Tokens!Load, OneSession, CallsHavePairs, Busy
  <2>4. SignedInIsSomebody' /\ Tokens!SignedInHasTokens'
    BY <1>3 DEF Tokens!Load, SignedInIsSomebody, Tokens!SignedInHasTokens,
       Tokens!RefreshTypeOK
  <2> QED BY <2>1, <2>3, <2>4
<1> QED BY <1>1, <1>2, <1>3

(* A call is sent with what lies in the storage. *)
LEMMA SendStep ==
  ASSUME MaxPairs \in Nat, TokensInv, NEW q \in Call, NEW save \in BOOLEAN,
         Tokens!Send(q, save)
  PROVE  TokensInv'
<1> USE DEF TokensInv, Tokens!tokens, Tokens!history
<1> DEFINE r == [phase |-> "sent", pair |-> pair, save |-> save, user |-> user]
<1>1. /\ signedIn /\ pair # 0 /\ user \in User /\ call' = [call EXCEPT ![q] = r]
      /\ UNCHANGED <<owner, issued, fresh, pair, user, signedIn, leaving, out, carried>>
  BY DEF Tokens!Send, SignedInIsSomebody
<1>2. pair \in 1..issued /\ pair \in 1..MaxPairs
  BY <1>1 DEF Tokens!RefreshTypeOK
<1>3. r \in Tokens!Requests
  BY <1>1, <1>2 DEF Tokens!Requests, Tokens!Pair
<1>4. r.pair = pair /\ r.user = user
  OBVIOUS
<1> HIDE DEF r
<1>5. /\ call'[q] = r /\ \A s \in Call \ {q} : call'[s] = call[s]
      /\ call' \in [Call -> Tokens!Requests]
  BY <1>1, <1>3 DEF Tokens!RefreshTypeOK
<1>6. Tokens!RefreshTypeOK'
  BY <1>1, <1>5 DEF Tokens!RefreshTypeOK
<1>7. CallsHavePairs'
  BY <1>1, <1>2, <1>4, <1>5 DEF CallsHavePairs, Busy
<1>8. OneSession'
  BY <1>1, <1>4, <1>5 DEF OneSession, Busy
<1> QED BY <1>1, <1>6, <1>7, <1>8 DEF SignedInIsSomebody, Tokens!SignedInHasTokens

(* Answers, refusals and refreshes of a call. *)
LEMMA AnswerStep ==
  ASSUME MaxPairs \in Nat, TokensInv, NEW q \in Call,
         \/ Tokens!Answered(q) \/ Tokens!Unauthorized(q) \/ Tokens!Refreshed(q)
         \/ Tokens!RefreshFailed(q) \/ Tokens!RetryRefused(q)
  PROVE  TokensInv'
<1> USE DEF TokensInv, Tokens!tokens, Tokens!history
<1>0. Busy(q) /\ call[q].pair \in 1..issued
  BY CallShape DEF Tokens!Answered, Tokens!Unauthorized, Tokens!Refreshed,
     Tokens!RefreshFailed, Tokens!RetryRefused, CallsHavePairs
<1>1. CASE Tokens!Answered(q)
  <2>1. /\ Tokens!End(q) /\ UNCHANGED <<owner, issued, fresh, pair, signedIn, leaving, out, carried>>
        /\ user' = IF call[q].save THEN call[q].user ELSE user
    BY <1>1 DEF Tokens!Answered
  <2>2. call[q].save \in BOOLEAN /\ call[q].user \in User
    BY <1>0, CallShape
  <2>3. user' = user \/ user' = call[q].user
    BY <2>1
  <2>4. Tokens!RefreshTypeOK'
    BY <2>1, <2>2, <2>3, CallEnds DEF Tokens!RefreshTypeOK
  <2>5. CallsHavePairs'
    BY <2>1, CallEnds DEF CallsHavePairs, Busy
  <2>6. OneSession'
    BY <1>0, <2>1, <2>3, CallEnds DEF OneSession, Busy
  <2>7. SignedInIsSomebody' /\ Tokens!SignedInHasTokens'
    BY <2>1, <2>2, <2>3 DEF SignedInIsSomebody, Tokens!SignedInHasTokens
  <2> QED BY <2>4, <2>5, <2>6, <2>7
<1>2. CASE Tokens!Unauthorized(q) /\ pair = 0
  <2>1. /\ Tokens!End(q) /\ UNCHANGED <<owner, issued, fresh, pair, user, signedIn, out, carried>>
        /\ leaving' = TRUE
    BY <1>2 DEF Tokens!Unauthorized
  <2>2. Tokens!RefreshTypeOK'
    BY <2>1, CallEnds DEF Tokens!RefreshTypeOK
  <2>3. CallsHavePairs' /\ OneSession'
    BY <2>1, CallEnds DEF CallsHavePairs, OneSession, Busy
  <2> QED BY <2>1, <2>2, <2>3 DEF SignedInIsSomebody, Tokens!SignedInHasTokens
<1>3. CASE Tokens!Unauthorized(q) /\ pair # 0
  <2> DEFINE r == [call[q] EXCEPT !.phase = "refresh", !.pair = pair]
  <2>1. /\ call' = [call EXCEPT ![q] = r]
        /\ UNCHANGED <<owner, issued, fresh, pair, user, signedIn, leaving, out, carried>>
    BY <1>3 DEF Tokens!Unauthorized
  <2>2. pair \in 1..issued /\ pair \in Tokens!Pair
    BY <1>3 DEF Tokens!RefreshTypeOK, Tokens!Pair
  <2>3. r \in Tokens!Requests /\ r.pair = pair /\ r.user = call[q].user
    BY <1>0, <2>2, CallShape DEF Tokens!Requests, Tokens!Pair, Busy
  <2> HIDE DEF r
  <2>4. /\ call'[q] = r /\ \A s \in Call \ {q} : call'[s] = call[s]
        /\ call' \in [Call -> Tokens!Requests]
    BY <2>1, <2>3 DEF Tokens!RefreshTypeOK
  <2>5. Tokens!RefreshTypeOK'
    BY <2>1, <2>4 DEF Tokens!RefreshTypeOK
  <2>6. CallsHavePairs'
    BY <2>1, <2>2, <2>3, <2>4 DEF CallsHavePairs, Busy
  <2>7. OneSession'
    BY <1>0, <1>3, <2>1, <2>3, <2>4 DEF OneSession, Busy
  <2> QED BY <2>1, <2>5, <2>6, <2>7 DEF SignedInIsSomebody, Tokens!SignedInHasTokens
<1>4. CASE Tokens!Refreshed(q)
  <2> DEFINE r == [call[q] EXCEPT !.phase = "retry", !.pair = pair']
  <2>1. PICK u \in User \cup {Tokens!NoUser} : u = owner[call[q].pair]
    BY <1>0, CallShape DEF Tokens!RefreshTypeOK, Tokens!Pair
  <2>2. /\ Tokens!Issue(u) /\ call' = [call EXCEPT ![q] = r]
        /\ UNCHANGED <<user, signedIn, leaving, out, carried>>
    BY <1>4, <2>1 DEF Tokens!Refreshed
  <2>3. /\ issued' \in 0..MaxPairs /\ issued' = issued + 1 /\ pair' = issued' /\ pair' # 0
        /\ owner' \in [Tokens!Pair -> User \cup {Tokens!NoUser}]
        /\ fresh' \subseteq 1..issued' /\ owner'[pair'] = u
        /\ \A p \in 1..issued : owner'[p] = owner[p] /\ p \in 1..issued'
    BY <2>2, IssueEffect
  <2>4. pair' \in 1..issued' /\ pair' \in Tokens!Pair
    BY <2>3 DEF Tokens!RefreshTypeOK, Tokens!Pair
  <2>5. r \in Tokens!Requests /\ r.pair = pair' /\ r.user = call[q].user
    BY <1>0, <2>4, CallShape DEF Tokens!Requests, Tokens!Pair, Busy
  <2> HIDE DEF r
  <2>6. /\ call'[q] = r /\ \A s \in Call \ {q} : call'[s] = call[s]
        /\ call' \in [Call -> Tokens!Requests]
    BY <2>2, <2>5 DEF Tokens!RefreshTypeOK
  <2>7. Tokens!RefreshTypeOK'
    BY <2>2, <2>3, <2>4, <2>6 DEF Tokens!RefreshTypeOK
  <2>8. CallsHavePairs'
    BY <2>3, <2>4, <2>5, <2>6 DEF CallsHavePairs, Busy
  <2>9. OneSession'
    BY <1>0, <2>1, <2>2, <2>3, <2>5, <2>6 DEF OneSession, Busy, CallsHavePairs
  <2> QED BY <2>2, <2>3, <2>7, <2>8, <2>9 DEF SignedInIsSomebody, Tokens!SignedInHasTokens
<1>5. CASE Tokens!RefreshFailed(q)
  <2>1. /\ Tokens!End(q) /\ UNCHANGED <<owner, issued, fresh, user, signedIn, out, carried>>
        /\ pair' = 0 /\ leaving' = TRUE
    BY <1>5 DEF Tokens!RefreshFailed
  <2>2. Tokens!RefreshTypeOK'
    BY <2>1, CallEnds DEF Tokens!RefreshTypeOK
  <2>3. CallsHavePairs' /\ OneSession'
    BY <2>1, CallEnds DEF CallsHavePairs, OneSession, Busy
  <2> QED BY <2>1, <2>2, <2>3 DEF SignedInIsSomebody, Tokens!SignedInHasTokens
<1>6. CASE Tokens!RetryRefused(q)
  <2>1. /\ Tokens!End(q)
        /\ UNCHANGED <<owner, issued, fresh, pair, user, signedIn, leaving, out, carried>>
    BY <1>6 DEF Tokens!RetryRefused
  <2>2. Tokens!RefreshTypeOK'
    BY <2>1, CallEnds DEF Tokens!RefreshTypeOK
  <2>3. CallsHavePairs' /\ OneSession'
    BY <2>1, CallEnds DEF CallsHavePairs, OneSession, Busy
  <2> QED BY <2>1, <2>2, <2>3 DEF SignedInIsSomebody, Tokens!SignedInHasTokens
<1> QED BY <1>1, <1>2, <1>3, <1>4, <1>5, <1>6

(* Every step keeps the invariant. *)
LEMMA TokensNext ==
  ASSUME MaxPairs \in Nat, TokensInv, [Tokens!Next]_(Tokens!vars)
  PROVE  TokensInv'
<1>1. ASSUME NEW p \in Tokens!Pair, Tokens!Expire(p) PROVE TokensInv'
  BY <1>1 DEF TokensInv, Tokens!Expire, Tokens!history, Tokens!RefreshTypeOK, CallsHavePairs,
     SignedInIsSomebody, Tokens!SignedInHasTokens, OneSession, Busy
<1>2. CASE UNCHANGED Tokens!vars
  BY <1>2 DEF Tokens!vars, TokensInv, Tokens!RefreshTypeOK, CallsHavePairs,
     SignedInIsSomebody, Tokens!SignedInHasTokens, OneSession, Busy
<1> QED BY <1>1, <1>2, SessionStep, SendStep, AnswerStep DEF Tokens!Next

LEMMA TokensInvHolds == MaxPairs \in Nat => (Tokens!Spec => []TokensInv)
<1> SUFFICES ASSUME MaxPairs \in Nat PROVE Tokens!Spec => []TokensInv
  OBVIOUS
<1>1. Tokens!Init => TokensInv
  BY TokensInitInv
<1>2. TokensInv /\ [Tokens!Next]_(Tokens!vars) => TokensInv'
  BY TokensNext
<1> QED BY <1>1, <1>2, PTL DEF Tokens!Spec

(* A tab that shows itself signed in holds tokens or is leaving for the    *)
(* sign-in page, however many refreshes of it fail at once.                *)
THEOREM SessionHasTokens == MaxPairs \in Nat => (Tokens!Spec => []Tokens!SignedInHasTokens)
<1>1. TokensInv => Tokens!SignedInHasTokens
  BY DEF TokensInv
<1> QED BY <1>1, TokensInvHolds, PTL

(* Tokens and user in the storage belong together, and a signed-out tab    *)
(* stays signed out, unless a call outlived a change of the session.       *)
THEOREM SessionOfOneUser == MaxPairs \in Nat => (Tokens!Spec => []Tokens!SessionIsItsUsers)
<1>1. TokensInv => Tokens!SessionIsItsUsers
  BY DEF TokensInv, OneSession, Tokens!SessionIsItsUsers
<1> QED BY <1>1, TokensInvHolds, PTL

-------------------------------------------------------------------------------
(* SignIn.  A page whose effect has run and that its user does not belong  *)
(* to is being left: the router is on its way to another one.              *)
StrangersLeave ==
    ~due => \/ route = "overview" <=> isAuthenticated
            \/ going \notin {"none", route}

EntryInv ==
    /\ Entry!SignInTypeOK
    /\ StrangersLeave
    /\ Entry!LoadingIsWaiting
    /\ Entry!SentFormsAreValid

LEMMA EntryInitInv == Entry!Init => EntryInv
  BY DEF Entry!Init, EntryInv, Entry!SignInTypeOK, StrangersLeave, Entry!LoadingIsWaiting,
     Entry!SentFormsAreValid, Entry!Route, Entry!NoCall, Entry!Calls

(* The router, the effects, and what loads the page anew. *)
LEMMA RouterStep ==
  ASSUME EntryInv,
         \/ Entry!Arrive \/ Entry!Gate \/ Entry!Expire \/ Entry!OtherTab
         \/ Entry!SignInLink \/ \E r \in Entry!Route : Entry!Visit(r)
  PROVE  EntryInv'
<1> USE DEF EntryInv, Entry!SignInTypeOK, StrangersLeave, Entry!LoadingIsWaiting,
        Entry!SentFormsAreValid, Entry!Route, Entry!view, Entry!store
<1>1. CASE Entry!Arrive
  BY <1>1 DEF Entry!Arrive, Entry!Mount
<1>2. CASE Entry!Gate
  BY <1>2 DEF Entry!Gate
<1>3. CASE Entry!Expire
  BY <1>3 DEF Entry!Expire, Entry!Calls, Entry!NoCall
<1>4. CASE Entry!SignInLink
  BY <1>4 DEF Entry!SignInLink
<1>6. CASE Entry!OtherTab
  <2>1. kept' \in BOOLEAN
    BY <1>6 DEF Entry!OtherTab
  <2> QED BY <1>6, <2>1 DEF Entry!OtherTab
<1>5. ASSUME NEW r \in Entry!Route, Entry!Visit(r) PROVE EntryInv'
  BY <1>5 DEF Entry!Visit, Entry!Calls, Entry!NoCall
<1> QED BY <1>1, <1>2, <1>3, <1>4, <1>5, <1>6

(* A form is sent when its own checks pass; they imply the backend's. *)
LEMMA SubmitStep ==
  ASSUME EntryInv, NEW f \in Entry!Form,
         Entry!SignInSubmit(f) \/ Entry!SignUpSubmit(f) \/ Entry!RegisterSubmit(f)
  PROVE  EntryInv'
<1> DEFINE sent == [f EXCEPT !.name = Entry!Trimmed(@), !.email = Entry!Trimmed(@)]
<1>1. /\ sent \in Entry!Form
      /\ sent.name = Entry!Trimmed(f.name) /\ sent.email = Entry!Trimmed(f.email)
      /\ sent.password = f.password
  BY DEF Entry!Form, Entry!Trimmed, Entry!Text
<1> HIDE DEF sent
<1>2. ASSUME NEW kind \in {"login", "register"}, NEW g \in Entry!Form,
             Entry!Begin(kind, g), Entry!Acceptable(kind, g), local' \subseteq {"signIn", "signUp", "register"},
             UNCHANGED <<route, going, due, panel, isAuthenticated, kept>>
      PROVE  EntryInv'
  BY <1>2 DEF EntryInv, Entry!SignInTypeOK, StrangersLeave, Entry!LoadingIsWaiting,
     Entry!SentFormsAreValid, Entry!Begin, Entry!Calls, Entry!NoCall
<1>3. ASSUME UNCHANGED <<route, going, due, panel, isAuthenticated, kept, isLoading, attempt>>,
             local' \subseteq {"signIn", "signUp", "register"}, error' \in {"none", error}
      PROVE  EntryInv'
  BY <1>3 DEF EntryInv, Entry!SignInTypeOK, StrangersLeave, Entry!LoadingIsWaiting,
     Entry!SentFormsAreValid
<1>4. local \subseteq {"signIn", "signUp", "register"}
  BY DEF EntryInv, Entry!SignInTypeOK
<1>5. CASE Entry!SignInSubmit(f)
  <2>1. Entry!Trimmed(f.email) # "empty" /\ f.password # "empty" => Entry!Acceptable("login", f)
    BY DEF Entry!Acceptable, Entry!Trimmed
  <2> QED BY <1>2, <1>3, <1>4, <1>5, <2>1 DEF Entry!SignInSubmit
<1>6. CASE Entry!SignUpSubmit(f)
  <2>1. Entry!Complete(sent) => Entry!Acceptable("register", sent)
    BY DEF Entry!Acceptable, Entry!Complete
  <2> QED BY <1>1, <1>2, <1>3, <1>4, <1>6, <2>1 DEF Entry!SignUpSubmit, sent
<1>7. CASE Entry!RegisterSubmit(f)
  <2>1. Entry!Complete(f) => Entry!Acceptable("register", f)
    BY DEF Entry!Acceptable, Entry!Complete
  <2> QED BY <1>2, <1>3, <1>4, <1>7, <2>1 DEF Entry!RegisterSubmit
<1> QED BY <1>5, <1>6, <1>7

(* The answers, the inputs, and the buttons that sign out. *)
LEMMA StoreStep ==
  ASSUME EntryInv,
         \/ Entry!HandleChange \/ Entry!Accepted \/ Entry!Refused
         \/ \E b \in BOOLEAN : Entry!Switch(b) \/ Entry!SignOut(b)
  PROVE  EntryInv'
<1> USE DEF EntryInv, Entry!SignInTypeOK, StrangersLeave, Entry!LoadingIsWaiting,
        Entry!SentFormsAreValid, Entry!Route, Entry!view, Entry!Calls, Entry!NoCall
<1>1. CASE Entry!HandleChange
  BY <1>1 DEF Entry!HandleChange
<1>2. CASE Entry!Accepted
  BY <1>2 DEF Entry!Accepted
<1>3. CASE Entry!Refused
  BY <1>3 DEF Entry!Refused
<1>4. ASSUME NEW b \in BOOLEAN, Entry!Switch(b) PROVE EntryInv'
  BY <1>4 DEF Entry!Switch
<1>5. ASSUME NEW b \in BOOLEAN, Entry!SignOut(b) PROVE EntryInv'
  BY <1>5 DEF Entry!SignOut
<1> QED BY <1>1, <1>2, <1>3, <1>4, <1>5

LEMMA EntryNext == ASSUME EntryInv, [Entry!Next]_(Entry!vars) PROVE EntryInv'
<1>1. CASE UNCHANGED Entry!vars
  BY <1>1 DEF Entry!vars, EntryInv, Entry!SignInTypeOK, StrangersLeave,
     Entry!LoadingIsWaiting, Entry!SentFormsAreValid
<1> QED BY <1>1, RouterStep, SubmitStep, StoreStep DEF Entry!Next

(* Router and effects at rest, who is signed in is at the dashboard, and   *)
(* nobody else is; buttons are off exactly while a request is under way;   *)
(* what is sent the backend's validation takes ((dashboard)/layout.tsx,    *)
(* login/page.tsx, auth-store.ts).                                         *)
THEOREM GateHolds ==
    Entry!Spec => [](Entry!GateIsClosed /\ Entry!LoadingIsWaiting /\ Entry!SentFormsAreValid)
<1>1. EntryInv => Entry!GateIsClosed /\ Entry!LoadingIsWaiting /\ Entry!SentFormsAreValid
  BY DEF EntryInv, StrangersLeave, Entry!GateIsClosed
<1> QED BY <1>1, EntryInitInv, EntryNext, PTL DEF Entry!Spec

-------------------------------------------------------------------------------
(* NotificationForm.  A form that nothing has failed for and that no other *)
(* has overtaken departs from the row, or has just replaced it.            *)
TabsFit ==
    \A t \in Tab : t \notin stale =>
        /\ tab[t].phase \in {"ready", "saving"} /\ ~tab[t].failed => row = {tab[t].initial}
        /\ tab[t].phase = "saved" => row = {tab[t].sent}

NoticesInv ==
    /\ Notices!NotificationTypeOK
    /\ \A p, q \in row : p = q
    /\ TabsFit

NoticesAssumption == MaxSaves \in Nat

LEMMA RowCounts ==
    /\ Notices!Cardinality({}) <= 1
    /\ \A p : Notices!Cardinality({p}) <= 1
<1>1. \A S : Notices!Cardinality(S) = Cardinality(S)
  BY DEF Notices!Cardinality, Cardinality
<1>2. Notices!Cardinality({}) = 0
  BY <1>1, FS_EmptySet
<1>3. ASSUME NEW p PROVE Notices!Cardinality({p}) = 1
  BY <1>1, FS_Singleton
<1>4. Notices!Cardinality({}) <= 1
  BY <1>2
<1>5. \A p : Notices!Cardinality({p}) <= 1
  BY <1>3
<1> QED BY <1>4, <1>5

(* Preferences are a switch and a threshold. *)
LEMMA DefaultsTyped == Notices!Default \in Notices!Prefs /\ Notices!FormDefault \in Notices!Prefs
<1>1. TRUE \in BOOLEAN /\ FALSE \in BOOLEAN
  OBVIOUS
<1> QED BY <1>1 DEF Notices!Default, Notices!FormDefault, Notices!Prefs

Sheet == [phase : Notices!Phase, form : Notices!Prefs, initial : Notices!Prefs,
          sent : Notices!Prefs, failed : BOOLEAN]

LEMMA OpenedTyped == Notices!Opened \in Sheet /\ Notices!Opened.phase = "loading"
<1>1. FALSE \in BOOLEAN /\ "loading" \in Notices!Phase
  BY DEF Notices!Phase
<1> QED BY <1>1, DefaultsTyped DEF Notices!Opened, Sheet

LEMMA NoticesInit == ASSUME NoticesAssumption PROVE Notices!Init => NoticesInv
<1> SUFFICES ASSUME Notices!Init PROVE NoticesInv
  OBVIOUS
<1>1. tab \in [Tab -> Sheet]
  BY OpenedTyped DEF Notices!Init
<1>2. Notices!NotificationTypeOK
  BY <1>1, RowCounts DEF Notices!Init, Notices!NotificationTypeOK, Sheet, NoticesAssumption
<1>3. TabsFit
  BY OpenedTyped DEF Notices!Init, TabsFit
<1> QED BY <1>2, <1>3 DEF Notices!Init, NoticesInv

(* What a tab shows of an answer. *)
LEMMA ShowsTyped ==
  ASSUME Notices!NotificationTypeOK, NEW t \in Tab, NEW p \in Notices!Prefs,
         NEW failed \in BOOLEAN, Notices!Shows(t, p, failed)
  PROVE  /\ tab' \in [Tab -> Sheet]
         /\ tab'[t].phase = "ready" /\ tab'[t].initial = p /\ (tab'[t].failed <=> failed)
         /\ \A u \in Tab : u # t => tab'[u] = tab[u]
<1> DEFINE f == [phase |-> "ready", form |-> p, initial |-> p, sent |-> p, failed |-> failed]
<1>1. "ready" \in Notices!Phase
  BY DEF Notices!Phase
<1>2. f \in Sheet /\ f.phase = "ready" /\ f.initial = p /\ (f.failed <=> failed)
  BY <1>1 DEF Sheet
<1>3. tab \in [Tab -> Sheet] /\ tab' = [tab EXCEPT ![t] = f]
  BY DEF Notices!NotificationTypeOK, Notices!Shows, Sheet
<1> HIDE DEF f
<1> QED BY <1>2, <1>3

(* The answers to a load. *)
LEMMA LoadingKeeps ==
  ASSUME NoticesInv, NEW t \in Tab,
         Notices!Find(t) \/ Notices!Create(t) \/ Notices!LoadFails(t)
  PROVE  NoticesInv'
<1>0. Notices!NotificationTypeOK /\ TabsFit /\ \A p, q \in row : p = q
  BY DEF NoticesInv
<1>1. TRUE \in BOOLEAN /\ FALSE \in BOOLEAN
  OBVIOUS
<1>2. CASE Notices!Find(t) /\ row # {}
  <2>1. PICK p \in row : Notices!Shows(t, p, FALSE)
    BY <1>2 DEF Notices!Find
  <2>2. p \in Notices!Prefs /\ row = {p}
    BY <1>0 DEF Notices!NotificationTypeOK
  <2>3. row' = row /\ late' = late /\ saves' = saves /\ stale' = stale \ {t}
    BY <1>2 DEF Notices!Find
  <2>4. /\ tab' \in [Tab -> Sheet] /\ tab'[t].initial = p /\ tab'[t].phase = "ready"
        /\ \A u \in Tab : u # t => tab'[u] = tab[u]
    BY <1>0, <1>1, <2>1, <2>2, ShowsTyped
  <2>5. Notices!NotificationTypeOK'
    BY <1>0, <2>3, <2>4 DEF Notices!NotificationTypeOK, Sheet
  <2>6. TabsFit'
    BY <1>0, <2>2, <2>3, <2>4 DEF TabsFit
  <2> QED BY <1>0, <2>3, <2>5, <2>6 DEF NoticesInv
<1>3. CASE Notices!Find(t) /\ row = {}
  <2>1. /\ row' = row /\ late' = late /\ saves' = saves /\ stale' = stale \ {t}
        /\ tab' = [tab EXCEPT ![t].phase = "creating"]
    BY <1>3 DEF Notices!Find
  <2>2. tab' \in [Tab -> Sheet]
    BY <1>0, <2>1 DEF Notices!NotificationTypeOK, Sheet, Notices!Phase
  <2>3. tab'[t].phase = "creating" /\ \A u \in Tab : u # t => tab'[u] = tab[u]
    BY <1>0, <2>1 DEF Notices!NotificationTypeOK
  <2>4. Notices!NotificationTypeOK'
    BY <1>0, <2>1, <2>2 DEF Notices!NotificationTypeOK, Sheet
  <2>5. TabsFit'
    BY <1>0, <2>1, <2>3 DEF TabsFit
  <2> QED BY <1>0, <2>1, <2>4, <2>5 DEF NoticesInv
<1>4. CASE Notices!Create(t)
  <2>1. late' = late /\ saves' = saves /\ stale' = stale \ {t}
    BY <1>4 DEF Notices!Create
  <2>2. CASE row = {}
    <3>1. row' = {Notices!Default} /\ Notices!Shows(t, Notices!Default, FALSE)
      BY <1>4, <2>2 DEF Notices!Create
    <3>2. /\ tab' \in [Tab -> Sheet] /\ tab'[t].initial = Notices!Default
          /\ tab'[t].phase = "ready" /\ \A u \in Tab : u # t => tab'[u] = tab[u]
      BY <1>0, <1>1, <3>1, DefaultsTyped, ShowsTyped
    <3>3. Notices!NotificationTypeOK'
      BY <1>0, <2>1, <3>1, <3>2, RowCounts, DefaultsTyped
         DEF Notices!NotificationTypeOK, Sheet
    <3>4. TabsFit'
      BY <1>0, <2>1, <2>2, <3>1, <3>2 DEF TabsFit
    <3> QED BY <3>1, <3>3, <3>4 DEF NoticesInv
  <2>3. CASE row # {}
    <3>1. row' = row /\ Notices!Shows(t, Notices!FormDefault, TRUE)
      BY <1>4, <2>3 DEF Notices!Create
    <3>2. /\ tab' \in [Tab -> Sheet] /\ tab'[t].failed /\ tab'[t].phase = "ready"
          /\ \A u \in Tab : u # t => tab'[u] = tab[u]
      BY <1>0, <1>1, <3>1, DefaultsTyped, ShowsTyped
    <3>3. Notices!NotificationTypeOK'
      BY <1>0, <2>1, <3>1, <3>2 DEF Notices!NotificationTypeOK, Sheet
    <3>4. TabsFit'
      BY <1>0, <2>1, <3>1, <3>2 DEF TabsFit
    <3> QED BY <1>0, <3>1, <3>3, <3>4 DEF NoticesInv
  <2> QED BY <2>2, <2>3
<1>5. CASE Notices!LoadFails(t)
  <2>1. row' = row /\ late' = late /\ saves' = saves /\ stale' = stale
    BY <1>5 DEF Notices!LoadFails
  <2>2. /\ tab' \in [Tab -> Sheet] /\ tab'[t].failed /\ tab'[t].phase = "ready"
        /\ \A u \in Tab : u # t => tab'[u] = tab[u]
    BY <1>0, <1>1, <1>5, DefaultsTyped, ShowsTyped DEF Notices!LoadFails
  <2>3. Notices!NotificationTypeOK'
    BY <1>0, <2>1, <2>2 DEF Notices!NotificationTypeOK, Sheet
  <2>4. TabsFit'
    BY <1>0, <2>1, <2>2 DEF TabsFit
  <2> QED BY <1>0, <2>1, <2>3, <2>4 DEF NoticesInv
<1> QED BY <1>2, <1>3, <1>4, <1>5

(* The user and the saves. *)
LEMMA SavingKeeps ==
  ASSUME NoticesAssumption, NoticesInv, NEW t \in Tab,
         \/ Notices!Discard(t) \/ Notices!Save(t) \/ Notices!Upsert(t) \/ Notices!Saved(t)
         \/ Notices!SaveFails(t) \/ Notices!Reopen(t)
         \/ \E p \in Notices!Prefs : Notices!Edit(t, p)
  PROVE  NoticesInv'
<1>0. Notices!NotificationTypeOK /\ TabsFit /\ \A p, q \in row : p = q
  BY DEF NoticesInv
<1>1. tab[t] \in Sheet /\ tab \in [Tab -> Sheet]
  BY <1>0 DEF Notices!NotificationTypeOK, Sheet
<1>2. TRUE \in BOOLEAN /\ FALSE \in BOOLEAN
  OBVIOUS
(* All of them but an upsert leave the row and only change this tab. *)
<1>3. ASSUME NEW f \in Sheet, tab' = [tab EXCEPT ![t] = f],
             row' = row, stale' = stale, late' \subseteq Notices!Prefs, saves' \in 0..MaxSaves,
             t \notin stale =>
                /\ f.phase \in {"ready", "saving"} /\ ~f.failed => row = {f.initial}
                /\ f.phase = "saved" => row = {f.sent}
      PROVE  NoticesInv'
  <2>1. tab' \in [Tab -> Sheet] /\ tab'[t] = f /\ \A u \in Tab : u # t => tab'[u] = tab[u]
    BY <1>1, <1>3
  <2>2. Notices!NotificationTypeOK'
    BY <1>0, <1>3, <2>1 DEF Notices!NotificationTypeOK, Sheet
  <2>3. TabsFit'
    BY <1>0, <1>3, <2>1 DEF TabsFit
  <2> QED BY <1>0, <1>3, <2>2, <2>3 DEF NoticesInv
<1>4. late \subseteq Notices!Prefs /\ saves \in 0..MaxSaves
  BY <1>0 DEF Notices!NotificationTypeOK
<1>5. t \notin stale =>
        /\ tab[t].phase \in {"ready", "saving"} /\ ~tab[t].failed => row = {tab[t].initial}
        /\ tab[t].phase = "saved" => row = {tab[t].sent}
  BY <1>0 DEF TabsFit
<1>6. ASSUME NEW p \in Notices!Prefs, Notices!Edit(t, p) PROVE NoticesInv'
  <2> DEFINE f == [tab[t] EXCEPT !.form = p]
  <2>1. /\ f \in Sheet /\ f.phase = tab[t].phase /\ f.initial = tab[t].initial
        /\ f.sent = tab[t].sent
    BY <1>1 DEF Sheet
  <2>2. f.failed = tab[t].failed
    BY <1>1 DEF Sheet
  <2>3. tab' = [tab EXCEPT ![t] = f]
    BY <1>6 DEF Notices!Edit
  <2>4. row' = row /\ late' = late /\ saves' = saves /\ stale' = stale
    BY <1>6 DEF Notices!Edit
  <2> HIDE DEF f
  <2> QED BY <1>3, <1>4, <1>5, <2>1, <2>2, <2>3, <2>4
<1>7. CASE Notices!Discard(t)
  <2> DEFINE f == [tab[t] EXCEPT !.form = tab[t].initial]
  <2>1. /\ f \in Sheet /\ f.phase = tab[t].phase /\ f.initial = tab[t].initial
        /\ f.sent = tab[t].sent
    BY <1>1 DEF Sheet
  <2>2. f.failed = tab[t].failed
    BY <1>1 DEF Sheet
  <2>3. tab' = [tab EXCEPT ![t] = f]
    BY <1>7 DEF Notices!Discard
  <2>4. row' = row /\ late' = late /\ saves' = saves /\ stale' = stale
    BY <1>7 DEF Notices!Discard
  <2> HIDE DEF f
  <2> QED BY <1>3, <1>4, <1>5, <2>1, <2>2, <2>3, <2>4
<1>8. CASE Notices!Save(t)
  <2> DEFINE f == [tab[t] EXCEPT !.phase = "saving", !.sent = tab[t].form]
  <2>1. /\ f \in Sheet /\ f.phase = "saving" /\ f.initial = tab[t].initial
    BY <1>1 DEF Sheet, Notices!Phase
  <2>2. f.failed = tab[t].failed
    BY <1>1 DEF Sheet
  <2>3. tab' = [tab EXCEPT ![t] = f]
    BY <1>8, Zenon DEF Notices!Save
  <2>4. /\ row' = row /\ late' = late /\ saves' = saves + 1 /\ saves < MaxSaves
        /\ stale' = stale /\ tab[t].phase = "ready"
    BY <1>8 DEF Notices!Save, Notices!Moves
  <2>5. saves' \in 0..MaxSaves
    BY <1>4, <2>4 DEF NoticesAssumption
  <2> HIDE DEF f
  <2> QED BY <1>3, <1>4, <1>5, <2>1, <2>2, <2>3, <2>4, <2>5
<1>9. CASE Notices!Saved(t)
  <2> DEFINE f == [tab[t] EXCEPT !.phase = "ready", !.initial = tab[t].sent, !.failed = FALSE]
  <2>1. /\ f \in Sheet /\ f.phase = "ready" /\ f.initial = tab[t].sent
    BY <1>1, <1>2 DEF Sheet, Notices!Phase
  <2>2. tab' = [tab EXCEPT ![t] = f]
    BY <1>9, Zenon DEF Notices!Saved
  <2>3. /\ row' = row /\ late' = late /\ saves' = saves
        /\ stale' = stale /\ tab[t].phase = "saved"
    BY <1>9 DEF Notices!Saved, Notices!Moves
  <2> HIDE DEF f
  <2> QED BY <1>3, <1>4, <1>5, <2>1, <2>2, <2>3
<1>10. CASE Notices!SaveFails(t)
  <2> DEFINE f == [tab[t] EXCEPT !.phase = "ready", !.failed = TRUE]
  <2>1. f \in Sheet /\ f.phase = "ready"
    BY <1>1, <1>2 DEF Sheet, Notices!Phase
  <2>2. f.failed
    BY <1>1 DEF Sheet
  <2>3. tab' = [tab EXCEPT ![t] = f]
    BY <1>10, Zenon DEF Notices!SaveFails
  <2>4. row' = row /\ saves' = saves /\ stale' = stale
    BY <1>10 DEF Notices!SaveFails
  <2>5. late' \subseteq Notices!Prefs
    <3>1. tab[t].sent \in Notices!Prefs
      BY <1>1 DEF Sheet
    <3>2. late' = late \/ late' = late \cup {tab[t].sent}
      BY <1>10 DEF Notices!SaveFails
    <3> QED BY <1>4, <3>1, <3>2
  <2> HIDE DEF f
  <2> QED BY <1>3, <1>4, <2>1, <2>2, <2>3, <2>4, <2>5
<1>11. CASE Notices!Reopen(t)
  <2>1. /\ row' = row /\ saves' = saves /\ stale' = stale
        /\ tab' = [tab EXCEPT ![t] = Notices!Opened]
    BY <1>11 DEF Notices!Reopen
  <2>2. tab[t].sent \in Notices!Prefs
    BY <1>1 DEF Sheet
  <2>3. late' \subseteq Notices!Prefs
    BY <1>4, <1>11, <2>2 DEF Notices!Reopen
  <2> QED BY <1>3, <1>4, <2>1, <2>3, OpenedTyped
<1>12. CASE Notices!Upsert(t)
  <2> DEFINE f == [tab[t] EXCEPT !.phase = "saved"]
  <2>1. f \in Sheet /\ f.phase = "saved" /\ f.sent = tab[t].sent
    BY <1>1 DEF Sheet, Notices!Phase
  <2>2. /\ tab' = [tab EXCEPT ![t] = f] /\ row' = {tab[t].sent} /\ stale' = Tab \ {t}
        /\ late' = late /\ saves' = saves
    BY <1>12 DEF Notices!Upsert
  <2>3. tab[t].sent \in Notices!Prefs
    BY <1>1 DEF Sheet
  <2> HIDE DEF f
  <2>4. tab' \in [Tab -> Sheet] /\ tab'[t] = f
    BY <1>1, <2>1, <2>2
  <2>5. Notices!NotificationTypeOK'
    BY <1>0, <2>2, <2>3, <2>4, RowCounts DEF Notices!NotificationTypeOK, Sheet
  <2>6. TabsFit'
    BY <2>1, <2>2, <2>4 DEF TabsFit
  <2> QED BY <2>2, <2>5, <2>6 DEF NoticesInv
<1> QED BY <1>6, <1>7, <1>8, <1>9, <1>10, <1>11, <1>12

LEMMA NoticesNext ==
  ASSUME NoticesAssumption, NoticesInv, [Notices!Next]_(Notices!vars)
  PROVE  NoticesInv'
<1>1. ASSUME NEW p \in Notices!Prefs, Notices!LateUpsert(p) PROVE NoticesInv'
  <2>1. row' = {p} /\ late' = late \ {p} /\ stale' = Tab /\ tab' = tab /\ saves' = saves
    BY <1>1 DEF Notices!LateUpsert
  <2>2. Notices!NotificationTypeOK'
    BY <2>1, RowCounts DEF NoticesInv, Notices!NotificationTypeOK
  <2>3. TabsFit'
    BY <2>1 DEF TabsFit
  <2> QED BY <2>1, <2>2, <2>3 DEF NoticesInv
<1>2. CASE UNCHANGED Notices!vars
  BY <1>2 DEF Notices!vars, NoticesInv, Notices!NotificationTypeOK, TabsFit
<1> QED BY <1>1, <1>2, LoadingKeeps, SavingKeeps DEF Notices!Next

(* A form at rest. *)
LEMMA NoticesShown == NoticesInv => Notices!PreferencesShown
<1> SUFFICES ASSUME NoticesInv, NEW t \in Tab, tab[t].phase = "ready", ~Notices!Dirty(t),
                    ~tab[t].failed, t \notin stale
             PROVE  row = {tab[t].form}
  BY DEF Notices!PreferencesShown, Notices!Moves
<1> QED BY DEF NoticesInv, TabsFit, Notices!Dirty

(* A clean form of notification preferences whose last request succeeded   *)
(* and that no other has overtaken shows the stored row                    *)
(* (notification-settings.tsx handleSave).                                 *)
THEOREM CleanFormShowsRow ==
  ASSUME NoticesAssumption PROVE Notices!Spec => []Notices!PreferencesShown
  BY NoticesInit, NoticesNext, NoticesShown, PTL DEF Notices!Spec

-------------------------------------------------------------------------------
(* AccountForms.  A request holds a value of its kind; one that has written *)
(* a name holds no blank, and only passwords are compared.                 *)
Saves ==
    {c \in Forms!Call("name") \cup Forms!Call("password") :
        /\ c.kind = "name" => c.new \in Forms!Input /\ c.phase # "compared"
        /\ c.kind = "name" /\ c.phase = "stored" => c.new \in Name
        /\ c.kind = "password" => c.new \in Phrase}

(* A form waits for one request at most, the answer of which gets through. *)
WaitsForOne ==
    /\ isSaving <=> \E i \in 1..Len(calls) : calls[i].mine
    /\ \A i, j \in 1..Len(calls) : calls[i].mine /\ calls[j].mine => i = j
    /\ \A i \in 1..Len(calls) : calls[i].mine => calls[i].heard

(* A request that met no other is the only one of its kind, and what it    *)
(* has written is there.                                                   *)
AloneIsOnly ==
    \A i \in 1..Len(calls) : calls[i].alone =>
        /\ \A j \in 1..Len(calls) : calls[j].kind = calls[i].kind => i = j
        /\ calls[i].phase = "stored" => stored[calls[i].kind] = calls[i].new

(* Of a kind that is settled every answer gets through, and what is stored *)
(* is known unless an answer that says so is on its way.                   *)
SettledIsTold ==
    \A k \in settled :
        /\ \A i \in 1..Len(calls) : calls[i].kind = k => calls[i].heard
        /\ \/ stored[k] = known[k]
           \/ \E i \in 1..Len(calls) : calls[i].kind = k /\ calls[i].phase = "stored"

Columns == [Forms!Kind -> Name \cup Phrase]

FormsInv ==
    /\ Forms!AccountFormsTypeOK
    /\ stored \in Columns /\ known \in Columns
    /\ calls \in Seq(Saves)
    /\ WaitsForOne
    /\ AloneIsOnly
    /\ SettledIsTold
    /\ Forms!DirtyIsEdited

FormsAssumption == MaxCalls \in Nat

(* What is left of the types when the requests have theirs. *)
FormTyped ==
    /\ \A k \in Forms!Kind : stored[k] \in Forms!Values(k) /\ known[k] \in Forms!Values(k)
    /\ open \in Forms!Kind \cup {"none"} /\ text \in Forms!Input
    /\ isSaving \in BOOLEAN /\ message \in {"none", "success", "error"}
    /\ edited \in BOOLEAN /\ settled \subseteq Forms!Kind

LEMMA TypesOfForms ==
    Forms!AccountFormsTypeOK <=>
        /\ FormTyped
        /\ calls \in Seq(Forms!Call("name") \cup Forms!Call("password"))
        /\ Len(calls) <= MaxCalls
  BY DEF Forms!AccountFormsTypeOK, FormTyped

LEMMA RequestsTyped ==
  ASSUME NEW s \in Seq(Saves)
  PROVE  s \in Seq(Forms!Call("name") \cup Forms!Call("password"))
<1>1. \A i \in 1..Len(s) : s[i] \in Saves
  OBVIOUS
<1>2. \A i \in 1..Len(s) : s[i] \in Forms!Call("name") \cup Forms!Call("password")
  BY <1>1 DEF Saves
<1> QED BY <1>2

(* The parts of a request. *)
LEMMA SaveShape ==
  ASSUME NEW c \in Saves
  PROVE  /\ c.kind \in Forms!Kind /\ c.mine \in BOOLEAN /\ c.heard \in BOOLEAN
         /\ c.alone \in BOOLEAN
         /\ c.phase \in {"sent", "compared", "stored", "refused"}
         /\ c.kind = "name" => c.new \in Forms!Input /\ c.phase # "compared"
         /\ c.kind = "name" /\ c.phase = "stored" => c.new \in Name
         /\ c.kind = "password" => c.new \in Phrase
  BY DEF Saves, Forms!Call, Forms!Kind

LEMMA FormsInit == ASSUME FormsAssumption PROVE Forms!Init => FormsInv
<1> SUFFICES ASSUME Forms!Init PROVE FormsInv
  OBVIOUS
<1>1. calls = <<>> /\ Len(calls) = 0 /\ calls \in Seq(Saves)
  BY DEF Forms!Init
<1>2. /\ stored \in Columns /\ known \in Columns /\ known = stored
      /\ stored["name"] \in Name /\ stored["password"] \in Phrase
  <2>1. PICK n \in Name, p \in Phrase : stored = [name |-> n, password |-> p]
    BY DEF Forms!Init
  <2>2. DOMAIN stored = {"name", "password"} /\ stored["name"] = n /\ stored["password"] = p
    BY <2>1
  <2>3. stored \in Columns
    <3>1. stored = [k \in Forms!Kind |-> stored[k]]
      BY <2>1 DEF Forms!Kind
    <3> QED BY <2>2, <3>1 DEF Columns, Forms!Kind
  <2> QED BY <2>2, <2>3 DEF Forms!Init
<1>3. ~isSaving /\ ~edited
  BY DEF Forms!Init
<1>4. isSaving \in BOOLEAN /\ edited \in BOOLEAN
  BY DEF Forms!Init
<1>5. FormTyped
  <2>1. open \in Forms!Kind \cup {"none"} /\ settled \subseteq Forms!Kind /\ message = "none"
    BY DEF Forms!Init, Forms!Kind
  <2>2. text \in Forms!Input
    BY <1>2 DEF Forms!Init, Forms!Sanitized, Forms!Input
  <2>3. \A k \in Forms!Kind : stored[k] \in Forms!Values(k) /\ known[k] \in Forms!Values(k)
    BY <1>2 DEF Forms!Kind, Forms!Values
  <2> QED BY <1>4, <2>1, <2>2, <2>3 DEF FormTyped
<1>6. Forms!AccountFormsTypeOK
  BY <1>1, <1>5, TypesOfForms, RequestsTyped DEF FormsAssumption
<1>7. WaitsForOne /\ AloneIsOnly /\ SettledIsTold
  BY <1>1, <1>2, <1>3 DEF WaitsForOne, AloneIsOnly, SettledIsTold
<1>8. Forms!DirtyIsEdited
  BY DEF Forms!Init, Forms!DirtyIsEdited
<1> QED BY <1>1, <1>2, <1>6, <1>7, <1>8 DEF FormsInv

-------------------------------------------------------------------------------
(* Of one request the phase goes on, or its answer is lost. *)
LEMMA OneSaveMoved ==
  ASSUME NEW S, NEW s \in Seq(S), NEW i \in 1..Len(s), NEW c \in S
  PROVE  /\ [s EXCEPT ![i] = c] \in Seq(S) /\ Len([s EXCEPT ![i] = c]) = Len(s)
         /\ \A j \in 1..Len(s) : [s EXCEPT ![i] = c][j] = IF j = i THEN c ELSE s[j]
  OBVIOUS

(* Of every request something may. *)
LEMMA EachSaveMoved ==
  ASSUME NEW S, NEW s \in Seq(S), NEW g, DOMAIN g = DOMAIN s, g = [i \in DOMAIN g |-> g[i]],
         \A i \in 1..Len(s) : g[i] \in S
  PROVE  g \in Seq(S) /\ Len(g) = Len(s)
<1>1. DOMAIN s = 1..Len(s) /\ Len(s) \in Nat
  OBVIOUS
<1>2. g \in [1..Len(s) -> S]
  BY <1>1
<1> QED BY <1>1, <1>2

(* One request less. *)
LEMMA OneSaveLess ==
  ASSUME NEW S, NEW s \in Seq(S), NEW i \in 1..Len(s)
  PROVE  /\ Forms!RemoveAt(s, i) \in Seq(S)
         /\ Len(Forms!RemoveAt(s, i)) = Len(s) - 1
         /\ \A j \in 1..(Len(s) - 1) :
               Forms!RemoveAt(s, i)[j] = s[IF j < i THEN j ELSE j + 1]
<1> DEFINE a == SubSeq(s, 1, i - 1)
           b == SubSeq(s, i + 1, Len(s))
<1>1. a \in Seq(S) /\ Len(a) = i - 1 /\ \A j \in 1..(i - 1) : a[j] = s[j]
  OBVIOUS
<1>2. b \in Seq(S) /\ Len(b) = Len(s) - i /\ \A j \in 1..(Len(s) - i) : b[j] = s[j + i]
  OBVIOUS
<1>3. Forms!RemoveAt(s, i) = a \o b
  BY DEF Forms!RemoveAt
<1> HIDE DEF a, b
<1>4. a \o b \in Seq(S) /\ Len(a \o b) = Len(s) - 1
  <2>1. a \o b \in Seq(S) /\ Len(a \o b) = Len(a) + Len(b)
    BY <1>1, <1>2, ConcatProperties
  <2>2. Len(s) \in Nat /\ (i - 1) + (Len(s) - i) = Len(s) - 1
    OBVIOUS
  <2> QED BY <1>1, <1>2, <2>1, <2>2
<1>5. ASSUME NEW j \in 1..(Len(s) - 1)
      PROVE  (a \o b)[j] = s[IF j < i THEN j ELSE j + 1]
  <2>1. CASE j < i
    <3>1. (a \o b)[j] = a[j]
      BY <1>1, <1>2, <2>1
    <3> QED BY <1>1, <2>1, <3>1
  <2>2. CASE ~(j < i)
    <3>1. (a \o b)[j] = b[j - (i - 1)]
      BY <1>1, <1>2, <2>2
    <3>2. j - (i - 1) \in 1..(Len(s) - i) /\ (j - (i - 1)) + i = j + 1
      BY <2>2
    <3> QED BY <1>2, <2>2, <3>1, <3>2
  <2> QED BY <2>1, <2>2
<1> QED BY <1>3, <1>4, <1>5

(* The requests left are those there were but one. *)
LEMMA OtherSavesLeft ==
  ASSUME NEW i \in 1..Len(calls), calls \in Seq(Saves), calls' = Forms!RemoveAt(calls, i)
  PROVE  /\ calls' \in Seq(Saves) /\ Len(calls') = Len(calls) - 1
         /\ \A j \in 1..Len(calls') : \E k \in 1..Len(calls) \ {i} :
               calls'[j] = calls[k] /\ k = IF j < i THEN j ELSE j + 1
         /\ \A k \in 1..Len(calls) \ {i} : \E j \in 1..Len(calls') : calls'[j] = calls[k]
<1>1. /\ calls' \in Seq(Saves) /\ Len(calls') = Len(calls) - 1
      /\ \A j \in 1..(Len(calls) - 1) : calls'[j] = calls[IF j < i THEN j ELSE j + 1]
  BY OneSaveLess
<1>2. Len(calls) \in Nat
  OBVIOUS
<1>3. ASSUME NEW j \in 1..Len(calls')
      PROVE  \E k \in 1..Len(calls) \ {i} :
               calls'[j] = calls[k] /\ k = IF j < i THEN j ELSE j + 1
  <2>1. (IF j < i THEN j ELSE j + 1) \in 1..Len(calls) \ {i}
    BY <1>1, <1>2
  <2> QED BY <1>1, <1>3, <2>1
<1>4. ASSUME NEW k \in 1..Len(calls) \ {i}
      PROVE  \E j \in 1..Len(calls') : calls'[j] = calls[k]
  <2>1. CASE k < i
    <3>1. k \in 1..(Len(calls) - 1) /\ calls'[k] = calls[k]
      BY <1>1, <1>2, <2>1
    <3> QED BY <1>1, <3>1
  <2>2. CASE ~(k < i)
    <3>1. k - 1 \in 1..(Len(calls) - 1) /\ ~(k - 1 < i) /\ (k - 1) + 1 = k
      BY <1>2, <2>2
    <3>2. calls'[k - 1] = calls[k]
      BY <1>1, <3>1
    <3> QED BY <1>1, <3>1, <3>2
  <2> QED BY <2>1, <2>2
<1> QED BY <1>1, <1>3, <1>4

(* What a form waits for, and what is alone, of the requests that are left. *)
LEMMA GoneWaits ==
  ASSUME NEW i \in 1..Len(calls), WaitsForOne,
         calls \in Seq(Saves), calls' \in Seq(Saves),
         isSaving' = (isSaving /\ ~calls[i].mine),
         \A j \in 1..Len(calls') : \E k \in 1..Len(calls) \ {i} :
            calls'[j] = calls[k] /\ k = IF j < i THEN j ELSE j + 1,
         \A k \in 1..Len(calls) \ {i} : \E j \in 1..Len(calls') : calls'[j] = calls[k]
  PROVE  WaitsForOne'
<1>1. \A j, m \in 1..Len(calls') : calls'[j].mine /\ calls'[m].mine => j = m
  <2> SUFFICES ASSUME NEW j \in 1..Len(calls'), NEW m \in 1..Len(calls'),
                      calls'[j].mine, calls'[m].mine
               PROVE  j = m
    OBVIOUS
  <2>1. PICK a \in 1..Len(calls) \ {i} : calls'[j] = calls[a] /\ a = IF j < i THEN j ELSE j + 1
    OBVIOUS
  <2>2. PICK b \in 1..Len(calls) \ {i} : calls'[m] = calls[b] /\ b = IF m < i THEN m ELSE m + 1
    OBVIOUS
  <2>3. a = b
    BY <2>1, <2>2 DEF WaitsForOne
  <2>4. j \in Nat /\ m \in Nat /\ i \in Nat
    OBVIOUS
  <2>5. CASE j < i /\ m < i
    BY <2>1, <2>2, <2>3, <2>5
  <2>6. CASE j < i /\ ~(m < i)
    <3>1. j = m + 1
      BY <2>1, <2>2, <2>3, <2>6
    <3> QED BY <2>4, <2>6, <3>1
  <2>7. CASE ~(j < i) /\ m < i
    <3>1. m = j + 1
      BY <2>1, <2>2, <2>3, <2>7
    <3> QED BY <2>4, <2>7, <3>1
  <2>8. CASE ~(j < i) /\ ~(m < i)
    <3>1. j + 1 = m + 1
      BY <2>1, <2>2, <2>3, <2>8
    <3> QED BY <2>4, <3>1
  <2> QED BY <2>5, <2>6, <2>7, <2>8
<1>2. \A j \in 1..Len(calls') : calls'[j].mine => calls'[j].heard
  BY DEF WaitsForOne
<1>3. isSaving' => \E j \in 1..Len(calls') : calls'[j].mine
  <2> SUFFICES ASSUME isSaving' PROVE \E j \in 1..Len(calls') : calls'[j].mine
    OBVIOUS
  <2>1. PICK k \in 1..Len(calls) : calls[k].mine
    BY DEF WaitsForOne
  <2>2. k # i
    BY <2>1
  <2>3. PICK j \in 1..Len(calls') : calls'[j] = calls[k]
    BY <2>2
  <2> QED BY <2>1, <2>3
<1>4. (\E j \in 1..Len(calls') : calls'[j].mine) => isSaving'
  <2> SUFFICES ASSUME NEW j \in 1..Len(calls'), calls'[j].mine PROVE isSaving'
    OBVIOUS
  <2>1. PICK k \in 1..Len(calls) \ {i} : calls'[j] = calls[k]
    OBVIOUS
  <2>2. calls[k].mine /\ isSaving /\ ~calls[i].mine
    BY <2>1 DEF WaitsForOne
  <2> QED BY <2>2
<1>5. isSaving' <=> \E j \in 1..Len(calls') : calls'[j].mine
  BY <1>3, <1>4
<1> QED BY <1>1, <1>2, <1>5 DEF WaitsForOne

LEMMA GoneAlone ==
  ASSUME NEW i \in 1..Len(calls), AloneIsOnly, stored' = stored,
         \A j \in 1..Len(calls') : \E k \in 1..Len(calls) \ {i} :
            calls'[j] = calls[k] /\ k = IF j < i THEN j ELSE j + 1
  PROVE  AloneIsOnly'
<1> SUFFICES ASSUME NEW j \in 1..Len(calls'), calls'[j].alone
             PROVE  /\ \A m \in 1..Len(calls') : calls'[m].kind = calls'[j].kind => j = m
                    /\ calls'[j].phase = "stored" => stored[calls'[j].kind] = calls'[j].new
  BY DEF AloneIsOnly
<1>1. PICK a \in 1..Len(calls) \ {i} : calls'[j] = calls[a] /\ a = IF j < i THEN j ELSE j + 1
  OBVIOUS
<1>2. /\ \A m \in 1..Len(calls) : calls[m].kind = calls[a].kind => a = m
      /\ calls[a].phase = "stored" => stored[calls[a].kind] = calls[a].new
  BY <1>1 DEF AloneIsOnly
<1>3. ASSUME NEW m \in 1..Len(calls'), calls'[m].kind = calls'[j].kind PROVE j = m
  <2>1. PICK b \in 1..Len(calls) \ {i} : calls'[m] = calls[b] /\ b = IF m < i THEN m ELSE m + 1
    OBVIOUS
  <2>2. a = b
    BY <1>1, <1>2, <1>3, <2>1
  <2> QED BY <1>1, <2>1, <2>2
<1> QED BY <1>1, <1>2, <1>3

(* A request that its form forgets, one that another follows, and one      *)
(* whose answer is lost.                                                   *)
LEMMA Forgotten ==
  ASSUME NEW c \in Saves
  PROVE  LET d == [c EXCEPT !.mine = FALSE]
         IN  /\ d \in Saves /\ d.kind = c.kind /\ d.new = c.new /\ d.phase = c.phase
             /\ (d.heard <=> c.heard) /\ (d.alone <=> c.alone) /\ ~d.mine
<1> DEFINE d == [c EXCEPT !.mine = FALSE]
<1>1. FALSE \in BOOLEAN
  OBVIOUS
<1>2. PICK k \in {"name", "password"} : c \in Forms!Call(k)
  BY DEF Saves
<1>3. d \in Forms!Call(k)
  BY <1>1, <1>2 DEF Forms!Call
<1>4. d.kind = c.kind /\ d.new = c.new /\ d.phase = c.phase /\ d.mine = FALSE
  BY <1>2 DEF Forms!Call
<1>5. d.heard = c.heard /\ d.alone = c.alone
  BY <1>2 DEF Forms!Call
<1> HIDE DEF d
<1>6. d \in Saves
  BY <1>2, <1>3, <1>4 DEF Saves
<1> QED BY <1>4, <1>5, <1>6 DEF d

LEMMA Followed ==
  ASSUME NEW c \in Saves
  PROVE  LET d == [c EXCEPT !.alone = FALSE]
         IN  /\ d \in Saves /\ d.kind = c.kind /\ d.new = c.new /\ d.phase = c.phase
             /\ (d.heard <=> c.heard) /\ (d.mine <=> c.mine) /\ ~d.alone
<1> DEFINE d == [c EXCEPT !.alone = FALSE]
<1>1. FALSE \in BOOLEAN
  OBVIOUS
<1>2. PICK k \in {"name", "password"} : c \in Forms!Call(k)
  BY DEF Saves
<1>3. d \in Forms!Call(k)
  BY <1>1, <1>2 DEF Forms!Call
<1>4. d.kind = c.kind /\ d.new = c.new /\ d.phase = c.phase /\ d.alone = FALSE
  BY <1>2 DEF Forms!Call
<1>5. d.heard = c.heard /\ d.mine = c.mine
  BY <1>2 DEF Forms!Call
<1> HIDE DEF d
<1>6. d \in Saves
  BY <1>2, <1>3, <1>4 DEF Saves
<1> QED BY <1>4, <1>5, <1>6 DEF d

LEMMA Lost ==
  ASSUME NEW c \in Saves
  PROVE  LET d == [c EXCEPT !.heard = FALSE, !.mine = FALSE]
         IN  /\ d \in Saves /\ d.kind = c.kind /\ d.new = c.new /\ d.phase = c.phase
             /\ (d.alone <=> c.alone) /\ ~d.mine
<1> DEFINE d == [c EXCEPT !.heard = FALSE, !.mine = FALSE]
<1>1. FALSE \in BOOLEAN
  OBVIOUS
<1>2. PICK k \in {"name", "password"} : c \in Forms!Call(k)
  BY DEF Saves
<1>3. d \in Forms!Call(k)
  BY <1>1, <1>2 DEF Forms!Call
<1>4. d.kind = c.kind /\ d.new = c.new /\ d.phase = c.phase /\ d.mine = FALSE
  BY <1>2 DEF Forms!Call
<1>5. d.alone = c.alone
  BY <1>2 DEF Forms!Call
<1> HIDE DEF d
<1>6. d \in Saves
  BY <1>2, <1>3, <1>4 DEF Saves
<1> QED BY <1>4, <1>5, <1>6 DEF d

(* A request that the service has taken a step further. *)
LEMMA Further ==
  ASSUME NEW c \in Saves, NEW p \in {"compared", "stored", "refused"},
         c.kind = "name" => p # "compared", c.kind = "name" /\ p = "stored" => c.new \in Name
  PROVE  LET d == [c EXCEPT !.phase = p]
         IN  /\ d \in Saves /\ d.kind = c.kind /\ d.new = c.new /\ d.phase = p
             /\ (d.heard <=> c.heard) /\ (d.mine <=> c.mine) /\ (d.alone <=> c.alone)
<1> DEFINE d == [c EXCEPT !.phase = p]
<1>2. PICK k \in {"name", "password"} : c \in Forms!Call(k)
  BY DEF Saves
<1>3. d \in Forms!Call(k)
  BY <1>2 DEF Forms!Call
<1>4. d.kind = c.kind /\ d.new = c.new /\ d.phase = p
  BY <1>2 DEF Forms!Call
<1>5. d.heard = c.heard /\ d.mine = c.mine /\ d.alone = c.alone
  BY <1>2 DEF Forms!Call
<1> HIDE DEF d
<1>6. d \in Saves
  BY <1>2, <1>3, <1>4 DEF Saves
<1> QED BY <1>4, <1>5, <1>6 DEF d

LEMMA SanitizedTyped == ASSUME NEW n \in Name PROVE Forms!Sanitized(n) \in Forms!Input
  BY DEF Forms!Sanitized, Forms!Input

LEMMA KnownName == ASSUME FormsInv PROVE known["name"] \in Name
  BY DEF FormsInv, Forms!AccountFormsTypeOK, Forms!Kind, Forms!Values

-------------------------------------------------------------------------------
(* The page without its requests. *)
LEMMA PageKeeps ==
  ASSUME FormsInv,
         \/ \E n \in Forms!Input : Forms!SetName(n)
         \/ Forms!HandleDiscard \/ Forms!Mismatch
  PROVE  FormsInv'
<1>1. /\ UNCHANGED <<stored, known, calls, settled, open>>
      /\ isSaving' = isSaving
  BY DEF Forms!SetName, Forms!HandleDiscard, Forms!Mismatch
<1>2. text' \in Forms!Input /\ message' \in {"none", "success", "error"}
  BY KnownName, SanitizedTyped
     DEF FormsInv, Forms!AccountFormsTypeOK, Forms!SetName, Forms!HandleDiscard, Forms!Mismatch
<1>3. edited' \in BOOLEAN
  BY DEF FormsInv, Forms!AccountFormsTypeOK, Forms!SetName, Forms!HandleDiscard, Forms!Mismatch
<1>4. Forms!AccountFormsTypeOK'
  BY <1>1, <1>2, <1>3 DEF FormsInv, Forms!AccountFormsTypeOK
<1>5. (WaitsForOne /\ AloneIsOnly /\ SettledIsTold)'
  BY <1>1 DEF FormsInv, WaitsForOne, AloneIsOnly, SettledIsTold
<1>6. Forms!DirtyIsEdited'
  BY <1>1 DEF FormsInv, Forms!DirtyIsEdited, Forms!SetName, Forms!HandleDiscard, Forms!Mismatch
<1> QED BY <1>1, <1>4, <1>5, <1>6 DEF FormsInv

(* Another form: no request is its own. *)
LEMMA TabKeeps ==
  ASSUME FormsInv, NEW o \in Forms!Kind \cup {"none"}, Forms!SetActiveTab(o)
  PROVE  FormsInv'
<1>1. /\ UNCHANGED <<stored, known, settled>>
      /\ open' = o /\ text' = Forms!Sanitized(known["name"]) /\ message' = "none"
      /\ isSaving' = FALSE /\ edited' = FALSE
      /\ calls' = [i \in DOMAIN calls |-> [calls[i] EXCEPT !.mine = FALSE]]
  BY DEF Forms!SetActiveTab
<1>2. calls \in Seq(Saves) /\ Len(calls) <= MaxCalls
  BY DEF FormsInv, Forms!AccountFormsTypeOK
<1>3. \A i \in 1..Len(calls) : calls[i] \in Saves
  BY <1>2
<1>4. calls' \in Seq(Saves) /\ Len(calls') = Len(calls)
  <2>1. DOMAIN calls = 1..Len(calls)
    BY <1>2
  <2>2. \A i \in 1..Len(calls) : calls'[i] = [calls[i] EXCEPT !.mine = FALSE]
    BY <1>1, <2>1, Zenon
  <2>3. ASSUME NEW i \in 1..Len(calls) PROVE calls'[i] \in Saves
    <3>1. calls[i] \in Saves /\ calls'[i] = [calls[i] EXCEPT !.mine = FALSE]
      BY <1>3, <2>2
    <3> QED BY <3>1, Forgotten
  <2>4. DOMAIN calls' = DOMAIN calls /\ calls' = [i \in DOMAIN calls' |-> calls'[i]]
    BY <1>1, Zenon
  <2> QED BY <1>2, <2>3, <2>4, EachSaveMoved
<1>5. \A i \in 1..Len(calls) :
        /\ calls'[i].kind = calls[i].kind /\ calls'[i].new = calls[i].new
        /\ calls'[i].phase = calls[i].phase /\ (calls'[i].heard <=> calls[i].heard)
        /\ (calls'[i].alone <=> calls[i].alone) /\ ~calls'[i].mine
  <2> SUFFICES ASSUME NEW i \in 1..Len(calls)
               PROVE  /\ calls'[i].kind = calls[i].kind /\ calls'[i].new = calls[i].new
                      /\ calls'[i].phase = calls[i].phase
                      /\ (calls'[i].heard <=> calls[i].heard)
                      /\ (calls'[i].alone <=> calls[i].alone) /\ ~calls'[i].mine
    OBVIOUS
  <2>0. DOMAIN calls = 1..Len(calls)
    BY <1>2
  <2>1. calls'[i] = [calls[i] EXCEPT !.mine = FALSE]
    BY <1>1, <2>0, Zenon
  <2> QED BY <1>3, <2>1, Forgotten
<1>6. Forms!AccountFormsTypeOK'
  <2>1. isSaving' \in BOOLEAN /\ edited' \in BOOLEAN
    BY <1>1
  <2>2. FormTyped'
    BY <1>1, <2>1, KnownName, SanitizedTyped DEF FormsInv, Forms!AccountFormsTypeOK, FormTyped
  <2>3. calls' \in Seq(Forms!Call("name") \cup Forms!Call("password"))
    BY <1>4, RequestsTyped
  <2> QED BY <1>2, <1>4, <2>2, <2>3 DEF Forms!AccountFormsTypeOK, FormTyped
<1>7. WaitsForOne'
  BY <1>1, <1>4, <1>5 DEF WaitsForOne
<1>8. AloneIsOnly'
  BY <1>1, <1>4, <1>5 DEF FormsInv, AloneIsOnly
<1>9. SettledIsTold'
  BY <1>1, <1>4, <1>5 DEF FormsInv, SettledIsTold
<1>10. Forms!DirtyIsEdited'
  BY <1>1 DEF Forms!DirtyIsEdited
<1> QED BY <1>1, <1>4, <1>6, <1>7, <1>8, <1>9, <1>10 DEF FormsInv

(* A save: no other request of the form is under way.                      *)
LEMMA SendKeeps ==
  ASSUME FormsAssumption, FormsInv, NEW k \in Forms!Kind, NEW old, NEW new,
         Forms!Send(k, old, new), old \in Forms!Values(k),
         k = "name" => new \in Forms!Input, k = "password" => new \in Phrase
  PROVE  FormsInv'
<1> DEFINE c == [kind |-> k, old |-> old, new |-> new, phase |-> "sent", mine |-> TRUE,
                 heard |-> TRUE, alone |-> Forms!Of(k) = {}]
           s == [i \in DOMAIN calls |-> IF calls[i].kind = k THEN [calls[i] EXCEPT !.alone = FALSE]
                                        ELSE calls[i]]
<1>1. /\ UNCHANGED <<stored, known, open, text, edited, settled>>
      /\ ~isSaving /\ isSaving' = TRUE /\ message' = "none"
      /\ Len(calls) < MaxCalls /\ calls' = Append(s, c)
  BY DEF Forms!Send
<1>2. calls \in Seq(Saves) /\ Len(calls) \in Nat
  BY DEF FormsInv
<1>3. \A i \in 1..Len(calls) : calls[i] \in Saves
  BY <1>2
<1>4. c \in Saves /\ c.kind = k /\ c.phase = "sent" /\ c.mine /\ c.heard
  <2>1. TRUE \in BOOLEAN /\ (Forms!Of(k) = {}) \in BOOLEAN
    OBVIOUS
  <2>2. new \in Forms!Input \cup Phrase
    BY DEF Forms!Kind
  <2>3. c \in Forms!Call(k)
    BY <2>1, <2>2 DEF Forms!Call
  <2>4. k \in {"name", "password"}
    BY DEF Forms!Kind
  <2> QED BY <2>3, <2>4 DEF Saves
<1>0. DOMAIN calls = 1..Len(calls)
  BY <1>2
<1>5. c.alone => \A i \in 1..Len(calls) : calls[i].kind # k
  <2>1. c.alone => Forms!Of(k) = {}
    OBVIOUS
  <2>2. \A i \in 1..Len(calls) : calls[i].kind = k => i \in Forms!Of(k)
    BY <1>0 DEF Forms!Of
  <2> QED BY <2>1, <2>2
<1> HIDE DEF c
<1>17. \A i \in 1..Len(calls) :
         s[i] = IF calls[i].kind = k THEN [calls[i] EXCEPT !.alone = FALSE] ELSE calls[i]
  BY <1>0, Zenon
<1>6. s \in Seq(Saves) /\ Len(s) = Len(calls)
  <2>1. \A i \in 1..Len(calls) : s[i] \in Saves
    <3> SUFFICES ASSUME NEW i \in 1..Len(calls) PROVE s[i] \in Saves
      OBVIOUS
    <3> HIDE DEF s
    <3>1. CASE calls[i].kind = k
      BY <1>3, <1>17, <3>1, Followed
    <3>2. CASE calls[i].kind # k
      BY <1>3, <1>17, <3>2
    <3> QED BY <3>1, <3>2
  <2>2. DOMAIN s = DOMAIN calls /\ s = [i \in DOMAIN s |-> s[i]]
    BY Zenon
  <2> HIDE DEF s
  <2> QED BY <1>2, <2>1, <2>2, EachSaveMoved
<1>7. \A i \in 1..Len(calls) :
        /\ s[i].kind = calls[i].kind /\ s[i].new = calls[i].new /\ s[i].phase = calls[i].phase
        /\ (s[i].heard <=> calls[i].heard) /\ (s[i].mine <=> calls[i].mine)
        /\ s[i].alone => calls[i].alone /\ calls[i].kind # k
  <2> SUFFICES ASSUME NEW i \in 1..Len(calls)
               PROVE  /\ s[i].kind = calls[i].kind /\ s[i].new = calls[i].new
                      /\ s[i].phase = calls[i].phase
                      /\ (s[i].heard <=> calls[i].heard) /\ (s[i].mine <=> calls[i].mine)
                      /\ s[i].alone => calls[i].alone /\ calls[i].kind # k
    OBVIOUS
  <2>1. CASE calls[i].kind = k
    <3>1. s[i] = [calls[i] EXCEPT !.alone = FALSE]
      BY <1>17, <2>1, Zenon
    <3> QED BY <1>3, <3>1, Followed
  <2>2. CASE calls[i].kind # k
    <3>1. s[i] = calls[i]
      BY <1>17, <2>2, Zenon
    <3> QED BY <2>2, <3>1
  <2> QED BY <2>1, <2>2
<1> HIDE DEF s
<1>8. /\ calls' \in Seq(Saves) /\ Len(calls') = Len(calls) + 1
      /\ calls'[Len(calls) + 1] = c /\ \A i \in 1..Len(calls) : calls'[i] = s[i]
  BY <1>1, <1>4, <1>6
<1>9. \A i \in 1..Len(calls') : i \in 1..Len(calls) \/ i = Len(calls) + 1
  BY <1>2, <1>8
<1>10. 1..Len(calls) \subseteq 1..Len(calls') /\ Len(calls) + 1 \in 1..Len(calls')
  BY <1>2, <1>8
<1>11. Forms!AccountFormsTypeOK'
  <2>1. isSaving' \in BOOLEAN
    BY <1>1
  <2>2. FormTyped'
    BY <1>1, <2>1 DEF FormsInv, Forms!AccountFormsTypeOK, FormTyped
  <2>3. calls' \in Seq(Forms!Call("name") \cup Forms!Call("password"))
    BY <1>8, RequestsTyped
  <2>4. Len(calls') <= MaxCalls
    BY <1>1, <1>2, <1>8 DEF FormsAssumption
  <2> QED BY <2>2, <2>3, <2>4 DEF Forms!AccountFormsTypeOK, FormTyped
<1>12. \A i \in 1..Len(calls) : ~calls[i].mine
  BY <1>1 DEF FormsInv, WaitsForOne
<1>13. WaitsForOne'
  <2>1. \A i \in 1..Len(calls') : calls'[i].mine => i = Len(calls) + 1
    BY <1>7, <1>8, <1>9, <1>12
  <2>2. isSaving' /\ calls'[Len(calls) + 1].mine /\ calls'[Len(calls) + 1].heard
    BY <1>1, <1>4, <1>8
  <2> QED BY <1>10, <2>1, <2>2 DEF WaitsForOne
<1>14. AloneIsOnly'
  <2> SUFFICES ASSUME NEW i \in 1..Len(calls'), calls'[i].alone
               PROVE  /\ \A j \in 1..Len(calls') : calls'[j].kind = calls'[i].kind => i = j
                      /\ calls'[i].phase = "stored" => stored[calls'[i].kind] = calls'[i].new
    BY <1>1 DEF AloneIsOnly
  <2>1. CASE i = Len(calls) + 1
    <3>1. calls'[i].kind = k /\ calls'[i].phase = "sent" /\ c.alone
      BY <1>4, <1>8, <2>1
    <3>2. \A j \in 1..Len(calls) : calls'[j].kind # k
      BY <1>5, <1>7, <1>8, <3>1
    <3> QED BY <1>9, <2>1, <3>1, <3>2
  <2>2. CASE i \in 1..Len(calls)
    <3>1. calls[i].alone /\ calls[i].kind # k /\ calls'[i] = s[i]
      BY <1>7, <1>8, <2>2
    <3>2. calls'[Len(calls) + 1].kind = k
      BY <1>4, <1>8
    <3> QED BY <1>7, <1>8, <1>9, <2>2, <3>1, <3>2 DEF FormsInv, AloneIsOnly
  <2> QED BY <1>9, <2>1, <2>2
<1>15. SettledIsTold'
  <2> SUFFICES ASSUME NEW m \in settled
               PROVE  /\ \A i \in 1..Len(calls') : calls'[i].kind = m => calls'[i].heard
                      /\ \/ stored[m] = known[m]
                         \/ \E i \in 1..Len(calls') :
                               calls'[i].kind = m /\ calls'[i].phase = "stored"
    BY <1>1 DEF SettledIsTold
  <2>1. /\ \A i \in 1..Len(calls) : calls[i].kind = m => calls[i].heard
        /\ \/ stored[m] = known[m]
           \/ \E i \in 1..Len(calls) : calls[i].kind = m /\ calls[i].phase = "stored"
    BY DEF FormsInv, SettledIsTold
  <2>2. \A i \in 1..Len(calls') : calls'[i].kind = m => calls'[i].heard
    BY <1>4, <1>7, <1>8, <1>9, <2>1
  <2>3. ASSUME NEW i \in 1..Len(calls), calls[i].kind = m, calls[i].phase = "stored"
        PROVE  calls'[i].kind = m /\ calls'[i].phase = "stored"
    BY <1>7, <1>8, <2>3
  <2> QED BY <1>10, <2>1, <2>2, <2>3
<1>16. Forms!DirtyIsEdited'
  BY <1>1 DEF FormsInv, Forms!DirtyIsEdited
<1> QED BY <1>1, <1>8, <1>11, <1>13, <1>14, <1>15, <1>16 DEF FormsInv

-------------------------------------------------------------------------------
(* What the service does with one request: its phase goes on, and when it  *)
(* is stored its column has its value.                                     *)
LEMMA ServiceKeeps ==
  ASSUME FormsInv, NEW i \in 1..Len(calls),
         Forms!UpdateProfile(i) \/ Forms!ComparePassword(i) \/ Forms!StorePassword(i)
  PROVE  FormsInv'
<1>1. calls \in Seq(Saves) /\ Len(calls) \in Nat /\ calls[i] \in Saves
  BY DEF FormsInv
<1>2. UNCHANGED <<known, open, text, isSaving, message, edited, settled>>
  BY DEF Forms!UpdateProfile, Forms!ComparePassword, Forms!StorePassword, Forms!form
<1>3. PICK p \in {"compared", "stored", "refused"} :
        /\ calls' = [calls EXCEPT ![i].phase = p]
        /\ calls[i].phase # "stored"
        /\ calls[i].kind = "name" => p # "compared"
        /\ calls[i].kind = "name" /\ p = "stored" => calls[i].new \in Name
        /\ p = "stored" => stored' = [stored EXCEPT ![calls[i].kind] = calls[i].new]
        /\ p # "stored" => stored' = stored
  <2>1. CASE Forms!UpdateProfile(i)
    <3>1. calls[i].kind = "name" /\ calls[i].phase = "sent" /\ calls[i].new \in Forms!Input
      BY <1>1, <2>1, SaveShape DEF Forms!UpdateProfile
    <3>2. CASE calls[i].new = Forms!Blank
      BY <2>1, <3>1, <3>2 DEF Forms!UpdateProfile, Forms!Becomes
    <3>3. CASE calls[i].new # Forms!Blank
      <4>1. calls[i].new \in Name
        BY <3>1, <3>3 DEF Forms!Input
      <4> QED BY <2>1, <3>1, <3>3, <4>1 DEF Forms!UpdateProfile, Forms!Becomes
    <3> QED BY <3>2, <3>3
  <2>2. CASE Forms!ComparePassword(i)
    BY <2>2 DEF Forms!ComparePassword, Forms!Becomes
  <2>3. CASE Forms!StorePassword(i)
    <3>1. calls[i].kind = "password"
      BY <1>1, <2>3, SaveShape DEF Forms!StorePassword, Forms!Kind
    <3> QED BY <2>3, <3>1 DEF Forms!StorePassword, Forms!Becomes
  <2> QED BY <2>1, <2>2, <2>3
<1> DEFINE d == [calls[i] EXCEPT !.phase = p]
<1>4. /\ d \in Saves /\ d.kind = calls[i].kind /\ d.new = calls[i].new /\ d.phase = p
      /\ (d.heard <=> calls[i].heard) /\ (d.mine <=> calls[i].mine)
      /\ (d.alone <=> calls[i].alone)
  BY <1>1, <1>3, Further
<1>5. calls' = [calls EXCEPT ![i] = d]
  BY <1>3
<1> HIDE DEF d
<1>6. /\ calls' \in Seq(Saves) /\ Len(calls') = Len(calls)
      /\ \A j \in 1..Len(calls) : calls'[j] = IF j = i THEN d ELSE calls[j]
  BY <1>1, <1>4, <1>5, OneSaveMoved
<1>7. \A j \in 1..Len(calls) :
        /\ calls'[j].kind = calls[j].kind /\ calls'[j].new = calls[j].new
        /\ (calls'[j].heard <=> calls[j].heard) /\ (calls'[j].mine <=> calls[j].mine)
        /\ (calls'[j].alone <=> calls[j].alone)
        /\ j # i => calls'[j].phase = calls[j].phase
  BY <1>4, <1>6
<1>8. calls'[i].phase = p /\ calls[i].kind \in Forms!Kind
  BY <1>1, <1>4, <1>6, SaveShape
<1>9. /\ stored' \in Columns
      /\ p = "stored" => stored'[calls[i].kind] = calls[i].new
      /\ \A k \in Forms!Kind : k # calls[i].kind \/ p # "stored" => stored'[k] = stored[k]
      /\ \A k \in Forms!Kind : stored'[k] \in Forms!Values(k)
  <2>1. stored \in Columns /\ \A k \in Forms!Kind : stored[k] \in Forms!Values(k)
    BY DEF FormsInv, Forms!AccountFormsTypeOK
  <2>2. CASE p = "stored"
    <3>1. calls[i].new \in Forms!Values(calls[i].kind)
      BY <1>1, <1>3, <1>8, <2>2, SaveShape DEF Forms!Values, Forms!Kind
    <3>2. calls[i].new \in Name \cup Phrase
      BY <3>1 DEF Forms!Values
    <3>3. stored' = [stored EXCEPT ![calls[i].kind] = calls[i].new]
      BY <1>3, <2>2
    <3> QED BY <1>8, <2>1, <2>2, <3>1, <3>2, <3>3 DEF Columns
  <2>3. CASE p # "stored"
    BY <1>3, <2>1, <2>3
  <2> QED BY <2>2, <2>3
<1>10. Forms!AccountFormsTypeOK'
  <2>1. FormTyped'
    BY <1>2, <1>9 DEF FormsInv, Forms!AccountFormsTypeOK, FormTyped
  <2>2. calls' \in Seq(Forms!Call("name") \cup Forms!Call("password"))
    BY <1>6, RequestsTyped
  <2>3. Len(calls') <= MaxCalls
    BY <1>6 DEF FormsInv, Forms!AccountFormsTypeOK
  <2> QED BY <2>1, <2>2, <2>3 DEF Forms!AccountFormsTypeOK, FormTyped
<1>11. WaitsForOne'
  BY <1>2, <1>6, <1>7 DEF FormsInv, WaitsForOne
<1>12. AloneIsOnly'
  <2> SUFFICES ASSUME NEW j \in 1..Len(calls), calls'[j].alone
               PROVE  /\ \A m \in 1..Len(calls) : calls'[m].kind = calls'[j].kind => j = m
                      /\ calls'[j].phase = "stored" => stored'[calls'[j].kind] = calls'[j].new
    BY <1>6 DEF AloneIsOnly
  <2>1. /\ \A m \in 1..Len(calls) : calls[m].kind = calls[j].kind => j = m
        /\ calls[j].phase = "stored" => stored[calls[j].kind] = calls[j].new
    BY <1>7 DEF FormsInv, AloneIsOnly
  <2>2. CASE j = i
    BY <1>7, <1>8, <1>9, <2>1, <2>2
  <2>3. CASE j # i
    <3>1. calls[j].kind # calls[i].kind /\ calls[j].kind \in Forms!Kind
      <4>1. calls[j] \in Saves
        BY <1>1
      <4> QED BY <2>1, <2>3, <4>1, SaveShape
    <3> QED BY <1>7, <1>9, <2>1, <2>3, <3>1
  <2> QED BY <2>2, <2>3
<1>13. SettledIsTold'
  <2> SUFFICES ASSUME NEW k \in settled
               PROVE  /\ \A j \in 1..Len(calls) : calls'[j].kind = k => calls'[j].heard
                      /\ \/ stored'[k] = known[k]
                         \/ \E j \in 1..Len(calls) :
                               calls'[j].kind = k /\ calls'[j].phase = "stored"
    BY <1>2, <1>6 DEF SettledIsTold
  <2>1. /\ \A j \in 1..Len(calls) : calls[j].kind = k => calls[j].heard
        /\ \/ stored[k] = known[k]
           \/ \E j \in 1..Len(calls) : calls[j].kind = k /\ calls[j].phase = "stored"
    BY DEF FormsInv, SettledIsTold
  <2>2. \A j \in 1..Len(calls) : calls'[j].kind = k => calls'[j].heard
    BY <1>7, <2>1
  <2>3. CASE p = "stored" /\ calls[i].kind = k
    BY <1>7, <1>8, <2>2, <2>3
  <2>4. CASE p # "stored" \/ calls[i].kind # k
    <3>1. k \in Forms!Kind
      BY DEF FormsInv, Forms!AccountFormsTypeOK
    <3>2. stored'[k] = stored[k]
      BY <1>9, <2>4, <3>1
    <3>3. ASSUME NEW j \in 1..Len(calls), calls[j].kind = k, calls[j].phase = "stored"
          PROVE  calls'[j].kind = k /\ calls'[j].phase = "stored"
      BY <1>3, <1>7, <3>3
    <3> QED BY <2>1, <2>2, <3>2, <3>3
  <2> QED BY <2>3, <2>4
<1>14. Forms!DirtyIsEdited'
  BY <1>2 DEF FormsInv, Forms!DirtyIsEdited
<1> QED BY <1>2, <1>6, <1>9, <1>10, <1>11, <1>12, <1>13, <1>14 DEF FormsInv

(* The answer to a save, when it gets through. *)
LEMMA SucceedKeeps ==
  ASSUME FormsAssumption, FormsInv, NEW i \in 1..Len(calls), Forms!Succeed(i)
  PROVE  FormsInv'
<1> DEFINE c == calls[i]
<1>1. calls \in Seq(Saves) /\ Len(calls) \in Nat /\ c \in Saves
  BY DEF FormsInv
<1>2. /\ c.phase = "stored" /\ c.heard
      /\ known' = [known EXCEPT ![c.kind] = c.new]
      /\ calls' = Forms!RemoveAt(calls, i)
      /\ UNCHANGED <<stored, open>>
  BY DEF Forms!Succeed
<1>3. isSaving' = (isSaving /\ ~c.mine)
  BY DEF Forms!Succeed
<1>4. settled' = IF c.alone THEN settled \cup {c.kind} ELSE settled \ {c.kind}
  BY DEF Forms!Succeed
<1>5. IF c.kind = "name" THEN text' = Forms!Sanitized(c.new) /\ edited' = FALSE
      ELSE text' = text /\ edited' = edited
  BY DEF Forms!Succeed
<1>6. message' \in {"none", "success", "error"}
  BY DEF Forms!Succeed, FormsInv, Forms!AccountFormsTypeOK
<1>7. /\ c.kind \in Forms!Kind /\ c.new \in Forms!Values(c.kind)
      /\ c.kind = "name" => c.new \in Name
  BY <1>1, <1>2, SaveShape DEF Forms!Values, Forms!Kind
<1> HIDE DEF c
<1>8. /\ calls' \in Seq(Saves) /\ Len(calls') = Len(calls) - 1
      /\ \A j \in 1..Len(calls') : \E k \in 1..Len(calls) \ {i} :
            calls'[j] = calls[k] /\ k = IF j < i THEN j ELSE j + 1
      /\ \A k \in 1..Len(calls) \ {i} : \E j \in 1..Len(calls') : calls'[j] = calls[k]
  BY <1>1, <1>2, OtherSavesLeft
<1>9. /\ known' \in Columns /\ known'[c.kind] = c.new
      /\ \A k \in Forms!Kind : k # c.kind => known'[k] = known[k]
      /\ \A k \in Forms!Kind : known'[k] \in Forms!Values(k)
  <2>1. known \in Columns /\ \A k \in Forms!Kind : known[k] \in Forms!Values(k)
    BY DEF FormsInv, Forms!AccountFormsTypeOK
  <2>2. c.new \in Name \cup Phrase
    BY <1>7 DEF Forms!Values
  <2> QED BY <1>2, <1>7, <2>1, <2>2 DEF Columns
<1>10. Forms!AccountFormsTypeOK'
  <2>1. isSaving' \in BOOLEAN
    BY <1>3
  <2>2. edited' \in BOOLEAN
    BY <1>5 DEF FormsInv, Forms!AccountFormsTypeOK
  <2>3. text' \in Forms!Input
    BY <1>5, <1>7, SanitizedTyped DEF FormsInv, Forms!AccountFormsTypeOK
  <2>4. settled' \subseteq Forms!Kind
    BY <1>4, <1>7 DEF FormsInv, Forms!AccountFormsTypeOK
  <2>5. FormTyped'
    BY <1>2, <1>6, <1>9, <2>1, <2>2, <2>3, <2>4 DEF FormsInv, Forms!AccountFormsTypeOK, FormTyped
  <2>6. calls' \in Seq(Forms!Call("name") \cup Forms!Call("password"))
    BY <1>8, RequestsTyped
  <2>7. Len(calls') <= MaxCalls
    BY <1>1, <1>8 DEF FormsInv, Forms!AccountFormsTypeOK, FormsAssumption
  <2> QED BY <2>5, <2>6, <2>7 DEF Forms!AccountFormsTypeOK, FormTyped
<1>11. WaitsForOne'
  BY <1>3, <1>8, GoneWaits DEF c, FormsInv
<1>12. AloneIsOnly'
  BY <1>2, <1>8, GoneAlone DEF FormsInv
<1>13. SettledIsTold'
  <2> SUFFICES ASSUME NEW k \in settled'
               PROVE  /\ \A j \in 1..Len(calls') : calls'[j].kind = k => calls'[j].heard
                      /\ \/ stored[k] = known'[k]
                         \/ \E j \in 1..Len(calls') :
                               calls'[j].kind = k /\ calls'[j].phase = "stored"
    BY <1>2 DEF SettledIsTold
  <2>1. CASE k = c.kind
    <3>1. c.alone
      BY <1>4, <2>1
    <3>2. /\ \A j \in 1..Len(calls) : calls[j].kind = c.kind => i = j
          /\ stored[c.kind] = c.new
      BY <1>2, <3>1 DEF c, FormsInv, AloneIsOnly
    <3>3. \A j \in 1..Len(calls') : calls'[j].kind # k
      BY <1>8, <2>1, <3>2
    <3> QED BY <1>9, <2>1, <3>2, <3>3
  <2>2. CASE k # c.kind
    <3>1. k \in settled /\ k \in Forms!Kind
      BY <1>4, <1>10, <2>2 DEF Forms!AccountFormsTypeOK
    <3>2. /\ \A j \in 1..Len(calls) : calls[j].kind = k => calls[j].heard
          /\ \/ stored[k] = known[k]
             \/ \E j \in 1..Len(calls) : calls[j].kind = k /\ calls[j].phase = "stored"
      BY <3>1 DEF FormsInv, SettledIsTold
    <3>3. \A j \in 1..Len(calls') : calls'[j].kind = k => calls'[j].heard
      BY <1>8, <3>2
    <3>4. known'[k] = known[k]
      BY <1>9, <2>2, <3>1
    <3>5. ASSUME NEW j \in 1..Len(calls), calls[j].kind = k, calls[j].phase = "stored"
          PROVE  \E m \in 1..Len(calls') : calls'[m].kind = k /\ calls'[m].phase = "stored"
      <4>1. j # i
        BY <2>2, <3>5 DEF c
      <4> QED BY <1>8, <3>5, <4>1
    <3> QED BY <3>2, <3>3, <3>4, <3>5
  <2> QED BY <2>1, <2>2
<1>14. Forms!DirtyIsEdited'
  <2>1. CASE c.kind = "name"
    <3>1. known'["name"] = c.new /\ text' = Forms!Sanitized(c.new)
      BY <1>5, <1>9, <2>1
    <3>2. Forms!Sanitized(known["name"])' = Forms!Sanitized(c.new)
      BY <3>1 DEF Forms!Sanitized
    <3> QED BY <3>1, <3>2 DEF Forms!DirtyIsEdited
  <2>2. CASE c.kind # "name"
    <3>1. known'["name"] = known["name"]
      BY <1>9, <2>2 DEF Forms!Kind
    <3>2. Forms!Sanitized(known["name"])' = Forms!Sanitized(known["name"])
      BY <3>1 DEF Forms!Sanitized
    <3> QED BY <1>2, <1>5, <2>2, <3>2 DEF FormsInv, Forms!DirtyIsEdited
  <2> QED BY <2>1, <2>2
<1> QED BY <1>2, <1>8, <1>9, <1>10, <1>11, <1>12, <1>13, <1>14 DEF FormsInv

(* An answer that does not get through, and one that nobody waits for.     *)
LEMMA EndingKeeps ==
  ASSUME FormsAssumption, FormsInv, NEW i \in 1..Len(calls),
         Forms!Refused(i) \/ Forms!Drop(i)
  PROVE  FormsInv'
<1> DEFINE c == calls[i]
<1>1. calls \in Seq(Saves) /\ Len(calls) \in Nat /\ c \in Saves
  BY DEF FormsInv
<1>2. /\ calls' = Forms!RemoveAt(calls, i)
      /\ UNCHANGED <<stored, known, open, text, edited, settled>>
      /\ c.phase = "refused" \/ ~c.heard
  BY DEF Forms!Refused, Forms!Fails, Forms!Drop, Forms!form
<1>3. isSaving' = (isSaving /\ ~c.mine)
  <2>1. CASE Forms!Refused(i)
    BY <2>1 DEF Forms!Refused, Forms!Fails
  <2>2. CASE Forms!Drop(i)
    <3>1. ~c.mine /\ isSaving' = isSaving
      BY <2>2 DEF Forms!Drop, Forms!form, FormsInv, WaitsForOne
    <3>2. isSaving \in BOOLEAN
      BY DEF FormsInv, Forms!AccountFormsTypeOK
    <3> QED BY <3>1, <3>2
  <2> QED BY <2>1, <2>2
<1>4. message' \in {"none", "success", "error"}
  BY DEF Forms!Refused, Forms!Fails, Forms!Drop, Forms!form, FormsInv, Forms!AccountFormsTypeOK
<1> HIDE DEF c
<1>5. /\ calls' \in Seq(Saves) /\ Len(calls') = Len(calls) - 1
      /\ \A j \in 1..Len(calls') : \E k \in 1..Len(calls) \ {i} :
            calls'[j] = calls[k] /\ k = IF j < i THEN j ELSE j + 1
      /\ \A k \in 1..Len(calls) \ {i} : \E j \in 1..Len(calls') : calls'[j] = calls[k]
  BY <1>1, <1>2, OtherSavesLeft
<1>6. Forms!AccountFormsTypeOK'
  <2>1. isSaving' \in BOOLEAN
    BY <1>3
  <2>2. FormTyped'
    BY <1>2, <1>4, <2>1 DEF FormsInv, Forms!AccountFormsTypeOK, FormTyped
  <2>3. calls' \in Seq(Forms!Call("name") \cup Forms!Call("password"))
    BY <1>5, RequestsTyped
  <2>4. Len(calls') <= MaxCalls
    BY <1>1, <1>5 DEF FormsInv, Forms!AccountFormsTypeOK, FormsAssumption
  <2> QED BY <2>2, <2>3, <2>4 DEF Forms!AccountFormsTypeOK, FormTyped
<1>7. WaitsForOne'
  BY <1>3, <1>5, GoneWaits DEF c, FormsInv
<1>8. AloneIsOnly'
  BY <1>2, <1>5, GoneAlone DEF FormsInv
<1>9. SettledIsTold'
  <2> SUFFICES ASSUME NEW k \in settled
               PROVE  /\ \A j \in 1..Len(calls') : calls'[j].kind = k => calls'[j].heard
                      /\ \/ stored[k] = known[k]
                         \/ \E j \in 1..Len(calls') :
                               calls'[j].kind = k /\ calls'[j].phase = "stored"
    BY <1>2 DEF SettledIsTold
  <2>1. /\ \A j \in 1..Len(calls) : calls[j].kind = k => calls[j].heard
        /\ \/ stored[k] = known[k]
           \/ \E j \in 1..Len(calls) : calls[j].kind = k /\ calls[j].phase = "stored"
    BY DEF FormsInv, SettledIsTold
  <2>2. \A j \in 1..Len(calls') : calls'[j].kind = k => calls'[j].heard
    BY <1>5, <2>1
  <2>3. ASSUME NEW j \in 1..Len(calls), calls[j].kind = k, calls[j].phase = "stored"
        PROVE  \E m \in 1..Len(calls') : calls'[m].kind = k /\ calls'[m].phase = "stored"
    <3>1. j # i
      BY <1>2, <2>1, <2>3 DEF c
    <3> QED BY <1>5, <2>3, <3>1
  <2> QED BY <2>1, <2>2, <2>3
<1>10. Forms!DirtyIsEdited'
  BY <1>2 DEF FormsInv, Forms!DirtyIsEdited
<1> QED BY <1>2, <1>5, <1>6, <1>7, <1>8, <1>9, <1>10 DEF FormsInv

(* The connection of a form breaks.                                        *)
LEMMA LoseKeeps ==
  ASSUME FormsInv, NEW i \in 1..Len(calls), Forms!Lose(i)
  PROVE  FormsInv'
<1> DEFINE d == [calls[i] EXCEPT !.heard = FALSE, !.mine = FALSE]
<1>1. calls \in Seq(Saves) /\ Len(calls) \in Nat /\ calls[i] \in Saves
  BY DEF FormsInv
<1>2. /\ UNCHANGED <<stored, known, open, text, edited>>
      /\ calls' = [calls EXCEPT ![i].heard = FALSE, ![i].mine = FALSE]
      /\ settled' = settled \ {calls[i].kind}
  BY DEF Forms!Lose, Forms!Fails
<1>3. isSaving' = (isSaving /\ ~calls[i].mine)
  BY DEF Forms!Lose, Forms!Fails
<1>4. message' \in {"none", "success", "error"}
  BY DEF Forms!Lose, Forms!Fails, FormsInv, Forms!AccountFormsTypeOK
<1>5. /\ d \in Saves /\ d.kind = calls[i].kind /\ d.new = calls[i].new
      /\ d.phase = calls[i].phase /\ (d.alone <=> calls[i].alone) /\ ~d.mine
  BY <1>1, Lost
<1>6. calls' = [calls EXCEPT ![i] = d]
  BY <1>1, <1>2
<1> HIDE DEF d
<1>7. /\ calls' \in Seq(Saves) /\ Len(calls') = Len(calls)
      /\ \A j \in 1..Len(calls) : calls'[j] = IF j = i THEN d ELSE calls[j]
  BY <1>1, <1>5, <1>6, OneSaveMoved
<1>8. \A j \in 1..Len(calls) :
        /\ calls'[j].kind = calls[j].kind /\ calls'[j].new = calls[j].new
        /\ calls'[j].phase = calls[j].phase /\ (calls'[j].alone <=> calls[j].alone)
  BY <1>5, <1>7
<1>9. /\ ~calls'[i].mine
      /\ \A j \in 1..Len(calls) : j # i => calls'[j] = calls[j]
  BY <1>5, <1>7
<1>10. Forms!AccountFormsTypeOK'
  <2>1. isSaving' \in BOOLEAN
    BY <1>3
  <2>2. FormTyped'
    BY <1>2, <1>4, <2>1 DEF FormsInv, Forms!AccountFormsTypeOK, FormTyped
  <2>3. calls' \in Seq(Forms!Call("name") \cup Forms!Call("password"))
    BY <1>7, RequestsTyped
  <2>4. Len(calls') <= MaxCalls
    BY <1>7 DEF FormsInv, Forms!AccountFormsTypeOK
  <2> QED BY <2>2, <2>3, <2>4 DEF Forms!AccountFormsTypeOK, FormTyped
<1>11. WaitsForOne'
  <2>1. \A j \in 1..Len(calls) : calls'[j].mine => j # i /\ calls[j].mine /\ calls'[j] = calls[j]
    BY <1>9
  <2>2. WaitsForOne
    BY DEF FormsInv
  <2>3. \A j, m \in 1..Len(calls) : calls'[j].mine /\ calls'[m].mine => j = m
    BY <2>1, <2>2 DEF WaitsForOne
  <2>4. \A j \in 1..Len(calls) : calls'[j].mine => calls'[j].heard
    BY <2>1, <2>2 DEF WaitsForOne
  <2>5. isSaving' => \E j \in 1..Len(calls) : calls'[j].mine
    <3> SUFFICES ASSUME isSaving' PROVE \E j \in 1..Len(calls) : calls'[j].mine
      OBVIOUS
    <3>1. PICK j \in 1..Len(calls) : calls[j].mine
      BY <1>3, <2>2 DEF WaitsForOne
    <3>2. j # i
      BY <1>3, <3>1
    <3> QED BY <1>9, <3>1, <3>2
  <2>6. (\E j \in 1..Len(calls) : calls'[j].mine) => isSaving'
    <3> SUFFICES ASSUME NEW j \in 1..Len(calls), calls'[j].mine PROVE isSaving'
      OBVIOUS
    <3>1. j # i /\ calls[j].mine /\ isSaving
      BY <2>1, <2>2 DEF WaitsForOne
    <3>2. ~calls[i].mine
      BY <2>2, <3>1 DEF WaitsForOne
    <3> QED BY <1>3, <3>1, <3>2
  <2>7. isSaving' <=> \E j \in 1..Len(calls) : calls'[j].mine
    BY <2>5, <2>6
  <2> QED BY <1>7, <2>3, <2>4, <2>7 DEF WaitsForOne
<1>12. AloneIsOnly'
  BY <1>2, <1>7, <1>8 DEF FormsInv, AloneIsOnly
<1>13. SettledIsTold'
  <2> SUFFICES ASSUME NEW k \in settled, k # calls[i].kind
               PROVE  /\ \A j \in 1..Len(calls) : calls'[j].kind = k => calls'[j].heard
                      /\ \/ stored[k] = known[k]
                         \/ \E j \in 1..Len(calls) :
                               calls'[j].kind = k /\ calls'[j].phase = "stored"
    BY <1>2, <1>7 DEF SettledIsTold
  <2>1. /\ \A j \in 1..Len(calls) : calls[j].kind = k => calls[j].heard
        /\ \/ stored[k] = known[k]
           \/ \E j \in 1..Len(calls) : calls[j].kind = k /\ calls[j].phase = "stored"
    BY DEF FormsInv, SettledIsTold
  <2>2. ASSUME NEW j \in 1..Len(calls), calls'[j].kind = k PROVE calls'[j].heard
    <3>1. j # i /\ calls[j].kind = k
      BY <1>8, <2>2
    <3> QED BY <1>9, <2>1, <3>1
  <2> QED BY <1>8, <2>1, <2>2
<1>14. Forms!DirtyIsEdited'
  BY <1>2 DEF FormsInv, Forms!DirtyIsEdited
<1> QED BY <1>2, <1>7, <1>10, <1>11, <1>12, <1>13, <1>14 DEF FormsInv

LEMMA FormsNext ==
  ASSUME FormsAssumption, FormsInv, [Forms!Next]_(Forms!vars) PROVE FormsInv'
<1>1. CASE UNCHANGED Forms!vars
  <2>1. /\ UNCHANGED <<stored, known, open, text, message, calls, edited, settled>>
        /\ isSaving' = isSaving
    BY <1>1 DEF Forms!vars
  <2>2. Forms!AccountFormsTypeOK' /\ Forms!DirtyIsEdited'
    BY <2>1 DEF FormsInv, Forms!AccountFormsTypeOK, Forms!DirtyIsEdited
  <2>3. (WaitsForOne /\ AloneIsOnly /\ SettledIsTold)'
    BY <2>1 DEF FormsInv, WaitsForOne, AloneIsOnly, SettledIsTold
  <2> QED BY <2>1, <2>2, <2>3 DEF FormsInv
<1>2. CASE Forms!Next
  <2>0. DOMAIN calls = 1..Len(calls)
    BY DEF FormsInv
  <2>1. CASE \E o \in Forms!Kind \cup {"none"} : Forms!SetActiveTab(o)
    BY <2>1, TabKeeps
  <2>2. CASE \E n \in Forms!Input : Forms!SetName(n)
    BY <2>2, PageKeeps
  <2>3. CASE Forms!HandleDiscard \/ Forms!Mismatch
    BY <2>3, PageKeeps
  <2>4. CASE Forms!SaveName
    <3>1. Forms!Send("name", known["name"], text)
      BY <2>4 DEF Forms!SaveName
    <3>2. known["name"] \in Forms!Values("name") /\ text \in Forms!Input /\ "name" \in Forms!Kind
      BY KnownName DEF FormsInv, Forms!AccountFormsTypeOK, Forms!Values, Forms!Kind
    <3> QED BY <3>1, <3>2, SendKeeps
  <2>5. CASE \E old, new \in Phrase : Forms!SavePassword(old, new)
    <3>1. PICK old \in Phrase, new \in Phrase : Forms!Send("password", old, new)
      BY <2>5 DEF Forms!SavePassword
    <3>2. old \in Forms!Values("password") /\ "password" \in Forms!Kind
      BY DEF Forms!Values, Forms!Kind
    <3> QED BY <3>1, <3>2, SendKeeps
  <2>6. ASSUME NEW i \in 1..Len(calls),
               Forms!UpdateProfile(i) \/ Forms!ComparePassword(i) \/ Forms!StorePassword(i)
        PROVE  FormsInv'
    BY <2>6, ServiceKeeps
  <2>7. ASSUME NEW i \in 1..Len(calls), Forms!Succeed(i) PROVE FormsInv'
    BY <2>7, SucceedKeeps
  <2>8. ASSUME NEW i \in 1..Len(calls), Forms!Refused(i) \/ Forms!Drop(i) PROVE FormsInv'
    BY <2>8, EndingKeeps
  <2>9. ASSUME NEW i \in 1..Len(calls), Forms!Lose(i) PROVE FormsInv'
    BY <2>9, LoseKeeps
  <2> QED BY <1>2, <2>0, <2>1, <2>2, <2>3, <2>4, <2>5, <2>6, <2>7, <2>8, <2>9 DEF Forms!Next
<1> QED BY <1>1, <1>2

LEMMA FormsShown ==
  ASSUME FormsInv
  PROVE  Forms!SavedIsKnown /\ Forms!ButtonComesBack /\ Forms!DirtyIsEdited
<1>1. DOMAIN calls = 1..Len(calls)
  BY DEF FormsInv
<1>2. Forms!SavedIsKnown
  <2> SUFFICES ASSUME NEW k \in settled, Forms!Of(k) = {} PROVE stored[k] = known[k]
    BY DEF Forms!SavedIsKnown
  <2>1. \A i \in 1..Len(calls) : calls[i].kind # k
    BY <1>1 DEF Forms!Of
  <2> QED BY <2>1 DEF FormsInv, SettledIsTold
<1>3. Forms!ButtonComesBack
  BY <1>1 DEF FormsInv, WaitsForOne, Forms!ButtonComesBack
<1> QED BY <1>2, <1>3 DEF FormsInv

(* A user's own name and password: what the page knows is what is stored   *)
(* unless a save crossed another or was lost, the open form waits for one  *)
(* request of its own, and nobody is told of changes that he did not make  *)
(* (profile-settings.tsx, security-settings.tsx, settings.service.ts).     *)
THEOREM OwnFormsKnow ==
  ASSUME FormsAssumption
  PROVE  Forms!Spec => [](Forms!SavedIsKnown /\ Forms!ButtonComesBack /\ Forms!DirtyIsEdited)
  BY FormsInit, FormsNext, FormsShown, PTL DEF Forms!Spec

-------------------------------------------------------------------------------
(* UsersPage.  A request is a fetch or asks for a change of one account.   *)
Fetches ==
    [op : {"fetch"}, phase : {"sent", "done", "failed"},
     got : [Users!Id -> Users!Fields \cup {Users!None}], alone : BOOLEAN]
Changes ==
    [op : Users!FormOp \cup {"toggle"}, phase : {"sent", "role", "done", "failed"},
     id : Users!Id, form : Users!Fields \cup {Users!None}]

Asks(s) == asking[s] \in Changes

(* The two cards that an account may have. *)
Row(e) == <<e, "row">>
Own(e) == <<e, "local">>

(* The accounts that a list holds. *)
Fresh == {e \in Contact : Users!Newest(e)}

(* Rows are never deleted, so that what shows or asks for one has one. *)
CardsHaveRows ==
    /\ \A e \in Contact : shown[Row(e)] # Users!None => rows[e] # Users!None
    /\ dialog # Users!Closed /\ dialog.op # "create" /\ dialog.id[2] = "row" =>
          rows[dialog.id[1]] # Users!None
    /\ \A s \in Slot : asking[s] \in Fetches =>
          \A e \in Contact : asking[s].got[Row(e)] # Users!None => rows[e] # Users!None
    /\ \A s \in Slot : asking[s].op = "create" /\ asking[s].phase \in {"role", "done"} =>
          rows[asking[s].id[1]] # Users!None

(* What the dialogs and the requests for a change hold. *)
Filled(d) ==
    /\ d.op # "delete" => d.form \in Users!Fields
    /\ d.op = "create" => d.form.active = TRUE /\ d.id[2] = "local"

ChangesAreFilled ==
    /\ dialog # Users!Closed => Filled(dialog)
    /\ \A s \in Slot : Asks(s) => Filled(asking[s])
    /\ \A s \in Slot : Asks(s) /\ asking[s].phase = "role" =>
          asking[s].op = "create" /\ asking[s].form.role # "ANALYST"

(* There is one fetch at a time, and one that is alone brings the rows. *)
LoneFetch ==
    /\ \A s, t \in Slot : asking[s] \in Fetches /\ asking[t] \in Fetches => s = t
    /\ \A s \in Slot : asking[s] \in Fetches /\ asking[s].alone =>
          /\ \A t \in Slot : asking[t] # Users!Idle => s = t
          /\ asking[s].phase = "done" =>
                \A e \in Contact :
                   /\ asking[s].got[Own(e)] = Users!None
                   /\ asking[s].got[Row(e)] = rows[e]
                      \/ (asking[s].got[Row(e)] = Users!None /\ e \notin Fresh)

(* An account's cards agree with its row, if it is new enough to be listed. *)
Agreed(new, own, card, held) ==
    /\ own = Users!None
    /\ IF card = Users!None THEN ~(held.active /\ new) ELSE card = held

(* They will when request r has landed; before it is served they do. *)
WillAgree(r, new, own, card, held) ==
    /\ r.phase = "sent" =>
          /\ Agreed(new, own, card, held)
          /\ r.op \in {"edit", "toggle"} /\ r.id[2] = "row" => card # Users!None \/ ~new
    /\ r.phase = "role" =>
          /\ own = Users!None /\ card = Users!None
          /\ held = [role |-> "VIEWER", active |-> TRUE]
    /\ r.phase = "done" =>
          /\ own = Users!None
          /\ r.op # "create" => r.id[2] = "row"
          /\ r.op = "create" =>
                held = [role |-> IF r.form.role = "ANALYST" THEN "VIEWER" ELSE r.form.role,
                       active |-> TRUE]
          /\ r.op \in {"edit", "toggle"} /\ card = Users!None => ~new
          /\ r.op = "edit" /\ card # Users!None => held = r.form
          /\ r.op = "toggle" /\ card # Users!None =>
                held = [role |-> card.role, active |-> r.form.active]
          /\ r.op = "delete" => ~held.active

(* On a clean page no two requests are about one account, and each account *)
(* agrees or will.                                                         *)
CleanWillAgree ==
    clean =>
        /\ \A s \in Slot : asking[s] \notin Fetches
        /\ \A s, t \in Slot : Asks(s) /\ Asks(t) /\ asking[s].id[1] = asking[t].id[1] => s = t
        /\ dialog # Users!Closed /\ dialog.op = "edit" /\ dialog.id[2] = "row" =>
              shown[dialog.id] # Users!None \/ dialog.id[1] \notin Fresh
        /\ \A e \in Contact : (\A s \in Slot : Asks(s) => asking[s].id[1] # e) =>
              Agreed(e \in Fresh, shown[Own(e)], shown[Row(e)], rows[e])
        /\ \A s \in Slot : Asks(s) =>
              WillAgree(asking[s], asking[s].id[1] \in Fresh, shown[Own(asking[s].id[1])],
                        shown[Row(asking[s].id[1])], rows[asking[s].id[1]])

UsersInv ==
    /\ Users!UsersTypeOK
    /\ CardsHaveRows
    /\ ChangesAreFilled
    /\ LoneFetch
    /\ CleanWillAgree

UsersAssumption ==
    /\ "ANALYST" \in Grade /\ "VIEWER" \in Grade /\ "none" \notin Grade
    /\ Contact \cap Stranger = {} /\ FirstUsers \subseteq Seq(Contact \cup Stranger)
    /\ MaxTrouble \in Nat /\ UserLimit \in Nat \ {0}

-------------------------------------------------------------------------------
(* No account is none of them. *)
LEMMA FieldsAreSome == ASSUME UsersAssumption, NEW f \in Users!Fields PROVE f # Users!None
  BY DEF UsersAssumption, Users!Fields, Users!None

LEMMA CardsOf ==
  ASSUME NEW e \in Contact
  PROVE  Row(e) \in Users!Id /\ Own(e) \in Users!Id /\ Row(e) # Own(e)
         /\ Row(e)[1] = e /\ Own(e)[1] = e /\ Row(e)[2] = "row" /\ Own(e)[2] = "local"
  BY DEF Users!Id, Row, Own

(* Every card is one of the two of its account. *)
LEMMA CardIs ==
  ASSUME NEW id \in Users!Id
  PROVE  /\ id[1] \in Contact /\ id[2] \in {"row", "local"}
         /\ id[2] = "row" => id = Row(id[1])
         /\ id[2] = "local" => id = Own(id[1])
  BY DEF Users!Id, Row, Own

LEMMA Typed ==
  ASSUME Users!UsersTypeOK
  PROVE  /\ rows \in [Contact -> Users!Fields \cup {Users!None}] /\ Users!Ordered
         /\ shown \in [Users!Id -> Users!Fields \cup {Users!None}]
         /\ empty \in BOOLEAN /\ clean \in BOOLEAN /\ trouble \in 0..MaxTrouble
         /\ dialog \in Users!Dialogs
         /\ asking \in [Slot -> {Users!Idle} \cup Fetches \cup Changes]
  BY DEF Users!UsersTypeOK, Users!Requests, Fetches, Changes

LEMMA TypedBack ==
  ASSUME rows \in [Contact -> Users!Fields \cup {Users!None}], Users!Ordered,
         shown \in [Users!Id -> Users!Fields \cup {Users!None}],
         empty \in BOOLEAN, clean \in BOOLEAN, trouble \in 0..MaxTrouble,
         dialog \in Users!Dialogs,
         asking \in [Slot -> {Users!Idle} \cup Fetches \cup Changes]
  PROVE  Users!UsersTypeOK
  BY DEF Users!UsersTypeOK, Users!Requests, Fetches, Changes

(* The kinds of a request. *)
LEMMA Kinds ==
  ASSUME Users!UsersTypeOK, NEW s \in Slot
  PROVE  /\ asking[s] = Users!Idle \/ asking[s] \in Fetches \/ Asks(s)
         /\ asking[s] = Users!Idle => asking[s].op = "idle" /\ asking[s] \notin Fetches /\ ~Asks(s)
         /\ asking[s] \in Fetches => asking[s].op = "fetch" /\ asking[s] # Users!Idle /\ ~Asks(s)
         /\ Asks(s) => /\ asking[s].op \in {"create", "edit", "delete", "toggle"}
                       /\ asking[s] # Users!Idle /\ asking[s] \notin Fetches
                       /\ asking[s].id \in Users!Id /\ asking[s].id[1] \in Contact
<1>1. asking[s] \in {Users!Idle} \cup Fetches \cup Changes
  BY Typed
<1>2. asking[s] = Users!Idle => asking[s].op = "idle"
  BY DEF Users!Idle
<1>3. asking[s] \in Fetches => asking[s].op = "fetch"
  BY DEF Fetches
<1>4. asking[s] \in Changes =>
        /\ asking[s].op \in {"create", "edit", "delete", "toggle"}
        /\ asking[s].id \in Users!Id
  BY DEF Changes, Users!FormOp
<1>5. asking[s] \in Changes => asking[s].id[1] \in Contact
  BY <1>4, CardIs
<1> QED BY <1>1, <1>2, <1>3, <1>4, <1>5 DEF Asks

(* The values of Listed. *)
LEMMA ListedRows ==
  ASSUME rows \in [Contact -> Users!Fields \cup {Users!None}]
  PROVE  /\ Users!Listed(rows) \in [Users!Id -> Users!Fields \cup {Users!None}]
         /\ \A e \in Contact : /\ Users!Listed(rows)[Row(e)]
                                     = IF e \in Fresh THEN rows[e] ELSE Users!None
                               /\ Users!Listed(rows)[Own(e)] = Users!None
<1>1. \A id \in Users!Id : (IF id[2] = "row" /\ Users!Newest(id[1]) THEN rows[id[1]] ELSE Users!None)
                              \in Users!Fields \cup {Users!None}
  BY CardIs
<1> QED BY <1>1, CardsOf DEF Users!Listed, Fresh

(* What keeps the rows and their order. *)
LEMMA OrderSame ==
  ASSUME Users!Ordered, UNCHANGED <<rows, order>>
  PROVE  Users!Ordered' /\ Fresh' = Fresh
  BY DEF Users!Ordered, Users!Made, Fresh, Users!Newest

(* Who comes last leaves nobody newer than he was. *)
LEMMA Appended ==
  ASSUME UsersAssumption, Users!Ordered, NEW e \in Contact \cup Stranger,
         order' = Append(order, e)
  PROVE  /\ order' \in Seq(Contact \cup Stranger)
         /\ \A a \in Contact : Users!Made(a)' <=> (a = e \/ Users!Made(a))
         /\ \A a \in Contact : a # e /\ a \in Fresh' => a \in Fresh
<1>1. order \in Seq(Contact \cup Stranger)
  BY DEF Users!Ordered
<1>2. /\ order' \in Seq(Contact \cup Stranger)
      /\ Len(order) \in Nat /\ Len(order') = Len(order) + 1 /\ order'[Len(order) + 1] = e
      /\ \A i \in 1..Len(order) : order'[i] = order[i]
  BY <1>1
<1>3. \A a \in Contact : Users!Made(a)' <=> (a = e \/ Users!Made(a))
  BY <1>2 DEF Users!Made
<1>4. ASSUME NEW a \in Contact, a # e, a \in Fresh' PROVE a \in Fresh
  <2>1. PICK i \in 1..Len(order') : order'[i] = a /\ Len(order') < i + UserLimit
    BY <1>4 DEF Fresh, Users!Newest
  <2>2. i \in 1..Len(order) /\ order[i] = a
    BY <1>2, <1>4, <2>1
  <2>3. Len(order) < i + UserLimit
    BY <1>2, <2>1, <2>2 DEF UsersAssumption
  <2> QED BY <2>2, <2>3 DEF Fresh, Users!Newest
<1> QED BY <1>2, <1>3, <1>4

(* A row is written, and gets a place if it is new. *)
LEMMA OrderGrows ==
  ASSUME UsersAssumption, Users!UsersTypeOK, NEW e \in Contact,
         NEW w, w # Users!None, rows' = [rows EXCEPT ![e] = w],
         order' = IF rows[e] = Users!None THEN Append(order, e) ELSE order
  PROVE  /\ Users!Ordered'
         /\ \A a \in Contact : a # e \/ rows[e] # Users!None => (a \in Fresh' => a \in Fresh)
<1>1. /\ Users!Ordered /\ rows'[e] = w
      /\ \A a \in Contact : a # e => rows'[a] = rows[a]
  BY DEF Users!UsersTypeOK
<1>2. CASE rows[e] = Users!None
  <2>1. order' = Append(order, e)
    BY <1>2
  <2>2. Users!Ordered'
    BY <1>1, <2>1, Appended DEF Users!Ordered
  <2> QED BY <1>1, <1>2, <2>1, <2>2, Appended
<1>3. CASE rows[e] # Users!None
  <2>1. order' = order
    BY <1>3
  <2>2. Fresh' = Fresh /\ \A a \in Contact : Users!Made(a)' <=> Users!Made(a)
    BY <2>1 DEF Fresh, Users!Newest, Users!Made
  <2>3. \A a \in Contact : rows'[a] # Users!None <=> rows[a] # Users!None
    BY <1>1, <1>3
  <2>4. Users!Ordered'
    BY <1>1, <2>1, <2>2, <2>3 DEF Users!Ordered
  <2> QED BY <2>2, <2>4
<1> QED BY <1>2, <1>3

LEMMA UsersInit == ASSUME UsersAssumption PROVE Users!Init => UsersInv
<1> SUFFICES ASSUME Users!Init PROVE UsersInv
  OBVIOUS
<1>1. rows \in [Contact -> Users!Fields \cup {Users!None}]
  <2>1. TRUE \in BOOLEAN
    OBVIOUS
  <2>2. [role |-> "ANALYST", active |-> TRUE] \in Users!Fields
    BY <2>1 DEF UsersAssumption, Users!Fields
  <2>3. rows = [e \in Contact |-> IF Users!Made(e) THEN [role |-> "ANALYST", active |-> TRUE]
                                   ELSE Users!None]
    BY DEF Users!Init
  <2> QED BY <2>2, <2>3
<1>2. /\ shown = Users!Nobody /\ dialog = Users!Closed /\ asking = [s \in Slot |-> Users!Idle]
      /\ trouble = 0
  BY DEF Users!Init
<1>3. empty \in BOOLEAN /\ clean \in BOOLEAN /\ Users!Ordered
  <2>1. order \in Seq(Contact \cup Stranger)
    BY DEF Users!Init, UsersAssumption
  <2>2. \A e \in Contact : rows[e] # Users!None <=> Users!Made(e)
    BY DEF Users!Init, Users!None
  <2> QED BY <2>1, <2>2 DEF Users!Init, Users!Ordered
<1>4. Users!UsersTypeOK
  <2>1. shown \in [Users!Id -> Users!Fields \cup {Users!None}]
    BY <1>2 DEF Users!Nobody
  <2>2. asking \in [Slot -> {Users!Idle} \cup Fetches \cup Changes] /\ dialog \in Users!Dialogs
    BY <1>2 DEF Users!Dialogs
  <2>3. trouble \in 0..MaxTrouble
    BY <1>2 DEF UsersAssumption
  <2> QED BY <1>1, <1>3, <2>1, <2>2, <2>3, TypedBack
<1>5. \A s \in Slot : asking[s] = Users!Idle
  BY <1>2
<1>6. CardsHaveRows
  <2>1. \A e \in Contact : shown[Row(e)] = Users!None
    BY <1>2, CardsOf DEF Users!Nobody
  <2> QED BY <1>2, <1>4, <1>5, <2>1, Kinds DEF CardsHaveRows
<1>7. ChangesAreFilled /\ LoneFetch
  BY <1>2, <1>4, <1>5, Kinds DEF ChangesAreFilled, LoneFetch
<1>8. CleanWillAgree
  BY DEF Users!Init, CleanWillAgree
<1> QED BY <1>4, <1>6, <1>7, <1>8 DEF UsersInv

-------------------------------------------------------------------------------
(* Dialogs are opened over cards, and closed. *)
LEMMA DialogKeeps ==
  ASSUME UsersAssumption, UsersInv,
         \/ \E e \in Contact : Users!OpenCreate(e)
         \/ \E id \in Users!Id : Users!OpenEdit(id) \/ Users!OpenDelete(id)
         \/ Users!Cancel
  PROVE  UsersInv'
<1>1. UNCHANGED <<rows, order, shown, empty, asking, clean, trouble>>
  BY DEF Users!OpenCreate, Users!OpenEdit, Users!OpenDelete, Users!Cancel, Users!Open
<1>2. Users!UsersTypeOK
  BY DEF UsersInv
<1>3. /\ dialog' \in Users!Dialogs
      /\ dialog' # Users!Closed => Filled(dialog')
      /\ dialog' # Users!Closed /\ dialog'.op # "create" => shown[dialog'.id] # Users!None
      /\ dialog' # Users!Closed => dialog'.id \in Users!Id
  <2>1. CASE Users!Cancel
    BY <2>1 DEF Users!Cancel, Users!Dialogs
  <2>2. ASSUME NEW e \in Contact, Users!OpenCreate(e)
        PROVE  /\ dialog' \in Users!Dialogs /\ Filled(dialog')
               /\ dialog'.op = "create" /\ dialog'.id \in Users!Id
    <3>1. PICK f \in Users!CreateForms : dialog' = [op |-> "create", id |-> Own(e), form |-> f]
      BY <2>2 DEF Users!OpenCreate, Users!Open, Own
    <3>2. f \in Users!Fields /\ f.active = TRUE
      <4>1. {TRUE} \subseteq BOOLEAN
        OBVIOUS
      <4>2. f \in [role : Grade, active : {TRUE}]
        BY DEF Users!CreateForms
      <4>3. f \in Users!Fields
        BY <4>1, <4>2 DEF Users!Fields
      <4> QED BY <4>2, <4>3
    <3>3. Own(e) \in Users!Id /\ Own(e)[2] = "local"
      BY CardsOf
    <3>4. dialog' \in Users!Dialogs
      BY <3>1, <3>2, <3>3 DEF Users!Dialogs, Users!FormOp
    <3> QED BY <3>1, <3>2, <3>3, <3>4 DEF Filled
  <2>3. ASSUME NEW id \in Users!Id, Users!OpenEdit(id)
        PROVE  /\ dialog' \in Users!Dialogs /\ Filled(dialog')
               /\ dialog'.id \in Users!Id /\ shown[dialog'.id] # Users!None
    <3>1. PICK f \in Users!Fields : dialog' = [op |-> "edit", id |-> id, form |-> f]
      BY <2>3 DEF Users!OpenEdit, Users!Open, Users!EditForms
    <3>2. shown[id] # Users!None
      BY <2>3 DEF Users!OpenEdit, Users!OnCard
    <3>3. dialog' \in Users!Dialogs
      BY <3>1 DEF Users!Dialogs, Users!FormOp
    <3> QED BY <3>1, <3>2, <3>3 DEF Filled
  <2>4. ASSUME NEW id \in Users!Id, Users!OpenDelete(id)
        PROVE  /\ dialog' \in Users!Dialogs /\ Filled(dialog')
               /\ dialog'.id \in Users!Id /\ shown[dialog'.id] # Users!None
    <3>1. dialog' = [op |-> "delete", id |-> id, form |-> Users!None] /\ shown[id] # Users!None
      BY <2>4 DEF Users!OpenDelete, Users!Open, Users!OnCard
    <3>2. dialog' \in Users!Dialogs
      BY <3>1 DEF Users!Dialogs, Users!FormOp
    <3> QED BY <3>1, <3>2 DEF Filled
  <2> QED BY <2>1, <2>2, <2>3, <2>4
<1>0. Users!Ordered' /\ Fresh' = Fresh
  BY <1>1, <1>2, Typed, OrderSame
<1>4. Users!UsersTypeOK'
  BY <1>0, <1>1, <1>2, <1>3 DEF Users!UsersTypeOK
<1>5. CardsHaveRows'
  <2>1. dialog' # Users!Closed /\ dialog'.op # "create" /\ dialog'.id[2] = "row" =>
          rows[dialog'.id[1]] # Users!None
    BY <1>3, CardIs DEF UsersInv, CardsHaveRows
  <2> QED BY <1>1, <2>1 DEF UsersInv, CardsHaveRows
<1>6. ChangesAreFilled'
  <2>1. \A s \in Slot : Asks(s)' <=> Asks(s)
    BY <1>1 DEF Asks
  <2>2. (dialog # Users!Closed => Filled(dialog))'
    BY <1>3 DEF Filled
  <2>3. \A s \in Slot : Filled(asking[s])' <=> Filled(asking[s])
    BY <1>1 DEF Filled
  <2> QED BY <1>1, <2>1, <2>2, <2>3 DEF UsersInv, ChangesAreFilled
<1>7. LoneFetch'
  BY <1>0, <1>1 DEF UsersInv, LoneFetch, Row, Own
<1>8. CleanWillAgree'
  <2>1. \A s \in Slot : Asks(s)' <=> Asks(s)
    BY <1>1 DEF Asks
  <2> QED BY <1>0, <1>1, <1>3, <2>1
          DEF UsersInv, CleanWillAgree, Agreed, WillAgree, Row, Own
<1> QED BY <1>4, <1>5, <1>6, <1>7, <1>8 DEF UsersInv

-------------------------------------------------------------------------------
(* What Disturbed changes. *)
LEMMA DisturbedIs ==
  ASSUME Users!UsersTypeOK
  PROVE  /\ Users!Disturbed \in [Slot -> {Users!Idle} \cup Fetches \cup Changes]
         /\ \A s \in Slot : asking[s] \in Fetches =>
               /\ Users!Disturbed[s] \in Fetches /\ Users!Disturbed[s].alone = FALSE
               /\ Users!Disturbed[s].phase = asking[s].phase
               /\ Users!Disturbed[s].got = asking[s].got
         /\ \A s \in Slot : asking[s] \notin Fetches => Users!Disturbed[s] = asking[s]
<1>1. \A s \in Slot :
        Users!Disturbed[s] = IF asking[s].op = "fetch" THEN [asking[s] EXCEPT !.alone = FALSE]
                             ELSE asking[s]
  BY DEF Users!Disturbed
<1>2. ASSUME NEW s \in Slot, asking[s] \in Fetches
      PROVE  /\ Users!Disturbed[s] \in Fetches /\ Users!Disturbed[s].alone = FALSE
             /\ Users!Disturbed[s].phase = asking[s].phase
             /\ Users!Disturbed[s].got = asking[s].got
  <2>1. Users!Disturbed[s] = [asking[s] EXCEPT !.alone = FALSE]
    BY <1>1, <1>2, Kinds
  <2>2. FALSE \in BOOLEAN
    OBVIOUS
  <2> QED BY <1>2, <2>1, <2>2 DEF Fetches
<1>3. \A s \in Slot : asking[s] \notin Fetches => Users!Disturbed[s] = asking[s]
  <2>1. \A s \in Slot : asking[s] \notin Fetches => asking[s].op # "fetch"
    <3> SUFFICES ASSUME NEW s \in Slot, asking[s] \notin Fetches PROVE asking[s].op # "fetch"
      OBVIOUS
    <3>1. asking[s] = Users!Idle \/ Asks(s)
      BY Kinds
    <3>2. CASE asking[s] = Users!Idle
      BY <3>2, Kinds
    <3>3. CASE Asks(s)
      BY <3>3, Kinds
    <3> QED BY <3>1, <3>2, <3>3
  <2> QED BY <1>1, <2>1
<1>4. \A s \in Slot : Users!Disturbed[s] \in {Users!Idle} \cup Fetches \cup Changes
  BY <1>2, <1>3, Typed
<1>5. \E g : Users!Disturbed = [s \in Slot |-> g[s]]
  BY DEF Users!Disturbed
<1>6. Users!Disturbed \in [Slot -> {Users!Idle} \cup Fetches \cup Changes]
  <2> DEFINE g(s) == IF asking[s].op = "fetch" THEN [asking[s] EXCEPT !.alone = FALSE] ELSE asking[s]
  <2>1. Users!Disturbed = [s \in Slot |-> g(s)]
    BY DEF Users!Disturbed
  <2>2. \A s \in Slot : g(s) \in {Users!Idle} \cup Fetches \cup Changes
    BY <1>1, <1>4
  <2> HIDE DEF g
  <2> QED BY <2>1, <2>2
<1> QED BY <1>2, <1>3, <1>6

LEMMA FetchKeeps ==
  ASSUME UsersAssumption, UsersInv, NEW s \in Slot, Users!FetchUsers(s)
  PROVE  UsersInv'
<1> DEFINE F == [op |-> "fetch", phase |-> "sent", got |-> Users!Nobody,
                 alone |-> \A other \in Slot : ~Users!Busy(other)]
<1>1. /\ UNCHANGED <<rows, order, shown, empty, dialog, trouble>> /\ clean' = FALSE
      /\ asking' = [asking EXCEPT ![s] = F]
      /\ asking[s] = Users!Idle /\ \A t \in Slot : asking[t].op # "fetch"
  BY DEF Users!FetchUsers, Users!Busy
<1>2. Users!UsersTypeOK
  BY DEF UsersInv
<1>3. F \in Fetches /\ F.phase = "sent" /\ F.got = Users!Nobody
      /\ (F.alone = \A t \in Slot : asking[t] = Users!Idle)
  <2>1. Users!Nobody \in [Users!Id -> Users!Fields \cup {Users!None}]
    BY DEF Users!Nobody
  <2>2. (\A other \in Slot : ~Users!Busy(other)) \in BOOLEAN
    OBVIOUS
  <2>3. F.alone = \A t \in Slot : asking[t] = Users!Idle
    BY DEF Users!Busy
  <2> QED BY <2>1, <2>2, <2>3 DEF Fetches
<1> HIDE DEF F
<1>4. asking'[s] = F /\ \A t \in Slot : t # s => asking'[t] = asking[t]
  BY <1>1, <1>2, Typed
<1>5. Users!UsersTypeOK'
  <2>1. asking' \in [Slot -> {Users!Idle} \cup Fetches \cup Changes]
    BY <1>1, <1>2, <1>3, Typed
  <2>2. Users!Ordered'
    BY <1>1, <1>2, Typed, OrderSame
  <2> QED BY <1>1, <1>2, <2>1, <2>2 DEF Users!UsersTypeOK, Users!Requests, Fetches, Changes
<1>6. \A t \in Slot : asking[t] \notin Fetches
  BY <1>1, <1>2, Kinds
<1>7. CardsHaveRows'
  <2>1. \A e \in Contact : F.got[Row(e)] = Users!None
    BY <1>3, CardsOf DEF Users!Nobody
  <2>2. F.op = "fetch"
    BY <1>3 DEF Fetches
  <2> QED BY <1>1, <1>4, <1>6, <2>1, <2>2 DEF UsersInv, CardsHaveRows, Row
<1>8. ChangesAreFilled'
  <2>1. F \notin Changes
    BY <1>3 DEF Fetches, Changes, Users!FormOp
  <2>2. \A t \in Slot : asking'[t] \in Changes => asking[t] \in Changes /\ asking'[t] = asking[t]
    BY <1>4, <2>1
  <2> QED BY <1>1, <2>2 DEF UsersInv, ChangesAreFilled, Filled, Asks
<1>9. LoneFetch'
  <2>1. \A t \in Slot : asking'[t] \in Fetches => t = s
    BY <1>4, <1>6
  <2>2. asking'[s].alone => \A t \in Slot : asking'[t] # Users!Idle => s = t
    BY <1>3, <1>4
  <2> QED BY <1>3, <1>4, <2>1, <2>2 DEF LoneFetch
<1>10. CleanWillAgree'
  BY <1>1 DEF CleanWillAgree
<1> QED BY <1>5, <1>7, <1>8, <1>9, <1>10 DEF UsersInv

(* A request for a change is sent. *)
LEMMA AskKeeps ==
  ASSUME UsersAssumption, UsersInv, NEW s \in Slot,
         NEW op \in Users!FormOp \cup {"toggle"}, NEW id \in Users!Id,
         NEW form \in Users!Fields \cup {Users!None},
         Users!Send(s, op, id, form), UNCHANGED <<rows, order, shown, empty, dialog, trouble>>,
         op # "delete" => form \in Users!Fields,
         op = "create" => form.active = TRUE /\ id[2] = "local",
         clean /\ op \in {"edit", "toggle"} /\ id[2] = "row" =>
            shown[id] # Users!None \/ id[1] \notin Fresh
  PROVE  UsersInv'
<1> DEFINE R == [op |-> op, phase |-> "sent", id |-> id, form |-> form]
<1>1. /\ asking' = [Users!Disturbed EXCEPT ![s] = R]
      /\ asking[s] = Users!Idle
      /\ clean' = (clean /\ ~\E other \in Slot : Users!Crosses(other, id))
  BY DEF Users!Send, Users!Busy
<1>2. Users!UsersTypeOK
  BY DEF UsersInv
<1>3. /\ R \in Changes /\ R \notin Fetches /\ R.op = op /\ R.phase = "sent"
      /\ R.id = id /\ R.form = form /\ R # Users!Idle
  BY DEF Changes, Fetches, Users!FormOp, Users!Idle
<1> HIDE DEF R
<1>4. asking'[s] = R /\ \A t \in Slot : t # s => asking'[t] = Users!Disturbed[t]
  BY <1>1, <1>2, DisturbedIs
<1>5. Users!UsersTypeOK'
  <2>1. asking' \in [Slot -> {Users!Idle} \cup Fetches \cup Changes]
    BY <1>1, <1>2, <1>3, DisturbedIs
  <2>2. clean' \in BOOLEAN
    BY <1>1
  <2>3. Users!Ordered'
    BY <1>2, Typed, OrderSame
  <2> QED BY <1>2, <2>1, <2>2, <2>3 DEF Users!UsersTypeOK, Users!Requests, Fetches, Changes
<1>6. \A t \in Slot : t # s /\ asking[t] \notin Fetches => asking'[t] = asking[t]
  BY <1>2, <1>4, DisturbedIs
<1>7. \A t \in Slot : t # s /\ asking[t] \in Fetches =>
         asking'[t] \in Fetches /\ asking'[t].alone = FALSE /\ asking'[t].got = asking[t].got
         /\ asking'[t].op = "fetch"
  <2>1. \A t \in Slot : t # s /\ asking[t] \in Fetches =>
         asking'[t] \in Fetches /\ asking'[t].alone = FALSE /\ asking'[t].got = asking[t].got
    BY <1>2, <1>4, DisturbedIs
  <2>2. \A r \in Fetches : r.op = "fetch"
    BY DEF Fetches
  <2> QED BY <2>1, <2>2
<1>8. CardsHaveRows'
  <2>1. \A t \in Slot : asking'[t] \in Fetches =>
           asking[t] \in Fetches /\ asking'[t].got = asking[t].got
    BY <1>3, <1>4, <1>6, <1>7
  <2>2. \A t \in Slot : asking'[t].op = "create" /\ asking'[t].phase \in {"role", "done"} =>
           asking'[t] = asking[t]
    BY <1>3, <1>4, <1>6, <1>7
  <2> QED BY <2>1, <2>2 DEF UsersInv, CardsHaveRows, Row
<1>9. ChangesAreFilled'
  <2>1. \A t \in Slot : t # s /\ asking'[t] \in Changes =>
           asking[t] \in Changes /\ asking'[t] = asking[t]
    <3>1. \A t \in Slot : t # s /\ asking[t] \in Fetches => asking'[t] \notin Changes
      BY <1>7 DEF Changes, Users!FormOp
    <3> QED BY <1>6, <3>1
  <2>2. Filled(R) /\ R.phase # "role"
    BY <1>3 DEF Filled
  <2>3. \A t \in Slot : asking'[t] \in Changes => Filled(asking'[t])
    BY <1>4, <2>1, <2>2 DEF UsersInv, ChangesAreFilled, Asks
  <2>4. \A t \in Slot : asking'[t] \in Changes /\ asking'[t].phase = "role" =>
           asking'[t].op = "create" /\ asking'[t].form.role # "ANALYST"
    BY <1>4, <2>1, <2>2 DEF UsersInv, ChangesAreFilled, Asks
  <2>5. dialog' = dialog
    OBVIOUS
  <2> QED BY <2>3, <2>4, <2>5 DEF UsersInv, ChangesAreFilled, Asks, Filled
<1>10. LoneFetch'
  <2>1. \A t \in Slot : asking'[t] \in Fetches => asking[t] \in Fetches /\ ~asking'[t].alone
    BY <1>3, <1>4, <1>6, <1>7
  <2> QED BY <2>1 DEF UsersInv, LoneFetch
<1>11. CleanWillAgree'
  <2> SUFFICES ASSUME clean' PROVE CleanWillAgree'
    BY DEF CleanWillAgree
  <2>1. clean
    BY <1>1
  <2>2. \A t \in Slot : asking[t] \notin Fetches
    BY <2>1 DEF UsersInv, CleanWillAgree
  <2>3. \A t \in Slot : t # s => asking'[t] = asking[t]
    BY <1>6, <2>2
  <2>4. \A t \in Slot : Asks(t) => asking[t].id[1] # id[1]
    BY <1>1, <1>2, Kinds DEF Users!Crosses, Users!Busy
  <2>5. ~Asks(s)
    BY <1>1, <1>2, Kinds
  <2>6. \A t \in Slot : asking'[t] \in Changes => t = s \/ Asks(t)
    BY <2>3 DEF Asks
  <2>7. \A t \in Slot : asking'[t] \notin Fetches
    BY <1>3, <1>4, <2>2, <2>3
  <2>8. \A t, u \in Slot : asking'[t] \in Changes /\ asking'[u] \in Changes
                           /\ asking'[t].id[1] = asking'[u].id[1] => t = u
    BY <1>3, <1>4, <2>1, <2>3, <2>4, <2>6 DEF UsersInv, CleanWillAgree
  <2>9. dialog' # Users!Closed /\ dialog'.op = "edit" /\ dialog'.id[2] = "row" =>
              shown'[dialog'.id] # Users!None \/ dialog'.id[1] \notin Fresh
    BY <2>1 DEF UsersInv, CleanWillAgree
  <2>10. \A e \in Contact : (\A t \in Slot : asking'[t] \in Changes => asking'[t].id[1] # e) =>
              Agreed(e \in Fresh, shown[Own(e)], shown[Row(e)], rows[e])
    <3>1. \A t \in Slot : Asks(t) => asking'[t] = asking[t] /\ asking'[t] \in Changes
      BY <2>3, <2>5 DEF Asks
    <3> QED BY <2>1, <3>1 DEF UsersInv, CleanWillAgree
  <2>11. \A t \in Slot : asking'[t] \in Changes =>
              WillAgree(asking'[t], asking'[t].id[1] \in Fresh, shown[Own(asking'[t].id[1])],
                        shown[Row(asking'[t].id[1])], rows[asking'[t].id[1]])
    <3>1. \A t \in Slot : t # s /\ asking'[t] \in Changes =>
              WillAgree(asking'[t], asking'[t].id[1] \in Fresh, shown[Own(asking'[t].id[1])],
                        shown[Row(asking'[t].id[1])], rows[asking'[t].id[1]])
      BY <2>1, <2>3, <2>6 DEF UsersInv, CleanWillAgree
    <3>2. Agreed(id[1] \in Fresh, shown[Own(id[1])], shown[Row(id[1])], rows[id[1]])
      BY <2>1, <2>4, CardIs DEF UsersInv, CleanWillAgree
    <3>3. WillAgree(R, id[1] \in Fresh, shown[Own(id[1])], shown[Row(id[1])], rows[id[1]])
      BY <1>3, <2>1, <3>2, CardIs DEF WillAgree
    <3> QED BY <1>3, <1>4, <3>1, <3>3
  <2>12. rows' = rows /\ shown' = shown /\ Fresh' = Fresh
    BY <1>2, Typed, OrderSame
  <2> QED BY <2>7, <2>8, <2>9, <2>10, <2>11, <2>12
          DEF CleanWillAgree, Asks, Agreed, WillAgree, Row, Own
<1> QED BY <1>5, <1>8, <1>9, <1>10, <1>11 DEF UsersInv

LEMMA SubmitKeeps ==
  ASSUME UsersAssumption, UsersInv, NEW s \in Slot, Users!Submit(s)
  PROVE  UsersInv'
<1>1. dialog # Users!Closed /\ Users!Send(s, dialog.op, dialog.id, dialog.form)
      /\ UNCHANGED <<rows, order, shown, empty, dialog, trouble>>
  BY DEF Users!Submit
<1>2. dialog.op \in Users!FormOp /\ dialog.id \in Users!Id
      /\ dialog.form \in Users!Fields \cup {Users!None}
  BY <1>1 DEF UsersInv, Users!UsersTypeOK, Users!Dialogs
<1>3. Filled(dialog)
  BY <1>1 DEF UsersInv, ChangesAreFilled
<1>4. clean /\ dialog.op \in {"edit", "toggle"} /\ dialog.id[2] = "row" =>
         shown[dialog.id] # Users!None \/ dialog.id[1] \notin Fresh
  BY <1>1, <1>2 DEF UsersInv, CleanWillAgree, Users!FormOp
<1> QED BY <1>1, <1>2, <1>3, <1>4, AskKeeps DEF Filled

LEMMA ToggleKeeps ==
  ASSUME UsersAssumption, UsersInv, NEW s \in Slot, NEW id \in Users!Id,
         Users!ToggleStatus(s, id)
  PROVE  UsersInv'
<1> DEFINE f == [shown[id] EXCEPT !.active = ~@]
<1>1. shown[id] # Users!None /\ Users!Send(s, "toggle", id, f)
      /\ UNCHANGED <<rows, order, shown, empty, dialog, trouble>>
  BY DEF Users!ToggleStatus, Users!OnCard
<1>2. shown[id] \in Users!Fields
  BY <1>1 DEF UsersInv, Users!UsersTypeOK
<1>3. f \in Users!Fields
  BY <1>2 DEF Users!Fields
<1> HIDE DEF f
<1> QED BY <1>1, <1>2, <1>3, AskKeeps

-------------------------------------------------------------------------------
(* The arms of ShownAfter. *)
LEMMA ShownAfterIs ==
  ASSUME NEW r
  PROVE  /\ r.op = "create" => Users!ShownAfter(r) = Users!ShownAfterCreate(r)
         /\ r.op = "fetch" => Users!ShownAfter(r) = Users!ShownAfterFetch(r)
         /\ r.op = "delete" => Users!ShownAfter(r) = [shown EXCEPT ![r.id] = Users!None]
         /\ r.op = "edit" /\ shown[r.id] = Users!None => Users!ShownAfter(r) = shown
         /\ r.op = "toggle" /\ shown[r.id] = Users!None => Users!ShownAfter(r) = shown
<1>1. r.op = "create" => Users!ShownAfter(r) = Users!ShownAfterCreate(r)
  BY DEF Users!ShownAfter
<1>2. r.op = "fetch" => Users!ShownAfter(r) = Users!ShownAfterFetch(r)
  BY DEF Users!ShownAfter
<1>3. r.op = "delete" => Users!ShownAfter(r) = [shown EXCEPT ![r.id] = Users!None]
  BY DEF Users!ShownAfter
<1>4. r.op = "edit" /\ shown[r.id] = Users!None => Users!ShownAfter(r) = shown
  BY DEF Users!ShownAfter
<1>5. r.op = "toggle" /\ shown[r.id] = Users!None => Users!ShownAfter(r) = shown
  BY DEF Users!ShownAfter
<1> QED BY <1>1, <1>2, <1>3, <1>4, <1>5

(* What a change that has landed leaves of its account's cards. *)
LEMMA CardsAfter ==
  ASSUME UsersAssumption, UsersInv, NEW s \in Slot, Asks(s),
         asking[s].phase \in {"done", "failed"}
  PROVE  LET r == asking[s]
             after == Users!ShownAfter(r) IN
         /\ after \in [Users!Id -> Users!Fields \cup {Users!None}]
         /\ \A id \in Users!Id : id[1] # r.id[1] => after[id] = shown[id]
         /\ \A e \in Contact : after[Row(e)] # Users!None => rows[e] # Users!None
         /\ r.phase = "done"
            /\ WillAgree(r, r.id[1] \in Fresh, shown[Own(r.id[1])], shown[Row(r.id[1])], rows[r.id[1]]) =>
               Agreed(r.id[1] \in Fresh, after[Own(r.id[1])], after[Row(r.id[1])], rows[r.id[1]])
         /\ \A id \in Users!Id : r.op \in {"create", "edit", "toggle"} /\ shown[id] # Users!None =>
               after[id] # Users!None
<1> DEFINE r == asking[s]
           after == Users!ShownAfter(r)
           e == r.id[1]
<1>1. /\ Users!UsersTypeOK /\ Filled(r)
      /\ \A a \in Contact : shown[Row(a)] # Users!None => rows[a] # Users!None
      /\ r.op = "create" /\ r.phase = "done" => rows[e] # Users!None
  BY DEF UsersInv, ChangesAreFilled, CardsHaveRows
<1>2. r.op \in {"create", "edit", "delete", "toggle"} /\ r.id \in Users!Id /\ e \in Contact
  BY <1>1, Kinds
<1>3. shown \in [Users!Id -> Users!Fields \cup {Users!None}]
      /\ rows \in [Contact -> Users!Fields \cup {Users!None}]
  BY <1>1, Typed
<1>4. r.id = Row(e) \/ r.id = Own(e)
  BY <1>2, CardIs
<1>5. /\ Row(e) \in Users!Id /\ Own(e) \in Users!Id /\ Row(e) # Own(e)
      /\ Row(e)[1] = e /\ Own(e)[1] = e /\ Row(e)[2] = "row" /\ Own(e)[2] = "local"
  BY <1>2, CardsOf
<1>6. \A a \in Contact : Row(a) \in Users!Id /\ Row(a)[1] = a /\ Row(a)[2] = "row"
  BY CardsOf
<1>7. \A a \in Contact : a # e => Row(a) # Row(e) /\ Row(a) # Own(e)
  BY <1>5, <1>6
<1> HIDE DEF e
<1>8. CASE r.op = "create" /\ r.phase = "failed"
  <2>1. after = [shown EXCEPT ![r.id] = r.form]
    BY <1>8, ShownAfterIs DEF Users!ShownAfterCreate
  <2>2. r.form \in Users!Fields /\ r.form # Users!None /\ r.id[2] = "local"
    BY <1>1, <1>8, FieldsAreSome DEF Filled
  <2>3. r.id = Own(e)
    BY <1>4, <1>5, <2>2
  <2>4. after \in [Users!Id -> Users!Fields \cup {Users!None}]
    BY <1>3, <2>1, <2>2
  <2>5. \A id \in Users!Id : after[id] = IF id = Own(e) THEN r.form ELSE shown[id]
    BY <1>3, <2>1, <2>3
  <2>6. \A id \in Users!Id : id[1] # e => after[id] = shown[id]
    BY <1>5, <2>5
  <2>7. \A a \in Contact : after[Row(a)] # Users!None => rows[a] # Users!None
    BY <1>1, <1>5, <1>6, <1>7, <2>5
  <2>8. \A id \in Users!Id : shown[id] # Users!None => after[id] # Users!None
    BY <2>2, <2>5
  <2> QED BY <1>8, <2>4, <2>6, <2>7, <2>8 DEF e
<1>9. CASE r.op = "create" /\ r.phase = "done"
  <2> DEFINE c == [role |-> IF r.form.role = "ANALYST" THEN "VIEWER" ELSE r.form.role, active |-> TRUE]
  <2>1. after = [shown EXCEPT ![Row(e)] = c]
    BY <1>9, ShownAfterIs DEF Users!ShownAfterCreate, Row, e
  <2>2. r.form \in Users!Fields
    BY <1>1, <1>9 DEF Filled
  <2>3. c \in Users!Fields
    <3>1. TRUE \in BOOLEAN
      OBVIOUS
    <3>2. (IF r.form.role = "ANALYST" THEN "VIEWER" ELSE r.form.role) \in Grade
      BY <2>2 DEF UsersAssumption, Users!Fields
    <3> QED BY <3>1, <3>2 DEF Users!Fields
  <2>4. c # Users!None
    BY <2>3, FieldsAreSome
  <2>5. WillAgree(r, e \in Fresh, shown[Own(e)], shown[Row(e)], rows[e]) =>
           shown[Own(e)] = Users!None /\ rows[e] = c
    BY <1>9 DEF WillAgree
  <2> HIDE DEF c
  <2>6. after \in [Users!Id -> Users!Fields \cup {Users!None}]
    BY <1>3, <1>5, <2>1, <2>3
  <2>7. \A id \in Users!Id : after[id] = IF id = Row(e) THEN c ELSE shown[id]
    BY <1>3, <2>1
  <2>8. \A id \in Users!Id : id[1] # e => after[id] = shown[id]
    BY <1>5, <2>7
  <2>9. \A a \in Contact : after[Row(a)] # Users!None => rows[a] # Users!None
    BY <1>1, <1>6, <1>7, <1>9, <2>7 DEF e
  <2>10. \A id \in Users!Id : shown[id] # Users!None => after[id] # Users!None
    BY <2>4, <2>7
  <2>11. after[Own(e)] = shown[Own(e)] /\ after[Row(e)] = c
    BY <1>5, <2>7
  <2>12. WillAgree(r, e \in Fresh, shown[Own(e)], shown[Row(e)], rows[e]) =>
           Agreed(e \in Fresh, after[Own(e)], after[Row(e)], rows[e])
    BY <2>4, <2>5, <2>11 DEF Agreed
  <2> QED BY <2>6, <2>8, <2>9, <2>10, <2>12 DEF e
<1>10. CASE r.op = "delete"
  <2>1. after = [shown EXCEPT ![r.id] = Users!None]
    BY <1>10, ShownAfterIs
  <2>2. after \in [Users!Id -> Users!Fields \cup {Users!None}]
    BY <1>3, <2>1
  <2>3. \A id \in Users!Id : after[id] = IF id = r.id THEN Users!None ELSE shown[id]
    BY <1>3, <2>1
  <2>4. \A id \in Users!Id : id[1] # e => after[id] = shown[id]
    BY <2>3 DEF e
  <2>5. \A a \in Contact : after[Row(a)] # Users!None => rows[a] # Users!None
    BY <1>1, <1>6, <2>3
  <2>6. r.phase = "done" /\ WillAgree(r, e \in Fresh, shown[Own(e)], shown[Row(e)], rows[e]) =>
           Agreed(e \in Fresh, after[Own(e)], after[Row(e)], rows[e])
    <3> SUFFICES ASSUME r.phase = "done", WillAgree(r, e \in Fresh, shown[Own(e)], shown[Row(e)], rows[e])
                 PROVE  Agreed(e \in Fresh, after[Own(e)], after[Row(e)], rows[e])
      OBVIOUS
    <3>1. shown[Own(e)] = Users!None /\ r.id[2] = "row" /\ ~rows[e].active
      BY <1>10 DEF WillAgree
    <3>2. r.id = Row(e)
      BY <1>4, <1>5, <3>1
    <3>3. after[Row(e)] = Users!None /\ after[Own(e)] = Users!None
      BY <1>5, <2>3, <3>1, <3>2
    <3> QED BY <3>1, <3>3 DEF Agreed
  <2> QED BY <1>10, <2>2, <2>4, <2>5, <2>6 DEF e
<1>11. CASE r.op \in {"edit", "toggle"} /\ shown[r.id] = Users!None
  <2>1. after = shown
    BY <1>11, ShownAfterIs
  <2>2. r.phase = "done" /\ WillAgree(r, e \in Fresh, shown[Own(e)], shown[Row(e)], rows[e]) =>
           Agreed(e \in Fresh, after[Own(e)], after[Row(e)], rows[e])
    <3> SUFFICES ASSUME r.phase = "done",
                        WillAgree(r, e \in Fresh, shown[Own(e)], shown[Row(e)], rows[e])
                 PROVE  Agreed(e \in Fresh, after[Own(e)], after[Row(e)], rows[e])
      OBVIOUS
    <3>1. shown[Own(e)] = Users!None /\ r.id[2] = "row"
      BY <1>11 DEF WillAgree
    <3>2. shown[Row(e)] = Users!None
      BY <1>4, <1>5, <1>11, <3>1
    <3>3. e \notin Fresh
      BY <1>11, <3>2 DEF WillAgree
    <3> QED BY <2>1, <3>1, <3>2, <3>3 DEF Agreed
  <2>3. \A id \in Users!Id : after[id] = shown[id]
    BY <2>1
  <2>4. \A a \in Contact : after[Row(a)] # Users!None => rows[a] # Users!None
    BY <1>1, <2>1
  <2> QED BY <1>3, <2>1, <2>2, <2>3, <2>4 DEF e
<1>12. CASE r.op \in {"edit", "toggle"} /\ shown[r.id] # Users!None
  <2>1. r.form \in Users!Fields /\ shown[r.id] \in Users!Fields
    BY <1>1, <1>2, <1>3, <1>12 DEF Filled
  <2>2. PICK c \in Users!Fields : /\ after = [shown EXCEPT ![r.id] = c]
                                  /\ r.op = "edit" => c = r.form
                                  /\ r.op = "toggle" =>
                                        c = [role |-> shown[r.id].role, active |-> r.form.active]
    <3>1. CASE r.op = "edit"
      <4>1. after = [shown EXCEPT ![r.id] = r.form]
        BY <1>12, <3>1 DEF Users!ShownAfter
      <4> QED BY <2>1, <3>1, <4>1
    <3>2. CASE r.op = "toggle"
      <4>1. after = [shown EXCEPT ![r.id].active = r.form.active]
        BY <1>12, <3>2 DEF Users!ShownAfter
      <4>2. [shown[r.id] EXCEPT !.active = r.form.active]
              = [role |-> shown[r.id].role, active |-> r.form.active]
        BY <2>1 DEF Users!Fields
      <4>3. after = [shown EXCEPT ![r.id] = [role |-> shown[r.id].role, active |-> r.form.active]]
        BY <1>2, <1>3, <4>1, <4>2
      <4>4. [role |-> shown[r.id].role, active |-> r.form.active] \in Users!Fields
        BY <2>1 DEF Users!Fields
      <4> QED BY <3>2, <4>3, <4>4
    <3> QED BY <1>12, <3>1, <3>2
  <2>3. c # Users!None
    BY FieldsAreSome
  <2>4. after \in [Users!Id -> Users!Fields \cup {Users!None}]
    BY <1>3, <2>2
  <2>5. \A id \in Users!Id : after[id] = IF id = r.id THEN c ELSE shown[id]
    BY <1>3, <2>2
  <2>6. \A id \in Users!Id : id[1] # e => after[id] = shown[id]
    BY <2>5 DEF e
  <2>7. \A id \in Users!Id : shown[id] # Users!None => after[id] # Users!None
    BY <2>3, <2>5
  <2>8. \A a \in Contact : after[Row(a)] # Users!None => rows[a] # Users!None
    BY <1>1, <1>6, <1>12, <2>5
  <2>9. r.phase = "done" /\ WillAgree(r, e \in Fresh, shown[Own(e)], shown[Row(e)], rows[e]) =>
           Agreed(e \in Fresh, after[Own(e)], after[Row(e)], rows[e])
    <3> SUFFICES ASSUME r.phase = "done", WillAgree(r, e \in Fresh, shown[Own(e)], shown[Row(e)], rows[e])
                 PROVE  Agreed(e \in Fresh, after[Own(e)], after[Row(e)], rows[e])
      OBVIOUS
    <3>1. shown[Own(e)] = Users!None /\ r.id[2] = "row"
      BY <1>12 DEF WillAgree
    <3>2. r.id = Row(e) /\ shown[Row(e)] # Users!None
      BY <1>4, <1>5, <1>12, <3>1
    <3>3. /\ r.op = "edit" => rows[e] = r.form
          /\ r.op = "toggle" => rows[e] = [role |-> shown[Row(e)].role, active |-> r.form.active]
      BY <1>12, <3>2 DEF WillAgree
    <3>4. c = rows[e] /\ after[Row(e)] = c /\ after[Own(e)] = Users!None
      BY <1>5, <1>12, <2>2, <2>5, <3>1, <3>2, <3>3
    <3> QED BY <2>3, <3>4 DEF Agreed
  <2> QED BY <2>4, <2>6, <2>7, <2>8, <2>9 DEF e
<1> QED BY <1>2, <1>8, <1>9, <1>10, <1>11, <1>12

(* A change lands. *)
LEMMA LandChangeKeeps ==
  ASSUME UsersAssumption, UsersInv, NEW s \in Slot, Users!Land(s), Asks(s)
  PROVE  UsersInv'
<1> DEFINE r == asking[s]
           after == Users!ShownAfter(r)
           e == r.id[1]
<1>1. Users!UsersTypeOK
  BY DEF UsersInv
<1>2. /\ r.op \in {"create", "edit", "delete", "toggle"} /\ r.op # "fetch"
      /\ e \in Contact /\ r # Users!Idle /\ r \notin Fetches
  BY <1>1, Kinds
<1>3. /\ r.phase \in {"done", "failed"} /\ shown' = after
      /\ empty' = (empty /\ r.op \notin {"fetch", "create"})
      /\ dialog' = IF r.op \in Users!FormOp THEN Users!Closed ELSE dialog
      /\ clean' = (clean /\ r.phase = "done")
      /\ asking' = [asking EXCEPT ![s] = Users!Idle]
      /\ UNCHANGED <<rows, order, trouble>>
  <2>1. clean' = IF r.op = "fetch" THEN r.phase = "done" /\ r.alone
                ELSE clean /\ r.phase = "done"
    BY DEF Users!Land
  <2>2. clean' = (clean /\ r.phase = "done")
    BY <1>2, <2>1
  <2> QED BY <2>2 DEF Users!Land
<1>4. asking'[s] = Users!Idle /\ \A t \in Slot : t # s => asking'[t] = asking[t]
  BY <1>1, <1>3, Typed
<1>5. /\ after \in [Users!Id -> Users!Fields \cup {Users!None}]
      /\ \A id \in Users!Id : id[1] # e => after[id] = shown[id]
      /\ \A a \in Contact : after[Row(a)] # Users!None => rows[a] # Users!None
      /\ r.phase = "done" /\ WillAgree(r, e \in Fresh, shown[Own(e)], shown[Row(e)], rows[e]) =>
            Agreed(e \in Fresh, after[Own(e)], after[Row(e)], rows[e])
      /\ \A id \in Users!Id : r.op \in {"create", "edit", "toggle"} /\ shown[id] # Users!None =>
            after[id] # Users!None
  BY <1>3, CardsAfter
<1> HIDE DEF after
<1>6. Users!Idle \notin Changes /\ Users!Idle \notin Fetches /\ Users!Idle.op = "idle"
  BY DEF Changes, Fetches, Users!Idle, Users!FormOp
<1>7. \A t \in Slot : asking'[t] \in Changes => t # s /\ Asks(t) /\ asking'[t] = asking[t]
  BY <1>4, <1>6 DEF Asks
<1>8. \A t \in Slot : asking'[t] \in Fetches => t # s /\ asking[t] \in Fetches /\ asking'[t] = asking[t]
  BY <1>4, <1>6
<1>9. dialog' = dialog \/ dialog' = Users!Closed
  BY <1>3
<1>0. Users!Ordered' /\ Fresh' = Fresh
  BY <1>1, <1>3, Typed, OrderSame
<1>10. Users!UsersTypeOK'
  <2>1. asking' \in [Slot -> {Users!Idle} \cup Fetches \cup Changes]
    BY <1>1, <1>3, Typed
  <2>2. clean' \in BOOLEAN /\ empty' \in BOOLEAN
    BY <1>3
  <2>3. dialog' \in Users!Dialogs
    BY <1>1, <1>9, Typed DEF Users!Dialogs
  <2>4. rows' \in [Contact -> Users!Fields \cup {Users!None}] /\ trouble' \in 0..MaxTrouble
    BY <1>1, <1>3, Typed
  <2> QED BY <1>0, <1>3, <1>5, <2>1, <2>2, <2>3, <2>4
          DEF Users!UsersTypeOK, Users!Requests, Fetches, Changes
<1>11. CardsHaveRows'
  <2>1. \A a \in Contact : shown'[Row(a)] # Users!None => rows'[a] # Users!None
    BY <1>3, <1>5
  <2>2. dialog' # Users!Closed /\ dialog'.op # "create" /\ dialog'.id[2] = "row" =>
          rows'[dialog'.id[1]] # Users!None
    BY <1>3, <1>9 DEF UsersInv, CardsHaveRows
  <2>3. \A t \in Slot : asking'[t] \in Fetches =>
          \A a \in Contact : asking'[t].got[Row(a)] # Users!None => rows'[a] # Users!None
    BY <1>3, <1>8 DEF UsersInv, CardsHaveRows
  <2>4. \A t \in Slot : asking'[t].op = "create" /\ asking'[t].phase \in {"role", "done"} =>
          rows'[asking'[t].id[1]] # Users!None
    BY <1>3, <1>4, <1>6 DEF UsersInv, CardsHaveRows
  <2> QED BY <2>1, <2>2, <2>3, <2>4 DEF CardsHaveRows, Row
<1>12. ChangesAreFilled'
  <2>1. \A t \in Slot : asking'[t] \in Changes => Filled(asking'[t])
    BY <1>7 DEF UsersInv, ChangesAreFilled
  <2>2. \A t \in Slot : asking'[t] \in Changes /\ asking'[t].phase = "role" =>
           asking'[t].op = "create" /\ asking'[t].form.role # "ANALYST"
    BY <1>7 DEF UsersInv, ChangesAreFilled
  <2>3. dialog' # Users!Closed => Filled(dialog')
    BY <1>9 DEF UsersInv, ChangesAreFilled
  <2> QED BY <2>1, <2>2, <2>3 DEF ChangesAreFilled, Asks, Filled
<1>13. LoneFetch'
  <2>1. \A t, u \in Slot : asking'[t] \in Fetches /\ asking'[u] \in Fetches => t = u
    BY <1>8 DEF UsersInv, LoneFetch
  <2>2. \A t \in Slot : asking'[t] \in Fetches /\ asking'[t].alone => FALSE
    BY <1>2, <1>8 DEF UsersInv, LoneFetch
  <2> QED BY <2>1, <2>2 DEF LoneFetch
<1>14. CleanWillAgree'
  <2> SUFFICES ASSUME clean' PROVE CleanWillAgree'
    BY DEF CleanWillAgree
  <2>1. clean /\ r.phase = "done"
    BY <1>3
  <2>2. \A t \in Slot : asking'[t] \notin Fetches
    BY <1>8, <2>1 DEF UsersInv, CleanWillAgree
  <2>3. \A t, u \in Slot : asking'[t] \in Changes /\ asking'[u] \in Changes
                           /\ asking'[t].id[1] = asking'[u].id[1] => t = u
    BY <1>7, <2>1 DEF UsersInv, CleanWillAgree
  <2>4. \A t \in Slot : asking'[t] \in Changes => asking'[t].id[1] # e
    BY <1>7, <2>1 DEF UsersInv, CleanWillAgree
  <2>5. dialog' # Users!Closed /\ dialog'.op = "edit" /\ dialog'.id[2] = "row" =>
              shown'[dialog'.id] # Users!None \/ dialog'.id[1] \notin Fresh
    <3> SUFFICES ASSUME dialog' # Users!Closed, dialog'.op = "edit", dialog'.id[2] = "row"
                 PROVE  after[dialog'.id] # Users!None \/ dialog'.id[1] \notin Fresh
      BY <1>3
    <3>1. dialog' = dialog /\ r.op # "delete"
      BY <1>3 DEF Users!FormOp
    <3>2. shown[dialog.id] # Users!None \/ dialog.id[1] \notin Fresh
      BY <2>1, <3>1 DEF UsersInv, CleanWillAgree
    <3>3. dialog.id \in Users!Id
      BY <1>1, <3>1, Typed DEF Users!Dialogs
    <3> QED BY <1>2, <1>5, <3>1, <3>2, <3>3
  <2>6. \A a \in Contact : a # e => /\ after[Own(a)] = shown[Own(a)]
                                   /\ after[Row(a)] = shown[Row(a)]
    BY <1>5, CardsOf
  <2>7. WillAgree(r, e \in Fresh, shown[Own(e)], shown[Row(e)], rows[e])
    BY <2>1 DEF UsersInv, CleanWillAgree
  <2>8. \A a \in Contact : (\A t \in Slot : asking'[t] \in Changes => asking'[t].id[1] # a) =>
              Agreed(a \in Fresh, after[Own(a)], after[Row(a)], rows[a])
    <3> SUFFICES ASSUME NEW a \in Contact,
                        \A t \in Slot : asking'[t] \in Changes => asking'[t].id[1] # a
                 PROVE  Agreed(a \in Fresh, after[Own(a)], after[Row(a)], rows[a])
      OBVIOUS
    <3>1. CASE a = e
      BY <1>5, <2>1, <2>7, <3>1
    <3>2. CASE a # e
      <4>1. \A t \in Slot : Asks(t) => asking[t].id[1] # a
        BY <1>4, <3>2 DEF Asks
      <4>2. Agreed(a \in Fresh, shown[Own(a)], shown[Row(a)], rows[a])
        BY <2>1, <4>1 DEF UsersInv, CleanWillAgree
      <4> QED BY <2>6, <3>2, <4>2
    <3> QED BY <3>1, <3>2
  <2>9. \A t \in Slot : asking'[t] \in Changes =>
              WillAgree(asking'[t], asking'[t].id[1] \in Fresh, after[Own(asking'[t].id[1])],
                        after[Row(asking'[t].id[1])], rows[asking'[t].id[1]])
    <3> SUFFICES ASSUME NEW t \in Slot, asking'[t] \in Changes
                 PROVE  WillAgree(asking'[t], asking'[t].id[1] \in Fresh, after[Own(asking'[t].id[1])],
                                  after[Row(asking'[t].id[1])], rows[asking'[t].id[1]])
      OBVIOUS
    <3>1. Asks(t) /\ asking'[t] = asking[t] /\ asking[t].id[1] # e
      BY <1>7, <2>4
    <3>2. WillAgree(asking[t], asking[t].id[1] \in Fresh, shown[Own(asking[t].id[1])],
                    shown[Row(asking[t].id[1])], rows[asking[t].id[1]])
      BY <2>1, <3>1 DEF UsersInv, CleanWillAgree
    <3>3. asking[t].id[1] \in Contact
      BY <1>1, <3>1, Kinds
    <3> QED BY <2>6, <3>1, <3>2, <3>3
  <2>10. rows' = rows /\ shown' = after
    BY <1>3
  <2> QED BY <1>0, <2>2, <2>3, <2>5, <2>8, <2>9, <2>10
          DEF CleanWillAgree, Asks, Agreed, WillAgree, Row, Own
<1> QED BY <1>10, <1>11, <1>12, <1>13, <1>14 DEF UsersInv

(* A fetch lands. *)
LEMMA LandFetchKeeps ==
  ASSUME UsersAssumption, UsersInv, NEW s \in Slot, Users!Land(s), asking[s] \in Fetches
  PROVE  UsersInv'
<1> DEFINE r == asking[s]
           after == Users!ShownAfter(r)
<1>1. Users!UsersTypeOK
  BY DEF UsersInv
<1>2. r.op = "fetch" /\ r.op \notin Users!FormOp /\ r.alone \in BOOLEAN
      /\ r.got \in [Users!Id -> Users!Fields \cup {Users!None}]
  BY DEF Fetches, Users!FormOp
<1>3. /\ r.phase \in {"done", "failed"} /\ shown' = after
      /\ empty' = FALSE /\ dialog' = dialog
      /\ clean' = (r.phase = "done" /\ r.alone)
      /\ asking' = [asking EXCEPT ![s] = Users!Idle]
      /\ UNCHANGED <<rows, order, trouble>>
  <2>1. clean' = IF r.op = "fetch" THEN r.phase = "done" /\ r.alone
                ELSE clean /\ r.phase = "done"
    BY DEF Users!Land
  <2>2. clean' = (r.phase = "done" /\ r.alone)
    BY <1>2, <2>1
  <2>3. empty' = (empty /\ r.op \notin {"fetch", "create"})
    BY DEF Users!Land
  <2>4. empty' = FALSE
    BY <1>2, <2>3
  <2> QED BY <1>2, <2>2, <2>4 DEF Users!Land
<1>4. asking'[s] = Users!Idle /\ \A t \in Slot : t # s => asking'[t] = asking[t]
  BY <1>1, <1>3, Typed
<1>5. after = IF r.phase = "done" THEN r.got ELSE IF empty THEN Users!Fallback ELSE shown
  BY <1>2, ShownAfterIs DEF Users!ShownAfterFetch
<1> HIDE DEF after
<1>6. Users!Idle \notin Changes /\ Users!Idle \notin Fetches /\ Users!Idle.op = "idle"
  BY DEF Changes, Fetches, Users!Idle, Users!FormOp
<1>7. \A t \in Slot : asking'[t] \in Changes => t # s /\ Asks(t) /\ asking'[t] = asking[t]
  BY <1>4, <1>6 DEF Asks
<1>8. \A t \in Slot : asking'[t] \notin Fetches
  BY <1>4, <1>6 DEF UsersInv, LoneFetch
<1>9. /\ Users!Fallback \in [Users!Id -> Users!Fields \cup {Users!None}]
      /\ \A a \in Contact : Users!Fallback[Row(a)] = Users!None
  <2> DEFINE f == [role |-> "ANALYST", active |-> TRUE]
  <2>1. f \in Users!Fields
    <3>1. TRUE \in BOOLEAN
      OBVIOUS
    <3> QED BY <3>1 DEF UsersAssumption, Users!Fields
  <2>2. Users!Fallback = [Users!Nobody EXCEPT ![<<DemoUser, "local">>] = f]
    BY DEF Users!Fallback
  <2> HIDE DEF f
  <2>3. Users!Nobody \in [Users!Id -> Users!Fields \cup {Users!None}]
    BY DEF Users!Nobody
  <2>4. \A a \in Contact : Row(a) \in Users!Id /\ Row(a) # <<DemoUser, "local">>
    BY CardsOf DEF Row
  <2>5. \A a \in Contact : Users!Nobody[Row(a)] = Users!None
    BY <2>4 DEF Users!Nobody
  <2> QED BY <2>1, <2>2, <2>3, <2>4, <2>5
<1>0. Users!Ordered' /\ Fresh' = Fresh
  BY <1>1, <1>3, Typed, OrderSame
<1>10. Users!UsersTypeOK'
  <2>1. asking' \in [Slot -> {Users!Idle} \cup Fetches \cup Changes]
    BY <1>1, <1>3, Typed
  <2>2. clean' \in BOOLEAN /\ empty' \in BOOLEAN
    BY <1>3
  <2>3. after \in [Users!Id -> Users!Fields \cup {Users!None}]
    BY <1>1, <1>2, <1>5, <1>9, Typed
  <2>4. rows' \in [Contact -> Users!Fields \cup {Users!None}] /\ trouble' \in 0..MaxTrouble
        /\ dialog' \in Users!Dialogs
    BY <1>1, <1>3, Typed
  <2> QED BY <1>0, <1>3, <2>1, <2>2, <2>3, <2>4
          DEF Users!UsersTypeOK, Users!Requests, Fetches, Changes
<1>11. CardsHaveRows'
  <2>1. \A a \in Contact : after[Row(a)] # Users!None => rows[a] # Users!None
    <3>1. CASE r.phase = "done"
      BY <1>5, <3>1 DEF UsersInv, CardsHaveRows
    <3>2. CASE r.phase # "done" /\ empty
      BY <1>5, <1>9, <3>2
    <3>3. CASE r.phase # "done" /\ ~empty
      BY <1>5, <3>3 DEF UsersInv, CardsHaveRows
    <3> QED BY <3>1, <3>2, <3>3
  <2>2. dialog' # Users!Closed /\ dialog'.op # "create" /\ dialog'.id[2] = "row" =>
          rows'[dialog'.id[1]] # Users!None
    BY <1>3 DEF UsersInv, CardsHaveRows
  <2>3. \A t \in Slot : asking'[t].op = "create" /\ asking'[t].phase \in {"role", "done"} =>
          rows'[asking'[t].id[1]] # Users!None
    BY <1>3, <1>4, <1>6 DEF UsersInv, CardsHaveRows
  <2> QED BY <1>3, <1>8, <2>1, <2>2, <2>3 DEF CardsHaveRows, Row
<1>12. ChangesAreFilled'
  <2>1. \A t \in Slot : asking'[t] \in Changes => Filled(asking'[t])
    BY <1>7 DEF UsersInv, ChangesAreFilled
  <2>2. \A t \in Slot : asking'[t] \in Changes /\ asking'[t].phase = "role" =>
           asking'[t].op = "create" /\ asking'[t].form.role # "ANALYST"
    BY <1>7 DEF UsersInv, ChangesAreFilled
  <2>3. dialog' # Users!Closed => Filled(dialog')
    BY <1>3 DEF UsersInv, ChangesAreFilled
  <2> QED BY <2>1, <2>2, <2>3 DEF ChangesAreFilled, Asks, Filled
<1>13. LoneFetch'
  BY <1>8 DEF LoneFetch
<1>14. CleanWillAgree'
  <2> SUFFICES ASSUME clean' PROVE CleanWillAgree'
    BY DEF CleanWillAgree
  <2>1. r.phase = "done" /\ r.alone
    BY <1>3
  <2>2. /\ \A t \in Slot : asking[t] # Users!Idle => s = t
        /\ \A a \in Contact :
              /\ r.got[Own(a)] = Users!None
              /\ r.got[Row(a)] = rows[a] \/ (r.got[Row(a)] = Users!None /\ a \notin Fresh)
    BY <2>1 DEF UsersInv, LoneFetch
  <2>3. \A t \in Slot : asking'[t] \notin Changes
    BY <1>4, <1>6, <2>2
  <2>4. \A a \in Contact :
           /\ after[Own(a)] = Users!None
           /\ after[Row(a)] = rows[a] \/ (after[Row(a)] = Users!None /\ a \notin Fresh)
    BY <1>5, <2>1, <2>2
  <2>5. dialog' # Users!Closed /\ dialog'.op = "edit" /\ dialog'.id[2] = "row" =>
              after[dialog'.id] # Users!None \/ dialog'.id[1] \notin Fresh
    <3> SUFFICES ASSUME dialog # Users!Closed, dialog.op = "edit", dialog.id[2] = "row"
                 PROVE  after[dialog.id] # Users!None \/ dialog.id[1] \notin Fresh
      BY <1>3
    <3>1. rows[dialog.id[1]] # Users!None
      BY DEF UsersInv, CardsHaveRows
    <3>2. dialog.id \in Users!Id
      BY <1>1, Typed DEF Users!Dialogs
    <3>3. dialog.id = Row(dialog.id[1]) /\ dialog.id[1] \in Contact
      BY <3>2, CardIs
    <3> QED BY <2>4, <3>1, <3>3
  <2>6. \A a \in Contact : Agreed(a \in Fresh, after[Own(a)], after[Row(a)], rows[a])
    BY <2>4 DEF Agreed, Users!None
  <2>7. rows' = rows /\ shown' = after
    BY <1>3
  <2> QED BY <1>0, <1>8, <2>3, <2>5, <2>6, <2>7
          DEF CleanWillAgree, Asks, Agreed, Row, Own
<1> QED BY <1>10, <1>11, <1>12, <1>13, <1>14 DEF UsersInv

-------------------------------------------------------------------------------
(* The arms of Written, on the row the request finds. *)
LEMMA WrittenIs ==
  ASSUME NEW r
  PROVE  /\ r.op = "create" /\ r.phase = "sent" =>
               Users!Written(r) = [role |-> "VIEWER", active |-> TRUE]
         /\ r.op = "create" /\ r.phase = "role" =>
               Users!Written(r) = [rows[r.id[1]] EXCEPT !.role = r.form.role]
         /\ r.op = "edit" => Users!Written(r) = r.form
         /\ r.op = "toggle" => Users!Written(r) = [rows[r.id[1]] EXCEPT !.active = r.form.active]
         /\ r.op = "delete" => Users!Written(r) = [rows[r.id[1]] EXCEPT !.active = FALSE]
<1>1. r.op = "create" /\ r.phase = "sent" =>
         Users!Written(r) = [role |-> "VIEWER", active |-> TRUE]
  BY DEF Users!Written
<1>2. r.op = "create" /\ r.phase = "role" =>
         Users!Written(r) = [rows[r.id[1]] EXCEPT !.role = r.form.role]
  BY DEF Users!Written
<1>3. r.op = "edit" => Users!Written(r) = r.form
  BY DEF Users!Written
<1>4. r.op = "toggle" => Users!Written(r) = [rows[r.id[1]] EXCEPT !.active = r.form.active]
  BY DEF Users!Written
<1>5. r.op = "delete" => Users!Written(r) = [rows[r.id[1]] EXCEPT !.active = FALSE]
  BY DEF Users!Written
<1> QED BY <1>1, <1>2, <1>3, <1>4, <1>5

LEMMA ServedIs ==
  ASSUME UsersAssumption, UsersInv, NEW s \in Slot, Asks(s),
         asking[s].phase \in {"sent", "role"}, ~Users!Refused(asking[s]),
         NEW p, p = IF asking[s].op = "create" /\ asking[s].phase = "sent"
                       /\ asking[s].form.role # "ANALYST" THEN "role" ELSE "done",
         NEW new \in BOOLEAN, NEW then \in BOOLEAN, then /\ asking[s].op # "create" => new
  PROVE  LET r == asking[s]
             e == r.id[1]
             served == [r EXCEPT !.phase = p]
         IN  /\ Users!Written(r) \in Users!Fields
             /\ WillAgree(r, new, shown[Own(e)], shown[Row(e)], rows[e]) =>
                   WillAgree(served, then, shown[Own(e)], shown[Row(e)], Users!Written(r))
<1> DEFINE r == asking[s]
           e == r.id[1]
           served == [r EXCEPT !.phase = p]
           w == Users!Written(r)
<1>1. /\ Users!UsersTypeOK /\ Filled(r)
      /\ r.phase = "role" => r.op = "create" /\ r.form.role # "ANALYST" /\ rows[e] # Users!None
  BY DEF UsersInv, ChangesAreFilled, CardsHaveRows
<1>2. r.op \in {"create", "edit", "delete", "toggle"} /\ r.id \in Users!Id /\ e \in Contact
      /\ rows[e] \in Users!Fields \cup {Users!None}
      /\ shown[Row(e)] \in Users!Fields \cup {Users!None}
  <2>1. r.op \in {"create", "edit", "delete", "toggle"} /\ r.id \in Users!Id /\ e \in Contact
    BY <1>1, Kinds
  <2>2. Row(e) \in Users!Id
    BY <2>1, CardsOf
  <2> QED BY <1>1, <2>1, <2>2, Typed
<1>3. /\ served.phase = p /\ served.op = r.op /\ served.id = r.id /\ served.form = r.form
  BY DEF Asks, Changes
<1>4. /\ r.op = "create" /\ r.phase = "sent" => rows[e] = Users!None
      /\ r.op # "create" => r.id[2] = "row" /\ rows[e] # Users!None
  BY DEF Users!Refused, Users!Found
<1>5. TRUE \in BOOLEAN /\ FALSE \in BOOLEAN
  OBVIOUS
<1> HIDE DEF e, served, w
<1>6. CASE r.op = "create" /\ r.phase = "sent"
  <2>1. w = [role |-> "VIEWER", active |-> TRUE]
    BY <1>6, WrittenIs DEF w
  <2>2. w \in Users!Fields
    BY <1>5, <2>1 DEF UsersAssumption, Users!Fields
  <2>3. ASSUME WillAgree(r, new, shown[Own(e)], shown[Row(e)], rows[e])
        PROVE  WillAgree(served, then, shown[Own(e)], shown[Row(e)], w)
    <3>1. shown[Own(e)] = Users!None /\ Agreed(new, shown[Own(e)], shown[Row(e)], rows[e])
      BY <1>6, <2>3 DEF WillAgree, Agreed
    <3>2. shown[Row(e)] = Users!None
      BY <1>4, <1>6, <3>1 DEF Agreed
    <3>3. CASE r.form.role # "ANALYST"
      BY <1>3, <1>6, <2>1, <3>1, <3>2, <3>3 DEF WillAgree
    <3>4. CASE r.form.role = "ANALYST"
      <4>1. served.phase = "done"
        BY <1>3, <3>4
      <4>2. w = [role |-> IF served.form.role = "ANALYST" THEN "VIEWER" ELSE served.form.role,
                 active |-> TRUE]
        BY <1>3, <2>1, <3>4
      <4> QED BY <1>3, <1>6, <3>1, <4>1, <4>2 DEF WillAgree
    <3> QED BY <3>3, <3>4
  <2> QED BY <2>2, <2>3 DEF e, w, served
<1>7. CASE r.op = "create" /\ r.phase = "role"
  <2>1. rows[e] \in Users!Fields /\ r.form \in Users!Fields
    BY <1>1, <1>2, <1>7 DEF Filled
  <2>2. w = [rows[e] EXCEPT !.role = r.form.role]
    BY <1>7, WrittenIs DEF w, e
  <2>3. w \in Users!Fields
    BY <2>1, <2>2 DEF Users!Fields
  <2>4. ASSUME WillAgree(r, new, shown[Own(e)], shown[Row(e)], rows[e])
        PROVE  WillAgree(served, then, shown[Own(e)], shown[Row(e)], w)
    <3>1. /\ shown[Own(e)] = Users!None
          /\ rows[e] = [role |-> "VIEWER", active |-> TRUE]
      BY <1>7, <2>4 DEF WillAgree
    <3>2. w = [role |-> r.form.role, active |-> TRUE]
      <4>1. w = [role |-> r.form.role, active |-> rows[e].active]
        BY <2>1, <2>2 DEF Users!Fields
      <4>2. rows[e].active = TRUE
        BY <3>1
      <4> QED BY <4>1, <4>2
    <3>3. served.phase = "done" /\ r.form.role # "ANALYST"
      BY <1>1, <1>3, <1>7
    <3>4. w = [role |-> IF served.form.role = "ANALYST" THEN "VIEWER" ELSE served.form.role,
               active |-> TRUE]
      BY <1>3, <3>2, <3>3
    <3> QED BY <1>3, <1>7, <3>1, <3>3, <3>4 DEF WillAgree
  <2> QED BY <2>3, <2>4 DEF e, w, served
<1>8. CASE r.op = "edit"
  <2>1. w = r.form /\ r.form \in Users!Fields
    BY <1>1, <1>8, WrittenIs DEF w, Filled
  <2>2. ASSUME WillAgree(r, new, shown[Own(e)], shown[Row(e)], rows[e])
        PROVE  WillAgree(served, then, shown[Own(e)], shown[Row(e)], w)
    <3>1. r.phase = "sent" /\ served.phase = "done"
      BY <1>1, <1>3, <1>8
    <3>2. /\ shown[Own(e)] = Users!None /\ r.id[2] = "row"
          /\ shown[Row(e)] # Users!None \/ ~then
      BY <1>4, <1>8, <2>2, <3>1 DEF WillAgree, Agreed
    <3> QED BY <1>3, <1>8, <2>1, <3>1, <3>2 DEF WillAgree
  <2> QED BY <2>1, <2>2 DEF e, w, served
<1>9. CASE r.op = "toggle"
  <2>1. r.form \in Users!Fields /\ rows[e] \in Users!Fields
    BY <1>1, <1>2, <1>4, <1>9 DEF Filled
  <2>2. w = [rows[e] EXCEPT !.active = r.form.active]
    BY <1>9, WrittenIs DEF w, e
  <2>3. w \in Users!Fields /\ w = [role |-> rows[e].role, active |-> r.form.active]
    BY <2>1, <2>2 DEF Users!Fields
  <2>4. ASSUME WillAgree(r, new, shown[Own(e)], shown[Row(e)], rows[e])
        PROVE  WillAgree(served, then, shown[Own(e)], shown[Row(e)], w)
    <3>1. r.phase = "sent" /\ served.phase = "done"
      BY <1>1, <1>3, <1>9
    <3>2. /\ shown[Own(e)] = Users!None /\ r.id[2] = "row"
          /\ shown[Row(e)] = Users!None => ~then
          /\ shown[Row(e)] # Users!None => shown[Row(e)] = rows[e]
      BY <1>4, <1>9, <2>4, <3>1 DEF WillAgree, Agreed
    <3>3. shown[Row(e)] # Users!None =>
            w = [role |-> shown[Row(e)].role, active |-> served.form.active]
      BY <1>3, <2>3, <3>2
    <3> QED BY <1>3, <1>9, <3>1, <3>2, <3>3 DEF WillAgree
  <2> QED BY <2>3, <2>4 DEF e, w, served
<1>10. CASE r.op = "delete"
  <2>1. rows[e] \in Users!Fields
    BY <1>2, <1>4, <1>10
  <2>2. w = [rows[e] EXCEPT !.active = FALSE]
    BY <1>10, WrittenIs DEF w, e
  <2>3. w \in Users!Fields /\ w.active = FALSE
    BY <1>5, <2>1, <2>2 DEF Users!Fields
  <2>4. ASSUME WillAgree(r, new, shown[Own(e)], shown[Row(e)], rows[e])
        PROVE  WillAgree(served, then, shown[Own(e)], shown[Row(e)], w)
    <3>1. r.phase = "sent" /\ served.phase = "done"
      BY <1>1, <1>3, <1>10
    <3>2. shown[Own(e)] = Users!None /\ r.id[2] = "row"
      BY <1>4, <1>10, <2>4, <3>1 DEF WillAgree, Agreed
    <3>3. ~w.active
      BY <2>3
    <3> QED BY <1>3, <1>10, <3>1, <3>2, <3>3 DEF WillAgree
  <2> QED BY <2>3, <2>4 DEF e, w, served
<1> QED BY <1>2, <1>6, <1>7, <1>8, <1>9, <1>10

(* A fetch moves on: it is served, or lost. *)
LEMMA FetchMoves ==
  ASSUME UsersAssumption, UsersInv, NEW s \in Slot, asking[s] \in Fetches, NEW F \in Fetches,
         asking' = [asking EXCEPT ![s] = F], F.alone = asking[s].alone,
         F.phase = "done" =>
            \A a \in Contact :
               /\ F.got[Own(a)] = Users!None
               /\ F.got[Row(a)] = rows[a] \/ (F.got[Row(a)] = Users!None /\ a \notin Fresh),
         \A a \in Contact : F.got[Row(a)] # Users!None => rows[a] # Users!None,
         UNCHANGED <<rows, order, shown, empty, dialog, clean>>, trouble' \in 0..MaxTrouble
  PROVE  UsersInv'
<1>1. Users!UsersTypeOK
  BY DEF UsersInv
<1>2. asking'[s] = F /\ \A t \in Slot : t # s => asking'[t] = asking[t]
  BY <1>1, Typed
<1>3. \A t \in Slot : t # s => asking[t] \notin Fetches
  BY DEF UsersInv, LoneFetch
<1>4. F \notin Changes /\ F.op = "fetch"
  BY DEF Fetches, Changes, Users!FormOp
<1>5. \A t \in Slot : asking'[t] \in Changes => Asks(t) /\ asking'[t] = asking[t]
  BY <1>2, <1>4 DEF Asks
<1>0. Users!Ordered' /\ Fresh' = Fresh
  BY <1>1, Typed, OrderSame
<1>6. Users!UsersTypeOK'
  <2>1. asking' \in [Slot -> {Users!Idle} \cup Fetches \cup Changes]
    BY <1>1, Typed
  <2> QED BY <1>0, <1>1, <2>1 DEF Users!UsersTypeOK, Users!Requests, Fetches, Changes
<1>7. CardsHaveRows'
  <2>1. \A t \in Slot : asking'[t] \in Fetches =>
          \A a \in Contact : asking'[t].got[Row(a)] # Users!None => rows[a] # Users!None
    BY <1>2, <1>3
  <2>2. \A t \in Slot : asking'[t].op = "create" => asking'[t] = asking[t]
    BY <1>2, <1>4
  <2> QED BY <2>1, <2>2 DEF UsersInv, CardsHaveRows, Row
<1>8. ChangesAreFilled'
  BY <1>5 DEF UsersInv, ChangesAreFilled, Asks, Filled
<1>9. LoneFetch'
  <2>1. \A t \in Slot : asking'[t] \in Fetches => t = s
    BY <1>2, <1>3
  <2>2. F.alone => \A t \in Slot : asking'[t] # Users!Idle => s = t
    BY <1>2 DEF UsersInv, LoneFetch
  <2> QED BY <1>0, <1>2, <2>1, <2>2 DEF LoneFetch, Row, Own
<1>10. CleanWillAgree'
  <2>1. ~clean
    BY DEF UsersInv, CleanWillAgree
  <2> QED BY <2>1 DEF CleanWillAgree
<1> QED BY <1>6, <1>7, <1>8, <1>9, <1>10 DEF UsersInv

(* What holds of an account holds when it is no longer new. *)
LEMMA WillStill ==
  ASSUME NEW r, NEW new \in BOOLEAN, NEW then \in BOOLEAN, then => new,
         NEW own, NEW card, NEW held, WillAgree(r, new, own, card, held)
  PROVE  WillAgree(r, then, own, card, held)
  BY DEF WillAgree, Agreed

(* A change moves on: it is served, refused or lost. *)
LEMMA ChangeMoves ==
  ASSUME UsersAssumption, UsersInv, NEW s \in Slot, Asks(s),
         NEW p \in {"role", "done", "failed"}, NEW w \in Users!Fields \cup {Users!None},
         asking' = [asking EXCEPT ![s] = [asking[s] EXCEPT !.phase = p]],
         rows' = [rows EXCEPT ![asking[s].id[1]] = w],
         rows[asking[s].id[1]] # Users!None => w # Users!None,
         asking[s].op = "create" /\ p \in {"role", "done"} => w # Users!None,
         p = "role" => asking[s].op = "create" /\ asking[s].form.role # "ANALYST",
         LET r == asking[s] IN
            WillAgree(r, r.id[1] \in Fresh, shown[Own(r.id[1])], shown[Row(r.id[1])], rows[r.id[1]]) =>
               WillAgree([r EXCEPT !.phase = p], r.id[1] \in Fresh',
                         shown[Own(r.id[1])], shown[Row(r.id[1])], w),
         Users!Ordered',
         \A a \in Contact : a # asking[s].id[1] \/ rows[asking[s].id[1]] # Users!None =>
            (a \in Fresh' => a \in Fresh),
         UNCHANGED <<shown, empty, dialog, clean>>, trouble' \in 0..MaxTrouble
  PROVE  UsersInv'
<1> DEFINE r == asking[s]
           e == r.id[1]
           F == [r EXCEPT !.phase = p]
<1>1. Users!UsersTypeOK
  BY DEF UsersInv
<1>2. F \in Changes /\ F.phase = p /\ F.op = r.op /\ F.id = r.id /\ F.form = r.form
  BY DEF Asks, Changes
<1>3. e \in Contact /\ r # Users!Idle /\ r \notin Fetches
  BY <1>1, Kinds
<1>4. WillAgree(r, e \in Fresh, shown[Own(e)], shown[Row(e)], rows[e]) =>
         WillAgree(F, e \in Fresh', shown[Own(e)], shown[Row(e)], w)
  OBVIOUS
<1>5. F \notin Fetches /\ F # Users!Idle
  BY <1>2 DEF Changes, Fetches, Users!FormOp, Users!Idle
<1>6. asking' = [asking EXCEPT ![s] = F]
  OBVIOUS
<1> HIDE DEF F
<1>7. asking'[s] = F /\ \A t \in Slot : t # s => asking'[t] = asking[t]
  BY <1>1, <1>6, Typed
<1>8. /\ rows' \in [Contact -> Users!Fields \cup {Users!None}]
      /\ rows'[e] = w /\ \A a \in Contact : a # e => rows'[a] = rows[a]
      /\ \A a \in Contact : rows[a] # Users!None => rows'[a] # Users!None
  BY <1>1, <1>3, Typed
<1>9. \A t \in Slot : asking'[t] \in Fetches => t # s /\ asking[t] \in Fetches /\ asking'[t] = asking[t]
  BY <1>5, <1>7
<1>10. \A t \in Slot : asking'[t] \in Changes <=> Asks(t)
  BY <1>2, <1>7 DEF Asks
<1>11. \A t \in Slot : Asks(t) => asking'[t].id = asking[t].id
  BY <1>2, <1>7
<1>12. Users!UsersTypeOK'
  <2>1. asking' \in [Slot -> {Users!Idle} \cup Fetches \cup Changes]
    BY <1>1, <1>2, <1>6, Typed
  <2>2. dialog' \in Users!Dialogs /\ clean' \in BOOLEAN /\ empty' \in BOOLEAN
        /\ shown' \in [Users!Id -> Users!Fields \cup {Users!None}]
    BY <1>1, Typed
  <2> QED BY <1>8, <2>1, <2>2 DEF Users!UsersTypeOK, Users!Requests, Fetches, Changes
<1>13. CardsHaveRows'
  <2>1. \A a \in Contact : shown'[Row(a)] # Users!None => rows'[a] # Users!None
    BY <1>8 DEF UsersInv, CardsHaveRows
  <2>2. dialog' # Users!Closed /\ dialog'.op # "create" /\ dialog'.id[2] = "row" =>
          rows'[dialog'.id[1]] # Users!None
    <3> SUFFICES ASSUME dialog # Users!Closed, dialog.op # "create", dialog.id[2] = "row"
                 PROVE  rows'[dialog.id[1]] # Users!None
      OBVIOUS
    <3>1. dialog.id[1] \in Contact
      BY <1>1, Typed, CardIs DEF Users!Dialogs
    <3> QED BY <1>8, <3>1 DEF UsersInv, CardsHaveRows
  <2>3. \A t \in Slot : asking'[t] \in Fetches =>
          \A a \in Contact : asking'[t].got[Row(a)] # Users!None => rows'[a] # Users!None
    BY <1>8, <1>9 DEF UsersInv, CardsHaveRows
  <2>4. \A t \in Slot : asking'[t].op = "create" /\ asking'[t].phase \in {"role", "done"} =>
          rows'[asking'[t].id[1]] # Users!None
    <3> SUFFICES ASSUME NEW t \in Slot, asking'[t].op = "create", asking'[t].phase \in {"role", "done"}
                 PROVE  rows'[asking'[t].id[1]] # Users!None
      OBVIOUS
    <3>1. CASE t = s
      BY <1>2, <1>7, <1>8, <3>1
    <3>2. CASE t # s
      <4>1. asking'[t] = asking[t] /\ rows[asking[t].id[1]] # Users!None
        BY <1>7, <3>2 DEF UsersInv, CardsHaveRows
      <4>2. asking[t].id[1] \in Contact
        BY <1>1, <4>1, Kinds
      <4> QED BY <1>8, <4>1, <4>2
    <3> QED BY <3>1, <3>2
  <2> QED BY <2>1, <2>2, <2>3, <2>4 DEF CardsHaveRows, Row
<1>14. ChangesAreFilled'
  <2>1. Filled(F)
    BY <1>2 DEF UsersInv, ChangesAreFilled, Filled
  <2>2. \A t \in Slot : asking'[t] \in Changes => Filled(asking'[t])
    BY <1>7, <1>10, <2>1 DEF UsersInv, ChangesAreFilled
  <2>3. \A t \in Slot : asking'[t] \in Changes /\ asking'[t].phase = "role" =>
           asking'[t].op = "create" /\ asking'[t].form.role # "ANALYST"
    BY <1>2, <1>7, <1>10 DEF UsersInv, ChangesAreFilled
  <2>4. dialog' # Users!Closed => Filled(dialog')
    BY DEF UsersInv, ChangesAreFilled
  <2> QED BY <2>2, <2>3, <2>4 DEF ChangesAreFilled, Asks, Filled
<1>15. LoneFetch'
  <2>1. \A t, u \in Slot : asking'[t] \in Fetches /\ asking'[u] \in Fetches => t = u
    BY <1>9 DEF UsersInv, LoneFetch
  <2>2. \A t \in Slot : asking'[t] \in Fetches /\ asking'[t].alone => FALSE
    BY <1>3, <1>9 DEF UsersInv, LoneFetch
  <2> QED BY <2>1, <2>2 DEF LoneFetch
<1>16. CleanWillAgree'
  <2> SUFFICES ASSUME clean PROVE CleanWillAgree'
    BY DEF CleanWillAgree
  <2>1. \A t \in Slot : asking'[t] \notin Fetches
    BY <1>9 DEF UsersInv, CleanWillAgree
  <2>2. \A t, u \in Slot : asking'[t] \in Changes /\ asking'[u] \in Changes
                           /\ asking'[t].id[1] = asking'[u].id[1] => t = u
    BY <1>10, <1>11 DEF UsersInv, CleanWillAgree
  <2>3. dialog' # Users!Closed /\ dialog'.op = "edit" /\ dialog'.id[2] = "row" =>
              shown'[dialog'.id] # Users!None \/ dialog'.id[1] \notin Fresh'
    <3> SUFFICES ASSUME dialog # Users!Closed, dialog.op = "edit", dialog.id[2] = "row"
                 PROVE  shown[dialog.id] # Users!None \/ dialog.id[1] \notin Fresh'
      OBVIOUS
    <3>1. shown[dialog.id] # Users!None \/ dialog.id[1] \notin Fresh
      BY DEF UsersInv, CleanWillAgree
    <3>2. dialog.id[1] \in Contact /\ rows[dialog.id[1]] # Users!None
      BY <1>1, Typed, CardIs DEF Users!Dialogs, UsersInv, CardsHaveRows
    <3> QED BY <3>1, <3>2
  <2>4. \A t \in Slot : Asks(t) /\ t # s => asking[t].id[1] # e /\ asking[t].id[1] \in Contact
    BY <1>1, Kinds DEF UsersInv, CleanWillAgree
  <2>5. \A a \in Contact : (\A t \in Slot : asking'[t] \in Changes => asking'[t].id[1] # a) =>
              Agreed(a \in Fresh', shown[Own(a)], shown[Row(a)], rows'[a])
    <3> SUFFICES ASSUME NEW a \in Contact,
                        \A t \in Slot : asking'[t] \in Changes => asking'[t].id[1] # a
                 PROVE  Agreed(a \in Fresh', shown[Own(a)], shown[Row(a)], rows'[a])
      OBVIOUS
    <3>1. a # e
      BY <1>2, <1>7
    <3>2. \A t \in Slot : Asks(t) => asking[t].id[1] # a
      BY <1>10, <1>11
    <3>3. Agreed(a \in Fresh, shown[Own(a)], shown[Row(a)], rows[a])
      BY <3>2 DEF UsersInv, CleanWillAgree
    <3>4. a \in Fresh' => a \in Fresh
      BY <3>1
    <3> QED BY <1>8, <3>1, <3>3, <3>4 DEF Agreed
  <2>6. \A t \in Slot : asking'[t] \in Changes =>
              WillAgree(asking'[t], asking'[t].id[1] \in Fresh', shown[Own(asking'[t].id[1])],
                        shown[Row(asking'[t].id[1])], rows'[asking'[t].id[1]])
    <3> SUFFICES ASSUME NEW t \in Slot, Asks(t)
                 PROVE  WillAgree(asking'[t], asking'[t].id[1] \in Fresh', shown[Own(asking'[t].id[1])],
                                  shown[Row(asking'[t].id[1])], rows'[asking'[t].id[1]])
      BY <1>10
    <3>1. WillAgree(asking[t], asking[t].id[1] \in Fresh, shown[Own(asking[t].id[1])],
                    shown[Row(asking[t].id[1])], rows[asking[t].id[1]])
      BY DEF UsersInv, CleanWillAgree
    <3>2. CASE t = s
      <4>1. asking'[t] = F /\ asking'[t].id[1] = e
        BY <1>2, <1>7, <3>2
      <4>2. WillAgree(r, e \in Fresh, shown[Own(e)], shown[Row(e)], rows[e])
        BY <3>1, <3>2
      <4>3. WillAgree(F, e \in Fresh', shown[Own(e)], shown[Row(e)], w)
        BY <1>4, <4>2
      <4> QED BY <1>8, <4>1, <4>3
    <3>3. CASE t # s
      <4>1. asking[t].id[1] \in Contact /\ asking[t].id[1] # e
        BY <2>4, <3>3
      <4>2. asking[t].id[1] \in Fresh' => asking[t].id[1] \in Fresh
        BY <4>1
      <4>3. asking'[t] = asking[t] /\ rows'[asking[t].id[1]] = rows[asking[t].id[1]]
        BY <1>7, <1>8, <3>3, <4>1
      <4>4. /\ (asking[t].id[1] \in Fresh) \in BOOLEAN
            /\ (asking[t].id[1] \in Fresh') \in BOOLEAN
        OBVIOUS
      <4>5. WillAgree(asking[t], asking[t].id[1] \in Fresh', shown[Own(asking[t].id[1])],
                      shown[Row(asking[t].id[1])], rows[asking[t].id[1]])
        BY <3>1, <4>2, <4>4, WillStill
      <4> QED BY <4>3, <4>5
    <3> QED BY <3>2, <3>3
  <2>7. shown' = shown
    OBVIOUS
  <2>8. (\A a \in Contact : (\A t \in Slot : Asks(t) => asking[t].id[1] # a) =>
              Agreed(a \in Fresh, shown[Own(a)], shown[Row(a)], rows[a]))'
    BY <2>5, <2>7 DEF Asks, Agreed, Row, Own
  <2>9. (\A t \in Slot : Asks(t) =>
            WillAgree(asking[t], asking[t].id[1] \in Fresh, shown[Own(asking[t].id[1])],
                      shown[Row(asking[t].id[1])], rows[asking[t].id[1]]))'
    BY <2>6, <2>7 DEF Asks, Agreed, WillAgree, Row, Own
  <2> QED BY <2>1, <2>2, <2>3, <2>8, <2>9 DEF CleanWillAgree, Asks
<1> QED BY <1>12, <1>13, <1>14, <1>15, <1>16 DEF UsersInv

(* A row that is written as it was. *)
LEMMA SameRow ==
  ASSUME Users!UsersTypeOK, NEW e \in Contact
  PROVE  rows = [rows EXCEPT ![e] = rows[e]] /\ rows[e] \in Users!Fields \cup {Users!None}
  BY Typed

(* What a failed request says of the cards: nothing. *)
LEMMA FailedWillAgree ==
  ASSUME NEW s \in Slot, Asks(s), NEW new, NEW own, NEW card, NEW held
  PROVE  WillAgree([asking[s] EXCEPT !.phase = "failed"], new, own, card, held)
<1>1. [asking[s] EXCEPT !.phase = "failed"].phase = "failed"
  BY DEF Asks, Changes
<1> QED BY <1>1 DEF WillAgree

LEMMA ServeKeeps ==
  ASSUME UsersAssumption, UsersInv, NEW s \in Slot, Users!Serve(s)
  PROVE  UsersInv'
<1> DEFINE r == asking[s]
           e == r.id[1]
<1>1. Users!UsersTypeOK
  BY DEF UsersInv
<1>2. /\ r # Users!Idle /\ r.phase \in {"sent", "role"}
      /\ UNCHANGED <<shown, empty, dialog, clean, trouble>>
  BY DEF Users!Serve, Users!Busy
<1>3. trouble' \in 0..MaxTrouble
  BY <1>1, <1>2, Typed
<1>4. CASE r \in Fetches
  <2> DEFINE F == [r EXCEPT !.phase = "done", !.got = Users!Listed(rows)]
  <2>1. rows' = rows /\ order' = order /\ asking' = [asking EXCEPT ![s] = F]
    <3>1. r.op = "fetch"
      BY <1>1, <1>4, Kinds
    <3>2. asking' = [asking EXCEPT ![s].phase = "done", ![s].got = Users!Listed(rows)]
          /\ rows' = rows /\ order' = order
      BY <3>1 DEF Users!Serve
    <3> QED BY <3>2, Zenon
  <2>2. F \in Fetches /\ F.got = Users!Listed(rows) /\ F.alone = r.alone
    BY <1>1, <1>4, Typed, ListedRows DEF Fetches
  <2> HIDE DEF F
  <2>3. \A a \in Contact :
           /\ F.got[Own(a)] = Users!None
           /\ F.got[Row(a)] = rows[a] \/ (F.got[Row(a)] = Users!None /\ a \notin Fresh)
    <3>1. \A a \in Contact : /\ Users!Listed(rows)[Own(a)] = Users!None
                              /\ Users!Listed(rows)[Row(a)]
                                    = IF a \in Fresh THEN rows[a] ELSE Users!None
      BY <1>1, Typed, ListedRows
    <3>2. F.got = Users!Listed(rows)
      BY <2>2
    <3> DEFINE L == Users!Listed(rows)
    <3>3. F.got = L /\ \A a \in Contact : /\ L[Own(a)] = Users!None
                                          /\ L[Row(a)] = IF a \in Fresh THEN rows[a] ELSE Users!None
      BY <3>1, <3>2
    <3> HIDE DEF L
    <3> QED BY <3>3
  <2>4. \A a \in Contact : F.got[Row(a)] # Users!None => rows[a] # Users!None
    BY <2>3
  <2> QED BY <1>2, <1>3, <1>4, <2>1, <2>2, <2>3, <2>4, FetchMoves
<1>5. CASE Asks(s) /\ Users!Refused(r)
  <2>1. r.op # "fetch" /\ e \in Contact
    BY <1>1, <1>5, Kinds
  <2>2. asking' = [asking EXCEPT ![s].phase = "failed"] /\ rows' = rows /\ order' = order
    BY <1>5, <2>1 DEF Users!Serve
  <2>3. asking' = [asking EXCEPT ![s] = [r EXCEPT !.phase = "failed"]]
    BY <2>2, Zenon
  <2>4. rows' = [rows EXCEPT ![e] = rows[e]] /\ rows[e] \in Users!Fields \cup {Users!None}
    BY <1>1, <2>1, <2>2, SameRow
  <2>5. WillAgree([r EXCEPT !.phase = "failed"], e \in Fresh', shown[Own(e)], shown[Row(e)], rows[e])
    BY <1>5, FailedWillAgree
  <2>6. Users!Ordered' /\ Fresh' = Fresh
    BY <1>1, <2>2, Typed, OrderSame
  <2> HIDE DEF e
  <2> QED BY <1>2, <1>3, <1>5, <2>3, <2>4, <2>5, <2>6, ChangeMoves DEF e
<1>6. CASE Asks(s) /\ ~Users!Refused(r)
  <2> DEFINE p == IF r.op = "create" /\ r.phase = "sent" /\ r.form.role # "ANALYST"
                  THEN "role" ELSE "done"
             w == Users!Written(r)
  <2>1. r.op # "fetch" /\ e \in Contact
    BY <1>1, <1>6, Kinds
  <2>2. /\ rows' = [rows EXCEPT ![e] = w]
        /\ order' = IF rows[e] = Users!None THEN Append(order, e) ELSE order
        /\ asking' = [asking EXCEPT ![s].phase =
                         IF r.op = "create" /\ @ = "sent" /\ r.form.role # "ANALYST" THEN "role" ELSE "done"]
    BY <1>6, <2>1 DEF Users!Serve
  <2>3. asking' = [asking EXCEPT ![s] = [r EXCEPT !.phase = p]]
    BY <2>2, Zenon
  <2>4. p \in {"role", "done", "failed"} /\ (p = "role" => r.op = "create" /\ r.form.role # "ANALYST")
    OBVIOUS
  <2>5. w \in Users!Fields /\ w # Users!None
    <3>1. /\ TRUE \in BOOLEAN
          /\ p = IF r.op = "create" /\ r.phase = "sent" /\ r.form.role # "ANALYST"
                 THEN "role" ELSE "done"
      OBVIOUS
    <3> HIDE DEF p
    <3>2. w \in Users!Fields
      BY <1>2, <1>6, <3>1, ServedIs
    <3> QED BY <3>2, FieldsAreSome
  <2>6. /\ Users!Ordered'
        /\ \A a \in Contact : a # e \/ rows[e] # Users!None => (a \in Fresh' => a \in Fresh)
    <3> HIDE DEF w, e, p
    <3> QED BY <1>1, <2>1, <2>2, <2>5, OrderGrows
  <2>7. r.op # "create" => rows[e] # Users!None
    BY <1>6 DEF Users!Refused, Users!Found
  <2>8. WillAgree(r, e \in Fresh, shown[Own(e)], shown[Row(e)], rows[e]) =>
              WillAgree([r EXCEPT !.phase = p], e \in Fresh', shown[Own(e)], shown[Row(e)], w)
    <3>1. /\ (e \in Fresh) \in BOOLEAN /\ (e \in Fresh') \in BOOLEAN
          /\ e \in Fresh' /\ r.op # "create" => e \in Fresh
      BY <2>1, <2>6, <2>7
    <3>2. p = IF r.op = "create" /\ r.phase = "sent" /\ r.form.role # "ANALYST"
              THEN "role" ELSE "done"
      OBVIOUS
    <3> HIDE DEF p
    <3> QED BY <1>2, <1>6, <3>1, <3>2, ServedIs
  <2> HIDE DEF p, w, e
  <2> QED BY <1>2, <1>3, <1>6, <2>2, <2>3, <2>4, <2>5, <2>6, <2>8, ChangeMoves DEF e
<1> QED BY <1>1, <1>2, <1>4, <1>5, <1>6, Kinds

LEMMA FailKeeps ==
  ASSUME UsersAssumption, UsersInv, NEW s \in Slot, Users!Fail(s)
  PROVE  UsersInv'
<1> DEFINE r == asking[s]
           e == r.id[1]
<1>1. Users!UsersTypeOK
  BY DEF UsersInv
<1>2. /\ r # Users!Idle /\ asking' = [asking EXCEPT ![s].phase = "failed"]
      /\ UNCHANGED <<rows, order, shown, empty, dialog, clean>>
  BY DEF Users!Fail, Users!Busy
<1>3. trouble' \in 0..MaxTrouble
  BY <1>1, Typed DEF Users!Fail, UsersAssumption
<1>4. asking' = [asking EXCEPT ![s] = [r EXCEPT !.phase = "failed"]]
  BY <1>2, Zenon
<1>5. CASE r \in Fetches
  <2> DEFINE F == [r EXCEPT !.phase = "failed"]
  <2>1. F \in Fetches /\ F.got = r.got /\ F.alone = r.alone /\ F.phase = "failed"
    BY <1>5 DEF Fetches
  <2>2. asking' = [asking EXCEPT ![s] = F]
    BY <1>4
  <2> HIDE DEF F
  <2>3. \A a \in Contact : F.got[Row(a)] # Users!None => rows[a] # Users!None
    BY <1>5, <2>1 DEF UsersInv, CardsHaveRows
  <2> QED BY <1>2, <1>3, <1>5, <2>1, <2>2, <2>3, FetchMoves
<1>6. CASE Asks(s)
  <2>1. e \in Contact
    BY <1>1, <1>6, Kinds
  <2>2. rows' = [rows EXCEPT ![e] = rows[e]] /\ rows[e] \in Users!Fields \cup {Users!None}
    BY <1>1, <1>2, <2>1, SameRow
  <2>3. WillAgree([r EXCEPT !.phase = "failed"], e \in Fresh', shown[Own(e)], shown[Row(e)], rows[e])
    BY <1>6, FailedWillAgree
  <2>4. Users!Ordered' /\ Fresh' = Fresh
    BY <1>1, <1>2, Typed, OrderSame
  <2> HIDE DEF e
  <2> QED BY <1>2, <1>3, <1>4, <1>6, <2>2, <2>3, <2>4, ChangeMoves DEF e
<1> QED BY <1>1, <1>2, <1>5, <1>6, Kinds

LEMMA OthersKeep ==
  ASSUME UsersAssumption, UsersInv, NEW e \in Contact, NEW f \in Users!Fields, Users!Others(e, f)
  PROVE  UsersInv'
<1>1. Users!UsersTypeOK
  BY DEF UsersInv
<1>2. /\ rows' = [rows EXCEPT ![e] = f] /\ f # Users!None
      /\ order' = IF rows[e] = Users!None THEN Append(order, e) ELSE order
      /\ asking' = Users!Disturbed /\ clean' = FALSE
      /\ UNCHANGED <<shown, empty, dialog>>
  BY FieldsAreSome DEF Users!Others
<1>3. trouble' \in 0..MaxTrouble
  BY <1>1, Typed DEF Users!Others, UsersAssumption
<1>4. /\ rows' \in [Contact -> Users!Fields \cup {Users!None}]
      /\ \A a \in Contact : rows[a] # Users!None => rows'[a] # Users!None
  BY <1>1, <1>2, Typed, FieldsAreSome
<1>5. \A t \in Slot : asking'[t] \in Fetches =>
         asking[t] \in Fetches /\ asking'[t].alone = FALSE /\ asking'[t].got = asking[t].got
  <2>1. \A t \in Slot : asking[t] \in Fetches =>
           asking'[t].alone = FALSE /\ asking'[t].got = asking[t].got
    BY <1>1, <1>2, DisturbedIs
  <2>2. \A t \in Slot : asking[t] \notin Fetches => asking'[t] = asking[t]
    BY <1>1, <1>2, DisturbedIs
  <2> QED BY <2>1, <2>2
<1>6. \A t \in Slot : asking'[t] \notin Fetches => asking'[t] = asking[t]
  BY <1>1, <1>2, DisturbedIs
<1>7. \A q \in Fetches : q \notin Changes /\ q.op = "fetch"
  BY DEF Fetches, Changes, Users!FormOp
<1>8. Users!UsersTypeOK'
  <2>1. asking' \in [Slot -> {Users!Idle} \cup Fetches \cup Changes]
    BY <1>1, <1>2, DisturbedIs
  <2>2. dialog' \in Users!Dialogs /\ clean' \in BOOLEAN /\ empty' \in BOOLEAN
        /\ shown' \in [Users!Id -> Users!Fields \cup {Users!None}]
    BY <1>1, <1>2, Typed
  <2>3. Users!Ordered'
    BY <1>1, <1>2, OrderGrows
  <2> QED BY <1>3, <1>4, <2>1, <2>2, <2>3 DEF Users!UsersTypeOK, Users!Requests, Fetches, Changes
<1>9. CardsHaveRows'
  <2>1. \A a \in Contact : shown'[Row(a)] # Users!None => rows'[a] # Users!None
    BY <1>2, <1>4 DEF UsersInv, CardsHaveRows
  <2>2. dialog' # Users!Closed /\ dialog'.op # "create" /\ dialog'.id[2] = "row" =>
          rows'[dialog'.id[1]] # Users!None
    <3> SUFFICES ASSUME dialog # Users!Closed, dialog.op # "create", dialog.id[2] = "row"
                 PROVE  rows'[dialog.id[1]] # Users!None
      BY <1>2
    <3>1. dialog.id[1] \in Contact
      BY <1>1, Typed, CardIs DEF Users!Dialogs
    <3> QED BY <1>4, <3>1 DEF UsersInv, CardsHaveRows
  <2>3. \A t \in Slot : asking'[t] \in Fetches =>
          \A a \in Contact : asking'[t].got[Row(a)] # Users!None => rows'[a] # Users!None
    BY <1>4, <1>5 DEF UsersInv, CardsHaveRows
  <2>4. \A t \in Slot : asking'[t].op = "create" /\ asking'[t].phase \in {"role", "done"} =>
          rows'[asking'[t].id[1]] # Users!None
    <3> SUFFICES ASSUME NEW t \in Slot, asking'[t].op = "create", asking'[t].phase \in {"role", "done"}
                 PROVE  rows'[asking'[t].id[1]] # Users!None
      OBVIOUS
    <3>1. asking'[t] \notin Fetches
      BY <1>7
    <3>2. asking'[t] = asking[t] /\ rows[asking[t].id[1]] # Users!None
      BY <1>6, <3>1 DEF UsersInv, CardsHaveRows
    <3>3. asking[t].id[1] \in Contact
      BY <1>1, <3>2, Kinds
    <3> QED BY <1>4, <3>2, <3>3
  <2> QED BY <2>1, <2>2, <2>3, <2>4 DEF CardsHaveRows, Row
<1>10. ChangesAreFilled'
  <2>1. \A t \in Slot : asking'[t] \in Changes => Asks(t) /\ asking'[t] = asking[t]
    BY <1>6, <1>7 DEF Asks
  <2> QED BY <1>2, <2>1 DEF UsersInv, ChangesAreFilled, Asks, Filled
<1>11. LoneFetch'
  <2>1. \A t, u \in Slot : asking'[t] \in Fetches /\ asking'[u] \in Fetches => t = u
    BY <1>5 DEF UsersInv, LoneFetch
  <2>2. \A t \in Slot : asking'[t] \in Fetches => ~asking'[t].alone
    BY <1>5
  <2> QED BY <2>1, <2>2 DEF LoneFetch
<1>12. CleanWillAgree'
  BY <1>2 DEF CleanWillAgree
<1> QED BY <1>8, <1>9, <1>10, <1>11, <1>12 DEF UsersInv

-------------------------------------------------------------------------------
(* Another account takes a place in the order: some are no longer new. *)
LEMMA RegisteredKeeps ==
  ASSUME UsersAssumption, UsersInv, NEW x \in Stranger, Users!Registered(x)
  PROVE  UsersInv'
<1>1. Users!UsersTypeOK /\ x \notin Contact
  BY DEF UsersInv, UsersAssumption
<1>2. /\ UNCHANGED <<rows, shown, empty, dialog, asking, clean>>
      /\ order' = Append(order, x)
  BY DEF Users!Registered
<1>3. /\ order' \in Seq(Contact \cup Stranger)
      /\ \A a \in Contact : Users!Made(a)' <=> Users!Made(a)
      /\ \A a \in Contact : a \in Fresh' => a \in Fresh
  BY <1>1, <1>2, Typed, Appended
<1>4. Users!Ordered'
  BY <1>1, <1>2, <1>3, Typed DEF Users!Ordered
<1>5. Users!UsersTypeOK'
  <2>1. trouble' \in 0..MaxTrouble
    BY <1>1, Typed DEF Users!Registered, UsersAssumption
  <2> QED BY <1>1, <1>2, <1>4, <2>1 DEF Users!UsersTypeOK, Users!Requests
<1>6. CardsHaveRows' /\ ChangesAreFilled'
  BY <1>2 DEF UsersInv, CardsHaveRows, ChangesAreFilled, Asks, Filled, Row
<1>7. LoneFetch'
  BY <1>2, <1>3 DEF UsersInv, LoneFetch, Row, Own
<1>8. CleanWillAgree'
  <2> SUFFICES ASSUME clean PROVE CleanWillAgree'
    BY <1>2 DEF CleanWillAgree
  <2>1. /\ \A s \in Slot : asking[s] \notin Fetches
        /\ \A s, t \in Slot : Asks(s) /\ Asks(t) /\ asking[s].id[1] = asking[t].id[1] => s = t
    BY DEF UsersInv, CleanWillAgree
  <2>2. dialog # Users!Closed /\ dialog.op = "edit" /\ dialog.id[2] = "row" =>
              shown[dialog.id] # Users!None \/ dialog.id[1] \notin Fresh'
    <3> SUFFICES ASSUME dialog # Users!Closed, dialog.op = "edit", dialog.id[2] = "row"
                 PROVE  shown[dialog.id] # Users!None \/ dialog.id[1] \notin Fresh'
      OBVIOUS
    <3>1. shown[dialog.id] # Users!None \/ dialog.id[1] \notin Fresh
      BY DEF UsersInv, CleanWillAgree
    <3>2. dialog.id[1] \in Contact
      BY <1>1, Typed, CardIs DEF Users!Dialogs
    <3> QED BY <1>3, <3>1, <3>2
  <2>3. \A a \in Contact : (\A s \in Slot : Asks(s) => asking[s].id[1] # a) =>
              Agreed(a \in Fresh', shown[Own(a)], shown[Row(a)], rows[a])
    BY <1>3 DEF UsersInv, CleanWillAgree, Agreed
  <2>4. \A s \in Slot : Asks(s) =>
              WillAgree(asking[s], asking[s].id[1] \in Fresh', shown[Own(asking[s].id[1])],
                        shown[Row(asking[s].id[1])], rows[asking[s].id[1]])
    <3> SUFFICES ASSUME NEW s \in Slot, Asks(s)
                 PROVE  WillAgree(asking[s], asking[s].id[1] \in Fresh', shown[Own(asking[s].id[1])],
                                  shown[Row(asking[s].id[1])], rows[asking[s].id[1]])
      OBVIOUS
    <3>1. WillAgree(asking[s], asking[s].id[1] \in Fresh, shown[Own(asking[s].id[1])],
                    shown[Row(asking[s].id[1])], rows[asking[s].id[1]])
      BY DEF UsersInv, CleanWillAgree
    <3>2. asking[s].id[1] \in Fresh' => asking[s].id[1] \in Fresh
      BY <1>1, <1>3, Kinds
    <3>3. (asking[s].id[1] \in Fresh) \in BOOLEAN /\ (asking[s].id[1] \in Fresh') \in BOOLEAN
      OBVIOUS
    <3> QED BY <3>1, <3>2, <3>3, WillStill
  <2> QED BY <1>2, <2>1, <2>2, <2>3, <2>4 DEF CleanWillAgree, Asks, Agreed, WillAgree, Row, Own
<1> QED BY <1>5, <1>6, <1>7, <1>8 DEF UsersInv

LEMMA UsersNext ==
  ASSUME UsersAssumption, UsersInv, [Users!Next]_(Users!vars)
  PROVE  UsersInv'
<1>1. ASSUME NEW s \in Slot, Users!FetchUsers(s) PROVE UsersInv'
  BY <1>1, FetchKeeps
<1>2. ASSUME NEW s \in Slot, Users!Submit(s) PROVE UsersInv'
  BY <1>2, SubmitKeeps
<1>3. ASSUME NEW s \in Slot, Users!Land(s) PROVE UsersInv'
  <2>1. asking[s] # Users!Idle /\ Users!UsersTypeOK
    BY <1>3 DEF Users!Land, Users!Busy, UsersInv
  <2>2. asking[s] \in Fetches \/ Asks(s)
    BY <2>1, Kinds
  <2> QED BY <1>3, <2>2, LandFetchKeeps, LandChangeKeeps
<1>4. ASSUME NEW s \in Slot, Users!Serve(s) PROVE UsersInv'
  BY <1>4, ServeKeeps
<1>5. ASSUME NEW s \in Slot, Users!Fail(s) PROVE UsersInv'
  BY <1>5, FailKeeps
<1>6. ASSUME NEW e \in Contact, Users!OpenCreate(e) PROVE UsersInv'
  BY <1>6, DialogKeeps
<1>7. ASSUME NEW id \in Users!Id, Users!OpenEdit(id) \/ Users!OpenDelete(id) PROVE UsersInv'
  BY <1>7, DialogKeeps
<1>8. ASSUME NEW id \in Users!Id, NEW s \in Slot, Users!ToggleStatus(s, id) PROVE UsersInv'
  BY <1>8, ToggleKeeps
<1>9. ASSUME Users!Cancel PROVE UsersInv'
  BY <1>9, DialogKeeps
<1>10. ASSUME NEW e \in Contact, NEW f \in Users!Fields, Users!Others(e, f) PROVE UsersInv'
  BY <1>10, OthersKeep
<1>12. ASSUME NEW x \in Stranger, Users!Registered(x) PROVE UsersInv'
  BY <1>12, RegisteredKeeps
<1>11. ASSUME UNCHANGED Users!vars PROVE UsersInv'
  <2>1. UNCHANGED <<rows, order, shown, empty, dialog, asking, clean, trouble>>
    BY <1>11 DEF Users!vars
  <2>0. Users!Ordered' /\ Fresh' = Fresh
    BY <2>1, OrderSame DEF UsersInv, Users!UsersTypeOK
  <2>2. /\ Users!UsersTypeOK'
        /\ CardsHaveRows' <=> CardsHaveRows
        /\ ChangesAreFilled' <=> ChangesAreFilled
    BY <2>0, <2>1 DEF UsersInv, Users!UsersTypeOK, CardsHaveRows, ChangesAreFilled, Asks, Filled, Row
  <2>3. LoneFetch' <=> LoneFetch
    BY <2>0, <2>1 DEF LoneFetch, Row, Own
  <2>4. CleanWillAgree' <=> CleanWillAgree
    BY <2>0, <2>1 DEF CleanWillAgree, Asks, Agreed, WillAgree, Row, Own
  <2> QED BY <2>2, <2>3, <2>4 DEF UsersInv
<1> QED BY <1>1, <1>2, <1>3, <1>4, <1>5, <1>6, <1>7, <1>8, <1>9, <1>10, <1>11, <1>12 DEF Users!Next

(* A page at rest on a clean history agrees with the rows. *)
LEMMA UsersShown == ASSUME UsersInv PROVE Users!ShownIsStored
<1> SUFFICES ASSUME clean, \A s \in Slot : asking[s] = Users!Idle, NEW e \in Contact
             PROVE  /\ shown[Own(e)] = Users!None
                    /\ IF shown[Row(e)] = Users!None THEN ~(rows[e].active /\ Users!Newest(e))
                       ELSE shown[Row(e)] = rows[e]
  BY DEF Users!ShownIsStored, Users!Busy, Row, Own
<1>1. \A s \in Slot : ~Asks(s)
  BY Kinds DEF UsersInv
<1>2. Agreed(e \in Fresh, shown[Own(e)], shown[Row(e)], rows[e])
  BY <1>1 DEF UsersInv, CleanWillAgree
<1> QED BY <1>2 DEF Agreed, Fresh

(* users/page.tsx: however the page's requests interleave, a page at rest  *)
(* with a clean history since a lone fetch shows the accounts stored, as   *)
(* far as the backend lists them: the newest UserLimit.                    *)
THEOREM CleanCardsAreRows == ASSUME UsersAssumption PROVE Users!Spec => []Users!ShownIsStored
<1>1. Users!Init => UsersInv
  BY UsersInit
<1>2. UsersInv /\ [Users!Next]_(Users!vars) => UsersInv'
  BY UsersNext
<1>3. UsersInv => Users!ShownIsStored
  BY UsersShown
<1> QED BY <1>1, <1>2, <1>3, PTL DEF Users!Spec

-------------------------------------------------------------------------------
(* ReportForm.  The numbers on their way and those shown are of the form   *)
(* as it is, unless an edit of the range has said otherwise.               *)
FormInv ==
    /\ Form!FormTypeOK
    /\ preview.same => preview.payload = Form!PreviewPayload(filled)
    /\ current => strip = Form!GeneratePayload(filled)
    /\ Form!TitleNamesType

FormAssumption == \A t \in ReportType : t \notin {"own", "alike", "blank", "empty"}

(* A form that an edit may leave: its title names no other type, and the   *)
(* range is what Edit compares.                                            *)
LEMMA PayloadTyped ==
  ASSUME Form!FormTypeOK
  PROVE  Form!PreviewPayload(filled) \in Form!Payload /\ Form!GeneratePayload(filled) \in Form!Payload
<1>1. ASSUME NEW b \in BOOLEAN PROVE Form!Ranged(filled, b) \in Form!Payload
  BY DEF Form!FormTypeOK, Form!Ranged, Form!Payload, Form!NoDate
<1>2. filled.custom \in BOOLEAN
  BY DEF Form!FormTypeOK
<1> QED BY <1>1, <1>2 DEF Form!PreviewPayload, Form!GeneratePayload

LEMMA FormInit == ASSUME FormAssumption PROVE Form!Init => FormInv
<1> SUFFICES ASSUME Form!Init PROVE FormInv
  OBVIOUS
<1>1. PICK t \in ReportType :
        filled = [type |-> t, format |-> "PDF", title |-> Form!Suggested(t), custom |-> FALSE,
                  start |-> Form!NoDate, end |-> Form!NoDate]
  BY DEF Form!Init
<1>2. /\ opened = FALSE /\ current = FALSE /\ preview = Form!Idle
      /\ strip = Form!None /\ generating = Form!None
  BY DEF Form!Init
<1>3. FALSE \in BOOLEAN
  OBVIOUS
<1>4. filled \in [type : ReportType, format : Form!Format, title : Form!Title, custom : BOOLEAN,
                  start : PickDate \cup {Form!NoDate}, end : PickDate \cup {Form!NoDate}]
  BY <1>1, <1>3 DEF Form!Title, Form!Format
<1>5. preview \in [payload : Form!Payload \cup {Form!None}, same : BOOLEAN] /\ ~preview.same
  BY <1>2, <1>3 DEF Form!Idle
<1>6. Form!FormTypeOK
  BY <1>2, <1>3, <1>4, <1>5 DEF Form!FormTypeOK
<1>7. Form!TitleNamesType
  BY <1>1 DEF Form!TitleNamesType, Form!Suggested
<1> QED BY <1>2, <1>5, <1>6, <1>7 DEF FormInv

(* An edit keeps what it does not make old. *)
LEMMA EditKeeps ==
  ASSUME FormAssumption, FormInv,
         NEW new \in [type : ReportType, format : Form!Format, title : Form!Title, custom : BOOLEAN,
                      start : PickDate \cup {Form!NoDate}, end : PickDate \cup {Form!NoDate}],
         new.title.of \in ReportType => new.title.of = new.type,
         Form!Edit(new)
  PROVE  FormInv'
<1>1. filled' = new /\ UNCHANGED <<opened, strip, generating>>
  BY DEF Form!Edit
<1>2. Form!FormTypeOK
  BY DEF FormInv
<1>3. Form!TitleNamesType'
  BY <1>1 DEF Form!TitleNamesType
<1>4. CASE /\ new.type = filled.type /\ new.custom = filled.custom
           /\ new.start = filled.start /\ new.end = filled.end
  <2>1. UNCHANGED <<preview, current>>
    BY <1>4 DEF Form!Edit
  <2>2. Form!PreviewPayload(new) = Form!PreviewPayload(filled)
        /\ Form!GeneratePayload(new) = Form!GeneratePayload(filled)
    BY <1>4 DEF Form!PreviewPayload, Form!GeneratePayload, Form!Ranged
  <2>3. Form!FormTypeOK'
    BY <1>1, <1>2, <2>1 DEF Form!FormTypeOK
  <2>4. Form!PreviewPayload(filled)' = Form!PreviewPayload(new)
        /\ Form!GeneratePayload(filled)' = Form!GeneratePayload(new)
    BY <1>1 DEF Form!PreviewPayload, Form!GeneratePayload, Form!Ranged
  <2> QED BY <1>1, <1>3, <2>1, <2>2, <2>3, <2>4 DEF FormInv
<1>5. CASE ~(/\ new.type = filled.type /\ new.custom = filled.custom
             /\ new.start = filled.start /\ new.end = filled.end)
  <2>1. preview' = [preview EXCEPT !.same = FALSE] /\ current' = FALSE
    BY <1>5 DEF Form!Edit
  <2>2. FALSE \in BOOLEAN
    OBVIOUS
  <2>3. preview' \in [payload : Form!Payload \cup {Form!None}, same : BOOLEAN] /\ ~preview'.same
    BY <1>2, <2>1, <2>2 DEF Form!FormTypeOK
  <2>4. Form!FormTypeOK'
    BY <1>1, <1>2, <2>1, <2>2, <2>3 DEF Form!FormTypeOK
  <2> QED BY <1>3, <2>1, <2>3, <2>4 DEF FormInv
<1> QED BY <1>4, <1>5

LEMMA FieldKeeps ==
  ASSUME FormAssumption, FormInv,
         \/ \E t \in ReportType : Form!SetType(t)
         \/ \E f \in Form!Format : Form!SetFormat(f)
         \/ \E title \in Form!Typed : Form!SetTitle(title)
         \/ \E d \in PickDate \cup {Form!NoDate} :
               Form!SetDateRangeStart(d) \/ Form!SetDateRangeEnd(d)
         \/ Form!SetUseCustomRange
  PROVE  FormInv'
<1> DEFINE Sheets == [type : ReportType, format : Form!Format, title : Form!Title, custom : BOOLEAN,
                      start : PickDate \cup {Form!NoDate}, end : PickDate \cup {Form!NoDate}]
<1>1. filled \in Sheets /\ (filled.title.of \in ReportType => filled.title.of = filled.type)
  BY DEF FormInv, Form!FormTypeOK, Form!TitleNamesType
<1>2. Form!Typed \subseteq Form!Title /\ \A t \in ReportType : Form!Suggested(t) \in Form!Title
  BY DEF Form!Title
<1>3. ASSUME NEW t \in ReportType, Form!SetType(t) PROVE FormInv'
  <2> DEFINE title == Form!TitleFor(t)
             new == [filled EXCEPT !.type = t, !.title = title]
  <2>1. title \in Form!Title
    BY <1>1, <1>2 DEF Form!TitleFor
  <2>2. title.of \in ReportType => title.of = t
    <3>1. CASE filled.title.of \in {"own", "blank"}
      BY <3>1 DEF Form!TitleFor, FormAssumption
    <3>2. CASE filled.title.of \notin {"own", "blank"}
      BY <3>2 DEF Form!TitleFor, Form!Suggested
    <3> QED BY <3>1, <3>2
  <2>3. Form!Edit(new)
    BY <1>3 DEF Form!SetType
  <2> HIDE DEF title
  <2>4. new \in Sheets /\ new.title = title /\ new.type = t
    BY <1>1, <2>1
  <2> HIDE DEF new
  <2> QED BY <2>2, <2>3, <2>4, EditKeeps
<1>4. ASSUME NEW f \in Form!Format, Form!SetFormat(f) PROVE FormInv'
  <2> DEFINE new == [filled EXCEPT !.format = f]
  <2>1. new \in Sheets /\ new.title = filled.title /\ new.type = filled.type
    BY <1>1
  <2>2. Form!Edit(new)
    BY <1>4 DEF Form!SetFormat
  <2> HIDE DEF new
  <2> QED BY <1>1, <2>1, <2>2, EditKeeps
<1>5. ASSUME NEW title \in Form!Typed, Form!SetTitle(title) PROVE FormInv'
  <2> DEFINE new == [filled EXCEPT !.title = title]
  <2>1. new \in Sheets /\ new.title = title
    BY <1>1, <1>2
  <2>2. Form!Edit(new)
    BY <1>5 DEF Form!SetTitle
  <2>3. title.of \notin ReportType
    BY DEF Form!Typed, FormAssumption
  <2> HIDE DEF new
  <2> QED BY <2>1, <2>2, <2>3, EditKeeps
<1>6. ASSUME NEW d \in PickDate \cup {Form!NoDate}, Form!SetDateRangeStart(d) PROVE FormInv'
  <2> DEFINE new == [filled EXCEPT !.start = d]
  <2>1. new \in Sheets /\ new.title = filled.title /\ new.type = filled.type
    BY <1>1
  <2>2. Form!Edit(new)
    BY <1>6 DEF Form!SetDateRangeStart
  <2> HIDE DEF new
  <2> QED BY <1>1, <2>1, <2>2, EditKeeps
<1>7. ASSUME NEW d \in PickDate \cup {Form!NoDate}, Form!SetDateRangeEnd(d) PROVE FormInv'
  <2> DEFINE new == [filled EXCEPT !.end = d]
  <2>1. new \in Sheets /\ new.title = filled.title /\ new.type = filled.type
    BY <1>1
  <2>2. Form!Edit(new)
    BY <1>7 DEF Form!SetDateRangeEnd
  <2> HIDE DEF new
  <2> QED BY <1>1, <2>1, <2>2, EditKeeps
<1>8. ASSUME Form!SetUseCustomRange PROVE FormInv'
  <2> DEFINE b == ~filled.custom
             new == [filled EXCEPT !.custom = b]
  <2>1. b \in BOOLEAN
    OBVIOUS
  <2>2. Form!Edit(new)
    BY <1>8, Zenon DEF Form!SetUseCustomRange
  <2> HIDE DEF b
  <2>3. new \in Sheets /\ new.title = filled.title /\ new.type = filled.type
    BY <1>1, <2>1
  <2> HIDE DEF new
  <2> QED BY <1>1, <2>2, <2>3, EditKeeps
<1> QED BY <1>3, <1>4, <1>5, <1>6, <1>7, <1>8

(* The requests and the dialog leave the form alone. *)
LEMMA RequestKeeps ==
  ASSUME FormAssumption, FormInv,
         \/ Form!SetIsOpen \/ Form!OnClose
         \/ Form!HandleComputePreview \/ Form!PreviewLands \/ Form!PreviewFails
         \/ Form!HandleGenerate \/ Form!GenerationLands \/ Form!GenerationFails
         \/ UNCHANGED Form!vars
  PROVE  FormInv'
<1>1. filled' = filled
  BY DEF Form!SetIsOpen, Form!OnClose, Form!HandleComputePreview, Form!PreviewLands,
         Form!PreviewFails, Form!HandleGenerate, Form!GenerationLands, Form!GenerationFails,
         Form!vars
<1>2. Form!FormTypeOK
  BY DEF FormInv
<1>3. TRUE \in BOOLEAN /\ FALSE \in BOOLEAN
  OBVIOUS
<1>4. Form!PreviewPayload(filled) \in Form!Payload /\ Form!GeneratePayload(filled) \in Form!Payload
  BY <1>2, PayloadTyped
<1>5. preview' \in [payload : Form!Payload \cup {Form!None}, same : BOOLEAN]
      /\ (preview'.same => preview'.payload = Form!PreviewPayload(filled))
  <2>1. CASE preview' = preview
    BY <1>2, <2>1 DEF FormInv, Form!FormTypeOK
  <2>2. CASE Form!HandleComputePreview
    <3>1. preview' = [payload |-> Form!PreviewPayload(filled), same |-> TRUE]
      BY <2>2 DEF Form!HandleComputePreview
    <3> QED BY <1>3, <1>4, <3>1
  <2>3. CASE preview' = Form!Idle
    BY <1>3, <2>3 DEF Form!Idle
  <2> QED BY <2>1, <2>2, <2>3
          DEF Form!SetIsOpen, Form!OnClose, Form!PreviewLands,
              Form!PreviewFails, Form!HandleGenerate, Form!GenerationLands, Form!GenerationFails,
              Form!vars
<1>6. /\ current' \in BOOLEAN /\ strip' \in Form!Payload \cup {Form!None}
      /\ current' => strip' = Form!GeneratePayload(filled)
  <2>1. CASE Form!PreviewLands
    <3>1. strip' = preview.payload /\ current' = preview.same
      BY <2>1 DEF Form!PreviewLands
    <3>2. preview.payload \in Form!Payload \cup {Form!None} /\ preview.same \in BOOLEAN
      BY <1>2 DEF Form!FormTypeOK
    <3>3. Form!PreviewPayload(filled) = Form!GeneratePayload(filled)
      BY DEF Form!PreviewPayload, Form!GeneratePayload
    <3> QED BY <3>1, <3>2, <3>3 DEF FormInv
  <2>2. CASE current' = current /\ strip' = strip
    BY <1>2, <2>2 DEF FormInv, Form!FormTypeOK
  <2> QED BY <2>1, <2>2
          DEF Form!SetIsOpen, Form!OnClose, Form!HandleComputePreview,
              Form!PreviewFails, Form!HandleGenerate, Form!GenerationLands, Form!GenerationFails,
              Form!vars
<1>7. opened' \in BOOLEAN /\ generating' \in Form!Payload \cup {Form!None}
  <2>1. opened' \in {TRUE, FALSE, opened}
    BY DEF Form!SetIsOpen, Form!OnClose, Form!HandleComputePreview, Form!PreviewLands,
           Form!PreviewFails, Form!HandleGenerate, Form!GenerationLands, Form!GenerationFails,
           Form!vars
  <2>2. generating' \in {generating, Form!None, Form!GeneratePayload(filled)}
    BY DEF Form!SetIsOpen, Form!OnClose, Form!HandleComputePreview, Form!PreviewLands,
           Form!PreviewFails, Form!HandleGenerate, Form!GenerationLands, Form!GenerationFails,
           Form!vars
  <2>3. opened \in BOOLEAN /\ generating \in Form!Payload \cup {Form!None}
    BY <1>2 DEF Form!FormTypeOK
  <2> QED BY <1>4, <2>1, <2>2, <2>3
<1>8. Form!FormTypeOK'
  BY <1>1, <1>2, <1>5, <1>6, <1>7 DEF Form!FormTypeOK
<1>9. /\ Form!PreviewPayload(filled)' = Form!PreviewPayload(filled)
      /\ Form!GeneratePayload(filled)' = Form!GeneratePayload(filled)
      /\ Form!TitleNamesType'
  BY <1>1 DEF FormInv, Form!PreviewPayload, Form!GeneratePayload, Form!Ranged, Form!TitleNamesType
<1> QED BY <1>5, <1>6, <1>8, <1>9 DEF FormInv

LEMMA FormNext ==
  ASSUME FormAssumption, FormInv, [Form!Next]_(Form!vars)
  PROVE  FormInv'
BY FieldKeeps, RequestKeeps DEF Form!Next

LEMMA FormShown == FormInv => Form!PreviewIsOfForm /\ Form!TitleNamesType
  BY DEF FormInv, Form!PreviewIsOfForm

(* reports/page.tsx: the numbers of the preview are of the form as it is,  *)
(* the strip of a made report tells the range it was made for until the    *)
(* form moves on, and a title names no other type than the form's.         *)
THEOREM PreviewIsTrue ==
  ASSUME FormAssumption PROVE Form!Spec => [](Form!PreviewIsOfForm /\ Form!TitleNamesType)
  BY FormInit, FormNext, FormShown, PTL DEF Form!Spec

-------------------------------------------------------------------------------
(* ReportsPage.  At most so many reports are ever made.                    *)
ArchiveAssumption == MaxReports \in Nat

(* A request for the list.                                                 *)
Listing == [phase : {"sent", "done"}, got : SUBSET Archive!Report, alone : BOOLEAN]

(* One that is alone has no other beside it and brings the newest reports. *)
LoneListing ==
    \A f \in Slot : fetch[f] # Archive!Idle /\ fetch[f].alone =>
        /\ \A g \in Slot : fetch[g] # Archive!Idle => f = g
        /\ fetch[f].phase = "done" => fetch[f].got = Archive!Listed

(* A clean table lists them, or a request for it or an answer that         *)
(* makes one is on its way.                                                *)
CleanIsArchive ==
    quiet => \/ list = Archive!Listed
             \/ deleting # Archive!Idle /\ deleting.phase = "done"
             \/ \E f \in Slot : fetch[f] # Archive!Idle

(* Of inspections that did not cross there is one, of the drawer's report. *)
DrawerWaitsForOne ==
    ~crossed => /\ inspecting \subseteq {drawer.report}
                /\ drawer.summary # Archive!None => drawer.summary = drawer.report

ArchiveInv ==
    /\ Archive!ReportsTypeOK
    /\ LoneListing
    /\ CleanIsArchive
    /\ DrawerWaitsForOne

LEMMA ArchiveTyped ==
  Archive!ReportsTypeOK <=>
    /\ ever \in 0..MaxReports /\ archive \subseteq 1..ever
    /\ list = {MockReport} \/ list \subseteq Archive!Report
    /\ fetch \in [Slot -> {Archive!Idle} \cup Listing]
    /\ drawer \in [open : BOOLEAN, report : Archive!Shown \cup {Archive!None},
                   summary : Archive!Report \cup {Archive!None}]
    /\ inspecting \subseteq Archive!Shown
    /\ making \in {Archive!Idle} \cup [phase : {"sent"}, by : Archive!Maker]
                         \cup [phase : {"done"}, by : Archive!Maker, report : Archive!Report]
    /\ deleting \in {Archive!Idle} \cup [phase : {"sent", "done"}, report : Archive!Shown]
    /\ generator \in BOOLEAN /\ crossed \in BOOLEAN /\ quiet \in BOOLEAN
  BY DEF Archive!ReportsTypeOK, Listing

LEMMA ListingShape ==
  /\ Archive!Idle \notin Listing
  /\ Archive!Idle.phase = "idle"
  BY DEF Listing, Archive!Idle

(* What the backend lists are reports, the same while the archive is.      *)
LEMMA ListedIs ==
  /\ Archive!Listed \subseteq archive
  /\ archive' = archive => Archive!Listed' = Archive!Listed
BY DEF Archive!Listed

LEMMA ReportNumbers ==
  ASSUME ArchiveAssumption, NEW n \in 0..MaxReports
  PROVE  1..n \subseteq Archive!Report
BY DEF ArchiveAssumption, Archive!Report

LEMMA ArchiveInit ==
  ASSUME ArchiveAssumption, Archive!Init PROVE ArchiveInv
<1>1. FALSE \in BOOLEAN
  OBVIOUS
<1>2. /\ ever \in 0..MaxReports /\ archive \subseteq 1..ever /\ list = {MockReport}
      /\ fetch = [f \in Slot |-> Archive!Idle] /\ inspecting = {}
      /\ making = Archive!Idle /\ deleting = Archive!Idle
      /\ generator = FALSE /\ crossed = FALSE /\ quiet = FALSE
      /\ drawer = [open |-> FALSE, report |-> Archive!None, summary |-> Archive!None]
  BY DEF Archive!Init
<1>3. Archive!ReportsTypeOK
  <2>1. drawer \in [open : BOOLEAN, report : Archive!Shown \cup {Archive!None},
                    summary : Archive!Report \cup {Archive!None}]
    BY <1>1, <1>2
  <2>2. fetch \in [Slot -> {Archive!Idle} \cup Listing]
    BY <1>2
  <2> QED BY <1>1, <1>2, <2>1, <2>2, ArchiveTyped
<1>4. LoneListing
  BY <1>2 DEF LoneListing
<1>5. CleanIsArchive
  BY <1>2 DEF CleanIsArchive
<1>6. DrawerWaitsForOne
  BY <1>2 DEF DrawerWaitsForOne
<1> QED BY <1>3, <1>4, <1>5, <1>6 DEF ArchiveInv

-------------------------------------------------------------------------------
(* What makes the answers under way old. *)
LEMMA OutdatedIs ==
  ASSUME fetch \in [Slot -> {Archive!Idle} \cup Listing]
  PROVE  /\ Archive!Outdated \in [Slot -> {Archive!Idle} \cup Listing]
         /\ \A f \in Slot : Archive!Outdated[f] = Archive!Idle <=> fetch[f] = Archive!Idle
         /\ \A f \in Slot : Archive!Outdated[f] # Archive!Idle => ~Archive!Outdated[f].alone
<1> DEFINE o(f) == IF fetch[f] = Archive!Idle THEN Archive!Idle ELSE [fetch[f] EXCEPT !.alone = FALSE]
<1>1. Archive!Outdated = [f \in Slot |-> o(f)]
  BY DEF Archive!Outdated
<1>2. FALSE \in BOOLEAN
  OBVIOUS
<1>3. \A f \in Slot : fetch[f] # Archive!Idle => o(f) \in Listing /\ ~o(f).alone
  <2>1. \A f \in Slot : fetch[f] # Archive!Idle => fetch[f] \in Listing
    OBVIOUS
  <2> QED BY <1>2, <2>1 DEF Listing
<1>4. \A f \in Slot : fetch[f] = Archive!Idle => o(f) = Archive!Idle
  OBVIOUS
<1> HIDE DEF o
<1>5. \A f \in Slot : Archive!Outdated[f] = o(f)
  BY <1>1
<1>6. \A f \in Slot : o(f) \in {Archive!Idle} \cup Listing
  BY <1>3, <1>4
<1>7. Archive!Outdated \in [Slot -> {Archive!Idle} \cup Listing]
  BY <1>1, <1>6
<1> QED BY <1>3, <1>4, <1>5, <1>7, ListingShape

(* A new request for the list. *)
LEMMA RefetchIs ==
  ASSUME ArchiveAssumption, ArchiveInv, NEW f \in Slot, Archive!Refetch(f), archive' = archive
  PROVE  /\ fetch' \in [Slot -> {Archive!Idle} \cup Listing]
         /\ fetch'[f] # Archive!Idle
         /\ LoneListing'
<1> DEFINE F == [phase |-> "sent", got |-> {}, alone |-> \A g \in Slot : fetch[g] = Archive!Idle]
<1>1. fetch' = [Archive!Outdated EXCEPT ![f] = F]
  BY DEF Archive!Refetch
<1>2. fetch \in [Slot -> {Archive!Idle} \cup Listing]
  BY ArchiveTyped DEF ArchiveInv
<1>3. F \in Listing /\ F.phase = "sent" /\ (F.alone => \A g \in Slot : fetch[g] = Archive!Idle)
  <2>1. (\A g \in Slot : fetch[g] = Archive!Idle) \in BOOLEAN
    OBVIOUS
  <2> QED BY <2>1 DEF Listing
<1> HIDE DEF F
<1>4. /\ fetch' \in [Slot -> {Archive!Idle} \cup Listing] /\ fetch'[f] = F
      /\ \A g \in Slot : g # f => fetch'[g] = Archive!Outdated[g]
  BY <1>1, <1>2, <1>3, OutdatedIs
<1>5. \A g \in Slot : g # f /\ fetch'[g] # Archive!Idle => ~fetch'[g].alone
  BY <1>2, <1>4, OutdatedIs
<1>6. F.alone => \A g \in Slot : g # f => fetch'[g] = Archive!Idle
  BY <1>2, <1>3, <1>4, OutdatedIs
<1>7. LoneListing'
  BY <1>3, <1>4, <1>5, <1>6 DEF LoneListing
<1> QED BY <1>3, <1>4, <1>7, ListingShape

(* An inspection empties the drawer and waits for its own answer. *)
LEMMA InspectedIs ==
  ASSUME NEW r \in Archive!Shown, Archive!Inspected(r), Archive!ReportsTypeOK
  PROVE  /\ drawer' \in [open : BOOLEAN, report : Archive!Shown \cup {Archive!None},
                         summary : Archive!Report \cup {Archive!None}]
         /\ inspecting' \subseteq Archive!Shown /\ crossed' \in BOOLEAN
         /\ DrawerWaitsForOne'
<1>1. /\ drawer' = [open |-> TRUE, report |-> r, summary |-> Archive!None]
      /\ inspecting' = inspecting \cup {r}
      /\ crossed' = (inspecting \ {r} # {})
  BY DEF Archive!Inspected
<1>2. TRUE \in BOOLEAN
  OBVIOUS
<1>3. drawer' \in [open : BOOLEAN, report : Archive!Shown \cup {Archive!None},
                   summary : Archive!Report \cup {Archive!None}]
  BY <1>1, <1>2
<1>4. ~crossed' => inspecting' \subseteq {r}
  BY <1>1
<1>5. DrawerWaitsForOne'
  BY <1>1, <1>4 DEF DrawerWaitsForOne
<1> QED BY <1>1, <1>3, <1>5, ArchiveTyped

(* A request for the list is answered, or ends. *)
LEMMA TableKeeps ==
  ASSUME ArchiveAssumption, ArchiveInv, NEW f \in Slot,
         Archive!FetchLands(f) \/ Archive!FetchFails(f) \/ Archive!ServeFetch(f)
  PROVE  ArchiveInv'
<1>1. /\ UNCHANGED <<archive, ever, drawer, inspecting, crossed, generator, making, deleting>>
  BY DEF Archive!FetchLands, Archive!FetchFails, Archive!ServeFetch, Archive!backend,
         Archive!panel
<1>2. /\ fetch \in [Slot -> {Archive!Idle} \cup Listing] /\ Archive!Listed \subseteq Archive!Report
      /\ quiet \in BOOLEAN /\ (list = {MockReport} \/ list \subseteq Archive!Report)
  BY ArchiveTyped, ReportNumbers, ListedIs DEF ArchiveInv
<1>3. fetch[f] \in Listing
  BY <1>2, ListingShape DEF Archive!FetchLands, Archive!FetchFails, Archive!ServeFetch
<1>4. DrawerWaitsForOne'
  BY <1>1 DEF ArchiveInv, DrawerWaitsForOne
<1>5. CASE Archive!ServeFetch(f)
  <2> DEFINE F == [fetch[f] EXCEPT !.phase = "done", !.got = Archive!Listed]
  <2>1. fetch' = [fetch EXCEPT ![f].phase = "done", ![f].got = Archive!Listed]
    BY <1>5 DEF Archive!ServeFetch
  <2>2. fetch' = [fetch EXCEPT ![f] = F]
    BY <2>1, Zenon
  <2>3. F \in Listing /\ F.got = Archive!Listed /\ F.alone = fetch[f].alone
    BY <1>2, <1>3 DEF Listing
  <2> HIDE DEF F
  <2>4. /\ fetch' \in [Slot -> {Archive!Idle} \cup Listing] /\ fetch'[f] = F
        /\ \A g \in Slot : g # f => fetch'[g] = fetch[g]
    BY <1>2, <2>2, <2>3
  <2>5. quiet' = quiet /\ list' = list
    BY <1>5 DEF Archive!ServeFetch
  <2>6. F # Archive!Idle /\ fetch[f] # Archive!Idle
    BY <1>3, <2>3, ListingShape
  <2>7. LoneListing'
    BY <1>1, <2>3, <2>4, <2>6, ListedIs DEF ArchiveInv, LoneListing
  <2>8. CleanIsArchive'
    BY <2>4, <2>6 DEF CleanIsArchive
  <2>9. Archive!ReportsTypeOK'
    BY <1>1, <2>4, <2>5, ArchiveTyped DEF ArchiveInv, Archive!ReportsTypeOK, Listing
  <2> QED BY <1>4, <2>7, <2>8, <2>9 DEF ArchiveInv
<1>6. CASE Archive!FetchLands(f) \/ Archive!FetchFails(f)
  <2>1. fetch' = [fetch EXCEPT ![f] = Archive!Idle]
    BY <1>6 DEF Archive!FetchLands, Archive!FetchFails
  <2>2. /\ fetch' \in [Slot -> {Archive!Idle} \cup Listing] /\ fetch'[f] = Archive!Idle
        /\ \A g \in Slot : g # f => fetch'[g] = fetch[g]
    BY <1>2, <2>1
  <2>3. /\ quiet' \in BOOLEAN /\ (list' = {MockReport} \/ list' \subseteq Archive!Report)
        /\ quiet' => list' = Archive!Listed
    <3>1. CASE Archive!FetchFails(f)
      BY <3>1 DEF Archive!FetchFails
    <3>2. CASE Archive!FetchLands(f)
      <4>1. list' = fetch[f].got /\ quiet' = fetch[f].alone /\ fetch[f].phase = "done"
        BY <3>2 DEF Archive!FetchLands
      <4>2. fetch[f].alone => fetch[f].got = Archive!Listed
        BY <1>3, <4>1, ListingShape DEF ArchiveInv, LoneListing
      <4>3. fetch[f].got \subseteq Archive!Report /\ fetch[f].alone \in BOOLEAN
        BY <1>3 DEF Listing
      <4> QED BY <4>1, <4>2, <4>3
    <3> QED BY <1>6, <3>1, <3>2
  <2>4. LoneListing'
    BY <1>1, <2>2, ListedIs DEF ArchiveInv, LoneListing
  <2>5. CleanIsArchive'
    BY <1>1, <2>3, ListedIs DEF CleanIsArchive
  <2>6. Archive!ReportsTypeOK'
    BY <1>1, <2>2, <2>3, ArchiveTyped DEF ArchiveInv, Archive!ReportsTypeOK, Listing
  <2> QED BY <1>4, <2>4, <2>5, <2>6 DEF ArchiveInv
<1> QED BY <1>5, <1>6

(* A refresh by hand, or after a deletion or a generation. *)
LEMMA RefreshKeeps ==
  ASSUME ArchiveAssumption, ArchiveInv, NEW f \in Slot,
         Archive!HandleRefresh(f) \/ Archive!DeletionLands(f) \/ Archive!MakingLands(f)
  PROVE  ArchiveInv'
<1>1. Archive!Refetch(f) /\ UNCHANGED <<archive, ever, list, quiet>>
  BY DEF Archive!HandleRefresh, Archive!DeletionLands, Archive!MakingLands, Archive!Refetch,
         Archive!backend
<1>2. /\ fetch' \in [Slot -> {Archive!Idle} \cup Listing] /\ LoneListing' /\ CleanIsArchive'
  BY <1>1, RefetchIs DEF CleanIsArchive
<1>3. /\ drawer' \in [open : BOOLEAN, report : Archive!Shown \cup {Archive!None},
                      summary : Archive!Report \cup {Archive!None}]
      /\ inspecting' \subseteq Archive!Shown /\ crossed' \in BOOLEAN
      /\ DrawerWaitsForOne'
  <2>1. CASE Archive!HandleRefresh(f) \/ Archive!DeletionLands(f)
    <3>1. UNCHANGED <<drawer, inspecting, crossed>>
      BY <2>1 DEF Archive!HandleRefresh, Archive!DeletionLands, Archive!panel
    <3> QED BY <3>1, ArchiveTyped DEF ArchiveInv, DrawerWaitsForOne
  <2>2. CASE Archive!MakingLands(f)
    <3>1. making.phase = "done" /\ Archive!Inspected(making.report)
      BY <2>2 DEF Archive!MakingLands
    <3>2. making.report \in Archive!Shown
      BY <3>1, ArchiveTyped, ListingShape DEF ArchiveInv, Archive!Shown
    <3> QED BY <3>1, <3>2, InspectedIs DEF ArchiveInv
  <2> QED BY <2>1, <2>2
<1>4. /\ generator' \in BOOLEAN
      /\ making' \in {making, Archive!Idle} /\ deleting' \in {deleting, Archive!Idle}
  <2>1. generator' = generator \/ generator' = (generator /\ making.by = "preset")
    BY DEF Archive!HandleRefresh, Archive!DeletionLands, Archive!MakingLands
  <2>2. generator' \in BOOLEAN
    BY <2>1, ArchiveTyped DEF ArchiveInv
  <2> QED BY <2>2 DEF Archive!HandleRefresh, Archive!DeletionLands, Archive!MakingLands
<1>5. Archive!ReportsTypeOK'
  BY <1>1, <1>2, <1>3, <1>4, ArchiveTyped DEF ArchiveInv, Archive!ReportsTypeOK, Listing
<1> QED BY <1>2, <1>3, <1>5 DEF ArchiveInv

(* The drawer and the dialogs. *)
LEMMA PanelKeeps ==
  ASSUME ArchiveAssumption, ArchiveInv,
         \/ \E r \in Archive!Shown : \/ Archive!HandleInspect(r) \/ Archive!InspectionLands(r)
                                     \/ Archive!InspectionFails(r)
         \/ Archive!CloseDrawer
         \/ Archive!OpenGenerator \/ Archive!CloseGenerator
  PROVE  ArchiveInv'
<1>1. UNCHANGED <<archive, ever, list, fetch, quiet, making, deleting>>
  BY DEF Archive!HandleInspect, Archive!InspectionLands, Archive!InspectionFails,
         Archive!CloseDrawer, Archive!OpenGenerator, Archive!CloseGenerator,
         Archive!backend, Archive!table
<1>2. LoneListing' /\ CleanIsArchive'
  BY <1>1, ListedIs DEF ArchiveInv, LoneListing, CleanIsArchive
<1>3. generator' \in BOOLEAN
  <2>1. generator' \in {generator, TRUE, FALSE}
    BY DEF Archive!HandleInspect, Archive!InspectionLands, Archive!InspectionFails,
           Archive!CloseDrawer, Archive!OpenGenerator, Archive!CloseGenerator
  <2> QED BY <2>1, ArchiveTyped DEF ArchiveInv
<1>4. /\ drawer' \in [open : BOOLEAN, report : Archive!Shown \cup {Archive!None},
                      summary : Archive!Report \cup {Archive!None}]
      /\ inspecting' \subseteq Archive!Shown /\ crossed' \in BOOLEAN
      /\ DrawerWaitsForOne'
  <2>0. /\ drawer \in [open : BOOLEAN, report : Archive!Shown \cup {Archive!None},
                       summary : Archive!Report \cup {Archive!None}]
        /\ inspecting \subseteq Archive!Shown /\ crossed \in BOOLEAN /\ ever \in 0..MaxReports
    BY ArchiveTyped DEF ArchiveInv
  <2>1. ASSUME NEW r \in Archive!Shown, Archive!HandleInspect(r)
        PROVE  /\ drawer' \in [open : BOOLEAN, report : Archive!Shown \cup {Archive!None},
                               summary : Archive!Report \cup {Archive!None}]
               /\ inspecting' \subseteq Archive!Shown /\ crossed' \in BOOLEAN
               /\ DrawerWaitsForOne'
    BY <2>1, InspectedIs DEF Archive!HandleInspect, ArchiveInv
  <2>2. ASSUME NEW r \in Archive!Shown, Archive!InspectionLands(r)
        PROVE  /\ drawer' \in [open : BOOLEAN, report : Archive!Shown \cup {Archive!None},
                               summary : Archive!Report \cup {Archive!None}]
               /\ inspecting' \subseteq Archive!Shown /\ crossed' \in BOOLEAN
               /\ DrawerWaitsForOne'
    <3>1. /\ r \in inspecting /\ r \in 1..ever /\ drawer' = [drawer EXCEPT !.summary = r]
          /\ inspecting' = inspecting \ {r} /\ crossed' = crossed
      BY <2>2 DEF Archive!InspectionLands
    <3>2. /\ drawer' \in [open : BOOLEAN, report : Archive!Shown \cup {Archive!None},
                          summary : Archive!Report \cup {Archive!None}]
          /\ drawer'.report = drawer.report /\ drawer'.summary = r
      BY <2>0, <3>1, ReportNumbers
    <3> QED BY <2>0, <3>1, <3>2 DEF ArchiveInv, DrawerWaitsForOne
  <2>3. ASSUME NEW r \in Archive!Shown, Archive!InspectionFails(r)
        PROVE  /\ drawer' \in [open : BOOLEAN, report : Archive!Shown \cup {Archive!None},
                               summary : Archive!Report \cup {Archive!None}]
               /\ inspecting' \subseteq Archive!Shown /\ crossed' \in BOOLEAN
               /\ DrawerWaitsForOne'
    <3>1. drawer' = drawer /\ inspecting' = inspecting \ {r} /\ crossed' = crossed
      BY <2>3 DEF Archive!InspectionFails
    <3> QED BY <2>0, <3>1 DEF ArchiveInv, DrawerWaitsForOne
  <2>4. CASE Archive!CloseDrawer
    <3>1. drawer' = [drawer EXCEPT !.open = FALSE] /\ inspecting' = inspecting /\ crossed' = crossed
      BY <2>4 DEF Archive!CloseDrawer
    <3>2. FALSE \in BOOLEAN
      OBVIOUS
    <3>3. /\ drawer' \in [open : BOOLEAN, report : Archive!Shown \cup {Archive!None},
                          summary : Archive!Report \cup {Archive!None}]
          /\ drawer'.report = drawer.report /\ drawer'.summary = drawer.summary
      BY <2>0, <3>1, <3>2
    <3> QED BY <2>0, <3>1, <3>3 DEF ArchiveInv, DrawerWaitsForOne
  <2>5. CASE Archive!OpenGenerator \/ Archive!CloseGenerator
    <3>1. UNCHANGED <<drawer, inspecting, crossed>>
      BY <2>5 DEF Archive!OpenGenerator, Archive!CloseGenerator, Archive!panel
    <3> QED BY <2>0, <3>1 DEF ArchiveInv, DrawerWaitsForOne
  <2> QED BY <2>1, <2>2, <2>3, <2>4, <2>5
<1>5. Archive!ReportsTypeOK'
  BY <1>1, <1>3, <1>4, ArchiveTyped DEF ArchiveInv, Archive!ReportsTypeOK, Listing
<1> QED BY <1>2, <1>4, <1>5 DEF ArchiveInv

(* Requests that are sent or given up without an answer. *)
LEMMA AskingKeeps ==
  ASSUME ArchiveAssumption, ArchiveInv,
         \/ \E r \in Archive!Shown : Archive!HandleDelete(r)
         \/ Archive!DeletionFails \/ Archive!HandleQuickPreset \/ Archive!HandleGenerate
         \/ Archive!MakingFails
         \/ UNCHANGED Archive!vars
  PROVE  ArchiveInv'
<1>1. UNCHANGED <<archive, ever, list, fetch, drawer, inspecting, crossed, generator>>
  BY DEF Archive!HandleDelete, Archive!DeletionFails, Archive!HandleQuickPreset,
         Archive!HandleGenerate, Archive!Make, Archive!MakingFails, Archive!vars,
         Archive!backend, Archive!table, Archive!panel
<1>2. LoneListing' /\ DrawerWaitsForOne'
  BY <1>1, ListedIs DEF ArchiveInv, LoneListing, DrawerWaitsForOne
<1>3. making' \in {making, Archive!Idle} \cup [phase : {"sent"}, by : Archive!Maker]
  <2>1. ASSUME NEW by \in Archive!Maker PROVE [phase |-> "sent", by |-> by] \in [phase : {"sent"}, by : Archive!Maker]
    OBVIOUS
  <2>2. "preset" \in Archive!Maker /\ "dialog" \in Archive!Maker
    BY DEF Archive!Maker
  <2>3. Archive!HandleQuickPreset \/ Archive!HandleGenerate =>
           \E by \in Archive!Maker : making' = [phase |-> "sent", by |-> by]
    BY <2>2 DEF Archive!HandleQuickPreset, Archive!HandleGenerate, Archive!Make
  <2>4. ~(Archive!HandleQuickPreset \/ Archive!HandleGenerate) => making' \in {making, Archive!Idle}
    BY DEF Archive!HandleDelete, Archive!DeletionFails, Archive!MakingFails, Archive!vars
  <2> QED BY <2>1, <2>3, <2>4
<1>4. /\ deleting' \in {deleting, Archive!Idle} \cup [phase : {"sent", "done"}, report : Archive!Shown]
      /\ quiet' \in BOOLEAN /\ CleanIsArchive'
  <2>1. ASSUME NEW r \in Archive!Shown, Archive!HandleDelete(r)
        PROVE  /\ deleting' \in {deleting, Archive!Idle} \cup [phase : {"sent", "done"}, report : Archive!Shown]
               /\ quiet' \in BOOLEAN /\ CleanIsArchive'
    <3>1. deleting = Archive!Idle /\ deleting' = [phase |-> "sent", report |-> r] /\ quiet' = quiet
      BY <2>1 DEF Archive!HandleDelete, Archive!table
    <3> QED BY <1>1, <3>1, ArchiveTyped, ListedIs DEF ArchiveInv, CleanIsArchive
  <2>2. CASE Archive!DeletionFails
    <3>1. deleting' = Archive!Idle /\ deleting # Archive!Idle
          /\ quiet' = (quiet /\ deleting.phase = "sent")
      BY <2>2 DEF Archive!DeletionFails
    <3> QED BY <1>1, <3>1, ListedIs DEF ArchiveInv, CleanIsArchive
  <2>3. CASE \/ Archive!HandleQuickPreset \/ Archive!HandleGenerate
             \/ Archive!MakingFails \/ UNCHANGED Archive!vars
    <3>1. deleting' = deleting /\ quiet' = quiet
      BY <2>3 DEF Archive!HandleQuickPreset, Archive!HandleGenerate, Archive!Make,
                  Archive!MakingFails, Archive!vars, Archive!table
    <3> QED BY <1>1, <3>1, ArchiveTyped, ListedIs DEF ArchiveInv, CleanIsArchive
  <2> QED BY <2>1, <2>2, <2>3
<1>5. Archive!ReportsTypeOK'
  BY <1>1, <1>3, <1>4, ArchiveTyped DEF ArchiveInv, Archive!ReportsTypeOK, Listing
<1> QED BY <1>2, <1>4, <1>5 DEF ArchiveInv

(* The archive is written, here or elsewhere. *)
LEMMA WriteKeeps ==
  ASSUME ArchiveAssumption, ArchiveInv,
         \/ Archive!ServeMaking \/ Archive!Others
         \/ Archive!ServeDeletion
  PROVE  ArchiveInv'
<1>1. /\ UNCHANGED <<list, drawer, inspecting, crossed, generator>>
      /\ fetch' = Archive!Outdated
  BY DEF Archive!ServeMaking, Archive!Others, Archive!ServeDeletion, Archive!Store,
         Archive!panel
<1>2. fetch \in [Slot -> {Archive!Idle} \cup Listing] /\ ever \in 0..MaxReports /\ archive \subseteq 1..ever
  BY ArchiveTyped DEF ArchiveInv
<1>3. fetch' \in [Slot -> {Archive!Idle} \cup Listing] /\ LoneListing'
  BY <1>1, <1>2, OutdatedIs DEF LoneListing
<1>4. DrawerWaitsForOne'
  BY <1>1 DEF ArchiveInv, DrawerWaitsForOne
<1>5. ever' \in 0..MaxReports /\ archive' \subseteq 1..ever'
  <2>1. CASE Archive!Store
    BY <1>2, <2>1 DEF Archive!Store, ArchiveAssumption
  <2>2. CASE archive' \subseteq archive /\ ever' = ever
    BY <1>2, <2>2
  <2> QED BY <2>1, <2>2 DEF Archive!ServeMaking, Archive!Others, Archive!ServeDeletion
<1>6. CASE Archive!ServeDeletion
  <2>1. /\ deleting' = [deleting EXCEPT !.phase = "done"] /\ making' = making /\ quiet' = quiet
        /\ deleting.phase = "sent"
    BY <1>6 DEF Archive!ServeDeletion
  <2>2. deleting \in [phase : {"sent", "done"}, report : Archive!Shown]
    BY <2>1, ArchiveTyped, ListingShape DEF ArchiveInv
  <2>3. /\ deleting' \in [phase : {"sent", "done"}, report : Archive!Shown]
        /\ deleting'.phase = "done"
    BY <2>1, <2>2
  <2>4. deleting' # Archive!Idle
    BY <2>3, ListingShape
  <2>5. CleanIsArchive'
    BY <2>3, <2>4 DEF CleanIsArchive
  <2>6. Archive!ReportsTypeOK'
    BY <1>1, <1>3, <1>5, <2>1, <2>3, ArchiveTyped DEF ArchiveInv, Archive!ReportsTypeOK, Listing
  <2> QED BY <1>3, <1>4, <2>5, <2>6 DEF ArchiveInv
<1>7. CASE Archive!ServeMaking \/ Archive!Others
  <2>1. quiet' = FALSE /\ deleting' = deleting
    BY <1>7 DEF Archive!ServeMaking, Archive!Others, Archive!Store
  <2>2. making' \in {making} \cup [phase : {"done"}, by : Archive!Maker, report : Archive!Report]
    <3>1. CASE Archive!ServeMaking
      <4>1. /\ making.phase = "sent" /\ making' = [phase |-> "done", by |-> making.by, report |-> ever']
            /\ ever' = ever + 1 /\ ever < MaxReports
        BY <3>1 DEF Archive!ServeMaking, Archive!Store
      <4>2. making.by \in Archive!Maker
        BY <4>1, ArchiveTyped, ListingShape DEF ArchiveInv
      <4>3. ever' \in Archive!Report
        BY <1>2, <4>1 DEF ArchiveAssumption, Archive!Report
      <4> QED BY <4>1, <4>2, <4>3
    <3>2. CASE Archive!Others
      BY <3>2 DEF Archive!Others
    <3> QED BY <1>7, <3>1, <3>2
  <2>3. CleanIsArchive'
    BY <2>1 DEF CleanIsArchive
  <2>4. Archive!ReportsTypeOK'
    BY <1>1, <1>3, <1>5, <2>1, <2>2, ArchiveTyped DEF ArchiveInv, Archive!ReportsTypeOK, Listing
  <2> QED BY <1>3, <1>4, <2>3, <2>4 DEF ArchiveInv
<1> QED BY <1>6, <1>7

LEMMA ArchiveNext ==
  ASSUME ArchiveAssumption, ArchiveInv, [Archive!Next]_(Archive!vars)
  PROVE  ArchiveInv'
BY TableKeeps, RefreshKeeps, PanelKeeps, AskingKeeps, WriteKeeps DEF Archive!Next

LEMMA ArchiveShown == ArchiveInv => Archive!DrawerIsItsReport /\ Archive!QuietTableIsArchive
<1> SUFFICES ASSUME ArchiveInv PROVE Archive!DrawerIsItsReport /\ Archive!QuietTableIsArchive
  OBVIOUS
<1>1. Archive!DrawerIsItsReport
  BY DEF ArchiveInv, DrawerWaitsForOne, Archive!DrawerIsItsReport
<1>2. Archive!QuietTableIsArchive
  BY DEF ArchiveInv, CleanIsArchive, Archive!QuietTableIsArchive
<1> QED BY <1>1, <1>2

(* reports/page.tsx: the drawer shows the report it was opened for unless  *)
(* inspections crossed, and a quiet table lists the newest reports of the  *)
(* archive, ListLimit of them, however fetches, deletions and new reports  *)
(* interleave.                                                             *)
THEOREM TableIsArchive ==
  ASSUME ArchiveAssumption
  PROVE  Archive!Spec => [](Archive!DrawerIsItsReport /\ Archive!QuietTableIsArchive)
  BY ArchiveInit, ArchiveNext, ArchiveShown, PTL DEF Archive!Spec

-------------------------------------------------------------------------------
(* The newest of a finite set of numbers: those with few above them.       *)
Above(A, r) == {s \in A : s > r}
NewestOf(A, L) == {r \in A : Cardinality(Above(A, r)) < L}

(* Ranks are counted from zero without a gap. *)
LEMMA Ranks ==
  ASSUME NEW n \in Nat, NEW A, A \subseteq 1..n
  PROVE  LET f == [r \in A |-> Cardinality(Above(A, r))]
         IN  /\ IsFiniteSet(A) /\ Cardinality(A) \in Nat
             /\ f \in Injection(A, 0..(Cardinality(A) - 1))
             /\ f \in Surjection(A, 0..(Cardinality(A) - 1))
<1> DEFINE k == Cardinality(A)
           f == [r \in A |-> Cardinality(Above(A, r))]
<1>1. IsFiniteSet(A) /\ k \in Nat
  <2>1. IsFiniteSet(1..n)
    BY FS_Interval
  <2> QED BY <2>1, FS_Subset, FS_CardinalityType
<1>2. \A r \in A : r \in Nat
  OBVIOUS
<1>3. ASSUME NEW r \in A
      PROVE  IsFiniteSet(Above(A, r)) /\ Cardinality(Above(A, r)) \in 0..(k - 1)
  <2>1. IsFiniteSet(A \ {r}) /\ Cardinality(A \ {r}) = k - 1
    BY <1>1, FS_RemoveElement
  <2>2. Above(A, r) \subseteq A \ {r}
    BY <1>2 DEF Above
  <2>3. IsFiniteSet(Above(A, r)) /\ Cardinality(Above(A, r)) <= k - 1
    BY <2>1, <2>2, FS_Subset
  <2>4. Cardinality(Above(A, r)) \in Nat
    BY <2>3, FS_CardinalityType
  <2> QED BY <1>1, <2>3, <2>4
<1>4. f \in [A -> 0..(k - 1)]
  BY <1>3
<1>5. ASSUME NEW r \in A, NEW q \in A, r < q PROVE f[r] # f[q]
  <2>1. Above(A, q) \subseteq Above(A, r) /\ q \in Above(A, r) /\ q \notin Above(A, q)
    <3>1. r \in Nat /\ q \in Nat /\ A \subseteq Nat
      BY <1>2
    <3>2. q \in Above(A, r) /\ q \notin Above(A, q)
      BY <1>5, <3>1 DEF Above
    <3>3. \A s \in Above(A, q) : s \in Above(A, r)
      BY <1>5, <3>1 DEF Above
    <3> QED BY <3>2, <3>3
  <2>2. Cardinality(Above(A, r)) # Cardinality(Above(A, q))
    BY <1>3, <2>1, FS_Subset
  <2> QED BY <2>2
<1> HIDE DEF f
<1>6. \A r, q \in A : f[r] = f[q] => r = q
  BY <1>2, <1>5
<1>7. f \in Injection(A, 0..(k - 1))
  BY <1>4, <1>6 DEF Injection, IsInjective
<1>8. IsFiniteSet(0..(k - 1)) /\ Cardinality(0..(k - 1)) = k
  BY <1>1, FS_Interval
<1>9. f \in Surjection(A, 0..(k - 1))
  BY <1>7, <1>8, FS_Injection
<1> QED BY <1>1, <1>7, <1>9 DEF f

LEMMA NewestAre ==
  ASSUME NEW n \in Nat, NEW A, A \subseteq 1..n, NEW L \in Nat
  PROVE  /\ IsFiniteSet(A) /\ Cardinality(A) \in Nat
         /\ Cardinality(A) <= L => NewestOf(A, L) = A
         /\ Cardinality(A) > L => Cardinality(NewestOf(A, L)) = L
         /\ A # {} => \E m \in A : /\ \A s \in A : s <= m
                                   /\ L > 0 => m \in NewestOf(A, L)
<1> DEFINE k == Cardinality(A)
           f == [r \in A |-> Cardinality(Above(A, r))]
           N == NewestOf(A, L)
<1>1. IsFiniteSet(A) /\ k \in Nat /\ f \in Injection(A, 0..(k - 1)) /\ f \in Surjection(A, 0..(k - 1))
  BY Ranks
<1>2. /\ f \in [A -> 0..(k - 1)] /\ \A r, q \in A : f[r] = f[q] => r = q
      /\ \A i \in 0..(k - 1) : \E r \in A : f[r] = i
  BY <1>1 DEF Injection, IsInjective, Surjection
<1>3. \A r \in A : f[r] = Cardinality(Above(A, r))
  OBVIOUS
<1> HIDE DEF f
<1>4. N = {r \in A : f[r] < L}
  BY <1>3 DEF NewestOf
<1> HIDE DEF N
<1>5. k <= L => N = A
  <2> SUFFICES ASSUME k <= L, NEW r \in A PROVE r \in N
    BY <1>4
  <2>1. f[r] \in 0..(k - 1)
    BY <1>2
  <2> HIDE DEF k
  <2>2. f[r] < L
    BY <1>1, <2>1
  <2> QED BY <1>4, <2>2
<1>6. ASSUME k > L PROVE Cardinality(N) = L
  <2> DEFINE g == [r \in N |-> f[r]]
  <2>1. g \in [N -> 0..(L - 1)]
    <3> SUFFICES ASSUME NEW r \in N PROVE f[r] \in 0..(L - 1)
      OBVIOUS
    <3>1. r \in A /\ f[r] < L
      BY <1>4
    <3>2. f[r] \in 0..(k - 1)
      BY <1>2, <3>1
    <3> HIDE DEF k
    <3> QED BY <1>1, <3>1, <3>2
  <2>2. \A r, q \in N : g[r] = g[q] => r = q
    BY <1>2, <1>4
  <2>3. \A i \in 0..(L - 1) : \E r \in N : g[r] = i
    <3> SUFFICES ASSUME NEW i \in 0..(L - 1) PROVE \E r \in N : g[r] = i
      OBVIOUS
    <3>1. i \in 0..(k - 1)
      BY <1>1, <1>6
    <3>2. PICK r \in A : f[r] = i
      BY <1>2, <3>1
    <3>3. r \in N
      BY <1>4, <3>2
    <3> QED BY <3>2, <3>3
  <2> HIDE DEF g
  <2>4. g \in Bijection(N, 0..(L - 1))
    BY <2>1, <2>2, <2>3 DEF Bijection, Injection, IsInjective, Surjection
  <2>5. IsFiniteSet(N)
    BY <1>1, <1>4, FS_Subset
  <2>6. Cardinality(0..(L - 1)) = Cardinality(N)
    BY <2>4, <2>5, FS_Bijection DEF ExistsBijection
  <2>7. Cardinality(0..(L - 1)) = L
    BY FS_Interval
  <2> QED BY <2>6, <2>7
<1>7. ASSUME A # {} PROVE \E m \in A : (\A s \in A : s <= m) /\ (L > 0 => m \in N)
  <2>1. k # 0
    BY <1>1, <1>7, FS_EmptySet
  <2>2. PICK m \in A : f[m] = 0
    BY <1>1, <1>2, <2>1
  <2>3. IsFiniteSet(Above(A, m))
    BY <1>1, FS_Subset DEF Above
  <2>4. Above(A, m) = {}
    BY <1>3, <2>2, <2>3, FS_EmptySet
  <2>5. \A s \in A : s <= m
    BY <2>4 DEF Above
  <2> QED BY <1>4, <2>2, <2>5
<1> QED BY <1>1, <1>5, <1>6, <1>7 DEF N

-------------------------------------------------------------------------------
(* ReportList.  Unless the archive changed or a request failed since the   *)
(* refresh, every answer on its way or on the page is of this archive.     *)
RowsTell ==
    /\ asked.phase = "idle" => asked = Rows!Idle
    /\ asked.phase = "done" => Cardinality(asked.rows) <= ListLimit
    /\ ~dirty /\ asked.phase = "done" => asked.rows = Rows!NewestRows
    /\ ~dirty /\ asked.phase = "idle" => table = Rows!NewestRows

TilesTell ==
    /\ counts.phase = "idle" => counts = Rows!Still
    /\ ~dirty /\ counts.phase = "sent" =>
          \A t \in Rows!Tile \ counts.left : counts.stats[t] = Rows!Count(t)
    /\ ~dirty /\ counts.phase = "idle" => \A t \in Rows!Tile : tiles[t] = Rows!Count(t)

RowsInv ==
    /\ Rows!ListTypeOK
    /\ RowsTell
    /\ TilesTell
    /\ Rows!MarkedIsDownloading

RowsAssumption ==
    /\ MaxReports \in Nat /\ ListLimit \in Nat \ {0}
    /\ \A r \in 1..MaxReports : ReportFormatOf[r] \in {"PDF", "CSV"}

LEMMA RowsCardinality == \A S : Rows!Cardinality(S) = Cardinality(S)
  BY DEF Rows!Cardinality, Cardinality

(* The arms of Count. *)
LEMMA CountIs ==
  /\ Rows!Count("total") = Cardinality(reports)
  /\ Rows!Count("PDF") = Cardinality({r \in reports : ReportFormatOf[r] = "PDF"})
  /\ Rows!Count("CSV") = Cardinality({r \in reports : ReportFormatOf[r] = "CSV"})
  /\ Rows!Count("last") = Rows!Newest(reports)
<1>1. Rows!Count("total") = Cardinality(reports)
  BY RowsCardinality DEF Rows!Count, Rows!Format
<1>2. Rows!Count("PDF") = Cardinality({r \in reports : ReportFormatOf[r] = "PDF"})
  BY RowsCardinality DEF Rows!Count, Rows!Format, Rows!OfFormat
<1>3. Rows!Count("CSV") = Cardinality({r \in reports : ReportFormatOf[r] = "CSV"})
  BY RowsCardinality DEF Rows!Count, Rows!Format, Rows!OfFormat
<1>4. Rows!Count("last") = Rows!Newest(reports)
  BY DEF Rows!Count, Rows!Format
<1> QED BY <1>1, <1>2, <1>3, <1>4

(* What the two requests answer fits together. *)
LEMMA AnswersFit ==
  ASSUME RowsAssumption, made \in 0..MaxReports, reports \subseteq 1..made
  PROVE  /\ Rows!NewestRows \subseteq Rows!Report /\ Cardinality(Rows!NewestRows) <= ListLimit
         /\ \A t \in Rows!Tile : Rows!Count(t) \in 0..MaxReports
         /\ Rows!Count("PDF") + Rows!Count("CSV") = Rows!Count("total")
         /\ Rows!Count("last") = Rows!Newest(Rows!NewestRows)
         /\ IF Rows!Count("total") > ListLimit THEN Cardinality(Rows!NewestRows) = ListLimit
            ELSE Rows!NewestRows = reports
<1> DEFINE k == Cardinality(reports)
           P == {r \in reports : ReportFormatOf[r] = "PDF"}
           C == {r \in reports : ReportFormatOf[r] = "CSV"}
           N == NewestOf(reports, ListLimit)
<1>1. made \in Nat /\ ListLimit \in Nat /\ ListLimit > 0 /\ MaxReports \in Nat
  BY DEF RowsAssumption
<1>0. \A r \in reports : r \in 1..MaxReports /\ r \in Nat
  BY <1>1
<1>2. Rows!NewestRows = N
  BY RowsCardinality DEF Rows!NewestRows, NewestOf, Above
<1>3. /\ IsFiniteSet(reports) /\ k \in Nat
      /\ k <= ListLimit => N = reports
      /\ k > ListLimit => Cardinality(N) = ListLimit
      /\ reports # {} => \E m \in reports : (\A s \in reports : s <= m) /\ m \in N
  BY <1>1, NewestAre
<1>4. k <= MaxReports
  <2>1. IsFiniteSet(1..made) /\ Cardinality(1..made) <= made
    BY <1>1, FS_Interval
  <2>2. k <= Cardinality(1..made) /\ Cardinality(1..made) \in Nat
    BY <2>1, FS_Subset, FS_CardinalityType
  <2> HIDE DEF k
  <2> QED BY <1>1, <1>3, <2>1, <2>2
<1>5. /\ IsFiniteSet(P) /\ IsFiniteSet(C) /\ Cardinality(P) \in Nat /\ Cardinality(C) \in Nat
      /\ Cardinality(P) <= k /\ Cardinality(C) <= k
  <2>1. P \subseteq reports /\ C \subseteq reports
    OBVIOUS
  <2> HIDE DEF P, C
  <2> QED BY <1>3, <2>1, FS_Subset, FS_CardinalityType
<1>6. Cardinality(P) + Cardinality(C) = k
  <2>0. \A r \in reports : ReportFormatOf[r] = "PDF" \/ ReportFormatOf[r] = "CSV"
    BY <1>0 DEF RowsAssumption
  <2>1. P \cup C = reports /\ P \cap C = {}
    BY <2>0
  <2>4. Cardinality(P \cup C) = k
    BY <2>1
  <2> HIDE DEF P, C, k
  <2>2. Cardinality(P \cup C) = Cardinality(P) + Cardinality(C) - Cardinality(P \cap C)
    BY <1>5, FS_Union
  <2>3. Cardinality(P \cap C) = 0
    BY <2>1, FS_EmptySet
  <2>5. Cardinality(P) + Cardinality(C) - 0 = k
    BY <2>2, <2>3, <2>4
  <2> QED BY <1>5, <2>5
<1>7. Rows!Newest(reports) = Rows!Newest(N) /\ Rows!Newest(reports) \in 0..MaxReports
  <2>1. CASE reports = {}
    <3>1. N = {}
      BY <2>1 DEF NewestOf
    <3> QED BY <1>1, <2>1, <3>1 DEF Rows!Newest, Rows!None
  <2>2. CASE reports # {}
    <3>1. PICK m \in reports : (\A s \in reports : s <= m) /\ m \in N
      BY <1>3, <2>2
    <3>2. N \subseteq reports /\ N # {}
      BY <3>1 DEF NewestOf
    <3>3. m \in 1..MaxReports
      BY <1>0
    <3> HIDE DEF N
    <3>4. ASSUME NEW S, S \subseteq reports, m \in S PROVE Rows!Max(S) = m
      <4>1. \A x \in S : (\A y \in S : x >= y) => x = m
        BY <1>0, <3>1, <3>3, <3>4
      <4>2. \A y \in S : m >= y
        BY <1>0, <3>1, <3>3, <3>4
      <4>3. \E x \in S : \A y \in S : x >= y
        BY <3>4, <4>2
      <4>4. Rows!Max(S) \in S /\ \A y \in S : Rows!Max(S) >= y
        BY <4>3 DEF Rows!Max
      <4> QED BY <4>1, <4>4
    <3>5. Rows!Max(reports) = m /\ Rows!Max(N) = m
      BY <3>1, <3>2, <3>4
    <3>6. Rows!Newest(reports) = m /\ Rows!Newest(N) = m
      BY <2>2, <3>2, <3>5 DEF Rows!Newest
    <3> QED BY <1>1, <3>3, <3>6
  <2> QED BY <2>1, <2>2
<1>8. N \subseteq Rows!Report /\ Cardinality(N) <= ListLimit
  <2>1. N \subseteq Rows!Report
    BY <1>0 DEF NewestOf, Rows!Report
  <2> HIDE DEF N
  <2>2. Cardinality(N) <= ListLimit
    <3> HIDE DEF k
    <3>1. CASE k <= ListLimit
      BY <1>3, <3>1 DEF k
    <3>2. CASE k > ListLimit
      BY <1>1, <1>3, <3>2
    <3> QED BY <1>1, <1>3, <3>1, <3>2
  <2> QED BY <2>1, <2>2
<1>9. \A t \in Rows!Tile : Rows!Count(t) \in 0..MaxReports
  <2>1. k \in 0..MaxReports /\ Cardinality(P) \in 0..MaxReports /\ Cardinality(C) \in 0..MaxReports
    <3> HIDE DEF k, P, C
    <3> QED BY <1>1, <1>3, <1>4, <1>5
  <2> HIDE DEF k, P, C
  <2> QED BY <1>7, <2>1, CountIs DEF Rows!Tile, k, P, C
<1>10. IF Rows!Count("total") > ListLimit THEN Cardinality(N) = ListLimit ELSE N = reports
  <2> HIDE DEF N
  <2>1. Rows!Count("total") = k
    BY CountIs
  <2> HIDE DEF k
  <2> QED BY <1>1, <1>3, <2>1
<1> HIDE DEF N
<1> QED BY <1>2, <1>6, <1>7, <1>8, <1>9, <1>10, CountIs

LEMMA RowsInit == ASSUME RowsAssumption PROVE Rows!Init => RowsInv
<1> SUFFICES ASSUME Rows!Init PROVE RowsInv
  OBVIOUS
<1>1. /\ made \in 0..MaxReports /\ reports \subseteq 1..made /\ table = {} /\ tiles = Rows!NoStats
      /\ asked = [Rows!Idle EXCEPT !.phase = "sent"]
      /\ counts = [Rows!Still EXCEPT !.phase = "sent", !.left = Rows!Tile]
      /\ dirty = FALSE /\ downloading = {} /\ marker = Rows!None
  BY DEF Rows!Init
<1>2. Rows!NoStats \in [Rows!Tile -> 0..MaxReports] /\ MaxReports \in Nat /\ ListLimit \in Nat
  BY DEF Rows!NoStats, RowsAssumption
<1>3. asked = [phase |-> "sent", rows |-> {}]
  BY <1>1 DEF Rows!Idle
<1>4. counts = [phase |-> "sent", left |-> Rows!Tile, stats |-> Rows!NoStats]
  BY <1>1 DEF Rows!Still
<1>5. Rows!Cardinality(table) <= ListLimit
  BY <1>1, <1>2, RowsCardinality, FS_EmptySet
<1>6. Rows!ListTypeOK
  <2>1. asked \in [phase : {"idle", "sent", "done"}, rows : SUBSET Rows!Report]
    BY <1>3
  <2>2. counts \in [phase : {"idle", "sent"}, left : SUBSET Rows!Tile, stats : [Rows!Tile -> 0..MaxReports]]
    BY <1>2, <1>4
  <2>3. tiles \in [Rows!Tile -> 0..MaxReports] /\ table \subseteq Rows!Report /\ dirty \in BOOLEAN
    BY <1>1, <1>2
  <2>4. downloading \subseteq Rows!Report /\ marker \in Rows!Report \cup {Rows!None}
    BY <1>1
  <2> QED BY <1>1, <1>5, <2>1, <2>2, <2>3, <2>4 DEF Rows!ListTypeOK
<1>7. RowsTell
  BY <1>3 DEF RowsTell
<1>8. TilesTell
  BY <1>4 DEF TilesTell
<1>9. Rows!MarkedIsDownloading
  BY <1>1 DEF Rows!MarkedIsDownloading
<1> QED BY <1>6, <1>7, <1>8, <1>9 DEF RowsInv

LEMMA AnswersKept ==
  ASSUME reports' = reports
  PROVE  Rows!NewestRows' = Rows!NewestRows /\ \A t \in Rows!Tile : Rows!Count(t)' = Rows!Count(t)
<1>1. Rows!NewestRows' = Rows!NewestRows
  BY DEF Rows!NewestRows
<1>2. \A t \in Rows!Tile : Rows!Count(t)' = Rows!Count(t)
  BY DEF Rows!Count, Rows!Format, Rows!OfFormat, Rows!Newest
<1> QED BY <1>1, <1>2

(* What the table's request does keeps what the tiles tell, and the other  *)
(* way round; the archive changes only with dirty set.                     *)
LEMMA TableStepKeeps ==
  ASSUME RowsInv, RowsAssumption,
         Rows!ReadRows \/ Rows!ListLands \/ Rows!ListFails
  PROVE  RowsInv'
<1>1. /\ made \in 0..MaxReports /\ reports \subseteq 1..made
      /\ table \subseteq Rows!Report /\ Rows!Cardinality(table) <= ListLimit
      /\ asked \in [phase : {"idle", "sent", "done"}, rows : SUBSET Rows!Report]
      /\ dirty \in BOOLEAN /\ MaxReports \in Nat /\ ListLimit \in Nat
  BY DEF RowsInv, RowsAssumption, Rows!ListTypeOK
<1>2. reports' = reports /\ made' = made /\ tiles' = tiles /\ counts' = counts
      /\ downloading' = downloading /\ marker' = marker
  BY DEF Rows!ReadRows, Rows!ListLands, Rows!ListFails, Rows!backend, Rows!downloads
<1>3. dirty' \in BOOLEAN /\ (~dirty' => ~dirty)
  <2>1. TRUE \in BOOLEAN
    OBVIOUS
  <2> QED BY <1>1, <2>1 DEF Rows!ReadRows, Rows!ListLands, Rows!ListFails
<1>4. Rows!NewestRows' = Rows!NewestRows /\ \A t \in Rows!Tile : Rows!Count(t)' = Rows!Count(t)
  BY <1>2, AnswersKept
<1>5. /\ table' \subseteq Rows!Report /\ Rows!Cardinality(table') <= ListLimit
      /\ asked' \in [phase : {"idle", "sent", "done"}, rows : SUBSET Rows!Report]
      /\ RowsTell'
  <2>1. CASE Rows!ReadRows
    <3>1. asked' = [phase |-> "done", rows |-> Rows!NewestRows] /\ table' = table
      BY <2>1 DEF Rows!ReadRows
    <3>2. Rows!NewestRows \subseteq Rows!Report /\ Cardinality(Rows!NewestRows) <= ListLimit
      BY <1>1, AnswersFit
    <3>3. asked'.phase = "done" /\ asked'.rows = Rows!NewestRows
      BY <3>1
    <3>4. RowsTell'
      BY <1>4, <3>2, <3>3 DEF RowsTell
    <3> QED BY <1>1, <3>1, <3>2, <3>4
  <2>2. CASE Rows!ListLands
    <3>1. asked.phase = "done" /\ table' = asked.rows /\ asked' = Rows!Idle /\ dirty' = dirty
      BY <2>2 DEF Rows!ListLands
    <3>2. asked' = [phase |-> "idle", rows |-> {}]
      BY <3>1 DEF Rows!Idle
    <3>3. Cardinality(table') <= ListLimit /\ (~dirty => table' = Rows!NewestRows)
      BY <3>1 DEF RowsInv, RowsTell
    <3>4. RowsTell'
      <4>1. asked'.phase = "idle" /\ Rows!Idle' = Rows!Idle
        BY <3>2 DEF Rows!Idle
      <4> QED BY <1>4, <3>1, <3>3, <4>1 DEF RowsTell
    <3> QED BY <1>1, <3>1, <3>2, <3>3, <3>4, RowsCardinality
  <2>3. CASE Rows!ListFails
    <3>1. table' = {} /\ asked' = Rows!Idle /\ dirty' = TRUE
      BY <2>3 DEF Rows!ListFails
    <3>2. asked' = [phase |-> "idle", rows |-> {}]
      BY <3>1 DEF Rows!Idle
    <3>3. Cardinality({}) = 0
      BY FS_EmptySet
    <3>4. RowsTell'
      <4>1. asked'.phase = "idle" /\ Rows!Idle' = Rows!Idle
        BY <3>2 DEF Rows!Idle
      <4> QED BY <3>1, <4>1 DEF RowsTell
    <3> QED BY <1>1, <3>1, <3>2, <3>3, <3>4, RowsCardinality
  <2> QED BY <2>1, <2>2, <2>3
<1>6. Rows!ListTypeOK'
  BY <1>1, <1>2, <1>3, <1>5 DEF RowsInv, Rows!ListTypeOK
<1>7. TilesTell'
  BY <1>2, <1>3, <1>4 DEF RowsInv, TilesTell
<1>8. Rows!MarkedIsDownloading'
  BY <1>2 DEF RowsInv, Rows!MarkedIsDownloading
<1> QED BY <1>5, <1>6, <1>7, <1>8 DEF RowsInv

LEMMA TilesStepKeeps ==
  ASSUME RowsInv, RowsAssumption,
         (\E t \in Rows!Tile : Rows!GetReportStats(t)) \/ Rows!StatsLand \/ Rows!StatsFail
  PROVE  RowsInv'
<1>1. /\ made \in 0..MaxReports /\ reports \subseteq 1..made
      /\ tiles \in [Rows!Tile -> 0..MaxReports]
      /\ counts \in [phase : {"idle", "sent"}, left : SUBSET Rows!Tile,
                     stats : [Rows!Tile -> 0..MaxReports]]
      /\ dirty \in BOOLEAN /\ MaxReports \in Nat
  BY DEF RowsInv, RowsAssumption, Rows!ListTypeOK
<1>2. reports' = reports /\ made' = made /\ table' = table /\ asked' = asked
      /\ downloading' = downloading /\ marker' = marker
  BY DEF Rows!GetReportStats, Rows!StatsLand, Rows!StatsFail, Rows!backend, Rows!downloads
<1>3. dirty' \in BOOLEAN /\ (~dirty' => ~dirty)
  <2>1. TRUE \in BOOLEAN
    OBVIOUS
  <2> QED BY <1>1, <2>1 DEF Rows!GetReportStats, Rows!StatsLand, Rows!StatsFail
<1>4. Rows!NewestRows' = Rows!NewestRows /\ \A t \in Rows!Tile : Rows!Count(t)' = Rows!Count(t)
  BY <1>2, AnswersKept
<1>5. Rows!Still = [phase |-> "idle", left |-> {}, stats |-> Rows!NoStats]
      /\ Rows!Still' = Rows!Still /\ Rows!NoStats \in [Rows!Tile -> 0..MaxReports]
  BY <1>1 DEF Rows!Still, Rows!NoStats
<1>6. /\ tiles' \in [Rows!Tile -> 0..MaxReports]
      /\ counts' \in [phase : {"idle", "sent"}, left : SUBSET Rows!Tile,
                      stats : [Rows!Tile -> 0..MaxReports]]
      /\ TilesTell'
  <2>1. CASE \E t \in Rows!Tile : Rows!GetReportStats(t)
    <3>1. PICK t \in Rows!Tile : Rows!GetReportStats(t)
      BY <2>1
    <3>2. /\ t \in counts.left /\ tiles' = tiles
          /\ counts' = [counts EXCEPT !.left = @ \ {t}, !.stats[t] = Rows!Count(t)]
      BY <3>1 DEF Rows!GetReportStats
    <3>3. counts' = [phase |-> counts.phase, left |-> counts.left \ {t},
                     stats |-> [counts.stats EXCEPT ![t] = Rows!Count(t)]]
      BY <1>1, <3>2
    <3>4. Rows!Count(t) \in 0..MaxReports
      BY <1>1, <3>1, AnswersFit
    <3>5. [counts.stats EXCEPT ![t] = Rows!Count(t)] \in [Rows!Tile -> 0..MaxReports]
      BY <1>1, <3>4
    <3>6. counts.phase = "sent"
      BY <1>1, <1>5, <3>2 DEF RowsInv, TilesTell
    <3>7. counts'.phase = "sent" /\ counts'.left = counts.left \ {t}
          /\ counts'.stats = [counts.stats EXCEPT ![t] = Rows!Count(t)]
      BY <3>3, <3>6
    <3>8. ~dirty' => \A q \in Rows!Tile \ counts'.left : counts'.stats[q] = Rows!Count(q)
      <4> SUFFICES ASSUME ~dirty', NEW q \in Rows!Tile \ counts'.left
                   PROVE  counts'.stats[q] = Rows!Count(q)
        OBVIOUS
      <4>1. CASE q = t
        BY <1>1, <3>7, <4>1
      <4>2. CASE q # t
        <5>1. q \in Rows!Tile \ counts.left
          BY <3>7, <4>2
        <5>2. counts.stats[q] = Rows!Count(q)
          BY <1>3, <3>6, <5>1 DEF RowsInv, TilesTell
        <5> QED BY <1>1, <3>7, <4>2, <5>2
      <4> QED BY <4>1, <4>2
    <3>9. Rows!Tile' = Rows!Tile
      BY DEF Rows!Tile
    <3>10. TilesTell'
      BY <1>4, <3>7, <3>8, <3>9 DEF TilesTell
    <3> QED BY <1>1, <3>2, <3>3, <3>5, <3>6, <3>10
  <2>2. CASE Rows!StatsLand
    <3>1. /\ counts.phase = "sent" /\ counts.left = {}
          /\ tiles' = counts.stats /\ counts' = Rows!Still /\ dirty' = dirty
      BY <2>2 DEF Rows!StatsLand
    <3>2. ~dirty => \A t \in Rows!Tile : tiles'[t] = Rows!Count(t)
      BY <3>1 DEF RowsInv, TilesTell
    <3>3. counts'.phase = "idle"
      BY <1>5, <3>1
    <3>4. TilesTell'
      BY <1>4, <1>5, <3>1, <3>2, <3>3 DEF TilesTell, Rows!Tile
    <3> QED BY <1>1, <1>5, <3>1, <3>4
  <2>3. CASE Rows!StatsFail
    <3>1. tiles' = Rows!NoStats /\ counts' = Rows!Still /\ dirty' = TRUE
      BY <2>3 DEF Rows!StatsFail
    <3>2. counts'.phase = "idle"
      BY <1>5, <3>1
    <3>3. TilesTell'
      BY <1>5, <3>1, <3>2 DEF TilesTell
    <3> QED BY <1>1, <1>5, <3>1, <3>3
  <2> QED BY <2>1, <2>2, <2>3
<1>7. Rows!ListTypeOK'
  BY <1>1, <1>2, <1>3, <1>6 DEF RowsInv, Rows!ListTypeOK
<1>8. RowsTell'
  BY <1>2, <1>3, <1>4 DEF RowsInv, RowsTell, Rows!Idle
<1>9. Rows!MarkedIsDownloading'
  BY <1>2 DEF RowsInv, Rows!MarkedIsDownloading
<1> QED BY <1>6, <1>7, <1>8, <1>9 DEF RowsInv

LEMMA RefreshKeepsRows == ASSUME RowsInv, RowsAssumption, Rows!HandleRefresh PROVE RowsInv'
<1>1. /\ made' = made /\ reports' = reports /\ table' = table /\ tiles' = tiles
      /\ downloading' = downloading /\ marker' = marker /\ dirty' = FALSE
      /\ asked' = [Rows!Idle EXCEPT !.phase = "sent"]
      /\ counts' = [Rows!Still EXCEPT !.phase = "sent", !.left = Rows!Tile]
  BY DEF Rows!HandleRefresh, Rows!backend, Rows!downloads
<1>2. Rows!NoStats \in [Rows!Tile -> 0..MaxReports]
  BY DEF Rows!NoStats, RowsAssumption
<1>3. asked' = [phase |-> "sent", rows |-> {}]
  BY <1>1 DEF Rows!Idle
<1>4. counts' = [phase |-> "sent", left |-> Rows!Tile, stats |-> Rows!NoStats]
  BY <1>1 DEF Rows!Still
<1>5. Rows!ListTypeOK'
  <2>1. asked' \in [phase : {"idle", "sent", "done"}, rows : SUBSET Rows!Report]
    BY <1>3
  <2>2. counts' \in [phase : {"idle", "sent"}, left : SUBSET Rows!Tile,
                     stats : [Rows!Tile -> 0..MaxReports]]
    BY <1>2, <1>4
  <2>3. dirty' \in BOOLEAN
    BY <1>1
  <2> QED BY <1>1, <2>1, <2>2, <2>3 DEF RowsInv, Rows!ListTypeOK
<1>6. RowsTell'
  <2>1. asked'.phase = "sent"
    BY <1>3
  <2> QED BY <2>1 DEF RowsTell
<1>7. TilesTell'
  <2>1. counts'.phase = "sent" /\ counts'.left = Rows!Tile /\ Rows!Tile' = Rows!Tile
    BY <1>4 DEF Rows!Tile
  <2> QED BY <2>1 DEF TilesTell
<1>8. Rows!MarkedIsDownloading'
  BY <1>1 DEF RowsInv, Rows!MarkedIsDownloading
<1> QED BY <1>5, <1>6, <1>7, <1>8 DEF RowsInv

LEMMA ArchiveStepKeeps ==
  ASSUME RowsInv, RowsAssumption,
         Rows!Generate \/ \E r \in Rows!Report : Rows!Remove(r)
  PROVE  RowsInv'
<1>1. /\ made \in 0..MaxReports /\ reports \subseteq 1..made /\ MaxReports \in Nat
  BY DEF RowsInv, RowsAssumption, Rows!ListTypeOK
<1>2. /\ table' = table /\ tiles' = tiles /\ asked' = asked /\ counts' = counts
      /\ downloading' = downloading /\ marker' = marker /\ dirty' = TRUE
  BY DEF Rows!Generate, Rows!Remove, Rows!page, Rows!downloads
<1>3. made' \in 0..MaxReports /\ reports' \subseteq 1..made'
  <2>1. CASE Rows!Generate
    BY <1>1, <2>1 DEF Rows!Generate
  <2>2. CASE \E r \in Rows!Report : Rows!Remove(r)
    BY <1>1, <2>2 DEF Rows!Remove
  <2> QED BY <2>1, <2>2
<1>4. dirty' \in BOOLEAN
  BY <1>2
<1>5. Rows!ListTypeOK'
  BY <1>2, <1>3, <1>4 DEF RowsInv, Rows!ListTypeOK
<1>6. RowsTell'
  BY <1>2 DEF RowsInv, RowsTell, Rows!Idle
<1>7. TilesTell'
  BY <1>2 DEF RowsInv, TilesTell, Rows!Still, Rows!NoStats, Rows!Tile
<1>8. Rows!MarkedIsDownloading'
  BY <1>2 DEF RowsInv, Rows!MarkedIsDownloading
<1> QED BY <1>5, <1>6, <1>7, <1>8 DEF RowsInv

LEMMA DownloadStepKeeps ==
  ASSUME RowsInv, RowsAssumption,
         (\E r \in Rows!Report : Rows!HandleDownload(r) \/ Rows!DownloadEnds(r))
            \/ UNCHANGED Rows!vars
  PROVE  RowsInv'
<1>1. /\ made' = made /\ reports' = reports /\ table' = table /\ tiles' = tiles
      /\ asked' = asked /\ counts' = counts /\ dirty' = dirty
  BY DEF Rows!HandleDownload, Rows!DownloadEnds, Rows!backend, Rows!page, Rows!vars
<1>2. downloading' \subseteq Rows!Report /\ marker' \in Rows!Report \cup {Rows!None}
      /\ (marker' # Rows!None => marker' \in downloading')
  <2>1. downloading \subseteq Rows!Report /\ marker \in Rows!Report \cup {Rows!None}
        /\ (marker # Rows!None => marker \in downloading)
    BY DEF RowsInv, Rows!ListTypeOK, Rows!MarkedIsDownloading
  <2>2. CASE \E r \in Rows!Report : Rows!HandleDownload(r)
    BY <2>1, <2>2 DEF Rows!HandleDownload
  <2>3. CASE \E r \in Rows!Report : Rows!DownloadEnds(r)
    BY <2>1, <2>3 DEF Rows!DownloadEnds
  <2>4. CASE UNCHANGED Rows!vars
    BY <2>1, <2>4 DEF Rows!vars
  <2> QED BY <2>2, <2>3, <2>4
<1>3. Rows!ListTypeOK'
  BY <1>1, <1>2 DEF RowsInv, Rows!ListTypeOK
<1>4. Rows!NewestRows' = Rows!NewestRows /\ \A t \in Rows!Tile : Rows!Count(t)' = Rows!Count(t)
  BY <1>1, AnswersKept
<1>5. RowsTell'
  BY <1>1, <1>4 DEF RowsInv, RowsTell, Rows!Idle
<1>6. TilesTell'
  BY <1>1, <1>4 DEF RowsInv, TilesTell, Rows!Still, Rows!NoStats, Rows!Tile
<1>7. Rows!MarkedIsDownloading'
  BY <1>2 DEF Rows!MarkedIsDownloading, Rows!None
<1> QED BY <1>3, <1>5, <1>6, <1>7 DEF RowsInv

LEMMA RowsNext == ASSUME RowsInv, RowsAssumption, [Rows!Next]_(Rows!vars) PROVE RowsInv'
  BY TableStepKeeps, TilesStepKeeps, RefreshKeepsRows, ArchiveStepKeeps, DownloadStepKeeps
     DEF Rows!Next

(* What a page at rest shows, from what its parts tell. *)
LEMMA RowsShown ==
  ASSUME RowsAssumption, RowsInv
  PROVE  Rows!TilesFitTable /\ Rows!MarkedIsDownloading
<1>1. made \in 0..MaxReports /\ reports \subseteq 1..made
  BY DEF RowsInv, Rows!ListTypeOK
<1>2. ASSUME asked = Rows!Idle, counts = Rows!Still, ~dirty
      PROVE  /\ tiles["PDF"] + tiles["CSV"] = tiles["total"]
             /\ tiles["last"] = Rows!Newest(table)
             /\ IF tiles["total"] > ListLimit THEN Cardinality(table) = ListLimit
                ELSE table = reports
  <2>1. table = Rows!NewestRows
    <3>1. asked.phase = "idle"
      BY <1>2 DEF Rows!Idle
    <3> QED BY <1>2, <3>1 DEF RowsInv, RowsTell
  <2>2. \A t \in Rows!Tile : tiles[t] = Rows!Count(t)
    <3>1. counts.phase = "idle"
      BY <1>2 DEF Rows!Still
    <3> QED BY <1>2, <3>1 DEF RowsInv, TilesTell
  <2>3. /\ tiles["PDF"] = Rows!Count("PDF") /\ tiles["CSV"] = Rows!Count("CSV")
        /\ tiles["total"] = Rows!Count("total") /\ tiles["last"] = Rows!Count("last")
    BY <2>2 DEF Rows!Tile
  <2>4. /\ Rows!Count("PDF") + Rows!Count("CSV") = Rows!Count("total")
        /\ Rows!Count("last") = Rows!Newest(Rows!NewestRows)
        /\ IF Rows!Count("total") > ListLimit THEN Cardinality(Rows!NewestRows) = ListLimit
           ELSE Rows!NewestRows = reports
    BY <1>1, AnswersFit
  <2> QED BY <2>1, <2>3, <2>4
<1>3. table = reports =>
        \A t \in ReportType \cup {Rows!All}, f \in Rows!Format \cup {Rows!All} :
            Rows!FilteredReports(t, f) = {r \in reports : Rows!Passes(r, t, f)}
  BY DEF Rows!FilteredReports
<1>4. Rows!TilesFitTable
  BY <1>2, <1>3, RowsCardinality DEF Rows!TilesFitTable
<1> QED BY <1>4 DEF RowsInv

(* reports.service.ts, reports/page.tsx: tiles and table, read one after   *)
(* the other, tell of one archive on a page at rest that nothing disturbed *)
(* since its refresh, and a marked row is being saved.                     *)
THEOREM TilesAreOfTable ==
  ASSUME RowsAssumption PROVE Rows!Spec => [](Rows!TilesFitTable /\ Rows!MarkedIsDownloading)
  BY RowsInit, RowsNext, RowsShown, PTL DEF Rows!Spec

-------------------------------------------------------------------------------
(* The numbers of a report.  A sum is a number of pairs. *)
Pairs(f, S) == UNION {{x} \X (1..f[x]) : x \in S}

LEMMA NumbersCardinality == \A S : Numbers!Cardinality(S) = Cardinality(S)
  BY DEF Numbers!Cardinality, Cardinality

LEMMA SumIsOfPairs == \A f, S : Numbers!SumOver(f, S) = Cardinality(Pairs(f, S))
  BY NumbersCardinality DEF Numbers!SumOver, Pairs

LEMMA PairsAre ==
  ASSUME NEW f, NEW S
  PROVE  \A p : p \in Pairs(f, S) <=> \E x \in S : \E i \in 1..f[x] : p = <<x, i>>
  BY DEF Pairs

LEMMA PairsFinite ==
  ASSUME NEW S, IsFiniteSet(S), NEW f, \A x \in S : f[x] \in Nat
  PROVE  /\ IsFiniteSet(Pairs(f, S))
         /\ Numbers!SumOver(f, S) \in Nat
<1> DEFINE of == [x \in S |-> {x} \X (1..f[x])]
           P == {{x} \X (1..f[x]) : x \in S}
<1>1. of \in Surjection(S, P)
  BY DEF Surjection
<1>2. IsFiniteSet(P)
  BY <1>1, FS_Surjection
<1>3. \A T \in P : IsFiniteSet(T)
  <2> SUFFICES ASSUME NEW x \in S PROVE IsFiniteSet({x} \X (1..f[x]))
    OBVIOUS
  <2>1. 1 \in Int /\ f[x] \in Int
    OBVIOUS
  <2>2. IsFiniteSet({x}) /\ IsFiniteSet(1..f[x])
    BY <2>1, FS_Singleton, FS_Interval
  <2> QED BY <2>2, FS_Product
<1>4. IsFiniteSet(Pairs(f, S))
  BY <1>2, <1>3, FS_UNION DEF Pairs
<1> QED BY <1>4, FS_CardinalityType, SumIsOfPairs

(* A sum over a part is part of the sum. *)
LEMMA SumGrows ==
  ASSUME NEW S, IsFiniteSet(S), NEW f, \A x \in S : f[x] \in Nat, NEW T, T \subseteq S
  PROVE  /\ Numbers!SumOver(f, T) \in Nat
         /\ Numbers!SumOver(f, T) <= Numbers!SumOver(f, S)
<1>1. Pairs(f, T) \subseteq Pairs(f, S)
  BY PairsAre
<1>2. IsFiniteSet(T)
  BY FS_Subset
<1> QED BY <1>1, <1>2, PairsFinite, FS_Subset, SumIsOfPairs

(* A sum is positive if a summand is. *)
LEMMA SumPositive ==
  ASSUME NEW S, IsFiniteSet(S), NEW f, \A x \in S : f[x] \in Nat
  PROVE  /\ Numbers!SumOver(f, S) \in Nat
         /\ Numbers!SumOver(f, S) > 0 <=> \E x \in S : f[x] > 0
<1>1. IsFiniteSet(Pairs(f, S)) /\ Numbers!SumOver(f, S) \in Nat
  BY PairsFinite
<1>2. Pairs(f, S) # {} <=> \E x \in S : f[x] > 0
  <2>1. ASSUME NEW p \in Pairs(f, S) PROVE \E x \in S : f[x] > 0
    <3>1. PICK x \in S : \E i \in 1..f[x] : p = <<x, i>>
      BY PairsAre
    <3> QED BY <3>1
  <2>2. ASSUME NEW x \in S, f[x] > 0 PROVE <<x, 1>> \in Pairs(f, S)
    <3>1. 1 \in 1..f[x]
      BY <2>2
    <3> QED BY <3>1, PairsAre
  <2> QED BY <2>1, <2>2
<1> QED BY <1>1, <1>2, FS_EmptySet, SumIsOfPairs

(* One more of a summand is one more of the sum; no summand exceeds it. *)
LEMMA SumCounts ==
  ASSUME NEW S, IsFiniteSet(S), NEW f \in [S -> Nat], NEW x \in S
  PROVE  /\ Numbers!SumOver([f EXCEPT ![x] = @ + 1], S) = Numbers!SumOver(f, S) + 1
         /\ f[x] <= Numbers!SumOver(f, S)
<1> DEFINE g == [f EXCEPT ![x] = @ + 1]
           n == f[x] + 1
<1>1. IsFiniteSet(Pairs(f, S)) /\ Numbers!SumOver(f, S) \in Nat
  BY PairsFinite
<1>2. Pairs(g, S) = Pairs(f, S) \cup {<<x, n>>}
  <2>1. \A y \in S : 1..g[y] = (1..f[y]) \cup (IF y = x THEN {n} ELSE {})
    OBVIOUS
  <2>2. \A p : p \in Pairs(g, S) <=> p \in Pairs(f, S) \/ p = <<x, n>>
    <3> SUFFICES ASSUME NEW p PROVE p \in Pairs(g, S) <=> p \in Pairs(f, S) \/ p = <<x, n>>
      OBVIOUS
    <3> HIDE DEF g, n
    <3>1. p \in Pairs(g, S) <=> \E y \in S : \E i \in 1..g[y] : p = <<y, i>>
      BY PairsAre
    <3>2. p \in Pairs(f, S) <=> \E y \in S : \E i \in 1..f[y] : p = <<y, i>>
      BY PairsAre
    <3> QED BY <2>1, <3>1, <3>2
  <2> QED BY <2>2
<1>3. <<x, n>> \notin Pairs(f, S)
  <2> SUFFICES ASSUME <<x, n>> \in Pairs(f, S) PROVE FALSE
    OBVIOUS
  <2>1. PICK y \in S : \E i \in 1..f[y] : <<x, n>> = <<y, i>>
    BY PairsAre
  <2> QED BY <2>1
<1>4. Cardinality(Pairs(g, S)) = Cardinality(Pairs(f, S)) + 1
  BY <1>1, <1>2, <1>3, FS_AddElement
<1>5. f[x] <= Cardinality(Pairs(f, S))
  <2>1. {x} \X (1..f[x]) \subseteq Pairs(f, S)
    BY DEF Pairs
  <2>2. IsFiniteSet({x}) /\ Cardinality({x}) = 1
    BY FS_Singleton
  <2>3. IsFiniteSet(1..f[x]) /\ Cardinality(1..f[x]) = f[x]
    BY FS_Interval
  <2>4. Cardinality({x} \X (1..f[x])) = 1 * f[x]
    BY <2>2, <2>3, FS_Product
  <2> QED BY <1>1, <2>1, <2>4, FS_Subset
<1> QED BY <1>4, <1>5, SumIsOfPairs

(* The parts of a set add up to it. *)
LEMMA PartsAddUp ==
  ASSUME NEW M, IsFiniteSet(M), NEW T, IsFiniteSet(T), NEW g \in [M -> T], NEW f,
         \A t \in T : f[t] = Cardinality({a \in M : g[a] = t})
  PROVE  Numbers!SumOver(f, T) = Cardinality(M)
<1> DEFINE Of(t) == {a \in M : g[a] = t}
           b == [t \in T |-> CHOOSE h : h \in Bijection(Of(t), 1..f[t])]
           h == [a \in M |-> <<g[a], b[g[a]][a]>>]
<1>1. ASSUME NEW t \in T PROVE f[t] \in Nat /\ b[t] \in Bijection(Of(t), 1..f[t])
  <2>1. IsFiniteSet(Of(t)) /\ f[t] = Cardinality(Of(t)) /\ f[t] \in Nat
    BY FS_Subset, FS_CardinalityType
  <2>2. IsFiniteSet(1..f[t]) /\ Cardinality(1..f[t]) = f[t]
    BY <2>1, FS_Interval
  <2>3. ExistsBijection(Of(t), 1..f[t])
    BY <2>1, <2>2, FS_SameCardinalityBij
  <2> QED BY <2>1, <2>3 DEF ExistsBijection
<1>2. ASSUME NEW t \in T
      PROVE  /\ \A a \in Of(t) : b[t][a] \in 1..f[t]
             /\ \A a, c \in Of(t) : b[t][a] = b[t][c] => a = c
             /\ \A i \in 1..f[t] : \E a \in Of(t) : b[t][a] = i
  <2> HIDE DEF b
  <2>1. b[t] \in Bijection(Of(t), 1..f[t])
    BY <1>1
  <2>2. /\ b[t] \in [Of(t) -> 1..f[t]] /\ IsInjective(b[t])
        /\ \A i \in 1..f[t] : \E a \in Of(t) : b[t][a] = i
    BY <2>1 DEF Bijection, Injection, Surjection
  <2>3. DOMAIN b[t] = Of(t)
    BY <2>2
  <2>4. \A a, c \in Of(t) : b[t][a] = b[t][c] => a = c
    BY <2>2, <2>3 DEF IsInjective
  <2> HIDE DEF Of
  <2> QED BY <2>2, <2>4
<1> HIDE DEF b
<1>3. h \in [M -> Pairs(f, T)]
  BY <1>2, PairsAre
<1>4. \A a, c \in M : h[a] = h[c] => a = c
  BY <1>2
<1>5. \A p \in Pairs(f, T) : \E a \in M : h[a] = p
  <2> SUFFICES ASSUME NEW p \in Pairs(f, T) PROVE \E a \in M : h[a] = p
    OBVIOUS
  <2>1. PICK t \in T : \E i \in 1..f[t] : p = <<t, i>>
    BY PairsAre
  <2>2. PICK i \in 1..f[t] : p = <<t, i>>
    BY <2>1
  <2>3. PICK a \in Of(t) : b[t][a] = i
    BY <1>2
  <2> QED BY <2>2, <2>3
<1>6. h \in Bijection(M, Pairs(f, T))
  BY <1>3, <1>4, <1>5 DEF Bijection, Injection, Surjection, IsInjective
<1>7. ExistsBijection(M, Pairs(f, T))
  BY <1>6 DEF ExistsBijection
<1>8. Cardinality(Pairs(f, T)) = Cardinality(M)
  BY <1>7, FS_Bijection
<1> QED BY <1>8, SumIsOfPairs

(* A quotient is bounded as the dividend is. *)
LEMMA Quotient ==
  ASSUME NEW x \in Nat, NEW m \in Nat, m > 0, NEW b \in Nat, x < (b + 1) * m
  PROVE  x \div m \in 0..b
<1>1. /\ x \div m \in Int
      /\ m * (x \div m) <= x
      /\ x < m * (x \div m) + m
  BY Z3
<1>2. x \div m >= 0
  <2> SUFFICES ASSUME x \div m <= -1 PROVE FALSE
    BY <1>1
  <2>1. m * (x \div m) + m <= 0
    BY <1>1, Z3
  <2> QED BY <1>1, <2>1
<1>3. x \div m <= b
  <2> SUFFICES ASSUME x \div m >= b + 1 PROVE FALSE
    BY <1>1
  <2>1. m * (x \div m) >= (b + 1) * m
    BY <1>1, Z3
  <2> QED BY <1>1, <2>1
<1> QED BY <1>1, <1>2, <1>3

(* Before it is asked for, and until it is counted, a number is zero. *)
NotYet ==
    /\ request # "counting" => left = {}
    /\ request \in {"idle", "counting", "types", "logs"} => number["totalLogs"] = 0
    /\ request \in {"idle", "counting", "types", "logs", "anomalous"} =>
          number["anomalousLogs"] = 0
    /\ request \notin {"ports", "done"} => top.ips = {}

(* The alerts of a type that match. *)
OfType(t) == {a \in Numbers!Matches("total") : alerts[a].type = t}

(* What has been counted of the alerts is still so, unless alerts went on  *)
(* to fall into the range; the status of an alert may change.              *)
Late == ahead /\ "raised" \in disturbed
CountsTell ==
    request # "idle" /\ ~Late =>
      /\ \A n \in Numbers!Counts \ left :
            \/ n \in Numbers!Statuses /\ "triaged" \in disturbed
            \/ number[n] = Cardinality(Numbers!Matches(n))
      /\ request \notin {"counting", "types"} =>
            \A t \in AttackType : top.types[t] = Cardinality(OfType(t))

(* What has been counted and listed of the logs fits, unless one came in. *)
LogsAsked ==
    /\ request \notin {"idle", "counting", "types", "logs"}
    /\ request = "done" => "mongo" \notin disturbed
IpsAsked ==
    /\ request \in {"ports", "done"}
    /\ request = "done" => "mongo" \notin disturbed
LogsTell ==
    "logged" \notin disturbed =>
      /\ LogsAsked => number["totalLogs"] = Numbers!Total(LoggedKind)
      /\ number["anomalousLogs"] <= number["totalLogs"]
      /\ Cardinality(top.ips) <= number["totalLogs"]
      /\ IpsAsked => (number["totalLogs"] > 0 <=> top.ips # {})

NumbersInv ==
    /\ Numbers!NumbersTypeOK
    /\ NotYet
    /\ CountsTell
    /\ LogsTell

NumbersAssumption ==
    /\ IsFiniteSet(AlertId) /\ IsFiniteSet(AttackType) /\ IsFiniteSet(LoggedKind)
    /\ AlertSeverity \subseteq {"CRITICAL", "HIGH", "MEDIUM", "LOW"}
    /\ AlertStatus \subseteq {"NEW", "INVESTIGATING", "RESOLVED", "FALSE_POSITIVE"}
    /\ "NEW" \in AlertStatus
    /\ \A k \in LoggedKind : k.score \in 0..100
    /\ LogBound \in Nat /\ IpRows \in Nat \ {0} /\ PortRows \in Nat /\ PdfLimit \in Nat

(* An alert that matches has fields of its own, and is among all of them. *)
LEMMA MatchesAre ==
  ASSUME NumbersAssumption, Numbers!NumbersTypeOK
  PROVE  /\ \A a \in AlertId : alerts[a] # Numbers!None =>
               /\ alerts[a].severity \in Numbers!Severities
               /\ alerts[a].status \in Numbers!Statuses
               /\ alerts[a].type \in AttackType
         /\ \A n : /\ Numbers!Matches(n) \subseteq Numbers!Matches("total")
                   /\ Numbers!Matches(n) \subseteq AlertId
                   /\ IsFiniteSet(Numbers!Matches(n))
                   /\ Cardinality(Numbers!Matches(n)) \in Nat
                   /\ Cardinality(Numbers!Matches(n)) <= Cardinality(Numbers!Matches("total"))
                   /\ Cardinality(Numbers!Matches(n)) = 0 <=> Numbers!Matches(n) = {}
         /\ \A t : IsFiniteSet(OfType(t)) /\ Cardinality(OfType(t)) \in Nat
<1>1. \A a \in AlertId : alerts[a] # Numbers!None =>
               /\ alerts[a].severity \in Numbers!Severities
               /\ alerts[a].status \in Numbers!Statuses
               /\ alerts[a].type \in AttackType
  BY DEF Numbers!NumbersTypeOK, NumbersAssumption, Numbers!Severities, Numbers!Statuses
<1>2. \A n : Numbers!Matches(n) \subseteq Numbers!Matches("total") /\ Numbers!Matches(n) \subseteq AlertId
  BY DEF Numbers!Matches
<1>3. \A n : IsFiniteSet(Numbers!Matches(n))
  BY <1>2, FS_Subset DEF NumbersAssumption
<1>4. \A n : /\ Cardinality(Numbers!Matches(n)) \in Nat
             /\ Cardinality(Numbers!Matches(n)) <= Cardinality(Numbers!Matches("total"))
             /\ Cardinality(Numbers!Matches(n)) = 0 <=> Numbers!Matches(n) = {}
  BY <1>2, <1>3, FS_Subset, FS_CardinalityType, FS_EmptySet
<1>5. \A t : IsFiniteSet(OfType(t)) /\ Cardinality(OfType(t)) \in Nat
  <2> SUFFICES ASSUME NEW t PROVE IsFiniteSet(OfType(t))
    BY FS_CardinalityType
  <2>1. OfType(t) \subseteq Numbers!Matches("total")
    BY DEF OfType
  <2> QED BY <1>3, <2>1, FS_Subset
<1> QED BY <1>1, <1>2, <1>3, <1>4, <1>5

(* What the sums over logs come to. *)
LEMMA TotalsAre ==
  ASSUME NumbersAssumption, logs \in [LoggedKind -> 0..LogBound]
  PROVE  /\ Numbers!Total(LoggedKind) \in Nat
         /\ \A K : K \subseteq LoggedKind => /\ Numbers!Total(K) \in Nat
                                             /\ Numbers!Total(K) <= Numbers!Total(LoggedKind)
         /\ \A a : Numbers!Total(Numbers!With(a)) \in Nat
         /\ Numbers!Total(LoggedKind) > 0 <=> \E a \in Numbers!Address : Numbers!Total(Numbers!With(a)) > 0
<1>1. IsFiniteSet(LoggedKind) /\ \A k \in LoggedKind : logs[k] \in Nat
  BY DEF NumbersAssumption
<1>2. \A K : K \subseteq LoggedKind => /\ Numbers!Total(K) \in Nat
                                       /\ Numbers!Total(K) <= Numbers!Total(LoggedKind)
  BY <1>1, SumGrows DEF Numbers!Total
<1>3. \A K : K \subseteq LoggedKind =>
         (Numbers!Total(K) > 0 <=> \E k \in K : logs[k] > 0)
  <2> SUFFICES ASSUME NEW K, K \subseteq LoggedKind
               PROVE  Numbers!Total(K) > 0 <=> \E k \in K : logs[k] > 0
    OBVIOUS
  <2>1. IsFiniteSet(K) /\ \A k \in K : logs[k] \in Nat
    BY <1>1, FS_Subset
  <2> QED BY <2>1, SumPositive DEF Numbers!Total
<1>4. \A a : Numbers!With(a) \subseteq LoggedKind
  BY DEF Numbers!With
<1>5. ASSUME NEW k \in LoggedKind
      PROVE  k.address \in Numbers!Address /\ k \in Numbers!With(k.address)
  BY DEF Numbers!Address, Numbers!With
<1>6. (\E k \in LoggedKind : logs[k] > 0) <=>
      \E a \in Numbers!Address : \E k \in Numbers!With(a) : logs[k] > 0
  BY <1>4, <1>5
<1>7. Numbers!Total(LoggedKind) > 0 <=> \E a \in Numbers!Address : Numbers!Total(Numbers!With(a)) > 0
  BY <1>3, <1>4, <1>6
<1> QED BY <1>2, <1>4, <1>7

(* A sum of summands up to a hundred times as great. *)
LEMMA HundredTimes ==
  ASSUME NEW S, IsFiniteSet(S), NEW f, NEW g,
         \A x \in S : f[x] \in Nat /\ g[x] \in Nat /\ g[x] <= 100 * f[x]
  PROVE  /\ Numbers!SumOver(f, S) \in Nat /\ Numbers!SumOver(g, S) \in Nat
         /\ Numbers!SumOver(g, S) <= 100 * Numbers!SumOver(f, S)
<1> DEFINE to == [p \in Pairs(g, S) |->
                    <<<<p[1], ((p[2] - 1) \div 100) + 1>>, ((p[2] - 1) % 100) + 1>>]
           of == Pairs(f, S) \X (1..100)
<1>1. /\ IsFiniteSet(Pairs(f, S)) /\ Numbers!SumOver(f, S) \in Nat
      /\ Numbers!SumOver(g, S) \in Nat
  BY PairsFinite
<1>2. ASSUME NEW x \in S, NEW i \in 1..g[x]
      PROVE  /\ i \in Nat /\ i > 0
             /\ ((i - 1) \div 100) + 1 \in 1..f[x]
             /\ ((i - 1) % 100) + 1 \in 1..100
             /\ i = 100 * ((i - 1) \div 100) + ((i - 1) % 100) + 1
  <2>1. i \in Nat /\ i > 0 /\ i <= 100 * f[x] /\ f[x] \in Nat
    OBVIOUS
  <2>2. \A j, n \in Nat : j > 0 /\ j <= 100 * n =>
           /\ ((j - 1) \div 100) + 1 \in 1..n
           /\ ((j - 1) % 100) + 1 \in 1..100
           /\ j = 100 * ((j - 1) \div 100) + ((j - 1) % 100) + 1
    OBVIOUS
  <2> QED BY <2>1, <2>2
<1>3. ASSUME NEW p \in Pairs(g, S)
      PROVE  to[p] \in of /\ \E x \in S : \E i \in 1..g[x] : p = <<x, i>>
  <2>1. PICK x \in S : \E i \in 1..g[x] : p = <<x, i>>
    BY PairsAre
  <2>2. PICK i \in 1..g[x] : p = <<x, i>>
    BY <2>1
  <2>3. <<x, ((i - 1) \div 100) + 1>> \in Pairs(f, S)
    BY <1>2, PairsAre
  <2>4. to[p] = <<<<x, ((i - 1) \div 100) + 1>>, ((i - 1) % 100) + 1>>
    BY <2>2
  <2> QED BY <1>2, <2>2, <2>3, <2>4
<1>4. ASSUME NEW p \in Pairs(g, S), NEW q \in Pairs(g, S), to[p] = to[q]
      PROVE  p = q
  <2>1. PICK x \in S : \E i \in 1..g[x] : p = <<x, i>>
    BY <1>3
  <2>2. PICK i \in 1..g[x] : p = <<x, i>>
    BY <2>1
  <2>3. PICK y \in S : \E j \in 1..g[y] : q = <<y, j>>
    BY <1>3
  <2>4. PICK j \in 1..g[y] : q = <<y, j>>
    BY <2>3
  <2>5. /\ x = y
        /\ ((i - 1) \div 100) + 1 = ((j - 1) \div 100) + 1
        /\ ((i - 1) % 100) + 1 = ((j - 1) % 100) + 1
    BY <1>4, <2>2, <2>4
  <2>6. i \in Nat /\ i = 100 * ((i - 1) \div 100) + ((i - 1) % 100) + 1
    BY <1>2
  <2>7. j \in Nat /\ j = 100 * ((j - 1) \div 100) + ((j - 1) % 100) + 1
    BY <1>2
  <2>8. i = j
    BY <2>5, <2>6, <2>7
  <2> QED BY <2>2, <2>4, <2>5, <2>8
<1>5. to \in Injection(Pairs(g, S), of)
  <2>1. to \in [Pairs(g, S) -> of]
    BY <1>3
  <2> HIDE DEF to, of
  <2> QED BY <1>4, <2>1 DEF Injection, IsInjective
<1>6. IsFiniteSet(1..100) /\ Cardinality(1..100) = 100
  <2>1. \A k \in Nat : IsFiniteSet(1..k) /\ Cardinality(1..k) = k
    BY FS_Interval
  <2> QED BY <2>1
<1>7. IsFiniteSet(of) /\ Cardinality(of) = Cardinality(Pairs(f, S)) * 100
  BY <1>1, <1>6, FS_Product
<1>8. Cardinality(Pairs(g, S)) <= Cardinality(of)
  BY <1>5, <1>7, FS_Injection
<1> QED BY <1>1, <1>7, <1>8, SumIsOfPairs

(* The mean score of an address that has logs. *)
LEMMA TenthsAre ==
  ASSUME NumbersAssumption, logs \in [LoggedKind -> 0..LogBound],
         NEW a, Numbers!Total(Numbers!With(a)) > 0
  PROVE  Numbers!Tenths(a) \in 0..1000
<1> DEFINE K == Numbers!With(a)
           n == Numbers!Total(K)
           f == [k \in LoggedKind |-> logs[k] * k.score]
           m == Numbers!SumOver(f, K)
<1>1. K \subseteq LoggedKind /\ IsFiniteSet(K)
  BY FS_Subset DEF Numbers!With, NumbersAssumption
<1>2. \A k \in K : logs[k] \in Nat /\ f[k] \in Nat /\ f[k] <= 100 * logs[k]
  <2> SUFFICES ASSUME NEW k \in K
               PROVE  logs[k] \in Nat /\ f[k] \in Nat /\ f[k] <= 100 * logs[k]
    OBVIOUS
  <2>1. logs[k] \in Nat /\ k.score \in Nat /\ k.score <= 100 /\ f[k] = logs[k] * k.score
    BY <1>1 DEF NumbersAssumption
  <2>2. \A x, y \in Nat : y <= 100 => x * y \in Nat /\ x * y <= 100 * x
    BY Z3
  <2> QED BY <2>1, <2>2
<1>3. n \in Nat /\ m \in Nat /\ m <= 100 * n
  BY <1>1, <1>2, HundredTimes DEF Numbers!Total
<1>4. /\ 20 * m + n \in Nat /\ 2 * n \in Nat /\ 2 * n > 0
      /\ 20 * m + n < (1000 + 1) * (2 * n)
  BY <1>3
<1>5. (20 * m + n) \div (2 * n) \in 0..1000
  BY <1>4, Quotient
<1> QED BY <1>5 DEF Numbers!Tenths


LEMMA NumbersInit == ASSUME NumbersAssumption PROVE Numbers!Init => NumbersInv
<1> SUFFICES ASSUME Numbers!Init PROVE NumbersInv
  OBVIOUS
<1> USE DEF Numbers!Init
<1>1. logs \in [LoggedKind -> 0..LogBound] /\ \A k \in LoggedKind : logs[k] = 0
  BY DEF NumbersAssumption
<1>2. Numbers!Total(LoggedKind) = 0
  <2>1. IsFiniteSet(LoggedKind) /\ \A k \in LoggedKind : logs[k] \in Nat
    BY DEF NumbersAssumption
  <2>2. Numbers!SumOver(logs, LoggedKind) = 0
    BY <1>1, <2>1, SumPositive
  <2> QED BY <2>2 DEF Numbers!Total
<1>3. number \in [Numbers!Names -> Nat] /\ \A n \in Numbers!Names : number[n] = 0
  BY DEF Numbers!Zero
<1>4. top \in [types : [AttackType -> Nat], ips : SUBSET Numbers!Row, ports : SUBSET Numbers!Port]
  BY DEF Numbers!Empty
<1>5. top.ips = {}
  BY DEF Numbers!Empty
<1>6. Numbers!NumbersTypeOK
  <2>1. alerts \in [AlertId -> {Numbers!None} \cup
             [severity : AlertSeverity, status : AlertStatus, type : AttackType, in : BOOLEAN]]
    OBVIOUS
  <2>2. Numbers!Total(LoggedKind) <= LogBound
    BY <1>2 DEF NumbersAssumption
  <2>3. /\ request \in {"idle", "counting", "types", "logs", "anomalous", "ips", "ports", "done"}
        /\ ahead \in BOOLEAN /\ left \subseteq Numbers!Counts
        /\ disturbed \subseteq {"raised", "triaged", "logged", "mongo"}
    OBVIOUS
  <2> QED BY <1>1, <1>3, <1>4, <2>1, <2>2, <2>3 DEF Numbers!NumbersTypeOK
<1>7. number["totalLogs"] = 0 /\ number["anomalousLogs"] = 0
  BY <1>3 DEF Numbers!Names
<1>8. NotYet
  BY <1>5, <1>7 DEF NotYet
<1>9. CountsTell
  BY DEF CountsTell
<1>10. LogsTell
  <2>1. ~LogsAsked /\ ~IpsAsked
    <3>1. request = "idle"
      OBVIOUS
    <3> HIDE DEF Numbers!Init
    <3> QED BY <3>1 DEF LogsAsked, IpsAsked
  <2>2. Cardinality(top.ips) = 0
    BY <1>5, FS_EmptySet
  <2> QED BY <1>7, <2>1, <2>2 DEF LogsTell
<1> QED BY <1>6, <1>8, <1>9, <1>10 DEF NumbersInv

(* A step that leaves the matches as they are, and what was counted.       *)
LEMMA CountsStay ==
  ASSUME CountsTell,
         request' # "idle" => request # "idle",
         request' \notin {"counting", "types"} => request \notin {"counting", "types"},
         left' = left, number' = number, top' = top, Late => Late',
         "triaged" \in disturbed => "triaged" \in disturbed',
         ~Late' => /\ \A n \in Numbers!Counts :
                         \/ n \in Numbers!Statuses /\ "triaged" \in disturbed'
                         \/ Numbers!Matches(n)' = Numbers!Matches(n)
                   /\ \A t \in AttackType : OfType(t)' = OfType(t)
  PROVE  CountsTell'
<1> SUFFICES ASSUME request' # "idle", ~Late'
             PROVE  /\ \A n \in Numbers!Counts \ left' :
                          \/ n \in Numbers!Statuses /\ "triaged" \in disturbed'
                          \/ number'[n] = Cardinality(Numbers!Matches(n)')
                    /\ request' \notin {"counting", "types"} =>
                          \A t \in AttackType : top'.types[t] = Cardinality(OfType(t)')
  BY DEF CountsTell
<1>1. ASSUME NEW n \in Numbers!Counts \ left'
      PROVE  \/ n \in Numbers!Statuses /\ "triaged" \in disturbed'
             \/ number'[n] = Cardinality(Numbers!Matches(n)')
  BY DEF CountsTell
<1>2. ASSUME request' \notin {"counting", "types"}, NEW t \in AttackType
      PROVE  top'.types[t] = Cardinality(OfType(t)')
  BY <1>2 DEF CountsTell
<1> QED BY <1>1, <1>2

LEMMA DisturbedGrows ==
  ASSUME NEW what, request' = request, Numbers!Note(what),
         disturbed \subseteq {"raised", "triaged", "logged", "mongo"},
         what \in {"raised", "triaged", "logged"}
  PROVE  /\ disturbed' \subseteq {"raised", "triaged", "logged", "mongo"}
         /\ disturbed \subseteq disturbed' /\ disturbed' \subseteq disturbed \cup {what}
         /\ request \notin {"idle", "done"} => what \in disturbed'
  BY DEF Numbers!Note

(* An alert is raised, or triaged. *)
LEMMA RaiseKeeps ==
  ASSUME NumbersInv, NumbersAssumption,
         NEW a \in AlertId, NEW sev \in AlertSeverity, NEW t \in AttackType,
         Numbers!Raise(a, sev, t)
  PROVE  NumbersInv'
<1> DEFINE new == [severity |-> sev, status |-> "NEW", type |-> t,
                   in |-> request = "idle" \/ ahead]
<1>1. /\ alerts[a] = Numbers!None /\ alerts' = [alerts EXCEPT ![a] = new]
      /\ logs' = logs /\ request' = request /\ ahead' = ahead /\ left' = left
      /\ number' = number /\ top' = top /\ Numbers!Note("raised") /\ request # "done"
  BY DEF Numbers!Raise
<1>2. /\ disturbed' \subseteq {"raised", "triaged", "logged", "mongo"}
      /\ disturbed \subseteq disturbed' /\ disturbed' \subseteq disturbed \cup {"raised"}
      /\ request \notin {"idle", "done"} => "raised" \in disturbed'
  BY <1>1, DisturbedGrows DEF NumbersInv, Numbers!NumbersTypeOK
<1>3. new \in [severity : AlertSeverity, status : AlertStatus, type : AttackType, in : BOOLEAN]
  <2>1. (request = "idle" \/ ahead) \in BOOLEAN
    BY DEF NumbersInv, Numbers!NumbersTypeOK
  <2> QED BY <2>1 DEF NumbersAssumption
<1>4. new # Numbers!None
  BY DEF Numbers!None, NumbersAssumption
<1>5. Numbers!NumbersTypeOK'
  <2>1. alerts' \in [AlertId -> {Numbers!None} \cup
             [severity : AlertSeverity, status : AlertStatus, type : AttackType, in : BOOLEAN]]
    <3> HIDE DEF new
    <3> QED BY <1>1, <1>3 DEF NumbersInv, Numbers!NumbersTypeOK
  <2>2. Numbers!Total(LoggedKind)' = Numbers!Total(LoggedKind)
    BY <1>1 DEF Numbers!Total
  <2> QED BY <1>1, <1>2, <2>1, <2>2 DEF NumbersInv, Numbers!NumbersTypeOK
<1>6. NotYet'
  BY <1>1 DEF NumbersInv, NotYet
<1>7. LogsTell'
  <2>1. Numbers!Total(LoggedKind)' = Numbers!Total(LoggedKind)
    BY <1>1 DEF Numbers!Total
  <2>2. "logged" \in disturbed' <=> "logged" \in disturbed
    BY <1>2
  <2>3. /\ LogsAsked' => LogsAsked
        /\ IpsAsked' => IpsAsked
    BY <1>1, <1>2 DEF LogsAsked, IpsAsked
  <2> QED BY <1>1, <2>1, <2>2, <2>3 DEF NumbersInv, LogsTell
<1>8. CountsTell'
  <2>1. CASE request = "idle"
    BY <1>1, <2>1 DEF CountsTell
  <2>2. CASE request # "idle"
    <3>1. Late => Late'
      BY <1>1, <1>2 DEF Late
    <3>2. ASSUME ~Late'
          PROVE  \A n : Numbers!Matches(n)' = Numbers!Matches(n)
      <4>1. ~ahead
        BY <1>1, <1>2, <2>2, <3>2 DEF Late
      <4>2. new.in = FALSE
        BY <2>2, <4>1 DEF NumbersInv, Numbers!NumbersTypeOK
      <4>3. \A b \in AlertId : alerts'[b] = IF b = a THEN new ELSE alerts[b]
        <5> HIDE DEF new
        <5> QED BY <1>1 DEF NumbersInv, Numbers!NumbersTypeOK
      <4>4. Numbers!None' = Numbers!None
        BY DEF Numbers!None
      <4> HIDE DEF new
      <4>5. SUFFICES ASSUME NEW n
                     PROVE  Numbers!Matches(n)' = Numbers!Matches(n)
        OBVIOUS
      <4>6. \A b \in AlertId : b \in Numbers!Matches(n)' <=> b \in Numbers!Matches(n)
        BY <1>1, <4>2, <4>3, <4>4 DEF Numbers!Matches
      <4>7. Numbers!Matches(n)' \subseteq AlertId /\ Numbers!Matches(n) \subseteq AlertId
        BY DEF Numbers!Matches
      <4> QED BY <4>6, <4>7
    <3>3. ASSUME ~Late' PROVE \A y \in AttackType : OfType(y)' = OfType(y)
      <4>1. Numbers!Matches("total")' = Numbers!Matches("total")
        BY <3>2, <3>3
      <4>2. a \notin Numbers!Matches("total")
        BY <1>1 DEF Numbers!Matches
      <4>3. \A b \in Numbers!Matches("total") : alerts'[b] = alerts[b]
        BY <1>1, <4>2 DEF Numbers!Matches, NumbersInv, Numbers!NumbersTypeOK
      <4> QED BY <4>1, <4>3 DEF OfType
    <3> QED BY <1>1, <1>2, <3>1, <3>2, <3>3, CountsStay DEF NumbersInv
  <2> QED BY <2>1, <2>2
<1> QED BY <1>5, <1>6, <1>7, <1>8 DEF NumbersInv

LEMMA TriageKeeps ==
  ASSUME NumbersInv, NumbersAssumption,
         NEW a \in AlertId, NEW to \in AlertStatus, Numbers!Triage(a, to)
  PROVE  NumbersInv'
<1>1. /\ alerts[a] # Numbers!None /\ alerts' = [alerts EXCEPT ![a].status = to]
      /\ logs' = logs /\ request' = request /\ ahead' = ahead /\ left' = left
      /\ number' = number /\ top' = top /\ Numbers!Note("triaged") /\ request # "done"
  BY DEF Numbers!Triage
<1>2. /\ disturbed' \subseteq {"raised", "triaged", "logged", "mongo"}
      /\ disturbed \subseteq disturbed' /\ disturbed' \subseteq disturbed \cup {"triaged"}
      /\ request \notin {"idle", "done"} => "triaged" \in disturbed'
  BY <1>1, DisturbedGrows DEF NumbersInv, Numbers!NumbersTypeOK
<1>3. /\ alerts[a] \in
            [severity : AlertSeverity, status : AlertStatus, type : AttackType, in : BOOLEAN]
      /\ alerts'[a] = [alerts[a] EXCEPT !.status = to]
      /\ \A b \in AlertId : b # a => alerts'[b] = alerts[b]
      /\ alerts' = [alerts EXCEPT ![a] = [alerts[a] EXCEPT !.status = to]]
  BY <1>1 DEF NumbersInv, Numbers!NumbersTypeOK
<1>4. /\ alerts'[a] \in
            [severity : AlertSeverity, status : AlertStatus, type : AttackType, in : BOOLEAN]
      /\ alerts'[a].severity = alerts[a].severity /\ alerts'[a].type = alerts[a].type
      /\ alerts'[a].in = alerts[a].in /\ alerts'[a].status = to
      /\ alerts[a].status \in AlertStatus /\ alerts[a].severity \in AlertSeverity
  BY <1>3
<1>5. alerts'[a] # Numbers!None
  BY <1>4 DEF Numbers!None, NumbersAssumption
<1>6. Numbers!NumbersTypeOK'
  <2>1. alerts' \in [AlertId -> {Numbers!None} \cup
             [severity : AlertSeverity, status : AlertStatus, type : AttackType, in : BOOLEAN]]
    BY <1>3, <1>4 DEF NumbersInv, Numbers!NumbersTypeOK
  <2>2. Numbers!Total(LoggedKind)' = Numbers!Total(LoggedKind)
    BY <1>1 DEF Numbers!Total
  <2> QED BY <1>1, <1>2, <2>1, <2>2 DEF NumbersInv, Numbers!NumbersTypeOK
<1>7. NotYet'
  BY <1>1 DEF NumbersInv, NotYet
<1>8. LogsTell'
  <2>1. Numbers!Total(LoggedKind)' = Numbers!Total(LoggedKind)
    BY <1>1 DEF Numbers!Total
  <2>2. "logged" \in disturbed' <=> "logged" \in disturbed
    BY <1>2
  <2>3. /\ LogsAsked' => LogsAsked
        /\ IpsAsked' => IpsAsked
    BY <1>1, <1>2 DEF LogsAsked, IpsAsked
  <2> QED BY <1>1, <2>1, <2>2, <2>3 DEF NumbersInv, LogsTell
<1>9. CountsTell'
  <2>1. CASE request = "idle"
    BY <1>1, <2>1 DEF CountsTell
  <2>2. CASE request # "idle"
    <3>1. Late => Late'
      BY <1>1, <1>2 DEF Late
    <3>2. "triaged" \in disturbed'
      BY <1>1, <1>2, <2>2
    <3>3. Numbers!None' = Numbers!None
      BY DEF Numbers!None
    <3>4. ASSUME NEW n \in Numbers!Counts, n \notin Numbers!Statuses
          PROVE  Numbers!Matches(n)' = Numbers!Matches(n)
      <4>1. n # alerts[a].status /\ n # alerts'[a].status
        BY <1>4, <3>4 DEF NumbersAssumption, Numbers!Statuses
      <4>2. n \in {"total", alerts[a].severity, alerts[a].status} <=>
            n \in {"total", alerts'[a].severity, alerts'[a].status}
        BY <1>4, <4>1
      <4>3. \A b \in AlertId : b \in Numbers!Matches(n)' <=> b \in Numbers!Matches(n)
        BY <1>1, <1>3, <1>4, <1>5, <3>3, <4>2 DEF Numbers!Matches
      <4>4. Numbers!Matches(n)' \subseteq AlertId /\ Numbers!Matches(n) \subseteq AlertId
        BY DEF Numbers!Matches
      <4> QED BY <4>3, <4>4
    <3>5. Numbers!Matches("total")' = Numbers!Matches("total")
      BY <3>4 DEF Numbers!Counts, Numbers!Statuses
    <3>6. \A b \in Numbers!Matches("total") : alerts'[b].type = alerts[b].type
      BY <1>3, <1>4 DEF Numbers!Matches
    <3>7. \A y \in AttackType : OfType(y)' = OfType(y)
      BY <3>5, <3>6 DEF OfType
    <3> QED BY <1>1, <1>2, <3>1, <3>2, <3>4, <3>7, CountsStay DEF NumbersInv
  <2> QED BY <2>1, <2>2
<1> QED BY <1>6, <1>7, <1>8, <1>9 DEF NumbersInv

(* A log comes in. *)
LEMMA LogKeeps ==
  ASSUME NumbersInv, NumbersAssumption, NEW k \in LoggedKind, Numbers!Log(k)
  PROVE  NumbersInv'
<1>1. /\ Numbers!Total(LoggedKind) < LogBound /\ logs' = [logs EXCEPT ![k] = @ + 1]
      /\ alerts' = alerts /\ request' = request /\ ahead' = ahead /\ left' = left
      /\ number' = number /\ top' = top /\ Numbers!Note("logged") /\ request # "done"
  BY DEF Numbers!Log
<1>2. /\ disturbed' \subseteq {"raised", "triaged", "logged", "mongo"}
      /\ disturbed \subseteq disturbed' /\ disturbed' \subseteq disturbed \cup {"logged"}
      /\ request \notin {"idle", "done"} => "logged" \in disturbed'
  BY <1>1, DisturbedGrows DEF NumbersInv, Numbers!NumbersTypeOK
<1>3. logs \in [LoggedKind -> 0..LogBound] /\ LogBound \in Nat /\ IsFiniteSet(LoggedKind)
  BY DEF NumbersInv, Numbers!NumbersTypeOK, NumbersAssumption
<1>4. Numbers!NumbersTypeOK'
  <2>1. logs \in [LoggedKind -> Nat]
    BY <1>3
  <2>2. /\ Numbers!SumOver(logs', LoggedKind) = Numbers!SumOver(logs, LoggedKind) + 1
        /\ logs[k] <= Numbers!SumOver(logs, LoggedKind)
    BY <1>1, <1>3, <2>1, SumCounts
  <2>3. Numbers!Total(LoggedKind) = Numbers!SumOver(logs, LoggedKind)
    BY DEF Numbers!Total
  <2>4. Numbers!Total(LoggedKind)' = Numbers!SumOver(logs', LoggedKind)
    BY DEF Numbers!Total
  <2>5. Numbers!Total(LoggedKind) \in Nat
    BY <1>3, TotalsAre
  <2>6. Numbers!Total(LoggedKind)' <= LogBound
    BY <1>1, <1>3, <2>2, <2>3, <2>4, <2>5
  <2>7. logs' \in [LoggedKind -> 0..LogBound]
    BY <1>1, <1>3, <2>2, <2>3, <2>5
  <2> QED BY <1>1, <1>2, <2>6, <2>7 DEF NumbersInv, Numbers!NumbersTypeOK
<1>5. NotYet'
  BY <1>1 DEF NumbersInv, NotYet
<1>6. LogsTell'
  <2>1. CASE request = "idle"
    <3>1. ~LogsAsked' /\ ~IpsAsked'
      BY <1>1, <2>1 DEF LogsAsked, IpsAsked
    <3>2. "logged" \notin disturbed' => "logged" \notin disturbed
      BY <1>2
    <3> QED BY <1>1, <3>1, <3>2 DEF NumbersInv, LogsTell
  <2>2. CASE request # "idle"
    BY <1>1, <1>2, <2>2 DEF LogsTell
  <2> QED BY <2>1, <2>2
<1>7. CountsTell'
  <2>1. Late => Late'
    BY <1>1, <1>2 DEF Late
  <2>2. \A n : Numbers!Matches(n)' = Numbers!Matches(n)
    BY <1>1 DEF Numbers!Matches, Numbers!None
  <2>3. \A t : OfType(t)' = OfType(t)
    BY <1>1, <2>2 DEF OfType
  <2> QED BY <1>1, <1>2, <2>1, <2>2, <2>3, CountsStay DEF NumbersInv
<1> QED BY <1>4, <1>5, <1>6, <1>7 DEF NumbersInv

(* The report is asked for, and its alerts are counted. *)
LEMMA AskKeepsNumbers ==
  ASSUME NumbersInv, NumbersAssumption, Numbers!Ask
  PROVE  NumbersInv'
<1>1. /\ request = "idle" /\ request' = "counting" /\ ahead' \in BOOLEAN
      /\ left' = Numbers!Counts /\ alerts' = alerts /\ logs' = logs
      /\ number' = number /\ top' = top /\ disturbed' = disturbed
  BY DEF Numbers!Ask
<1>2. Numbers!Total(LoggedKind)' = Numbers!Total(LoggedKind)
  BY <1>1 DEF Numbers!Total
<1>3. Numbers!NumbersTypeOK'
  BY <1>1, <1>2 DEF NumbersInv, Numbers!NumbersTypeOK
<1>4. NotYet'
  BY <1>1 DEF NumbersInv, NotYet
<1>5. CountsTell'
  BY <1>1 DEF CountsTell
<1>6. LogsTell'
  <2>1. ~LogsAsked' /\ ~IpsAsked'
    BY <1>1 DEF LogsAsked, IpsAsked
  <2> QED BY <1>1, <2>1 DEF NumbersInv, LogsTell
<1> QED BY <1>3, <1>4, <1>5, <1>6 DEF NumbersInv

LEMMA CountKeeps ==
  ASSUME NumbersInv, NumbersAssumption, NEW n \in Numbers!Counts, Numbers!Count(n)
  PROVE  NumbersInv'
<1> DEFINE c == Cardinality(Numbers!Matches(n))
<1>1. /\ request = "counting" /\ n \in left
      /\ number' = [number EXCEPT ![n] = c] /\ left' = left \ {n}
      /\ request' \in {"counting", "types"} /\ (request' # "counting" => left' = {})
      /\ alerts' = alerts /\ logs' = logs /\ ahead' = ahead
      /\ top' = top /\ disturbed' = disturbed
  BY NumbersCardinality DEF Numbers!Count
<1>2. c \in Nat
  BY MatchesAre DEF NumbersInv
<1>3. /\ number \in [Numbers!Names -> Nat] /\ Numbers!Counts \subseteq Numbers!Names
      /\ "totalLogs" \notin Numbers!Counts /\ "anomalousLogs" \notin Numbers!Counts
      /\ "totalLogs" \in Numbers!Names /\ "anomalousLogs" \in Numbers!Names
  BY DEF NumbersInv, Numbers!NumbersTypeOK, Numbers!Names, Numbers!Counts,
     Numbers!Severities, Numbers!Statuses
<1> HIDE DEF c
<1>4. /\ number' \in [Numbers!Names -> Nat]
      /\ number'["totalLogs"] = number["totalLogs"]
      /\ number'["anomalousLogs"] = number["anomalousLogs"]
      /\ number'[n] = c
      /\ \A x \in Numbers!Counts : x # n => number'[x] = number[x]
  BY <1>1, <1>2, <1>3
<1>5. Numbers!Total(LoggedKind)' = Numbers!Total(LoggedKind)
  BY <1>1 DEF Numbers!Total
<1>6. Numbers!NumbersTypeOK'
  <2>1. request' \in {"idle", "counting", "types", "logs", "anomalous", "ips", "ports", "done"}
    BY <1>1
  <2> QED BY <1>1, <1>4, <1>5, <2>1 DEF NumbersInv, Numbers!NumbersTypeOK
<1>7. NotYet'
  BY <1>1, <1>4 DEF NumbersInv, NotYet
<1>8. LogsTell'
  <2>1. ~LogsAsked' /\ ~IpsAsked'
    BY <1>1 DEF LogsAsked, IpsAsked
  <2> QED BY <1>1, <1>4, <2>1 DEF NumbersInv, LogsTell
<1>9. CountsTell'
  <2>1. \A x : Numbers!Matches(x)' = Numbers!Matches(x)
    BY <1>1 DEF Numbers!Matches, Numbers!None
  <2>2. Late' = Late
    BY <1>1 DEF Late
  <2>3. ASSUME ~Late, NEW x \in Numbers!Counts \ left'
        PROVE  \/ x \in Numbers!Statuses /\ "triaged" \in disturbed'
               \/ number'[x] = Cardinality(Numbers!Matches(x)')
    <3>1. CASE x = n
      BY <1>4, <2>1, <3>1 DEF c
    <3>2. CASE x # n
      <4>1. x \in Numbers!Counts \ left
        BY <1>1, <3>2
      <4>2. \/ x \in Numbers!Statuses /\ "triaged" \in disturbed
            \/ number[x] = Cardinality(Numbers!Matches(x))
        BY <1>1, <2>3, <4>1 DEF NumbersInv, CountsTell
      <4> QED BY <1>1, <1>4, <2>1, <3>2, <4>2
    <3> QED BY <3>1, <3>2
  <2> QED BY <1>1, <2>2, <2>3 DEF CountsTell
<1> QED BY <1>6, <1>7, <1>8, <1>9 DEF NumbersInv

LEMMA GroupTypesKeeps ==
  ASSUME NumbersInv, NumbersAssumption, Numbers!GroupTypes
  PROVE  NumbersInv'
<1> DEFINE types == [t \in AttackType |-> Cardinality(OfType(t))]
<1>1. /\ request = "types" /\ request' = "logs"
      /\ top' = [top EXCEPT !.types = types]
      /\ alerts' = alerts /\ logs' = logs /\ ahead' = ahead /\ left' = left
      /\ number' = number /\ disturbed' = disturbed
  BY NumbersCardinality DEF Numbers!GroupTypes, OfType
<1>2. types \in [AttackType -> Nat]
  BY MatchesAre DEF NumbersInv
<1>3. /\ \A t \in AttackType : types[t] = Cardinality(OfType(t))
      /\ top \in [types : [AttackType -> Nat], ips : SUBSET Numbers!Row, ports : SUBSET Numbers!Port]
  BY DEF NumbersInv, Numbers!NumbersTypeOK
<1> HIDE DEF types
<1>4. /\ top' \in [types : [AttackType -> Nat], ips : SUBSET Numbers!Row, ports : SUBSET Numbers!Port]
      /\ top'.types = types /\ top'.ips = top.ips
  BY <1>1, <1>2, <1>3
<1>5. Numbers!Total(LoggedKind)' = Numbers!Total(LoggedKind)
  BY <1>1 DEF Numbers!Total
<1>6. Numbers!NumbersTypeOK'
  <2>1. /\ Numbers!Row' = Numbers!Row /\ Numbers!Port' = Numbers!Port
    OBVIOUS
  <2> QED BY <1>1, <1>4, <1>5, <2>1 DEF NumbersInv, Numbers!NumbersTypeOK
<1>7. NotYet'
  BY <1>1, <1>4 DEF NumbersInv, NotYet
<1>8. LogsTell'
  <2>1. ~LogsAsked' /\ ~IpsAsked'
    BY <1>1 DEF LogsAsked, IpsAsked
  <2> QED BY <1>1, <1>4, <2>1 DEF NumbersInv, LogsTell
<1>9. CountsTell'
  <2>1. \A x : Numbers!Matches(x)' = Numbers!Matches(x)
    BY <1>1 DEF Numbers!Matches, Numbers!None
  <2>2. \A t : OfType(t)' = OfType(t)
    BY <1>1, <2>1 DEF OfType
  <2>3. Late' = Late
    BY <1>1 DEF Late
  <2>4. ASSUME ~Late, NEW x \in Numbers!Counts \ left'
        PROVE  \/ x \in Numbers!Statuses /\ "triaged" \in disturbed'
               \/ number'[x] = Cardinality(Numbers!Matches(x)')
    BY <1>1, <2>1, <2>4 DEF NumbersInv, CountsTell
  <2>5. \A t \in AttackType : top'.types[t] = Cardinality(OfType(t)')
    BY <1>3, <1>4, <2>2
  <2> QED BY <2>3, <2>4, <2>5 DEF CountsTell
<1> QED BY <1>6, <1>7, <1>8, <1>9 DEF NumbersInv

LEMMA CountFailsKeeps ==
  ASSUME NumbersInv, NumbersAssumption, Numbers!CountFails
  PROVE  NumbersInv'
<1>1. /\ request \in {"counting", "types"} /\ request' = "idle" /\ left' = {}
      /\ number' = Numbers!Zero /\ disturbed' = {} /\ ahead' = FALSE
      /\ alerts' = [a \in AlertId |-> IF alerts[a] = Numbers!None THEN Numbers!None
                                      ELSE [alerts[a] EXCEPT !.in = TRUE]]
      /\ logs' = logs /\ top' = top
  BY DEF Numbers!CountFails
<1>2. Numbers!Total(LoggedKind)' = Numbers!Total(LoggedKind)
  BY <1>1 DEF Numbers!Total
<1>3. /\ number' \in [Numbers!Names -> Nat]
      /\ number'["totalLogs"] = 0 /\ number'["anomalousLogs"] = 0
  BY <1>1 DEF Numbers!Zero, Numbers!Names
<1>4. alerts' \in [AlertId -> {Numbers!None} \cup
             [severity : AlertSeverity, status : AlertStatus, type : AttackType, in : BOOLEAN]]
  BY <1>1 DEF NumbersInv, Numbers!NumbersTypeOK
<1>5. Numbers!NumbersTypeOK'
  BY <1>1, <1>2, <1>3, <1>4 DEF NumbersInv, Numbers!NumbersTypeOK
<1>6. top'.ips = {}
  BY <1>1 DEF NumbersInv, NotYet
<1>7. NotYet'
  BY <1>1, <1>3, <1>6 DEF NotYet
<1>8. CountsTell'
  BY <1>1 DEF CountsTell
<1>9. LogsTell'
  <2>1. ~LogsAsked' /\ ~IpsAsked'
    BY <1>1 DEF LogsAsked, IpsAsked
  <2>2. Cardinality(top'.ips) = 0
    BY <1>6, FS_EmptySet
  <2> QED BY <1>3, <2>1, <2>2 DEF LogsTell
<1> QED BY <1>5, <1>7, <1>8, <1>9 DEF NumbersInv

(* What is on top of a list: some of its keys, if any is counted. *)
LEMMA TopsAre ==
  ASSUME NEW n \in Nat \ {0}, NEW count, \A x \in DOMAIN count : count[x] \in Nat,
         NEW chosen \in Numbers!Tops(n, count)
  PROVE  /\ chosen \subseteq DOMAIN count
         /\ \A x \in chosen : count[x] > 0
         /\ chosen # {} <=> \E x \in DOMAIN count : count[x] > 0
<1>1. /\ chosen \subseteq {x \in DOMAIN count : count[x] > 0}
      /\ \/ Cardinality(chosen) = n
         \/ \A x \in DOMAIN count \ chosen : count[x] = 0
  BY NumbersCardinality DEF Numbers!Tops
<1>2. chosen = {} => Cardinality(chosen) # n
  BY FS_EmptySet
<1> QED BY <1>1, <1>2

(* The rows of the addresses: typed, no more than logs, and there if logs  *)
(* are.                                                                    *)
LEMMA RowsOfIps ==
  ASSUME NumbersAssumption, logs \in [LoggedKind -> 0..LogBound],
         NEW ips \in Numbers!Tops(IpRows,
                        [a \in Numbers!Address |-> Numbers!Total(Numbers!With(a))])
  PROVE  LET rws == {[ip |-> a, tenths |-> Numbers!Tenths(a)] : a \in ips}
         IN  /\ rws \subseteq Numbers!Row
             /\ Cardinality(rws) <= Numbers!Total(LoggedKind)
             /\ Cardinality(rws) \in Nat
             /\ Numbers!Total(LoggedKind) > 0 <=> rws # {}
<1> DEFINE rws == {[ip |-> a, tenths |-> Numbers!Tenths(a)] : a \in ips}
           count == [a \in Numbers!Address |-> Numbers!Total(Numbers!With(a))]
           log(a) == CHOOSE k \in Numbers!With(a) : logs[k] > 0
           f == [a \in ips |-> <<log(a), 1>>]
           g == [a \in ips |-> [ip |-> a, tenths |-> Numbers!Tenths(a)]]
           P == Pairs(logs, LoggedKind)
<1>1. /\ ips \subseteq Numbers!Address
      /\ \A a \in ips : Numbers!Total(Numbers!With(a)) > 0
      /\ ips # {} <=> \E a \in Numbers!Address : Numbers!Total(Numbers!With(a)) > 0
  <2>1. \A a \in DOMAIN count : count[a] \in Nat
    BY TotalsAre
  <2>2. IpRows \in Nat \ {0}
    BY DEF NumbersAssumption
  <2>3. /\ ips \subseteq DOMAIN count
        /\ \A a \in ips : count[a] > 0
        /\ ips # {} <=> \E a \in DOMAIN count : count[a] > 0
    <3> HIDE DEF count
    <3> QED BY <2>1, <2>2, TopsAre DEF count
  <2> QED BY <2>3
<1>2. /\ IsFiniteSet(LoggedKind) /\ \A k \in LoggedKind : logs[k] \in Nat
      /\ \A a : Numbers!With(a) \subseteq LoggedKind /\ IsFiniteSet(Numbers!With(a))
  <2>1. \A a : Numbers!With(a) \subseteq LoggedKind
    BY DEF Numbers!With
  <2> QED BY <2>1, FS_Subset DEF NumbersAssumption
<1>3. ASSUME NEW a \in ips
      PROVE  log(a) \in LoggedKind /\ log(a).address = a /\ 1 \in 1..logs[log(a)]
  <2>1. \E k \in Numbers!With(a) : logs[k] > 0
    BY <1>1, <1>2, SumPositive DEF Numbers!Total
  <2>2. log(a) \in Numbers!With(a) /\ logs[log(a)] > 0
    BY <2>1
  <2> HIDE DEF log
  <2> QED BY <1>2, <2>2 DEF Numbers!With
<1>4. f \in Injection(ips, P)
  <2> HIDE DEF log
  <2>1. f \in [ips -> P]
    BY <1>3, PairsAre
  <2>2. \A a, b \in ips : f[a] = f[b] => a = b
    <3> SUFFICES ASSUME NEW a \in ips, NEW b \in ips, f[a] = f[b] PROVE a = b
      OBVIOUS
    <3>1. log(a) = log(b)
      OBVIOUS
    <3>2. log(a).address = a /\ log(b).address = b
      BY <1>3
    <3> QED BY <3>1, <3>2
  <2> HIDE DEF f, P
  <2> QED BY <2>1, <2>2 DEF Injection, IsInjective
<1>5. /\ IsFiniteSet(P) /\ Cardinality(P) = Numbers!Total(LoggedKind)
      /\ Cardinality(P) \in Nat
  BY <1>2, PairsFinite, SumIsOfPairs DEF Numbers!Total
<1>6. IsFiniteSet(ips) /\ Cardinality(ips) <= Numbers!Total(LoggedKind)
  BY <1>4, <1>5, FS_Injection
<1>7. g \in Surjection(ips, rws)
  BY DEF Surjection
<1>8. IsFiniteSet(rws) /\ Cardinality(rws) <= Cardinality(ips)
  BY <1>6, <1>7, FS_Surjection
<1>9. /\ Cardinality(rws) <= Numbers!Total(LoggedKind)
      /\ Cardinality(rws) \in Nat
  <2>1. Cardinality(rws) \in Nat /\ Cardinality(ips) \in Nat
    BY <1>6, <1>8, FS_CardinalityType
  <2> QED BY <1>5, <1>6, <1>8, <2>1
<1>10. rws \subseteq Numbers!Row
  <2>1. \A a \in ips : a \in Numbers!Address /\ Numbers!Tenths(a) \in 0..1000
    BY <1>1, TenthsAre
  <2> QED BY <2>1 DEF Numbers!Row
<1>11. Numbers!Total(LoggedKind) > 0 <=> ips # {}
  BY <1>1, TotalsAre
<1>12. ips # {} <=> rws # {}
  OBVIOUS
<1> HIDE DEF rws
<1>13. Numbers!Total(LoggedKind) > 0 <=> rws # {}
  BY <1>11, <1>12
<1> QED BY <1>9, <1>10, <1>13 DEF rws

(* The alerts stay as counted while the logs are asked for. *)
LEMMA CountsHeld ==
  ASSUME CountsTell, request \notin {"idle", "counting", "types"},
         alerts' = alerts, ahead' = ahead, left' = left, top'.types = top.types,
         \A n \in Numbers!Counts : number'[n] = number[n],
         "raised" \in disturbed' <=> "raised" \in disturbed,
         "triaged" \in disturbed' <=> "triaged" \in disturbed
  PROVE  CountsTell'
<1>1. \A x : Numbers!Matches(x)' = Numbers!Matches(x)
  BY DEF Numbers!Matches, Numbers!None
<1>2. \A t : OfType(t)' = OfType(t)
  BY <1>1 DEF OfType
<1>3. Late' = Late
  BY DEF Late
<1>4. ASSUME ~Late, NEW x \in Numbers!Counts \ left'
      PROVE  \/ x \in Numbers!Statuses /\ "triaged" \in disturbed'
             \/ number'[x] = Cardinality(Numbers!Matches(x)')
  BY <1>1, <1>4 DEF CountsTell
<1>5. ASSUME ~Late, NEW t \in AttackType
      PROVE  top'.types[t] = Cardinality(OfType(t)')
  BY <1>2, <1>5 DEF CountsTell
<1> QED BY <1>3, <1>4, <1>5 DEF CountsTell

LEMMA CountLogsKeeps ==
  ASSUME NumbersInv, NumbersAssumption, Numbers!CountLogs,
         UNCHANGED <<alerts, logs, ahead, left, disturbed>>
  PROVE  NumbersInv'
<1> DEFINE all == Numbers!Total(LoggedKind)
           odd == Numbers!Total(Numbers!Anomalous)
<1>1. /\ top' = top
      /\ \/ /\ request = "logs" /\ request' = "anomalous"
            /\ number' = [number EXCEPT !["totalLogs"] = all]
         \/ /\ request = "anomalous" /\ request' = "ips"
            /\ number' = [number EXCEPT !["anomalousLogs"] = odd]
  BY DEF Numbers!CountLogs
<1>2. all \in Nat /\ odd \in Nat /\ odd <= all
  <2>1. Numbers!Anomalous \subseteq LoggedKind
    BY DEF Numbers!Anomalous
  <2> QED BY <2>1, TotalsAre DEF NumbersInv, Numbers!NumbersTypeOK
<1>3. all' = all
  BY DEF Numbers!Total
<1>4. /\ number \in [Numbers!Names -> Nat] /\ Numbers!Counts \subseteq Numbers!Names
      /\ "totalLogs" \notin Numbers!Counts /\ "anomalousLogs" \notin Numbers!Counts
      /\ "totalLogs" \in Numbers!Names /\ "anomalousLogs" \in Numbers!Names
  BY DEF NumbersInv, Numbers!NumbersTypeOK, Numbers!Names, Numbers!Counts,
     Numbers!Severities, Numbers!Statuses
<1> HIDE DEF all, odd
<1>5. /\ number' \in [Numbers!Names -> Nat]
      /\ \A n \in Numbers!Counts : number'[n] = number[n]
      /\ request = "logs" => /\ number'["totalLogs"] = all
                             /\ number'["anomalousLogs"] = number["anomalousLogs"]
      /\ request = "anomalous" => /\ number'["totalLogs"] = number["totalLogs"]
                                  /\ number'["anomalousLogs"] = odd
  BY <1>1, <1>2, <1>4
<1>6. Numbers!NumbersTypeOK'
  <2>1. request' \in {"idle", "counting", "types", "logs", "anomalous", "ips", "ports", "done"}
    BY <1>1
  <2> QED BY <1>1, <1>3, <1>5, <2>1 DEF NumbersInv, Numbers!NumbersTypeOK, all
<1>7. NotYet'
  BY <1>1, <1>5 DEF NumbersInv, NotYet
<1>8. CountsTell'
  <2>1. request \notin {"idle", "counting", "types"}
    BY <1>1
  <2> QED BY <1>1, <1>5, <2>1, CountsHeld DEF NumbersInv
<1>9. LogsTell'
  <2>1. ~IpsAsked'
    BY <1>1 DEF IpsAsked
  <2>2. top'.ips = {} /\ Cardinality(top'.ips) = 0
    BY <1>1, FS_EmptySet DEF NumbersInv, NotYet
  <2>3. CASE request = "logs"
    <3>1. number'["anomalousLogs"] = 0
      BY <1>5, <2>3 DEF NumbersInv, NotYet
    <3> QED BY <1>2, <1>3, <1>5, <2>1, <2>2, <2>3, <3>1 DEF LogsTell, all
  <2>4. CASE request = "anomalous"
    <3>1. LogsAsked
      BY <2>4 DEF LogsAsked
    <3>2. "logged" \notin disturbed => number["totalLogs"] = all
      BY <3>1 DEF NumbersInv, LogsTell, all
    <3>3. "logged" \notin disturbed' =>
             number'["totalLogs"] = all /\ number'["anomalousLogs"] = odd
      BY <1>5, <2>4, <3>2
    <3> QED BY <1>2, <1>3, <2>1, <2>2, <3>3 DEF LogsTell, all
  <2> QED BY <1>1, <2>3, <2>4
<1> QED BY <1>6, <1>7, <1>8, <1>9 DEF NumbersInv

LEMMA ListLogsKeeps ==
  ASSUME NumbersInv, NumbersAssumption, Numbers!ListLogs,
         UNCHANGED <<alerts, logs, ahead, left, disturbed>>
  PROVE  NumbersInv'
<1>1. Numbers!Total(LoggedKind)' = Numbers!Total(LoggedKind)
  BY DEF Numbers!Total
<1>2. /\ top \in [types : [AttackType -> Nat], ips : SUBSET Numbers!Row, ports : SUBSET Numbers!Port]
      /\ number' = number /\ logs \in [LoggedKind -> 0..LogBound]
  BY DEF NumbersInv, Numbers!NumbersTypeOK, Numbers!ListLogs
<1>3. CASE request = "ips"
  <2>1. PICK ips \in Numbers!Tops(IpRows,
                        [a \in Numbers!Address |-> Numbers!Total(Numbers!With(a))]) :
           /\ top' = [top EXCEPT !.ips = {[ip |-> a, tenths |-> Numbers!Tenths(a)] : a \in ips}]
           /\ request' = "ports"
    BY <1>3 DEF Numbers!ListLogs
  <2> DEFINE rws == {[ip |-> a, tenths |-> Numbers!Tenths(a)] : a \in ips}
  <2>2. /\ rws \subseteq Numbers!Row
        /\ Cardinality(rws) <= Numbers!Total(LoggedKind)
        /\ Numbers!Total(LoggedKind) > 0 <=> rws # {}
    BY <1>2, RowsOfIps
  <2>3. top' = [top EXCEPT !.ips = rws] /\ request' = "ports"
    BY <2>1
  <2> HIDE DEF rws
  <2>4. /\ top' \in [types : [AttackType -> Nat], ips : SUBSET Numbers!Row, ports : SUBSET Numbers!Port]
        /\ top'.types = top.types /\ top'.ips = rws
    BY <1>2, <2>2, <2>3
  <2>5. Numbers!NumbersTypeOK'
    BY <1>1, <1>2, <2>3, <2>4 DEF NumbersInv, Numbers!NumbersTypeOK
  <2>6. NotYet'
    BY <1>2, <1>3, <2>3 DEF NumbersInv, NotYet
  <2>7. CountsTell'
    <3>1. request \notin {"idle", "counting", "types"}
      BY <1>3
    <3> QED BY <1>2, <2>4, <3>1, CountsHeld DEF NumbersInv
  <2>8. LogsTell'
    <3>1. LogsAsked
      BY <1>3 DEF LogsAsked
    <3>2. "logged" \notin disturbed =>
             /\ number["totalLogs"] = Numbers!Total(LoggedKind)
             /\ number["anomalousLogs"] <= number["totalLogs"]
      BY <3>1 DEF NumbersInv, LogsTell
    <3> QED BY <1>1, <1>2, <2>2, <2>4, <3>2 DEF LogsTell
  <2> QED BY <2>5, <2>6, <2>7, <2>8 DEF NumbersInv
<1>4. CASE request = "ports"
  <2>1. PICK ports \in Numbers!Tops(PortRows,
                        [p \in Numbers!Port |-> Numbers!Total(Numbers!At(p))]) :
           /\ top' = [top EXCEPT !.ports = ports]
           /\ request' = "done"
    BY <1>4 DEF Numbers!ListLogs
  <2>2. ports \subseteq Numbers!Port
    BY DEF Numbers!Tops
  <2>3. /\ top' \in [types : [AttackType -> Nat], ips : SUBSET Numbers!Row, ports : SUBSET Numbers!Port]
        /\ top'.types = top.types /\ top'.ips = top.ips
    BY <1>2, <2>1, <2>2
  <2>4. Numbers!NumbersTypeOK'
    BY <1>1, <1>2, <2>1, <2>3 DEF NumbersInv, Numbers!NumbersTypeOK
  <2>5. NotYet'
    BY <1>2, <1>4, <2>1 DEF NumbersInv, NotYet
  <2>6. CountsTell'
    <3>1. request \notin {"idle", "counting", "types"}
      BY <1>4
    <3> QED BY <1>2, <2>3, <3>1, CountsHeld DEF NumbersInv
  <2>7. LogsTell'
    <3>1. LogsAsked /\ IpsAsked
      BY <1>4 DEF LogsAsked, IpsAsked
    <3> QED BY <1>1, <1>2, <2>3, <3>1 DEF NumbersInv, LogsTell
  <2> QED BY <2>4, <2>5, <2>6, <2>7 DEF NumbersInv
<1> QED BY <1>3, <1>4 DEF Numbers!ListLogs

LEMMA LogsFailKeeps ==
  ASSUME NumbersInv, NumbersAssumption, Numbers!LogsFail
  PROVE  NumbersInv'
<1>1. /\ request \in {"logs", "anomalous", "ips", "ports"} /\ request' = "done"
      /\ disturbed' = disturbed \cup {"mongo"}
      /\ alerts' = alerts /\ logs' = logs /\ ahead' = ahead /\ left' = left
      /\ number' = number /\ top' = top
  BY DEF Numbers!LogsFail
<1>2. Numbers!Total(LoggedKind)' = Numbers!Total(LoggedKind)
  BY <1>1 DEF Numbers!Total
<1>3. Numbers!NumbersTypeOK'
  BY <1>1, <1>2 DEF NumbersInv, Numbers!NumbersTypeOK
<1>4. NotYet'
  BY <1>1 DEF NumbersInv, NotYet
<1>5. CountsTell'
  BY <1>1, CountsHeld DEF NumbersInv
<1>6. LogsTell'
  <2>1. ~LogsAsked' /\ ~IpsAsked'
    BY <1>1 DEF LogsAsked, IpsAsked
  <2> QED BY <1>1, <2>1 DEF NumbersInv, LogsTell
<1> QED BY <1>3, <1>4, <1>5, <1>6 DEF NumbersInv

LEMMA NumbersNext ==
  ASSUME NumbersInv, NumbersAssumption, [Numbers!Next]_(Numbers!vars)
  PROVE  NumbersInv'
<1>1. CASE UNCHANGED Numbers!vars
  <2>1. /\ alerts' = alerts /\ logs' = logs /\ request' = request /\ ahead' = ahead
        /\ left' = left /\ number' = number /\ top' = top /\ disturbed' = disturbed
    BY <1>1 DEF Numbers!vars
  <2>2. Numbers!Total(LoggedKind)' = Numbers!Total(LoggedKind)
    BY <2>1 DEF Numbers!Total
  <2>3. Numbers!NumbersTypeOK'
    BY <2>1, <2>2 DEF NumbersInv, Numbers!NumbersTypeOK
  <2>4. NotYet'
    BY <2>1 DEF NumbersInv, NotYet
  <2>5. LogsTell'
    <3>1. (LogsAsked' <=> LogsAsked) /\ (IpsAsked' <=> IpsAsked)
      BY <2>1 DEF LogsAsked, IpsAsked
    <3> QED BY <2>1, <2>2, <3>1 DEF NumbersInv, LogsTell
  <2>6. CountsTell'
    <3>1. \A n : Numbers!Matches(n)' = Numbers!Matches(n)
      BY <2>1 DEF Numbers!Matches, Numbers!None
    <3>2. \A t : OfType(t)' = OfType(t)
      BY <2>1, <3>1 DEF OfType
    <3>3. Late' = Late
      BY <2>1 DEF Late
    <3> QED BY <2>1, <3>1, <3>2, <3>3, CountsStay DEF NumbersInv
  <2> QED BY <2>3, <2>4, <2>5, <2>6 DEF NumbersInv
<1>2. CASE Numbers!Next
  <2>1. ASSUME NEW a \in AlertId, NEW sev \in AlertSeverity, NEW t \in AttackType,
               Numbers!Raise(a, sev, t)
        PROVE  NumbersInv'
    BY <2>1, RaiseKeeps
  <2>2. ASSUME NEW a \in AlertId, NEW to \in AlertStatus, Numbers!Triage(a, to)
        PROVE  NumbersInv'
    BY <2>2, TriageKeeps
  <2>3. ASSUME NEW k \in LoggedKind, Numbers!Log(k) PROVE NumbersInv'
    BY <2>3, LogKeeps
  <2>4. ASSUME NEW n \in Numbers!Counts, Numbers!Count(n) PROVE NumbersInv'
    BY <2>4, CountKeeps
  <2>5. CASE Numbers!AskLogs
    BY <2>5, CountLogsKeeps, ListLogsKeeps DEF Numbers!AskLogs
  <2> QED BY <1>2, <2>1, <2>2, <2>3, <2>4, <2>5, AskKeepsNumbers, GroupTypesKeeps,
             CountFailsKeeps, LogsFailKeeps
          DEF Numbers!Next
<1> QED BY <1>1, <1>2

(* Sums of four. *)
LEMMA FourAddUp ==
  ASSUME NEW A, NEW B, NEW C, NEW D, IsFiniteSet(A), IsFiniteSet(B), IsFiniteSet(C),
         IsFiniteSet(D), A \cap B = {}, A \cap C = {}, A \cap D = {}, B \cap C = {},
         B \cap D = {}, C \cap D = {}
  PROVE  Cardinality(A \cup B \cup C \cup D)
            = Cardinality(A) + Cardinality(B) + Cardinality(C) + Cardinality(D)
<1>1. ASSUME NEW S, NEW T, IsFiniteSet(S), IsFiniteSet(T), S \cap T = {}
      PROVE  /\ IsFiniteSet(S \cup T) /\ Cardinality(S) \in Nat /\ Cardinality(T) \in Nat
             /\ Cardinality(S \cup T) = Cardinality(S) + Cardinality(T)
  <2>1. Cardinality(S \cap T) = 0 /\ Cardinality(S) \in Nat /\ Cardinality(T) \in Nat
    BY <1>1, FS_EmptySet, FS_CardinalityType
  <2>2. /\ IsFiniteSet(S \cup T)
        /\ Cardinality(S \cup T) = Cardinality(S) + Cardinality(T) - Cardinality(S \cap T)
    BY <1>1, FS_Union
  <2>3. Cardinality(S \cup T) = Cardinality(S) + Cardinality(T) - 0
    BY <2>1, <2>2
  <2> QED BY <2>1, <2>2, <2>3
<1>2. /\ IsFiniteSet(A \cup B) /\ Cardinality(A \cup B) = Cardinality(A) + Cardinality(B)
  BY <1>1
<1>3. (A \cup B) \cap C = {} /\ (A \cup B \cup C) \cap D = {}
  OBVIOUS
<1>4. /\ IsFiniteSet(A \cup B \cup C)
      /\ Cardinality(A \cup B \cup C) = Cardinality(A \cup B) + Cardinality(C)
  BY <1>1, <1>2, <1>3
<1>5. Cardinality(A \cup B \cup C \cup D) = Cardinality(A \cup B \cup C) + Cardinality(D)
  BY <1>1, <1>3, <1>4
<1> QED BY <1>2, <1>4, <1>5

(* The numbers of a finished report fit together. *)
LEMMA NumbersFitHolds ==
  ASSUME NumbersInv, NumbersAssumption, request = "done"
  PROVE  Numbers!NumbersFit
<1> DEFINE M == Numbers!Matches("total")
<1>1. /\ number \in [Numbers!Names -> Nat] /\ Numbers!Counts \subseteq Numbers!Names
      /\ Numbers!Severities \subseteq Numbers!Counts /\ Numbers!Statuses \subseteq Numbers!Counts
      /\ "total" \in Numbers!Counts
      /\ \A s \in Numbers!Severities : s \notin Numbers!Statuses
      /\ "total" \notin Numbers!Statuses /\ "total" \notin Numbers!Severities
  BY DEF NumbersInv, Numbers!NumbersTypeOK, Numbers!Names, Numbers!Counts,
     Numbers!Severities, Numbers!Statuses
<1>2. ~Late =>
         /\ \A n \in Numbers!Severities \cup {"total"} :
               number[n] = Cardinality(Numbers!Matches(n))
         /\ "triaged" \notin disturbed =>
               \A n \in Numbers!Statuses : number[n] = Cardinality(Numbers!Matches(n))
         /\ \A t \in AttackType : top.types[t] = Cardinality(OfType(t))
  <2>1. left = {}
    BY DEF NumbersInv, NotYet
  <2> QED BY <1>1, <2>1 DEF NumbersInv, CountsTell
<1>3. /\ IsFiniteSet(M) /\ Cardinality(M) \in Nat
      /\ \A n : /\ Numbers!Matches(n) \subseteq M /\ IsFiniteSet(Numbers!Matches(n))
                /\ Cardinality(Numbers!Matches(n)) \in Nat
                /\ Cardinality(Numbers!Matches(n)) <= Cardinality(M)
      /\ \A a \in M : /\ alerts[a].severity \in Numbers!Severities
                      /\ alerts[a].status \in Numbers!Statuses
                      /\ alerts[a].type \in AttackType
  <2>1. \A a \in M : a \in AlertId /\ alerts[a] # Numbers!None
    BY DEF Numbers!Matches
  <2> QED BY <2>1, MatchesAre DEF NumbersInv
<1>4. ASSUME NEW s \in Numbers!Severities
      PROVE  Numbers!Matches(s) = {a \in M : alerts[a].severity = s}
  <2>1. \A a \in M : a \in Numbers!Matches(s) <=> s \in {"total", alerts[a].severity, alerts[a].status}
    BY DEF Numbers!Matches
  <2>2. \A a \in M : a \in Numbers!Matches(s) <=> alerts[a].severity = s
    BY <1>1, <1>3, <2>1
  <2> QED BY <1>3, <2>2
<1>5. ASSUME NEW s \in Numbers!Statuses
      PROVE  Numbers!Matches(s) = {a \in M : alerts[a].status = s}
  <2>1. \A a \in M : a \in Numbers!Matches(s) <=> s \in {"total", alerts[a].severity, alerts[a].status}
    BY DEF Numbers!Matches
  <2>2. \A a \in M : a \in Numbers!Matches(s) <=> alerts[a].status = s
    BY <1>1, <1>3, <2>1
  <2> QED BY <1>3, <2>2
<1> HIDE DEF M
<1>6. ASSUME ~Late
      PROVE  Numbers!SumOver(number, Numbers!Severities) = number["total"]
  <2> DEFINE g == [a \in M |-> alerts[a].severity]
  <2>1. g \in [M -> Numbers!Severities]
    BY <1>3
  <2>2. \A s \in Numbers!Severities : number[s] = Cardinality({a \in M : g[a] = s})
    <3> SUFFICES ASSUME NEW s \in Numbers!Severities
                 PROVE  number[s] = Cardinality({a \in M : g[a] = s})
      OBVIOUS
    <3>1. {a \in M : g[a] = s} = Numbers!Matches(s)
      BY <1>4
    <3> QED BY <1>2, <1>6, <3>1
  <2>3. IsFiniteSet(Numbers!Severities)
    <3>1. Numbers!Severities = {"CRITICAL"} \cup {"HIGH"} \cup {"MEDIUM"} \cup {"LOW"}
      BY DEF Numbers!Severities
    <3> QED BY <3>1, FS_Singleton, FS_Union
  <2> HIDE DEF g
  <2>4. Numbers!SumOver(number, Numbers!Severities) = Cardinality(M)
    BY <1>3, <2>1, <2>2, <2>3, PartsAddUp
  <2> QED BY <1>2, <1>6, <2>4 DEF M
<1>7. ASSUME ~Late
      PROVE  Numbers!SumOver(top.types, AttackType) = number["total"]
  <2> DEFINE g == [a \in M |-> alerts[a].type]
  <2>1. g \in [M -> AttackType]
    BY <1>3
  <2>2. \A t \in AttackType : top.types[t] = Cardinality({a \in M : g[a] = t})
    <3> SUFFICES ASSUME NEW t \in AttackType
                 PROVE  top.types[t] = Cardinality({a \in M : g[a] = t})
      OBVIOUS
    <3>1. {a \in M : g[a] = t} = OfType(t)
      BY DEF OfType, M
    <3> QED BY <1>2, <1>7, <3>1
  <2>3. IsFiniteSet(AttackType)
    BY DEF NumbersAssumption
  <2> HIDE DEF g
  <2>4. Numbers!SumOver(top.types, AttackType) = Cardinality(M)
    BY <1>3, <2>1, <2>2, <2>3, PartsAddUp
  <2> QED BY <1>2, <1>7, <2>4 DEF M
<1>8. ASSUME ~Late, NEW s \in Numbers!Severities
      PROVE  Numbers!Percentage(s) <= 100
  <2> DEFINE of == IF number["total"] = 0 THEN 1 ELSE number["total"]
  <2>2. number[s] \in Nat /\ number["total"] \in Nat /\ number[s] <= number["total"]
    <3>1. number[s] = Cardinality(Numbers!Matches(s))
      BY <1>2, <1>8
    <3>2. number["total"] = Cardinality(M)
      BY <1>2, <1>8 DEF M
    <3> QED BY <1>3, <3>1, <3>2
  <2>3. of \in Nat /\ of > 0 /\ number[s] <= of
    BY <2>2
  <2> HIDE DEF of
  <2>4. /\ 200 * number[s] + of \in Nat /\ 2 * of \in Nat /\ 2 * of > 0
        /\ 200 * number[s] + of < (100 + 1) * (2 * of)
    BY <2>2, <2>3
  <2>5. (200 * number[s] + of) \div (2 * of) \in 0..100
    BY <2>4, Quotient
  <2>6. Numbers!Percentage(s) = (200 * number[s] + of) \div (2 * of)
    BY DEF Numbers!Percentage, of
  <2> QED BY <2>5, <2>6
<1>9. ASSUME ~Late, "triaged" \notin disturbed
      PROVE  Numbers!activeAlerts + number["RESOLVED"] + number["FALSE_POSITIVE"] = number["total"]
  <2> DEFINE m(s) == Numbers!Matches(s)
  <2>1. /\ m("NEW") = {a \in M : alerts[a].status = "NEW"}
        /\ m("INVESTIGATING") = {a \in M : alerts[a].status = "INVESTIGATING"}
        /\ m("RESOLVED") = {a \in M : alerts[a].status = "RESOLVED"}
        /\ m("FALSE_POSITIVE") = {a \in M : alerts[a].status = "FALSE_POSITIVE"}
    BY <1>5 DEF Numbers!Statuses
  <2>2. M = m("NEW") \cup m("INVESTIGATING") \cup m("RESOLVED") \cup m("FALSE_POSITIVE")
    BY <1>3, <2>1 DEF Numbers!Statuses
  <2>3. \A s : IsFiniteSet(m(s)) /\ Cardinality(m(s)) \in Nat
    BY <1>3
  <2> HIDE DEF m
  <2>4. Cardinality(M) = Cardinality(m("NEW")) + Cardinality(m("INVESTIGATING"))
                            + Cardinality(m("RESOLVED")) + Cardinality(m("FALSE_POSITIVE"))
    BY <2>1, <2>2, <2>3, FourAddUp
  <2>5. /\ number["NEW"] = Cardinality(m("NEW"))
        /\ number["INVESTIGATING"] = Cardinality(m("INVESTIGATING"))
        /\ number["RESOLVED"] = Cardinality(m("RESOLVED"))
        /\ number["FALSE_POSITIVE"] = Cardinality(m("FALSE_POSITIVE"))
        /\ number["total"] = Cardinality(M)
    BY <1>2, <1>9 DEF Numbers!Statuses, m, M
  <2> QED BY <2>3, <2>4, <2>5 DEF Numbers!activeAlerts
<1>10. "logged" \notin disturbed => number["anomalousLogs"] <= number["totalLogs"]
  BY DEF NumbersInv, LogsTell
<1>11. ~Late =>
          /\ Numbers!SumOver(number, Numbers!Severities) = number["total"]
          /\ Numbers!SumOver(top.types, AttackType) = number["total"]
          /\ \A s \in Numbers!Severities : Numbers!Percentage(s) <= 100
          /\ \/ "triaged" \in disturbed
             \/ Numbers!activeAlerts + number["RESOLVED"] + number["FALSE_POSITIVE"] = number["total"]
  BY <1>6, <1>7, <1>8, <1>9
<1> QED BY <1>10, <1>11, Zenon DEF Numbers!NumbersFit, Late

(* There are finitely many rows of addresses. *)
LEMMA FiniteRows == ASSUME NumbersAssumption PROVE IsFiniteSet(Numbers!Row)
<1> DEFINE f == [k \in LoggedKind |-> k.address]
           P == Numbers!Address \X (0..1000)
           g == [r \in Numbers!Row |-> <<r.ip, r.tenths>>]
<1>1. f \in Surjection(LoggedKind, Numbers!Address)
  BY DEF Surjection, Numbers!Address
<1>2. IsFiniteSet(Numbers!Address)
  BY <1>1, FS_Surjection DEF NumbersAssumption
<1>3. IsFiniteSet(0..1000)
  <2> DEFINE most == 1000
  <2>1. most \in Nat
    OBVIOUS
  <2> HIDE DEF most
  <2>2. IsFiniteSet(0..most)
    BY <2>1, FS_Interval
  <2> QED BY <2>2 DEF most
<1>4. IsFiniteSet(P)
  BY <1>2, <1>3, FS_Product
<1>5. g \in [Numbers!Row -> P] /\ \A r, q \in Numbers!Row : g[r] = g[q] => r = q
  BY DEF Numbers!Row
<1> HIDE DEF g, P
<1>6. g \in Injection(Numbers!Row, P)
  BY <1>5 DEF Injection, IsInjective
<1> QED BY <1>4, <1>6, FS_Injection

(* Its advice fits what it found. *)
LEMMA AdviceFitsHolds ==
  ASSUME NumbersInv, NumbersAssumption, request = "done"
  PROVE  Numbers!AdviceFits
<1> DEFINE M == Numbers!Matches("total")
           There == {alerts[a] : a \in M}
<1>1. ~Late =>
         /\ number["CRITICAL"] = Cardinality(Numbers!Matches("CRITICAL"))
         /\ number["HIGH"] = Cardinality(Numbers!Matches("HIGH"))
         /\ \A t \in AttackType : top.types[t] = Cardinality(OfType(t))
  <2>1. left = {}
    BY DEF NumbersInv, NotYet
  <2>2. /\ {"CRITICAL", "HIGH"} \subseteq Numbers!Counts
        /\ "CRITICAL" \notin Numbers!Statuses /\ "HIGH" \notin Numbers!Statuses
    BY DEF Numbers!Counts, Numbers!Severities, Numbers!Statuses
  <2> QED BY <2>1, <2>2 DEF NumbersInv, CountsTell
<1>2. ASSUME NEW s \in {"CRITICAL", "HIGH"}, NEW a \in M, alerts[a].severity = s
      PROVE  Cardinality(Numbers!Matches(s)) > 0
  <2>1. a \in Numbers!Matches(s)
    BY <1>2 DEF Numbers!Matches
  <2>2. /\ Cardinality(Numbers!Matches(s)) \in Nat
        /\ Cardinality(Numbers!Matches(s)) = 0 <=> Numbers!Matches(s) = {}
    BY MatchesAre DEF NumbersInv
  <2> QED BY <2>1, <2>2
<1>3. ASSUME ~Late, Numbers!Posture = "NORMAL"
      PROVE  \A a \in There : a.severity \notin {"CRITICAL", "HIGH"}
  <2>1. ~(number["CRITICAL"] > 0) /\ ~(number["HIGH"] > 0)
    BY <1>3 DEF Numbers!Posture
  <2> QED BY <1>1, <1>2, <1>3, <2>1
<1>4. ASSUME ~Late, NEW a \in There, a.severity = "CRITICAL"
      PROVE  "REC-001" \in Numbers!Recommendations
  BY <1>1, <1>2, <1>4 DEF Numbers!Recommendations
<1>5. ASSUME ~Late
      PROVE  (\E a \in There : a.type \in Numbers!Guessing) <=>
             "REC-002" \in Numbers!Recommendations
  <2>1. \A t \in AttackType : top.types[t] > 0 <=> \E a \in M : alerts[a].type = t
    <3> SUFFICES ASSUME NEW t \in AttackType
                 PROVE  top.types[t] > 0 <=> \E a \in M : alerts[a].type = t
      OBVIOUS
    <3>1. IsFiniteSet(OfType(t)) /\ Cardinality(OfType(t)) \in Nat
      BY MatchesAre DEF NumbersInv
    <3>2. Cardinality(OfType(t)) > 0 <=> OfType(t) # {}
      BY <3>1, FS_EmptySet
    <3> QED BY <1>1, <1>5, <3>2 DEF OfType
  <2>2. \A a \in M : alerts[a].type \in AttackType
    <3>1. \A a \in M : a \in AlertId /\ alerts[a] # Numbers!None
      BY DEF Numbers!Matches
    <3> QED BY <3>1, MatchesAre DEF NumbersInv
  <2> HIDE DEF M
  <2>3. (\E a \in There : a.type \in Numbers!Guessing) <=>
        \E t \in Numbers!Guessing \cap AttackType : top.types[t] > 0
    BY <2>1, <2>2
  <2>4. "REC-002" \in Numbers!Recommendations <=>
        \E t \in Numbers!Guessing \cap AttackType : top.types[t] > 0
    BY DEF Numbers!Recommendations
  <2> QED BY <2>3, <2>4
<1>6. \/ "mongo" \in disturbed \/ "logged" \in disturbed
      \/ (number["totalLogs"] > 0) <=> (top.ips # {})
  <2>1. "mongo" \notin disturbed => IpsAsked
    BY DEF IpsAsked
  <2> QED BY <2>1 DEF NumbersInv, LogsTell
<1>7. ASSUME "logged" \notin disturbed, NEW rws \in Numbers!PdfRows
      PROVE  Cardinality(Numbers!Pdf(rws).ips) <= number["totalLogs"]
  <2>1. rws \subseteq top.ips /\ Numbers!Pdf(rws).ips = rws
    BY DEF Numbers!PdfRows, Numbers!Pdf
  <2>2. IsFiniteSet(top.ips)
    <3>1. top.ips \subseteq Numbers!Row
      BY DEF NumbersInv, Numbers!NumbersTypeOK
    <3> QED BY <3>1, FiniteRows, FS_Subset
  <2>3. Cardinality(rws) <= Cardinality(top.ips) /\ Cardinality(rws) \in Nat
        /\ Cardinality(top.ips) \in Nat
    BY <2>1, <2>2, FS_Subset, FS_CardinalityType
  <2>4. Cardinality(top.ips) <= number["totalLogs"] /\ number["totalLogs"] \in Nat
    BY <1>7 DEF NumbersInv, LogsTell, Numbers!NumbersTypeOK, Numbers!Names
  <2> QED BY <2>1, <2>3, <2>4
<1>8. \A r \in Numbers!Recommendations : Numbers!GivesReason(Numbers!Csv, r)
  BY DEF Numbers!Recommendations, Numbers!GivesReason, Numbers!Csv, Numbers!Severities
<1> QED BY <1>3, <1>4, <1>5, <1>6, <1>7, <1>8, NumbersCardinality DEF Numbers!AdviceFits, Late

LEMMA NumbersShown ==
  ASSUME NumbersInv, NumbersAssumption PROVE Numbers!ReportAddsUp
  BY NumbersFitHolds, AdviceFitsHolds DEF Numbers!ReportAddsUp

LEMMA NumbersInvHolds == ASSUME NumbersAssumption PROVE Numbers!Spec => []NumbersInv
<1>1. Numbers!Init => NumbersInv
  BY NumbersInit
<1>2. NumbersInv /\ [Numbers!Next]_(Numbers!vars) => NumbersInv'
  BY NumbersNext
<1> QED BY <1>1, <1>2, PTL DEF Numbers!Spec

(* The numbers of a report add up and its advice follows from them, as far *)
(* as nothing changed while it was made (reports.service.ts,               *)
(* aggregateReportData).                                                   *)
THEOREM NumbersAddUp == ASSUME NumbersAssumption PROVE Numbers!Spec => []Numbers!ReportAddsUp
<1>1. NumbersInv => Numbers!ReportAddsUp
  BY NumbersShown
<1> QED BY <1>1, NumbersInvHolds, PTL

===============================================================================
