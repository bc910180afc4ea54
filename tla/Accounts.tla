-------------------------------- MODULE Accounts --------------------------------
(***************************************************************************)
(* Accounts in the backend: registration, login and stateless tokens       *)
(* (auth.service.ts), the look-up behind every authenticated request       *)
(* (jwt.strategy.ts), administration (users.service.ts) and the change of  *)
(* a password (settings.service.ts).  A handler reads the account, awaits, *)
(* and acts on what it read; other requests change the account meanwhile.  *)
(* Names, verification and the time of the last login decide nothing.      *)
(***************************************************************************)
EXTENDS Naturals

CONSTANTS Email, Password, Request

Role == {"ADMIN", "ANALYST", "VIEWER"}
Kind == {"access", "refresh"}

VARIABLES
    account,   \* account[e]: the row, or NoAccount
    tokens,    \* the tokens somebody may hold and that have not expired
    req,       \* req[q]: the request served in slot q, past its first await
    revoked    \* history: credentials out of force since all their requests ended

vars == <<account, tokens, req, revoked>>

NoAccount == [role |-> "none", active |-> FALSE]
Account == [role : Role, active : BOOLEAN, password : Password]
Idle == [phase |-> "idle"]

(* What a caller sends to PATCH /users/:id: the switch of the page only the *)
(* status, its edit form the role and the status as its copy had them.     *)
Change == [role : Role] \cup [active : BOOLEAN] \cup [role : Role, active : BOOLEAN]

Requests ==
    {Idle} \cup [phase : {"create", "login"}, email : Email, password : Password]
           \cup [phase : {"sign"}, email : Email]
           \cup [phase : {"update"}, email : Email, target : Email, change : Change]
           \cup [phase : {"remove"}, email : Email, target : Email]
           \cup [phase : {"compare", "store"}, email : Email, old : Password, new : Password]

Exists(e) == account[e] # NoAccount
Active(e) == account[e].active

(* A credential is that an account is active, or a password of it. *)
Credential == Email \X (Password \cup {"active"})

InForce(acc, c) ==
    /\ acc[c[1]] # NoAccount
    /\ IF c[2] = "active" THEN acc[c[1]].active ELSE acc[c[1]].password = c[2]

(* The credentials a request was let in with. *)
Relies(r) ==
    CASE r.phase \in {"idle", "create"} -> {}
      [] r.phase = "login" -> {<<r.email, "active">>, <<r.email, r.password>>}
      [] r.phase = "store" -> {<<r.email, "active">>, <<r.email, r.old>>}
      [] OTHER -> {<<r.email, "active">>}

AccountsTypeOK ==
    /\ account \in [Email -> Account \cup {NoAccount}]
    /\ tokens \subseteq Kind \X Email
    /\ req \in [Request -> Requests]
    /\ revoked \subseteq Credential

Init ==
    /\ account \in [Email -> {a \in Account : a.active} \cup {NoAccount}]
    /\ tokens = {}
    /\ req = [q \in Request |-> Idle]
    /\ revoked = {c \in Credential : ~InForce(account, c)}

(* A credential is revoked once it is out of force and nothing under way relies on it. *)
Track == revoked' = {c \in Credential : /\ ~InForce(account', c)
                                        /\ \/ c \in revoked
                                           \/ \A q \in Request : c \notin Relies(req'[q])}

Begin(q, r) == req[q] = Idle /\ req' = [req EXCEPT ![q] = r]
End(q) == req' = [req EXCEPT ![q] = Idle]
Issue(e) == tokens' = tokens \cup (Kind \X {e})

-------------------------------------------------------------------------------
(* auth.service.ts *)

(* register: no row has the email; then the password is hashed. *)
Register(q, e, p) ==
    /\ ~Exists(e)
    /\ Begin(q, [phase |-> "create", email |-> e, password |-> p])
    /\ UNCHANGED <<account, tokens>>

(* The insert takes a role the table does not have. *)
CreateWithOtherRole(q) ==
    /\ req[q].phase = "create"
    /\ End(q)
    /\ LET e == req[q].email IN
       IF Exists(e) THEN UNCHANGED <<account, tokens>>
       ELSE /\ account' = [account EXCEPT ![e] =
                   [role |-> "USER", active |-> TRUE, password |-> req[q].password]]
            /\ Issue(e)

(* The insert, which the unique index refuses if another request was first. *)
Create(q) ==
    /\ req[q].phase = "create"
    /\ End(q)
    /\ LET e == req[q].email IN
       IF Exists(e) THEN UNCHANGED <<account, tokens>>
       ELSE /\ account' = [account EXCEPT ![e] =
                   [role |-> "VIEWER", active |-> TRUE, password |-> req[q].password]]
            /\ Issue(e)

(* LocalStrategy and validateUser: the account as it was found. *)
ValidateUser(q, e, p) ==
    /\ Active(e) /\ account[e].password = p
    /\ Begin(q, [phase |-> "login", email |-> e, password |-> p])
    /\ UNCHANGED <<account, tokens>>

(* login asks nothing again. *)
Login(q) ==
    /\ req[q].phase = "login"
    /\ End(q)
    /\ Issue(req[q].email)
    /\ UNCHANGED account

(* A refresh checks the signature and finds the row, and does not look at isActive. *)
RefreshUnchecked(q, e) ==
    /\ <<"refresh", e>> \in tokens /\ Exists(e)
    /\ Begin(q, [phase |-> "sign", email |-> e])
    /\ UNCHANGED <<account, tokens>>

(* refreshTokens: a good token of an active account. *)
Refresh(q, e) ==
    /\ <<"refresh", e>> \in tokens /\ Active(e)
    /\ Begin(q, [phase |-> "sign", email |-> e])
    /\ UNCHANGED <<account, tokens>>

GenerateTokens(q) ==
    /\ req[q].phase = "sign"
    /\ End(q)
    /\ Issue(req[q].email)
    /\ UNCHANGED account

(* 15 minutes or 7 days have passed. *)
Expire(t) ==
    /\ t \in tokens
    /\ tokens' = tokens \ {t}
    /\ UNCHANGED <<account, req>>

-------------------------------------------------------------------------------
(* Requests with an access token.  JwtStrategy.validate finds the account  *)
(* active before any handler runs.                                         *)

Authenticated(e) == <<"access", e>> \in tokens /\ Active(e)

(* PATCH /users/:id names no role. *)
AskUpdate(q, e, target, change) ==
    /\ Authenticated(e) /\ Exists(target)
    /\ Begin(q, [phase |-> "update", email |-> e, target |-> target, change |-> change])
    /\ UNCHANGED <<account, tokens>>

(* An update that leaves isActive out sets it to its default. *)
UpdateWithDefault(q) ==
    /\ req[q].phase = "update"
    /\ End(q)
    /\ LET change == req[q].change IN
       account' = [account EXCEPT ![req[q].target] =
           [f \in DOMAIN @ |-> IF f \in DOMAIN change THEN change[f]
                               ELSE IF f = "active" THEN TRUE ELSE @[f]]]
    /\ UNCHANGED tokens

(* Only the fields that were sent are written. *)
Update(q) ==
    /\ req[q].phase = "update"
    /\ End(q)
    /\ LET change == req[q].change IN
       account' = [account EXCEPT ![req[q].target] =
           [f \in DOMAIN @ |-> IF f \in DOMAIN change THEN change[f] ELSE @[f]]]
    /\ UNCHANGED tokens

(* DELETE /users/:id passes RolesGuard with the role just read. *)
AskRemove(q, e, target) ==
    /\ Authenticated(e) /\ account[e].role = "ADMIN" /\ Exists(target)
    /\ Begin(q, [phase |-> "remove", email |-> e, target |-> target])
    /\ UNCHANGED <<account, tokens>>

(* A soft delete, of whomever: nobody counts the administrators left. *)
Remove(q) ==
    /\ req[q].phase = "remove"
    /\ End(q)
    /\ account' = [account EXCEPT ![req[q].target].active = FALSE]
    /\ UNCHANGED tokens

(* changePassword: let in, then the row is read and the old password compared. *)
AskPassword(q, e, old, new) ==
    /\ Authenticated(e)
    /\ Begin(q, [phase |-> "compare", email |-> e, old |-> old, new |-> new])
    /\ UNCHANGED <<account, tokens>>

Compare(q) ==
    /\ req[q].phase = "compare"
    /\ req' = [req EXCEPT ![q] =
           IF account[@.email].password = @.old THEN [@ EXCEPT !.phase = "store"] ELSE Idle]
    /\ UNCHANGED <<account, tokens>>

StorePassword(q) ==
    /\ req[q].phase = "store"
    /\ End(q)
    /\ account' = [account EXCEPT ![req[q].email].password = req[q].new]
    /\ UNCHANGED tokens

Serve(q) ==
    \/ \E e \in Email, p \in Password : Register(q, e, p) \/ ValidateUser(q, e, p)
    \/ \E e \in Email : Refresh(q, e)
    \/ \E e, target \in Email : AskRemove(q, e, target)
    \/ \E e, target \in Email, change \in Change : AskUpdate(q, e, target, change)
    \/ \E e \in Email, old, new \in Password : AskPassword(q, e, old, new)
    \/ Create(q) \/ Login(q) \/ GenerateTokens(q)
    \/ Update(q) \/ Remove(q) \/ Compare(q) \/ StorePassword(q)

Next ==
    /\ \/ \E q \in Request : Serve(q)
       \/ \E t \in tokens : Expire(t)
    /\ Track

Spec == Init /\ [][Next]_vars

-------------------------------------------------------------------------------
(* Properties *)

(* A password that was replaced, and an account that was deactivated, let  *)
(* nothing in once the requests they had let in are over: no tokens are    *)
(* signed, nothing is administered, no password is stored                  *)
(* (auth.service.ts, jwt.strategy.ts), whatever tokens are still about.    *)
RevokedIsOut == \A q \in Request : Relies(req[q]) \cap revoked = {}

(* A deactivated account comes back only by a PATCH /users/:id that carries *)
(* isActive = true, be it the switch or an edit form opened before the     *)
(* deactivation; by no other request that overlaps with the deactivation   *)
(* (users.service.ts).  Every role may send that PATCH, but nobody who is  *)
(* out himself: an account does not bring itself back (jwt.strategy.ts).   *)
NotRevived ==
    \A e \in Email : Exists(e) /\ ~Active(e) /\ account'[e].active =>
        \E q \in Request : /\ req[q].phase = "update" /\ req[q].target = e
                           /\ "active" \in DOMAIN req[q].change /\ req[q].change.active
                           /\ <<req[q].email, "active">> \notin revoked

DisabledUntilReactivated == [][NotRevived]_vars

===============================================================================
