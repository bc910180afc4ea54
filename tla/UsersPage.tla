------------------------------- MODULE UsersPage -------------------------------
(***************************************************************************)
(* The administrator's page of accounts, users/page.tsx, over the rows of  *)
(* the backend.  Every handler catches its own failure and goes on as if   *)
(* the backend had done it; what it shows then exists on this page only.   *)
(* The list holds the newest Limit accounts: the page asks for no other.   *)
(* Names, search and the look of the page are left out, and of the account *)
(* of the administrator, like of all the page never touches, only its      *)
(* place in the list is kept.                                              *)
(***************************************************************************)
EXTENDS Naturals, Sequences

CONSTANTS
    Email, Role,   \* Role holds "ANALYST", the form's default, and "VIEWER", the table's
    Demo,          \* the email of the account that stands for FALLBACK_USERS
    Else,          \* the emails the page never touches, the administrator's among them
    First,         \* the accounts there may be at first, oldest first
    Limit,         \* accounts in an answer, 20
    Slot,          \* bound: requests under way at a time
    MaxTrouble     \* bound: requests that are lost and writes of others

Fields == [role : Role, active : BOOLEAN]
None == [role |-> "none", active |-> FALSE]
Id == Email \X {"row", "local"}   \* what the backend numbered, what the page made up
Nobody == [id \in Id |-> None]
Fallback == [Nobody EXCEPT ![<<Demo, "local">>] = [role |-> "ANALYST", active |-> TRUE]]

VARIABLES
    rows,      \* rows[e]: the account of the backend, or None
    order,     \* the emails of the accounts, oldest first
    shown,     \* shown[id]: the card of the page, or None
    empty,     \* the page has no card yet, not even the administrator's
    dialog,    \* the dialog that is open, with the card it was opened for
    req,       \* req[s]: a request under way
    clean,     \* history: since a lone fetch, nothing failed, crossed or was done by others
    trouble    \* requests lost and writes of others so far

vars == <<rows, order, shown, empty, dialog, req, clean, trouble>>

Idle == [op |-> "idle"]
Closed == [op |-> "closed"]
FormOp == {"create", "edit", "delete"}
Dialogs == {Closed} \cup [op : FormOp, id : Id, form : Fields \cup {None}]
Requests == {Idle}
    \cup [op : {"fetch"}, phase : {"sent", "done", "failed"}, got : [Id -> Fields \cup {None}], alone : BOOLEAN]
    \cup [op : FormOp \cup {"toggle"}, phase : {"sent", "role", "done", "failed"}, id : Id,
          form : Fields \cup {None}]

Made(e) == \E i \in 1..Len(order) : order[i] = e

(* Who has a row has a place in the order. *)
Ordered ==
    /\ order \in Seq(Email \cup Else)
    /\ \A e \in Email : rows[e] # None <=> Made(e)

UsersTypeOK ==
    /\ rows \in [Email -> Fields \cup {None}]
    /\ Ordered
    /\ shown \in [Id -> Fields \cup {None}]
    /\ empty \in BOOLEAN
    /\ dialog \in Dialogs
    /\ req \in [Slot -> Requests]
    /\ clean \in BOOLEAN /\ trouble \in 0..MaxTrouble

(* findAll: the newest Limit rows.  An account is created once and its row *)
(* is never removed, so that each has one place in the order.              *)
Newest(e) == \E i \in 1..Len(order) : order[i] = e /\ Len(order) < i + Limit

Listed(table) == [id \in Id |-> IF id[2] = "row" /\ Newest(id[1]) THEN table[id[1]] ELSE None]

Init ==
    /\ order \in First
    /\ rows = [e \in Email |-> IF Made(e) THEN [role |-> "ANALYST", active |-> TRUE] ELSE None]
    /\ shown = Nobody /\ empty = TRUE
    /\ dialog = Closed
    /\ req = [s \in Slot |-> Idle]
    /\ clean = FALSE /\ trouble = 0

Busy(s) == req[s] # Idle
Crosses(s, id) == Busy(s) /\ (req[s].op = "fetch" \/ req[s].id[1] = id[1])
Disturbed == [s \in Slot |-> IF req[s].op = "fetch" THEN [req[s] EXCEPT !.alone = FALSE] ELSE req[s]]

Send(s, op, id, form) ==
    /\ ~Busy(s)
    /\ req' = [Disturbed EXCEPT ![s] = [op |-> op, phase |-> "sent", id |-> id, form |-> form]]
    /\ clean' = (clean /\ ~\E other \in Slot : Crosses(other, id))

-------------------------------------------------------------------------------
(* The page *)

(* fetchUsers, on load and by Refresh. *)
FetchUsers(s) ==
    /\ ~Busy(s) /\ \A other \in Slot : req[other].op # "fetch"
    /\ req' = [req EXCEPT ![s] = [op |-> "fetch", phase |-> "sent", got |-> Nobody,
                                  alone |-> \A other \in Slot : ~Busy(other)]]
    /\ clean' = FALSE
    /\ UNCHANGED <<rows, order, shown, empty, dialog, trouble>>

(* The controls of a row can be reached while no dialog lies over the table. *)
OnCard(id) == dialog = Closed /\ shown[id] # None

(* What the forms can hold: the create form any role, the edit form the    *)
(* copy it was opened with, of which one field is changed.                 *)
CreateForms == [role : Role, active : {TRUE}]
EditForms(copy) == {f \in Fields : f.role = copy.role \/ f.active = copy.active}

Open(op, id, form) ==
    /\ dialog' = [op |-> op, id |-> id, form |-> form]
    /\ UNCHANGED <<rows, order, shown, empty, req, clean, trouble>>

OpenCreate(e) ==
    /\ dialog = Closed /\ shown[<<e, "local">>] = None   \* bound: one made-up card per email
    /\ \E form \in CreateForms : Open("create", <<e, "local">>, form)

OpenEdit(id) == OnCard(id) /\ \E form \in EditForms(shown[id]) : Open("edit", id, form)

OpenDelete(id) == OnCard(id) /\ Open("delete", id, None)

Cancel ==
    /\ dialog # Closed
    /\ dialog' = Closed
    /\ UNCHANGED <<rows, order, shown, empty, req, clean, trouble>>

(* The submit buttons are disabled while a dialog's request is under way. *)
Submit(s) ==
    /\ dialog # Closed /\ \A other \in Slot : req[other].op \notin FormOp
    /\ Send(s, dialog.op, dialog.id, dialog.form)
    /\ UNCHANGED <<rows, order, shown, empty, dialog, trouble>>

(* handleToggleStatus: the opposite of what the card shows. *)
ToggleStatus(s, id) ==
    /\ OnCard(id)
    /\ Send(s, "toggle", id, [shown[id] EXCEPT !.active = ~@])
    /\ UNCHANGED <<rows, order, shown, empty, dialog, trouble>>

(* No answer leaves the cards; a page without cards gets the fallback. *)
ShownAfterFetch(r) ==
    IF r.phase = "done" THEN r.got ELSE IF empty THEN Fallback ELSE shown

(* Mutant: the card is given the role of the form. *)
ShownAfterCreateAsAsked(r) ==
    IF r.phase = "failed" THEN [shown EXCEPT ![r.id] = r.form]
    ELSE [shown EXCEPT ![<<r.id[1], "row">>] = r.form]

(* What createdUser is: resp.user with the role that was asked for, but for *)
(* ANALYST, which is not asked for; made up after a failure.               *)
ShownAfterCreate(r) ==
    IF r.phase = "failed" THEN [shown EXCEPT ![r.id] = r.form]
    ELSE [shown EXCEPT ![<<r.id[1], "row">>] =
             [role |-> IF r.form.role = "ANALYST" THEN "VIEWER" ELSE r.form.role, active |-> TRUE]]

(* What a handler does to the cards; a card that is gone stays so. *)
ShownAfter(r) ==
    CASE r.op = "fetch" -> ShownAfterFetch(r)
      [] r.op = "create" -> ShownAfterCreate(r)
      [] r.op = "delete" -> [shown EXCEPT ![r.id] = None]
      [] r.op \in {"edit", "toggle"} /\ shown[r.id] = None -> shown
      [] r.op = "edit" /\ shown[r.id] # None -> [shown EXCEPT ![r.id] = r.form]
      [] r.op = "toggle" /\ shown[r.id] # None -> [shown EXCEPT ![r.id].active = r.form.active]

(* The end of every handler, whatever became of its request. *)
Land(s) ==
    /\ Busy(s) /\ req[s].phase \in {"done", "failed"}
    /\ shown' = ShownAfter(req[s])
    /\ empty' = (empty /\ req[s].op \notin {"fetch", "create"})
    /\ dialog' = IF req[s].op \in FormOp THEN Closed ELSE dialog
    /\ clean' = IF req[s].op = "fetch"
                THEN req[s].phase = "done" /\ req[s].alone
                ELSE clean /\ req[s].phase = "done"
    /\ req' = [req EXCEPT ![s] = Idle]
    /\ UNCHANGED <<rows, order, trouble>>

-------------------------------------------------------------------------------
(* The backend's answers: users.service.ts and register *)

Found(id) == id[2] = "row" /\ rows[id[1]] # None

(* The row after a request that is not refused, and what the request waits for next. *)
Written(r) ==
    CASE r.op = "create" /\ r.phase = "sent" -> [role |-> "VIEWER", active |-> TRUE]
      [] r.op = "create" /\ r.phase = "role" -> [rows[r.id[1]] EXCEPT !.role = r.form.role]
      [] r.op = "edit" -> r.form
      [] r.op = "toggle" -> [rows[r.id[1]] EXCEPT !.active = r.form.active]
      [] r.op = "delete" -> [rows[r.id[1]] EXCEPT !.active = FALSE]

Refused(r) ==
    IF r.op = "create" THEN r.phase = "sent" /\ rows[r.id[1]] # None ELSE ~Found(r.id)

Serve(s) ==
    /\ Busy(s) /\ req[s].phase \in {"sent", "role"}
    /\ LET r == req[s] IN
       IF r.op = "fetch"
       THEN /\ req' = [req EXCEPT ![s].phase = "done", ![s].got = Listed(rows)]
            /\ UNCHANGED <<rows, order>>
       ELSE IF Refused(r)
       THEN req' = [req EXCEPT ![s].phase = "failed"] /\ UNCHANGED <<rows, order>>
       ELSE /\ rows' = [rows EXCEPT ![r.id[1]] = Written(r)]
            /\ order' = IF rows[r.id[1]] = None THEN Append(order, r.id[1]) ELSE order
            /\ req' = [req EXCEPT ![s].phase =
                  IF r.op = "create" /\ @ = "sent" /\ r.form.role # "ANALYST" THEN "role" ELSE "done"]
    /\ UNCHANGED <<shown, empty, dialog, clean, trouble>>

(* The request or its answer is lost. *)
Fail(s) ==
    /\ trouble < MaxTrouble /\ trouble' = trouble + 1
    /\ Busy(s) /\ req[s].phase # "failed"
    /\ req' = [req EXCEPT ![s].phase = "failed"]
    /\ UNCHANGED <<rows, order, shown, empty, dialog, clean>>

(* Another administrator, or a registration. *)
Others(e, f) ==
    /\ trouble < MaxTrouble /\ trouble' = trouble + 1
    /\ rows[e] # f
    /\ rows' = [rows EXCEPT ![e] = f]
    /\ order' = IF rows[e] = None THEN Append(order, e) ELSE order
    /\ req' = Disturbed /\ clean' = FALSE
    /\ UNCHANGED <<shown, empty, dialog>>

(* An account the page never touches takes a place in the list. *)
Registered(e) ==
    /\ trouble < MaxTrouble /\ trouble' = trouble + 1
    /\ ~Made(e)
    /\ order' = Append(order, e)
    /\ UNCHANGED <<rows, shown, empty, dialog, req, clean>>

Next ==
    \/ \E s \in Slot : FetchUsers(s) \/ Submit(s) \/ Land(s) \/ Serve(s) \/ Fail(s)
    \/ \E e \in Email : OpenCreate(e)
    \/ \E id \in Id : OpenEdit(id) \/ OpenDelete(id) \/ \E s \in Slot : ToggleStatus(s, id)
    \/ Cancel
    \/ \E e \in Email, f \in Fields : Others(e, f)
    \/ \E e \in Else : Registered(e)

Spec == Init /\ [][Next]_vars

-------------------------------------------------------------------------------
(* Properties *)

(* Failures swallowed and dialogs open over old copies (users/page.tsx):   *)
(* on a page at rest, unless since its last fetch something failed or      *)
(* crossed or its accounts were changed by others, every card is the row,  *)
(* and an account without a card does not exist, is deactivated, or is     *)
(* older than the newest Limit, which are all that the backend lists.      *)
ShownIsStored ==
    clean /\ (\A s \in Slot : ~Busy(s)) =>
        \A e \in Email : /\ shown[<<e, "local">>] = None
                         /\ LET card == shown[<<e, "row">>] IN
                            IF card = None THEN ~(rows[e].active /\ Newest(e)) ELSE card = rows[e]

(* Claimed by the form, which is to assign role-based permissions          *)
(* (users/page.tsx:980): the account created gets the role that was chosen. *)
ChosenRoleIsGiven ==
    [][\A s \in Slot : req[s].op = "create" /\ req[s].phase = "done" /\ ~(req[s] = req'[s]) =>
          shown'[<<req[s].id[1], "row">>].role = req[s].form.role]_vars

===============================================================================
