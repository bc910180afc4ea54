------------------------------- MODULE SignIn -------------------------------
(***************************************************************************)
(* Who gets where: login/page.tsx with its two panels, register/page.tsx,  *)
(* the gate in front of the dashboard ((dashboard)/layout.tsx) and the two *)
(* buttons that sign out, over the store of stores/auth-store.ts, which    *)
(* they share and which outlives the pages.  The router arrives some time  *)
(* after it was asked to, and an effect runs some time after the render    *)
(* that calls for it.  Other tabs share the storage only.                  *)
(***************************************************************************)

(* What an input may hold, as far as the checks tell it apart. *)
Text == {"empty", "blank", "word"}
PasswordText == {"empty", "short", "long"}
Form == [name : Text, email : Text, password : PasswordText, confirmed : BOOLEAN]

Route == {"login", "register", "overview"}
NoCall == [kind |-> "none"]
Calls == {NoCall} \cup [kind : {"login", "register"}, form : Form]

VARIABLES
    route,      \* the page shown
    going,      \* where the router is on its way to, or "none"
    due,        \* the page's effect on isAuthenticated is still to run
    panel,      \* the panel of the login page that is visible
    local,      \* the forms that show an error of their own
    isAuthenticated, isLoading,
    error,      \* the store's error: whose attempt failed, or "none"
    call,       \* the request under way
    kept        \* localStorage holds a token and a user

vars == <<route, going, due, panel, local, isAuthenticated, isLoading, error, call, kept>>

store == <<isAuthenticated, isLoading, error, call>>
view == <<panel, local>>

SignInTypeOK ==
    /\ route \in Route /\ going \in Route \cup {"none"} /\ due \in BOOLEAN
    /\ panel \in {"signIn", "signUp"} /\ local \subseteq {"signIn", "signUp", "register"}
    /\ isAuthenticated \in BOOLEAN /\ isLoading \in BOOLEAN
    /\ error \in {"none", "login", "register"} /\ call \in Calls
    /\ kept \in BOOLEAN

(* A page that comes into being is empty; its first effect is loadFromStorage, *)
(* which signs in and never out, and the other one follows.                    *)
Mount(r) ==
    /\ route' = r /\ due' = TRUE
    /\ panel' = "signIn" /\ local' = {}
    /\ isAuthenticated' = (isAuthenticated \/ kept)

Init ==
    /\ route \in Route /\ going = "none" /\ due = TRUE
    /\ panel = "signIn" /\ local = {}
    /\ kept \in BOOLEAN /\ isAuthenticated = kept
    /\ isLoading = FALSE /\ error = "none" /\ call = NoCall

-------------------------------------------------------------------------------
(* The router and the effects *)

(* The page that is shown already is not made anew. *)
Arrive ==
    /\ going # "none"
    /\ going' = "none"
    /\ IF going = route THEN UNCHANGED <<route, due, view, isAuthenticated>> ELSE Mount(going)
    /\ UNCHANGED <<isLoading, error, call, kept>>

(* Of the two sides of the gate each sends away who belongs to the other. *)
Gate ==
    /\ due
    /\ due' = FALSE
    /\ going' = CASE route = "overview" /\ ~isAuthenticated -> "login"
                  [] route # "overview" /\ isAuthenticated -> "overview"
                  [] OTHER -> going
    /\ UNCHANGED <<route, view, store, kept>>

(* An address is typed, or a page reloaded: the store begins anew. *)
Visit(r) ==
    /\ route' = r /\ going' = "none" /\ due' = TRUE
    /\ panel' = "signIn" /\ local' = {}
    /\ isAuthenticated' = kept
    /\ isLoading' = FALSE /\ error' = "none" /\ call' = NoCall
    /\ UNCHANGED kept

(* api.ts: the session cannot be refreshed; the tokens go and the page is loaded. *)
Expire ==
    /\ route = "overview" /\ isAuthenticated
    /\ kept' = FALSE
    /\ route' = "login" /\ going' = "none" /\ due' = TRUE
    /\ panel' = "signIn" /\ local' = {}
    /\ isAuthenticated' = FALSE
    /\ isLoading' = FALSE /\ error' = "none" /\ call' = NoCall

OtherTab ==
    /\ kept' = ~kept
    /\ UNCHANGED <<route, going, due, view, store>>

-------------------------------------------------------------------------------
(* The forms *)

Trimmed(t) == IF t = "blank" THEN "empty" ELSE t

(* The store begins the request of login and of register alike. *)
Begin(kind, form) ==
    /\ isLoading' = TRUE /\ error' = "none"
    /\ call' = [kind |-> kind, form |-> form]

(* The panels take the blanks off, clear both errors first, and check. *)
SignInSubmit(f) ==
    /\ route = "login" /\ panel = "signIn" /\ ~isLoading
    /\ IF Trimmed(f.email) = "empty" \/ f.password = "empty"
       THEN /\ local' = local \cup {"signIn"}
            /\ error' = "none" /\ UNCHANGED <<isLoading, call>>
       ELSE /\ local' = local \ {"signIn"}
            /\ Begin("login", f)
    /\ UNCHANGED <<route, going, due, panel, isAuthenticated, kept>>

Complete(f) ==
    /\ "empty" \notin {f.name, f.email, f.password}
    /\ f.confirmed
    /\ f.password = "long"

SignUpSubmit(f) ==
    LET sent == [f EXCEPT !.name = Trimmed(@), !.email = Trimmed(@)]
    IN  /\ route = "login" /\ panel = "signUp" /\ ~isLoading
        /\ IF Complete(sent)
           THEN local' = local \ {"signUp"} /\ Begin("register", sent)
           ELSE /\ local' = local \cup {"signUp"}
                /\ error' = "none" /\ UNCHANGED <<isLoading, call>>
        /\ UNCHANGED <<route, going, due, panel, isAuthenticated, kept>>

(* The page of its own takes names as they are, and leaves the store's error. *)
RegisterSubmit(f) ==
    /\ route = "register" /\ ~isLoading
    /\ IF Complete(f)
       THEN local' = {} /\ Begin("register", f)
       ELSE local' = {"register"} /\ UNCHANGED <<isLoading, error, call>>
    /\ UNCHANGED <<route, going, due, panel, isAuthenticated, kept>>

(* Typing on that page clears both errors; on the login page it clears none. *)
HandleChange ==
    /\ route = "register"
    /\ local' = {} /\ error' = "none"
    /\ UNCHANGED <<route, going, due, panel, isAuthenticated, isLoading, call, kept>>

(* The buttons beside the panels clear the store's error, the links below them not. *)
Switch(clears) ==
    /\ route = "login"
    /\ panel' = IF panel = "signIn" THEN "signUp" ELSE "signIn"
    /\ error' = IF clears THEN "none" ELSE error
    /\ UNCHANGED <<route, going, due, local, isAuthenticated, isLoading, call, kept>>

(* The link from one page to the other. *)
SignInLink ==
    /\ route = "register"
    /\ going' = "login"
    /\ UNCHANGED <<route, due, view, store, kept>>

(* The answer is stored, and the page that asked goes on, wherever the user is. *)
Accepted ==
    /\ call # NoCall
    /\ kept' = TRUE /\ isAuthenticated' = TRUE
    /\ due' = (due \/ ~isAuthenticated)
    /\ isLoading' = FALSE /\ error' = "none" /\ call' = NoCall
    /\ going' = "overview"
    /\ UNCHANGED <<route, view>>

Refused ==
    /\ call # NoCall
    /\ isLoading' = FALSE /\ error' = call.kind /\ call' = NoCall
    /\ UNCHANGED <<route, going, due, view, isAuthenticated, kept>>

(* The header's button goes to the login page, the sidebar's leaves that to the gate. *)
SignOut(goes) ==
    /\ route = "overview" /\ isAuthenticated
    /\ kept' = FALSE /\ isAuthenticated' = FALSE /\ error' = "none"
    /\ due' = TRUE
    /\ going' = IF goes THEN "login" ELSE going
    /\ UNCHANGED <<route, view, isLoading, call>>

Next ==
    \/ Arrive \/ Gate \/ Expire \/ OtherTab
    \/ HandleChange \/ SignInLink \/ Accepted \/ Refused
    \/ \E r \in Route : Visit(r)
    \/ \E f \in Form : SignInSubmit(f) \/ SignUpSubmit(f) \/ RegisterSubmit(f)
    \/ \E b \in BOOLEAN : Switch(b) \/ SignOut(b)

Spec == Init /\ [][Next]_vars

-------------------------------------------------------------------------------
(* Properties *)

(* Reloads, other tabs, answers that come after the user went elsewhere:   *)
(* when router and effects have come to rest, who is signed in is at the   *)
(* dashboard, and nobody else is ((dashboard)/layout.tsx, login/page.tsx). *)
GateIsClosed == going = "none" /\ ~due => (route = "overview" <=> isAuthenticated)

(* The pages share one flag: their buttons are off exactly while a request *)
(* is under way, and then no error of an earlier one is left to be shown   *)
(* (auth-store.ts login, register).                                        *)
LoadingIsWaiting ==
    /\ isLoading <=> call # NoCall
    /\ isLoading => error = "none"

(* register.dto.ts, login.dto.ts: what the backend asks of the inputs. *)
Acceptable(kind, f) ==
    /\ f.email # "empty" /\ f.password # "empty"
    /\ kind = "register" => f.name # "empty" /\ f.password = "long"

(* Three forms with checks of their own, one of which trims: whatever they *)
(* send the backend's validation takes, but for the form of the address.   *)
SentFormsAreValid == call # NoCall => Acceptable(call.kind, call.form)

===============================================================================
