------------------------------ MODULE TokenRefresh ------------------------------
(***************************************************************************)
(* The session of a browser tab: lib/api.ts, which refreshes the tokens    *)
(* when a request is refused and sends the request once more, and          *)
(* stores/auth-store.ts.  Tokens and user lie in localStorage, where every *)
(* request under way reads and writes them.  The backend is its answers: a *)
(* request is refused when its access token has expired, a refresh may     *)
(* fail at any time (the account is disabled, the network is down).        *)
(***************************************************************************)
EXTENDS Naturals

CONSTANTS
    User,
    MaxPairs,    \* bound: pairs of tokens issued
    Request      \* bound: requests under way at a time

NoUser == "nobody"
Pair == 1..MaxPairs

VARIABLES
    owner,       \* owner[p]: the account pair p was issued to; 1..Len in use
    issued,      \* pairs issued so far
    fresh,       \* the pairs whose access token has not expired
    pair,        \* localStorage: the pair stored, or 0
    user,        \* localStorage: the user stored
    signedIn,    \* isAuthenticated of the store; else the tab is at /login
    leaving,     \* window.location is on its way to /login
    req,         \* req[q]: a request of the tab
    out,         \* history: signed out, and nobody has signed in since
    carried      \* history: requests were under way when the session changed

vars == <<owner, issued, fresh, pair, user, signedIn, leaving, req, out, carried>>

Idle == [phase |-> "idle"]
Requests == {Idle} \cup
    [phase : {"sent", "refresh", "retry"}, pair : Pair, save : BOOLEAN, user : User]

RefreshTypeOK ==
    /\ issued \in 0..MaxPairs
    /\ owner \in [Pair -> User \cup {NoUser}]
    /\ fresh \subseteq 1..issued
    /\ pair \in 0..issued
    /\ user \in User \cup {NoUser}
    /\ signedIn \in BOOLEAN /\ leaving \in BOOLEAN
    /\ req \in [Request -> Requests]
    /\ out \in BOOLEAN /\ carried \in BOOLEAN

Init ==
    /\ owner = [p \in Pair |-> NoUser]
    /\ issued = 0 /\ fresh = {} /\ pair = 0 /\ user = NoUser
    /\ signedIn = FALSE /\ leaving = FALSE
    /\ req = [q \in Request |-> Idle]
    /\ out = FALSE /\ carried = FALSE

Pending == \E q \in Request : req[q] # Idle
End(q) == req' = [req EXCEPT ![q] = Idle]

(* The new pair is numbered before it is issued. *)
IssueUncounted(u) ==
    /\ issued < MaxPairs
    /\ owner' = [owner EXCEPT ![issued + 1] = u]
    /\ fresh' = fresh \cup {issued + 1}
    /\ pair' = issued + 1
    /\ UNCHANGED issued

(* The backend signs a pair for u, and the client stores it. *)
Issue(u) ==
    /\ issued < MaxPairs
    /\ issued' = issued + 1
    /\ owner' = [owner EXCEPT ![issued + 1] = u]
    /\ fresh' = fresh \cup {issued + 1}
    /\ pair' = issued + 1

tokens == <<owner, issued, fresh>>
history == <<out, carried>>

-------------------------------------------------------------------------------
(* auth-store.ts and the pages around it *)

(* login and register store the pair and the user. *)
LogIn(u) ==
    /\ ~signedIn
    /\ Issue(u)
    /\ user' = u /\ signedIn' = TRUE
    /\ out' = FALSE /\ carried' = Pending
    /\ UNCHANGED <<leaving, req>>

(* Sign Out leaves the user in the storage. *)
LogoutKeepsUser ==
    /\ signedIn
    /\ pair' = 0 /\ signedIn' = FALSE
    /\ out' = TRUE /\ carried' = Pending
    /\ UNCHANGED <<tokens, user, leaving, req>>

(* Sign Out: the storage is emptied and the router shows /login; requests  *)
(* under way are not told.                                                 *)
Logout ==
    /\ signedIn
    /\ pair' = 0 /\ user' = NoUser /\ signedIn' = FALSE
    /\ out' = TRUE /\ carried' = Pending
    /\ UNCHANGED <<tokens, leaving, req>>

(* A page is loaded, by the user or by window.location: what ran before is *)
(* gone, and loadFromStorage restores a session of which both parts lie there. *)
Load ==
    /\ req' = [q \in Request |-> Idle]
    /\ leaving' = FALSE
    /\ signedIn' = (pair # 0 /\ user # NoUser)
    /\ UNCHANGED <<tokens, pair, user, history>>

-------------------------------------------------------------------------------
(* api.ts *)

(* A request takes the token it finds; save is one whose answer sets the user. *)
Send(q, save) ==
    /\ signedIn /\ req[q] = Idle
    /\ pair # 0
    /\ req' = [req EXCEPT ![q] = [phase |-> "sent", pair |-> pair, save |-> save, user |-> user]]
    /\ UNCHANGED <<tokens, pair, user, signedIn, leaving, history>>

(* An answer other than 401.  Saving the profile then stores the user the  *)
(* page showed.                                                            *)
Answered(q) ==
    /\ req[q].phase \in {"sent", "retry"} /\ req[q].pair \in fresh
    /\ user' = IF req[q].save THEN req[q].user ELSE user
    /\ End(q)
    /\ UNCHANGED <<tokens, pair, signedIn, leaving, history>>

(* 401: the refresh token that is stored by now is sent; without one the   *)
(* tab goes to /login.                                                     *)
Unauthorized(q) ==
    /\ req[q].phase = "sent" /\ req[q].pair \notin fresh
    /\ IF pair = 0
       THEN End(q) /\ leaving' = TRUE
       ELSE /\ req' = [req EXCEPT ![q].phase = "refresh", ![q].pair = pair]
            /\ UNCHANGED leaving
    /\ UNCHANGED <<tokens, pair, user, signedIn, history>>

(* The new pair is stored and the request sent again with it. *)
Refreshed(q) ==
    /\ req[q].phase = "refresh"
    /\ Issue(owner[req[q].pair])
    /\ req' = [req EXCEPT ![q].phase = "retry", ![q].pair = pair']
    /\ UNCHANGED <<user, signedIn, leaving, history>>

(* A failed refresh does not leave the page. *)
RefreshFailedStays(q) ==
    /\ req[q].phase = "refresh"
    /\ pair' = 0
    /\ End(q)
    /\ UNCHANGED <<tokens, user, signedIn, leaving, history>>

(* Whatever is stored by now is cleared, and the tab goes to /login. *)
RefreshFailed(q) ==
    /\ req[q].phase = "refresh"
    /\ pair' = 0 /\ leaving' = TRUE
    /\ End(q)
    /\ UNCHANGED <<tokens, user, signedIn, history>>

(* A second 401 is an error like any other. *)
RetryRefused(q) ==
    /\ req[q].phase = "retry" /\ req[q].pair \notin fresh
    /\ End(q)
    /\ UNCHANGED <<tokens, pair, user, signedIn, leaving, history>>

Expire(p) ==
    /\ p \in fresh
    /\ fresh' = fresh \ {p}
    /\ UNCHANGED <<owner, issued, pair, user, signedIn, leaving, req, history>>

Next ==
    \/ \E u \in User : LogIn(u)
    \/ Logout
    \/ Load
    \/ \E q \in Request, save \in BOOLEAN : Send(q, save)
    \/ \E q \in Request : \/ Answered(q) \/ Unauthorized(q) \/ Refreshed(q)
                          \/ RefreshFailed(q) \/ RetryRefused(q)
    \/ \E p \in Pair : Expire(p)

Spec == Init /\ [][Next]_vars

-------------------------------------------------------------------------------
(* Properties *)

(* Several refreshes at once, of which some fail: a tab that shows itself  *)
(* signed in has tokens, or is on its way to /login (api.ts request).      *)
SignedInHasTokens == signedIn /\ ~leaving => pair # 0

(* Unless a request outlived a sign-out or a sign-in, the tokens in the    *)
(* storage are those of the user in the storage, and a tab that was signed *)
(* out stays so through every reload (auth-store.ts logout).               *)
SessionIsItsUsers ==
    ~carried => /\ signedIn /\ pair # 0 => owner[pair] = user
                /\ out => ~signedIn /\ pair = 0 /\ user = NoUser

===============================================================================
