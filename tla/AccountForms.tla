---------------------------- MODULE AccountForms ----------------------------
(***************************************************************************)
(* A user's own name and password: settings/page.tsx, the forms of         *)
(* profile-settings.tsx and security-settings.tsx, of which one is open at *)
(* a time, and the handlers of settings.service.ts behind them.  A form    *)
(* that is left loses its state while its request goes on, and opened      *)
(* again it may send another.  First and last name fare alike and are one  *)
(* value; what is typed into the password form is seen when it is sent.    *)
(***************************************************************************)
EXTENDS Naturals, Sequences, SequencesExt

CONSTANTS
    Name,
    Stock,      \* Stock \subseteq Name: "System", "Administrator" and the like
    Password,
    Strong,     \* Strong \subseteq Password: three of the four rules of the form are met
    Long,       \* Long \subseteq Password: change-password.dto.ts lets it pass
    MaxCalls    \* bound: requests under way at a time

Kind == {"name", "password"}
Blank == "blank"

VARIABLES
    stored,     \* stored[k]: the column of the user's row
    known,      \* the name of the signed-in user in the browser; the password that
                \* the user was last told to be in force
    open,       \* the form that is open
    text,       \* the input of the name
    isLoading,
    message,    \* the banner of the open form
    calls,      \* the requests under way
    edited,     \* history: something was typed since the input was last set
    settled     \* history: the kinds of which the last save neither crossed another
                \* one nor lost its answer

vars == <<stored, known, open, text, isLoading, message, calls, edited, settled>>

form == <<open, text, isLoading, message, edited>>

Values(k) == IF k = "name" THEN Name ELSE Password
Input == Name \cup {Blank}

(* mine: the open form waits for it; heard: its answer will get through. *)
Call(k) ==
    [kind : {k}, old : Values(k), new : Input \cup Password,
     phase : {"sent", "compared", "stored", "refused"},
     mine : BOOLEAN, heard : BOOLEAN, alone : BOOLEAN]

AccountFormsTypeOK ==
    /\ \A k \in Kind : stored[k] \in Values(k) /\ known[k] \in Values(k)
    /\ open \in Kind \cup {"none"} /\ text \in Input
    /\ isLoading \in BOOLEAN /\ message \in {"none", "success", "error"}
    /\ calls \in Seq(Call("name") \cup Call("password")) /\ Len(calls) <= MaxCalls
    /\ edited \in BOOLEAN /\ settled \subseteq Kind

(* sanitizeName: a name that nobody chose is shown as none. *)
Sanitized(n) == IF n \in Stock THEN Blank ELSE n

Init ==
    /\ \E n \in Name, p \in Password : stored = [name |-> n, password |-> p]
    /\ known = stored
    /\ open = "name" /\ text = Sanitized(known["name"])
    /\ isLoading = FALSE /\ message = "none" /\ edited = FALSE
    /\ calls = <<>> /\ settled = Kind

Of(k) == {i \in DOMAIN calls : calls[i].kind = k}

-------------------------------------------------------------------------------
(* The page *)

(* Another tab of the page; the form that was open goes with its state. *)
SetActiveTab(o) ==
    /\ o # open
    /\ open' = o /\ text' = Sanitized(known["name"])
    /\ isLoading' = FALSE /\ message' = "none" /\ edited' = FALSE
    /\ calls' = [i \in DOMAIN calls |-> [calls[i] EXCEPT !.mine = FALSE]]
    /\ UNCHANGED <<stored, known, settled>>

SetName(n) ==
    /\ open = "name"
    /\ text' = n /\ edited' = TRUE
    /\ UNCHANGED <<stored, known, open, isLoading, message, calls, settled>>

(* Offered to a form with something typed in. *)
HandleDiscard ==
    /\ open # "none" /\ ~isLoading
    /\ open = "name" => text # Sanitized(known["name"])
    /\ text' = Sanitized(known["name"]) /\ message' = "none" /\ edited' = FALSE
    /\ UNCHANGED <<stored, known, open, isLoading, calls, settled>>

Send(k, old, new) ==
    /\ open = k /\ ~isLoading
    /\ Len(calls) < MaxCalls
    /\ isLoading' = TRUE /\ message' = "none"
    /\ calls' = Append([i \in DOMAIN calls |->
                           IF calls[i].kind = k THEN [calls[i] EXCEPT !.alone = FALSE]
                                                ELSE calls[i]],
                       [kind |-> k, old |-> old, new |-> new, phase |-> "sent",
                        mine |-> TRUE, heard |-> TRUE, alone |-> Of(k) = {}])
    /\ UNCHANGED <<stored, known, open, text, edited, settled>>

SaveName == Send("name", known["name"], text)

(* The button is off for a weak password. *)
SavePassword(old, new) == new \in Strong /\ Send("password", old, new)

Mismatch ==
    /\ open = "password" /\ ~isLoading
    /\ message' = "error"
    /\ UNCHANGED <<stored, known, open, text, isLoading, calls, edited, settled>>

-------------------------------------------------------------------------------
(* settings.service.ts *)

Becomes(i, phase) == calls' = [calls EXCEPT ![i].phase = phase]

(* update-profile.dto.ts wants a character. *)
UpdateProfile(i) ==
    /\ calls[i].kind = "name" /\ calls[i].phase = "sent"
    /\ IF calls[i].new = Blank
       THEN Becomes(i, "refused") /\ UNCHANGED stored
       ELSE Becomes(i, "stored") /\ stored' = [stored EXCEPT !["name"] = calls[i].new]
    /\ UNCHANGED <<known, form, settled>>

ComparePassword(i) ==
    /\ calls[i].kind = "password" /\ calls[i].phase = "sent"
    /\ Becomes(i, IF calls[i].new \in Long /\ calls[i].old = stored["password"]
                  THEN "compared" ELSE "refused")
    /\ UNCHANGED <<stored, known, form, settled>>

(* The hash takes its time, and the password is not compared again. *)
StorePassword(i) ==
    /\ calls[i].phase = "compared"
    /\ Becomes(i, "stored")
    /\ stored' = [stored EXCEPT !["password"] = calls[i].new]
    /\ UNCHANGED <<known, form, settled>>

-------------------------------------------------------------------------------
(* The answers *)

(* setUser, whatever form is open, and its effect on the input. *)
Succeed(i) ==
    LET c == calls[i]
    IN  /\ c.phase = "stored" /\ c.heard
        /\ known' = [known EXCEPT ![c.kind] = c.new]
        /\ IF c.kind = "name"
           THEN text' = Sanitized(c.new) /\ edited' = FALSE
           ELSE UNCHANGED <<text, edited>>
        /\ isLoading' = (isLoading /\ ~c.mine)
        /\ message' = IF c.mine THEN "success" ELSE message
        /\ settled' = IF c.alone THEN settled \cup {c.kind} ELSE settled \ {c.kind}
        /\ calls' = RemoveAt(calls, i)
        /\ UNCHANGED <<stored, open>>

Fails(i) ==
    /\ isLoading' = (isLoading /\ ~calls[i].mine)
    /\ message' = IF calls[i].mine THEN "error" ELSE message
    /\ UNCHANGED <<stored, known, open, text, edited>>

Refused(i) ==
    /\ calls[i].phase = "refused" /\ calls[i].heard
    /\ Fails(i)
    /\ calls' = RemoveAt(calls, i)
    /\ UNCHANGED settled

(* The connection breaks: the form is told, the service goes on. *)
Lose(i) ==
    /\ calls[i].heard
    /\ Fails(i)
    /\ calls' = [calls EXCEPT ![i].heard = FALSE, ![i].mine = FALSE]
    /\ settled' = settled \ {calls[i].kind}

(* It ends, or had never arrived. *)
Drop(i) ==
    /\ ~calls[i].heard
    /\ calls' = RemoveAt(calls, i)
    /\ UNCHANGED <<stored, known, form, settled>>

Next ==
    \/ \E o \in Kind \cup {"none"} : SetActiveTab(o)
    \/ \E n \in Input : SetName(n)
    \/ HandleDiscard \/ SaveName \/ Mismatch
    \/ \E old, new \in Password : SavePassword(old, new)
    \/ \E i \in DOMAIN calls :
          \/ UpdateProfile(i) \/ ComparePassword(i) \/ StorePassword(i)
          \/ Succeed(i) \/ Refused(i) \/ Lose(i) \/ Drop(i)

Spec == Init /\ [][Next]_vars

-------------------------------------------------------------------------------
(* Properties *)

(* Forms are left and opened again while their requests go on, which the   *)
(* service takes in any order: unless a save crossed another or its answer *)
(* was lost, the name the browser shows and the password the user was told *)
(* of are those in the database (profile-settings.tsx handleSave,          *)
(* settings.service.ts changePassword).                                    *)
SavedIsKnown == \A k \in settled : Of(k) = {} => stored[k] = known[k]

(* The form that is open has its button off exactly while it waits for one *)
(* request of its own; the answers to a form that was left do not touch it *)
(* (setIsLoading in the finally blocks).                                   *)
ButtonComesBack ==
    /\ isLoading <=> \E i \in DOMAIN calls : calls[i].mine
    /\ \A i, j \in DOMAIN calls : calls[i].mine /\ calls[j].mine => i = j

(* "You have unsaved changes" is never shown to a user who typed none,     *)
(* whichever request changes the user's name underneath the form           *)
(* (profile-settings.tsx isDirty and the effect on user).                  *)
DirtyIsEdited == open = "name" /\ ~edited => text = Sanitized(known["name"])

===============================================================================
