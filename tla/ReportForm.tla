------------------------------- MODULE ReportForm -------------------------------
(***************************************************************************)
(* The form of the reports' generator, report-generator-modal.tsx: what to *)
(* report on, a preview of the numbers on request, and the generation.     *)
(* The payloads of the two requests are put together apart, the form may   *)
(* be edited while either is under way, and the dialog keeps all of it     *)
(* while it is closed.  Dates and lengths are counted in days.             *)
(***************************************************************************)
EXTENDS Integers

CONSTANTS
    Type, Length,  \* Length[t]: the days a report of type t covers by default
    Date,          \* bound: the dates that are picked
    Clock          \* bound: the times at which a request may be served

VARIABLES
    open,     \* the dialog is shown
    form,     \* what it is filled in with
    preview,  \* the preview under way: its payload, and whether the form is still as it was
    shown,    \* the payload whose numbers the strip shows
    making,   \* the generation under way: its payload
    current   \* history: the range was not edited since the strip's numbers were asked for

vars == <<open, form, preview, shown, making, current>>

Format == {"PDF", "CSV"}
NoDate == 0
None == [type |-> "none"]
Idle == [payload |-> None, same |-> FALSE]

(* A title is the one suggested for a type, one of the user's own, one of  *)
(* the user's that starts as the suggested ones do, blanks, or nothing.    *)
Suggested(t) == [of |-> t]
Typed == {[of |-> "own"], [of |-> "alike"], [of |-> "blank"], [of |-> "empty"]}
Title == {Suggested(t) : t \in Type} \cup Typed

Payload == [type : Type, start : Date \cup {NoDate}, end : Date \cup {NoDate}]

FormTypeOK ==
    /\ open \in BOOLEAN /\ current \in BOOLEAN
    /\ form \in [type : Type, format : Format, title : Title, custom : BOOLEAN,
                 start : Date \cup {NoDate}, end : Date \cup {NoDate}]
    /\ preview \in [payload : Payload \cup {None}, same : BOOLEAN]
    /\ shown \in Payload \cup {None} /\ making \in Payload \cup {None}

Init ==
    /\ open = FALSE /\ current = FALSE
    /\ \E t \in Type :      \* WEEKLY, with its title after the first effect
          form = [type |-> t, format |-> "PDF", title |-> Suggested(t), custom |-> FALSE,
                  start |-> NoDate, end |-> NoDate]
    /\ preview = Idle /\ shown = None /\ making = None

-------------------------------------------------------------------------------
(* The fields *)

(* An edit of the range leaves what is shown and asked for behind. *)
Edit(new) ==
    /\ open
    /\ form' = new /\ new # form
    /\ LET range(f) == <<f.type, f.custom, f.start, f.end>> IN
       IF range(new) = range(form) THEN UNCHANGED <<preview, current>>
       ELSE preview' = [preview EXCEPT !.same = FALSE] /\ current' = FALSE
    /\ UNCHANGED <<open, shown, making>>

(* The effect on the type suggests a title unless the user has one. *)
TitleFor(t) ==
    IF form.title.of \in {"own", "blank"} THEN form.title ELSE Suggested(t)

SetType(t) == t # form.type /\ Edit([form EXCEPT !.type = t, !.title = TitleFor(t)])

SetFormat(f) == Edit([form EXCEPT !.format = f])
SetTitle(title) == Edit([form EXCEPT !.title = title])
SetUseCustomRange == Edit([form EXCEPT !.custom = ~@])

(* The dates can be reached while the box is ticked; they stay under it. *)
SetDateRangeStart(d) == form.custom /\ Edit([form EXCEPT !.start = d])
SetDateRangeEnd(d) == form.custom /\ Edit([form EXCEPT !.end = d])

SetIsOpen == ~open /\ open' = TRUE /\ UNCHANGED <<form, preview, shown, making, current>>
OnClose == open /\ open' = FALSE /\ UNCHANGED <<form, preview, shown, making, current>>

-------------------------------------------------------------------------------
(* The two requests *)

Ranged(f, ticked) ==
    [type |-> f.type, start |-> IF ticked THEN f.start ELSE NoDate,
     end |-> IF ticked THEN f.end ELSE NoDate]

PreviewPayload(f) == Ranged(f, f.custom)

(* Mutant: the dates left under the cleared box are sent. *)
GeneratePayloadWithDates(f) == Ranged(f, TRUE)

GeneratePayload(f) == Ranged(f, f.custom)

HandleComputePreview ==
    /\ open /\ preview = Idle
    /\ preview' = [payload |-> PreviewPayload(form), same |-> TRUE]
    /\ UNCHANGED <<open, form, shown, making, current>>

PreviewLands ==
    /\ preview # Idle
    /\ shown' = preview.payload /\ current' = preview.same
    /\ preview' = Idle
    /\ UNCHANGED <<open, form, making>>

(* The numbers of the last preview stay, above the message. *)
PreviewFails ==
    /\ preview # Idle
    /\ preview' = Idle
    /\ UNCHANGED <<open, form, shown, making, current>>

(* The title is required, though blanks will do. *)
HandleGenerate ==
    /\ open /\ making = None
    /\ form.title.of # "empty"
    /\ making' = GeneratePayload(form)
    /\ UNCHANGED <<open, form, preview, shown, current>>

GenerationLands ==
    /\ making # None
    /\ making' = None /\ open' = FALSE
    /\ UNCHANGED <<form, preview, shown, current>>

GenerationFails ==
    /\ making # None
    /\ making' = None
    /\ UNCHANGED <<open, form, preview, shown, current>>

Next ==
    \/ \E t \in Type : SetType(t)
    \/ \E f \in Format : SetFormat(f)
    \/ \E title \in Typed : SetTitle(title)
    \/ \E d \in Date \cup {NoDate} : SetDateRangeStart(d) \/ SetDateRangeEnd(d)
    \/ SetUseCustomRange \/ SetIsOpen \/ OnClose
    \/ HandleComputePreview \/ PreviewLands \/ PreviewFails
    \/ HandleGenerate \/ GenerationLands \/ GenerationFails

Spec == Init /\ [][Next]_vars

-------------------------------------------------------------------------------
(* Properties *)

(* resolveDateRange, for a request served at the time `now`. *)
DateRange(p, now) ==
    LET to == IF p.end # NoDate THEN p.end ELSE now
    IN [from |-> IF p.start # NoDate THEN p.start ELSE to - Length[p.type], to |-> to]

(* The strip stays while the form is edited and the dialog closed: unless  *)
(* the range was edited since its numbers were asked for, they are those   *)
(* of the range that the next report would cover if both were served at    *)
(* one time.                                                               *)
PreviewIsOfForm ==
    current => \A now \in Clock :
        DateRange(shown, now) = DateRange(GeneratePayload(form), now)

(* A suggested title names the type that is reported on. *)
TitleNamesType == form.title.of \in Type => form.title.of = form.type

===============================================================================
