------------------------------- MODULE Collector -------------------------------
(***************************************************************************)
(* The Windows log collector (tools/windows-log-collector): a process that *)
(* polls the event channels of a machine, posts the new events in one      *)
(* batch to POST /api/logs/bulk, and remembers how far it has read each    *)
(* channel in memory and in a state file.                                  *)
(*                                                                         *)
(* The process may be stopped at any point (Ctrl+C, a crash, a reboot),    *)
(* the backend may refuse, fail, or store a batch and not answer in time,  *)
(* and the state file is overwritten in place.                             *)
(***************************************************************************)
EXTENDS Naturals, FiniteSets

CONSTANTS
    Channel,     \* the event channels of the machine
    Readable,    \* those the collector's account may read
    Limit,       \* BATCH_SIZE: events asked for per channel and cycle
    MaxRecord,   \* bound: events a channel logs
    MaxLives,    \* bound: starts of the process (the last one runs on)
    MaxSignatures  \* signatures the state file keeps

ASSUME CollectorAssumption ==
    /\ Readable \subseteq Channel
    /\ Limit \in Nat \ {0}
    /\ MaxRecord \in Nat
    /\ MaxLives \in Nat
    /\ MaxSignatures \in Nat

(* An event of a channel, with its record id: they count up from 1. *)
Event == [channel : Channel, record : 1..MaxRecord]

VARIABLES
    logged,      \* logged[c]: events channel c has logged so far
    phase,       \* where run_cycle is
    batch,       \* new_events of this cycle
    mark,        \* channel_watermarks, in memory
    seen,        \* seen_signatures, in memory
    file,        \* the state file
    token,       \* whether the client holds an access token it takes for valid
    stored,      \* stored[e]: times the backend has stored event e
    missed,      \* history: why an event may be missing from the backend
    lives        \* starts of the process so far

memory == <<phase, batch, mark, seen, token>>
vars   == <<logged, memory, file, stored, missed, lives>>

(* The state file: never written, cut short by its rewriting, or readable. *)
Absent == [state |-> "absent"]
Torn   == [state |-> "torn"]
Whole(m, s) == [state |-> "whole", mark |-> m, seen |-> s]

NoMarks == [c \in Channel |-> 0]

TypeOK ==
    /\ logged \in [Channel -> 0..MaxRecord]
    /\ phase \in {"stopped", "idle", "post", "mark", "write"}
    /\ batch \in SUBSET Event
    /\ mark \in [Channel -> 0..MaxRecord]
    /\ seen \in SUBSET Event
    /\ file \in {Absent, Torn}
                \cup [state : {"whole"}, mark : [Channel -> 0..MaxRecord], seen : SUBSET Event]
    /\ token \in BOOLEAN
    /\ stored \in [Event -> Nat]
    /\ missed \in [Event -> SUBSET {"skipped", "post"}]
    /\ lives \in Nat

Init ==
    /\ logged = NoMarks
    /\ phase = "stopped"
    /\ batch = {}
    /\ mark = NoMarks
    /\ seen = {}
    /\ file = Absent
    /\ token = FALSE
    /\ stored = [e \in Event |-> 0]
    /\ missed = [e \in Event |-> {}]
    /\ lives = 0

Blame(S, why) ==
    missed' = [e \in Event |-> IF e \in S THEN missed[e] \cup {why} ELSE missed[e]]

-------------------------------------------------------------------------------
(* The machine logs an event. *)
Log(c) ==
    /\ logged[c] < MaxRecord
    /\ logged' = [logged EXCEPT ![c] = @ + 1]
    /\ UNCHANGED <<memory, file, stored, missed, lives>>

(* Mutant of Start: load() is not called. *)
StartAfresh ==
    /\ phase = "stopped"
    /\ mark' = NoMarks
    /\ seen' = {}
    /\ phase' = "idle"
    /\ batch' = {} /\ token' = FALSE
    /\ lives' = lives + 1
    /\ UNCHANGED <<logged, file, stored, missed>>

(* StateManager.load: a file that cannot be parsed is only warned about.   *)
Start ==
    /\ phase = "stopped"
    /\ mark' = IF file.state = "whole" THEN file.mark ELSE NoMarks
    /\ seen' = IF file.state = "whole" THEN file.seen ELSE {}
    /\ phase' = "idle"
    /\ batch' = {} /\ token' = FALSE
    /\ lives' = lives + 1
    /\ UNCHANGED <<logged, file, stored, missed>>

(* wevtutil, newest first and at most Limit: the events of channel c it    *)
(* lists now.                                                              *)
Listed(c) == {e \in Event : e.channel = c /\ e.record <= logged[c]
                            /\ e.record + Limit > logged[c]}

(* is_duplicate: at or below the channel's mark, or seen before. *)
IsDuplicate(e) == e.record <= mark[e.channel] \/ e \in seen

(* The events of the channels in A that run_cycle takes for new. *)
NewIn(A) == {e \in UNION {Listed(c) : c \in A} : ~IsDuplicate(e)}

(* What a channel has logged before new ones and wevtutil lists no more.   *)
PassedOver(new) ==
    {e \in Event : /\ \E n \in new : n.channel = e.channel
                   /\ e.record <= logged[e.channel]
                   /\ e \notin new /\ ~IsDuplicate(e)}

(* Mutant of Collect: the events are marked when they are read. *)
CollectMarking(A) ==
    LET new == NewIn(A) IN
    /\ phase = "idle"
    /\ batch' = new
    /\ phase' = IF new = {} THEN "idle" ELSE "post"
   
    /\ mark' = [c \in Channel |-> IF \E n \in new : n.channel = c THEN logged[c] ELSE mark[c]]
    /\ Blame(PassedOver(new), "skipped")
    /\ UNCHANGED <<logged, seen, token, file, stored, lives>>

(* The first half of run_cycle.  The channels of A answer; a query of one  *)
(* of the others fails and counts as empty.                                *)
Collect(A) ==
    LET new == NewIn(A) IN
    /\ phase = "idle"
    /\ batch' = new
    /\ phase' = IF new = {} THEN "idle" ELSE "post"
   
    /\ Blame(PassedOver(new), "skipped")
    /\ UNCHANGED <<logged, mark, seen, token, file, stored, lives>>

(* The client's own clock says the token is due for renewal. *)
Expire ==
    /\ token
    /\ token' = FALSE
    /\ UNCHANGED <<logged, phase, batch, mark, seen, file, stored, missed, lives>>

(* Mutant of Authenticate: a failed login leaves the batch for later. *)
AuthenticateLater ==
    /\ phase = "post"
    /\ ~token
    /\ \/ token' = TRUE /\ UNCHANGED <<phase, missed>>
       \/ phase' = "idle" /\ Blame(batch, "post") /\ UNCHANGED token
    /\ UNCHANGED <<logged, batch, mark, seen, file, stored, lives>>

(* ingest_logs_bulk without a token: log in, or give the batch up. *)
Authenticate ==
    /\ phase = "post"
    /\ ~token
    /\ \/ token' = TRUE /\ UNCHANGED <<phase, missed>>
       \/ phase' = "mark" /\ Blame(batch, "post") /\ UNCHANGED token
    /\ UNCHANGED <<logged, batch, mark, seen, file, stored, lives>>

Deliver(S) == stored' = [e \in Event |-> IF e \in S THEN stored[e] + 1 ELSE stored[e]]

(* Mutant of Post: a batch without an answer is left for the next cycle. *)
PostLeavingUnanswered(S) ==
    /\ phase = "post" /\ token
    /\ S \subseteq batch
    /\ Deliver(S)
    /\ Blame(batch \ S, "post")
    /\ phase' \in {"mark", "idle"}
    /\ UNCHANGED <<logged, batch, mark, seen, token, file, lives>>

(* The post: the backend stores the events of S.  It may be all of the     *)
(* batch with or without an answer in time, a part of it (an unordered     *)
(* bulk insert that throws), or none; run_cycle goes on in the same way.   *)
Post(S) ==
    /\ phase = "post" /\ token
    /\ S \subseteq batch
    /\ Deliver(S)
    /\ Blame(batch \ S, "post")
    /\ phase' = "mark"
    /\ UNCHANGED <<logged, batch, mark, seen, token, file, lives>>

(* The post is answered with 401: a new login leads to the same post       *)
(* again, however often; a failed login returns 0.                         *)
PostUnauthorized ==
    /\ phase = "post" /\ token
    /\ \/ UNCHANGED <<phase, missed>>
       \/ phase' = "mark" /\ Blame(batch, "post")
    /\ UNCHANGED <<logged, batch, mark, seen, token, file, stored, lives>>

(* Mutant of MarkOf: the last event of the batch, which is its oldest. *)
MarkOfLast(c) ==
    LET records == {e.record : e \in {x \in batch : x.channel = c}}
    IN  IF records = {} THEN mark[c] ELSE CHOOSE r \in records : \A q \in records : r <= q

(* mark_processed for every new event. *)
MarkOf(c) ==
    LET records == {e.record : e \in {x \in batch : x.channel = c}} \cup {mark[c]}
    IN  CHOOSE r \in records : \A q \in records : q <= r

(* The second half of run_cycle: the whole batch is marked, whatever the   *)
(* post returned, and save() opens the file, which empties it; a file that *)
(* cannot be opened is only warned about.                                  *)
MarkAndOpen ==
    /\ phase = "mark"
    /\ mark' = [c \in Channel |-> MarkOf(c)]
    /\ seen' = seen \cup batch
    /\ \/ file' = Torn /\ phase' = "write"
       \/ UNCHANGED file /\ phase' = "idle"
    /\ UNCHANGED <<logged, batch, token, stored, missed, lives>>

(* Mutant of WriteState: only the marks are saved. *)
WriteMarks ==
    /\ phase = "write"
    /\ file' = [state |-> "whole", mark |-> mark] \/ UNCHANGED file
    /\ phase' = "idle"
    /\ UNCHANGED <<logged, batch, mark, seen, token, stored, missed, lives>>

(* The file keeps some MaxSignatures of the signatures (a set has no order). *)
Kept == IF Cardinality(seen) <= MaxSignatures THEN {seen}
        ELSE {S \in SUBSET seen : Cardinality(S) = MaxSignatures}

(* save() writes the new contents; a write that fails leaves a part of it. *)
WriteState ==
    /\ phase = "write"
    /\ \/ \E S \in Kept : file' = Whole(mark, S)
       \/ UNCHANGED file
    /\ phase' = "idle"
    /\ UNCHANGED <<logged, batch, mark, seen, token, stored, missed, lives>>

(* Ctrl+C, a crash or a reboot: what memory held is gone. *)
Stop ==
    /\ phase # "stopped"
    /\ lives < MaxLives
    /\ phase' = "stopped"
    /\ batch' = {} /\ mark' = NoMarks /\ seen' = {} /\ token' = FALSE
    /\ UNCHANGED <<logged, file, stored, missed, lives>>

Next ==
    \/ \E c \in Channel : Log(c)
    \/ Start
    \/ \E A \in SUBSET Readable : Collect(A)
    \/ Expire
    \/ Authenticate
    \/ \E S \in SUBSET batch : Post(S)
    \/ PostUnauthorized
    \/ MarkAndOpen
    \/ WriteState
    \/ Stop

Spec == Init /\ [][Next]_vars

(* The process is started again, its awaits end, and a cycle follows every *)
(* interval.  The channels the account may read do not always fail, and    *)
(* the backend does not answer every fresh token with 401 for ever.        *)
Fairness ==
    /\ WF_vars(Start) /\ WF_vars(Authenticate)
    /\ WF_vars(MarkAndOpen) /\ WF_vars(WriteState)
    /\ SF_vars(Collect(Readable))
    /\ SF_vars(\E S \in SUBSET batch : Post(S))

FairSpec == Spec /\ Fairness

-------------------------------------------------------------------------------
(* Properties. *)

Below(e, m) == e.record <= m[e.channel]

Saved(e) == file.state = "whole" /\ Below(e, file.mark)

(* However often a batch is refused, times out or is stored in part, one   *)
(* run of the collector has no event stored twice: only a restart can.     *)
OncePerLife == \A e \in Event : stored[e] <= lives

(* What the state file covers is never sent again, in this life or a later *)
(* one, also while the file lags behind memory because a save failed.      *)
SavedNeverResent == [][\A e \in Event : Saved(e) => stored'[e] = stored[e]]_vars

(* The mark jumps over what wevtutil no longer lists and over a batch the  *)
(* backend refused: an event at or below a mark, in memory or on disk, is  *)
(* in the backend unless one of the two happened to it.                    *)
MissingHasCause ==
    \A e \in Event : (Below(e, mark) \/ Saved(e)) /\ stored[e] = 0 => missed[e] # {}

(* The signatures decide nothing the marks do not decide already: pruning  *)
(* them to the newest in the file cannot make an event come twice.         *)
MarkSubsumesSignatures ==
    /\ \A e \in seen : Below(e, mark)
    /\ file.state = "whole" => \A e \in file.seen : Below(e, file.mark)

(* The inductive strengthening of the properties above. *)

(* Memory is ahead of the state file while the process runs. *)
FileNotAhead ==
    phase # "stopped" /\ file.state = "whole" => \A c \in Channel : file.mark[c] <= mark[c]

(* What is about to be posted is above the marks, and was not posted in     *)
(* this life; what was, is below them or about to be.                       *)
BatchIsNew ==
    /\ phase = "post" => \A e \in batch : ~Below(e, mark)
    /\ phase # "stopped" => \A e \in Event :
          stored[e] = lives => Below(e, mark) \/ (phase = "mark" /\ e \in batch)

(* The mark is about to pass no event without an account of it. *)
BatchIsAccounted ==
    /\ phase \in {"post", "mark"} => \A n \in batch, e \in Event :
          e.channel = n.channel /\ e.record <= n.record =>
              e \in batch \/ Below(e, mark) \/ missed[e] # {}
    /\ phase = "mark" => \A e \in batch : stored[e] > 0 \/ missed[e] # {}

CollectorInv ==
    /\ TypeOK /\ FileNotAhead /\ BatchIsNew /\ BatchIsAccounted
    /\ OncePerLife /\ MissingHasCause /\ MarkSubsumesSignatures

(* Every event of a readable channel is dealt with: the mark passes it. *)
EventsAreMarked ==
    \A e \in Event : e.channel \in Readable =>
        (e.record <= logged[e.channel] ~> Below(e, mark))

(* README.md:277: "Persists event high-watermark records in                *)
(* .collector_state.json to prevent duplicate ingestion across reboots".   *)
NoDuplicateIngestion == \A e \in Event : stored[e] <= 1
===============================================================================
