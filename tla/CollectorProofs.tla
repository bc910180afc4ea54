---------------------------- MODULE CollectorProofs ----------------------------
(***************************************************************************)
(* Proofs about Collector for every set of channels, batch size, number of *)
(* events and number of restarts.                                          *)
(***************************************************************************)
EXTENDS Collector, WellFoundedInduction, TLAPS

-------------------------------------------------------------------------------
(* A set of naturals with an upper bound has a greatest element. *)
LEMMA Greatest ==
  ASSUME NEW n \in Nat, NEW S \in SUBSET (0..n), S # {}
  PROVE  \E r \in S : \A q \in S : q <= r
<1> DEFINE T == {n - r : r \in S}
<1>1. T \subseteq Nat /\ T # {}
  <2>1. \A r \in S : r \in 0..n /\ n - r \in Nat
    OBVIOUS
  <2> QED BY <2>1
<1> HIDE DEF T
<1>2. IsWellFoundedOn(OpToRel(<, Nat), Nat)
  BY NatLessThanWellFounded
<1>3. PICK x \in T : \A y \in T : ~ (<<y, x>> \in OpToRel(<, Nat))
  BY <1>1, <1>2, WFMin
<1>4. \A y \in T : ~(y < x)
  BY <1>1, <1>3 DEF OpToRel
<1>5. PICK r \in S : x = n - r
  BY DEF T
<1>6. \A q \in S : n - q \in T
  BY DEF T
<1> QED BY <1>4, <1>5, <1>6

(* mark_processed never lowers a mark, and passes every event of the batch. *)
LEMMA MarkOfMax ==
  ASSUME TypeOK, NEW c \in Channel
  PROVE  /\ MarkOf(c) \in 0..MaxRecord
         /\ mark[c] <= MarkOf(c)
         /\ \A e \in batch : e.channel = c => e.record <= MarkOf(c)
         /\ MarkOf(c) = mark[c] \/ \E e \in batch : e.channel = c /\ e.record = MarkOf(c)
<1> DEFINE R == {e.record : e \in {x \in batch : x.channel = c}} \cup {mark[c]}
<1>1. R \subseteq 0..MaxRecord /\ R # {}
  <2>1. \A e \in batch : e.record \in 0..MaxRecord
    BY CollectorAssumption DEF TypeOK, Event
  <2>2. mark[c] \in 0..MaxRecord
    BY DEF TypeOK
  <2> QED BY <2>1, <2>2
<1>2. \A e \in batch : e.channel = c => e.record \in R
  OBVIOUS
<1>3. mark[c] \in R
  OBVIOUS
<1>4. \A r \in R : r = mark[c] \/ \E e \in batch : e.channel = c /\ e.record = r
  OBVIOUS
<1>5. MarkOf(c) = CHOOSE r \in R : \A q \in R : q <= r
  BY DEF MarkOf
<1> HIDE DEF R
<1>6. \E r \in R : \A q \in R : q <= r
  BY <1>1, Greatest, CollectorAssumption
<1>7. MarkOf(c) \in R /\ \A q \in R : q <= MarkOf(c)
  BY <1>5, <1>6
<1> QED BY <1>1, <1>2, <1>3, <1>4, <1>7

(* The history of causes keeps its type, and no cause is forgotten. *)
LEMMA BlameKeeps ==
  ASSUME TypeOK, NEW S, NEW why \in {"skipped", "post"}, Blame(S, why)
  PROVE  /\ missed' \in [Event -> SUBSET {"skipped", "post"}]
         /\ \A e \in Event : missed[e] # {} => missed'[e] # {}
         /\ \A e \in Event \cap S : missed'[e] # {}
  BY DEF TypeOK, Blame

(* The backend's copies of an event are only ever added to. *)
LEMMA DeliverCounts ==
  ASSUME TypeOK, NEW S, Deliver(S)
  PROVE  /\ stored' \in [Event -> Nat]
         /\ \A e \in Event : stored'[e] = stored[e] + (IF e \in S THEN 1 ELSE 0)
  BY DEF TypeOK, Deliver

-------------------------------------------------------------------------------
(* Every variable keeps its type. *)
LEMMA TypeNext == TypeOK /\ [Next]_vars => TypeOK'
<1> SUFFICES ASSUME TypeOK, [Next]_vars PROVE TypeOK'
  OBVIOUS
<1> USE CollectorAssumption DEF memory
<1>1. ASSUME NEW c \in Channel, Log(c) PROVE TypeOK'
  BY <1>1 DEF TypeOK, Log
<1>2. CASE Start
  <2>1. mark' \in [Channel -> 0..MaxRecord] /\ seen' \in SUBSET Event
    <3>1. CASE file.state = "whole"
      <4>1. file.mark \in [Channel -> 0..MaxRecord] /\ file.seen \in SUBSET Event
        BY <3>1 DEF TypeOK, Absent, Torn
      <4> QED BY <1>2, <3>1, <4>1 DEF Start
    <3>2. CASE file.state # "whole"
      BY <1>2, <3>2 DEF Start, NoMarks
    <3> QED BY <3>1, <3>2
  <2>2. /\ phase' = "idle" /\ batch' = {} /\ token' = FALSE
        /\ lives' = lives + 1 /\ UNCHANGED <<logged, file, stored, missed>>
    BY <1>2 DEF Start
  <2>3. lives' \in Nat
    BY <2>2 DEF TypeOK
  <2>4. token' \in BOOLEAN /\ batch' \in SUBSET Event
    BY <2>2
  <2>5. phase' \in {"stopped", "idle", "post", "mark", "write"}
    BY <2>2
  <2> QED BY <2>1, <2>2, <2>3, <2>4, <2>5 DEF TypeOK
<1>3. ASSUME NEW A \in SUBSET Readable, Collect(A) PROVE TypeOK'
  <2>1. missed' \in [Event -> SUBSET {"skipped", "post"}]
    BY <1>3, BlameKeeps DEF Collect
  <2>2. NewIn(A) \subseteq Event
    BY DEF NewIn, Listed
  <2>3. batch' \in SUBSET Event /\ phase' \in {"stopped", "idle", "post", "mark", "write"}
    BY <1>3, <2>2 DEF Collect
  <2>4. UNCHANGED <<logged, mark, seen, token, file, stored, lives>>
    BY <1>3 DEF Collect
  <2> QED BY <2>1, <2>3, <2>4 DEF TypeOK
<1>4. CASE Expire
  BY <1>4 DEF TypeOK, Expire
<1>5. CASE Authenticate
  <2>1. missed' \in [Event -> SUBSET {"skipped", "post"}]
    BY <1>5, BlameKeeps DEF Authenticate, TypeOK
  <2> QED BY <1>5, <2>1 DEF TypeOK, Authenticate
<1>6. ASSUME NEW S \in SUBSET batch, Post(S) PROVE TypeOK'
  <2>1. missed' \in [Event -> SUBSET {"skipped", "post"}]
    BY <1>6, BlameKeeps DEF Post
  <2>2. stored' \in [Event -> Nat]
    BY <1>6, DeliverCounts DEF Post
  <2> QED BY <1>6, <2>1, <2>2 DEF TypeOK, Post
<1>7. CASE PostUnauthorized
  <2>1. missed' \in [Event -> SUBSET {"skipped", "post"}]
    BY <1>7, BlameKeeps DEF PostUnauthorized, TypeOK
  <2> QED BY <1>7, <2>1 DEF TypeOK, PostUnauthorized
<1>8. CASE MarkAndOpen
  <2>1. mark' \in [Channel -> 0..MaxRecord]
    BY <1>8, MarkOfMax DEF MarkAndOpen
  <2>2. seen' \in SUBSET Event
    BY <1>8 DEF MarkAndOpen, TypeOK
  <2>3. file' = Torn \/ file' = file
    BY <1>8 DEF MarkAndOpen
  <2> QED BY <1>8, <2>1, <2>2, <2>3 DEF TypeOK, MarkAndOpen
<1>9. CASE WriteState
  <2>1. file' = file \/ \E S \in SUBSET seen : file' = Whole(mark, S)
    BY <1>9 DEF WriteState, Kept
  <2>2. \A S \in SUBSET seen :
          Whole(mark, S) \in [state : {"whole"}, mark : [Channel -> 0..MaxRecord], seen : SUBSET Event]
    BY DEF Whole, TypeOK
  <2> QED BY <1>9, <2>1, <2>2 DEF TypeOK, WriteState
<1>10. CASE Stop
  <2>1. mark' \in [Channel -> 0..MaxRecord]
    BY <1>10 DEF Stop, NoMarks
  <2> QED BY <1>10, <2>1 DEF TypeOK, Stop
<1>11. CASE UNCHANGED vars
  BY <1>11 DEF TypeOK, vars
<1> QED
  BY <1>1, <1>2, <1>3, <1>4, <1>5, <1>6, <1>7, <1>8, <1>9, <1>10, <1>11 DEF Next

(* Type correctness: marks stay within what was logged at most, and the     *)
(* state file is absent, torn or a whole record, whatever stops the process. *)
THEOREM TypeCorrect == Spec => []TypeOK
<1>1. ASSUME Init PROVE TypeOK
  <2>1. NoMarks \in [Channel -> 0..MaxRecord]
    BY CollectorAssumption DEF NoMarks
  <2> QED BY <1>1, <2>1 DEF Init, TypeOK
<1> QED BY <1>1, TypeNext, PTL DEF Spec

-------------------------------------------------------------------------------
(* A readable state file holds marks and signatures. *)
LEMMA WholeFile ==
  ASSUME TypeOK, file.state = "whole"
  PROVE  file.mark \in [Channel -> 0..MaxRecord] /\ file.seen \in SUBSET Event
  BY DEF TypeOK, Absent, Torn

(* Events have a channel and a record id. *)
LEMMA EventParts ==
  ASSUME NEW e \in Event
  PROVE  e.channel \in Channel /\ e.record \in Nat
  BY CollectorAssumption DEF Event

(* The new process knows what the file knows, and has stored nothing yet. *)
LEMMA StartInv == ASSUME CollectorInv, Start, TypeOK' PROVE CollectorInv'
<1> USE DEF CollectorInv
<1>1. FileNotAhead'
  BY WholeFile DEF Start, FileNotAhead, TypeOK
<1>2. OncePerLife' /\ BatchIsNew'
  BY DEF Start, OncePerLife, BatchIsNew, TypeOK
<1>3. BatchIsAccounted'
  BY DEF Start, BatchIsAccounted
<1>4. MissingHasCause'
  <2>1. ASSUME NEW e \in Event, Below(e, mark)' PROVE Saved(e)
    BY <2>1, EventParts, CollectorAssumption DEF Start, Below, Saved, NoMarks, Event
  <2>2. \A e \in Event : Saved(e)' = Saved(e)
    BY DEF Start, Saved, Below
  <2> QED BY <2>1, <2>2 DEF Start, MissingHasCause
<1>5. MarkSubsumesSignatures'
  BY DEF Start, MarkSubsumesSignatures, Below
<1> QED BY <1>1, <1>2, <1>3, <1>4, <1>5

(* The batch holds events above the marks, and passes over no event without *)
(* an account.                                                              *)
LEMMA CollectInv ==
  ASSUME CollectorInv, NEW A \in SUBSET Readable, Collect(A), TypeOK'
  PROVE  CollectorInv'
<1> USE DEF CollectorInv
<1>1. /\ \A e \in Event : missed[e] # {} => missed'[e] # {}
      /\ \A e \in Event \cap PassedOver(NewIn(A)) : missed'[e] # {}
  BY BlameKeeps DEF Collect
<1>2. \A e \in NewIn(A) : e \in Event /\ ~Below(e, mark) /\ e.record <= logged[e.channel]
  BY DEF NewIn, Listed, IsDuplicate, Below
<1>3. FileNotAhead' /\ OncePerLife'
  BY DEF Collect, FileNotAhead, OncePerLife
<1>4. BatchIsNew'
  BY <1>2 DEF Collect, BatchIsNew, Below
<1>5. BatchIsAccounted'
  <2>1. ASSUME NEW n \in NewIn(A), NEW e \in Event,
               e.channel = n.channel, e.record <= n.record
        PROVE  e \in NewIn(A) \/ Below(e, mark) \/ missed'[e] # {}
    <3>1. e.record <= logged[e.channel]
      BY <1>2, <2>1, EventParts DEF TypeOK
    <3>2. IsDuplicate(e) => Below(e, mark)
      BY DEF IsDuplicate, MarkSubsumesSignatures, Below
    <3> QED BY <1>1, <2>1, <3>1, <3>2 DEF PassedOver
  <2> QED BY <2>1 DEF Collect, BatchIsAccounted, Below
<1>6. MissingHasCause'
  BY <1>1 DEF Collect, MissingHasCause, Below, Saved
<1>7. MarkSubsumesSignatures'
  BY DEF Collect, MarkSubsumesSignatures, Below
<1> QED BY <1>3, <1>4, <1>5, <1>6, <1>7

(* Steps between two posts: a cause may be added, the batch may be given up. *)
LEMMA GiveUpInv ==
  ASSUME CollectorInv, TypeOK', UNCHANGED <<batch, mark, seen, file, stored, lives>>,
         phase = "post",
         UNCHANGED <<phase, missed>> \/ (phase' = "mark" /\ Blame(batch, "post"))
  PROVE  CollectorInv'
<1> USE DEF CollectorInv
<1>1. /\ \A e \in Event : missed[e] # {} => missed'[e] # {}
      /\ phase' = "mark" => \A e \in Event \cap batch : missed'[e] # {}
  BY BlameKeeps
<1>2. FileNotAhead' /\ OncePerLife' /\ MarkSubsumesSignatures'
  BY DEF FileNotAhead, OncePerLife, MarkSubsumesSignatures, Below
<1>3. BatchIsNew'
  BY DEF BatchIsNew, Below
<1>4. BatchIsAccounted'
  BY <1>1 DEF BatchIsAccounted, Below, TypeOK
<1>5. MissingHasCause'
  BY <1>1 DEF MissingHasCause, Below, Saved
<1> QED BY <1>2, <1>3, <1>4, <1>5

(* A post stores each event of the batch for the first time in this life. *)
LEMMA PostInv ==
  ASSUME CollectorInv, NEW S \in SUBSET batch, Post(S), TypeOK'
  PROVE  CollectorInv'
<1> USE DEF CollectorInv
<1>1. /\ \A e \in Event : missed[e] # {} => missed'[e] # {}
      /\ \A e \in Event \cap (batch \ S) : missed'[e] # {}
  BY BlameKeeps DEF Post
<1>2. \A e \in Event : stored'[e] = stored[e] + (IF e \in S THEN 1 ELSE 0)
  BY DeliverCounts DEF Post
<1>3. \A e \in S : e \in Event /\ stored[e] # lives
  BY DEF Post, BatchIsNew, TypeOK
<1>4. OncePerLife'
  BY <1>2, <1>3 DEF Post, OncePerLife, TypeOK
<1>5. FileNotAhead' /\ MarkSubsumesSignatures'
  BY DEF Post, FileNotAhead, MarkSubsumesSignatures, Below
<1>6. BatchIsNew'
  <2>1. ASSUME NEW e \in Event, stored'[e] = lives PROVE Below(e, mark) \/ e \in batch
    BY <1>2, <2>1 DEF Post, BatchIsNew, TypeOK
  <2> QED BY <2>1 DEF Post, BatchIsNew, Below
<1>7. BatchIsAccounted'
  <2>1. \A e \in batch : stored'[e] > 0 \/ missed'[e] # {}
    BY <1>1, <1>2 DEF TypeOK
  <2> QED BY <1>1, <2>1 DEF Post, BatchIsAccounted, Below
<1>8. MissingHasCause'
  BY <1>1, <1>2 DEF Post, MissingHasCause, Below, Saved, TypeOK
<1> QED BY <1>4, <1>5, <1>6, <1>7, <1>8

(* Marking passes the batch, all of it stored or accounted for. *)
LEMMA MarkInv == ASSUME CollectorInv, MarkAndOpen, TypeOK' PROVE CollectorInv'
<1> USE DEF CollectorInv
<1>1. /\ \A c \in Channel : mark'[c] = MarkOf(c)
      /\ file' = Torn \/ file' = file
      /\ phase = "mark" /\ phase' \in {"write", "idle"}
      /\ UNCHANGED <<batch, stored, missed, lives>> /\ seen' = seen \cup batch
  BY DEF MarkAndOpen
<1>2. \A c \in Channel : mark[c] \in Nat /\ mark'[c] \in Nat /\ mark[c] <= mark'[c]
  BY <1>1, MarkOfMax, CollectorAssumption DEF TypeOK
<1>3. \A e \in Event : Below(e, mark) => Below(e, mark')
  BY <1>2, EventParts DEF Below
<1>4. \A e \in batch : e \in Event /\ Below(e, mark')
  <2>1. ASSUME NEW e \in batch PROVE e \in Event /\ e.record <= MarkOf(e.channel)
    BY MarkOfMax, EventParts DEF TypeOK
  <2> QED BY <1>1, <2>1, EventParts DEF Below
<1>5. FileNotAhead'
  <2>1. ASSUME file.state = "whole", NEW c \in Channel PROVE file.mark[c] <= mark'[c]
    <3>1. file.mark[c] \in Nat /\ file.mark[c] <= mark[c]
      BY <1>1, <2>1, WholeFile, CollectorAssumption DEF FileNotAhead
    <3> QED BY <1>2, <3>1
  <2> QED BY <1>1, <2>1 DEF FileNotAhead, Torn
<1>6. OncePerLife' /\ BatchIsNew'
  BY <1>1, <1>3, <1>4 DEF OncePerLife, BatchIsNew
<1>7. BatchIsAccounted'
  BY <1>1 DEF BatchIsAccounted
<1>8. MissingHasCause'
  <2>1. ASSUME NEW e \in Event, Below(e, mark') PROVE stored[e] # 0 \/ missed[e] # {}
    <3>1. CASE Below(e, mark)
      BY <3>1 DEF MissingHasCause
    <3>2. CASE ~Below(e, mark)
      <4>1. PICK n \in batch : n.channel = e.channel /\ n.record = MarkOf(e.channel)
        BY <1>1, <2>1, <3>2, MarkOfMax, EventParts DEF Below
      <4>2. e.record <= n.record
        BY <1>1, <2>1, <4>1, EventParts DEF Below
      <4>3. e \in batch \/ missed[e] # {}
        BY <1>1, <3>2, <4>1, <4>2 DEF BatchIsAccounted
      <4>4. e \in batch => stored[e] > 0 \/ missed[e] # {}
        BY <1>1 DEF BatchIsAccounted
      <4> QED BY <4>3, <4>4
    <3> QED BY <3>1, <3>2
  <2>2. \A e \in Event : Saved(e)' => Saved(e)
    BY <1>1 DEF Saved, Below, Torn
  <2> QED BY <1>1, <2>1, <2>2 DEF MissingHasCause
<1>9. MarkSubsumesSignatures'
  BY <1>1, <1>3, <1>4 DEF MarkSubsumesSignatures, Torn, Below, TypeOK
<1> QED BY <1>5, <1>6, <1>7, <1>8, <1>9

(* The file is given the marks of memory. *)
LEMMA WriteInv == ASSUME CollectorInv, WriteState, TypeOK' PROVE CollectorInv'
<1> USE DEF CollectorInv
<1>1. /\ file' = file \/ \E S \in SUBSET seen : file' = Whole(mark, S)
      /\ UNCHANGED <<batch, mark, seen, stored, missed, lives>>
      /\ phase = "write" /\ phase' = "idle"
  BY DEF WriteState, Kept
<1>2. CASE file' = file
  BY <1>1, <1>2 DEF FileNotAhead, BatchIsNew, BatchIsAccounted, OncePerLife, MissingHasCause,
                    MarkSubsumesSignatures, Below, Saved
<1>3. ASSUME NEW S \in SUBSET seen, file' = Whole(mark, S) PROVE CollectorInv'
  <2>1. file'.state = "whole" /\ file'.mark = mark /\ file'.seen = S
    BY <1>3 DEF Whole
  <2>2. FileNotAhead'
    BY <1>1, <2>1, CollectorAssumption DEF FileNotAhead, TypeOK
  <2>3. BatchIsNew' /\ BatchIsAccounted' /\ OncePerLife'
    BY <1>1 DEF BatchIsNew, BatchIsAccounted, OncePerLife, Below
  <2>4. MissingHasCause'
    BY <1>1, <2>1 DEF MissingHasCause, Below, Saved
  <2>5. MarkSubsumesSignatures'
    BY <1>1, <1>3, <2>1 DEF MarkSubsumesSignatures, Below
  <2> QED BY <2>2, <2>3, <2>4, <2>5
<1> QED BY <1>1, <1>2, <1>3

(* A stopped process has no batch and no marks. *)
LEMMA StopInv == ASSUME CollectorInv, Stop, TypeOK' PROVE CollectorInv'
<1> USE DEF CollectorInv
<1>1. \A e \in Event : ~Below(e, mark)' /\ Saved(e)' = Saved(e)
  BY EventParts, CollectorAssumption DEF Stop, Below, NoMarks, Saved, Event
<1>2. MissingHasCause'
  BY <1>1 DEF Stop, MissingHasCause
<1> QED BY <1>2 DEF Stop, FileNotAhead, BatchIsNew, BatchIsAccounted, OncePerLife,
                    MarkSubsumesSignatures, Below

(* Steps that touch nothing the invariant speaks of. *)
LEMMA StutterInv ==
  ASSUME CollectorInv, TypeOK', UNCHANGED <<phase, batch, mark, seen, file, stored, missed, lives>>
  PROVE  CollectorInv'
  BY DEF CollectorInv, FileNotAhead, BatchIsNew, BatchIsAccounted, OncePerLife, MissingHasCause,
         MarkSubsumesSignatures, Below, Saved

(* Every step preserves the invariant. *)
LEMMA InvNext == CollectorInv /\ [Next]_vars => CollectorInv'
<1> SUFFICES ASSUME CollectorInv, [Next]_vars PROVE CollectorInv'
  OBVIOUS
<1>1. TypeOK'
  BY TypeNext DEF CollectorInv
<1>2. ASSUME NEW c \in Channel, Log(c) PROVE CollectorInv'
  BY <1>1, <1>2, StutterInv DEF Log, memory
<1>3. CASE Expire
  BY <1>1, <1>3, StutterInv DEF Expire
<1>4. CASE Authenticate
  BY <1>1, <1>4, GiveUpInv DEF Authenticate
<1>5. CASE PostUnauthorized
  BY <1>1, <1>5, GiveUpInv DEF PostUnauthorized
<1>6. CASE UNCHANGED vars
  BY <1>1, <1>6, StutterInv DEF vars, memory
<1> QED
  BY <1>1, <1>2, <1>3, <1>4, <1>5, <1>6, StartInv, CollectInv, PostInv, MarkInv, WriteInv,
     StopInv DEF Next

(* The invariant holds in every behaviour. *)
LEMMA InvHolds == Spec => []CollectorInv
<1>1. ASSUME Init PROVE CollectorInv
  <2>1. NoMarks \in [Channel -> 0..MaxRecord]
    BY CollectorAssumption DEF NoMarks
  <2>2. TypeOK
    BY <1>1, <2>1 DEF Init, TypeOK
  <2>3. \A e \in Event : ~Below(e, mark) /\ ~Saved(e)
    BY <1>1, EventParts, CollectorAssumption DEF Init, Below, NoMarks, Saved, Absent, Event
  <2> QED BY <1>1, <2>2, <2>3 DEF Init, CollectorInv, FileNotAhead, BatchIsNew,
             BatchIsAccounted, OncePerLife, MissingHasCause, MarkSubsumesSignatures, Absent
<1> QED BY <1>1, InvNext, PTL DEF Spec

(* Only a restart can make the collector post an event again: run_cycle     *)
(* marks a batch whatever the post returned.                                *)
THEOREM StoredOncePerLife == Spec => []OncePerLife
<1>1. CollectorInv => OncePerLife
  BY DEF CollectorInv
<1> QED BY <1>1, InvHolds, PTL

(* What run_cycle marked or saved and the backend does not have was passed  *)
(* over by the reader or lost with its post.                                *)
THEOREM MissingAccounted == Spec => []MissingHasCause
<1>1. CollectorInv => MissingHasCause
  BY DEF CollectorInv
<1> QED BY <1>1, InvHolds, PTL

(* Dropping signatures from the state file is harmless. *)
THEOREM SignaturesRedundant == Spec => []MarkSubsumesSignatures
<1>1. CollectorInv => MarkSubsumesSignatures
  BY DEF CollectorInv
<1> QED BY <1>1, InvHolds, PTL

(* No life of the collector posts what a readable state file covers. *)
THEOREM SavedOnce == Spec => SavedNeverResent
<1>1. CollectorInv /\ [Next]_vars
        => [\A e \in Event : Saved(e) => stored'[e] = stored[e]]_vars
  <2> SUFFICES ASSUME CollectorInv, [Next]_vars, NEW e \in Event, Saved(e)
               PROVE  stored'[e] = stored[e]
    OBVIOUS
  <2>1. ASSUME NEW S \in SUBSET batch, Post(S) PROVE stored'[e] = stored[e]
    <3>1. file.mark[e.channel] \in Nat /\ mark[e.channel] \in Nat
      BY EventParts, WholeFile, CollectorAssumption DEF CollectorInv, Saved, TypeOK
    <3>2. Below(e, mark)
      BY <2>1, <3>1, EventParts DEF CollectorInv, FileNotAhead, Saved, Below, Post
    <3>3. e \notin S
      BY <2>1, <3>2 DEF CollectorInv, BatchIsNew, Post
    <3>4. stored'[e] = stored[e] + (IF e \in S THEN 1 ELSE 0) /\ stored[e] \in Nat
      BY <2>1, DeliverCounts DEF Post, CollectorInv, TypeOK
    <3> QED BY <3>3, <3>4
  <2> QED
    BY <2>1 DEF Next, vars, Log, Start, Collect, Expire, Authenticate, PostUnauthorized,
                MarkAndOpen, WriteState, Stop
<1> QED BY <1>1, InvHolds, PTL DEF Spec, SavedNeverResent

===============================================================================
