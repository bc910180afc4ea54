------------------------------- MODULE Forecaster -------------------------------
(***************************************************************************)
(* The attack forecast of the ML service (app/services/predictor.py): what *)
(* AttackPredictor.predict finds in a list of logs.  It keeps no state; the *)
(* behaviours here grow the list, so that a step compares the forecast of  *)
(* a list with that of a longer one.  A log is known by its kind; its order *)
(* in the list matters to nothing but wording.  Probabilities are in        *)
(* thousandths, rounded down where the code rounds to three decimals; the   *)
(* confidence, the texts and the affected assets are left out.              *)
(***************************************************************************)
EXTENDS Integers, FiniteSets, FiniteSetsExt

CONSTANTS
    Shape,     \* Shape[k], of each kind k of log: its class, ip, dest, severity, action,
               \*   country, risky, users, offHours
    Window,    \* window_hours of the request
    MaxLogs    \* bound: MaxLogs[k] logs of kind k

Kind == DOMAIN Shape
Class == {"FAILURE", "RECON", "MALWARE", "DATA", "PRIV", "COMMON"}

VARIABLE count   \* count[k]: the logs of kind k in recent_logs

ForecasterTypeOK ==
    /\ DOMAIN count = Kind
    /\ \A k \in Kind : count[k] \in 0..MaxLogs[k]

-------------------------------------------------------------------------------
(* _compute_stats *)

Seen == {k \in Kind : count[k] > 0}
Many(K) == Cardinality(UNION {{k} \X (1..count[k]) : k \in K})
Of(c) == {k \in Seen : c \in Shape[k].class}
Where(K, field) == {Shape[k][field] : k \in K}
Share(K) == (1000 * Many(K)) \div Many(Seen)
Users == UNION {Shape[k].users : k \in Seen}    \* userId and userName count as two
OffHours(K) == {k \in K : Shape[k].offHours}
Denied == {k \in Seen : Shape[k].action \in {"DENY", "DROP"}}
Severe == {k \in Seen : Shape[k].severity \in {"HIGH", "CRITICAL"}}
Critical == {k \in Seen : Shape[k].severity = "CRITICAL"}
Risky == {k \in Seen : Shape[k].risky}

Least(a, b) == IF a < b THEN a ELSE b

Level(n, critical, high, medium) ==
    IF n >= critical THEN "CRITICAL" ELSE IF n >= high THEN "HIGH"
    ELSE IF n >= medium THEN "MEDIUM" ELSE "LOW"

Never == 1000000    \* for a severity that a heuristic does not give

Attack(name, p, severity) ==
    [attack |-> name, probability |-> Least(1000, p), severity |-> severity]

Attacks(P) == {p.attack : p \in P}

-------------------------------------------------------------------------------
(* The heuristics: each finds one attack or none. *)

BruteForceChance(n) ==
    IF n >= 20 THEN 700 + (n - 20) * 5
    ELSE IF n >= 10 THEN 450 + (n - 10) * 25
    ELSE IF n >= 5 THEN 200 + (n - 5) * 50
    ELSE 50 + n * 30

BruteForce ==
    LET failures == {Many({k \in Of("FAILURE") : Shape[k].ip = ip}) : ip \in Where(Of("FAILURE"), "ip")}
        n == Max(failures)    \* of the worst source address
    IN  IF failures = {} THEN {} ELSE
        {Attack("BRUTE_FORCE_ESCALATION", BruteForceChance(n), Level(n, 30, 20, 10))}

ReconExploit ==
    LET n == Many(Of("RECON"))
        dual == Where(Of("RECON"), "ip") \cap Where(Of("FAILURE"), "ip") # {}
    IN  IF n = 0 THEN {} ELSE
        {Attack("RECONNAISSANCE_EXPLOITATION", 300 + n * 20 + (IF dual THEN 150 ELSE 0),
                Level(n, Never, 10, 0))}

GeographicAnomaly ==
    LET n == Cardinality(Where(Risky, "country"))
    IN  IF n = 0 THEN {} ELSE
        {Attack("ACCOUNT_TAKEOVER", 200 + Share(Risky) \div 2 + n * 80, Level(n, 3, 2, 0))}

DdosBuildup ==
    LET total   == Many(Seen)
        sources == Cardinality(Where(Seen, "ip"))
        p == 100 + Least((2 * total) \div Window, 350) + Least(5 * sources, 250)
                 + (3 * Share(Denied)) \div 10
    IN  IF total < 20 * Window /\ sources < 30 /\ Share(Denied) < 150 THEN {} ELSE
        {Attack("DDOS_ATTACK", p, Level(p, 700, 450, 0))}

DataExfiltration ==
    LET data == Many(Of("DATA"))
        off  == Many(OffHours(Of("DATA")))
        both == Where(OffHours(Seen), "ip") \cap Where(Of("DATA"), "ip")
    IN  IF data < 3 /\ off < 2 THEN {} ELSE
        {Attack("DATA_BREACH",
                150 + Least(20 * data, 250) + Least(100 * off, 300) + 50 * Cardinality(both),
                Level(off, Never, 5, 0))}

InsiderThreat ==
    LET priv == Many(Of("PRIV"))
        off  == Many(OffHours(Of("PRIV")))
        wide == Cardinality(Where(Of("PRIV"), "dest")) >= 3
    IN  IF priv = 0 /\ Cardinality(Users) < 5 THEN {} ELSE
        {Attack("INSIDER_THREAT",
                100 + Least(50 * priv, 250) + Least(200 * off, 200) + (IF wide THEN 150 ELSE 0),
                Level(off, Never, 3, 0))}

MalwarePropagation ==
    LET n == Cardinality(Where(Of("MALWARE"), "ip"))
    IN  IF n = 0 THEN {} ELSE
        {Attack("MALWARE_LATERAL_MOVEMENT", 450 + 80 * n, Level(n, 3, 0, 0))}

ZeroDay ==
    LET unknown  == Many(Severe \ Of("COMMON"))
        critical == Many(Critical)
    IN  IF Severe = {} \/ (unknown < 2 /\ critical < 2) THEN {} ELSE
        {Attack("ZERO_DAY_EXPLOITATION",
                150 + (3 * Share(Severe)) \div 10 + Least(100 * unknown, 250)
                    + Least(200 * critical, 200),
                Level(critical, 3, 0, 0))}

Found ==
    IF Seen = {} THEN {} ELSE
    UNION {BruteForce, ReconExploit, GeographicAnomaly, DdosBuildup, DataExfiltration,
           InsiderThreat, MalwarePropagation, ZeroDay}

-------------------------------------------------------------------------------
(* _pad_predictions: baseline predictions fill the list up to three.  Where *)
(* one of equal probability is to be left out, the order of the pool tells. *)

Baseline ==
    <<Attack("BRUTE_FORCE_ESCALATION", 50 + 10 * Many(Of("FAILURE")), "LOW"),
      Attack("DDOS_ATTACK", 50 + (15 * Share(Denied)) \div 100, "LOW"),
      Attack("DATA_BREACH", 40 + 10 * Many(Of("DATA")), "LOW"),
      Attack("ACCOUNT_TAKEOVER", 30 + 20 * Many(Risky), "LOW"),
      Attack("ZERO_DAY_EXPLOITATION", 30 + (15 * Share(Severe)) \div 100, "LOW")>>

(* Mutant: the pool offers attacks that were found as well. *)
MissingUnchecked(found) == DOMAIN Baseline

Missing(found) == {i \in DOMAIN Baseline : Baseline[i].attack \notin Attacks(found)}

Padding(found) ==
    LET pool == Baseline
        missing == Missing(found)
        Ahead(i, j) == \/ pool[i].probability > pool[j].probability
                       \/ pool[i].probability = pool[j].probability /\ i < j
    IN  {pool[i] : i \in {j \in missing :
            Cardinality(found) + Cardinality({h \in missing : Ahead(h, j)}) < 3}}

(* What predict returns.  There are eight heuristics: the cut to eight     *)
(* predictions never bites.  (Found is bound, here and below, and not named *)
(* by a LET, so that TLC evaluates it once.)                               *)
Predictions ==
    IF Seen = {} THEN {} ELSE UNION {found \cup Padding(found) : found \in {Found}}

-------------------------------------------------------------------------------
Init == count = [k \in Kind |-> 0]

Add(k) ==
    /\ count[k] < MaxLogs[k]
    /\ count' = [count EXCEPT ![k] = @ + 1]

Next == \E k \in Kind : Add(k)

Spec == Init /\ [][Next]_count

-------------------------------------------------------------------------------
(* Every list that is not empty gets three to eight predictions, of as     *)
(* many attacks (the promise of predict's docstring).                      *)
ThreeToEight ==
    Seen # {} => \A listed \in {Predictions} :
        /\ Cardinality(listed) \in 3..8
        /\ Cardinality(Attacks(listed)) = Cardinality(listed)

Counted ==
    {"BRUTE_FORCE_ESCALATION", "RECONNAISSANCE_EXPLOITATION", "DATA_BREACH",
     "INSIDER_THREAT", "MALWARE_LATERAL_MOVEMENT"}

Severity == <<"LOW", "MEDIUM", "HIGH", "CRITICAL">>

NoWorse(p, q) ==
    /\ p.probability <= q.probability
    /\ \E i, j \in DOMAIN Severity :
          i <= j /\ Severity[i] = p.severity /\ Severity[j] = q.severity

(* More logs never hide an attack that was found, except the flood, which  *)
(* goes by rates; and where a heuristic goes by counts alone, they lower   *)
(* neither its probability nor its severity: across the bands of each     *)
(* heuristic, the end of one never lies above the start of the next.       *)
Stands ==
    \A found \in {Found}, longer \in {Found'} : \A p \in found : p.attack # "DDOS_ATTACK" =>
       \E q \in longer :
           p.attack = q.attack /\ (p.attack \in Counted => NoWorse(p, q))

===================================================================================
