-------------------------------- MODULE MCOffice --------------------------------
(***************************************************************************)
(* Small instances, side by side, of the components that deal with people, *)
(* their sessions and settings, and with reports.  They do not interact: a *)
(* behaviour is one of one component, told by `which`, whose variables are *)
(* v1, v2, and so on.                                                      *)
(***************************************************************************)
EXTENDS Naturals, Sequences, FiniteSets, TLC

CONSTANTS
    n1, n2, p1, p2, s1, s2, m,   \* model values
    Name, Secret, Slot,          \* accounts, passwords, requests and tabs
    MaxPairs,                    \* bound: pairs of tokens issued
    MaxSaves,                    \* of NotificationForm
    FullName, Stock, Phrase,
    Strong, Long, MaxCalls,      \* of AccountForms
    Contact, Grade,
    DemoUser, MaxTrouble,
    Stranger, FirstUsers,
    UserLimit,                   \* of UsersPage
    MockReport,                  \* of ReportsPage, with MaxReports and ListLimit
    ReportType, ReportLength,
    PickDate, ServeTime,         \* of ReportForm
    MaxReports, ReportTypeOf,
    ReportFormatOf, ListLimit,   \* of ReportList
    AlertId, AlertSeverity,
    AlertStatus, AttackType,
    LoggedKind, LogBound,
    IpRows, PortRows, PdfLimit   \* of ReportNumbers

ASSUME OfficeAssumption ==
    /\ MaxPairs \in Nat /\ MaxSaves \in Nat /\ MaxCalls \in Nat
    /\ {"ANALYST", "VIEWER"} \subseteq Grade /\ "none" \notin Grade
    /\ MaxTrouble \in Nat /\ UserLimit \in Nat \ {0}
    /\ Contact \cap Stranger = {} /\ FirstUsers \subseteq Seq(Contact \cup Stranger)
    /\ \A t \in ReportType : t \notin {"own", "alike", "blank", "empty"}
    /\ MaxReports \in Nat /\ ListLimit \in Nat \ {0}
    /\ \A r \in 1..MaxReports : ReportFormatOf[r] \in {"PDF", "CSV"}
    /\ IsFiniteSet(AlertId) /\ IsFiniteSet(AttackType) /\ IsFiniteSet(LoggedKind)
    /\ AlertSeverity \subseteq {"CRITICAL", "HIGH", "MEDIUM", "LOW"}
    /\ AlertStatus \subseteq {"NEW", "INVESTIGATING", "RESOLVED", "FALSE_POSITIVE"}
    /\ "NEW" \in AlertStatus
    /\ \A k \in LoggedKind : k.score \in 0..100
    /\ LogBound \in Nat /\ IpRows \in Nat \ {0} /\ PortRows \in Nat /\ PdfLimit \in Nat

(* Names, passwords, and requests or tabs are interchangeable. *)
Symmetry ==
    Permutations({n1, n2}) \cup Permutations({p1, p2}) \cup Permutations({s1, s2})

(* The newest user is demo, or the one account it can be turned into. *)
MCFirst == {<<"a">>, <<"a", "demo">>}

(* The days that a report of each type covers, and two reports. *)
MCLength == [t \in {"DAILY", "WEEKLY"} |-> IF t = "DAILY" THEN 1 ELSE 7]
MCTypeOf == <<"DAILY", "WEEKLY">>
MCFormatOf == <<"PDF", "CSV">>

(* A log that counts as anomalous and one that does not. *)
ReportLogs ==
    {[address |-> 1, score |-> 90, high |-> TRUE, port |-> 22],
     [address |-> 2, score |-> 10, high |-> FALSE, port |-> 443]}

VARIABLES
    which,   \* the component
    v1, v2, v3, v4, v5, v6, v7, v8, v9, v10, v11

OfficeVars == <<which, v1, v2, v3, v4, v5, v6, v7, v8, v9, v10, v11>>

Tokens == INSTANCE TokenRefresh WITH
    User <- Name, MaxPairs <- MaxPairs, Request <- Slot, owner <- v1,
    issued <- v2, fresh <- v3, pair <- v4, user <- v5, signedIn <- v6,
    leaving <- v7, req <- v8, out <- v9, carried <- v10

People == INSTANCE Accounts WITH
    Email <- Name, Password <- Secret, Request <- Slot, account <- v1,
    tokens <- v2, req <- v3, revoked <- v4

Users == INSTANCE UsersPage WITH
    Email <- Contact, Role <- Grade, Demo <- DemoUser, Else <- Stranger,
    First <- FirstUsers, Limit <- UserLimit, rows <- v1, order <- v2,
    shown <- v3, empty <- v4, dialog <- v5, req <- v6, clean <- v7,
    trouble <- v8

Entry == INSTANCE SignIn WITH
    route <- v1, going <- v2, due <- v3, panel <- v4, local <- v5,
    isAuthenticated <- v6, isLoading <- v7, error <- v8, call <- v9, kept <- v10

Forms == INSTANCE AccountForms WITH
    Name <- FullName, Password <- Phrase, stored <- v1, known <- v2,
    open <- v3, text <- v4, isLoading <- v5, message <- v6, calls <- v7,
    edited <- v8, settled <- v9

Notices == INSTANCE NotificationForm WITH
    Tab <- Slot, row <- v1, tab <- v2, late <- v3, saves <- v4, stale <- v5

Archive == INSTANCE ReportsPage WITH
    Reports <- MaxReports, Limit <- ListLimit, Mock <- MockReport,
    Fetch <- Slot, archive <- v1, known <- v2, list <- v3, fetch <- v4,
    drawer <- v5, inspecting <- v6, generator <- v7, making <- v8,
    deleting <- v9, crossed <- v10, clean <- v11

Numbers == INSTANCE ReportNumbers WITH
    Alert <- AlertId, Severity <- AlertSeverity, Status <- AlertStatus,
    Type <- AttackType, LogKind <- LoggedKind, MaxLogs <- LogBound,
    TopIps <- IpRows, TopPorts <- PortRows, PdfIps <- PdfLimit, alerts <- v1,
    logs <- v2, request <- v3, ahead <- v4, left <- v5, number <- v6,
    top <- v7, disturbed <- v8

Form == INSTANCE ReportForm WITH
    Type <- ReportType, Length <- ReportLength, Date <- PickDate,
    Clock <- ServeTime, open <- v1, form <- v2, preview <- v3, shown <- v4,
    making <- v5, current <- v6

Rows == INSTANCE ReportList WITH
    Reports <- MaxReports, Type <- ReportType, TypeOf <- ReportTypeOf,
    FormatOf <- ReportFormatOf, Limit <- ListLimit, archive <- v1, made <- v2,
    rows <- v3, stats <- v4, list <- v5, counts <- v6, dirty <- v7,
    downloading <- v8, marker <- v9

-------------------------------------------------------------------------------
Unused == ""   \* what a variable holds that the component does not have

OfficeInit ==
    \/ /\ which = "Tokens" /\ Tokens!Init
       /\ v11 = Unused
    \/ /\ which = "People" /\ People!Init
       /\ v5 = Unused /\ v6 = Unused /\ v7 = Unused /\ v8 = Unused
       /\ v9 = Unused /\ v10 = Unused /\ v11 = Unused
    \/ /\ which = "Users" /\ Users!Init
       /\ v9 = Unused /\ v10 = Unused /\ v11 = Unused
    \/ /\ which = "Entry" /\ Entry!Init
       /\ v11 = Unused
    \/ /\ which = "Forms" /\ Forms!Init
       /\ v10 = Unused /\ v11 = Unused
    \/ /\ which = "Notices" /\ Notices!Init
       /\ v6 = Unused /\ v7 = Unused /\ v8 = Unused /\ v9 = Unused
       /\ v10 = Unused /\ v11 = Unused
    \/ /\ which = "Archive" /\ Archive!Init
    \/ /\ which = "Numbers" /\ Numbers!Init
       /\ v9 = Unused /\ v10 = Unused /\ v11 = Unused
    \/ /\ which = "Form" /\ Form!Init
       /\ v7 = Unused /\ v8 = Unused /\ v9 = Unused /\ v10 = Unused
       /\ v11 = Unused
    \/ /\ which = "Rows" /\ Rows!Init
       /\ v10 = Unused /\ v11 = Unused

OfficeNext ==
    \/ which = "Tokens" /\ Tokens!Next /\ UNCHANGED <<which, v11>>
    \/ which = "People" /\ People!Next /\ UNCHANGED <<which, v5, v6, v7, v8, v9, v10, v11>>
    \/ which = "Users" /\ Users!Next /\ UNCHANGED <<which, v9, v10, v11>>
    \/ which = "Entry" /\ Entry!Next /\ UNCHANGED <<which, v11>>
    \/ which = "Forms" /\ Forms!Next /\ UNCHANGED <<which, v10, v11>>
    \/ which = "Notices" /\ Notices!Next /\ UNCHANGED <<which, v6, v7, v8, v9, v10, v11>>
    \/ which = "Archive" /\ Archive!Next /\ UNCHANGED <<which>>
    \/ which = "Numbers" /\ Numbers!Next /\ UNCHANGED <<which, v9, v10, v11>>
    \/ which = "Form" /\ Form!Next /\ UNCHANGED <<which, v7, v8, v9, v10, v11>>
    \/ which = "Rows" /\ Rows!Next /\ UNCHANGED <<which, v10, v11>>

OfficeSpec == OfficeInit /\ [][OfficeNext]_OfficeVars

-------------------------------------------------------------------------------
(* Each is the property of that name of its component, explained there. *)

OfficeTypeOK ==
    CASE which = "Tokens" -> Tokens!RefreshTypeOK
      [] which = "People" -> People!AccountsTypeOK
      [] which = "Users" -> Users!UsersTypeOK
      [] which = "Entry" -> Entry!SignInTypeOK
      [] which = "Forms" -> Forms!AccountFormsTypeOK
      [] which = "Notices" -> Notices!NotificationTypeOK
      [] which = "Archive" -> Archive!ReportsTypeOK
      [] which = "Numbers" -> Numbers!NumbersTypeOK
      [] which = "Form" -> Form!FormTypeOK
      [] which = "Rows" -> Rows!ListTypeOK

(* api.ts, auth-store.ts: who is signed in holds tokens of that account;   *)
(* login/page.tsx, (dashboard)/layout.tsx: and is where such users belong. *)
SessionIsWhole ==
    /\ which = "Tokens" => Tokens!SignedInHasTokens /\ Tokens!SessionIsItsUsers
    /\ which = "Entry" =>
          Entry!GateIsClosed /\ Entry!LoadingIsWaiting /\ Entry!SentFormsAreValid

(* auth.service.ts: what was revoked lets nothing in. *)
RevokedIsOut == which = "People" => People!RevokedIsOut

(* users.service.ts: only a PATCH with isActive brings an account back. *)
DisabledUntilReactivated == [][which = "People" => People!NotRevived]_OfficeVars

(* users/page.tsx: at rest the cards are the stored accounts listed. *)
ShownIsStored == which = "Users" => Users!ShownIsStored

(* settings.service.ts: at rest the form shows the stored preferences, and *)
(* the forms of name and password know what they saved.                    *)
PreferencesShown ==
    /\ which = "Notices" => Notices!PreferencesShown
    /\ which = "Forms" =>
          Forms!SavedIsKnown /\ Forms!ButtonComesBack /\ Forms!DirtyIsEdited

(* reports/page.tsx: drawer, table, tiles and preview show what they say. *)
ReportsPageShowsArchive ==
    /\ which = "Archive" => Archive!DrawerIsItsReport /\ Archive!QuietTableIsArchive
    /\ which = "Form" => Form!PreviewIsOfForm /\ Form!TitleNamesType
    /\ which = "Rows" => Rows!TilesFitTable /\ Rows!MarkedIsDownloading

(* reports.service.ts: the numbers of a report add up. *)
ReportAddsUp == which = "Numbers" => Numbers!ReportAddsUp

===============================================================================
