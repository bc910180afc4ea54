------------------------------ MODULE OfficeProofs ------------------------------
(***************************************************************************)
(* The properties of the office run, for every set of names, passwords,    *)
(* requests, reports, alerts and logs and all bounds.                      *)
(* The invariants and their proofs are those of OfficePartProofs; a        *)
(* behaviour of MCOffice stays with the component it began with.           *)
(***************************************************************************)
EXTENDS MCOffice, TLAPS

Proved == INSTANCE OfficePartProofs WITH
    Email <- Name, Password <- Secret, Slot <- Slot, account <- v1, tokens <- v2,
    req <- v3, revoked <- v4,
    User <- Name, MaxPairs <- MaxPairs, Call <- Slot, owner <- v1, issued <- v2,
    fresh <- v3, pair <- v4, user <- v5, signedIn <- v6, leaving <- v7, call <- v8,
    out <- v9, carried <- v10,
    route <- v1, going <- v2, due <- v3, panel <- v4, local <- v5, isAuthenticated <- v6,
    isLoading <- v7, error <- v8, attempt <- v9, kept <- v10,
    Tab <- Slot, MaxSaves <- MaxSaves, row <- v1, tab <- v2, late <- v3, saves <- v4,
    stale <- v5,
    Name <- FullName, Stock <- Stock, Phrase <- Phrase, Strong <- Strong, Long <- Long,
    MaxCalls <- MaxCalls, stored <- v1, known <- v2, open <- v3, text <- v4,
    isSaving <- v5, message <- v6, calls <- v7, edited <- v8, settled <- v9,
    Contact <- Contact, Grade <- Grade, DemoUser <- DemoUser, MaxTrouble <- MaxTrouble,
    Stranger <- Stranger, FirstUsers <- FirstUsers, UserLimit <- UserLimit,
    rows <- v1, order <- v2, shown <- v3, empty <- v4, dialog <- v5, asking <- v6,
    clean <- v7, trouble <- v8,
    ReportType <- ReportType, ReportLength <- ReportLength, PickDate <- PickDate,
    ServeTime <- ServeTime, opened <- v1, filled <- v2, preview <- v3, strip <-
    v4, generating <- v5, current <- v6,
    MockReport <- MockReport, archive <- v1, ever <- v2, list <-
    v3, fetch <- v4, drawer <- v5, inspecting <- v6, generator <- v7, making <-
    v8, deleting <- v9, crossed <- v10, quiet <- v11,
    MaxReports <- MaxReports, ReportTypeOf <- ReportTypeOf, ReportFormatOf <-
    ReportFormatOf, ListLimit <- ListLimit, reports <- v1, made <- v2, table <-
    v3, tiles <- v4, asked <- v5, counts <- v6, dirty <- v7, downloading <- v8,
    marker <- v9,
    AlertId <- AlertId, AlertSeverity <- AlertSeverity, AlertStatus <- AlertStatus,
    AttackType <- AttackType, LoggedKind <- LoggedKind, LogBound <- LogBound,
    IpRows <- IpRows, PortRows <- PortRows, PdfLimit <- PdfLimit, alerts <- v1,
    logs <- v2, request <- v3, ahead <- v4, left <- v5, number <- v6, top <- v7,
    disturbed <- v8

PeopleInv == which = "People" => Proved!AccountsInv
SessionInv == which = "Tokens" => Proved!TokensInv
GateInv == which = "Entry" => Proved!EntryInv
NoticesInv == which = "Notices" => Proved!NoticesInv
FormsInv == which = "Forms" => Proved!FormsInv
UsersInv == which = "Users" => Proved!UsersInv
FormInv == which = "Form" => Proved!FormInv
ArchiveInv == which = "Archive" => Proved!ArchiveInv
RowsInv == which = "Rows" => Proved!RowsInv
NumbersInv == which = "Numbers" => Proved!NumbersInv

(* An operator of a component means the same under both of its names. *)
LEMMA SamePeople ==
    /\ People!Init => Proved!People!Init
    /\ People!Next => Proved!People!Next
    /\ Proved!People!RevokedIsOut => People!RevokedIsOut
    /\ Proved!People!NotRevived => People!NotRevived
<1>1. People!Init => Proved!People!Init
  BY DEF People!Init, Proved!People!Init, People!Account, Proved!People!Account,
     People!Role, Proved!People!Role, People!NoAccount, Proved!People!NoAccount,
     People!Idle, Proved!People!Idle, People!Credential, Proved!People!Credential,
     People!InForce, Proved!People!InForce
<1>2. People!Next => Proved!People!Next
  BY DEF People!Next, Proved!People!Next, People!Serve, Proved!People!Serve,
     People!Register, Proved!People!Register, People!ValidateUser,
     Proved!People!ValidateUser, People!Refresh, Proved!People!Refresh, People!AskRemove,
     Proved!People!AskRemove, People!AskUpdate, Proved!People!AskUpdate,
     People!AskPassword, Proved!People!AskPassword, People!Create, Proved!People!Create,
     People!Login, Proved!People!Login, People!GenerateTokens,
     Proved!People!GenerateTokens, People!Update, Proved!People!Update, People!Remove,
     Proved!People!Remove, People!Compare, Proved!People!Compare, People!StorePassword,
     Proved!People!StorePassword, People!Expire, Proved!People!Expire, People!Track,
     Proved!People!Track, People!Begin, Proved!People!Begin, People!End,
     Proved!People!End, People!Issue, Proved!People!Issue, People!Exists,
     Proved!People!Exists, People!Active, Proved!People!Active, People!Authenticated,
     Proved!People!Authenticated, People!Credential, Proved!People!Credential,
     People!InForce, Proved!People!InForce, People!Relies, Proved!People!Relies,
     People!Change, Proved!People!Change, People!Role, Proved!People!Role, People!Kind,
     Proved!People!Kind, People!NoAccount, Proved!People!NoAccount, People!Idle,
     Proved!People!Idle
<1>3. Proved!People!RevokedIsOut => People!RevokedIsOut
  BY DEF People!RevokedIsOut, Proved!People!RevokedIsOut, People!Relies,
     Proved!People!Relies
<1>4. Proved!People!NotRevived => People!NotRevived
  BY DEF People!NotRevived, Proved!People!NotRevived, People!Exists, Proved!People!Exists,
     People!Active, Proved!People!Active, People!NoAccount, Proved!People!NoAccount
<1> QED BY <1>1, <1>2, <1>3, <1>4

(* The same of the session of a tab. *)
LEMMA SameTokens ==
    /\ Tokens!Init => Proved!Tokens!Init
    /\ Tokens!Next => Proved!Tokens!Next
    /\ Proved!Tokens!SignedInHasTokens => Tokens!SignedInHasTokens
    /\ Proved!Tokens!SessionIsItsUsers => Tokens!SessionIsItsUsers
<1>1. Tokens!Init => Proved!Tokens!Init
  BY DEF Tokens!Init, Proved!Tokens!Init, Tokens!Pair, Proved!Tokens!Pair, Tokens!NoUser,
     Proved!Tokens!NoUser, Tokens!Idle, Proved!Tokens!Idle
<1>2. Tokens!Next => Proved!Tokens!Next
  BY DEF Tokens!Next, Proved!Tokens!Next, Tokens!LogIn, Proved!Tokens!LogIn,
     Tokens!Logout, Proved!Tokens!Logout, Tokens!Load, Proved!Tokens!Load, Tokens!Send,
     Proved!Tokens!Send, Tokens!Answered, Proved!Tokens!Answered, Tokens!Unauthorized,
     Proved!Tokens!Unauthorized, Tokens!Refreshed, Proved!Tokens!Refreshed,
     Tokens!RefreshFailed, Proved!Tokens!RefreshFailed, Tokens!RetryRefused,
     Proved!Tokens!RetryRefused, Tokens!Expire, Proved!Tokens!Expire, Tokens!Issue,
     Proved!Tokens!Issue, Tokens!End, Proved!Tokens!End, Tokens!Pending,
     Proved!Tokens!Pending, Tokens!Idle, Proved!Tokens!Idle, Tokens!Pair,
     Proved!Tokens!Pair, Tokens!tokens, Proved!Tokens!tokens, Tokens!history,
     Proved!Tokens!history, Tokens!NoUser, Proved!Tokens!NoUser
<1>3. Proved!Tokens!SignedInHasTokens => Tokens!SignedInHasTokens
  BY DEF Tokens!SignedInHasTokens, Proved!Tokens!SignedInHasTokens
<1>4. Proved!Tokens!SessionIsItsUsers => Tokens!SessionIsItsUsers
  BY DEF Tokens!SessionIsItsUsers, Proved!Tokens!SessionIsItsUsers, Tokens!NoUser,
     Proved!Tokens!NoUser
<1> QED BY <1>1, <1>2, <1>3, <1>4

(* The same of the pages in front of the dashboard. *)
LEMMA SameEntry ==
    /\ Entry!Init => Proved!Entry!Init
    /\ Entry!Next => Proved!Entry!Next
    /\ Proved!EntryInv =>
          Entry!GateIsClosed /\ Entry!LoadingIsWaiting /\ Entry!SentFormsAreValid
<1>1. Entry!Init => Proved!Entry!Init
  BY DEF Entry!Init, Proved!Entry!Init, Entry!Route, Proved!Entry!Route, Entry!NoCall,
     Proved!Entry!NoCall
<1>2. Entry!Next => Proved!Entry!Next
  BY DEF Entry!Next, Proved!Entry!Next, Entry!Arrive, Proved!Entry!Arrive, Entry!Gate,
     Proved!Entry!Gate, Entry!Expire, Proved!Entry!Expire, Entry!OtherTab,
     Proved!Entry!OtherTab, Entry!HandleChange, Proved!Entry!HandleChange,
     Entry!SignInLink, Proved!Entry!SignInLink, Entry!Accepted, Proved!Entry!Accepted,
     Entry!Refused, Proved!Entry!Refused, Entry!Visit, Proved!Entry!Visit,
     Entry!SignInSubmit, Proved!Entry!SignInSubmit, Entry!SignUpSubmit,
     Proved!Entry!SignUpSubmit, Entry!RegisterSubmit, Proved!Entry!RegisterSubmit,
     Entry!Switch, Proved!Entry!Switch, Entry!SignOut, Proved!Entry!SignOut, Entry!Mount,
     Proved!Entry!Mount, Entry!Begin, Proved!Entry!Begin, Entry!Complete,
     Proved!Entry!Complete, Entry!Trimmed, Proved!Entry!Trimmed, Entry!Form,
     Proved!Entry!Form, Entry!Text, Proved!Entry!Text, Entry!PasswordText, Proved!Entry!PasswordText,
     Entry!Route, Proved!Entry!Route, Entry!NoCall, Proved!Entry!NoCall, Entry!store,
     Proved!Entry!store, Entry!view, Proved!Entry!view
<1>3. Proved!EntryInv =>
        Entry!GateIsClosed /\ Entry!LoadingIsWaiting /\ Entry!SentFormsAreValid
  BY DEF Proved!EntryInv, Proved!StrangersLeave, Entry!GateIsClosed,
     Entry!LoadingIsWaiting, Proved!Entry!LoadingIsWaiting, Entry!SentFormsAreValid,
     Proved!Entry!SentFormsAreValid, Entry!Acceptable, Proved!Entry!Acceptable,
     Entry!NoCall, Proved!Entry!NoCall
<1> QED BY <1>1, <1>2, <1>3

(* The same of the form of notification preferences. *)
LEMMA SameNotices ==
    /\ Notices!Init => Proved!Notices!Init
    /\ Notices!Next => Proved!Notices!Next
    /\ Proved!Notices!PreferencesShown => Notices!PreferencesShown
<1>1. Notices!Init => Proved!Notices!Init
  BY DEF Notices!Init, Proved!Notices!Init, Notices!Opened, Proved!Notices!Opened,
     Notices!FormDefault, Proved!Notices!FormDefault
<1>2. Notices!Next => Proved!Notices!Next
  BY DEF Notices!Next, Proved!Notices!Next, Notices!Find, Proved!Notices!Find,
     Notices!Create, Proved!Notices!Create, Notices!LoadFails,
     Proved!Notices!LoadFails, Notices!Discard, Proved!Notices!Discard, Notices!Save,
     Proved!Notices!Save, Notices!Prefs, Proved!Notices!Prefs, Notices!Edit,
     Proved!Notices!Edit, Notices!Upsert, Proved!Notices!Upsert, Notices!Saved,
     Proved!Notices!Saved, Notices!SaveFails, Proved!Notices!SaveFails, Notices!Reopen,
     Proved!Notices!Reopen, Notices!LateUpsert, Proved!Notices!LateUpsert,
     Notices!Moves, Proved!Notices!Moves, Notices!Shows, Proved!Notices!Shows,
     Notices!Default, Proved!Notices!Default, Notices!FormDefault,
     Proved!Notices!FormDefault, Notices!Dirty, Proved!Notices!Dirty, Notices!Opened,
     Proved!Notices!Opened
<1>3. Proved!Notices!PreferencesShown => Notices!PreferencesShown
  BY DEF Notices!PreferencesShown, Proved!Notices!PreferencesShown, Notices!Moves,
     Proved!Notices!Moves, Notices!Dirty, Proved!Notices!Dirty
<1> QED BY <1>1, <1>2, <1>3

(* The same of the forms of a user's own name and password. *)
LEMMA SameForms ==
    /\ Forms!Init => Proved!Forms!Init
    /\ Forms!Next => Proved!Forms!Next
    /\ Proved!Forms!SavedIsKnown => Forms!SavedIsKnown
    /\ Proved!Forms!ButtonComesBack => Forms!ButtonComesBack
    /\ Proved!Forms!DirtyIsEdited => Forms!DirtyIsEdited
<1>1. Forms!Init => Proved!Forms!Init
  BY DEF Forms!Init, Proved!Forms!Init, Forms!Sanitized, Proved!Forms!Sanitized,
     Forms!Kind, Proved!Forms!Kind, Forms!Blank, Proved!Forms!Blank
<1>2. Forms!Next => Proved!Forms!Next
  BY DEF Forms!Next, Proved!Forms!Next, Forms!Kind, Proved!Forms!Kind,
     Forms!SetActiveTab, Proved!Forms!SetActiveTab, Forms!Input, Proved!Forms!Input,
     Forms!SetName, Proved!Forms!SetName, Forms!HandleDiscard,
     Proved!Forms!HandleDiscard, Forms!SaveName, Proved!Forms!SaveName, Forms!Mismatch,
     Proved!Forms!Mismatch, Forms!SavePassword, Proved!Forms!SavePassword,
     Forms!UpdateProfile, Proved!Forms!UpdateProfile, Forms!ComparePassword,
     Proved!Forms!ComparePassword, Forms!StorePassword, Proved!Forms!StorePassword,
     Forms!Succeed, Proved!Forms!Succeed, Forms!Refused, Proved!Forms!Refused,
     Forms!Lose, Proved!Forms!Lose, Forms!Drop, Proved!Forms!Drop, Forms!Sanitized,
     Proved!Forms!Sanitized, Forms!Blank, Proved!Forms!Blank, Forms!Send,
     Proved!Forms!Send, Forms!Becomes, Proved!Forms!Becomes, Forms!form,
     Proved!Forms!form, Forms!RemoveAt, Proved!Forms!RemoveAt, Forms!Fails,
     Proved!Forms!Fails, Forms!Of, Proved!Forms!Of
<1>3. Proved!Forms!SavedIsKnown => Forms!SavedIsKnown
  BY DEF Forms!SavedIsKnown, Proved!Forms!SavedIsKnown, Forms!Of, Proved!Forms!Of
<1>4. Proved!Forms!ButtonComesBack => Forms!ButtonComesBack
  BY DEF Forms!ButtonComesBack, Proved!Forms!ButtonComesBack
<1>5. Proved!Forms!DirtyIsEdited => Forms!DirtyIsEdited
  BY DEF Forms!DirtyIsEdited, Proved!Forms!DirtyIsEdited, Forms!Sanitized,
     Proved!Forms!Sanitized, Forms!Blank, Proved!Forms!Blank
<1> QED BY <1>1, <1>2, <1>3, <1>4, <1>5

(* The same of the page of users. *)
LEMMA SameUsers ==
    /\ Users!Init => Proved!Users!Init
    /\ Users!Next => Proved!Users!Next
    /\ Proved!Users!ShownIsStored => Users!ShownIsStored
<1>1. Users!Init => Proved!Users!Init
  BY DEF Users!Init, Proved!Users!Init, Users!Made, Proved!Users!Made, Users!None,
     Proved!Users!None, Users!Nobody, Proved!Users!Nobody, Users!Closed,
     Proved!Users!Closed, Users!Idle, Proved!Users!Idle, Users!Id, Proved!Users!Id
<1>2. Users!Next => Proved!Users!Next
  BY DEF Users!Next, Proved!Users!Next, Users!FetchUsers, Proved!Users!FetchUsers,
     Users!Submit, Proved!Users!Submit, Users!Land, Proved!Users!Land, Users!Serve,
     Proved!Users!Serve, Users!Fail, Proved!Users!Fail, Users!OpenCreate,
     Proved!Users!OpenCreate, Users!Id, Proved!Users!Id, Users!OpenEdit,
     Proved!Users!OpenEdit, Users!OpenDelete, Proved!Users!OpenDelete,
     Users!ToggleStatus, Proved!Users!ToggleStatus, Users!Cancel, Proved!Users!Cancel,
     Users!Fields, Proved!Users!Fields, Users!Others, Proved!Users!Others,
     Users!Registered, Proved!Users!Registered, Users!Busy, Proved!Users!Busy,
     Users!Nobody, Proved!Users!Nobody, Users!Closed, Proved!Users!Closed,
     Users!FormOp, Proved!Users!FormOp, Users!Send, Proved!Users!Send,
     Users!ShownAfter, Proved!Users!ShownAfter, Users!Idle, Proved!Users!Idle,
     Users!Listed, Proved!Users!Listed, Users!Refused, Proved!Users!Refused,
     Users!Written, Proved!Users!Written, Users!None, Proved!Users!None,
     Users!CreateForms, Proved!Users!CreateForms, Users!Open, Proved!Users!Open,
     Users!OnCard, Proved!Users!OnCard, Users!EditForms, Proved!Users!EditForms,
     Users!Disturbed, Proved!Users!Disturbed, Users!Made, Proved!Users!Made,
     Users!Crosses, Proved!Users!Crosses, Users!ShownAfterFetch,
     Proved!Users!ShownAfterFetch, Users!ShownAfterCreate,
     Proved!Users!ShownAfterCreate, Users!Newest, Proved!Users!Newest, Users!Found,
     Proved!Users!Found, Users!Fallback, Proved!Users!Fallback
<1>3. Proved!Users!ShownIsStored => Users!ShownIsStored
  BY DEF Users!ShownIsStored, Proved!Users!ShownIsStored, Users!Busy,
     Proved!Users!Busy, Users!None, Proved!Users!None, Users!Newest,
     Proved!Users!Newest, Users!Idle, Proved!Users!Idle
<1> QED BY <1>1, <1>2, <1>3

(* The same of the form of a report. *)
LEMMA SameForm ==
    /\ Form!Init => Proved!Form!Init
    /\ Form!Next => Proved!Form!Next
    /\ Proved!Form!PreviewIsOfForm => Form!PreviewIsOfForm
    /\ Proved!Form!TitleNamesType => Form!TitleNamesType
<1>1. Form!Init => Proved!Form!Init
  BY DEF Form!Init, Proved!Form!Init, Form!Suggested, Proved!Form!Suggested,
     Form!NoDate, Proved!Form!NoDate, Form!Idle, Proved!Form!Idle, Form!None,
     Proved!Form!None
<1>2. Form!Next => Proved!Form!Next
  BY DEF Form!Next, Proved!Form!Next, Form!SetType, Proved!Form!SetType, Form!Format,
     Proved!Form!Format, Form!SetFormat, Proved!Form!SetFormat, Form!Typed,
     Proved!Form!Typed, Form!SetTitle, Proved!Form!SetTitle, Form!NoDate,
     Proved!Form!NoDate, Form!SetDateRangeStart, Proved!Form!SetDateRangeStart,
     Form!SetDateRangeEnd, Proved!Form!SetDateRangeEnd, Form!SetUseCustomRange,
     Proved!Form!SetUseCustomRange, Form!SetIsOpen, Proved!Form!SetIsOpen,
     Form!OnClose, Proved!Form!OnClose, Form!HandleComputePreview,
     Proved!Form!HandleComputePreview, Form!PreviewLands, Proved!Form!PreviewLands,
     Form!PreviewFails, Proved!Form!PreviewFails, Form!HandleGenerate,
     Proved!Form!HandleGenerate, Form!GenerationLands, Proved!Form!GenerationLands,
     Form!GenerationFails, Proved!Form!GenerationFails, Form!Edit, Proved!Form!Edit,
     Form!TitleFor, Proved!Form!TitleFor, Form!Idle, Proved!Form!Idle,
     Form!PreviewPayload, Proved!Form!PreviewPayload, Form!None, Proved!Form!None,
     Form!GeneratePayload, Proved!Form!GeneratePayload, Form!Suggested,
     Proved!Form!Suggested, Form!Ranged, Proved!Form!Ranged
<1>3. Proved!Form!PreviewIsOfForm => Form!PreviewIsOfForm
  BY DEF Form!PreviewIsOfForm, Proved!Form!PreviewIsOfForm, Form!DateRange,
     Proved!Form!DateRange, Form!GeneratePayload, Proved!Form!GeneratePayload,
     Form!NoDate, Proved!Form!NoDate, Form!Ranged, Proved!Form!Ranged
<1>4. Proved!Form!TitleNamesType => Form!TitleNamesType
  BY DEF Form!TitleNamesType, Proved!Form!TitleNamesType
<1> QED BY <1>1, <1>2, <1>3, <1>4

(* The same of the table and the drawer of reports. *)
LEMMA SameArchive ==
    /\ Archive!Init => Proved!Archive!Init
    /\ Archive!Next => Proved!Archive!Next
    /\ Proved!Archive!DrawerIsItsReport => Archive!DrawerIsItsReport
    /\ Proved!Archive!QuietTableIsArchive => Archive!QuietTableIsArchive
<1>1. Archive!Init => Proved!Archive!Init
  BY DEF Archive!Init, Proved!Archive!Init, Archive!Idle, Proved!Archive!Idle,
     Archive!None, Proved!Archive!None
<1>2. Archive!Next => Proved!Archive!Next
  BY DEF Archive!Next, Proved!Archive!Next, Archive!HandleRefresh,
     Proved!Archive!HandleRefresh, Archive!FetchLands, Proved!Archive!FetchLands,
     Archive!FetchFails, Proved!Archive!FetchFails, Archive!ServeFetch,
     Proved!Archive!ServeFetch, Archive!DeletionLands, Proved!Archive!DeletionLands,
     Archive!MakingLands, Proved!Archive!MakingLands, Archive!Shown,
     Proved!Archive!Shown, Archive!HandleInspect, Proved!Archive!HandleInspect,
     Archive!InspectionLands, Proved!Archive!InspectionLands, Archive!InspectionFails,
     Proved!Archive!InspectionFails, Archive!HandleDelete, Proved!Archive!HandleDelete,
     Archive!CloseDrawer, Proved!Archive!CloseDrawer, Archive!DeletionFails,
     Proved!Archive!DeletionFails, Archive!ServeDeletion, Proved!Archive!ServeDeletion,
     Archive!OpenGenerator, Proved!Archive!OpenGenerator, Archive!CloseGenerator,
     Proved!Archive!CloseGenerator, Archive!HandleQuickPreset,
     Proved!Archive!HandleQuickPreset, Archive!HandleGenerate,
     Proved!Archive!HandleGenerate, Archive!MakingFails, Proved!Archive!MakingFails,
     Archive!ServeMaking, Proved!Archive!ServeMaking, Archive!Others,
     Proved!Archive!Others, Archive!Refetch, Proved!Archive!Refetch, Archive!backend,
     Proved!Archive!backend, Archive!panel, Proved!Archive!panel, Archive!Idle,
     Proved!Archive!Idle, Archive!Listed, Proved!Archive!Listed, Archive!Inspected,
     Proved!Archive!Inspected, Archive!Report, Proved!Archive!Report, Archive!OnTable,
     Proved!Archive!OnTable, Archive!table, Proved!Archive!table, Archive!Outdated,
     Proved!Archive!Outdated, Archive!Make, Proved!Archive!Make, Archive!Store,
     Proved!Archive!Store, Archive!Cardinality, Proved!Archive!Cardinality,
     Archive!None, Proved!Archive!None
<1>3. Proved!Archive!DrawerIsItsReport => Archive!DrawerIsItsReport
  BY DEF Archive!DrawerIsItsReport, Proved!Archive!DrawerIsItsReport, Archive!None,
     Proved!Archive!None
<1>4. Proved!Archive!QuietTableIsArchive => Archive!QuietTableIsArchive
  BY DEF Archive!QuietTableIsArchive, Proved!Archive!QuietTableIsArchive, Archive!Idle,
     Proved!Archive!Idle, Archive!Listed, Proved!Archive!Listed, Archive!Cardinality,
     Proved!Archive!Cardinality
<1> QED BY <1>1, <1>2, <1>3, <1>4

(* The same of the rows and the tiles of reports. *)
LEMMA SameRows ==
    /\ Rows!Init => Proved!Rows!Init
    /\ Rows!Next => Proved!Rows!Next
    /\ Proved!Rows!TilesFitTable => Rows!TilesFitTable
    /\ Proved!Rows!MarkedIsDownloading => Rows!MarkedIsDownloading
<1>1. Rows!Init => Proved!Rows!Init
  BY DEF Rows!Init, Proved!Rows!Init, Rows!NoStats, Proved!Rows!NoStats, Rows!Idle,
     Proved!Rows!Idle, Rows!Still, Proved!Rows!Still, Rows!Tile, Proved!Rows!Tile,
     Rows!None, Proved!Rows!None
<1>2. \A S : Rows!Cardinality(S) = Proved!Rows!Cardinality(S) /\ Rows!Max(S) = Proved!Rows!Max(S)
  BY DEF Rows!Cardinality, Proved!Rows!Cardinality, Rows!Max, Proved!Rows!Max
<1>3. \A S : Rows!Newest(S) = Proved!Rows!Newest(S)
  BY <1>2 DEF Rows!Newest, Proved!Rows!Newest, Rows!None, Proved!Rows!None
<1>4. Rows!NewestRows = Proved!Rows!NewestRows
  BY <1>2 DEF Rows!NewestRows, Proved!Rows!NewestRows
<1>5. \A t \in Rows!Tile : Rows!Count(t) = Proved!Rows!Count(t)
  BY <1>2, <1>3 DEF Rows!Count, Proved!Rows!Count, Rows!OfFormat, Proved!Rows!OfFormat,
     Rows!Format, Proved!Rows!Format, Rows!Tile
<1>6. /\ Rows!Idle = Proved!Rows!Idle /\ Rows!Still = Proved!Rows!Still
      /\ Rows!NoStats = Proved!Rows!NoStats /\ Rows!Tile = Proved!Rows!Tile
      /\ Rows!Report = Proved!Rows!Report /\ Rows!None = Proved!Rows!None
      /\ Rows!All = Proved!Rows!All /\ Rows!Format = Proved!Rows!Format
  BY DEF Rows!Idle, Proved!Rows!Idle, Rows!Still, Proved!Rows!Still, Rows!NoStats,
     Proved!Rows!NoStats, Rows!Tile, Proved!Rows!Tile, Rows!Report, Proved!Rows!Report,
     Rows!None, Proved!Rows!None, Rows!All, Proved!Rows!All, Rows!Format,
     Proved!Rows!Format
<1>7. \A t, f : Rows!FilteredReports(t, f) = Proved!Rows!FilteredReports(t, f)
  BY DEF Rows!FilteredReports, Proved!Rows!FilteredReports, Rows!Passes,
     Proved!Rows!Passes, Rows!All, Proved!Rows!All
<1>8. Rows!Next => Proved!Rows!Next
  <2>1. /\ Rows!HandleRefresh => Proved!Rows!HandleRefresh
        /\ Rows!ReadRows => Proved!Rows!ReadRows
        /\ Rows!ListLands => Proved!Rows!ListLands
        /\ Rows!ListFails => Proved!Rows!ListFails
    BY <1>4, <1>6 DEF Rows!HandleRefresh, Proved!Rows!HandleRefresh, Rows!ReadRows,
       Proved!Rows!ReadRows, Rows!ListLands, Proved!Rows!ListLands, Rows!ListFails,
       Proved!Rows!ListFails, Rows!backend, Proved!Rows!backend, Rows!downloads,
       Proved!Rows!downloads
  <2>2. /\ \A t \in Rows!Tile : Rows!GetReportStats(t) => Proved!Rows!GetReportStats(t)
        /\ Rows!StatsLand => Proved!Rows!StatsLand
        /\ Rows!StatsFail => Proved!Rows!StatsFail
    BY <1>5, <1>6 DEF Rows!GetReportStats, Proved!Rows!GetReportStats, Rows!StatsLand,
       Proved!Rows!StatsLand, Rows!StatsFail, Proved!Rows!StatsFail, Rows!backend,
       Proved!Rows!backend, Rows!downloads, Proved!Rows!downloads
  <2>3. /\ Rows!Generate => Proved!Rows!Generate
        /\ \A r \in Rows!Report : /\ Rows!Remove(r) => Proved!Rows!Remove(r)
                                  /\ Rows!HandleDownload(r) => Proved!Rows!HandleDownload(r)
                                  /\ Rows!DownloadEnds(r) => Proved!Rows!DownloadEnds(r)
    BY <1>6, <1>7 DEF Rows!Generate, Proved!Rows!Generate, Rows!Remove,
       Proved!Rows!Remove, Rows!HandleDownload, Proved!Rows!HandleDownload,
       Rows!DownloadEnds, Proved!Rows!DownloadEnds, Rows!backend, Proved!Rows!backend,
       Rows!page, Proved!Rows!page, Rows!downloads, Proved!Rows!downloads
  <2> QED BY <1>6, <2>1, <2>2, <2>3 DEF Rows!Next, Proved!Rows!Next
<1>9. Proved!Rows!TilesFitTable => Rows!TilesFitTable
  <2>1. \A r, t, f : Rows!Passes(r, t, f) = Proved!Rows!Passes(r, t, f)
    BY DEF Rows!Passes, Proved!Rows!Passes, Rows!All, Proved!Rows!All
  <2> QED BY <1>2, <1>3, <1>6, <1>7, <2>1 DEF Rows!TilesFitTable, Proved!Rows!TilesFitTable
<1>10. Proved!Rows!MarkedIsDownloading => Rows!MarkedIsDownloading
  BY DEF Rows!MarkedIsDownloading, Proved!Rows!MarkedIsDownloading, Rows!None,
     Proved!Rows!None
<1> QED BY <1>1, <1>8, <1>9, <1>10

(* The same of the numbers of a report. *)
LEMMA SameNumbers ==
    /\ Numbers!Init => Proved!Numbers!Init
    /\ Numbers!Next => Proved!Numbers!Next
    /\ Proved!Numbers!NumbersTypeOK => Numbers!NumbersTypeOK
    /\ Proved!Numbers!ReportAddsUp => Numbers!ReportAddsUp
<1>1. \A S : Numbers!Cardinality(S) = Proved!Numbers!Cardinality(S)
  BY DEF Numbers!Cardinality, Proved!Numbers!Cardinality
<1>2. /\ Numbers!None = Proved!Numbers!None
      /\ Numbers!Severities = Proved!Numbers!Severities
      /\ Numbers!Statuses = Proved!Numbers!Statuses
      /\ Numbers!Counts = Proved!Numbers!Counts
      /\ Numbers!Names = Proved!Numbers!Names
      /\ Numbers!Zero = Proved!Numbers!Zero
      /\ Numbers!Empty = Proved!Numbers!Empty
      /\ Numbers!NoPort = Proved!Numbers!NoPort
      /\ Numbers!Address = Proved!Numbers!Address
      /\ Numbers!Port = Proved!Numbers!Port
      /\ Numbers!Row = Proved!Numbers!Row
      /\ Numbers!Guessing = Proved!Numbers!Guessing
      /\ Numbers!AdminPorts = Proved!Numbers!AdminPorts
      /\ Numbers!Anomalous = Proved!Numbers!Anomalous
  BY DEF Numbers!None, Proved!Numbers!None, Numbers!Severities,
     Proved!Numbers!Severities, Numbers!Statuses, Proved!Numbers!Statuses,
     Numbers!Counts, Proved!Numbers!Counts, Numbers!Names, Proved!Numbers!Names,
     Numbers!Zero, Proved!Numbers!Zero, Numbers!Empty, Proved!Numbers!Empty,
     Numbers!NoPort, Proved!Numbers!NoPort, Numbers!Address, Proved!Numbers!Address,
     Numbers!Port, Proved!Numbers!Port, Numbers!Row, Proved!Numbers!Row,
     Numbers!Guessing, Proved!Numbers!Guessing, Numbers!AdminPorts,
     Proved!Numbers!AdminPorts, Numbers!Anomalous, Proved!Numbers!Anomalous
<1>3. \A K : Numbers!Total(K) = Proved!Numbers!Total(K)
  BY <1>1 DEF Numbers!Total, Proved!Numbers!Total, Numbers!SumOver,
     Proved!Numbers!SumOver
<1>4. \A a : Numbers!With(a) = Proved!Numbers!With(a) /\ Numbers!At(a) = Proved!Numbers!At(a)
  BY DEF Numbers!With, Proved!Numbers!With, Numbers!At, Proved!Numbers!At
<1>5. \A a : Numbers!Tenths(a) = Proved!Numbers!Tenths(a)
  <2>1. \A f, S : Numbers!SumOver(f, S) = Proved!Numbers!SumOver(f, S)
    BY <1>1 DEF Numbers!SumOver, Proved!Numbers!SumOver
  <2> QED BY <1>3, <1>4, <2>1 DEF Numbers!Tenths, Proved!Numbers!Tenths
<1>6. \A n : Numbers!Matches(n) = Proved!Numbers!Matches(n)
  BY <1>2 DEF Numbers!Matches, Proved!Numbers!Matches
<1>7. \A n, f : Numbers!Tops(n, f) = Proved!Numbers!Tops(n, f)
  BY <1>1 DEF Numbers!Tops, Proved!Numbers!Tops
<1>8. Numbers!Init => Proved!Numbers!Init
  BY <1>2 DEF Numbers!Init, Proved!Numbers!Init
<1>9. Numbers!Next => Proved!Numbers!Next
  <2>1. \A a \in AlertId, s \in AlertSeverity, t \in AttackType :
           Numbers!Raise(a, s, t) => Proved!Numbers!Raise(a, s, t)
    BY <1>2 DEF Numbers!Raise, Proved!Numbers!Raise, Numbers!Note, Proved!Numbers!Note
  <2>2. \A a \in AlertId, to \in AlertStatus : Numbers!Triage(a, to) => Proved!Numbers!Triage(a, to)
    BY <1>2 DEF Numbers!Triage, Proved!Numbers!Triage, Numbers!Note,
       Proved!Numbers!Note
  <2>3. \A k \in LoggedKind : Numbers!Log(k) => Proved!Numbers!Log(k)
    BY <1>3 DEF Numbers!Log, Proved!Numbers!Log, Numbers!Note, Proved!Numbers!Note
  <2>4. /\ Numbers!Ask => Proved!Numbers!Ask
        /\ \A n \in Numbers!Counts : Numbers!Count(n) => Proved!Numbers!Count(n)
        /\ Numbers!GroupTypes => Proved!Numbers!GroupTypes
        /\ Numbers!CountFails => Proved!Numbers!CountFails
    BY <1>1, <1>2, <1>6 DEF Numbers!Ask, Proved!Numbers!Ask, Numbers!Count,
       Proved!Numbers!Count, Numbers!GroupTypes, Proved!Numbers!GroupTypes,
       Numbers!CountFails, Proved!Numbers!CountFails
  <2>5. Numbers!CountLogs => Proved!Numbers!CountLogs
    BY <1>2, <1>3 DEF Numbers!CountLogs, Proved!Numbers!CountLogs
  <2>6. Numbers!ListLogs => Proved!Numbers!ListLogs
    <3>1. [a \in Numbers!Address |-> Numbers!Total(Numbers!With(a))]
             = [a \in Proved!Numbers!Address |-> Proved!Numbers!Total(Proved!Numbers!With(a))]
      BY <1>2, <1>3, <1>4
    <3>2. [a \in Numbers!Port |-> Numbers!Total(Numbers!At(a))]
             = [a \in Proved!Numbers!Port |-> Proved!Numbers!Total(Proved!Numbers!At(a))]
      BY <1>2, <1>3, <1>4
    <3>3. \A ips : {[ip |-> a, tenths |-> Numbers!Tenths(a)] : a \in ips}
                      = {[ip |-> a, tenths |-> Proved!Numbers!Tenths(a)] : a \in ips}
      BY <1>5
    <3> QED BY <1>7, <3>1, <3>2, <3>3 DEF Numbers!ListLogs, Proved!Numbers!ListLogs
  <2>7. Numbers!AskLogs => Proved!Numbers!AskLogs
    BY <2>5, <2>6 DEF Numbers!AskLogs, Proved!Numbers!AskLogs
  <2>8. Numbers!LogsFail => Proved!Numbers!LogsFail
    BY DEF Numbers!LogsFail, Proved!Numbers!LogsFail
  <2> QED BY <1>2, <2>1, <2>2, <2>3, <2>4, <2>7, <2>8 DEF Numbers!Next, Proved!Numbers!Next
<1>10. Proved!Numbers!NumbersTypeOK => Numbers!NumbersTypeOK
  BY <1>2, <1>3 DEF Numbers!NumbersTypeOK, Proved!Numbers!NumbersTypeOK
<1>11. Proved!Numbers!ReportAddsUp => Numbers!ReportAddsUp
  <2>1. \A f, S : Numbers!SumOver(f, S) = Proved!Numbers!SumOver(f, S)
    BY <1>1 DEF Numbers!SumOver, Proved!Numbers!SumOver
  <2>2. /\ Numbers!activeAlerts = Proved!Numbers!activeAlerts
        /\ Numbers!Posture = Proved!Numbers!Posture
        /\ \A s : Numbers!Percentage(s) = Proved!Numbers!Percentage(s)
    BY DEF Numbers!activeAlerts, Proved!Numbers!activeAlerts, Numbers!Posture,
       Proved!Numbers!Posture, Numbers!Percentage, Proved!Numbers!Percentage
  <2>3. Numbers!Recommendations = Proved!Numbers!Recommendations
    BY <1>2 DEF Numbers!Recommendations, Proved!Numbers!Recommendations
  <2>4. /\ Numbers!PdfRows = Proved!Numbers!PdfRows /\ Numbers!Csv = Proved!Numbers!Csv
        /\ \A x : Numbers!Pdf(x) = Proved!Numbers!Pdf(x)
    BY <1>1, <1>2 DEF Numbers!PdfRows, Proved!Numbers!PdfRows, Numbers!Csv,
       Proved!Numbers!Csv, Numbers!Pdf, Proved!Numbers!Pdf
  <2>5. \A x, y : Numbers!GivesReason(x, y) <=> Proved!Numbers!GivesReason(x, y)
    BY <1>2 DEF Numbers!GivesReason, Proved!Numbers!GivesReason
  <2>6. Proved!Numbers!NumbersFit => Numbers!NumbersFit
    BY <1>2, <2>1, <2>2 DEF Numbers!NumbersFit, Proved!Numbers!NumbersFit
  <2>7. Proved!Numbers!AdviceFits => Numbers!AdviceFits
    BY <1>1, <1>2, <1>6, <2>2, <2>3, <2>4, <2>5 DEF Numbers!AdviceFits,
       Proved!Numbers!AdviceFits
  <2> QED BY <2>6, <2>7 DEF Numbers!ReportAddsUp, Proved!Numbers!ReportAddsUp
<1> QED BY <1>8, <1>9, <1>10, <1>11

(* A behaviour stays with its component. *)
LEMMA OneComponent ==
  ASSUME [OfficeNext]_OfficeVars
  PROVE  /\ which' = which
         /\ which = "People" => People!Next \/ UNCHANGED <<v1, v2, v3, v4>>
         /\ which = "Tokens" =>
               Tokens!Next \/ UNCHANGED <<v1, v2, v3, v4, v5, v6, v7, v8, v9, v10>>
         /\ which = "Entry" =>
               Entry!Next \/ UNCHANGED <<v1, v2, v3, v4, v5, v6, v7, v8, v9, v10>>
         /\ which = "Notices" => Notices!Next \/ UNCHANGED <<v1, v2, v3, v4, v5>>
         /\ which = "Forms" =>
               Forms!Next \/ UNCHANGED <<v1, v2, v3, v4, v5, v6, v7, v8, v9>>
         /\ which = "Users" => Users!Next \/ UNCHANGED <<v1, v2, v3, v4, v5, v6, v7, v8>>
         /\ which = "Form" => Form!Next \/ UNCHANGED <<v1, v2, v3, v4, v5, v6>>
         /\ which = "Archive" =>
               \/ Archive!Next
               \/ UNCHANGED <<v1, v2, v3, v4, v5, v6, v7, v8, v9, v10, v11>>
         /\ which = "Rows" =>
               Rows!Next \/ UNCHANGED <<v1, v2, v3, v4, v5, v6, v7, v8, v9>>
         /\ which = "Numbers" =>
               Numbers!Next \/ UNCHANGED <<v1, v2, v3, v4, v5, v6, v7, v8>>
  BY DEF OfficeNext, OfficeVars

-------------------------------------------------------------------------------
(* Accounts *)
LEMMA PeopleInvHolds == OfficeSpec => []PeopleInv
<1>1. OfficeInit => PeopleInv
  <2>1. OfficeInit /\ which = "People" => People!Init
    BY DEF OfficeInit
  <2> QED BY <2>1, SamePeople, Proved!AccountsInitInv DEF PeopleInv
<1>2. PeopleInv /\ [OfficeNext]_OfficeVars => PeopleInv'
  <2> SUFFICES ASSUME PeopleInv, [OfficeNext]_OfficeVars, which' = "People"
               PROVE  Proved!AccountsInv'
    BY DEF PeopleInv
  <2>1. [Proved!People!Next]_(Proved!People!vars)
    BY OneComponent, SamePeople DEF Proved!People!vars
  <2> QED BY <2>1, OneComponent, Proved!AccountsNext DEF PeopleInv
<1> QED BY <1>1, <1>2, PTL DEF OfficeSpec

(* A replaced password and a deactivated account let nothing in, once the  *)
(* requests they had let in are over (auth.service.ts, jwt.strategy.ts).   *)
THEOREM RevokedStaysOut == OfficeSpec => []RevokedIsOut
<1>1. PeopleInv => RevokedIsOut
  BY SamePeople DEF PeopleInv, RevokedIsOut, Proved!AccountsInv
<1> QED BY <1>1, PeopleInvHolds, PTL

(* Only an activation brings a deactivated account back, however updates   *)
(* overlap with the deactivation (users.service.ts).                       *)
THEOREM DisabledStaysOff == OfficeSpec => DisabledUntilReactivated
<1>1. PeopleInv /\ [OfficeNext]_OfficeVars => [which = "People" => People!NotRevived]_OfficeVars
  <2> SUFFICES ASSUME PeopleInv, OfficeNext, which = "People"
               PROVE  People!NotRevived
    OBVIOUS
  <2>1. CASE People!Next
    <3>1. Proved!People!NotRevived \/ UNCHANGED Proved!People!vars
      BY <2>1, SamePeople, Proved!NoneRevived DEF PeopleInv
    <3>2. CASE UNCHANGED Proved!People!vars
      BY <3>2 DEF Proved!People!vars, People!NotRevived, People!Exists, People!Active
    <3> QED BY <3>1, <3>2, SamePeople
  <2>2. CASE UNCHANGED <<v1, v2, v3, v4>>
    BY <2>2 DEF People!NotRevived, People!Exists, People!Active
  <2> QED BY <2>1, <2>2, OneComponent
<1> QED BY <1>1, PeopleInvHolds, PTL DEF OfficeSpec, DisabledUntilReactivated

-------------------------------------------------------------------------------
(* The session of a tab *)
LEMMA SessionInvHolds == OfficeSpec => []SessionInv
<1>1. OfficeInit => SessionInv
  <2>1. OfficeInit /\ which = "Tokens" => Tokens!Init
    BY DEF OfficeInit
  <2> QED BY <2>1, SameTokens, OfficeAssumption, Proved!TokensInitInv DEF SessionInv
<1>2. SessionInv /\ [OfficeNext]_OfficeVars => SessionInv'
  <2> SUFFICES ASSUME SessionInv, [OfficeNext]_OfficeVars, which' = "Tokens"
               PROVE  Proved!TokensInv'
    BY DEF SessionInv
  <2>1. [Proved!Tokens!Next]_(Proved!Tokens!vars)
    BY OneComponent, SameTokens DEF Proved!Tokens!vars
  <2> QED BY <2>1, OneComponent, OfficeAssumption, Proved!TokensNext DEF SessionInv
<1> QED BY <1>1, <1>2, PTL DEF OfficeSpec

LEMMA GateInvHolds == OfficeSpec => []GateInv
<1>1. OfficeInit => GateInv
  <2>1. OfficeInit /\ which = "Entry" => Entry!Init
    BY DEF OfficeInit
  <2> QED BY <2>1, SameEntry, Proved!EntryInitInv DEF GateInv
<1>2. GateInv /\ [OfficeNext]_OfficeVars => GateInv'
  <2> SUFFICES ASSUME GateInv, [OfficeNext]_OfficeVars, which' = "Entry"
               PROVE  Proved!EntryInv'
    BY DEF GateInv
  <2>1. [Proved!Entry!Next]_(Proved!Entry!vars)
    BY OneComponent, SameEntry DEF Proved!Entry!vars
  <2> QED BY <2>1, OneComponent, Proved!EntryNext DEF GateInv
<1> QED BY <1>1, <1>2, PTL DEF OfficeSpec

(* A tab that shows itself signed in holds tokens, of the user it names,   *)
(* unless a call outlived a change of the session (api.ts, auth-store.ts); *)
(* who is signed in is at the dashboard once the page is at rest, and the  *)
(* forms in front of it send what the backend accepts (login/page.tsx).    *)
THEOREM SessionStaysWhole == OfficeSpec => []SessionIsWhole
<1>1. SessionInv /\ GateInv => SessionIsWhole
  <2>1. Proved!TokensInv => Tokens!SignedInHasTokens /\ Tokens!SessionIsItsUsers
    <3> SUFFICES ASSUME Proved!TokensInv
                 PROVE  Proved!Tokens!SignedInHasTokens /\ Proved!Tokens!SessionIsItsUsers
      BY SameTokens
    <3> QED BY DEF Proved!TokensInv, Proved!OneSession, Proved!Tokens!SessionIsItsUsers
  <2> QED BY <2>1, SameEntry DEF SessionInv, GateInv, SessionIsWhole
<1> QED BY <1>1, SessionInvHolds, GateInvHolds, PTL

-------------------------------------------------------------------------------
(* A user's own settings *)
LEMMA NoticesInvHolds == OfficeSpec => []NoticesInv
<1>0. Proved!NoticesAssumption
  BY OfficeAssumption DEF Proved!NoticesAssumption
<1>1. OfficeInit => NoticesInv
  <2>1. OfficeInit /\ which = "Notices" => Notices!Init
    BY DEF OfficeInit
  <2> QED BY <1>0, <2>1, SameNotices, Proved!NoticesInit DEF NoticesInv
<1>2. NoticesInv /\ [OfficeNext]_OfficeVars => NoticesInv'
  <2> SUFFICES ASSUME NoticesInv, [OfficeNext]_OfficeVars, which' = "Notices"
               PROVE  Proved!NoticesInv'
    BY DEF NoticesInv
  <2>1. [Proved!Notices!Next]_(Proved!Notices!vars)
    BY OneComponent, SameNotices DEF Proved!Notices!vars
  <2> QED BY <1>0, <2>1, OneComponent, Proved!NoticesNext DEF NoticesInv
<1> QED BY <1>1, <1>2, PTL DEF OfficeSpec

LEMMA FormsInvHolds == OfficeSpec => []FormsInv
<1>0. Proved!FormsAssumption
  BY OfficeAssumption DEF Proved!FormsAssumption
<1>1. OfficeInit => FormsInv
  <2>1. OfficeInit /\ which = "Forms" => Forms!Init
    BY DEF OfficeInit
  <2> QED BY <1>0, <2>1, SameForms, Proved!FormsInit DEF FormsInv
<1>2. FormsInv /\ [OfficeNext]_OfficeVars => FormsInv'
  <2> SUFFICES ASSUME FormsInv, [OfficeNext]_OfficeVars, which' = "Forms"
               PROVE  Proved!FormsInv'
    BY DEF FormsInv
  <2>1. [Proved!Forms!Next]_(Proved!Forms!vars)
    BY OneComponent, SameForms DEF Proved!Forms!vars
  <2> QED BY <1>0, <2>1, OneComponent, Proved!FormsNext DEF FormsInv
<1> QED BY <1>1, <1>2, PTL DEF OfficeSpec

(* A clean form of notifications at rest shows the row, unless another one *)
(* saved (notification-settings.tsx); the forms of name and password know  *)
(* what is stored, wait for one request of their own and blame nobody for  *)
(* what he did not type (profile-settings.tsx, security-settings.tsx).     *)
THEOREM SettingsAreTrue == OfficeSpec => []PreferencesShown
<1>1. NoticesInv /\ FormsInv => PreferencesShown
  BY SameNotices, SameForms, Proved!NoticesShown, Proved!FormsShown
     DEF NoticesInv, FormsInv, PreferencesShown
<1> QED BY <1>1, NoticesInvHolds, FormsInvHolds, PTL

-------------------------------------------------------------------------------
(* The page of users *)
LEMMA UsersInvHolds == OfficeSpec => []UsersInv
<1>0. Proved!UsersAssumption
  BY OfficeAssumption DEF Proved!UsersAssumption
<1>1. OfficeInit => UsersInv
  <2>1. OfficeInit /\ which = "Users" => Users!Init
    BY DEF OfficeInit
  <2> QED BY <1>0, <2>1, SameUsers, Proved!UsersInit DEF UsersInv
<1>2. UsersInv /\ [OfficeNext]_OfficeVars => UsersInv'
  <2> SUFFICES ASSUME UsersInv, [OfficeNext]_OfficeVars, which' = "Users"
               PROVE  Proved!UsersInv'
    BY DEF UsersInv
  <2>1. [Proved!Users!Next]_(Proved!Users!vars)
    BY OneComponent, SameUsers DEF Proved!Users!vars
  <2> QED BY <1>0, <2>1, OneComponent, Proved!UsersNext DEF UsersInv
<1> QED BY <1>1, <1>2, PTL DEF OfficeSpec

(* The cards of a page of users at rest, unless something failed, crossed  *)
(* or was done by others since its last fetch, are the accounts stored     *)
(* (users/page.tsx).                                                       *)
THEOREM CardsAreStored == OfficeSpec => []ShownIsStored
<1>1. UsersInv => ShownIsStored
  BY SameUsers, Proved!UsersShown DEF UsersInv, ShownIsStored
<1> QED BY <1>1, UsersInvHolds, PTL

-------------------------------------------------------------------------------
(* The pages of reports *)
LEMMA FormInvHolds == OfficeSpec => []FormInv
<1>0. Proved!FormAssumption
  BY OfficeAssumption DEF Proved!FormAssumption
<1>1. OfficeInit => FormInv
  <2>1. OfficeInit /\ which = "Form" => Form!Init
    BY DEF OfficeInit
  <2> QED BY <1>0, <2>1, SameForm, Proved!FormInit DEF FormInv
<1>2. FormInv /\ [OfficeNext]_OfficeVars => FormInv'
  <2> SUFFICES ASSUME FormInv, [OfficeNext]_OfficeVars, which' = "Form"
               PROVE  Proved!FormInv'
    BY DEF FormInv
  <2>1. [Proved!Form!Next]_(Proved!Form!vars)
    BY OneComponent, SameForm DEF Proved!Form!vars
  <2> QED BY <1>0, <2>1, OneComponent, Proved!FormNext DEF FormInv
<1> QED BY <1>1, <1>2, PTL DEF OfficeSpec

LEMMA ArchiveInvHolds == OfficeSpec => []ArchiveInv
<1>0. Proved!ArchiveAssumption
  BY OfficeAssumption DEF Proved!ArchiveAssumption
<1>1. OfficeInit => ArchiveInv
  <2>1. OfficeInit /\ which = "Archive" => Archive!Init
    BY DEF OfficeInit
  <2> QED BY <1>0, <2>1, SameArchive, Proved!ArchiveInit DEF ArchiveInv
<1>2. ArchiveInv /\ [OfficeNext]_OfficeVars => ArchiveInv'
  <2> SUFFICES ASSUME ArchiveInv, [OfficeNext]_OfficeVars, which' = "Archive"
               PROVE  Proved!ArchiveInv'
    BY DEF ArchiveInv
  <2>1. [Proved!Archive!Next]_(Proved!Archive!vars)
    BY OneComponent, SameArchive DEF Proved!Archive!vars
  <2> QED BY <1>0, <2>1, OneComponent, Proved!ArchiveNext DEF ArchiveInv
<1> QED BY <1>1, <1>2, PTL DEF OfficeSpec

LEMMA RowsInvHolds == OfficeSpec => []RowsInv
<1>0. Proved!RowsAssumption
  BY OfficeAssumption DEF Proved!RowsAssumption
<1>1. OfficeInit => RowsInv
  <2>1. OfficeInit /\ which = "Rows" => Rows!Init
    BY DEF OfficeInit
  <2> QED BY <1>0, <2>1, SameRows, Proved!RowsInit DEF RowsInv
<1>2. RowsInv /\ [OfficeNext]_OfficeVars => RowsInv'
  <2> SUFFICES ASSUME RowsInv, [OfficeNext]_OfficeVars, which' = "Rows"
               PROVE  Proved!RowsInv'
    BY DEF RowsInv
  <2>1. [Proved!Rows!Next]_(Proved!Rows!vars)
    BY OneComponent, SameRows DEF Proved!Rows!vars
  <2> QED BY <1>0, <2>1, OneComponent, Proved!RowsNext DEF RowsInv
<1> QED BY <1>1, <1>2, PTL DEF OfficeSpec

(* What reports/page.tsx shows - the drawer, the table, the tiles beside   *)
(* it and the preview of the form - is of the report, the archive and the  *)
(* form it stands for, whatever requests interleave.                       *)
THEOREM ArchiveIsShown == OfficeSpec => []ReportsPageShowsArchive
<1>0. Proved!RowsAssumption
  BY OfficeAssumption DEF Proved!RowsAssumption
<1>1. FormInv => (which = "Form" => Form!PreviewIsOfForm /\ Form!TitleNamesType)
  BY SameForm, Proved!FormShown DEF FormInv
<1>2. ArchiveInv =>
        (which = "Archive" => Archive!DrawerIsItsReport /\ Archive!QuietTableIsArchive)
  BY SameArchive, Proved!ArchiveShown DEF ArchiveInv
<1>3. RowsInv => (which = "Rows" => Rows!TilesFitTable /\ Rows!MarkedIsDownloading)
  BY <1>0, SameRows, Proved!RowsShown DEF RowsInv
<1>4. FormInv /\ ArchiveInv /\ RowsInv => ReportsPageShowsArchive
  BY <1>1, <1>2, <1>3 DEF ReportsPageShowsArchive
<1> QED BY <1>4, FormInvHolds, ArchiveInvHolds, RowsInvHolds, PTL

-------------------------------------------------------------------------------
(* The numbers of a report *)
LEMMA NumbersInvHolds == OfficeSpec => []NumbersInv
<1>0. Proved!NumbersAssumption
  <2>1. \A S : IsFiniteSet(S) <=> Proved!IsFiniteSet(S)
    BY DEF IsFiniteSet, Proved!IsFiniteSet
  <2> QED BY <2>1, OfficeAssumption DEF Proved!NumbersAssumption
<1>1. OfficeInit => NumbersInv
  <2>1. OfficeInit /\ which = "Numbers" => Numbers!Init
    BY DEF OfficeInit
  <2> QED BY <1>0, <2>1, SameNumbers, Proved!NumbersInit DEF NumbersInv
<1>2. NumbersInv /\ [OfficeNext]_OfficeVars => NumbersInv'
  <2> SUFFICES ASSUME NumbersInv, [OfficeNext]_OfficeVars, which' = "Numbers"
               PROVE  Proved!NumbersInv'
    BY DEF NumbersInv
  <2>1. [Proved!Numbers!Next]_(Proved!Numbers!vars)
    BY OneComponent, SameNumbers DEF Proved!Numbers!vars
  <2> QED BY <1>0, <2>1, OneComponent, Proved!NumbersNext DEF NumbersInv
<1> QED BY <1>1, <1>2, PTL DEF OfficeSpec

(* The numbers of a report add up as far as nothing was changed while they *)
(* were counted, and its posture, advice and files follow from them        *)
(* (reports.service.ts, aggregateReportData).                              *)
THEOREM NumbersAddUp == OfficeSpec => []ReportAddsUp
<1>0. Proved!NumbersAssumption
  <2>1. \A S : IsFiniteSet(S) <=> Proved!IsFiniteSet(S)
    BY DEF IsFiniteSet, Proved!IsFiniteSet
  <2> QED BY <2>1, OfficeAssumption DEF Proved!NumbersAssumption
<1>1. NumbersInv => ReportAddsUp
  BY <1>0, SameNumbers, Proved!NumbersShown DEF NumbersInv, ReportAddsUp
<1> QED BY <1>1, NumbersInvHolds, PTL

-------------------------------------------------------------------------------
(* Types *)
LEMMA SameTypes ==
    /\ Proved!Tokens!RefreshTypeOK => Tokens!RefreshTypeOK
    /\ Proved!People!AccountsTypeOK => People!AccountsTypeOK
    /\ Proved!Users!UsersTypeOK => Users!UsersTypeOK
    /\ Proved!Entry!SignInTypeOK => Entry!SignInTypeOK
    /\ Proved!Forms!AccountFormsTypeOK => Forms!AccountFormsTypeOK
    /\ Proved!Notices!NotificationTypeOK => Notices!NotificationTypeOK
    /\ Proved!Archive!ReportsTypeOK => Archive!ReportsTypeOK
    /\ Proved!Form!FormTypeOK => Form!FormTypeOK
    /\ Proved!Rows!ListTypeOK => Rows!ListTypeOK
<1>1. Proved!Tokens!RefreshTypeOK => Tokens!RefreshTypeOK
  BY DEF Tokens!RefreshTypeOK, Proved!Tokens!RefreshTypeOK, Tokens!Pair,
     Proved!Tokens!Pair, Tokens!NoUser, Proved!Tokens!NoUser, Tokens!Requests,
     Proved!Tokens!Requests, Tokens!Idle, Proved!Tokens!Idle
<1>2. Proved!People!AccountsTypeOK => People!AccountsTypeOK
  BY DEF People!AccountsTypeOK, Proved!People!AccountsTypeOK, People!Account,
     Proved!People!Account, People!NoAccount, Proved!People!NoAccount, People!Kind,
     Proved!People!Kind, People!Requests, Proved!People!Requests, People!Credential,
     Proved!People!Credential, People!Role, Proved!People!Role, People!Idle,
     Proved!People!Idle, People!Change, Proved!People!Change
<1>3. Proved!Users!UsersTypeOK => Users!UsersTypeOK
  BY DEF Users!UsersTypeOK, Proved!Users!UsersTypeOK, Users!Fields,
     Proved!Users!Fields, Users!None, Proved!Users!None, Users!Ordered,
     Proved!Users!Ordered, Users!Id, Proved!Users!Id, Users!Dialogs,
     Proved!Users!Dialogs, Users!Requests, Proved!Users!Requests, Users!Made,
     Proved!Users!Made, Users!Closed, Proved!Users!Closed, Users!FormOp,
     Proved!Users!FormOp, Users!Idle, Proved!Users!Idle
<1>4. Proved!Entry!SignInTypeOK => Entry!SignInTypeOK
  BY DEF Entry!SignInTypeOK, Proved!Entry!SignInTypeOK, Entry!Route,
     Proved!Entry!Route, Entry!Calls, Proved!Entry!Calls, Entry!NoCall,
     Proved!Entry!NoCall, Entry!Form, Proved!Entry!Form, Entry!Text, Proved!Entry!Text,
     Entry!PasswordText, Proved!Entry!PasswordText
<1>5. Proved!Forms!AccountFormsTypeOK => Forms!AccountFormsTypeOK
  BY DEF Forms!AccountFormsTypeOK, Proved!Forms!AccountFormsTypeOK, Forms!Kind,
     Proved!Forms!Kind, Forms!Values, Proved!Forms!Values, Forms!Input,
     Proved!Forms!Input, Forms!Call, Proved!Forms!Call, Forms!Blank, Proved!Forms!Blank
<1>6. Proved!Notices!NotificationTypeOK => Notices!NotificationTypeOK
  BY DEF Notices!NotificationTypeOK, Proved!Notices!NotificationTypeOK, Notices!Prefs,
     Proved!Notices!Prefs, Notices!Cardinality, Proved!Notices!Cardinality,
     Notices!Phase, Proved!Notices!Phase
<1>7. Proved!Archive!ReportsTypeOK => Archive!ReportsTypeOK
  BY DEF Archive!ReportsTypeOK, Proved!Archive!ReportsTypeOK, Archive!Report,
     Proved!Archive!Report, Archive!Idle, Proved!Archive!Idle, Archive!Shown,
     Proved!Archive!Shown, Archive!None, Proved!Archive!None, Archive!Maker,
     Proved!Archive!Maker
<1>8. Proved!Form!FormTypeOK => Form!FormTypeOK
  BY DEF Form!FormTypeOK, Proved!Form!FormTypeOK, Form!Format, Proved!Form!Format,
     Form!Title, Proved!Form!Title, Form!NoDate, Proved!Form!NoDate, Form!Payload,
     Proved!Form!Payload, Form!None, Proved!Form!None, Form!Suggested,
     Proved!Form!Suggested, Form!Typed, Proved!Form!Typed
<1>9. Proved!Rows!ListTypeOK => Rows!ListTypeOK
  BY DEF Rows!ListTypeOK, Proved!Rows!ListTypeOK, Rows!Report, Proved!Rows!Report,
     Rows!Cardinality, Proved!Rows!Cardinality, Rows!Tile, Proved!Rows!Tile, Rows!None,
     Proved!Rows!None
<1> QED BY <1>1, <1>2, <1>3, <1>4, <1>5, <1>6, <1>7, <1>8, <1>9

(* The component the run is about is one of the ten. *)
OneOfThem == which \in {"Tokens", "People", "Users", "Entry", "Forms", "Notices",
                       "Archive", "Numbers", "Form", "Rows"}

(* Every variable of every component keeps to its type. *)
THEOREM OfficeTypeCorrect == OfficeSpec => []OfficeTypeOK
<1>1. OfficeInit => OneOfThem
  BY DEF OfficeInit, OneOfThem
<1>2. OneOfThem /\ [OfficeNext]_OfficeVars => OneOfThem'
  BY OneComponent DEF OneOfThem
<1>3. SessionInv => (which = "Tokens" => Tokens!RefreshTypeOK)
  BY SameTypes DEF SessionInv, Proved!TokensInv
<1>4. PeopleInv => (which = "People" => People!AccountsTypeOK)
  BY SameTypes DEF PeopleInv, Proved!AccountsInv
<1>5. UsersInv => (which = "Users" => Users!UsersTypeOK)
  BY SameTypes DEF UsersInv, Proved!UsersInv
<1>6. GateInv => (which = "Entry" => Entry!SignInTypeOK)
  BY SameTypes DEF GateInv, Proved!EntryInv
<1>7. FormsInv => (which = "Forms" => Forms!AccountFormsTypeOK)
  BY SameTypes DEF FormsInv, Proved!FormsInv
<1>8. NoticesInv => (which = "Notices" => Notices!NotificationTypeOK)
  BY SameTypes DEF NoticesInv, Proved!NoticesInv
<1>9. ArchiveInv => (which = "Archive" => Archive!ReportsTypeOK)
  BY SameTypes DEF ArchiveInv, Proved!ArchiveInv
<1>10. FormInv => (which = "Form" => Form!FormTypeOK)
  BY SameTypes DEF FormInv, Proved!FormInv
<1>11. RowsInv => (which = "Rows" => Rows!ListTypeOK)
  BY SameTypes DEF RowsInv, Proved!RowsInv
<1>12. NumbersInv => (which = "Numbers" => Numbers!NumbersTypeOK)
  BY SameNumbers DEF NumbersInv, Proved!NumbersInv
<1>13. /\ OneOfThem
       /\ SessionInv /\ PeopleInv /\ UsersInv /\ GateInv /\ FormsInv
       /\ NoticesInv /\ ArchiveInv /\ NumbersInv /\ FormInv /\ RowsInv
       => OfficeTypeOK
  BY <1>3, <1>4, <1>5, <1>6, <1>7, <1>8, <1>9, <1>10, <1>11, <1>12
     DEF OfficeTypeOK, OneOfThem
<1> QED BY <1>1, <1>2, <1>13, SessionInvHolds, PeopleInvHolds, UsersInvHolds, GateInvHolds,
           FormsInvHolds, NoticesInvHolds, ArchiveInvHolds, NumbersInvHolds, FormInvHolds,
           RowsInvHolds, PTL DEF OfficeSpec

===============================================================================
