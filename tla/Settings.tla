------------------------------ MODULE Settings ------------------------------
(***************************************************************************)
(* The runtime settings: settings/settings.go over the table               *)
(* runtime_settings, and the two handlers that change them                 *)
(* (handlers/config_handlers.go).                                          *)
(*                                                                         *)
(* Of the settings only the week of reference is kept: the developer       *)
(* changes its date or its type, an administrator says of which type the   *)
(* current week is.  Update holds updateMu while it saves and publishes.   *)
(***************************************************************************)
EXTENDS WeekCalendar

VARIABLES
    stored,    \* the row of runtime_settings
    published, \* Manager.values, which everybody reads
    update,    \* the Update that runs: its next step, its values, the date of its press
               \* and whether it chose the current week
    told,      \* history: the settings in force, as the last success or start told them
    doubt      \* history: the settings of Updates that failed since

settingsVars == <<stored, published, update, told, doubt>>

-----------------------------------------------------------------------------
Weeks == [date : Nat, type : WeekTypes]
Updates == [step : {"save", "publish"}, values : Weeks, at : Nat, current : BOOLEAN]

SettingsTypeOK ==
    /\ stored \in Weeks /\ published \in Weeks /\ told \in Weeks
    /\ update \in SUBSET Updates /\ \A u, v \in update : u = v
    /\ doubt \in SUBSET Weeks

SettingsInit(seed) ==
    /\ stored = seed /\ published = seed /\ told = seed
    /\ update = {} /\ doubt = {}

BeginUpdate(values, today, current) ==
    /\ update = {}
    /\ update' = {[step |-> "save", values |-> values, at |-> today, current |-> current]}
    /\ UNCHANGED <<stored, published, told, doubt>>

(* changeConfigValue for the fields week1_date and week1_type.             *)
ChangeField(date, type, today) ==
    /\ date = published.date \/ type = published.type
    /\ BeginUpdate([date |-> date, type |-> type], today, FALSE)

(* Mutant: the button of an earlier week is taken at its word.             *)
CurrentMonday(monday, today) == monday <= today

(* setCurrentWeek: the button must have been drawn in the current week.    *)
ButtonHolds(monday, today) == monday = MondayOf(today)

SetCurrentWeek(monday, type, today) ==
    /\ ButtonHolds(monday, today)
    /\ BeginUpdate([date |-> monday, type |-> type], today, TRUE)

(* Mutant: ON CONFLICT DO NOTHING, so that the row of before stays.        *)
SaveNothing ==
    \E u \in update :
        /\ u.step = "save"
        /\ update' = {[u EXCEPT !.step = "publish"]}
        /\ UNCHANGED <<stored, published, told, doubt>>

Save ==
    \E u \in update :
        /\ u.step = "save"
        /\ stored' = u.values
        /\ update' = {[u EXCEPT !.step = "publish"]}
        /\ UNCHANGED <<published, told, doubt>>

(* SaveSettings fails, before or after the row is written.                 *)
SaveFails ==
    \E u \in update :
        /\ u.step = "save"
        /\ stored' \in {stored, u.values}
        /\ update' = {} /\ doubt' = doubt \cup {u.values}
        /\ UNCHANGED <<published, told>>

Publish ==
    \E u \in update :
        /\ u.step = "publish"
        /\ published' = u.values /\ told' = u.values
        /\ update' = {} /\ doubt' = {}
        /\ UNCHANGED stored

(* NewManager after the process was killed.                                *)
LoadSettings ==
    /\ published' = stored /\ told' = stored
    /\ update' = {} /\ doubt' = {}
    /\ UNCHANGED stored
=============================================================================
