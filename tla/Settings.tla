------------------------------- MODULE Settings -------------------------------
(***************************************************************************)
(* Table sys_settings behind /api/admin/settings (server.go) and the       *)
(* settings page that several administrators may have open (static/app.js) *)
(* with its six forms and its switches; the auto-renewal switch of the     *)
(* profile page works the same way and is one more key here.               *)
(*                                                                         *)
(* A form posts all of its fields, the ones nobody touched included; the   *)
(* handler stores them one by one, in any order, each under a lock of its  *)
(* own, so that several saves interleave, and stops at an error.  A POST   *)
(* reaches the server and is answered at any later time, when its handler  *)
(* has ended; a GET is answered from the table of the moment it is sent,   *)
(* and arrives whenever.                                                   *)
(*                                                                         *)
(* Keys that are stored and shown alike stand for one another: a form has  *)
(* as many here as its properties need.  NoValue is an empty field.  The   *)
(* synchronisation that a POST may start is module RecordStore's.          *)
(***************************************************************************)
EXTENDS Naturals, FiniteSets, Functions

CONSTANTS
    Browser,
    Key,            \* the keys of this instance
    Value,          \* values of fields
    Stored,         \* what the table holds at first
    Duty,           \* Duty[b]: the forms and switches browser b may use
    MaxClicks,      \* bound: what people do
    MaxFaults,      \* bound: calls that fail
    NoValue

Switch == {"open_registration", "cf_turnstile_enabled", "cf_best_enabled",
           "tg_backup_enabled", "auto_renew"}

OnOff == {0, 1}

\* The forms of the page and their fields.
Fields ==
    [ns |-> {"ns_nodes"},
     plan |-> {"plan_name", "plan_domain_limit", "price_monthly", "price_quarterly"},
     payment |-> {"epay_secret_key", "mgate_secret_key",
                  "usdt_trc20_address", "usdt_cny_rate"},
     cf_best |-> {"cf_best_domain", "cf_best_interval", "cf_best_api_url"},
     turnstile |-> {"cf_turnstile_site_key", "cf_turnstile_secret_key"},
     tg |-> {"tg_bot_token", "tg_chat_id", "tg_backup_time"}]

Form == DOMAIN Fields

\* The fields that may be stored empty.  The others are required, or an empty
\* input is sent as 0 (the rate) or 02:00 (the time of the backup).
Optional ==
    (Fields["payment"] \ {"usdt_cny_rate"}) \cup Fields["turnstile"]
        \cup {"tg_bot_token", "tg_chat_id"}

Keys(x) == Key \cap (IF x \in Form THEN Fields[x] ELSE {x})

Allowed(k) == (IF k \in Switch THEN OnOff ELSE Value) \cup {NoValue}
Contents(K) == {f \in [K -> Value \cup OnOff \cup {NoValue}] : \A k \in K : f[k] \in Allowed(k)}

ASSUME SettingsAssumption ==
    /\ Key \subseteq Switch \cup UNION {Fields[f] : f \in Form}
    /\ Duty \in [Browser -> SUBSET (Form \cup Switch)]
    /\ \A b, c \in Browser : b # c => Duty[b] \cap Duty[c] = {}
    /\ NoValue \notin Value \cup OnOff /\ NoValue \notin Key
    /\ Stored \in Contents(Key)
    /\ MaxClicks \in Nat /\ MaxFaults \in Nat

VARIABLES
    settings,   \* sys_settings
    page,       \* page[b]: what the inputs of browser b hold
    calls,      \* calls under way
    clicks, faults,
    wish,       \* history: the values typed for each key since one was
                \* confirmed, and that one
    crossed     \* history: somebody clicked while a call of his was under
                \* way, or a load failed

settingsVars == <<settings, page, calls, wish, crossed>>
counters == <<clicks, faults>>

\* A load holds the table, a POST of form or switch x the fields of x, some
\* of them left to be stored.
Loads == [by : Browser, of : {"load"}, at : {"ok"}, data : Contents(Key), key : {NoValue},
          left : {{}}]
Posts(b, x) == [by : {b}, of : {x}, at : {"sent", "ok", "failed"},
                data : Contents(Keys(x)), key : Keys(x), left : SUBSET Keys(x)]

SettingsTypeOK ==
    /\ settings \in Contents(Key)
    /\ wish \in [Key -> SUBSET (Value \cup OnOff \cup {NoValue})]
    /\ page \in [Browser -> Contents(Key)]
    /\ \A c \in calls : c \in Loads \/ \E b \in Browser : \E x \in Duty[b] : c \in Posts(b, x)
    /\ clicks \in 0..MaxClicks /\ faults \in 0..MaxFaults
    /\ crossed \in BOOLEAN

(***************************************************************************)
(* The page                                                                *)
(***************************************************************************)
Load(b) ==
    [by |-> b, of |-> "load", at |-> "ok", data |-> settings, key |-> NoValue, left |-> {}]

Busy(b) == \E c \in calls : c.by = b

Clicks(b) ==
    /\ clicks < MaxClicks
    /\ clicks' = clicks + 1
    /\ crossed' = (crossed \/ Busy(b))

\* switchTab asks for the data of the pane.
Opens(b) ==
    /\ Clicks(b)
    /\ calls' = calls \cup {Load(b)}
    /\ UNCHANGED <<settings, page, wish, faults>>

WithNodes(b, x) == Restrict(page'[b], Key \cap (Keys(x) \cup {"ns_nodes"}))   \* mutant

\* What a form or a switch posts: its own fields, as they are on the page.
Posted(b, x) == Restrict(page'[b], Keys(x))

\* Somebody fills in field k of x, and submits.
Submits(b, x, k, v) ==
    /\ x \in Duty[b]
    /\ Clicks(b)
    /\ page' = [page EXCEPT ![b][k] = v]
    /\ calls' = calls \cup {[by |-> b, of |-> x, at |-> "sent", data |-> Posted(b, x),
                             key |-> k, left |-> DOMAIN Posted(b, x)]}
    /\ wish' = [wish EXCEPT ![k] = @ \cup {v}]
    /\ UNCHANGED <<settings, faults>>

Saves(b, form) ==
    \E k \in Keys(form) :
        \E v \in (Value \cup IF k \in Optional THEN {NoValue} ELSE {}) \ {page[b][k]} :
            Submits(b, form, k, v)

saveNSNodes(b) == Saves(b, "ns")
savePlanSettings(b) == Saves(b, "plan")
savePaymentSettings(b) == Saves(b, "payment")
saveCFBestSettings(b) == Saves(b, "cf_best")
saveTurnstileKeys(b) == Saves(b, "turnstile")
saveTGBackupSettings(b) == Saves(b, "tg")

Flips(b, k) == Submits(b, k, k, IF page[b][k] = 1 THEN 0 ELSE 1)

updateBasicSetting(b) == \E k \in (Switch \ {"auto_renew"}) \cap Key : Flips(b, k)
handleAutoRenewChange(b) == "auto_renew" \in Key /\ Flips(b, "auto_renew")

(***************************************************************************)
(* The server                                                              *)
(***************************************************************************)
Moves(c, at) == calls' = (calls \ {c}) \cup {[c EXCEPT !.at = at]}

\* The handler stores one of the keys that are left.
SetSetting(c) ==
    /\ c.at = "sent"
    /\ \E k \in c.left :
         /\ settings' = [settings EXCEPT ![k] = c.data[k]]
         /\ calls' = (calls \ {c}) \cup {[c EXCEPT !.left = c.left \ {k}]}
    /\ UNCHANGED <<page, counters, wish, crossed>>

\* All are stored.
handleAdminSettings(c) ==
    /\ c.at = "sent" /\ c.left = {}
    /\ wish' = [wish EXCEPT ![c.key] = {c.data[c.key]}]
    /\ Moves(c, "ok")
    /\ UNCHANGED <<settings, page, counters, crossed>>

\* SetSetting fails for one of the keys that are left, the request never
\* arrives, or its answer is lost.
SettingFails(c) ==
    /\ c.at = "sent"
    /\ faults < MaxFaults
    /\ faults' = faults + 1
    /\ Moves(c, "failed")
    /\ UNCHANGED <<settings, page, clicks, wish, crossed>>

(***************************************************************************)
(* Answers                                                                 *)
(***************************************************************************)
Ends(c, rest) == calls' = (calls \ {c}) \cup rest

\* loadSettingsPage, loadUserProfile
PageLoaded(c) ==
    /\ c.of = "load"
    /\ page' = [page EXCEPT ![c.by] = c.data]
    /\ Ends(c, {})

KeepsClick(c) == c.of \in Form /\ c.at = "ok"                   \* mutant

\* A saved form is loaded again, a failed one is left as it was typed; a
\* switch is left as clicked, and loaded again if that failed.
Reloads(c) == IF c.of \in Form THEN c.at = "ok" ELSE c.at = "failed"

PostAnswered(c) ==
    /\ c.of # "load" /\ c.at # "sent"
    /\ Ends(c, IF Reloads(c) THEN {Load(c.by)} ELSE {})
    /\ UNCHANGED page

SettingsAnswer(c) ==
    /\ PageLoaded(c) \/ PostAnswered(c)
    /\ UNCHANGED <<settings, counters, wish, crossed>>

\* A load fails: an alert, or a line in the log.
LoadFails(c) ==
    /\ c.of = "load"
    /\ faults < MaxFaults
    /\ faults' = faults + 1
    /\ crossed' = TRUE
    /\ Ends(c, {})
    /\ UNCHANGED <<settings, page, clicks, wish>>

-----------------------------------------------------------------------------
\* The pages are open and have been loaded.
SettingsInit ==
    /\ settings = Stored
    /\ page = [b \in Browser |-> settings]
    /\ calls = {}
    /\ clicks = 0 /\ faults = 0
    /\ wish = [k \in Key |-> {settings[k]}]
    /\ crossed = FALSE

SettingsNext ==
    \/ \E b \in Browser :
         \/ Opens(b)
         \/ saveNSNodes(b) \/ savePlanSettings(b) \/ savePaymentSettings(b)
         \/ saveCFBestSettings(b) \/ saveTurnstileKeys(b) \/ saveTGBackupSettings(b)
         \/ updateBasicSetting(b) \/ handleAutoRenewChange(b)
    \/ \E c \in calls :
         \/ SetSetting(c) \/ handleAdminSettings(c) \/ SettingFails(c)
         \/ SettingsAnswer(c) \/ LoadFails(c)

(***************************************************************************)
(* Properties                                                              *)
(***************************************************************************)
\* Administrators who have different forms open at the same time never take
\* back each other's settings, although every page holds a copy of all of
\* them, saves interleave key by key and some stop half way: if everybody
\* waits for his answers, each key has the value last confirmed for it or one
\* typed since, in a save that is under way or failed.
SettingsAsTyped == ~crossed => \A k \in Key : settings[k] \in wish[k]

\* A switch is set by the click, before the server knows: when the answer is
\* there it shows what is stored, whether the change was made, refused, or
\* made with its answer lost, unless its page could not be loaded again.
SwitchTellsTruth ==
    \A b \in Browser : ~Busy(b) /\ ~crossed =>
        \A k \in Duty[b] \cap Switch \cap Key :
            page[b][k] = settings[k]
=============================================================================
