--------------------------- MODULE BackofficeProofs ---------------------------
(***************************************************************************)
(* Theorems about Settings and Backoffice, for any keys, values, browsers  *)
(* and duties that do not overlap.                                         *)
(***************************************************************************)
EXTENDS Backoffice, TLAPS

(***************************************************************************)
(* Prices                                                                  *)
(***************************************************************************)
\* A price is never empty: its fields are required, and the table has it.
Priced ==
    \A c \in Cycle :
        /\ settings[PriceKey[c]] \in Value
        /\ \A b \in Browser : page[b][PriceKey[c]] \in Value
        /\ \A p \in calls : PriceKey[c] \in DOMAIN p.data => p.data[PriceKey[c]] \in Value

\* The price in large digits is the one on offer for the selected cycle.
Displayed == display = offer[cycle]

\* A form nobody chose a plan in has that of the row it was opened from.
Filled(f) == f.new \/ f.chosen \/ f.plan = f.row
FormsFilled == \A f \in post \cup {form} : Filled(f)

(***************************************************************************)
(* Settings that nobody disputes                                           *)
(***************************************************************************)
\* The keys of b's forms and switches.
Mine(b) == UNION {Keys(x) : x \in Duty[b]}

Agree(f, g, K) == \A k \in K : f[k] = g[k]

\* Call c accounts for what page p and table s differ in, among the switches K.
InStep(c, p, s, K) ==
    /\ c.of = "load" => Agree(c.data, s, K)
    /\ c.of # "load" /\ c.at = "sent" =>
         /\ Agree(p, s, K \ Keys(c.of))
         /\ Agree(p, c.data, Keys(c.of))
         /\ Agree(c.data, s, Keys(c.of) \ c.left)
    /\ c.of # "load" /\ c.at = "ok" => Agree(p, s, K)
    /\ c.of # "load" /\ c.at = "failed" => Agree(p, s, K \ Keys(c.of))

Within(f, w, K) == \A k \in K : f[k] \in w[k]

\* Browser b has one call under way at most, which is all that its page and
\* the table differ in as to its switches; and nothing but what was typed
\* stands in its fields, or comes back to them.
InOrder(b) ==
    /\ \A c, d \in calls : c.by = b /\ d.by = b => c = d
    /\ \A c \in calls : c.by = b =>
         /\ InStep(c, page[b], settings, Mine(b) \cap Switch)
         /\ c.of = "load" => Within(c.data, wish, Mine(b))
    /\ ~ Busy(b) => Agree(page[b], settings, Mine(b) \cap Switch)
    /\ Within(page[b], wish, Mine(b))

\* This holds while nobody clicks before his answers are there.
Steady ==
    /\ \A b \in Browser : InOrder(b)
    /\ Within(settings, wish, Key)

SteadyUnlessCrossed == crossed \/ Steady

(***************************************************************************)
(* Types                                                                   *)
(***************************************************************************)
\* A function whose values are allowed holds a part of the settings.
LEMMA IsContents ==
    ASSUME NEW K, NEW f, f = [k \in K |-> f[k]], \A k \in K : f[k] \in Allowed(k)
    PROVE  f \in Contents(K)
  BY SMT DEF Contents, Allowed

LEMMA ContentsAt ==
    ASSUME NEW K, NEW f \in Contents(K)
    PROVE  /\ f = [k \in K |-> f[k]]
           /\ \A k \in K : f[k] \in Allowed(k)
  BY DEF Contents

\* The fields of one form or switch, as a page holds them.
LEMMA PostedType ==
    ASSUME NEW K, NEW K2 \in SUBSET K, NEW f \in Contents(K)
    PROVE  Restrict(f, K2) \in Contents(K2)
<1>1. Restrict(f, K2) = [k \in K2 |-> f[k]]
  BY DEF Restrict
<1> QED
  BY <1>1, ContentsAt, IsContents

\* A POST holds the keys of its form or switch, no others.
LEMMA PostedKeys == \A b, x : DOMAIN Posted(b, x) = Keys(x)
  BY DEF Posted, Restrict

LEMMA KeysInKey == \A x : Keys(x) \subseteq Key
  BY DEF Keys

\* One value of a page or of the table changes.
LEMMA ExceptType ==
    ASSUME NEW K, NEW f \in Contents(K), NEW k \in K, NEW v \in Allowed(k)
    PROVE  [f EXCEPT ![k] = v] \in Contents(K)
<1> DEFINE g == [f EXCEPT ![k] = v]
<1>1. g = [j \in K |-> g[j]] /\ \A j \in K : g[j] = IF j = k THEN v ELSE f[j]
  BY ContentsAt
<1> HIDE DEF g
<1>2. \A j \in K : g[j] \in Allowed(j)
  BY <1>1, ContentsAt
<1>3. g \in Contents(K)
  BY <1>1, <1>2, IsContents
<1> QED
  BY <1>3 DEF g

\* Somebody submits a form or clicks a switch.
LEMMA SubmitsType ==
    ASSUME SettingsTypeOK, NEW b \in Browser, NEW x, NEW k \in Keys(x), NEW v \in Allowed(k),
           Submits(b, x, k, v)
    PROVE  SettingsTypeOK'
<1>1. page' = [page EXCEPT ![b] = [page[b] EXCEPT ![k] = v]]
  BY DEF Submits
<1>2. [page[b] EXCEPT ![k] = v] \in Contents(Key)
  BY KeysInKey, ExceptType DEF SettingsTypeOK
<1>3. page' \in [Browser -> Contents(Key)] /\ page'[b] \in Contents(Key)
  BY <1>1, <1>2 DEF SettingsTypeOK
<1> DEFINE d == Posted(b, x)
           c == [by |-> b, of |-> x, at |-> "sent", data |-> d, key |-> k, left |-> Keys(x)]
<1>4. d \in Contents(Keys(x))
  BY <1>3, KeysInKey, PostedType DEF Posted
<1>5. x \in Duty[b] /\ calls' = calls \cup {c}
  BY PostedKeys DEF Submits
<1> HIDE DEF d
<1>6. c \in Posts(b, x)
  BY <1>4 DEF Posts
<1> HIDE DEF c
<1>7. \A e \in calls' : e \in Loads \/ \E g \in Browser : \E y \in Duty[g] : e \in Posts(g, y)
  BY <1>5, <1>6 DEF SettingsTypeOK
<1>8. v \in Value \cup OnOff \cup {NoValue}
  BY DEF Allowed
<1>9. wish' \in [Key -> SUBSET (Value \cup OnOff \cup {NoValue})]
  BY <1>8 DEF Submits, SettingsTypeOK
<1> QED
  BY <1>3, <1>7, <1>9, SettingsAssumption DEF Submits, Clicks, SettingsTypeOK

\* What the page lets people enter.
LEMMA Entries ==
    ASSUME NEW b \in Browser,
           saveNSNodes(b) \/ savePlanSettings(b) \/ savePaymentSettings(b) \/ saveCFBestSettings(b)
             \/ saveTurnstileKeys(b) \/ saveTGBackupSettings(b) \/ updateBasicSetting(b)
             \/ handleAutoRenewChange(b)
    PROVE  \E x : \E k \in Keys(x) : \E v \in Allowed(k) :
             /\ Submits(b, x, k, v)
             /\ x \in Form \/ (x \in Switch /\ k = x /\ v \in OnOff)
             /\ k \in Optional \cup Switch \/ v \in Value
<1>1. ASSUME NEW x \in Form, Saves(b, x)
      PROVE  \E k \in Keys(x) : \E v \in Allowed(k) :
               Submits(b, x, k, v) /\ (k \in Optional \cup Switch \/ v \in Value)
  <2>0. PICK k \in Keys(x) :
          \E v \in Value \cup (IF k \in Optional THEN {NoValue} ELSE {}) : Submits(b, x, k, v)
    BY <1>1 DEF Saves
  <2>1. PICK v \in Value \cup (IF k \in Optional THEN {NoValue} ELSE {}) : Submits(b, x, k, v)
    BY <2>0
  <2>2. k \notin Switch
    BY DEF Keys, Form, Fields, Switch
  <2>3. v \in Allowed(k) /\ (k \in Optional \/ v \in Value)
    BY <2>1, <2>2 DEF Allowed
  <2> QED
    BY <2>1, <2>3
<1>2. ASSUME NEW x \in Switch \cap Key, Flips(b, x)
      PROVE  x \in Keys(x) /\ \E v \in Allowed(x) : Submits(b, x, x, v) /\ v \in OnOff
  <2>1. x \in Keys(x)
    BY DEF Keys, Form, Fields, Switch
  <2> DEFINE v == IF page[b][x] = 1 THEN 0 ELSE 1
  <2>2. v \in OnOff /\ v \in Allowed(x)
    BY DEF OnOff, Allowed
  <2>3. Submits(b, x, x, v)
    BY <1>2 DEF Flips
  <2> QED
    BY <2>1, <2>2, <2>3
<1>3. {"ns", "plan", "payment", "cf_best", "turnstile", "tg"} \subseteq Form /\ "auto_renew" \in Switch
  BY DEF Form, Fields, Switch
<1>4. CASE \E x \in Form : Saves(b, x)
  BY <1>1, <1>4
<1>5. CASE \E x \in Switch \cap Key : Flips(b, x)
  BY <1>2, <1>5
<1> QED
  BY <1>3, <1>4, <1>5 DEF saveNSNodes, savePlanSettings, savePaymentSettings, saveCFBestSettings,
     saveTurnstileKeys, saveTGBackupSettings, updateBasicSetting, handleAutoRenewChange

\* What calls under way are.
LEMMA CallType ==
    ASSUME SettingsTypeOK, NEW c \in calls
    PROVE  /\ c.by \in Browser
           /\ c.of = "load" =>
                c \in Loads /\ c.at = "ok" /\ c.data \in Contents(Key) /\ DOMAIN c.data = Key
           /\ c.of # "load" =>
                /\ c.of \in Duty[c.by] /\ c \in Posts(c.by, c.of)
                /\ c.at \in {"sent", "ok", "failed"}
                /\ c.data \in Contents(Keys(c.of)) /\ DOMAIN c.data = Keys(c.of)
                /\ c.key \in Keys(c.of) /\ c.left \subseteq Keys(c.of)
<1>1. "load" \notin Form \cup Switch
  BY DEF Form, Fields, Switch
<1>2. CASE c \in Loads
  BY <1>2, ContentsAt DEF Loads
<1>3. ASSUME NEW b \in Browser, NEW x \in Duty[b], c \in Posts(b, x)
      PROVE  /\ c.by = b /\ c.of = x /\ c.of # "load"
             /\ c.at \in {"sent", "ok", "failed"}
             /\ c.data \in Contents(Keys(x)) /\ DOMAIN c.data = Keys(x) /\ c.key \in Keys(x)
             /\ c.left \subseteq Keys(x)
  BY <1>1, <1>3, ContentsAt, SettingsAssumption DEF Posts
<1> QED
  BY <1>2, <1>3 DEF SettingsTypeOK

LEMMA LoadType ==
    ASSUME settings \in Contents(Key), NEW b \in Browser
    PROVE  Load(b) \in Loads
  BY DEF Load, Loads

\* One of the keys that are left is stored.
LEMMA SetSettingIs ==
    ASSUME SettingsTypeOK, NEW c \in calls, SetSetting(c)
    PROVE  /\ c.of # "load"
           /\ \E k \in c.left :
                /\ k \in Keys(c.of) /\ k \in Key /\ c.data[k] \in Allowed(k)
                /\ settings' = [settings EXCEPT ![k] = c.data[k]]
                /\ \E m \in Posts(c.by, c.of) :
                     /\ calls' = (calls \ {c}) \cup {m}
                     /\ m.by = c.by /\ m.of = c.of /\ m.at = c.at /\ m.data = c.data
                     /\ m.key = c.key /\ m.left = c.left \ {k}
<1>1. c.of # "load"
  BY CallType DEF SetSetting, Loads
<1>2. PICK k \in c.left :
         /\ settings' = [settings EXCEPT ![k] = c.data[k]]
         /\ calls' = (calls \ {c}) \cup {[c EXCEPT !.left = c.left \ {k}]}
  BY DEF SetSetting
<1> DEFINE m == [c EXCEPT !.left = c.left \ {k}]
<1>3. k \in Keys(c.of) /\ k \in Key /\ c.data[k] \in Allowed(k)
  BY <1>1, CallType, KeysInKey, ContentsAt
<1>4. m \in Posts(c.by, c.of) /\ m.by = c.by /\ m.of = c.of /\ m.at = c.at
      /\ m.data = c.data /\ m.key = c.key /\ m.left = c.left \ {k}
  BY <1>1, CallType DEF Posts
<1> QED
  BY <1>1, <1>2, <1>3, <1>4

LEMMA MovesType ==
    ASSUME SettingsTypeOK, NEW c \in calls, c.of # "load", NEW at \in {"ok", "failed"},
           Moves(c, at)
    PROVE  \A e \in calls' : e \in Loads \/ \E b \in Browser : \E x \in Duty[b] : e \in Posts(b, x)
<1>1. [c EXCEPT !.at = at] \in Posts(c.by, c.of)
  BY CallType DEF Posts
<1> QED
  BY <1>1, CallType DEF Moves, SettingsTypeOK

LEMMA SettingsTypes ==
    ASSUME SettingsTypeOK, SettingsNext
    PROVE  SettingsTypeOK'
<1> USE SettingsAssumption
<1>1. ASSUME NEW b \in Browser, Opens(b)
      PROVE  SettingsTypeOK'
  BY <1>1, LoadType DEF SettingsTypeOK, Opens, Clicks
<1>2. ASSUME NEW b \in Browser,
             saveNSNodes(b) \/ savePlanSettings(b) \/ savePaymentSettings(b)
               \/ saveCFBestSettings(b) \/ saveTurnstileKeys(b) \/ saveTGBackupSettings(b)
               \/ updateBasicSetting(b) \/ handleAutoRenewChange(b)
      PROVE  SettingsTypeOK'
  BY <1>2, Entries, SubmitsType
<1>3. ASSUME NEW c \in calls, handleAdminSettings(c)
      PROVE  SettingsTypeOK'
  <2>1. c.of # "load" /\ c.key \in Key
    BY <1>3, CallType, KeysInKey DEF handleAdminSettings, Loads
  <2>2. c.data[c.key] \in Value \cup OnOff \cup {NoValue}
    BY <2>1, CallType, ContentsAt DEF Allowed
  <2>3. wish' \in [Key -> SUBSET (Value \cup OnOff \cup {NoValue})]
    BY <1>3, <2>1, <2>2 DEF handleAdminSettings, SettingsTypeOK
  <2>4. \A e \in calls' : e \in Loads \/ \E b \in Browser : \E x \in Duty[b] : e \in Posts(b, x)
    BY <1>3, <2>1, MovesType DEF handleAdminSettings
  <2> QED
    BY <1>3, <2>3, <2>4 DEF handleAdminSettings, counters, SettingsTypeOK
<1>4. ASSUME NEW c \in calls, SettingFails(c)
      PROVE  SettingsTypeOK'
  <2>1. c.of # "load"
    BY <1>4, CallType DEF SettingFails, Loads
  <2>2. \A e \in calls' : e \in Loads \/ \E b \in Browser : \E x \in Duty[b] : e \in Posts(b, x)
    BY <1>4, <2>1, MovesType DEF SettingFails
  <2> QED
    BY <1>4, <2>2 DEF SettingFails, SettingsTypeOK
<1>7. ASSUME NEW c \in calls, SetSetting(c)
      PROVE  SettingsTypeOK'
  <2>1. PICK k \in c.left, m \in Posts(c.by, c.of) :
          /\ k \in Key /\ c.data[k] \in Allowed(k)
          /\ settings' = [settings EXCEPT ![k] = c.data[k]]
          /\ calls' = (calls \ {c}) \cup {m}
    BY <1>7, SetSettingIs
  <2>2. settings' \in Contents(Key)
    BY <2>1, ExceptType DEF SettingsTypeOK
  <2>3. c.by \in Browser /\ c.of \in Duty[c.by]
    BY <1>7, SetSettingIs, CallType
  <2>4. \A e \in calls' : e \in Loads \/ \E b \in Browser : \E x \in Duty[b] : e \in Posts(b, x)
    BY <2>1, <2>3 DEF SettingsTypeOK
  <2> QED
    BY <1>7, <2>2, <2>4 DEF SetSetting, counters, SettingsTypeOK
<1>5. ASSUME NEW c \in calls, SettingsAnswer(c)
      PROVE  SettingsTypeOK'
  <2>1. page' \in [Browser -> Contents(Key)]
    BY <1>5, CallType DEF SettingsAnswer, PageLoaded, PostAnswered, SettingsTypeOK
  <2>2. calls' \subseteq calls \cup {Load(c.by)} /\ Load(c.by) \in Loads
    BY <1>5, CallType, LoadType DEF SettingsAnswer, PageLoaded, PostAnswered, Ends, SettingsTypeOK
  <2> QED
    BY <1>5, <2>1, <2>2 DEF SettingsAnswer, counters, SettingsTypeOK
<1>6. ASSUME NEW c \in calls, LoadFails(c)
      PROVE  SettingsTypeOK'
  BY <1>6 DEF LoadFails, Ends, SettingsTypeOK
<1> QED
  BY <1>1, <1>2, <1>3, <1>4, <1>5, <1>6, <1>7 DEF SettingsNext

(***************************************************************************)
(* Prices are never empty                                                  *)
(***************************************************************************)
Required(k) ==
    /\ settings[k] \in Value
    /\ \A b \in Browser : page[b][k] \in Value
    /\ \A p \in calls : k \in DOMAIN p.data => p.data[k] \in Value

LEMMA RequiredStep ==
    ASSUME SettingsTypeOK, SettingsNext, NEW k \in Key, k \notin Optional \cup Switch, Required(k)
    PROVE  Required(k)'
<1> USE DEF Required
<1>0. /\ settings \in Contents(Key) /\ page \in [Browser -> Contents(Key)]
      /\ \A b \in Browser : DOMAIN page[b] = Key /\ DOMAIN settings = Key
      /\ \A b \in Browser : Load(b).data = settings
  BY ContentsAt DEF SettingsTypeOK, Load
<1>1. ASSUME NEW b \in Browser, Opens(b)
      PROVE  Required(k)'
  BY <1>0, <1>1 DEF Opens
<1>2. ASSUME NEW b \in Browser, NEW x, NEW j \in Keys(x), NEW v \in Allowed(j),
             Submits(b, x, j, v), j \in Optional \cup Switch \/ v \in Value
      PROVE  Required(k)'
  <2>1. page' = [page EXCEPT ![b] = [page[b] EXCEPT ![j] = v]] /\ settings' = settings
    BY <1>2 DEF Submits
  <2>2. \A e \in Browser : page'[e][k] \in Value
    BY <1>0, <1>2, <2>1
  <2>3. \A p \in calls' : p \in calls \/ p.data = Restrict(page'[b], Keys(x))
    BY <1>2 DEF Submits, Posted
  <2>4. ASSUME NEW p \in calls', k \in DOMAIN p.data
        PROVE  p.data[k] \in Value
    <3>1. CASE p \in calls
      BY <2>4, <3>1
    <3>2. CASE p.data = Restrict(page'[b], Keys(x))
      <4>1. p.data[k] = page'[b][k]
        BY <2>4, <3>2 DEF Restrict
      <4> QED
        BY <2>2, <4>1
    <3> QED
      BY <2>3, <3>1, <3>2
  <2> QED
    BY <2>1, <2>2, <2>4
<1>3. ASSUME NEW c \in calls, SetSetting(c)
      PROVE  Required(k)'
  <2>1. PICK j \in c.left, m \in Posts(c.by, c.of) :
          /\ j \in Keys(c.of)
          /\ settings' = [settings EXCEPT ![j] = c.data[j]]
          /\ calls' = (calls \ {c}) \cup {m}
          /\ m.data = c.data
    BY <1>3, SetSettingIs
  <2>2. DOMAIN c.data = Keys(c.of) /\ page' = page
    BY <1>3, SetSettingIs, CallType DEF SetSetting
  <2> QED
    BY <1>0, <2>1, <2>2
<1>4. ASSUME NEW c \in calls, NEW at, Moves(c, at)
      PROVE  \A p \in calls' : k \in DOMAIN p.data => p.data[k] \in Value
  <2>1. "data" # "at" /\ c.of # "load" => [c EXCEPT !.at = at].data = c.data
    BY CallType DEF Posts
  <2> QED
    BY <1>4, <2>1, CallType DEF Moves, Loads
<1>5. ASSUME NEW c \in calls, handleAdminSettings(c) \/ SettingFails(c)
      PROVE  Required(k)'
  BY <1>4, <1>5 DEF handleAdminSettings, SettingFails
<1>6. ASSUME NEW c \in calls, SettingsAnswer(c)
      PROVE  Required(k)'
  <2>1. settings' = settings
    BY <1>6 DEF SettingsAnswer
  <2>2. \A p \in calls' : p \in calls \/ p.data = settings
    BY <1>0, <1>6, CallType DEF SettingsAnswer, PageLoaded, PostAnswered, Ends
  <2>3. \A b \in Browser : page'[b] = page[b] \/ (page'[b] = c.data /\ DOMAIN c.data = Key)
    BY <1>6, CallType DEF SettingsAnswer, PageLoaded, PostAnswered, SettingsTypeOK
  <2> QED
    BY <2>1, <2>2, <2>3
<1>7. ASSUME NEW c \in calls, LoadFails(c)
      PROVE  Required(k)'
  BY <1>7 DEF LoadFails, Ends
<1> QED
  BY <1>1, <1>2, <1>3, <1>5, <1>6, <1>7, Entries DEF SettingsNext

LEMMA PricesRequired ==
    /\ \A c \in Cycle : PriceKey[c] \in Key /\ PriceKey[c] \notin Optional \cup Switch
    /\ Priced <=> \A c \in Cycle : Required(PriceKey[c])
    /\ Priced' <=> \A c \in Cycle : Required(PriceKey[c])'
<1>1. \A c \in Cycle : PriceKey[c] \in Key /\ PriceKey[c] \in {"price_monthly", "price_quarterly"}
  BY BackofficeAssumption DEF Cycle, PriceKey
<1>2. "price_monthly" \notin Optional \cup Switch /\ "price_quarterly" \notin Optional \cup Switch
  BY DEF Optional, Fields, Switch
<1> QED
  BY <1>1, <1>2 DEF Priced, Required

LEMMA PricedStep ==
    ASSUME TypeOK, Priced, [Next]_vars
    PROVE  Priced'
<1>1. CASE SettingsNext
  BY <1>1, PricesRequired, RequiredStep DEF TypeOK
<1>2. CASE UNCHANGED settingsVars
  BY <1>2 DEF settingsVars, Priced
<1> QED
  BY <1>1, <1>2 DEF Next, vars, Buys, Administers, OpenBilling, SelectCycle, PayPlanWithBalance,
     placeOrder, submitRecharge, CreateOrder, verifyUsdtOrder, OpenUsers, openAdminCreateUserModal,
     openAdminEditUserModal, Fills, ChoosePlan, closeAdminUserModal, saveAdminUser, deleteAdminUser,
     ServeForm, UpdateFails, OfficeAnswer, LoseAnswer

(***************************************************************************)
(* Types of the billing and users pages                                    *)
(***************************************************************************)
LEMMA OfferedType == Priced => Offered \in [Cycle -> Value]
  BY DEF Priced, Offered

\* An answer keeps its type while orders are added or paid.
AnswersTyped(A, n) ==
    \A a \in A :
        /\ a.kind \in Kind
        /\ a = Answer(a.kind, a.tells)
        /\ a.kind = "billing" => a.tells \in [Cycle -> Value]
        /\ a.kind \in {"order", "recharge"} => a.tells \in 1..n
        /\ a.kind = "users" => a.tells \in Plan \cup {"gone"}
        /\ a.kind \in {"wallet", "verified", "saved"} => a.tells = 0

LEMMA AnswersType ==
    ASSUME NEW A
    PROVE  AnswersTyped(A, Len(orders)) <=>
             \A a \in A : a.kind \in Kind /\ a \in [kind : {a.kind}, tells : Told(a.kind)]
<1>1. ASSUME NEW a, a.kind \in Kind, a \in [kind : {a.kind}, tells : Told(a.kind)]
      PROVE  /\ a = Answer(a.kind, a.tells)
             /\ a.kind = "billing" => a.tells \in [Cycle -> Value]
             /\ a.kind \in {"order", "recharge"} => a.tells \in 1..Len(orders)
             /\ a.kind = "users" => a.tells \in Plan \cup {"gone"}
             /\ a.kind \in {"wallet", "verified", "saved"} => a.tells = 0
  <2>1. a = Answer(a.kind, a.tells) /\ a.tells \in Told(a.kind)
    BY <1>1 DEF Answer
  <2> QED
    BY <2>1 DEF Told
<1>2. ASSUME NEW a, a.kind \in Kind, a = Answer(a.kind, a.tells),
             a.kind = "billing" => a.tells \in [Cycle -> Value],
             a.kind \in {"order", "recharge"} => a.tells \in 1..Len(orders),
             a.kind = "users" => a.tells \in Plan \cup {"gone"},
             a.kind \in {"wallet", "verified", "saved"} => a.tells = 0
      PROVE  a \in [kind : {a.kind}, tells : Told(a.kind)]
  <2>1. a.tells \in Told(a.kind)
    BY <1>2 DEF Told, Kind
  <2> QED
    BY <1>2, <2>1 DEF Answer
<1> QED
  BY <1>1, <1>2 DEF AnswersTyped

\* OfficeTypeOK, as it is used.
OfficeTyped ==
    /\ plan \in Plan \cup {"gone"} /\ due \in Plan \cup {"gone"}
    /\ orders \in Seq([item : Item, paid : BOOLEAN]) /\ Len(orders) <= MaxOrders
    /\ offer \in [Cycle -> Value]
    /\ cycle \in Cycle /\ display \in Value
    /\ card \in 0..Len(orders)
    /\ row \in Plan \cup {"gone"}
    /\ form \in Forms /\ post \subseteq Forms
    /\ AnswersTyped(answers, Len(orders))

LEMMA OfficeTypedIs == OfficeTypeOK <=> OfficeTyped
  BY AnswersType DEF OfficeTypeOK, OfficeTyped

LEMMA MoreAnswers ==
    ASSUME NEW A, NEW n \in Nat, AnswersTyped(A, n)
    PROVE  /\ \A d \in [Cycle -> Value] : AnswersTyped(A \cup {Answer("billing", d)}, n)
           /\ \A d \in 1..n : AnswersTyped(A \cup {Answer("order", d)}, n)
           /\ \A d \in 1..n : AnswersTyped(A \cup {Answer("recharge", d)}, n)
           /\ \A d \in Plan \cup {"gone"} : AnswersTyped(A \cup {Answer("users", d)}, n)
           /\ AnswersTyped(A \cup {Answer("wallet", 0)}, n)
           /\ AnswersTyped(A \cup {Answer("verified", 0)}, n)
           /\ AnswersTyped(A \cup {Answer("saved", 0)}, n)
           /\ AnswersTyped(A, n + 1)
  BY DEF AnswersTyped, Answer, Kind

\* What the buyer does.
LEMMA BuysType ==
    ASSUME OfficeTyped, Priced, Buys
    PROVE  OfficeTyped'
<1>0. /\ Len(orders) \in Nat /\ Offered \in [Cycle -> Value]
      /\ Len(orders) <= MaxOrders /\ MaxOrders \in Nat /\ card \in 0..Len(orders)
      /\ orders \in Seq([item : Item, paid : BOOLEAN])
  BY OfferedType, BackofficeAssumption DEF OfficeTyped
<1> DEFINE n == Len(orders)
<1>a. AnswersTyped(answers, n) /\ n \in Nat
  BY <1>0 DEF OfficeTyped
<1>1. CASE OpenBilling
  <2>1. AnswersTyped(answers', Len(orders))
    BY <1>0, <1>a, <1>1, MoreAnswers DEF OpenBilling, handleBilling
  <2> QED
    BY <1>1, <2>1 DEF OpenBilling, shop, desk, OfficeTyped
<1>2. CASE SelectCycle
  BY <1>2 DEF SelectCycle, updatePriceDisplay, desk, OfficeTyped
<1>3. CASE PayPlanWithBalance
  <2>1. AnswersTyped(answers', Len(orders))
    BY <1>a, <1>3, MoreAnswers DEF PayPlanWithBalance
  <2> QED
    BY <1>3, <2>1 DEF PayPlanWithBalance, shop, desk, OfficeTyped, Plan
<1>4. ASSUME NEW item \in Item, NEW kind \in {"order", "recharge"}, CreateOrder(item, kind)
      PROVE  OfficeTyped'
  <2>1. orders' = Append(orders, [item |-> item, paid |-> FALSE]) /\ n < MaxOrders
    BY <1>4 DEF CreateOrder
  <2>2. orders' \in Seq([item : Item, paid : BOOLEAN]) /\ Len(orders') = n + 1
    BY <1>0, <2>1
  <2>3. AnswersTyped(answers, n + 1)
    BY <1>a, MoreAnswers
  <2>4. answers' = answers \/ answers' = answers \cup {Answer(kind, n + 1)}
    BY <1>4 DEF CreateOrder
  <2> HIDE DEF n
  <2>a. n + 1 \in Nat /\ n + 1 \in 1..(n + 1)
    BY <1>a
  <2>b. /\ AnswersTyped(answers \cup {Answer("order", n + 1)}, n + 1)
        /\ AnswersTyped(answers \cup {Answer("recharge", n + 1)}, n + 1)
    BY <2>3, <2>a, MoreAnswers
  <2>5. AnswersTyped(answers', n + 1)
    BY <2>3, <2>4, <2>b
  <2>6. card \in 0..(n + 1) /\ n + 1 <= MaxOrders
    BY <1>0, <2>1 DEF n
  <2> QED
    BY <1>4, <2>2, <2>5, <2>6 DEF CreateOrder, shop, desk, OfficeTyped
<1>5. CASE verifyUsdtOrder
  <2>0. card \in 1..Len(orders)
    BY <1>0, <1>5 DEF verifyUsdtOrder
  <2>1. card \in 1..Len(orders) /\ orders[card] \in [item : Item, paid : BOOLEAN]
    <3> DEFINE R == [item : Item, paid : BOOLEAN]
    <3>1. orders \in Seq(R)
      BY <1>0
    <3> HIDE DEF R
    <3>2. orders[card] \in R
      BY <2>0, <3>1
    <3> QED
      BY <2>0, <3>2 DEF R
  <2>2. orders' = [orders EXCEPT ![card] = [orders[card] EXCEPT !.paid = TRUE]]
    BY <1>5 DEF verifyUsdtOrder
  <2>3. [orders[card] EXCEPT !.paid = TRUE] \in [item : Item, paid : BOOLEAN]
    BY <2>1
  <2>4. orders' \in Seq([item : Item, paid : BOOLEAN]) /\ Len(orders') = Len(orders)
    BY <1>0, <2>1, <2>2, <2>3
  <2>5. plan' \in Plan \cup {"gone"} /\ due' \in Plan \cup {"gone"}
    <3>1. orders[card].item \in {"senior", "recharge"}
      BY <2>1 DEF Item
    <3> QED
      BY <1>5, <3>1 DEF verifyUsdtOrder, Plan, OfficeTyped
  <2>6. AnswersTyped(answers', Len(orders))
    BY <1>a, <1>5, MoreAnswers DEF verifyUsdtOrder
  <2> QED
    BY <1>5, <2>4, <2>5, <2>6 DEF verifyUsdtOrder, shop, desk, OfficeTyped
<1> QED
  BY <1>1, <1>2, <1>3, <1>4, <1>5 DEF Buys, placeOrder, submitRecharge, Item

\* What administrators do, and their forms on the way.
LEMMA AdministersType ==
    ASSUME OfficeTyped, Administers
    PROVE  OfficeTyped'
<1> DEFINE n == Len(orders)
<1>0. AnswersTyped(answers, n) /\ n \in Nat /\ form \in Forms /\ post \subseteq Forms
  BY DEF OfficeTyped
<1> HIDE DEF n
<1>1. CASE OpenUsers
  <2>1. answers' = answers \cup {Answer("users", plan)} /\ plan \in Plan \cup {"gone"}
    BY <1>1 DEF OpenUsers, OfficeTyped
  <2>2. AnswersTyped(answers', n)
    BY <1>0, <2>1, MoreAnswers
  <2> QED
    BY <1>1, <2>2 DEF n, OpenUsers, shop, desk, OfficeTyped
<1>2. ASSUME NEW f \in Forms, Fills(f)
      PROVE  OfficeTyped'
  BY <1>2 DEF Fills, shop, OfficeTyped
<1>3. CASE openAdminCreateUserModal \/ openAdminEditUserModal
  <2>1. ASSUME NEW f, f = [shown |-> TRUE, new |-> TRUE, plan |-> "free", chosen |-> FALSE, row |-> NoValue]
        PROVE  f \in Forms
    BY <2>1 DEF Forms, Plan
  <2>2. row \in Plan => EditForm(row) \in Forms
    BY DEF EditForm, Forms
  <2> QED
    BY <1>2, <1>3, <2>1, <2>2 DEF openAdminCreateUserModal, openAdminEditUserModal
<1>4. CASE ChoosePlan
  <2>1. \A p \in Plan : [form EXCEPT !.plan = p, !.chosen = TRUE] \in Forms
    BY <1>0 DEF Forms
  <2>2. form' \in Forms
    BY <1>4, <2>1 DEF ChoosePlan
  <2> QED
    BY <1>4, <2>2 DEF ChoosePlan, shop, OfficeTyped
<1>5. CASE closeAdminUserModal
  <2>1. form' \in Forms
    BY <1>0, <1>5 DEF closeAdminUserModal, Forms
  <2> QED
    BY <1>5, <2>1 DEF closeAdminUserModal, shop, OfficeTyped
<1>6. CASE saveAdminUser
  BY <1>6 DEF saveAdminUser, shop, OfficeTyped
<1>7. CASE deleteAdminUser
  <2>1. AnswersTyped(answers', n)
    BY <1>0, <1>7, MoreAnswers DEF deleteAdminUser
  <2> QED
    BY <1>7, <2>1 DEF n, deleteAdminUser, shop, desk, OfficeTyped
<1>8. ASSUME NEW f \in post, ServeForm(f) \/ UpdateFails(f)
      PROVE  OfficeTyped'
  <2>1. answers' = answers \/ answers' = answers \cup {Answer("saved", 0)}
    BY <1>8 DEF ServeForm, UpdateFails
  <2>a. AnswersTyped(answers \cup {Answer("saved", 0)}, n)
    BY <1>0, MoreAnswers
  <2>2. AnswersTyped(answers', n)
    BY <1>0, <2>1, <2>a
  <2>3. plan' \in {plan, f.plan} /\ due' \in {due, f.plan} /\ f.plan \in Plan
    BY <1>0, <1>8 DEF ServeForm, UpdateFails, AdminUpdateUser, AdminCreateUser, Forms
  <2> QED
    BY <1>8, <2>2, <2>3 DEF n, ServeForm, UpdateFails, shop, desk, OfficeTyped
<1> QED
  BY <1>1, <1>3, <1>4, <1>5, <1>6, <1>7, <1>8 DEF Administers

\* Answers that arrive or are lost.
LEMMA OfficeAnswerType ==
    ASSUME OfficeTyped, Priced, NEW a \in answers, OfficeAnswer(a) \/ LoseAnswer(a)
    PROVE  OfficeTyped'
<1> DEFINE n == Len(orders)
<1>0. AnswersTyped(answers, n) /\ n \in Nat /\ form \in Forms /\ plan \in Plan \cup {"gone"}
  BY DEF OfficeTyped
<1>1. /\ orders' = orders /\ plan' = plan /\ due' = due /\ post' = post
  BY DEF OfficeAnswer, LoseAnswer, desk
<1> HIDE DEF n
<1>2. \A A : A \subseteq answers => AnswersTyped(A, n)
  BY <1>0 DEF AnswersTyped
<1>3. CASE LoseAnswer(a)
  <2>1. AnswersTyped(answers', n)
    BY <1>2, <1>3 DEF LoseAnswer
  <2> QED
    BY <1>3, <2>1 DEF n, LoseAnswer, shop, desk, OfficeTyped
<1>4. CASE OfficeAnswer(a) /\ BillingLoaded(a)
  <2>1. a.tells \in [Cycle -> Value] /\ "monthly" \in Cycle
    BY <1>0, <1>4 DEF BillingLoaded, AnswersTyped, Cycle
  <2>2. AnswersTyped(answers', n)
    BY <1>2, <1>4 DEF BillingLoaded
  <2>3. offer' = a.tells /\ cycle' = "monthly" /\ display' = a.tells["monthly"] /\ card' = card
    BY <1>4 DEF BillingLoaded
  <2>4. UNCHANGED desk
    BY <1>4 DEF OfficeAnswer, BillingLoaded, UsersLoaded, FormAnswered
  <2> QED
    BY <1>1, <2>1, <2>2, <2>3, <2>4 DEF n, desk, OfficeTyped
<1>5. CASE OfficeAnswer(a) /\ ShopAnswer(a)
  <2>1. a.kind \in {"order", "recharge"} => a.tells \in 1..n
    BY <1>0 DEF AnswersTyped
  <2>2. card \in 0..n
    BY DEF n, OfficeTyped
  <2>3. card' \in 0..n
    BY <1>0, <1>5, <2>1, <2>2 DEF ShopAnswer
  <2>4. AnswersTyped((answers \ {a}) \cup {handleBilling}, n) /\ AnswersTyped(answers \ {a}, n)
    BY <1>0, <1>2, OfferedType, MoreAnswers DEF handleBilling
  <2>5. AnswersTyped(answers', n)
    BY <1>5, <2>4 DEF ShopAnswer
  <2>6. UNCHANGED <<offer, cycle, display, desk>>
    BY <1>5 DEF OfficeAnswer, ShopAnswer, UsersLoaded, FormAnswered
  <2> QED
    BY <1>1, <2>3, <2>5, <2>6 DEF n, desk, OfficeTyped
<1>6. CASE OfficeAnswer(a) /\ (UsersLoaded(a) \/ FormAnswered(a))
  <2>1. UNCHANGED shop
    BY <1>6 DEF OfficeAnswer, UsersLoaded, FormAnswered, BillingLoaded, ShopAnswer
  <2>2. row' \in Plan \cup {"gone"}
    <3>1. a.kind = "users" => a.tells \in Plan \cup {"gone"}
      BY <1>0 DEF AnswersTyped
    <3> QED
      BY <1>6, <3>1 DEF UsersLoaded, FormAnswered, OfficeTyped
  <2>3. form' \in Forms
    BY <1>0, <1>6 DEF UsersLoaded, FormAnswered, Forms
  <2>4. AnswersTyped((answers \ {a}) \cup {Answer("users", plan)}, n)
        /\ AnswersTyped(answers \ {a}, n)
    BY <1>0, <1>2, MoreAnswers
  <2>5. AnswersTyped(answers', n)
    BY <1>6, <2>4 DEF UsersLoaded, FormAnswered
  <2> QED
    BY <1>1, <2>1, <2>2, <2>3, <2>5 DEF n, shop, OfficeTyped
<1> QED
  BY <1>3, <1>4, <1>5, <1>6 DEF OfficeAnswer

\* The pages that buy and administer leave the settings pages alone, except
\* for the counters that bound the clicks and faults.
LEMMA OfficeLeavesSettings ==
    ASSUME SettingsTypeOK,
           Buys \/ Administers \/ (\E a \in answers : OfficeAnswer(a) \/ LoseAnswer(a))
    PROVE  UNCHANGED settingsVars /\ clicks' \in 0..MaxClicks /\ faults' \in 0..MaxFaults
<1> DEFINE Counted == /\ UNCHANGED settingsVars
                      /\ clicks' = clicks \/ (clicks < MaxClicks /\ clicks' = clicks + 1)
                      /\ faults' = faults \/ (faults < MaxFaults /\ faults' = faults + 1)
<1>0. MaxClicks \in Nat /\ MaxFaults \in Nat /\ clicks \in 0..MaxClicks /\ faults \in 0..MaxFaults
  BY SettingsAssumption DEF SettingsTypeOK
<1> SUFFICES Counted
  BY <1>0
<1>1. CASE OpenBilling \/ SelectCycle \/ PayPlanWithBalance \/ placeOrder \/ submitRecharge
             \/ verifyUsdtOrder
  <2>1. ASSUME BuyerClicks, UNCHANGED <<settingsVars, faults>> PROVE Counted
    BY <2>1 DEF BuyerClicks
  <2> QED
    BY <1>1, <2>1, Zenon DEF OpenBilling, SelectCycle, PayPlanWithBalance, placeOrder,
       submitRecharge, CreateOrder, verifyUsdtOrder
<1>2. CASE OpenUsers \/ openAdminCreateUserModal \/ openAdminEditUserModal \/ ChoosePlan
             \/ saveAdminUser \/ deleteAdminUser
  <2>1. ASSUME ManagerClicks, UNCHANGED <<settingsVars, faults>> PROVE Counted
    BY <2>1 DEF ManagerClicks
  <2> QED
    BY <1>2, <2>1, Zenon DEF OpenUsers, openAdminCreateUserModal, openAdminEditUserModal, Fills,
       ChoosePlan, saveAdminUser, deleteAdminUser
<1>3. CASE closeAdminUserModal \/ \E f \in post : ServeForm(f) \/ UpdateFails(f)
  BY <1>3 DEF closeAdminUserModal, ServeForm, UpdateFails, counters
<1>4. CASE \E a \in answers : OfficeAnswer(a) \/ LoseAnswer(a)
  BY <1>4 DEF OfficeAnswer, LoseAnswer, counters
<1> QED
  BY <1>1, <1>2, <1>3, <1>4 DEF Buys, Administers

LEMMA TypeStep == TypeOK /\ Priced /\ [Next]_vars => TypeOK' /\ Priced'
<1> SUFFICES ASSUME TypeOK, Priced, [Next]_vars PROVE TypeOK'
  BY PricedStep
<1>0. SettingsTypeOK /\ OfficeTyped
  BY OfficeTypedIs DEF TypeOK
<1>1. CASE SettingsNext /\ UNCHANGED officeVars
  <2>1. SettingsTypeOK'
    BY <1>0, <1>1, SettingsTypes
  <2>2. OfficeTyped'
    BY <1>0, <1>1 DEF officeVars, shop, desk, OfficeTyped
  <2> QED
    BY <2>1, <2>2, OfficeTypedIs, PTL DEF TypeOK
<1>2. CASE Buys \/ Administers \/ (\E a \in answers : OfficeAnswer(a) \/ LoseAnswer(a))
  <2>1. SettingsTypeOK'
    BY <1>0, <1>2, OfficeLeavesSettings DEF SettingsTypeOK, settingsVars
  <2>2. OfficeTyped'
    BY <1>0, <1>2, BuysType, AdministersType, OfficeAnswerType
  <2> QED
    BY <2>1, <2>2, OfficeTypedIs, PTL DEF TypeOK
<1>3. CASE UNCHANGED vars
  BY <1>3 DEF vars, settingsVars, counters, officeVars, shop, desk, TypeOK, SettingsTypeOK,
     OfficeTypeOK, Told
<1> QED
  BY <1>1, <1>2, <1>3 DEF Next

LEMMA TypeInit == Init => TypeOK /\ Priced
<1> SUFFICES ASSUME Init PROVE TypeOK /\ Priced
  OBVIOUS
<1>0. settings \in Contents(Key)
  BY SettingsAssumption DEF Init, SettingsInit
<1>1. SettingsTypeOK
  <2>1. settings \in Contents(Key) /\ page \in [Browser -> Contents(Key)]
    BY <1>0 DEF Init, SettingsInit
  <2>3. wish \in [Key -> SUBSET (Value \cup OnOff \cup {NoValue})]
    <3>1. wish = [k \in Key |-> {settings[k]}]
      BY DEF Init, SettingsInit
    <3>2. \A k \in Key : settings[k] \in Value \cup OnOff \cup {NoValue}
      BY <1>0 DEF Contents
    <3> QED
      BY <3>1, <3>2
  <2>2. calls = {} /\ crossed = FALSE /\ clicks = 0 /\ faults = 0
    BY DEF Init, SettingsInit
  <2> QED
    <3>0. MaxClicks \in Nat /\ MaxFaults \in Nat
      BY SettingsAssumption
    <3>1. clicks \in 0..MaxClicks /\ faults \in 0..MaxFaults
      BY <2>2, <3>0
    <3>3. crossed \in BOOLEAN
      BY <2>2, Zenon
    <3>2. \A c \in calls : c \in Loads \/ \E b \in Browser : \E x \in Duty[b] : c \in Posts(b, x)
      BY <2>2
    <3> QED
      BY <2>1, <2>3, <3>1, <3>2, <3>3 DEF SettingsTypeOK
<1>2. Priced
  BY BackofficeAssumption DEF Init, SettingsInit, Priced
<1>3. form \in Forms
  BY DEF Init, OfficeInit, Forms, Plan
<1>4. offer \in [Cycle -> Value] /\ "monthly" \in Cycle
  BY <1>2, OfferedType DEF Init, OfficeInit, Cycle
<1>5. orders \in Seq([item : Item, paid : BOOLEAN]) /\ Len(orders) = 0
  BY DEF Init, OfficeInit
<1>6. OfficeTyped
  BY <1>3, <1>4, <1>5, BackofficeAssumption DEF Init, OfficeInit, OfficeTyped, AnswersTyped, Plan
<1> QED
  BY <1>1, <1>2, <1>6, OfficeTypedIs DEF TypeOK

\* Settings, pages, calls, prices, orders, forms and answers are what they
\* should be, and no price is ever empty.
THEOREM BackofficeTypes == Spec => []TypeOK
  BY TypeInit, TypeStep, PTL DEF Spec

LEMMA BackofficePrices == Spec => []Priced
  BY TypeInit, TypeStep, PTL DEF Spec

(***************************************************************************)
(* What is charged                                                         *)
(***************************************************************************)
LEMMA BilledAsShown ==
    ASSUME Displayed, cycle \in Cycle, NEW cost, NEW wallet, Billed(cost, wallet),
           cost = Offered[cycle] \/ (wallet /\ cycle # "monthly")
    PROVE  ChargedAsShown'
<1>1. bill' = {[cost |-> cost, display |-> display, offered |-> offer[cycle],
                listed |-> Offered[cycle], wallet |-> wallet, cycle |-> cycle]}
  BY DEF Billed
<1> DEFINE b == [cost |-> cost, display |-> display, offered |-> offer[cycle],
                 listed |-> Offered[cycle], wallet |-> wallet, cycle |-> cycle]
<1>2. b.cost = b.display \/ b.offered # b.listed \/ (b.wallet /\ b.cycle # "monthly")
  BY DEF Displayed
<1> HIDE DEF b
<1> QED
  BY <1>1, <1>2 DEF b, ChargedAsShown

LEMMA ChargedStep ==
    ASSUME TypeOK, Displayed, ChargedAsShown, [Next]_vars
    PROVE  Displayed' /\ ChargedAsShown'
<1>0. cycle \in Cycle /\ offer \in [Cycle -> Value]
  BY DEF TypeOK, OfficeTypeOK
<1>1. CASE UNCHANGED <<offer, cycle, display, bill>>
  BY <1>1 DEF Displayed, ChargedAsShown
<1>2. CASE SelectCycle
  BY <1>2 DEF SelectCycle, updatePriceDisplay, Displayed, ChargedAsShown
<1>3. CASE PayPlanWithBalance
  <2>1. cycle = "monthly" => CalculatePlanPrice(cycle) = Offered[cycle]
    BY <1>0 DEF CalculatePlanPrice, Offered, PriceKey, Cycle
  <2>2. Billed(CalculatePlanPrice(cycle), TRUE) /\ UNCHANGED shop
    BY <1>3 DEF PayPlanWithBalance
  <2>3. ChargedAsShown'
    BY <1>0, <2>1, <2>2, BilledAsShown
  <2> QED
    BY <2>2, <2>3 DEF shop, Displayed
<1>4. CASE placeOrder
  <2>1. Billed(Offered[cycle], FALSE) /\ UNCHANGED shop
    BY <1>4 DEF placeOrder, CreateOrder
  <2>2. ChargedAsShown'
    BY <1>0, <2>1, BilledAsShown
  <2> QED
    BY <2>1, <2>2 DEF shop, Displayed
<1>5. ASSUME NEW a \in answers, OfficeAnswer(a)
      PROVE  Displayed' /\ ChargedAsShown'
  <2>1. bill' = bill
    BY <1>5 DEF OfficeAnswer
  <2>2. CASE BillingLoaded(a)
    BY <2>1, <2>2 DEF BillingLoaded, Displayed, ChargedAsShown
  <2>3. CASE ~ BillingLoaded(a)
    BY <1>1, <1>5, <2>1, <2>3 DEF OfficeAnswer, ShopAnswer, shop
  <2> QED
    BY <2>2, <2>3
<1>6. CASE OpenBilling \/ submitRecharge \/ verifyUsdtOrder \/ Administers
             \/ (\E a \in answers : LoseAnswer(a)) \/ UNCHANGED officeVars
  <2>1. UNCHANGED <<shop, bill>>
    BY <1>6, Zenon DEF OpenBilling, submitRecharge, CreateOrder, verifyUsdtOrder, Administers,
       OpenUsers, openAdminCreateUserModal, openAdminEditUserModal, Fills, ChoosePlan,
       closeAdminUserModal, saveAdminUser, deleteAdminUser, ServeForm, UpdateFails, LoseAnswer,
       officeVars
  <2> QED
    BY <1>1, <2>1 DEF shop
<1> QED
  BY <1>2, <1>3, <1>4, <1>5, <1>6 DEF Next, Buys, vars

\* What is charged is the price in large digits: it differs only when the
\* settings changed after the page was loaded, or when the wallet pays for more
\* than a month.  For any prices (placeOrder, updatePriceDisplay,
\* CalculatePlanPrice).
THEOREM BackofficeChargesAsShown == Spec => []ChargedAsShown
<1>1. Init => Displayed /\ ChargedAsShown
  BY DEF Init, OfficeInit, Displayed, ChargedAsShown
<1> QED
  BY <1>1, ChargedStep, BackofficeTypes, PTL DEF Spec

(***************************************************************************)
(* The buyer's plan                                                        *)
(***************************************************************************)
PlanKept == FormsFilled /\ BuyerKeepsPlan

LEMMA PlanKeptInit == Init => PlanKept
<1> SUFFICES ASSUME Init PROVE PlanKept
  OBVIOUS
<1>1. form.new /\ post = {}
  BY DEF Init, OfficeInit
<1> QED
  BY <1>1, Zenon DEF Init, OfficeInit, PlanKept, FormsFilled, Filled, BuyerKeepsPlan

\* What happens to an open form keeps it filled.
LEMMA FilledForms ==
    ASSUME NEW f \in Forms, Filled(f)
    PROVE  /\ Filled([f EXCEPT !.shown = FALSE])
           /\ \A p : Filled([f EXCEPT !.plan = p, !.chosen = TRUE])
<1>1. DOMAIN f = {"shown", "new", "plan", "chosen", "row"}
  BY DEF Forms
<1> DEFINE g == [f EXCEPT !.shown = FALSE]
           h(p) == [f EXCEPT !.plan = p, !.chosen = TRUE]
<1>2. g.new = f.new /\ g.chosen = f.chosen /\ g.plan = f.plan /\ g.row = f.row
  BY <1>1
<1>3. \A p : h(p).chosen
  BY <1>1
<1> HIDE DEF g, h
<1>4. Filled(g) /\ \A p : Filled(h(p))
  BY <1>2, <1>3, Zenon DEF Filled
<1> QED
  BY <1>4 DEF g, h

\* Every step leaves the forms filled.
LEMMA FormsStayFilled ==
    ASSUME TypeOK, FormsFilled, [Next]_vars
    PROVE  FormsFilled'
<1>0. form \in Forms /\ Filled(form)
  BY DEF TypeOK, OfficeTypeOK, FormsFilled
<1>1. ASSUME post' \subseteq post \cup {form}, form' = form \/ Filled(form')
      PROVE  FormsFilled'
  BY <1>0, <1>1 DEF FormsFilled, Filled
<1>2. CASE UNCHANGED <<form, post>>
  BY <1>1, <1>2
<1>3. CASE closeAdminUserModal
  BY <1>0, <1>1, <1>3, FilledForms DEF closeAdminUserModal
<1>4. CASE ChoosePlan
  BY <1>0, <1>1, <1>4, FilledForms DEF ChoosePlan
<1>5. CASE saveAdminUser
  BY <1>1, <1>5 DEF saveAdminUser
<1>6. CASE openAdminCreateUserModal \/ openAdminEditUserModal
  <2>1. Filled([shown |-> TRUE, new |-> TRUE, plan |-> "free", chosen |-> FALSE, row |-> NoValue])
    BY DEF Filled
  <2>2. Filled(EditForm(row))
    BY DEF EditForm, Filled
  <2> QED
    BY <1>1, <1>6, <2>1, <2>2 DEF openAdminCreateUserModal, openAdminEditUserModal, Fills
<1>7. CASE \E f \in post : ServeForm(f) \/ UpdateFails(f)
  BY <1>1, <1>7 DEF ServeForm, UpdateFails
<1>8. ASSUME NEW a \in answers, OfficeAnswer(a) \/ LoseAnswer(a)
      PROVE  FormsFilled'
  <2>1. post' = post
    BY <1>8 DEF OfficeAnswer, LoseAnswer, desk
  <2>2. form' = form \/ form' = [form EXCEPT !.shown = FALSE]
    BY <1>8 DEF OfficeAnswer, LoseAnswer, desk, UsersLoaded, FormAnswered
  <2> QED
    BY <1>0, <1>1, <2>1, <2>2, FilledForms
<1>9. CASE Buys \/ OpenUsers \/ deleteAdminUser \/ UNCHANGED officeVars
  BY <1>2, <1>9, Zenon DEF Buys, OpenBilling, SelectCycle, PayPlanWithBalance, placeOrder,
     submitRecharge, CreateOrder, verifyUsdtOrder, OpenUsers, deleteAdminUser, officeVars, desk
<1> QED
  BY <1>3, <1>4, <1>5, <1>6, <1>7, <1>8, <1>9 DEF Next, Administers, vars

LEMMA PlanKeptNext ==
    ASSUME TypeOK, PlanKept, [Next]_vars
    PROVE  PlanKept'
<1>1. FormsFilled' /\ plan = due
  BY FormsStayFilled DEF PlanKept, BuyerKeepsPlan
<1> SUFFICES plan' = due'
  BY <1>1 DEF PlanKept, BuyerKeepsPlan
<1>2. ASSUME NEW f \in post, AdminUpdateUser(f)
      PROVE  plan' = due'
  <2>1. /\ ~ f.new /\ Filled(f)
        /\ plan' = IF plan = "gone" THEN plan ELSE f.plan
        /\ due' = IF plan # "gone" /\ (f.chosen \/ f.row # due) THEN f.plan ELSE due
    BY <1>2 DEF AdminUpdateUser, PlanKept, FormsFilled
  <2>2. CASE plan = "gone"
    BY <1>1, <2>1, <2>2
  <2>3. CASE plan # "gone" /\ f.chosen
    BY <2>1, <2>3
  <2>4. CASE plan # "gone" /\ ~ f.chosen
    <3>1. f.plan = f.row
      BY <2>1, <2>4, Zenon DEF Filled
    <3> QED
      BY <1>1, <2>1, <2>4, <3>1
  <2> QED
    BY <2>2, <2>3, <2>4
<1>3. ASSUME NEW f \in post, ServeForm(f) \/ UpdateFails(f)
      PROVE  plan' = due'
  BY <1>1, <1>2, <1>3 DEF ServeForm, UpdateFails, AdminCreateUser
<1>4. CASE PayPlanWithBalance \/ verifyUsdtOrder \/ deleteAdminUser
  <2>1. CASE PayPlanWithBalance \/ deleteAdminUser
    BY <1>1, <2>1 DEF PayPlanWithBalance, deleteAdminUser
  <2>2. CASE verifyUsdtOrder
    <3>1. UNCHANGED <<plan, due>> \/ (plan' = orders[card].item /\ due' = orders[card].item)
      BY <2>2, Zenon DEF verifyUsdtOrder
    <3> QED
      BY <1>1, <3>1
  <2> QED
    BY <1>4, <2>1, <2>2
<1>5. CASE OpenBilling \/ SelectCycle \/ placeOrder \/ submitRecharge \/ OpenUsers
             \/ openAdminCreateUserModal \/ openAdminEditUserModal \/ ChoosePlan
             \/ closeAdminUserModal \/ saveAdminUser \/ UNCHANGED officeVars
             \/ (\E a \in answers : OfficeAnswer(a) \/ LoseAnswer(a))
  <2>1. UNCHANGED <<plan, due>>
    BY <1>5, Zenon DEF OpenBilling, SelectCycle, placeOrder, submitRecharge, CreateOrder,
       OpenUsers, openAdminCreateUserModal, openAdminEditUserModal, Fills, ChoosePlan,
       closeAdminUserModal, saveAdminUser, OfficeAnswer, LoseAnswer, officeVars
  <2> QED
    BY <1>1, <2>1
<1> QED
  BY <1>3, <1>4, <1>5 DEF Next, Buys, Administers, vars

\* An administrator's form takes no plan away that the buyer has bought or
\* was given, for any prices, orders, rows and answers (AdminUpdateUser,
\* openAdminEditUserModal and the purchases).
THEOREM BackofficeKeepsPlan == Spec => []BuyerKeepsPlan
<1>1. PlanKept => BuyerKeepsPlan
  BY DEF PlanKept
<1> QED
  BY <1>1, PlanKeptInit, PlanKeptNext, BackofficeTypes, PTL DEF Spec

(***************************************************************************)
(* Settings and switches                                                   *)
(***************************************************************************)
\* No key belongs to two forms or switches.
LEMMA FieldsApart ==
    ASSUME NEW x \in Form \cup Switch, NEW y \in Form \cup Switch, NEW k \in Keys(x), k \in Keys(y)
    PROVE  x = y
<1>1. Form = {"ns", "plan", "payment", "cf_best", "turnstile", "tg"}
  BY DEF Form, Fields
<1>2. \A f \in Form : f \notin Switch /\ Fields[f] \cap Switch = {}
  BY <1>1 DEF Fields, Switch
<1>3. \A z \in Form : k \in Keys(z) => k \in Fields[z]
  BY DEF Keys
<1>4. \A z \in Switch : k \in Keys(z) => k = z
  BY <1>2 DEF Keys
<1>5. CASE x \in Form /\ y \in Form
  BY <1>1, <1>3, <1>5 DEF Fields
<1>6. CASE x \in Switch \/ y \in Switch
  BY <1>2, <1>3, <1>4, <1>6
<1> QED
  BY <1>5, <1>6

\* What browsers may change does not overlap.
LEMMA MineApart ==
    ASSUME NEW b \in Browser, NEW c \in Browser, b # c
    PROVE  Mine(b) \cap Mine(c) = {}
<1> SUFFICES ASSUME NEW x \in Duty[b], NEW y \in Duty[c], NEW k \in Keys(x), k \in Keys(y)
             PROVE  FALSE
  BY DEF Mine
<1>1. x \in Form \cup Switch /\ y \in Form \cup Switch
  BY SettingsAssumption
<1>2. x = y
  BY <1>1, FieldsApart
<1> QED
  BY <1>2, SettingsAssumption

LEMMA MineInKey == \A b : Mine(b) \subseteq Key
  BY KeysInKey DEF Mine

\* Whatever browser b causes touches nothing that others are about: Steady
\* comes down to b's own calls and page.
LEMMA OneMoves ==
    ASSUME SettingsTypeOK, Steady, NEW b \in Browser,
           \A e \in Browser \ {b} : /\ page'[e] = page[e]
                                    /\ Agree(settings, settings', Mine(e))
                                    /\ Agree(wish, wish', Mine(e)),
           \A c \in calls' : c \in calls \/ c.by = b,
           \A c \in calls : c \in calls' \/ c.by = b,
           InOrder(b)',
           Within(settings', wish', Key)
    PROVE  Steady'
<1>1. ASSUME NEW e \in Browser, e # b
      PROVE  InOrder(e)'
  <2>1. InOrder(e)
    BY <1>1 DEF Steady
  <2>2. /\ page'[e] = page[e] /\ Agree(settings, settings', Mine(e)) /\ Agree(wish, wish', Mine(e))
    BY <1>1
  <2>3. \A c \in calls' : c.by = e => c \in calls
    BY <1>1
  <2>4. \A c \in calls : c.by = e => c \in calls'
    BY <1>1
  <2>5. \A c, d \in calls' : c.by = e /\ d.by = e => c = d
    BY <2>1, <2>3 DEF InOrder
  <2>6. ASSUME NEW c \in calls', c.by = e
        PROVE  /\ InStep(c, page'[e], settings', Mine(e) \cap Switch)
               /\ c.of = "load" => Within(c.data, wish', Mine(e))
    <3>1. /\ InStep(c, page[e], settings, Mine(e) \cap Switch)
          /\ c.of = "load" => Within(c.data, wish, Mine(e))
          /\ c \in calls
      BY <2>1, <2>3, <2>6 DEF InOrder
    <3>2. c.of # "load" => Keys(c.of) \subseteq Mine(e)
      BY <2>6, <3>1, CallType DEF Mine, Steady
    <3> QED
      BY <2>2, <3>1, <3>2 DEF InStep, Agree, Within
  <2>7. (\A c \in calls' : c.by # e) => Agree(page'[e], settings', Mine(e) \cap Switch)
    BY <2>1, <2>2, <2>4 DEF InOrder, Busy, Agree
  <2>8. Within(page'[e], wish', Mine(e))
    BY <2>1, <2>2 DEF InOrder, Within, Agree
  <2> QED
    BY <2>5, <2>6, <2>7, <2>8, Zenon DEF InOrder, Busy
<1> QED
  BY <1>1 DEF Steady

LEMMA OpensSteady ==
    ASSUME SettingsTypeOK, Steady, NEW b \in Browser, ~ Busy(b), Opens(b)
    PROVE  Steady'
<1>1. UNCHANGED <<settings, page, wish>> /\ calls' = calls \cup {Load(b)}
  BY DEF Opens
<1>2. /\ Load(b).by = b /\ Load(b).of = "load" /\ Load(b).data = settings
      /\ \A c \in calls : c.by # b
  BY DEF Load, Busy
<1>3. Within(settings, wish, Mine(b)) /\ InOrder(b)
  BY MineInKey DEF Steady, Within
<1>4. \A c \in calls' : c.by = b => c = Load(b)
  BY <1>1, <1>2
<1>5. InStep(Load(b), page[b], settings, Mine(b) \cap Switch)
  BY <1>2 DEF InStep, Agree
<1>6. InOrder(b)'
  BY <1>1, <1>2, <1>3, <1>4, <1>5 DEF InOrder, Busy
<1>7. \A e : Agree(settings, settings', Mine(e)) /\ Agree(wish, wish', Mine(e))
  BY <1>1 DEF Agree
<1>8. Within(settings', wish', Key)
  BY <1>1 DEF Steady
<1> QED
  BY <1>1, <1>2, <1>6, <1>7, <1>8, OneMoves

LEMMA SubmitsSteady ==
    ASSUME SettingsTypeOK, Steady, NEW b \in Browser, ~ Busy(b), NEW x, NEW k \in Keys(x),
           NEW v, Submits(b, x, k, v)
    PROVE  Steady'
<1> DEFINE p == [page[b] EXCEPT ![k] = v]
           c == [by |-> b, of |-> x, at |-> "sent", data |-> Restrict(p, Keys(x)),
                 key |-> k, left |-> Keys(x)]
           K == Mine(b) \cap Switch
<1>1. page' = [page EXCEPT ![b] = p] /\ page'[b] = p
  BY DEF Submits, SettingsTypeOK
<1>2. calls' = calls \cup {c}
  <2>1. Posted(b, x) = Restrict(p, Keys(x))
    BY <1>1 DEF Posted
  <2> QED
    BY <2>1, PostedKeys DEF Submits
<1>3. settings' = settings /\ x \in Duty[b] /\ wish' = [wish EXCEPT ![k] = @ \cup {v}]
  BY DEF Submits
<1>4. x # "load"
  BY <1>3, SettingsAssumption DEF Form, Fields, Switch
<1>5. /\ Agree(page[b], settings, K) /\ K \subseteq Key /\ Mine(b) \subseteq Key
      /\ Within(page[b], wish, Mine(b)) /\ Within(settings, wish, Key)
  BY MineInKey DEF Steady, InOrder
<1>6. DOMAIN page[b] = Key /\ k \in Key /\ k \in Mine(b) /\ DOMAIN wish = Key
  BY <1>3, KeysInKey, ContentsAt DEF SettingsTypeOK, Mine
<1>7. \A j \in Key : p[j] = IF j = k THEN v ELSE page[b][j]
  BY <1>6
<1>8. \A j \in Keys(x) : c.data[j] = p[j]
  BY DEF Restrict
<1>9. c.of = x /\ c.at = "sent" /\ c.left = Keys(x) /\ c.by = b
  OBVIOUS
<1> HIDE DEF p, c, K
<1>10. Agree(p, settings, K \ Keys(x))
  BY <1>5, <1>7 DEF Agree
<1>11. Agree(p, c.data, Keys(x))
  BY <1>8 DEF Agree
<1>12. InStep(c, p, settings, K)
  BY <1>4, <1>9, <1>10, <1>11 DEF InStep, Agree
<1>13. \A j \in Key : wish'[j] = IF j = k THEN wish[k] \cup {v} ELSE wish[j]
  BY <1>3, <1>6
<1>14. Within(p, wish', Mine(b)) /\ Within(settings, wish', Key)
  BY <1>5, <1>7, <1>13 DEF Within
<1>15. \A d \in calls' : d.by = b => d = c
  BY <1>2 DEF Busy
<1>16. InOrder(b)'
  BY <1>1, <1>2, <1>3, <1>4, <1>9, <1>12, <1>14, <1>15 DEF InOrder, Busy, K
<1>17. \A e \in Browser \ {b} : page'[e] = page[e]
  BY <1>1 DEF SettingsTypeOK
<1>18. \A e \in Browser \ {b} : Agree(wish, wish', Mine(e)) /\ Agree(settings, settings', Mine(e))
  BY <1>3, <1>6, <1>13, MineApart, MineInKey DEF Agree
<1> QED
  BY <1>2, <1>3, <1>9, <1>14, <1>16, <1>17, <1>18, OneMoves

\* What a call on its way to the table may count on.
LEMMA SentCall ==
    ASSUME SettingsTypeOK, Steady, NEW c \in calls, c.of # "load", c.at = "sent"
    PROVE  /\ c.by \in Browser
           /\ InOrder(c.by)
           /\ Keys(c.of) \subseteq Mine(c.by) /\ Mine(c.by) \subseteq Key
           /\ Agree(page[c.by], settings, (Mine(c.by) \cap Switch) \ Keys(c.of))
           /\ Agree(page[c.by], c.data, Keys(c.of))
           /\ Agree(c.data, settings, Keys(c.of) \ c.left)
           /\ \A d \in calls : d.by = c.by => d = c
<1>1. c.by \in Browser /\ c.of \in Duty[c.by]
  BY CallType
<1>2. InOrder(c.by)
  BY <1>1 DEF Steady
<1> QED
  BY <1>1, <1>2, MineInKey DEF InOrder, InStep, Mine

LEMMA SetSettingSteady ==
    ASSUME SettingsTypeOK, Steady, NEW c \in calls, SetSetting(c)
    PROVE  Steady'
<1> DEFINE b == c.by
           K == Mine(b) \cap Switch
<1>1. PICK k \in c.left, m \in Posts(c.by, c.of) :
         /\ k \in Keys(c.of) /\ k \in Key
         /\ settings' = [settings EXCEPT ![k] = c.data[k]]
         /\ calls' = (calls \ {c}) \cup {m}
         /\ m.by = c.by /\ m.of = c.of /\ m.at = c.at /\ m.data = c.data /\ m.left = c.left \ {k}
  BY SetSettingIs
<1>2. c.of # "load" /\ c.at = "sent" /\ UNCHANGED <<page, wish>>
  BY SetSettingIs DEF SetSetting
<1>3. /\ b \in Browser /\ InOrder(b) /\ Keys(c.of) \subseteq Mine(b) /\ Mine(b) \subseteq Key
      /\ Agree(page[b], settings, K \ Keys(c.of))
      /\ Agree(page[b], c.data, Keys(c.of))
      /\ Agree(c.data, settings, Keys(c.of) \ c.left)
      /\ \A d \in calls : d.by = b => d = c
  BY <1>2, SentCall
<1>4. \A j \in Key : settings'[j] = IF j = k THEN c.data[k] ELSE settings[j]
  BY <1>1, ContentsAt DEF SettingsTypeOK
<1>5. c.data[k] \in wish[k]
  BY <1>1, <1>3 DEF InOrder, Within, Agree
<1>6. Within(settings', wish', Key)
  BY <1>2, <1>4, <1>5 DEF Steady, Within
<1> HIDE DEF K
<1>7. K \subseteq Mine(b) /\ K = Mine(b) \cap Switch
  BY DEF K
<1>8. InStep(m, page[b], settings', K)
  BY <1>1, <1>2, <1>3, <1>4, <1>7 DEF InStep, Agree
<1>9. \A d \in calls' : d.by = b => d = m
  BY <1>1, <1>3
<1>10. InOrder(b)'
  BY <1>1, <1>2, <1>3, <1>7, <1>8, <1>9 DEF InOrder, Busy
<1>11. \A e \in Browser \ {b} : Agree(settings, settings', Mine(e)) /\ Agree(wish, wish', Mine(e))
  BY <1>1, <1>2, <1>3, <1>4, MineApart, MineInKey DEF Agree
<1> QED
  BY <1>1, <1>2, <1>3, <1>6, <1>10, <1>11, OneMoves

\* The call that a handler has answered.
LEMMA MovesOwn ==
    ASSUME SettingsTypeOK, NEW c \in calls, c.of # "load", NEW at \in {"ok", "failed"}, Moves(c, at)
    PROVE  \E m : /\ calls' = (calls \ {c}) \cup {m}
                  /\ m.by = c.by /\ m.of = c.of /\ m.at = at
<1> DEFINE m == [c EXCEPT !.at = at]
<1>1. m.by = c.by /\ m.of = c.of /\ m.at = at
  BY CallType DEF Posts
<1> QED
  BY <1>1 DEF Moves

LEMMA AdminSettingsSteady ==
    ASSUME SettingsTypeOK, Steady, NEW c \in calls, handleAdminSettings(c)
    PROVE  Steady'
<1> DEFINE b == c.by
           k == c.key
           K == Mine(b) \cap Switch
<1>1. c.of # "load" /\ c.at = "sent" /\ c.left = {}
  BY CallType DEF handleAdminSettings
<1>2. /\ Moves(c, "ok") /\ wish' = [wish EXCEPT ![k] = {c.data[k]}]
      /\ UNCHANGED <<page, settings>>
  BY DEF handleAdminSettings
<1>3. /\ b \in Browser /\ InOrder(b) /\ Keys(c.of) \subseteq Mine(b) /\ Mine(b) \subseteq Key
      /\ Agree(page[b], settings, K \ Keys(c.of))
      /\ Agree(page[b], c.data, Keys(c.of))
      /\ Agree(c.data, settings, Keys(c.of))
      /\ \A d \in calls : d.by = b => d = c
  BY <1>1, SentCall
<1>4. k \in Keys(c.of) /\ k \in Key /\ k \in Mine(b) /\ DOMAIN wish = Key
  BY <1>1, <1>3, CallType DEF SettingsTypeOK
<1>5. \A j \in Key : wish'[j] = IF j = k THEN {c.data[k]} ELSE wish[j]
  BY <1>2, <1>4
<1>6. PICK m : calls' = (calls \ {c}) \cup {m} /\ m.by = c.by /\ m.of = c.of /\ m.at = "ok"
  BY <1>1, <1>2, MovesOwn
<1>7. Within(settings', wish', Key)
  BY <1>2, <1>3, <1>4, <1>5 DEF Steady, Within, Agree
<1>8. Within(page[b], wish', Mine(b))
  BY <1>3, <1>4, <1>5 DEF InOrder, Within, Agree
<1> HIDE DEF K, k
<1>9. K \subseteq Mine(b) /\ K = Mine(b) \cap Switch
  BY DEF K
<1>10. InStep(m, page[b], settings, K)
  BY <1>1, <1>3, <1>6 DEF InStep, Agree
<1>11. \A d \in calls' : d.by = b => d = m
  BY <1>3, <1>6
<1>12. InOrder(b)'
  BY <1>1, <1>2, <1>6, <1>8, <1>9, <1>10, <1>11 DEF InOrder, Busy
<1>13. \A e \in Browser \ {b} : Agree(settings, settings', Mine(e)) /\ Agree(wish, wish', Mine(e))
  BY <1>2, <1>3, <1>4, <1>5, MineApart, MineInKey DEF Agree
<1> QED
  BY <1>2, <1>3, <1>6, <1>7, <1>12, <1>13, OneMoves

LEMMA SettingFailsSteady ==
    ASSUME SettingsTypeOK, Steady, NEW c \in calls, SettingFails(c)
    PROVE  Steady'
<1> DEFINE b == c.by
           K == Mine(b) \cap Switch
<1>1. c.of # "load" /\ c.at = "sent"
  BY CallType DEF SettingFails
<1>2. Moves(c, "failed") /\ UNCHANGED <<page, settings, wish>>
  BY DEF SettingFails
<1>3. /\ b \in Browser /\ InOrder(b) /\ Agree(page[b], settings, K \ Keys(c.of))
      /\ \A d \in calls : d.by = b => d = c
  BY <1>1, SentCall
<1>4. PICK m : calls' = (calls \ {c}) \cup {m} /\ m.by = c.by /\ m.of = c.of /\ m.at = "failed"
  BY <1>1, <1>2, MovesOwn
<1> HIDE DEF K
<1>5. InStep(m, page[b], settings, K)
  BY <1>1, <1>3, <1>4 DEF InStep
<1>6. \A d \in calls' : d.by = b => d = m
  BY <1>3, <1>4
<1>7. InOrder(b)'
  BY <1>1, <1>2, <1>3, <1>4, <1>5, <1>6 DEF InOrder, Busy, K
<1>8. \A e : Agree(settings, settings', Mine(e)) /\ Agree(wish, wish', Mine(e))
  BY <1>2 DEF Agree
<1>9. Within(settings', wish', Key)
  BY <1>2 DEF Steady
<1> QED
  BY <1>2, <1>3, <1>4, <1>7, <1>8, <1>9, OneMoves

\* A call ends, and perhaps a load takes its place.
LEMMA EndsSteady ==
    ASSUME SettingsTypeOK, Steady, NEW c \in calls, UNCHANGED <<settings, wish>>,
           \A e \in Browser \ {c.by} : page'[e] = page[e],
           Within(page'[c.by], wish, Mine(c.by)),
           NEW rest, rest = {} \/ rest = {Load(c.by)}, Ends(c, rest),
           rest = {} => Agree(page'[c.by], settings, Mine(c.by) \cap Switch)
    PROVE  Steady'
<1> DEFINE b == c.by
           K == Mine(b) \cap Switch
<1>1. b \in Browser
  BY CallType
<1>2. calls' = (calls \ {c}) \cup rest
  BY DEF Ends
<1>3. \A d \in calls : d.by = b => d = c
  BY <1>1 DEF Steady, InOrder
<1>4. Load(b).by = b /\ Load(b).of = "load" /\ Load(b).data = settings
  BY DEF Load
<1>5. \A d \in calls' : d.by = b => d = Load(b)
  BY <1>2, <1>3
<1>6. \A p : InStep(Load(b), p, settings, K)
  BY <1>4 DEF InStep, Agree
<1>7. Within(settings, wish, Mine(b))
  BY MineInKey DEF Steady, Within
<1>8. (\A d \in calls' : d.by # b) => rest = {}
  BY <1>2, <1>4
<1> HIDE DEF K
<1>9. InOrder(b)'
  BY <1>4, <1>5, <1>6, <1>7, <1>8 DEF InOrder, Busy, K
<1>10. \A e : Agree(settings, settings', Mine(e)) /\ Agree(wish, wish', Mine(e))
  BY DEF Agree
<1>11. Within(settings', wish', Key)
  BY DEF Steady
<1> QED
  BY <1>1, <1>2, <1>4, <1>9, <1>10, <1>11, OneMoves

LEMMA AnswerSteady ==
    ASSUME SettingsTypeOK, Steady, NEW c \in calls, SettingsAnswer(c)
    PROVE  Steady'
<1> DEFINE b == c.by
           K == Mine(b) \cap Switch
<1>1. UNCHANGED <<settings, wish>> /\ b \in Browser
  BY CallType DEF SettingsAnswer
<1>2. /\ InStep(c, page[b], settings, K) /\ Within(page[b], wish, Mine(b))
      /\ c.of = "load" => Within(c.data, wish, Mine(b))
  BY <1>1 DEF Steady, InOrder
<1>3. CASE PageLoaded(c)
  <2>1. Agree(c.data, settings, K)
    BY <1>2, <1>3 DEF PageLoaded, InStep
  <2>2. page'[b] = c.data /\ \A e \in Browser \ {b} : page'[e] = page[e]
    BY <1>1, <1>3 DEF PageLoaded, SettingsTypeOK
  <2> QED
    BY <1>1, <1>2, <1>3, <2>1, <2>2, EndsSteady DEF PageLoaded
<1>4. CASE PostAnswered(c)
  <2>1. page' = page /\ c.of # "load" /\ c.at # "sent"
        /\ Ends(c, IF Reloads(c) THEN {Load(b)} ELSE {})
    BY <1>4 DEF PostAnswered
  <2>2. CASE Reloads(c)
    BY <1>1, <1>2, <2>1, <2>2, EndsSteady
  <2>3. CASE ~ Reloads(c)
    <3>1. c.at \in {"ok", "failed"}
      BY <2>1, CallType
    <3>2. CASE c.at = "ok"
      BY <1>1, <1>2, <2>1, <2>3, <3>2, EndsSteady DEF InStep
    <3>3. CASE c.at = "failed"
      <4>1. c.of \in Form
        BY <2>3, <3>3 DEF Reloads
      <4>2. Switch \cap Keys(c.of) = {}
        BY <4>1 DEF Keys, Form, Fields, Switch
      <4>3. Agree(page[b], settings, K \ Keys(c.of))
        BY <1>2, <2>1, <3>3 DEF InStep
      <4>4. Agree(page[b], settings, K)
        BY <4>2, <4>3 DEF Agree
      <4> QED
        BY <1>1, <1>2, <2>1, <2>3, <4>4, EndsSteady
    <3> QED
      BY <3>1, <3>2, <3>3
  <2> QED
    BY <2>2, <2>3
<1> QED
  BY <1>3, <1>4 DEF SettingsAnswer

LEMMA SteadyStep ==
    ASSUME TypeOK, SteadyUnlessCrossed, [Next]_vars
    PROVE  SteadyUnlessCrossed'
<1> SUFFICES ASSUME ~ crossed' PROVE Steady'
  BY DEF SteadyUnlessCrossed
<1>0. SettingsTypeOK
  BY DEF TypeOK
<1>1. ASSUME SettingsNext
      PROVE  Steady'
  <2>1. ~ crossed
    BY <1>1, Zenon DEF SettingsNext, Opens, Clicks, SetSetting, handleAdminSettings, SettingFails,
       SettingsAnswer, LoadFails, saveNSNodes, savePlanSettings, savePaymentSettings,
       saveCFBestSettings, saveTurnstileKeys, saveTGBackupSettings, updateBasicSetting,
       handleAutoRenewChange, Saves, Flips, Submits
  <2>2. Steady
    BY <2>1 DEF SteadyUnlessCrossed
  <2>3. ASSUME NEW b \in Browser, Opens(b)
        PROVE  Steady'
    <3>1. ~ Busy(b)
      BY <2>3 DEF Opens, Clicks
    <3> QED
      BY <1>0, <2>2, <2>3, <3>1, OpensSteady
  <2>4. ASSUME NEW b \in Browser, NEW x, NEW k \in Keys(x), NEW v \in Allowed(k),
               Submits(b, x, k, v)
        PROVE  Steady'
    <3>1. ~ Busy(b)
      BY <2>4 DEF Submits, Clicks
    <3> QED
      BY <1>0, <2>2, <2>4, <3>1, SubmitsSteady
  <2>5. ASSUME NEW c \in calls, LoadFails(c)
        PROVE  FALSE
    BY <2>5 DEF LoadFails
  <2> QED
    BY <1>0, <1>1, <2>2, <2>3, <2>4, <2>5, Entries, SetSettingSteady, AdminSettingsSteady,
       SettingFailsSteady, AnswerSteady DEF SettingsNext
<1>2. ASSUME UNCHANGED settingsVars
      PROVE  Steady'
  <2>1. Steady
    BY <1>2 DEF settingsVars, SteadyUnlessCrossed
  <2>2. \A b \in Browser : InOrder(b)'
    BY <1>2, <2>1 DEF Steady, settingsVars, InOrder, Busy
  <2> QED
    BY <1>2, <2>1, <2>2 DEF Steady, settingsVars
<1>3. CASE UNCHANGED vars
  BY <1>2, <1>3 DEF vars
<1>4. CASE Buys \/ Administers \/ (\E a \in answers : OfficeAnswer(a) \/ LoseAnswer(a))
  BY <1>0, <1>2, <1>4, OfficeLeavesSettings
<1> QED
  BY <1>1, <1>3, <1>4 DEF Next

LEMMA SteadyAlways == Spec => []SteadyUnlessCrossed
<1>1. Init => Steady
  <2> SUFFICES ASSUME Init PROVE Steady
    OBVIOUS
  <2>1. /\ calls = {} /\ page = [b \in Browser |-> settings]
        /\ wish = [k \in Key |-> {settings[k]}]
    BY DEF Init, SettingsInit
  <2>2. Within(settings, wish, Key)
    BY <2>1 DEF Within
  <2> QED
    BY <2>1, <2>2, MineInKey DEF Steady, InOrder, Within, Agree, Busy
<1>2. Init => SteadyUnlessCrossed
  BY <1>1 DEF SteadyUnlessCrossed
<1> QED
  BY <1>2, SteadyStep, BackofficeTypes, PTL DEF Spec

\* Administrators with different forms open never take back each other's
\* settings: while everybody waits for his answers, each key has the value last
\* confirmed for it or one typed since, although saves interleave key by key
\* and may stop half way (SetSetting, handleAdminSettings, the six save
\* functions), however many of them there are.
THEOREM SettingsStayAsTyped == Spec => []SettingsAsTyped
<1>1. SteadyUnlessCrossed => SettingsAsTyped
  BY DEF SteadyUnlessCrossed, Steady, Within, SettingsAsTyped
<1> QED
  BY <1>1, SteadyAlways, PTL

\* When his answers are there, a switch shows everybody what is stored, also
\* after calls that failed or were answered in vain (updateBasicSetting,
\* handleAutoRenewChange, loadSettingsPage).
THEOREM SwitchesTellTruth == Spec => []SwitchTellsTruth
<1>1. ASSUME SteadyUnlessCrossed, NEW b \in Browser, ~ Busy(b), ~ crossed,
             NEW k \in Duty[b] \cap Switch \cap Key
      PROVE  page[b][k] = settings[k]
  <2>1. Agree(page[b], settings, Mine(b) \cap Switch)
    BY <1>1 DEF SteadyUnlessCrossed, Steady, InOrder
  <2>2. k \in Keys(k)
    BY DEF Keys, Form, Fields, Switch
  <2>3. k \in Mine(b)
    BY <2>2 DEF Mine
  <2> QED
    BY <2>1, <2>3 DEF Agree
<1>2. SteadyUnlessCrossed => SwitchTellsTruth
  BY <1>1 DEF SwitchTellsTruth
<1> QED
  BY <1>2, SteadyAlways, PTL
=============================================================================
