------------------------------- MODULE Console -------------------------------
(***************************************************************************)
(* The records and DDNS panes of the web console (static/app.js) with the  *)
(* line menus of its two forms (static/cascader.js), in one logged-in tab. *)
(*                                                                         *)
(* The server handles a request in the step that sends it; the answer is   *)
(* delivered at any later time, so answers overtake each other and meet a  *)
(* screen that has moved on.  hist holds every state the server has had:   *)
(* an answer, and what the screen shows, is a position in hist, 0 being    *)
(* the empty globalData of a page that has loaded nothing.                 *)
(*                                                                         *)
(* A record is named by its host and its line (subdomain, domain and type  *)
(* go together in every call), all hosts are in one zone, and the text     *)
(* fields are filled in at the moment a form is submitted: what a form     *)
(* keeps is its line, which only the menu changes.  Clicks reach only what *)
(* the open dialog leaves visible.  Refused calls, which raise an alert    *)
(* and change nothing, and the resource cards are left out.                *)
(***************************************************************************)
EXTENDS Naturals, Sequences, FiniteSets, SequencesExt

CONSTANTS
    Host, Val,
    Line,       \* lines of records and of menu entries, as paths <<isp, region>>
    Keyword,    \* what is typed into the search box: hosts and values
    Seed,       \* the records the zone holds at first
    MaxWrites,  \* bound: changes of the server's state
    MaxVisits,  \* bound: panes opened
    MaxTyped,   \* bound: search texts typed
    MaxFaults,  \* bound: answers lost
    NoVal, NoRec, NoKw

ASSUME ConsoleAssumption ==
    /\ <<"def">> \in Line
    /\ Seed \in [Host \X Line -> Val \cup {NoVal}]
    /\ Keyword \subseteq Host \cup Val
    /\ {MaxWrites, MaxVisits, MaxTyped, MaxFaults} \subseteq Nat
    /\ NoVal \notin Val /\ NoRec \notin Host \X Line /\ NoKw \notin Keyword

Rec == Host \X Line
Token == (1..MaxWrites) \X Rec          \* a token and what it may update

VARIABLES
    hist,       \* the server's states: records and tokens, newest last
    net,        \* answers on their way
    front,      \* positions of globalData and of the DDNS table
    rows,       \* the records table: position and keyword it was drawn from
    timer,      \* __filterTimer: the pending keywords, none or one
    pane,       \* the pane switchTab opened
    modal,      \* the dialog that is shown
    editing,    \* the record the open form was opened for, or NoRec
    casc,       \* the two line menus: hidden input and dropdown
    visits, typed, faults,
    own,        \* history: position of the user's last answered change
    back        \* history: an answer older than what was shown has been shown

bounds == <<visits, typed, faults>>
screen == <<front, rows, timer, pane, modal, editing, casc>>
vars == <<hist, net, screen, bounds, own, back>>

Menu == {"select-isp", "ddns-select-isp"}
Load == {"records", "tokens"}
Write == {"saved", "deleted", "minted", "revoked"}
State == [recs : [Rec -> Val \cup {NoVal}], toks : SUBSET Token]

TypeOK ==
    /\ hist \in Seq(State) /\ Len(hist) \in 1..MaxWrites + 1
    /\ net \subseteq [kind : Load \cup Write, at : 1..Len(hist)]
    /\ front \in [recs : 0..Len(hist), toks : 0..Len(hist)]
    /\ rows \in [at : 0..Len(hist), kw : Keyword \cup {NoKw}]
    /\ timer \subseteq Keyword \cup {NoKw} /\ Cardinality(timer) <= 1
    /\ pane \in {"dashboard", "records", "ddns"}
    /\ modal \in {"none", "record", "ddns"}
    /\ editing \in Rec \cup {NoRec} /\ (editing # NoRec => modal = "record")
    /\ casc \in [Menu -> [line : Line, open : BOOLEAN]]
    /\ visits \in 0..MaxVisits /\ typed \in 0..MaxTyped /\ faults \in 0..MaxFaults
    /\ own \in 0..Len(hist) /\ back \in BOOLEAN

(***************************************************************************)
(* The server                                                              *)
(***************************************************************************)
Now == Last(hist)
Empty == [recs |-> [k \in Rec |-> NoVal], toks |-> {}]
Data(at) == IF at = 0 THEN Empty ELSE hist[at]
Configured(data) == {k \in Rec : data.recs[k] # NoVal}

\* A zone lives as long as it has records.
Hosted == Configured(Now) # {}

Answers(kinds) == {[kind |-> k, at |-> Len(hist)] : k \in kinds}

\* The server's state becomes s, and the answer is on its way.
Changes(s, answer) ==
    /\ Len(hist) <= MaxWrites
    /\ hist' = Append(hist, s)
    /\ net' = net \cup {[kind |-> answer, at |-> Len(hist) + 1]}
    /\ UNCHANGED <<bounds, own, back>>

(***************************************************************************)
(* The line menus                                                          *)
(***************************************************************************)
Carrier == {"ct", "cu", "cm"}
Region == {"bj", "tj", "he", "sx", "nm", "ln", "jl", "hl", "sh", "js", "zj",
           "ah", "fj", "jx", "sd", "ha", "hb", "hn", "gd", "gx", "hi", "cq",
           "sc", "gz", "yn", "xz", "sn", "gs", "qh", "nx", "xj", "tw", "xg", "am"}

\* The leaves of the tree, each with a label of its own.
ispTreeData == {<<"def">>} \cup {<<c>> : c \in Carrier} \cup Carrier \X Region

\* Any click outside a menu closes it.
Outside(c) == [id \in Menu |-> [c[id] EXCEPT !.open = FALSE]]

\* The hidden input; the label is the line's in the tree, or the line itself.
setCascaderValue(c, id, l) == [c EXCEPT ![id].line = l]

Visible(id) == modal = IF id = "select-isp" THEN "record" ELSE "ddns"

NeverDisabled(id) == FALSE                                      \* mutant

\* The attribute that editRecord sets and showAddModal removes.
Disabled(id) == id = "select-isp" /\ editing # NoRec

toggleCascader(id) ==
    /\ Visible(id) /\ ~Disabled(id)
    /\ casc' = [Outside(casc) EXCEPT ![id].open = ~casc[id].open]
    /\ UNCHANGED <<hist, net, front, rows, timer, pane, modal, editing, bounds, own, back>>

\* The entries of a menu are the leaves; a click on a carrier does nothing.
initCascader == Line \cap ispTreeData

\* A click on an entry, whatever the attribute says.
selectValue(id) ==
    /\ Visible(id) /\ casc[id].open
    /\ \E l \in initCascader : casc' = Outside(setCascaderValue(casc, id, l))
    /\ UNCHANGED <<hist, net, front, rows, timer, pane, modal, editing, bounds, own, back>>

(***************************************************************************)
(* Opening and closing                                                     *)
(***************************************************************************)
\* dialog d opens or closes on a click; casc becomes c.
Shows(d, e, c) ==
    /\ modal' = d
    /\ editing' = e
    /\ casc' = Outside(c)
    /\ UNCHANGED <<hist, net, front, rows, timer, pane, bounds, own, back>>

\* form.reset() leaves the menu alone, whose hidden input it does not touch.
showAddModal == pane = "records" /\ modal = "none" /\ Shows("record", NoRec, casc)

\* A group is a host with all its lines; the keyword is sought in the host's
\* name and among its values.
Matches(data, h, kw) ==
    \/ kw \in {NoKw, h}
    \/ \E l \in Line : data.recs[<<h, l>>] = kw

renderRecordsTable(at, kw) ==
    {k \in Configured(Data(at)) : Matches(Data(at), k[1], kw)}

editRecord ==
    /\ pane = "records" /\ modal = "none"
    /\ \E k \in renderRecordsTable(rows.at, rows.kw) :
           Shows("record", k, setCascaderValue(casc, "select-isp", k[2]))

generateToken == pane = "ddns" /\ modal = "none" /\ Shows("ddns", NoRec, casc)

CancelKeepsRecord == modal # "none" /\ Shows("none", editing, casc)  \* mutant

\* closeModal and closeDdnsModal, from a button.
CancelForm == modal # "none" /\ Shows("none", NoRec, casc)

switchTab ==
    /\ modal = "none"
    /\ visits < MaxVisits
    /\ visits' = visits + 1
    /\ \E p \in {"records", "ddns"} :
         /\ pane' = p
         /\ net' = net \cup Answers({IF p = "records" THEN "records" ELSE "tokens"})
    /\ UNCHANGED <<hist, front, rows, timer, modal, editing, casc, typed, faults, own, back>>

(***************************************************************************)
(* The search box: a keystroke restarts the timer, which draws the table   *)
(* from the globalData of the moment it fires.                             *)
(***************************************************************************)
filterRecords ==
    /\ pane = "records" /\ modal = "none"
    /\ typed < MaxTyped
    /\ typed' = typed + 1
    /\ \E kw \in Keyword \cup {NoKw} : timer' = {kw}
    /\ UNCHANGED <<hist, net, front, rows, pane, modal, editing, casc, visits, faults, own, back>>

FilterFires ==
    /\ \E kw \in timer : rows' = [at |-> front.recs, kw |-> kw]
    /\ timer' = {}
    /\ UNCHANGED <<hist, net, front, pane, modal, editing, casc, bounds, own, back>>

(***************************************************************************)
(* Changes                                                                 *)
(***************************************************************************)
\* The dialog stays until the answer; a second click sends it again.
saveRecord ==
    /\ modal = "record"
    /\ \E h \in Host, v \in Val :
         /\ editing # NoRec => h = editing[1]
         /\ Changes([Now EXCEPT !.recs[<<h, casc["select-isp"].line>>] = v], "saved")
    /\ casc' = Outside(casc)
    /\ UNCHANGED <<front, rows, timer, pane, modal, editing>>

\* In a zone that is gone it is refused.
deleteRecord ==
    /\ pane = "records" /\ modal = "none"
    /\ Hosted
    /\ \E k \in renderRecordsTable(rows.at, rows.kw) :
           Changes([Now EXCEPT !.recs[k] = NoVal], "deleted")
    /\ UNCHANGED screen

saveDdnsToken ==
    /\ modal = "ddns"
    /\ Hosted
    /\ \E h \in Host :
           Changes([Now EXCEPT !.toks = @ \cup
                       {<<Len(hist), <<h, casc["ddns-select-isp"].line>>>>}], "minted")
    /\ casc' = Outside(casc)
    /\ UNCHANGED <<front, rows, timer, pane, modal, editing>>

\* Refused for a token that is gone.
deleteToken ==
    /\ pane = "ddns" /\ modal = "none"
    /\ \E k \in Data(front.toks).toks \cap Now.toks :
           Changes([Now EXCEPT !.toks = @ \ {k}], "revoked")
    /\ UNCHANGED screen

\* A device with a token reports its address: nothing tells the console.
DeviceUpdates ==
    /\ Len(hist) <= MaxWrites
    /\ \E k \in Now.toks, v \in Val :
         hist' = Append(hist, [Now EXCEPT !.recs[k[2]] = v])
    /\ UNCHANGED <<net, screen, bounds, own, back>>

(***************************************************************************)
(* Answers                                                                 *)
(***************************************************************************)
KeepsOldTable(m) ==                                             \* mutant
    /\ front' = [front EXCEPT !.recs = m.at]
    /\ net' = (net \ {m}) \cup Answers({"tokens"})
    /\ back' = (back \/ m.at < front.recs)
    /\ UNCHANGED <<rows, modal, editing, own>>

\* loadRecords: globalData, the table without the search, and the tokens.
RecordsLoaded(m) ==
    /\ front' = [front EXCEPT !.recs = m.at]
    /\ rows' = [at |-> m.at, kw |-> NoKw]
    /\ net' = (net \ {m}) \cup Answers({"tokens"})
    /\ back' = (back \/ m.at < front.recs)
    /\ UNCHANGED <<modal, editing, own>>

loadDDNSTable(m) ==
    /\ front' = [front EXCEPT !.toks = m.at]
    /\ net' = net \ {m}
    /\ back' = (back \/ m.at < front.toks)
    /\ UNCHANGED <<rows, modal, editing, own>>

ReloadsNothing(m) == {}                                         \* mutant

\* What the answer to a change makes the console load.
Reloads(m) ==
    IF m.kind \in {"saved", "deleted"} THEN {"records"} ELSE Load

Closes(m) == IF m.kind = "saved" THEN "record" ELSE IF m.kind = "minted" THEN "ddns" ELSE "none"

\* The answer closes the dialog of its kind, whoever opened it since.
Changed(m) ==
    /\ IF modal = Closes(m) THEN modal' = "none" /\ editing' = NoRec
                             ELSE UNCHANGED <<modal, editing>>
    /\ net' = (net \ {m}) \cup Answers(Reloads(m))
    /\ own' = IF m.at > own THEN m.at ELSE own
    /\ UNCHANGED <<front, rows, back>>

Handle(m) ==
    /\ \/ m.kind = "records" /\ RecordsLoaded(m)
       \/ m.kind = "tokens" /\ loadDDNSTable(m)
       \/ m.kind \in Write /\ Changed(m)
    /\ UNCHANGED <<hist, timer, pane, casc, bounds>>

\* The call fails on its way back: an alert, or a line in the log.
Lose(m) ==
    /\ faults < MaxFaults
    /\ faults' = faults + 1
    /\ net' = net \ {m}
    /\ UNCHANGED <<hist, screen, visits, typed, own, back>>

-----------------------------------------------------------------------------
\* The page has opened on the dashboard and asked for the records.
Init ==
    /\ hist = <<[Empty EXCEPT !.recs = Seed]>>
    /\ net = {[kind |-> "records", at |-> 1]}
    /\ front = [recs |-> 0, toks |-> 0]
    /\ rows = [at |-> 0, kw |-> NoKw]
    /\ timer = {}
    /\ pane = "dashboard"
    /\ modal = "none"
    /\ editing = NoRec
    /\ casc = [id \in Menu |-> [line |-> <<"def">>, open |-> FALSE]]
    /\ visits = 0 /\ typed = 0 /\ faults = 0
    /\ own = 0 /\ back = FALSE

User ==
    \/ \E id \in Menu : toggleCascader(id) \/ selectValue(id)
    \/ showAddModal \/ editRecord \/ generateToken \/ CancelForm
    \/ switchTab \/ filterRecords
    \/ saveRecord \/ deleteRecord \/ saveDdnsToken \/ deleteToken

Delivered == \E m \in net : Handle(m)

Next ==
    \/ User
    \/ FilterFires
    \/ Delivered
    \/ \E m \in net : Lose(m)
    \/ DeviceUpdates

\* Every call is answered or fails in the end, and the browser runs the timer.
Spec == Init /\ [][Next]_vars /\ WF_vars(Delivered) /\ WF_vars(FilterFires)

(***************************************************************************)
(* Properties                                                              *)
(***************************************************************************)
\* When nothing is on its way, neither table is older than the last change
\* the user was told of, unless an answer was lost or two loads came in the
\* wrong order (loadRecords and loadDDNSTable take whatever comes last).
OwnChangesShown ==
    net = {} /\ faults = 0 /\ ~back => front.recs >= own /\ front.toks >= own

\* The records table never shows other data than globalData, which the next
\* search draws from: neither a load nor a timer that fires late leaves rows
\* that a later keystroke would change.
RowsFollowData == rows.at = front.recs

\* A form that was opened to edit a record changes that record or nothing,
\* whatever was clicked and delivered since: the fields that name it are
\* disabled, and an open menu does not outlive the form it was opened in.
EditKeepsRecord ==
    [][modal = "record" /\ editing # NoRec /\ Len(hist') > Len(hist)
         => \/ \A k \in Rec \ {editing} : Last(hist').recs[k] = Now.recs[k]
            \/ DeviceUpdates]_vars

\* A change the user was told of gets to both tables, whatever else the user
\* does meanwhile, unless an answer was lost or came out of order.
OwnChangesArrive ==
    \A i \in 2..MaxWrites + 1 :
        own >= i ~> (front.recs >= i /\ front.toks >= i) \/ back \/ faults > 0
=============================================================================
