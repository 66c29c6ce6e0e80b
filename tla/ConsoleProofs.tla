---------------------------- MODULE ConsoleProofs ----------------------------
(***************************************************************************)
(* Theorems about Console, for any records, lines, search words and        *)
(* numbers of changes, panes and lost answers.                             *)
(***************************************************************************)
EXTENDS Console, FiniteSetTheorems, TLAPS

(***************************************************************************)
(* Types                                                                   *)
(***************************************************************************)
\* What the server holds now is a state, and so is what a table shows.
LEMMA DataType ==
    ASSUME TypeOK
    PROVE  /\ Len(hist) \in Nat \ {0}
           /\ Now \in State
           /\ \A at \in 0..Len(hist) : Data(at) \in State
<1>1. Len(hist) \in Nat \ {0} /\ DOMAIN hist = 1..Len(hist) /\ \A i \in 1..Len(hist) : hist[i] \in State
  BY ConsoleAssumption DEF TypeOK
<1>2. Now \in State
  BY <1>1 DEF Now, Last
<1>3. Empty \in State
  BY DEF Empty, State
<1>4. \A at \in 0..Len(hist) : Data(at) \in State
  BY <1>1, <1>3 DEF Data
<1>. QED
  BY <1>1, <1>2, <1>4

LEMMA TypeInit == Init => TypeOK
<1> SUFFICES ASSUME Init PROVE TypeOK
  OBVIOUS
<1> DEFINE s == [Empty EXCEPT !.recs = Seed]
<1>1. s \in State
  BY ConsoleAssumption DEF Empty, State, Rec
<1>2. hist = <<s>>
  BY DEF Init
<1> HIDE DEF s
<1>3. hist \in Seq(State) /\ Len(hist) = 1
  BY <1>1, <1>2
<1>4. casc \in [Menu -> [line : Line, open : BOOLEAN]]
  BY ConsoleAssumption DEF Init
<1>5. timer = {} /\ Cardinality({}) = 0
  BY FS_EmptySet DEF Init
<1>6. /\ net = {[kind |-> "records", at |-> 1]} /\ front = [recs |-> 0, toks |-> 0]
      /\ rows = [at |-> 0, kw |-> NoKw] /\ pane = "dashboard" /\ modal = "none"
      /\ editing = NoRec /\ visits = 0 /\ typed = 0 /\ faults = 0 /\ own = 0 /\ back = FALSE
  BY DEF Init
<1>7. net \subseteq [kind : Load \cup Write, at : 1..Len(hist)]
  BY <1>3, <1>6 DEF Load
<1>8. /\ front \in [recs : 0..Len(hist), toks : 0..Len(hist)]
      /\ rows \in [at : 0..Len(hist), kw : Keyword \cup {NoKw}]
      /\ own \in 0..Len(hist) /\ back \in BOOLEAN
      /\ editing \in Rec \cup {NoRec} /\ (editing # NoRec => modal = "record")
  <2>1. 0 \in 0..Len(hist)
    BY <1>3
  <2>2. FALSE \in BOOLEAN /\ NoKw \in Keyword \cup {NoKw} /\ NoRec \in Rec \cup {NoRec}
    OBVIOUS
  <2>. QED  BY <1>6, <2>1, <2>2
<1>9. Len(hist) \in 1..MaxWrites + 1
  BY <1>3, ConsoleAssumption
<1>. QED
  BY <1>3, <1>4, <1>5, <1>6, <1>7, <1>8, <1>9, ConsoleAssumption DEF TypeOK

\* The menus keep their type.
LEMMA MenuType ==
    ASSUME TypeOK
    PROVE  /\ Outside(casc) \in [Menu -> [line : Line, open : BOOLEAN]]
           /\ \A id \in Menu, l \in Line :
                /\ setCascaderValue(casc, id, l) \in [Menu -> [line : Line, open : BOOLEAN]]
                /\ Outside(setCascaderValue(casc, id, l)) \in [Menu -> [line : Line, open : BOOLEAN]]
           /\ \A id \in Menu :
                [Outside(casc) EXCEPT ![id].open = ~casc[id].open]
                  \in [Menu -> [line : Line, open : BOOLEAN]]
<1> DEFINE M == [Menu -> [line : Line, open : BOOLEAN]]
<1>1. casc \in M
  BY DEF TypeOK
<1>2. \A c \in M : Outside(c) \in M
  BY DEF Outside
<1>3. \A id \in Menu, l \in Line : setCascaderValue(casc, id, l) \in M
  BY <1>1 DEF setCascaderValue
<1>4. \A id \in Menu : [Outside(casc) EXCEPT ![id].open = ~casc[id].open] \in M
  <2> DEFINE c == Outside(casc)
  <2>1. c \in M
    BY <1>1, <1>2
  <2> HIDE DEF c
  <2>2. \A id \in Menu, b \in BOOLEAN : [c EXCEPT ![id].open = b] \in M
    BY <2>1
  <2>3. \A id \in Menu : (~casc[id].open) \in BOOLEAN
    OBVIOUS
  <2>. QED  BY <2>2, <2>3 DEF c
<1> HIDE DEF M
<1>5. \A id \in Menu, l \in Line : Outside(setCascaderValue(casc, id, l)) \in M
  BY <1>2, <1>3
<1>. QED
  BY <1>1, <1>2, <1>3, <1>4, <1>5 DEF M

\* One more state of the server leaves what is typed by the number of states.
LEMMA GrowsType ==
    ASSUME TypeOK, NEW s \in State, Len(hist) <= MaxWrites, hist' = Append(hist, s)
    PROVE  /\ hist' \in Seq(State) /\ Len(hist') = Len(hist) + 1 /\ Last(hist') = s
           /\ Len(hist') \in 1..MaxWrites + 1
           /\ net \subseteq [kind : Load \cup Write, at : 1..Len(hist')]
           /\ front \in [recs : 0..Len(hist'), toks : 0..Len(hist')]
           /\ rows \in [at : 0..Len(hist'), kw : Keyword \cup {NoKw}]
           /\ own \in 0..Len(hist')
<1>1. hist \in Seq(State) /\ Len(hist) \in Nat \ {0}
  BY DataType DEF TypeOK
<1>2. hist' \in Seq(State) /\ Len(hist') = Len(hist) + 1 /\ Last(hist') = s
  BY <1>1 DEF Last
<1>3. Len(hist') \in 1..MaxWrites + 1
  BY <1>1, <1>2, ConsoleAssumption
<1>4. 1..Len(hist) \subseteq 1..Len(hist') /\ 0..Len(hist) \subseteq 0..Len(hist')
  BY <1>1, <1>2
<1>5. net \subseteq [kind : Load \cup Write, at : 1..Len(hist')]
  BY <1>4 DEF TypeOK
<1>6. /\ front \in [recs : 0..Len(hist'), toks : 0..Len(hist')]
      /\ rows \in [at : 0..Len(hist'), kw : Keyword \cup {NoKw}]
      /\ own \in 0..Len(hist')
  BY <1>4 DEF TypeOK
<1>. QED
  BY <1>2, <1>3, <1>5, <1>6

\* A change that leaves the dialogs as they are, whatever the menus do.
LEMMA ChangesType ==
    ASSUME TypeOK, NEW s \in State, NEW k \in Write, Changes(s, k),
           UNCHANGED <<front, rows, timer, pane, modal, editing>>,
           casc' = casc \/ casc' = Outside(casc)
    PROVE  TypeOK'
<1>1. Len(hist) <= MaxWrites /\ hist' = Append(hist, s)
  BY DEF Changes
<1>2. Len(hist') = Len(hist) + 1 /\ Len(hist') \in Nat \ {0}
  BY <1>1, GrowsType, DataType
<1>3. net' \subseteq [kind : Load \cup Write, at : 1..Len(hist')]
  BY <1>1, <1>2, GrowsType DEF Changes
<1>4. casc' \in [Menu -> [line : Line, open : BOOLEAN]]
  BY MenuType DEF TypeOK
<1>5. UNCHANGED <<visits, typed, faults, own, back>>
  BY DEF Changes, bounds
<1>. QED
  BY <1>1, <1>2, <1>3, <1>4, <1>5, GrowsType DEF TypeOK

\* The answers of the server are its present state.
LEMMA AnswersType ==
    ASSUME TypeOK, NEW K \in SUBSET (Load \cup Write)
    PROVE  /\ Answers(K) \subseteq [kind : Load \cup Write, at : 1..Len(hist)]
           /\ \A m \in Answers(K) : m.at = Len(hist)
BY DataType DEF Answers

\* A dialog that opens or closes.
LEMMA ShowsType ==
    ASSUME TypeOK, NEW d \in {"none", "record", "ddns"}, NEW e \in Rec \cup {NoRec}, NEW c,
           Shows(d, e, c), e # NoRec => d = "record",
           Outside(c) \in [Menu -> [line : Line, open : BOOLEAN]]
    PROVE  TypeOK'
BY DEF Shows, bounds, TypeOK

\* The records a table shows are records.
LEMMA ShownRecords == \A at, kw : renderRecordsTable(at, kw) \subseteq Rec
BY DEF renderRecordsTable, Configured

LEMMA UserType == TypeOK /\ User => TypeOK'
<1> SUFFICES ASSUME TypeOK, User PROVE TypeOK'
  OBVIOUS
<1> USE DEF bounds, screen
<1>1. ASSUME NEW id \in Menu, toggleCascader(id) \/ selectValue(id) PROVE TypeOK'
  <2>1. CASE toggleCascader(id)
    BY <2>1, MenuType DEF toggleCascader, TypeOK
  <2>2. CASE selectValue(id)
    <3>1. PICK l \in Line : casc' = Outside(setCascaderValue(casc, id, l))
      BY <2>2 DEF selectValue, initCascader
    <3>2. casc' \in [Menu -> [line : Line, open : BOOLEAN]]
      BY <3>1, MenuType
    <3>. QED
      BY <2>2, <3>2 DEF selectValue, TypeOK
  <2>. QED
    BY <1>1, <2>1, <2>2
<1>2. CASE showAddModal \/ generateToken \/ CancelForm
  <2>1. PICK d \in {"none", "record", "ddns"} : Shows(d, NoRec, casc)
    BY <1>2 DEF showAddModal, generateToken, CancelForm
  <2>. QED
    BY <2>1, MenuType, ShowsType
<1>3. CASE editRecord
  <2>1. PICK k \in Rec : Shows("record", k, setCascaderValue(casc, "select-isp", k[2]))
    BY <1>3, ShownRecords DEF editRecord
  <2>2. k[2] \in Line /\ "select-isp" \in Menu
    BY DEF Rec, Menu
  <2>. QED
    BY <2>1, <2>2, MenuType, ShowsType
<1>4. CASE switchTab
  <2>1. PICK p \in {"records", "ddns"} :
          pane' = p /\ net' = net \cup Answers({IF p = "records" THEN "records" ELSE "tokens"})
    BY <1>4 DEF switchTab
  <2>2. net' \subseteq [kind : Load \cup Write, at : 1..Len(hist)]
    BY <2>1, AnswersType DEF TypeOK, Load
  <2>3. visits' \in 0..MaxVisits
    BY <1>4, ConsoleAssumption DEF switchTab, TypeOK
  <2>. QED
    BY <1>4, <2>1, <2>2, <2>3 DEF switchTab, TypeOK
<1>5. CASE filterRecords
  <2>1. PICK kw \in Keyword \cup {NoKw} : timer' = {kw}
    BY <1>5 DEF filterRecords
  <2>2. Cardinality(timer') <= 1
    BY <2>1, FS_Singleton
  <2>3. typed' \in 0..MaxTyped
    BY <1>5, ConsoleAssumption DEF filterRecords, TypeOK
  <2>. QED
    BY <1>5, <2>1, <2>2, <2>3 DEF filterRecords, TypeOK
<1>6. CASE saveRecord
  <2>1. PICK h \in Host, v \in Val :
          Changes([Now EXCEPT !.recs[<<h, casc["select-isp"].line>>] = v], "saved")
    BY <1>6 DEF saveRecord
  <2>2. [Now EXCEPT !.recs[<<h, casc["select-isp"].line>>] = v] \in State
    BY DataType DEF State
  <2>. QED
    BY <1>6, <2>1, <2>2, ChangesType DEF saveRecord, Write
<1>7. CASE deleteRecord
  <2>1. PICK k \in Rec : Changes([Now EXCEPT !.recs[k] = NoVal], "deleted")
    BY <1>7, ShownRecords DEF deleteRecord
  <2>2. [Now EXCEPT !.recs[k] = NoVal] \in State
    BY DataType DEF State
  <2>. QED
    BY <1>7, <2>1, <2>2, ChangesType DEF deleteRecord, Write
<1>8. CASE saveDdnsToken
  <2> DEFINE l == casc["ddns-select-isp"].line
  <2>1. PICK h \in Host :
          Changes([Now EXCEPT !.toks = Now.toks \cup {<<Len(hist), <<h, l>>>>}], "minted")
    BY <1>8 DEF saveDdnsToken
  <2>2. l \in Line
    BY DEF TypeOK, Menu
  <2>3. Len(hist) \in 1..MaxWrites
    BY <2>1, DataType, ConsoleAssumption DEF Changes
  <2> HIDE DEF l
  <2>4. <<Len(hist), <<h, l>>>> \in Token
    BY <2>2, <2>3 DEF Token, Rec
  <2>5. [Now EXCEPT !.toks = Now.toks \cup {<<Len(hist), <<h, l>>>>}] \in State
    BY <2>4, DataType DEF State
  <2>. QED
    BY <1>8, <2>1, <2>5, ChangesType DEF saveDdnsToken, Write
<1>9. CASE deleteToken
  <2>1. PICK k \in Now.toks : Changes([Now EXCEPT !.toks = Now.toks \ {k}], "revoked")
    BY <1>9 DEF deleteToken
  <2>2. [Now EXCEPT !.toks = Now.toks \ {k}] \in State
    BY DataType DEF State
  <2>. QED
    BY <1>9, <2>1, <2>2, ChangesType DEF deleteToken, Write
<1>. QED
  BY <1>1, <1>2, <1>3, <1>4, <1>5, <1>6, <1>7, <1>8, <1>9 DEF User

LEMMA AnswerType == TypeOK /\ Delivered => TypeOK'
<1> SUFFICES ASSUME TypeOK, NEW m \in net, Handle(m) PROVE TypeOK'
  BY DEF Delivered
<1>1. /\ m.at \in 1..Len(hist) /\ m.at \in 0..Len(hist) /\ m.kind \in Load \cup Write
      /\ Len(hist) \in Nat \ {0}
  BY DataType DEF TypeOK
<1>2. UNCHANGED <<hist, timer, pane, casc, visits, typed, faults>>
  BY DEF Handle, bounds
<1>3. Answers({"tokens"}) \subseteq [kind : Load \cup Write, at : 1..Len(hist)]
  BY AnswersType DEF Load
<1>4. CASE m.kind = "records" /\ RecordsLoaded(m)
  <2>1. front' = [front EXCEPT !.recs = m.at] /\ rows' = [at |-> m.at, kw |-> NoKw]
    BY <1>4 DEF RecordsLoaded
  <2>2. front' \in [recs : 0..Len(hist), toks : 0..Len(hist)]
    BY <1>1, <2>1 DEF TypeOK
  <2>3. rows' \in [at : 0..Len(hist), kw : Keyword \cup {NoKw}]
    BY <1>1, <2>1
  <2>4. net' \subseteq [kind : Load \cup Write, at : 1..Len(hist)]
    BY <1>3, <1>4 DEF RecordsLoaded, TypeOK
  <2>5. UNCHANGED <<modal, editing, own>> /\ back' \in BOOLEAN
    BY <1>4 DEF RecordsLoaded
  <2>. QED
    BY <1>2, <2>2, <2>3, <2>4, <2>5 DEF TypeOK
<1>5. CASE m.kind = "tokens" /\ loadDDNSTable(m)
  <2>1. front' = [front EXCEPT !.toks = m.at]
    BY <1>5 DEF loadDDNSTable
  <2>2. front' \in [recs : 0..Len(hist), toks : 0..Len(hist)]
    BY <1>1, <2>1 DEF TypeOK
  <2>3. net' \subseteq [kind : Load \cup Write, at : 1..Len(hist)]
    BY <1>5 DEF loadDDNSTable, TypeOK
  <2>4. UNCHANGED <<rows, modal, editing, own>> /\ back' \in BOOLEAN
    BY <1>5 DEF loadDDNSTable
  <2>. QED
    BY <1>2, <2>2, <2>3, <2>4 DEF TypeOK
<1>6. CASE m.kind \in Write /\ Changed(m)
  <2>1. Reloads(m) \in SUBSET (Load \cup Write)
    BY DEF Reloads, Load
  <2>2. net' \subseteq [kind : Load \cup Write, at : 1..Len(hist)]
    BY <1>6, <2>1, AnswersType DEF Changed, TypeOK
  <2>3. own' \in 0..Len(hist)
    BY <1>1, <1>6 DEF Changed, TypeOK
  <2>4. \/ modal' = "none" /\ editing' = NoRec
        \/ UNCHANGED <<modal, editing>>
    BY <1>6 DEF Changed
  <2>5. UNCHANGED <<front, rows, back>>
    BY <1>6 DEF Changed
  <2>. QED
    BY <1>2, <2>2, <2>3, <2>4, <2>5 DEF TypeOK
<1>. QED
  BY <1>4, <1>5, <1>6 DEF Handle

LEMMA TypeStep == TypeOK /\ [Next]_vars => TypeOK'
<1> SUFFICES ASSUME TypeOK, [Next]_vars PROVE TypeOK'
  OBVIOUS
<1> USE DEF bounds, screen
<1>1. CASE FilterFires
  <2>1. PICK kw \in timer : rows' = [at |-> front.recs, kw |-> kw]
    BY <1>1 DEF FilterFires
  <2>2. rows' \in [at : 0..Len(hist), kw : Keyword \cup {NoKw}]
    BY <2>1 DEF TypeOK
  <2>3. timer' = {} /\ Cardinality(timer') <= 1
    BY <1>1, FS_EmptySet DEF FilterFires
  <2>. QED
    BY <1>1, <2>2, <2>3 DEF FilterFires, TypeOK
<1>2. ASSUME NEW m \in net, Lose(m) PROVE TypeOK'
  <2>1. faults' \in 0..MaxFaults
    BY <1>2, ConsoleAssumption DEF Lose, TypeOK
  <2>. QED
    BY <1>2, <2>1 DEF Lose, TypeOK
<1>3. CASE DeviceUpdates
  <2>1. PICK k \in Now.toks, v \in Val : hist' = Append(hist, [Now EXCEPT !.recs[k[2]] = v])
    BY <1>3 DEF DeviceUpdates
  <2> DEFINE s == [Now EXCEPT !.recs[k[2]] = v]
  <2>2. s \in State
    <3>1. Now \in State
      BY DataType
    <3>2. k[2] \in Rec
      BY <3>1 DEF State, Token
    <3>. QED  BY <3>1, <3>2 DEF State
  <2>3. Len(hist) <= MaxWrites
    BY <1>3 DEF DeviceUpdates
  <2> HIDE DEF s
  <2>4. /\ hist' \in Seq(State) /\ Len(hist') \in 1..MaxWrites + 1
        /\ net \subseteq [kind : Load \cup Write, at : 1..Len(hist')]
        /\ front \in [recs : 0..Len(hist'), toks : 0..Len(hist')]
        /\ rows \in [at : 0..Len(hist'), kw : Keyword \cup {NoKw}]
        /\ own \in 0..Len(hist')
    BY <2>1, <2>2, <2>3, GrowsType DEF s
  <2>5. UNCHANGED <<net, front, rows, timer, pane, modal, editing, casc, visits, typed, faults, own, back>>
    BY <1>3 DEF DeviceUpdates
  <2>. QED
    BY <2>4, <2>5 DEF TypeOK
<1>4. CASE UNCHANGED vars
  BY <1>4 DEF vars, TypeOK
<1>. QED
  BY <1>1, <1>2, <1>3, <1>4, UserType, AnswerType DEF Next

\* Whatever answers come late, twice or after the screen has moved on, every
\* position the console keeps is one of a state the server has had.
THEOREM ConsoleTypes == Spec => []TypeOK
BY TypeInit, TypeStep, PTL DEF Spec

(***************************************************************************)
(* The records table and globalData                                        *)
(***************************************************************************)
\* The table is drawn from the newest globalData by an answer or by the timer.
THEOREM ConsoleRowsFollowData == Spec => []RowsFollowData
<1>1. Init => RowsFollowData
  BY DEF Init, RowsFollowData
<1>2. TypeOK /\ RowsFollowData /\ [Next]_vars => RowsFollowData'
  <2> SUFFICES ASSUME TypeOK, RowsFollowData, [Next]_vars PROVE RowsFollowData'
    OBVIOUS
  <2>1. CASE UNCHANGED <<front, rows>>
    BY <2>1 DEF RowsFollowData
  <2>2. CASE FilterFires
    BY <2>2 DEF FilterFires, RowsFollowData
  <2>3. ASSUME NEW m \in net, Handle(m) PROVE RowsFollowData'
    BY <2>3 DEF Handle, RecordsLoaded, loadDDNSTable, Changed, RowsFollowData, TypeOK
  <2>4. User => UNCHANGED <<front, rows>>
    BY Zenon DEF User, toggleCascader, selectValue, showAddModal, editRecord, generateToken,
       CancelForm, Shows, switchTab, filterRecords, saveRecord, deleteRecord, saveDdnsToken,
       deleteToken, screen
  <2>5. UNCHANGED vars => UNCHANGED <<front, rows>>
    BY DEF vars, screen
  <2>6. DeviceUpdates \/ (\E m \in net : Lose(m)) => UNCHANGED <<front, rows>>
    BY DEF DeviceUpdates, Lose, screen
  <2>. QED
    BY <2>1, <2>2, <2>3, <2>4, <2>5, <2>6 DEF Next, Delivered
<1>. QED
  BY <1>1, <1>2, ConsoleTypes, PTL DEF Spec

(***************************************************************************)
(* The form that edits a record                                            *)
(***************************************************************************)
\* The menu of a form opened to edit shows the record's line and stays closed:
\* its button is disabled, and the click that opened the form closed it.
FormLine ==
    editing # NoRec =>
        casc["select-isp"].line = editing[2] /\ casc["select-isp"].open = FALSE

LEMMA FormLineStep == TypeOK /\ FormLine /\ [Next]_vars => FormLine'
<1> SUFFICES ASSUME TypeOK, FormLine, [Next]_vars, editing' # NoRec
             PROVE  casc'["select-isp"].line = editing'[2] /\ casc'["select-isp"].open = FALSE
  BY DEF FormLine
<1> USE DEF bounds, screen
<1>0. "select-isp" \in Menu /\ casc \in [Menu -> [line : Line, open : BOOLEAN]]
  BY DEF Menu, TypeOK
<1>1. CASE editing' = editing /\ casc' = casc
  BY <1>1 DEF FormLine
<1>2. CASE editing' = editing /\ casc' = Outside(casc)
  <2>1. casc'["select-isp"] = [casc["select-isp"] EXCEPT !.open = FALSE]
    BY <1>0, <1>2 DEF Outside
  <2>2. casc["select-isp"].line = editing[2] /\ casc["select-isp"] \in [line : Line, open : BOOLEAN]
    BY <1>0, <1>2 DEF FormLine
  <2>. QED  BY <1>2, <2>1, <2>2
<1>3. ASSUME NEW id \in Menu, toggleCascader(id) \/ selectValue(id) PROVE FALSE
  <2>1. editing # NoRec /\ modal = "record"
    BY <1>3 DEF toggleCascader, selectValue, TypeOK
  <2>2. id = "select-isp"
    BY <1>3, <2>1 DEF Menu, Visible, toggleCascader, selectValue
  <2>3. casc[id].open = FALSE
    BY <2>1, <2>2 DEF FormLine
  <2>. QED
    BY <1>3, <2>1, <2>2, <2>3 DEF toggleCascader, selectValue, Disabled
<1>4. CASE showAddModal \/ generateToken \/ CancelForm
  BY <1>4 DEF showAddModal, generateToken, CancelForm, Shows
<1>5. CASE editRecord
  <2>1. PICK k \in Rec : Shows("record", k, setCascaderValue(casc, "select-isp", k[2]))
    BY <1>5, ShownRecords DEF editRecord
  <2> DEFINE c == setCascaderValue(casc, "select-isp", k[2])
  <2>2. c["select-isp"] = [casc["select-isp"] EXCEPT !.line = k[2]]
    BY <1>0 DEF setCascaderValue
  <2>3. casc["select-isp"] \in [line : Line, open : BOOLEAN]
    BY <1>0
  <2>4. editing' = k /\ casc' = Outside(c)
    BY <2>1 DEF Shows
  <2> HIDE DEF c
  <2>5. casc'["select-isp"] = [c["select-isp"] EXCEPT !.open = FALSE]
    BY <1>0, <2>4 DEF Outside
  <2>6. c["select-isp"].line = k[2] /\ c["select-isp"] \in [line : {k[2]}, open : BOOLEAN]
    BY <2>2, <2>3
  <2>7. casc'["select-isp"].line = k[2] /\ casc'["select-isp"].open = FALSE
    BY <2>5, <2>6
  <2>. QED
    BY <2>4, <2>7
<1>6. ASSUME NEW m \in net, Handle(m)
      PROVE  editing' = editing /\ casc' = casc
  BY <1>6 DEF Handle, RecordsLoaded, loadDDNSTable, Changed
<1>7. \/ editing' = editing /\ casc' \in {casc, Outside(casc)}
      \/ \E id \in Menu : toggleCascader(id) \/ selectValue(id)
      \/ showAddModal \/ generateToken \/ CancelForm
      \/ editRecord
      \/ Delivered
  BY DEF Next, User, vars, switchTab, filterRecords, saveRecord, deleteRecord, saveDdnsToken,
     deleteToken, FilterFires, Lose, DeviceUpdates
<1>. QED
  BY <1>1, <1>2, <1>3, <1>4, <1>5, <1>6, <1>7 DEF Delivered

\* The body of EditKeepsRecord.
EditKeeps ==
    modal = "record" /\ editing # NoRec /\ Len(hist') > Len(hist)
      => \/ \A k \in Rec \ {editing} : Last(hist').recs[k] = Now.recs[k]
         \/ DeviceUpdates

LEMMA EditKeepsStep == TypeOK /\ FormLine /\ Next => EditKeeps
<1> SUFFICES ASSUME TypeOK, FormLine, Next, modal = "record", editing # NoRec,
                    Len(hist') > Len(hist), ~ DeviceUpdates
             PROVE  \A k \in Rec \ {editing} : Last(hist').recs[k] = Now.recs[k]
  BY DEF EditKeeps
<1>1. hist' # hist
  BY DataType
<1>2. saveRecord
  <2>1. ~ Delivered
    BY <1>1 DEF Delivered, Handle
  <2>2. ~ FilterFires /\ ~ (\E m \in net : Lose(m))
    BY <1>1 DEF FilterFires, Lose
  <2>3. User
    BY <2>1, <2>2 DEF Next
  <2>. QED
    BY <1>1, <2>3 DEF User, toggleCascader, selectValue, showAddModal, editRecord, generateToken,
       CancelForm, Shows, switchTab, filterRecords, deleteRecord, saveDdnsToken, deleteToken
<1> DEFINE l == casc["select-isp"].line
<1>3. PICK h \in Host, v \in Val :
        /\ h = editing[1]
        /\ Changes([Now EXCEPT !.recs[<<h, l>>] = v], "saved")
  BY <1>2 DEF saveRecord
<1>4. l = editing[2] /\ editing \in Rec
  BY DEF FormLine, TypeOK
<1> HIDE DEF l
<1>5. <<h, l>> = editing
  BY <1>3, <1>4 DEF Rec
<1> DEFINE s == [Now EXCEPT !.recs[<<h, l>>] = v]
<1>6. Now \in State
  BY DataType
<1>7. s \in State
  BY <1>4, <1>5, <1>6 DEF State
<1>8. \A k \in Rec \ {editing} : s.recs[k] = Now.recs[k]
  BY <1>5, <1>6 DEF State
<1>9. Len(hist) <= MaxWrites /\ hist' = Append(hist, s)
  BY <1>3 DEF Changes
<1> HIDE DEF s
<1>10. Last(hist') = s
  BY <1>7, <1>9, GrowsType
<1>. QED
  BY <1>8, <1>10

\* A form opened to edit a record changes that record or nothing, for any lines
\* and however clicks and late answers mix.
THEOREM ConsoleEditKeepsRecord == Spec => EditKeepsRecord
<1>1. Init => FormLine
  BY DEF Init, FormLine
<1>2. TypeOK /\ FormLine /\ [Next]_vars => [EditKeeps]_vars
  BY EditKeepsStep
<1>. QED
  BY <1>1, <1>2, FormLineStep, ConsoleTypes, PTL DEF Spec, EditKeepsRecord, EditKeeps

(***************************************************************************)
(* The changes the user was told of                                        *)
(***************************************************************************)
\* What the two tables do not show yet is on its way: a load of the records
\* brings both, as its answer makes the console load the tokens.
Coming ==
    faults = 0 /\ ~back =>
        /\ front.recs >= own \/ \E m \in net : m.kind = "records" /\ m.at >= own
        /\ front.toks >= own \/ \E m \in net : m.kind \in Load /\ m.at >= own

\* Answers sent now are no older than anything the user was told of.
LEMMA AnswersComing ==
    ASSUME TypeOK, NEW K \in SUBSET Load, NEW k \in K, Answers(K) \subseteq net', hist' = hist
    PROVE  \E m \in net' : m.kind = k /\ m.at = Len(hist)
<1>1. [kind |-> k, at |-> Len(hist)] \in net'
  BY DEF Answers
<1>. QED
  BY <1>1

LEMMA ComingStep == TypeOK /\ Coming /\ [Next]_vars => Coming'
<1> SUFFICES ASSUME TypeOK, Coming, [Next]_vars, faults' = 0, ~ back'
             PROVE  /\ front'.recs >= own' \/ \E m \in net' : m.kind = "records" /\ m.at >= own'
                    /\ front'.toks >= own' \/ \E m \in net' : m.kind \in Load /\ m.at >= own'
  BY DEF Coming
<1> DEFINE Goal == /\ front'.recs >= own' \/ \E m \in net' : m.kind = "records" /\ m.at >= own'
                   /\ front'.toks >= own' \/ \E m \in net' : m.kind \in Load /\ m.at >= own'
<1> USE DEF bounds, screen
<1>0. /\ Len(hist) \in Nat /\ own \in Nat /\ own <= Len(hist)
      /\ front \in [recs : Nat, toks : Nat]
      /\ \A m \in net : m.at \in Nat /\ m.at <= Len(hist)
  BY DataType DEF TypeOK
<1>1. CASE UNCHANGED <<front, faults, own, back>> /\ net \subseteq net'
  BY <1>1 DEF Coming
<1>2. ASSUME NEW m \in net, Lose(m) PROVE FALSE
  BY <1>2, ConsoleAssumption DEF Lose, TypeOK
<1>3. ASSUME NEW m \in net, Handle(m) PROVE Goal
  <2>0. hist' = hist /\ faults = 0
    BY <1>3 DEF Handle
  <2>1. CASE m.kind = "records" /\ RecordsLoaded(m)
    <3>1. /\ front'.recs = m.at /\ front'.toks = front.toks /\ own' = own
          /\ net' = (net \ {m}) \cup Answers({"tokens"})
          /\ ~ back /\ ~ (m.at < front.recs)
      BY <1>0, <2>1 DEF RecordsLoaded
    <3>2. PICK n \in net' : n.kind = "tokens" /\ n.at = Len(hist)
      BY <2>0, <3>1, AnswersComing DEF Load
    <3>3. \E n2 \in net' : n2.kind \in Load /\ n2.at >= own'
      BY <1>0, <3>1, <3>2 DEF Load
    <3>4. front.recs >= own \/ \E q \in net : q.kind = "records" /\ q.at >= own
      BY <2>0, <3>1 DEF Coming
    <3>5. CASE front.recs >= own
      BY <1>0, <3>1, <3>3, <3>5
    <3>6. ASSUME NEW q \in net, q.kind = "records", q.at >= own PROVE Goal
      BY <1>0, <3>1, <3>3, <3>6
    <3>. QED  BY <3>4, <3>5, <3>6
  <2>2. CASE m.kind = "tokens" /\ loadDDNSTable(m)
    <3>1. /\ front'.toks = m.at /\ front'.recs = front.recs /\ own' = own
          /\ net' = net \ {m}
          /\ ~ back /\ ~ (m.at < front.toks)
      BY <1>0, <2>2 DEF loadDDNSTable
    <3>2. front'.recs >= own' \/ \E q \in net' : q.kind = "records" /\ q.at >= own'
      BY <2>0, <2>2, <3>1 DEF Coming
    <3>3. front.toks >= own \/ \E q \in net : q.kind \in Load /\ q.at >= own
      BY <2>0, <3>1 DEF Coming
    <3>4. CASE front.toks >= own
      BY <1>0, <3>1, <3>2, <3>4
    <3>5. ASSUME NEW q \in net, q.kind \in Load, q.at >= own PROVE Goal
      BY <1>0, <3>1, <3>2, <3>5
    <3>. QED  BY <3>3, <3>4, <3>5
  <2>3. CASE m.kind \in Write /\ Changed(m)
    <3>1. own' \in {own, m.at} /\ front' = front /\ Answers(Reloads(m)) \subseteq net'
      BY <2>3 DEF Changed
    <3>2. "records" \in Reloads(m) /\ Reloads(m) \in SUBSET Load
      BY DEF Reloads, Load
    <3>3. PICK n \in net' : n.kind = "records" /\ n.at = Len(hist)
      BY <2>0, <3>1, <3>2, AnswersComing
    <3>. QED
      BY <1>0, <3>1, <3>3 DEF Load
  <2>. QED  BY <1>3, <2>1, <2>2, <2>3 DEF Handle
<1>4. CASE User
  <2>1. net \subseteq net'
    BY <1>4, Zenon DEF User, toggleCascader, selectValue, showAddModal, editRecord, generateToken,
       CancelForm, Shows, switchTab, filterRecords, saveRecord, deleteRecord, saveDdnsToken,
       deleteToken, Changes
  <2>2. UNCHANGED <<front, faults, own, back>>
    BY <1>4, Zenon DEF User, toggleCascader, selectValue, showAddModal, editRecord, generateToken,
       CancelForm, Shows, switchTab, filterRecords, saveRecord, deleteRecord, saveDdnsToken,
       deleteToken, Changes
  <2>. QED  BY <1>1, <2>1, <2>2
<1>5. CASE FilterFires \/ DeviceUpdates \/ UNCHANGED vars
  BY <1>1, <1>5 DEF FilterFires, DeviceUpdates, vars
<1>. QED
  BY <1>2, <1>3, <1>4, <1>5 DEF Next, Delivered

\* Whenever nothing is on its way, both tables show what the user was told of,
\* unless an answer was lost or came in the wrong order.
THEOREM ConsoleOwnChangesShown == Spec => []OwnChangesShown
<1>1. Init => Coming
  BY DEF Init, Coming
<1>2. Coming => OwnChangesShown
  BY DEF Coming, OwnChangesShown
<1>. QED
  BY <1>1, <1>2, ComingStep, ConsoleTypes, PTL DEF Spec
=============================================================================
