----------------------- MODULE BackendMonitor_proofs -----------------------
(***************************************************************************)
(* What TLAPS proves about BackendMonitor, for any connections and process *)
(* numbers and any number of requests and terminations under way.          *)
(***************************************************************************)
EXTENDS BackendMonitor, TLAPS

(* The types by group of variables.                                        *)
RegistryType ==
  /\ connections \subseteq Connections
  /\ removed \subseteq Connections \ connections
  /\ strayed \subseteq Connections
  /\ active \in connections \union {None}
  /\ onPage \in BOOLEAN
  /\ monitor \in Monitors
  /\ form \in {NoForm}
       \union [what : {"save", "delete"}, conn : Connections \ removed]

TableType ==
  \/ table \in {Message("loading"), Message("warning")}
  \/ /\ table \in [kind : {"rows"}, of : Connections,
                   pids : SUBSET Pids, disabled : SUBSET Pids]
     /\ table.disabled \subseteq table.pids

ListType ==
  /\ request \in [Requests -> Connections \union {None}]
  /\ latest \in {r \in Requests : request[r] # None} \union {None}
  /\ inFlight \in BOOLEAN

RowType ==
  /\ dialog \in Row \union {NoRow}
  /\ post \in [Posts -> Row \union {NoRow}]

RestType ==
  /\ hidden \in BOOLEAN
  /\ terminated \subseteq Connections \X Pids
  /\ typing \in BOOLEAN
  /\ refreshes \in [Connections -> 0..MaxRefreshes]

LEMMA TypeParts ==
  TypeOK <=> RegistryType /\ TableType /\ ListType /\ RowType /\ RestType
BY DEF TypeOK, RegistryType, TableType, ListType, RowType, RestType

LEMMA TypePartsNext ==
  TypeOK' <=> RegistryType' /\ TableType' /\ ListType' /\ RowType' /\ RestType'
BY DEF TypeOK, RegistryType, TableType, ListType, RowType, RestType

(* Losing its button changes no row otherwise.                             *)
LEMMA DetachedRow ==
  ASSUME NEW row \in Row \union {NoRow}
  PROVE  /\ Detached(row) \in Row \union {NoRow}
         /\ row = NoRow <=> Detached(row) = NoRow
         /\ row # NoRow => /\ Detached(row).conn = row.conn
                           /\ Detached(row).of = row.of
<1>1. CASE row \in Row
  <2>1. row.conn # None /\ row # NoRow
    BY <1>1, MonitorAssumption DEF Row, NoRow
  <2>2. /\ Detached(row) \in Row
        /\ Detached(row).conn = row.conn
        /\ Detached(row).of = row.of
    BY <1>1 DEF Row, Detached
  <2> QED
    BY <2>1, <2>2 DEF NoRow
<1>2. CASE row = NoRow
  <2>1. Detached(NoRow) = NoRow
    BY DEF Detached, NoRow
  <2> QED
    BY <1>2, <2>1
<1> QED
  BY <1>1, <1>2

LEMMA WriteKeepsRows ==
  ASSUME RowType, NEW content, Write(content)
  PROVE  RowType'
<1>1. dialog' \in Row \union {NoRow}
  BY DetachedRow DEF RowType, Write
<1>2. \A t \in Posts : Detached(post[t]) \in Row \union {NoRow}
  BY DetachedRow DEF RowType
<1> QED
  BY <1>1, <1>2 DEF RowType, Write

LEMMA AskKeepsLists ==
  ASSUME ListType, NEW c \in Connections, Ask(c)
  PROVE  /\ ListType'
         /\ latest' \in Requests /\ latest' # None /\ request'[latest'] = c
BY MonitorAssumption DEF ListType, Ask, Free

LEMMA AskTwiceKeepsLists ==
  ASSUME ListType, RowType, NEW c \in Connections, AskTwice(c)
  PROVE  /\ ListType' /\ RowType' /\ table' = Message("loading") /\ TableType'
         /\ latest' \in Requests /\ latest' # None /\ request'[latest'] = c
BY WriteKeepsRows, MonitorAssumption DEF ListType, AskTwice, Free, Write, TableType

LEMMA RefreshKeepsTypes ==
  ASSUME ListType, RowType, TableType, NEW c \in Connections \union {None},
         NEW silent \in BOOLEAN, Refresh(c, silent)
  PROVE  /\ ListType' /\ RowType' /\ TableType'
         /\ \/ c = None /\ table' = Message("warning") /\ UNCHANGED lists
            \/ /\ c # None
               /\ latest' \in Requests /\ latest' # None /\ request'[latest'] = c
               /\ table' = IF silent THEN table ELSE Message("loading")
<1>1. CASE c = None
  BY <1>1, WriteKeepsRows DEF Refresh, Write, TableType, ListType, lists
<1>2. CASE c # None /\ silent
  BY <1>2, AskKeepsLists DEF Refresh, TableType, RowType
<1>3. CASE c # None /\ ~silent
  BY <1>3, AskKeepsLists, WriteKeepsRows DEF Refresh, Write, TableType
<1> QED
  BY <1>1, <1>2, <1>3

LEMMA SettleKeepsLists ==
  ASSUME ListType, NEW r \in Requests, Settle(r)
  PROVE  /\ ListType'
         /\ \/ latest' = None
            \/ latest' = latest /\ latest # r /\ request'[latest] = request[latest]
BY MonitorAssumption DEF ListType, Settle

LEMMA FirstPageKeepsTypes ==
  ASSUME ListType, RowType, TableType, NEW c \in Connections, FirstPage(c)
  PROVE  /\ ListType' /\ RowType' /\ TableType' /\ onPage' \in BOOLEAN
         /\ \/ onPage' = FALSE /\ UNCHANGED <<lists, table, dialog, post>>
            \/ /\ onPage' = TRUE /\ table' = Message("loading")
               /\ latest' \in Requests /\ latest' # None /\ request'[latest'] = c
               /\ dialog' = Detached(dialog)
               /\ post' = [t \in Posts |-> Detached(post[t])]
<1>1. CASE onPage' = FALSE /\ UNCHANGED <<lists, table, dialog, post>>
  BY <1>1 DEF ListType, RowType, TableType, lists
<1>2. CASE onPage' = TRUE /\ AskTwice(c)
  BY <1>2, AskTwiceKeepsLists DEF AskTwice, Write
<1>3. CASE onPage' = TRUE /\ Refresh(c, FALSE)
  <2>1. c # None
    BY MonitorAssumption
  <2>2. ListType' /\ RowType' /\ TableType'
        /\ latest' \in Requests /\ latest' # None /\ request'[latest'] = c
    <3>1. FALSE \in BOOLEAN /\ c \in Connections \union {None}
      OBVIOUS
    <3> QED
      BY <1>3, <2>1, <3>1, RefreshKeepsTypes
  <2> QED
    BY <1>3, <2>1, <2>2 DEF Refresh, Write
<1> QED
  BY <1>1, <1>2, <1>3 DEF FirstPage

LEMMA RowTakenOff ==
  ASSUME TableType, NEW p,
         table' = [table EXCEPT !.pids = @ \ {p}, !.disabled = @ \ {p}]
  PROVE  /\ TableType'
         /\ table'.kind = table.kind /\ table'.of = table.of
         /\ table'.pids = table.pids \ {p}
<1>1. CASE table \in {Message("loading"), Message("warning")}
  <2>1. table.pids \ {p} = table.pids /\ table.disabled \ {p} = table.disabled
    BY <1>1 DEF Message
  <2>2. table' = table
    BY <1>1, <2>1 DEF Message
  <2> QED
    BY <2>1, <2>2 DEF TableType
<1>2. CASE /\ table \in [kind : {"rows"}, of : Connections,
                        pids : SUBSET Pids, disabled : SUBSET Pids]
           /\ table.disabled \subseteq table.pids
  <2>1. table.pids \ {p} \in SUBSET Pids /\ table.disabled \ {p} \in SUBSET Pids
    BY <1>2
  <2>2. /\ table' \in [kind : {"rows"}, of : Connections,
                        pids : SUBSET Pids, disabled : SUBSET Pids]
        /\ table'.pids = table.pids \ {p} /\ table'.disabled = table.disabled \ {p}
        /\ table'.kind = table.kind /\ table'.of = table.of
    BY <1>2, <2>1
  <2> QED
    BY <1>2, <2>2 DEF TableType
<1> QED
  BY <1>1, <1>2 DEF TableType

LEMMA RenderKeepsTypes ==
  ASSUME RowType, NEW c \in Connections, NEW listed \in SUBSET Pids,
         terminated \subseteq Connections \X Pids, Render(c, listed)
  PROVE  /\ RowType' /\ TableType'
         /\ table'.kind = "rows" /\ table'.of = c
         /\ terminated' \subseteq terminated
         /\ \A p \in table'.pids : <<active, p>> \notin terminated
BY WriteKeepsRows DEF Render, Write, Listed, TableType

-----------------------------------------------------------------------------
(* Type correctness, by the kind of step.                                  *)

LEMMA UserKeepsTypes ==
  ASSUME TypeOK, User
  PROVE  TypeOK'
<1> USE TypeParts, TypePartsNext
<1>0. /\ RegistryType /\ TableType /\ ListType /\ RowType /\ RestType
      /\ active \in Connections \union {None}
      /\ TRUE \in BOOLEAN /\ FALSE \in BOOLEAN
  BY DEF RegistryType
<1>1. CASE OpenPage
  BY <1>0, <1>1, RefreshKeepsTypes DEF OpenPage, RegistryType, RestType
<1>2. CASE LeavePage
  BY <1>0, <1>2 DEF LeavePage, RegistryType, TableType, ListType, RowType,
                    RestType, view, lists, actions
<1>3. CASE UserRefresh
  BY <1>0, <1>3, RefreshKeepsTypes DEF UserRefresh, RegistryType, RestType, registry
<1>4. CASE Type
  BY <1>0, <1>4 DEF Type, RegistryType, TableType, ListType, RowType, RestType,
                    registry, view, lists, actions
<1>5. CASE Submit
  <2>1. form' \in [what : {"save", "delete"}, conn : Connections \ removed]
    BY <1>0, <1>5 DEF Submit, RegistryType
  <2> QED
    BY <1>0, <1>5, <2>1 DEF Submit, RegistryType, TableType, ListType, RowType,
                            RestType, registry, view, lists, actions
<1>6. CASE Hide
  BY <1>0, <1>6 DEF Hide, RegistryType, TableType, ListType, RowType, RestType,
                    registry, view, lists, actions
<1>7. CASE Show
  <2>1. CASE onPage /\ monitor.inRefreshAll
    BY <1>0, <1>7, <2>1, RefreshKeepsTypes DEF Show, RegistryType, RestType, registry
  <2>2. CASE ~(onPage /\ monitor.inRefreshAll)
    BY <1>0, <1>7, <2>2 DEF Show, RegistryType, TableType, ListType, RowType,
                            RestType, registry, view, lists, actions
  <2> QED
    BY <2>1, <2>2
<1>8. CASE \E p \in Pids : Click(p)
  <2> SUFFICES ASSUME NEW p \in Pids, Click(p) PROVE TypeOK'
    BY <1>8
  <2>1. table \in [kind : {"rows"}, of : Connections,
                   pids : SUBSET Pids, disabled : SUBSET Pids]
    BY <1>0 DEF Click, TableType, Message
  <2>2. TableType'
    <3>1. table.disabled \union {p} \in SUBSET Pids
      BY <2>1
    <3>2. /\ table' \in [kind : {"rows"}, of : Connections,
                          pids : SUBSET Pids, disabled : SUBSET Pids]
          /\ table'.pids = table.pids /\ table'.disabled = table.disabled \union {p}
      BY <2>1, <3>1 DEF Click
    <3> QED
      BY <1>0, <2>1, <3>2 DEF Click, TableType, Message
  <2>3. RowType'
    BY <1>0, <2>1 DEF Click, RowType, Row, RegistryType
  <2> QED
    BY <1>0, <2>2, <2>3 DEF Click, RegistryType, ListType, RestType, registry, lists
<1>9. CASE Cancel
  <2>1. TableType'
    BY <1>0, <1>9 DEF Cancel, Enable, TableType, Message
  <2> QED
    BY <1>0, <1>9, <2>1 DEF Cancel, RegistryType, ListType, RowType, RestType,
                            registry, lists
<1>10. CASE \E t \in Posts : Confirm(t)
  BY <1>0, <1>10 DEF Confirm, RegistryType, TableType, ListType, RowType, RestType,
                     registry, view, lists
<1>11. CASE \E c \in Connections : ChangeConnection(c)
  BY <1>0, <1>11, FirstPageKeepsTypes DEF ChangeConnection, RegistryType, RestType
<1> QED
  BY <1>1, <1>2, <1>3, <1>4, <1>5, <1>6, <1>7, <1>8, <1>9, <1>10, <1>11 DEF User

LEMMA AnswersKeepTypes ==
  ASSUME TypeOK, Answers
  PROVE  TypeOK'
<1> USE TypeParts, TypePartsNext
<1>0. /\ RegistryType /\ TableType /\ ListType /\ RowType /\ RestType
      /\ active \in Connections \union {None}
  BY DEF RegistryType
<1>1. ASSUME NEW r \in Requests, ListAnswered(r) PROVE TypeOK'
  <2>1. ListType' /\ request[r] \in Connections
    BY <1>0, <1>1, SettleKeepsLists DEF ListAnswered, ListType
  <2>2. CASE r = latest
    BY <1>0, <1>1, <2>1, <2>2, RenderKeepsTypes
       DEF ListAnswered, RegistryType, RestType, registry
  <2>3. CASE r # latest
    BY <1>0, <1>1, <2>1, <2>3
       DEF ListAnswered, RegistryType, TableType, RowType, RestType, registry, view
  <2> QED
    BY <2>2, <2>3
<1>2. ASSUME NEW r \in Requests, ListFails(r) PROVE TypeOK'
  <2>1. ListType'
    BY <1>0, <1>2, SettleKeepsLists DEF ListFails
  <2>2. TableType' /\ RowType'
    BY <1>0, <1>2, WriteKeepsRows DEF ListFails, Write, TableType, RowType
  <2> QED
    BY <1>0, <1>2, <2>1, <2>2 DEF ListFails, RegistryType, RestType, registry
<1>3. ASSUME NEW t \in Posts, PostSucceeds(t) PROVE TypeOK'
  <2>1. post[t] \in Row
    BY <1>0, <1>3 DEF PostSucceeds, RowType
  <2>2. post[t].conn \in Connections /\ post[t].pid \in Pids
    BY <2>1 DEF Row
  <2>3. TableType'
    BY <1>0, <1>3, RowTakenOff DEF PostSucceeds, TableType
  <2>4. RowType'
    BY <1>0, <1>3 DEF PostSucceeds, RowType
  <2>5. /\ terminated' \subseteq Connections \X Pids
        /\ refreshes' \in [Connections -> 0..MaxRefreshes]
    BY <1>0, <1>3, <2>2, MonitorAssumption DEF PostSucceeds, RestType
  <2>6. ListType'
    BY <1>0, <1>3, <2>2, AskKeepsLists DEF PostSucceeds, ListType, lists
  <2> QED
    BY <1>0, <1>3, <2>3, <2>4, <2>5, <2>6
       DEF PostSucceeds, RegistryType, RestType, registry
<1>4. ASSUME NEW t \in Posts, PostFails(t) PROVE TypeOK'
  <2>1. TableType'
    BY <1>0, <1>4 DEF PostFails, Enable, TableType, Message
  <2> QED
    BY <1>0, <1>4, <2>1 DEF PostFails, RegistryType, ListType, RowType, RestType,
                            registry, lists
<1>8. ASSUME NEW t \in Posts, ObservedEnds(t) PROVE TypeOK'
  <2>1. post[t].conn \in Connections
    BY <1>0, <1>8 DEF ObservedEnds, RowType, Row
  <2>2. ListType' /\ RowType'
    BY <1>0, <1>8, <2>1, AskKeepsLists DEF ObservedEnds, RowType
  <2>3. RegistryType'
    BY <1>0, <1>8, <2>1 DEF ObservedEnds, RegistryType
  <2> QED
    BY <1>0, <1>8, <2>2, <2>3 DEF ObservedEnds, TableType, RestType, view
<1>5. CASE Saved
  <2>1. form.conn \in Connections \ removed
    BY <1>0, <1>5 DEF Saved, RegistryType, NoForm
  <2>2. PICK lost \in {{}, {active} \ {form.conn, None}} :
          /\ connections' = (connections \ lost) \union {form.conn}
          /\ removed' = removed \union lost
    BY <1>5 DEF Saved
  <2>3. ListType' /\ RowType' /\ TableType' /\ onPage' \in BOOLEAN
    BY <1>0, <1>5, <2>1, FirstPageKeepsTypes DEF Saved
  <2>4. lost \subseteq connections \ {form.conn} /\ removed' \subseteq Connections \ connections'
    BY <1>0, <2>1, <2>2 DEF RegistryType
  <2>5. active' \in connections' /\ connections' \subseteq Connections /\ form' = NoForm
    BY <1>0, <1>5, <2>1, <2>2 DEF Saved, RegistryType
  <2>6. RegistryType'
    BY <1>0, <1>5, <2>3, <2>4, <2>5 DEF Saved, RegistryType
  <2> QED
    BY <1>0, <1>5, <2>3, <2>6 DEF Saved, RestType
<1>6. CASE Deleted
  BY <1>0, <1>6 DEF Deleted, RegistryType, TableType, ListType, RowType, RestType,
                    view, lists, actions
<1>7. CASE Refused
  BY <1>0, <1>7 DEF Refused, RegistryType, TableType, ListType, RowType, RestType,
                    registry, view, lists, actions
<1> QED
  BY <1>1, <1>2, <1>3, <1>4, <1>5, <1>6, <1>7, <1>8 DEF Answers

LEMMA TimersKeepTypes ==
  ASSUME TypeOK, Timers
  PROVE  TypeOK'
<1> USE TypeParts, TypePartsNext
<1>0. /\ RegistryType /\ TableType /\ ListType /\ RowType /\ RestType
      /\ active \in Connections \union {None}
      /\ TRUE \in BOOLEAN
  BY DEF RegistryType
<1>1. CASE TypingEnds
  BY <1>0, <1>1, RefreshKeepsTypes DEF TypingEnds, RegistryType, RestType, registry
<1>2. CASE Tick
  BY <1>0, <1>2, RefreshKeepsTypes DEF Tick, RegistryType, RestType, registry
<1>3. ASSUME NEW c \in Connections, LaterRefresh(c) PROVE TypeOK'
  <2>1. ListType'
    BY <1>0, <1>3, AskKeepsLists DEF LaterRefresh, ListType, lists
  <2>2. refreshes' \in [Connections -> 0..MaxRefreshes]
    BY <1>0, <1>3, MonitorAssumption DEF LaterRefresh, RestType
  <2> QED
    BY <1>0, <1>3, <2>1, <2>2 DEF LaterRefresh, RegistryType, TableType, RowType,
                                  RestType, registry, view
<1> QED
  BY <1>1, <1>2, <1>3 DEF Timers

LEMMA StutterKeepsTypes ==
  ASSUME TypeOK, UNCHANGED vars
  PROVE  TypeOK'
BY DEF TypeOK, vars, registry, view, lists, actions

LEMMA InitTypes == Init => TypeOK
<1> SUFFICES ASSUME Init PROVE TypeOK
  OBVIOUS
<1>1. \A c \in Connections : (0 \in 0..MaxRefreshes)
  BY MonitorAssumption
<1> QED
  BY <1>1 DEF Init, TypeOK, Message, NoForm

(* Every variable keeps its type; above all the latest request is one that *)
(* is under way, and only a row that is shown has a disabled button.       *)
THEOREM TypeCorrect == Spec => []TypeOK
<1>1. TypeOK /\ [Next]_vars => TypeOK'
  BY UserKeepsTypes, AnswersKeepTypes, TimersKeepTypes, StutterKeepsTypes DEF Next
<1> QED
  BY <1>1, InitTypes, PTL DEF Spec

-----------------------------------------------------------------------------
(* What the page shows.                                                    *)

RequestsAreKnown ==
  /\ \A r \in Requests :
       request[r] # None => request[r] \in connections \union removed \union strayed
  /\ active = None => connections = {}

(* The answer that will be shown will show rows of the selected connection,*)
(* of one off the list or of one that has strayed.                         *)
LatestIsOfActive ==
  onPage /\ latest # None => request[latest] \in {active} \union removed \union strayed

PageInv ==
  /\ RequestsAreKnown
  /\ LatestIsOfActive
  /\ RowsAreOfActive
  /\ LoadingIsAwaited
  /\ TerminatedRowIsLeaving

LEMMA AskedIsKnown ==
  ASSUME RequestsAreKnown, ListType, NEW c \in connections, Ask(c),
         UNCHANGED <<connections, removed, strayed, active, monitor>>
  PROVE  RequestsAreKnown'
BY DEF RequestsAreKnown, ListType, Ask, Free

LEMMA RefreshKeepsPage ==
  ASSUME TypeOK, PageInv, TypeOK', NEW silent \in BOOLEAN, Refresh(active, silent),
         UNCHANGED <<connections, removed, strayed, active, monitor, terminated>>,
         onPage' => onPage \/ ~silent
  PROVE  PageInv'
<1>1. /\ RegistryType /\ TableType /\ ListType /\ RowType
  BY TypeParts
<1>2. RequestsAreKnown'
  <2>1. CASE active = None
    BY <2>1 DEF Refresh, RequestsAreKnown, PageInv, lists
  <2>2. CASE active # None
    BY <1>1, <2>2, AskedIsKnown DEF Refresh, RegistryType, PageInv
  <2> QED
    BY <2>1, <2>2
<1>3. \/ active = None /\ table' = Message("warning") /\ UNCHANGED lists
      \/ /\ active # None
         /\ latest' \in Requests /\ latest' # None /\ request'[latest'] = active
         /\ table' = IF silent THEN table ELSE Message("loading")
  BY <1>1, RefreshKeepsTypes DEF RegistryType
<1>4. CASE active = None /\ table' = Message("warning") /\ UNCHANGED lists
  <2>1. LatestIsOfActive'
    BY <1>1, <1>2, <1>4 DEF RequestsAreKnown, LatestIsOfActive, lists, ListType
  <2> QED
    BY <1>2, <1>4, <2>1 DEF PageInv, RowsAreOfActive, LoadingIsAwaited,
                            TerminatedRowIsLeaving, Message
<1>5. CASE /\ active # None
           /\ latest' \in Requests /\ latest' # None /\ request'[latest'] = active
           /\ table' = IF silent THEN table ELSE Message("loading")
  BY <1>2, <1>5 DEF PageInv, LatestIsOfActive, RowsAreOfActive, LoadingIsAwaited,
                    TerminatedRowIsLeaving, Message
<1> QED
  BY <1>3, <1>4, <1>5

LEMMA FirstPageKeepsPage ==
  ASSUME TypeOK, PageInv, active' \in connections', FirstPage(active'),
         connections \union removed \subseteq connections' \union removed',
         connections' \subseteq Connections, UNCHANGED <<strayed, monitor, terminated>>
  PROVE  PageInv'
<1>1. /\ RegistryType /\ TableType /\ ListType /\ RowType
      /\ active' \in Connections /\ active' # None
  BY TypeParts, MonitorAssumption
<1>2. CASE onPage' = FALSE /\ UNCHANGED <<lists, table, dialog, post>>
  BY <1>1, <1>2 DEF PageInv, RequestsAreKnown, LatestIsOfActive, RowsAreOfActive,
                    LoadingIsAwaited, TerminatedRowIsLeaving, lists
<1>3. CASE /\ onPage' = TRUE
           /\ AskTwice(active') \/ Refresh(active', FALSE)
  <2>1. RequestsAreKnown'
    BY <1>1, <1>3 DEF PageInv, RequestsAreKnown, AskTwice, Refresh, Ask, ListType, Free
  <2>2. /\ table' = Message("loading")
        /\ latest' # None /\ request'[latest'] = active'
    <3>1. FALSE \in BOOLEAN /\ active' \in Connections \union {None}
      BY <1>1
    <3> QED
      BY <1>1, <1>3, <3>1, AskTwiceKeepsLists, RefreshKeepsTypes
  <2> QED
    BY <2>1, <2>2 DEF PageInv, LatestIsOfActive, RowsAreOfActive,
                      LoadingIsAwaited, TerminatedRowIsLeaving, Message
<1> QED
  BY <1>2, <1>3 DEF FirstPage

LEMMA UserKeepsPage ==
  ASSUME TypeOK, PageInv, User, TypeOK'
  PROVE  PageInv'
<1>0. /\ RegistryType /\ TableType /\ ListType /\ RowType
      /\ TRUE \in BOOLEAN /\ FALSE \in BOOLEAN
  BY TypeParts
<1> USE DEF PageInv, RequestsAreKnown, LatestIsOfActive, RowsAreOfActive,
            LoadingIsAwaited, TerminatedRowIsLeaving
<1>1. CASE OpenPage
  BY <1>1, RefreshKeepsPage DEF OpenPage
<1>2. CASE LeavePage
  BY <1>2 DEF LeavePage, view, lists
<1>3. CASE UserRefresh
  BY <1>3, RefreshKeepsPage DEF UserRefresh, registry
<1>4. CASE Type
  BY <1>4 DEF Type, registry, view, lists
<1>5. CASE Submit
  BY <1>5 DEF Submit, registry, view, lists
<1>6. CASE Hide
  BY <1>6 DEF Hide, registry, view, lists
<1>7. CASE Show
  <2>1. CASE onPage /\ monitor.inRefreshAll
    BY <1>0, <1>7, <2>1, RefreshKeepsPage DEF Show, registry
  <2>2. CASE ~(onPage /\ monitor.inRefreshAll)
    <3>1. UNCHANGED <<registry, view, lists>>
      BY <1>7, <2>2 DEF Show
    <3> QED
      BY <3>1 DEF registry, view, lists
  <2> QED
    BY <2>1, <2>2
<1>8. ASSUME NEW p \in Pids, Click(p) PROVE PageInv'
  <2>1. table \in [kind : {"rows"}, of : Connections,
                   pids : SUBSET Pids, disabled : SUBSET Pids]
    BY <1>0, <1>8 DEF Click, TableType, Message
  <2>2. table'.kind = table.kind /\ table'.of = table.of /\ table'.pids = table.pids
    BY <1>8, <2>1 DEF Click
  <2> QED
    BY <1>8, <2>2 DEF Click, registry, lists
<1>9. CASE Cancel
  <2>1. table'.kind = table.kind /\ table'.of = table.of /\ table'.pids = table.pids
    BY <1>0, <1>9 DEF Cancel, Enable, TableType, Message
  <2> QED
    BY <1>9, <2>1 DEF Cancel, registry, lists
<1>10. ASSUME NEW t \in Posts, Confirm(t) PROVE PageInv'
  BY <1>10 DEF Confirm, registry, view, lists
<1>11. ASSUME NEW c \in Connections, ChangeConnection(c) PROVE PageInv'
  BY <1>0, <1>11, FirstPageKeepsPage DEF ChangeConnection, RegistryType
<1> QED
  BY <1>1, <1>2, <1>3, <1>4, <1>5, <1>6, <1>7, <1>8, <1>9, <1>10, <1>11 DEF User

(* Locks and transactions remember nothing.                                *)
NothingRemembered == ~monitor.remembers => terminated = {}

LEMMA StepRemembersNothing ==
  ASSUME NothingRemembered, [Next]_vars
  PROVE  NothingRemembered'
<1> USE DEF NothingRemembered
<1>1. CASE User
  BY <1>1 DEF User, OpenPage, LeavePage, UserRefresh, Type, Submit, Hide, Show,
     Click, Cancel, Confirm, ChangeConnection, registry, view
<1>2. ASSUME NEW r \in Requests, ListAnswered(r) \/ ListFails(r)
      PROVE  NothingRemembered'
  BY <1>2 DEF ListAnswered, ListFails, Render, registry, view
<1>3. ASSUME NEW t \in Posts, PostSucceeds(t) \/ ObservedEnds(t) \/ PostFails(t)
      PROVE  NothingRemembered'
  BY <1>3 DEF PostSucceeds, ObservedEnds, PostFails, registry, view
<1>4. CASE Saved \/ Deleted \/ Refused
  BY <1>4 DEF Saved, Deleted, Refused, registry, view
<1>5. CASE Timers
  BY <1>5 DEF Timers, TypingEnds, Tick, LaterRefresh, registry, view
<1>6. CASE UNCHANGED vars
  BY <1>6 DEF vars, registry, view
<1> QED
  BY <1>1, <1>2, <1>3, <1>4, <1>5, <1>6 DEF Next, Answers

LEMMA AnswersKeepPage ==
  ASSUME TypeOK, PageInv, NothingRemembered, Answers, TypeOK'
  PROVE  PageInv'
<1>0. /\ RegistryType /\ TableType /\ ListType /\ RowType /\ RestType
  BY TypeParts
<1> USE DEF PageInv
<1>1. ASSUME NEW r \in Requests, ListAnswered(r) PROVE PageInv'
  <2>1. /\ \/ latest' = None
           \/ latest' = latest /\ latest # r /\ request'[latest] = request[latest]
        /\ request[r] \in Connections
    BY <1>0, <1>1, SettleKeepsLists DEF ListAnswered, ListType
  <2>2. RequestsAreKnown' /\ LatestIsOfActive'
    BY <1>0, <1>1, <2>1 DEF ListAnswered, Settle, registry, RequestsAreKnown,
                            LatestIsOfActive, ListType
  <2>3. CASE r = latest
    <3>1. PICK listed \in SUBSET Pids : Render(request[r], listed)
      BY <1>1, <2>3 DEF ListAnswered
    <3>2. /\ table'.kind = "rows" /\ table'.of = request[r]
          /\ terminated' \subseteq terminated
          /\ \A p \in table'.pids : <<active, p>> \notin terminated
      BY <1>0, <2>1, <3>1, RenderKeepsTypes DEF RestType
    <3> QED
      BY <1>0, <1>1, <2>2, <2>3, <3>2, MonitorAssumption
         DEF ListAnswered, registry, LatestIsOfActive, RowsAreOfActive,
             LoadingIsAwaited, TerminatedRowIsLeaving
  <2>4. CASE r # latest
    <3>1. latest' = latest
      BY <1>1, <2>4 DEF ListAnswered, Settle
    <3>2. UNCHANGED <<table, terminated, active, removed, strayed, onPage, monitor>>
      BY <1>1, <2>4 DEF ListAnswered, registry, view
    <3> QED
      BY <2>2, <3>1, <3>2 DEF RowsAreOfActive, LoadingIsAwaited, TerminatedRowIsLeaving
  <2> QED
    BY <2>3, <2>4
<1>2. ASSUME NEW r \in Requests, ListFails(r) PROVE PageInv'
  <2>1. \/ latest' = None
        \/ latest' = latest /\ latest # r /\ request'[latest] = request[latest]
    BY <1>0, <1>2, SettleKeepsLists DEF ListFails
  <2>2. RequestsAreKnown' /\ LatestIsOfActive'
    BY <1>0, <1>2, <2>1 DEF ListFails, Settle, registry, RequestsAreKnown,
                            LatestIsOfActive, ListType
  <2>3. CASE r = latest
    BY <1>2, <2>2, <2>3 DEF ListFails, Write, Message, registry, RowsAreOfActive,
                            LoadingIsAwaited, TerminatedRowIsLeaving
  <2>4. CASE r # latest
    <3>1. latest' = latest
      BY <1>2, <2>4 DEF ListFails, Settle
    <3>2. UNCHANGED <<table, terminated, active, removed, strayed, onPage, monitor>>
      BY <1>2, <2>4 DEF ListFails, registry
    <3> QED
      BY <2>2, <3>1, <3>2 DEF RowsAreOfActive, LoadingIsAwaited, TerminatedRowIsLeaving
  <2> QED
    BY <2>3, <2>4
<1>3. ASSUME NEW t \in Posts, PostSucceeds(t) PROVE PageInv'
  <2>1. /\ table'.kind = table.kind /\ table'.of = table.of
        /\ table'.pids \subseteq table.pids
    BY <1>0, <1>3, RowTakenOff DEF PostSucceeds
  <2>2. CASE active = post[t].conn
    <3>1. active \in connections /\ active \in Connections /\ Ask(active)
      BY <1>0, <1>3, <2>2, MonitorAssumption
         DEF PostSucceeds, RegistryType, RowType, Row
    <3>2. latest' # None /\ request'[latest'] = active
      BY <1>0, <3>1, AskKeepsLists
    <3>3. RequestsAreKnown'
      BY <1>0, <1>3, <3>1, AskedIsKnown DEF PostSucceeds, registry
    <3> QED
      BY <1>3, <2>1, <3>2, <3>3 DEF PostSucceeds, registry, LatestIsOfActive,
         RowsAreOfActive, LoadingIsAwaited, TerminatedRowIsLeaving
  <2>3. CASE active # post[t].conn
    BY <1>3, <2>1, <2>3 DEF PostSucceeds, registry, lists, RequestsAreKnown,
       LatestIsOfActive, RowsAreOfActive, LoadingIsAwaited, TerminatedRowIsLeaving
  <2> QED
    BY <2>2, <2>3
<1>4. ASSUME NEW t \in Posts, PostFails(t) PROVE PageInv'
  <2>1. table'.kind = table.kind /\ table'.of = table.of /\ table'.pids = table.pids
    BY <1>0, <1>4 DEF PostFails, Enable, TableType, Message
  <2> QED
    BY <1>4, <2>1 DEF PostFails, registry, lists, RequestsAreKnown, LatestIsOfActive,
                      RowsAreOfActive, LoadingIsAwaited, TerminatedRowIsLeaving
<1>8. ASSUME NEW t \in Posts, ObservedEnds(t) PROVE PageInv'
  <2>1. post[t].conn \in Connections /\ Ask(post[t].conn)
    BY <1>0, <1>8 DEF ObservedEnds, RowType, Row
  <2>2. latest' # None /\ request'[latest'] = post[t].conn
    BY <1>0, <2>1, AskKeepsLists
  <2>3. /\ strayed \subseteq strayed'
        /\ post[t].conn \in {active} \union strayed'
        /\ UNCHANGED <<connections, removed, active, onPage, monitor, table, terminated>>
        /\ ~monitor.remembers
    BY <1>8 DEF ObservedEnds, view
  <2>4. RequestsAreKnown'
    <3>1. post[t].conn \in connections' \union removed' \union strayed'
      BY <1>0, <2>1, <2>3, MonitorAssumption DEF RegistryType
    <3>2. \A r \in Requests : request'[r] \in {request[r], post[t].conn}
      BY <1>0, <2>1 DEF Ask, ListType
    <3>3. RequestsAreKnown
      OBVIOUS
    <3> HIDE DEF PageInv
    <3> QED
      BY <2>3, <3>1, <3>2, <3>3 DEF RequestsAreKnown
  <2> QED
    BY <2>2, <2>3, <2>4 DEF LatestIsOfActive,
       RowsAreOfActive, LoadingIsAwaited, TerminatedRowIsLeaving
<1>5. CASE Saved
  <2>1. /\ active' \in connections' /\ FirstPage(active')
        /\ UNCHANGED <<strayed, monitor, terminated>>
        /\ connections \union removed \subseteq connections' \union removed'
    BY <1>5 DEF Saved
  <2>2. connections' \subseteq Connections
    BY TypePartsNext DEF RegistryType
  <2> QED
    BY <2>1, <2>2, FirstPageKeepsPage
<1>6. CASE Deleted
  <2>1. RequestsAreKnown' /\ LatestIsOfActive' /\ RowsAreOfActive' /\ LoadingIsAwaited'
    BY <1>0, <1>6, MonitorAssumption
       DEF Deleted, RegistryType, TableType, ListType, view, lists, RequestsAreKnown,
           LatestIsOfActive, RowsAreOfActive, LoadingIsAwaited
  <2>2. TerminatedRowIsLeaving'
    BY <1>0, <1>6, MonitorAssumption
       DEF Deleted, NothingRemembered, RegistryType, TableType, Message, view, lists, RowsAreOfActive,
           TerminatedRowIsLeaving
  <2> QED
    BY <2>1, <2>2
<1>7. CASE Refused
  BY <1>7 DEF Refused, registry, view, lists, RequestsAreKnown, LatestIsOfActive,
              RowsAreOfActive, LoadingIsAwaited, TerminatedRowIsLeaving
<1> QED
  BY <1>1, <1>2, <1>3, <1>4, <1>5, <1>6, <1>7, <1>8 DEF Answers

LEMMA TimersKeepPage ==
  ASSUME TypeOK, PageInv, Timers, TypeOK'
  PROVE  PageInv'
<1>0. /\ RegistryType /\ TableType /\ ListType /\ RowType
      /\ TRUE \in BOOLEAN
  BY TypeParts
<1>1. CASE TypingEnds
  BY <1>0, <1>1, RefreshKeepsPage DEF TypingEnds, registry
<1>2. CASE Tick
  BY <1>0, <1>2, RefreshKeepsPage DEF Tick, registry
<1>3. ASSUME NEW c \in Connections, LaterRefresh(c) PROVE PageInv'
  <2>1. CASE active = c /\ onPage
    <3>1. Ask(active) /\ active \in connections
      BY <1>0, <1>3, <2>1, MonitorAssumption DEF LaterRefresh, RegistryType
    <3>2. latest' # None /\ request'[latest'] = active
      BY <1>0, <1>3, <2>1, AskKeepsLists DEF LaterRefresh
    <3>3. RequestsAreKnown'
      BY <1>0, <1>3, <3>1, AskedIsKnown DEF LaterRefresh, registry, PageInv
    <3> QED
      BY <1>3, <3>2, <3>3 DEF LaterRefresh, registry, view, PageInv, LatestIsOfActive,
         RowsAreOfActive, LoadingIsAwaited, TerminatedRowIsLeaving
  <2>2. CASE ~(active = c /\ onPage)
    BY <1>3, <2>2 DEF LaterRefresh, registry, view, lists, PageInv, RequestsAreKnown,
       LatestIsOfActive, RowsAreOfActive, LoadingIsAwaited, TerminatedRowIsLeaving
  <2> QED
    BY <2>1, <2>2
<1> QED
  BY <1>1, <1>2, <1>3 DEF Timers

LEMMA PageInvariant == Spec => [](TypeOK /\ PageInv)
<1>1. Init => PageInv /\ NothingRemembered
  BY SMT, MonitorAssumption
     DEF Init, PageInv, RequestsAreKnown, LatestIsOfActive, RowsAreOfActive,
         LoadingIsAwaited, TerminatedRowIsLeaving, Message,
         NothingRemembered
<1>2. TypeOK /\ PageInv /\ NothingRemembered /\ TypeOK' /\ [Next]_vars => PageInv'
  <2>1. ASSUME PageInv, UNCHANGED vars PROVE PageInv'
    BY <2>1 DEF vars, registry, view, lists, PageInv, RequestsAreKnown,
       LatestIsOfActive, RowsAreOfActive, LoadingIsAwaited, TerminatedRowIsLeaving
  <2> QED
    BY <2>1, UserKeepsPage, AnswersKeepPage, TimersKeepPage DEF Next
<1> QED
  BY <1>1, <1>2, StepRemembersNothing, TypeCorrect, PTL DEF Spec

(* None of the four pages shows the backends of another connection than    *)
(* the selected one, unless that one has left the list or, on the pages of *)
(* locks and transactions, has been asked for by the answer to a           *)
(* termination while another one was selected.                             *)
THEOREM RowsOfTheSelected == Spec => []RowsAreOfActive
BY PageInvariant, PTL DEF PageInv

(* "Loading" is shown only while the answer that replaces it is awaited.   *)
THEOREM LoadingOnlyWhileAwaited == Spec => []LoadingIsAwaited
BY PageInvariant, PTL DEF PageInv

(* A terminated row is shown only while the answer that replaces it is     *)
(* awaited.                                                                *)
THEOREM TerminatedRowsLeave == Spec => []TerminatedRowIsLeaving
BY PageInvariant, PTL DEF PageInv

-----------------------------------------------------------------------------
(* What is terminated.                                                     *)

(* What a step may make of a row that is acted upon.                       *)
Kept(row, new) == new \in {row, Detached(row), NoRow}

RowsAreKept ==
  /\ removed \subseteq removed' /\ strayed \subseteq strayed'
  /\ Kept(dialog, dialog') \/ \E p \in Pids : Click(p)
  /\ \A t \in Posts : Kept(post[t], post'[t]) \/ post'[t] = dialog

LEMMA RowsStay ==
  ASSUME removed \subseteq removed', UNCHANGED strayed, UNCHANGED <<dialog, post>>
  PROVE  RowsAreKept
BY DEF RowsAreKept, Kept

LEMMA RowsAreDetached ==
  ASSUME removed \subseteq removed', UNCHANGED strayed, NEW content, Write(content)
  PROVE  RowsAreKept
BY DEF RowsAreKept, Kept, Write

LEMMA RefreshKeepsRows ==
  ASSUME removed \subseteq removed', UNCHANGED strayed,
         NEW c, NEW silent \in BOOLEAN, Refresh(c, silent)
  PROVE  RowsAreKept
BY RowsStay, RowsAreDetached DEF Refresh

LEMMA FirstPageKeepsRows ==
  ASSUME removed \subseteq removed', UNCHANGED strayed, NEW c, FirstPage(c)
  PROVE  RowsAreKept
<1>1. FALSE \in BOOLEAN
  OBVIOUS
<1> QED
  BY <1>1, RowsStay, RowsAreDetached, RefreshKeepsRows DEF FirstPage, AskTwice

LEMMA StepKeepsRows ==
  ASSUME TypeOK, [Next]_vars
  PROVE  RowsAreKept
<1> USE RowsStay
<1>0. TRUE \in BOOLEAN /\ FALSE \in BOOLEAN /\ RowType
  BY TypeParts
<1>1. CASE OpenPage
  BY <1>0, <1>1, RefreshKeepsRows DEF OpenPage
<1>2. CASE LeavePage \/ Type \/ Submit \/ Hide \/ Refused
  BY <1>2 DEF LeavePage, Type, Submit, Hide, Refused, actions, registry
<1>3. CASE UserRefresh
  BY <1>3, RefreshKeepsRows DEF UserRefresh, registry
<1>4. CASE Show
  BY <1>0, <1>4, RefreshKeepsRows DEF Show, registry, actions
<1>5. ASSUME NEW p \in Pids, Click(p) PROVE RowsAreKept
  BY <1>5 DEF Click, RowsAreKept, Kept, registry
<1>6. CASE Cancel
  BY <1>6 DEF Cancel, RowsAreKept, Kept, registry
<1>7. ASSUME NEW t \in Posts, Confirm(t) PROVE RowsAreKept
  BY <1>0, <1>7 DEF Confirm, RowType, RowsAreKept, Kept, registry
<1>8. ASSUME NEW c \in Connections, ChangeConnection(c) PROVE RowsAreKept
  BY <1>8, FirstPageKeepsRows DEF ChangeConnection
<1>9. ASSUME NEW r \in Requests, ListAnswered(r) PROVE RowsAreKept
  BY <1>9, RowsAreDetached DEF ListAnswered, Render, registry
<1>10. ASSUME NEW r \in Requests, ListFails(r) PROVE RowsAreKept
  BY <1>10, RowsAreDetached DEF ListFails, registry
<1>11. ASSUME NEW t \in Posts, PostSucceeds(t) \/ ObservedEnds(t) \/ PostFails(t)
       PROVE  RowsAreKept
  BY <1>0, <1>11 DEF PostSucceeds, ObservedEnds, PostFails, RowType, RowsAreKept, Kept, registry
<1>12. CASE Saved
  BY <1>12, FirstPageKeepsRows DEF Saved
<1>13. CASE Deleted
  BY <1>13 DEF Deleted, actions
<1>14. CASE TypingEnds \/ Tick
  BY <1>0, <1>14, RefreshKeepsRows DEF TypingEnds, Tick, registry
<1>15. ASSUME NEW c \in Connections, LaterRefresh(c) PROVE RowsAreKept
  BY <1>15 DEF LaterRefresh, registry
<1>16. CASE UNCHANGED vars
  BY <1>16 DEF vars, registry, actions
<1> QED
  BY <1>1, <1>2, <1>3, <1>4, <1>5, <1>6, <1>7, <1>8, <1>9, <1>10, <1>11, <1>12,
     <1>13, <1>14, <1>15, <1>16 DEF Next, User, Answers, Timers

(* A termination goes to the connection its row was listed from, whatever  *)
(* has been selected, saved or deleted since the click, unless that        *)
(* connection has left the list or, on the pages of locks and              *)
(* transactions, has been asked while another one was selected.            *)
THEOREM RightBackendTerminated == Spec => []TerminatesWhatWasShown
<1> DEFINE Gone == removed \union strayed
           Right(row, gone) == row # NoRow => row.of \in {row.conn} \union gone
<1>1. Init => TerminatesWhatWasShown
  BY DEF Init, TerminatesWhatWasShown
<1>2. ASSUME TypeOK, PageInv, TypeOK', [Next]_vars, TerminatesWhatWasShown
      PROVE  TerminatesWhatWasShown'
  <2>1. RowsAreKept /\ RowType /\ Gone \subseteq Gone'
    BY <1>2, StepKeepsRows, TypeParts DEF RowsAreKept
  <2>2. Right(dialog, Gone) /\ \A t \in Posts : Right(post[t], Gone)
    BY <1>2 DEF TerminatesWhatWasShown
  <2>3. ASSUME NEW row \in Row \union {NoRow}, NEW new, Right(row, Gone), Kept(row, new)
        PROVE  Right(new, Gone')
    <3>1. CASE row = NoRow
      BY <2>3, <3>1, DetachedRow DEF Kept
    <3>2. CASE row # NoRow
      BY <2>1, <2>3, <3>2, DetachedRow DEF Kept
    <3> QED
      BY <3>1, <3>2
  <2>4. Right(dialog', Gone')
    <3>1. CASE Kept(dialog, dialog')
      BY <2>1, <2>2, <2>3, <3>1 DEF RowType
    <3>2. ASSUME NEW p \in Pids, Click(p) PROVE Right(dialog', Gone')
      <4>1. onPage /\ table.kind = "rows"
        BY <1>2, <3>2, TypeParts DEF Click, TableType, Message
      <4>2. table.of \in {active} \union Gone
        BY <1>2, <4>1 DEF PageInv, RowsAreOfActive
      <4>3. dialog'.conn = active /\ dialog'.of = table.of
        BY <3>2 DEF Click
      <4> QED
        BY <2>1, <4>2, <4>3
    <3> QED
      BY <2>1, <3>1, <3>2 DEF RowsAreKept
  <2>5. ASSUME NEW t \in Posts PROVE Right(post'[t], Gone')
    <3>1. CASE Kept(post[t], post'[t])
      BY <2>1, <2>2, <2>3, <3>1 DEF RowType
    <3>2. CASE post'[t] = dialog
      BY <2>1, <2>2, <3>2 DEF RowsAreKept
    <3> QED
      BY <2>1, <3>1, <3>2 DEF RowsAreKept
  <2> QED
    BY <2>4, <2>5 DEF TerminatesWhatWasShown
<1> QED
  BY <1>1, <1>2, PageInvariant, PTL DEF Spec
=============================================================================
