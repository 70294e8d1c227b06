----------------------------- MODULE Pages_proofs -----------------------------
(***************************************************************************)
(* What TLAPS proves about Panels, Distribution and Favorites: for any     *)
(* connections, tables, objects and requests under way.                    *)
(***************************************************************************)
EXTENDS Panels, Distribution, Favorites, TLAPS

(* The list of connections: who is selected, or has been taken off it.     *)
OfTab == {active} \union removed

LEMMA ListTypes ==
  ASSUME ListTypeOK
  PROVE  /\ \A c \in Connections : Select(c) \/ Save(c) => ListTypeOK' /\ active' = c
         /\ Delete => ListTypeOK' /\ OfTab \subseteq OfTab' /\ active # None
         /\ UNCHANGED listVars => ListTypeOK' /\ OfTab' = OfTab
         /\ active \in Connections \union {None}
<1>1. ASSUME NEW c \in Connections, Select(c) \/ Save(c)
      PROVE  ListTypeOK' /\ active' = c
  <2>1. CASE Select(c)
    BY <2>1 DEF Select, ListTypeOK
  <2>2. CASE Save(c)
    BY <2>2, ConnectionAssumption DEF Save, ListTypeOK
  <2> QED
    BY <1>1, <2>1, <2>2
<1>2. Delete => ListTypeOK' /\ OfTab \subseteq OfTab' /\ active # None
  BY DEF Delete, ListTypeOK, OfTab
<1>3. UNCHANGED listVars => ListTypeOK' /\ OfTab' = OfTab
  BY DEF listVars, ListTypeOK, OfTab
<1>4. active \in Connections \union {None}
  BY DEF ListTypeOK
<1> QED
  BY <1>1, <1>2, <1>3, <1>4

-----------------------------------------------------------------------------
(* The types of what changes with a request.                               *)
PanelRequestType ==
  /\ panelRequest \in [PanelRequests -> Connections \union {None}]
  /\ latestPanel \in {r \in PanelRequests : panelRequest[r] # None} \union {None}

ShownType ==
  \/ shown \in {Nothing("loading"), Nothing("warning")}
  \/ shown \in [kind : {"data"}, of : Connections]

PanelChanges == PanelRequestType /\ ShownType /\ updating \in BOOLEAN

(* The answer under way is right when it comes: its question is of the     *)
(* selected connection, or of one that has left.                           *)
PanelQuestionIsRight ==
  panelOpen /\ latestPanel # None /\ active # None
    => panelRequest[latestPanel] \in OfTab

PanelInv ==
  /\ ListTypeOK /\ PanelsTypeOK
  /\ PanelQuestionIsRight
  /\ PanelIsOfSelected
  /\ UpdateIsAwaited

LEMMA PanelTypeParts ==
  /\ PanelsTypeOK <=> /\ greenplum \subseteq Connections /\ panel \in PanelPages
                      /\ panelOpen \in BOOLEAN /\ PanelChanges
  /\ PanelsTypeOK' <=> /\ greenplum' \subseteq Connections /\ panel' \in PanelPages
                       /\ panelOpen' \in BOOLEAN /\ PanelChanges'
BY DEF PanelsTypeOK, PanelChanges, PanelRequestType, ShownType

LEMMA PanelKinds ==
  ASSUME ShownType
  PROVE  /\ shown.kind \in {"loading", "warning", "data"}
         /\ shown.kind = "data" => shown.of \in Connections
BY DEF ShownType, Nothing

(* What a step does to the page, apart from which page is open.            *)
AskedOf(c) ==
  /\ latestPanel' \in PanelRequests /\ panelRequest'[latestPanel'] = c
  /\ shown'.kind = "data" => updating'

Warned ==
  /\ active' = None
  /\ latestPanel' = latestPanel \/ latestPanel' = None
  /\ shown'.kind = "warning" /\ updating' = FALSE

LEMMA AskPanelTypes ==
  ASSUME PanelChanges, NEW c \in Connections, NEW n, AskPanel(c, n)
  PROVE  PanelChanges' /\ AskedOf(c)
<1>1. PICK sent \in SUBSET {r \in PanelRequests : panelRequest[r] = None} :
        /\ latestPanel' \in sent
        /\ panelRequest' =
             [r \in PanelRequests |-> IF r \in sent THEN c ELSE panelRequest[r]]
  BY DEF AskPanel
<1>2. PanelRequestType' /\ latestPanel' \in PanelRequests /\ panelRequest'[latestPanel'] = c
  BY <1>1, ConnectionAssumption DEF PanelChanges, PanelRequestType
<1>3. updating' = (panel = Segments)
  BY DEF AskPanel
<1>4. updating' \in BOOLEAN
  BY <1>3
<1>5. shown' = IF panel = Segments THEN shown ELSE Nothing("loading")
  BY DEF AskPanel
<1>6. ShownType' /\ (shown'.kind = "data" => updating')
  <2>1. CASE panel = Segments
    BY <1>3, <1>5, <2>1 DEF PanelChanges, ShownType
  <2>2. CASE panel # Segments
    BY <1>5, <2>2 DEF ShownType, Nothing
  <2> QED
    BY <2>1, <2>2
<1> QED
  BY <1>2, <1>4, <1>6 DEF PanelChanges, AskedOf

LEMMA RefreshPanelTypes ==
  ASSUME PanelChanges, NEW c \in Connections \union {None}, RefreshPanel(c), active' = c
  PROVE  PanelChanges' /\ ((c # None /\ AskedOf(c)) \/ Warned)
<1>1. CASE c = None
  <2>1. /\ latestPanel' = latestPanel \/ latestPanel' = None
        /\ shown' = Nothing("warning") /\ updating' = FALSE
        /\ panelRequest' = panelRequest
    BY <1>1 DEF RefreshPanel, WarnPanel
  <2>2. PanelRequestType'
    BY <2>1 DEF PanelChanges, PanelRequestType
  <2>3. ShownType' /\ updating' \in BOOLEAN
    BY <2>1 DEF ShownType
  <2> QED
    BY <1>1, <2>1, <2>2, <2>3 DEF PanelChanges, Warned, Nothing
<1>2. CASE c # None
  BY <1>2, AskPanelTypes DEF RefreshPanel
<1> QED
  BY <1>1, <1>2

(* A question to the selected connection, or a warning without one, makes  *)
(* everything right whatever was on the page.                              *)
LEMMA AskedInv ==
  ASSUME PanelInv, ListTypeOK', PanelsTypeOK', active' # None, AskedOf(active')
  PROVE  PanelInv'
<1>1. latestPanel' # None
  BY PanelAssumption DEF AskedOf
<1> QED
  BY <1>1 DEF AskedOf, PanelInv, PanelQuestionIsRight, PanelIsOfSelected,
              UpdateIsAwaited, OfTab

LEMMA WarnedInv ==
  ASSUME PanelInv, ListTypeOK', PanelsTypeOK', Warned
  PROVE  PanelInv'
BY DEF Warned, PanelInv, PanelQuestionIsRight, PanelIsOfSelected, UpdateIsAwaited

(* The page rests: it is not open, or what was right before is right.      *)
LEMMA PanelRests ==
  ASSUME PanelInv, ListTypeOK', PanelsTypeOK',
         UNCHANGED <<panelRequest, latestPanel, shown, updating>>,
         panelOpen' => panelOpen /\ (active' # None => active # None) /\ OfTab \subseteq OfTab'
  PROVE  PanelInv'
BY DEF PanelInv, PanelQuestionIsRight, PanelIsOfSelected, UpdateIsAwaited, OfTab

LEMMA PanelArrivalInv ==
  ASSUME PanelInv, NEW r \in PanelRequests, PanelArrives(r) \/ PanelFails(r)
  PROVE  PanelInv'
<1>1. /\ panelRequest[r] # None
      /\ panelRequest' = [panelRequest EXCEPT ![r] = None]
      /\ latestPanel' = IF latestPanel = r THEN None ELSE latestPanel
      /\ UNCHANGED <<listVars, greenplum, panel, panelOpen>>
  BY DEF PanelArrives, PanelFails, SettlePanel
<1>2. PanelChanges /\ ListTypeOK
  BY PanelTypeParts DEF PanelInv
<1>3. PanelRequestType'
  BY <1>1, <1>2 DEF PanelChanges, PanelRequestType
<1>4. ListTypeOK' /\ OfTab' = OfTab /\ active' = active
  BY <1>1, <1>2, ListTypes DEF listVars
<1>5. CASE r # latestPanel
  <2>1. UNCHANGED <<shown, updating, latestPanel>>
    BY <1>1, <1>5 DEF PanelArrives, PanelFails
  <2>2. latestPanel # None => panelRequest'[latestPanel] = panelRequest[latestPanel]
    BY <1>1, <1>2, <1>5 DEF PanelChanges, PanelRequestType
  <2>3. PanelChanges'
    BY <1>2, <1>3, <2>1 DEF PanelChanges, ShownType
  <2>4. PanelsTypeOK'
    BY <1>1, <2>3, PanelTypeParts DEF PanelInv
  <2> QED
    BY <1>1, <1>4, <2>1, <2>2, <2>4
       DEF PanelInv, PanelQuestionIsRight, PanelIsOfSelected, UpdateIsAwaited, OfTab
<1>6. CASE r = latestPanel
  <2>1. latestPanel' = None /\ updating' = FALSE
    BY <1>1, <1>6 DEF PanelArrives, PanelFails
  <2>2. \/ shown' = [kind |-> "data", of |-> panelRequest[r]]
        \/ shown' = Nothing("warning")
    BY <1>6 DEF PanelArrives, PanelFails
  <2>3. panelRequest[r] \in Connections
    BY <1>1, <1>2 DEF PanelChanges, PanelRequestType
  <2>4. ShownType' /\ shown'.kind # "loading"
    BY <2>2, <2>3 DEF ShownType, Nothing
  <2>5. PanelsTypeOK'
    BY <1>1, <1>3, <2>1, <2>4, PanelTypeParts DEF PanelInv, PanelChanges
  <2>6. latestPanel # None
    BY <1>6, PanelAssumption
  <2>7. PanelIsOfSelected'
    BY <1>1, <1>4, <1>6, <2>2, <2>6
       DEF PanelInv, PanelQuestionIsRight, PanelIsOfSelected, OfTab, Nothing
  <2> QED
    BY <1>4, <2>1, <2>4, <2>5, <2>7
       DEF PanelInv, PanelQuestionIsRight, UpdateIsAwaited
<1> QED
  BY <1>5, <1>6

LEMMA PanelsInductive ==
  ASSUME PanelInv, [PanelsNext]_<<listVars, panelVars>>
  PROVE  PanelInv'
<1>1. /\ ListTypeOK /\ PanelChanges /\ greenplum \subseteq Connections
      /\ panel \in PanelPages /\ panelOpen \in BOOLEAN
  BY PanelTypeParts DEF PanelInv
<1>2. CASE OpenPanel
  <2>1. /\ active # None /\ panelOpen' = TRUE /\ AskPanel(active, 1)
        /\ UNCHANGED <<listVars, greenplum, panel>>
    BY <1>2 DEF OpenPanel
  <2>2. ListTypeOK' /\ active' = active /\ active \in Connections
    BY <1>1, <2>1, ListTypes DEF listVars
  <2>3. PanelChanges' /\ AskedOf(active)
    BY <1>1, <2>1, <2>2, AskPanelTypes
  <2>4. PanelsTypeOK'
    BY <1>1, <2>1, <2>3, PanelTypeParts
  <2> QED
    BY <2>1, <2>2, <2>3, <2>4, AskedInv
<1>3. CASE LeavePanel
  <2>1. /\ panelOpen' = FALSE
        /\ UNCHANGED <<listVars, greenplum, panel, panelRequest, latestPanel, shown, updating>>
    BY <1>3 DEF LeavePanel
  <2>2. ListTypeOK'
    BY <1>1, <2>1, ListTypes
  <2>3. PanelsTypeOK'
    BY <1>1, <2>1 DEF PanelsTypeOK, PanelChanges, PanelRequestType, ShownType
  <2> QED
    BY <2>1, <2>2, <2>3, PanelRests
<1>4. CASE RefreshShownPanel
  <2>1. RefreshPanel(active) /\ UNCHANGED <<listVars, greenplum, panel, panelOpen>>
    BY <1>4 DEF RefreshShownPanel
  <2>2. ListTypeOK' /\ active' = active /\ active \in Connections \union {None}
    BY <1>1, <2>1, ListTypes DEF listVars
  <2>3. PanelChanges' /\ ((active # None /\ AskedOf(active)) \/ Warned)
    BY <1>1, <2>1, <2>2, RefreshPanelTypes
  <2>4. PanelsTypeOK'
    BY <1>1, <2>1, <2>3, PanelTypeParts
  <2> QED
    BY <2>2, <2>3, <2>4, AskedInv, WarnedInv
<1>5. CASE PanelOfSelected
  <2>1. PICK c \in Connections :
          /\ Select(c) \/ Save(c)
          /\ \/ panelOpen' = TRUE /\ \E n \in {2, 3} : AskPanel(c, n)
             \/ panelOpen' = FALSE /\ AskPanel(c, 1)
             \/ /\ panelOpen' = FALSE
                /\ UNCHANGED <<panelRequest, latestPanel, shown, updating>>
          /\ UNCHANGED <<greenplum, panel>>
    BY <1>5 DEF PanelOfSelected
  <2>2. ListTypeOK' /\ active' = c /\ c # None
    BY <1>1, <2>1, ListTypes, ConnectionAssumption
  <2>3. CASE \E n : AskPanel(c, n)
    <3>1. PanelChanges' /\ AskedOf(c)
      BY <1>1, <2>3, AskPanelTypes
    <3>2. PanelsTypeOK'
      BY <1>1, <2>1, <3>1, PanelTypeParts
    <3> QED
      BY <2>2, <3>1, <3>2, AskedInv
  <2>4. CASE panelOpen' = FALSE /\ UNCHANGED <<panelRequest, latestPanel, shown, updating>>
    <3>1. PanelsTypeOK'
      BY <1>1, <2>1, <2>4 DEF PanelsTypeOK, PanelChanges, PanelRequestType, ShownType
    <3> QED
      BY <2>2, <2>4, <3>1, PanelRests
  <2> QED
    BY <2>1, <2>3, <2>4
<1>6. CASE PanelOfDeleted
  <2>1. /\ Delete /\ UNCHANGED <<greenplum, panel, panelOpen>>
        /\ \/ RefreshPanel(active')
           \/ UNCHANGED <<panelRequest, latestPanel, shown, updating>>
    BY <1>6 DEF PanelOfDeleted
  <2>2. ListTypeOK' /\ OfTab \subseteq OfTab' /\ active # None
    BY <1>1, <2>1, ListTypes
  <2>3. CASE RefreshPanel(active')
    <3>1. active' \in Connections \union {None}
      BY <2>2 DEF ListTypeOK
    <3>2. PICK c \in Connections \union {None} : active' = c
      BY <3>1
    <3>3. PanelChanges' /\ ((c # None /\ AskedOf(c)) \/ Warned)
      BY <1>1, <2>3, <3>2, RefreshPanelTypes
    <3>4. PanelsTypeOK'
      BY <1>1, <2>1, <3>3, PanelTypeParts
    <3> QED
      BY <2>2, <3>2, <3>3, <3>4, AskedInv, WarnedInv
  <2>4. CASE UNCHANGED <<panelRequest, latestPanel, shown, updating>>
    <3>1. PanelsTypeOK'
      BY <1>1, <2>1, <2>4 DEF PanelsTypeOK, PanelChanges, PanelRequestType, ShownType
    <3> QED
      BY <2>1, <2>2, <2>4, <3>1, PanelRests
  <2> QED
    BY <2>1, <2>3, <2>4
<1>7. CASE \E r \in PanelRequests : PanelArrives(r) \/ PanelFails(r)
  BY <1>7, PanelArrivalInv
<1>8. CASE UNCHANGED <<listVars, panelVars>>
  <2>1. UNCHANGED <<greenplum, panel, panelOpen, panelRequest, latestPanel, shown, updating>>
    BY <1>8 DEF panelVars
  <2>2. ListTypeOK' /\ OfTab' = OfTab /\ active' = active
    BY <1>1, <1>8, ListTypes DEF listVars
  <2>3. PanelsTypeOK'
    BY <1>1, <2>1 DEF PanelsTypeOK, PanelChanges, PanelRequestType, ShownType
  <2> QED
    BY <2>1, <2>2, <2>3, PanelRests
<1> QED
  BY <1>2, <1>3, <1>4, <1>5, <1>6, <1>7, <1>8 DEF PanelsNext

LEMMA PanelsStart == ListInit /\ PanelsInit => PanelInv
<1> SUFFICES ASSUME ListInit, PanelsInit PROVE PanelInv
  OBVIOUS
<1>1. ListTypeOK
  BY DEF ListInit, ListTypeOK
<1>2. FALSE \in BOOLEAN
  OBVIOUS
<1>3. PanelsTypeOK
  BY <1>2 DEF PanelsInit, PanelsTypeOK
<1> QED
  BY <1>1, <1>3 DEF PanelsInit, PanelInv, PanelQuestionIsRight, PanelIsOfSelected,
                    UpdateIsAwaited, Nothing

LEMMA PanelInvAlways == PanelsSpec => []PanelInv
BY PanelsStart, PanelsInductive, PTL DEF PanelsSpec

(* What the open page shows is of the selected connection or of one that   *)
(* has left, or its badge says that it is being updated                    *)
(* (refreshSegmentsForConnection, onConnectionChange, finishDelete).        *)
THEOREM PanelsAreOfSelected == PanelsSpec => []PanelIsOfSelected
<1>1. PanelInv => PanelIsOfSelected
  BY DEF PanelInv
<1> QED
  BY <1>1, PanelInvAlways, PTL

(* "Loading" and "updating" end: the answer that replaces them is under    *)
(* way (refreshSegmentsForConnection).                                     *)
THEOREM UpdatesAreAwaited == PanelsSpec => []UpdateIsAwaited
<1>1. PanelInv => UpdateIsAwaited
  BY DEF PanelInv
<1> QED
  BY <1>1, PanelInvAlways, PTL
-----------------------------------------------------------------------------
(* Distribution.  The figures under way are right when they come: of the   *)
(* table picked and the selected connection, once its list is there.       *)
Picked == distributionOpen /\ latestList = None /\ selected # None /\ active # None

IsPicked(figure) == figure.table = selected /\ figure.conn \in OfTab

FieldIsPicked == latestList = None /\ selected # None => field = selected

QuestionIsPicked ==
  Picked /\ latestFigures # None => IsPicked(figureRequest[latestFigures])

ListingType ==
  /\ listRequest \in [ListRequests -> Connections \union {None}]
  /\ latestList \in {r \in ListRequests : listRequest[r] # None} \union {None}

PickerType ==
  /\ tables \subseteq Names
  /\ selected \in tables \union {None}
  /\ field \in Names \union {Other, None}

FigureType ==
  /\ figureRequest \in [FigureRequests -> Figure \union {None}]
  /\ latestFigures \in {r \in FigureRequests : figureRequest[r] # None} \union {None}
  /\ \/ figures \in {NoFigures("loading"), NoFigures("warning"), NoFigures("none")}
     \/ figures \in [kind : {"rows"}, of : Figure]

DistributionTypes ==
  /\ ListTypeOK /\ distributionOpen \in BOOLEAN
  /\ ListingType /\ PickerType /\ FigureType

DistributionInv ==
  /\ DistributionTypes
  /\ FieldIsPicked
  /\ QuestionIsPicked
  /\ FiguresAreOfSelected

promisedFigures ==
  <<IF latestFigures = None THEN None ELSE figureRequest[latestFigures], figures.of>>

LEMMA FigureKinds ==
  ASSUME FigureType
  PROVE  /\ figures.kind = "rows" => figures.of \in Figure
         /\ figures.kind # "rows" => figures.of = None
BY DEF FigureType, NoFigures

(* The figures, in the four ways in which a step may change them.          *)
FiguresRest == UNCHANGED figureVars

FiguresAsked ==
  /\ latestFigures' \in FigureRequests
  /\ figureRequest'[latestFigures'] = [conn |-> active, table |-> ToShow]
  /\ ToShow \in Names /\ active \in Connections
  /\ figures' = NoFigures("loading")

FiguresWarned ==
  /\ latestFigures' = None \/ (latestFigures' = latestFigures /\ figureRequest' = figureRequest)
  /\ figures' = NoFigures("warning")

LEMMA AskFiguresTypes ==
  ASSUME DistributionTypes, NEW t \in Names, t = ToShow, active # None, AskFigures(t)
  PROVE  FigureType' /\ FiguresAsked
<1>1. PICK r \in {q \in FigureRequests : figureRequest[q] = None} :
        /\ figureRequest' = [figureRequest EXCEPT ![r] = [conn |-> active, table |-> t]]
        /\ latestFigures' = r
        /\ figures' = NoFigures("loading")
  BY DEF AskFigures
<1>2. active \in Connections
  BY DEF DistributionTypes, ListTypeOK
<1>3. /\ [conn |-> active, table |-> t] \in Figure
      /\ [conn |-> active, table |-> t] # None
  BY <1>2, DistributionAssumption DEF Figure
<1>4. FigureType'
  BY <1>1, <1>3 DEF DistributionTypes, FigureType
<1>5. figureRequest'[r] = [conn |-> active, table |-> ToShow]
  BY <1>1 DEF DistributionTypes, FigureType
<1> QED
  BY <1>1, <1>2, <1>4, <1>5 DEF FiguresAsked

LEMMA ToShowIsName ==
  ASSUME PickerType', ToShow # None
  PROVE  ToShow \in Names
BY DEF PickerType, ToShow

LEMMA RefreshFiguresTypes ==
  ASSUME DistributionTypes, PickerType', RefreshFigures
  PROVE  /\ FigureType'
         /\ FiguresAsked \/ (FiguresWarned /\ latestFigures' = None /\ (ToShow = None \/ active = None))
<1>1. CASE ToShow = None \/ active = None
  <2>1. /\ latestFigures' = None /\ figures' = NoFigures("warning")
        /\ figureRequest' = figureRequest
    BY <1>1 DEF RefreshFigures, Warning
  <2>2. FigureType'
    BY <2>1 DEF DistributionTypes, FigureType
  <2> QED
    BY <1>1, <2>1, <2>2 DEF FiguresWarned
<1>2. CASE ToShow # None /\ active # None
  <2>1. ToShow \in Names /\ AskFigures(ToShow)
    BY <1>2, ToShowIsName DEF RefreshFigures
  <2>2. PICK t \in Names : t = ToShow /\ AskFigures(t)
    BY <2>1
  <2> QED
    BY <1>2, <2>2, AskFiguresTypes
<1> QED
  BY <1>1, <1>2

FiguresSorted ==
  /\ figures' = IF figures.kind = "rows" THEN figures ELSE NoFigures("none")
  /\ UNCHANGED <<figureRequest, latestFigures>>

FiguresSettled == \E r \in FigureRequests : FiguresArrive(r) \/ FiguresFail(r)

FigureStep ==
  FiguresRest \/ FiguresAsked \/ FiguresWarned \/ FiguresSorted \/ FiguresSettled

(* Nothing is picked: nothing can be wrong.                                *)
LEMMA NothingPicked ==
  ASSUME DistributionTypes', FieldIsPicked', ~Picked'
  PROVE  DistributionInv'
BY DEF DistributionInv, QuestionIsPicked, FiguresAreOfSelected, Picked

(* The figures of the table picked have been asked for, or none are shown. *)
LEMMA FiguresAnew ==
  ASSUME DistributionTypes', FieldIsPicked', active' = active,
         \/ FiguresAsked /\ (Picked' => ToShow = selected')
         \/ FiguresWarned /\ latestFigures' = None
  PROVE  DistributionInv'
<1>1. figures'.kind # "rows"
  BY DEF FiguresAsked, FiguresWarned, NoFigures
<1>2. QuestionIsPicked'
  <2>1. CASE FiguresAsked /\ (Picked' => ToShow = selected')
    <3>1. /\ figureRequest'[latestFigures'].conn = active
          /\ figureRequest'[latestFigures'].table = ToShow
      BY <2>1 DEF FiguresAsked
    <3> QED
      BY <2>1, <3>1 DEF QuestionIsPicked, IsPicked, OfTab
  <2>2. CASE latestFigures' = None
    BY <2>2 DEF QuestionIsPicked
  <2> QED
    BY <2>1, <2>2
<1>3. FiguresAreOfSelected'
  BY <1>1 DEF FiguresAreOfSelected
<1> QED
  BY <1>2, <1>3 DEF DistributionInv

(* What was picked stays picked, and its figures stay as they are.         *)
LEMMA FiguresStay ==
  ASSUME DistributionInv, DistributionTypes', FieldIsPicked',
         UNCHANGED <<figureRequest, latestFigures>>, UNCHANGED figures \/ FiguresSorted,
         Picked' => Picked /\ selected' = selected /\ OfTab \subseteq OfTab'
  PROVE  DistributionInv'
<1>1. figures'.kind = "rows" => figures' = figures
  BY DEF FiguresSorted, NoFigures
<1>2. QuestionIsPicked'
  BY DEF DistributionInv, QuestionIsPicked, IsPicked
<1>3. FiguresAreOfSelected'
  <2> SUFFICES ASSUME Picked', figures'.kind = "rows"
               PROVE  figures'.of.table = selected' /\ figures'.of.conn \in OfTab'
    BY DEF FiguresAreOfSelected, Picked, OfTab
  <2>1. Picked /\ figures' = figures /\ selected' = selected /\ OfTab \subseteq OfTab'
    BY <1>1
  <2>2. figures.of.table = selected /\ figures.of.conn \in OfTab
    BY <2>1 DEF DistributionInv, FiguresAreOfSelected, Picked, OfTab
  <2> QED
    BY <2>1, <2>2
<1> QED
  BY <1>2, <1>3 DEF DistributionInv

LEMMA RefreshTablesInv ==
  ASSUME DistributionTypes, NEW c \in Connections \union {None}, RefreshTables(c),
         ListTypeOK', distributionOpen' \in BOOLEAN
  PROVE  DistributionInv' /\ FigureStep
<1>1. CASE c = None
  <2>1. /\ latestList' = None /\ tables' = {} /\ selected' = None /\ field' = None
        /\ figures' = NoFigures("warning")
        /\ UNCHANGED <<listRequest, figureRequest, latestFigures>>
    BY <1>1 DEF RefreshTables, Warning
  <2>2. ListingType' /\ PickerType' /\ FigureType'
    BY <2>1 DEF DistributionTypes, ListingType, PickerType, FigureType
  <2>3. DistributionTypes' /\ FieldIsPicked' /\ ~Picked'
    BY <2>1, <2>2 DEF DistributionTypes, FieldIsPicked, Picked
  <2>4. FiguresWarned
    BY <2>1 DEF FiguresWarned
  <2> QED
    BY <2>3, <2>4, NothingPicked DEF FigureStep
<1>2. CASE c # None
  <2>1. PICK r \in {q \in ListRequests : listRequest[q] = None} :
          /\ listRequest' = [listRequest EXCEPT ![r] = c]
          /\ latestList' = r
    BY <1>2 DEF RefreshTables
  <2>2. field' = None /\ UNCHANGED <<tables, selected, figureVars>>
    BY <1>2 DEF RefreshTables
  <2>3. ListingType' /\ latestList' # None
    BY <1>2, <2>1, DistributionAssumption DEF DistributionTypes, ListingType
  <2>4. PickerType'
    BY <2>2 DEF DistributionTypes, PickerType
  <2>5. FigureType'
    BY <2>2 DEF DistributionTypes, FigureType, figureVars
  <2>6. DistributionTypes' /\ FieldIsPicked' /\ ~Picked'
    BY <2>3, <2>4, <2>5 DEF DistributionTypes, FieldIsPicked, Picked
  <2>7. FiguresRest
    BY <2>2 DEF FiguresRest
  <2> QED
    BY <2>6, <2>7, NothingPicked DEF FigureStep
<1> QED
  BY <1>1, <1>2

LEMMA RegistryInv ==
  ASSUME DistributionInv, DistributionRegistry
  PROVE  DistributionInv' /\ FigureStep
<1>1. ListTypeOK
  BY DEF DistributionInv, DistributionTypes
<1>2. CASE Delete /\ UNCHANGED distributionVars
  <2>1. UNCHANGED <<distributionOpen, tables, selected, field, listRequest, latestList,
                    figureRequest, latestFigures, figures>>
    BY <1>2 DEF distributionVars, pickerVars, listingVars, figureVars
  <2>2. ListTypeOK' /\ OfTab \subseteq OfTab' /\ active # None
    BY <1>1, <1>2, ListTypes
  <2>3. DistributionTypes' /\ FieldIsPicked'
    BY <2>1, <2>2 DEF DistributionInv, DistributionTypes, ListingType, PickerType,
                      FigureType, FieldIsPicked
  <2>4. Picked' => Picked
    BY <2>1, <2>2 DEF Picked
  <2>5. FiguresRest
    BY <2>1 DEF FiguresRest, figureVars
  <2> QED
    BY <2>1, <2>2, <2>3, <2>4, <2>5, FiguresStay DEF FigureStep
<1>3. CASE ~(Delete /\ UNCHANGED distributionVars)
  <2>1. PICK c \in Connections : Select(c) \/ Save(c)
    BY <1>3 DEF DistributionRegistry
  <2>2. ListTypeOK' /\ active' = c /\ c # None
    BY <1>1, <2>1, ListTypes, ConnectionAssumption
  <2>3. CASE distributionOpen' = FALSE /\ UNCHANGED <<pickerVars, listingVars, figureVars>>
    <3>1. UNCHANGED <<tables, selected, field, listRequest, latestList,
                      figureRequest, latestFigures, figures>>
      BY <2>3 DEF pickerVars, listingVars, figureVars
    <3>2. DistributionTypes' /\ FieldIsPicked' /\ ~Picked'
      BY <2>2, <2>3, <3>1 DEF DistributionInv, DistributionTypes, ListingType, PickerType,
                        FigureType, FieldIsPicked, Picked
    <3>3. FiguresRest
      BY <2>3 DEF FiguresRest
    <3> QED
      BY <3>2, <3>3, NothingPicked DEF FigureStep
  <2>4. CASE ~(distributionOpen' = FALSE /\ UNCHANGED <<pickerVars, listingVars, figureVars>>)
    <3>1. PICK q \in ListRequests, r \in ListRequests :
            /\ q # r
            /\ listRequest' = [listRequest EXCEPT ![q] = active', ![r] = active']
            /\ latestList' = r
      BY <1>3, <2>4 DEF DistributionRegistry
    <3>2. /\ distributionOpen' = TRUE /\ field' = None
          /\ UNCHANGED <<tables, selected, figureVars>>
      BY <1>3, <2>4 DEF DistributionRegistry
    <3>3. ListingType' /\ latestList' # None
      BY <2>2, <3>1, DistributionAssumption DEF DistributionInv, DistributionTypes, ListingType
    <3>4. PickerType'
      BY <3>2 DEF DistributionInv, DistributionTypes, PickerType
    <3>5. FigureType'
      BY <3>2 DEF DistributionInv, DistributionTypes, FigureType, figureVars
    <3>6. DistributionTypes' /\ FieldIsPicked' /\ ~Picked'
      BY <2>2, <3>2, <3>3, <3>4, <3>5 DEF DistributionTypes, FieldIsPicked, Picked
    <3>7. FiguresRest
      BY <3>2 DEF FiguresRest
    <3> QED
      BY <3>6, <3>7, NothingPicked DEF FigureStep
  <2> QED
    BY <2>3, <2>4
<1> QED
  BY <1>2, <1>3

LEMMA ListingInv ==
  ASSUME DistributionInv, NEW r \in ListRequests, TablesListed(r) \/ TablesFail(r)
  PROVE  DistributionInv' /\ FigureStep
<1>1. DistributionTypes
  BY DEF DistributionInv
<1>2. /\ listRequest[r] # None
      /\ listRequest' = [listRequest EXCEPT ![r] = None]
      /\ latestList' = IF latestList = r THEN None ELSE latestList
      /\ UNCHANGED <<listVars, distributionOpen>>
  BY DEF TablesListed, TablesFail, SettleList
<1>3. ListingType' /\ ListTypeOK' /\ active' = active /\ OfTab' = OfTab
  BY <1>1, <1>2, ListTypes DEF DistributionTypes, ListingType, listVars
<1>4. CASE r # latestList
  <2>1. UNCHANGED <<pickerVars, figureVars>> /\ latestList' = latestList
    BY <1>2, <1>4 DEF TablesListed, TablesFail
  <2>2. UNCHANGED <<tables, selected, field, figureRequest, latestFigures, figures>>
    BY <2>1 DEF pickerVars, figureVars
  <2>3. PickerType' /\ FigureType'
    BY <1>1, <2>2 DEF DistributionTypes, PickerType, FigureType
  <2>4. DistributionTypes' /\ FieldIsPicked'
    BY <1>1, <1>2, <1>3, <2>1, <2>2, <2>3
       DEF DistributionInv, DistributionTypes, FieldIsPicked
  <2>5. Picked' => Picked
    BY <1>2, <1>3, <2>1, <2>2 DEF Picked
  <2>6. FiguresRest
    BY <2>1 DEF FiguresRest
  <2> QED
    BY <1>3, <2>2, <2>4, <2>5, <2>6, FiguresStay DEF FigureStep
<1>5. CASE Emptied
  <2>1. /\ tables' = {} /\ selected' = None /\ field' = None
        /\ figures' = NoFigures("warning") /\ UNCHANGED <<figureRequest, latestFigures>>
    BY <1>5 DEF Emptied, Warning
  <2>2. PickerType' /\ FigureType'
    BY <1>1, <2>1 DEF DistributionTypes, PickerType, FigureType
  <2>3. DistributionTypes' /\ FieldIsPicked' /\ ~Picked'
    BY <1>1, <1>2, <1>3, <2>1, <2>2 DEF DistributionTypes, FieldIsPicked, Picked
  <2>4. FiguresWarned
    BY <2>1 DEF FiguresWarned
  <2> QED
    BY <2>3, <2>4, NothingPicked DEF FigureStep
<1>6. CASE r = latestList /\ ~Emptied
  <2>1. /\ selected' \in tables' /\ tables' \subseteq Names
        /\ field' = selected' /\ RefreshFigures
    BY <1>6 DEF TablesListed, TablesFail
  <2>2. PickerType' /\ ToShow = selected' /\ selected' # None
    BY <2>1, DistributionAssumption DEF PickerType, ToShow
  <2>3. /\ FigureType'
        /\ FiguresAsked \/ (FiguresWarned /\ latestFigures' = None)
    BY <1>1, <2>1, <2>2, RefreshFiguresTypes
  <2>4. DistributionTypes' /\ FieldIsPicked'
    BY <1>1, <1>2, <1>3, <2>1, <2>2, <2>3 DEF DistributionTypes, FieldIsPicked
  <2> QED
    BY <1>3, <2>2, <2>3, <2>4, FiguresAnew DEF FigureStep
<1> QED
  BY <1>4, <1>5, <1>6

LEMMA PickerInv ==
  ASSUME DistributionInv,
         \/ \E text \in Names \union {Other, None} : TypeTable(text)
         \/ \E table \in Names : SelectTable(table)
         \/ RefreshDistribution
         \/ SortDistribution
         \/ LeaveDistribution
  PROVE  DistributionInv' /\ FigureStep
<1>1. DistributionTypes
  BY DEF DistributionInv
<1>2. UNCHANGED <<listVars, listingVars>>
  BY DEF TypeTable, SelectTable, RefreshDistribution, SortDistribution, LeaveDistribution
<1>3. ListingType' /\ ListTypeOK' /\ active' = active /\ OfTab' = OfTab /\ latestList' = latestList
  BY <1>1, <1>2, ListTypes DEF DistributionTypes, ListingType, listVars, listingVars
<1>4. CASE \E text \in Names \union {Other, None} : TypeTable(text)
  <2>1. /\ field' \in Names \union {Other, None} /\ selected' = None
        /\ UNCHANGED <<distributionOpen, tables, figureVars>>
    BY <1>4 DEF TypeTable
  <2>2. PickerType' /\ FigureType'
    BY <1>1, <2>1 DEF DistributionTypes, PickerType, FigureType, figureVars
  <2>3. DistributionTypes' /\ FieldIsPicked' /\ ~Picked'
    BY <1>1, <1>3, <2>1, <2>2 DEF DistributionTypes, FieldIsPicked, Picked
  <2>4. FiguresRest
    BY <2>1 DEF FiguresRest
  <2> QED
    BY <2>3, <2>4, NothingPicked DEF FigureStep
<1>5. CASE \E table \in Names : SelectTable(table)
  <2>1. /\ selected' \in tables /\ field' = selected' /\ tables' = tables
        /\ RefreshFigures /\ UNCHANGED distributionOpen
    BY <1>5 DEF SelectTable
  <2>2. PickerType' /\ ToShow = selected'
    BY <1>1, <2>1 DEF DistributionTypes, PickerType, ToShow
  <2>3. /\ FigureType'
        /\ FiguresAsked \/ (FiguresWarned /\ latestFigures' = None)
    BY <1>1, <2>1, <2>2, RefreshFiguresTypes
  <2>4. DistributionTypes' /\ FieldIsPicked'
    BY <1>1, <1>3, <2>1, <2>2, <2>3 DEF DistributionTypes, FieldIsPicked
  <2> QED
    BY <1>3, <2>2, <2>3, <2>4, FiguresAnew DEF FigureStep
<1>6. CASE RefreshDistribution
  <2>1. UNCHANGED <<tables, selected, field, distributionOpen>> /\ RefreshFigures
    BY <1>6 DEF RefreshDistribution, pickerVars
  <2>2. PickerType' /\ FieldIsPicked'
    BY <1>1, <1>3, <2>1 DEF DistributionInv, DistributionTypes, PickerType, FieldIsPicked
  <2>3. Picked' => ToShow = selected'
    BY <2>2 DEF Picked, FieldIsPicked, ToShow
  <2>4. /\ FigureType'
        /\ FiguresAsked \/ (FiguresWarned /\ latestFigures' = None)
    BY <1>1, <2>1, <2>2, RefreshFiguresTypes
  <2>5. DistributionTypes'
    BY <1>1, <1>3, <2>1, <2>2, <2>4 DEF DistributionTypes
  <2> QED
    BY <1>3, <2>2, <2>3, <2>4, <2>5, FiguresAnew DEF FigureStep
<1>7. CASE SortDistribution
  <2>1. UNCHANGED <<tables, selected, field, distributionOpen>> /\ FiguresSorted
    BY <1>7 DEF SortDistribution, pickerVars, FiguresSorted
  <2>2. PickerType' /\ FieldIsPicked'
    BY <1>1, <1>3, <2>1 DEF DistributionInv, DistributionTypes, PickerType, FieldIsPicked
  <2>3. FigureType'
    BY <1>1, <2>1 DEF DistributionTypes, FigureType, FiguresSorted
  <2>4. DistributionTypes' /\ (Picked' => Picked)
    BY <1>1, <1>3, <2>1, <2>2, <2>3 DEF DistributionTypes, Picked
  <2>5. UNCHANGED <<figureRequest, latestFigures>>
    BY <2>1 DEF FiguresSorted
  <2> QED
    BY <1>3, <2>1, <2>2, <2>4, <2>5, FiguresStay DEF FigureStep
<1>8. CASE LeaveDistribution
  <2>1. distributionOpen' = FALSE /\ UNCHANGED <<tables, selected, field, figureVars>>
    BY <1>8 DEF LeaveDistribution, pickerVars
  <2>2. PickerType' /\ FieldIsPicked'
    BY <1>1, <1>3, <2>1 DEF DistributionInv, DistributionTypes, PickerType, FieldIsPicked
  <2>3. FigureType'
    BY <1>1, <2>1 DEF DistributionTypes, FigureType, figureVars
  <2>4. DistributionTypes' /\ ~Picked'
    BY <1>3, <2>1, <2>2, <2>3 DEF DistributionTypes, Picked
  <2>5. FiguresRest
    BY <2>1 DEF FiguresRest
  <2> QED
    BY <2>2, <2>4, <2>5, NothingPicked DEF FigureStep
<1> QED
  BY <1>4, <1>5, <1>6, <1>7, <1>8

LEMMA FigureArrivalTypes ==
  ASSUME DistributionTypes, NEW r \in FigureRequests, FiguresArrive(r) \/ FiguresFail(r)
  PROVE  /\ figureRequest[r] \in Figure
         /\ DistributionTypes'
         /\ UNCHANGED <<listVars, distributionOpen, pickerVars, listingVars>>
         /\ r # latestFigures =>
              /\ UNCHANGED <<latestFigures, figures>>
              /\ latestFigures # None =>
                   figureRequest'[latestFigures] = figureRequest[latestFigures]
         /\ r = latestFigures =>
              /\ latestFigures' = None /\ latestFigures # None
              /\ \/ figures' = [kind |-> "rows", of |-> figureRequest[r]]
                 \/ figures' = NoFigures("warning")
<1>1. /\ figureRequest[r] # None
      /\ figureRequest' = [figureRequest EXCEPT ![r] = None]
      /\ latestFigures' = IF latestFigures = r THEN None ELSE latestFigures
      /\ UNCHANGED <<listVars, distributionOpen, pickerVars, listingVars>>
  BY DEF FiguresArrive, FiguresFail, SettleFigures
<1>2. figureRequest[r] \in Figure
  BY <1>1 DEF DistributionTypes, FigureType
<1>3. /\ figureRequest' \in [FigureRequests -> Figure \union {None}]
      /\ latestFigures' \in {q \in FigureRequests : figureRequest'[q] # None} \union {None}
  BY <1>1 DEF DistributionTypes, FigureType
<1>4. r # latestFigures =>
        /\ UNCHANGED <<latestFigures, figures>>
        /\ latestFigures # None =>
             figureRequest'[latestFigures] = figureRequest[latestFigures]
  BY <1>1 DEF FiguresArrive, FiguresFail, DistributionTypes, FigureType
<1>5. r = latestFigures =>
        /\ latestFigures' = None /\ latestFigures # None
        /\ \/ figures' = [kind |-> "rows", of |-> figureRequest[r]]
           \/ figures' = NoFigures("warning")
  BY <1>1, DistributionAssumption DEF FiguresArrive, FiguresFail, Warning
<1>6. FigureType'
  BY <1>2, <1>3, <1>4, <1>5 DEF DistributionTypes, FigureType
<1>7. ListTypeOK'
  BY <1>1, ListTypes DEF DistributionTypes
<1>8. ListingType' /\ PickerType' /\ distributionOpen' \in BOOLEAN
  BY <1>1 DEF DistributionTypes, ListingType, PickerType, pickerVars, listingVars
<1> QED
  BY <1>1, <1>2, <1>4, <1>5, <1>6, <1>7, <1>8 DEF DistributionTypes

LEMMA FigureArrivalInv ==
  ASSUME DistributionInv, NEW r \in FigureRequests, FiguresArrive(r) \/ FiguresFail(r)
  PROVE  DistributionInv'
<1>1. DistributionTypes /\ FieldIsPicked /\ QuestionIsPicked /\ FiguresAreOfSelected
  BY DEF DistributionInv
<1>2. DistributionTypes' /\ UNCHANGED <<listVars, distributionOpen, pickerVars, listingVars>>
  BY <1>1, FigureArrivalTypes
<1>3. /\ UNCHANGED <<active, distributionOpen, tables, selected, field, latestList>>
      /\ OfTab' = OfTab
  BY <1>2 DEF listVars, pickerVars, listingVars, OfTab
<1>4. FieldIsPicked' /\ Picked' = Picked
  BY <1>1, <1>3 DEF FieldIsPicked, Picked
<1>5. CASE r # latestFigures
  <2>1. /\ UNCHANGED <<latestFigures, figures>>
        /\ latestFigures # None =>
             figureRequest'[latestFigures] = figureRequest[latestFigures]
    BY <1>1, <1>5, FigureArrivalTypes
  <2>2. QuestionIsPicked'
    BY <1>1, <1>3, <1>4, <2>1 DEF QuestionIsPicked, IsPicked
  <2>3. FiguresAreOfSelected'
    BY <1>1, <1>3, <2>1 DEF FiguresAreOfSelected, OfTab
  <2> QED
    BY <1>2, <1>4, <2>2, <2>3 DEF DistributionInv
<1>6. CASE r = latestFigures
  <2>1. /\ latestFigures' = None /\ latestFigures # None
        /\ \/ figures' = [kind |-> "rows", of |-> figureRequest[r]]
           \/ figures' = NoFigures("warning")
    BY <1>1, <1>6, FigureArrivalTypes
  <2>2. QuestionIsPicked'
    BY <2>1 DEF QuestionIsPicked
  <2>3. FiguresAreOfSelected'
    <3> SUFFICES ASSUME Picked', figures'.kind = "rows"
                 PROVE  figures'.of.table = selected' /\ figures'.of.conn \in OfTab'
      BY DEF FiguresAreOfSelected, Picked, OfTab
    <3>1. figures'.of = figureRequest[r]
      BY <2>1 DEF NoFigures
    <3>2. IsPicked(figureRequest[r])
      BY <1>1, <1>4, <1>6, <2>1 DEF QuestionIsPicked
    <3> QED
      BY <1>3, <3>1, <3>2 DEF IsPicked
  <2> QED
    BY <1>2, <1>4, <2>2, <2>3 DEF DistributionInv
<1> QED
  BY <1>5, <1>6

LEMMA DistributionSteps ==
  ASSUME DistributionInv, [DistributionNext]_<<listVars, distributionVars>>
  PROVE  DistributionInv' /\ FigureStep
<1>1. DistributionTypes /\ ListTypeOK /\ active \in Connections \union {None}
  BY DEF DistributionInv, DistributionTypes, ListTypeOK
<1>2. CASE OpenDistribution \/ ShowDistribution
  <2>1. RefreshTables(active) /\ UNCHANGED listVars /\ distributionOpen' \in BOOLEAN
    BY <1>1, <1>2 DEF OpenDistribution, ShowDistribution, DistributionTypes
  <2>2. ListTypeOK'
    BY <1>1, <2>1, ListTypes
  <2> QED
    BY <1>1, <2>1, <2>2, RefreshTablesInv
<1>3. CASE DistributionRegistry
  BY <1>3, RegistryInv
<1>4. CASE \E r \in ListRequests : TablesListed(r) \/ TablesFail(r)
  BY <1>4, ListingInv
<1>5. CASE \E r \in FigureRequests : FiguresArrive(r) \/ FiguresFail(r)
  BY <1>5, FigureArrivalInv DEF FigureStep, FiguresSettled
<1>6. CASE UNCHANGED <<listVars, distributionVars>>
  <2>1. UNCHANGED <<distributionOpen, tables, selected, field, listRequest, latestList,
                    figureRequest, latestFigures, figures>>
    BY <1>6 DEF distributionVars, pickerVars, listingVars, figureVars
  <2>2. ListTypeOK' /\ OfTab' = OfTab /\ active' = active
    BY <1>1, <1>6, ListTypes DEF listVars
  <2>3. DistributionTypes' /\ FieldIsPicked'
    BY <2>1, <2>2 DEF DistributionInv, DistributionTypes, ListingType, PickerType,
                      FigureType, FieldIsPicked
  <2>4. Picked' => Picked
    BY <2>1, <2>2 DEF Picked
  <2>5. FiguresRest
    BY <2>1 DEF FiguresRest, figureVars
  <2> QED
    BY <2>1, <2>2, <2>3, <2>4, <2>5, FiguresStay DEF FigureStep
<1> QED
  BY <1>2, <1>3, <1>4, <1>5, <1>6, PickerInv DEF DistributionNext

LEMMA DistributionStart == ListInit /\ DistributionInit => DistributionInv
<1> SUFFICES ASSUME ListInit, DistributionInit PROVE DistributionInv
  OBVIOUS
<1>1. ListTypeOK
  BY DEF ListInit, ListTypeOK
<1>2. ListingType /\ PickerType /\ FigureType
  BY DEF DistributionInit, ListingType, PickerType, FigureType
<1>3. distributionOpen \in BOOLEAN
  BY DEF DistributionInit
<1> QED
  BY <1>1, <1>2, <1>3
     DEF DistributionInit, DistributionInv, DistributionTypes, FieldIsPicked,
         QuestionIsPicked, Picked, FiguresAreOfSelected

LEMMA DistributionInvAlways == DistributionSpec => []DistributionInv
BY DistributionStart, DistributionSteps, PTL DEF DistributionSpec

(* Once the list of tables is there, the figures on the open page are of   *)
(* the table picked and of the selected connection or one that has left,   *)
(* however lists and figures overlapped                                    *)
(* (refreshDistributionForSelectedTable).                                  *)
THEOREM FiguresBelong == DistributionSpec => []FiguresAreOfSelected
<1>1. DistributionInv => FiguresAreOfSelected
  BY DEF DistributionInv
<1> QED
  BY <1>1, DistributionInvAlways, PTL

LEMMA FigureStepPromised ==
  ASSUME DistributionTypes, DistributionTypes', FigureStep
  PROVE  [FiguresPromise!LNext]_promisedFigures
<1>1. CASE FiguresRest
  BY <1>1 DEF FiguresRest, figureVars, promisedFigures
<1>2. CASE FiguresAsked
  <2>1. /\ latestFigures' # None
        /\ figureRequest'[latestFigures'] \in Figure
        /\ figures'.of = None
    BY <1>2, DistributionAssumption DEF FiguresAsked, Figure, NoFigures
  <2>2. FiguresPromise!Asks
    BY <2>1 DEF FiguresPromise!Asks
  <2> QED
    BY <2>2 DEF FiguresPromise!LNext
<1>3. CASE FiguresWarned
  <2>1. figures'.of = None
    BY <1>3 DEF FiguresWarned, NoFigures
  <2>2. FiguresPromise!Warns
    BY <1>3, <2>1 DEF FiguresWarned, FiguresPromise!Warns
  <2> QED
    BY <2>2 DEF FiguresPromise!LNext
<1>4. CASE FiguresSorted
  <2>1. figures'.of = figures.of
    BY <1>4, FigureKinds DEF FiguresSorted, NoFigures, DistributionTypes
  <2> QED
    BY <1>4, <2>1 DEF FiguresSorted, promisedFigures
<1>5. CASE FiguresSettled
  <2>1. PICK r \in FigureRequests : FiguresArrive(r) \/ FiguresFail(r)
    BY <1>5 DEF FiguresSettled
  <2>2. CASE r # latestFigures
    BY <2>1, <2>2, FigureArrivalTypes DEF promisedFigures
  <2>3. CASE r = latestFigures
    <3>1. /\ latestFigures' = None /\ latestFigures # None
          /\ \/ figures' = [kind |-> "rows", of |-> figureRequest[r]]
             \/ figures' = NoFigures("warning")
          /\ figureRequest[r] \in Figure
      BY <2>1, <2>3, FigureArrivalTypes
    <3>2. figureRequest[r] # None
      BY <3>1, DistributionAssumption
    <3>3. CASE figures' = [kind |-> "rows", of |-> figureRequest[r]]
      <4>1. figures'.of = figureRequest[r]
        BY <3>3
      <4>2. FiguresPromise!Answers
        BY <2>3, <3>1, <3>2, <4>1 DEF FiguresPromise!Answers
      <4> QED
        BY <4>2 DEF FiguresPromise!LNext
    <3>4. CASE figures' = NoFigures("warning")
      <4>1. figures'.of = None
        BY <3>4 DEF NoFigures
      <4>2. FiguresPromise!Warns
        BY <3>1, <4>1 DEF FiguresPromise!Warns
      <4> QED
        BY <4>2 DEF FiguresPromise!LNext
    <3> QED
      BY <3>1, <3>3, <3>4
  <2> QED
    BY <2>2, <2>3
<1> QED
  BY <1>1, <1>2, <1>3, <1>4, <1>5 DEF FigureStep

(* The figures on the page are the answer to the latest question about     *)
(* them: the page implements LatestAnswer (distributionRequestId).         *)
THEOREM FiguresImplement == DistributionSpec => FiguresImplementLatestAnswer
<1>1. DistributionInit => FiguresPromise!LInit
  BY DEF DistributionInit, FiguresPromise!LInit, NoFigures
<1>2. DistributionInv /\ [DistributionNext]_<<listVars, distributionVars>>
        => [FiguresPromise!LNext]_promisedFigures
  BY DistributionSteps, FigureStepPromised DEF DistributionInv
<1> QED
  BY <1>1, <1>2, DistributionInvAlways, PTL
     DEF DistributionSpec, FiguresImplementLatestAnswer, FiguresPromise!LSpec,
         promisedFigures

-----------------------------------------------------------------------------
(* The types of the requests under way, one by one.                        *)
CallType(request) ==
  /\ request \in [what : {"none", "list", "toggle"},
                  conn : Connections \union {None},
                  object : Objects \union {None},
                  stage : {"sent", "found", "gone", "answered"},
                  says : SUBSET Objects, missed : SUBSET Objects,
                  waiting : BOOLEAN]
  /\ request.what # "none" => request.conn \in Connections
  /\ request.what = "toggle" => request.object \in Objects

CallTypes ==
  /\ call = [k \in Calls |-> call[k]]
  /\ \A k \in Calls : CallType(call[k])

FavoritesTypes ==
  /\ ListTypeOK
  /\ rows \in [Connections -> SUBSET Objects]
  /\ favoriteKeys \subseteq Objects
  /\ disabled \subseteq Objects /\ doubtful \subseteq Objects
  /\ CallTypes

(* A list that has been read says what is in the table, but for what has   *)
(* been toggled since.                                                     *)
ListIsRight(request) ==
  request.what = "list" /\ request.stage = "answered"
    => \A o \in Objects \ request.missed :
         o \in request.says <=> o \in rows[request.conn]

(* The only toggle of o under way will be answered, and its answer says    *)
(* what is in the table; without one, the star does.                       *)
ToggleIsRight(k, o) ==
  /\ call[k].waiting /\ call[k].stage # "gone"
  /\ call[k].stage = "found" => o \in rows[active]
  /\ call[k].stage = "answered" => (call[k].says # {} <=> o \in rows[active])

ObjectIsRight(o) ==
  /\ Toggling(active, o) = {} => (o \in favoriteKeys <=> o \in rows[active])
  /\ \A k \in Toggling(active, o) :
       /\ ToggleIsRight(k, o)
       /\ \A j \in Toggling(active, o) : j = k

FavoritesInv ==
  /\ FavoritesTypes
  /\ \A k \in Calls : ListIsRight(call[k])
  /\ active # None => \A o \in Objects \ doubtful : ObjectIsRight(o)

(* A step that leaves the row of an object and its toggles, and its star   *)
(* without one.                                                            *)
LEMMA Undisturbed ==
  ASSUME NEW o, ObjectIsRight(o), active' = active,
         Toggling(active, o) = {} => (o \in favoriteKeys' <=> o \in favoriteKeys),
         o \in rows'[active] <=> o \in rows[active],
         Toggling(active, o)' = Toggling(active, o),
         \A k \in Toggling(active, o) : call'[k] = call[k]
  PROVE  ObjectIsRight(o)'
<1>1. \A k \in Toggling(active, o)' : ToggleIsRight(k, o)'
  BY DEF ObjectIsRight, ToggleIsRight
<1>2. \A k \in Toggling(active, o)' : \A j \in Toggling(active, o)' : j = k
  BY DEF ObjectIsRight
<1>3. Toggling(active, o)' = {} => (o \in favoriteKeys' <=> o \in rows'[active'])
  BY DEF ObjectIsRight
<1> QED
  BY <1>1, <1>2, <1>3 DEF ObjectIsRight

LEMMA FavoritesStart == ListInit /\ FavoritesInit => FavoritesInv
<1> SUFFICES ASSUME ListInit, FavoritesInit PROVE FavoritesInv
  OBVIOUS
<1>1. ListTypeOK
  BY DEF ListInit, ListTypeOK
<1>2. CallType(NoCall)
  BY DEF CallType, NoCall
<1>3. CallTypes
  BY <1>2 DEF FavoritesInit, CallTypes
<1>4. \A k \in Calls : ListIsRight(call[k])
  BY DEF FavoritesInit, ListIsRight, NoCall
<1> QED
  BY <1>1, <1>3, <1>4 DEF FavoritesInit, FavoritesInv, FavoritesTypes

(* A step of one request: request k becomes `now', and the toggles of an   *)
(* object whose own request it is not stay the same.                       *)
LEMMA OneCall ==
  ASSUME CallTypes, NEW k \in Calls, NEW now, CallType(now),
         call' = [call EXCEPT ![k] = now]
  PROVE  /\ CallTypes'
         /\ call'[k] = now
         /\ \A j \in Calls \ {k} : call'[j] = call[j]
BY DEF CallTypes

LEMMA OtherObject ==
  ASSUME CallTypes, NEW k \in Calls, NEW now, CallType(now), active' = active,
         call' = [call EXCEPT ![k] = now], NEW o,
         k \notin Toggling(active, o),
         ~(now.what = "toggle" /\ now.conn = active /\ now.object = o)
  PROVE  /\ Toggling(active, o)' = Toggling(active, o)
         /\ \A j \in Toggling(active, o) : call'[j] = call[j]
<1>1. call'[k] = now /\ \A j \in Calls \ {k} : call'[j] = call[j]
  BY OneCall
<1> QED
  BY <1>1 DEF Toggling

(* What a step of one request has to keep.                                 *)
LEMMA OneCallInv ==
  ASSUME FavoritesInv, UNCHANGED <<listVars, rows>>,
         NEW k \in Calls, NEW now, CallType(now), ListIsRight(now),
         call' = [call EXCEPT ![k] = now],
         favoriteKeys' \subseteq Objects,
         disabled' \subseteq Objects, doubtful' \subseteq Objects,
         active # None => \A o \in Objects \ doubtful' : ObjectIsRight(o)'
  PROVE  FavoritesInv'
<1>1. CallTypes'
  BY OneCall DEF FavoritesInv, FavoritesTypes
<1>2. ListTypeOK'
  BY ListTypes DEF FavoritesInv, FavoritesTypes
<1>3. FavoritesTypes'
  BY <1>1, <1>2 DEF FavoritesInv, FavoritesTypes
<1>4. ASSUME NEW j \in Calls PROVE ListIsRight(call[j])'
  <2>1. call'[j] = IF j = k THEN now ELSE call[j]
    BY OneCall DEF FavoritesInv, FavoritesTypes
  <2>2. ListIsRight(call[j])
    BY DEF FavoritesInv
  <2> QED
    BY <2>1, <2>2 DEF ListIsRight
<1>5. active' = active
  BY DEF listVars
<1> QED
  BY <1>3, <1>4, <1>5 DEF FavoritesInv

LEMMA Elsewhere ==
  ASSUME FavoritesInv, UNCHANGED <<listVars, rows>>, active # None,
         NEW k \in Calls, NEW now, CallType(now),
         call' = [call EXCEPT ![k] = now],
         NEW o \in Objects \ doubtful,
         Toggling(active, o) = {} => (o \in favoriteKeys' <=> o \in favoriteKeys),
         k \notin Toggling(active, o),
         ~(now.what = "toggle" /\ now.conn = active /\ now.object = o)
  PROVE  ObjectIsRight(o)'
<1>1. active' = active
  BY DEF listVars
<1>2. /\ Toggling(active, o)' = Toggling(active, o)
      /\ \A j \in Toggling(active, o) : call'[j] = call[j]
  BY <1>1, OtherObject DEF FavoritesInv, FavoritesTypes
<1>3. ObjectIsRight(o)
  BY DEF FavoritesInv
<1> QED
  BY <1>1, <1>2, <1>3, Undisturbed

-----------------------------------------------------------------------------
LEMMA NoCallTypes == CallType(NoCall) /\ ListIsRight(NoCall) /\ NoCall.what = "none"
BY DEF CallType, ListIsRight, NoCall

(* One request of the favourites at a time.                                *)
LEMMA CallIs ==
  ASSUME FavoritesInv, NEW k \in Calls
  PROVE  /\ CallType(call[k]) /\ ListIsRight(call[k])
         /\ active \in Connections \union {None}
         /\ favoriteKeys \subseteq Objects
         /\ disabled \subseteq Objects /\ doubtful \subseteq Objects
         /\ active # None => \A o \in Objects \ doubtful : ObjectIsRight(o)
BY ListTypes DEF FavoritesInv, FavoritesTypes, CallTypes

LEMMA LoadFavoritesInv ==
  ASSUME FavoritesInv, NEW k \in Calls, LoadFavorites(k)
  PROVE  FavoritesInv'
<1> DEFINE now == List(active)
<1>1. CallType(now) /\ ListIsRight(now) /\ now.what = "list"
  BY CallIs DEF LoadFavorites, List, CallType, ListIsRight
<1>2. k \notin Toggling(active, active) /\ \A o : k \notin Toggling(active, o)
  BY NoCallTypes DEF LoadFavorites, Toggling
<1>3. call' = [call EXCEPT ![k] = now]
  BY DEF LoadFavorites
<1> HIDE DEF now
<1>4. \A o \in Objects \ doubtful : ObjectIsRight(o)'
  BY <1>1, <1>2, <1>3, Elsewhere DEF LoadFavorites
<1> QED
  BY <1>1, <1>3, <1>4, CallIs, OneCallInv DEF LoadFavorites

LEMMA FavoritesLoadedInv ==
  ASSUME FavoritesInv, NEW k \in Calls, FavoritesLoaded(k)
  PROVE  FavoritesInv'
<1>1. call[k].what = "list" /\ call[k].stage = "answered" /\ CallType(call[k])
  BY CallIs DEF FavoritesLoaded
<1>2. \A o : k \notin Toggling(active, o)
  BY <1>1 DEF Toggling
<1>3. call' = [call EXCEPT ![k] = NoCall] /\ UNCHANGED <<listVars, rows>>
  BY DEF FavoritesLoaded
<1>4. CASE call[k].conn = active
  <2>1. /\ favoriteKeys' = call[k].says
        /\ disabled' = {}
        /\ doubtful' = call[k].missed
                         \union {o \in doubtful : Toggling(active, o) # {}}
    BY <1>4 DEF FavoritesLoaded
  <2>2. call[k].says \subseteq Objects /\ call[k].missed \subseteq Objects
    BY <1>1 DEF CallType
  <2>3. ASSUME active # None, NEW o \in Objects \ doubtful'
        PROVE  ObjectIsRight(o)'
    <3>1. CASE Toggling(active, o) = {}
      <4>1. o \in call[k].says <=> o \in rows[active]
        BY <1>1, <1>4, <2>1, <2>3, CallIs DEF ListIsRight
      <4>2. active' = active /\ Toggling(active, o)' = {}
        BY <1>2, <1>3, <3>1, NoCallTypes, OtherObject
           DEF listVars, FavoritesInv, FavoritesTypes
      <4> QED
        BY <1>3, <2>1, <4>1, <4>2 DEF ObjectIsRight
    <3>2. CASE Toggling(active, o) # {}
      <4>1. o \notin doubtful
        BY <2>1, <2>3, <3>2
      <4> QED
        BY <1>2, <1>3, <2>3, <3>2, <4>1, NoCallTypes, Elsewhere
    <3> QED
      BY <3>1, <3>2
  <2> QED
    BY <1>3, <2>1, <2>2, <2>3, CallIs, NoCallTypes, OneCallInv
<1>5. CASE call[k].conn # active
  <2>1. UNCHANGED <<favoriteKeys, disabled, doubtful>>
    BY <1>5 DEF FavoritesLoaded
  <2>2. active # None => \A o \in Objects \ doubtful : ObjectIsRight(o)'
    BY <1>2, <1>3, <2>1, NoCallTypes, Elsewhere
  <2> QED
    BY <1>3, <2>1, <2>2, CallIs, NoCallTypes, OneCallInv
<1> QED
  BY <1>4, <1>5

LEMMA FavoritesFailInv ==
  ASSUME FavoritesInv, NEW k \in Calls, FavoritesFail(k)
  PROVE  FavoritesInv'
<1>1. \A o : k \notin Toggling(active, o)
  BY DEF FavoritesFail, Toggling
<1>2. active # None => \A o \in Objects \ doubtful : ObjectIsRight(o)'
  BY <1>1, NoCallTypes, Elsewhere DEF FavoritesFail
<1> QED
  BY <1>2, CallIs, NoCallTypes, OneCallInv DEF FavoritesFail

LEMMA ClickStarInv ==
  ASSUME FavoritesInv, NEW k \in Calls, NEW p \in Objects, ClickStar(k, p)
  PROVE  FavoritesInv'
<1> DEFINE now == Toggle(active, p)
<1>1. /\ CallType(now) /\ ListIsRight(now)
      /\ now.what = "toggle" /\ now.conn = active /\ now.object = p
      /\ now.waiting /\ now.stage = "sent"
  BY CallIs DEF ClickStar, Toggle, CallType, ListIsRight
<1>2. \A o : k \notin Toggling(active, o)
  BY NoCallTypes DEF ClickStar, Toggling
<1>3. call' = [call EXCEPT ![k] = now]
  BY DEF ClickStar
<1> HIDE DEF now
<1>4. call'[k] = now /\ \A j \in Calls \ {k} : call'[j] = call[j]
  BY <1>1, <1>3, OneCall DEF FavoritesInv, FavoritesTypes
<1>5. /\ active' = active /\ doubtful \subseteq doubtful'
      /\ p \notin doubtful' => Toggling(active, p) = {}
  BY DEF ClickStar, listVars
<1>6. ASSUME NEW o \in Objects \ doubtful' PROVE ObjectIsRight(o)'
  <2>1. CASE o # p
    BY <1>1, <1>2, <1>3, <1>5, <1>6, <2>1, Elsewhere DEF ClickStar
  <2>2. CASE o = p
    <3>1. Toggling(active, o)' = {k}
      BY <1>1, <1>4, <1>5, <1>6, <2>2 DEF Toggling
    <3> QED
      BY <1>1, <1>4, <3>1 DEF ObjectIsRight, ToggleIsRight
  <2> QED
    BY <2>1, <2>2
<1>7. disabled' \subseteq Objects /\ doubtful' \subseteq Objects
  BY CallIs DEF ClickStar
<1> QED
  BY <1>1, <1>3, <1>6, <1>7, CallIs, OneCallInv DEF ClickStar

LEMMA StarAnsweredInv ==
  ASSUME FavoritesInv, NEW k \in Calls, StarAnswered(k)
  PROVE  FavoritesInv'
<1> DEFINE p == call[k].object
<1>1. /\ call[k].what = "toggle" /\ call[k].stage = "answered"
      /\ call' = [call EXCEPT ![k] = NoCall]
      /\ UNCHANGED <<listVars, rows>> /\ active' = active /\ doubtful' = doubtful
      /\ p \in Objects /\ disabled' \subseteq Objects
  BY CallIs DEF StarAnswered, CallType, listVars
<1>2. \A j \in Calls \ {k} : call'[j] = call[j]
  BY <1>1, NoCallTypes, OneCall DEF FavoritesInv, FavoritesTypes
<1>3. call'[k] = NoCall
  BY <1>1, NoCallTypes, OneCall DEF FavoritesInv, FavoritesTypes
<1>4. CASE call[k].conn = active
  <2>1. ApplyFavoriteChange(p, call[k].says # {})
    BY <1>4 DEF StarAnswered
  <2>2. favoriteKeys' \subseteq Objects
    BY <1>1, <2>1, CallIs DEF ApplyFavoriteChange
  <2>3. ASSUME active # None, NEW o \in Objects \ doubtful PROVE ObjectIsRight(o)'
    <3>1. CASE o # p
      <4>1. k \notin Toggling(active, o)
        BY <3>1 DEF Toggling
      <4>2. o \in favoriteKeys' <=> o \in favoriteKeys
        BY <2>1, <3>1 DEF ApplyFavoriteChange
      <4> QED
        BY <1>1, <2>3, <4>1, <4>2, NoCallTypes, Elsewhere
    <3>2. CASE o = p
      <4>1. k \in Toggling(active, o)
        BY <1>1, <1>4, <3>2 DEF Toggling
      <4>2. ObjectIsRight(o)
        BY <2>3, CallIs
      <4>3. Toggling(active, o) = {k} /\ (call[k].says # {} <=> o \in rows[active])
        BY <1>1, <4>1, <4>2 DEF ObjectIsRight, ToggleIsRight
      <4>4. Toggling(active, o)' = {}
        BY <1>1, <1>2, <1>3, <4>3, NoCallTypes DEF Toggling
      <4>5. o \in favoriteKeys' <=> call[k].says # {}
        BY <2>1, <3>2 DEF ApplyFavoriteChange
      <4> QED
        BY <1>1, <4>3, <4>4, <4>5 DEF ObjectIsRight
    <3> QED
      BY <3>1, <3>2
  <2> QED
    BY <1>1, <2>2, <2>3, CallIs, NoCallTypes, OneCallInv
<1>5. CASE call[k].conn # active
  <2>1. UNCHANGED favoriteKeys
    BY <1>5 DEF StarAnswered
  <2>2. \A o : k \notin Toggling(active, o)
    BY <1>5 DEF Toggling
  <2>3. active # None => \A o \in Objects \ doubtful : ObjectIsRight(o)'
    BY <1>1, <2>1, <2>2, NoCallTypes, Elsewhere
  <2> QED
    BY <1>1, <2>1, <2>3, CallIs, NoCallTypes, OneCallInv
<1> QED
  BY <1>4, <1>5

LEMMA StarFailsInv ==
  ASSUME FavoritesInv, NEW k \in Calls, StarFails(k)
  PROVE  FavoritesInv'
<1> DEFINE now == IF call[k].stage = "answered"
                    THEN NoCall ELSE [call[k] EXCEPT !.waiting = FALSE]
<1>1. CallType(call[k]) /\ call[k].what = "toggle"
  BY CallIs DEF StarFails
<1>2. /\ CallType(now) /\ ListIsRight(now)
      /\ now.what = "toggle" => now.conn = call[k].conn /\ now.object = call[k].object
  <2>1. CASE call[k].stage = "answered"
    BY <2>1, NoCallTypes
  <2>2. CASE call[k].stage # "answered"
    BY <1>1, <2>2 DEF CallType, ListIsRight
  <2> QED
    BY <2>1, <2>2
<1>3. call' = [call EXCEPT ![k] = now]
  BY DEF StarFails
<1> HIDE DEF now
<1>4. /\ UNCHANGED <<listVars, rows, favoriteKeys>>
      /\ disabled' \subseteq Objects
      /\ doubtful' = IF call[k].conn = active
                       THEN doubtful \union {call[k].object} ELSE doubtful
  BY CallIs DEF StarFails, Doubt
<1>5. call[k].object \in Objects /\ doubtful' \subseteq Objects
  BY <1>1, <1>4, CallIs DEF CallType
<1>6. ASSUME active # None, NEW o \in Objects \ doubtful' PROVE ObjectIsRight(o)'
  <2>1. ~(call[k].conn = active /\ call[k].object = o)
    BY <1>4, <1>6
  <2>2. k \notin Toggling(active, o)
    BY <2>1 DEF Toggling
  <2>3. o \in Objects \ doubtful
    BY <1>4, <1>6
  <2> QED
    BY <1>2, <1>3, <1>4, <1>6, <2>1, <2>2, <2>3, Elsewhere
<1> QED
  BY <1>2, <1>3, <1>4, <1>5, <1>6, CallIs, OneCallInv

-----------------------------------------------------------------------------
LEMMA ServeListInv ==
  ASSUME FavoritesInv, NEW k \in Calls, ServeList(k)
  PROVE  FavoritesInv'
<1> DEFINE now == [call[k] EXCEPT !.stage = "answered", !.says = rows[call[k].conn]]
<1>1. CallType(call[k]) /\ call[k].what = "list"
  BY CallIs DEF ServeList
<1>2. rows[call[k].conn] \subseteq Objects
  BY <1>1 DEF FavoritesInv, FavoritesTypes, CallType
<1>3. CallType(now) /\ now.what = "list" /\ ListIsRight(now)
  BY <1>1, <1>2 DEF CallType, ListIsRight
<1>4. call' = [call EXCEPT ![k] = now]
  BY DEF ServeList, FavoritesInv, FavoritesTypes, CallTypes
<1> HIDE DEF now
<1>5. \A o : k \notin Toggling(active, o)
  BY <1>1 DEF Toggling
<1>6. active # None => \A o \in Objects \ doubtful : ObjectIsRight(o)'
  BY <1>3, <1>4, <1>5, Elsewhere DEF ServeList
<1> QED
  BY <1>3, <1>4, <1>6, CallIs, OneCallInv DEF ServeList

(* get_or_create finds the row.                                            *)
LEMMA RowFoundInv ==
  ASSUME FavoritesInv, NEW k \in Calls, GetOrCreate(k),
         call[k].object \in rows[call[k].conn]
  PROVE  FavoritesInv'
<1> DEFINE now == [call[k] EXCEPT !.stage = "found"]
<1>1. CallType(call[k]) /\ call[k].what = "toggle" /\ call[k].stage = "sent"
  BY CallIs DEF GetOrCreate
<1>2. /\ CallType(now) /\ ListIsRight(now) /\ now.what = "toggle"
      /\ now.conn = call[k].conn /\ now.object = call[k].object
      /\ now.waiting = call[k].waiting /\ now.stage = "found"
  BY <1>1 DEF CallType, ListIsRight
<1>3. call' = [call EXCEPT ![k] = now]
  BY DEF GetOrCreate, FavoritesInv, FavoritesTypes, CallTypes
<1> HIDE DEF now
<1>4. /\ UNCHANGED <<listVars, rows, favoriteKeys, disabled, doubtful>>
      /\ active' = active
  BY DEF GetOrCreate, listVars
<1>5. call'[k] = now /\ \A j \in Calls \ {k} : call'[j] = call[j]
  BY <1>2, <1>3, OneCall DEF FavoritesInv, FavoritesTypes
<1>6. ASSUME active # None, NEW o \in Objects \ doubtful PROVE ObjectIsRight(o)'
  <2>1. CASE k \notin Toggling(active, o)
    <3>1. ~(call[k].conn = active /\ call[k].object = o)
      BY <1>1, <2>1 DEF Toggling
    <3> QED
      BY <1>2, <1>3, <1>4, <1>6, <2>1, <3>1, Elsewhere
  <2>2. CASE k \in Toggling(active, o)
    <3>1. ObjectIsRight(o)
      BY <1>6, CallIs
    <3>2. Toggling(active, o) = {k} /\ call[k].waiting
      BY <2>2, <3>1 DEF ObjectIsRight, ToggleIsRight
    <3>3. call[k].conn = active /\ call[k].object = o
      BY <2>2 DEF Toggling
    <3>4. Toggling(active, o)' = {k}
      BY <1>2, <1>4, <1>5, <3>2, <3>3 DEF Toggling
    <3>5. ToggleIsRight(k, o)'
      BY <1>2, <1>4, <1>5, <3>2, <3>3 DEF ToggleIsRight
    <3> QED
      BY <3>4, <3>5 DEF ObjectIsRight
  <2> QED
    BY <2>1, <2>2
<1> QED
  BY <1>2, <1>3, <1>4, <1>6, CallIs, OneCallInv

(* A toggle is over: the row of its object is there, or not.               *)
LEMMA EndedInv ==
  ASSUME FavoritesInv, NEW k \in Calls, NEW isFavorite \in BOOLEAN,
         call[k].what = "toggle",
         ~isFavorite => call[k].stage \in {"found", "gone"},
         rows' = IF isFavorite
                   THEN [rows EXCEPT ![call[k].conn] = @ \union {call[k].object}]
                 ELSE IF call[k].stage = "found"
                   THEN [rows EXCEPT ![call[k].conn] = @ \ {call[k].object}]
                 ELSE rows,
         call' = Ended(k, isFavorite), ForgetStar(call[k]),
         UNCHANGED <<listVars, favoriteKeys, disabled>>
  PROVE  FavoritesInv'
<1> DEFINE c == call[k].conn
           p == call[k].object
<1>1. c \in Connections /\ p \in Objects /\ CallType(call[k])
  BY CallIs DEF CallType
<1>2. /\ rows' \in [Connections -> SUBSET Objects]
      /\ \A d \in Connections : \A o \in Objects :
           ~(d = c /\ o = p) => (o \in rows'[d] <=> o \in rows[d])
      /\ isFavorite => p \in rows'[c]
      /\ ~isFavorite /\ call[k].stage = "found" => p \notin rows'[c]
  BY <1>1 DEF FavoritesInv, FavoritesTypes
<1>3. /\ active' = active /\ doubtful \subseteq doubtful' /\ doubtful' \subseteq Objects
      /\ ~call[k].waiting /\ c = active => p \in doubtful'
  BY <1>1, CallIs DEF ForgetStar, Doubt, listVars
<1>4. call'[k] = IF call[k].waiting
                   THEN [call[k] EXCEPT !.stage = "answered",
                           !.says = IF isFavorite THEN {p} ELSE {}]
                   ELSE NoCall
  BY DEF Ended
<1>5. ASSUME NEW j \in Calls \ {k}
      PROVE  \/ /\ call[j].what = "list" /\ call[j].stage = "answered"
                /\ call[j].conn = c
                /\ call'[j] = [call[j] EXCEPT !.missed = @ \union {p}]
             \/ /\ j \in Toggling(c, p)
                /\ call'[j] = [call[j] EXCEPT !.stage = "gone"]
             \/ /\ ~(call[j].what = "list" /\ call[j].stage = "answered"
                       /\ call[j].conn = c)
                /\ call'[j] = call[j]
  BY DEF Ended
<1>6. CallType(call'[k]) /\ ListIsRight(call[k])'
  <2>1. CASE call[k].waiting
    <3>1. PICK says \in SUBSET Objects :
            call'[k] = [call[k] EXCEPT !.stage = "answered", !.says = says]
      BY <1>1, <1>4, <2>1
    <3>2. CallType(call'[k])
      BY <1>1, <3>1 DEF CallType
    <3>3. call'[k].what = "toggle"
      BY <1>1, <3>1 DEF CallType
    <3> QED
      BY <3>2, <3>3 DEF ListIsRight
  <2>2. CASE ~call[k].waiting
    BY <1>4, <2>2, NoCallTypes DEF ListIsRight
  <2> QED
    BY <2>1, <2>2
<1>7. ASSUME NEW j \in Calls \ {k} PROVE CallType(call'[j]) /\ ListIsRight(call[j])'
  <2>1. CallType(call[j]) /\ ListIsRight(call[j])
    BY CallIs
  <2>2. CASE /\ call[j].what = "list" /\ call[j].stage = "answered"
             /\ call[j].conn = c
             /\ call'[j] = [call[j] EXCEPT !.missed = @ \union {p}]
    BY <1>1, <1>2, <2>1, <2>2 DEF CallType, ListIsRight
  <2>3. CASE /\ j \in Toggling(c, p)
             /\ call'[j] = [call[j] EXCEPT !.stage = "gone"]
    BY <2>1, <2>3 DEF CallType, ListIsRight, Toggling
  <2>4. CASE /\ ~(call[j].what = "list" /\ call[j].stage = "answered"
                    /\ call[j].conn = c)
             /\ call'[j] = call[j]
    <3>1. ListIsRight(call[j])'
      <4>1. CASE call[j].what = "list" /\ call[j].stage = "answered"
        BY <1>2, <2>1, <2>4, <4>1 DEF CallType, ListIsRight
      <4> QED
        BY <2>4, <4>1 DEF ListIsRight
    <3> QED
      BY <2>1, <2>4, <3>1
  <2> QED
    BY <1>5, <2>2, <2>3, <2>4
<1>8. FavoritesTypes'
  <2>1. CallTypes'
    BY <1>6, <1>7 DEF CallTypes, Ended
  <2>2. ListTypeOK'
    BY ListTypes DEF FavoritesInv, FavoritesTypes
  <2> QED
    BY <1>2, <1>3, <2>1, <2>2 DEF FavoritesInv, FavoritesTypes
<1>9. ASSUME active # None, NEW o \in Objects \ doubtful' PROVE ObjectIsRight(o)'
  <2>1. ObjectIsRight(o) /\ active \in Connections
    BY <1>3, <1>9, CallIs
  <2>2. CASE ~(c = active /\ o = p)
    <3>1. k \notin Toggling(active, o)
      BY <2>2 DEF Toggling
    <3>2. ~(call'[k].what = "toggle" /\ call'[k].conn = active /\ call'[k].object = o)
      BY <1>1, <1>4, <2>2, NoCallTypes DEF CallType
    <3>3. \A j \in Toggling(active, o) : call'[j] = call[j]
      BY <1>5, <2>2, <3>1 DEF Toggling
    <3>4. Toggling(active, o)' \subseteq Toggling(active, o)
      <4> SUFFICES ASSUME NEW j \in Calls \ {k},
                          call'[j].what = "toggle", call'[j].conn = active,
                          call'[j].object = o
                   PROVE  j \in Toggling(active, o)
        BY <1>3, <3>2 DEF Toggling
      <4>1. CallType(call[j])
        BY CallIs
      <4> QED
        BY <1>5, <4>1 DEF Toggling, CallType
    <3>5. Toggling(active, o)' = Toggling(active, o)
      BY <1>3, <3>3, <3>4 DEF Toggling
    <3>6. o \in rows'[active] <=> o \in rows[active]
      BY <1>2, <2>1, <2>2
    <3> QED
      BY <1>3, <2>1, <3>3, <3>5, <3>6, Undisturbed
  <2>3. CASE c = active /\ o = p
    <3>1. k \in Toggling(active, o) /\ call[k].waiting
      BY <1>3, <1>9, <2>3 DEF Toggling
    <3>2. Toggling(active, o) = {k} /\ call[k].stage # "gone"
      BY <2>1, <3>1 DEF ObjectIsRight, ToggleIsRight
    <3>3. /\ call'[k].what = "toggle" /\ call'[k].conn = c /\ call'[k].object = p
          /\ call'[k].waiting /\ call'[k].stage = "answered"
          /\ call'[k].says # {} <=> isFavorite
      BY <1>1, <1>4, <3>1 DEF CallType
    <3>4. \A j \in Calls \ {k} : ~(call'[j].what = "toggle" /\ call'[j].conn = c
                                     /\ call'[j].object = p)
      <4> SUFFICES ASSUME NEW j \in Calls \ {k}, call'[j].what = "toggle",
                          call'[j].conn = c, call'[j].object = p
                   PROVE  j \in Toggling(c, p)
        BY <2>3, <3>2
      <4>1. CallType(call[j])
        BY CallIs
      <4> QED
        BY <1>5, <4>1 DEF Toggling, CallType
    <3>5. Toggling(active, o)' = {k}
      BY <1>3, <2>3, <3>3, <3>4 DEF Toggling
    <3>6. isFavorite <=> o \in rows'[active]
      BY <1>2, <2>3, <3>2
    <3>7. ToggleIsRight(k, o)'
      BY <1>3, <3>3, <3>6 DEF ToggleIsRight
    <3> QED
      BY <3>5, <3>7 DEF ObjectIsRight
  <2> QED
    BY <2>2, <2>3
<1> QED
  BY <1>3, <1>6, <1>7, <1>8, <1>9 DEF FavoritesInv

LEMMA GetOrCreateInv ==
  ASSUME FavoritesInv, NEW k \in Calls, GetOrCreate(k)
  PROVE  FavoritesInv'
<1>1. CASE call[k].object \in rows[call[k].conn]
  BY <1>1, RowFoundInv
<1>2. CASE call[k].object \notin rows[call[k].conn]
  <2>1. /\ rows' = [rows EXCEPT ![call[k].conn] = @ \union {call[k].object}]
        /\ call' = Ended(k, TRUE) /\ ForgetStar(call[k])
        /\ call[k].what = "toggle"
        /\ UNCHANGED <<listVars, favoriteKeys, disabled>>
    BY <1>2 DEF GetOrCreate
  <2> QED
    BY <2>1, EndedInv
<1> QED
  BY <1>1, <1>2

LEMMA DeleteFavoriteInv ==
  ASSUME FavoritesInv, NEW k \in Calls, DeleteFavorite(k)
  PROVE  FavoritesInv'
<1>1. /\ call[k].stage \in {"found", "gone"} /\ call[k].what = "toggle"
      /\ rows' = IF call[k].stage = "found"
                   THEN [rows EXCEPT ![call[k].conn] = @ \ {call[k].object}]
                   ELSE rows
      /\ call' = Ended(k, FALSE) /\ ForgetStar(call[k])
      /\ UNCHANGED <<listVars, favoriteKeys, disabled>>
  BY DEF DeleteFavorite
<1> QED
  BY <1>1, EndedInv

-----------------------------------------------------------------------------
(* A step that leaves the requests and the rows.                           *)
LEMMA StillInv ==
  ASSUME FavoritesInv, ListTypeOK',
         UNCHANGED <<rows, favoriteKeys, call>>,
         disabled' \subseteq disabled,
         doubtful' = IF active' = active THEN doubtful ELSE Objects
  PROVE  FavoritesInv'
<1>1. FavoritesTypes'
  BY DEF FavoritesInv, FavoritesTypes, CallTypes
<1>2. ASSUME active' # None, NEW o \in Objects \ doubtful' PROVE ObjectIsRight(o)'
  <2>1. active' = active /\ o \notin doubtful /\ ObjectIsRight(o)
    BY <1>2 DEF FavoritesInv
  <2>2. Toggling(active, o)' = Toggling(active, o)
    BY <2>1 DEF Toggling
  <2> QED
    BY <2>1, <2>2, Undisturbed
<1>3. \A k \in Calls : ListIsRight(call[k])'
  BY DEF FavoritesInv, ListIsRight
<1> QED
  BY <1>1, <1>2, <1>3 DEF FavoritesInv

LEMMA FavoritesSteps ==
  FavoritesInv /\ [FavoritesNext]_<<listVars, favoritesVars>> => FavoritesInv'
<1> SUFFICES ASSUME FavoritesInv, [FavoritesNext]_<<listVars, favoritesVars>>
             PROVE  FavoritesInv'
  OBVIOUS
<1>0. ListTypeOK
  BY DEF FavoritesInv, FavoritesTypes
<1>1. CASE FavoritesRegistry
  <2>1. ListTypeOK'
    BY <1>0, <1>1, ListTypes DEF FavoritesRegistry
  <2> QED
    BY <1>1, <2>1, StillInv DEF FavoritesRegistry
<1>2. CASE TableRendered
  <2>1. ListTypeOK' /\ active' = active
    BY <1>0, <1>2, ListTypes DEF TableRendered, listVars
  <2> QED
    BY <1>2, <2>1, StillInv DEF TableRendered
<1>3. CASE UNCHANGED <<listVars, favoritesVars>>
  <2>1. ListTypeOK' /\ active' = active
    BY <1>0, <1>3, ListTypes DEF listVars
  <2> QED
    BY <1>3, <2>1, StillInv DEF favoritesVars
<1>4. ASSUME NEW k \in Calls,
             \/ LoadFavorites(k) \/ FavoritesLoaded(k) \/ FavoritesFail(k)
             \/ \E o \in Objects : ClickStar(k, o)
             \/ StarAnswered(k) \/ StarFails(k)
             \/ ServeList(k) \/ GetOrCreate(k) \/ DeleteFavorite(k)
      PROVE  FavoritesInv'
  BY <1>4, LoadFavoritesInv, FavoritesLoadedInv, FavoritesFailInv, ClickStarInv,
     StarAnsweredInv, StarFailsInv, ServeListInv, GetOrCreateInv, DeleteFavoriteInv
<1> QED
  BY <1>1, <1>2, <1>3, <1>4 DEF FavoritesNext

LEMMA FavoritesInvAlways == FavoritesSpec => []FavoritesInv
BY FavoritesStart, FavoritesSteps, PTL DEF FavoritesSpec

(* A star that nothing makes doubtful says what is in the table, in spite  *)
(* of late lists, answers about other connections and requests given up.   *)
THEOREM StarsAreRight == FavoritesSpec => []StarIsRight
<1>1. FavoritesInv => StarIsRight
  BY DEF FavoritesInv, StarIsRight, ObjectIsRight
<1> QED
  BY <1>1, FavoritesInvAlways, PTL
=============================================================================
