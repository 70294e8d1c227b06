--------------------------- MODULE Distribution ---------------------------
(***************************************************************************)
(* The page of the distribution of a table's rows over the segments        *)
(* (static/js/home.js): a list of tables to pick from, and the figures of  *)
(* the table picked.                                                       *)
(*                                                                         *)
(* Each of the two has request numbers of its own.  A list that arrives    *)
(* asks for the figures of a table; nothing about the list puts an end to  *)
(* figures under way.  The figures are asked of the connection selected at *)
(* that time, the list may be of another one.                              *)
(***************************************************************************)
EXTENDS ConnectionList

CONSTANTS
  Names,          \* names of tables
  Other,          \* any other text in the field of the picker
  ListRequests,   \* bound: lists of tables under way at once
  FigureRequests  \* bound: figures under way at once

VARIABLES
  distributionOpen,     \* the page is the open one
  tables,               \* distributionTables
  selected,             \* selectedDistributionTable
  field,                \* the text in the field of the picker
  listRequest,          \* listRequest[r]: the connection of list r
  latestList,           \* the list numbered distributionTablesRequestId
  figureRequest,        \* figureRequest[r]: the question of figures r
  latestFigures,        \* the figures numbered distributionRequestId
  figures               \* what the page shows

pickerVars == <<tables, selected, field>>
listingVars == <<listRequest, latestList>>
figureVars == <<figureRequest, latestFigures, figures>>
distributionVars == <<distributionOpen, pickerVars, listingVars, figureVars>>

Figure == [conn : Connections, table : Names]

ASSUME DistributionAssumption ==
  None \notin ListRequests \union FigureRequests \union Names \union Figure
NoFigures(kind) == [kind |-> kind, of |-> None]

DistributionTypeOK ==
  /\ distributionOpen \in BOOLEAN
  /\ tables \subseteq Names
  /\ selected \in tables \union {None}
  /\ field \in Names \union {Other, None}
  /\ listRequest \in [ListRequests -> Connections \union {None}]
  /\ latestList \in {r \in ListRequests : listRequest[r] # None} \union {None}
  /\ figureRequest \in [FigureRequests -> Figure \union {None}]
  /\ latestFigures \in {r \in FigureRequests : figureRequest[r] # None} \union {None}
  /\ \/ figures \in {NoFigures("loading"), NoFigures("warning"), NoFigures("none")}
     \/ figures \in [kind : {"rows"}, of : Figure]

DistributionInit ==
  /\ distributionOpen = FALSE
  /\ tables = {} /\ selected = None /\ field = None
  /\ listRequest = [r \in ListRequests |-> None] /\ latestList = None
  /\ figureRequest = [r \in FigureRequests |-> None] /\ latestFigures = None
  /\ figures = NoFigures("warning")

-----------------------------------------------------------------------------
Warning == figures' = NoFigures("warning")

(* Mutant of AskFigures: the former figures stay on the page.              *)
AskFiguresMutant(table) ==
  \E r \in {q \in FigureRequests : figureRequest[q] = None} :
    /\ figureRequest' = [figureRequest EXCEPT ![r] = [conn |-> active, table |-> table]]
    /\ latestFigures' = r
    /\ UNCHANGED figures

AskFigures(table) ==
  \E r \in {q \in FigureRequests : figureRequest[q] = None} :
    /\ figureRequest' = [figureRequest EXCEPT ![r] = [conn |-> active, table |-> table]]
    /\ latestFigures' = r
    /\ figures' = NoFigures("loading")

(* The table named in the field of the picker, or the one picked.          *)
ToShow == IF field' \in tables' THEN field' ELSE selected'

(* Every call takes a number, also one that cannot ask.                    *)
RefreshFigures ==
  IF ToShow = None \/ active = None
    THEN latestFigures' = None /\ Warning /\ UNCHANGED figureRequest
    ELSE AskFigures(ToShow)

(* The list of the connection is asked for, with an empty picker; without  *)
(* a connection there are no tables, but figures under way still count.    *)
RefreshTables(c) ==
  IF c = None
    THEN /\ latestList' = None
         /\ tables' = {} /\ selected' = None /\ field' = None
         /\ Warning
         /\ UNCHANGED <<listRequest, figureRequest, latestFigures>>
    ELSE /\ \E r \in {q \in ListRequests : listRequest[q] = None} :
              /\ listRequest' = [listRequest EXCEPT ![r] = c]
              /\ latestList' = r
         /\ field' = None
         /\ UNCHANGED <<tables, selected, figureVars>>

SettleList(r) ==
  /\ listRequest[r] # None
  /\ listRequest' = [listRequest EXCEPT ![r] = None]
  /\ latestList' = IF latestList = r THEN None ELSE latestList
  /\ UNCHANGED <<listVars, distributionOpen>>

Emptied ==
  /\ tables' = {} /\ selected' = None /\ field' = None
  /\ Warning
  /\ UNCHANGED <<figureRequest, latestFigures>>

(* The table picked before stays if the new list has it, else the first of *)
(* the list is picked; its figures are asked for.                          *)
TablesListed(r) ==
  /\ SettleList(r)
  /\ IF r = latestList
       THEN \/ Emptied
            \/ \E listed \in SUBSET Names \ {{}}, first \in Names :
                 LET previous == IF selected # None THEN selected ELSE field
                 IN  /\ first \in listed
                     /\ tables' = listed
                     /\ selected' = IF previous \in listed THEN previous ELSE first
                     /\ field' = selected'
                     /\ RefreshFigures
       ELSE UNCHANGED <<pickerVars, figureVars>>

TablesFail(r) ==
  /\ SettleList(r)
  /\ IF r = latestList THEN Emptied ELSE UNCHANGED <<pickerVars, figureVars>>

-----------------------------------------------------------------------------
(* Typing picks nothing yet.                                               *)
TypeTable(text) ==
  /\ distributionOpen
  /\ field' = text
  /\ selected' = None
  /\ UNCHANGED <<listVars, distributionOpen, tables, listingVars, figureVars>>

(* A click on an option, or Enter on a name that the list has.             *)
SelectTable(table) ==
  /\ distributionOpen /\ table \in tables
  /\ selected' = table
  /\ field' = table
  /\ UNCHANGED tables
  /\ RefreshFigures
  /\ UNCHANGED <<listVars, distributionOpen, listingVars>>

(* The refresh button; Enter on anything else.                             *)
RefreshDistribution ==
  /\ distributionOpen
  /\ UNCHANGED pickerVars
  /\ RefreshFigures
  /\ UNCHANGED <<listVars, distributionOpen, listingVars>>

(* Sorting writes the rows again, and "no data" over any message.          *)
SortDistribution ==
  /\ distributionOpen
  /\ figures' = IF figures.kind = "rows" THEN figures ELSE NoFigures("none")
  /\ UNCHANGED <<listVars, distributionOpen, pickerVars, listingVars,
                 figureRequest, latestFigures>>

SettleFigures(r) ==
  /\ figureRequest[r] # None
  /\ figureRequest' = [figureRequest EXCEPT ![r] = None]
  /\ latestFigures' = IF latestFigures = r THEN None ELSE latestFigures
  /\ UNCHANGED <<listVars, distributionOpen, pickerVars, listingVars>>

(* Mutant of FiguresArrive: all figures are shown.                         *)
FiguresArriveMutant(r) ==
  /\ SettleFigures(r)
  /\ figures' = [kind |-> "rows", of |-> figureRequest[r]]

FiguresArrive(r) ==
  /\ SettleFigures(r)
  /\ figures' = IF r = latestFigures
                  THEN [kind |-> "rows", of |-> figureRequest[r]]
                  ELSE figures

FiguresFail(r) ==
  /\ SettleFigures(r)
  /\ IF r = latestFigures THEN Warning ELSE UNCHANGED figures

-----------------------------------------------------------------------------
OpenDistribution ==
  /\ active # None
  /\ distributionOpen' = TRUE
  /\ RefreshTables(active)
  /\ UNCHANGED listVars

LeaveDistribution ==
  /\ distributionOpen
  /\ distributionOpen' = FALSE
  /\ UNCHANGED <<listVars, pickerVars, listingVars, figureVars>>

(* refreshAll, when the tab is shown again.                                *)
ShowDistribution ==
  /\ distributionOpen
  /\ RefreshTables(active)
  /\ UNCHANGED <<listVars, distributionOpen>>

(* Another connection comes with its first page, which may be this one: it *)
(* is then asked for twice, the second time by refreshAll.                 *)
DistributionRegistry ==
  \/ /\ \E c \in Connections : Select(c) \/ Save(c)
     /\ \/ /\ distributionOpen' = FALSE
           /\ UNCHANGED <<pickerVars, listingVars, figureVars>>
        \/ /\ distributionOpen' = TRUE
           /\ \E q, r \in {r \in ListRequests : listRequest[r] = None} :
                /\ q # r
                /\ listRequest' = [listRequest EXCEPT ![q] = active', ![r] = active']
                /\ latestList' = r
           /\ field' = None
           /\ UNCHANGED <<tables, selected, figureVars>>
  \/ Delete /\ UNCHANGED distributionVars

DistributionNext ==
  \/ OpenDistribution \/ LeaveDistribution \/ ShowDistribution
  \/ DistributionRegistry \/ RefreshDistribution \/ SortDistribution
  \/ \E text \in Names \union {Other, None} : TypeTable(text)
  \/ \E table \in Names : SelectTable(table)
  \/ \E r \in ListRequests : TablesListed(r) \/ TablesFail(r)
  \/ \E r \in FigureRequests : FiguresArrive(r) \/ FiguresFail(r)

DistributionSpec ==
  ListInit /\ DistributionInit
    /\ [][DistributionNext]_<<listVars, distributionVars>>

-----------------------------------------------------------------------------
(* Once a list of tables has arrived, the figures on the open page are of  *)
(* the table picked from it, and of the selected connection or one that    *)
(* has been taken off the list, whatever lists and figures were under way  *)
(* (refreshDistributionForSelectedTable, renderDistributionTableOptions).  *)
(* Without a list, or when it was empty, late figures of another           *)
(* connection may appear.                                                  *)
FiguresAreOfSelected ==
  distributionOpen /\ latestList = None /\ selected # None /\ active # None
    => (figures.kind = "rows"
          => /\ figures.of.table = selected
             /\ figures.of.conn \in {active} \union removed)

(* The figures implement LatestAnswer; in particular figures asked for     *)
(* first never take the place of figures asked for later.                  *)
FiguresPromise ==
  INSTANCE LatestAnswer
    WITH Questions <- Figure,
         wanted <- IF latestFigures = None THEN None
                   ELSE figureRequest[latestFigures],
         answered <- figures.of

FiguresImplementLatestAnswer == FiguresPromise!LSpec
=============================================================================
