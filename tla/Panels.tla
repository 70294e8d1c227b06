------------------------------- MODULE Panels -------------------------------
(***************************************************************************)
(* The three pages that show one answer as a whole (static/js/home.js):    *)
(* the overview of a database, its memory and its segments.                *)
(*                                                                         *)
(* Requests are numbered as those of the tables are.  The segments differ: *)
(* the former ones stay on the page, under a badge that says "updating",   *)
(* until the answer comes; a page that cannot ask takes no new number; and *)
(* they are asked for at changes of the list of connections even when      *)
(* another page is open.  They exist for Greenplum alone.                  *)
(***************************************************************************)
EXTENDS ConnectionList, Naturals, FiniteSets

CONSTANTS
  PanelRequests  \* bound: requests under way at once

ASSUME PanelAssumption == None \notin PanelRequests

VARIABLES
  greenplum,     \* the connections that isGreenplumCompatibleConnection
  panel,         \* which of the pages the behaviour is about
  panelOpen,     \* it is the open one
  panelRequest,  \* panelRequest[r]: the connection of request r
  latestPanel,   \* the request numbered ...RequestId, until it is answered
  shown,         \* what the page shows
  updating       \* the badge of the segments says "updating"

panelVars == <<greenplum, panel, panelOpen, panelRequest, latestPanel, shown, updating>>

(* The pages.                                                              *)
DatabaseOverview == "overview"
MemoryOverview == "memory"
Segments == "segments"
PanelPages == {DatabaseOverview, MemoryOverview, Segments}

Nothing(kind) == [kind |-> kind, of |-> None]

PanelsTypeOK ==
  /\ greenplum \subseteq Connections
  /\ panel \in PanelPages
  /\ panelOpen \in BOOLEAN
  /\ panelRequest \in [PanelRequests -> Connections \union {None}]
  /\ latestPanel \in {r \in PanelRequests : panelRequest[r] # None} \union {None}
  /\ \/ shown \in {Nothing("loading"), Nothing("warning")}
     \/ shown \in [kind : {"data"}, of : Connections]
  /\ updating \in BOOLEAN

PanelsInit ==
  /\ greenplum \in SUBSET Connections
  /\ panel \in PanelPages
  /\ panelOpen = FALSE
  /\ panelRequest = [r \in PanelRequests |-> None]
  /\ latestPanel = None
  /\ shown = Nothing("warning")
  /\ updating = FALSE

-----------------------------------------------------------------------------
(* A handler asks n times in a row; the last number counts.                *)
AskPanel(c, n) ==
  /\ \E sent \in SUBSET {r \in PanelRequests : panelRequest[r] = None} :
       /\ Cardinality(sent) = n
       /\ latestPanel' \in sent
       /\ panelRequest' =
            [r \in PanelRequests |-> IF r \in sent THEN c ELSE panelRequest[r]]
  /\ updating' = (panel = Segments)
  /\ shown' = IF panel = Segments THEN shown ELSE Nothing("loading")

(* No connection is selected: the number of the segments stays.            *)
WarnPanel ==
  /\ latestPanel' = IF panel = Segments THEN latestPanel ELSE None
  /\ shown' = Nothing("warning")
  /\ updating' = FALSE
  /\ UNCHANGED panelRequest

RefreshPanel(c) == IF c = None THEN WarnPanel ELSE AskPanel(c, 1)

-----------------------------------------------------------------------------
OpenPanel ==
  /\ active # None
  /\ panel = Segments => active \in greenplum
  /\ panelOpen' = TRUE
  /\ AskPanel(active, 1)
  /\ UNCHANGED <<listVars, greenplum, panel>>

LeavePanel ==
  /\ panelOpen
  /\ panelOpen' = FALSE
  /\ UNCHANGED <<listVars, greenplum, panel, panelRequest, latestPanel, shown, updating>>

(* refreshAll, when the tab is shown again; a button; the interval.        *)
RefreshShownPanel ==
  /\ panelOpen
  /\ RefreshPanel(active)
  /\ UNCHANGED <<listVars, greenplum, panel, panelOpen>>

(* A connection is selected by the user, or has been saved: its first page *)
(* is opened and refreshed by activatePage and by refreshAll; in between   *)
(* segments are asked for whichever page it is.                            *)
PanelOfSelected ==
  \E c \in Connections :
    LET apart == IF panel = Segments /\ c \in greenplum THEN 1 ELSE 0
    IN  /\ Select(c) \/ Save(c)
        /\ \/ /\ panel = Segments => c \in greenplum
              /\ panelOpen' = TRUE
              /\ AskPanel(c, apart + 2)
           \/ /\ panelOpen' = FALSE
              /\ IF apart = 1 THEN AskPanel(c, 1)
                 ELSE UNCHANGED <<panelRequest, latestPanel, shown, updating>>
        /\ UNCHANGED <<greenplum, panel>>

(* After a deletion the segments of the connection selected then are asked *)
(* for, whatever its kind; the page stays, also one that its sidebar lacks. *)
PanelOfDeleted ==
  /\ Delete
  /\ IF panel = Segments THEN RefreshPanel(active')
     ELSE UNCHANGED <<panelRequest, latestPanel, shown, updating>>
  /\ UNCHANGED <<greenplum, panel, panelOpen>>

-----------------------------------------------------------------------------
SettlePanel(r) ==
  /\ panelRequest[r] # None
  /\ panelRequest' = [panelRequest EXCEPT ![r] = None]
  /\ latestPanel' = IF latestPanel = r THEN None ELSE latestPanel
  /\ UNCHANGED <<listVars, greenplum, panel, panelOpen>>

(* Mutant of PanelArrives: every answer is shown.                          *)
PanelArrivesMutant(r) ==
  /\ SettlePanel(r)
  /\ shown' = [kind |-> "data", of |-> panelRequest[r]]
  /\ updating' = FALSE

PanelArrives(r) ==
  /\ SettlePanel(r)
  /\ IF r = latestPanel
       THEN shown' = [kind |-> "data", of |-> panelRequest[r]] /\ updating' = FALSE
       ELSE UNCHANGED <<shown, updating>>

(* Mutant of PanelFails: the badge stays.                                  *)
PanelFailsMutant(r) ==
  /\ SettlePanel(r)
  /\ shown' = IF r = latestPanel THEN Nothing("warning") ELSE shown
  /\ UNCHANGED updating

PanelFails(r) ==
  /\ SettlePanel(r)
  /\ IF r = latestPanel
       THEN shown' = Nothing("warning") /\ updating' = FALSE
       ELSE UNCHANGED <<shown, updating>>

PanelsNext ==
  \/ OpenPanel \/ LeavePanel \/ RefreshShownPanel
  \/ PanelOfSelected \/ PanelOfDeleted
  \/ \E r \in PanelRequests : PanelArrives(r) \/ PanelFails(r)

PanelsSpec ==
  ListInit /\ PanelsInit /\ [][PanelsNext]_<<listVars, panelVars>>

-----------------------------------------------------------------------------
(* What the open page shows is of the selected connection, or of one that  *)
(* has been taken off the list; former segments are on the page only while *)
(* their badge says so (refreshSegmentsForConnection, onConnectionChange,  *)
(* finishDelete).                                                          *)
PanelIsOfSelected ==
  panelOpen /\ shown.kind = "data" /\ active # None
    => updating \/ shown.of \in {active} \union removed

(* "Loading" and "updating" are on the page only while the answer that     *)
(* ends them is under way, also when a warning came in between and the     *)
(* segments took no number (refreshSegmentsForConnection).                 *)
UpdateIsAwaited == shown.kind = "loading" \/ updating => latestPanel # None
=============================================================================
