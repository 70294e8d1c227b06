---------------------------- MODULE PagedTable ----------------------------
(***************************************************************************)
(* A table of which the server returns one page (static/js/home.js): the   *)
(* eight instances of the class PagedTable and the two tables, maintenance *)
(* statistics and audit, that have code of their own.                      *)
(*                                                                         *)
(* The tab keeps what is to be shown (page, size, search, filters, order)  *)
(* and asks for it anew after every change.  Requests are numbered; the    *)
(* answer to the latest one is shown.  Changes overlap with answers under  *)
(* way, with the timer of the search field, with favourites that change,   *)
(* with a temporary table being dropped, and with the list of connections. *)
(*                                                                         *)
(* A number is an element of Requests that is free again once its request  *)
(* has been answered.  `order' stands for sorting and for the filters that *)
(* are not about favourites; of the rows of an answer only their number is *)
(* kept.  Which page the user sees is known up to this table's: `open'.    *)
(***************************************************************************)
EXTENDS ConnectionList, Naturals

CONSTANTS
  Texts,     \* what can be typed into the search field
  Orders,    \* sort columns, directions and other filters
  Sizes,     \* numbers of rows per page the tab or the server may choose
  MaxRows,   \* bound: rows that match a query
  Requests   \* bound: requests under way at once

ASSUME TableAssumption ==
  /\ None \notin Requests
  /\ Sizes \subseteq Nat \ {0} /\ Sizes # {}
  /\ MaxRows \in Nat

VARIABLES
  which,     \* which table the behaviour is about
  open,      \* its page is the open one
  state,     \* config.state: what is to be shown, and the total count
  input,     \* the text in the search field
  timer,     \* searchTimer runs
  request,   \* request[r]: the question of request r
  latest,    \* the request numbered requestId, until it is answered
  view,      \* what the table shows
  dropping   \* the connection on which a temporary table is being dropped

tableVars == <<which, open, state, input, timer, request, latest, view, dropping>>
vars == <<listVars, tableVars>>

(* The tables.  `code' is whose methods run; `favorites' says whether the  *)
(* table can be filtered by favourites, or also opened from their page;    *)
(* `counts' whether the server counts the rows apart from the page it      *)
(* returns, or takes their number from its rows.                           *)
Pager(favorites, counts) ==
  [code |-> "pager", favorites |-> favorites, counts |-> counts]

TempTables == Pager("none", TRUE)
ToastTables == Pager("filter", FALSE)
SchemaSizes == Pager("target", TRUE)
TableSizes == Pager("target", TRUE)
Views == Pager("target", FALSE)
DBFunctions == Pager("target", FALSE)
Users == Pager("target", FALSE)
Groups == Pager("target", FALSE)
Maintenance == [code |-> "maintenance", favorites |-> "none", counts |-> FALSE]
Audit == [code |-> "audit", favorites |-> "none", counts |-> TRUE]

Tables ==
  {TempTables, ToastTables, SchemaSizes, TableSizes, Views, DBFunctions, Users,
   Groups, Maintenance, Audit}

(* A question as buildParams sends it; the audit is of no connection.      *)
Question ==
  [conn : Connections \union {None}, page : Nat \ {0}, size : Sizes,
   search : Texts, only : BOOLEAN, order : Orders]

(* A question without the size of the pages.                               *)
Asked(question) ==
  [conn |-> question.conn, page |-> question.page,
   search |-> question.search, only |-> question.only, order |-> question.order]

AskedQuestions ==
  [conn : Connections \union {None}, page : Nat \ {0},
   search : Texts, only : BOOLEAN, order : Orders]

ASSUME NoneAssumption == None \notin Question /\ None \notin AskedQuestions

Message(kind) == [kind |-> kind, of |-> None, matching |-> 0]

TypeOK ==
  /\ ListTypeOK
  /\ which \in Tables
  /\ open \in BOOLEAN
  /\ state \in [page : Nat \ {0}, size : Sizes, total : 0..MaxRows,
                search : Texts, only : BOOLEAN, order : Orders]
  /\ input \in Texts
  /\ timer \in BOOLEAN
  /\ request \in [Requests -> Question \union {None}]
  /\ latest \in {r \in Requests : request[r] # None} \union {None}
  /\ \/ view \in {Message("loading"), Message("warning"), Message("error")}
     \/ view \in [kind : {"rows"}, of : Question, matching : 0..MaxRows]
  /\ dropping \in Connections \union {None}

(* The tab has been loaded; the size of a page is the one stored for it.   *)
Init ==
  /\ ListInit
  /\ which \in Tables
  /\ open = FALSE
  /\ \E size \in Sizes, text \in Texts, order \in Orders :
       /\ state = [page |-> 1, size |-> size, total |-> 0,
                   search |-> text, only |-> FALSE, order |-> order]
       /\ input = text
  /\ timer = FALSE
  /\ request = [r \in Requests |-> None]
  /\ latest = None
  /\ view = Message("warning")
  /\ dropping = None

-----------------------------------------------------------------------------
Pages(total, size) == IF total = 0 THEN 1 ELSE (total + size - 1) \div size

(* Mutant of ShownPage: no table may be past its last page.                *)
ShownPageMutant ==
  IF state.page <= Pages(state.total, state.size)
    THEN state.page
    ELSE Pages(state.total, state.size)

(* The page that the buttons and the caption go by; the audit stays within *)
(* what it knows to be there.                                              *)
ShownPage ==
  IF which = Audit /\ state.page > Pages(state.total, state.size)
    THEN Pages(state.total, state.size)
    ELSE state.page

PrevEnabled == ShownPage > 1
NextEnabled == ShownPage < Pages(state.total, state.size)

Free == {r \in Requests : request[r] = None}

ToAsk(c, s) ==
  [conn |-> IF which = Audit THEN None ELSE c, page |-> s.page,
   size |-> s.size, search |-> s.search, only |-> s.only, order |-> s.order]

Send(r, question) ==
  /\ request' = [request EXCEPT ![r] = question]
  /\ latest' = r

(* Only the pager goes by the old total while it waits.                    *)
Waiting(s) == IF which.code = "pager" THEN s ELSE [s EXCEPT !.total = 0]

Ask(c, s) ==
  /\ state' = Waiting(s)
  /\ \E r \in Free : Send(r, ToAsk(c, s))
  /\ view' = Message("loading")

(* No connection is selected.  Maintenance takes no new number: an answer  *)
(* under way takes the place of the warning.                               *)
Warn(s) ==
  /\ state' = [s EXCEPT !.total = 0]
  /\ latest' = IF which = Maintenance THEN latest ELSE None
  /\ view' = Message("warning")
  /\ UNCHANGED request

(* The handlers of the controls change the state to s and refresh.         *)
Refresh(c, s) == IF c = None /\ which # Audit THEN Warn(s) ELSE Ask(c, s)

(* Maintenance begins with the first page again.                           *)
Entered == IF which = Maintenance THEN [state EXCEPT !.page = 1] ELSE state

(* The page of a connection is opened by activatePage and then refreshed   *)
(* by refreshAll, which omits the audit; or another page is the first one. *)
AskTwice(c, s) ==
  /\ state' = Waiting(s)
  /\ \E q, r \in Free :
       /\ q # r
       /\ request' = [request EXCEPT ![q] = ToAsk(c, s), ![r] = ToAsk(c, s)]
       /\ latest' = r
  /\ view' = Message("loading")

FirstPage(c) ==
  \/ /\ open' = FALSE
     /\ UNCHANGED <<state, request, latest, view>>
  \/ /\ open' = TRUE
     /\ IF which = Audit THEN Ask(c, state) ELSE AskTwice(c, Entered)

-----------------------------------------------------------------------------
ChangeConnection(c) ==
  /\ Select(c)
  /\ FirstPage(c)
  /\ UNCHANGED <<which, input, timer, dropping>>

Saved(c) ==
  /\ Save(c)
  /\ FirstPage(c)
  /\ UNCHANGED <<which, input, timer, dropping>>

(* Nothing but the segments is refreshed.                                  *)
Deleted == Delete /\ UNCHANGED tableVars

(* Only the audit is open to a tab without a connection.                   *)
OpenPage ==
  /\ active # None \/ which = Audit
  /\ open' = TRUE
  /\ Refresh(active, Entered)
  /\ UNCHANGED <<listVars, which, input, timer, dropping>>

LeavePage ==
  /\ open
  /\ open' = FALSE
  /\ UNCHANGED <<listVars, which, state, input, timer, request, latest, view,
                 dropping>>

(* refreshAll when the tab is shown again; the button of the audit.        *)
RefreshShown ==
  /\ open
  /\ Refresh(active, state)
  /\ UNCHANGED <<listVars, which, open, input, timer, dropping>>

(* A maintenance operation has been started, has ended, or has been given  *)
(* up: the statistics are read again, whichever page is open.              *)
OperationReported ==
  /\ which = Maintenance
  /\ Refresh(active, state)
  /\ UNCHANGED <<listVars, which, open, input, timer, dropping>>

(* Every key sets the timer anew.                                          *)
TypeSearch(text) ==
  /\ open /\ which # Audit
  /\ input' = text
  /\ timer' = TRUE
  /\ UNCHANGED <<listVars, which, open, state, request, latest, view, dropping>>

(* The timer does not ask which page is open.                              *)
SearchFires ==
  /\ timer
  /\ timer' = FALSE
  /\ Refresh(active, [state EXCEPT !.search = input, !.page = 1])
  /\ UNCHANGED <<listVars, which, open, input, dropping>>

(* Mutant of Change: the page is asked for only when nothing is under way. *)
ChangeMutant(s) ==
  /\ open
  /\ IF latest = None
       THEN Refresh(active, s)
       ELSE state' = s /\ UNCHANGED <<request, latest, view>>
  /\ UNCHANGED <<listVars, which, open, input, timer, dropping>>

(* A control of the open page.                                             *)
Change(s) ==
  /\ open
  /\ Refresh(active, s)
  /\ UNCHANGED <<listVars, which, open, input, timer, dropping>>

ChangeOrder(order) == Change([state EXCEPT !.order = order, !.page = 1])

ChangeFavoritesOnly(only) ==
  /\ which.favorites # "none"
  /\ Change([state EXCEPT !.only = only, !.page = 1])

ChangeSize(size) == Change([state EXCEPT !.size = size, !.page = 1])

PrevPage ==
  /\ PrevEnabled /\ state.page > 1
  /\ Change([state EXCEPT !.page = @ - 1])

NextPage ==
  /\ NextEnabled /\ state.page < Pages(state.total, state.size)
  /\ Change([state EXCEPT !.page = @ + 1])

(* A star has been clicked on the page, or the answer comes when the page  *)
(* is open: a table of favourites only is asked for anew.                  *)
FavoriteToggled ==
  /\ which.favorites # "none" /\ active # None
  /\ state.only
  /\ Change(state)

(* A row of the page of favourites opens the page of its kind, if the      *)
(* sidebar has it, with the object as what is searched for.                *)
OpenFavoriteObject(text) ==
  LET s == [state EXCEPT !.search = text, !.only = TRUE, !.page = 1]
  IN  /\ which.favorites = "target" /\ ~open
      /\ input' = text
      /\ \/ /\ active # None
            /\ open' = TRUE
            /\ Refresh(active, s)
         \/ /\ state' = s
            /\ UNCHANGED <<open, request, latest, view>>
      /\ UNCHANGED <<listVars, which, timer, dropping>>

-----------------------------------------------------------------------------
(* The request to drop a temporary table names the connection selected at  *)
(* the click; then the table is read again from that connection.           *)
DropTempTable ==
  /\ which = TempTables /\ open /\ view.kind = "rows" /\ view.matching > 0
  /\ active # None /\ dropping = None
  /\ dropping' = active
  /\ UNCHANGED <<listVars, which, open, state, input, timer, request, latest,
                 view>>

TempTableDropped ==
  /\ dropping # None
  /\ Refresh(dropping, state)
  /\ dropping' = None
  /\ UNCHANGED <<listVars, which, open, input, timer>>

DropFails ==
  /\ dropping # None
  /\ dropping' = None
  /\ UNCHANGED <<listVars, which, open, state, input, timer, request, latest,
                 view>>

-----------------------------------------------------------------------------
(* Mutant of Settle: the number stays the latest one.                      *)
SettleMutant(r) ==
  /\ request' = [request EXCEPT ![r] = None]
  /\ latest' = latest

Settle(r) ==
  /\ request' = [request EXCEPT ![r] = None]
  /\ latest' = IF latest = r THEN None ELSE latest

(* The server's answer: n rows match; the size of its pages is the one     *)
(* asked for, if that is still offered.                                    *)
Render(question, n, size) ==
  LET past == (question.page - 1) * size >= n
  IN  /\ state' = [state EXCEPT
                     !.page = question.page, !.size = size,
                     !.total = IF which.counts \/ ~past THEN n ELSE 0]
      /\ view' = [kind |-> "rows", of |-> [question EXCEPT !.size = size],
                  matching |-> n]

(* Mutant of Answered: every answer is shown.                              *)
AnsweredMutant(r) ==
  /\ request[r] # None
  /\ Settle(r)
  /\ \E n \in 0..MaxRows, size \in Sizes : Render(request[r], n, size)
  /\ UNCHANGED <<listVars, which, open, input, timer, dropping>>

Answered(r) ==
  /\ request[r] # None
  /\ Settle(r)
  /\ IF r = latest
       THEN \E n \in 0..MaxRows, size \in Sizes : Render(request[r], n, size)
       ELSE UNCHANGED <<state, view>>
  /\ UNCHANGED <<listVars, which, open, input, timer, dropping>>

(* Mutant of ShowError: the page and the totals stay.                      *)
ShowErrorMutant ==
  /\ view' = Message("error")
  /\ UNCHANGED state

(* The pager forgets the page and the total, the others the total.         *)
ShowError ==
  /\ view' = Message("error")
  /\ state' = IF which.code = "pager"
                THEN [state EXCEPT !.page = 1, !.total = 0]
                ELSE [state EXCEPT !.total = 0]

(* Mutant of Fails: the failure is dropped.                                *)
FailsMutant(r) ==
  /\ request[r] # None
  /\ Settle(r)
  /\ UNCHANGED <<listVars, which, open, state, input, timer, view, dropping>>

Fails(r) ==
  /\ request[r] # None
  /\ Settle(r)
  /\ IF r = latest THEN ShowError ELSE UNCHANGED <<state, view>>
  /\ UNCHANGED <<listVars, which, open, input, timer, dropping>>

-----------------------------------------------------------------------------
Registry ==
  \/ \E c \in Connections : ChangeConnection(c) \/ Saved(c)
  \/ Deleted

Controls ==
  \/ OpenPage \/ LeavePage \/ RefreshShown \/ OperationReported
  \/ PrevPage \/ NextPage
  \/ \E text \in Texts : TypeSearch(text)
  \/ \E order \in Orders : ChangeOrder(order)
  \/ \E only \in BOOLEAN : ChangeFavoritesOnly(only)
  \/ \E size \in Sizes : ChangeSize(size)

FavoriteChanges ==
  \/ FavoriteToggled
  \/ \E text \in Texts : OpenFavoriteObject(text)

Drops == DropTempTable \/ TempTableDropped \/ DropFails

Answers ==
  \/ SearchFires
  \/ \E r \in Requests : Answered(r) \/ Fails(r)

Next == Registry \/ Controls \/ FavoriteChanges \/ Drops \/ Answers

Spec == Init /\ [][Next]_vars

-----------------------------------------------------------------------------
(* The rows on the open page are the answer to what its controls say, from *)
(* the connection that is selected or from one that has been taken off the *)
(* list since, however changes and answers overlapped (PagedTable.refresh, *)
(* refreshMaintenanceStatsForConnection, refreshAuditEvents).  Only after a *)
(* temporary table has been dropped they may be another connection's.      *)
AsAsked(question) ==
  /\ question.page = state.page
  /\ question.size = state.size
  /\ question.search = state.search
  /\ question.only = state.only
  /\ question.order = state.order

OfSelected(question) ==
  \/ question.conn \in {active} \union removed
  \/ which \in {Audit, TempTables}

ShownIsAsked ==
  open /\ view.kind = "rows" /\ active # None
    => AsAsked(view.of) /\ OfSelected(view.of)

(* After an error nothing of the former answer is left: the caption, "page *)
(* 1 of 1", is right and no button leads elsewhere, which is what the      *)
(* comment of PagedTable.renderError is about.                             *)
ErrorLeavesNothing ==
  which.code = "pager" /\ view.kind = "error"
    => /\ state.page = 1
       /\ ~PrevEnabled
       /\ ~NextEnabled

(* "Loading" is on the page only while the answer it is replaced by, rows  *)
(* or an error, is under way (PagedTable.refresh).                         *)
LoadingIsAwaited == view.kind = "loading" => latest # None

(* Of an open table that has rows, other than the audit, an empty page has *)
(* a way back: rows that went meanwhile do not strand the user past the    *)
(* last page (updatePaginationButtons).                                    *)
PageIsEmpty(question) == (question.page - 1) * question.size >= view.matching

WayBack ==
  open /\ which # Audit /\ view.kind = "rows" /\ view.matching > 0
    => (PageIsEmpty(view.of) => PrevEnabled)

(* The table implements LatestAnswer: what it waits for is the question of *)
(* the latest number, and no other answer is ever shown.  The size of the  *)
(* pages is left out: the server may answer with another one.              *)
Wanted == IF latest = None THEN None ELSE Asked(request[latest])
ShownAnswer == IF view.kind = "rows" THEN Asked(view.of) ELSE None

Promise ==
  INSTANCE LatestAnswer
    WITH Questions <- AskedQuestions, wanted <- Wanted, answered <- ShownAnswer

ImplementsLatestAnswer == Promise!LSpec
=============================================================================
