-------------------------- MODULE BackendMonitor --------------------------
(***************************************************************************)
(* The pages of one browser tab that list backends (static/js/home.js):    *)
(* active queries, sessions, locks, idle transactions.                     *)
(*                                                                         *)
(* Such a page lists backends of the selected connection.  Every request   *)
(* for the list has a number; only the answer to the latest one is shown.  *)
(* Requests are made when the page is opened, by the user's controls, by   *)
(* an interval that is to wait while a request is under way, and at once   *)
(* and twice later after a backend has been terminated.  Termination asks  *)
(* for a confirmation.  Meanwhile the list of connections changes: another *)
(* one is selected, or the answer to "save" or "delete" arrives, which the *)
(* user did not wait for.  The pages share no state but the connections:   *)
(* a behaviour is about one of them, `monitor'.                            *)
(*                                                                         *)
(* A number is an element of Requests that is free again once its request  *)
(* has been answered.  The backends of a list are any; what terminating    *)
(* one does to the database is not modelled.  A delay is a step that may   *)
(* happen at any time.  History variable: `strayed'.                       *)
(***************************************************************************)
EXTENDS Naturals, FiniteSets

CONSTANTS
  Connections,   \* saved connections, of now and later
  Pids,          \* process numbers; two servers may use the same one
  Requests,      \* bound: requests for the list under way at once
  Posts,         \* bound: terminations under way at once
  MaxRefreshes,  \* bound: delayed refreshes that wait for one connection
  None           \* no connection, no request

ASSUME MonitorAssumption ==
  /\ None \notin Connections \union Requests
  /\ MaxRefreshes \in Nat

VARIABLES
  connections,  \* the tab's list of saved connections
  removed,      \* connections the tab has taken off it
  strayed,      \* connections whose list was asked for, others being selected
  active,       \* activeConnectionId
  onPage,       \* the page is the open one
  monitor,      \* which page it is
  hidden,       \* document.hidden
  table,        \* what the page shows
  terminated,   \* terminatedActiveQueryKeys
  request,      \* request[r]: the connection whose list r asks for
  latest,       \* the request numbered activeQueriesRequestId
  inFlight,     \* activeQueriesState.inFlight
  typing,       \* the timer of the user filter runs
  dialog,       \* the row whose termination waits for confirmation
  post,         \* post[t]: the row whose termination has been asked for
  refreshes,    \* refreshes[c]: delayed refreshes that wait for c
  form          \* a save or a delete that the server has not answered

view == <<table, terminated>>
lists == <<request, latest, inFlight>>
registry == <<connections, removed, strayed, active, onPage, monitor>>
actions == <<dialog, post, refreshes>>
vars == <<registry, hidden, view, lists, typing, actions, form>>

(* The pages differ in two things.  Some remember what was terminated, and *)
(* then refresh if the connection is still selected; the others forget,    *)
(* and refresh whatever is selected.  And refreshAll omits the sessions.   *)
QueriesPage == [remembers |-> TRUE, inRefreshAll |-> TRUE]
SessionsPage == [remembers |-> TRUE, inRefreshAll |-> FALSE]
LocksPage == [remembers |-> FALSE, inRefreshAll |-> TRUE]
TransactionsPage == [remembers |-> FALSE, inRefreshAll |-> TRUE]

Monitors == {QueriesPage, SessionsPage, LocksPage, TransactionsPage}

(* A row is acted upon by its button.  `of' is the connection of its list, *)
(* `conn' the one the request is to go to.  A button leaves the page when  *)
(* the table is written again; the handlers of its click live on.          *)
Row == [conn : Connections, pid : Pids, of : Connections, attached : BOOLEAN]
NoRow == [conn |-> None, pid |-> None, of |-> None, attached |-> FALSE]

Message(kind) == [kind |-> kind, of |-> None, pids |-> {}, disabled |-> {}]
NoForm == [what |-> "none", conn |-> None]

TypeOK ==
  /\ connections \subseteq Connections
  /\ removed \subseteq Connections \ connections
  /\ strayed \subseteq Connections
  /\ active \in connections \union {None}
  /\ onPage \in BOOLEAN
  /\ monitor \in Monitors
  /\ hidden \in BOOLEAN
  /\ \/ table \in {Message("loading"), Message("warning")}
     \/ /\ table \in [kind : {"rows"}, of : Connections,
                      pids : SUBSET Pids, disabled : SUBSET Pids]
        /\ table.disabled \subseteq table.pids
  /\ terminated \subseteq Connections \X Pids
  /\ request \in [Requests -> Connections \union {None}]
  /\ latest \in {r \in Requests : request[r] # None} \union {None}
  /\ inFlight \in BOOLEAN
  /\ typing \in BOOLEAN
  /\ dialog \in Row \union {NoRow}
  /\ post \in [Posts -> Row \union {NoRow}]
  /\ refreshes \in [Connections -> 0..MaxRefreshes]
  /\ form \in {NoForm}
       \union [what : {"save", "delete"}, conn : Connections \ removed]

(* The page has been loaded with some of the saved connections, and        *)
(* another page is open.                                                   *)
Init ==
  /\ connections \in SUBSET Connections
  /\ removed = {} /\ strayed = {}
  /\ active \in IF connections = {} THEN {None} ELSE connections
  /\ onPage = FALSE
  /\ monitor \in Monitors
  /\ hidden = FALSE
  /\ table = Message("warning")
  /\ terminated = {}
  /\ request = [r \in Requests |-> None]
  /\ latest = None
  /\ inFlight = FALSE
  /\ typing = FALSE
  /\ dialog = NoRow
  /\ post = [t \in Posts |-> NoRow]
  /\ refreshes = [c \in Connections |-> 0]
  /\ form = NoForm

-----------------------------------------------------------------------------
(* When the table is written, the buttons that were on it are so no more.  *)
Detached(row) ==
  [conn |-> row.conn, pid |-> row.pid, of |-> row.of, attached |-> FALSE]

Write(content) ==
  /\ table' = content
  /\ dialog' = Detached(dialog)
  /\ post' = [t \in Posts |-> Detached(post[t])]

Free == {r \in Requests : request[r] = None}

(* refreshActiveQueriesForConnection for the selected connection: with     *)
(* none selected there is only a warning; a request that is not silent     *)
(* replaces the table by "loading".                                        *)
Ask(c) ==
  \E r \in Free :
    /\ request' = [request EXCEPT ![r] = c]
    /\ latest' = r
    /\ inFlight' = TRUE

Refresh(c, silent) ==
  IF c = None
    THEN Write(Message("warning")) /\ UNCHANGED lists
    ELSE /\ Ask(c)
         /\ IF silent
              THEN UNCHANGED <<table, dialog, post>>
              ELSE Write(Message("loading"))

(* Opening the page refreshes it; activatePage and refreshAll together     *)
(* ask twice when the page is the first one of the connection.             *)
AskTwice(c) ==
  \E r, s \in Free :
    /\ r # s
    /\ request' = [request EXCEPT ![r] = c, ![s] = c]
    /\ latest' = s
    /\ inFlight' = TRUE
    /\ Write(Message("loading"))

FirstPage(c) ==
  \/ /\ onPage' = FALSE
     /\ UNCHANGED <<lists, table, dialog, post>>
  \/ /\ onPage' = TRUE
     /\ IF monitor.inRefreshAll THEN AskTwice(c) ELSE Refresh(c, FALSE)

(* The user works with the page that is open, not through a dialog.        *)
AtWork == ~hidden /\ dialog = NoRow

OpenPage ==
  /\ AtWork
  /\ onPage' = TRUE
  /\ Refresh(active, FALSE)
  /\ UNCHANGED <<connections, removed, strayed, active, monitor, hidden,
                 terminated, typing, refreshes, form>>

LeavePage ==
  /\ AtWork /\ onPage
  /\ onPage' = FALSE
  /\ UNCHANGED <<connections, removed, strayed, active, monitor, hidden, view,
                 lists, typing, actions, form>>

(* The refresh button is not silent; sorting and the choice of an interval *)
(* are.                                                                    *)
UserRefresh ==
  /\ AtWork /\ onPage
  /\ \E silent \in BOOLEAN : Refresh(active, silent)
  /\ UNCHANGED <<registry, hidden, terminated, typing, refreshes, form>>

Type ==
  /\ AtWork /\ onPage /\ ~typing
  /\ typing' = TRUE
  /\ UNCHANGED <<registry, hidden, view, lists, actions, form>>

(* The timer of the user filter does not ask which page is open.           *)
TypingEnds ==
  /\ typing
  /\ typing' = FALSE
  /\ Refresh(active, TRUE)
  /\ UNCHANGED <<registry, hidden, terminated, refreshes, form>>

(* The interval waits for the request under way.                           *)
Tick ==
  /\ ~inFlight /\ ~hidden /\ onPage
  /\ Refresh(active, TRUE)
  /\ UNCHANGED <<registry, hidden, terminated, typing, refreshes, form>>

-----------------------------------------------------------------------------
(* Rows that were terminated are left out of the list until it lacks them; *)
(* the keys are those of the selected connection, whatever the list is of. *)
(* On a page that remembers none, there are none.                          *)
Forgotten(listed) == {key \in terminated : key[1] = active /\ key[2] \notin listed}
Listed(c, listed) ==
  [kind |-> "rows", of |-> c, disabled |-> {},
   pids |-> {p \in listed : <<active, p>> \notin terminated}]

(* Mutant of Render: rows are not left out once they were terminated.      *)
RenderMutant(c, listed) ==
  /\ terminated' = terminated \ Forgotten(listed)
  /\ Write([kind |-> "rows", of |-> c, disabled |-> {}, pids |-> listed])

Render(c, listed) ==
  /\ terminated' = terminated \ Forgotten(listed)
  /\ Write(Listed(c, listed))

(* Mutant of Settle: the number stays the latest one.                      *)
SettleMutant(r) ==
  /\ request' = [request EXCEPT ![r] = None]
  /\ latest' = latest
  /\ inFlight' = FALSE

(* The end of any request, also of one that is not the latest: finally.    *)
Settle(r) ==
  /\ request' = [request EXCEPT ![r] = None]
  /\ latest' = IF latest = r THEN None ELSE latest
  /\ inFlight' = FALSE

(* Mutant of ListAnswered: every answer is shown.                          *)
ListAnsweredMutant(r) ==
  /\ request[r] # None
  /\ Settle(r)
  /\ \E listed \in SUBSET Pids : Render(request[r], listed)
  /\ UNCHANGED <<registry, hidden, typing, refreshes, form>>

ListAnswered(r) ==
  /\ request[r] # None
  /\ Settle(r)
  /\ IF r = latest
       THEN \E listed \in SUBSET Pids : Render(request[r], listed)
       ELSE UNCHANGED <<view, dialog, post>>
  /\ UNCHANGED <<registry, hidden, typing, refreshes, form>>

(* Mutant of ListFails: a failure is logged only.                          *)
ListFailsMutant(r) ==
  /\ request[r] # None
  /\ Settle(r)
  /\ UNCHANGED <<registry, hidden, view, typing, actions, form>>

ListFails(r) ==
  /\ request[r] # None
  /\ Settle(r)
  /\ IF r = latest
       THEN Write(Message("warning"))
       ELSE UNCHANGED <<table, dialog, post>>
  /\ UNCHANGED <<registry, hidden, terminated, typing, refreshes, form>>

-----------------------------------------------------------------------------
(* A click disables the button and opens the dialog; the connection is the *)
(* one selected at the click.                                              *)
Click(p) ==
  /\ AtWork /\ onPage /\ active # None
  /\ p \in table.pids \ table.disabled
  /\ table' = [table EXCEPT !.disabled = @ \union {p}]
  /\ dialog' = [conn |-> active, pid |-> p, of |-> table.of, attached |-> TRUE]
  /\ UNCHANGED <<registry, hidden, terminated, lists, typing, post, refreshes,
                 form>>

(* The button of a row may be clicked again, if it is still there.         *)
Enable(row) ==
  table' = IF row.attached
             THEN [table EXCEPT !.disabled = @ \ {row.pid}]
             ELSE table

Cancel ==
  /\ dialog # NoRow
  /\ Enable(dialog)
  /\ dialog' = NoRow
  /\ UNCHANGED <<registry, hidden, terminated, lists, typing, post, refreshes,
                 form>>

(* Mutant of Confirm: the request goes to the connection selected now.     *)
ConfirmMutant(t) ==
  /\ dialog # NoRow /\ post[t] = NoRow /\ active # None
  /\ post' = [post EXCEPT ![t] = [dialog EXCEPT !.conn = active]]
  /\ dialog' = NoRow
  /\ UNCHANGED <<registry, hidden, view, lists, typing, refreshes, form>>

Confirm(t) ==
  /\ dialog # NoRow /\ post[t] = NoRow
  /\ post' = [post EXCEPT ![t] = dialog]
  /\ dialog' = NoRow
  /\ UNCHANGED <<registry, hidden, view, lists, typing, refreshes, form>>

(* The row is taken off the page, if its button is still on it, and is     *)
(* remembered; the list is refreshed now and twice later, unless another   *)
(* connection has been selected.                                           *)
PostSucceeds(t) ==
  LET row == post[t]
  IN  /\ row # NoRow /\ monitor.remembers
      /\ terminated' = terminated \union {<<row.conn, row.pid>>}
      /\ table' = IF row.attached
                    THEN [table EXCEPT !.pids = @ \ {row.pid},
                                       !.disabled = @ \ {row.pid}]
                    ELSE table
      /\ post' = [post EXCEPT ![t] = NoRow]
      /\ IF active = row.conn
           THEN /\ Ask(row.conn)
                /\ refreshes[row.conn] + 2 <= MaxRefreshes
                /\ refreshes' = [refreshes EXCEPT ![row.conn] = @ + 2]
           ELSE UNCHANGED <<lists, refreshes>>
      /\ UNCHANGED <<registry, hidden, typing, dialog, form>>

(* terminateObservedProcess: only a refresh, from the connection that was  *)
(* selected when the row was clicked, whether or not it still is.          *)
ObservedEnds(t) ==
  /\ post[t] # NoRow /\ ~monitor.remembers
  /\ Ask(post[t].conn)
  /\ strayed' = strayed \union ({post[t].conn} \ {active})
  /\ post' = [post EXCEPT ![t] = NoRow]
  /\ UNCHANGED <<connections, removed, active, onPage, monitor, hidden, view,
                 typing, dialog, refreshes, form>>

PostFails(t) ==
  /\ post[t] # NoRow
  /\ Enable(post[t])
  /\ post' = [post EXCEPT ![t] = NoRow]
  /\ UNCHANGED <<registry, hidden, terminated, lists, typing, dialog, refreshes,
                 form>>

LaterRefresh(c) ==
  /\ refreshes[c] > 0
  /\ refreshes' = [refreshes EXCEPT ![c] = @ - 1]
  /\ IF active = c /\ onPage
       THEN Ask(c)
       ELSE UNCHANGED lists
  /\ UNCHANGED <<registry, hidden, view, typing, dialog, post, form>>

-----------------------------------------------------------------------------
(* onConnectionChange: another page is opened, unless the sidebar begins   *)
(* with this one.                                                          *)
ChangeConnection(c) ==
  /\ AtWork /\ c \in connections
  /\ active' = c
  /\ FirstPage(c)
  /\ UNCHANGED <<connections, removed, strayed, monitor, hidden, terminated,
                 typing, refreshes, form>>

(* An edited connection keeps its number, a new one has a new number.      *)
Submit ==
  /\ AtWork /\ form = NoForm
  /\ \/ /\ active # None
        /\ form' \in [what : {"save", "delete"}, conn : {active}]
     \/ \E c \in Connections \ (connections \union removed) :
          form' = [what |-> "save", conn |-> c]
  /\ UNCHANGED <<registry, hidden, view, lists, typing, actions>>

(* The saved connection takes the place of its old version or, if that is  *)
(* met first in the list and the dialog is now one that edits, of the      *)
(* connection selected by now; otherwise it is added.  It is selected.     *)
Saved ==
  /\ form.what = "save"
  /\ \E lost \in {{}, {active} \ {form.conn, None}} :
       /\ connections' = (connections \ lost) \union {form.conn}
       /\ removed' = removed \union lost
  /\ active' = form.conn
  /\ FirstPage(form.conn)
  /\ form' = NoForm
  /\ UNCHANGED <<strayed, monitor, hidden, terminated, typing, refreshes>>

(* The connection that is selected by now is taken off the list, and the   *)
(* first of the others is selected; the page stays as it is.               *)
Deleted ==
  /\ form.what = "delete"
  /\ connections' = connections \ {active}
  /\ removed' = removed \union ({active} \ {None})
  /\ active' \in IF connections' = {} THEN {None} ELSE connections'
  /\ form' = NoForm
  /\ UNCHANGED <<strayed, onPage, monitor, hidden, view, lists, typing, actions>>

Refused ==
  /\ form # NoForm
  /\ form' = NoForm
  /\ UNCHANGED <<registry, hidden, view, lists, typing, actions>>

Hide ==
  /\ ~hidden
  /\ hidden' = TRUE
  /\ UNCHANGED <<registry, view, lists, typing, actions, form>>

(* A tab that is shown again refreshes the page that is open: refreshAll.  *)
Show ==
  /\ hidden
  /\ hidden' = FALSE
  /\ IF onPage /\ monitor.inRefreshAll
       THEN Refresh(active, FALSE) /\ UNCHANGED <<terminated, refreshes>>
       ELSE UNCHANGED <<view, lists, actions>>
  /\ UNCHANGED <<registry, typing, form>>

-----------------------------------------------------------------------------
User ==
  \/ OpenPage \/ LeavePage \/ UserRefresh \/ Type \/ Submit \/ Hide \/ Show
  \/ \E p \in Pids : Click(p)
  \/ Cancel
  \/ \E t \in Posts : Confirm(t)
  \/ \E c \in Connections : ChangeConnection(c)

Answers ==
  \/ \E r \in Requests : ListAnswered(r) \/ ListFails(r)
  \/ \E t \in Posts : PostSucceeds(t) \/ ObservedEnds(t) \/ PostFails(t)
  \/ Saved \/ Deleted \/ Refused

Timers == TypingEnds \/ Tick \/ \E c \in Connections : LaterRefresh(c)

Next == User \/ Answers \/ Timers

(* The server answers or connectionRequest gives up; timers run out, and   *)
(* the interval has been switched on.                                      *)
Fairness ==
  /\ \A r \in Requests : WF_vars(ListAnswered(r) \/ ListFails(r))
  /\ \A t \in Posts : WF_vars(PostSucceeds(t) \/ ObservedEnds(t) \/ PostFails(t))
  /\ WF_vars(Saved \/ Deleted \/ Refused)
  /\ WF_vars(TypingEnds)
  /\ WF_vars(Tick)
  /\ \A c \in Connections : WF_vars(LaterRefresh(c))

Spec == Init /\ [][Next]_vars /\ Fairness

-----------------------------------------------------------------------------
(* The rows on the open page are backends of the connection that is        *)
(* selected, or of one that is no longer in the tab's list: an answer that *)
(* was on its way when another connection was selected is not shown there  *)
(* (answers are compared with activeQueriesRequestId).  The page of locks, *)
(* and that of transactions, may also show backends of a connection it has *)
(* asked of its own accord: the answer to a termination refreshes from the *)
(* connection of the click, and whatever has been selected since, its list *)
(* stands under that name (terminateObservedProcess).  On the pages of     *)
(* queries and sessions no connection strays so: `strayed' stays empty.    *)
RowsAreOfActive ==
  /\ onPage /\ table.kind = "rows" => table.of \in {active} \union removed \union strayed
  /\ monitor.remembers => strayed = {}

(* A termination goes to the connection from which the row was listed,     *)
(* whatever is selected while the dialog is open and the request on its    *)
(* way, unless the row had outlived its connection in the list.  On the    *)
(* pages of locks and transactions a row of a connection that has strayed  *)
(* is excepted too: its number is sent to the connection selected at the   *)
(* click, which it is not of.                                              *)
TerminatesWhatWasShown ==
  \A row \in {dialog} \union {post[t] : t \in Posts} :
    row # NoRow => row.of \in {row.conn} \union removed \union strayed

(* When the page says "loading", the request whose answer will replace it  *)
(* is under way: the answer that is dropped is never the one waited for.   *)
LoadingIsAwaited == table.kind = "loading" => latest # None

(* A row that is shown although it has been terminated (its button had     *)
(* been replaced, so that removing it removed nothing) is about to be      *)
(* replaced: the request whose answer will be shown is under way.          *)
TerminatedRowIsLeaving ==
  onPage /\ table.kind = "rows" /\ table.of = active
    /\ (\E p \in table.pids : <<active, p>> \in terminated)
    => latest # None

(* Once the user leaves the page alone, what is loading is loaded.  The    *)
(* comment on the interval says so: waiting for the request under way, it  *)
(* runs "just a bit behind schedule".                                      *)
LeftAlone == <>[][~User]_vars
LoadingEnds == LeftAlone => (table.kind = "loading" ~> table.kind # "loading")
=============================================================================
