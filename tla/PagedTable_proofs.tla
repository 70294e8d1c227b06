-------------------------- MODULE PagedTable_proofs --------------------------
(***************************************************************************)
(* What TLAPS proves about PagedTable: for any connections, texts, orders  *)
(* and sizes, any number of rows and of requests under way.                *)
(***************************************************************************)
EXTENDS PagedTable, TLAPS

(* The types by group of variables.                                        *)
State ==
  [page : Nat \ {0}, size : Sizes, total : 0..MaxRows,
   search : Texts, only : BOOLEAN, order : Orders]

RequestType ==
  /\ request \in [Requests -> Question \union {None}]
  /\ latest \in {r \in Requests : request[r] # None} \union {None}

ViewType ==
  \/ view \in {Message("loading"), Message("warning"), Message("error")}
  \/ view \in [kind : {"rows"}, of : Question, matching : 0..MaxRows]

PageType == state \in State /\ RequestType /\ ViewType

RestType ==
  /\ which \in Tables
  /\ open \in BOOLEAN
  /\ input \in Texts
  /\ timer \in BOOLEAN
  /\ dropping \in Connections \union {None}

LEMMA TypeParts == TypeOK <=> ListTypeOK /\ PageType /\ RestType
BY DEF TypeOK, PageType, State, RequestType, ViewType, RestType

LEMMA TypePartsNext == TypeOK' <=> ListTypeOK' /\ PageType' /\ RestType'
BY DEF TypeOK, PageType, State, RequestType, ViewType, RestType

LEMMA KnownTables ==
  ASSUME which \in Tables
  PROVE  /\ which = Audit => which.code # "pager" /\ which # TempTables
         /\ which.code \in {"pager", "maintenance", "audit"}
BY DEF Tables, Audit, Maintenance, TempTables, ToastTables, SchemaSizes,
       TableSizes, Views, DBFunctions, Users, Groups, Pager

-----------------------------------------------------------------------------
(* The steps, by what they do to the page.  A question is asked, once or   *)
(* twice; a warning is shown; the page rests; an answer or a failure comes. *)
AskedAnew(c, s) ==
  /\ state' = Waiting(s)
  /\ latest' \in Requests
  /\ request'[latest'] = ToAsk(c, s)
  /\ view' = Message("loading")

AskStep ==
  \E c \in Connections \union {None}, s \in State :
    /\ AskedAnew(c, s)
    /\ which \in {Audit, TempTables} \/ c = active'
    /\ UNCHANGED which

WarnStep ==
  /\ \E s \in State : Warn(s)
  /\ active' = None
  /\ UNCHANGED which

RestStep ==
  /\ UNCHANGED <<which, request, latest, view>>
  /\ \/ state' = state
     \/ state'.page = 1 /\ state'.total = state.total /\ ~open'
  /\ open' => open /\ (UNCHANGED listVars \/ Delete)

AnswerStep == \E r \in Requests : Answered(r) \/ Fails(r)

LEMMA FirstIsPage == 1 \in Nat \ {0}
OBVIOUS

LEMMA WaitingIsState ==
  ASSUME NEW s \in State
  PROVE  /\ Waiting(s) \in State
         /\ Waiting(s).search = s.search
         /\ Waiting(s).only = s.only
         /\ Waiting(s).order = s.order
BY TableAssumption DEF Waiting, State

LEMMA ToAskIsQuestion ==
  ASSUME NEW c \in Connections \union {None}, NEW s \in State
  PROVE  ToAsk(c, s) \in Question /\ ToAsk(c, s) # None
BY NoneAssumption DEF ToAsk, State, Question

LEMMA AskTypes ==
  ASSUME RequestType, NEW c \in Connections \union {None}, NEW s \in State, Ask(c, s)
  PROVE  PageType' /\ AskedAnew(c, s)
<1>1. PICK r \in Free : Send(r, ToAsk(c, s))
  BY DEF Ask
<1>2. r \in Requests /\ ToAsk(c, s) \in Question /\ ToAsk(c, s) # None
  BY ToAskIsQuestion DEF Free
<1>3. RequestType' /\ latest' \in Requests /\ request'[latest'] = ToAsk(c, s)
  BY <1>1, <1>2 DEF Send, RequestType
<1>4. state' = Waiting(s) /\ state' \in State
  BY WaitingIsState DEF Ask
<1>5. view' = Message("loading")
  BY DEF Ask
<1>6. ViewType'
  BY <1>5 DEF ViewType
<1> QED
  BY <1>3, <1>4, <1>5, <1>6 DEF PageType, AskedAnew

LEMMA AskTwiceTypes ==
  ASSUME RequestType, NEW c \in Connections \union {None}, NEW s \in State,
         AskTwice(c, s)
  PROVE  PageType' /\ AskedAnew(c, s)
<1>1. PICK q \in Free, r \in Free :
        /\ q # r
        /\ request' = [request EXCEPT ![q] = ToAsk(c, s), ![r] = ToAsk(c, s)]
        /\ latest' = r
  BY DEF AskTwice
<1>2. /\ q \in Requests /\ r \in Requests
      /\ ToAsk(c, s) \in Question /\ ToAsk(c, s) # None
  BY ToAskIsQuestion DEF Free
<1>3. RequestType' /\ latest' \in Requests /\ request'[latest'] = ToAsk(c, s)
  BY <1>1, <1>2 DEF RequestType
<1>4. state' = Waiting(s) /\ state' \in State
  BY WaitingIsState DEF AskTwice
<1>5. view' = Message("loading")
  BY DEF AskTwice
<1>6. ViewType'
  BY <1>5 DEF ViewType
<1> QED
  BY <1>3, <1>4, <1>5, <1>6 DEF PageType, AskedAnew

LEMMA WarnTypes ==
  ASSUME RequestType, NEW s \in State, Warn(s)
  PROVE  PageType'
<1>1. state' \in State
  BY TableAssumption DEF Warn, State
<1>2. RequestType'
  BY DEF Warn, RequestType
<1>3. ViewType'
  BY DEF Warn, ViewType
<1> QED
  BY <1>1, <1>2, <1>3 DEF PageType

(* A refresh asks, or warns that no connection is selected.                *)
LEMMA RefreshTypes ==
  ASSUME RequestType, NEW c \in Connections \union {None}, NEW s \in State,
         Refresh(c, s), which \in {Audit, TempTables} \/ c = active',
         c = None => active' = None, UNCHANGED which
  PROVE  PageType' /\ (AskStep \/ WarnStep)
<1>1. CASE c = None /\ which # Audit
  <2>1. Warn(s)
    BY <1>1 DEF Refresh
  <2> QED
    BY <1>1, <2>1, WarnTypes DEF WarnStep
<1>2. CASE ~(c = None /\ which # Audit)
  <2>1. Ask(c, s)
    BY <1>2 DEF Refresh
  <2>2. PageType' /\ AskedAnew(c, s)
    BY <2>1, AskTypes
  <2> QED
    BY <2>2 DEF AskStep
<1> QED
  BY <1>1, <1>2

LEMMA FirstPageTypes ==
  ASSUME PageType, which \in Tables, NEW c \in Connections, FirstPage(c),
         active' = c, UNCHANGED which
  PROVE  PageType' /\ open' \in BOOLEAN /\ (AskStep \/ RestStep)
<1>1. CASE /\ open' = FALSE
           /\ UNCHANGED <<state, request, latest, view>>
  BY <1>1 DEF PageType, RequestType, ViewType, RestStep
<1>2. CASE /\ open' = TRUE
           /\ IF which = Audit THEN Ask(c, state) ELSE AskTwice(c, Entered)
  <2>1. state \in State /\ Entered \in State /\ RequestType
    BY DEF PageType, State, Entered
  <2>2. \E s \in State : PageType' /\ AskedAnew(c, s)
    BY <1>2, <2>1, AskTypes, AskTwiceTypes
  <2> QED
    BY <1>2, <2>2 DEF AskStep
<1> QED
  BY <1>1, <1>2 DEF FirstPage

LEMMA SettleTypes ==
  ASSUME RequestType, NEW r \in Requests, Settle(r)
  PROVE  /\ RequestType'
         /\ latest # r => latest' = latest /\ (latest # None => request'[latest] = request[latest])
         /\ latest = r => latest' = None
<1>1. latest # None => latest \in Requests
  BY DEF RequestType
<1> QED
  BY <1>1 DEF Settle, RequestType

LEMMA RenderTypes ==
  ASSUME state \in State, NEW question \in Question, NEW n \in 0..MaxRows,
         NEW size \in Sizes, Render(question, n, size)
  PROVE  /\ state' \in State
         /\ ViewType'
         /\ view'.kind = "rows" /\ view'.matching = n
         /\ view'.of = [question EXCEPT !.size = size]
         /\ state'.page = question.page /\ state'.size = size
         /\ state'.search = state.search
         /\ state'.only = state.only
         /\ state'.order = state.order
<1>1. PICK m \in {0, n} :
        state' = [state EXCEPT !.page = question.page, !.size = size, !.total = m]
  <2> DEFINE past == (question.page - 1) * size >= n
             m == IF which.counts \/ ~past THEN n ELSE 0
  <2>1. m \in {0, n}
    OBVIOUS
  <2>2. state' = [state EXCEPT !.page = question.page, !.size = size, !.total = m]
    BY DEF Render
  <2> HIDE DEF m
  <2> QED
    BY <2>1, <2>2
<1>5. state' \in State
  <2>1. m \in 0..MaxRows
    BY <1>1, TableAssumption
  <2>2. question.page \in Nat \ {0}
    BY DEF Question
  <2> QED
    BY <1>1, <2>1, <2>2 DEF State
<1>2. [question EXCEPT !.size = size] \in Question
  BY DEF Question
<1>3. view' = [kind |-> "rows", of |-> [question EXCEPT !.size = size], matching |-> n]
  BY DEF Render
<1>4. ViewType'
  BY <1>2, <1>3 DEF ViewType
<1> QED
  BY <1>1, <1>3, <1>4, <1>5 DEF State

-----------------------------------------------------------------------------
(* Only a temporary table is ever dropped.                                 *)
DropsAreTemporary == dropping # None => which = TempTables

Kinds == AskStep \/ WarnStep \/ RestStep \/ AnswerStep

Sound == TypeOK /\ DropsAreTemporary

LEMMA SelectTypes ==
  ASSUME ListTypeOK, NEW c \in Connections, Select(c) \/ Save(c)
  PROVE  ListTypeOK' /\ active' = c
<1>1. CASE Select(c)
  BY <1>1 DEF Select, ListTypeOK
<1>2. CASE Save(c)
  BY <1>2, ConnectionAssumption DEF Save, ListTypeOK
<1> QED
  BY <1>1, <1>2

LEMMA DeleteTypes ==
  ASSUME ListTypeOK, Delete
  PROVE  ListTypeOK'
BY DEF Delete, ListTypeOK

LEMMA RegistrySteps ==
  ASSUME Sound, Registry
  PROVE  Sound' /\ Kinds
<1>1. ListTypeOK /\ PageType /\ RestType
  BY TypeParts DEF Sound
<1>2. CASE \E c \in Connections : ChangeConnection(c) \/ Saved(c)
  <2>1. PICK c \in Connections : ChangeConnection(c) \/ Saved(c)
    BY <1>2
  <2>2. /\ Select(c) \/ Save(c)
        /\ FirstPage(c)
        /\ UNCHANGED <<which, input, timer, dropping>>
    BY <2>1 DEF ChangeConnection, Saved
  <2>3. ListTypeOK' /\ active' = c
    BY <1>1, <2>2, SelectTypes
  <2>4. PageType' /\ open' \in BOOLEAN /\ (AskStep \/ RestStep)
    BY <1>1, <2>2, <2>3, FirstPageTypes DEF RestType
  <2>5. RestType' /\ DropsAreTemporary'
    BY <1>1, <2>2, <2>4 DEF RestType, Sound, DropsAreTemporary
  <2> QED
    BY <2>3, <2>4, <2>5, TypePartsNext DEF Sound, Kinds
<1>3. CASE Deleted
  <2>1. Delete /\ UNCHANGED tableVars
    BY <1>3 DEF Deleted
  <2>2. ListTypeOK'
    BY <1>1, <2>1, DeleteTypes
  <2>3. PageType' /\ RestType' /\ DropsAreTemporary'
    BY <1>1, <2>1
       DEF tableVars, PageType, RequestType, ViewType, RestType, Sound, DropsAreTemporary
  <2>4. RestStep
    BY <2>1 DEF tableVars, RestStep
  <2> QED
    BY <2>2, <2>3, <2>4, TypePartsNext DEF Sound, Kinds
<1> QED
  BY <1>2, <1>3 DEF Registry

(* A handler refreshes with a state of its own.                            *)
LEMMA RefreshSteps ==
  ASSUME Sound, NEW s \in State, NEW c \in Connections \union {None},
         Refresh(c, s), c = active \/ (which = TempTables /\ c # None),
         open' \in BOOLEAN, input' \in Texts, timer' \in BOOLEAN,
         dropping' \in {dropping, None}, UNCHANGED <<listVars, which>>
  PROVE  Sound' /\ Kinds
<1>1. ListTypeOK /\ PageType /\ RestType
  BY TypeParts DEF Sound
<1>2. PageType' /\ (AskStep \/ WarnStep)
  <2>1. /\ which \in {Audit, TempTables} \/ c = active'
        /\ c = None => active' = None
    BY DEF listVars
  <2> QED
    BY <1>1, <2>1, RefreshTypes DEF PageType
<1>3. ListTypeOK'
  BY <1>1 DEF ListTypeOK, listVars
<1>4. RestType' /\ DropsAreTemporary'
  BY <1>1 DEF RestType, Sound, DropsAreTemporary
<1> QED
  BY <1>2, <1>3, <1>4, TypePartsNext DEF Sound, Kinds

LEMMA ActiveIsKnown ==
  ASSUME Sound
  PROVE  active \in Connections \union {None}
BY DEF Sound, TypeOK, ListTypeOK

LEMMA ChangeSteps ==
  ASSUME Sound, NEW s \in State, Change(s)
  PROVE  Sound' /\ Kinds
<1>1. /\ Refresh(active, s)
      /\ UNCHANGED <<listVars, which, open, input, timer, dropping>>
  BY DEF Change
<1>2. open \in BOOLEAN /\ input \in Texts /\ timer \in BOOLEAN
  BY DEF Sound, TypeOK
<1> QED
  BY <1>1, <1>2, RefreshSteps, ActiveIsKnown

(* Nothing but the search field, the timer, the page that is open or the   *)
(* table that is dropped changes.                                          *)
LEMMA RestSteps ==
  ASSUME Sound, UNCHANGED <<listVars, which, state, request, latest, view>>,
         open' \in BOOLEAN, open' => open, input' \in Texts, timer' \in BOOLEAN,
         dropping' \in Connections \union {None}, DropsAreTemporary'
  PROVE  Sound' /\ Kinds
<1>1. ListTypeOK /\ PageType /\ RestType
  BY TypeParts DEF Sound
<1>2. ListTypeOK' /\ PageType' /\ RestType'
  BY <1>1 DEF ListTypeOK, listVars, PageType, RequestType, ViewType, RestType
<1>3. RestStep
  BY DEF RestStep
<1> QED
  BY <1>2, <1>3, TypePartsNext DEF Sound, Kinds

LEMMA ControlSteps ==
  ASSUME Sound, Controls
  PROVE  Sound' /\ Kinds
<1>1. /\ state \in State /\ open \in BOOLEAN /\ input \in Texts
      /\ timer \in BOOLEAN /\ dropping \in Connections \union {None}
  BY DEF Sound, TypeOK, State
<1>2. Entered \in State
  BY <1>1 DEF Entered, State
<1>3. CASE OpenPage
  <2>1. /\ open' = TRUE /\ Refresh(active, Entered)
        /\ UNCHANGED <<listVars, which, input, timer, dropping>>
    BY <1>3 DEF OpenPage
  <2> QED
    BY <1>1, <1>2, <2>1, RefreshSteps, ActiveIsKnown
<1>4. CASE LeavePage
  <2>1. /\ open' = FALSE
        /\ UNCHANGED <<listVars, which, state, input, timer, request, latest, view,
                        dropping>>
    BY <1>4 DEF LeavePage
  <2>2. DropsAreTemporary'
    BY <2>1 DEF Sound, DropsAreTemporary
  <2> QED
    BY <1>1, <2>1, <2>2, RestSteps
<1>5. CASE RefreshShown
  <2>1. /\ Refresh(active, state)
        /\ UNCHANGED <<listVars, which, open, input, timer, dropping>>
    BY <1>5 DEF RefreshShown
  <2> QED
    BY <1>1, <2>1, RefreshSteps, ActiveIsKnown
<1>12. CASE OperationReported
  <2>1. /\ Refresh(active, state)
        /\ UNCHANGED <<listVars, which, open, input, timer, dropping>>
    BY <1>12 DEF OperationReported
  <2> QED
    BY <1>1, <2>1, RefreshSteps, ActiveIsKnown
<1>6. CASE PrevPage
  <2>1. [state EXCEPT !.page = @ - 1] \in State
    BY <1>1, <1>6 DEF PrevPage, State
  <2> QED
    BY <1>6, <2>1, ChangeSteps DEF PrevPage
<1>7. CASE NextPage
  <2>1. [state EXCEPT !.page = @ + 1] \in State
    BY <1>1 DEF State
  <2> QED
    BY <1>7, <2>1, ChangeSteps DEF NextPage
<1>8. CASE \E text \in Texts : TypeSearch(text)
  <2>1. /\ input' \in Texts /\ timer' = TRUE
        /\ UNCHANGED <<listVars, which, open, state, request, latest, view, dropping>>
    BY <1>8 DEF TypeSearch
  <2>2. DropsAreTemporary'
    BY <2>1 DEF Sound, DropsAreTemporary
  <2> QED
    BY <1>1, <2>1, <2>2, RestSteps
<1>9. CASE \E order \in Orders : ChangeOrder(order)
  <2>1. PICK order \in Orders : Change([state EXCEPT !.order = order, !.page = 1])
    BY <1>9 DEF ChangeOrder
  <2> DEFINE s == [state EXCEPT !.order = order, !.page = 1]
  <2>2. s \in State
    BY <1>1, FirstIsPage DEF State
  <2>3. Change(s)
    BY <2>1
  <2> HIDE DEF s
  <2> QED
    BY <2>2, <2>3, ChangeSteps
<1>10. CASE \E only \in BOOLEAN : ChangeFavoritesOnly(only)
  <2>1. PICK only \in BOOLEAN : Change([state EXCEPT !.only = only, !.page = 1])
    BY <1>10 DEF ChangeFavoritesOnly
  <2> DEFINE s == [state EXCEPT !.only = only, !.page = 1]
  <2>2. s \in State
    BY <1>1, FirstIsPage DEF State
  <2>3. Change(s)
    BY <2>1
  <2> HIDE DEF s
  <2> QED
    BY <2>2, <2>3, ChangeSteps
<1>11. CASE \E size \in Sizes : ChangeSize(size)
  <2>1. PICK size \in Sizes : Change([state EXCEPT !.size = size, !.page = 1])
    BY <1>11 DEF ChangeSize
  <2> DEFINE s == [state EXCEPT !.size = size, !.page = 1]
  <2>2. s \in State
    BY <1>1, FirstIsPage DEF State
  <2>3. Change(s)
    BY <2>1
  <2> HIDE DEF s
  <2> QED
    BY <2>2, <2>3, ChangeSteps
<1> QED
  BY <1>3, <1>4, <1>5, <1>6, <1>7, <1>8, <1>9, <1>10, <1>11,
     <1>12 DEF Controls

LEMMA FavoriteSteps ==
  ASSUME Sound, FavoriteChanges
  PROVE  Sound' /\ Kinds
<1>1. /\ state \in State /\ open \in BOOLEAN /\ input \in Texts
      /\ timer \in BOOLEAN /\ dropping \in Connections \union {None}
  BY DEF Sound, TypeOK, State
<1>2. CASE FavoriteToggled
  BY <1>1, <1>2, ChangeSteps DEF FavoriteToggled
<1>3. CASE \E text \in Texts : OpenFavoriteObject(text)
  <2>1. PICK text \in Texts : OpenFavoriteObject(text)
    BY <1>3
  <2> DEFINE s == [state EXCEPT !.search = text, !.only = TRUE, !.page = 1]
  <2>2. TRUE \in BOOLEAN
    OBVIOUS
  <2>3. s \in State /\ s.page = 1 /\ s.total = state.total
    BY <1>1, <2>2, FirstIsPage DEF State
  <2>4. /\ ~open /\ input' = text
        /\ UNCHANGED <<listVars, which, timer, dropping>>
        /\ \/ open' = TRUE /\ Refresh(active, s)
           \/ state' = s /\ UNCHANGED <<open, request, latest, view>>
    BY <2>1 DEF OpenFavoriteObject
  <2> HIDE DEF s
  <2>5. CASE open' = TRUE /\ Refresh(active, s)
    BY <1>1, <2>3, <2>4, <2>5, RefreshSteps, ActiveIsKnown
  <2>6. CASE state' = s /\ UNCHANGED <<open, request, latest, view>>
    <3>1. ListTypeOK /\ PageType /\ RestType
      BY TypeParts DEF Sound
    <3>2. ListTypeOK' /\ PageType' /\ RestType'
      BY <2>3, <2>4, <2>6, <3>1
         DEF ListTypeOK, listVars, PageType, RequestType, ViewType, RestType
    <3>3. DropsAreTemporary'
      BY <2>4 DEF Sound, DropsAreTemporary
    <3>4. RestStep
      BY <2>3, <2>4, <2>6 DEF RestStep
    <3> QED
      BY <3>2, <3>3, <3>4, TypePartsNext DEF Sound, Kinds
  <2> QED
    BY <2>4, <2>5, <2>6
<1> QED
  BY <1>2, <1>3 DEF FavoriteChanges

LEMMA DropSteps ==
  ASSUME Sound, Drops
  PROVE  Sound' /\ Kinds
<1>1. /\ state \in State /\ open \in BOOLEAN /\ input \in Texts
      /\ timer \in BOOLEAN /\ dropping \in Connections \union {None}
  BY DEF Sound, TypeOK, State
<1>2. CASE DropTempTable
  <2>1. /\ which = TempTables /\ dropping' = active
        /\ UNCHANGED <<listVars, which, open, state, input, timer, request, latest,
                        view>>
    BY <1>2 DEF DropTempTable
  <2>2. DropsAreTemporary'
    BY <2>1 DEF DropsAreTemporary
  <2> QED
    BY <1>1, <2>1, <2>2, RestSteps, ActiveIsKnown
<1>3. CASE TempTableDropped
  <2>1. /\ dropping # None /\ Refresh(dropping, state) /\ dropping' = None
        /\ UNCHANGED <<listVars, which, open, input, timer>>
    BY <1>3 DEF TempTableDropped
  <2>2. which = TempTables
    BY <2>1 DEF Sound, DropsAreTemporary
  <2> QED
    BY <1>1, <2>1, <2>2, RefreshSteps
<1>4. CASE DropFails
  <2>1. /\ dropping' = None
        /\ UNCHANGED <<listVars, which, open, state, input, timer, request, latest,
                        view>>
    BY <1>4 DEF DropFails
  <2>2. DropsAreTemporary'
    BY <2>1 DEF DropsAreTemporary
  <2> QED
    BY <1>1, <2>1, <2>2, RestSteps
<1> QED
  BY <1>2, <1>3, <1>4 DEF Drops

LEMMA ShowErrorTypes ==
  ASSUME state \in State, ShowError
  PROVE  state' \in State /\ ViewType'
<1>1. 0 \in 0..MaxRows
  BY TableAssumption
<1>2. state' \in State
  BY <1>1, FirstIsPage DEF ShowError, State
<1>3. ViewType'
  BY DEF ShowError, ViewType
<1> QED
  BY <1>2, <1>3

LEMMA AnswerTypes ==
  ASSUME Sound, NEW r \in Requests, Answered(r) \/ Fails(r)
  PROVE  Sound'
<1>1. ListTypeOK /\ PageType /\ RestType
  BY TypeParts DEF Sound
<1>2. /\ request[r] # None /\ Settle(r)
      /\ UNCHANGED <<listVars, which, open, input, timer, dropping>>
  BY DEF Answered, Fails
<1>3. ListTypeOK' /\ RestType' /\ DropsAreTemporary'
  BY <1>1, <1>2 DEF ListTypeOK, listVars, RestType, Sound, DropsAreTemporary
<1>4. RequestType' /\ state \in State /\ ViewType
  BY <1>1, <1>2, SettleTypes DEF PageType
<1>5. request[r] \in Question
  BY <1>1, <1>2 DEF PageType, RequestType
<1>6. \/ UNCHANGED <<state, view>>
      \/ ShowError
      \/ \E n \in 0..MaxRows, size \in Sizes : Render(request[r], n, size)
  BY DEF Answered, Fails
<1>7. state' \in State /\ ViewType'
  <2>1. CASE UNCHANGED <<state, view>>
    BY <1>4, <2>1 DEF ViewType
  <2>2. CASE ShowError
    BY <1>4, <2>2, ShowErrorTypes
  <2>3. CASE \E n \in 0..MaxRows, size \in Sizes : Render(request[r], n, size)
    BY <1>4, <1>5, <2>3, RenderTypes
  <2> QED
    BY <1>6, <2>1, <2>2, <2>3
<1> QED
  BY <1>3, <1>4, <1>7, TypePartsNext DEF PageType, Sound

LEMMA AnswerSteps ==
  ASSUME Sound, Answers
  PROVE  Sound' /\ Kinds
<1>1. CASE SearchFires
  <2> DEFINE s == [state EXCEPT !.search = input, !.page = 1]
  <2>1. /\ timer' = FALSE
        /\ Refresh(active, s)
        /\ UNCHANGED <<listVars, which, open, input, dropping>>
    BY <1>1 DEF SearchFires
  <2>2. state \in State /\ open \in BOOLEAN /\ input \in Texts
    BY DEF Sound, TypeOK, State
  <2>3. s \in State
    BY <2>2, FirstIsPage DEF State
  <2> HIDE DEF s
  <2> QED
    BY <2>1, <2>2, <2>3, RefreshSteps, ActiveIsKnown
<1>2. CASE \E r \in Requests : Answered(r) \/ Fails(r)
  BY <1>2, AnswerTypes DEF Kinds, AnswerStep
<1> QED
  BY <1>1, <1>2 DEF Answers

LEMMA Steps ==
  ASSUME Sound, Next
  PROVE  Sound' /\ Kinds
BY RegistrySteps, ControlSteps, FavoriteSteps, DropSteps, AnswerSteps DEF Next

LEMMA InitSound == Init => Sound
<1> SUFFICES ASSUME Init PROVE Sound
  OBVIOUS
<1>1. ListTypeOK
  BY DEF Init, ListInit, ListTypeOK
<1>2. FALSE \in BOOLEAN /\ 0 \in 0..MaxRows
  BY TableAssumption
<1>3. state \in State
  BY <1>2 DEF Init, State
<1>4. RequestType /\ ViewType
  BY DEF Init, RequestType, ViewType
<1>5. RestType
  BY <1>2 DEF Init, RestType
<1> QED
  BY <1>1, <1>3, <1>4, <1>5, TypeParts DEF PageType, Sound, DropsAreTemporary, Init

LEMMA StutterSound ==
  ASSUME Sound, UNCHANGED vars
  PROVE  Sound'
<1>1. ListTypeOK /\ PageType /\ RestType
  BY TypeParts DEF Sound
<1>2. ListTypeOK' /\ PageType' /\ RestType' /\ DropsAreTemporary'
  BY <1>1 DEF vars, listVars, tableVars, ListTypeOK, PageType, RequestType, ViewType,
              RestType, Sound, DropsAreTemporary
<1> QED
  BY <1>2, TypePartsNext DEF Sound

(* The values of all variables are those that TypeOK names: of the state   *)
(* of a table, its requests and what it shows (class PagedTable).          *)
THEOREM TypeCorrect == Spec => []TypeOK
<1>1. Sound /\ [Next]_vars => Sound'
  BY Steps, StutterSound
<1>2. Sound => TypeOK
  BY DEF Sound
<1> QED
  BY <1>1, <1>2, InitSound, PTL DEF Spec
-----------------------------------------------------------------------------
(* What is shown and what is waited for agree with the controls.  An answer *)
(* is right when it comes because its question was right all the time it   *)
(* was under way: RequestIsAsked is what makes ShownIsAsked inductive.      *)
ControlsAsked(question) ==
  /\ question.search = state.search
  /\ question.only = state.only
  /\ question.order = state.order
  /\ OfSelected(question)

RequestIsAsked ==
  open /\ latest # None /\ active # None => ControlsAsked(request[latest])

RowsPage == open /\ view.kind = "rows" => state.page = view.of.page

ErrorIsFirst ==
  which.code = "pager" /\ view.kind = "error" => state.page = 1 /\ state.total = 0

PageInv ==
  /\ LoadingIsAwaited
  /\ RequestIsAsked
  /\ ShownIsAsked
  /\ RowsPage
  /\ ErrorIsFirst

Inv == Sound /\ PageInv

LEMMA KnownViews ==
  ASSUME ViewType
  PROVE  /\ view.kind \in {"loading", "warning", "error", "rows"}
         /\ view.kind = "rows" => view.of \in Question /\ view.matching \in 0..MaxRows
BY DEF ViewType, Message

LEMMA AskInv ==
  ASSUME Inv, Sound', AskStep
  PROVE  PageInv'
<1>1. PICK c \in Connections \union {None}, s \in State :
        /\ AskedAnew(c, s)
        /\ which \in {Audit, TempTables} \/ c = active'
        /\ UNCHANGED which
  BY DEF AskStep
<1>2. /\ state'.search = s.search /\ state'.only = s.only /\ state'.order = s.order
  BY <1>1, WaitingIsState DEF AskedAnew
<1>3. view'.kind = "loading"
  BY <1>1 DEF AskedAnew, Message
<1>4. latest' # None
  BY <1>1, TableAssumption DEF AskedAnew
<1>5. request'[latest'] = ToAsk(c, s)
  BY <1>1 DEF AskedAnew
<1>6. RequestIsAsked'
  <2>1. /\ ToAsk(c, s).search = s.search
        /\ ToAsk(c, s).only = s.only
        /\ ToAsk(c, s).order = s.order
        /\ ToAsk(c, s).conn = c \/ which = Audit
    BY DEF ToAsk
  <2>2. /\ request'[latest'].search = state'.search
        /\ request'[latest'].only = state'.only
        /\ request'[latest'].order = state'.order
        /\ \/ request'[latest'].conn = active'
           \/ which' \in {Audit, TempTables}
    BY <1>1, <1>2, <1>5, <2>1
  <2> QED
    BY <2>2 DEF RequestIsAsked, ControlsAsked, OfSelected
<1> QED
  BY <1>3, <1>4, <1>6
     DEF PageInv, LoadingIsAwaited, ShownIsAsked, RowsPage, ErrorIsFirst

LEMMA WarnInv ==
  ASSUME Inv, Sound', WarnStep
  PROVE  PageInv'
<1>1. active' = None /\ view'.kind = "warning"
  BY DEF WarnStep, Warn, Message
<1> QED
  BY <1>1
     DEF PageInv, LoadingIsAwaited, RequestIsAsked, ShownIsAsked, RowsPage, ErrorIsFirst

LEMMA RestInv ==
  ASSUME Inv, Sound', RestStep
  PROVE  PageInv'
<1>1. UNCHANGED <<which, request, latest, view>>
  BY DEF RestStep
<1>2. LoadingIsAwaited'
  BY <1>1 DEF Inv, PageInv, LoadingIsAwaited
<1>3. ErrorIsFirst'
  BY <1>1 DEF RestStep, Inv, PageInv, ErrorIsFirst
<1>4. CASE ~open'
  BY <1>2, <1>3, <1>4 DEF PageInv, RequestIsAsked, ShownIsAsked, RowsPage
<1>5. CASE open'
  <2>1. open /\ UNCHANGED state
    BY <1>5 DEF RestStep
  <2>2. \/ active' = active /\ removed' = removed
        \/ active # None /\ removed' = removed \union {active}
    BY <1>5 DEF RestStep, listVars, Delete
  <2>3. active' # None => active # None
    BY <2>2
  <2>4. RequestIsAsked'
    BY <1>1, <2>1, <2>2, <2>3 DEF Inv, PageInv, RequestIsAsked, ControlsAsked, OfSelected
  <2>5. ShownIsAsked'
    BY <1>1, <2>1, <2>2, <2>3 DEF Inv, PageInv, ShownIsAsked, AsAsked, OfSelected
  <2>6. RowsPage'
    BY <1>1, <2>1 DEF Inv, PageInv, RowsPage
  <2> QED
    BY <1>2, <1>3, <2>4, <2>5, <2>6 DEF PageInv
<1> QED
  BY <1>4, <1>5

(* An answer, or a failure, that is not the latest request's changes only  *)
(* what is under way.                                                      *)
LEMMA LateStep ==
  ASSUME RequestType, NEW r \in Requests, Answered(r) \/ Fails(r), r # latest
  PROVE  /\ UNCHANGED <<listVars, which, open, state, view, latest>>
         /\ latest # None => request'[latest] = request[latest]
<1>1. Settle(r) /\ UNCHANGED <<listVars, which, open, state, view>>
  BY DEF Answered, Fails
<1> QED
  BY <1>1, SettleTypes

LEMMA LatestStep ==
  ASSUME Sound, NEW r \in Requests, Answered(r) \/ Fails(r), r = latest
  PROVE  /\ latest' = None
         /\ UNCHANGED <<listVars, which, open>>
         /\ request[r] \in Question /\ state \in State
         /\ \/ ShowError
            \/ \E n \in 0..MaxRows, size \in Sizes : Render(request[r], n, size)
<1>1. RequestType /\ state \in State
  BY TypeParts DEF Sound, PageType
<1>2. Settle(r) /\ UNCHANGED <<listVars, which, open>> /\ request[r] # None
  BY DEF Answered, Fails
<1>3. latest' = None
  BY <1>1, <1>2, SettleTypes
<1>4. request[r] \in Question
  BY <1>1, <1>2 DEF RequestType
<1>5. \/ ShowError
      \/ \E n \in 0..MaxRows, size \in Sizes : Render(request[r], n, size)
  BY DEF Answered, Fails
<1> QED
  BY <1>1, <1>2, <1>3, <1>4, <1>5

LEMMA AnswerInv ==
  ASSUME Inv, Sound', AnswerStep
  PROVE  PageInv'
<1>1. PICK r \in Requests : Answered(r) \/ Fails(r)
  BY DEF AnswerStep
<1>2. ListTypeOK /\ PageType /\ RestType
  BY TypeParts DEF Inv, Sound
<1>3. CASE r # latest
  <2>1. /\ UNCHANGED <<listVars, which, open, state, view, latest>>
        /\ latest # None => request'[latest] = request[latest]
    BY <1>1, <1>2, <1>3, LateStep DEF PageType
  <2>2. RequestIsAsked'
    BY <2>1
       DEF Inv, PageInv, RequestIsAsked, ControlsAsked, OfSelected, listVars
  <2>3. ShownIsAsked'
    BY <2>1 DEF Inv, PageInv, ShownIsAsked, AsAsked, OfSelected, listVars
  <2> QED
    BY <2>1, <2>2, <2>3
       DEF Inv, PageInv, LoadingIsAwaited, RowsPage, ErrorIsFirst
<1>4. CASE r = latest
  <2>1. /\ latest' = None
        /\ UNCHANGED <<listVars, which, open>>
        /\ request[r] \in Question /\ state \in State
        /\ \/ ShowError
           \/ \E n \in 0..MaxRows, size \in Sizes : Render(request[r], n, size)
    BY <1>1, <1>4, LatestStep DEF Inv
  <2>2. RequestIsAsked'
    BY <2>1 DEF RequestIsAsked
  <2>3. CASE ShowError
    <3>1. view'.kind = "error"
      BY <2>3 DEF ShowError, Message
    <3>2. which.code = "pager" => state'.page = 1 /\ state'.total = 0
      BY <2>1, <2>3 DEF ShowError, State
    <3> QED
      BY <2>1, <2>2, <3>1, <3>2
         DEF PageInv, LoadingIsAwaited, ShownIsAsked, RowsPage, ErrorIsFirst
  <2>4. CASE \E n \in 0..MaxRows, size \in Sizes : Render(request[r], n, size)
    <3>1. PICK n \in 0..MaxRows, size \in Sizes : Render(request[r], n, size)
      BY <2>4
    <3>2. /\ view'.kind = "rows"
          /\ view'.of = [request[r] EXCEPT !.size = size]
          /\ state'.page = request[r].page /\ state'.size = size
          /\ state'.search = state.search
          /\ state'.only = state.only
          /\ state'.order = state.order
      BY <2>1, <3>1, RenderTypes
    <3>3. /\ view'.of.page = request[r].page
          /\ view'.of.size = size
          /\ view'.of.search = request[r].search
          /\ view'.of.only = request[r].only
          /\ view'.of.order = request[r].order
          /\ view'.of.conn = request[r].conn
      BY <2>1, <3>2 DEF Question
    <3>4. latest # None
      BY <1>4, TableAssumption
    <3>5. open /\ active # None => ControlsAsked(request[r])
      BY <1>4, <3>4 DEF Inv, PageInv, RequestIsAsked
    <3>6. ShownIsAsked'
      BY <2>1, <3>2, <3>3, <3>5
         DEF ShownIsAsked, AsAsked, OfSelected, ControlsAsked, listVars
    <3> QED
      BY <2>2, <3>2, <3>3, <3>6
         DEF PageInv, LoadingIsAwaited, RowsPage, ErrorIsFirst
  <2> QED
    BY <2>1, <2>3, <2>4
<1> QED
  BY <1>3, <1>4

LEMMA StutterInv ==
  ASSUME Inv, UNCHANGED vars
  PROVE  PageInv'
<1>1. Sound'
  BY StutterSound DEF Inv
<1>2. RestStep
  <2>1. open \in BOOLEAN
    BY DEF Inv, Sound, TypeOK
  <2> QED
    BY <2>1 DEF RestStep, vars, listVars, tableVars
<1> QED
  BY <1>1, <1>2, RestInv

LEMMA InvInductive ==
  ASSUME Inv, [Next]_vars
  PROVE  Inv'
<1>1. CASE Next
  <2>1. Sound' /\ Kinds
    BY <1>1, Steps DEF Inv
  <2> QED
    BY <2>1, AskInv, WarnInv, RestInv, AnswerInv DEF Kinds, Inv
<1>2. CASE UNCHANGED vars
  BY <1>2, StutterSound, StutterInv DEF Inv
<1> QED
  BY <1>1, <1>2

LEMMA InvInit == Init => Inv
<1> SUFFICES ASSUME Init PROVE Inv
  OBVIOUS
<1>1. open = FALSE /\ view.kind = "warning"
  BY DEF Init, Message
<1> QED
  BY <1>1, InitSound
     DEF Inv, PageInv, LoadingIsAwaited, RequestIsAsked, ShownIsAsked, RowsPage,
         ErrorIsFirst

LEMMA InvAlways == Spec => []Inv
BY InvInit, InvInductive, PTL DEF Spec

-----------------------------------------------------------------------------
(* "Loading" is replaced: the answer it waits for is under way whenever it *)
(* is shown (PagedTable.refresh).                                          *)
THEOREM LoadingOnlyWhileAwaited == Spec => []LoadingIsAwaited
<1>1. Inv => LoadingIsAwaited
  BY DEF Inv, PageInv
<1> QED
  BY <1>1, InvAlways, PTL

(* The rows on the open page are the answer to what its controls say, from *)
(* the selected connection or one since removed, however changes, answers  *)
(* and the search timer overlapped (PagedTable.refresh and its copies).    *)
THEOREM ShownRowsAreAsked == Spec => []ShownIsAsked
<1>1. Inv => ShownIsAsked
  BY DEF Inv, PageInv
<1> QED
  BY <1>1, InvAlways, PTL

(* After an error the caption says page 1 of 1 and no button leads         *)
(* elsewhere (PagedTable.renderError).                                     *)
THEOREM ErrorsLeaveNothing == Spec => []ErrorLeavesNothing
<1>1. Inv => ErrorLeavesNothing
  <2> SUFFICES ASSUME Inv, which.code = "pager", view.kind = "error"
               PROVE  state.page = 1 /\ ~PrevEnabled /\ ~NextEnabled
    BY DEF ErrorLeavesNothing
  <2>1. state.page = 1 /\ state.total = 0
    BY DEF Inv, PageInv, ErrorIsFirst
  <2>2. which # Audit
    BY KnownTables DEF Inv, Sound, TypeOK
  <2>3. ShownPage = 1
    BY <2>1, <2>2 DEF ShownPage
  <2>4. Pages(state.total, state.size) = 1
    BY <2>1 DEF Pages
  <2> QED
    BY <2>1, <2>3, <2>4 DEF PrevEnabled, NextEnabled
<1> QED
  BY <1>1, InvAlways, PTL

(* A page beyond the last one of an open table other than the audit has an *)
(* enabled button back (updatePaginationButtons).                          *)
THEOREM WayBackAlways == Spec => []WayBack
<1>1. Inv => WayBack
  <2> SUFFICES ASSUME Inv, open, which # Audit, view.kind = "rows",
                      view.matching > 0, PageIsEmpty(view.of)
               PROVE  PrevEnabled
    BY DEF WayBack
  <2>1. /\ state.page = view.of.page
        /\ state \in State /\ ViewType
    BY TypeParts DEF Inv, PageInv, Sound, PageType, RowsPage
  <2>2. /\ view.of \in Question /\ view.matching \in 0..MaxRows
    BY <2>1, KnownViews
  <2>3. /\ view.of.page \in Nat \ {0} /\ view.of.size \in Nat
        /\ view.matching \in Nat
    <3>1. view.of.page \in Nat \ {0} /\ view.of.size \in Sizes
      BY <2>2 DEF Question
    <3>2. view.of.size \in Nat /\ MaxRows \in Nat
      BY <3>1, TableAssumption
    <3> QED
      BY <2>2, <3>1, <3>2
  <2>4. view.of.page # 1
    <3> SUFFICES ASSUME view.of.page = 1 PROVE FALSE
      OBVIOUS
    <3>1. (view.of.page - 1) * view.of.size = 0
      BY <2>3
    <3> QED
      BY <2>3, <3>1 DEF PageIsEmpty
  <2> QED
    BY <2>1, <2>3, <2>4 DEF PrevEnabled, ShownPage
<1> QED
  BY <1>1, InvAlways, PTL

-----------------------------------------------------------------------------
(* The steps of LatestAnswer that the steps of the table are.              *)
promised == <<Wanted, ShownAnswer>>

LEMMA AskedIsQuestion ==
  ASSUME NEW question \in Question
  PROVE  Asked(question) \in AskedQuestions /\ Asked(question) # None
BY NoneAssumption DEF Asked, AskedQuestions, Question

LEMMA NoRowsShown ==
  ASSUME view'.kind # "rows"
  PROVE  ShownAnswer' = None
BY DEF ShownAnswer

LEMMA AskPromised ==
  ASSUME Inv, Sound', AskStep
  PROVE  Promise!Asks
<1>1. PICK c \in Connections \union {None}, s \in State : AskedAnew(c, s)
  BY DEF AskStep
<1>2. latest' # None /\ request'[latest'] \in Question
  BY <1>1, TableAssumption, ToAskIsQuestion DEF AskedAnew
<1>3. Wanted' \in AskedQuestions
  BY <1>2, AskedIsQuestion DEF Wanted, Asked
<1>4. ShownAnswer' = None
  BY <1>1, NoRowsShown DEF AskedAnew, Message
<1> QED
  BY <1>3, <1>4 DEF Promise!Asks

LEMMA WarnPromised ==
  ASSUME Inv, WarnStep
  PROVE  Promise!Warns
<1>1. /\ latest' \in {latest, None} /\ request' = request
      /\ view' = Message("warning")
  BY DEF WarnStep, Warn
<1>2. Wanted' \in {Wanted, None}
  BY <1>1 DEF Wanted, Asked
<1>3. ShownAnswer' = None
  BY <1>1, NoRowsShown DEF Message
<1> QED
  BY <1>2, <1>3 DEF Promise!Warns

LEMMA AnswerPromised ==
  ASSUME Inv, AnswerStep
  PROVE  Promise!Answers \/ Promise!Warns \/ UNCHANGED promised
<1>1. PICK r \in Requests : Answered(r) \/ Fails(r)
  BY DEF AnswerStep
<1>2. CASE r # latest
  <2>1. RequestType
    BY TypeParts DEF Inv, Sound, PageType
  <2>2. /\ UNCHANGED <<view, latest>>
        /\ latest # None => request'[latest] = request[latest]
    BY <1>1, <1>2, <2>1, LateStep
  <2> QED
    BY <2>2 DEF promised, Wanted, ShownAnswer, Asked
<1>3. CASE r = latest
  <2>1. /\ latest' = None
        /\ request[r] \in Question /\ state \in State
        /\ \/ ShowError
           \/ \E n \in 0..MaxRows, size \in Sizes : Render(request[r], n, size)
    BY <1>1, <1>3, LatestStep DEF Inv
  <2>2. Wanted' = None
    BY <2>1 DEF Wanted
  <2>3. CASE ShowError
    <3>1. ShownAnswer' = None
      BY <2>3, NoRowsShown DEF ShowError, Message
    <3> QED
      BY <2>2, <3>1 DEF Promise!Warns
  <2>4. CASE \E n \in 0..MaxRows, size \in Sizes : Render(request[r], n, size)
    <3>1. PICK n \in 0..MaxRows, size \in Sizes : Render(request[r], n, size)
      BY <2>4
    <3>2. view'.kind = "rows" /\ view'.of = [request[r] EXCEPT !.size = size]
      BY <2>1, <3>1, RenderTypes
    <3>3. ShownAnswer' = Asked(request[r])
      BY <2>1, <3>2 DEF ShownAnswer, Asked, Question
    <3>4. Wanted = Asked(request[r]) /\ Wanted # None
      BY <1>3, <2>1, TableAssumption, AskedIsQuestion DEF Wanted
    <3> QED
      BY <2>2, <3>3, <3>4 DEF Promise!Answers
  <2> QED
    BY <2>1, <2>3, <2>4
<1> QED
  BY <1>2, <1>3

LEMMA RestPromised ==
  ASSUME UNCHANGED <<request, latest, view>>
  PROVE  UNCHANGED promised
BY DEF promised, Wanted, ShownAnswer, Asked

(* The table shows the answer to its latest question and no other answer:  *)
(* it implements LatestAnswer, the promise that requestId keeps.            *)
THEOREM Implements == Spec => ImplementsLatestAnswer
<1>1. Init => Promise!LInit
  BY DEF Init, Promise!LInit, Wanted, ShownAnswer, Message
<1>2. Inv /\ [Next]_vars => [Promise!LNext]_promised
  <2> SUFFICES ASSUME Inv, [Next]_vars PROVE [Promise!LNext]_promised
    OBVIOUS
  <2>1. CASE Next
    <3>1. Sound' /\ Kinds
      BY <2>1, Steps DEF Inv
    <3>2. CASE RestStep
      BY <3>2, RestPromised DEF RestStep
    <3> QED
      BY <3>1, <3>2, AskPromised, WarnPromised, AnswerPromised
         DEF Kinds, Promise!LNext
  <2>2. CASE UNCHANGED vars
    BY <2>2, RestPromised DEF vars, tableVars
  <2> QED
    BY <2>1, <2>2
<1> QED
  BY <1>1, <1>2, InvAlways, PTL
     DEF Spec, ImplementsLatestAnswer, Promise!LSpec, promised
=============================================================================
