\* Two connections and two requests under way for what a page shows; two or
\* three requests meet in each service.
SPECIFICATION PartsSpec
CONSTANTS
  None = None
  Other = Other
  c1 = c1
  c2 = c2
  r1 = r1
  r2 = r2
  r3 = r3
  x1 = x1
  x2 = x2
  y1 = y1
  o1 = o1
  Connections = {c1, c2}
  Texts = {x1, x2}
  Orders = {o1}
  Sizes = {1, 2}
  MaxRows = 2
  Requests = {r1, r2}
  Objects = {y1}
  Calls = {r1, r2}
  Names = {x1, x2}
  ListRequests = {r1, r2}
  FigureRequests = {r1, r2}
  PanelRequests = {r1, r2, r3}
  Unset = Unset
  SIDEBAR_TAB_IDS <- FourTabsInOrder
  FIXED_SIDEBAR_TAB_IDS = {"settings"}
  SIDEBAR_TABS_ADDED_LATER = {"toast-tables"}
  Sections = {"data", "performance", "additional"}
  SectionOf <- SectionOfTab
  SectionsMove = FALSE
  Saves = {r1, r2}
  v1 = v1
  Visits = {v1}
  MaxUnderWay = 2
  Nobody = Nobody
  e1 = e1
  Logins = {r1, r2}
  Edits = {e1}
  MaxFailed = 3
  Callers = {r1, r2, r3}
  Limit = 2
  MaxCalls = 4
  New = New
  i1 = i1
  i2 = i2
  i3 = i3
  Editors = {r1, r2}
  Ids = {i1, i2, i3}
  PageSizes = {1, 2, 3}
  MaxRecords = 2
INVARIANTS PartsTypeOK ShownIsAsked ErrorLeavesNothing LoadingIsAwaited WayBack
INVARIANTS StarIsRight FiguresAreOfSelected
INVARIANTS PanelIsOfSelected UpdateIsAwaited SidebarIsSaved HiddenIsChosen
INVARIANTS LockoutIsKept WindowIsLimited SizesAreKept
PROPERTIES ImplementsLatestAnswer FiguresImplementLatestAnswer
SYMMETRY Interchangeable
\* The tab may have no connection, or a page no request left to send.
CHECK_DEADLOCK FALSE
