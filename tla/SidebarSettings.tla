-------------------------- MODULE SidebarSettings --------------------------
(***************************************************************************)
(* The pages a user has in the sidebar and their order: a row on the       *)
(* server (views/sidebar.py, sidebar_settings in views/additional.py), the *)
(* sidebar of a browser tab and the list in its settings                   *)
(* (static/js/home.js).                                                    *)
(*                                                                         *)
(* A request that loads the page or saves reads the row, writes it again   *)
(* if the version or an old form of the row asks for it, and goes on with  *)
(* what it read: no transaction or lock spans these steps.                 *)
(*                                                                         *)
(* The user drags and checks in the list and saves it; an answer writes    *)
(* the list anew, and dragging goes on from there.  No variable is needed  *)
(* for the list: at a click it may have any order and any checks.  The     *)
(* button is not disabled, so saves overlap.  A new version of the server  *)
(* may add pages, which a tab loaded before does not have.                 *)
(*                                                                         *)
(* A list names no page twice, and is the set of the pairs <<p, q>> such   *)
(* that p is q or comes before it.  The order of the sections is saved and *)
(* applied in the same way, and left out, as is the page that is shown     *)
(* though it is not chosen (favorites).  Bounds: one new version; one tab; *)
(* Saves; Visits; MaxUnderWay.  History variables: `hidden', `unseen',     *)
(* `unsure' and `overwritten', see the properties.                         *)
(***************************************************************************)
EXTENDS Naturals, FiniteSets

CONSTANTS
  SIDEBAR_TAB_IDS,           \* the list of all pages, the new ones included
  FIXED_SIDEBAR_TAB_IDS,     \* the pages that cannot be unchecked
  SIDEBAR_TABS_ADDED_LATER,  \* the pages that the new version adds
  Sections,
  SectionOf,                 \* the section of each page
  SectionsMove,              \* bound: whether the user moves sections too
  Saves,                     \* bound: saves under way at once
  Visits,                    \* bound: page loads under way at once
  MaxUnderWay,               \* bound: saves and page loads under way at once
  Unset                      \* no value

VARIABLES
  upgraded,   \* the server has the pages that are added later
  row,        \* DBUserSidebarSettings.visible_tabs
  sidebar,    \* the tab: its pages, currentDbUser's settings, the navigation
  save,       \* save[k]: a save under way
  read,       \* read[a]: the row as the save or the page load a read it
  hidden, unseen, unsure, overwritten

history == <<hidden, unseen, unsure, overwritten>>
sidebarVars == <<upgraded, row, sidebar, save, read, history>>

(* The pages of a list, and a list of some of its pages.                   *)
TabsOf(list) == {pair[1] : pair \in list}
Among(list, tabs) == {pair \in list : pair[1] \in tabs /\ pair[2] \in tabs}
Without(list, tabs) == Among(list, TabsOf(list) \ tabs)
Then(first, second) ==
  LET tabs == TabsOf(first) \union TabsOf(second)
  IN  {pair \in tabs \X tabs :
         \/ pair \in first
         \/ pair \in second
         \/ pair[1] \in TabsOf(first) /\ pair[2] \in TabsOf(second)}

IsList(list) ==
  /\ \A pair \in list : <<pair[1], pair[1]>> \in list /\ <<pair[2], pair[2]>> \in list
  /\ \A p, q \in TabsOf(list) :
       /\ <<p, q>> \in list \/ <<q, p>> \in list
       /\ <<p, q>> \in list /\ <<q, p>> \in list => p = q
       /\ \A r \in TabsOf(list) :
            <<p, q>> \in list /\ <<q, r>> \in list => <<p, r>> \in list

SidebarPages == TabsOf(SIDEBAR_TAB_IDS)
EmptyList == {}
Lists ==
  {list : list \in {pairs \in SUBSET (SidebarPages \X SidebarPages) : IsList(pairs)}}

TabIds ==
  [newer \in BOOLEAN |->
     IF newer THEN SIDEBAR_TAB_IDS
     ELSE Without(SIDEBAR_TAB_IDS, SIDEBAR_TABS_ADDED_LATER)]

(* The navigation of a page just loaded.                                   *)
Navigation ==
  [newer \in BOOLEAN |->
     [s \in Sections |->
        Among(TabIds[newer], {tab \in TabsOf(TabIds[newer]) : SectionOf[tab] = s})]]

(* A user may choose a page that is not fixed from the first version on.   *)
ASSUME SidebarAssumption ==
  /\ SIDEBAR_TAB_IDS \in Lists
  /\ FIXED_SIDEBAR_TAB_IDS \subseteq TabsOf(TabIds[FALSE])
  /\ FIXED_SIDEBAR_TAB_IDS # {}
  /\ ~(TabsOf(TabIds[FALSE]) \subseteq FIXED_SIDEBAR_TAB_IDS)
  /\ SectionOf \in [SidebarPages -> Sections]
  /\ \A tabs \in SUBSET SidebarPages : tabs # Unset
  /\ Saves \intersect Visits = {}

-----------------------------------------------------------------------------
(* A choice that leaves nothing but fixed pages counts as none.            *)
NormalizeTabs(tabs, all) ==
  LET chosen == Among(tabs, TabsOf(all))
  IN  IF TabsOf(chosen) \subseteq FIXED_SIDEBAR_TAB_IDS
        THEN all
        ELSE Then(chosen, Without(Among(all, FIXED_SIDEBAR_TAB_IDS), TabsOf(chosen)))

(* Pages that are neither known nor visible come after the visible page    *)
(* that precedes them in the order of the server, or first.                *)
NewTabs(visible, known, all) ==
  TabsOf(all) \ (TabsOf(visible) \union
                 IF known = Unset THEN TabsOf(all) \ SIDEBAR_TABS_ADDED_LATER ELSE known)

(* The visible pages up to that one.                                       *)
UpTo(new, visible, all) ==
  LET before == {v \in TabsOf(visible) : <<v, new>> \in all}
      last == {v \in before : \A w \in before : <<w, v>> \in all}
  IN  {v \in TabsOf(visible) : \E w \in last : <<v, w>> \in visible}

AddNewTabs(visible, known, all) ==
  LET added == NewTabs(visible, known, all)
      tabs == TabsOf(visible) \union added
      upTo == [new \in added |-> UpTo(new, visible, all)]
      Comes(p, q) ==
        \/ <<p, q>> \in visible
        \/ q \in added /\ p \in upTo[q]
        \/ p \in added /\ q \in TabsOf(visible) \ upTo[p]
        \/ /\ {p, q} \subseteq added /\ upTo[p] \subseteq upTo[q]
           /\ upTo[p] = upTo[q] => <<p, q>> \in all
  IN  {pair \in tabs \X tabs : Comes(pair[1], pair[2])}

(* The settings of a row, in the form in which a request leaves it.        *)
SettingsForUser(stored, newer) ==
  [visible |-> AddNewTabs(NormalizeTabs(stored.visible, TabIds[newer]), stored.known,
                          TabIds[newer]),
   known |-> TabsOf(TabIds[newer])]

-----------------------------------------------------------------------------
NormalizeSidebarPages(tabs, all) ==
  LET chosen == Among(tabs, TabsOf(all)) IN IF chosen = EmptyList THEN all ELSE chosen

(* Mutant of ApplyPageOrder: the order chosen is not applied.              *)
ApplyPageOrderMutant(nav, visible) ==
  [s \in Sections |->
     Then(Without(nav[s], TabsOf(visible)), Among(nav[s], TabsOf(visible)))]

(* The visible pages of a section in the order chosen, then the others.    *)
ApplyPageOrder(nav, visible) ==
  [s \in Sections |->
     Then(Among(visible, TabsOf(nav[s])), Without(nav[s], TabsOf(visible)))]

(* The tab with the settings that the server gave it.                      *)
ApplySidebar(tabs, nav, values) ==
  LET visible == NormalizeSidebarPages(values.visible, tabs)
  IN  [tabs |-> tabs, visible |-> visible,
       nav |-> ApplyPageOrder(nav, visible)]

LoadedSidebar(values, newer) ==
  ApplySidebar(TabIds[newer], Navigation[newer], values)

(* What the user sees: in each section its visible pages.                  *)
ShownSidebar(page) == [s \in Sections |-> Among(page.nav[s], TabsOf(page.visible))]

-----------------------------------------------------------------------------
(* `tabs': the pages of the list that was saved.                           *)
NoSave ==
  [stage |-> "none", waiting |-> FALSE, visible |-> EmptyList, tabs |-> {}]

(* `pending': what was read is not in that form, and still to be written.  *)
NoRead == [visible |-> EmptyList, known |-> {}, pending |-> FALSE]

(* The settings are of a version that did not know what is known yet.      *)
SidebarInit ==
  /\ upgraded \in BOOLEAN
  /\ \E visible \in Lists :
       /\ FIXED_SIDEBAR_TAB_IDS \subseteq TabsOf(visible)
       /\ ~(TabsOf(visible) \subseteq FIXED_SIDEBAR_TAB_IDS)
       /\ TabsOf(visible) \subseteq TabsOf(TabIds[FALSE])
       /\ row = SettingsForUser([visible |-> visible, known |-> Unset], upgraded)
       /\ hidden = TabsOf(TabIds[FALSE]) \ TabsOf(visible)
  /\ sidebar = LoadedSidebar(row, upgraded)
  /\ save = [k \in Saves |-> NoSave]
  /\ read = [a \in Saves \union Visits |-> NoRead]
  /\ unseen = {} /\ unsure = FALSE /\ overwritten = FALSE

UnderWay == {k \in Saves : save[k] # NoSave}
RoomForOneMore ==
  Cardinality(UnderWay) + Cardinality({v \in Visits : read[v] # NoRead}) < MaxUnderWay

(* The server starts again: no request is at work on it.                   *)
Upgrade ==
  /\ ~upgraded /\ upgraded' = TRUE
  /\ \A a \in Saves \union Visits : read[a] = NoRead
  /\ UNCHANGED <<row, sidebar, save, read, history>>

(* A page load reads the row and keeps it until the page arrives.  A save  *)
(* keeps only what it is to write back; if that is nothing, or it is done  *)
(* at once, the choice replaces it, and PostSettings is the whole save.    *)
ReadSettings(a) ==
  /\ read[a] = NoRead
  /\ a \in Saves => save[a].stage = "sent" /\ SettingsForUser(row, upgraded) # row
  /\ a \in Visits => RoomForOneMore
  /\ read' = [read EXCEPT ![a] =
                [visible |-> row.visible, known |-> row.known,
                 pending |-> SettingsForUser(row, upgraded) # row]]
  /\ UNCHANGED <<upgraded, row, sidebar, save, history>>

(* Since a has read it, the row has been given other settings.             *)
Overtaken(a) == SettingsForUser(row, upgraded) # SettingsForUser(read[a], upgraded)

(* The row is written as a has read it, whatever it is by now.             *)
StoreNormalized(a) ==
  LET values == SettingsForUser(read[a], upgraded)
  IN  /\ read[a].pending
      /\ row' = values
      /\ read' = [read EXCEPT ![a] =
                    IF a \in Saves THEN NoRead
                    ELSE [visible |-> values.visible, known |-> values.known,
                          pending |-> FALSE]]
      /\ overwritten' = (overwritten \/ Overtaken(a))
      /\ unsure' = (unsure \/ Overtaken(a))
      /\ UNCHANGED <<upgraded, sidebar, save, hidden, unseen>>

(* The tab is loaded again, with what was read.                            *)
ReloadSidebar(v) ==
  /\ read[v] # NoRead /\ ~read[v].pending
  /\ sidebar' = LoadedSidebar(SettingsForUser(read[v], upgraded), upgraded)
  /\ read' = [read EXCEPT ![v] = NoRead]
  /\ save' = [k \in Saves |-> IF save[k].stage = "sent"
                                THEN [save[k] EXCEPT !.waiting = FALSE] ELSE NoSave]
  /\ unsure' = ((\E k \in Saves : save[k].stage = "sent") \/ Overtaken(v))
  /\ UNCHANGED <<upgraded, row, hidden, unseen, overwritten>>

(* The page is not this tab's, or never arrives.                           *)
VisitLost(v) ==
  /\ read[v] # NoRead
  /\ read' = [read EXCEPT ![v] = NoRead]
  /\ UNCHANGED <<upgraded, row, sidebar, save, history>>

(* The list has the pages of a section together, and the pages and the     *)
(* sections in any order, dragged or moved by keys.                        *)
InSections(list) ==
  /\ \A p, q, r \in TabsOf(list) :
       <<p, q>> \in list /\ <<q, r>> \in list /\ SectionOf[p] = SectionOf[r]
         => SectionOf[q] = SectionOf[p]
  /\ \A p, q \in TabsOf(list) :
       <<p, q>> \in SIDEBAR_TAB_IDS /\ SectionOf[p] # SectionOf[q]
         => <<p, q>> \in list \/ SectionsMove

(* What is saved: the pages of the list that are checked or fixed.         *)
Selections ==
  {Among(list, checked \union FIXED_SIDEBAR_TAB_IDS) :
     list \in {list \in Lists : InSections(list)}, checked \in SUBSET SidebarPages}

(* The fixed pages alone are refused.                                      *)
SaveSidebarSettings(k) ==
  /\ save[k] = NoSave /\ RoomForOneMore
  /\ \E selected \in Selections :
       /\ TabsOf(selected) \subseteq TabsOf(sidebar.tabs)
       /\ FIXED_SIDEBAR_TAB_IDS \subseteq TabsOf(selected)
       /\ ~(TabsOf(selected) \subseteq FIXED_SIDEBAR_TAB_IDS)
       /\ save' = [save EXCEPT ![k] =
                     [stage |-> "sent", waiting |-> TRUE, tabs |-> TabsOf(sidebar.tabs),
                      visible |-> NormalizeSidebarPages(selected, sidebar.tabs)]]
  /\ unsure' = (unsure \/ UnderWay # {})
  /\ UNCHANGED <<upgraded, row, sidebar, read, hidden, unseen, overwritten>>

(* Mutant of PostSettings: what is known is not saved.                     *)
PostSettingsMutant(k) ==
  LET visible == NormalizeTabs(save[k].visible, TabIds[upgraded])
  IN  /\ save[k].stage = "sent" /\ read[k] = NoRead
      /\ row' = [visible |-> visible, known |-> Unset]
      /\ save' = [save EXCEPT ![k] =
                    IF @.waiting
                      THEN [@ EXCEPT !.stage = "answered", !.visible = visible]
                      ELSE NoSave]
      /\ overwritten' = FALSE
      /\ hidden' = save[k].tabs \ TabsOf(visible)
      /\ unseen' = TabsOf(TabIds[upgraded]) \ save[k].tabs
      /\ UNCHANGED <<upgraded, sidebar, read, unsure>>

(* All the pages the server has now are taken as known to the user.        *)
PostSettings(k) ==
  LET all == TabIds[upgraded]
      visible == NormalizeTabs(save[k].visible, all)
  IN  /\ save[k].stage = "sent" /\ read[k] = NoRead
      /\ row' = [visible |-> visible, known |-> TabsOf(all)]
      /\ save' = [save EXCEPT ![k] =
                    IF @.waiting
                      THEN [@ EXCEPT !.stage = "answered", !.visible = visible]
                      ELSE NoSave]
      /\ overwritten' = FALSE
      /\ hidden' = save[k].tabs \ TabsOf(visible)
      /\ unseen' = TabsOf(all) \ save[k].tabs
      /\ UNCHANGED <<upgraded, sidebar, read, unsure>>

SettingsSaved(k) ==
  /\ save[k].stage = "answered"
  /\ sidebar' = ApplySidebar(sidebar.tabs, sidebar.nav, save[k])
  /\ save' = [save EXCEPT ![k] = NoSave]
  /\ UNCHANGED <<upgraded, row, read, history>>

(* An error, or 20 seconds have passed; it may be carried out all the same. *)
SaveFails(k) ==
  /\ save[k].waiting
  /\ save' = [save EXCEPT ![k] = IF @.stage = "answered" THEN NoSave
                                 ELSE [@ EXCEPT !.waiting = FALSE]]
  /\ unsure' = TRUE
  /\ UNCHANGED <<upgraded, row, sidebar, read, hidden, unseen, overwritten>>

(* Or the request is lost, at any point before it writes the choice.       *)
RequestLost(k) ==
  /\ save[k].stage = "sent" /\ ~save[k].waiting
  /\ save' = [save EXCEPT ![k] = NoSave]
  /\ read' = [read EXCEPT ![k] = NoRead]
  /\ UNCHANGED <<upgraded, row, sidebar, history>>

SidebarNext ==
  \/ Upgrade
  \/ \E a \in Saves \union Visits : ReadSettings(a) \/ StoreNormalized(a)
  \/ \E v \in Visits : ReloadSidebar(v) \/ VisitLost(v)
  \/ \E k \in Saves :
       \/ SaveSidebarSettings(k) \/ PostSettings(k) \/ SettingsSaved(k)
       \/ SaveFails(k) \/ RequestLost(k)

SidebarSpec == SidebarInit /\ [][SidebarNext]_sidebarVars

SidebarTypeOK ==
  /\ upgraded \in BOOLEAN
  /\ row \in [visible : Lists, known : SUBSET SidebarPages]
  /\ sidebar.tabs \in Lists /\ sidebar.visible \in Lists
  /\ sidebar.nav \in [Sections -> Lists]
  /\ save \in [Saves -> [stage : {"none", "sent", "answered"}, waiting : BOOLEAN,
                         visible : Lists, tabs : SUBSET SidebarPages]]
  /\ read \in [Saves \union Visits ->
                [visible : Lists, known : SUBSET SidebarPages, pending : BOOLEAN]]
  /\ hidden \subseteq SidebarPages /\ unseen \subseteq SidebarPages
  /\ unsure \in BOOLEAN /\ overwritten \in BOOLEAN

-----------------------------------------------------------------------------
(* With no save under way, the sidebar is the one that a reload would show *)
(* of the pages the tab has: the same pages in the same order; what        *)
(* the tab makes of an answer is what the server makes of the row          *)
(* (initSidebarSettings, applySidebarPageOrder, _sidebar_settings_values). *)
(* Not so if saves have overlapped or failed, or a request has written     *)
(* back a row that was changed in between, since the tab was loaded.       *)
SidebarIsSaved ==
  UnderWay = {} /\ ~unsure =>
    LET values == SettingsForUser(row, upgraded)
        reloaded == ShownSidebar(LoadedSidebar(values, upgraded))
    IN  ShownSidebar(sidebar) =
          [s \in Sections |-> Among(reloaded[s], TabsOf(sidebar.tabs))]

(* The pages that a user does not get are exactly those that the last save *)
(* left unchecked, and those that its list did not have because it was of  *)
(* the version before; every other new page is shown, and what was hidden  *)
(* stays hidden across versions (_add_new_sidebar_tabs).  Not so from the  *)
(* time a request has written back the row that it had read before that    *)
(* save (_sidebar_settings_for_user), until the next save is carried out.  *)
HiddenIsChosen ==
  ~overwritten =>
    TabsOf(TabIds[upgraded]) \ TabsOf(SettingsForUser(row, upgraded).visible)
      = hidden \union unseen
=============================================================================
