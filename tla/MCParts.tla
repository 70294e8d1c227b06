------------------------------ MODULE MCParts ------------------------------
(***************************************************************************)
(* Parts for TLC: the pages of the sidebar, and the loop that adds new     *)
(* ones to it, with which the operator of the model is compared.           *)
(***************************************************************************)
EXTENDS Parts, TLC
LOCAL INSTANCE SequencesExt
LOCAL INSTANCE FiniteSetsExt

(* The sidebar: four of the twenty pages, one of them new, in three of the *)
(* five sections.                                                          *)
FourTabs == <<"tables", "toast-tables", "queries", "settings">>
SectionOfTab ==
  [tab \in ToSet(FourTabs) |-> CASE tab = "queries" -> "performance"
                                 [] tab = "settings" -> "additional"
                                 [] OTHER -> "data"]

OrderOf(seq) ==
  {<<seq[at[1]], seq[at[2]]>> :
     at \in {at \in (1..Len(seq)) \X (1..Len(seq)) : at[1] <= at[2]}}

FourTabsInOrder == OrderOf(FourTabs)

(* The loop of _add_new_sidebar_tabs, page by page in the server's order.  *)
InsertNewTabs(visible, known) ==
  LET seen == IF known = Unset
                THEN ToSet(FourTabs) \ SIDEBAR_TABS_ADDED_LATER ELSE known
      Insert(result, i) ==
        LET previous == {j \in 1..(i - 1) : FourTabs[j] \in ToSet(result)}
            position == IF previous = {} THEN 1
                          ELSE 1 + CHOOSE at \in DOMAIN result :
                                     result[at] = FourTabs[Max(previous)]
        IN  IF FourTabs[i] \in seen \union ToSet(result)
              THEN result ELSE InsertAt(result, position, FourTabs[i])
  IN  FoldLeft(Insert, visible, <<1, 2, 3, 4>>)

(* AddNewTabs gives the order that the loop makes, whatever is visible and *)
(* known.                                                                  *)
ASSUME AddsAsTheLoop ==
  \A visible \in UNION {SetToSeqs(tabs) : tabs \in SUBSET ToSet(FourTabs)} :
    \A known \in SUBSET ToSet(FourTabs) \union {Unset} :
      AddNewTabs(OrderOf(visible), known, FourTabsInOrder)
        = OrderOf(InsertNewTabs(visible, known))

Interchangeable ==
  Permutations(Connections) \union Permutations(Requests) \union Permutations(Texts)
=============================================================================
