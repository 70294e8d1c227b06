---------------------------- MODULE Parts_proofs ----------------------------
(***************************************************************************)
(* A behaviour of the composition that is about a part is a behaviour of   *)
(* the part's own specification: what has been proved of each part is so   *)
(* in the composition.                                                     *)
(***************************************************************************)
EXTENDS Parts, PagedTable_proofs, Pages_proofs, Services_proofs, TLAPS

LEMMA PartsStart ==
  PartsInit =>
    /\ ListInit /\ Init /\ FavoritesInit /\ DistributionInit /\ PanelsInit
    /\ SidebarInit /\ LoginsInit /\ RateInit /\ SizesInit
    /\ part \in {"table", "favorites", "distribution", "panel", "sidebar"} \union Services
BY DEF PartsInit, Init

(* The other parts, and what a behaviour is about, stand still.            *)
LEMMA PartsSteps ==
  [PartsNext]_partsVars =>
    /\ UNCHANGED part
    /\ part = "table" => [Next]_vars
    /\ part = "favorites" => [FavoritesNext]_<<listVars, favoritesVars>>
    /\ part = "distribution" => [DistributionNext]_<<listVars, distributionVars>>
    /\ part = "panel" => [PanelsNext]_<<listVars, panelVars>>
    /\ part \in {"sidebar"} \union Services => UNCHANGED listVars
    /\ part = "sidebar" => [SidebarNext]_sidebarVars
    /\ part = "logins" => [LoginsNext]_loginVars
    /\ part = "rate" => [RateNext]_rateVars
    /\ part = "sizes" => [SizesNext]_sizesVars
<1> SUFFICES ASSUME [PartsNext]_partsVars
             PROVE  /\ UNCHANGED part
                    /\ part = "table" => [Next]_vars
                    /\ part = "favorites" => [FavoritesNext]_<<listVars, favoritesVars>>
                    /\ part = "distribution"
                         => [DistributionNext]_<<listVars, distributionVars>>
                    /\ part = "panel" => [PanelsNext]_<<listVars, panelVars>>
                    /\ part \in {"sidebar"} \union Services => UNCHANGED listVars
                    /\ part = "sidebar" => [SidebarNext]_sidebarVars
                    /\ part = "logins" => [LoginsNext]_loginVars
                    /\ part = "rate" => [RateNext]_rateVars
                    /\ part = "sizes" => [SizesNext]_sizesVars
  OBVIOUS
<1>1. CASE UNCHANGED partsVars
  <2>1. /\ UNCHANGED part /\ UNCHANGED vars /\ UNCHANGED favoritesVars
        /\ UNCHANGED distributionVars /\ UNCHANGED panelVars /\ UNCHANGED sidebarVars
        /\ UNCHANGED loginVars /\ UNCHANGED rateVars /\ UNCHANGED sizesVars
    BY <1>1 DEF partsVars
  <2>2. UNCHANGED listVars
    BY <2>1 DEF vars
  <2> QED
    BY <2>1, <2>2
<1>2. CASE PartsNext
  BY <1>2 DEF PartsNext, Only, Services
<1> QED
  BY <1>1, <1>2

(* What the run checks of a part it checks of all behaviours of the part's *)
(* specification that start where the composition does: a page and what    *)
(* answers it take no step that the other parts could see or disturb.      *)
THEOREM EachPartIsItself ==
  PartsSpec =>
    /\ part = "table" => Spec
    /\ part = "favorites" => FavoritesSpec
    /\ part = "distribution" => DistributionSpec
    /\ part = "panel" => PanelsSpec
    /\ part = "sidebar" => SidebarSpec
    /\ part = "logins" => LoginsSpec
    /\ part = "rate" => RateSpec
    /\ part = "sizes" => SizesSpec
<1>1. PartsSpec => (part = "table" => Spec)
  <2>1. [PartsNext]_partsVars /\ part = "table" => (part = "table")' /\ [Next]_vars
    BY PartsSteps
  <2> QED
    BY <2>1, PartsStart, PTL DEF PartsSpec, Spec
<1>2. PartsSpec => (part = "favorites" => FavoritesSpec)
  <2>1. [PartsNext]_partsVars /\ part = "favorites" => (part = "favorites")' /\ [FavoritesNext]_<<listVars, favoritesVars>>
    BY PartsSteps
  <2> QED
    BY <2>1, PartsStart, PTL DEF PartsSpec, FavoritesSpec
<1>3. PartsSpec => (part = "distribution" => DistributionSpec)
  <2>1. [PartsNext]_partsVars /\ part = "distribution" => (part = "distribution")' /\ [DistributionNext]_<<listVars, distributionVars>>
    BY PartsSteps
  <2> QED
    BY <2>1, PartsStart, PTL DEF PartsSpec, DistributionSpec
<1>4. PartsSpec => (part = "panel" => PanelsSpec)
  <2>1. [PartsNext]_partsVars /\ part = "panel" => (part = "panel")' /\ [PanelsNext]_<<listVars, panelVars>>
    BY PartsSteps
  <2> QED
    BY <2>1, PartsStart, PTL DEF PartsSpec, PanelsSpec
<1>5. PartsSpec => (part = "sidebar" => SidebarSpec)
  <2>1. [PartsNext]_partsVars /\ part = "sidebar" => (part = "sidebar")' /\ [SidebarNext]_sidebarVars
    BY PartsSteps
  <2> QED
    BY <2>1, PartsStart, PTL DEF PartsSpec, SidebarSpec
<1>6. PartsSpec => (part = "logins" => LoginsSpec)
  <2>1. [PartsNext]_partsVars /\ part = "logins" => (part = "logins")' /\ [LoginsNext]_loginVars
    BY PartsSteps
  <2> QED
    BY <2>1, PartsStart, PTL DEF PartsSpec, LoginsSpec
<1>7. PartsSpec => (part = "rate" => RateSpec)
  <2>1. [PartsNext]_partsVars /\ part = "rate" => (part = "rate")' /\ [RateNext]_rateVars
    BY PartsSteps
  <2> QED
    BY <2>1, PartsStart, PTL DEF PartsSpec, RateSpec
<1>8. PartsSpec => (part = "sizes" => SizesSpec)
  <2>1. [PartsNext]_partsVars /\ part = "sizes" => (part = "sizes")' /\ [SizesNext]_sizesVars
    BY PartsSteps
  <2> QED
    BY <2>1, PartsStart, PTL DEF PartsSpec, SizesSpec
<1> QED
  BY <1>1, <1>2, <1>3, <1>4, <1>5, <1>6, <1>7, <1>8

(* What each part promises, it keeps as a part: the pages show what was    *)
(* asked of the selected connection, the stars and the sidebar follow the  *)
(* server, and the services hold their limits, with the exceptions that    *)
(* each property states.                                                   *)
THEOREM PartsKeepPromises ==
  PartsSpec =>
    /\ part = "table" =>
         /\ []ShownIsAsked /\ []ErrorLeavesNothing /\ []LoadingIsAwaited /\ []WayBack
         /\ ImplementsLatestAnswer
    /\ part = "favorites" => []StarIsRight
    /\ part = "distribution" => []FiguresAreOfSelected /\ FiguresImplementLatestAnswer
    /\ part = "panel" => []PanelIsOfSelected /\ []UpdateIsAwaited
    /\ part = "sidebar" => []SidebarIsSaved /\ []HiddenIsChosen
    /\ part = "logins" => []LockoutIsKept
    /\ part = "rate" => []WindowIsLimited
    /\ part = "sizes" => []SizesAreKept
BY EachPartIsItself, ShownRowsAreAsked, ErrorsLeaveNothing, LoadingOnlyWhileAwaited,
   WayBackAlways, Implements, StarsAreRight, FiguresBelong, FiguresImplement,
   PanelsAreOfSelected, UpdatesAreAwaited, SidebarStaysSaved, HiddenStaysChosen,
   LockoutsAreKept, LimitHolds, SizesStay, PTL

-----------------------------------------------------------------------------
(* The inductive invariants of the parts, each of its own.                 *)
PartsInv ==
  /\ ListTypeOK
  /\ part = "table" => Inv
  /\ part = "favorites" => FavoritesInv
  /\ part = "distribution" => DistributionInv
  /\ part = "panel" => PanelInv
  /\ part = "sidebar" => SidebarIInv
  /\ part = "logins" => LoginsInv
  /\ part = "rate" => RateInv
  /\ part = "sizes" => SizesInv /\ SizesOffered
  /\ part \in {"table", "favorites", "distribution", "panel", "sidebar"} \union Services

LEMMA PartsInvStart == PartsInit => PartsInv
<1> SUFFICES ASSUME PartsInit PROVE PartsInv
  OBVIOUS
<1>1. ListTypeOK
  BY PartsStart DEF ListInit, ListTypeOK
<1>2. SizesOffered
  BY PartsStart, IdleType DEF SizesInit, SizesOffered, Editing
<1> QED
  BY <1>1, <1>2, PartsStart, InvInit, FavoritesStart, DistributionStart, PanelsStart,
     SidebarInitRight, LoginsInitInv, RateInitInv, SizesStart
     DEF PartsInv

LEMMA PartsInvStep == PartsInv /\ [PartsNext]_partsVars => PartsInv'
<1> SUFFICES ASSUME PartsInv, [PartsNext]_partsVars PROVE PartsInv'
  OBVIOUS
<1>1. CASE part = "table"
  <2>1. Inv' /\ UNCHANGED part
    BY <1>1, PartsSteps, InvInductive DEF PartsInv
  <2> QED
    BY <1>1, <2>1 DEF PartsInv, Inv, Sound, TypeOK
<1>2. CASE part = "favorites"
  <2>1. FavoritesInv' /\ UNCHANGED part
    BY <1>2, PartsSteps, FavoritesSteps DEF PartsInv
  <2> QED
    BY <1>2, <2>1 DEF PartsInv, FavoritesInv, FavoritesTypes
<1>3. CASE part = "distribution"
  <2>1. DistributionInv' /\ UNCHANGED part
    BY <1>3, PartsSteps, DistributionSteps DEF PartsInv
  <2> QED
    BY <1>3, <2>1 DEF PartsInv, DistributionInv, DistributionTypes
<1>4. CASE part = "panel"
  <2>1. PanelInv' /\ UNCHANGED part
    BY <1>4, PartsSteps, PanelsInductive DEF PartsInv
  <2> QED
    BY <1>4, <2>1 DEF PartsInv, PanelInv
<1>5. CASE part \in {"sidebar"} \union Services
  <2>1. ListTypeOK' /\ UNCHANGED part
    BY <1>5, PartsSteps DEF PartsInv, listVars, ListTypeOK
  <2>2. part = "sidebar" => SidebarIInv'
    BY PartsSteps, SidebarNextKeeps DEF PartsInv
  <2>3. part = "logins" => LoginsInv'
    BY PartsSteps, LoginsInductive DEF PartsInv
  <2>4. part = "rate" => RateInv'
    BY PartsSteps, RateInductive DEF PartsInv
  <2>5. part = "sizes" => SizesInv' /\ SizesOffered'
    BY PartsSteps, SizesInductive, OfferedInductive
       DEF PartsInv, SizesInv, SizesOffered, sizesVars
  <2> QED
    BY <1>5, <2>1, <2>2, <2>3, <2>4, <2>5 DEF PartsInv, Services
<1> QED
  BY <1>1, <1>2, <1>3, <1>4, <1>5 DEF PartsInv

LEMMA PartsInvAlways == PartsSpec => []PartsInv
BY PartsInvStart, PartsInvStep, PTL DEF PartsSpec

LEMMA FavoritesTyped == FavoritesTypes => FavoritesTypeOK
<1> SUFFICES ASSUME FavoritesTypes PROVE FavoritesTypeOK
  OBVIOUS
<1> QED
  BY DEF FavoritesTypes, CallTypes, CallType, FavoritesTypeOK

LEMMA DistributionTyped == DistributionTypes => DistributionTypeOK
BY DEF DistributionTypes, ListingType, PickerType, FigureType, DistributionTypeOK

(* The variables of every part, and of the tab's list of connections, have *)
(* the values that their comments name, for any connections, requests,     *)
(* users and callers.                                                      *)
THEOREM PartsTypesCorrect == PartsSpec => []PartsTypeOK
<1>1. PartsInv => PartsTypeOK
  <2> SUFFICES ASSUME PartsInv PROVE PartsTypeOK
    OBVIOUS
  <2>1. part = "table" => TypeOK
    BY DEF PartsInv, Inv, Sound
  <2>2. part = "favorites" => FavoritesTypeOK
    BY FavoritesTyped DEF PartsInv, FavoritesInv
  <2>3. part = "distribution" => DistributionTypeOK
    BY DistributionTyped DEF PartsInv, DistributionInv
  <2>4. part = "panel" => PanelsTypeOK
    BY DEF PartsInv, PanelInv
  <2>5. part = "sidebar" => SidebarTypeOK
    BY DEF PartsInv, SidebarIInv
  <2>6. part = "logins" => LoginsTypeOK
    BY DEF PartsInv, LoginsInv
  <2>7. part = "rate" => RateTypeOK
    BY DEF PartsInv, RateInv
  <2>8. part = "sizes" => SizesTypeOK
    BY DEF PartsInv, SizesInv, SizesTypes, SizesOffered, SizesTypeOK, EditType
  <2> QED
    BY <2>1, <2>2, <2>3, <2>4, <2>5, <2>6, <2>7, <2>8 DEF PartsInv, PartsTypeOK
<1> QED
  BY <1>1, PartsInvAlways, PTL
=============================================================================
