------------------------------- MODULE Parts -------------------------------
(***************************************************************************)
(* The pages of the tab and the smaller services of the server in one      *)
(* specification: a behaviour is about one part, chosen at the start, and  *)
(* the other parts stand still in a state they may start in.               *)
(***************************************************************************)
EXTENDS
  PagedTable, Favorites, Distribution, Panels, SidebarSettings, Logins,
  RateLimit, PaginationSizes

VARIABLE part

partsVars ==
  <<part, vars, favoritesVars, distributionVars, panelVars, sidebarVars,
    loginVars, rateVars, sizesVars>>

Services == {"logins", "rate", "sizes"}

(* Only one start of the parts that stand still is of interest.            *)
About(p, quiet) == part = p \/ quiet

(* ToastTables does what Views does, and less.                             *)
PartsInit ==
  /\ part \in {"table", "favorites", "distribution", "panel", "sidebar"} \union Services
  /\ SidebarInit /\ About("sidebar", row.visible = TabIds[FALSE])
  /\ Init /\ which # ToastTables
  /\ About("table", which = TempTables /\ state.size = 1)
  /\ FavoritesInit /\ About("favorites", rows = [c \in Connections |-> {}])
  /\ DistributionInit
  /\ PanelsInit /\ About("panel", panel = "overview" /\ greenplum = {})
  /\ LoginsInit /\ RateInit /\ SizesInit
  /\ part \in {"sidebar"} \union Services => connections = {}

Only(p) ==
  /\ part = p /\ UNCHANGED part
  /\ p # "table" => UNCHANGED tableVars
  /\ p # "favorites" => UNCHANGED favoritesVars
  /\ p # "distribution" => UNCHANGED distributionVars
  /\ p # "panel" => UNCHANGED panelVars
  /\ p # "sidebar" => UNCHANGED sidebarVars
  /\ p # "logins" => UNCHANGED loginVars
  /\ p # "rate" => UNCHANGED rateVars
  /\ p # "sizes" => UNCHANGED sizesVars

PartsNext ==
  \/ Only("table") /\ Next
  \/ Only("favorites") /\ FavoritesNext
  \/ Only("distribution") /\ DistributionNext
  \/ Only("panel") /\ PanelsNext
  \/ UNCHANGED listVars /\ (\/ Only("sidebar") /\ SidebarNext
                            \/ Only("logins") /\ LoginsNext
                            \/ Only("rate") /\ RateNext
                            \/ Only("sizes") /\ SizesNext)

PartsSpec == PartsInit /\ [][PartsNext]_partsVars

(* Every variable of every part, and of the tab's list of connections, has *)
(* the values that its comment names.                                      *)
PartsTypeOK ==
  /\ ListTypeOK
  /\ part = "table" => TypeOK
  /\ part = "favorites" => FavoritesTypeOK
  /\ part = "distribution" => DistributionTypeOK
  /\ part = "panel" => PanelsTypeOK
  /\ part = "sidebar" => SidebarTypeOK
  /\ part = "logins" => LoginsTypeOK
  /\ part = "rate" => RateTypeOK
  /\ part = "sizes" => SizesTypeOK
=============================================================================
