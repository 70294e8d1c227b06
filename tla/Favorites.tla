----------------------------- MODULE Favorites -----------------------------
(***************************************************************************)
(* The favourites of one user: rows of a table on the server, one list and *)
(* one set of stars in a browser tab (static/js/home.js, and the view      *)
(* favorites of views/additional.py).                                      *)
(*                                                                         *)
(* A click on a star asks the server to toggle the row of the object; the  *)
(* stars are what the last list and the last answers said.  Lists carry no *)
(* request numbers, selecting another connection does not read its list,   *)
(* and a request the tab gives up goes on at the server.                   *)
(*                                                                         *)
(* History variable: `doubtful', the objects whose star nothing vouches    *)
(* for; see StarIsRight.  Bounds: one tab; at most as many requests under  *)
(* way as there are Calls.                                                 *)
(***************************************************************************)
EXTENDS ConnectionList, Naturals, FiniteSets

CONSTANTS
  Objects,        \* objects that may be favourites
  Calls           \* bound: requests under way at once

VARIABLES
  rows,           \* rows[c]: the favourites of connection c in the table
  favoriteKeys,   \* objects with a full star; favoriteItems names the same
  disabled,       \* objects whose star cannot be clicked
  call,           \* call[k]: a request under way
  doubtful

favoritesVars ==
  <<rows, favoriteKeys, disabled, call, doubtful>>

(* `waiting': the tab has not given the request up.  A list is "sent" and  *)
(* then "answered"; a toggle may have "found" the row it is to delete,     *)
(* which may be "gone" by then.  `says': the list, or whether the object   *)
(* is a favourite now; `missed': objects toggled since the list was read.  *)
NoCall ==
  [what |-> "none", conn |-> None, object |-> None, stage |-> "answered",
   says |-> {}, missed |-> {}, waiting |-> FALSE]

List(c) ==
  [what |-> "list", conn |-> c, object |-> None, stage |-> "sent",
   says |-> {}, missed |-> {}, waiting |-> TRUE]

Toggle(c, o) ==
  [what |-> "toggle", conn |-> c, object |-> o, stage |-> "sent",
   says |-> {}, missed |-> {}, waiting |-> TRUE]

FavoritesTypeOK ==
  /\ rows \in [Connections -> SUBSET Objects]
  /\ favoriteKeys \subseteq Objects
  /\ disabled \subseteq Objects
  /\ call \in [Calls -> [what : {"none", "list", "toggle"},
                         conn : Connections \union {None},
                         object : Objects \union {None},
                         stage : {"sent", "found", "gone", "answered"},
                         says : SUBSET Objects, missed : SUBSET Objects,
                         waiting : BOOLEAN]]
  /\ doubtful \subseteq Objects

FavoritesInit ==
  /\ rows \in [Connections -> SUBSET Objects]
  /\ favoriteKeys = {}
  /\ disabled = {}
  /\ call = [k \in Calls |-> NoCall]
  /\ doubtful = Objects

-----------------------------------------------------------------------------
(* The toggles of o that go to connection c, given up or not.              *)
Toggling(c, o) ==
  {k \in Calls : call[k].what = "toggle" /\ call[k].conn = c /\ call[k].object = o}

(* The page of favourites is opened, or the tab has just been loaded.      *)
LoadFavorites(k) ==
  /\ active # None /\ call[k] = NoCall
  /\ call' = [call EXCEPT ![k] = List(active)]
  /\ UNCHANGED <<listVars, rows, favoriteKeys, disabled, doubtful>>

(* Mutant of FavoritesLoaded: the list is shown whatever is selected.      *)
FavoritesLoadedMutant(k) ==
  LET answer == call[k]
  IN  /\ answer.what = "list" /\ answer.stage = "answered"
      /\ call' = [call EXCEPT ![k] = NoCall]
      /\ favoriteKeys' = answer.says
      /\ disabled' = {}
      /\ doubtful' = answer.missed
                       \union {o \in doubtful : Toggling(answer.conn, o) # {}}
      /\ UNCHANGED <<listVars, rows>>

(* The list replaces stars and list if its connection is still selected.   *)
(* The rows of the page of favourites are new, and so are their stars.     *)
FavoritesLoaded(k) ==
  LET answer == call[k]
  IN  /\ answer.what = "list" /\ answer.stage = "answered"
      /\ call' = [call EXCEPT ![k] = NoCall]
      /\ IF answer.conn = active
           THEN /\ favoriteKeys' = answer.says
                /\ disabled' = {}
                /\ doubtful' = answer.missed
                     \union {o \in doubtful : Toggling(answer.conn, o) # {}}
           ELSE UNCHANGED <<favoriteKeys, disabled, doubtful>>
      /\ UNCHANGED <<listVars, rows>>

(* A list that fails leaves everything.                                    *)
FavoritesFail(k) ==
  /\ call[k].what = "list"
  /\ call' = [call EXCEPT ![k] = NoCall]
  /\ UNCHANGED <<listVars, rows, favoriteKeys, disabled, doubtful>>

-----------------------------------------------------------------------------
(* A click on the star of o, which is disabled until the answer.  A second *)
(* toggle under way makes the star depend on the order of the answers.     *)
ClickStar(k, o) ==
  /\ active # None /\ call[k] = NoCall
  /\ o \notin disabled
  /\ disabled' = disabled \union {o}
  /\ call' = [call EXCEPT ![k] = Toggle(active, o)]
  /\ doubtful' = IF Toggling(active, o) # {} THEN doubtful \union {o} ELSE doubtful
  /\ UNCHANGED <<listVars, rows, favoriteKeys>>

(* A table of the tab, or a page of the list of favourites, is written     *)
(* anew, with stars that can be clicked.                                   *)
TableRendered ==
  /\ disabled # {}
  /\ disabled' = {}
  /\ UNCHANGED <<listVars, rows, favoriteKeys, call, doubtful>>

ApplyFavoriteChange(o, isFavorite) ==
  favoriteKeys' = IF isFavorite THEN favoriteKeys \union {o} ELSE favoriteKeys \ {o}

(* The page is rendered if it is open, or will be when it is opened.       *)
StarAnswered(k) ==
  LET answer == call[k]
  IN  /\ answer.what = "toggle" /\ answer.stage = "answered" /\ answer.waiting
      /\ IF answer.conn = active
           THEN ApplyFavoriteChange(answer.object, answer.says # {})
           ELSE UNCHANGED favoriteKeys
      /\ call' = [call EXCEPT ![k] = NoCall]
      /\ disabled' = disabled \ {answer.object}
      /\ UNCHANGED <<listVars, rows, doubtful>>

(* An error, a lost answer, or 20 seconds have passed; the server may      *)
(* have toggled the row, or be about to.                                   *)
Doubt(request) ==
  doubtful' = IF request.conn = active THEN doubtful \union {request.object}
                                       ELSE doubtful

StarFails(k) ==
  /\ call[k].what = "toggle" /\ call[k].waiting
  /\ call' = [call EXCEPT ![k] = IF @.stage = "answered"
                                   THEN NoCall
                                   ELSE [@ EXCEPT !.waiting = FALSE]]
  /\ disabled' = disabled \ {call[k].object}
  /\ Doubt(call[k])
  /\ UNCHANGED <<listVars, rows, favoriteKeys>>

-----------------------------------------------------------------------------
ServeList(k) ==
  /\ call[k].what = "list" /\ call[k].stage = "sent"
  /\ call' = [call EXCEPT ![k].stage = "answered", ![k].says = rows[call[k].conn]]
  /\ UNCHANGED <<listVars, rows, favoriteKeys, disabled, doubtful>>

(* What the other requests under way learn from the end of toggle k, which *)
(* is answered, or forgotten if nobody waits for it.                       *)
Ended(k, isFavorite) ==
  LET request == call[k]
      about(other) == other.conn = request.conn /\ other.stage = "answered"
  IN  [j \in Calls |->
        IF j = k
          THEN IF request.waiting
                 THEN [request EXCEPT !.stage = "answered",
                         !.says = IF isFavorite THEN {request.object} ELSE {}]
                 ELSE NoCall
        ELSE IF call[j].what = "list" /\ about(call[j])
          THEN [call[j] EXCEPT !.missed = @ \union {request.object}]
        ELSE IF ~isFavorite /\ j \in Toggling(request.conn, request.object)
                /\ call[j].stage = "found"
          THEN [call[j] EXCEPT !.stage = "gone"]
        ELSE call[j]]

ForgetStar(request) == IF request.waiting THEN UNCHANGED doubtful ELSE Doubt(request)

(* get_or_create: the row is created, or found.                            *)
GetOrCreate(k) ==
  LET request == call[k]
  IN  /\ request.what = "toggle" /\ request.stage = "sent"
      /\ IF request.object \in rows[request.conn]
           THEN /\ call' = [call EXCEPT ![k].stage = "found"]
                /\ UNCHANGED <<rows, doubtful>>
           ELSE /\ rows' = [rows EXCEPT ![request.conn] = @ \union {request.object}]
                /\ call' = Ended(k, TRUE)
                /\ ForgetStar(request)
      /\ UNCHANGED <<listVars, favoriteKeys, disabled>>

(* The row that was found is deleted, unless another toggle has done it.   *)
DeleteFavorite(k) ==
  LET request == call[k]
  IN  /\ request.what = "toggle" /\ request.stage \in {"found", "gone"}
      /\ rows' = IF request.stage = "found"
                   THEN [rows EXCEPT ![request.conn] = @ \ {request.object}]
                   ELSE rows
      /\ call' = Ended(k, FALSE)
      /\ ForgetStar(request)
      /\ UNCHANGED <<listVars, favoriteKeys, disabled>>

-----------------------------------------------------------------------------
(* Another connection is selected: the stars stay as they are.             *)
FavoritesRegistry ==
  /\ \/ \E c \in Connections : Select(c) \/ Save(c)
     \/ Delete
  /\ doubtful' = IF active' = active THEN doubtful ELSE Objects
  /\ UNCHANGED <<rows, favoriteKeys, disabled, call>>

FavoritesNext ==
  \/ FavoritesRegistry \/ TableRendered
  \/ \E k \in Calls :
       \/ LoadFavorites(k) \/ FavoritesLoaded(k) \/ FavoritesFail(k)
       \/ \E o \in Objects : ClickStar(k, o)
       \/ StarAnswered(k) \/ StarFails(k)
       \/ ServeList(k) \/ GetOrCreate(k) \/ DeleteFavorite(k)

FavoritesSpec ==
  ListInit /\ FavoritesInit
    /\ [][FavoritesNext]_<<listVars, favoritesVars>>

-----------------------------------------------------------------------------
(* With nothing about it under way, a star says what is in the table, in   *)
(* spite of late lists and of answers about other connections.  The star   *)
(* may be wrong only if nothing has been read since the connection was     *)
(* selected, if a toggle failed, if two toggles of the object overlapped,  *)
(* or if the object was toggled after a list had been read and before it   *)
(* arrived (loadFavorites, applyFavoriteChange).                           *)
StarIsRight ==
  active # None =>
    \A o \in Objects \ doubtful :
      Toggling(active, o) = {} => (o \in favoriteKeys <=> o \in rows[active])
=============================================================================
