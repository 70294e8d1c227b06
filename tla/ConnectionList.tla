-------------------------- MODULE ConnectionList --------------------------
(***************************************************************************)
(* The saved connections that one browser tab lists, and the selected one  *)
(* (static/js/home.js).  The pages of the tab share them: the module of a  *)
(* page extends this one and says what the page does at each of its steps. *)
(*                                                                         *)
(* Saving and deleting wait for the server; the user goes on working, and  *)
(* the answer acts on what is selected when it arrives.                    *)
(***************************************************************************)
CONSTANTS
  Connections,  \* saved connections, of now and later
  None          \* no connection

ASSUME ConnectionAssumption == None \notin Connections

VARIABLES
  connections,  \* the tab's list
  removed,      \* connections the tab has taken off it
  active        \* activeConnectionId

listVars == <<connections, removed, active>>

ListTypeOK ==
  /\ connections \subseteq Connections
  /\ removed \subseteq Connections \ connections
  /\ active \in connections \union {None}

ListInit ==
  /\ connections \in SUBSET Connections
  /\ removed = {}
  /\ active \in IF connections = {} THEN {None} ELSE connections

Select(c) ==
  /\ c \in connections
  /\ active' = c
  /\ UNCHANGED <<connections, removed>>

(* A saved connection takes the place of its old version or, if that is    *)
(* met first in the list and the dialog is now one that edits, of the one  *)
(* selected by now; otherwise it is added.  It is selected.                *)
Save(c) ==
  /\ c \notin removed
  /\ \E lost \in {{}, {active} \ {c, None}} :
       /\ connections' = (connections \ lost) \union {c}
       /\ removed' = removed \union lost
  /\ active' = c

(* The connection selected by now is taken off; another one is selected.   *)
Delete ==
  /\ active # None
  /\ connections' = connections \ {active}
  /\ removed' = removed \union {active}
  /\ active' \in IF connections' = {} THEN {None} ELSE connections'
=============================================================================
