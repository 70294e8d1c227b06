--------------------------- MODULE PaginationSizes --------------------------
(***************************************************************************)
(* The page sizes users choose from: DBPaginationSettings (models.py) and  *)
(* the requests that add, change and delete them, pagination_settings      *)
(* (views/additional.py).  At least one is to stay and at most MaxRecords  *)
(* may be added; each request counts the rows before it writes, without a  *)
(* lock, so other requests come between.                                   *)
(*                                                                         *)
(* History variable: `loose', the table may have too few or too many rows: *)
(* it is empty at first, and requests overlap.  A request alone that       *)
(* leaves neither ends it.                                                 *)
(***************************************************************************)
EXTENDS Naturals, FiniteSets

CONSTANTS
  Editors,      \* requests under way at once
  Ids,          \* keys of rows (bound: the database has more)
  PageSizes,    \* sizes asked for
  MaxRecords,   \* DBPaginationSettings.MAX_RECORDS
  New           \* the key of a row that is not saved yet

ASSUME SizesAssumption ==
  /\ IsFiniteSet(Editors)
  /\ New \notin Ids
  /\ MaxRecords \in Nat \ {0}

VARIABLES
  stored,       \* the table: key |-> size
  edit,         \* edit[e]: what request e does, to which row, how far it is
  loose

sizesVars == <<stored, edit, loose>>

Idle == [at |-> "idle", id |-> New, size |-> 0]

SizesTypeOK ==
  /\ DOMAIN stored \subseteq Ids
  /\ \A id \in DOMAIN stored : stored[id] \in PageSizes
  /\ edit \in [Editors ->
       [at : {"idle", "found", "counted", "editing", "checked"},
        id : Ids \union {New}, size : PageSizes \union {0}]]
  /\ loose \in BOOLEAN

SizesInit ==
  /\ stored = [id \in {} |-> 0]
  /\ edit = [e \in Editors |-> Idle]
  /\ loose = TRUE

-----------------------------------------------------------------------------
Count == Cardinality(DOMAIN stored)

Kept == Count \in 1..MaxRecords

(* The size is another row's.                                              *)
Taken(size, id) == \E i \in DOMAIN stored \ {id} : stored[i] = size

Arrive(e, doing) ==
  /\ edit[e] = Idle
  /\ edit' = [edit EXCEPT ![e] = doing]
  /\ loose' = (loose \/ \E other \in Editors : edit[other] # Idle)
  /\ UNCHANGED stored

Proceed(e, at) ==
  /\ edit' = [edit EXCEPT ![e].at = at]
  /\ UNCHANGED <<stored, loose>>

(* The request is answered, after its last statement.                      *)
Answer(e) ==
  LET others == {other \in Editors \ {e} : edit[other] # Idle} IN
  /\ edit' = [edit EXCEPT ![e] = Idle]
  /\ loose' = (loose /\ ~(others = {} /\ Kept'))

-----------------------------------------------------------------------------
(* DELETE: the row is found, the rows are counted, the row is deleted.     *)
FindSize(e, id) == id \in DOMAIN stored /\ Arrive(e, [at |-> "found", id |-> id, size |-> 0])

(* Mutant of MayDelete: the last row may be deleted too.                   *)
MayDeleteMutant == Count >= 1

MayDelete == ~(Count <= 1)

CountSizes(e) ==
  /\ edit[e].at = "found"
  /\ \/ MayDelete /\ Proceed(e, "counted")
     \/ ~MayDelete /\ UNCHANGED stored /\ Answer(e)

DeleteSize(e) ==
  /\ edit[e].at = "counted"
  /\ stored' = [id \in DOMAIN stored \ {edit[e].id} |-> stored[id]]
  /\ Answer(e)

-----------------------------------------------------------------------------
(* POST: a new row, or one that is found.                                  *)
EditSize(e, id, size) ==
  /\ id \in DOMAIN stored \union {New}
  /\ Arrive(e, [at |-> "editing", id |-> id, size |-> size])

(* full_clean: clean counts the rows if the row is new, then the size must *)
(* be free.                                                                *)
CheckSize(e) ==
  LET r == edit[e]
      valid == ~(r.id = New /\ Count >= MaxRecords) /\ ~Taken(r.size, r.id)
  IN  /\ r.at = "editing"
      /\ \/ valid /\ Proceed(e, "checked")
         \/ ~valid /\ UNCHANGED stored /\ Answer(e)

(* super().save: a row that is not there any more is inserted again; the   *)
(* database refuses a size that is taken.                                  *)
WriteSize(e) ==
  LET r == edit[e] IN
  /\ r.at = "checked"
  /\ \/ Taken(r.size, r.id) /\ UNCHANGED stored
     \/ /\ ~Taken(r.size, r.id)
        /\ \E id \in IF r.id = New THEN Ids \ DOMAIN stored ELSE {r.id} :
             stored' = [i \in DOMAIN stored \union {id} |-> IF i = id THEN r.size ELSE stored[i]]
  /\ Answer(e)

SizesNext ==
  \E e \in Editors :
    \/ \E id \in Ids : FindSize(e, id)
    \/ CountSizes(e) \/ DeleteSize(e)
    \/ \E id \in Ids \union {New}, size \in PageSizes : EditSize(e, id, size)
    \/ CheckSize(e) \/ WriteSize(e)

SizesSpec == SizesInit /\ [][SizesNext]_sizesVars

-----------------------------------------------------------------------------
(* As long as requests do not overlap, one page size stays and no more     *)
(* than MaxRecords are added (pagination_settings, clean).  Requests that  *)
(* overlap may delete the last size, or add too many: at most one for each *)
(* request beyond the first.                                               *)
SizesAreKept ==
  /\ ~loose => Kept
  /\ Count <= MaxRecords + Cardinality(Editors) - 1
=============================================================================
