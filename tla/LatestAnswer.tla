--------------------------- MODULE LatestAnswer ---------------------------
(***************************************************************************)
(* What a page of the tab promises about the questions it asks the server: *)
(* only the question asked last is ever answered on the page, once.  There *)
(* are no request numbers here and no answers on their way: a question is  *)
(* forgotten when the next one is asked.                                   *)
(***************************************************************************)
CONSTANTS
  Questions,  \* what can be asked
  None        \* nothing

VARIABLES
  wanted,     \* the question whose answer the page waits for
  answered    \* the question whose answer the page shows

LInit == wanted = None /\ answered = None

(* While the answer is awaited, a message says so.                         *)
Asks ==
  /\ wanted' \in Questions
  /\ answered' = None

(* What is shown is exactly the answer that was waited for.                *)
Answers ==
  /\ wanted # None
  /\ answered' = wanted
  /\ wanted' = None

(* A failure, or a warning that nothing can be asked.                      *)
Warns ==
  /\ answered' = None
  /\ wanted' \in {wanted, None}

LNext == Asks \/ Answers \/ Warns

LSpec == LInit /\ [][LNext]_<<wanted, answered>>
=============================================================================
