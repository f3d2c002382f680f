-------------------------------- MODULE Cursor --------------------------------
(***************************************************************************)
(* What a result set promises about its position among the rows of its    *)
(* result, independent of how rows are fetched, chunked or cached:        *)
(* position 0 is before the first row, size + 1 after the last; the       *)
(* cursor moves only while open; a cursor that cannot scroll (a           *)
(* forward-only stream) never moves back, since spec section 4.3 refuses  *)
(* every position change of such a cursor other than next(); closing it  *)
(* ends every move.  SelectResultSetCapi is checked against this          *)
(* specification under the mapping given there (spec sections 3, 4.3).    *)
(***************************************************************************)
EXTENDS Naturals

VARIABLES
  size,        \* number of rows of the result
  scrollable,  \* whether the cursor may move backwards
  open,        \* the cursor has been neither closed nor destroyed
  pos          \* 0 before first, 1..size on a row, size + 1 after last

cvars == <<size, scrollable, open, pos>>

Positions == 0..(size + 1)

Init ==
  /\ size \in Nat
  /\ scrollable \in BOOLEAN
  /\ open = TRUE
  /\ pos = 0

(* next() and the other moves of a forward-only cursor go forward; a      *)
(* scrollable cursor may go anywhere within the positions.               *)
Move ==
  /\ open
  /\ pos' \in IF scrollable THEN Positions ELSE pos..(size + 1)
  /\ UNCHANGED <<size, scrollable, open>>

(* close(), abort() or destruction: the position is gone.                 *)
Close ==
  /\ open
  /\ open' = FALSE
  /\ pos' = 0
  /\ UNCHANGED <<size, scrollable>>

Next == Move \/ Close

Spec == Init /\ [][Next]_cvars
====
