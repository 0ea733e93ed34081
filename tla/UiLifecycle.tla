---------------------------- MODULE UiLifecycle ----------------------------
(***************************************************************************)
(* What a paged list of the browser application promises to the view that  *)
(* shows it, whatever happens on the network: it is idle, loading, ready   *)
(* or failed; it is loading only while a request is open; an answer makes  *)
(* it ready with the rows it had, one page more, or the first page only;   *)
(* a failure keeps the rows.  UiStore is shown to implement this.          *)
(***************************************************************************)
EXTENDS Naturals

CONSTANTS PageSize, Total

VARIABLES
  status,   \* what the view is told
  shown,    \* number of rows in the list
  open      \* requests for the list that were sent and not answered

vars == <<status, shown, open>>

AtMostAll(n) == IF n > Total THEN Total ELSE n

Init == status = "idle" /\ shown = 0 /\ open = 0

Start ==
  /\ open' \in Nat /\ open' > open
  /\ status' = "loading"
  /\ UNCHANGED shown

Answer ==
  /\ open > 0
  /\ open' = open - 1
  /\ status' = "ready"
  /\ shown' \in {shown, AtMostAll(shown + PageSize), AtMostAll(PageSize)}

Fail ==
  /\ open > 0
  /\ open' = open - 1
  /\ status' = "failed"
  /\ UNCHANGED shown

Next == Start \/ Answer \/ Fail

Spec == Init /\ [][Next]_vars
=============================================================================
