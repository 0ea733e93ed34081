----------------------------- MODULE MCUiStore -----------------------------
(* The UI's result store: two requests in flight, three rows, one per page. *)
EXTENDS UiStore
=============================================================================
