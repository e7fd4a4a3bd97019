---------------------------- MODULE MCKeyCapture ----------------------------
(* Keys for KeyCapture. *)
EXTENDS KeyCapture
=============================================================================
