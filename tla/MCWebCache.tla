----------------------------- MODULE MCWebCache -----------------------------
(***************************************************************************)
(* One tab with one or two mutations and a few changes of page.            *)
(***************************************************************************)
EXTENDS WebCache

CONSTANTS w1, w2
=============================================================================
