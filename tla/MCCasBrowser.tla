---------------------------- MODULE MCCasBrowser ----------------------------
(***************************************************************************)
(* The clients of MCCasInteractions behind a browser.                      *)
(***************************************************************************)
EXTENDS CasBrowser, MCCasInteractions

=============================================================================
