----------------------------- MODULE MCUpdater -----------------------------
(***************************************************************************)
(* Small instances of Updater for TLC: constants come from the .cfg files.  *)
(***************************************************************************)
EXTENDS Updater

=============================================================================
