------------------------------ MODULE MCWatcher ------------------------------
(* Watcher with three versions and two plugins. *)
EXTENDS Watcher
=============================================================================
