---------------------------- MODULE MCVirtioDisk ----------------------------
(* The driver and its device with a few processes. *)
EXTENDS VirtioDisk
====
