---------------------------- MODULE MCGlobalSync ----------------------------
(***************************************************************************)
(* Values for the constants of GlobalSync: two database processes and      *)
(* enough titles for a second buffer to fill while the first is published. *)
(***************************************************************************)
EXTENDS GlobalSync

CONSTANTS w1, w2

MCWriters == {w1, w2}
=============================================================================
