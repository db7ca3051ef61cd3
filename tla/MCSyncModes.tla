---------------------------- MODULE MCSyncModes -----------------------------
(***************************************************************************)
(* Values for the constants of SyncModes: two processes that set the title *)
(* of one article, a number or blank, a broker that is started again with  *)
(* options from a small set, and a queue of two messages: a transaction    *)
(* that is run again sends another, so that two sets fill it.              *)
(***************************************************************************)
EXTENDS SyncModes

CONSTANTS w1, w2, art, number, blank

MCWriters == {w1, w2}
MCModes == {"client", "mq", "global"}
MCVersions == {2, 3, 4, 5}
MCArticles == {art}
MCTitles == {number, blank}
MCNumbers == {number}
MCBlanks == {blank}

Mode(m) == <<"sync_mode", m>>
Measure == <<"time_measurement_trigger_to_publish", "true">>

(* No option, an unknown mode behind a known one, two modes, measuring.    *)
MCOptionLists ==
  {<<Measure>>, <<Mode("mq"), Mode("other")>>, <<Mode("mq"), Mode("global")>>,
   <<Mode("global"), Measure>>}
=============================================================================
