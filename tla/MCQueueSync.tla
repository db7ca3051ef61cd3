---------------------------- MODULE MCQueueSync -----------------------------
(***************************************************************************)
(* Values for the constants of QueueSync: two database processes that set  *)
(* the title of an article, and a queue and a tick of so few messages that *)
(* both bounds are met.                                                    *)
(***************************************************************************)
EXTENDS QueueSync

CONSTANTS w1, w2, art1, old, new

MCWriters == {w1, w2}
MCArticles == {art1}
MCTitles == {old, new}
=============================================================================
