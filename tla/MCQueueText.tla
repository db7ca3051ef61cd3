---------------------------- MODULE MCQueueText ------------------------------
(***************************************************************************)
(* Values for the constants of QueueText: topics of two lengths, and all   *)
(* titles of up to three bytes.                                            *)
(***************************************************************************)
EXTENDS QueueText

MCTopicLengths == {1, 2}
MCTitleTexts == UNION {[1..n -> {"space", "text"}] : n \in 0..3}
MCSize == 7
=============================================================================
