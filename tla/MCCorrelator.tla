---------------------------- MODULE MCCorrelator ----------------------------
(***************************************************************************)
(* One partition of three records; a cache of one id, so that a third      *)
(* record can be the evicted duplicate of the first; two alerts per event, *)
(* so that a failure can fall between them.                                *)
(***************************************************************************)
EXTENDS Correlator

CONSTANTS e1, e2

MCPartitions == {1}
MCMaxLog     == <<3>>
MCEvents     == {e1, e2}
MCRecords    == {e1, e2, Junk, Invalid}

=============================================================================
