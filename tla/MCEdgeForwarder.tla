-------------------------- MODULE MCEdgeForwarder --------------------------
(***************************************************************************)
(* Two files of two lines each.  The first holds a line that is not JSON   *)
(* and a fact; the second a line a filter drops and a fact, and it is      *)
(* truncated or removed once.  With MaxBatch = 1 the batch save happens    *)
(* inside a file too.                                                      *)
(***************************************************************************)
EXTENDS EdgeForwarder

MCFiles     == {1, 2}
MCMaxLines  == <<2, 2>>
MCMaxGen    == <<0, 1>>
MCFiltered  == {<<2, 1>>}
MCMalformed == {<<1, 1>>}

\* For the torn line: one file that is left alone, no filter.
MCOneFile   == {1}
MCTwoLines  == <<2>>
MCNoErase   == <<0>>
MCNone      == {}

=============================================================================
