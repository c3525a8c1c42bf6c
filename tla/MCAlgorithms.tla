---------------------------- MODULE MCAlgorithms ----------------------------
(***************************************************************************)
(* The inputs of the components of Algorithms on which TLC checks them.    *)
(***************************************************************************)
EXTENDS Algorithms, SequencesExt

\* The root has two children, the first of which has one.
MCTree == <<<<2, 3>>, <<4>>, <<>>, <<>>>>

\* A row of two elements, two rows of one, and a single element.
MCArrays == {<<<<0, 1>>>>, <<<<1>>, <<2>>>>, <<<<2>>>>}

MCParamLists == SeqOf(MCArrays, 2)
=============================================================================
