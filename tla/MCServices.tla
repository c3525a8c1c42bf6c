----------------------------- MODULE MCServices -----------------------------
(***************************************************************************)
(* The inputs of the components of Services on which TLC checks them.      *)
(***************************************************************************)
EXTENDS Services, SequencesExt

\* At most two segments, so that two of one type and number are among them.
MCSegmentLists == SeqOf([segment : {"HEAD", "ITEM", "MISC"}, docnum : {1, 2}], 2)

MCOrders == SeqOf(Models, 3)

MCPolicies == {[name |-> "p", id |-> 1], [name |-> "q", id |-> 2]}

MCLists == SeqOf(MCPolicies, 2)
=============================================================================
