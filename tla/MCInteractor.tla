---------------------------- MODULE MCInteractor ----------------------------
(***************************************************************************)
(* A short record for TLC: a discard that two players have to answer, and  *)
(* an event that calls for no analysis.                                    *)
(***************************************************************************)
EXTENDS Interactor

E(type, actor) == [type |-> type, actor |-> actor]

MCRecord == <<E("DISCARD", 0), E("OTHER", 0)>>
MCMask   == {0, 1, 2}
=============================================================================
