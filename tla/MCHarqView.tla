---------------------------- MODULE MCHarqView ----------------------------
(* The phone's view, over the configuration of run_eNodeB.sh. *)
EXTENDS HarqView

EmptyOfScript == <<1, 3, 7, 9>>
DataOfScript == {4}
===========================================================================
