------------------------------ MODULE MCMacTx ------------------------------
(* Configurations of the downlink scheduler.  16 frames are the fewest in   *)
(* which SIB2 recurs; the data streams may run one frame ahead.             *)
EXTENDS MacTx

\* run_eNodeB.sh: --Empty-SubF=1,3,7,9 --Data-SubF=4
EmptyOfScript == <<1, 3, 7, 9>>
DataOfScript == {4}

\* The instance satisfies the hypotheses under which the schedule is proved.
ASSUME KeepsSchedule == EnoughSlots /\ EmptySubF # <<>>
============================================================================
