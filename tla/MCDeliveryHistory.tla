------------------------- MODULE MCDeliveryHistory -------------------------
(***************************************************************************)
(* DeliveryHistory for TLC: each behaviour follows one owner, spawned or   *)
(* minted by the launcher, and the others never start.                     *)
(***************************************************************************)
EXTENDS DeliveryHistory

VARIABLE subject

MCInit == HistoryInit /\ subject \in Owners
MCNext ==
    /\ HistoryNext
    /\ UNCHANGED subject
    /\ \A a \in Owners \ {subject} :
          UNCHANGED <<minted[a], pending[a], lease[a], mode[a], epoch[a]>>
MCSpec == MCInit /\ [][MCNext]_<<vars, historyVars, subject>>

=============================================================================
