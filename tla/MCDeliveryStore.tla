-------------------------- MODULE MCDeliveryStore --------------------------
(***************************************************************************)
(* DeliveryStore for TLC: message and instance ids are interchangeable.    *)
(* MCSpec follows one owner through a behaviour, of either kind: one whose *)
(* tokens are minted as panes open, or one launched with a logical pane.   *)
(***************************************************************************)
EXTENDS DeliveryStore, TLC

VARIABLE subject

Symmetry == Permutations(Rows) \cup Permutations(Instances)

MCInit == Init /\ subject \in Owners

MCNext ==
    /\ UNCHANGED subject
    /\ Next
    /\ \A a \in Owners \ {subject} :
          UNCHANGED <<minted[a], pending[a], lease[a], mode[a], epoch[a]>>

MCSpec == MCInit /\ [][MCNext]_<<vars, subject>>

=============================================================================
