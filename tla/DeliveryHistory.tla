-------------------------- MODULE DeliveryHistory --------------------------
(***************************************************************************)
(* DeliveryStore with history variables: what the daemon forgets and its   *)
(* promises are about.  They observe; no action reads them.                *)
(***************************************************************************)
EXTENDS DeliveryStore, TLC

VARIABLES
    life,      \* how many sessions of the agent have been started
    born,      \* the recipient's life when the row was enqueued
    incumbent, \* the holder the pending adoptions have fenced, while one could
               \* still be given the owner back
    raced,     \* a pending adoption began while the owner was being spawned
    proof      \* the secret a lease asked of the holder of each generation, or 0

historyVars == <<life, born, incumbent, raced, proof>>

NoIncumbent == [generation |-> 0, instance |-> None]

HistoryInit ==
    /\ Init
    /\ life = [a \in Agents |-> 0]
    /\ born = [r \in Rows |-> 0]
    /\ incumbent = [a \in Agents |-> NoIncumbent]
    /\ raced = [a \in Agents |-> FALSE]
    /\ proof = [a \in Agents |-> [g \in 1..MaxGen |-> 0]]

\* The holder is the incumbent until another registers, the owner's state is
\* reset, or the adoptions fail after its pane was closed.
Ousted(a) == Failed(a) /\ PaneGone(a) /\ pending'[a].id # pending[a].id

Remember ==
    /\ life' = [a \in Agents |-> IF ~bind[a].live /\ bind'[a].live
                                THEN life[a] + 1 ELSE life[a]]
    /\ born' = [r \in Rows |-> IF rows[r].st = "FREE" /\ rows'[r].st = "UNDELIVERED"
                              THEN life[rows'[r].to] ELSE born[r]]
    /\ incumbent' = [a \in Agents |->
          IF inst'[a] # None THEN [generation |-> gen'[a], instance |-> inst'[a]]
          ELSE IF pending'[a].id # 0 /\ ~Ousted(a) THEN incumbent[a]
          ELSE NoIncumbent]
    /\ raced' = [a \in Agents |->
          /\ pending'[a].id # 0
          /\ raced[a] \/ (pending[a].id # pending'[a].id /\ spawn[a].pc # "idle")]

RegisterWithProof(a) ==
    \E i \in Instances, s \in 0..minted[a] :
        /\ RegisterInstance(a, i, s)
        /\ proof' = [proof EXCEPT ![a][gen'[a]] = IF Fences(SweptLease[a]) THEN s ELSE 0]

HistoryNext ==
    /\ \/ Others /\ UNCHANGED proof
       \/ \E a \in Owners : RegisterWithProof(a)
    /\ Remember
HistorySpec == HistoryInit /\ [][HistoryNext]_<<vars, historyVars>>

\* "org adopt": if the adopting session never registers, the daemon restores
\* the generation and the instance it displaced, however many adoptions were
\* forced over one another meanwhile (_sweep_adoptions_locked, the inherited
\* AdoptRollback of adopt_delivery).
AdoptRestoresIncumbent ==
    \A a \in Owners :
        pending[a].id # 0 /\ ~raced[a] /\ FenceIntact(a) /\ incumbent[a] # NoIncumbent =>
            pending[a].back.instance = incumbent[a].instance
              /\ pending[a].back.generation = incumbent[a].generation

\* ObserverLease: while the session that owns the lease is there (active), or has
\* gone quiet (stale), the owner's holder is the one that presented its secret; a
\* fork of the session that lacks it (issue 129) is not, whatever was adopted and
\* rolled back in between.
LeaseHolderKnowsSecret ==
    \A a \in Owners :
        lease[a].phase \in {"active", "stale"} /\ inst[a] # None =>
            proof[a][gen[a]] = lease[a].secret

\* discard_agent_rows: a message sent to a session that was closed is never
\* handed to a later session of the same name.
NoCrossSessionDelivery ==
    [][\A r \in Rows :
          rows[r].st \in {"UNDELIVERED", "CLAIMED"} /\ rows'[r].st = "DELIVERED" =>
              born[r] = life[rows[r].to]]_<<vars, historyVars>>

InstanceSymmetry == Permutations(Instances)

=============================================================================
