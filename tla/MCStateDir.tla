----------------------------- MODULE MCStateDir -----------------------------
(***************************************************************************)
(* Programs that work on the state directory but share nothing there that  *)
(* the properties depend on, checked side by side: the attention watcher,  *)
(* the sweep of residents, and the daemons with the commands that start    *)
(* and stop them.  Each behaviour is one scene.                            *)
(***************************************************************************)
EXTENDS Attention, Residents, OrgLifecycle, TLC

VARIABLE scene

\* Scenes of the attention watcher: scans, the journal alone, configs alone.
SomeRow == {<<"ci_completed", "failed">>, <<"notify_sent", "worker_stalled">>}
SomeLines == {<<"delivery_adopt_expired", "a", 2>>, <<"other", "a", 3>>}
Default == [cooldown |-> 2, pendingMin |-> 1, repliedMin |-> 1, pendingMax |-> 2,
            pendingDrop |-> 3, duplicateWindow |-> 1, deliveryWindow |-> 2, eventWindow |-> 2]
NoThreshold == [f \in Thresholds |-> Absent]
Config(thresholds, backend, sound) ==
    thresholds @@ [desktop |-> TRUE, backend |-> backend, sound |-> sound, pins |-> <<>>]
Configs == {Config(NoThreshold, "windows-toast", "urgent-only")}
LadderConfigs ==
    {Config([f \in Thresholds |-> IF f \in DOMAIN l THEN l[f] ELSE Absent], "stdout", "off") :
        l \in [{"pendingMin", "repliedMin", "pendingMax", "pendingDrop"} -> {Absent, Bad} \cup 0..6]}

AllConfigs == Configs \cup LadderConfigs

\* Scans of rows, decisions or lines alone; the rest is a scene each.
Scans == {"rows", "decisions", "lines"}
Scenes == Scans \cup {"journal", "configs", "sweep", "org"}
StateDirInit ==
    /\ AttentionInit /\ ResidentsInit /\ Init
    /\ scene \in Scenes
    /\ scene = "configs" <=> raw \in LadderConfigs

StateDirNext ==
    /\ UNCHANGED scene
    /\ \/ /\ scene \in Scans /\ AttentionNext /\ UNCHANGED <<residentVars, vars>>
          /\ scene # "rows" => UNCHANGED row
          /\ IF scene = "decisions" THEN scanner'["scan"].pc = "off" /\ spoils' = 0 ELSE UNCHANGED decision
          /\ scene # "lines" => UNCHANGED stamp
          /\ Len(journal') <= 1 /\ stamp'["w2"] = Never
       \/ /\ scene = "journal" /\ Writes /\ UNCHANGED <<residentVars, vars>>
          /\ UNCHANGED <<row, decision>>
       \/ scene = "sweep" /\ ResidentsNext /\ UNCHANGED <<attentionVars, vars>>
       \/ scene = "org" /\ Next /\ UNCHANGED <<attentionVars, residentVars>>

\* A scan runs to its end unless it is stopped, and a source that cannot be read now
\* can be read some time later (read_events: "let the next poll retry").
ScansRun ==
    /\ \A p \in Scanners : WF_attentionVars(scene \in Scans /\ Finishes(p))
    /\ SF_attentionVars(scene \in Scans /\ Reads("watch", TRUE, TRUE))

StateDirSpec ==
    StateDirInit /\ [][StateDirNext]_<<attentionVars, residentVars, vars, scene>> /\ ScansRun /\ Fairness

=============================================================================
