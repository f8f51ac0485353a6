----------------------------- MODULE MCDispatch -----------------------------
(***************************************************************************)
(* Who makes workers and gives them panes: the dispatcher's parts and the  *)
(* herdr backend checked side by side.  Each behaviour is one scene, and   *)
(* leaves the state of the others alone.  The scenes of herdr each run a   *)
(* spawner beside a poller, beside a thread that closes and reaps, or      *)
(* alone from one daemon to the next.                                      *)
(***************************************************************************)
EXTENDS SpawnPrompt, BalancedSplit, Delegation, Herdr, TLC

VARIABLE scene

\* Tabs of the balanced split: secretary and dispatcher side by side, a curator below.
Leaf(path, role, id) == [path |-> path, role |-> role, id |-> id]
Frame(w, h) == [x |-> 26, y |-> 0, w |-> w, h |-> h]
Pair(w, h) ==
    [frame |-> Frame(w, h), cuts |-> << >> :> "vertical",
     leaves |-> {Leaf(<<FALSE>>, "secretary", 1), Leaf(<<TRUE>>, "dispatcher", 2)}]
WithCurator(w, h) ==
    [frame |-> Frame(w, h), cuts |-> (<< >> :> "vertical") @@ (<<TRUE>> :> "horizontal"),
     leaves |-> {Leaf(<<FALSE>>, "secretary", 1), Leaf(<<TRUE, FALSE>>, "dispatcher", 2),
                 Leaf(<<TRUE, TRUE>>, "curator", 3)}]
SomeTabs == {Pair(241, 31), Pair(333, 60), WithCurator(333, 61)}

\* Delegations: a ceiling of one worker; one org per refusal that settings decide.
Org(transport, spawnTab, fits) ==
    [transport |-> transport, spawnTab |-> spawnTab, fits |-> fits, ceiling |-> 1]
SomeOrgs == {Org("renga", TRUE, TRUE), Org("renga", FALSE, TRUE), Org("renga", TRUE, FALSE),
             Org("broker", FALSE, TRUE)}
Selector(kind, value) == [kind |-> kind, value |-> value]
Request(tab, overflow, peers, ceiling) ==
    [sound |-> TRUE, tab |-> tab, overflow |-> overflow, peers |-> peers, ceiling |-> ceiling]
Selectors == {Selector("index", 2), Selector("index", 3), Selector("name", "lab"), Selector("pane", 2),
              Selector("pane", 3), Selector("new", 0), Selector("bad", 0)}
SomeRequests ==
    {Request(NoTab, overflow, peers, "good") : overflow, peers \in BOOLEAN}
        \cup {Request(tab, TRUE, TRUE, "bad") : tab \in Selectors \cup {NoTab}}
        \cup {[Request(NoTab, FALSE, TRUE, "good") EXCEPT !.sound = FALSE]}

\* The caller's tab alone and full, or with room beside two others.
OwnTab == [id |-> 1, name |-> "org", panes |-> {1}]
OtherTab(p) == [id |-> p, name |-> "lab", panes |-> {p}]
SomeLayouts == {[tabs |-> <<[OwnTab EXCEPT !.panes = {1, 4}]>>, peers |-> {1}],
                [tabs |-> <<OwnTab, OtherTab(2), OtherTab(3)>>, peers |-> {1, 2, 3}],
                [tabs |-> <<OwnTab, OtherTab(2), OtherTab(3)>>, peers |-> {1, 3}]}

Beside == [poll |-> {"spawner", "poller"}, reap |-> {"spawner", "reaper"}, boot |-> {"spawner"}]
Scenes == {"prompt", "split", "ceiling", "tabs"} \cup DOMAIN Beside
Init ==
    /\ PromptInit /\ SplitInit /\ DelegationInit /\ HerdrInit
    /\ scene \in Scenes
    /\ scene # "prompt" => claude.cursor = 1 /\ claude.order = "noFirst" /\ claude.trusted = "never"
    /\ scene # "split" => shape = Pair(241, 31)
    /\ scene \notin {"ceiling", "tabs"} => org = Org("renga", TRUE, TRUE)
    /\ scene = "tabs" => org = Org("renga", TRUE, TRUE)
    /\ scene = "tabs" <=> Len(tabs) = 3

\* Selectors belong to the scene of the tabs, which delegates one task and needs no clock.
DelegatesIn(s) ==
    /\ scene = s /\ DelegationNext /\ UNCHANGED <<promptVars, shape, herdrVars>>
    /\ s = "ceiling" => dispatcher'.req.tab = NoTab
    /\ s = "tabs" => clock' = 0 /\ \A t \in Tasks \ {"a"} : seed'[t] = NoSeed

HerdrScene ==
    /\ HerdrNext /\ UNCHANGED <<promptVars, shape, delegationVars>>
    /\ \A th \in DOMAIN thread' \ Beside[scene] : thread'[th].pc \in {"off", "idle"}
    /\ IF scene = "boot" THEN \A p \in PaneIds : pane'[p].kind # "human"
       ELSE boots' = 1 /\ (thread'["spawner"].pc # "off")
    /\ scene = "poll" => thread'["spawner"].key # Control

Next ==
    /\ UNCHANGED scene
    /\ \/ scene = "prompt" /\ PromptNext /\ UNCHANGED <<shape, delegationVars, herdrVars>>
       \/ scene = "split" /\ SplitNext /\ UNCHANGED <<promptVars, delegationVars, herdrVars>>
       \/ \E s \in {"ceiling", "tabs"} : DelegatesIn(s)
       \/ scene \in DOMAIN Beside /\ HerdrScene

\* The dispatcher goes on with the loop, time passes, and the screen follows.
ApprovalRuns ==
    /\ WF_promptVars(scene = "prompt" /\ LoopStep)
    /\ WF_promptVars(scene = "prompt" /\ PromptTick)
    /\ WF_promptVars(scene = "prompt" /\ Redraws)

vars == <<promptVars, shape, delegationVars, herdrVars, scene>>
Spec == Init /\ [][Next]_vars /\ ApprovalRuns

=============================================================================
