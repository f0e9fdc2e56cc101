------------------------------ MODULE RiskPanels ------------------------------
(***************************************************************************)
(* The fraud, credit, graph and adversarial pages of the admin console      *)
(* (FeaturePages.tsx).                                                      *)
(***************************************************************************)
EXTENDS ConsolePanel

-----------------------------------------------------------------------------
(* FraudPage: a drawer over the alert queue, with typing biometrics and a   *)
(* reason memo, each computed for the alert of the drawer.                  *)

FraudPanel ==
    Mounted("fraud",
            [alert |-> None, tab |-> "details", phrase |-> FALSE, anomalous |-> FALSE],
            {"verify", "memo"}, {})

\* Clicking a row opens its drawer and forgets what was shown for another.
SelectAlert ==
    \E a \in Cases :
        panel' = [Hide(panel, {"verify", "memo"}) EXCEPT
                     !.ui.alert = a, !.ui.tab = "details", !.ui.phrase = FALSE]

\* Close, Approve and Block & File SAR only close the drawer.
CloseDrawer ==
    /\ panel.ui.alert # None
    /\ panel' = Set(panel, "alert", None)

\* The drawer's tabs exist while an alert is selected.
ChooseTab ==
    /\ panel.ui.alert # None
    /\ Edit("tab", {"details", "biometrics", "xai"})

OnTab(t) == panel.ui.alert # None /\ panel.ui.tab = t

TypePhrase == OnTab("biometrics") /\ Edit("phrase", BOOLEAN)

\* simulateFillBiometrics
SimulateFill ==
    /\ OnTab("biometrics")
    /\ \E anomalous \in BOOLEAN :
          panel' = [panel EXCEPT !.ui.anomalous = anomalous, !.ui.phrase = TRUE]

\* Mutant of CanVerify: the button is not disabled while it spins.
CanVerifyAgain == OnTab("biometrics") /\ panel.ui.phrase

CanVerify == OnTab("biometrics") /\ Idle("biometrics") /\ panel.ui.phrase

VerifyBiometrics ==
    /\ CanVerify /\ CanRun
    /\ panel' = Hide(Begin(panel, "verify", "biometrics", panel.ui.alert), {"verify"})

CanGenerateMemo == OnTab("xai") /\ Idle("memo")

GenerateMemo ==
    /\ CanGenerateMemo /\ CanRun
    /\ panel' = Hide(Begin(panel, "memo", "memo", panel.ui.alert), {"memo"})

FraudAnswer == Answer("verify") \/ Answer("memo")

FraudUser ==
    \/ SelectAlert \/ CloseDrawer \/ ChooseTab \/ TypePhrase \/ SimulateFill
    \/ VerifyBiometrics \/ GenerateMemo

-----------------------------------------------------------------------------
(* CreditEnginePage: five sliders and an underwriting request that captures *)
(* them.  The sliders are one profile here: only whether it is the profile  *)
(* that was scored matters.                                                 *)

Profiles == {"p1", "p2"}

CreditPanel == Mounted("credit", [profile |-> "p1"], {"underwrite"}, {})

MoveSlider == Edit("profile", Profiles)

\* Mutant of RunUnderwrite: a second request may overtake the first.
UnderwriteAgain ==
    /\ CanRun
    /\ panel' = Hide(Begin(panel, "underwrite", "underwrite", panel.ui.profile),
                     {"underwrite"})

RunUnderwrite ==
    /\ Idle("underwrite") /\ CanRun
    /\ panel' = Hide(Begin(panel, "underwrite", "underwrite", panel.ui.profile),
                     {"underwrite"})

CreditAnswer == Answer("underwrite")

CreditUser == MoveSlider \/ RunUnderwrite

-----------------------------------------------------------------------------
(* GraphIntelligencePage: cluster cards and a cycle scan with a terminal.   *)

GraphPanel ==
    Mounted("graph", [search |-> FALSE, expanded |-> None], {"scan"}, {"scan"})

ScanLines == 4

ToggleCluster ==
    \E k \in Cases :
        panel' = Set(panel, "expanded", IF panel.ui.expanded = k THEN None ELSE k)

\* Filtering narrows the loops listed, it starts nothing.
SearchEntity == Edit("search", BOOLEAN)

\* Mutant of DetectCycles: two scans write to one terminal.
DetectCyclesAgain ==
    /\ CanRun
    /\ panel' = Reopen(Hide(Begin(panel, "scan", "scan", None), {"scan"}), "scan")

DetectCycles ==
    /\ Idle("scan") /\ CanRun
    /\ panel' = Reopen(Hide(Begin(panel, "scan", "scan", None), {"scan"}), "scan")

\* The answer, live or mocked, prints the closing line as well.
ScanAnswer ==
    \E c \in Suspended("scan"), out \in Outcome :
        /\ c.at = ScanLines
        /\ panel' = End(Say(Show(panel, c, out), c, "scan"), c)

GraphResume == PrintLine("scan", ScanLines, "scan") \/ ScanAnswer

GraphUser == ToggleCluster \/ SearchEntity \/ DetectCycles

-----------------------------------------------------------------------------
(* InfrastructurePage: the adversarial sample size and its attack run.      *)

AdversarialPanel == Mounted("adversarial", [samples |-> 1], {"attack"}, {})

SetSamples == Edit("samples", {1, 2})

LaunchGanAttack ==
    /\ Idle("attack") /\ CanRun
    /\ panel' = Hide(Begin(panel, "attack", "attack", panel.ui.samples), {"attack"})

AdversarialAnswer == Answer("attack")

AdversarialUser == SetSamples \/ LaunchGanAttack

-----------------------------------------------------------------------------
RiskInitial == {FraudPanel, CreditPanel, GraphPanel, AdversarialPanel}

RiskUser ==
    \/ panel.name = "fraud" /\ FraudUser
    \/ panel.name = "credit" /\ CreditUser
    \/ panel.name = "graph" /\ GraphUser
    \/ panel.name = "adversarial" /\ AdversarialUser

RiskResume ==
    \/ panel.name = "fraud" /\ FraudAnswer
    \/ panel.name = "credit" /\ CreditAnswer
    \/ panel.name = "graph" /\ GraphResume
    \/ panel.name = "adversarial" /\ AdversarialAnswer
=============================================================================
