------------------------------ MODULE PublicPanels ------------------------------
(***************************************************************************)
(* What customers and visitors use: the checkout of the web SDK             *)
(* (CreditLineCheckout.tsx), the mobile wallet (HomeScreen.tsx), the        *)
(* on-device biometrics hook (useEdgeBiometrics.ts), the credit portal      *)
(* (CreditPortal.tsx), the simulators of PublicPages.tsx and the animated   *)
(* sections of HomePage.tsx.                                                *)
(***************************************************************************)
EXTENDS ConsolePanel, Integers, SequencesExt

CONSTANT TickerLength  \* transactions the ticker shows (5 in the code)

Options == {"x1", "x2"}

-----------------------------------------------------------------------------
(* Checkout: one status drives what is rendered.  ui.details is the last    *)
(* decision the service returned, by the run that brought it; ui.funded     *)
(* observes the purchases announced as funded, ui.form the four fields.     *)

CheckoutPanel ==
    Mounted("checkout", [form |-> "blank", status |-> "IDLE", details |-> None, funded |-> {}],
            {"checkout"}, {})

OnForm == panel.ui.status = "IDLE"

\* Edits, with the telemetry of the keys.
FillForm == OnForm /\ Edit("form", {"blank", "filled"})

\* Mutant of CheckoutSubmit: the form can be sent again while processing.
SubmitAgain ==
    /\ panel.ui.form = "filled" /\ CanRun
    /\ panel' = Set(Begin(panel, "checkout", "checkout", None), "status", "PROCESSING")

CheckoutSubmit ==
    /\ OnForm /\ panel.ui.form = "filled" /\ CanRun
    /\ panel' = Set(Begin(panel, "checkout", "checkout", None), "status", "PROCESSING")

\* After the biometrics delay the request goes out.
Underwrite == \E c \in Suspended("checkout") : c.at = 0 /\ panel' = Await(panel, c)

Decision(run, outcome) == [run |-> run, outcome |-> outcome]

\* The decision is shown once the round trip took its 800 ms, and announced to
\* the merchant inside the try: a callback that throws ends in the catch.
Underwritten ==
    \E c \in Suspended("checkout"), d \in {"APPROVED", "DECLINED"}, throws \in BOOLEAN :
        /\ c.at = 1
        /\ panel' = [End(panel, c) EXCEPT
                        !.ui.status = IF throws THEN "DECLINED" ELSE d,
                        !.ui.details = Decision(c.run, d),
                        !.ui.funded = IF d = "APPROVED" THEN @ \cup {c.run} ELSE @]

\* A failed request declines and leaves the details of an earlier decision.
UnderwritingFails ==
    \E c \in Suspended("checkout") :
        c.at = 1 /\ panel' = Set(End(panel, c), "status", "DECLINED")

\* Finished Checkout and Try Again go back to the form, still filled.
BackToForm ==
    /\ panel.ui.status \in {"APPROVED", "DECLINED"}
    /\ panel' = Set(panel, "status", "IDLE")

CheckoutUser == FillForm \/ CheckoutSubmit \/ BackToForm

CheckoutResume == Underwrite \/ Underwritten \/ UnderwritingFails

-----------------------------------------------------------------------------
(* The wallet of the mobile app: one solvency proof extends the limit.      *)

WalletPanel ==
    Mounted("wallet", [status |-> "IDLE", extensions |-> 0], {"witness"}, {"prove"})

GenerateZKProof ==
    /\ panel.ui.status = "IDLE" /\ CanRun
    /\ panel' = Set(Reopen(Begin(panel, "witness", "prove", None), "prove"),
                    "status", "COMPUTING_WITNESS")

WitnessComputed ==
    \E c \in Suspended("witness") :
        /\ c.at = 0
        /\ panel' = Set(Await(Say(panel, c, "prove"), c), "status", "GENERATING_PROOF")

ProofGenerated ==
    \E c \in Suspended("witness") : c.at = 1 /\ panel' = Await(Say(panel, c, "prove"), c)

ProofVerified ==
    \E c \in Suspended("witness") :
        /\ c.at = 2
        /\ panel' = [End(Say(panel, c, "prove"), c) EXCEPT
                        !.ui.status = "VERIFIED", !.ui.extensions = @ + 1]

WalletResume == WitnessComputed \/ ProofGenerated \/ ProofVerified

-----------------------------------------------------------------------------
(* The biometrics hook: a model that loads in the background, a collection  *)
(* and a verification that uses the model if it is there by then.           *)

BiometricsPanel ==
    Begin(Mounted("biometrics",
                  [mounted |-> TRUE, loaded |-> FALSE, collecting |-> FALSE, vector |-> None,
                   error |-> FALSE],
                  {"load", "stop"}, {}),
          "load", None, None)

\* A hook unmounted before its model arrives ignores it.
LoadModel ==
    \E c \in Suspended("load"), ok \in BOOLEAN :
        panel' = IF ~panel.ui.mounted THEN End(panel, c)
                 ELSE IF ok THEN Set(End(panel, c), "loaded", TRUE)
                 ELSE Set(End(panel, c), "error", TRUE)

UnmountHook == panel.ui.mounted /\ panel' = Set(panel, "mounted", FALSE)

StartCollection ==
    /\ panel.ui.mounted
    /\ panel' = [panel EXCEPT !.ui.collecting = TRUE, !.ui.error = FALSE]

\* The buffers are read at the call: the model's vector or a random one.
StopAndVerify ==
    /\ panel.ui.mounted /\ CanRun
    /\ panel' = Set(Begin(panel, "stop", None, IF panel.ui.loaded THEN "model" ELSE "random"),
                    "collecting", FALSE)

InferenceFails ==
    \E c \in Suspended("stop") :
        /\ c.at = 0 /\ c.arg = "model"
        /\ panel' = Set(End(panel, c), "error", TRUE)

VectorReady ==
    \E c \in Suspended("stop") : c.at = 0 /\ panel' = Await(Set(panel, "vector", c.arg), c)

VerificationAnswered ==
    \E c \in Suspended("stop") :
        /\ c.at = 1
        /\ panel' \in {End(Show(panel, c, "live"), c), Set(End(panel, c), "error", TRUE)}

BiometricsUser == UnmountHook \/ StartCollection \/ StopAndVerify

BiometricsResume == LoadModel \/ InferenceFails \/ VectorReady \/ VerificationAnswered

-----------------------------------------------------------------------------
(* The credit portal: the scorer, whose result is hidden until it is whole, *)
(* and the document checklist.                                              *)

ScorerPanel == Mounted("scorer", [inputs |-> "x1", visible |-> FALSE], {"score"}, {})

MoveScorerSlider == Edit("inputs", Options)

HandleScore ==
    /\ Idle("score") /\ CanRun
    /\ panel' = Set(Hide(Begin(panel, "score", "score", panel.ui.inputs), {"score"}),
                    "visible", FALSE)

ScoreAnswer ==
    \E c \in Suspended("score"), out \in Outcome :
        panel' = Set(End(Show(panel, c, out), c), "visible", TRUE)

Documents == 1..6

\* The number of documents the code asks for; it counts any, although the
\* first four are the ones marked required.
TotalRequired == 4

ChecklistPanel == Mounted("checklist", [checked |-> {}], {}, {})

ToggleDocument ==
    \E d \in Documents :
        panel' = [panel EXCEPT !.ui.checked = IF d \in @ THEN @ \ {d} ELSE @ \cup {d}]

Eligible == Cardinality(panel.ui.checked) >= TotalRequired

-----------------------------------------------------------------------------
(* Simulators.  The underwriting score of LendingSimulator, over the corner *)
(* values of its sliders.                                                   *)

LendingPanel ==
    Mounted("lending", [bureau |-> 650, sim |-> 12, utility |-> 90, risk |-> "low"], {}, {})

Clamp(x, lo, hi) == IF x < lo THEN lo ELSE IF x > hi THEN hi ELSE x

\* bureau * 0.45 + simAge * 8 + utility% * 140 + the link's bonus, rounded.
AltScore(ui) ==
    LET bonus == CASE ui.risk = "low" -> 80 [] ui.risk = "medium" -> -30 [] ui.risk = "high" -> -140
        cents == ui.bureau * 45 + ui.sim * 800 + ui.utility * 140 + bonus * 100
    IN  Clamp((cents + 50) \div 100, 300, 850)

DecisionFor(score) ==
    IF score >= 720 THEN "AUTO-APPROVE"
    ELSE IF score < 600 THEN "AUTO-DECLINE" ELSE "REFER TO MANUAL REVIEW"

EditLending ==
    \/ Edit("bureau", {300, 650, 850})
    \/ Edit("sim", {1, 12, 36})
    \/ Edit("utility", {10, 90, 100})
    \/ Edit("risk", {"low", "medium", "high"})

\* WealthStressTester, in hundredths of a percent: the volatility counts 0.12.
WealthPanel == Mounted("wealth", [profile |-> "balanced", shock |-> "none", vol |-> 30], {}, {})

VarEstimate(ui) ==
    LET base == CASE ui.profile = "conservative" -> 350 [] ui.profile = "balanced" -> 820
                  [] ui.profile = "aggressive" -> 1860
        shock == CASE ui.shock = "none" -> 0 [] ui.shock = "equity" -> 1250
                   [] ui.shock = "interest" -> 580 [] ui.shock = "energy" -> 760
    IN  Clamp(base + ui.vol * 12 + shock, 0, 9990)

StatusFor(estimate) ==
    IF estimate > 2500 THEN "HIGH" ELSE IF estimate > 1200 THEN "DRIFT" ELSE "COMPLIANT"

EditWealth ==
    \/ Edit("profile", {"conservative", "balanced", "aggressive"})
    \/ Edit("shock", {"none", "equity", "interest", "energy"})
    \/ Edit("vol", {10, 30, 90})

\* ClaimTriageSimulator: the scenario is fixed while its interval runs.
TriagePanel == Mounted("triage", [scenario |-> 1, step |-> 0], {"triage"}, {})

LastStep == 4

ChooseScenario ==
    /\ Idle("triage")
    /\ \E s \in 1..3 : panel' = [Hide(panel, {"triage"}) EXCEPT !.ui.scenario = s, !.ui.step = 0]

HandleAudit ==
    /\ Idle("triage") /\ CanRun
    /\ panel' = Set(Hide(Begin(panel, "triage", "triage", panel.ui.scenario), {"triage"}),
                    "step", 0)

TriageStep ==
    \E c \in Suspended("triage") :
        panel' = IF panel.ui.step < LastStep - 1
                 THEN Await(Set(panel, "step", panel.ui.step + 1), c)
                 ELSE Set(End(Show(panel, c, "live"), c), "step", LastStep)

\* ConsentSandbox: the token carries the scopes of the click.
ConsentPanel == Mounted("consent", [scopes |-> {"identity"}, expiry |-> 90], {"consent"}, {})

EditConsent ==
    \/ \E s \in {"identity", "recurring"} :
          panel' = [panel EXCEPT !.ui.scopes = IF s \in @ THEN @ \ {s} ELSE @ \cup {s}]
    \/ Edit("expiry", {30, 90})

HandleGenerate ==
    /\ CanRun
    /\ LET p == Begin(panel, "consent", None, panel.ui.scopes)
           c == CHOOSE d \in p.calls : d.run = p.runs
       IN  panel' = End(Show(p, c, "live"), c)

\* SARTypologyMatcher
TypologyPanel == Mounted("typology", [typology |-> "smurfing"], {}, {})

EditTypology == Edit("typology", {"smurfing", "offshore", "fanout"})

\* PaymentsTicker: the newest first, the oldest dropped.
TickerPanel == Mounted("ticker", [txs |-> [i \in 1..TickerLength |-> TickerLength - i]], {}, {})

TickerArrival ==
    /\ panel.runs < MaxRuns
    /\ panel' = [panel EXCEPT !.runs = @ + 1,
                              !.ui.txs = SubSeq(<<TickerLength + panel.runs>> \o @, 1, TickerLength)]

-----------------------------------------------------------------------------
(* The home page: carousels and consoles that intervals and clicks drive.   *)

HomePanel ==
    Mounted("home", [slide |-> 0, agent |-> 1, balanced |-> TRUE, threshold |-> 85, tab |-> 0],
            {}, {})

Slides == 3

NextSlide == panel' = Set(panel, "slide", (panel.ui.slide + 1) % Slides)

ChooseSlide == Edit("slide", 0..(Slides - 1))

ChooseAgent == Edit("agent", 1..4)

\* One tick in ten shows a drift.
InvarianceTick == Edit("balanced", BOOLEAN)

EditThreshold == Edit("threshold", {50, 85, 99})

\* PlatformShowcase
ChooseShowcase == Edit("tab", 0..2)

\* The navigation bar over every public page: a change of page closes both of
\* its menus, a click elsewhere the services.
NavbarPanel ==
    Mounted("navbar", [page |-> "x1", services |-> FALSE, mobile |-> FALSE, scrolled |-> FALSE],
            {}, {})

ToggleMenu ==
    \/ Edit("services", BOOLEAN)
    \/ Edit("mobile", BOOLEAN)

FollowLink ==
    \E q \in Options \ {panel.ui.page} :
        panel' = [panel EXCEPT !.ui.page = q, !.ui.services = FALSE, !.ui.mobile = FALSE]

ClickOutside == panel.ui.services /\ panel' = Set(panel, "services", FALSE)

Scroll == Edit("scrolled", BOOLEAN)

-----------------------------------------------------------------------------
PublicInitial ==
    {CheckoutPanel, WalletPanel, BiometricsPanel, ScorerPanel, ChecklistPanel, LendingPanel,
     WealthPanel, TriagePanel, ConsentPanel, TypologyPanel, TickerPanel, HomePanel,
     NavbarPanel}

PublicUser ==
    \/ panel.name = "checkout" /\ CheckoutUser
    \/ panel.name = "wallet" /\ GenerateZKProof
    \/ panel.name = "biometrics" /\ BiometricsUser
    \/ panel.name = "scorer" /\ (MoveScorerSlider \/ HandleScore)
    \/ panel.name = "checklist" /\ ToggleDocument
    \/ panel.name = "lending" /\ EditLending
    \/ panel.name = "wealth" /\ EditWealth
    \/ panel.name = "triage" /\ (ChooseScenario \/ HandleAudit)
    \/ panel.name = "consent" /\ (EditConsent \/ HandleGenerate)
    \/ panel.name = "typology" /\ EditTypology
    \/ panel.name = "home" /\ (ChooseSlide \/ ChooseAgent \/ EditThreshold \/ ChooseShowcase)
    \/ panel.name = "navbar" /\ (ToggleMenu \/ FollowLink \/ ClickOutside \/ Scroll)

PublicTimer ==
    \/ panel.name = "ticker" /\ TickerArrival
    \/ panel.name = "home" /\ (NextSlide \/ InvarianceTick)

PublicResume ==
    \/ panel.name = "checkout" /\ CheckoutResume
    \/ panel.name = "wallet" /\ WalletResume
    \/ panel.name = "biometrics" /\ BiometricsResume
    \/ panel.name = "scorer" /\ ScoreAnswer
    \/ panel.name = "triage" /\ TriageStep
-----------------------------------------------------------------------------
\* The approval on display is the decision of the last application, announced to
\* the merchant, and the page says that it is processing exactly while one is in
\* flight.
ApprovalShown ==
    panel.name = "checkout"
        => /\ panel.ui.status = "APPROVED"
                => /\ panel.ui.details = Decision(panel.last["checkout"], "APPROVED")
                   /\ panel.last["checkout"] \in panel.ui.funded
           /\ panel.ui.status = "PROCESSING" <=> panel.calls # {}

\* "Application Approved!": a purchase announced as funded is not shown as declined.
\* The code does not keep this: when onApproval throws, handleCheckoutSubmit
\* declines what it has announced.
FundedNotDeclined ==
    panel.name = "checkout"
        => (panel.last["checkout"] \in panel.ui.funded => panel.ui.status # "DECLINED")
=============================================================================
