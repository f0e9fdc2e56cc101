----------------------------- MODULE FilingPanels -----------------------------
(***************************************************************************)
(* The payments, wealth and regulatory pages (FeaturePages.tsx): workflows  *)
(* of several awaited steps over the row selected in a table, which stays   *)
(* clickable while a step is in flight.                                     *)
(*                                                                         *)
(* COMPILED and SIGNED are marks of the page, not of a row.  ui.prepared    *)
(* observes what the mark on display rests on: the compilation or the seal  *)
(* that set it, with what was prepared (item) and the row on display when   *)
(* it ended (on), and nothing when the mark was taken back.  ui.sent        *)
(* observes the transmissions begun: what was sent (item), from which row   *)
(* (on), and the preparation its mark rested on (by).                       *)
(***************************************************************************)
EXTENDS ConsolePanel, Integers, SequencesExt

CONSTANTS ListLength, \* how many ingested transactions are kept (8 in the code)
          Equities    \* the target equity percentages tried

\* The preparation of a handler that ends while the row is on display.
Preparation(c, row) == [item |-> c.arg, on |-> row, run |-> c.run]

\* The handler that has just begun transmits an item from the row on display.
Transmitted(p, item, row) ==
    [p EXCEPT !.ui.sent =
        @ \cup {[item |-> item, on |-> row, run |-> p.runs, by |-> p.ui.prepared]}]

-----------------------------------------------------------------------------
(* PaymentsIntelligencePage: the ingestion stream and the dispute drawer.   *)

PaymentsPanel ==
    Mounted("payments",
            [ingesting |-> FALSE, txs |-> <<>>, tx |-> None, step |-> "DRAFT",
             prepared |-> {}, sent |-> {}],
            {"compile", "submit"}, {"dispute"})

\* Starting or stopping the stream also closes the drawer.
ToggleIngestion ==
    panel' = [panel EXCEPT !.ui.ingesting = ~@, !.ui.tx = None]

\* The interval that exists while ingesting prepends a transaction.
Ingest ==
    /\ panel.ui.ingesting
    /\ \E t \in Cases :
          panel' = Set(panel, "txs",
                       SubSeq(<<t>> \o panel.ui.txs, 1,
                              IF Len(panel.ui.txs) < ListLength
                              THEN Len(panel.ui.txs) + 1 ELSE ListLength))

\* Mutant of AuditDispute: the drawer opens at the step of the last dispute.
AuditAtLastStep ==
    \E t \in ToSet(panel.ui.txs) : panel' = Set(Wipe(panel, "dispute"), "tx", t)

\* Audit Dispute on a row: a fresh draft, whatever is in flight.
AuditDispute ==
    \E t \in ToSet(panel.ui.txs) :
        panel' = [Wipe(panel, "dispute") EXCEPT
                     !.ui.tx = t, !.ui.step = "DRAFT", !.ui.prepared = {}]

CloseDispute == panel.ui.tx # None /\ panel' = Set(panel, "tx", None)

Drawer(step) == panel.ui.tx # None /\ panel.ui.step = step

CompileLines == 3

CompileEvidence ==
    /\ Drawer("DRAFT") /\ Idle("dispute") /\ CanRun
    /\ panel' = Reopen(Begin(panel, "compile", "dispute", panel.ui.tx), "dispute")

SubmitLines == 2

SubmitDispute ==
    /\ Drawer("COMPILED") /\ Idle("dispute") /\ CanRun
    /\ panel' = Transmitted(Continue(Begin(panel, "submit", "dispute", panel.ui.tx), "dispute"),
                            panel.ui.tx, panel.ui.tx)

\* The last timed line comes with the next step of the dispute, which lands on
\* whatever row the drawer shows by then.
CompileEnds ==
    \E c \in Suspended("compile") :
        /\ c.at = CompileLines - 1
        /\ panel' = [End(Say(panel, c, "dispute"), c) EXCEPT
                        !.ui.step = "COMPILED",
                        !.ui.prepared = {Preparation(c, panel.ui.tx)}]

SubmitEnds ==
    \E c \in Suspended("submit") :
        /\ c.at = SubmitLines - 1
        /\ panel' = Set(End(Say(panel, c, "dispute"), c), "step", "SUBMITTED")

PaymentsResume ==
    \/ PrintLine("compile", CompileLines - 1, "dispute") \/ CompileEnds
    \/ PrintLine("submit", SubmitLines - 1, "dispute") \/ SubmitEnds

PaymentsUser ==
    \/ ToggleIngestion \/ AuditDispute \/ CloseDispute
    \/ CompileEvidence \/ SubmitDispute

-----------------------------------------------------------------------------
(* The routing controls of the same page: each change is logged first in a  *)
(* list of six.                                                             *)

RoutingPanel ==
    Mounted("routing", [limit |-> 1, offshore |-> TRUE, secure |-> FALSE, entries |-> 2],
            {}, {})

RoutingLogLength == 6

Logged(p) == [p EXCEPT !.ui.entries = IF @ < RoutingLogLength THEN @ + 1 ELSE @]

LimitChange == \E v \in {1, 2} \ {panel.ui.limit} : panel' = Logged(Set(panel, "limit", v))

ToggleOffshore == panel' = Logged(Set(panel, "offshore", ~panel.ui.offshore))

Toggle3ds == panel' = Logged(Set(panel, "secure", ~panel.ui.secure))

RoutingUser == LimitChange \/ ToggleOffshore \/ Toggle3ds

-----------------------------------------------------------------------------
(* WealthRiskPage: suitability, sanctions screening with its certificate,   *)
(* and the stress test.                                                     *)

Groups == {"HNI", "PEP", "OFAC"}

Scenarios == {"NONE", "RATE_SPIKE", "EQUITY_CRASH", "SUPPLY_SHOCK"}

ScreeningPanel ==
    Mounted("screening", [client |-> "c1", group |-> "HNI", certificate |-> FALSE],
            {"screen"}, {"screen"})

EditClient == Edit("client", {"c1", "c2"})

ChooseGroup == Edit("group", Groups)

ScreenLines == 3

LaunchScreening ==
    /\ Idle("screen") /\ CanRun
    /\ panel' = Set(Reopen(Hide(Begin(panel, "screen", "screen", panel.ui.group), {"screen"}),
                           "screen"), "certificate", FALSE)

Verdict(group) ==
    CASE group = "PEP" -> "FLAGGED_EDD"
      [] group = "OFAC" -> "ASSETS_FROZEN"
      [] group = "HNI" -> "APPROVED"

ScreeningEnds ==
    \E c \in Suspended("screen") :
        /\ c.at = ScreenLines
        /\ panel' = End(Say(Show(panel, c, Verdict(c.arg)), c, "screen"), c)

\* The certificate's button is part of an approved result.
DisplayCertificate ==
    /\ \E r \in panel.shown : r.out = "APPROVED"
    /\ panel' = Set(panel, "certificate", TRUE)

ScreeningResume == PrintLine("screen", ScreenLines, "screen") \/ ScreeningEnds

ScreeningUser == EditClient \/ ChooseGroup \/ LaunchScreening \/ DisplayCertificate

\* Math.round of a number of tenths that is not negative.
RoundTenths(n) == (n + 5) \div 10

ExpectedRisk(horizon, equity) == RoundTenths(30 * horizon + 7 * equity)

Gap(a, b) == IF a < b THEN b - a ELSE a - b

AtLeast(floor, n) == IF n < floor THEN floor ELSE n

\* What the stress test makes of an equity share e under a scenario.
Allocation(scenario, e) ==
    CASE scenario = "RATE_SPIKE" ->
           [equity |-> AtLeast(10, e - 12), bonds |-> AtLeast(20, 75 - e), cash |-> 37]
      [] scenario = "EQUITY_CRASH" ->
           [equity |-> AtLeast(5, e - 30), bonds |-> AtLeast(30, 115 - e), cash |-> 15]
      [] scenario = "SUPPLY_SHOCK" ->
           [equity |-> AtLeast(10, e - 8), bonds |-> AtLeast(20, 82 - e), cash |-> 26]
      [] scenario = "NONE" ->
           [equity |-> e, bonds |-> 90 - e, cash |-> 10]

\* The validator and the stress test read the same equity slider and share
\* nothing else; each has the slider in its panel.
SuitabilityPanel ==
    Mounted("suitability",
            [horizon |-> 8, tolerance |-> 65, equity |-> 70, verdict |-> None], {}, {})

MoveSuitability ==
    \/ Edit("horizon", {1, 8, 20}) \/ Edit("tolerance", {10, 65, 100})
    \/ Edit("equity", Equities)

RunSuitability ==
    LET score == ExpectedRisk(panel.ui.horizon, panel.ui.equity)
        deviation == Gap(score, panel.ui.tolerance)
    IN  panel' = Set(panel, "verdict",
                     [score |-> score, deviation |-> deviation, passed |-> deviation <= 25])

StressPanel ==
    Mounted("stress", [equity |-> 70, scenario |-> "NONE"], {"stress"}, {})

MoveStress == Edit("equity", Equities) \/ Edit("scenario", Scenarios)

\* The last output stays on display while the next test runs.
RunStressTest ==
    /\ Idle("stress") /\ CanRun
    /\ panel' = Begin(panel, "stress", "stress",
                      [scenario |-> panel.ui.scenario, equity |-> panel.ui.equity])

StressEnds ==
    \E c \in Suspended("stress") :
        panel' = End(Show(panel, c, Allocation(c.arg.scenario, c.arg.equity)), c)

SuitabilityUser == MoveSuitability \/ RunSuitability

StressUser == MoveStress \/ RunStressTest

-----------------------------------------------------------------------------
(* RegTechConsolePage: a suspicious activity report is drafted for the      *)
(* alert of the row, sealed, transmitted, and saved as a signed envelope.   *)

RegTechPanel ==
    Mounted("regtech",
            [alert |-> None, draft |-> None, signed |-> FALSE, signature |-> None,
             step |-> "IDLE", reference |-> None, envelope |-> None,
             prepared |-> {}, sent |-> {}],
            {"seal", "transmit"}, {"filing"})

\* The signature of an earlier report is not cleared here.
SelectAmlAlert ==
    \E a \in Cases :
        panel' = [Wipe(panel, "filing") EXCEPT
                     !.ui.alert = a, !.ui.draft = None, !.ui.signed = FALSE,
                     !.ui.step = "IDLE", !.ui.prepared = {}]

CloseAmlAlert == panel.ui.alert # None /\ panel' = Set(panel, "alert", None)

\* The button is drawn while there is no draft.
GenerateSar ==
    /\ panel.ui.alert # None /\ panel.ui.draft = None
    /\ panel' = [Wipe(panel, "filing") EXCEPT
                    !.ui.draft = "drafted", !.ui.signed = FALSE,
                    !.ui.signature = None, !.ui.step = "IDLE", !.ui.prepared = {}]

\* Erasing the whole text brings the drafting button back.
EditSar ==
    /\ panel.ui.alert # None /\ panel.ui.draft # None
    /\ Edit("draft", {"edited", None})

Report == [alert |-> panel.ui.alert, draft |-> panel.ui.draft]

FilingConsole == panel.ui.alert # None /\ panel.ui.draft # None

PqcSignSar ==
    /\ FilingConsole /\ ~panel.ui.signed /\ Idle("filing") /\ CanRun
    /\ panel' = Begin(panel, "seal", "filing", Report)

TransmitLines == 3

TransmitSar ==
    /\ FilingConsole /\ panel.ui.signed /\ panel.ui.step # "FILED"
    /\ Idle("filing") /\ CanRun
    /\ panel' = Transmitted(Reopen(Begin(panel, "transmit", "filing", Report), "filing"),
                            Report, panel.ui.alert)

\* The seal lands on whatever report the page shows by then.
SealEnds ==
    \E c \in Suspended("seal") :
        panel' = [End(panel, c) EXCEPT
                     !.ui.signature = c.arg, !.ui.signed = TRUE, !.ui.step = "SIGNED",
                     !.ui.prepared = {Preparation(c, panel.ui.alert)}]

TransmitEnds ==
    \E c \in Suspended("transmit") :
        /\ c.at = TransmitLines - 1
        /\ panel' = [End(Say(panel, c, "filing"), c) EXCEPT
                        !.ui.reference = c.run, !.ui.step = "FILED"]

DownloadEnvelope ==
    /\ FilingConsole /\ panel.ui.step = "FILED"
    /\ panel' = Set(panel, "envelope",
                    [report |-> Report, signature |-> panel.ui.signature])

RegTechResume ==
    \/ SealEnds
    \/ PrintLine("transmit", TransmitLines - 1, "filing") \/ TransmitEnds

RegTechUser ==
    \/ SelectAmlAlert \/ CloseAmlAlert \/ GenerateSar \/ EditSar
    \/ PqcSignSar \/ TransmitSar \/ DownloadEnvelope

-----------------------------------------------------------------------------
FilingInitial ==
    {PaymentsPanel, RoutingPanel, ScreeningPanel, SuitabilityPanel,
     StressPanel, RegTechPanel}

FilingUser ==
    \/ panel.name = "payments" /\ PaymentsUser
    \/ panel.name = "routing" /\ RoutingUser
    \/ panel.name = "screening" /\ ScreeningUser
    \/ panel.name = "suitability" /\ SuitabilityUser
    \/ panel.name = "stress" /\ StressUser
    \/ panel.name = "regtech" /\ RegTechUser

\* The ingestion interval is a timer too, but it never ends by itself.
FilingTimer == panel.name = "payments" /\ Ingest

FilingResume ==
    \/ panel.name = "payments" /\ PaymentsResume
    \/ panel.name = "screening" /\ ScreeningResume
    \/ panel.name = "stress" /\ StressEnds
    \/ panel.name = "regtech" /\ RegTechResume

-----------------------------------------------------------------------------
\* A dispute or a report is transmitted only under a mark that was set while its
\* own row was on display, never under one that an earlier row left behind, and
\* no compilation or seal serves two transmissions, although rows can be
\* selected, drafts regenerated and the drawer closed while either step is in
\* flight.  That it was the row or the report itself that was prepared is more:
\* see SentAsPrepared.
FiledUnderOwnMark ==
    panel.name \in {"payments", "regtech"}
        => \A s \in panel.ui.sent :
              /\ \E q \in s.by : q.on = s.on
              /\ \A t \in panel.ui.sent : t.by = s.by => t = s

\* "Dispute evidence packages signed and timestamped", "Case evidence packages
\* securely locked": what is transmitted is what was prepared.  The code does
\* not keep this: a compilation or a seal marks the row selected when it ends,
\* and a report can be edited after its seal.
SentAsPrepared ==
    panel.name \in {"payments", "regtech"}
        => \A s \in panel.ui.sent : \E q \in s.by : q.item = s.item

\* "Download Signed Filer Envelope": an envelope that is saved carries a
\* signature.  The code does not keep this: a report drafted while another is
\* transmitted is marked filed, and its signature was cleared.
SavedEnvelopeSigned ==
    panel.name = "regtech" /\ panel.ui.envelope # None
        => panel.ui.envelope.signature # None
=============================================================================
