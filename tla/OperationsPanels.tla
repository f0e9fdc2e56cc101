---------------------------- MODULE OperationsPanels ----------------------------
(***************************************************************************)
(* The operations pages: the resiliency cockpit (GodsEyeResiliency.tsx),    *)
(* the executive dashboard (OmniMonopolyDashboard.tsx) and the database     *)
(* connector (DatabaseConnectorPage.tsx) with the services they poll        *)
(* (remediation logs and database_link.py).                                 *)
(***************************************************************************)
EXTENDS ConsolePanel, SequencesExt

CONSTANT RowLimit  \* how many streamed rows are kept (50 in the code)

-----------------------------------------------------------------------------
(* The code healer.  ui.server is the length of the service's log, ui.log   *)
(* of the one on display.                                                   *)

HealerPanel ==
    Mounted("healer", [polling |-> TRUE, log |-> 0, server |-> 0],
            {"poll", "remediate", "clear"}, {})

FetchLogs(p) == Begin(p, "poll", None, None)

\* The interval of 1.5 s.
PollLogs == panel.ui.polling /\ CanRun /\ panel' = FetchLogs(panel)

\* The effect of the switch fetches once more, whichever way it is turned.
TogglePolling ==
    /\ CanRun
    /\ panel' = FetchLogs(Set(panel, "polling", ~panel.ui.polling))

\* triggerAutoRemediation
Remediate ==
    /\ Idle("remediate") /\ CanRun
    /\ panel' = Set(Begin(panel, "remediate", "remediate", None), "log", 0)

\* clearHealerLogs: no spinner.
ClearLogs == CanRun /\ panel' = Begin(panel, "clear", None, None)

ServeLogs ==
    \E c \in Suspended("poll") :
        c.at = 0 /\ panel' = AwaitWith(panel, c, panel.ui.server)

ServeRemediation ==
    \E c \in Suspended("remediate") :
        c.at = 0 /\ panel' = Await(Set(panel, "server", panel.ui.server + 1), c)

ServeClear ==
    \E c \in Suspended("clear") :
        c.at = 0 /\ panel' = Await(Set(panel, "server", 0), c)

PollEnds ==
    \E c \in Suspended("poll") :
        \/ panel' = End(panel, c)
        \/ c.at = 1 /\ panel' = Set(End(panel, c), "log", c.arg)

\* finally: whatever became of the request, the log is fetched again.
RemediateEnds ==
    \E c \in Suspended("remediate") : panel' = FetchLogs(End(panel, c))

ClearEnds ==
    \E c \in Suspended("clear") :
        \/ panel' = End(panel, c)
        \/ c.at = 1 /\ panel' = Set(End(panel, c), "log", 0)

HealerUser == TogglePolling \/ Remediate \/ ClearLogs

HealerResume ==
    \/ ServeLogs \/ ServeRemediation \/ ServeClear
    \/ PollEnds \/ RemediateEnds \/ ClearEnds

-----------------------------------------------------------------------------
(* Sovereign inference: model weights travel to the enclave of the region,  *)
(* the score travels back; packet is what the map animates.                 *)

EnclavePanel == Mounted("enclave", [region |-> "IN", packet |-> None], {"infer"}, {})

SelectRegion == Edit("region", {"IN", "EU", "US"})

RunSovereignInference ==
    /\ Idle("infer") /\ CanRun
    /\ panel' = Set(Hide(Begin(panel, "infer", "infer", panel.ui.region), {"infer"}),
                    "packet", "model")

\* 600 ms later the model has arrived and the request leaves.
ModelArrives ==
    \E c \in Suspended("infer") :
        c.at = 0 /\ panel' = Set(Await(panel, c), "packet", None)

\* The answer is shown while its score still travels.
ScoreLeaves ==
    \E c \in Suspended("infer") :
        c.at = 1 /\ panel' = Set(Await(Show(panel, c, "live"), c), "packet", "score")

InferenceEnds ==
    \E c \in Suspended("infer") :
        c.at \in {1, 2} /\ panel' = Set(End(panel, c), "packet", None)

EnclaveResume == ModelArrives \/ ScoreLeaves \/ InferenceEnds

-----------------------------------------------------------------------------
(* The liquidity swap: currency, amount and bank are one offer here.        *)

Offers == {"o1", "o2"}

SwapPanel == Mounted("swap", [offer |-> "o1"], {"swap"}, {})

EditOffer == Edit("offer", Offers)

ExecuteLiquiditySwap == Request("swap", panel.ui.offer)

SwapAnswer == AnswerOrFail("swap")

-----------------------------------------------------------------------------
(* The executive dashboard: the boot sequence in flight since the mount,    *)
(* the valuation of a target with its letter of intent, the FX route.       *)

BootLines == 18

BootPanel == Begin(Mounted("boot", [over |-> FALSE], {"boot"}, {"boot"}), "boot", "boot", None)

\* Mutant of BootEnds: it waits for a line that is not in the script.
BootWaits ==
    \E c \in Suspended("boot") :
        c.at = BootLines + 1 /\ panel' = Set(End(panel, c), "over", TRUE)

BootEnds ==
    \E c \in Suspended("boot") :
        c.at = BootLines /\ panel' = Set(End(panel, c), "over", TRUE)

BootResume == PrintLine("boot", BootLines, "boot") \/ BootEnds

MergerPanel == Mounted("merger", [target |-> "o1", drawer |-> FALSE, saved |-> None],
                       {"valuate"}, {})

EditTarget == Edit("target", Offers)

MAScan == Request("valuate", panel.ui.target)

MAScanAnswer == AnswerOrFail("valuate")

Reports == {r \in panel.shown : r.op = "valuate"}

\* The preview's button is part of the report.
PreviewLoi == Reports # {} /\ Edit("drawer", {TRUE})

\* The drawer is drawn next to a report only.
CloseLoi == panel.ui.drawer /\ Reports # {} /\ panel' = Set(panel, "drawer", FALSE)

DownloadLoi ==
    /\ panel.ui.drawer
    /\ \E r \in Reports : panel' = Set(panel, "saved", r.arg)

MergerUser == EditTarget \/ MAScan \/ PreviewLoi \/ CloseLoi \/ DownloadLoi

FxPanel == Mounted("fx", [pair |-> "o1", same |-> FALSE], {"route"}, {})

EditPair == Edit("pair", Offers) \/ Edit("same", BOOLEAN)

\* The button is disabled while both currencies are the same.
FXRoute == ~panel.ui.same /\ Request("route", panel.ui.pair)

FXRouteAnswer == AnswerOrFail("route")

-----------------------------------------------------------------------------
(* The database link.  ui.server is the service's _connected_db, ui.shown   *)
(* the is_connected of the status on display.  A row is decided once the    *)
(* user has approved or flagged it.                                         *)

\* fetchStatus is in flight since the mount; its arg tells it from the polls.
LinkPanel ==
    Begin(Mounted("link", [server |-> FALSE, shown |-> FALSE, streaming |-> FALSE,
                           tab |-> "config", rows |-> <<>>],
                  {"connect", "status", "stream"}, {}),
          "status", None, "mount")

\* Every 3 s while streaming.
PollStatus ==
    /\ panel.ui.streaming /\ CanRun
    /\ panel' = Begin(panel, "status", None, "poll")

PollStream ==
    /\ panel.ui.streaming /\ CanRun
    /\ panel' = Begin(panel, "stream", None, None)

\* handleToggleStream: the closure keeps isStreaming.  The button of the live
\* tab is not disabled while a request is in flight.
ToggleStream ==
    /\ Idle("connecting") \/ panel.ui.tab = "live"
    /\ CanRun
    /\ panel' = Begin(panel, "connect", "connecting", panel.ui.streaming)

\* The tab of the live stream is disabled while there is nothing to see.
ChooseLinkTab ==
    \/ Edit("tab", {"config"})
    \/ (panel.ui.shown \/ panel.ui.rows # <<>>) /\ Edit("tab", {"live"})

ServeStatus ==
    \E c \in Suspended("status") :
        c.at = 0 /\ panel' = AwaitWith(panel, c, [from |-> c.arg, up |-> panel.ui.server])

StatusEnds ==
    \E c \in Suspended("status") :
        LET p == End(panel, c) IN
        \/ panel' = p
        \/ /\ c.at = 1
           /\ panel' = IF c.arg.from = "mount" /\ c.arg.up
                       THEN [p EXCEPT !.ui.shown = TRUE, !.ui.streaming = TRUE, !.ui.tab = "live"]
                       ELSE Set(p, "shown", c.arg.up)

ServeConnect ==
    \E c \in Suspended("connect") :
        c.at = 0 /\ panel' = Await(Set(panel, "server", ~c.arg), c)

ConnectEnds ==
    \E c \in Suspended("connect") :
        LET p == End(panel, c) IN
        \/ panel' = p
        \/ /\ c.at = 1
           /\ panel' = IF c.arg
                       THEN [p EXCEPT !.ui.streaming = FALSE, !.ui.rows = <<>>, !.ui.shown = FALSE]
                       ELSE [p EXCEPT !.ui.streaming = TRUE, !.ui.tab = "live"]

\* Mutant of Merge: an incoming row replaces the one already there.
MergeOver(new, rows) ==
    LET fresh == {r.id : r \in ToSet(new)}
        all == new \o SelectSeq(rows, LAMBDA r : r.id \notin fresh)
    IN  SubSeq(all, 1, IF Len(all) < RowLimit THEN Len(all) ELSE RowLimit)

\* Uniquely merge incoming transactions: rows already there stay as they are.
Merge(new, rows) ==
    LET known == {r.id : r \in ToSet(rows)}
        all == SelectSeq(new, LAMBDA r : r.id \notin known) \o rows
    IN  SubSeq(all, 1, IF Len(all) < RowLimit THEN Len(all) ELSE RowLimit)

\* An answer holds rows with random ids; two of them may be the same.
StreamEnds ==
    \E c \in Suspended("stream"), n \in 0..2 : \E ids \in [1..n -> Cases] :
        LET new == [k \in DOMAIN ids |-> [id |-> ids[k], decided |-> FALSE]]
        IN  panel' = Set(End(panel, c), "rows", Merge(new, panel.ui.rows))

\* handleRowAction finds its rows by their id.
RowAction ==
    /\ panel.ui.tab = "live"
    /\ \E tx \in {r \in ToSet(panel.ui.rows) : ~r.decided} :
          panel' = Set(panel, "rows",
                       [i \in DOMAIN panel.ui.rows |->
                           IF panel.ui.rows[i].id = tx.id THEN [tx EXCEPT !.decided = TRUE]
                           ELSE panel.ui.rows[i]])

LinkTimer == PollStatus \/ PollStream

LinkUser == ToggleStream \/ ChooseLinkTab \/ RowAction

LinkResume == ServeStatus \/ StatusEnds \/ ServeConnect \/ ConnectEnds \/ StreamEnds

-----------------------------------------------------------------------------
(* Testing a connection: two timed lines, the request, one more wait, and   *)
(* the schema that was found.  A failed test leaves the last schema.        *)

ProbePanel == Mounted("probe", [engine |-> "o1"], {"probe"}, {"probe"})

EditEngine == Edit("engine", Offers)

TestConnection ==
    /\ Idle("probe") /\ CanRun
    /\ panel' = Reopen(Begin(panel, "probe", "probe", panel.ui.engine), "probe")

ProbeLines == 2

ProbeAccepted ==
    \E c \in Suspended("probe") : c.at = ProbeLines /\ panel' = Await(panel, c)

ProbeEnds ==
    \E c \in Suspended("probe") :
        /\ c.at = ProbeLines + 1
        /\ panel' = End(Say(Show(panel, c, "live"), c, "probe"), c)

ProbeFails ==
    \E c \in Suspended("probe") :
        /\ c.at = ProbeLines
        /\ panel' = End(Say(panel, c, "probe"), c)

ProbeResume == PrintLine("probe", ProbeLines, "probe") \/ ProbeAccepted \/ ProbeEnds \/ ProbeFails

-----------------------------------------------------------------------------
OperationsInitial ==
    {HealerPanel, EnclavePanel, SwapPanel, BootPanel, MergerPanel, FxPanel,
     LinkPanel, ProbePanel}

OperationsUser ==
    \/ panel.name = "healer" /\ HealerUser
    \/ panel.name = "enclave" /\ (SelectRegion \/ RunSovereignInference)
    \/ panel.name = "swap" /\ (EditOffer \/ ExecuteLiquiditySwap)
    \/ panel.name = "merger" /\ MergerUser
    \/ panel.name = "fx" /\ (EditPair \/ FXRoute)
    \/ panel.name = "link" /\ LinkUser
    \/ panel.name = "probe" /\ (EditEngine \/ TestConnection)

OperationsTimer ==
    \/ panel.name = "healer" /\ PollLogs
    \/ panel.name = "link" /\ LinkTimer

OperationsResume ==
    \/ panel.name = "healer" /\ HealerResume
    \/ panel.name = "enclave" /\ EnclaveResume
    \/ panel.name = "swap" /\ SwapAnswer
    \/ panel.name = "boot" /\ BootResume
    \/ panel.name = "merger" /\ MAScanAnswer
    \/ panel.name = "fx" /\ FXRouteAnswer
    \/ panel.name = "link" /\ LinkResume
    \/ panel.name = "probe" /\ ProbeResume

-----------------------------------------------------------------------------
\* However the polls overlap, and whatever ids they bring again, a row the user
\* has decided is not offered for decision again while it stays on the page.
DecisionsSurvivePolls ==
    [][panel.name = "link" =>
        LET rows == panel.ui.rows
            next == panel'.ui.rows
        IN  \A i \in DOMAIN rows, j \in DOMAIN next :
                rows[i].id = next[j].id /\ rows[i].decided => next[j].decided]_panel
=============================================================================
