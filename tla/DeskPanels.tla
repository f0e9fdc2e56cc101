------------------------------ MODULE DeskPanels ------------------------------
(***************************************************************************)
(* The dashboard (Dashboard.tsx, useMockData.ts), the investigator's tools  *)
(* (InvestigatorChat.tsx, EmbeddedInvestigatorTerminal.tsx,                 *)
(* InteractiveFraudRingExplorer.tsx, StreamingTelemetryGrid.tsx) and the    *)
(* background loads of the tax page (TaxCommandCenter.tsx).                 *)
(***************************************************************************)
EXTENDS ConsolePanel, Integers, SequencesExt

CONSTANTS FeedLength,   \* alerts kept by the simulated stream (15 in the code)
          MaxExpanded   \* bound on the nodes added to the fraud ring

-----------------------------------------------------------------------------
(* useMockData: the first load, the interval and the refresh button start a *)
(* request each, whether or not the last one was answered; a failure shows  *)
(* the mock data and its badge.                                             *)

FeedPanel ==
    Begin(Mounted("feed", [filter |-> "x1", mocked |-> TRUE, row |-> None],
                  {"poll", "highlight"}, {}),
          "poll", None, None)

FetchData == CanRun /\ panel' = Begin(panel, "poll", None, None)

FetchEnds ==
    \E c \in Suspended("poll"), out \in Outcome :
        panel' = Set(End(Show(panel, c, out), c), "mocked", out = "fallback")

ChooseFilter == Edit("filter", {"x1", "x2"})

\* The transaction feed highlights a row for a while; the interval is longer
\* than that.
HighlightRow ==
    /\ CanRun /\ Suspended("highlight") = {}
    /\ \E t \in Cases : panel' = Set(Begin(panel, "highlight", None, t), "row", t)

HighlightEnds == \E c \in Suspended("highlight") : panel' = Set(End(panel, c), "row", None)

-----------------------------------------------------------------------------
(* Heartbeat, throughput, heat map and the promotion of a challenger model. *)

OverviewPanel ==
    Mounted("overview", [confirm |-> FALSE, promoted |-> FALSE, hovered |-> None, tps |-> 1200],
            {}, {})

\* Two bars of the throughput gauge: the rate is drawn from 1200..1800.
Throughput == Edit("tps", {1200, 1500, 1800})

HandleCellHover == Edit("hovered", Cases \cup {None})

AskPromotion == ~panel.ui.promoted /\ Edit("confirm", BOOLEAN)

HandlePromote ==
    /\ panel.ui.confirm
    /\ panel' = [panel EXCEPT !.ui.promoted = TRUE, !.ui.confirm = FALSE]

OverviewUser == HandleCellHover \/ AskPromotion \/ HandlePromote

-----------------------------------------------------------------------------
(* The investigator's chat: one question at a time.                         *)

ChatPanel == Mounted("chat", [input |-> None, messages |-> <<"assistant">>], {"ask"}, {})

EditQuestion == Edit("input", Cases \cup {None})

Speak(p, role) == [p EXCEPT !.ui.messages = Append(@, role)]

CanAsk == panel.ui.input # None /\ Idle("ask")

SendMessage ==
    /\ CanAsk /\ CanRun
    /\ panel' = Set(Speak(Begin(panel, "ask", "ask", panel.ui.input), "user"), "input", None)

\* An answer or an apology.
MessageAnswered == \E c \in Suspended("ask") : panel' = Speak(End(panel, c), "assistant")

-----------------------------------------------------------------------------
(* The terminal: a command is listed at once and answered by a timer; clear *)
(* empties the list when its own timer fires.  ui.waiting holds the entries *)
(* that show "...".                                                         *)

TerminalPanel ==
    Mounted("terminal", [expanded |-> FALSE, waiting |-> {}, answered |-> {}], {"command"}, {})

HandleCommand ==
    /\ CanRun
    /\ \E cmd \in {"clear", "other"} :
          panel' = [Begin(panel, "command", None, cmd) EXCEPT !.ui.waiting = @ \cup {panel.runs + 1}]

\* The output goes to the entry of the command, if it is still listed.
CommandOutput ==
    \E c \in Suspended("command") :
        /\ c.arg = "other"
        /\ panel' = [End(panel, c) EXCEPT
                        !.ui.waiting = @ \ {c.run},
                        !.ui.answered = @ \cup ({c.run} \cap panel.ui.waiting)]

\* Mutant of ClearOutput: it clears what was answered only.
ClearAnswered ==
    \E c \in Suspended("command") :
        /\ c.arg = "clear"
        /\ panel' = [End(panel, c) EXCEPT !.ui.answered = {}]

ClearOutput ==
    \E c \in Suspended("command") :
        /\ c.arg = "clear"
        /\ panel' = [End(panel, c) EXCEPT !.ui.waiting = {}, !.ui.answered = {}]

ToggleExpanded == Edit("expanded", BOOLEAN)

-----------------------------------------------------------------------------
(* The ring explorer and the telemetry grid.                                *)

RingPanel == Mounted("ring", [edges |-> {}, next |-> 1], {"expand"}, {})

\* The first node is 0; a click on a node starts one hop at a time.
Nodes(ui) == 0..(ui.next - 1)

ExpandNode ==
    /\ Idle("expand") /\ CanRun
    /\ \E n \in Nodes(panel.ui) : panel' = Begin(panel, "expand", "expand", n)

\* The new node, and the edge from the node that was clicked.
NodeExpanded ==
    \E c \in Suspended("expand") :
        panel' = [End(panel, c) EXCEPT !.ui.edges = @ \cup {<<c.arg, panel.ui.next>>},
                                       !.ui.next = @ + 1]

\* onConnect: the user draws an edge.
ConnectNodes ==
    \E n, m \in Nodes(panel.ui) :
        /\ Cardinality(panel.ui.edges) < MaxExpanded
        /\ panel' = [panel EXCEPT !.ui.edges = @ \cup {<<n, m>>}]

GridPanel == Mounted("grid", [streaming |-> TRUE, rows |-> 1], {}, {})

\* A row is prepended up to the cap.
StreamRow ==
    /\ panel.ui.streaming /\ panel.ui.rows < FeedLength
    /\ panel' = Set(panel, "rows", panel.ui.rows + 1)

ToggleStreaming == Edit("streaming", BOOLEAN)

-----------------------------------------------------------------------------
(* useAutonomousData: live alerts, or a simulated stream when there are     *)
(* none.  The cleanup of the effect may run before the answer.              *)

AlertsPanel ==
    Begin(Mounted("alerts",
                  [mounted |-> TRUE, interval |-> FALSE, autonomous |-> FALSE, alerts |-> 1],
                  {"fetch"}, {}),
          "fetch", None, None)

\* Mutant of FetchLive: the interval starts whether or not the page is there.
FetchLiveLate ==
    \E c \in Suspended("fetch") :
        \/ panel' = Set(End(panel, c), "autonomous", FALSE)
        \/ panel' = [End(panel, c) EXCEPT !.ui.autonomous = TRUE, !.ui.interval = TRUE]

FetchLive ==
    \E c \in Suspended("fetch") :
        \/ panel' = IF panel.ui.mounted THEN Set(End(panel, c), "autonomous", FALSE)
                    ELSE End(panel, c)
        \/ panel' = IF panel.ui.mounted
                    THEN [End(panel, c) EXCEPT !.ui.autonomous = TRUE, !.ui.interval = TRUE]
                    ELSE End(panel, c)

NewAlert ==
    /\ panel.ui.interval
    /\ panel' = Set(panel, "alerts", IF panel.ui.alerts < FeedLength THEN panel.ui.alerts + 1
                                     ELSE FeedLength)

Unmount ==
    /\ panel.ui.mounted
    /\ panel' = [panel EXCEPT !.ui.mounted = FALSE, !.ui.interval = FALSE]

\* Opening the forensics tab loads it each time; a failure waits, then shows
\* the mock.
ForensicsPanel == Mounted("forensics", [tab |-> "overview"], {"forensics"}, {})

ChooseTaxTab == Edit("tab", {"overview"})

OpenForensics ==
    /\ panel.ui.tab # "forensics" /\ CanRun
    /\ panel' = Set(Begin(panel, "forensics", "loading", None), "tab", "forensics")

ForensicsFails == \E c \in Suspended("forensics") : c.at = 0 /\ panel' = Await(panel, c)

ForensicsEnds ==
    \E c \in Suspended("forensics") :
        panel' = End(Show(panel, c, IF c.at = 0 THEN "live" ELSE "fallback"), c)

-----------------------------------------------------------------------------
DeskInitial ==
    {FeedPanel, OverviewPanel, ChatPanel, TerminalPanel, RingPanel, GridPanel, AlertsPanel,
     ForensicsPanel}

DeskUser ==
    \/ panel.name = "feed" /\ ChooseFilter
    \/ panel.name = "overview" /\ OverviewUser
    \/ panel.name = "chat" /\ (EditQuestion \/ SendMessage)
    \/ panel.name = "terminal" /\ (HandleCommand \/ ToggleExpanded)
    \/ panel.name = "ring" /\ (ExpandNode \/ ConnectNodes)
    \/ panel.name = "grid" /\ ToggleStreaming
    \/ panel.name = "alerts" /\ Unmount
    \/ panel.name = "forensics" /\ (ChooseTaxTab \/ OpenForensics)

DeskTimer ==
    \/ panel.name = "feed" /\ (FetchData \/ HighlightRow)
    \/ panel.name = "overview" /\ Throughput
    \/ panel.name = "grid" /\ StreamRow
    \/ panel.name = "alerts" /\ NewAlert

DeskResume ==
    \/ panel.name = "feed" /\ (FetchEnds \/ HighlightEnds)
    \/ panel.name = "chat" /\ MessageAnswered
    \/ panel.name = "terminal" /\ (CommandOutput \/ ClearOutput)
    \/ panel.name = "ring" /\ NodeExpanded
    \/ panel.name = "alerts" /\ FetchLive
    \/ panel.name = "forensics" /\ (ForensicsFails \/ ForensicsEnds)
-----------------------------------------------------------------------------
\* A page that is gone leaves no interval behind, although its first load may
\* be answered after the cleanup has run.
NoTimerLeaks == panel.name = "alerts" => panel.ui.mounted \/ ~panel.ui.interval
=============================================================================
