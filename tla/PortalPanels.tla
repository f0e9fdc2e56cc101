------------------------------ MODULE PortalPanels ------------------------------
(***************************************************************************)
(* The developer portal (CreditLineDevPortal.tsx), the strategy room        *)
(* (ExecutiveStrategyRoom.tsx) and the treasury, institutional and          *)
(* compliance portals (TreasuryAndAuditPortal.tsx,                          *)
(* RwaInstitutionalPortal.tsx, RiskHedgingAndCompliance.tsx), with what     *)
(* their services keep.                                                     *)
(***************************************************************************)
EXTENDS ConsolePanel

CONSTANT MaxItems  \* bound on the inbox items the strategy agent queues

Forms == {"x1", "x2"}

-----------------------------------------------------------------------------
(* Developer keys and the webhook history.  ui.server and ui.dispatched are *)
(* the gateway's, ui.listed and ui.history the copies on display.           *)

Key(n) == [key |-> n]

\* get_developer_metrics lists the first and the last letters of a key.
Mask(k) == [masked |-> k]

\* What the portal sends for a row: neither "tenantA" nor "_8923" is left in
\* the mask of that key, nor their counterparts in any other, so the mask
\* itself is sent.
Resolve(mask) == mask

KeysPanel ==
    Begin(Mounted("keys",
                  [server |-> {Key(1), Key(2)}, listed |-> {}, generated |-> None,
                   modal |-> FALSE, dispatched |-> 0, history |-> 0, url |-> "x1"],
                  {"sync", "create", "revoke", "invoice", "dispatch"}, {}),
          "sync", "syncing", None)

Sync(p) == Begin(p, "sync", "syncing", None)

ServeMetrics ==
    \E c \in Suspended("sync") :
        c.at = 0 /\ panel' = AwaitWith(panel, c, {Mask(k) : k \in panel.ui.server})

ServeHistory ==
    \E c \in Suspended("sync") :
        /\ c.at = 1
        /\ panel' = AwaitWith(Set(panel, "listed", c.arg), c, panel.ui.dispatched)

\* Either request may fail; what was shown before stays.
SyncEnds ==
    \E c \in Suspended("sync") :
        \/ panel' = End(panel, c)
        \/ c.at = 2 /\ panel' = Set(End(panel, c), "history", c.arg)

\* handleCreateKey: no spinner, a second key may be asked for at once.
CreateKey == CanRun /\ panel' = Begin(panel, "create", None, None)

ServeCreate ==
    \E c \in Suspended("create") :
        /\ c.at = 0
        /\ LET k == Key(c.run + 2)
           IN  panel' = AwaitWith([panel EXCEPT !.ui.server = @ \cup {k}], c, k)

CreateEnds ==
    \E c \in Suspended("create") :
        \/ panel' = End(panel, c)
        \/ /\ c.at = 1
           /\ panel' = Sync([End(panel, c) EXCEPT !.ui.generated = c.arg, !.ui.modal = TRUE])

SavedKey ==
    /\ panel.ui.modal
    /\ panel' = [panel EXCEPT !.ui.modal = FALSE, !.ui.generated = None]

\* handleRevokeKey, once confirmed, and handleTriggerStripeWebhook.
RevokeKey ==
    /\ CanRun
    /\ \E m \in panel.ui.listed : panel' = Begin(panel, "revoke", None, Resolve(m))

\* revoke_api_key: a key that is not in the registry is not found.
ServeRevoke ==
    \E c \in Suspended("revoke") :
        /\ c.at = 0
        /\ panel' = IF c.arg \in panel.ui.server
                    THEN Await([panel EXCEPT !.ui.server = @ \ {c.arg}], c)
                    ELSE End(panel, c)

RevokeEnds ==
    \E c \in Suspended("revoke") :
        panel' = IF c.at = 1 THEN Sync(End(panel, c)) ELSE End(panel, c)

\* The meter of a mask is not found: the answer has no total to print.
InvoiceCycle ==
    /\ CanRun
    /\ \E m \in panel.ui.listed : panel' = Begin(panel, "invoice", None, Resolve(m))

InvoiceEnds == \E c \in Suspended("invoice") : panel' = End(panel, c)

EditWebhookUrl == Edit("url", Forms)

TestWebhook == RequestKeeping("dispatch", panel.ui.url)

ServeDispatch ==
    \E c \in Suspended("dispatch") :
        c.at = 0 /\ panel' = Await(Set(panel, "dispatched", panel.ui.dispatched + 1), c)

DispatchEnds ==
    \E c \in Suspended("dispatch") :
        \/ panel' = End(panel, c)
        \/ c.at = 1 /\ panel' = Sync(End(panel, c))

KeysUser ==
    CreateKey \/ SavedKey \/ RevokeKey \/ InvoiceCycle \/ EditWebhookUrl \/ TestWebhook

KeysResume ==
    \/ ServeMetrics \/ ServeHistory \/ SyncEnds
    \/ ServeCreate \/ CreateEnds
    \/ ServeRevoke \/ RevokeEnds \/ InvoiceEnds
    \/ ServeDispatch \/ DispatchEnds

-----------------------------------------------------------------------------
(* The request playground: endpoint, key and row are one request here.      *)

PlaygroundPanel == Mounted("playground", [request |-> "x1", lang |-> "curl"], {"play"}, {})

EditRequest == Edit("request", Forms) \/ Edit("lang", {"curl", "python"})

RunPlayground == Request("play", panel.ui.request)

PlaygroundAnswer == Answer("play")

-----------------------------------------------------------------------------
(* The strategy room.  A forecast below the reserve makes the service drop  *)
(* the pending items of its inbox and queue new ones.  ui.server is that    *)
(* inbox, ui.inbox the copy on display, ui.selected an item of a copy.      *)

Item(n, status) == [id |-> n, status |-> status]

\* The effect of the mount and of every slider.
Reload(p) == Begin(Begin(p, "forecast", "forecast", p.ui.scenario), "inbox", None, None)

StrategyPanel ==
    Reload(Mounted("strategy",
                   [scenario |-> "x1", server |-> {Item(1, "PENDING")}, queued |-> 1,
                    inbox |-> {}, selected |-> None, edited |-> FALSE],
                   {"forecast", "inbox", "decide"}, {}))

MoveStrategySlider ==
    /\ CanRun
    /\ \E v \in Forms \ {panel.ui.scenario} : panel' = Reload(Set(panel, "scenario", v))

RunForecast ==
    /\ Idle("forecast") /\ CanRun
    /\ panel' = Begin(panel, "forecast", "forecast", panel.ui.scenario)

\* Mutant of Requeue: the inbox is emptied, the decided items included.
RequeueAll(ui) ==
    [ui EXCEPT !.queued = @ + 1, !.server = {Item(ui.queued + 1, "PENDING")}]

\* _queue_outreach_actions and _queue_budget_rebalancing
Requeue(ui) ==
    [ui EXCEPT !.queued = @ + 1,
               !.server = {i \in @ : i.status # "PENDING"} \cup {Item(ui.queued + 1, "PENDING")}]

ServeForecast ==
    \E c \in Suspended("forecast") :
        /\ c.at = 0
        /\ \/ panel' = Await(panel, c)
           \/ /\ panel.ui.queued < MaxItems
              /\ panel' = Await([panel EXCEPT !.ui = Requeue(@)], c)

ForecastEnds ==
    \E c \in Suspended("forecast") :
        \/ panel' = End(panel, c)
        \/ c.at = 1 /\ panel' = End(Show(panel, c, "live"), c)

ServeInbox ==
    \E c \in Suspended("inbox") :
        c.at = 0 /\ panel' = AwaitWith(panel, c, panel.ui.server)

\* Each load selects the first pending item, or the first, and the draft of
\* the editor becomes the one of that item.
FirstOf(items) ==
    LET pending == {i \in items : i.status = "PENDING"}
        among == IF pending # {} THEN pending ELSE items
    IN  CHOOSE i \in among : \A j \in among : i.id <= j.id

InboxEnds ==
    \E c \in Suspended("inbox") :
        \/ panel' = End(panel, c)
        \/ /\ c.at = 1
           /\ panel' = [End(panel, c) EXCEPT
                           !.ui.inbox = c.arg,
                           !.ui.selected = IF c.arg = {} THEN @ ELSE FirstOf(c.arg),
                           !.ui.edited = @ /\ c.arg = {}]

SelectItem ==
    \E i \in panel.ui.inbox :
        panel' = [panel EXCEPT !.ui.selected = i, !.ui.edited = FALSE]

Pending == panel.ui.selected # None /\ panel.ui.selected.status = "PENDING"

EditEmail == Pending /\ Edit("edited", {TRUE})

\* handleAction: no spinner, the buttons stay until the inbox is reloaded.  The
\* page has buttons to approve and to reject; the third decision the service
\* knows, UPDATE, revises a draft and no control sends it.
Decide ==
    /\ Pending /\ CanRun
    /\ \E decision \in {"APPROVED", "REJECTED"} :
          panel' = Begin(panel, "decide", None,
                         [id |-> panel.ui.selected.id, decision |-> decision])

\* process_inbox_action looks at the id only.
ServeDecision ==
    \E c \in Suspended("decide") :
        /\ c.at = 0
        /\ \E i \in panel.ui.server :
              /\ i.id = c.arg.id
              /\ panel' = Await([panel EXCEPT
                     !.ui.server = (@ \ {i}) \cup {Item(i.id, c.arg.decision)}], c)

\* Only a decision that was taken reloads the inbox.
DecisionEnds ==
    \E c \in Suspended("decide") :
        \/ panel' = End(panel, c)
        \/ c.at = 1 /\ panel' = Begin(End(panel, c), "inbox", None, None)

StrategyUser == MoveStrategySlider \/ RunForecast \/ SelectItem \/ EditEmail \/ Decide

StrategyResume ==
    \/ ServeForecast \/ ForecastEnds \/ ServeInbox \/ InboxEnds
    \/ ServeDecision \/ DecisionEnds

\* The contract audit of the same page keeps its last result.
ContractPanel == Mounted("contract", [text |-> "x1"], {"audit"}, {})

EditContract == Edit("text", Forms \cup {None})

RunContractAudit == panel.ui.text # None /\ RequestKeeping("audit", panel.ui.text)

ContractAnswer == AnswerOrFail("audit")

-----------------------------------------------------------------------------
(* Treasury: the sweep runs at the mount and on demand; a solvency proof is *)
(* generated, edited and verified behind a scripted terminal; the board     *)
(* deck is compiled from the form.                                          *)

SweepPanel ==
    Begin(Mounted("sweep", [form |-> "x1"], {"sweep", "deck"}, {}), "sweep", "sweep", "x1")

EditTreasuryForm == Edit("form", Forms)

HandleSweep == RequestKeeping("sweep", panel.ui.form)

SweepAnswer == AnswerOrFail("sweep")

\* The deck carries the last sweep; saving it shows nothing.
DownloadDeck == RequestKeeping("deck", [form |-> panel.ui.form, sweep |-> panel.shown])

DeckEnds == \E c \in Suspended("deck") : panel' = End(panel, c)

SolvencyPanel == Mounted("solvency", [pasted |-> None], {"generate", "solvency"}, {"solvency"})

GenerateProof == RequestKeeping("generate", None)

\* The proof is also pasted into the verifier.
GenerateEnds ==
    \E c \in Suspended("generate") :
        \/ panel' = End(panel, c)
        \/ panel' = Set(End(Show(panel, c, "live"), c), "pasted", "x1")

EditProof == Edit("pasted", Forms \cup {None})

SolvencyLines == 5

\* runVerificationPipeline, for a text that parses.
RunVerification ==
    /\ panel.ui.pasted # None /\ Idle("solvency") /\ CanRun
    /\ panel' = Wipe(Hide(Begin(panel, "solvency", "solvency", panel.ui.pasted), {"solvency"}),
                     "solvency")

VerificationEnds ==
    \E c \in Suspended("solvency") :
        /\ c.at = SolvencyLines
        /\ panel' \in {End(panel, c), End(Show(panel, c, "live"), c)}

SolvencyUser == GenerateProof \/ EditProof \/ RunVerification

SolvencyResume ==
    GenerateEnds \/ PrintLine("solvency", SolvencyLines, "solvency") \/ VerificationEnds

-----------------------------------------------------------------------------
(* Institutional portal: the list of vaults is fetched by its button and    *)
(* after every order; orders are liquidations and oracle price drops.       *)

VaultsPanel ==
    Begin(Mounted("vaults", [price |-> 2, loan |-> 2, list |-> None], {"vaults", "liquidate", "drop"}, {}),
          "vaults", "vaults", None)

RefreshVaults == CanRun /\ panel' = Begin(panel, "vaults", "vaults", None)

Terms == [price |-> panel.ui.price, loan |-> panel.ui.loan]

\* triggerOraclePriceDrop and executeLiquidation, on a row of the list: a loan
\* is offered for liquidation when the price has dropped.
PriceDrop ==
    /\ panel.ui.list # None /\ panel.ui.list.price = 2 /\ CanRun
    /\ panel' = Begin(panel, "drop", None, None)

Liquidate ==
    /\ panel.ui.list # None /\ panel.ui.list.price = 1
    /\ Idle("liquidate") /\ CanRun
    /\ panel' = Begin(panel, "liquidate", "liquidate", panel.ui.list.loan)

ServeVaults ==
    \E c \in Suspended("vaults") : c.at = 0 /\ panel' = AwaitWith(panel, c, Terms)

ServeOrder ==
    \/ \E c \in Suspended("drop") :
          c.at = 0 /\ panel' = Await(Set(panel, "price", 1), c)
    \/ \E c \in Suspended("liquidate") :
          /\ c.at = 0 /\ panel.ui.loan > 0
          /\ panel' = Await(Set(panel, "loan", panel.ui.loan - 1), c)

VaultsEnd ==
    \E c \in Suspended("vaults") :
        \/ panel' = End(panel, c)
        \/ c.at = 1 /\ panel' = Set(End(panel, c), "list", c.arg)

\* An order that succeeded awaits the new list before its spinner goes.
OrderDone ==
    \E c \in Suspended("drop") \cup Suspended("liquidate") :
        c.at = 1 /\ panel' = AwaitWith(Begin(panel, "vaults", "vaults", None), c, panel.runs + 1)

OrderEnds ==
    \E c \in Suspended("drop") \cup Suspended("liquidate") :
        /\ c.at = 2 => c.arg \notin {d.run : d \in Suspended("vaults")}
        /\ panel' = End(panel, c)

VaultsResume == ServeVaults \/ ServeOrder \/ VaultsEnd \/ OrderDone \/ OrderEnds

\* The credential dialogue keeps its answer until it is closed.
DidPanel == Mounted("did", [open |-> FALSE], {"did"}, {})

OpenDid == Edit("open", {TRUE})

CloseDid == panel.ui.open /\ panel' = Set(Hide(panel, {"did"}), "open", FALSE)

VerifyDID ==
    /\ panel.ui.open /\ {r \in panel.shown : r.op = "did"} = {}
    /\ RequestKeeping("did", None)

DidAnswer == AnswerOrFail("did")

\* The rate follows the slider by one request per move, none disabled.
QuotePanel(name) == Begin(Mounted(name, [slider |-> "x1"], {"quote"}, {}), "quote", "quote", "x1")

MoveQuoteSlider ==
    /\ CanRun
    /\ \E v \in Forms \ {panel.ui.slider} :
          panel' = Begin(Set(panel, "slider", v), "quote", "quote", v)

QuoteAnswer == AnswerOrFail("quote")

-----------------------------------------------------------------------------
(* Compliance portal: the quarantine log, fetched at the mount, by a button  *)
(* and at the end of every sanctions scan, which awaits it; and the         *)
(* reconciliation that runs at the mount.                                   *)

SanctionsPanel ==
    Begin(Mounted("sanctions", [subject |-> "x1"], {"scan2", "quarantine"}, {}),
          "quarantine", "quarantine", None)

RefreshLogs == CanRun /\ panel' = Begin(panel, "quarantine", "quarantine", None)

LogsAnswer == AnswerOrFail("quarantine")

EditSubject == Edit("subject", Forms)

SanctionsScan == Request("scan2", panel.ui.subject)

ScanShown ==
    \E c \in Suspended("scan2") :
        /\ c.at = 0
        /\ panel' = AwaitWith(Begin(Show(panel, c, "live"), "quarantine", "quarantine", None),
                              c, panel.runs + 1)

\* The spinner turns until the log has come; a failed scan fetches none.
ScanEnds ==
    \E c \in Suspended("scan2") :
        /\ c.at = 1 => c.arg \notin {d.run : d \in Suspended("quarantine")}
        /\ panel' = End(panel, c)

ReconPanel ==
    Begin(Mounted("recon", [balances |-> "x1"], {"recon", "event"}, {}),
          "recon", "recon", "x1")

EditBalances == Edit("balances", Forms)

HandleReconcile == RequestKeeping("recon", panel.ui.balances)

ReconAnswer == AnswerOrFail("recon")

\* triggerCreditDefaultEvent: an alert, whatever the answer.
TriggerCreditEvent == CanRun /\ panel' = Begin(panel, "event", None, None)

CreditEventAnswered == \E c \in Suspended("event") : panel' = End(panel, c)

-----------------------------------------------------------------------------
PortalInitial ==
    {KeysPanel, PlaygroundPanel, StrategyPanel, ContractPanel, SweepPanel, SolvencyPanel,
     VaultsPanel, DidPanel, QuotePanel("amm"), QuotePanel("cds"), SanctionsPanel, ReconPanel}

PortalUser ==
    \/ panel.name = "keys" /\ KeysUser
    \/ panel.name = "playground" /\ (EditRequest \/ RunPlayground)
    \/ panel.name = "strategy" /\ StrategyUser
    \/ panel.name = "contract" /\ (EditContract \/ RunContractAudit)
    \/ panel.name = "sweep" /\ (EditTreasuryForm \/ HandleSweep \/ DownloadDeck)
    \/ panel.name = "solvency" /\ SolvencyUser
    \/ panel.name = "vaults" /\ (RefreshVaults \/ PriceDrop \/ Liquidate)
    \/ panel.name = "did" /\ (OpenDid \/ CloseDid \/ VerifyDID)
    \/ panel.name \in {"amm", "cds"} /\ MoveQuoteSlider
    \/ panel.name = "sanctions" /\ (EditSubject \/ SanctionsScan \/ RefreshLogs)
    \/ panel.name = "recon" /\ (EditBalances \/ HandleReconcile \/ TriggerCreditEvent)

PortalResume ==
    \/ panel.name = "keys" /\ KeysResume
    \/ panel.name = "playground" /\ PlaygroundAnswer
    \/ panel.name = "strategy" /\ StrategyResume
    \/ panel.name = "contract" /\ ContractAnswer
    \/ panel.name = "sweep" /\ (SweepAnswer \/ DeckEnds)
    \/ panel.name = "solvency" /\ SolvencyResume
    \/ panel.name = "vaults" /\ VaultsResume
    \/ panel.name = "did" /\ DidAnswer
    \/ panel.name \in {"amm", "cds"} /\ QuoteAnswer
    \/ panel.name = "sanctions" /\ (ScanShown \/ ScanEnds \/ LogsAnswer)
    \/ panel.name = "recon" /\ (ReconAnswer \/ CreditEventAnswered)

-----------------------------------------------------------------------------
\* What the treasurer has decided is never dropped by a forecast that queues
\* new items, nor does it become pending again.  The inbox is in the memory of a
\* process of the service, and this is about the inbox of one.
DecidedItemsKept ==
    [][panel.name = "strategy" =>
        \A i \in panel.ui.server : i.status # "PENDING" =>
            \E j \in panel'.ui.server : j.id = i.id /\ j.status # "PENDING"]_panel
=============================================================================
