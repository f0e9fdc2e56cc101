------------------------------ MODULE TaxPanels ------------------------------
(***************************************************************************)
(* TaxCommandCenter.tsx: invoice parsing and the GST return, and the ledger *)
(* of filings with its payment window, against the filing service of        *)
(* compliance_router.py.  isFiling is raised by every kind of return; the   *)
(* return of the first panel appears in the second as one more filing.      *)
(***************************************************************************)
EXTENDS ConsolePanel, Integers

CONSTANTS Files,      \* the invoices a user can choose
          Processes,  \* the processes that run the service, one after another too
          NewFilings, \* the filings the service can still register
          Nets        \* what is left of an income in lakhs, or what is lost

ASSUME TaxAssumption == Nets \subseteq Int /\ Processes # {}

-----------------------------------------------------------------------------
(* The filing tab.  An item is named by its file and the upload it came     *)
(* with, as in parseInvoicePdf.                                             *)

GstPanel ==
    Mounted("gst", [items |-> {}, valid |-> TRUE, error |-> FALSE],
            {"parse", "fileGst"}, {})

\* No PDF among the files chosen.
UploadNothing == panel' = Set(panel, "error", TRUE)

\* The input stays enabled: a second upload may start during the first.
UploadPdf ==
    /\ CanRun
    /\ \E fs \in SUBSET Files \ {{}} :
          panel' = Set(Hide(Begin(panel, "parse", "parsing", fs), {"fileGst"}), "error", FALSE)

ParseEnds ==
    \E c \in Suspended("parse") :
        panel' = [End(panel, c) EXCEPT
                     !.ui.items = @ \cup {[file |-> f, upload |-> c.run] : f \in c.arg}]

RemoveItem == \E i \in panel.ui.items : panel' = [panel EXCEPT !.ui.items = @ \ {i}]

EditGstin == Edit("valid", BOOLEAN)

CanFileGst == panel.ui.items # {} /\ Idle("filing")

RejectGstin == CanFileGst /\ ~panel.ui.valid /\ panel' = Set(panel, "error", TRUE)

FileGst ==
    /\ CanFileGst /\ panel.ui.valid /\ CanRun
    /\ panel' = Set(Hide(Begin(panel, "fileGst", "filing", panel.ui.items), {"fileGst"}),
                    "error", FALSE)

\* A rejected POST waits and then simulates the return locally.
FileGstFails == \E c \in Suspended("fileGst") : c.at = 0 /\ panel' = Await(panel, c)

FileGstEnds ==
    \E c \in Suspended("fileGst") :
        panel' = End(Show(panel, c, IF c.at = 0 THEN "live" ELSE "fallback"), c)

GstUser ==
    \/ UploadNothing \/ UploadPdf \/ RemoveItem \/ EditGstin \/ RejectGstin \/ FileGst

GstResume == ParseEnds \/ FileGstFails \/ FileGstEnds

-----------------------------------------------------------------------------
(* The direct taxes: three forms with a preview of what will be due.  A form *)
(* is its kind, the amount that is left after its deductions, and the rate   *)
(* chosen, which only the VAT form has; tax is counted in lakhs percent.     *)

UsualRate == 18

Rates == {UsualRate, 5}

Return(kind, net, rate) == [kind |-> kind, net |-> net, rate |-> rate]

Returns == [kind : {"itr", "corp"}, net : Nets, rate : {UsualRate}]
               \cup [kind : {"vat"}, net : Nets, rate : Rates]

ReturnsPanel == Mounted("returns", [form |-> Return("itr", 57, UsualRate)], {"assess"}, {})

NotBelow0(n) == IF n < 0 THEN 0 ELSE n

\* What lies above lo in an income, and not above hi: getItrEstimate takes
\* these slices off from the top and taxes each at its rate.
Slice(income, lo, hi) == NotBelow0((IF income < hi THEN income ELSE hi) - lo)

ItrTax(income) ==
    5 * Slice(income, 3, 6) + 10 * Slice(income, 6, 9) + 15 * Slice(income, 9, 12)
        + 20 * Slice(income, 12, 15) + 30 * NotBelow0(income - 15)

\* The preview beside the form.
Estimate(form) ==
    CASE form.kind = "itr" -> ItrTax(NotBelow0(form.net))
      [] form.kind = "corp" -> 25 * NotBelow0(form.net)
      [] form.kind = "vat" -> form.rate * NotBelow0(form.net)

\* file_itr: from the top slab down, what is above a slab's floor is taxed and
\* taken off.
Slabs == <<[floor |-> 3, rate |-> 5], [floor |-> 6, rate |-> 10], [floor |-> 9, rate |-> 15],
           [floor |-> 12, rate |-> 20], [floor |-> 15, rate |-> 30]>>

\* Mutant of TaxFrom: what a slab has taxed is not taken off.
TaxTwice(k, income) ==
    LET tax[j \in 0..k] ==
            IF j = 0 THEN 0
            ELSE tax[j - 1] + Slabs[j].rate * NotBelow0(income - Slabs[j].floor)
    IN  tax[k]

TaxFrom(k, income) ==
    LET tax[j \in 0..k] ==
            IF j = 0 THEN [above |-> income, due |-> 0]
            ELSE LET slab == Slabs[k + 1 - j]
                     over == NotBelow0(tax[j - 1].above - slab.floor)
                 IN  [above |-> tax[j - 1].above - over, due |-> tax[j - 1].due + slab.rate * over]
    IN  tax[k].due

\* What the service registers.  The VAT form is filed as one item whose
\* classification code has the usual rate, whatever rate was chosen.
Assess(form) ==
    CASE form.kind = "itr" -> TaxFrom(5, NotBelow0(form.net))
      [] form.kind = "corp" -> 25 * NotBelow0(form.net)
      [] form.kind = "vat" -> UsualRate * form.net

EditReturn == Edit("form", Returns)

FileReturn ==
    /\ Idle("filing") /\ CanRun
    /\ panel' = Hide(Begin(panel, "assess", "filing", panel.ui.form), {"assess"})

\* The liability comes with the answer and opens the payment window, or there
\* is nothing due, or the filing failed.
ReturnAssessed ==
    \E c \in Suspended("assess") :
        panel' \in {End(Show(panel, c, Assess(c.arg)), c), End(panel, c)}

ReturnsUser == EditReturn \/ FileReturn

-----------------------------------------------------------------------------
(* The ledger.  The service keeps its filings in the memory of a process,   *)
(* and many processes run it: the workers of every replica, any of which    *)
(* answers a request.  ui.books has, for each, what is registered there,    *)
(* what is settled there, and how often it settled each filing.  A worker   *)
(* that is restarted is one of the processes that did not answer before:    *)
(* its book is as at the start.  ui.list is the copy on display and          *)
(* ui.settled observes which payments the window announced as settled.      *)

GstDue == "TAX-GST-001"
ItrPaid == "TAX-ITR-001"
Filings == {GstDue, ItrPaid} \cup NewFilings

Ledger(filed, paid) == [filed |-> filed, paid |-> paid]

\* Every process starts with these two, and the fallback shows the same.
FirstLedger == Ledger({GstDue, ItrPaid}, {ItrPaid})

FirstBook ==
    [filed |-> FirstLedger.filed, paid |-> FirstLedger.paid, charges |-> [f \in Filings |-> 0]]

\* What GET /tax/filings answers: the ledger of the process that serves it.
Answers(ui) == {Ledger(ui.books[w].filed, ui.books[w].paid) : w \in Processes}

LedgerPanel ==
    Mounted("ledger",
            [books |-> [w \in Processes |-> FirstBook], list |-> Ledger({}, {}),
             selected |-> None, method |-> "CARD", connected |-> FALSE,
             error |-> FALSE, settled |-> {}],
            {"refresh", "file", "pay", "wallet"}, {})

\* fetchFilings at mount, and after a GST return of the other tab.
Refresh ==
    /\ CanRun
    /\ panel' = Begin(panel, "refresh", "loading", None)

\* A process answers with what it holds now.
ServeRefresh ==
    \E c \in Suspended("refresh"), list \in Answers(panel.ui) :
        /\ c.at = 0
        /\ panel' = AwaitWith(panel, c, list)

\* The list shown is the answer, or the fallback when the request fails.
RefreshEnds ==
    \E c \in Suspended("refresh") :
        panel' = Set(End(panel, c), "list", IF c.at = 1 THEN c.arg ELSE FirstLedger)

\* handleFileItr, handleFileCorporate, handleFileVat
FileDirect ==
    /\ Idle("filing") /\ CanRun
    /\ panel' = Set(Begin(panel, "file", "filing", None), "error", FALSE)

Registered(ui) == UNION {ui.books[w].filed : w \in Processes}

\* A return enters a book, settled at once when nothing is due.
Register(book, f, due) ==
    [book EXCEPT !.filed = @ \cup {f}, !.paid = IF due THEN @ ELSE @ \cup {f}]

\* A process registers the return under an id of its own (six digits of a UUID,
\* taken to differ from all others).
ServeFiling ==
    \E c \in Suspended("file"), w \in Processes, due \in BOOLEAN,
       f \in NewFilings \ Registered(panel.ui) :
        /\ c.at = 0
        /\ panel' = AwaitWith([panel EXCEPT !.ui.books[w] = Register(@, f, due)], c,
                              [filing |-> f, due |-> due])

\* The answer arrives, the list is fetched again, and what is due is opened
\* in the payment window.
FilingAnswered ==
    \E c \in Suspended("file"), list \in Answers(panel.ui) \cup {FirstLedger} :
        /\ c.at = 1
        /\ panel' = [End(panel, c) EXCEPT
                        !.ui.list = list,
                        !.ui.selected = IF c.arg.due THEN c.arg.filing ELSE @]

\* The request or its answer is lost: the form may be sent again.
FilingFails ==
    \E c \in Suspended("file") : panel' = Set(End(panel, c), "error", TRUE)

\* "Pay now" on a row that the list shows unpaid.
OpenPayment ==
    \E f \in panel.ui.list.filed \ panel.ui.list.paid : panel' = Set(panel, "selected", f)

ClosePayment == panel.ui.selected # None /\ panel' = Set(panel, "selected", None)

ChooseMethod == panel.ui.selected # None /\ Edit("method", {"CARD", "CRYPTO"})

ConnectWallet ==
    /\ panel.ui.selected # None /\ panel.ui.method = "CRYPTO"
    /\ ~panel.ui.connected /\ Idle("wallet") /\ CanRun
    /\ panel' = Begin(panel, "wallet", "wallet", None)

WalletConnected ==
    \E c \in Suspended("wallet") : panel' = Set(End(panel, c), "connected", TRUE)

PayLiability ==
    /\ panel.ui.selected # None /\ Idle("paying") /\ CanRun
    /\ panel.ui.method = "CRYPTO" => panel.ui.connected
    /\ panel' = Set(Begin(panel, "pay", "paying", panel.ui.selected), "error", FALSE)

\* Mutant of Charge: the service does not look whether a filing is settled.
ChargeAgain(book, f) == [book EXCEPT !.paid = @ \cup {f}, !.charges[f] = @ + 1]

\* pay_tax_liability: a filing that is settled in this process is answered
\* without a charge.
Charge(book, f) ==
    IF f \in book.paid THEN book
    ELSE [book EXCEPT !.paid = @ \cup {f}, !.charges[f] = @ + 1]

\* A process that has the filing; any other answers 404, and the payment fails.
ServePayment ==
    \E c \in Suspended("pay"), w \in Processes :
        /\ c.at = 0 /\ c.arg \in panel.ui.books[w].filed
        /\ panel' = Await([panel EXCEPT !.ui.books[w] = Charge(@, c.arg)], c)

\* Settled: the list is fetched, then the window closes, whichever filing it
\* shows by now.
PaymentSettled ==
    \E c \in Suspended("pay"), list \in Answers(panel.ui) \cup {FirstLedger} :
        /\ c.at = 1
        /\ panel' = [End(panel, c) EXCEPT
                        !.ui.list = list, !.ui.selected = None,
                        !.ui.settled = @ \cup {c.arg}]

\* The request is refused, or it or its answer is lost: the window offers to pay
\* again.
PaymentFails ==
    \E c \in Suspended("pay") : panel' = Set(End(panel, c), "error", TRUE)

LedgerUser ==
    \/ Refresh \/ FileDirect \/ OpenPayment \/ ClosePayment \/ ChooseMethod
    \/ ConnectWallet \/ PayLiability

LedgerResume ==
    \/ ServeRefresh \/ RefreshEnds
    \/ ServeFiling \/ FilingAnswered \/ FilingFails
    \/ WalletConnected
    \/ ServePayment \/ PaymentSettled \/ PaymentFails

-----------------------------------------------------------------------------
TaxInitial == {GstPanel, ReturnsPanel, LedgerPanel}

TaxUser ==
    \/ panel.name = "gst" /\ GstUser
    \/ panel.name = "returns" /\ ReturnsUser
    \/ panel.name = "ledger" /\ LedgerUser

TaxResume ==
    \/ panel.name = "gst" /\ GstResume
    \/ panel.name = "returns" /\ ReturnAssessed
    \/ panel.name = "ledger" /\ LedgerResume

-----------------------------------------------------------------------------
\* What the service registers as due for an income or corporate return, slab by
\* slab, is what the page previewed for the form that was sent, and so is VAT
\* at the usual rate on a sale that gains.
AssessedAsPreviewed ==
    panel.name = "returns"
        => \A r \in panel.shown :
              \/ r.arg.kind = "vat" /\ (r.arg.rate # UsualRate \/ r.arg.net < 0)
              \/ r.out = Estimate(r.arg)

\* "Applicable Rate": the VAT that is registered is the one previewed.  The
\* code does not keep this for any other rate than the usual one.
VatAtChosenRate ==
    panel.name = "returns"
        => \A r \in panel.shown : r.arg.kind = "vat" /\ r.arg.net >= 0 => r.out = Estimate(r.arg)

Settled(ui) == UNION {ui.books[w].paid : w \in Processes}

\* However stale the list, however often a payment is retried after a lost
\* answer and whichever processes answer, no process charges a filing twice, a
\* filing of the user's is charged by one process at most, and a payment
\* announced as settled was settled in one of them.  The return that every
\* process starts with is outside the second: see ChargedOnceByAll.
ChargedOnce ==
    panel.name = "ledger"
        => LET books == panel.ui.books IN
           /\ \A f \in Filings : \A w \in Processes : books[w].charges[f] <= 1
           /\ \A f \in Filings \ {GstDue} : \A v, w \in Processes :
                 books[v].charges[f] = 1 /\ books[w].charges[f] = 1 => v = w
           /\ panel.ui.settled \subseteq Settled(panel.ui)

\* "Filing is already paid": a filing is charged once by all processes together.
\* The code does not keep this for the return every process starts with: a
\* payment retried at another worker, or after a restart, is charged again.
ChargedOnceByAll ==
    panel.name = "ledger"
        => \A f \in Filings : \A v, w \in Processes :
              panel.ui.books[v].charges[f] >= 1 /\ panel.ui.books[w].charges[f] >= 1 => v = w
=============================================================================
