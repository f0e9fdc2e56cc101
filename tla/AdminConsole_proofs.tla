-------------------------- MODULE AdminConsole_proofs --------------------------
(***************************************************************************)
(* The safety of the frontend's panels, for any cases, steps, filings and   *)
(* amounts, any number of runs and any length of the lists: the bounds of   *)
(* the model are not used.                                                  *)
(*                                                                         *)
(* Sound says what the handlers in flight, the spinners, the results and    *)
(* the terminals of a panel have to do with each other.  Every action is a  *)
(* few of the steps of ConsolePanel (Begin, Hide, Show, Say, Await, End),    *)
(* and a lemma for each of them says that it leads from a sound panel to a   *)
(* sound one and takes no result back (Step).  Shape names the handlers of   *)
(* each panel, Pages what the hooks of some pages have to do with what is    *)
(* in flight, TaxOK what the tax ledger and the returns hold.  ConsoleOK is  *)
(* all of them, and inductive.                                             *)
(***************************************************************************)
EXTENDS AdminConsole, FiniteSetTheorems, SequenceTheorems, TLAPS

Fields == {"name", "ui", "calls", "busy", "shown", "logs", "last", "runs"}

CallFields == {"op", "flag", "arg", "run", "at"}

\* The handlers whose results are hidden when they start again, and those whose
\* results stay until the next one.
Hiding ==
    {"verify", "memo", "underwrite", "scan", "attack", "prove", "check", "sign", "resolve",
     "screen", "assess", "fileGst", "infer", "swap", "valuate", "route", "play", "solvency",
     "scan2", "score", "triage"}

Keeping == {"stress", "probe", "audit", "sweep", "generate", "did", "recon"}

Solo == Hiding \cup Keeping

\* The handlers that print to a terminal and show no result.
Printing == {"train", "evacuate", "compile", "submit", "transmit", "boot", "witness"}

\* The spinner of a handler that has one to itself, and the terminal it prints to.
SpinnerOf(op) ==
    CASE op = "verify" -> "biometrics"
      [] op = "prove" -> "zkp"
      [] op \in {"fileGst", "assess", "transmit"} -> "filing"
      [] op \in {"compile", "submit"} -> "dispute"
      [] op = "witness" -> "prove"
      [] OTHER -> op

NoSpinner == Shared \cup {None}

LastOK(last, runs) == \A o \in DOMAIN last : last[o] \in Nat /\ last[o] <= runs

CallOK(c, last) ==
    /\ DOMAIN c = CallFields
    /\ c.op \in DOMAIN last
    /\ c.run \in Nat /\ 1 <= c.run /\ c.run <= last[c.op]
    /\ c.at \in Nat
    /\ c.op \in Solo \cup Printing => c.flag = SpinnerOf(c.op)
    /\ c.op \in Solo => c.run = last[c.op]

CallsOK(calls, last) == IsFiniteSet(calls) /\ \A c \in calls : CallOK(c, last)

BusyOK(busy, calls) ==
    /\ busy \ Shared = {c.flag : c \in calls} \ NoSpinner
    /\ \A c, d \in calls : c.flag = d.flag /\ c.flag \notin NoSpinner => c = d

ResultOK(r, last) ==
    /\ r.op \in Solo \cup Overlapping \cup {"consent"}
    /\ r.op \in DOMAIN last
    /\ r.run \in Nat /\ 1 <= r.run /\ r.run <= last[r.op]

ShownOK(shown, calls, last) ==
    /\ \A r \in shown : ResultOK(r, last)
    /\ \A r, s \in shown : r.op = s.op => r = s
    /\ \A r \in shown, c \in calls : r.op = c.op /\ r.op \in Hiding => r.run = c.run
    /\ \A r \in shown : \/ r.op \in Overlapping \cup Kept
                        \/ r.run = last[r.op]
                        \/ \E c \in calls : c.op = r.op /\ c.run = last[r.op]

\* e was printed before the line of a handler's run.
Before(e, run, line) == e.run < run \/ (e.run = run /\ e.line < line)

Line == [run : Nat, line : Nat]

LogOK(log, runs) ==
    /\ log \in Seq(Line)
    /\ \A i \in 1..Len(log) : log[i].run <= runs
    /\ \A i, j \in 1..Len(log) : i < j => Before(log[i], log[j].run, log[j].line)

\* What a terminal shows was printed before anything its handler in flight
\* will print.
LogsOK(logs, calls, runs) ==
    \A t \in DOMAIN logs :
        /\ t \notin NoSpinner
        /\ LogOK(logs[t], runs)
        /\ \A c \in calls : c.flag = t =>
              \A i \in 1..Len(logs[t]) : Before(logs[t][i], c.run, c.at + 1)

Sound(p) ==
    /\ DOMAIN p = Fields
    /\ p.runs \in Nat
    /\ LastOK(p.last, p.runs)
    /\ CallsOK(p.calls, p.last)
    /\ BusyOK(p.busy, p.calls)
    /\ ShownOK(p.shown, p.calls, p.last)
    /\ LogsOK(p.logs, p.calls, p.runs)

\* q comes from p by steps of handlers.
Forward(p, q) ==
    \A r \in p.shown, s \in q.shown :
        r.op = s.op /\ r.op \notin Overlapping => r.run <= s.run

Step(p, q) ==
    /\ Sound(p) /\ Sound(q)
    /\ q.name = p.name
    /\ DOMAIN q.last = DOMAIN p.last
    /\ \A o \in DOMAIN p.last : p.last[o] <= q.last[o]
    /\ Forward(p, q)

\* A second regeneration cannot be asked for while one is in flight.
ApiKeyOK(p) ==
    /\ DOMAIN p.ui = {"here", "there", "disk", "dialog", "visible", "copied", "retired"}
    /\ p.ui.dialog => "regenerate" \notin p.busy

\* The status leaves IDLE with the one run it will ever have.
WalletOK(p) ==
    /\ DOMAIN p.ui = {"status", "extensions"}
    /\ p.ui.status = "IDLE" => p.calls = {}

\* One application at a time, and it is the last one.
CheckoutOK(p) ==
    /\ DOMAIN p.ui = {"form", "status", "details", "funded"}
    /\ p.ui.status = "PROCESSING" <=> p.calls # {}
    /\ \A c, d \in p.calls : c = d
    /\ \A c \in p.calls : c.run = p.last["checkout"]
    /\ p.ui.status = "APPROVED"
          => /\ p.ui.details = Decision(p.last["checkout"], "APPROVED")
             /\ p.last["checkout"] \in p.ui.funded

\* The handlers that take away what waits on the page.
Removers == {"toast", "progress", "command"}

WaitingOK(p) ==
    /\ "waiting" \in DOMAIN p.ui
    /\ \A w \in p.ui.waiting : \E c \in p.calls : c.run = w /\ c.op \in Removers

\* The run in flight executes the sequence on display, which cannot be edited.
PlaybookOK(p) ==
    /\ DOMAIN p.ui = {"sequence", "progress", "complete", "executed"}
    /\ p.ui.sequence \in Seq(Steps) /\ p.ui.executed \in Seq(Steps)
    /\ \A c \in p.calls :
          /\ c.flag = "playbook" /\ c.arg = p.ui.sequence /\ c.at < Len(c.arg)
          /\ Len(p.ui.executed) = c.at
          /\ \A i \in 1..c.at : p.ui.executed[i] = c.arg[i]
    /\ p.ui.complete
          => /\ p.calls = {} /\ p.ui.executed = p.ui.sequence
             /\ p.ui.progress = Len(p.ui.sequence)

\* The preparations that the mark and the transmissions of a page rest on began
\* before run n.
Older(ui, n) ==
    /\ \A q \in ui.prepared : q.run \in Nat /\ q.run < n
    /\ \A s \in ui.sent : \A q \in s.by : q.run \in Nat /\ q.run < n

\* The mark on a page rests on a preparation that ended on the row on display,
\* and each transmission on one that ended on the row it was sent from; a
\* preparation in flight is younger than all of them.
FilingOK(p, op, row) ==
    /\ \A s \in p.ui.sent : \E q \in s.by : q.on = s.on
    /\ \A s, t \in p.ui.sent : t.by = s.by => t = s
    /\ \A q \in p.ui.prepared : row \in {q.on, None}
    /\ Older(p.ui, p.runs + 1)
    /\ \A c \in p.calls : c.op = op => Older(p.ui, c.run)

\* Where nothing is in flight, the mark has served no transmission.
Unused(p) ==
    /\ p.ui.prepared # {}
    /\ p.calls = {} => \A s \in p.ui.sent : s.by # p.ui.prepared

PaymentsOK(p) ==
    /\ DOMAIN p.ui = {"ingesting", "txs", "tx", "step", "prepared", "sent"}
    /\ FilingOK(p, "compile", p.ui.tx)
    /\ p.ui.step = "COMPILED" => Unused(p)

RegTechOK(p) ==
    /\ DOMAIN p.ui = {"alert", "draft", "signed", "signature", "step", "reference", "envelope",
                      "prepared", "sent"}
    /\ \A c \in p.calls : c.flag = "filing"
    /\ FilingOK(p, "seal", p.ui.alert)
    /\ p.ui.signed /\ p.ui.step # "FILED" => Unused(p)

\* A decision in flight decides.
StrategyOK(p) ==
    /\ DOMAIN p.ui = {"scenario", "server", "queued", "inbox", "selected", "edited"}
    /\ \A c \in p.calls : c.op = "decide" => c.arg.decision \in {"APPROVED", "REJECTED"}

AlertsOK(p) ==
    /\ DOMAIN p.ui = {"mounted", "interval", "autonomous", "alerts"}
    /\ p.ui.mounted \/ ~p.ui.interval

Pages(p) ==
    /\ p.name = "apikey" => ApiKeyOK(p)
    /\ p.name = "wallet" => WalletOK(p)
    /\ p.name = "checkout" => CheckoutOK(p)
    /\ p.name \in {"preferences", "forms", "workspace", "terminal"} => WaitingOK(p)
    /\ p.name = "playbook" => PlaybookOK(p)
    /\ p.name = "payments" => PaymentsOK(p)
    /\ p.name = "regtech" => RegTechOK(p)
    /\ p.name = "strategy" => StrategyOK(p)
    /\ p.name = "alerts" => AlertsOK(p)

-----------------------------------------------------------------------------
\* The sets of handlers do not meet where the arguments need them apart.
LEMMA OpsApart ==
    /\ Solo \cap Overlapping = {} /\ Hiding \cap Kept = {}
    /\ \A o \in Solo \ Kept : o \in Hiding \/ o = "stress"
    /\ "consent" \notin Solo \cup Overlapping \cup Kept
    /\ "stress" \notin Hiding
    /\ Hiding \subseteq Solo
BY DEF Solo, Hiding, Keeping, Overlapping, Kept

\* A handler that has a spinner to itself shares it with none.
LEMMA SpinnersApart == \A o \in Solo \cup Printing : SpinnerOf(o) \notin NoSpinner
BY NoneAssumption DEF Solo, Hiding, Keeping, Printing, SpinnerOf, NoSpinner, Shared, Spinners

-----------------------------------------------------------------------------
(* What each primitive leaves in the fields of a panel *)

\* What a setter of the page leaves.
LEMMA SetIs ==
    ASSUME NEW p, DOMAIN p = Fields, NEW f, NEW v, NEW q, q = Set(p, f, v)
    PROVE  /\ DOMAIN q = Fields /\ q.name = p.name /\ q.calls = p.calls /\ q.busy = p.busy
           /\ q.shown = p.shown /\ q.logs = p.logs /\ q.last = p.last /\ q.runs = p.runs
BY DEF Set, Fields

\* What setXResult(null) leaves.
LEMMA HideIs ==
    ASSUME NEW p, DOMAIN p = Fields, NEW ops, NEW q, q = Hide(p, ops)
    PROVE  /\ DOMAIN q = Fields /\ q.name = p.name /\ q.ui = p.ui /\ q.calls = p.calls
           /\ q.busy = p.busy /\ q.shown = {r \in p.shown : r.op \notin ops}
           /\ q.logs = p.logs /\ q.last = p.last /\ q.runs = p.runs
BY DEF Hide, Fields

\* What the start of a handler leaves.
LEMMA BeginIs ==
    ASSUME NEW p, DOMAIN p = Fields, NEW op, NEW flag, NEW arg, NEW q, q = Begin(p, op, flag, arg)
    PROVE  /\ DOMAIN q = Fields /\ q.name = p.name /\ q.ui = p.ui
           /\ q.calls = p.calls \cup {NewCall(p, op, flag, arg)}
           /\ q.busy = p.busy \cup ({flag} \ {None})
           /\ q.shown = p.shown /\ q.logs = p.logs
           /\ q.last = [p.last EXCEPT ![op] = p.runs + 1]
           /\ q.runs = p.runs + 1
BY DEF Begin, Fields

\* What setXResult(answer) leaves.
LEMMA ShowIs ==
    ASSUME NEW p, DOMAIN p = Fields, NEW c, NEW out, NEW q, q = Show(p, c, out)
    PROVE  /\ DOMAIN q = Fields /\ q.name = p.name /\ q.ui = p.ui /\ q.calls = p.calls
           /\ q.busy = p.busy
           /\ q.shown = {r \in p.shown : r.op # c.op} \cup
                           {[op |-> c.op, run |-> c.run, arg |-> c.arg, out |-> out]}
           /\ q.logs = p.logs /\ q.last = p.last /\ q.runs = p.runs
BY DEF Show, Fields

\* What goes to the next await is the same handler, one line further.
LEMMA AwaitIs ==
    ASSUME NEW p, DOMAIN p = Fields, NEW c, DOMAIN c = CallFields, NEW arg, NEW q,
           q = Await(p, c) \/ q = AwaitWith(p, c, arg)
    PROVE  \E d : /\ DOMAIN d = CallFields /\ d.op = c.op /\ d.flag = c.flag /\ d.run = c.run
                  /\ d.at = c.at + 1
                  /\ DOMAIN q = Fields /\ q.name = p.name /\ q.ui = p.ui
                  /\ q.calls = (p.calls \ {c}) \cup {d} /\ q.busy = p.busy
                  /\ q.shown = p.shown /\ q.logs = p.logs /\ q.last = p.last /\ q.runs = p.runs
<1>1. CASE q = Await(p, c)
  <2> WITNESS [c EXCEPT !.at = @ + 1]
  <2> QED BY <1>1 DEF Await, Fields, CallFields
<1>2. CASE q = AwaitWith(p, c, arg)
  <2> WITNESS [c EXCEPT !.at = @ + 1, !.arg = arg]
  <2> QED BY <1>2 DEF AwaitWith, Fields, CallFields
<1> QED BY <1>1, <1>2

-----------------------------------------------------------------------------
(* One step of a handler *)

\* What a step of a handler keeps.
LEMMA StepSound == \A b, p : Step(b, p) =>
    /\ Sound(b) /\ Sound(p) /\ p.name = b.name /\ DOMAIN p = Fields
    /\ DOMAIN p.last = DOMAIN b.last /\ p.runs \in Nat
BY DEF Step, Sound

\* Nothing happens.
LEMMA StepRefl == ASSUME NEW p, Sound(p) PROVE Step(p, p)
<1>1. \A o \in DOMAIN p.last : p.last[o] <= p.last[o]
  BY DEF Sound, LastOK
<1>2. Forward(p, p)
  <2> SUFFICES ASSUME NEW r \in p.shown, NEW s \in p.shown, r.op = s.op PROVE r.run <= s.run
    BY DEF Forward
  <2>1. r = s /\ r.run \in Nat
    BY DEF Sound, ShownOK, ResultOK
  <2> QED BY <2>1
<1> QED BY <1>1, <1>2 DEF Step

\* A step that shows nothing new.
LEMMA StepOn ==
    ASSUME NEW b, NEW p, Step(b, p), NEW q, Sound(q), q.name = p.name,
           DOMAIN q.last = DOMAIN p.last, \A o \in DOMAIN p.last : p.last[o] <= q.last[o],
           q.shown \subseteq p.shown
    PROVE  Step(b, q)
<1>1. \A o \in DOMAIN b.last : b.last[o] <= q.last[o]
  <2> SUFFICES ASSUME NEW o \in DOMAIN b.last PROVE b.last[o] <= q.last[o]
    OBVIOUS
  <2>1. b.last[o] \in Nat /\ p.last[o] \in Nat /\ q.last[o] \in Nat
    BY DEF Step, Sound, LastOK
  <2>2. b.last[o] <= p.last[o] /\ p.last[o] <= q.last[o]
    BY DEF Step
  <2> QED BY <2>1, <2>2
<1>2. Forward(b, q)
  BY DEF Step, Forward
<1> QED BY <1>1, <1>2 DEF Step

\* The lines of a terminal are lines.
LEMMA LogLines ==
    ASSUME NEW log, NEW runs, LogOK(log, runs)
    PROVE  /\ log \in Seq(Line) /\ Len(log) \in Nat
           /\ \A i \in 1..Len(log) : log[i].run \in Nat /\ log[i].line \in Nat
<1>1. log \in Seq(Line) /\ Len(log) \in Nat
  BY DEF LogOK
<1>2. \A i \in 1..Len(log) : log[i] \in Line
  BY <1>1, ElementOfSeq
<1> QED BY <1>1, <1>2 DEF Line

\* A terminal in order stays in order when more handlers have been started.
LEMMA LogOKLater ==
    ASSUME NEW log, NEW m \in Nat, NEW n \in Nat, m <= n, LogOK(log, m)
    PROVE  LogOK(log, n)
<1>1. \A i \in 1..Len(log) : log[i].run \in Nat /\ log[i].run <= m
  BY LogLines, Zenon DEF LogOK
<1>2. \A i \in 1..Len(log) : log[i].run <= n
  BY <1>1
<1> QED BY <1>2 DEF LogOK

\* What changes on the page only.
LEMMA PageStep ==
    ASSUME NEW b, NEW p, Step(b, p), NEW q,
           DOMAIN q = Fields, q.name = p.name, q.calls = p.calls, q.busy = p.busy,
           q.shown = p.shown, q.logs = p.logs, q.last = p.last,
           q.runs \in Nat, p.runs <= q.runs
    PROVE  Step(b, q)
<1>0. Sound(p)
  BY DEF Step
<1>1. LastOK(q.last, q.runs)
  BY <1>0 DEF Sound, LastOK
<1>2. LogsOK(q.logs, q.calls, q.runs)
  BY <1>0, LogOKLater DEF Sound, LogsOK
<1>3. Sound(q)
  BY <1>0, <1>1, <1>2 DEF Sound
<1>4. \A o \in DOMAIN p.last : p.last[o] <= q.last[o]
  BY <1>0 DEF Sound, LastOK
<1> QED BY <1>3, <1>4, StepOn

\* A setter of the page is such a change.
LEMMA SetStep ==
    ASSUME NEW b, NEW p, Step(b, p), NEW f, NEW v
    PROVE  Step(b, Set(p, f, v))
<1> DEFINE q == Set(p, f, v)
<1>1. DOMAIN p = Fields /\ p.runs \in Nat
  BY StepSound
<1>2. /\ DOMAIN q = Fields /\ q.name = p.name /\ q.calls = p.calls /\ q.busy = p.busy
      /\ q.shown = p.shown /\ q.logs = p.logs /\ q.last = p.last /\ q.runs = p.runs
  BY <1>1, SetIs
<1> HIDE DEF q
<1>3. q.runs \in Nat /\ p.runs <= q.runs
  BY <1>1, <1>2
<1>4. Step(b, q)
  BY <1>2, <1>3, PageStep
<1> QED BY <1>4 DEF q

\* What is hidden shows nothing new.
LEMMA HideStep ==
    ASSUME NEW b, NEW p, Step(b, p), NEW ops
    PROVE  Step(b, Hide(p, ops))
<1> DEFINE q == Hide(p, ops)
<1>0. Sound(p) /\ DOMAIN p = Fields
  BY StepSound
<1>1. /\ DOMAIN q = Fields /\ q.name = p.name /\ q.calls = p.calls
      /\ q.busy = p.busy /\ q.shown = {r \in p.shown : r.op \notin ops}
      /\ q.logs = p.logs /\ q.last = p.last /\ q.runs = p.runs
  BY <1>0, HideIs
<1> HIDE DEF q
<1>2. q.shown \subseteq p.shown
  BY <1>1
<1>3. ShownOK(q.shown, q.calls, q.last)
  BY <1>0, <1>1, <1>2 DEF Sound, ShownOK
<1>4. Sound(q)
  BY <1>0, <1>1, <1>3 DEF Sound
<1>5. \A o \in DOMAIN p.last : p.last[o] <= q.last[o]
  BY <1>0, <1>1 DEF Sound, LastOK
<1>6. Step(b, q)
  BY <1>1, <1>2, <1>4, <1>5, StepOn
<1> QED BY <1>6 DEF q

\* A handler starts.
LEMMA BeginStep ==
    ASSUME NEW b, NEW p, Step(b, p), NEW op \in DOMAIN b.last, NEW flag, NEW arg,
           flag \in NoSpinner \/ flag \notin p.busy,
           op \in Solo \cup Printing => flag = SpinnerOf(op),
           \A r \in p.shown : r.op = op => op \notin Hiding
    PROVE  Step(b, Begin(p, op, flag, arg))
<1> DEFINE c == NewCall(p, op, flag, arg)
           q == Begin(p, op, flag, arg)
<1>0. Sound(p) /\ DOMAIN p = Fields /\ p.runs \in Nat /\ op \in DOMAIN p.last
  BY StepSound
<1>1. /\ DOMAIN q = Fields /\ q.name = p.name /\ q.ui = p.ui
      /\ q.calls = p.calls \cup {c}
      /\ q.busy = p.busy \cup ({flag} \ {None})
      /\ q.shown = p.shown /\ q.logs = p.logs
      /\ q.last = [p.last EXCEPT ![op] = p.runs + 1]
      /\ q.runs = p.runs + 1
  BY <1>0, BeginIs
<1>2. /\ DOMAIN c = CallFields /\ c.op = op /\ c.flag = flag /\ c.run = p.runs + 1 /\ c.at = 0
  BY DEF NewCall, CallFields
<1> HIDE DEF q, c
<1>3. /\ DOMAIN q.last = DOMAIN p.last
      /\ q.last[op] = p.runs + 1
      /\ \A o \in DOMAIN p.last : o # op => q.last[o] = p.last[o]
  BY <1>0, <1>1
<1>4. \A o \in DOMAIN p.last : p.last[o] \in Nat /\ p.last[o] <= p.runs
  BY <1>0 DEF Sound, LastOK
<1>5. LastOK(q.last, q.runs) /\ \A o \in DOMAIN p.last : p.last[o] <= q.last[o]
  BY <1>0, <1>1, <1>3, <1>4 DEF LastOK
<1>6. \A d \in p.calls : d.flag = flag => flag \in NoSpinner
  BY <1>0 DEF Sound, BusyOK, NoSpinner
<1>7. op \in Solo \cup Printing => \A d \in p.calls : d.op # op
  BY <1>0, <1>6, SpinnersApart DEF Sound, CallsOK, CallOK
<1>8. CallsOK(q.calls, q.last)
  <2>1. IsFiniteSet(q.calls)
    <3>1. IsFiniteSet(p.calls)
      BY <1>0 DEF Sound, CallsOK
    <3> QED BY <3>1, <1>1, FS_AddElement
  <2>2. CallOK(c, q.last)
    BY <1>0, <1>2, <1>3 DEF CallOK
  <2>3. ASSUME NEW d \in p.calls PROVE CallOK(d, q.last)
    <3>1. CallOK(d, p.last)
      BY <1>0 DEF Sound, CallsOK
    <3>2. d.op \in DOMAIN p.last /\ p.last[d.op] <= q.last[d.op]
      BY <3>1, <1>5 DEF CallOK
    <3>3. d.run <= q.last[d.op]
      <4>1. d.run \in Nat /\ p.last[d.op] \in Nat /\ q.last[d.op] \in Nat /\ d.run <= p.last[d.op]
        BY <3>1, <3>2, <1>4, <1>5, <1>3 DEF CallOK, LastOK
      <4> QED BY <4>1, <3>2
    <3>4. d.op \in Solo => d.run = q.last[d.op]
      BY <3>1, <3>2, <1>3, <1>7 DEF CallOK
    <3> QED BY <3>1, <3>2, <3>3, <3>4, <1>3 DEF CallOK
  <2> QED BY <2>1, <2>2, <2>3, <1>1 DEF CallsOK
<1>9. BusyOK(q.busy, q.calls)
  <2>1. q.busy \ Shared = {d.flag : d \in q.calls} \ NoSpinner
    BY <1>0, <1>1, <1>2 DEF Sound, BusyOK, NoSpinner
  <2>2. \A d, e \in q.calls : d.flag = e.flag /\ d.flag \notin NoSpinner => d = e
    BY <1>0, <1>1, <1>2, <1>6 DEF Sound, BusyOK
  <2> QED BY <2>1, <2>2 DEF BusyOK
<1>10. ShownOK(q.shown, q.calls, q.last)
  <2>1. ShownOK(p.shown, p.calls, p.last)
    BY <1>0 DEF Sound
  <2>2. \A r \in q.shown : ResultOK(r, q.last)
    <3> SUFFICES ASSUME NEW r \in p.shown PROVE ResultOK(r, q.last)
      BY <1>1
    <3>1. ResultOK(r, p.last)
      BY <2>1 DEF ShownOK
    <3>2. p.last[r.op] <= q.last[r.op] /\ r.run \in Nat /\ r.run <= p.last[r.op]
          /\ p.last[r.op] \in Nat /\ q.last[r.op] \in Nat
      BY <3>1, <1>3, <1>4, <1>5 DEF ResultOK, LastOK
    <3>3. r.run <= q.last[r.op]
      BY <3>2
    <3> QED BY <3>1, <3>3, <1>3 DEF ResultOK
  <2>3. \A r \in q.shown, d \in q.calls : r.op = d.op /\ r.op \in Hiding => r.run = d.run
    BY <2>1, <1>1, <1>2 DEF ShownOK
  <2>4. ASSUME NEW r \in q.shown
        PROVE  \/ r.op \in Overlapping \cup Kept
               \/ r.run = q.last[r.op]
               \/ \E d \in q.calls : d.op = r.op /\ d.run = q.last[r.op]
    <3>1. CASE r.op = op
      BY <3>1, <1>1, <1>2, <1>3
    <3>2. CASE r.op # op
      BY <3>2, <1>1, <1>3, <2>1 DEF ShownOK, ResultOK
    <3> QED BY <3>1, <3>2
  <2>5. \A r, s \in q.shown : r.op = s.op => r = s
    BY <2>1, <1>1 DEF ShownOK
  <2> QED BY <2>2, <2>3, <2>4, <2>5 DEF ShownOK
<1>11. LogsOK(q.logs, q.calls, q.runs)
  <2> SUFFICES ASSUME NEW t \in DOMAIN q.logs
               PROVE  /\ t \notin NoSpinner
                      /\ LogOK(q.logs[t], q.runs)
                      /\ \A d \in q.calls : d.flag = t =>
                            \A i \in 1..Len(q.logs[t]) : Before(q.logs[t][i], d.run, d.at + 1)
    BY DEF LogsOK
  <2>1. /\ t \notin NoSpinner /\ LogOK(p.logs[t], p.runs) /\ q.logs[t] = p.logs[t]
        /\ \A d \in p.calls : d.flag = t =>
              \A i \in 1..Len(p.logs[t]) : Before(p.logs[t][i], d.run, d.at + 1)
    BY <1>0, <1>1 DEF Sound, LogsOK
  <2>2. LogOK(q.logs[t], q.runs)
    BY <2>1, <1>0, <1>1, LogOKLater
  <2>3. \A i \in 1..Len(q.logs[t]) : Before(q.logs[t][i], c.run, c.at + 1)
    <3> SUFFICES ASSUME NEW i \in 1..Len(p.logs[t]) PROVE Before(p.logs[t][i], c.run, c.at + 1)
      BY <2>1
    <3>1. p.logs[t][i].run \in Nat /\ p.logs[t][i].run <= p.runs
      BY <2>1, LogLines, Zenon DEF LogOK
    <3>2. p.logs[t][i].run < c.run
      BY <3>1, <1>0, <1>2
    <3> QED BY <3>2 DEF Before
  <2> QED BY <2>1, <2>2, <2>3, <1>1
<1>12. Sound(q)
  BY <1>0, <1>1, <1>5, <1>8, <1>9, <1>10, <1>11 DEF Sound
<1>13. Step(b, q)
  BY <1>12, <1>1, <1>3, <1>5, StepOn
<1> QED BY <1>13 DEF q

\* A handler that clears its last result starts.
LEMMA RequestStep ==
    ASSUME NEW b, NEW p, Step(b, p), NEW op \in DOMAIN b.last, NEW flag, NEW arg, NEW ops,
           flag \in NoSpinner \/ flag \notin p.busy,
           op \in Solo \cup Printing => flag = SpinnerOf(op),
           op \in ops
    PROVE  Step(b, Hide(Begin(p, op, flag, arg), ops))
<1>1. DOMAIN p = Fields
  BY StepSound
<1>2. Hide(Begin(p, op, flag, arg), ops) = Begin(Hide(p, ops), op, flag, arg)
  BY <1>1, ZenonT(60) DEF Hide, Begin, NewCall, Fields
<1>3. Step(b, Hide(p, ops))
  BY HideStep
<1>4. Hide(p, ops).busy = p.busy /\ Hide(p, ops).shown = {r \in p.shown : r.op \notin ops}
  BY <1>1, HideIs
<1>5. \A r \in Hide(p, ops).shown : r.op # op
  BY <1>4
<1>6. Step(b, Begin(Hide(p, ops), op, flag, arg))
  BY <1>3, <1>4, <1>5, BeginStep
<1> QED BY <1>2, <1>6

\* Its result is shown.
LEMMA ShowStep ==
    ASSUME NEW b, NEW p, Step(b, p), NEW c \in p.calls, NEW out,
           c.op \in Solo \cup Overlapping \/ (c.op = "consent" /\ c.run = p.last[c.op])
    PROVE  Step(b, Show(p, c, out))
<1> DEFINE s == [op |-> c.op, run |-> c.run, arg |-> c.arg, out |-> out]
           q == Show(p, c, out)
<1>0. Sound(b) /\ Sound(p) /\ DOMAIN p = Fields /\ p.name = b.name /\ DOMAIN p.last = DOMAIN b.last
  BY StepSound
<1>1. /\ DOMAIN q = Fields /\ q.name = p.name /\ q.calls = p.calls
      /\ q.busy = p.busy /\ q.shown = {r \in p.shown : r.op # c.op} \cup {s}
      /\ q.logs = p.logs /\ q.last = p.last /\ q.runs = p.runs
  BY <1>0, ShowIs
<1>2. s.op = c.op /\ s.run = c.run
  OBVIOUS
<1> HIDE DEF q, s
<1>3. CallOK(c, p.last)
  BY <1>0 DEF Sound, CallsOK
<1>4. ShownOK(p.shown, p.calls, p.last)
  BY <1>0 DEF Sound
<1>5. ResultOK(s, p.last)
  BY <1>2, <1>3 DEF CallOK, ResultOK
<1>6. ASSUME NEW d \in p.calls, d.op = c.op, c.op \in Hiding PROVE s.run = d.run
  <2>1. CallOK(d, p.last) /\ c.op \in Solo
    BY <1>0, <1>6 DEF Sound, CallsOK, Solo
  <2> QED BY <2>1, <1>2, <1>3, <1>6 DEF CallOK
<1>7. s.op \in Overlapping \/ s.run = p.last[s.op]
  BY <1>2, <1>3 DEF CallOK
<1>8. ShownOK(q.shown, q.calls, q.last)
  BY <1>1, <1>2, <1>4, <1>5, <1>6, <1>7 DEF ShownOK
<1>9. Sound(q)
  BY <1>0, <1>1, <1>8 DEF Sound
<1>10. Forward(b, q)
  <2> SUFFICES ASSUME NEW r \in b.shown, NEW t \in q.shown, r.op = t.op, r.op \notin Overlapping
               PROVE  r.run <= t.run
    BY DEF Forward
  <2>1. CASE t \in p.shown
    BY <2>1 DEF Step, Forward
  <2>2. CASE t = s
    <3>1. ResultOK(r, b.last)
      BY <1>0 DEF Sound, ShownOK
    <3>2. r.run \in Nat /\ r.run <= b.last[r.op] /\ r.op \in DOMAIN b.last
      BY <3>1 DEF ResultOK
    <3>3. b.last[r.op] <= p.last[r.op] /\ b.last[r.op] \in Nat /\ p.last[r.op] \in Nat
      BY <3>2, <1>0 DEF Step, Sound, LastOK
    <3>4. t.run = p.last[r.op]
      BY <2>2, <1>7
    <3> QED BY <3>2, <3>3, <3>4
  <2> QED BY <2>1, <2>2, <1>1
<1>11. \A o \in DOMAIN b.last : b.last[o] <= q.last[o]
  BY <1>1 DEF Step
<1>12. Step(b, q)
  BY <1>0, <1>1, <1>9, <1>10, <1>11 DEF Step
<1> QED BY <1>12 DEF q

\* Showing an answer leaves what is in flight.
LEMMA ShowCalls ==
    ASSUME NEW p, DOMAIN p = Fields, NEW c, NEW out
    PROVE  Show(p, c, out).calls = p.calls
BY ShowIs

\* A handler is over.  A result it leaves on display is its own, or one that is
\* kept.
LEMMA EndStep ==
    ASSUME NEW b, NEW p, Step(b, p), NEW c \in p.calls,
           c.op \in {"stress", "consent"} => \A r \in p.shown : r.op = c.op => r.run = c.run
    PROVE  Step(b, End(p, c))
<1> DEFINE q == End(p, c)
<1>0. Sound(p) /\ DOMAIN p = Fields
  BY StepSound
<1>1. /\ DOMAIN q = Fields /\ q.name = p.name
      /\ q.calls = p.calls \ {c} /\ q.busy = p.busy \ {c.flag}
      /\ q.shown = p.shown /\ q.logs = p.logs /\ q.last = p.last /\ q.runs = p.runs
  BY <1>0 DEF End, Fields
<1> HIDE DEF q
<1>2. CallsOK(q.calls, q.last)
  <2>1. IsFiniteSet(p.calls)
    BY <1>0 DEF Sound, CallsOK
  <2>2. IsFiniteSet(q.calls)
    BY <2>1, <1>1, FS_Subset
  <2> QED BY <2>2, <1>0, <1>1 DEF Sound, CallsOK
<1>3. BusyOK(q.busy, q.calls)
  <2>1. BusyOK(p.busy, p.calls)
    BY <1>0 DEF Sound
  <2>2. q.busy \ Shared = {d.flag : d \in q.calls} \ NoSpinner
    <3>1. CASE c.flag \in NoSpinner
      BY <2>1, <1>1, <3>1 DEF BusyOK, NoSpinner
    <3>2. CASE c.flag \notin NoSpinner
      BY <2>1, <1>1, <3>2 DEF BusyOK, NoSpinner
    <3> QED BY <3>1, <3>2
  <2> QED BY <2>1, <2>2, <1>1 DEF BusyOK
<1>4. ShownOK(q.shown, q.calls, q.last)
  <2>0. ShownOK(p.shown, p.calls, p.last)
    BY <1>0 DEF Sound
  <2>1. ASSUME NEW r \in p.shown
        PROVE  \/ r.op \in Overlapping \cup Kept
               \/ r.run = p.last[r.op]
               \/ \E d \in q.calls : d.op = r.op /\ d.run = p.last[r.op]
    <3> SUFFICES ASSUME r.op \notin Overlapping \cup Kept, r.run # p.last[r.op],
                        c.op = r.op, c.run = p.last[r.op]
                 PROVE  FALSE
      BY <2>0, <1>1 DEF ShownOK
    <3>1. r.op \in Hiding \cup {"stress", "consent"}
      BY <2>0, OpsApart DEF ShownOK, ResultOK
    <3> QED BY <3>1, <2>0 DEF ShownOK
  <2> QED BY <2>0, <2>1, <1>1 DEF ShownOK
<1>5. LogsOK(q.logs, q.calls, q.runs)
  BY <1>0, <1>1 DEF Sound, LogsOK
<1>6. Sound(q)
  BY <1>0, <1>1, <1>2, <1>3, <1>4, <1>5 DEF Sound
<1>7. \A o \in DOMAIN p.last : p.last[o] <= q.last[o]
  BY <1>0, <1>1 DEF Sound, LastOK
<1>8. Step(b, q)
  BY <1>1, <1>6, <1>7, StepOn
<1> QED BY <1>8 DEF q

\* An answer is shown and its handler is over.
LEMMA AnswerStep ==
    ASSUME NEW b, NEW p, Step(b, p), NEW c \in p.calls, NEW out,
           c.op \in Solo \cup Overlapping \/ (c.op = "consent" /\ c.run = p.last[c.op])
    PROVE  Step(b, End(Show(p, c, out), c))
<1>1. Step(b, Show(p, c, out)) /\ DOMAIN p = Fields
  BY ShowStep, StepSound
<1>2. /\ Show(p, c, out).calls = p.calls
      /\ \A r \in Show(p, c, out).shown : r.op = c.op => r.run = c.run
  BY <1>1, ShowIs
<1> QED BY <1>1, <1>2, EndStep

\* A handler at its next await, with what it holds there.
LEMMA AwaitsStep ==
    ASSUME NEW b, NEW p, Step(b, p), NEW c \in p.calls, NEW arg, NEW q,
           q = Await(p, c) \/ q = AwaitWith(p, c, arg)
    PROVE  Step(b, q)
<1>0. Sound(p) /\ DOMAIN p = Fields /\ p.runs \in Nat
  BY StepSound
<1>1. CallOK(c, p.last)
  BY <1>0 DEF Sound, CallsOK
<1>2. PICK d : /\ DOMAIN d = CallFields /\ d.op = c.op /\ d.flag = c.flag /\ d.run = c.run
               /\ d.at = c.at + 1
               /\ DOMAIN q = Fields /\ q.name = p.name
               /\ q.calls = (p.calls \ {c}) \cup {d} /\ q.busy = p.busy
               /\ q.shown = p.shown /\ q.logs = p.logs /\ q.last = p.last /\ q.runs = p.runs
  BY <1>0, <1>1, AwaitIs DEF CallOK
<1>3. CallsOK(q.calls, q.last)
  <2>1. CallOK(d, p.last)
    BY <1>1, <1>2 DEF CallOK
  <2>2. IsFiniteSet(p.calls)
    BY <1>0 DEF Sound, CallsOK
  <2>3. IsFiniteSet(p.calls \ {c})
    BY <2>2, FS_Subset
  <2>4. IsFiniteSet(q.calls)
    BY <2>3, <1>2, FS_AddElement
  <2> QED BY <2>1, <2>4, <1>0, <1>2 DEF Sound, CallsOK
<1>4. BusyOK(q.busy, q.calls)
  <2>1. BusyOK(p.busy, p.calls)
    BY <1>0 DEF Sound
  <2>2. {e.flag : e \in q.calls} = {e.flag : e \in p.calls}
    BY <1>2
  <2>3. \A e, f \in q.calls : e.flag = f.flag /\ e.flag \notin NoSpinner => e = f
    BY <2>1, <1>2 DEF BusyOK
  <2> QED BY <2>1, <2>2, <2>3, <1>2 DEF BusyOK
<1>5. ShownOK(q.shown, q.calls, q.last)
  <2>0. ShownOK(p.shown, p.calls, p.last)
    BY <1>0 DEF Sound
  <2>1. \A r \in p.shown, e \in q.calls : r.op = e.op /\ r.op \in Hiding => r.run = e.run
    BY <2>0, <1>2 DEF ShownOK
  <2>2. \A r \in p.shown : \/ r.op \in Overlapping \cup Kept
                           \/ r.run = p.last[r.op]
                           \/ \E e \in q.calls : e.op = r.op /\ e.run = p.last[r.op]
    BY <2>0, <1>2 DEF ShownOK
  <2> QED BY <2>0, <2>1, <2>2, <1>2 DEF ShownOK
<1>6. LogsOK(q.logs, q.calls, q.runs)
  <2>1. ASSUME NEW t \in DOMAIN p.logs, c.flag = t, NEW i \in 1..Len(p.logs[t])
        PROVE  Before(p.logs[t][i], d.run, d.at + 1)
    <3>1. Before(p.logs[t][i], c.run, c.at + 1)
      BY <2>1, <1>0 DEF Sound, LogsOK
    <3>2. p.logs[t][i].run \in Nat /\ p.logs[t][i].line \in Nat
      BY <1>0, LogLines DEF Sound, LogsOK
    <3>3. c.at \in Nat
      BY <1>1 DEF CallOK
    <3> QED BY <3>1, <3>2, <3>3, <1>2 DEF Before
  <2> QED BY <2>1, <1>0, <1>2 DEF Sound, LogsOK
<1>7. Sound(q)
  BY <1>0, <1>2, <1>3, <1>4, <1>5, <1>6 DEF Sound
<1>8. \A o \in DOMAIN p.last : p.last[o] <= q.last[o]
  BY <1>0, <1>2 DEF Sound, LastOK
<1> QED BY <1>2, <1>7, <1>8, StepOn

\* A handler goes to its next await without printing.
LEMMA AwaitStep ==
    ASSUME NEW b, NEW p, Step(b, p), NEW c \in p.calls
    PROVE  /\ Step(b, Await(p, c))
           /\ \A arg : Step(b, AwaitWith(p, c, arg))
BY AwaitsStep

-----------------------------------------------------------------------------
(* What a step does to a terminal *)

\* q is p, but for what its terminal t shows.
Relogged(p, q, t, log) ==
    /\ DOMAIN q = Fields /\ q.name = p.name /\ q.calls = p.calls /\ q.busy = p.busy
    /\ q.shown = p.shown /\ q.last = p.last /\ q.runs = p.runs
    /\ DOMAIN q.logs = DOMAIN p.logs
    /\ \A s \in DOMAIN p.logs : q.logs[s] = IF s = t THEN log ELSE p.logs[s]

\* A terminal changes, and what it shows is sound.
LEMMA LogStep ==
    ASSUME NEW b, NEW p, Step(b, p), NEW t, NEW log, NEW q, Relogged(p, q, t, log),
           t \in DOMAIN p.logs =>
               /\ LogOK(log, p.runs)
               /\ \A c \in p.calls : c.flag = t =>
                     \A i \in 1..Len(log) : Before(log[i], c.run, c.at + 1)
    PROVE  Step(b, q)
<1>0. Sound(p) /\ DOMAIN p = Fields
  BY StepSound
<1>1. /\ DOMAIN q = Fields /\ q.name = p.name /\ q.calls = p.calls
      /\ q.busy = p.busy /\ q.shown = p.shown /\ q.last = p.last /\ q.runs = p.runs
      /\ DOMAIN q.logs = DOMAIN p.logs
      /\ \A s \in DOMAIN p.logs : q.logs[s] = IF s = t THEN log ELSE p.logs[s]
  BY DEF Relogged
<1>2. LogsOK(q.logs, q.calls, q.runs)
  BY <1>0, <1>1 DEF Sound, LogsOK
<1>3. Sound(q)
  BY <1>0, <1>1, <1>2 DEF Sound
<1>4. \A o \in DOMAIN p.last : p.last[o] <= q.last[o]
  BY <1>0, <1>1 DEF Sound, LastOK
<1> QED BY <1>1, <1>3, <1>4, StepOn

\* An empty terminal is in order.
LEMMA EmptyLog == \A runs \in Nat : LogOK(<<>>, runs) /\ Len(<<>>) = 0
BY DEF LogOK

\* A terminal is emptied.
LEMMA WipeStep ==
    ASSUME NEW b, NEW p, Step(b, p), NEW t
    PROVE  Step(b, Wipe(p, t))
<1>1. DOMAIN p = Fields /\ p.runs \in Nat
  BY StepSound
<1>2. Relogged(p, Wipe(p, t), t, <<>>)
  BY <1>1 DEF Wipe, Fields, Relogged
<1>3. LogOK(<<>>, p.runs) /\ \A i \in 1..Len(<<>>) : FALSE
  BY <1>1, EmptyLog
<1> QED BY <1>2, <1>3, LogStep

\* The terminal of a handler that was the last to start.
LEMMA ReopenStep ==
    ASSUME NEW b, NEW p, Step(b, p), NEW t, \A c \in p.calls : c.flag = t => c.run = p.runs
    PROVE  Step(b, Reopen(p, t))
<1> DEFINE e == [run |-> p.runs, line |-> 0]
           log == <<e>>
<1>0. Sound(p) /\ DOMAIN p = Fields /\ p.runs \in Nat
  BY StepSound
<1>1. e \in Line /\ e.run = p.runs /\ e.line = 0
  BY <1>0 DEF Line
<1>2. Relogged(p, Reopen(p, t), t, log)
  BY <1>0 DEF Reopen, Fields, Relogged
<1> HIDE DEF e
<1>3. log \in Seq(Line) /\ Len(log) = 1 /\ log[1] = e
  BY <1>1
<1> HIDE DEF log
<1>4. LogOK(log, p.runs)
  BY <1>0, <1>1, <1>3 DEF LogOK
<1>5. ASSUME NEW c \in p.calls, c.flag = t, NEW i \in 1..Len(log)
      PROVE  Before(log[i], c.run, c.at + 1)
  <2>1. c.at \in Nat
    BY <1>0 DEF Sound, CallsOK, CallOK
  <2>2. log[i].run = c.run /\ log[i].line = 0
    BY <1>1, <1>3, <1>5
  <2> QED BY <2>1, <2>2 DEF Before
<1> QED BY <1>2, <1>4, <1>5, LogStep

\* One more line.
LEMMA AppendStep ==
    ASSUME NEW b, NEW p, Step(b, p), NEW t, NEW e \in Line, e.run <= p.runs,
           \A i \in 1..Len(p.logs[t]) : t \in DOMAIN p.logs =>
               Before(p.logs[t][i], e.run, e.line),
           \A c \in p.calls : c.flag = t => Before(e, c.run, c.at + 1),
           NEW q, Relogged(p, q, t, Append(p.logs[t], e))
    PROVE  Step(b, q)
<1> DEFINE log == Append(p.logs[t], e)
<1>0. Sound(p) /\ p.runs \in Nat
  BY StepSound
<1>1. ASSUME t \in DOMAIN p.logs
      PROVE  /\ LogOK(log, p.runs)
             /\ \A c \in p.calls : c.flag = t =>
                   \A i \in 1..Len(log) : Before(log[i], c.run, c.at + 1)
  <2>0. LogOK(p.logs[t], p.runs)
    BY <1>0, <1>1 DEF Sound, LogsOK
  <2>1. p.logs[t] \in Seq(Line) /\ Len(p.logs[t]) \in Nat
    BY <2>0, LogLines
  <2>2. /\ log \in Seq(Line) /\ Len(log) = Len(p.logs[t]) + 1
        /\ \A i \in 1..Len(p.logs[t]) : log[i] = p.logs[t][i]
        /\ log[Len(p.logs[t]) + 1] = e
    BY <2>1, AppendProperties
  <2> HIDE DEF log
  <2>3. \A i \in 1..Len(log) : i \in 1..Len(p.logs[t]) \/ i = Len(p.logs[t]) + 1
    BY <2>1, <2>2
  <2>4. \A i \in 1..Len(log) : log[i].run <= p.runs
    BY <2>0, <2>2, <2>3 DEF LogOK
  <2>5. ASSUME NEW i \in 1..Len(log), NEW j \in 1..Len(log), i < j
        PROVE  Before(log[i], log[j].run, log[j].line)
    <3>0. i # Len(p.logs[t]) + 1
      BY <2>1, <2>2, <2>5
    <3>1. i \in 1..Len(p.logs[t]) /\ log[i] = p.logs[t][i]
      BY <2>2, <2>3, <3>0
    <3>2. CASE j \in 1..Len(p.logs[t])
      BY <3>1, <3>2, <2>0, <2>2, <2>5, ZenonT(60) DEF LogOK
    <3>3. CASE j = Len(p.logs[t]) + 1
      BY <3>1, <3>3, <2>2, <1>1
    <3> QED BY <3>2, <3>3, <2>3
  <2>6. LogOK(log, p.runs)
    BY <2>2, <2>4, <2>5 DEF LogOK
  <2>7. \A c \in p.calls : c.flag = t =>
           \A i \in 1..Len(p.logs[t]) : Before(p.logs[t][i], c.run, c.at + 1)
    BY <1>0, <1>1 DEF Sound, LogsOK
  <2> QED BY <2>2, <2>3, <2>6, <2>7
<1>2. Relogged(p, q, t, log)
  OBVIOUS
<1> HIDE DEF log
<1> QED BY <1>1, <1>2, LogStep

\* A handler that prints to the terminal of its spinner.
Prints(c, t) == c.flag = t /\ t \notin NoSpinner

\* What its terminal shows was printed before the next line of a handler in flight.
LEMMA PrintedBefore ==
    ASSUME NEW p, Sound(p), NEW c \in p.calls, NEW t, c.flag = t, t \in DOMAIN p.logs,
           NEW i \in 1..Len(p.logs[t])
    PROVE  Before(p.logs[t][i], c.run, c.at + 1)
BY DEF Sound, LogsOK

\* A handler prints a line and goes to its next await.
LEMMA SayAwaitStep ==
    ASSUME NEW b, NEW p, Step(b, p), NEW c \in p.calls, NEW t, Prints(c, t)
    PROVE  Step(b, Await(Say(p, c, t), c))
<1> DEFINE e == [run |-> c.run, line |-> c.at + 1]
           q == Await(p, c)
           d == [c EXCEPT !.at = @ + 1]
<1>0. Sound(p) /\ DOMAIN p = Fields /\ p.runs \in Nat /\ CallOK(c, p.last)
  BY StepSound DEF Sound, CallsOK
<1>1. Step(b, q)
  BY AwaitStep
<1>2. /\ q.logs = p.logs /\ q.runs = p.runs /\ q.calls = (p.calls \ {c}) \cup {d}
      /\ Relogged(q, Await(Say(p, c, t), c), t, Append(q.logs[t], e))
  BY <1>0 DEF Await, Say, Fields, Relogged
<1>3. e \in Line /\ e.run = c.run /\ e.line = c.at + 1
  BY <1>0 DEF Line, CallOK
<1>4. d.run = c.run /\ d.at = c.at + 1 /\ c.at \in Nat /\ c.run \in Nat
  BY <1>0 DEF CallOK, CallFields
<1> HIDE DEF e, q, d
<1>5. e.run <= q.runs
  <2>1. p.last[c.op] \in Nat /\ p.last[c.op] <= p.runs /\ c.run <= p.last[c.op]
    BY <1>0 DEF CallOK, Sound, LastOK
  <2> QED BY <2>1, <1>0, <1>2, <1>3, <1>4
<1>6. \A i \in 1..Len(q.logs[t]) : t \in DOMAIN q.logs => Before(q.logs[t][i], e.run, e.line)
  <2>1. \A i \in 1..Len(p.logs[t]) : t \in DOMAIN p.logs => Before(p.logs[t][i], c.run, c.at + 1)
    BY <1>0, PrintedBefore DEF Prints
  <2> QED BY <2>1, <1>2, <1>3
<1>7. \A x \in q.calls : x.flag = t => Before(e, x.run, x.at + 1)
  <2>1. \A x \in p.calls \ {c} : x.flag # t
    BY <1>0 DEF Prints, Sound, BusyOK
  <2>2. Before(e, d.run, d.at + 1)
    BY <1>3, <1>4 DEF Before
  <2> QED BY <2>1, <2>2, <1>2
<1> QED BY <1>1, <1>2, <1>3, <1>5, <1>6, <1>7, AppendStep, Zenon

\* A handler prints its last line and is over.
LEMMA SayEndStep ==
    ASSUME NEW b, NEW p, Step(b, p), NEW c \in p.calls, NEW t, Prints(c, t),
           c.op \notin {"stress", "consent"}
    PROVE  Step(b, End(Say(p, c, t), c))
<1> DEFINE e == [run |-> c.run, line |-> c.at + 1]
           q == End(p, c)
<1>0. Sound(p) /\ DOMAIN p = Fields /\ p.runs \in Nat /\ CallOK(c, p.last)
  BY StepSound DEF Sound, CallsOK
<1>1. Step(b, q)
  BY EndStep
<1>2. /\ q.logs = p.logs /\ q.runs = p.runs /\ q.calls = p.calls \ {c}
      /\ Relogged(q, End(Say(p, c, t), c), t, Append(q.logs[t], e))
  BY <1>0 DEF End, Say, Fields, Relogged
<1>3. e \in Line /\ e.run = c.run /\ e.line = c.at + 1
  BY <1>0 DEF Line, CallOK
<1> HIDE DEF e, q
<1>5. e.run <= q.runs
  <2>1. /\ p.last[c.op] \in Nat /\ p.last[c.op] <= p.runs /\ c.run <= p.last[c.op]
        /\ c.run \in Nat
    BY <1>0 DEF CallOK, Sound, LastOK
  <2> QED BY <2>1, <1>0, <1>2, <1>3
<1>6. \A i \in 1..Len(q.logs[t]) : t \in DOMAIN q.logs => Before(q.logs[t][i], e.run, e.line)
  <2>1. \A i \in 1..Len(p.logs[t]) : t \in DOMAIN p.logs => Before(p.logs[t][i], c.run, c.at + 1)
    BY <1>0, PrintedBefore DEF Prints
  <2> QED BY <2>1, <1>2, <1>3
<1>7. \A x \in q.calls : x.flag = t => Before(e, x.run, x.at + 1)
  BY <1>0, <1>2 DEF Prints, Sound, BusyOK
<1> QED BY <1>1, <1>2, <1>3, <1>5, <1>6, <1>7, AppendStep, Zenon

\* A handler starts and opens its terminal.
LEMMA OnlyNew ==
    ASSUME NEW p, Sound(p), NEW op, NEW flag, NEW arg, flag \notin NoSpinner, flag \notin p.busy
    PROVE  /\ \A c \in Begin(p, op, flag, arg).calls : c.flag = flag => c.run = p.runs + 1 /\ c.at = 0
           /\ Begin(p, op, flag, arg).runs = p.runs + 1
           /\ Begin(p, op, flag, arg).logs = p.logs
<1>1. \A c \in p.calls : c.flag # flag
  BY DEF Sound, BusyOK, NoSpinner
<1>2. DOMAIN p = Fields
  BY DEF Sound
<1> QED BY <1>1, <1>2 DEF Begin, NewCall, Fields

\* The click that clears the last result and the terminal.
LEMMA OpenStep ==
    ASSUME NEW b, NEW p, Step(b, p), NEW op \in DOMAIN b.last, NEW arg,
           op \in Solo \cup Printing, NEW flag, flag = SpinnerOf(op), flag \notin p.busy
    PROVE  /\ op \notin Hiding => Step(b, Reopen(Begin(p, op, flag, arg), flag))
           /\ \A ops : op \in ops => Step(b, Reopen(Hide(Begin(p, op, flag, arg), ops), flag))
<1>0. Sound(p)
  BY StepSound
<1>1. flag \notin NoSpinner
  BY SpinnersApart
<1> DEFINE q == Begin(p, op, flag, arg)
<1>2. \A c \in q.calls : c.flag = flag => c.run = q.runs
  BY <1>0, <1>1, OnlyNew
<1>3. ASSUME op \notin Hiding PROVE Step(b, Reopen(q, flag))
  <2>1. Step(b, q)
    BY <1>3, BeginStep
  <2> HIDE DEF q
  <2> QED BY <2>1, <1>2, ReopenStep
<1>4. ASSUME NEW ops, op \in ops PROVE Step(b, Reopen(Hide(q, ops), flag))
  <2>1. Step(b, Hide(q, ops))
    BY <1>4, RequestStep
  <2>2. DOMAIN q = Fields
    BY <1>0 DEF Begin, Sound, Fields
  <2> HIDE DEF q
  <2>3. Hide(q, ops).calls = q.calls /\ Hide(q, ops).runs = q.runs
    BY <2>2, HideIs
  <2> QED BY <2>1, <2>3, <1>2, ReopenStep
<1> QED BY <1>3, <1>4

\* A handler starts and goes on with its terminal.
LEMMA ContinueStep ==
    ASSUME NEW b, NEW p, Step(b, p), NEW op \in DOMAIN b.last, NEW arg,
           op \in Printing, op \notin Hiding, NEW flag, flag = SpinnerOf(op), flag \notin p.busy
    PROVE  Step(b, Continue(Begin(p, op, flag, arg), flag))
<1> DEFINE q == Begin(p, op, flag, arg)
           e == [run |-> q.runs, line |-> 0]
<1>0. Sound(p) /\ p.runs \in Nat /\ DOMAIN p = Fields
  BY StepSound
<1>1. flag \notin NoSpinner
  BY SpinnersApart
<1>2. Step(b, q)
  BY BeginStep
<1>3. /\ \A c \in q.calls : c.flag = flag => c.run = p.runs + 1 /\ c.at = 0
      /\ q.runs = p.runs + 1 /\ q.logs = p.logs
  BY <1>0, <1>1, OnlyNew
<1>4. Relogged(q, Continue(q, flag), flag, Append(q.logs[flag], e))
  <2>1. DOMAIN q = Fields
    BY <1>2, StepSound
  <2> HIDE DEF q
  <2> QED BY <2>1 DEF Continue, Fields, Relogged
<1>5. e \in Line /\ e.run = p.runs + 1 /\ e.line = 0
  BY <1>0, <1>3 DEF Line
<1> HIDE DEF q, e
<1>6. \A i \in 1..Len(q.logs[flag]) : flag \in DOMAIN q.logs => Before(q.logs[flag][i], e.run, e.line)
  <2> SUFFICES ASSUME NEW i \in 1..Len(p.logs[flag]), flag \in DOMAIN p.logs
               PROVE  Before(p.logs[flag][i], e.run, e.line)
    BY <1>3
  <2>1. LogOK(p.logs[flag], p.runs)
    BY <1>0 DEF Sound, LogsOK
  <2>2. p.logs[flag][i].run \in Nat /\ p.logs[flag][i].run <= p.runs
    BY <2>1, LogLines, Zenon DEF LogOK
  <2> QED BY <2>2, <1>0, <1>5 DEF Before
<1>7. \A c \in q.calls : c.flag = flag => Before(e, c.run, c.at + 1)
  BY <1>3, <1>5 DEF Before
<1>8. e.run <= q.runs /\ e \in Line
  BY <1>0, <1>3, <1>5
<1>9. ASSUME NEW r, r = Continue(q, flag) PROVE Step(b, r)
  BY <1>2, <1>4, <1>6, <1>7, <1>8, <1>9, AppendStep, Zenon
<1> QED BY <1>9 DEF q

-----------------------------------------------------------------------------
(* The steps as they appear in the panels *)

\* A handler with a spinner or a terminal of its own, and one that has none and
\* shows nothing that a later run could overtake.
Own(op, flag) == op \in Solo \cup Printing /\ flag = SpinnerOf(op)

Plain(op) == op \notin Solo \cup Printing \cup {"consent"}

\* q is p with another page.
Repaged(p, q) ==
    /\ DOMAIN q = Fields /\ q.name = p.name /\ q.calls = p.calls /\ q.busy = p.busy
    /\ q.shown = p.shown /\ q.logs = p.logs /\ q.last = p.last /\ q.runs = p.runs

\* A change of the page keeps what is sound.
LEMMA RepageStep == ASSUME NEW b, NEW p, Step(b, p), NEW q, Repaged(p, q) PROVE Step(b, q)
<1>1. p.runs \in Nat
  BY StepSound
<1>2. q.runs \in Nat /\ p.runs <= q.runs
  BY <1>1 DEF Repaged
<1> QED BY <1>2, PageStep DEF Repaged

\* A setter changes the page only.
LEMMA SetPage == ASSUME NEW p, DOMAIN p = Fields, NEW f, NEW v PROVE Repaged(p, Set(p, f, v))
BY SetIs DEF Repaged

\* Begin, where no result has to be cleared.
LEMMA StartStep ==
    ASSUME NEW b, NEW p, Step(b, p), NEW op \in DOMAIN b.last, NEW flag, NEW arg,
           \/ Plain(op) /\ (flag \in NoSpinner \/ flag \notin p.busy)
           \/ Own(op, flag) /\ op \notin Hiding /\ flag \notin p.busy
    PROVE  Step(b, Begin(p, op, flag, arg))
BY BeginStep, OpsApart DEF Plain, Own

\* The click that clears the last result of a handler with a spinner of its own.
LEMMA OwnRequest ==
    ASSUME NEW b, NEW p, Step(b, p), NEW op \in DOMAIN b.last, NEW flag, NEW arg, NEW ops,
           Own(op, flag), flag \notin p.busy, op \in ops
    PROVE  Step(b, Hide(Begin(p, op, flag, arg), ops))
BY RequestStep DEF Own

\* The call of a suspended handler.
LEMMA SuspendedIs ==
    ASSUME NEW op, NEW c \in Suspended(op)
    PROVE  c \in panel.calls /\ c.op = op
BY DEF Suspended

\* An input's onChange keeps what is sound.
LEMMA EditStep == ASSUME Sound(panel), NEW f, NEW vs, Edit(f, vs) PROVE Step(panel, panel')
<1>1. Step(panel, panel)
  BY StepRefl
<1> QED BY <1>1, SetStep DEF Edit

\* The clicks of the plain requests keep what is sound.
LEMMA RequestSteps ==
    ASSUME Sound(panel), NEW op \in DOMAIN panel.last, NEW arg, Own(op, op),
           Request(op, arg) \/ (RequestKeeping(op, arg) /\ op \notin Hiding)
    PROVE  Step(panel, panel')
<1>1. Step(panel, panel)
  BY StepRefl
<1>2. CASE Request(op, arg)
  BY <1>1, <1>2, OwnRequest DEF Request, Idle
<1>3. CASE RequestKeeping(op, arg) /\ op \notin Hiding
  BY <1>1, <1>3, StartStep DEF RequestKeeping, Idle
<1> QED BY <1>2, <1>3

\* So do their answers.
LEMMA AnswerSteps ==
    ASSUME Sound(panel), NEW op \in Solo \cup Overlapping, op # "stress",
           Answer(op) \/ AnswerOrFail(op)
    PROVE  Step(panel, panel')
<1>1. Step(panel, panel) /\ op # "consent"
  BY StepRefl, OpsApart
<1>2. CASE Answer(op)
  <2>1. PICK c \in Suspended(op), out \in Outcome : panel' = End(Show(panel, c, out), c)
    BY <1>2 DEF Answer
  <2> QED BY <1>1, <2>1, SuspendedIs, AnswerStep
<1>3. CASE AnswerOrFail(op)
  <2>1. PICK c \in Suspended(op) : panel' \in {End(Show(panel, c, "live"), c), End(panel, c)}
    BY <1>3 DEF AnswerOrFail
  <2> QED BY <1>1, <2>1, SuspendedIs, AnswerStep, EndStep
<1> QED BY <1>2, <1>3

\* What a handler with a terminal of its own is known by.
LEMMA OwnPrints ==
    ASSUME Sound(panel), NEW op, NEW t, Own(op, t), NEW c \in Suspended(op)
    PROVE  Prints(c, t) /\ c \in panel.calls /\ c.op = op /\ op # "consent"
<1>1. c \in panel.calls /\ c.op = op /\ CallOK(c, panel.last) /\ op # "consent"
  BY OpsApart DEF Suspended, Sound, CallsOK, Own, Printing
<1>2. c.flag = t /\ t \notin NoSpinner
  BY <1>1, SpinnersApart DEF CallOK, Own
<1> QED BY <1>1, <1>2 DEF Prints

\* So does a line of a scripted terminal.
LEMMA PrintStep ==
    ASSUME Sound(panel), NEW op, NEW t, NEW lines, Own(op, t), PrintLine(op, lines, t)
    PROVE  Step(panel, panel')
<1>1. Step(panel, panel)
  BY StepRefl
<1>2. PICK c \in Suspended(op) : panel' = Await(Say(panel, c, t), c)
  BY DEF PrintLine
<1> QED BY <1>1, <1>2, OwnPrints, SayAwaitStep

\* A handler that ends with one hook set, or none.
LEMMA EndSetStep ==
    ASSUME Sound(panel), NEW op, op \notin {"stress", "consent"}, NEW c \in Suspended(op)
    PROVE  Step(panel, End(panel, c)) /\ \A f, v : Step(panel, Set(End(panel, c), f, v))
<1>1. Step(panel, End(panel, c))
  BY StepRefl, SuspendedIs, EndStep
<1> QED BY <1>1, SetStep

\* A handler at its next await, on a page that changed meanwhile.
LEMMA PagedAwait ==
    ASSUME Sound(panel), NEW op, NEW c \in Suspended(op), NEW p, Repaged(panel, p)
    PROVE  Step(panel, Await(p, c)) /\ \A arg : Step(panel, AwaitWith(p, c, arg))
<1>1. Step(panel, p) /\ c \in p.calls
  BY StepRefl, RepageStep, SuspendedIs DEF Repaged
<1> QED BY <1>1, AwaitStep

\* A handler at its next await, with what it holds there.
LEMMA SetAwaitStep ==
    ASSUME Sound(panel), NEW op, NEW c \in Suspended(op), NEW f, NEW v
    PROVE  /\ Step(panel, Await(Set(panel, f, v), c))
           /\ Step(panel, Set(Await(panel, c), f, v))
           /\ \A arg : Step(panel, AwaitWith(Set(panel, f, v), c, arg))
           /\ \A arg : Step(panel, AwaitWith(panel, c, arg))
           /\ Step(panel, Await(panel, c))
<1>1. DOMAIN panel = Fields
  BY DEF Sound
<1>2. Repaged(panel, Set(panel, f, v))
  BY <1>1, SetPage
<1>3. Step(panel, Await(panel, c)) /\ \A arg : Step(panel, AwaitWith(panel, c, arg))
  BY StepRefl, SuspendedIs, AwaitStep
<1> QED BY <1>2, <1>3, PagedAwait, SetStep

\* A handler that starts leaves the others suspended.
LEMMA BeginCalls ==
    ASSUME NEW p, DOMAIN p = Fields, NEW op, NEW flag, NEW arg, NEW c \in p.calls
    PROVE  c \in Begin(p, op, flag, arg).calls
BY DEF Begin, Fields

-----------------------------------------------------------------------------
(* The handlers of each panel *)

Shape(p) ==
    /\ p.name = "fraud" => DOMAIN p.last = {"verify", "memo"}
    /\ p.name = "credit" => DOMAIN p.last = {"underwrite"}
    /\ p.name = "graph" => DOMAIN p.last = {"scan"}
    /\ p.name = "adversarial" => DOMAIN p.last = {"attack"}
    /\ p.name = "playbook" => DOMAIN p.last = {"execute"}
    /\ p.name = "zkp" => DOMAIN p.last = {"prove", "check"}
    /\ p.name = "federation" => DOMAIN p.last = {"train"}
    /\ p.name = "signer" => DOMAIN p.last = {"sign"}
    /\ p.name = "sovereignty" => DOMAIN p.last = {"resolve"}
    /\ p.name = "evacuation" => DOMAIN p.last = {"evacuate"}
    /\ p.name = "payments" => DOMAIN p.last = {"compile", "submit"}
    /\ p.name = "screening" => DOMAIN p.last = {"screen"}
    /\ p.name = "stress" => DOMAIN p.last = {"stress"}
    /\ p.name = "regtech" => DOMAIN p.last = {"seal", "transmit"}
    /\ p.name = "gst" => DOMAIN p.last = {"parse", "fileGst"}
    /\ p.name = "returns" => DOMAIN p.last = {"assess"}
    /\ p.name = "ledger" => DOMAIN p.last = {"refresh", "file", "pay", "wallet"}
    /\ p.name = "healer" => DOMAIN p.last = {"poll", "remediate", "clear"}
    /\ p.name = "enclave" => DOMAIN p.last = {"infer"}
    /\ p.name = "swap" => DOMAIN p.last = {"swap"}
    /\ p.name = "boot" => DOMAIN p.last = {"boot"}
    /\ p.name = "merger" => DOMAIN p.last = {"valuate"}
    /\ p.name = "fx" => DOMAIN p.last = {"route"}
    /\ p.name = "link" => DOMAIN p.last = {"connect", "status", "stream"}
    /\ p.name = "probe" => DOMAIN p.last = {"probe"}
    /\ p.name = "keys" => DOMAIN p.last = {"sync", "create", "revoke", "invoice", "dispatch"}
    /\ p.name = "playground" => DOMAIN p.last = {"play"}
    /\ p.name = "strategy" => DOMAIN p.last = {"forecast", "inbox", "decide"}
    /\ p.name = "contract" => DOMAIN p.last = {"audit"}
    /\ p.name = "sweep" => DOMAIN p.last = {"sweep", "deck"}
    /\ p.name = "solvency" => DOMAIN p.last = {"generate", "solvency"}
    /\ p.name = "vaults" => DOMAIN p.last = {"vaults", "liquidate", "drop"}
    /\ p.name = "did" => DOMAIN p.last = {"did"}
    /\ p.name \in {"amm", "cds"} => DOMAIN p.last = {"quote"}
    /\ p.name = "sanctions" => DOMAIN p.last = {"scan2", "quarantine"}
    /\ p.name = "recon" => DOMAIN p.last = {"recon", "event"}
    /\ p.name = "apikey" => DOMAIN p.last = {"regenerate", "copy"}
    /\ p.name = "preferences" =>
          DOMAIN p.last = {"toast", "reroute", "progress", "export", "reset"}
    /\ p.name = "forms" => DOMAIN p.last = {"toast"}
    /\ p.name = "notices" => DOMAIN p.last = {"seed", "stream"}
    /\ p.name = "workspace" => DOMAIN p.last = {"checkDb", "review", "toast"}
    /\ p.name = "session" => DOMAIN p.last = {}
    /\ p.name = "feed" => DOMAIN p.last = {"poll", "highlight"}
    /\ p.name = "chat" => DOMAIN p.last = {"ask"}
    /\ p.name = "terminal" => DOMAIN p.last = {"command"}
    /\ p.name = "ring" => DOMAIN p.last = {"expand"}
    /\ p.name = "alerts" => DOMAIN p.last = {"fetch"}
    /\ p.name = "forensics" => DOMAIN p.last = {"forensics"}
    /\ p.name = "checkout" => DOMAIN p.last = {"checkout"}
    /\ p.name = "wallet" => DOMAIN p.last = {"witness"}
    /\ p.name = "biometrics" => DOMAIN p.last = {"load", "stop"}
    /\ p.name = "scorer" => DOMAIN p.last = {"score"}
    /\ p.name = "triage" => DOMAIN p.last = {"triage"}
    /\ p.name = "consent" => DOMAIN p.last = {"consent"}

Inv(p) == Sound(p) /\ Shape(p) /\ Pages(p)

\* The part of the invariant that the handlers' lemmas use.
LEMMA InvSound == Inv(panel) => Sound(panel) /\ Step(panel, panel) /\ DOMAIN panel = Fields
BY StepRefl DEF Inv, Sound

-----------------------------------------------------------------------------
(* RiskPanels *)

\* Which handlers of RiskPanels have a spinner to themselves, and which have none.
LEMMA RiskOps ==
    /\ Own("verify", "biometrics") /\ Own("memo", "memo") /\ Own("underwrite", "underwrite")
    /\ Own("scan", "scan") /\ Own("attack", "attack")
    /\ {"verify", "memo", "underwrite", "scan", "attack"} \subseteq Solo
BY DEF Own, Solo, Hiding, SpinnerOf

\* The steps of the fraud desk are steps of handlers.
LEMMA FraudStep ==
    ASSUME Inv(panel), panel.name = "fraud", FraudUser \/ FraudAnswer
    PROVE  Step(panel, panel')
<1>0. Sound(panel) /\ Step(panel, panel) /\ DOMAIN panel = Fields
      /\ DOMAIN panel.last = {"verify", "memo"}
  BY InvSound DEF Inv, Shape
<1>1. CASE SelectAlert
  <2>1. PICK a \in Cases : panel' = [Hide(panel, {"verify", "memo"}) EXCEPT
                                        !.ui.alert = a, !.ui.tab = "details", !.ui.phrase = FALSE]
    BY <1>1, Zenon DEF SelectAlert
  <2>2. Step(panel, Hide(panel, {"verify", "memo"}))
    BY <1>0, HideStep
  <2>3. Repaged(Hide(panel, {"verify", "memo"}), panel')
    BY <2>1, <2>2, StepSound DEF Repaged, Fields
  <2> QED BY <2>2, <2>3, RepageStep
<1>2. CASE CloseDrawer \/ ChooseTab \/ TypePhrase
  BY <1>0, <1>2, EditStep, SetStep DEF CloseDrawer, ChooseTab, TypePhrase
<1>3. CASE SimulateFill
  <2>1. Repaged(panel, panel')
    BY <1>0, <1>3 DEF SimulateFill, Repaged, Fields
  <2> QED BY <1>0, <2>1, RepageStep
<1>4. CASE VerifyBiometrics \/ GenerateMemo
  BY <1>0, <1>4, OwnRequest, RiskOps
     DEF VerifyBiometrics, CanVerify, GenerateMemo, CanGenerateMemo, Idle
<1>5. CASE FraudAnswer
  BY <1>0, <1>5, AnswerSteps, RiskOps DEF FraudAnswer
<1> QED BY <1>1, <1>2, <1>3, <1>4, <1>5 DEF FraudUser

\* The steps of the credit page are steps of handlers.
LEMMA CreditStep ==
    ASSUME Inv(panel), panel.name = "credit", CreditUser \/ CreditAnswer
    PROVE  Step(panel, panel')
<1>0. Sound(panel) /\ Step(panel, panel) /\ DOMAIN panel.last = {"underwrite"}
  BY InvSound DEF Inv, Shape
<1>1. CASE MoveSlider
  BY <1>0, <1>1, EditStep DEF MoveSlider
<1>2. CASE RunUnderwrite
  BY <1>0, <1>2, OwnRequest, RiskOps DEF RunUnderwrite, Idle
<1>3. CASE CreditAnswer
  BY <1>0, <1>3, AnswerSteps, RiskOps DEF CreditAnswer
<1> QED BY <1>1, <1>2, <1>3 DEF CreditUser

\* The steps of the graph page are steps of handlers.
LEMMA GraphStep ==
    ASSUME Inv(panel), panel.name = "graph", GraphUser \/ GraphResume
    PROVE  Step(panel, panel')
<1>0. Sound(panel) /\ Step(panel, panel) /\ DOMAIN panel = Fields /\ DOMAIN panel.last = {"scan"}
  BY InvSound DEF Inv, Shape
<1>1. CASE ToggleCluster \/ SearchEntity
  BY <1>0, <1>1, EditStep, SetStep DEF ToggleCluster, SearchEntity
<1>2. CASE DetectCycles
  BY <1>0, <1>2, OpenStep, RiskOps DEF DetectCycles, Idle, Own
<1>3. CASE PrintLine("scan", ScanLines, "scan")
  BY <1>0, <1>3, PrintStep, RiskOps
<1>4. CASE ScanAnswer
  <2>1. PICK c \in Suspended("scan"), out \in Outcome :
            panel' = End(Say(Show(panel, c, out), c, "scan"), c)
    BY <1>4 DEF ScanAnswer
  <2>2. c \in panel.calls /\ c.op = "scan" /\ Prints(c, "scan")
    BY <1>0, OwnPrints, RiskOps
  <2>3. Step(panel, Show(panel, c, out)) /\ Show(panel, c, out).calls = panel.calls
    BY <1>0, <2>2, ShowStep, ShowCalls, RiskOps
  <2> QED BY <2>1, <2>2, <2>3, SayEndStep
<1> QED BY <1>1, <1>2, <1>3, <1>4 DEF GraphUser, GraphResume

\* The steps of the adversarial lab are steps of handlers.
LEMMA AdversarialStep ==
    ASSUME Inv(panel), panel.name = "adversarial", AdversarialUser \/ AdversarialAnswer
    PROVE  Step(panel, panel')
<1>0. Sound(panel) /\ Step(panel, panel) /\ DOMAIN panel.last = {"attack"}
  BY InvSound DEF Inv, Shape
<1>1. CASE SetSamples
  BY <1>0, <1>1, EditStep DEF SetSamples
<1>2. CASE LaunchGanAttack
  BY <1>0, <1>2, OwnRequest, RiskOps DEF LaunchGanAttack, Idle
<1>3. CASE AdversarialAnswer
  BY <1>0, <1>3, AnswerSteps, RiskOps DEF AdversarialAnswer
<1> QED BY <1>1, <1>2, <1>3 DEF AdversarialUser

\* The panels of RiskPanels take steps of handlers only.
LEMMA RiskStep == ASSUME Inv(panel), RiskUser \/ RiskResume PROVE Step(panel, panel')
BY FraudStep, CreditStep, GraphStep, AdversarialStep DEF RiskUser, RiskResume

-----------------------------------------------------------------------------
(* SoarDeskPanels *)

\* Which handlers of SoarDeskPanels have a spinner to themselves, and which have none.
LEMMA SoarDeskOps ==
    /\ Own("prove", "zkp") /\ Own("check", "check") /\ Own("sign", "sign")
    /\ Own("resolve", "resolve") /\ Own("train", "train") /\ Own("evacuate", "evacuate")
    /\ {"prove", "check", "sign", "resolve"} \subseteq Solo
    /\ {"train", "evacuate"} \cap Hiding = {}
    /\ Plain("execute")
BY DEF Own, Plain, Solo, Hiding, Keeping, Printing, SpinnerOf

\* The steps of the SOAR overview are steps of handlers.
LEMMA SoarViewStep ==
    ASSUME Inv(panel), SoarViewUser \/ AnimateMttr
    PROVE  Step(panel, panel')
<1>0. Sound(panel) /\ Step(panel, panel)
  BY InvSound
<1>1. CASE ToggleFilter \/ ClearFilter \/ AnimateMttr
  BY <1>0, <1>1, SetStep, Zenon DEF ToggleFilter, ClearFilter, AnimateMttr
<1>2. CASE HoverEvent \/ SwitchSoarTab
  BY <1>0, <1>2, EditStep DEF HoverEvent, SwitchSoarTab
<1> QED BY <1>1, <1>2 DEF SoarViewUser

\* The steps of the playbook builder are steps of handlers.
LEMMA PlaybookStep ==
    ASSUME Inv(panel), panel.name = "playbook", PlaybookUser \/ PlaybookResume
    PROVE  Step(panel, panel')
<1>0. Sound(panel) /\ Step(panel, panel) /\ DOMAIN panel = Fields
      /\ DOMAIN panel.last = {"execute"}
  BY InvSound DEF Inv, Shape
<1>1. CASE AddStep \/ RemoveStep \/ ClearPlaybook
  <2>1. Repaged(panel, panel')
    BY <1>0, <1>1, Zenon DEF AddStep, RemoveStep, ClearPlaybook, Repaged, Fields
  <2> QED BY <1>0, <2>1, RepageStep
<1>2. CASE ExecutePlaybook
  <2> DEFINE p == Begin(panel, "execute", "playbook", panel.ui.sequence)
  <2>1. Step(panel, p)
    BY <1>0, <1>2, StartStep, SoarDeskOps DEF ExecutePlaybook, Idle
  <2>2. panel' = [p EXCEPT !.ui.complete = FALSE, !.ui.progress = 0, !.ui.executed = <<>>]
    BY <1>2 DEF ExecutePlaybook
  <2> HIDE DEF p
  <2>3. Repaged(p, panel')
    BY <2>1, <2>2, StepSound DEF Repaged, Fields
  <2> QED BY <2>1, <2>3, RepageStep
<1>3. CASE PlaybookResume
  <2> DEFINE page(c) == [panel EXCEPT !.ui.progress = c.at + 1,
                                      !.ui.executed = Append(@, c.arg[c.at + 1])]
  <2>1. PICK c \in Suspended("execute") :
            \/ panel' = Await(page(c), c)
            \/ panel' = [End(page(c), c) EXCEPT !.ui.complete = TRUE]
    BY <1>3, Zenon DEF PlaybookResume
  <2> DEFINE p == page(c)
  <2>2. Repaged(panel, p)
    BY <1>0 DEF Repaged, Fields
  <2>3. panel' = Await(p, c) \/ panel' = [End(p, c) EXCEPT !.ui.complete = TRUE]
    BY <2>1
  <2> HIDE DEF p, page
  <2>4. Step(panel, p) /\ c \in p.calls /\ c.op = "execute"
    BY <1>0, <2>2, RepageStep, SuspendedIs DEF Repaged
  <2>5. Step(panel, End(p, c)) /\ Step(panel, Await(p, c))
    BY <2>4, EndStep, AwaitStep
  <2>6. CASE panel' = [End(p, c) EXCEPT !.ui.complete = TRUE]
    <3>1. Repaged(End(p, c), panel')
      BY <2>5, <2>6, StepSound DEF Repaged, Fields
    <3> QED BY <2>5, <3>1, RepageStep
  <2> QED BY <2>3, <2>5, <2>6
<1> QED BY <1>1, <1>2, <1>3 DEF PlaybookUser

\* The steps of the proof desk are steps of handlers.
LEMMA ZkpStep ==
    ASSUME Inv(panel), panel.name = "zkp", ZkpUser \/ CreateZkpAnswer \/ VerifyZkpAnswer
    PROVE  Step(panel, panel')
<1>0. Sound(panel) /\ Step(panel, panel) /\ DOMAIN panel.last = {"prove", "check"}
  BY InvSound DEF Inv, Shape
<1>1. CASE EditSuspect \/ EditClaim
  BY <1>0, <1>1, EditStep DEF EditSuspect, EditClaim
<1>2. CASE CreateZkp
  BY <1>0, <1>2, OwnRequest, SoarDeskOps DEF CreateZkp, Idle
<1>5. CASE VerifyZkp
  <2>1. PICK arg : panel' = Hide(Begin(panel, "check", "check", arg), {"check"})
    BY <1>5 DEF VerifyZkp
  <2> QED BY <1>0, <1>5, <2>1, OwnRequest, SoarDeskOps DEF VerifyZkp, Idle
<1>3. CASE CreateZkpAnswer
  BY <1>0, <1>3, SuspendedIs, AnswerStep, SetStep, SoarDeskOps DEF CreateZkpAnswer
<1>4. CASE VerifyZkpAnswer
  BY <1>0, <1>4, SuspendedIs, AnswerStep, SoarDeskOps DEF VerifyZkpAnswer
<1> QED BY <1>1, <1>2, <1>3, <1>4, <1>5 DEF ZkpUser

\* The steps of the federated training page are steps of handlers.
LEMMA FederationStep ==
    ASSUME Inv(panel), panel.name = "federation", FederationUser \/ TrainResume
    PROVE  Step(panel, panel')
<1>0. Sound(panel) /\ Step(panel, panel) /\ DOMAIN panel.last = {"train"}
  BY InvSound DEF Inv, Shape
<1>1. CASE SetRounds
  BY <1>0, <1>1, EditStep DEF SetRounds
<1>2. CASE RunFL
  BY <1>0, <1>2, OpenStep, SoarDeskOps DEF RunFL, Idle, Own
<1>3. CASE TrainResume
  BY <1>0, <1>3, OwnPrints, SayAwaitStep, SayEndStep, SoarDeskOps DEF TrainResume
<1> QED BY <1>1, <1>2, <1>3 DEF FederationUser

\* The steps of the signer are steps of handlers.
LEMMA SignerStep ==
    ASSUME Inv(panel), panel.name = "signer", EditMessage \/ PqcSign \/ PqcSignAnswer
    PROVE  Step(panel, panel')
<1>0. Sound(panel) /\ Step(panel, panel) /\ DOMAIN panel.last = {"sign"}
  BY InvSound DEF Inv, Shape
<1>1. CASE EditMessage
  BY <1>0, <1>1, EditStep DEF EditMessage
<1>2. CASE PqcSign
  BY <1>0, <1>2, OwnRequest, SoarDeskOps DEF PqcSign, Idle
<1>3. CASE PqcSignAnswer
  BY <1>0, <1>3, AnswerSteps, SoarDeskOps DEF PqcSignAnswer
<1> QED BY <1>1, <1>2, <1>3

\* The steps of the sovereignty resolver are steps of handlers.
LEMMA SovereigntyStep ==
    ASSUME Inv(panel), panel.name = "sovereignty", EditIp \/ ResolveSovereignty \/ ResolveAnswer
    PROVE  Step(panel, panel')
<1>0. Sound(panel) /\ Step(panel, panel) /\ DOMAIN panel.last = {"resolve"}
  BY InvSound DEF Inv, Shape
<1>1. CASE EditIp
  BY <1>0, <1>1, EditStep DEF EditIp
<1>2. CASE ResolveSovereignty
  BY <1>0, <1>2, OwnRequest, SoarDeskOps DEF ResolveSovereignty, Idle
<1>3. CASE ResolveAnswer
  BY <1>0, <1>3, AnswerSteps, SoarDeskOps DEF ResolveAnswer
<1> QED BY <1>1, <1>2, <1>3

\* The steps of the evacuation page are steps of handlers.
LEMMA EvacuationStep ==
    ASSUME Inv(panel), panel.name = "evacuation", EvacuateRegion \/ EvacuationResume
    PROVE  Step(panel, panel')
<1>0. Sound(panel) /\ Step(panel, panel) /\ DOMAIN panel.last = {"evacuate"}
  BY InvSound DEF Inv, Shape
<1>1. CASE EvacuateRegion
  BY <1>0, <1>1, OpenStep, SoarDeskOps DEF EvacuateRegion, Idle, Own
<1>2. CASE PrintLine("evacuate", EvacuationLines, "evacuate")
  BY <1>0, <1>2, PrintStep, SoarDeskOps
<1>3. CASE EvacuateAnswer
  BY <1>0, <1>3, OwnPrints, SayEndStep, SoarDeskOps DEF EvacuateAnswer
<1> QED BY <1>1, <1>2, <1>3 DEF EvacuationResume

\* The panels of SoarDeskPanels take steps of handlers only.
LEMMA SoarDeskStep == ASSUME Inv(panel), SoarDeskUser \/ SoarDeskResume PROVE Step(panel, panel')
BY SoarViewStep, PlaybookStep, ZkpStep, FederationStep, SignerStep, SovereigntyStep,
   EvacuationStep DEF SoarDeskUser, SoarDeskResume

-----------------------------------------------------------------------------
(* FilingPanels *)

\* Which handlers of FilingPanels have a spinner to themselves, and which have none.
LEMMA FilingOps ==
    /\ Own("compile", "dispute") /\ Own("submit", "dispute") /\ Own("screen", "screen")
    /\ Own("stress", "stress") /\ Own("transmit", "filing")
    /\ {"compile", "submit", "transmit"} \subseteq Printing
    /\ {"compile", "submit", "transmit", "stress"} \cap Hiding = {}
    /\ {"screen", "stress"} \subseteq Solo
    /\ Plain("seal")
BY DEF Own, Plain, Solo, Hiding, Keeping, Printing, SpinnerOf

\* That a transmission is observed changes the page only.
LEMMA TransmittedStep ==
    ASSUME NEW b, NEW p, Step(b, p), NEW item, NEW row
    PROVE  Step(b, Transmitted(p, item, row))
<1>1. Repaged(p, Transmitted(p, item, row))
  BY StepSound DEF Repaged, Transmitted, Fields
<1> QED BY <1>1, RepageStep

\* The steps of the payments page are steps of handlers.
LEMMA PaymentsStep ==
    ASSUME Inv(panel), panel.name = "payments", PaymentsUser \/ Ingest \/ PaymentsResume
    PROVE  Step(panel, panel')
<1>0. Sound(panel) /\ Step(panel, panel) /\ DOMAIN panel = Fields
      /\ DOMAIN panel.last = {"compile", "submit"}
  BY InvSound DEF Inv, Shape
<1>1. CASE ToggleIngestion
  <2>1. Repaged(panel, panel')
    BY <1>0, <1>1 DEF ToggleIngestion, Repaged, Fields
  <2> QED BY <1>0, <2>1, RepageStep
<1>2. CASE Ingest \/ CloseDispute
  BY <1>0, <1>2, SetStep, Zenon DEF Ingest, CloseDispute
<1>3. CASE AuditDispute
  <2>1. PICK t : panel' = [Wipe(panel, "dispute") EXCEPT
                              !.ui.tx = t, !.ui.step = "DRAFT", !.ui.prepared = {}]
    BY <1>3, Zenon DEF AuditDispute
  <2>2. Step(panel, Wipe(panel, "dispute"))
    BY <1>0, WipeStep
  <2>3. Repaged(Wipe(panel, "dispute"), panel')
    BY <2>1, <2>2, StepSound DEF Repaged, Fields
  <2> QED BY <2>2, <2>3, RepageStep
<1>4. CASE CompileEvidence
  BY <1>0, <1>4, OpenStep, FilingOps DEF CompileEvidence, Idle, Own
<1>5. CASE SubmitDispute
  <2> DEFINE p == Continue(Begin(panel, "submit", "dispute", panel.ui.tx), "dispute")
  <2>1. Step(panel, p)
    BY <1>0, <1>5, ContinueStep, FilingOps DEF SubmitDispute, Idle, Own
  <2>2. panel' = Transmitted(p, panel.ui.tx, panel.ui.tx)
    BY <1>5, Zenon DEF SubmitDispute
  <2> HIDE DEF p
  <2> QED BY <2>1, <2>2, TransmittedStep
<1>6. CASE PrintLine("compile", CompileLines - 1, "dispute")
            \/ PrintLine("submit", SubmitLines - 1, "dispute")
  BY <1>0, <1>6, PrintStep, FilingOps
<1>7. CASE CompileEnds \/ SubmitEnds
  <2>1. PICK c \in Suspended("compile") \cup Suspended("submit") :
            \/ panel' = [End(Say(panel, c, "dispute"), c) EXCEPT
                            !.ui.step = "COMPILED",
                            !.ui.prepared = {Preparation(c, panel.ui.tx)}]
            \/ panel' = Set(End(Say(panel, c, "dispute"), c), "step", "SUBMITTED")
    BY <1>7, Zenon DEF CompileEnds, SubmitEnds
  <2>2. c \in panel.calls /\ c.op \in {"compile", "submit"} /\ Prints(c, "dispute")
    BY <1>0, OwnPrints, FilingOps
  <2>3. Step(panel, End(Say(panel, c, "dispute"), c))
    BY <1>0, <2>2, SayEndStep
  <2> DEFINE p == End(Say(panel, c, "dispute"), c)
  <2> HIDE DEF p
  <2>4. Repaged(p, panel')
    <3>1. CASE panel' = [p EXCEPT !.ui.step = "COMPILED",
                                  !.ui.prepared = {Preparation(c, panel.ui.tx)}]
      BY <2>3, <3>1, StepSound DEF p, Repaged, Fields
    <3>2. CASE panel' = Set(p, "step", "SUBMITTED")
      BY <2>3, <3>2, StepSound, SetPage DEF p
    <3> QED BY <2>1, <3>1, <3>2 DEF p
  <2> QED BY <2>3, <2>4, RepageStep DEF p
<1> QED BY <1>1, <1>2, <1>3, <1>4, <1>5, <1>6, <1>7 DEF PaymentsUser, PaymentsResume

\* The steps of the routing controls are steps of handlers.
LEMMA RoutingStep == ASSUME Inv(panel), RoutingUser PROVE Step(panel, panel')
<1>0. Sound(panel) /\ Step(panel, panel) /\ DOMAIN panel = Fields
  BY InvSound
<1>1. PICK f, v : panel' = Logged(Set(panel, f, v))
  BY DEF RoutingUser, LimitChange, ToggleOffshore, Toggle3ds
<1>2. Step(panel, Set(panel, f, v))
  BY <1>0, SetStep
<1>3. Repaged(Set(panel, f, v), panel')
  BY <1>1, <1>2, StepSound DEF Repaged, Fields, Logged
<1> QED BY <1>2, <1>3, RepageStep

\* The steps of the screening page are steps of handlers.
LEMMA ScreeningStep ==
    ASSUME Inv(panel), panel.name = "screening", ScreeningUser \/ ScreeningResume
    PROVE  Step(panel, panel')
<1>0. Sound(panel) /\ Step(panel, panel) /\ DOMAIN panel = Fields /\ DOMAIN panel.last = {"screen"}
  BY InvSound DEF Inv, Shape
<1>1. CASE EditClient \/ ChooseGroup
  BY <1>0, <1>1, EditStep DEF EditClient, ChooseGroup
<1>2. CASE LaunchScreening
  BY <1>0, <1>2, OpenStep, SetStep, FilingOps, Zenon DEF LaunchScreening, Idle, Own
<1>3. CASE DisplayCertificate
  BY <1>0, <1>3, SetStep, Zenon DEF DisplayCertificate
<1>4. CASE PrintLine("screen", ScreenLines, "screen")
  BY <1>0, <1>4, PrintStep, FilingOps
<1>5. CASE ScreeningEnds
  <2>1. PICK c \in Suspended("screen") :
            panel' = End(Say(Show(panel, c, Verdict(c.arg)), c, "screen"), c)
    BY <1>5 DEF ScreeningEnds
  <2>2. c \in panel.calls /\ c.op = "screen" /\ Prints(c, "screen")
    BY <1>0, OwnPrints, FilingOps
  <2>3. /\ Step(panel, Show(panel, c, Verdict(c.arg)))
        /\ Show(panel, c, Verdict(c.arg)).calls = panel.calls
    BY <1>0, <2>2, ShowStep, ShowCalls, FilingOps
  <2> QED BY <2>1, <2>2, <2>3, SayEndStep
<1> QED BY <1>1, <1>2, <1>3, <1>4, <1>5 DEF ScreeningUser, ScreeningResume

\* The steps of the suitability form are steps of handlers.
LEMMA SuitabilityStep == ASSUME Inv(panel), SuitabilityUser PROVE Step(panel, panel')
<1>0. Sound(panel) /\ Step(panel, panel)
  BY InvSound
<1>1. CASE MoveSuitability
  BY <1>0, <1>1, EditStep DEF MoveSuitability
<1>2. CASE RunSuitability
  BY <1>0, <1>2, SetStep DEF RunSuitability
<1> QED BY <1>1, <1>2 DEF SuitabilityUser

\* The steps of the stress test are steps of handlers.
LEMMA StressStep ==
    ASSUME Inv(panel), panel.name = "stress", StressUser \/ StressEnds
    PROVE  Step(panel, panel')
<1>0. Sound(panel) /\ Step(panel, panel) /\ DOMAIN panel.last = {"stress"}
  BY InvSound DEF Inv, Shape
<1>1. CASE MoveStress
  BY <1>0, <1>1, EditStep DEF MoveStress
<1>2. CASE RunStressTest
  BY <1>0, <1>2, StartStep, FilingOps DEF RunStressTest, Idle
<1>3. CASE StressEnds
  BY <1>0, <1>3, SuspendedIs, AnswerStep, FilingOps DEF StressEnds
<1> QED BY <1>1, <1>2, <1>3 DEF StressUser

\* The steps of the regulatory page are steps of handlers.
LEMMA RegTechStep ==
    ASSUME Inv(panel), panel.name = "regtech", RegTechUser \/ RegTechResume
    PROVE  Step(panel, panel')
<1>0. Sound(panel) /\ Step(panel, panel) /\ DOMAIN panel = Fields
      /\ DOMAIN panel.last = {"seal", "transmit"}
  BY InvSound DEF Inv, Shape
<1>1. CASE SelectAmlAlert \/ GenerateSar
  <2> DEFINE p == Wipe(panel, "filing")
  <2>1. Step(panel, p)
    BY <1>0, WipeStep
  <2>2. \/ \E a : panel' = [p EXCEPT !.ui.alert = a, !.ui.draft = None, !.ui.signed = FALSE,
                                     !.ui.step = "IDLE", !.ui.prepared = {}]
        \/ panel' = [p EXCEPT !.ui.draft = "drafted", !.ui.signed = FALSE,
                              !.ui.signature = None, !.ui.step = "IDLE", !.ui.prepared = {}]
    BY <1>1, Zenon DEF SelectAmlAlert, GenerateSar
  <2> HIDE DEF p
  <2>3. Repaged(p, panel')
    BY <2>1, <2>2, StepSound, ZenonT(60) DEF Repaged, Fields
  <2> QED BY <2>1, <2>3, RepageStep
<1>2. CASE CloseAmlAlert \/ DownloadEnvelope
  BY <1>0, <1>2, SetStep DEF CloseAmlAlert, DownloadEnvelope
<1>3. CASE EditSar
  BY <1>0, <1>3, EditStep DEF EditSar
<1>4. CASE PqcSignSar
  BY <1>0, <1>4, StartStep, FilingOps DEF PqcSignSar, Idle
<1>5. CASE TransmitSar
  <2> DEFINE p == Reopen(Begin(panel, "transmit", "filing", Report), "filing")
  <2>1. Step(panel, p)
    BY <1>0, <1>5, OpenStep, FilingOps DEF TransmitSar, Idle, Own
  <2>2. panel' = Transmitted(p, Report, panel.ui.alert)
    BY <1>5, Zenon DEF TransmitSar
  <2> HIDE DEF p
  <2> QED BY <2>1, <2>2, TransmittedStep
<1>6. CASE SealEnds
  <2>1. PICK c \in Suspended("seal") :
            panel' = [End(panel, c) EXCEPT
                         !.ui.signature = c.arg, !.ui.signed = TRUE, !.ui.step = "SIGNED",
                         !.ui.prepared = {Preparation(c, panel.ui.alert)}]
    BY <1>6, Zenon DEF SealEnds
  <2>2. Step(panel, End(panel, c))
    BY <1>0, SuspendedIs, EndStep
  <2>3. Repaged(End(panel, c), panel')
    BY <2>1, <2>2, StepSound DEF Repaged, Fields
  <2> QED BY <2>2, <2>3, RepageStep
<1>7. CASE PrintLine("transmit", TransmitLines - 1, "filing")
  BY <1>0, <1>7, PrintStep, FilingOps
<1>8. CASE TransmitEnds
  <2>1. PICK c \in Suspended("transmit") :
            panel' = [End(Say(panel, c, "filing"), c) EXCEPT
                         !.ui.reference = c.run, !.ui.step = "FILED"]
    BY <1>8, Zenon DEF TransmitEnds
  <2>2. c \in panel.calls /\ c.op = "transmit" /\ Prints(c, "filing")
    BY <1>0, OwnPrints, FilingOps
  <2>3. Step(panel, End(Say(panel, c, "filing"), c))
    BY <1>0, <2>2, SayEndStep
  <2>4. Repaged(End(Say(panel, c, "filing"), c), panel')
    BY <2>1, <2>3, StepSound DEF Repaged, Fields
  <2> QED BY <2>3, <2>4, RepageStep
<1> QED BY <1>1, <1>2, <1>3, <1>4, <1>5, <1>6, <1>7, <1>8 DEF RegTechUser, RegTechResume

\* The panels of FilingPanels take steps of handlers only.
LEMMA FilingStep ==
    ASSUME Inv(panel), FilingUser \/ FilingTimer \/ FilingResume PROVE Step(panel, panel')
BY PaymentsStep, RoutingStep, ScreeningStep, SuitabilityStep, StressStep, RegTechStep
   DEF FilingUser, FilingTimer, FilingResume

-----------------------------------------------------------------------------
(* TaxPanels *)

\* Which handlers of TaxPanels have a spinner to themselves, and which have none.
LEMMA TaxOps ==
    /\ Own("fileGst", "filing") /\ Own("assess", "filing") /\ {"fileGst", "assess"} \subseteq Solo
    /\ Plain("parse") /\ Plain("refresh") /\ Plain("file") /\ Plain("pay") /\ Plain("wallet")
    /\ {"parsing", "loading"} \subseteq NoSpinner
BY DEF Own, Plain, Solo, Hiding, Keeping, Printing, SpinnerOf, NoSpinner, Shared

\* The steps of the GST tab are steps of handlers.
LEMMA GstStep ==
    ASSUME Inv(panel), panel.name = "gst", GstUser \/ GstResume
    PROVE  Step(panel, panel')
<1>0. Sound(panel) /\ Step(panel, panel) /\ DOMAIN panel = Fields
      /\ DOMAIN panel.last = {"parse", "fileGst"}
  BY InvSound DEF Inv, Shape
<1>1. CASE UploadNothing \/ RejectGstin
  BY <1>0, <1>1, SetStep, Zenon DEF UploadNothing, RejectGstin
<1>2. CASE UploadPdf
  <2>1. PICK fs : panel' = Set(Hide(Begin(panel, "parse", "parsing", fs), {"fileGst"}),
                               "error", FALSE)
    BY <1>2, Zenon DEF UploadPdf
  <2>2. Step(panel, Begin(panel, "parse", "parsing", fs))
    BY <1>0, StartStep, TaxOps
  <2> QED BY <2>1, <2>2, HideStep, SetStep, Zenon
<1>3. CASE ParseEnds
  <2>1. PICK c \in Suspended("parse") :
            panel' = [End(panel, c) EXCEPT
                         !.ui.items = @ \cup {[file |-> f, upload |-> c.run] : f \in c.arg}]
    BY <1>3, Zenon DEF ParseEnds
  <2>2. Step(panel, End(panel, c))
    BY <1>0, SuspendedIs, EndStep
  <2>3. Repaged(End(panel, c), panel')
    BY <2>1, <2>2, StepSound DEF Repaged, Fields
  <2> QED BY <2>2, <2>3, RepageStep
<1>4. CASE RemoveItem
  <2>1. Repaged(panel, panel')
    BY <1>0, <1>4 DEF RemoveItem, Repaged, Fields
  <2> QED BY <1>0, <2>1, RepageStep
<1>5. CASE EditGstin
  BY <1>0, <1>5, EditStep DEF EditGstin
<1>6. CASE FileGst
  BY <1>0, <1>6, OwnRequest, SetStep, TaxOps, Zenon DEF FileGst, CanFileGst, Idle
<1>7. CASE FileGstFails
  BY <1>0, <1>7, SuspendedIs, AwaitStep DEF FileGstFails
<1>8. CASE FileGstEnds
  BY <1>0, <1>8, SuspendedIs, AnswerStep, TaxOps DEF FileGstEnds
<1> QED BY <1>1, <1>2, <1>3, <1>4, <1>5, <1>6, <1>7, <1>8 DEF GstUser, GstResume

\* The steps of the direct tax forms are steps of handlers.
LEMMA ReturnsPanelStep ==
    ASSUME Inv(panel), panel.name = "returns", ReturnsUser \/ ReturnAssessed
    PROVE  Step(panel, panel')
<1>0. Sound(panel) /\ Step(panel, panel) /\ DOMAIN panel.last = {"assess"}
  BY InvSound DEF Inv, Shape
<1>1. CASE EditReturn
  BY <1>0, <1>1, EditStep DEF EditReturn
<1>2. CASE FileReturn
  BY <1>0, <1>2, OwnRequest, TaxOps DEF FileReturn, Idle
<1>3. CASE ReturnAssessed
  BY <1>0, <1>3, SuspendedIs, AnswerStep, EndStep, TaxOps DEF ReturnAssessed
<1> QED BY <1>1, <1>2, <1>3 DEF ReturnsUser

\* The steps of the tax ledger are steps of handlers.
LEMMA LedgerStep ==
    ASSUME Inv(panel), panel.name = "ledger", LedgerUser \/ LedgerResume
    PROVE  Step(panel, panel')
<1>0. Sound(panel) /\ Step(panel, panel) /\ DOMAIN panel = Fields
      /\ DOMAIN panel.last = {"refresh", "file", "pay", "wallet"}
  BY InvSound DEF Inv, Shape
<1>1. CASE Refresh \/ FileDirect \/ ConnectWallet \/ PayLiability
  <2>1. CASE Refresh
    BY <1>0, <2>1, StartStep, TaxOps DEF Refresh
  <2>2. CASE FileDirect
    BY <1>0, <2>2, StartStep, SetStep, TaxOps DEF FileDirect, Idle
  <2>3. CASE ConnectWallet
    BY <1>0, <2>3, StartStep, TaxOps DEF ConnectWallet, Idle
  <2>4. CASE PayLiability
    BY <1>0, <2>4, StartStep, SetStep, TaxOps DEF PayLiability, Idle
  <2> QED BY <1>1, <2>1, <2>2, <2>3, <2>4
<1>2. CASE OpenPayment \/ ClosePayment
  BY <1>0, <1>2, SetStep DEF OpenPayment, ClosePayment
<1>3. CASE ChooseMethod
  BY <1>0, <1>3, EditStep DEF ChooseMethod
<1>4. CASE ServeRefresh
  <2>1. PICK c \in Suspended("refresh"), list \in Answers(panel.ui) : panel' = AwaitWith(panel, c, list)
    BY <1>4, Zenon DEF ServeRefresh
  <2> QED BY <1>0, <2>1, SuspendedIs, AwaitStep
<1>5. CASE RefreshEnds \/ FilingFails \/ WalletConnected \/ PaymentFails
  <2>1. CASE RefreshEnds
    BY <1>0, <2>1, EndSetStep DEF RefreshEnds
  <2>2. CASE FilingFails
    BY <1>0, <2>2, EndSetStep, Zenon DEF FilingFails
  <2>3. CASE WalletConnected
    BY <1>0, <2>3, EndSetStep, Zenon DEF WalletConnected
  <2>4. CASE PaymentFails
    BY <1>0, <2>4, EndSetStep, Zenon DEF PaymentFails
  <2> QED BY <1>5, <2>1, <2>2, <2>3, <2>4
<1>6. CASE ServeFiling
  <2>1. PICK c \in Suspended("file"), w \in Processes, due \in BOOLEAN,
             f \in NewFilings \ Registered(panel.ui) :
            panel' = AwaitWith([panel EXCEPT !.ui.books[w] = Register(@, f, due)], c,
                               [filing |-> f, due |-> due])
    BY <1>6, Zenon DEF ServeFiling
  <2> DEFINE p == [panel EXCEPT !.ui.books[w] = Register(@, f, due)]
  <2>2. Repaged(panel, p)
    BY <1>0 DEF Repaged, Fields
  <2>3. panel' = AwaitWith(p, c, [filing |-> f, due |-> due])
    BY <2>1
  <2> HIDE DEF p
  <2>4. Step(panel, p) /\ c \in p.calls
    BY <1>0, <2>2, RepageStep, SuspendedIs DEF Repaged
  <2> QED BY <2>3, <2>4, AwaitStep
<1>7. CASE FilingAnswered
  <2>1. PICK c \in Suspended("file"), list \in Answers(panel.ui) \cup {FirstLedger} :
            panel' = [End(panel, c) EXCEPT
                         !.ui.list = list,
                         !.ui.selected = IF c.arg.due THEN c.arg.filing ELSE @]
    BY <1>7, Zenon DEF FilingAnswered
  <2>2. Step(panel, End(panel, c))
    BY <1>0, SuspendedIs, EndStep
  <2>3. Repaged(End(panel, c), panel')
    BY <2>1, <2>2, StepSound DEF Repaged, Fields
  <2> QED BY <2>2, <2>3, RepageStep
<1>9. CASE PaymentSettled
  <2>1. PICK c \in Suspended("pay"), list \in Answers(panel.ui) \cup {FirstLedger} :
            panel' = [End(panel, c) EXCEPT !.ui.list = list, !.ui.selected = None,
                                           !.ui.settled = @ \cup {c.arg}]
    BY <1>9, Zenon DEF PaymentSettled
  <2>2. Step(panel, End(panel, c))
    BY <1>0, SuspendedIs, EndStep
  <2>3. Repaged(End(panel, c), panel')
    BY <2>1, <2>2, StepSound DEF Repaged, Fields
  <2> QED BY <2>2, <2>3, RepageStep
<1>8. CASE ServePayment
  <2>1. PICK c \in Suspended("pay"), w \in Processes :
            panel' = Await([panel EXCEPT !.ui.books[w] = Charge(@, c.arg)], c)
    BY <1>8, Zenon DEF ServePayment
  <2> DEFINE p == [panel EXCEPT !.ui.books[w] = Charge(@, c.arg)]
  <2>2. Repaged(panel, p)
    BY <1>0 DEF Repaged, Fields
  <2> HIDE DEF p
  <2>4. Step(panel, p) /\ c \in p.calls
    BY <1>0, <2>2, RepageStep, SuspendedIs DEF Repaged
  <2> QED BY <2>1, <2>4, AwaitStep, Zenon DEF p
<1> QED BY <1>1, <1>2, <1>3, <1>4, <1>5, <1>6, <1>7, <1>8, <1>9 DEF LedgerUser, LedgerResume

\* The panels of TaxPanels take steps of handlers only.
LEMMA TaxStep == ASSUME Inv(panel), TaxUser \/ TaxResume PROVE Step(panel, panel')
BY GstStep, ReturnsPanelStep, LedgerStep DEF TaxUser, TaxResume

-----------------------------------------------------------------------------
(* OperationsPanels *)

\* Which handlers of OperationsPanels have a spinner to themselves, and which have none.
LEMMA OperationsOps ==
    /\ Own("infer", "infer") /\ Own("swap", "swap") /\ Own("valuate", "valuate")
    /\ Own("route", "route") /\ Own("probe", "probe") /\ Own("boot", "boot")
    /\ {"infer", "swap", "valuate", "route", "probe"} \subseteq Solo
    /\ "probe" \notin Hiding
    /\ Plain("poll") /\ Plain("remediate") /\ Plain("clear")
    /\ Plain("connect") /\ Plain("status") /\ Plain("stream")
    /\ {None, "connecting"} \subseteq NoSpinner
BY DEF Own, Plain, Solo, Hiding, Keeping, Printing, SpinnerOf, NoSpinner, Shared

\* The steps of the healer log are steps of handlers.
LEMMA HealerStep ==
    ASSUME Inv(panel), panel.name = "healer", HealerUser \/ PollLogs \/ HealerResume
    PROVE  Step(panel, panel')
<1>0. Sound(panel) /\ Step(panel, panel) /\ DOMAIN panel.last = {"poll", "remediate", "clear"}
  BY InvSound DEF Inv, Shape
<1>1. CASE PollLogs \/ ClearLogs
  BY <1>0, <1>1, StartStep, OperationsOps DEF PollLogs, FetchLogs, ClearLogs
<1>2. CASE TogglePolling
  <2>1. PICK v : panel' = Begin(Set(panel, "polling", v), "poll", None, None)
    BY <1>2 DEF TogglePolling, FetchLogs
  <2> QED BY <1>0, <2>1, SetStep, StartStep, OperationsOps
<1>3. CASE Remediate
  BY <1>0, <1>3, SetStep, StartStep, OperationsOps DEF Remediate, Idle
<1>4. CASE ServeLogs \/ ServeRemediation \/ ServeClear
  <2>1. CASE ServeLogs
    BY <1>0, <2>1, SetAwaitStep DEF ServeLogs
  <2>2. CASE ServeRemediation
    BY <1>0, <2>2, SetAwaitStep DEF ServeRemediation
  <2>3. CASE ServeClear
    BY <1>0, <2>3, SetAwaitStep DEF ServeClear
  <2> QED BY <1>4, <2>1, <2>2, <2>3
<1>5. CASE PollEnds
  BY <1>0, <1>5, EndSetStep DEF PollEnds
<1>6. CASE ClearEnds
  BY <1>0, <1>6, EndSetStep DEF ClearEnds
<1>7. CASE RemediateEnds
  <2>1. PICK c \in Suspended("remediate") : panel' = Begin(End(panel, c), "poll", None, None)
    BY <1>7 DEF RemediateEnds, FetchLogs
  <2>2. Step(panel, End(panel, c))
    BY <1>0, EndSetStep
  <2> QED BY <1>0, <2>1, <2>2, StartStep, OperationsOps
<1> QED BY <1>1, <1>2, <1>3, <1>4, <1>5, <1>6, <1>7 DEF HealerUser, HealerResume

\* The steps of the enclave page are steps of handlers.
LEMMA EnclaveStep ==
    ASSUME Inv(panel), panel.name = "enclave",
           SelectRegion \/ RunSovereignInference \/ EnclaveResume
    PROVE  Step(panel, panel')
<1>0. Sound(panel) /\ Step(panel, panel) /\ DOMAIN panel = Fields /\ DOMAIN panel.last = {"infer"}
  BY InvSound DEF Inv, Shape
<1>1. CASE SelectRegion
  BY <1>0, <1>1, EditStep DEF SelectRegion
<1>2. CASE RunSovereignInference
  BY <1>0, <1>2, OwnRequest, SetStep, OperationsOps DEF RunSovereignInference, Idle
<1>3. CASE ModelArrives
  BY <1>0, <1>3, SetAwaitStep DEF ModelArrives
<1>4. CASE ScoreLeaves
  <2>1. PICK c \in Suspended("infer") :
            panel' = Set(Await(Show(panel, c, "live"), c), "packet", "score")
    BY <1>4 DEF ScoreLeaves
  <2>2. Step(panel, Show(panel, c, "live")) /\ c \in Show(panel, c, "live").calls
    BY <1>0, SuspendedIs, ShowStep, ShowCalls, OperationsOps
  <2> QED BY <2>1, <2>2, AwaitStep, SetStep
<1>5. CASE InferenceEnds
  BY <1>0, <1>5, EndSetStep DEF InferenceEnds
<1> QED BY <1>1, <1>2, <1>3, <1>4, <1>5 DEF EnclaveResume

\* The steps of the liquidity swap are steps of handlers.
LEMMA SwapStep ==
    ASSUME Inv(panel), panel.name = "swap", EditOffer \/ ExecuteLiquiditySwap \/ SwapAnswer
    PROVE  Step(panel, panel')
<1>0. Sound(panel) /\ DOMAIN panel.last = {"swap"}
  BY InvSound DEF Inv, Shape
<1>1. CASE EditOffer
  BY <1>0, <1>1, EditStep DEF EditOffer
<1>2. CASE ExecuteLiquiditySwap
  BY <1>0, <1>2, RequestSteps, OperationsOps DEF ExecuteLiquiditySwap
<1>3. CASE SwapAnswer
  BY <1>0, <1>3, AnswerSteps, OperationsOps DEF SwapAnswer
<1> QED BY <1>1, <1>2, <1>3

\* The steps of the boot screen are steps of handlers.
LEMMA BootStep == ASSUME Inv(panel), BootResume PROVE Step(panel, panel')
<1>0. Sound(panel)
  BY InvSound
<1>1. CASE PrintLine("boot", BootLines, "boot")
  BY <1>0, <1>1, PrintStep, OperationsOps
<1>2. CASE BootEnds
  BY <1>0, <1>2, EndSetStep, Zenon DEF BootEnds
<1> QED BY <1>1, <1>2 DEF BootResume

\* The steps of the merger scanner are steps of handlers.
LEMMA MergerStep ==
    ASSUME Inv(panel), panel.name = "merger", MergerUser \/ MAScanAnswer
    PROVE  Step(panel, panel')
<1>0. Sound(panel) /\ Step(panel, panel) /\ DOMAIN panel.last = {"valuate"}
  BY InvSound DEF Inv, Shape
<1>1. CASE EditTarget \/ PreviewLoi
  BY <1>0, <1>1, EditStep DEF EditTarget, PreviewLoi
<1>2. CASE MAScan
  BY <1>0, <1>2, RequestSteps, OperationsOps DEF MAScan
<1>3. CASE CloseLoi \/ DownloadLoi
  BY <1>0, <1>3, SetStep, Zenon DEF CloseLoi, DownloadLoi
<1>4. CASE MAScanAnswer
  BY <1>0, <1>4, AnswerSteps, OperationsOps DEF MAScanAnswer
<1> QED BY <1>1, <1>2, <1>3, <1>4 DEF MergerUser

\* The steps of the FX router are steps of handlers.
LEMMA FxStep ==
    ASSUME Inv(panel), panel.name = "fx", EditPair \/ FXRoute \/ FXRouteAnswer
    PROVE  Step(panel, panel')
<1>0. Sound(panel) /\ DOMAIN panel.last = {"route"}
  BY InvSound DEF Inv, Shape
<1>1. CASE EditPair
  BY <1>0, <1>1, EditStep DEF EditPair
<1>2. CASE FXRoute
  BY <1>0, <1>2, RequestSteps, OperationsOps DEF FXRoute
<1>3. CASE FXRouteAnswer
  BY <1>0, <1>3, AnswerSteps, OperationsOps DEF FXRouteAnswer
<1> QED BY <1>1, <1>2, <1>3

\* The steps of the core banking link are steps of handlers.
LEMMA LinkStep ==
    ASSUME Inv(panel), panel.name = "link", LinkUser \/ LinkTimer \/ LinkResume
    PROVE  Step(panel, panel')
<1>0. Sound(panel) /\ Step(panel, panel) /\ DOMAIN panel = Fields
      /\ DOMAIN panel.last = {"connect", "status", "stream"}
  BY InvSound DEF Inv, Shape
<1>1. CASE PollStatus \/ PollStream \/ ToggleStream
  BY <1>0, <1>1, StartStep, OperationsOps DEF PollStatus, PollStream, ToggleStream
<1>2. CASE ChooseLinkTab
  BY <1>0, <1>2, EditStep DEF ChooseLinkTab
<1>3. CASE RowAction
  BY <1>0, <1>3, SetStep DEF RowAction
<1>4. CASE ServeStatus
  BY <1>0, <1>4, SetAwaitStep DEF ServeStatus
<1>5. CASE ServeConnect
  BY <1>0, <1>5, SetAwaitStep DEF ServeConnect
<1>6. CASE StatusEnds
  <2>1. PICK c \in Suspended("status") :
            \/ panel' = End(panel, c)
            \/ panel' = [End(panel, c) EXCEPT
                            !.ui.shown = TRUE, !.ui.streaming = TRUE, !.ui.tab = "live"]
            \/ panel' = Set(End(panel, c), "shown", c.arg.up)
    BY <1>6, Zenon DEF StatusEnds
  <2>2. Step(panel, End(panel, c))
    BY <1>0, EndSetStep
  <2>3. panel' = End(panel, c) \/ Repaged(End(panel, c), panel')
    BY <2>1, <2>2, StepSound, Zenon DEF Set, Repaged, Fields
  <2> QED BY <2>2, <2>3, RepageStep
<1>7. CASE ConnectEnds
  <2>1. PICK c \in Suspended("connect") :
            \/ panel' = End(panel, c)
            \/ panel' = [End(panel, c) EXCEPT
                            !.ui.streaming = FALSE, !.ui.rows = <<>>, !.ui.shown = FALSE]
            \/ panel' = [End(panel, c) EXCEPT !.ui.streaming = TRUE, !.ui.tab = "live"]
    BY <1>7, Zenon DEF ConnectEnds
  <2>2. Step(panel, End(panel, c))
    BY <1>0, EndSetStep
  <2>3. panel' = End(panel, c) \/ Repaged(End(panel, c), panel')
    BY <2>1, <2>2, StepSound, ZenonT(60) DEF Repaged, Fields
  <2> QED BY <2>2, <2>3, RepageStep
<1>8. CASE StreamEnds
  <2>0. PICK c \in Suspended("stream") : \E v : panel' = Set(End(panel, c), "rows", v)
    BY <1>8, Zenon DEF StreamEnds
  <2>1. PICK v : panel' = Set(End(panel, c), "rows", v)
    BY <2>0
  <2> QED BY <1>0, <2>1, EndSetStep
<1> QED BY <1>1, <1>2, <1>3, <1>4, <1>5, <1>6, <1>7, <1>8 DEF LinkUser, LinkTimer, LinkResume

\* The steps of the engine probe are steps of handlers.
LEMMA ProbeStep ==
    ASSUME Inv(panel), panel.name = "probe", EditEngine \/ TestConnection \/ ProbeResume
    PROVE  Step(panel, panel')
<1>0. Sound(panel) /\ Step(panel, panel) /\ DOMAIN panel = Fields /\ DOMAIN panel.last = {"probe"}
  BY InvSound DEF Inv, Shape
<1>1. CASE EditEngine
  BY <1>0, <1>1, EditStep DEF EditEngine
<1>2. CASE TestConnection
  BY <1>0, <1>2, OpenStep, OperationsOps DEF TestConnection, Idle, Own
<1>3. CASE PrintLine("probe", ProbeLines, "probe")
  BY <1>0, <1>3, PrintStep, OperationsOps
<1>4. CASE ProbeAccepted
  BY <1>0, <1>4, SetAwaitStep DEF ProbeAccepted
<1>5. CASE ProbeEnds
  <2>1. PICK c \in Suspended("probe") : panel' = End(Say(Show(panel, c, "live"), c, "probe"), c)
    BY <1>5 DEF ProbeEnds
  <2>2. c \in panel.calls /\ c.op = "probe" /\ Prints(c, "probe")
    BY <1>0, OwnPrints, OperationsOps
  <2>3. Step(panel, Show(panel, c, "live")) /\ Show(panel, c, "live").calls = panel.calls
    BY <1>0, <2>2, ShowStep, ShowCalls, OperationsOps
  <2> QED BY <2>1, <2>2, <2>3, SayEndStep
<1>6. CASE ProbeFails
  BY <1>0, <1>6, OwnPrints, SayEndStep, OperationsOps DEF ProbeFails
<1> QED BY <1>1, <1>2, <1>3, <1>4, <1>5, <1>6 DEF ProbeResume

\* The panels of OperationsPanels take steps of handlers only.
LEMMA OperationsStep ==
    ASSUME Inv(panel), OperationsUser \/ OperationsTimer \/ OperationsResume
    PROVE  Step(panel, panel')
BY HealerStep, EnclaveStep, SwapStep, BootStep, MergerStep, FxStep, LinkStep, ProbeStep
   DEF OperationsUser, OperationsTimer, OperationsResume

-----------------------------------------------------------------------------
(* PortalPanels *)

\* Which handlers of PortalPanels have a spinner to themselves, and which have none.
LEMMA PortalOps ==
    /\ Own("play", "play") /\ Own("audit", "audit") /\ Own("sweep", "sweep")
    /\ Own("generate", "generate") /\ Own("solvency", "solvency") /\ Own("did", "did")
    /\ Own("scan2", "scan2") /\ Own("recon", "recon")
    /\ {"play", "audit", "sweep", "generate", "solvency", "did", "scan2", "recon"} \subseteq Solo
    /\ {"audit", "sweep", "generate", "did", "recon"} \cap Hiding = {}
    /\ {"forecast", "quote", "quarantine"} \subseteq Overlapping
    /\ \A op \in {"sync", "create", "revoke", "invoice", "dispatch", "forecast", "inbox", "decide",
                  "deck", "vaults", "liquidate", "drop", "quote", "quarantine", "event"} : Plain(op)
    /\ {None, "syncing", "forecast", "vaults", "quote", "quarantine"} \subseteq NoSpinner
BY DEF Own, Plain, Solo, Hiding, Keeping, Printing, SpinnerOf, NoSpinner, Shared, Overlapping

\* A handler that is over, and what it leaves on the page.
LEMMA EndPaged ==
    ASSUME Sound(panel), NEW op, op \notin {"stress", "consent"}, NEW c \in Suspended(op), NEW q,
           q = End(panel, c) \/ Repaged(End(panel, c), q)
    PROVE  Step(panel, q)
<1>1. Step(panel, End(panel, c))
  BY EndSetStep
<1> QED BY <1>1, RepageStep

\* The steps of the key manager are steps of handlers.
LEMMA KeysStep ==
    ASSUME Inv(panel), panel.name = "keys", KeysUser \/ KeysResume
    PROVE  Step(panel, panel')
<1>0. Sound(panel) /\ Step(panel, panel) /\ DOMAIN panel = Fields
      /\ DOMAIN panel.last = {"sync", "create", "revoke", "invoice", "dispatch"}
  BY InvSound DEF Inv, Shape
<1>1. CASE CreateKey \/ RevokeKey \/ InvoiceCycle \/ TestWebhook
  BY <1>0, <1>1, StartStep, PortalOps
     DEF CreateKey, RevokeKey, InvoiceCycle, TestWebhook, RequestKeeping, Idle
<1>2. CASE SavedKey
  <2>1. Repaged(panel, panel')
    BY <1>0, <1>2 DEF SavedKey, Repaged, Fields
  <2> QED BY <1>0, <2>1, RepageStep
<1>3. CASE EditWebhookUrl
  BY <1>0, <1>3, EditStep DEF EditWebhookUrl
<1>4. CASE ServeMetrics
  BY <1>0, <1>4, SetAwaitStep DEF ServeMetrics
<1>5. CASE ServeHistory
  BY <1>0, <1>5, SetAwaitStep DEF ServeHistory
<1>6. CASE ServeDispatch
  BY <1>0, <1>6, SetAwaitStep DEF ServeDispatch
<1>7. CASE SyncEnds
  BY <1>0, <1>7, EndSetStep DEF SyncEnds
<1>8. CASE InvoiceEnds
  BY <1>0, <1>8, EndSetStep DEF InvoiceEnds
<1>9. CASE ServeCreate
  <2>0. PICK c \in Suspended("create") : \E k :
            panel' = AwaitWith([panel EXCEPT !.ui.server = @ \cup {k}], c, k)
    BY <1>9, Zenon DEF ServeCreate
  <2>1. PICK k :
            panel' = AwaitWith([panel EXCEPT !.ui.server = @ \cup {k}], c, k)
    BY <2>0
  <2>2. Repaged(panel, [panel EXCEPT !.ui.server = @ \cup {k}])
    BY <1>0 DEF Repaged, Fields
  <2> QED BY <1>0, <2>1, <2>2, PagedAwait
<1>10. CASE CreateEnds
  <2>1. PICK c \in Suspended("create") :
            \/ panel' = End(panel, c)
            \/ panel' = Sync([End(panel, c) EXCEPT !.ui.generated = c.arg, !.ui.modal = TRUE])
    BY <1>10, Zenon DEF CreateEnds
  <2> DEFINE p == [End(panel, c) EXCEPT !.ui.generated = c.arg, !.ui.modal = TRUE]
  <2>2. Step(panel, End(panel, c))
    BY <1>0, EndSetStep
  <2>3. Repaged(End(panel, c), p)
    BY <2>2, StepSound DEF Repaged, Fields
  <2>4. Step(panel, p)
    BY <1>0, <2>3, EndPaged
  <2> QED BY <1>0, <2>1, <2>2, <2>4, StartStep, PortalOps DEF Sync
<1>11. CASE ServeRevoke
  <2>1. PICK c \in Suspended("revoke") :
            \/ panel' = Await([panel EXCEPT !.ui.server = @ \ {c.arg}], c)
            \/ panel' = End(panel, c)
    BY <1>11, Zenon DEF ServeRevoke
  <2>2. Repaged(panel, [panel EXCEPT !.ui.server = @ \ {c.arg}])
    BY <1>0 DEF Repaged, Fields
  <2> QED BY <1>0, <2>1, <2>2, PagedAwait, EndPaged
<1>12. CASE RevokeEnds \/ DispatchEnds
  <2>1. PICK op \in {"revoke", "dispatch"} : \E c \in Suspended(op) :
            panel' = End(panel, c) \/ panel' = Sync(End(panel, c))
    BY <1>12 DEF RevokeEnds, DispatchEnds
  <2>2. PICK c \in Suspended(op) : panel' = End(panel, c) \/ panel' = Sync(End(panel, c))
    BY <2>1
  <2>3. Step(panel, End(panel, c))
    BY <1>0, EndSetStep
  <2> QED BY <1>0, <2>2, <2>3, StartStep, PortalOps DEF Sync
<1> QED BY <1>1, <1>2, <1>3, <1>4, <1>5, <1>6, <1>7, <1>8, <1>9, <1>10, <1>11, <1>12
        DEF KeysUser, KeysResume

\* The steps of the API playground are steps of handlers.
LEMMA PlaygroundStep ==
    ASSUME Inv(panel), panel.name = "playground", EditRequest \/ RunPlayground \/ PlaygroundAnswer
    PROVE  Step(panel, panel')
<1>0. Sound(panel) /\ DOMAIN panel.last = {"play"}
  BY InvSound DEF Inv, Shape
<1>1. CASE EditRequest
  BY <1>0, <1>1, EditStep DEF EditRequest
<1>2. CASE RunPlayground
  BY <1>0, <1>2, RequestSteps, PortalOps DEF RunPlayground
<1>3. CASE PlaygroundAnswer
  BY <1>0, <1>3, AnswerSteps, PortalOps DEF PlaygroundAnswer
<1> QED BY <1>1, <1>2, <1>3

\* The two fetches of a slider.
LEMMA ReloadStep ==
    ASSUME NEW b, NEW p, Step(b, p), {"forecast", "inbox"} \subseteq DOMAIN b.last
    PROVE  Step(b, Reload(p))
<1>1. Step(b, Begin(p, "forecast", "forecast", p.ui.scenario))
  BY StartStep, PortalOps
<1> QED BY <1>1, StartStep, PortalOps DEF Reload

\* The steps of the strategy room are steps of handlers.
LEMMA StrategyStep ==
    ASSUME Inv(panel), panel.name = "strategy", StrategyUser \/ StrategyResume
    PROVE  Step(panel, panel')
<1>0. Sound(panel) /\ Step(panel, panel) /\ DOMAIN panel = Fields
      /\ DOMAIN panel.last = {"forecast", "inbox", "decide"}
  BY InvSound DEF Inv, Shape
<1>1. CASE MoveStrategySlider
  BY <1>0, <1>1, SetStep, ReloadStep DEF MoveStrategySlider
<1>2. CASE RunForecast \/ Decide
  BY <1>0, <1>2, StartStep, PortalOps DEF RunForecast, Decide
<1>3. CASE SelectItem
  <2>1. Repaged(panel, panel')
    BY <1>0, <1>3 DEF SelectItem, Repaged, Fields
  <2> QED BY <1>0, <2>1, RepageStep
<1>4. CASE EditEmail
  BY <1>0, <1>4, EditStep DEF EditEmail
<1>5. CASE ServeForecast
  <2>1. PICK c \in Suspended("forecast") :
            \/ panel' = Await(panel, c)
            \/ panel' = Await([panel EXCEPT !.ui = Requeue(@)], c)
    BY <1>5 DEF ServeForecast
  <2>2. Repaged(panel, [panel EXCEPT !.ui = Requeue(@)])
    BY <1>0 DEF Repaged, Fields
  <2> QED BY <1>0, <2>1, <2>2, PagedAwait, SetAwaitStep
<1>6. CASE ForecastEnds
  <2>1. PICK c \in Suspended("forecast") :
            panel' \in {End(panel, c), End(Show(panel, c, "live"), c)}
    BY <1>6 DEF ForecastEnds
  <2>2. c \in panel.calls /\ c.op = "forecast"
    BY SuspendedIs
  <2> QED BY <1>0, <2>1, <2>2, EndSetStep, AnswerStep, PortalOps
<1>7. CASE ServeInbox
  BY <1>0, <1>7, SetAwaitStep DEF ServeInbox
<1>8. CASE InboxEnds
  <2>1. PICK c \in Suspended("inbox") :
            \/ panel' = End(panel, c)
            \/ panel' = [End(panel, c) EXCEPT
                           !.ui.inbox = c.arg,
                           !.ui.selected = IF c.arg = {} THEN @ ELSE FirstOf(c.arg),
                           !.ui.edited = @ /\ c.arg = {}]
    BY <1>8, Zenon DEF InboxEnds
  <2>2. Step(panel, End(panel, c))
    BY <1>0, EndSetStep
  <2>3. panel' = End(panel, c) \/ Repaged(End(panel, c), panel')
    BY <2>1, <2>2, StepSound, ZenonT(60) DEF Repaged, Fields
  <2> QED BY <2>2, <2>3, RepageStep
<1>9. CASE ServeDecision
  <2>1. PICK c \in Suspended("decide"), i \in panel.ui.server :
            panel' = Await([panel EXCEPT
                     !.ui.server = (@ \ {i}) \cup {Item(i.id, c.arg.decision)}], c)
    BY <1>9, Zenon DEF ServeDecision
  <2>2. Repaged(panel, [panel EXCEPT !.ui.server = (@ \ {i}) \cup {Item(i.id, c.arg.decision)}])
    BY <1>0 DEF Repaged, Fields
  <2> QED BY <1>0, <2>1, <2>2, PagedAwait
<1>10. CASE DecisionEnds
  <2>1. PICK c \in Suspended("decide") :
            panel' = End(panel, c) \/ panel' = Begin(End(panel, c), "inbox", None, None)
    BY <1>10 DEF DecisionEnds
  <2>2. Step(panel, End(panel, c))
    BY <1>0, EndSetStep
  <2> QED BY <1>0, <2>1, <2>2, StartStep, PortalOps
<1> QED BY <1>1, <1>2, <1>3, <1>4, <1>5, <1>6, <1>7, <1>8, <1>9, <1>10
        DEF StrategyUser, StrategyResume

\* The steps of the contract audit are steps of handlers.
LEMMA ContractStep ==
    ASSUME Inv(panel), panel.name = "contract", EditContract \/ RunContractAudit \/ ContractAnswer
    PROVE  Step(panel, panel')
<1>0. Sound(panel) /\ DOMAIN panel.last = {"audit"}
  BY InvSound DEF Inv, Shape
<1>1. CASE EditContract
  BY <1>0, <1>1, EditStep DEF EditContract
<1>2. CASE RunContractAudit
  BY <1>0, <1>2, RequestSteps, PortalOps DEF RunContractAudit
<1>3. CASE ContractAnswer
  BY <1>0, <1>3, AnswerSteps, PortalOps DEF ContractAnswer
<1> QED BY <1>1, <1>2, <1>3

\* The steps of the treasury sweep are steps of handlers.
LEMMA SweepStep ==
    ASSUME Inv(panel), panel.name = "sweep",
           EditTreasuryForm \/ HandleSweep \/ DownloadDeck \/ SweepAnswer \/ DeckEnds
    PROVE  Step(panel, panel')
<1>0. Sound(panel) /\ Step(panel, panel) /\ DOMAIN panel.last = {"sweep", "deck"}
  BY InvSound DEF Inv, Shape
<1>1. CASE EditTreasuryForm
  BY <1>0, <1>1, EditStep DEF EditTreasuryForm
<1>2. CASE HandleSweep
  BY <1>0, <1>2, RequestSteps, PortalOps DEF HandleSweep
<1>3. CASE DownloadDeck
  BY <1>0, <1>3, StartStep, PortalOps DEF DownloadDeck, RequestKeeping, Idle
<1>4. CASE SweepAnswer
  BY <1>0, <1>4, AnswerSteps, PortalOps DEF SweepAnswer
<1>5. CASE DeckEnds
  BY <1>0, <1>5, EndSetStep DEF DeckEnds
<1> QED BY <1>1, <1>2, <1>3, <1>4, <1>5

\* The steps of the solvency proofs are steps of handlers.
LEMMA SolvencyStep ==
    ASSUME Inv(panel), panel.name = "solvency", SolvencyUser \/ SolvencyResume
    PROVE  Step(panel, panel')
<1>0. Sound(panel) /\ Step(panel, panel) /\ DOMAIN panel.last = {"generate", "solvency"}
  BY InvSound DEF Inv, Shape
<1>1. CASE GenerateProof
  BY <1>0, <1>1, RequestSteps, PortalOps DEF GenerateProof
<1>2. CASE EditProof
  BY <1>0, <1>2, EditStep DEF EditProof
<1>3. CASE RunVerification
  <2>1. Step(panel, Hide(Begin(panel, "solvency", "solvency", panel.ui.pasted), {"solvency"}))
    BY <1>0, <1>3, OwnRequest, PortalOps DEF RunVerification, Idle
  <2> QED BY <1>3, <2>1, WipeStep DEF RunVerification
<1>4. CASE GenerateEnds
  <2>1. PICK c \in Suspended("generate") :
            \/ panel' = End(panel, c)
            \/ panel' = Set(End(Show(panel, c, "live"), c), "pasted", "x1")
    BY <1>4 DEF GenerateEnds
  <2>2. Step(panel, End(panel, c))
    BY <1>0, EndSetStep
  <2>3. Step(panel, End(Show(panel, c, "live"), c))
    BY <1>0, SuspendedIs, AnswerStep, PortalOps
  <2> QED BY <2>1, <2>2, <2>3, SetStep
<1>5. CASE PrintLine("solvency", SolvencyLines, "solvency")
  BY <1>0, <1>5, PrintStep, PortalOps
<1>6. CASE VerificationEnds
  <2>1. PICK c \in Suspended("solvency") :
            panel' \in {End(panel, c), End(Show(panel, c, "live"), c)}
    BY <1>6 DEF VerificationEnds
  <2>2. c \in panel.calls /\ c.op = "solvency"
    BY SuspendedIs
  <2> QED BY <1>0, <2>1, <2>2, EndSetStep, AnswerStep, PortalOps
<1> QED BY <1>1, <1>2, <1>3, <1>4, <1>5, <1>6 DEF SolvencyUser, SolvencyResume

\* An order, or a scan, that awaits the list it asks for.
LEMMA BeginAwait ==
    ASSUME NEW b, NEW p, Step(b, p), NEW op \in DOMAIN b.last, Plain(op), NEW flag \in NoSpinner,
           NEW arg, NEW c \in p.calls, NEW n
    PROVE  Step(b, AwaitWith(Begin(p, op, flag, arg), c, n))
<1>1. Step(b, Begin(p, op, flag, arg))
  BY StartStep
<1>2. c \in Begin(p, op, flag, arg).calls
  BY StepSound, BeginCalls
<1> QED BY <1>1, <1>2, AwaitStep

\* The steps of the vault list are steps of handlers.
LEMMA VaultsStep ==
    ASSUME Inv(panel), panel.name = "vaults",
           RefreshVaults \/ PriceDrop \/ Liquidate \/ VaultsResume
    PROVE  Step(panel, panel')
<1>0. Sound(panel) /\ Step(panel, panel) /\ DOMAIN panel.last = {"vaults", "liquidate", "drop"}
  BY InvSound DEF Inv, Shape
<1>1. CASE RefreshVaults \/ PriceDrop \/ Liquidate
  BY <1>0, <1>1, StartStep, PortalOps DEF RefreshVaults, PriceDrop, Liquidate, Idle
<1>2. CASE ServeVaults
  BY <1>0, <1>2, SetAwaitStep DEF ServeVaults
<1>3. CASE ServeOrder
  <2>1. \/ \E c \in Suspended("drop") : panel' = Await(Set(panel, "price", 1), c)
        \/ \E c \in Suspended("liquidate") :
              panel' = Await(Set(panel, "loan", panel.ui.loan - 1), c)
    BY <1>3 DEF ServeOrder
  <2>2. CASE \E c \in Suspended("drop") : panel' = Await(Set(panel, "price", 1), c)
    BY <1>0, <2>2, SetAwaitStep
  <2>3. CASE \E c \in Suspended("liquidate") :
                panel' = Await(Set(panel, "loan", panel.ui.loan - 1), c)
    BY <1>0, <2>3, SetAwaitStep
  <2> QED BY <2>1, <2>2, <2>3
<1>4. CASE VaultsEnd
  BY <1>0, <1>4, EndSetStep DEF VaultsEnd
<1>5. CASE OrderDone
  <2>1. PICK c \in panel.calls :
            panel' = AwaitWith(Begin(panel, "vaults", "vaults", None), c, panel.runs + 1)
    BY <1>5 DEF OrderDone, Suspended
  <2> QED BY <1>0, <2>1, BeginAwait, PortalOps, Zenon
<1>6. CASE OrderEnds
  <2>1. PICK op \in {"drop", "liquidate"} : \E c \in Suspended(op) : panel' = End(panel, c)
    BY <1>6 DEF OrderEnds
  <2> QED BY <1>0, <2>1, EndSetStep
<1> QED BY <1>1, <1>2, <1>3, <1>4, <1>5, <1>6 DEF VaultsResume

\* The steps of the identity window are steps of handlers.
LEMMA DidStep ==
    ASSUME Inv(panel), panel.name = "did", OpenDid \/ CloseDid \/ VerifyDID \/ DidAnswer
    PROVE  Step(panel, panel')
<1>0. Sound(panel) /\ Step(panel, panel) /\ DOMAIN panel.last = {"did"}
  BY InvSound DEF Inv, Shape
<1>1. CASE OpenDid
  BY <1>0, <1>1, EditStep DEF OpenDid
<1>2. CASE CloseDid
  BY <1>0, <1>2, HideStep, SetStep, Zenon DEF CloseDid
<1>3. CASE VerifyDID
  BY <1>0, <1>3, RequestSteps, PortalOps DEF VerifyDID
<1>4. CASE DidAnswer
  BY <1>0, <1>4, AnswerSteps, PortalOps DEF DidAnswer
<1> QED BY <1>1, <1>2, <1>3, <1>4

\* The steps of the two quote sliders are steps of handlers.
LEMMA QuoteStep ==
    ASSUME Inv(panel), panel.name \in {"amm", "cds"}, MoveQuoteSlider \/ QuoteAnswer
    PROVE  Step(panel, panel')
<1>0. Sound(panel) /\ Step(panel, panel) /\ DOMAIN panel.last = {"quote"}
  BY InvSound DEF Inv, Shape
<1>1. CASE MoveQuoteSlider
  <2>1. PICK v : panel' = Begin(Set(panel, "slider", v), "quote", "quote", v)
    BY <1>1 DEF MoveQuoteSlider
  <2> QED BY <1>0, <2>1, SetStep, StartStep, PortalOps
<1>2. CASE QuoteAnswer
  BY <1>0, <1>2, AnswerSteps, PortalOps DEF QuoteAnswer
<1> QED BY <1>1, <1>2

\* The steps of the sanctions scan are steps of handlers.
LEMMA SanctionsStep ==
    ASSUME Inv(panel), panel.name = "sanctions",
           \/ EditSubject \/ SanctionsScan \/ RefreshLogs
           \/ ScanShown \/ ScanEnds \/ LogsAnswer
    PROVE  Step(panel, panel')
<1>0. Sound(panel) /\ Step(panel, panel) /\ DOMAIN panel = Fields
      /\ DOMAIN panel.last = {"scan2", "quarantine"}
  BY InvSound DEF Inv, Shape
<1>1. CASE EditSubject
  BY <1>0, <1>1, EditStep DEF EditSubject
<1>2. CASE SanctionsScan
  BY <1>0, <1>2, RequestSteps, PortalOps DEF SanctionsScan
<1>3. CASE RefreshLogs
  BY <1>0, <1>3, StartStep, PortalOps DEF RefreshLogs
<1>4. CASE ScanShown
  <2>1. PICK c \in Suspended("scan2") :
            panel' = AwaitWith(Begin(Show(panel, c, "live"), "quarantine", "quarantine", None),
                               c, panel.runs + 1)
    BY <1>4 DEF ScanShown
  <2>2. Step(panel, Show(panel, c, "live")) /\ c \in Show(panel, c, "live").calls
    BY <1>0, SuspendedIs, ShowStep, ShowCalls, PortalOps
  <2> QED BY <1>0, <2>1, <2>2, BeginAwait, PortalOps, Zenon
<1>5. CASE ScanEnds
  BY <1>0, <1>5, EndSetStep DEF ScanEnds
<1>6. CASE LogsAnswer
  BY <1>0, <1>6, AnswerSteps, PortalOps DEF LogsAnswer
<1> QED BY <1>1, <1>2, <1>3, <1>4, <1>5, <1>6

\* The steps of the reconciliation are steps of handlers.
LEMMA ReconStep ==
    ASSUME Inv(panel), panel.name = "recon",
           \/ EditBalances \/ HandleReconcile \/ TriggerCreditEvent
           \/ ReconAnswer \/ CreditEventAnswered
    PROVE  Step(panel, panel')
<1>0. Sound(panel) /\ Step(panel, panel) /\ DOMAIN panel.last = {"recon", "event"}
  BY InvSound DEF Inv, Shape
<1>1. CASE EditBalances
  BY <1>0, <1>1, EditStep DEF EditBalances
<1>2. CASE HandleReconcile
  BY <1>0, <1>2, RequestSteps, PortalOps DEF HandleReconcile
<1>3. CASE TriggerCreditEvent
  BY <1>0, <1>3, StartStep, PortalOps DEF TriggerCreditEvent
<1>4. CASE ReconAnswer
  BY <1>0, <1>4, AnswerSteps, PortalOps DEF ReconAnswer
<1>5. CASE CreditEventAnswered
  BY <1>0, <1>5, EndSetStep DEF CreditEventAnswered
<1> QED BY <1>1, <1>2, <1>3, <1>4, <1>5

\* The panels of PortalPanels take steps of handlers only.
LEMMA PortalStep == ASSUME Inv(panel), PortalUser \/ PortalResume PROVE Step(panel, panel')
BY KeysStep, PlaygroundStep, StrategyStep, ContractStep, SweepStep, SolvencyStep, VaultsStep,
   DidStep, QuoteStep, SanctionsStep, ReconStep
   DEF PortalUser, PortalResume

-----------------------------------------------------------------------------
(* A panel without handlers in flight *)

\* A panel with no handler in flight and nothing on display.
Blank(p) ==
    /\ DOMAIN p = Fields /\ p.calls = {} /\ p.busy = {} /\ p.shown = {}
    /\ p.runs \in Nat /\ LastOK(p.last, p.runs)
    /\ \A t \in DOMAIN p.logs : t \notin NoSpinner /\ p.logs[t] = <<>>

\* A panel without handlers in flight is sound.
LEMMA BlankSound == ASSUME NEW p, Blank(p) PROVE Sound(p)
<1>1. CallsOK(p.calls, p.last)
  BY FS_EmptySet DEF Blank, CallsOK
<1>2. BusyOK(p.busy, p.calls)
  BY DEF Blank, BusyOK
<1>3. ShownOK(p.shown, p.calls, p.last)
  BY DEF Blank, ShownOK
<1>4. LogsOK(p.logs, p.calls, p.runs)
  BY EmptyLog DEF Blank, LogsOK
<1> QED BY <1>1, <1>2, <1>3, <1>4 DEF Blank, Sound

\* A panel that is left blank has shown no result again.
LEMMA BlankStep ==
    ASSUME NEW p, Sound(p), NEW q, Blank(q), q.name = p.name, DOMAIN q.last = DOMAIN p.last,
           \A o \in DOMAIN p.last : p.last[o] <= q.last[o]
    PROVE  Step(p, q)
<1>1. Sound(q)
  BY BlankSound
<1>2. Forward(p, q)
  BY DEF Blank, Forward
<1> QED BY <1>1, <1>2 DEF Step

\* What the first render leaves is blank.
LEMMA MountedBlank ==
    ASSUME NEW name, NEW ui, NEW ops, NEW terminals, terminals \cap NoSpinner = {}
    PROVE  /\ Blank(Mounted(name, ui, ops, terminals))
           /\ Mounted(name, ui, ops, terminals).name = name
           /\ Mounted(name, ui, ops, terminals).ui = ui
           /\ DOMAIN Mounted(name, ui, ops, terminals).last = ops
BY DEF Mounted, Blank, Fields, LastOK

\* A handler that is over, on a page that changed meanwhile.
LEMMA PagedEnd ==
    ASSUME Sound(panel), NEW op, op \notin {"stress", "consent"}, NEW c \in Suspended(op), NEW p,
           Repaged(panel, p)
    PROVE  Step(panel, End(p, c))
<1>1. Step(panel, p) /\ c \in p.calls /\ c.op = op
  BY StepRefl, RepageStep, SuspendedIs DEF Repaged
<1> QED BY <1>1, EndStep

-----------------------------------------------------------------------------
(* ShellPanels *)

\* Which handlers of ShellPanels have a spinner to themselves, and which have none.
LEMMA ShellOps ==
    /\ \A op \in {"regenerate", "copy", "toast", "reroute", "progress", "export", "reset", "seed",
                  "checkDb", "review"} :
          Plain(op) /\ op \notin Solo \cup Printing \cup Overlapping \cup {"consent", "stress"}
    /\ None \in NoSpinner
BY DEF Plain, Solo, Hiding, Keeping, Printing, NoSpinner, Overlapping

\* A toast appears with its timer.
LEMMA ToastStep ==
    ASSUME NEW b, NEW p, Step(b, p), "toast" \in DOMAIN b.last PROVE Step(b, Toast(p))
<1>1. Step(b, Begin(p, "toast", None, None))
  BY StartStep, ShellOps
<1>2. Repaged(Begin(p, "toast", None, None), Toast(p))
  BY <1>1, StepSound DEF Toast, Repaged, Fields
<1> QED BY <1>1, <1>2, RepageStep

\* A toast is removed, by its timer or by the user.
LEMMA ToastEnds ==
    ASSUME Sound(panel), ToastExpires \/ DismissToast \/ CloseToast PROVE Step(panel, panel')
<1>0. Step(panel, panel) /\ DOMAIN panel = Fields
  BY StepRefl DEF Sound
<1>1. CASE ToastExpires \/ CloseToast
  <2>1. PICK c \in Suspended("toast") : panel' = [End(panel, c) EXCEPT !.ui.waiting = @ \ {c.run}]
    BY <1>1 DEF ToastExpires, CloseToast
  <2>2. Step(panel, End(panel, c))
    BY EndSetStep
  <2>3. Repaged(End(panel, c), panel')
    BY <2>1, <2>2, StepSound DEF Repaged, Fields
  <2> QED BY <2>2, <2>3, RepageStep
<1>2. CASE DismissToast
  <2>1. Repaged(panel, panel')
    BY <1>0, <1>2 DEF DismissToast, Repaged, Fields
  <2> QED BY <1>0, <2>1, RepageStep
<1> QED BY <1>1, <1>2

\* The page is left: the spinner of a handler still in flight is gone.
LEMMA LeaveStep ==
    ASSUME Inv(panel), panel.name = "apikey", LeavePreferences
    PROVE  Step(panel, panel')
<1> DEFINE f == [c \in panel.calls |-> [c EXCEPT !.flag = None]]
<1>0. Sound(panel) /\ DOMAIN panel = Fields /\ DOMAIN panel.last = {"regenerate", "copy"}
  BY InvSound DEF Inv, Shape
<1>1. /\ DOMAIN panel' = Fields /\ panel'.name = panel.name /\ panel'.shown = panel.shown
      /\ panel'.logs = panel.logs /\ panel'.last = panel.last /\ panel'.runs = panel.runs
      /\ panel'.busy = {} /\ panel'.calls = {f[c] : c \in panel.calls}
  BY <1>0, Zenon DEF LeavePreferences, Fields
<1>2. \A c \in panel.calls : CallOK(c, panel.last)
  BY <1>0 DEF Sound, CallsOK
<1>3. \A c \in panel.calls :
          /\ DOMAIN f[c] = CallFields /\ f[c].flag = None
          /\ f[c].op = c.op /\ f[c].run = c.run /\ f[c].at = c.at
  BY <1>2 DEF CallOK, CallFields
<1>4. \A c \in panel.calls : CallOK(f[c], panel'.last) /\ f[c].flag \in NoSpinner
  <2> SUFFICES ASSUME NEW c \in panel.calls PROVE CallOK(f[c], panel'.last) /\ f[c].flag \in NoSpinner
    OBVIOUS
  <2>1. c.op \in {"regenerate", "copy"} /\ CallOK(c, panel.last)
    BY <1>0, <1>2 DEF CallOK
  <2> HIDE DEF f
  <2> QED BY <1>1, <1>3, <2>1, ShellOps DEF CallOK
<1>5. IsFiniteSet(panel'.calls)
  <2>1. f \in Surjection(panel.calls, panel'.calls)
    BY <1>1, Zenon DEF Surjection
  <2> QED BY <1>0, <2>1, FS_Surjection DEF Sound, CallsOK
<1> HIDE DEF f
<1>6. CallsOK(panel'.calls, panel'.last) /\ BusyOK(panel'.busy, panel'.calls)
  <2>1. \A d \in panel'.calls : CallOK(d, panel'.last) /\ d.flag \in NoSpinner
    BY <1>1, <1>4
  <2> QED BY <1>1, <1>5, <2>1 DEF CallsOK, BusyOK
<1>7. panel.shown = {}
  <2>1. \A r \in panel.shown : r.op \in {"regenerate", "copy"}
            /\ r.op \in Solo \cup Overlapping \cup {"consent"}
    BY <1>0 DEF Sound, ShownOK, ResultOK
  <2> QED BY <2>1, ShellOps
<1>8. ShownOK(panel'.shown, panel'.calls, panel'.last)
  BY <1>1, <1>7 DEF ShownOK
<1>9. LogsOK(panel'.logs, panel'.calls, panel'.runs)
  BY <1>0, <1>1, <1>4 DEF Sound, LogsOK
<1>10. Sound(panel')
  BY <1>0, <1>1, <1>6, <1>8, <1>9 DEF Sound
<1> QED BY <1>0, <1>1, <1>10, StepRefl, StepOn DEF Step

\* The steps of the API key are steps of handlers.
LEMMA ApiKeyStep ==
    ASSUME Inv(panel), panel.name = "apikey", ApiKeyUser \/ ApiKeyResume
    PROVE  Step(panel, panel')
<1>0. Sound(panel) /\ Step(panel, panel) /\ DOMAIN panel = Fields
      /\ DOMAIN panel.last = {"regenerate", "copy"}
  BY InvSound DEF Inv, Shape
<1>1. CASE ShowKey \/ AskRegenerate \/ ReloadOtherTab
  BY <1>0, <1>1, EditStep DEF ShowKey, AskRegenerate, ReloadOtherTab
<1>2. CASE CopyKey
  BY <1>0, <1>2, StartStep, SetStep, ShellOps, Zenon DEF CopyKey
<1>3. CASE ConfirmRegenerate
  <2>1. "regenerate" \notin panel.busy
    BY <1>3 DEF ConfirmRegenerate, Inv, Pages, ApiKeyOK
  <2> QED BY <1>0, <1>3, <2>1, StartStep, SetStep, ShellOps, Zenon DEF ConfirmRegenerate
<1>4. CASE ResetKey
  <2>1. Repaged(panel, panel')
    BY <1>0, <1>4 DEF ResetKey, SetApiKey, Repaged, Fields
  <2> QED BY <1>0, <2>1, RepageStep
<1>5. CASE LeavePreferences
  BY <1>5, LeaveStep
<1>6. CASE OtherTabSaves
  BY <1>0, <1>6, SetStep DEF OtherTabSaves
<1>7. CASE ReloadTab
  <2>1. /\ DOMAIN panel' = Fields /\ panel'.name = panel.name /\ panel'.shown = {}
        /\ panel'.last = panel.last /\ panel'.runs = panel.runs
        /\ panel'.busy = {} /\ panel'.calls = {} /\ DOMAIN panel'.logs = {}
    BY <1>0, <1>7 DEF ReloadTab, ApiKeyPanel, Mounted, Fields
  <2>2. Blank(panel')
    BY <1>0, <2>1 DEF Sound, Blank
  <2> QED BY <1>0, <2>1, <2>2, BlankStep, StepRefl DEF Step
<1>8. CASE CopyTimeout
  BY <1>0, <1>8, EndSetStep, Zenon DEF CopyTimeout
<1>9. CASE KeyGenerated
  <2>1. PICK c \in Suspended("regenerate") :
            panel' = [SetApiKey(End(panel, c), c.run) EXCEPT !.ui.retired = @ \cup {panel.ui.here}]
    BY <1>9, Zenon DEF KeyGenerated
  <2>2. Step(panel, End(panel, c))
    BY <1>0, EndSetStep
  <2>3. Repaged(End(panel, c), panel')
    BY <2>1, <2>2, StepSound DEF SetApiKey, Repaged, Fields
  <2> QED BY <2>2, <2>3, RepageStep
<1> QED BY <1>1, <1>2, <1>3, <1>4, <1>5, <1>6, <1>7, <1>8, <1>9 DEF ApiKeyUser, ApiKeyResume

\* The steps of the preferences are steps of handlers.
LEMMA PreferencesStep ==
    ASSUME Inv(panel), panel.name = "preferences",
           PreferencesUser \/ PreferencesResume \/ ToastExpires
    PROVE  Step(panel, panel')
<1>0. Sound(panel) /\ Step(panel, panel) /\ DOMAIN panel = Fields
      /\ DOMAIN panel.last = {"toast", "reroute", "progress", "export", "reset"}
  BY InvSound DEF Inv, Shape
<1>1. CASE EditLook
  BY <1>0, <1>1, EditStep DEF EditLook
<1>2. CASE HandleRegionChange \/ HandleReset
  <2>1. PICK op \in {"reroute", "reset"} :
            \/ \E r : panel' = [Begin(panel, op, None, None) EXCEPT
                                   !.ui.region = r, !.ui.syncing = TRUE]
            \/ panel' = [Begin(panel, op, None, None) EXCEPT
                            !.ui.look = "x1", !.ui.region = "x1", !.ui.reset = TRUE]
    BY <1>2, Zenon DEF HandleRegionChange, HandleReset
  <2>2. Step(panel, Begin(panel, op, None, None))
    BY <1>0, StartStep, ShellOps
  <2>3. Repaged(Begin(panel, op, None, None), panel')
    BY <2>1, <2>2, StepSound, ZenonT(60) DEF Repaged, Fields
  <2> QED BY <2>2, <2>3, RepageStep
<1>3. CASE HandleExport
  <2>1. PICK x : panel' = Set(Begin(ProgressToast(panel), "export", None, None), "export", x)
    BY <1>3 DEF HandleExport
  <2>2. Step(panel, Begin(panel, "progress", None, None))
    BY <1>0, StartStep, ShellOps
  <2>3. Repaged(Begin(panel, "progress", None, None), ProgressToast(panel))
    BY <2>2, StepSound DEF ProgressToast, Repaged, Fields
  <2>4. Step(panel, ProgressToast(panel))
    BY <2>2, <2>3, RepageStep
  <2> QED BY <1>0, <2>1, <2>4, StartStep, SetStep, ShellOps
<1>4. CASE DismissToast \/ ToastExpires
  BY <1>0, <1>4, ToastEnds
<1>5. CASE RerouteEnds
  BY <1>0, <1>5, EndSetStep, Zenon DEF RerouteEnds
<1>6. CASE ExportEnds
  BY <1>0, <1>6, EndSetStep DEF ExportEnds
<1>7. CASE ProgressCompletes
  BY <1>0, <1>7, SetAwaitStep DEF ProgressCompletes
<1>8. CASE ProgressExpires
  <2>1. PICK c \in Suspended("progress") :
            panel' = [End(panel, c) EXCEPT !.ui.waiting = @ \ {c.run}]
    BY <1>8, Zenon DEF ProgressExpires
  <2>2. Step(panel, End(panel, c))
    BY <1>0, EndSetStep
  <2>3. Repaged(End(panel, c), panel')
    BY <2>1, <2>2, StepSound DEF Repaged, Fields
  <2> QED BY <2>2, <2>3, RepageStep
<1>9. CASE ResetMessageEnds
  BY <1>0, <1>9, EndSetStep, Zenon DEF ResetMessageEnds
<1> QED BY <1>1, <1>2, <1>3, <1>4, <1>5, <1>6, <1>7, <1>8, <1>9
        DEF PreferencesUser, PreferencesResume

\* The steps of the settings forms are steps of handlers.
LEMMA FormsStep ==
    ASSUME Inv(panel), panel.name = "forms", FormsUser \/ ToastExpires
    PROVE  Step(panel, panel')
<1>0. Sound(panel) /\ Step(panel, panel) /\ DOMAIN panel.last = {"toast"}
  BY InvSound DEF Inv, Shape
<1>1. CASE HandleToggle
  BY <1>0, <1>1, SetStep, ToastStep DEF HandleToggle
<1>2. CASE SubmitInvite
  BY <1>0, <1>2, SetStep, ToastStep DEF SubmitInvite
<1>3. CASE OpenInvite \/ CloseInvite
  BY <1>0, <1>3, SetStep DEF OpenInvite, CloseInvite
<1>4. CASE EditInvite \/ EditRetention \/ ToggleDetails
  BY <1>0, <1>4, EditStep DEF EditInvite, EditRetention, ToggleDetails
<1>5. CASE DismissToast \/ ToastExpires
  BY <1>0, <1>5, ToastEnds
<1> QED BY <1>1, <1>2, <1>3, <1>4, <1>5 DEF FormsUser

\* The steps of the notifications are steps of handlers.
LEMMA NoticesStep ==
    ASSUME Inv(panel), panel.name = "notices", NoticesUser \/ StreamArrives \/ SeedArrives
    PROVE  Step(panel, panel')
<1>0. Sound(panel) /\ Step(panel, panel) /\ DOMAIN panel = Fields /\ panel.runs \in Nat
      /\ DOMAIN panel.last = {"seed", "stream"}
  BY InvSound DEF Inv, Shape, Sound
<1>1. CASE OpenNotices
  BY <1>0, <1>1, StartStep, SetStep, ShellOps, ZenonT(60) DEF OpenNotices
<1>2. CASE LeaveNotices \/ Dismiss \/ ClearNotices
  <2>1. CASE LeaveNotices
    BY <1>0, <2>1, SetStep DEF LeaveNotices
  <2>2. CASE Dismiss
    BY <1>0, <2>2, SetStep, Zenon DEF Dismiss
  <2>3. CASE ClearNotices
    BY <1>0, <2>3, SetStep DEF ClearNotices
  <2> QED BY <1>2, <2>1, <2>2, <2>3
<1>3. CASE MarkAsRead \/ MarkAllAsRead \/ TogglePin
  <2>1. CASE MarkAsRead
    BY <1>0, <2>1, RepageStep DEF MarkAsRead, Repaged, Fields
  <2>2. CASE MarkAllAsRead
    BY <1>0, <2>2, RepageStep DEF MarkAllAsRead, Repaged, Fields
  <2>3. CASE TogglePin
    BY <1>0, <2>3, RepageStep DEF TogglePin, Repaged, Fields
  <2> QED BY <1>3, <2>1, <2>2, <2>3
<1>4. CASE StreamArrives
  <2>1. /\ DOMAIN panel' = Fields /\ panel'.name = panel.name /\ panel'.calls = panel.calls
        /\ panel'.busy = panel.busy /\ panel'.shown = panel.shown /\ panel'.logs = panel.logs
        /\ panel'.last = panel.last /\ panel'.runs = panel.runs + 1
    BY <1>0, <1>4 DEF StreamArrives, AddNotice, Fields
  <2> QED BY <1>0, <2>1, PageStep
<1>5. CASE SeedArrives
  <2>1. Repaged(panel, AddNotice(panel))
    BY <1>0 DEF AddNotice, Repaged, Fields
  <2>2. PICK c \in Suspended("seed") :
            panel' = End(AddNotice(panel), c) \/ panel' = Await(AddNotice(panel), c)
    BY <1>5 DEF SeedArrives
  <2> QED BY <1>0, <2>1, <2>2, PagedEnd, PagedAwait
<1> QED BY <1>1, <1>2, <1>3, <1>4, <1>5 DEF NoticesUser

\* The steps of the layout are steps of handlers.
LEMMA LayoutStep ==
    ASSUME Inv(panel), panel.name = "layout", LayoutUser
    PROVE  Step(panel, panel')
<1>0. Sound(panel) /\ Step(panel, panel) /\ DOMAIN panel = Fields
  BY InvSound
<1>1. CASE TypeQuery \/ ToggleBell \/ ToggleSidebar
  BY <1>0, <1>1, EditStep DEF TypeQuery, ToggleBell, ToggleSidebar
<1>2. CASE PaletteKey \/ ChooseSection
  <2>1. Repaged(panel, panel')
    BY <1>0, <1>2, Zenon DEF PaletteKey, ChooseSection, Navigate, Repaged, Fields
  <2> QED BY <1>0, <2>1, RepageStep
<1>3. CASE Perform
  <2> DEFINE p == [panel EXCEPT !.ui.palette = FALSE, !.ui.query = FALSE]
  <2>1. Repaged(panel, p)
    BY <1>0 DEF Repaged, Fields
  <2>2. Step(panel, p)
    BY <1>0, <2>1, RepageStep
  <2>3. \A s : Repaged(p, Navigate(p, s))
    BY <2>1 DEF Navigate, Repaged, Fields
  <2>4. (\E s : panel' = Navigate(p, s)) \/ (\E v : panel' = Set(p, "look", v))
    BY <1>3 DEF Perform
  <2> HIDE DEF p
  <2> QED BY <2>2, <2>3, <2>4, RepageStep, SetStep
<1> QED BY <1>1, <1>2, <1>3 DEF LayoutUser

\* The steps of the audit trail are steps of handlers.
LEMMA TrailStep ==
    ASSUME Inv(panel), panel.name = "trail", TrailUser
    PROVE  Step(panel, panel')
<1>0. Sound(panel) /\ Step(panel, panel) /\ DOMAIN panel = Fields
  BY InvSound
<1>1. CASE ChoosePage \/ SelectEvent \/ CloseEvent
  BY <1>0, <1>1, EditStep DEF ChoosePage, SelectEvent, CloseEvent
<1>2. CASE PreviousPage \/ NextPage
  BY <1>0, <1>2, SetStep DEF PreviousPage, NextPage
<1>3. CASE ChangeFilter
  <2>1. Repaged(panel, panel')
    BY <1>0, <1>3 DEF ChangeFilter, Repaged, Fields
  <2> QED BY <1>0, <2>1, RepageStep
<1> QED BY <1>1, <1>2, <1>3 DEF TrailUser

\* The steps of the workspace are steps of handlers.
LEMMA WorkspaceStep ==
    ASSUME Inv(panel), panel.name = "workspace", WorkspaceUser \/ CheckDb \/ WorkspaceResume
    PROVE  Step(panel, panel')
<1>0. Sound(panel) /\ Step(panel, panel) /\ DOMAIN panel.last = {"checkDb", "review", "toast"}
  BY InvSound DEF Inv, Shape
<1>1. CASE ExportRows
  BY <1>0, <1>1, ToastStep DEF ExportRows
<1>2. CASE HandleRunReview
  <2>1. Step(panel, Begin(panel, "review", "review", None))
    BY <1>0, <1>2, StartStep, ShellOps DEF HandleRunReview, Idle
  <2> QED BY <1>0, <1>2, <2>1, SetStep, ToastStep, Zenon DEF HandleRunReview
<1>3. CASE CloseToast \/ ToastExpires
  BY <1>0, <1>3, ToastEnds
<1>4. CASE CheckDb
  BY <1>0, <1>4, StartStep, ShellOps DEF CheckDb
<1>5. CASE CheckEnds
  BY <1>0, <1>5, EndSetStep DEF CheckEnds
<1>6. CASE ReviewStep
  BY <1>0, <1>6, SetAwaitStep, ToastStep DEF ReviewStep
<1>7. CASE ReviewEnds
  BY <1>0, <1>7, EndSetStep, ToastStep, Zenon DEF ReviewEnds
<1> QED BY <1>1, <1>2, <1>3, <1>4, <1>5, <1>6, <1>7 DEF WorkspaceUser, WorkspaceResume

\* The steps of the session lock are steps of handlers.
LEMMA SessionStep ==
    ASSUME Inv(panel), panel.name = "session", UpdateActivity \/ HandleUnlock \/ TimePasses
    PROVE  Step(panel, panel')
<1>0. Sound(panel) /\ Step(panel, panel) /\ DOMAIN panel = Fields /\ DOMAIN panel.last = {}
  BY InvSound DEF Inv, Shape
<1>1. CASE UpdateActivity
  <2>1. Repaged(panel, panel')
    BY <1>0, <1>1 DEF UpdateActivity, Repaged, Fields
  <2> QED BY <1>0, <2>1, RepageStep
<1>2. CASE TimePasses
  BY <1>0, <1>2, EditStep DEF TimePasses
<1>3. CASE HandleUnlock
  <2>1. Blank(SessionPanel) /\ SessionPanel.name = "session" /\ DOMAIN SessionPanel.last = {}
    BY MountedBlank DEF SessionPanel
  <2> QED BY <1>0, <1>3, <2>1, BlankStep, SetStep, Zenon DEF HandleUnlock
<1> QED BY <1>1, <1>2, <1>3

\* The panels of ShellPanels take steps of handlers only.
LEMMA ShellStep ==
    ASSUME Inv(panel), ShellUser \/ ShellTimer \/ ShellResume PROVE Step(panel, panel')
BY ApiKeyStep, PreferencesStep, FormsStep, NoticesStep, LayoutStep, TrailStep, WorkspaceStep,
   SessionStep
   DEF ShellUser, ShellTimer, ShellResume

-----------------------------------------------------------------------------
(* DeskPanels *)

\* Which handlers of DeskPanels have a spinner to themselves, and which have none.
LEMMA DeskOps ==
    /\ \A op \in {"poll", "highlight", "ask", "command", "expand", "fetch", "forensics"} :
          Plain(op) /\ op \notin {"stress", "consent"}
    /\ {"poll", "forensics"} \subseteq Overlapping
    /\ {None, "loading"} \subseteq NoSpinner
BY DEF Plain, Solo, Hiding, Keeping, Printing, NoSpinner, Shared, Overlapping

\* The steps of the dashboard feed are steps of handlers.
LEMMA FeedStep ==
    ASSUME Inv(panel), panel.name = "feed",
           ChooseFilter \/ FetchData \/ HighlightRow \/ FetchEnds \/ HighlightEnds
    PROVE  Step(panel, panel')
<1>0. Sound(panel) /\ Step(panel, panel) /\ DOMAIN panel.last = {"poll", "highlight"}
  BY InvSound DEF Inv, Shape
<1>1. CASE ChooseFilter
  BY <1>0, <1>1, EditStep DEF ChooseFilter
<1>2. CASE FetchData
  BY <1>0, <1>2, StartStep, DeskOps DEF FetchData
<1>3. CASE HighlightRow
  <2>1. PICK t : panel' = Set(Begin(panel, "highlight", None, t), "row", t)
    BY <1>3 DEF HighlightRow
  <2> QED BY <1>0, <2>1, StartStep, SetStep, DeskOps
<1>4. CASE FetchEnds
  <2>1. PICK c \in Suspended("poll"), out \in Outcome :
            panel' = Set(End(Show(panel, c, out), c), "mocked", out = "fallback")
    BY <1>4 DEF FetchEnds
  <2>2. Step(panel, End(Show(panel, c, out), c))
    BY <1>0, SuspendedIs, AnswerStep, DeskOps
  <2> QED BY <2>1, <2>2, SetStep
<1>5. CASE HighlightEnds
  BY <1>0, <1>5, EndSetStep DEF HighlightEnds
<1> QED BY <1>1, <1>2, <1>3, <1>4, <1>5

\* The steps of the overview are steps of handlers.
LEMMA OverviewStep ==
    ASSUME Inv(panel), OverviewUser \/ Throughput PROVE Step(panel, panel')
<1>0. Sound(panel) /\ Step(panel, panel) /\ DOMAIN panel = Fields
  BY InvSound
<1>1. CASE HandleCellHover \/ AskPromotion \/ Throughput
  BY <1>0, <1>1, EditStep DEF HandleCellHover, AskPromotion, Throughput
<1>2. CASE HandlePromote
  <2>1. Repaged(panel, panel')
    BY <1>0, <1>2 DEF HandlePromote, Repaged, Fields
  <2> QED BY <1>0, <2>1, RepageStep
<1> QED BY <1>1, <1>2 DEF OverviewUser

\* A message is added to the chat.
LEMMA SpeakStep == ASSUME NEW b, NEW p, Step(b, p), NEW role PROVE Step(b, Speak(p, role))
<1>1. Repaged(p, Speak(p, role))
  BY StepSound DEF Speak, Repaged, Fields
<1> QED BY <1>1, RepageStep

\* The steps of the chat are steps of handlers.
LEMMA ChatStep ==
    ASSUME Inv(panel), panel.name = "chat", EditQuestion \/ SendMessage \/ MessageAnswered
    PROVE  Step(panel, panel')
<1>0. Sound(panel) /\ Step(panel, panel) /\ DOMAIN panel.last = {"ask"}
  BY InvSound DEF Inv, Shape
<1>1. CASE EditQuestion
  BY <1>0, <1>1, EditStep DEF EditQuestion
<1>2. CASE SendMessage
  <2>1. Step(panel, Begin(panel, "ask", "ask", panel.ui.input))
    BY <1>0, <1>2, StartStep, DeskOps DEF SendMessage, CanAsk, Idle
  <2> QED BY <1>2, <2>1, SpeakStep, SetStep DEF SendMessage
<1>3. CASE MessageAnswered
  <2>1. PICK c \in Suspended("ask") : panel' = Speak(End(panel, c), "assistant")
    BY <1>3 DEF MessageAnswered
  <2> QED BY <1>0, <2>1, EndSetStep, SpeakStep
<1> QED BY <1>1, <1>2, <1>3

\* The steps of the terminal are steps of handlers.
LEMMA TerminalStep ==
    ASSUME Inv(panel), panel.name = "terminal",
           HandleCommand \/ ToggleExpanded \/ CommandOutput \/ ClearOutput
    PROVE  Step(panel, panel')
<1>0. Sound(panel) /\ Step(panel, panel) /\ DOMAIN panel.last = {"command"}
  BY InvSound DEF Inv, Shape
<1>1. CASE HandleCommand
  <2>1. PICK cmd : panel' = [Begin(panel, "command", None, cmd) EXCEPT
                                !.ui.waiting = @ \cup {panel.runs + 1}]
    BY <1>1, Zenon DEF HandleCommand
  <2>2. Step(panel, Begin(panel, "command", None, cmd))
    BY <1>0, StartStep, DeskOps
  <2>3. Repaged(Begin(panel, "command", None, cmd), panel')
    BY <2>1, <2>2, StepSound DEF Repaged, Fields
  <2> QED BY <2>2, <2>3, RepageStep
<1>2. CASE ToggleExpanded
  BY <1>0, <1>2, EditStep DEF ToggleExpanded
<1>3. CASE CommandOutput \/ ClearOutput
  <2>1. PICK c \in Suspended("command") :
            \/ panel' = [End(panel, c) EXCEPT
                            !.ui.waiting = @ \ {c.run},
                            !.ui.answered = @ \cup ({c.run} \cap panel.ui.waiting)]
            \/ panel' = [End(panel, c) EXCEPT !.ui.waiting = {}, !.ui.answered = {}]
    BY <1>3, Zenon DEF CommandOutput, ClearOutput
  <2>2. Step(panel, End(panel, c))
    BY <1>0, EndSetStep
  <2>3. Repaged(End(panel, c), panel')
    BY <2>1, <2>2, StepSound, ZenonT(60) DEF Repaged, Fields
  <2> QED BY <2>2, <2>3, RepageStep
<1> QED BY <1>1, <1>2, <1>3

\* The steps of the ring explorer are steps of handlers.
LEMMA RingStep ==
    ASSUME Inv(panel), panel.name = "ring", ExpandNode \/ ConnectNodes \/ NodeExpanded
    PROVE  Step(panel, panel')
<1>0. Sound(panel) /\ Step(panel, panel) /\ DOMAIN panel = Fields /\ DOMAIN panel.last = {"expand"}
  BY InvSound DEF Inv, Shape
<1>1. CASE ExpandNode
  BY <1>0, <1>1, StartStep, DeskOps DEF ExpandNode, Idle
<1>2. CASE ConnectNodes
  <2>1. Repaged(panel, panel')
    BY <1>0, <1>2 DEF ConnectNodes, Repaged, Fields
  <2> QED BY <1>0, <2>1, RepageStep
<1>3. CASE NodeExpanded
  <2>1. PICK c \in Suspended("expand") :
            panel' = [End(panel, c) EXCEPT !.ui.edges = @ \cup {<<c.arg, panel.ui.next>>},
                                           !.ui.next = @ + 1]
    BY <1>3, Zenon DEF NodeExpanded
  <2>2. Step(panel, End(panel, c))
    BY <1>0, EndSetStep
  <2>3. Repaged(End(panel, c), panel')
    BY <2>1, <2>2, StepSound DEF Repaged, Fields
  <2> QED BY <2>2, <2>3, RepageStep
<1> QED BY <1>1, <1>2, <1>3

\* The steps of the telemetry grid are steps of handlers.
LEMMA GridStep == ASSUME Inv(panel), ToggleStreaming \/ StreamRow PROVE Step(panel, panel')
BY InvSound, EditStep, SetStep DEF ToggleStreaming, StreamRow

\* The steps of the alert stream are steps of handlers.
LEMMA AlertsStep ==
    ASSUME Inv(panel), panel.name = "alerts", Unmount \/ NewAlert \/ FetchLive
    PROVE  Step(panel, panel')
<1>0. Sound(panel) /\ Step(panel, panel) /\ DOMAIN panel = Fields /\ DOMAIN panel.last = {"fetch"}
  BY InvSound DEF Inv, Shape
<1>1. CASE Unmount
  <2>1. Repaged(panel, panel')
    BY <1>0, <1>1 DEF Unmount, Repaged, Fields
  <2> QED BY <1>0, <2>1, RepageStep
<1>2. CASE NewAlert
  BY <1>0, <1>2, SetStep DEF NewAlert
<1>3. CASE FetchLive
  <2>1. PICK c \in Suspended("fetch") :
            \/ panel' = End(panel, c)
            \/ panel' = Set(End(panel, c), "autonomous", FALSE)
            \/ panel' = [End(panel, c) EXCEPT !.ui.autonomous = TRUE, !.ui.interval = TRUE]
    BY <1>3, Zenon DEF FetchLive
  <2>2. Step(panel, End(panel, c))
    BY <1>0, EndSetStep
  <2>3. panel' = End(panel, c) \/ Repaged(End(panel, c), panel')
    BY <2>1, <2>2, StepSound, Zenon DEF Set, Repaged, Fields
  <2> QED BY <2>2, <2>3, RepageStep
<1> QED BY <1>1, <1>2, <1>3

\* The steps of the forensics tab are steps of handlers.
LEMMA ForensicsStep ==
    ASSUME Inv(panel), panel.name = "forensics",
           ChooseTaxTab \/ OpenForensics \/ ForensicsFails \/ ForensicsEnds
    PROVE  Step(panel, panel')
<1>0. Sound(panel) /\ Step(panel, panel) /\ DOMAIN panel.last = {"forensics"}
  BY InvSound DEF Inv, Shape
<1>1. CASE ChooseTaxTab
  BY <1>0, <1>1, EditStep DEF ChooseTaxTab
<1>2. CASE OpenForensics
  BY <1>0, <1>2, StartStep, SetStep, DeskOps DEF OpenForensics
<1>3. CASE ForensicsFails
  BY <1>0, <1>3, SetAwaitStep DEF ForensicsFails
<1>4. CASE ForensicsEnds
  <2>1. PICK c \in Suspended("forensics"), out \in {"live", "fallback"} :
            panel' = End(Show(panel, c, out), c)
    BY <1>4 DEF ForensicsEnds
  <2> QED BY <1>0, <2>1, SuspendedIs, AnswerStep, DeskOps
<1> QED BY <1>1, <1>2, <1>3, <1>4

\* The panels of DeskPanels take steps of handlers only.
LEMMA DeskStep ==
    ASSUME Inv(panel), DeskUser \/ DeskTimer \/ DeskResume PROVE Step(panel, panel')
BY FeedStep, OverviewStep, ChatStep, TerminalStep, RingStep, GridStep, AlertsStep, ForensicsStep
   DEF DeskUser, DeskTimer, DeskResume

-----------------------------------------------------------------------------
(* PublicPanels *)

\* Which handlers of PublicPanels have a spinner to themselves, and which have none.
LEMMA PublicOps ==
    /\ Own("witness", "prove") /\ Own("score", "score") /\ Own("triage", "triage")
    /\ "witness" \in Printing \ Hiding /\ SpinnerOf("witness") = "prove"
    /\ {"score", "triage"} \subseteq Solo
    /\ "stop" \in Overlapping
    /\ "consent" \notin Solo \cup Printing
    /\ \A op \in {"checkout", "load", "stop"} : Plain(op) /\ op \notin {"stress", "consent"}
    /\ None \in NoSpinner /\ {"checkout", "prove"} \cap Shared = {}
BY DEF Own, Plain, Solo, Hiding, Keeping, Printing, SpinnerOf, NoSpinner, Shared, Overlapping

\* A panel with no handler in flight has no spinner of its own.
LEMMA QuietBusy == ASSUME Sound(panel), panel.calls = {} PROVE panel.busy \subseteq Shared
BY DEF Sound, BusyOK

\* The steps of the checkout are steps of handlers.
LEMMA CheckoutStep ==
    ASSUME Inv(panel), panel.name = "checkout", CheckoutUser \/ CheckoutResume
    PROVE  Step(panel, panel')
<1>0. Sound(panel) /\ Step(panel, panel) /\ DOMAIN panel.last = {"checkout"}
  BY InvSound DEF Inv, Shape
<1>1. CASE FillForm
  BY <1>0, <1>1, EditStep DEF FillForm
<1>2. CASE CheckoutSubmit
  <2>1. panel.calls = {}
    BY <1>2 DEF CheckoutSubmit, OnForm, Inv, Pages, CheckoutOK
  <2>2. "checkout" \notin panel.busy
    BY <1>0, <2>1, QuietBusy, PublicOps
  <2> QED BY <1>0, <1>2, <2>2, StartStep, SetStep, PublicOps DEF CheckoutSubmit
<1>3. CASE Underwrite
  BY <1>0, <1>3, SetAwaitStep DEF Underwrite
<1>4. CASE Underwritten
  <2>1. PICK c \in Suspended("checkout"), d \in {"APPROVED", "DECLINED"}, throws \in BOOLEAN :
            /\ c.at = 1
            /\ panel' = [End(panel, c) EXCEPT
                            !.ui.status = IF throws THEN "DECLINED" ELSE d,
                            !.ui.details = Decision(c.run, d),
                            !.ui.funded = IF d = "APPROVED" THEN @ \cup {c.run} ELSE @]
    BY <1>4, Zenon DEF Underwritten
  <2>2. Step(panel, End(panel, c))
    BY <1>0, EndSetStep
  <2>3. Repaged(End(panel, c), panel')
    BY <2>1, <2>2, StepSound DEF Repaged, Fields
  <2> QED BY <2>2, <2>3, RepageStep
<1>5. CASE UnderwritingFails
  BY <1>0, <1>5, EndSetStep DEF UnderwritingFails
<1>6. CASE BackToForm
  BY <1>0, <1>6, SetStep DEF BackToForm
<1> QED BY <1>1, <1>2, <1>3, <1>4, <1>5, <1>6 DEF CheckoutUser, CheckoutResume

\* The steps of the wallet are steps of handlers.
LEMMA WalletStep ==
    ASSUME Inv(panel), panel.name = "wallet", GenerateZKProof \/ WalletResume
    PROVE  Step(panel, panel')
<1>0. Sound(panel) /\ Step(panel, panel) /\ DOMAIN panel.last = {"witness"}
  BY InvSound DEF Inv, Shape
<1>1. CASE GenerateZKProof
  <2>1. panel.calls = {}
    BY <1>1 DEF GenerateZKProof, Inv, Pages, WalletOK
  <2>2. "prove" \notin panel.busy
    BY <1>0, <2>1, QuietBusy, PublicOps
  <2>3. Step(panel, Reopen(Begin(panel, "witness", "prove", None), "prove"))
    BY <1>0, <2>2, OpenStep, PublicOps
  <2> QED BY <1>1, <2>3, SetStep DEF GenerateZKProof
<1>2. CASE WitnessComputed
  <2>1. PICK c \in Suspended("witness") :
            panel' = Set(Await(Say(panel, c, "prove"), c), "status", "GENERATING_PROOF")
    BY <1>2 DEF WitnessComputed
  <2>2. Step(panel, Await(Say(panel, c, "prove"), c))
    BY <1>0, OwnPrints, SayAwaitStep, PublicOps
  <2> QED BY <2>1, <2>2, SetStep
<1>3. CASE ProofGenerated
  BY <1>0, <1>3, OwnPrints, SayAwaitStep, PublicOps DEF ProofGenerated
<1>4. CASE ProofVerified
  <2>1. PICK c \in Suspended("witness") :
            panel' = [End(Say(panel, c, "prove"), c) EXCEPT
                        !.ui.status = "VERIFIED", !.ui.extensions = @ + 1]
    BY <1>4, Zenon DEF ProofVerified
  <2>2. Step(panel, End(Say(panel, c, "prove"), c))
    BY <1>0, OwnPrints, SayEndStep, PublicOps
  <2>3. Repaged(End(Say(panel, c, "prove"), c), panel')
    BY <2>1, <2>2, StepSound DEF Repaged, Fields
  <2> QED BY <2>2, <2>3, RepageStep
<1> QED BY <1>1, <1>2, <1>3, <1>4 DEF WalletResume

\* The steps of the biometrics hook are steps of handlers.
LEMMA BiometricsStep ==
    ASSUME Inv(panel), panel.name = "biometrics", BiometricsUser \/ BiometricsResume
    PROVE  Step(panel, panel')
<1>0. Sound(panel) /\ Step(panel, panel) /\ DOMAIN panel = Fields
      /\ DOMAIN panel.last = {"load", "stop"}
  BY InvSound DEF Inv, Shape
<1>1. CASE UnmountHook
  BY <1>0, <1>1, SetStep, Zenon DEF UnmountHook
<1>2. CASE StartCollection
  <2>1. Repaged(panel, panel')
    BY <1>0, <1>2 DEF StartCollection, Repaged, Fields
  <2> QED BY <1>0, <2>1, RepageStep
<1>3. CASE StopAndVerify
  <2>1. PICK v : panel' = Set(Begin(panel, "stop", None, v), "collecting", FALSE)
    BY <1>3, Zenon DEF StopAndVerify
  <2> QED BY <1>0, <2>1, StartStep, SetStep, PublicOps, Zenon
<1>4. CASE LoadModel
  BY <1>0, <1>4, EndSetStep, Zenon DEF LoadModel
<1>5. CASE InferenceFails
  BY <1>0, <1>5, EndSetStep, Zenon DEF InferenceFails
<1>6. CASE VectorReady
  BY <1>0, <1>6, SetAwaitStep DEF VectorReady
<1>7. CASE VerificationAnswered
  <2>1. PICK c \in Suspended("stop") :
            panel' \in {End(Show(panel, c, "live"), c), Set(End(panel, c), "error", TRUE)}
    BY <1>7, Zenon DEF VerificationAnswered
  <2>2. Step(panel, End(Show(panel, c, "live"), c))
    BY <1>0, SuspendedIs, AnswerStep, PublicOps
  <2> QED BY <1>0, <2>1, <2>2, EndSetStep, Zenon
<1> QED BY <1>1, <1>2, <1>3, <1>4, <1>5, <1>6, <1>7 DEF BiometricsUser, BiometricsResume

\* The steps of the scorer are steps of handlers.
LEMMA ScorerStep ==
    ASSUME Inv(panel), panel.name = "scorer", MoveScorerSlider \/ HandleScore \/ ScoreAnswer
    PROVE  Step(panel, panel')
<1>0. Sound(panel) /\ Step(panel, panel) /\ DOMAIN panel.last = {"score"}
  BY InvSound DEF Inv, Shape
<1>1. CASE MoveScorerSlider
  BY <1>0, <1>1, EditStep DEF MoveScorerSlider
<1>2. CASE HandleScore
  <2>1. Step(panel, Hide(Begin(panel, "score", "score", panel.ui.inputs), {"score"}))
    BY <1>0, <1>2, OwnRequest, PublicOps DEF HandleScore, Idle
  <2> QED BY <1>2, <2>1, SetStep, Zenon DEF HandleScore
<1>3. CASE ScoreAnswer
  <2>1. PICK c \in Suspended("score"), out \in Outcome :
            panel' = Set(End(Show(panel, c, out), c), "visible", TRUE)
    BY <1>3, Zenon DEF ScoreAnswer
  <2>2. Step(panel, End(Show(panel, c, out), c))
    BY <1>0, SuspendedIs, AnswerStep, PublicOps
  <2> QED BY <2>1, <2>2, SetStep, Zenon
<1> QED BY <1>1, <1>2, <1>3

\* The steps of the triage demo are steps of handlers.
LEMMA TriagePanelStep ==
    ASSUME Inv(panel), panel.name = "triage", ChooseScenario \/ HandleAudit \/ TriageStep
    PROVE  Step(panel, panel')
<1>0. Sound(panel) /\ Step(panel, panel) /\ DOMAIN panel = Fields /\ DOMAIN panel.last = {"triage"}
  BY InvSound DEF Inv, Shape
<1>1. CASE ChooseScenario
  <2>1. PICK s : panel' = [Hide(panel, {"triage"}) EXCEPT !.ui.scenario = s, !.ui.step = 0]
    BY <1>1, Zenon DEF ChooseScenario
  <2>2. Step(panel, Hide(panel, {"triage"}))
    BY <1>0, HideStep
  <2>3. Repaged(Hide(panel, {"triage"}), panel')
    BY <2>1, <2>2, StepSound DEF Repaged, Fields
  <2> QED BY <2>2, <2>3, RepageStep
<1>2. CASE HandleAudit
  <2>1. Step(panel, Hide(Begin(panel, "triage", "triage", panel.ui.scenario), {"triage"}))
    BY <1>0, <1>2, OwnRequest, PublicOps DEF HandleAudit, Idle
  <2> QED BY <1>2, <2>1, SetStep DEF HandleAudit
<1>3. CASE TriageStep
  <2>1. PICK c \in Suspended("triage") :
            \/ panel' = Await(Set(panel, "step", panel.ui.step + 1), c)
            \/ panel' = Set(End(Show(panel, c, "live"), c), "step", LastStep)
    BY <1>3 DEF TriageStep
  <2>2. Step(panel, End(Show(panel, c, "live"), c))
    BY <1>0, SuspendedIs, AnswerStep, PublicOps
  <2> QED BY <1>0, <2>1, <2>2, SetAwaitStep, SetStep
<1> QED BY <1>1, <1>2, <1>3

\* The steps of the consent form are steps of handlers.
LEMMA ConsentStep ==
    ASSUME Inv(panel), panel.name = "consent", EditConsent \/ HandleGenerate
    PROVE  Step(panel, panel')
<1>0. Sound(panel) /\ Step(panel, panel) /\ DOMAIN panel = Fields /\ DOMAIN panel.last = {"consent"}
  BY InvSound DEF Inv, Shape
<1>1. CASE EditConsent
  <2>1. (\E f, vs : Edit(f, vs)) \/ Repaged(panel, panel')
    BY <1>0, <1>1 DEF EditConsent, Repaged, Fields
  <2> QED BY <1>0, <2>1, EditStep, RepageStep
<1>2. CASE HandleGenerate
  <2> DEFINE p == Begin(panel, "consent", None, panel.ui.scopes)
             c == CHOOSE d \in p.calls : d.run = p.runs
  <2>1. Step(panel, p)
    BY <1>0, BeginStep, PublicOps, OpsApart
  <2>2. /\ NewCall(panel, "consent", None, panel.ui.scopes) \in p.calls
        /\ p.runs = panel.runs + 1
        /\ p.last = [panel.last EXCEPT !["consent"] = panel.runs + 1]
    BY <1>0, BeginIs
  <2>3. c \in p.calls /\ c.run = p.runs
    <3>1. \E d \in p.calls : d.run = p.runs
      BY <2>2 DEF NewCall
    <3> HIDE DEF p
    <3> QED BY <3>1
  <2>4. c.op = "consent" /\ c.run = p.last[c.op]
    <3>1. CallOK(c, p.last) /\ DOMAIN p.last = {"consent"}
      BY <1>0, <2>1, <2>2, <2>3 DEF Step, Sound, CallsOK
    <3>2. c.op = "consent"
      BY <3>1, Zenon DEF CallOK
    <3>3. p.last["consent"] = p.runs
      BY <1>0, <2>2
    <3> QED BY <2>3, <3>2, <3>3
  <2>5. panel' = End(Show(p, c, "live"), c)
    BY <1>2 DEF HandleGenerate
  <2> HIDE DEF p, c
  <2> QED BY <2>1, <2>3, <2>4, <2>5, AnswerStep
<1> QED BY <1>1, <1>2

\* The steps of the payments ticker are steps of handlers.
LEMMA TickerStep == ASSUME Inv(panel), TickerArrival PROVE Step(panel, panel')
<1>0. Sound(panel) /\ Step(panel, panel) /\ DOMAIN panel = Fields /\ panel.runs \in Nat
  BY InvSound DEF Sound
<1>1. /\ DOMAIN panel' = Fields /\ panel'.name = panel.name /\ panel'.calls = panel.calls
      /\ panel'.busy = panel.busy /\ panel'.shown = panel.shown /\ panel'.logs = panel.logs
      /\ panel'.last = panel.last /\ panel'.runs = panel.runs + 1
  BY <1>0 DEF TickerArrival, Fields
<1> QED BY <1>0, <1>1, PageStep

\* The panels whose handlers finish at the click.
LEMMA SimulatorStep ==
    ASSUME Inv(panel),
           \/ ToggleDocument \/ EditLending \/ EditWealth \/ EditTypology
           \/ ChooseSlide \/ ChooseAgent \/ EditThreshold \/ ChooseShowcase
           \/ NextSlide \/ InvarianceTick
           \/ ToggleMenu \/ FollowLink \/ ClickOutside \/ Scroll
    PROVE  Step(panel, panel')
<1>0. Sound(panel) /\ Step(panel, panel) /\ DOMAIN panel = Fields
  BY InvSound
<1>1. CASE ToggleDocument \/ FollowLink
  <2>1. Repaged(panel, panel')
    BY <1>0, <1>1, Zenon DEF ToggleDocument, FollowLink, Repaged, Fields
  <2> QED BY <1>0, <2>1, RepageStep
<1>2. CASE NextSlide \/ ClickOutside
  BY <1>0, <1>2, SetStep, Zenon DEF NextSlide, ClickOutside
<1>3. CASE \/ EditLending \/ EditWealth \/ EditTypology
           \/ ChooseSlide \/ ChooseAgent \/ EditThreshold \/ ChooseShowcase
           \/ InvarianceTick \/ ToggleMenu \/ Scroll
  BY <1>0, <1>3, EditStep
     DEF EditLending, EditWealth, EditTypology, ChooseSlide, ChooseAgent, EditThreshold,
         ChooseShowcase, InvarianceTick, ToggleMenu, Scroll
<1> QED BY <1>1, <1>2, <1>3

\* The panels of PublicPanels take steps of handlers only.
LEMMA PublicStep ==
    ASSUME Inv(panel), PublicUser \/ PublicTimer \/ PublicResume PROVE Step(panel, panel')
BY CheckoutStep, WalletStep, BiometricsStep, ScorerStep, TriagePanelStep, ConsentStep, TickerStep,
   SimulatorStep
   DEF PublicUser, PublicTimer, PublicResume

-----------------------------------------------------------------------------
(* What the pages keep *)

\* The steps of the API key keep what holds of its page.
LEMMA ApiKeyPage ==
    ASSUME Inv(panel), panel.name = "apikey", ApiKeyUser \/ ApiKeyResume
    PROVE  ApiKeyOK(panel')
<1>0. DOMAIN panel = Fields /\ ApiKeyOK(panel)
  BY InvSound DEF Inv, Pages
<1>1. CASE ShowKey \/ AskRegenerate \/ ReloadOtherTab
  BY <1>0, <1>1 DEF ShowKey, AskRegenerate, ReloadOtherTab, Edit, Set, Idle, ApiKeyOK, Fields
<1>2. CASE CopyKey
  BY <1>0, <1>2 DEF CopyKey, Begin, Set, ApiKeyOK, Fields
<1>3. CASE ConfirmRegenerate
  BY <1>0, <1>3 DEF ConfirmRegenerate, Begin, Set, ApiKeyOK, Fields
<1>4. CASE ResetKey \/ LeavePreferences \/ OtherTabSaves
  <2>1. CASE ResetKey
    BY <1>0, <2>1, Zenon DEF ResetKey, SetApiKey, ApiKeyOK, Fields
  <2>2. CASE LeavePreferences
    BY <1>0, <2>2 DEF LeavePreferences, ApiKeyOK, Fields
  <2>3. CASE OtherTabSaves
    BY <1>0, <2>3 DEF OtherTabSaves, Set, ApiKeyOK, Fields
  <2> QED BY <1>4, <2>1, <2>2, <2>3
<1>5. CASE ReloadTab
  BY <1>0, <1>5 DEF ReloadTab, ApiKeyPanel, Mounted, ApiKeyOK, Fields
<1>6. CASE CopyTimeout
  BY <1>0, <1>6 DEF CopyTimeout, End, Set, ApiKeyOK, Fields
<1>7. CASE KeyGenerated
  <2>1. PICK c : panel' = [SetApiKey(End(panel, c), c.run) EXCEPT
                              !.ui.retired = @ \cup {panel.ui.here}]
    BY <1>7, Zenon DEF KeyGenerated
  <2>2. /\ DOMAIN panel'.ui = DOMAIN panel.ui /\ panel'.ui.dialog = panel.ui.dialog
        /\ panel'.busy \subseteq panel.busy
    BY <1>0, <2>1, Zenon DEF SetApiKey, End, ApiKeyOK, Fields
  <2> QED BY <1>0, <2>2 DEF ApiKeyOK
<1> QED BY <1>1, <1>2, <1>3, <1>4, <1>5, <1>6, <1>7 DEF ApiKeyUser, ApiKeyResume

\* The steps of the wallet keep what holds of its page.
LEMMA WalletPage ==
    ASSUME Inv(panel), panel.name = "wallet", GenerateZKProof \/ WalletResume
    PROVE  WalletOK(panel')
<1>0. DOMAIN panel = Fields /\ WalletOK(panel)
  BY InvSound DEF Inv, Pages
<1>1. CASE GenerateZKProof
  BY <1>0, <1>1 DEF GenerateZKProof, Begin, Reopen, Set, WalletOK, Fields
<1>2. CASE WitnessComputed
  BY <1>0, <1>2 DEF WitnessComputed, Say, Await, Set, WalletOK, Fields
<1>3. CASE ProofGenerated
  BY <1>0, <1>3 DEF ProofGenerated, Say, Await, Suspended, WalletOK, Fields
<1>4. CASE ProofVerified
  <2>1. PICK c : panel' = [End(Say(panel, c, "prove"), c) EXCEPT
                              !.ui.status = "VERIFIED", !.ui.extensions = @ + 1]
    BY <1>4, Zenon DEF ProofVerified
  <2>2. DOMAIN panel'.ui = DOMAIN panel.ui /\ panel'.ui.status = "VERIFIED"
    BY <1>0, <2>1, Zenon DEF Say, End, WalletOK, Fields
  <2> QED BY <1>0, <2>2 DEF WalletOK
<1> QED BY <1>1, <1>2, <1>3, <1>4 DEF WalletResume

\* The steps of the checkout keep what holds of its page.
LEMMA CheckoutPage ==
    ASSUME Inv(panel), panel.name = "checkout", CheckoutUser \/ CheckoutResume
    PROVE  CheckoutOK(panel')
<1>0. /\ DOMAIN panel = Fields /\ CheckoutOK(panel) /\ DOMAIN panel.last = {"checkout"}
      /\ \A c \in panel.calls : DOMAIN c = CallFields
  BY InvSound DEF Inv, Pages, Shape, Sound, CallsOK, CallOK
<1>1. CASE FillForm
  BY <1>0, <1>1 DEF FillForm, OnForm, Edit, Set, CheckoutOK, Fields
<1>2. CASE CheckoutSubmit
  <2>1. panel.calls = {} /\ "status" \in DOMAIN panel.ui
    BY <1>0, <1>2 DEF CheckoutSubmit, OnForm, CheckoutOK
  <2> DEFINE d == NewCall(panel, "checkout", "checkout", None)
  <2>2. /\ panel'.calls = {d}
        /\ panel'.ui = [panel.ui EXCEPT !["status"] = "PROCESSING"]
        /\ panel'.last = [panel.last EXCEPT !["checkout"] = panel.runs + 1]
    BY <1>0, <1>2, <2>1 DEF CheckoutSubmit, Begin, Set, Fields
  <2>3. d.run = panel.runs + 1
    BY DEF NewCall
  <2> HIDE DEF d
  <2> QED BY <1>0, <2>1, <2>2, <2>3 DEF CheckoutOK
<1>3. CASE Underwrite
  <2>1. PICK c \in panel.calls : panel' = Await(panel, c)
    BY <1>3 DEF Underwrite, Suspended
  <2> DEFINE d == [c EXCEPT !.at = @ + 1]
  <2>2. /\ panel'.calls = (panel.calls \ {c}) \cup {d}
        /\ panel'.ui = panel.ui /\ panel'.last = panel.last
    BY <1>0, <2>1 DEF Await, Fields
  <2>3. d.run = c.run
    BY <1>0 DEF CallFields
  <2> HIDE DEF d
  <2> QED BY <1>0, <2>2, <2>3 DEF CheckoutOK
<1>4. CASE Underwritten
  <2>1. PICK c \in Suspended("checkout"), d \in {"APPROVED", "DECLINED"}, throws \in BOOLEAN :
            /\ c.at = 1
            /\ panel' = [End(panel, c) EXCEPT
                            !.ui.status = IF throws THEN "DECLINED" ELSE d,
                            !.ui.details = Decision(c.run, d),
                            !.ui.funded = IF d = "APPROVED" THEN @ \cup {c.run} ELSE @]
    BY <1>4, Zenon DEF Underwritten
  <2>2. c \in panel.calls
    BY DEF Suspended
  <2>3. c.run = panel.last["checkout"] /\ panel.calls \ {c} = {}
    BY <1>0, <2>2 DEF CheckoutOK
  <2>4. panel'.calls = {} /\ panel'.last = panel.last
    BY <1>0, <2>1, <2>3 DEF End, Fields
  <2>5. /\ DOMAIN panel'.ui = DOMAIN panel.ui
        /\ panel'.ui.status = IF throws THEN "DECLINED" ELSE d
        /\ panel'.ui.details = Decision(c.run, d)
        /\ panel'.ui.funded = IF d = "APPROVED" THEN panel.ui.funded \cup {c.run}
                              ELSE panel.ui.funded
    BY <1>0, <2>1, Zenon DEF End, Fields, CheckoutOK
  <2> QED BY <1>0, <2>3, <2>4, <2>5 DEF CheckoutOK
<1>5. CASE UnderwritingFails
  <2>1. PICK c \in panel.calls : panel' = Set(End(panel, c), "status", "DECLINED")
    BY <1>5 DEF UnderwritingFails, Suspended
  <2>2. panel.calls \ {c} = {}
    BY <1>0 DEF CheckoutOK
  <2> QED BY <1>0, <2>1, <2>2 DEF End, Set, CheckoutOK, Fields
<1>6. CASE BackToForm
  BY <1>0, <1>6 DEF BackToForm, Set, CheckoutOK, Fields
<1> QED BY <1>1, <1>2, <1>3, <1>4, <1>5, <1>6 DEF CheckoutUser, CheckoutResume

-----------------------------------------------------------------------------
(* Nothing is left waiting *)

\* What a handler in flight waits for still waits when another starts.
LEMMA WaitingBegin ==
    ASSUME NEW p, DOMAIN p = Fields, WaitingOK(p), NEW op, NEW flag, NEW arg
    PROVE  /\ WaitingOK(Begin(p, op, flag, arg)) /\ DOMAIN Begin(p, op, flag, arg) = Fields
           /\ op \in Removers
                 => WaitingOK([Begin(p, op, flag, arg) EXCEPT !.ui.waiting = @ \cup {p.runs + 1}])
<1> DEFINE q == Begin(p, op, flag, arg)
           d == NewCall(p, op, flag, arg)
<1>1. DOMAIN q = Fields /\ q.ui = p.ui /\ q.calls = p.calls \cup {d}
  BY DEF Begin, Fields
<1>2. d.run = p.runs + 1 /\ d.op = op
  BY DEF NewCall
<1> HIDE DEF q, d
<1>3. WaitingOK(q)
  BY <1>1 DEF WaitingOK
<1>4. ASSUME op \in Removers PROVE WaitingOK([q EXCEPT !.ui.waiting = @ \cup {p.runs + 1}])
  <2> DEFINE r == [q EXCEPT !.ui.waiting = @ \cup {p.runs + 1}]
  <2>1. /\ r.calls = p.calls \cup {d} /\ DOMAIN r.ui = DOMAIN p.ui
        /\ r.ui.waiting = p.ui.waiting \cup {p.runs + 1}
    BY <1>1 DEF WaitingOK, Fields
  <2> HIDE DEF r
  <2>2. "waiting" \in DOMAIN r.ui
    BY <2>1 DEF WaitingOK
  <2>3. ASSUME NEW w \in r.ui.waiting PROVE \E c \in r.calls : c.run = w /\ c.op \in Removers
    <3>1. CASE w \in p.ui.waiting
      BY <2>1, <3>1 DEF WaitingOK
    <3>2. CASE w = p.runs + 1
      BY <1>2, <1>4, <2>1, <3>2
    <3> QED BY <2>1, <2>3, <3>1, <3>2
  <2>4. WaitingOK(r)
    BY <2>2, <2>3 DEF WaitingOK
  <2> QED BY <2>4 DEF r
<1> QED BY <1>1, <1>3, <1>4 DEF q

\* A setter of another field leaves what waits.
LEMMA WaitingSet ==
    ASSUME NEW p, DOMAIN p = Fields, WaitingOK(p), NEW f, f # "waiting", NEW v
    PROVE  WaitingOK(Set(p, f, v)) /\ DOMAIN Set(p, f, v) = Fields
BY DEF Set, WaitingOK, Fields

\* A toast that appears has a timer.
LEMMA WaitingToast ==
    ASSUME NEW p, DOMAIN p = Fields, WaitingOK(p)
    PROVE  /\ WaitingOK(Toast(p)) /\ WaitingOK(ProgressToast(p))
           /\ DOMAIN ProgressToast(p) = Fields
<1>1. WaitingOK(Toast(p)) /\ WaitingOK(ProgressToast(p))
  BY WaitingBegin DEF Toast, ProgressToast, Removers
<1>2. DOMAIN ProgressToast(p) = Fields
  BY DEF ProgressToast, Begin, Fields
<1> QED BY <1>1, <1>2

\* A handler that removes something takes away what it holds; the others hold
\* nothing.
LEMMA WaitingEnd ==
    ASSUME NEW p, DOMAIN p = Fields, WaitingOK(p), NEW c
    PROVE  /\ c.op \notin Removers => WaitingOK(End(p, c))
           /\ WaitingOK([End(p, c) EXCEPT !.ui.waiting = @ \ {c.run}])
           /\ DOMAIN End(p, c) = Fields
<1> DEFINE q == End(p, c)
           r == [End(p, c) EXCEPT !.ui.waiting = @ \ {c.run}]
<1>1. /\ DOMAIN q = Fields /\ q.ui = p.ui /\ q.calls = p.calls \ {c}
  BY DEF End, Fields
<1>2. /\ r.calls = p.calls \ {c} /\ DOMAIN r.ui = DOMAIN p.ui
      /\ r.ui.waiting = p.ui.waiting \ {c.run}
  BY <1>1 DEF WaitingOK, Fields
<1> HIDE DEF q, r
<1>3. c.op \notin Removers => WaitingOK(q)
  BY <1>1 DEF WaitingOK
<1>4. WaitingOK(r)
  BY <1>2 DEF WaitingOK
<1> QED BY <1>1, <1>3, <1>4 DEF q, r

\* A handler that goes on still removes what waits for it.
LEMMA WaitingAwait ==
    ASSUME NEW p, DOMAIN p = Fields, WaitingOK(p), NEW c, DOMAIN c = CallFields
    PROVE  WaitingOK(Await(p, c)) /\ DOMAIN Await(p, c) = Fields
<1>1. PICK d : /\ d.op = c.op /\ d.run = c.run
               /\ DOMAIN Await(p, c) = Fields /\ Await(p, c).ui = p.ui
               /\ Await(p, c).calls = (p.calls \ {c}) \cup {d}
  BY AwaitIs
<1> QED BY <1>1 DEF WaitingOK

\* A toast that goes takes its own timer with it.
LEMMA ToastPage ==
    ASSUME Inv(panel), WaitingOK(panel), ToastExpires \/ DismissToast \/ CloseToast
    PROVE  WaitingOK(panel')
<1>0. DOMAIN panel = Fields
  BY InvSound
<1>1. CASE ToastExpires \/ CloseToast
  BY <1>0, <1>1, WaitingEnd DEF ToastExpires, CloseToast
<1>2. CASE DismissToast
  BY <1>0, <1>2 DEF DismissToast, WaitingOK, Fields
<1> QED BY <1>1, <1>2

\* The steps of the preferences keep what holds of its page.
LEMMA PreferencesPage ==
    ASSUME Inv(panel), panel.name = "preferences", PreferencesUser \/ PreferencesResume
    PROVE  WaitingOK(panel')
<1>0. DOMAIN panel = Fields /\ WaitingOK(panel) /\ \A c \in panel.calls : DOMAIN c = CallFields
  BY InvSound DEF Inv, Pages, Sound, CallsOK, CallOK
<1>1. CASE EditLook
  BY <1>0, <1>1, WaitingSet DEF EditLook, Edit
<1>2. CASE HandleRegionChange
  <2>1. PICK r : panel' = [Begin(panel, "reroute", None, None) EXCEPT
                              !.ui.region = r, !.ui.syncing = TRUE]
    BY <1>2, Zenon DEF HandleRegionChange
  <2>2. WaitingOK(Begin(panel, "reroute", None, None)) /\ DOMAIN Begin(panel, "reroute", None, None) = Fields
    BY <1>0, WaitingBegin, Zenon
  <2> QED BY <2>1, <2>2, Zenon DEF WaitingOK, Fields
<1>3. CASE HandleReset
  <2>1. WaitingOK(Begin(panel, "reset", None, None)) /\ DOMAIN Begin(panel, "reset", None, None) = Fields
    BY <1>0, WaitingBegin, Zenon
  <2> QED BY <1>3, <2>1, Zenon DEF HandleReset, WaitingOK, Fields
<1>4. CASE HandleExport
  <2>1. PICK x : panel' = Set(Begin(ProgressToast(panel), "export", None, None), "export", x)
    BY <1>4 DEF HandleExport
  <2> QED BY <1>0, <2>1, WaitingToast, WaitingBegin, WaitingSet, Zenon
<1>5. CASE DismissToast
  BY <1>0, <1>5, ToastPage
<1>6. CASE RerouteEnds \/ ExportEnds \/ ResetMessageEnds
  <2>1. PICK c, f, v : panel' = Set(End(panel, c), f, v) /\ f # "waiting" /\ c.op \notin Removers
    BY <1>6, Zenon DEF RerouteEnds, ExportEnds, ResetMessageEnds, Suspended, Removers
  <2> QED BY <1>0, <2>1, WaitingEnd, WaitingSet, Zenon
<1>7. CASE ProgressCompletes
  BY <1>0, <1>7, WaitingAwait DEF ProgressCompletes, Suspended
<1>8. CASE ProgressExpires
  BY <1>0, <1>8, WaitingEnd DEF ProgressExpires
<1> QED BY <1>1, <1>2, <1>3, <1>4, <1>5, <1>6, <1>7, <1>8 DEF PreferencesUser, PreferencesResume

\* The steps of the settings forms keep what holds of its page.
LEMMA FormsPage ==
    ASSUME Inv(panel), panel.name = "forms", FormsUser \/ ToastExpires
    PROVE  WaitingOK(panel')
<1>0. DOMAIN panel = Fields /\ WaitingOK(panel)
  BY InvSound DEF Inv, Pages
<1>1. CASE HandleToggle \/ SubmitInvite
  BY <1>0, <1>1, WaitingSet, WaitingToast DEF HandleToggle, SubmitInvite
<1>2. CASE \/ OpenInvite \/ CloseInvite \/ EditInvite \/ EditRetention \/ ToggleDetails
  BY <1>0, <1>2, WaitingSet
     DEF OpenInvite, CloseInvite, EditInvite, EditRetention, ToggleDetails, Edit
<1>3. CASE DismissToast \/ ToastExpires
  BY <1>0, <1>3, ToastPage
<1> QED BY <1>1, <1>2, <1>3 DEF FormsUser

\* The steps of the workspace keep what holds of its page.
LEMMA WorkspacePage ==
    ASSUME Inv(panel), panel.name = "workspace", WorkspaceUser \/ CheckDb \/ WorkspaceResume
    PROVE  WaitingOK(panel')
<1>0. DOMAIN panel = Fields /\ WaitingOK(panel) /\ \A c \in panel.calls : DOMAIN c = CallFields
  BY InvSound DEF Inv, Pages, Sound, CallsOK, CallOK
<1>1. CASE ExportRows
  BY <1>0, <1>1, WaitingToast DEF ExportRows
<1>2. CASE HandleRunReview
  <2>1. panel' = Toast(Set(Begin(panel, "review", "review", None), "done", FALSE))
    BY <1>2 DEF HandleRunReview
  <2> QED BY <1>0, <2>1, WaitingBegin, WaitingSet, WaitingToast, Zenon
<1>3. CASE CloseToast \/ ToastExpires
  BY <1>0, <1>3, ToastPage
<1>4. CASE CheckDb
  BY <1>0, <1>4, WaitingBegin, Zenon DEF CheckDb
<1>5. CASE CheckEnds
  <2>1. PICK c, v : panel' = Set(End(panel, c), "linked", v) /\ c.op \notin Removers
    BY <1>5 DEF CheckEnds, Suspended, Removers
  <2> QED BY <1>0, <2>1, WaitingEnd, WaitingSet, Zenon
<1>6. CASE ReviewStep
  <2>1. PICK c \in panel.calls : panel' = Toast(Await(panel, c))
    BY <1>6 DEF ReviewStep, Suspended
  <2> QED BY <1>0, <2>1, WaitingAwait, WaitingToast
<1>7. CASE ReviewEnds
  <2>1. PICK c : panel' = Toast(Set(End(panel, c), "done", TRUE)) /\ c.op \notin Removers
    BY <1>7, Zenon DEF ReviewEnds, Suspended, Removers
  <2> QED BY <1>0, <2>1, WaitingEnd, WaitingSet, WaitingToast, Zenon
<1> QED BY <1>1, <1>2, <1>3, <1>4, <1>5, <1>6, <1>7 DEF WorkspaceUser, WorkspaceResume

\* The steps of the terminal keep what holds of its page.
LEMMA TerminalPage ==
    ASSUME Inv(panel), panel.name = "terminal",
           HandleCommand \/ ToggleExpanded \/ CommandOutput \/ ClearOutput
    PROVE  WaitingOK(panel')
<1>0. DOMAIN panel = Fields /\ WaitingOK(panel)
  BY InvSound DEF Inv, Pages
<1>1. CASE HandleCommand
  BY <1>0, <1>1, WaitingBegin DEF HandleCommand, Removers
<1>2. CASE ToggleExpanded
  BY <1>0, <1>2, WaitingSet DEF ToggleExpanded, Edit
<1>3. CASE CommandOutput
  <2>1. PICK c : panel' = [End(panel, c) EXCEPT
                              !.ui.waiting = @ \ {c.run},
                              !.ui.answered = @ \cup ({c.run} \cap panel.ui.waiting)]
    BY <1>3, Zenon DEF CommandOutput
  <2> DEFINE q == [End(panel, c) EXCEPT !.ui.waiting = @ \ {c.run}]
  <2>2. WaitingOK(q)
    BY <1>0, WaitingEnd
  <2>3. /\ panel'.calls = q.calls /\ DOMAIN panel'.ui = DOMAIN q.ui
        /\ panel'.ui.waiting = q.ui.waiting
    BY <1>0, <2>1, Zenon DEF End, WaitingOK, Fields
  <2> QED BY <2>2, <2>3 DEF WaitingOK
<1>4. CASE ClearOutput
  <2>1. PICK c : panel' = [End(panel, c) EXCEPT !.ui.waiting = {}, !.ui.answered = {}]
    BY <1>4, Zenon DEF ClearOutput
  <2>2. DOMAIN panel'.ui = DOMAIN panel.ui /\ panel'.ui.waiting = {}
    BY <1>0, <2>1, Zenon DEF End, WaitingOK, Fields
  <2> QED BY <1>0, <2>2 DEF WaitingOK
<1> QED BY <1>1, <1>2, <1>3, <1>4

-----------------------------------------------------------------------------
(* The playbook, the filings, the decisions and the interval *)

\* The steps of the playbook builder keep what holds of its page.
LEMMA PlaybookPage ==
    ASSUME Inv(panel), panel.name = "playbook", PlaybookUser \/ PlaybookResume
    PROVE  PlaybookOK(panel')
<1>0. /\ DOMAIN panel = Fields /\ PlaybookOK(panel)
      /\ \A c \in panel.calls : DOMAIN c = CallFields /\ c.at \in Nat
  BY InvSound DEF Inv, Pages, Sound, CallsOK, CallOK
<1>1. Idle("playbook") => panel.calls = {}
  <2>1. panel.busy \ Shared = {c.flag : c \in panel.calls} \ NoSpinner
    BY DEF Inv, Sound, BusyOK
  <2>2. "playbook" \notin NoSpinner
    BY NoneAssumption DEF NoSpinner, Shared, Spinners
  <2> QED BY <1>0, <2>1, <2>2 DEF Idle, PlaybookOK
<1>2. CASE AddStep
  <2>1. PICK s \in Steps : panel' = [panel EXCEPT !.ui.sequence = Append(@, s),
                                                  !.ui.complete = FALSE]
    BY <1>2, Zenon DEF AddStep
  <2>2. panel.calls = {}
    BY <1>1, <1>2 DEF AddStep
  <2>3. /\ DOMAIN panel'.ui = DOMAIN panel.ui /\ panel'.ui.executed = panel.ui.executed
        /\ panel'.ui.sequence = Append(panel.ui.sequence, s) /\ panel'.ui.complete = FALSE
        /\ panel'.calls = {}
    BY <1>0, <2>1, <2>2, Zenon DEF PlaybookOK, Fields
  <2>4. Append(panel.ui.sequence, s) \in Seq(Steps)
    BY <1>0, AppendProperties DEF PlaybookOK
  <2> QED BY <1>0, <2>3, <2>4 DEF PlaybookOK
<1>3. CASE RemoveStep
  <2>1. PICK i \in DOMAIN panel.ui.sequence :
            panel' = [panel EXCEPT !.ui.sequence = RemoveAt(@, i), !.ui.complete = FALSE]
    BY <1>3, Zenon DEF RemoveStep
  <2>2. panel.calls = {}
    BY <1>1, <1>3 DEF RemoveStep
  <2>3. /\ DOMAIN panel'.ui = DOMAIN panel.ui /\ panel'.ui.executed = panel.ui.executed
        /\ panel'.ui.sequence = RemoveAt(panel.ui.sequence, i) /\ panel'.ui.complete = FALSE
        /\ panel'.calls = {}
    BY <1>0, <2>1, <2>2, Zenon DEF PlaybookOK, Fields
  <2>4. RemoveAt(panel.ui.sequence, i) \in Seq(Steps)
    <3>1. panel.ui.sequence \in Seq(Steps) /\ i \in 1..Len(panel.ui.sequence)
      BY <1>0 DEF PlaybookOK
    <3>2. /\ SubSeq(panel.ui.sequence, 1, i - 1) \in Seq(Steps)
          /\ SubSeq(panel.ui.sequence, i + 1, Len(panel.ui.sequence)) \in Seq(Steps)
      BY <3>1, SubSeqProperties
    <3> QED BY <3>2, ConcatProperties DEF RemoveAt
  <2> QED BY <1>0, <2>3, <2>4 DEF PlaybookOK
<1>4. CASE ClearPlaybook
  <2>1. panel.calls = {}
    BY <1>1, <1>4 DEF ClearPlaybook
  <2>2. /\ DOMAIN panel'.ui = DOMAIN panel.ui /\ panel'.ui.executed = panel.ui.executed
        /\ panel'.ui.sequence = <<>> /\ panel'.ui.complete = FALSE /\ panel'.calls = {}
    BY <1>0, <1>4, <2>1, Zenon DEF ClearPlaybook, PlaybookOK, Fields
  <2>3. <<>> \in Seq(Steps)
    BY EmptySeq
  <2> QED BY <1>0, <2>2, <2>3 DEF PlaybookOK
<1>5. CASE ExecutePlaybook
  <2>1. panel.calls = {} /\ panel.ui.sequence # <<>>
    BY <1>1, <1>5 DEF ExecutePlaybook
  <2> DEFINE d == NewCall(panel, "execute", "playbook", panel.ui.sequence)
  <2>2. /\ DOMAIN panel'.ui = DOMAIN panel.ui /\ panel'.ui.executed = <<>>
        /\ panel'.ui.sequence = panel.ui.sequence /\ panel'.ui.complete = FALSE
        /\ panel'.calls = {d}
    BY <1>0, <1>5, <2>1, ZenonT(60) DEF ExecutePlaybook, Begin, PlaybookOK, Fields
  <2>3. d.flag = "playbook" /\ d.arg = panel.ui.sequence /\ d.at = 0
    BY DEF NewCall
  <2>4. 0 < Len(panel.ui.sequence)
    BY <1>0, <2>1, EmptySeq DEF PlaybookOK
  <2>5. <<>> \in Seq(Steps) /\ Len(<<>>) = 0
    BY EmptySeq
  <2> HIDE DEF d
  <2> QED BY <1>0, <2>2, <2>3, <2>4, <2>5 DEF PlaybookOK
<1>6. CASE PlaybookResume
  <2>1. PICK c \in panel.calls :
            LET done == c.at + 1
                p == [panel EXCEPT !.ui.progress = done,
                                   !.ui.executed = Append(@, c.arg[done])]
            IN  panel' = IF done < Len(c.arg) THEN Await(p, c)
                         ELSE [End(p, c) EXCEPT !.ui.complete = TRUE]
    BY <1>6, Zenon DEF PlaybookResume, Suspended
  <2> DEFINE done == c.at + 1
             seq == panel.ui.sequence
             executed == Append(panel.ui.executed, c.arg[done])
             p == [panel EXCEPT !.ui.progress = done, !.ui.executed = executed]
             d == [c EXCEPT !.at = @ + 1]
  <2>2. /\ c.arg = seq /\ seq \in Seq(Steps) /\ panel.ui.executed \in Seq(Steps)
        /\ c.at \in Nat /\ c.at < Len(seq) /\ Len(panel.ui.executed) = c.at
        /\ \A i \in 1..c.at : panel.ui.executed[i] = seq[i]
        /\ c.flag = "playbook" /\ Len(seq) \in Nat
    BY <1>0 DEF PlaybookOK
  <2>3. done \in 1..Len(seq) /\ seq[done] \in Steps
    <3>1. done \in 1..Len(seq)
      BY <2>2
    <3> QED BY <2>2, <3>1, ElementOfSeq
  <2>4. /\ executed \in Seq(Steps) /\ Len(executed) = done
        /\ \A i \in 1..done : executed[i] = seq[i]
    <3>1. /\ executed \in Seq(Steps) /\ Len(executed) = c.at + 1
          /\ \A i \in 1..c.at : executed[i] = panel.ui.executed[i]
          /\ executed[c.at + 1] = seq[done]
      BY <2>2, <2>3, AppendProperties
    <3> QED BY <2>2, <3>1
  <2>5. /\ DOMAIN p = Fields /\ DOMAIN p.ui = DOMAIN panel.ui /\ p.calls = panel.calls
        /\ p.ui.sequence = seq /\ p.ui.executed = executed /\ p.ui.progress = done
        /\ p.ui.complete = panel.ui.complete
    BY <1>0, Zenon DEF PlaybookOK, Fields
  <2>6. panel.calls = {c}
    <3>1. \A e \in panel.calls : c.flag = e.flag /\ c.flag \notin NoSpinner => c = e
      BY DEF Inv, Sound, BusyOK
    <3>2. "playbook" \notin NoSpinner
      BY NoneAssumption DEF NoSpinner, Shared, Spinners
    <3> QED BY <1>0, <2>2, <3>1, <3>2 DEF PlaybookOK
  <2>7. d.flag = c.flag /\ d.arg = c.arg /\ d.at = done
    BY <1>0 DEF CallFields
  <2>8. panel.ui.complete = FALSE \/ ~panel.ui.complete
    BY <1>0 DEF PlaybookOK
  <2>9. CASE done < Len(seq)
    <3>1. panel' = Await(p, c)
      BY <2>1, <2>2, <2>9
    <3> HIDE DEF p
    <3>2. panel'.ui = p.ui /\ panel'.calls = (panel.calls \ {c}) \cup {d}
      BY <2>5, <3>1 DEF Await, Fields
    <3> HIDE DEF d, executed, done, seq
    <3>3. panel'.calls = {d}
      BY <2>6, <3>2
    <3>4. ~panel'.ui.complete
      BY <1>0, <2>5, <2>6, <3>2 DEF PlaybookOK
    <3> QED BY <1>0, <2>2, <2>4, <2>5, <2>7, <2>9, <3>2, <3>3, <3>4 DEF PlaybookOK
  <2>10. CASE ~(done < Len(seq))
    <3>1. panel' = [End(p, c) EXCEPT !.ui.complete = TRUE]
      BY <2>1, <2>2, <2>10
    <3>2. executed = seq /\ done = Len(seq)
      <4>1. Len(executed) = Len(seq) /\ done = Len(seq)
        BY <2>2, <2>3, <2>4, <2>10
      <4> HIDE DEF executed, done
      <4> QED BY <2>2, <2>4, <4>1, SeqEqual, Zenon
    <3> HIDE DEF p
    <3>3. /\ DOMAIN panel'.ui = DOMAIN p.ui /\ panel'.ui.sequence = p.ui.sequence
          /\ panel'.ui.executed = p.ui.executed /\ panel'.ui.progress = p.ui.progress
          /\ panel'.calls = panel.calls \ {c}
      BY <1>0, <2>5, <3>1 DEF End, Fields, PlaybookOK
    <3> HIDE DEF executed, done, seq
    <3>4. panel'.calls = {}
      BY <2>6, <3>3
    <3> QED BY <1>0, <2>2, <2>4, <2>5, <3>2, <3>3, <3>4 DEF PlaybookOK
  <2> QED BY <2>9, <2>10
<1> QED BY <1>2, <1>3, <1>4, <1>5, <1>6 DEF PlaybookUser

\* A timed line changes neither the page nor who is in flight.
LEMMA LinePrinted ==
    ASSUME Sound(panel), NEW op, NEW lines, NEW t, PrintLine(op, lines, t)
    PROVE  /\ panel'.ui = panel.ui /\ panel'.runs = panel.runs
           /\ \E c \in panel.calls : \E d : d.op = c.op /\ d.flag = c.flag /\ d.run = c.run
                                        /\ panel'.calls = (panel.calls \ {c}) \cup {d}
<1>0. DOMAIN panel = Fields /\ \A c \in panel.calls : DOMAIN c = CallFields
  BY DEF Sound, CallsOK, CallOK
<1>1. PICK c \in panel.calls : panel' = Await(Say(panel, c, t), c)
  BY DEF PrintLine, Suspended
<1> DEFINE p == Say(panel, c, t)
<1>2. DOMAIN p = Fields /\ p.ui = panel.ui /\ p.calls = panel.calls /\ p.runs = panel.runs
  BY <1>0 DEF Say, Fields
<1>3. DOMAIN c = CallFields /\ panel' = Await(p, c)
  BY <1>0, <1>1
<1> HIDE DEF p
<1> QED BY <1>2, <1>3, AwaitIs

\* What keeps the preparations and transmissions of a page sound: a step that
\* touches neither, and starts no handler,
LEMMA FilingKept ==
    ASSUME NEW p, NEW q, NEW op, NEW row, NEW next, FilingOK(p, op, row),
           q.ui.prepared = p.ui.prepared, q.ui.sent = p.ui.sent, q.runs = p.runs,
           \A d \in q.calls : \E c \in p.calls : d.op = c.op /\ d.run = c.run,
           next \in {row, None}
    PROVE  /\ FilingOK(q, op, next)
           /\ Unused(p) /\ (q.calls = {} => p.calls = {}) => Unused(q)
BY DEF FilingOK, Unused, Older

\* a step that takes the mark back,
LEMMA FilingReset ==
    ASSUME NEW p, NEW q, NEW op, NEW row, NEW next, FilingOK(p, op, row),
           q.ui.prepared = {}, q.ui.sent = p.ui.sent, q.runs = p.runs, q.calls = p.calls
    PROVE  FilingOK(q, op, next)
BY DEF FilingOK, Older

\* the start of a preparation, page p becoming page q with handler c in flight,
BegunBy(p, q, c) ==
    /\ q.ui = p.ui /\ q.runs = p.runs + 1
    /\ c.run = p.runs + 1 /\ q.calls = p.calls \cup {c}

LEMMA FilingBegun ==
    ASSUME NEW p, NEW q, NEW op, NEW row, FilingOK(p, op, row), p.runs \in Nat,
           NEW c, BegunBy(p, q, c)
    PROVE  FilingOK(q, op, row) /\ (Unused(p) => Unused(q))
<1>0. /\ q.ui = p.ui /\ q.runs = p.runs + 1
      /\ c.run = p.runs + 1 /\ q.calls = p.calls \cup {c}
  BY DEF BegunBy
<1>1. Older(q.ui, q.runs + 1)
  BY <1>0 DEF FilingOK, Older
<1>2. \A d \in q.calls : d.op = op => Older(q.ui, d.run)
  BY <1>0 DEF FilingOK
<1> QED BY <1>0, <1>1, <1>2 DEF FilingOK, Unused

\* its end, the only handler in flight, which marks the row on display,
LEMMA FilingMarked ==
    ASSUME NEW p, NEW q, NEW op, NEW row, FilingOK(p, op, row), p.runs \in Nat,
           NEW c \in p.calls, c.op = op, c.run \in Nat, c.run <= p.runs,
           q.ui.prepared = {Preparation(c, row)}, q.ui.sent = p.ui.sent, q.runs = p.runs,
           q.calls = {}
    PROVE  FilingOK(q, op, row) /\ Unused(q)
<1> DEFINE new == Preparation(c, row)
<1>1. new.run = c.run /\ new.on = row
  BY DEF Preparation
<1>2. \A s \in p.ui.sent : \A r \in s.by : r.run \in Nat /\ r.run < c.run
  BY DEF FilingOK, Older
<1> HIDE DEF new
<1>3. Older(q.ui, q.runs + 1)
  BY <1>1 DEF FilingOK, Older, new
<1>4. \A s \in q.ui.sent : s.by # {new}
  <2> SUFFICES ASSUME NEW s \in q.ui.sent, s.by = {new} PROVE FALSE
    OBVIOUS
  <2>1. new.run \in Nat /\ new.run < c.run
    BY <1>2
  <2> QED BY <1>1, <2>1
<1>5. q.ui.prepared = {new}
  BY DEF new
<1> QED BY <1>1, <1>3, <1>4, <1>5 DEF FilingOK, Unused

\* and a transmission from a row under a mark that served none: page p becomes
\* page q with s sent and handler c in flight.
SentBy(p, q, row, s, c) ==
    /\ s.by = p.ui.prepared /\ s.on = row
    /\ q.calls = p.calls \cup {c} /\ q.runs = p.runs + 1
    /\ DOMAIN q.ui = DOMAIN p.ui
    /\ q.ui.sent = p.ui.sent \cup {s}
    /\ \A f \in DOMAIN p.ui \ {"sent"} : q.ui[f] = p.ui[f]

LEMMA FilingSent ==
    ASSUME NEW p, NEW q, NEW op, NEW row, FilingOK(p, op, row), p.runs \in Nat, row # None,
           Unused(p), p.calls = {}, "prepared" \in DOMAIN p.ui,
           NEW s, NEW c, SentBy(p, q, row, s, c), c.op # op
    PROVE  FilingOK(q, op, row) /\ Unused(q)
<1>0. /\ s.by = p.ui.prepared /\ s.on = row /\ q.calls = {c} /\ q.runs = p.runs + 1
      /\ q.ui.prepared = p.ui.prepared /\ q.ui.sent = p.ui.sent \cup {s}
  BY DEF SentBy
<1>1. \A t \in p.ui.sent : t.by # s.by
  BY <1>0 DEF Unused
<1>2. \E r \in s.by : r.on = s.on
  BY <1>0 DEF Unused, FilingOK
<1>3. Older(q.ui, q.runs + 1)
  BY <1>0 DEF FilingOK, Older
<1> QED BY <1>0, <1>1, <1>2, <1>3 DEF FilingOK, Unused

\* What a click that transmits does to a page, its terminal continued or
\* reopened.
LEMMA TransmittedIs ==
    ASSUME NEW p, DOMAIN p = Fields, {"prepared", "sent"} \subseteq DOMAIN p.ui,
           NEW op, NEW flag, NEW item, NEW row, NEW q, NEW b,
           b.ui = p.ui, b.runs = p.runs + 1, DOMAIN b = Fields,
           b.calls = p.calls \cup {NewCall(p, op, flag, item)},
           q = Transmitted(b, item, row)
    PROVE  \E s : SentBy(p, q, row, s, NewCall(p, op, flag, item))
<1> DEFINE s == [item |-> item, on |-> row, run |-> p.runs + 1, by |-> p.ui.prepared]
<1>1. /\ q.ui = [b.ui EXCEPT !.sent = @ \cup {[item |-> item, on |-> row, run |-> b.runs,
                                              by |-> b.ui.prepared]}]
      /\ q.runs = b.runs /\ q.calls = b.calls
  BY DEF Transmitted, Fields
<1>2. q.ui = [p.ui EXCEPT !.sent = @ \cup {s}]
  BY <1>1
<1>3. s.by = p.ui.prepared /\ s.on = row
  OBVIOUS
<1> HIDE DEF s
<1> QED BY <1>1, <1>2, <1>3 DEF SentBy

\* The steps of the payments page keep what holds of its page.
LEMMA PaymentsPage ==
    ASSUME Inv(panel), panel.name = "payments", PaymentsUser \/ Ingest \/ PaymentsResume
    PROVE  PaymentsOK(panel')
<1>0. /\ DOMAIN panel = Fields /\ Sound(panel) /\ PaymentsOK(panel) /\ panel.runs \in Nat
      /\ FilingOK(panel, "compile", panel.ui.tx)
      /\ DOMAIN panel.ui = {"ingesting", "txs", "tx", "step", "prepared", "sent"}
  BY InvSound DEF Inv, Pages, Sound, PaymentsOK
<1>1. /\ \A c, d \in panel.calls : c = d
      /\ Idle("dispute") => panel.calls = {}
  <2>1. \A c \in panel.calls : c.op \in {"compile", "submit"}
    BY DEF Inv, Shape, Sound, CallsOK, CallOK
  <2>2. \A c \in panel.calls : c.flag = "dispute"
    BY <1>0, <2>1 DEF Sound, CallsOK, CallOK, Printing, SpinnerOf
  <2>3. "dispute" \notin NoSpinner
    BY NoneAssumption DEF NoSpinner, Shared, Spinners
  <2> QED BY <1>0, <2>2, <2>3 DEF Sound, BusyOK, Idle
<1>2. CASE ToggleIngestion \/ CloseDispute \/ Ingest
  <2>1. /\ DOMAIN panel'.ui = DOMAIN panel.ui
        /\ panel'.ui.prepared = panel.ui.prepared /\ panel'.ui.sent = panel.ui.sent
        /\ panel'.ui.step = panel.ui.step /\ panel'.ui.tx \in {panel.ui.tx, None}
        /\ panel'.runs = panel.runs /\ panel'.calls = panel.calls
    <3>1. CASE ToggleIngestion
      BY <1>0, <3>1, Zenon DEF ToggleIngestion, Fields
    <3>2. CASE CloseDispute
      BY <1>0, <3>2, Zenon DEF CloseDispute, Set, Fields
    <3>3. CASE Ingest
      <4>1. PICK v : panel' = Set(panel, "txs", v)
        BY <3>3, Zenon DEF Ingest
      <4> QED BY <1>0, <4>1, Zenon DEF Set, Fields
    <3> QED BY <1>2, <3>1, <3>2, <3>3, Zenon
  <2>2. /\ FilingOK(panel', "compile", panel'.ui.tx)
        /\ Unused(panel) => Unused(panel')
    BY <1>0, <2>1, FilingKept
  <2> QED BY <1>0, <2>1, <2>2 DEF PaymentsOK
<1>3. CASE AuditDispute
  <2>1. PICK t : panel' = [Wipe(panel, "dispute") EXCEPT
                              !.ui.tx = t, !.ui.step = "DRAFT", !.ui.prepared = {}]
    BY <1>3, Zenon DEF AuditDispute
  <2>2. /\ panel'.calls = panel.calls /\ DOMAIN panel'.ui = DOMAIN panel.ui
        /\ panel'.ui.prepared = {} /\ panel'.ui.sent = panel.ui.sent
        /\ panel'.ui.step = "DRAFT" /\ panel'.runs = panel.runs
    BY <1>0, <2>1, Zenon DEF Wipe, Fields
  <2>3. FilingOK(panel', "compile", panel'.ui.tx)
    BY <1>0, <2>2, FilingReset
  <2> QED BY <1>0, <2>2, <2>3 DEF PaymentsOK
<1>4. CASE CompileEvidence
  <2> DEFINE c == NewCall(panel, "compile", "dispute", panel.ui.tx)
  <2>1. /\ panel'.ui = panel.ui /\ panel'.runs = panel.runs + 1
        /\ panel'.calls = panel.calls \cup {c}
    BY <1>0, <1>4, Zenon DEF CompileEvidence, Begin, Reopen, Fields
  <2>2. BegunBy(panel, panel', c)
    BY <2>1 DEF BegunBy, NewCall
  <2> HIDE DEF c
  <2>3. /\ FilingOK(panel', "compile", panel.ui.tx)
        /\ Unused(panel) => Unused(panel')
    BY <1>0, <2>2, FilingBegun
  <2> QED BY <1>0, <2>1, <2>3 DEF PaymentsOK
<1>5. CASE SubmitDispute
  <2>1. panel.ui.tx # None /\ panel.ui.step = "COMPILED" /\ panel.calls = {}
    BY <1>1, <1>5 DEF SubmitDispute, Drawer
  <2>2. panel' = Transmitted(Continue(Begin(panel, "submit", "dispute", panel.ui.tx), "dispute"),
                             panel.ui.tx, panel.ui.tx)
    BY <1>5, Zenon DEF SubmitDispute
  <2> DEFINE c == NewCall(panel, "submit", "dispute", panel.ui.tx)
  <2>3. PICK s : SentBy(panel, panel', panel.ui.tx, s, c)
    <3> DEFINE b == Continue(Begin(panel, "submit", "dispute", panel.ui.tx), "dispute")
    <3>1. /\ DOMAIN b = Fields /\ b.ui = panel.ui /\ b.runs = panel.runs + 1
          /\ b.calls = panel.calls \cup {c}
      BY <1>0 DEF Begin, Continue, Fields
    <3>2. {"prepared", "sent"} \subseteq DOMAIN panel.ui
      BY <1>0
    <3> HIDE DEF b
    <3>3. panel' = Transmitted(b, panel.ui.tx, panel.ui.tx)
      BY <2>2 DEF b
    <3> QED BY <1>0, <3>1, <3>2, <3>3, TransmittedIs
  <2>4. c.op # "compile" /\ panel'.calls = {c}
    BY <2>1, <2>3 DEF NewCall, SentBy
  <2> HIDE DEF c
  <2>5. DOMAIN panel'.ui = DOMAIN panel.ui /\ panel'.ui.tx = panel.ui.tx
    BY <1>0, <2>3 DEF SentBy
  <2>6. Unused(panel)
    BY <1>0, <2>1 DEF PaymentsOK
  <2>7. FilingOK(panel', "compile", panel.ui.tx) /\ Unused(panel')
    BY <1>0, <2>1, <2>3, <2>4, <2>6, FilingSent
  <2> QED BY <1>0, <2>5, <2>7 DEF PaymentsOK
<1>6. CASE \E op, lines : PrintLine(op, lines, "dispute")
  <2>1. /\ panel'.ui = panel.ui /\ panel'.runs = panel.runs
        /\ \E c \in panel.calls : \E d : d.op = c.op /\ d.flag = c.flag /\ d.run = c.run
                                     /\ panel'.calls = (panel.calls \ {c}) \cup {d}
    BY <1>0, <1>6, LinePrinted
  <2>2. /\ panel'.calls # {}
        /\ \A d \in panel'.calls : \E c \in panel.calls : d.op = c.op /\ d.run = c.run
    BY <2>1
  <2>3. /\ FilingOK(panel', "compile", panel.ui.tx)
        /\ Unused(panel) => Unused(panel')
    BY <1>0, <2>1, <2>2, FilingKept
  <2> QED BY <1>0, <2>1, <2>3 DEF PaymentsOK
<1>7. CASE CompileEnds
  <2>1. PICK c \in Suspended("compile") :
            panel' = [End(Say(panel, c, "dispute"), c) EXCEPT
                         !.ui.step = "COMPILED",
                         !.ui.prepared = {Preparation(c, panel.ui.tx)}]
    BY <1>7, Zenon DEF CompileEnds
  <2>2. c \in panel.calls /\ c.op = "compile"
    BY DEF Suspended
  <2>3. c.run \in Nat /\ c.run <= panel.runs
    BY <1>0, <2>2 DEF Sound, CallsOK, CallOK, LastOK
  <2>4. /\ DOMAIN panel'.ui = DOMAIN panel.ui /\ panel'.ui.sent = panel.ui.sent
        /\ panel'.ui.prepared = {Preparation(c, panel.ui.tx)} /\ panel'.ui.tx = panel.ui.tx
        /\ panel'.runs = panel.runs /\ panel'.calls = panel.calls \ {c}
    BY <1>0, <2>1, ZenonT(60) DEF Say, End, Fields
  <2>5. panel'.calls = {}
    BY <1>1, <2>2, <2>4
  <2>6. FilingOK(panel', "compile", panel.ui.tx) /\ Unused(panel')
    BY <1>0, <2>2, <2>3, <2>4, <2>5, FilingMarked
  <2> QED BY <1>0, <2>4, <2>6 DEF PaymentsOK
<1>8. CASE SubmitEnds
  <2>1. PICK c : panel' = Set(End(Say(panel, c, "dispute"), c), "step", "SUBMITTED")
    BY <1>8, Zenon DEF SubmitEnds
  <2>2. /\ DOMAIN panel'.ui = DOMAIN panel.ui /\ panel'.ui.sent = panel.ui.sent
        /\ panel'.ui.prepared = panel.ui.prepared /\ panel'.ui.step = "SUBMITTED"
        /\ panel'.ui.tx = panel.ui.tx
        /\ panel'.runs = panel.runs /\ panel'.calls = panel.calls \ {c}
    BY <1>0, <2>1, ZenonT(60) DEF Set, Say, End, Fields
  <2>3. FilingOK(panel', "compile", panel.ui.tx)
    BY <1>0, <2>2, FilingKept
  <2> QED BY <1>0, <2>2, <2>3 DEF PaymentsOK
<1> QED BY <1>2, <1>3, <1>4, <1>5, <1>6, <1>7, <1>8 DEF PaymentsUser, PaymentsResume

\* The steps of the regulatory page keep what holds of its page.
LEMMA RegTechPage ==
    ASSUME Inv(panel), panel.name = "regtech", RegTechUser \/ RegTechResume
    PROVE  RegTechOK(panel')
<1>0. /\ DOMAIN panel = Fields /\ Sound(panel) /\ RegTechOK(panel) /\ panel.runs \in Nat
      /\ FilingOK(panel, "seal", panel.ui.alert)
      /\ \A c \in panel.calls : c.flag = "filing"
      /\ DOMAIN panel.ui = {"alert", "draft", "signed", "signature", "step", "reference",
                            "envelope", "prepared", "sent"}
  BY InvSound DEF Inv, Pages, Sound, RegTechOK
<1>1. /\ \A c, d \in panel.calls : c = d
      /\ Idle("filing") => panel.calls = {}
  <2>1. "filing" \notin NoSpinner
    BY NoneAssumption DEF NoSpinner, Shared, Spinners
  <2> QED BY <1>0, <2>1 DEF Sound, BusyOK, Idle
<1>2. CASE SelectAmlAlert \/ GenerateSar
  <2>1. /\ panel'.calls = panel.calls /\ DOMAIN panel'.ui = DOMAIN panel.ui
        /\ panel'.ui.prepared = {} /\ panel'.ui.sent = panel.ui.sent
        /\ panel'.ui.signed = FALSE /\ panel'.runs = panel.runs
    <3>1. CASE SelectAmlAlert
      <4>1. PICK a : panel' = [Wipe(panel, "filing") EXCEPT
                                  !.ui.alert = a, !.ui.draft = None, !.ui.signed = FALSE,
                                  !.ui.step = "IDLE", !.ui.prepared = {}]
        BY <3>1, Zenon DEF SelectAmlAlert
      <4> QED BY <1>0, <4>1, ZenonT(60) DEF Wipe, Fields
    <3>2. CASE GenerateSar
      BY <1>0, <3>2, ZenonT(60) DEF GenerateSar, Wipe, Fields
    <3> QED BY <1>2, <3>1, <3>2, Zenon
  <2>2. FilingOK(panel', "seal", panel'.ui.alert)
    BY <1>0, <2>1, FilingReset
  <2> QED BY <1>0, <2>1, <2>2 DEF RegTechOK
<1>3. CASE CloseAmlAlert \/ EditSar \/ DownloadEnvelope
  <2>1. PICK f \in {"alert", "draft", "envelope"} :
            \E v : panel' = Set(panel, f, v) /\ (f = "alert" => v = None)
    BY <1>3 DEF CloseAmlAlert, EditSar, DownloadEnvelope, Edit
  <2>2. PICK v : panel' = Set(panel, f, v) /\ (f = "alert" => v = None)
    BY <2>1
  <2>3. /\ DOMAIN panel'.ui = DOMAIN panel.ui
        /\ panel'.ui.prepared = panel.ui.prepared /\ panel'.ui.sent = panel.ui.sent
        /\ panel'.ui.step = panel.ui.step /\ panel'.ui.signed = panel.ui.signed
        /\ panel'.ui.alert \in {panel.ui.alert, None}
        /\ panel'.runs = panel.runs /\ panel'.calls = panel.calls
    BY <1>0, <2>2 DEF Set, Fields
  <2>4. /\ FilingOK(panel', "seal", panel'.ui.alert)
        /\ Unused(panel) => Unused(panel')
    BY <1>0, <2>3, FilingKept
  <2> QED BY <1>0, <2>3, <2>4 DEF RegTechOK
<1>4. CASE PqcSignSar
  <2> DEFINE c == NewCall(panel, "seal", "filing", Report)
  <2>1. /\ panel'.ui = panel.ui /\ panel'.runs = panel.runs + 1
        /\ panel'.calls = panel.calls \cup {c}
    BY <1>0, <1>4, Zenon DEF PqcSignSar, Begin, Fields
  <2>2. BegunBy(panel, panel', c) /\ c.flag = "filing"
    BY <2>1 DEF BegunBy, NewCall
  <2> HIDE DEF c
  <2>3. /\ FilingOK(panel', "seal", panel.ui.alert)
        /\ Unused(panel) => Unused(panel')
    BY <1>0, <2>2, FilingBegun
  <2> QED BY <1>0, <2>1, <2>2, <2>3 DEF RegTechOK
<1>5. CASE TransmitSar
  <2>1. /\ panel.ui.alert # None /\ panel.calls = {}
        /\ panel.ui.signed /\ panel.ui.step # "FILED"
    BY <1>1, <1>5 DEF TransmitSar, FilingConsole
  <2>2. panel' = Transmitted(Reopen(Begin(panel, "transmit", "filing", Report), "filing"),
                             Report, panel.ui.alert)
    BY <1>5, Zenon DEF TransmitSar
  <2> DEFINE c == NewCall(panel, "transmit", "filing", Report)
  <2>3. PICK s : SentBy(panel, panel', panel.ui.alert, s, c)
    <3> DEFINE b == Reopen(Begin(panel, "transmit", "filing", Report), "filing")
    <3>1. /\ DOMAIN b = Fields /\ b.ui = panel.ui /\ b.runs = panel.runs + 1
          /\ b.calls = panel.calls \cup {c}
      BY <1>0 DEF Begin, Reopen, Fields
    <3>2. {"prepared", "sent"} \subseteq DOMAIN panel.ui
      BY <1>0
    <3> HIDE DEF b
    <3>3. panel' = Transmitted(b, Report, panel.ui.alert)
      BY <2>2 DEF b
    <3> QED BY <1>0, <3>1, <3>2, <3>3, TransmittedIs
  <2>4. c.op # "seal" /\ c.flag = "filing" /\ panel'.calls = {c}
    BY <2>1, <2>3 DEF NewCall, SentBy
  <2> HIDE DEF c
  <2>5. DOMAIN panel'.ui = DOMAIN panel.ui /\ panel'.ui.alert = panel.ui.alert
    BY <1>0, <2>3 DEF SentBy
  <2>6. Unused(panel)
    BY <1>0, <2>1 DEF RegTechOK
  <2>7. FilingOK(panel', "seal", panel.ui.alert) /\ Unused(panel')
    BY <1>0, <2>1, <2>3, <2>4, <2>6, FilingSent
  <2> QED BY <1>0, <2>4, <2>5, <2>7 DEF RegTechOK
<1>6. CASE PrintLine("transmit", TransmitLines - 1, "filing")
  <2>1. /\ panel'.ui = panel.ui /\ panel'.runs = panel.runs
        /\ \E c \in panel.calls : \E d : d.op = c.op /\ d.flag = c.flag /\ d.run = c.run
                                     /\ panel'.calls = (panel.calls \ {c}) \cup {d}
    BY <1>0, <1>6, LinePrinted
  <2>2. /\ panel'.calls # {} /\ \A d \in panel'.calls : d.flag = "filing"
        /\ \A d \in panel'.calls : \E c \in panel.calls : d.op = c.op /\ d.run = c.run
    BY <1>0, <2>1
  <2>3. /\ FilingOK(panel', "seal", panel.ui.alert)
        /\ Unused(panel) => Unused(panel')
    BY <1>0, <2>1, <2>2, FilingKept
  <2> QED BY <1>0, <2>1, <2>2, <2>3 DEF RegTechOK
<1>7. CASE SealEnds
  <2>1. PICK c \in Suspended("seal") :
            panel' = [End(panel, c) EXCEPT
                         !.ui.signature = c.arg, !.ui.signed = TRUE, !.ui.step = "SIGNED",
                         !.ui.prepared = {Preparation(c, panel.ui.alert)}]
    BY <1>7, Zenon DEF SealEnds
  <2>2. c \in panel.calls /\ c.op = "seal"
    BY DEF Suspended
  <2>3. c.run \in Nat /\ c.run <= panel.runs
    BY <1>0, <2>2 DEF Sound, CallsOK, CallOK, LastOK
  <2>4. /\ DOMAIN panel'.ui = DOMAIN panel.ui /\ panel'.ui.sent = panel.ui.sent
        /\ panel'.ui.prepared = {Preparation(c, panel.ui.alert)}
        /\ panel'.ui.alert = panel.ui.alert
        /\ panel'.runs = panel.runs /\ panel'.calls = panel.calls \ {c}
    BY <1>0, <2>1, ZenonT(60) DEF End, Fields
  <2>5. panel'.calls = {}
    BY <1>1, <2>2, <2>4
  <2>6. FilingOK(panel', "seal", panel.ui.alert) /\ Unused(panel')
    BY <1>0, <2>2, <2>3, <2>4, <2>5, FilingMarked
  <2> QED BY <1>0, <2>4, <2>5, <2>6 DEF RegTechOK
<1>8. CASE TransmitEnds
  <2>1. PICK c : panel' = [End(Say(panel, c, "filing"), c) EXCEPT
                              !.ui.reference = c.run, !.ui.step = "FILED"]
    BY <1>8, Zenon DEF TransmitEnds
  <2>2. /\ DOMAIN panel'.ui = DOMAIN panel.ui /\ panel'.ui.sent = panel.ui.sent
        /\ panel'.ui.prepared = panel.ui.prepared /\ panel'.ui.step = "FILED"
        /\ panel'.ui.alert = panel.ui.alert
        /\ panel'.runs = panel.runs /\ panel'.calls = panel.calls \ {c}
    BY <1>0, <2>1, ZenonT(60) DEF Say, End, Fields
  <2>3. FilingOK(panel', "seal", panel.ui.alert)
    BY <1>0, <2>2, FilingKept
  <2> QED BY <1>0, <2>2, <2>3 DEF RegTechOK
<1> QED BY <1>2, <1>3, <1>4, <1>5, <1>6, <1>7, <1>8 DEF RegTechUser, RegTechResume

\* The decisions in flight after a step were in flight before it, or have just
\* been taken.
Decided(p, q) ==
    /\ DOMAIN q = Fields /\ DOMAIN q.ui = DOMAIN p.ui
    /\ \A d \in q.calls :
          d.op = "decide" => \/ d.arg.decision \in {"APPROVED", "REJECTED"}
                             \/ \E c \in p.calls : c.op = "decide" /\ d.arg = c.arg

\* So every decision in flight still decides.
LEMMA DecidedOK == ASSUME NEW p, StrategyOK(p), NEW q, Decided(p, q) PROVE StrategyOK(q)
BY DEF Decided, StrategyOK

\* What each primitive does to the decisions in flight.
LEMMA StrategyPrimitives ==
    ASSUME NEW p, DOMAIN p = Fields
    PROVE  /\ \A q : q.ui = p.ui /\ DOMAIN q = Fields /\ q.calls \subseteq p.calls => Decided(p, q)
           /\ \A f, v : Decided(p, Set(p, f, v))
           /\ \A op, flag, arg : op # "decide" \/ arg.decision \in {"APPROVED", "REJECTED"}
                 => Decided(p, Begin(p, op, flag, arg))
           /\ \A c \in p.calls : DOMAIN c = CallFields => Decided(p, Await(p, c))
           /\ \A c \in p.calls : \A arg : DOMAIN c = CallFields /\ c.op # "decide"
                 => Decided(p, AwaitWith(p, c, arg))
           /\ \A c : Decided(p, End(p, c))
           /\ \A c, out : Decided(p, Show(p, c, out))
<1>1. \A q : q.ui = p.ui /\ DOMAIN q = Fields /\ q.calls \subseteq p.calls => Decided(p, q)
  BY DEF Decided
<1>2. ASSUME NEW f, NEW v PROVE Decided(p, Set(p, f, v))
  BY DEF Decided, Set, Fields
<1>3. ASSUME NEW op, NEW flag, NEW arg,
             op # "decide" \/ arg.decision \in {"APPROVED", "REJECTED"}
      PROVE  Decided(p, Begin(p, op, flag, arg))
  <2>1. /\ DOMAIN Begin(p, op, flag, arg) = Fields /\ Begin(p, op, flag, arg).ui = p.ui
        /\ Begin(p, op, flag, arg).calls = p.calls \cup {NewCall(p, op, flag, arg)}
    BY DEF Begin, Fields
  <2>2. NewCall(p, op, flag, arg).op = op /\ NewCall(p, op, flag, arg).arg = arg
    BY DEF NewCall
  <2> QED BY <1>3, <2>1, <2>2 DEF Decided
<1>4. ASSUME NEW c \in p.calls, DOMAIN c = CallFields PROVE Decided(p, Await(p, c))
  <2> DEFINE d == [c EXCEPT !.at = @ + 1]
  <2>1. /\ DOMAIN Await(p, c) = Fields /\ Await(p, c).ui = p.ui
        /\ Await(p, c).calls = (p.calls \ {c}) \cup {d}
    BY DEF Await, Fields
  <2>2. d.op = c.op /\ d.arg = c.arg
    BY <1>4 DEF CallFields
  <2> HIDE DEF d
  <2> QED BY <2>1, <2>2 DEF Decided
<1>5. ASSUME NEW c \in p.calls, NEW arg, DOMAIN c = CallFields, c.op # "decide"
      PROVE  Decided(p, AwaitWith(p, c, arg))
  <2> DEFINE d == [c EXCEPT !.at = @ + 1, !.arg = arg]
  <2>1. /\ DOMAIN AwaitWith(p, c, arg) = Fields /\ AwaitWith(p, c, arg).ui = p.ui
        /\ AwaitWith(p, c, arg).calls = (p.calls \ {c}) \cup {d}
    BY DEF AwaitWith, Fields
  <2>2. d.op = c.op
    BY <1>5 DEF CallFields
  <2> HIDE DEF d
  <2> QED BY <1>5, <2>1, <2>2 DEF Decided
<1>6. ASSUME NEW c PROVE Decided(p, End(p, c))
  BY DEF End, Decided, Fields
<1>7. ASSUME NEW c, NEW out PROVE Decided(p, Show(p, c, out))
  BY DEF Show, Decided, Fields
<1> QED BY <1>1, <1>2, <1>3, <1>4, <1>5, <1>6, <1>7

\* Decisions in flight after two steps.
LEMMA DecidedTwice ==
    ASSUME NEW p, NEW q, NEW r, Decided(p, q), Decided(q, r) PROVE Decided(p, r)
BY DEF Decided

\* Loading again takes no decision.
LEMMA DecidedReload ==
    ASSUME NEW p, DOMAIN p = Fields PROVE Decided(p, Reload(p))
<1>1. Decided(p, Begin(p, "forecast", "forecast", p.ui.scenario))
  BY StrategyPrimitives
<1>2. Decided(Begin(p, "forecast", "forecast", p.ui.scenario), Reload(p))
  BY <1>1, StrategyPrimitives DEF Reload, Decided
<1> QED BY <1>1, <1>2, DecidedTwice

\* The page shows an inbox, selects an item of it and holds a draft or not.
Loaded(p, r, s, t) == [p EXCEPT !.ui.inbox = r, !.ui.selected = s, !.ui.edited = t]

\* What it leaves of the rest.
LEMMA LoadedIs ==
    ASSUME NEW p, DOMAIN p = Fields, NEW r, NEW s, NEW t, NEW q, q = Loaded(p, r, s, t)
    PROVE  /\ DOMAIN q = Fields /\ q.calls = p.calls
           /\ DOMAIN q.ui = DOMAIN p.ui /\ q.ui.server = p.ui.server
<1> DEFINE u == [p.ui EXCEPT !.inbox = r, !.selected = s, !.edited = t]
<1>1. q = [p EXCEPT !.ui = u]
  BY Zenon DEF Loaded, Fields
<1>2. DOMAIN u = DOMAIN p.ui /\ u.server = p.ui.server
  OBVIOUS
<1> HIDE DEF u
<1> QED BY <1>1, <1>2 DEF Fields

\* An edit of the page takes no decision.
LEMMA DecidedEdit ==
    ASSUME NEW p, DOMAIN p = Fields, NEW q, DOMAIN q = Fields, q.calls = p.calls,
           DOMAIN q.ui = DOMAIN p.ui
    PROVE  Decided(p, q)
BY DEF Decided

\* Every end of a load is one of these two.
LEMMA InboxLoaded ==
    ASSUME InboxEnds
    PROVE  \E c, r, s, t : panel' = End(panel, c) \/ panel' = Loaded(End(panel, c), r, s, t)
<1>1. PICK c : \/ panel' = End(panel, c)
               \/ panel' = [End(panel, c) EXCEPT
                               !.ui.inbox = c.arg,
                               !.ui.selected = IF c.arg = {} THEN @ ELSE FirstOf(c.arg),
                               !.ui.edited = @ /\ c.arg = {}]
  BY Zenon DEF InboxEnds
<1>2. PICK s, t : \/ panel' = End(panel, c)
                  \/ panel' = [End(panel, c) EXCEPT !.ui.inbox = c.arg, !.ui.selected = s,
                                                   !.ui.edited = t]
  BY <1>1, Zenon
<1>3. panel' = End(panel, c) \/ panel' = Loaded(End(panel, c), c.arg, s, t)
  BY <1>2 DEF Loaded
<1> QED BY <1>3

\* The steps of the strategy room keep what holds of its page.
LEMMA StrategyPage ==
    ASSUME Inv(panel), panel.name = "strategy", StrategyUser \/ StrategyResume
    PROVE  StrategyOK(panel')
<1>0. DOMAIN panel = Fields /\ Sound(panel) /\ StrategyOK(panel)
  BY InvSound DEF Inv, Pages
<1> SUFFICES Decided(panel, panel')
  BY <1>0, DecidedOK
<1>c. \A c \in panel.calls : DOMAIN c = CallFields
  BY <1>0 DEF Sound, CallsOK, CallOK
<1>s. \A op : \A c \in Suspended(op) : c \in panel.calls /\ c.op = op
  BY SuspendedIs
<1>1. CASE MoveStrategySlider
  <2>1. PICK v : panel' = Reload(Set(panel, "scenario", v))
    BY <1>1 DEF MoveStrategySlider
  <2>2. Decided(panel, Set(panel, "scenario", v))
    BY <1>0, StrategyPrimitives
  <2>3. DOMAIN Set(panel, "scenario", v) = Fields
    BY <2>2 DEF Decided
  <2> QED BY <2>1, <2>2, <2>3, DecidedReload, DecidedTwice
<1>2. CASE RunForecast
  BY <1>0, <1>2, StrategyPrimitives DEF RunForecast
<1>3. CASE SelectItem
  <2>1. DOMAIN panel' = Fields /\ panel'.calls = panel.calls /\ DOMAIN panel'.ui = DOMAIN panel.ui
    BY <1>0, <1>3 DEF SelectItem, Fields
  <2> QED BY <1>0, <2>1, DecidedEdit
<1>4. CASE EditEmail
  BY <1>0, <1>4, StrategyPrimitives, Zenon DEF EditEmail, Edit
<1>5. CASE ServeForecast
  <2>1. PICK c \in Suspended("forecast") :
            \/ panel' = Await(panel, c)
            \/ panel' = Await([panel EXCEPT !.ui = Requeue(@)], c)
    BY <1>5 DEF ServeForecast
  <2> DEFINE p == [panel EXCEPT !.ui = Requeue(@)]
  <2>2. DOMAIN p = Fields /\ p.calls = panel.calls /\ DOMAIN p.ui = DOMAIN panel.ui
    BY <1>0 DEF Requeue, Fields
  <2>3. panel' = Await(panel, c) \/ panel' = Await(p, c)
    BY <2>1
  <2> HIDE DEF p
  <2>4. Decided(panel, p) /\ c \in p.calls /\ DOMAIN c = CallFields
    BY <1>0, <1>c, <1>s, <2>2, DecidedEdit
  <2>5. CASE panel' = Await(panel, c)
    BY <1>0, <1>c, <1>s, <2>5, StrategyPrimitives
  <2>6. CASE panel' = Await(p, c)
    <3>1. Decided(p, panel')
      BY <2>2, <2>4, <2>6, StrategyPrimitives
    <3> QED BY <2>4, <3>1, DecidedTwice
  <2> QED BY <2>3, <2>5, <2>6
<1>6. CASE ForecastEnds
  <2>1. PICK c : panel' = End(panel, c) \/ panel' = End(Show(panel, c, "live"), c)
    BY <1>6 DEF ForecastEnds
  <2>2. Decided(panel, End(panel, c)) /\ Decided(panel, Show(panel, c, "live"))
    BY <1>0, StrategyPrimitives
  <2>3. Decided(Show(panel, c, "live"), End(Show(panel, c, "live"), c))
    BY <2>2, StrategyPrimitives DEF Decided
  <2> QED BY <2>1, <2>2, <2>3, DecidedTwice
<1>7. CASE ServeInbox
  <2>1. PICK c \in Suspended("inbox") : panel' = AwaitWith(panel, c, panel.ui.server)
    BY <1>7 DEF ServeInbox
  <2> QED BY <1>0, <1>c, <1>s, <2>1, StrategyPrimitives
<1>8. CASE InboxEnds
  <2>1. PICK c, r, s, t : panel' = End(panel, c) \/ panel' = Loaded(End(panel, c), r, s, t)
    BY <1>8, InboxLoaded
  <2>2. Decided(panel, End(panel, c))
    BY <1>0, StrategyPrimitives
  <2>3. DOMAIN End(panel, c) = Fields
    BY <2>2 DEF Decided
  <2>4. panel' = End(panel, c) \/ Decided(End(panel, c), panel')
    BY <2>1, <2>3, LoadedIs, DecidedEdit
  <2> QED BY <2>1, <2>2, <2>4, DecidedTwice
<1>9. CASE Decide
  <2>1. PICK decision \in {"APPROVED", "REJECTED"} :
          panel' = Begin(panel, "decide", None,
                         [id |-> panel.ui.selected.id, decision |-> decision])
    BY <1>9 DEF Decide
  <2> DEFINE arg == [id |-> panel.ui.selected.id, decision |-> decision]
  <2>2. arg.decision \in {"APPROVED", "REJECTED"} /\ panel' = Begin(panel, "decide", None, arg)
    BY <2>1
  <2> HIDE DEF arg
  <2> QED BY <1>0, <2>2, StrategyPrimitives
<1>10. CASE ServeDecision
  <2>1. PICK c \in Suspended("decide"), i \in panel.ui.server :
            panel' = Await([panel EXCEPT
                     !.ui.server = (@ \ {i}) \cup {Item(i.id, c.arg.decision)}], c)
    BY <1>10, Zenon DEF ServeDecision
  <2> DEFINE p == [panel EXCEPT !.ui.server = (@ \ {i}) \cup {Item(i.id, c.arg.decision)}]
  <2>2. DOMAIN p = Fields /\ p.calls = panel.calls /\ DOMAIN p.ui = DOMAIN panel.ui
    BY <1>0 DEF Fields
  <2>3. panel' = Await(p, c)
    BY <2>1
  <2> HIDE DEF p
  <2>4. Decided(panel, p) /\ c \in p.calls /\ DOMAIN c = CallFields
    BY <1>0, <1>c, <1>s, <2>2, DecidedEdit
  <2>5. Decided(p, panel')
    BY <2>2, <2>3, <2>4, StrategyPrimitives
  <2> QED BY <2>4, <2>5, DecidedTwice
<1>11. CASE DecisionEnds
  <2>1. PICK c \in Suspended("decide") :
            panel' = End(panel, c) \/ panel' = Begin(End(panel, c), "inbox", None, None)
    BY <1>11 DEF DecisionEnds
  <2>2. Decided(panel, End(panel, c))
    BY <1>0, StrategyPrimitives
  <2>3. Decided(End(panel, c), Begin(End(panel, c), "inbox", None, None))
    BY <2>2, StrategyPrimitives DEF Decided
  <2> QED BY <2>1, <2>2, <2>3, DecidedTwice
<1> QED BY <1>1, <1>2, <1>3, <1>4, <1>5, <1>6, <1>7, <1>8, <1>9, <1>10, <1>11
        DEF StrategyUser, StrategyResume

\* What the service holds changes in two steps only, and a decision that was
\* taken stays in both.
LEMMA DecidedStay ==
    ASSUME Inv(panel), panel.name = "strategy", StrategyUser \/ StrategyResume
    PROVE  \A i \in panel.ui.server : i.status # "PENDING" =>
              \E j \in panel'.ui.server : j.id = i.id /\ j.status # "PENDING"
<1>0. DOMAIN panel = Fields /\ Sound(panel) /\ StrategyOK(panel)
  BY InvSound DEF Inv, Pages
<1>1. CASE panel'.ui.server = panel.ui.server
  BY <1>1
<1>2. CASE ServeForecast
  <2>1. PICK c : \/ panel' = Await(panel, c)
                 \/ panel' = Await([panel EXCEPT !.ui = Requeue(@)], c)
    BY <1>2 DEF ServeForecast
  <2> DEFINE p == [panel EXCEPT !.ui = Requeue(@)]
  <2>2. p.ui = Requeue(panel.ui) /\ DOMAIN p = Fields
    BY <1>0 DEF Fields
  <2>3. Requeue(panel.ui).server = {i \in panel.ui.server : i.status # "PENDING"}
                                      \cup {Item(panel.ui.queued + 1, "PENDING")}
    BY <1>0 DEF Requeue, StrategyOK
  <2>4. panel' = Await(panel, c) \/ panel' = Await(p, c)
    BY <2>1
  <2> HIDE DEF p
  <2>5. panel'.ui = panel.ui \/ panel'.ui = p.ui
    BY <1>0, <2>2, <2>4 DEF Await, Fields
  <2> QED BY <2>2, <2>3, <2>5
<1>3. CASE ServeDecision
  <2>1. PICK c \in Suspended("decide"), i \in panel.ui.server :
            panel' = Await([panel EXCEPT
                     !.ui.server = (@ \ {i}) \cup {Item(i.id, c.arg.decision)}], c)
    BY <1>3, Zenon DEF ServeDecision
  <2>2. panel'.ui.server = (panel.ui.server \ {i}) \cup {Item(i.id, c.arg.decision)}
    BY <1>0, <2>1 DEF Await, StrategyOK, Fields
  <2>3. c.arg.decision \in {"APPROVED", "REJECTED"}
    BY <1>0 DEF StrategyOK, Suspended
  <2>4. Item(i.id, c.arg.decision).id = i.id /\ Item(i.id, c.arg.decision).status = c.arg.decision
    BY DEF Item
  <2> QED BY <2>2, <2>3, <2>4
<1>4. CASE MoveStrategySlider
  <2>1. PICK v : panel' = Reload(Set(panel, "scenario", v))
    BY <1>4 DEF MoveStrategySlider
  <2>2. panel'.ui.server = panel.ui.server
    BY <1>0, <2>1 DEF Reload, Set, Begin, StrategyOK, Fields
  <2> QED BY <1>1, <2>2
<1>5. CASE SelectItem \/ EditEmail
  <2>1. CASE SelectItem
    <3>1. PICK i : panel' = [panel EXCEPT !.ui.selected = i, !.ui.edited = FALSE]
      BY <2>1, Zenon DEF SelectItem
    <3>2. panel'.ui.server = panel.ui.server
      BY <1>0, <3>1, Zenon DEF StrategyOK, Fields
    <3> QED BY <1>1, <3>2
  <2>2. CASE EditEmail
    <3>1. PICK v : panel' = Set(panel, "edited", v)
      BY <2>2, Zenon DEF EditEmail, Edit
    <3>2. panel'.ui.server = panel.ui.server
      BY <1>0, <3>1 DEF Set, StrategyOK, Fields
    <3> QED BY <1>1, <3>2
  <2> QED BY <1>5, <2>1, <2>2
<1>6. CASE InboxEnds
  <2>1. PICK c, r, s, t : panel' = End(panel, c) \/ panel' = Loaded(End(panel, c), r, s, t)
    BY <1>6, InboxLoaded
  <2>2. DOMAIN End(panel, c) = Fields /\ End(panel, c).ui = panel.ui
    BY <1>0 DEF End, Fields
  <2>3. panel'.ui.server = panel.ui.server
    BY <2>1, <2>2, LoadedIs
  <2> QED BY <1>1, <2>3
<1>7. CASE RunForecast \/ Decide \/ ForecastEnds \/ ServeInbox \/ DecisionEnds
  <2>1. panel'.ui = panel.ui
    BY <1>0, <1>7, Zenon
       DEF RunForecast, Decide, ForecastEnds, ServeInbox, DecisionEnds, Begin, End, Show,
           AwaitWith, Fields
  <2> QED BY <1>1, <2>1
<1> QED BY <1>2, <1>3, <1>4, <1>5, <1>6, <1>7 DEF StrategyUser, StrategyResume

\* The steps of the alert stream keep what holds of its page.
LEMMA AlertsPage ==
    ASSUME Inv(panel), panel.name = "alerts", FetchLive \/ NewAlert \/ Unmount
    PROVE  AlertsOK(panel')
<1>0. DOMAIN panel = Fields /\ AlertsOK(panel)
  BY InvSound DEF Inv, Pages
<1>1. CASE FetchLive
  <2>1. PICK c : \/ panel' = End(panel, c)
                 \/ panel' = Set(End(panel, c), "autonomous", FALSE)
                 \/ /\ panel.ui.mounted
                    /\ panel' = [End(panel, c) EXCEPT !.ui.autonomous = TRUE, !.ui.interval = TRUE]
    BY <1>1, Zenon DEF FetchLive
  <2>2. CASE panel' = End(panel, c)
    BY <1>0, <2>2 DEF End, AlertsOK, Fields
  <2>3. CASE panel' = Set(End(panel, c), "autonomous", FALSE)
    BY <1>0, <2>3 DEF End, Set, AlertsOK, Fields
  <2>4. CASE /\ panel.ui.mounted
             /\ panel' = [End(panel, c) EXCEPT !.ui.autonomous = TRUE, !.ui.interval = TRUE]
    BY <1>0, <2>4, Zenon DEF End, AlertsOK, Fields
  <2> QED BY <2>1, <2>2, <2>3, <2>4, Zenon
<1>2. CASE NewAlert
  <2>1. PICK v : panel' = Set(panel, "alerts", v)
    BY <1>2 DEF NewAlert
  <2> QED BY <1>0, <2>1 DEF Set, AlertsOK, Fields
<1>3. CASE Unmount
  BY <1>0, <1>3, Zenon DEF Unmount, AlertsOK, Fields
<1> QED BY <1>1, <1>2, <1>3

-----------------------------------------------------------------------------
(* What the tax ledger holds *)

Lists == [filed : SUBSET Filings, paid : SUBSET Filings]

Receipts == [filing : NewFilings, due : BOOLEAN]

LedgerOps == {"refresh", "file", "pay", "wallet"}

LedgerFlags == {None, "loading", "filing", "paying", "wallet"}

LedgerCalls ==
    [op : LedgerOps, flag : LedgerFlags,
     arg : {None} \cup Filings \cup Lists \cup Receipts, run : Nat, at : Nat]

Books == [filed : SUBSET Filings, paid : SUBSET Filings, charges : [Filings -> Nat]]

LedgerUis ==
    [books : [Processes -> Books], list : Lists, selected : Filings \cup {None},
     method : {"CARD", "CRYPTO"}, connected : BOOLEAN, error : BOOLEAN,
     settled : SUBSET Filings]

NoLogs == [t \in {} |-> <<>>]

LedgerPanels ==
    [name : {"ledger"}, ui : LedgerUis, calls : SUBSET LedgerCalls,
     busy : SUBSET LedgerFlags, shown : {{}}, logs : {NoLogs},
     last : [LedgerOps -> Nat], runs : Nat]

\* What a suspended handler holds: a payment the service has taken is settled
\* there, whether or not its answer arrives.
LedgerCallOK(c, paid) ==
    /\ c.op = "pay" => c.arg \in Filings
    /\ c.op = "pay" /\ c.at = 1 => c.arg \in paid
    /\ c.op = "file" /\ c.at = 1 => c.arg \in Receipts
    /\ c.op = "refresh" /\ c.at = 1 => c.arg \in Lists

\* A charge marks its filing, so that no second one follows in the process; the
\* two filings of the start are there, and one of them is settled.
BookOK(b) ==
    /\ {GstDue, ItrPaid} \subseteq b.filed /\ b.paid \subseteq b.filed
    /\ ItrPaid \in b.paid /\ b.charges[ItrPaid] = 0
    /\ \A f \in Filings : b.charges[f] <= 1 /\ (b.charges[f] = 1 => f \in b.paid)

\* No other filing is registered in two processes.
ChargesOK(ui) ==
    /\ \A w \in Processes : BookOK(ui.books[w])
    /\ \A v, w \in Processes :
          v # w => ui.books[v].filed \cap ui.books[w].filed \subseteq {GstDue, ItrPaid}
    /\ ui.settled \subseteq Settled(ui)

LedgerOK(p) ==
    /\ p \in LedgerPanels
    /\ \A c \in p.calls : LedgerCallOK(c, Settled(p.ui))
    /\ ChargesOK(p.ui)

-----------------------------------------------------------------------------
\* Starting a handler changes nothing but what is in flight.
LEMMA LedgerBegin ==
    ASSUME NEW p, LedgerOK(p), NEW op \in LedgerOps, NEW flag \in LedgerFlags,
           NEW arg \in {None} \cup Filings, op = "pay" => arg \in Filings
    PROVE  /\ LedgerOK(Begin(p, op, flag, arg))
           /\ Begin(p, op, flag, arg).ui = p.ui
<1> DEFINE q == Begin(p, op, flag, arg)
<1>1. p \in LedgerPanels
  BY DEF LedgerOK
<1>2. NewCall(p, op, flag, arg) \in LedgerCalls
  BY <1>1 DEF NewCall, LedgerCalls, LedgerPanels
<1> DEFINE calls == p.calls \cup {NewCall(p, op, flag, arg)}
           busy == p.busy \cup ({flag} \ {None})
           last == [p.last EXCEPT ![op] = p.runs + 1]
<1>3. calls \in SUBSET LedgerCalls /\ busy \in SUBSET LedgerFlags /\ p.runs + 1 \in Nat
  BY <1>1, <1>2 DEF LedgerPanels
<1>a. last \in [LedgerOps -> Nat]
  BY <1>1, <1>3 DEF LedgerPanels
<1>b. q = [p EXCEPT !.calls = calls, !.busy = busy, !.last = last, !.runs = p.runs + 1]
  BY <1>1 DEF Begin, LedgerPanels
<1>c. q \in LedgerPanels /\ q.ui = p.ui /\ q.calls = calls
  <2> HIDE DEF calls, busy, last, q
  <2> QED
    BY <1>1, <1>3, <1>a, <1>b, Zenon DEF LedgerPanels
<1>4. LedgerCallOK(NewCall(p, op, flag, arg), Settled(p.ui))
  BY DEF LedgerCallOK, NewCall
<1>5. \A c \in q.calls : LedgerCallOK(c, Settled(q.ui))
  BY <1>c, <1>4 DEF LedgerOK
<1> QED
  BY <1>c, <1>5 DEF LedgerOK

\* The end of a handler takes away what it held.
LEMMA LedgerEnd ==
    ASSUME NEW p, LedgerOK(p), NEW c \in p.calls
    PROVE  LedgerOK(End(p, c)) /\ End(p, c).ui = p.ui /\ End(p, c).calls = p.calls \ {c}
<1>1. /\ End(p, c) \in LedgerPanels
      /\ End(p, c).ui = p.ui
      /\ End(p, c).calls = p.calls \ {c}
  BY Zenon DEF LedgerOK, LedgerPanels, End
<1> QED
  BY <1>1 DEF LedgerOK

\* A handler at its next await is as sound as what it holds there.
LEMMA LedgerAwait ==
    ASSUME NEW p, LedgerOK(p), NEW c \in p.calls,
           NEW arg \in {None} \cup Filings \cup Lists \cup Receipts,
           LedgerCallOK([c EXCEPT !.at = @ + 1, !.arg = arg], Settled(p.ui))
    PROVE  LedgerOK(AwaitWith(p, c, arg))
<1> DEFINE d == [c EXCEPT !.at = @ + 1, !.arg = arg]
<1>0. p \in LedgerPanels /\ c \in LedgerCalls
  BY DEF LedgerOK, LedgerPanels
<1>1. d \in LedgerCalls
  <2> SUFFICES ASSUME NEW n \in Nat, c.at = n PROVE d \in LedgerCalls
    BY <1>0 DEF LedgerCalls
  <2>1. n + 1 \in Nat
    OBVIOUS
  <2> QED
    BY <1>0, <2>1, Zenon DEF LedgerCalls
<1>2. /\ AwaitWith(p, c, arg) \in LedgerPanels
      /\ AwaitWith(p, c, arg).ui = p.ui
      /\ AwaitWith(p, c, arg).calls = (p.calls \ {c}) \cup {d}
  BY <1>0, <1>1 DEF LedgerPanels, AwaitWith
<1> QED
  BY <1>2 DEF LedgerOK

\* A panel whose page changes stays sound if the page does.
LEMMA LedgerPage ==
    ASSUME NEW p, LedgerOK(p), NEW ui \in LedgerUis, ChargesOK(ui), Settled(p.ui) \subseteq Settled(ui)
    PROVE  LedgerOK([p EXCEPT !.ui = ui])
<1> DEFINE q == [p EXCEPT !.ui = ui]
<1>1. q \in LedgerPanels /\ q.ui = ui /\ q.calls = p.calls
  BY DEF LedgerOK, LedgerPanels
<1>2. \A c \in p.calls : LedgerCallOK(c, Settled(p.ui)) => LedgerCallOK(c, Settled(ui))
  BY DEF LedgerCallOK
<1> QED
  BY <1>1, <1>2 DEF LedgerOK

\* What the page displays, the fields no charge depends on.
LEMMA LedgerDisplay ==
    ASSUME NEW p, LedgerOK(p), NEW field \in {"list", "selected", "method", "connected", "error"},
           NEW v,
           field = "list" => v \in Lists,
           field = "selected" => v \in Filings \cup {None},
           field = "method" => v \in {"CARD", "CRYPTO"},
           field \in {"connected", "error"} => v \in BOOLEAN
    PROVE  LedgerOK(Set(p, field, v)) /\ Set(p, field, v).calls = p.calls
<1> DEFINE ui == [p.ui EXCEPT ![field] = v]
<1>1. p \in LedgerPanels /\ p.ui \in LedgerUis /\ ChargesOK(p.ui)
  BY DEF LedgerOK, LedgerPanels
<1>2. /\ ui \in LedgerUis
      /\ ui.books = p.ui.books /\ ui.settled = p.ui.settled
  BY <1>1 DEF LedgerUis
<1>3. ChargesOK(ui) /\ Settled(ui) = Settled(p.ui)
  BY <1>1, <1>2 DEF ChargesOK, Settled
<1>4. Set(p, field, v) = [p EXCEPT !.ui = ui] /\ Set(p, field, v).calls = p.calls
  BY <1>1 DEF Set, LedgerPanels
<1>5. LedgerOK([p EXCEPT !.ui = ui])
  <2> HIDE DEF ui
  <2> QED
    BY <1>2, <1>3, LedgerPage
<1> QED
  BY <1>4, <1>5

-----------------------------------------------------------------------------
\* What the user does reaches the service only through the handlers it starts.
LEMMA LedgerUserOK == LedgerOK(panel) /\ LedgerUser => LedgerOK(panel')
<1> SUFFICES ASSUME LedgerOK(panel), LedgerUser PROVE LedgerOK(panel')
  OBVIOUS
<1>0. panel.ui \in LedgerUis
  BY DEF LedgerOK, LedgerPanels
<1>1. CASE Refresh
  BY <1>1, LedgerBegin DEF Refresh, LedgerOps, LedgerFlags
<1>2. CASE FileDirect
  <2>1. LedgerOK(Begin(panel, "file", "filing", None))
    BY LedgerBegin DEF LedgerOps, LedgerFlags
  <2> QED
    BY <1>2, <2>1, LedgerDisplay, Zenon DEF FileDirect
<1>3. CASE OpenPayment
  <2>1. PICK f \in panel.ui.list.filed \ panel.ui.list.paid : panel' = Set(panel, "selected", f)
    BY <1>3 DEF OpenPayment
  <2>2. f \in Filings
    BY <1>0, <2>1 DEF LedgerUis, Lists
  <2> QED
    BY <2>1, <2>2, LedgerDisplay
<1>4. CASE ClosePayment
  BY <1>4, LedgerDisplay DEF ClosePayment
<1>5. CASE ChooseMethod
  <2>1. PICK m \in {"CARD", "CRYPTO"} : panel' = Set(panel, "method", m)
    BY <1>5 DEF ChooseMethod, Edit
  <2> QED
    BY <2>1, LedgerDisplay
<1>6. CASE ConnectWallet
  BY <1>6, LedgerBegin DEF ConnectWallet, LedgerOps, LedgerFlags
<1>7. CASE PayLiability
  <2>1. panel.ui.selected \in Filings
    BY <1>0, <1>7 DEF PayLiability, LedgerUis
  <2>2. LedgerOK(Begin(panel, "pay", "paying", panel.ui.selected))
    BY <2>1, LedgerBegin, Zenon DEF LedgerOps, LedgerFlags
  <2> QED
    BY <1>7, <2>2, LedgerDisplay, Zenon DEF PayLiability
<1> QED
  BY <1>1, <1>2, <1>3, <1>4, <1>5, <1>6, <1>7 DEF LedgerUser

\* What the service and the timers do.  A process settles before it answers, and
\* charges what is not settled there.
LEMMA ChargeSound ==
    ASSUME NEW book \in Books, BookOK(book), NEW f \in book.filed
    PROVE  /\ Charge(book, f) \in Books /\ BookOK(Charge(book, f))
           /\ book.paid \cup {f} \subseteq Charge(book, f).paid
           /\ Charge(book, f).filed = book.filed
<1>1. CASE f \in book.paid
  BY <1>1 DEF Charge
<1>2. CASE f \notin book.paid
  <2> DEFINE charges == [book.charges EXCEPT ![f] = @ + 1]
             paid == book.paid \cup {f}
             new == [book EXCEPT !.paid = paid, !.charges = charges]
  <2>1. Charge(book, f) = new
    BY <1>2 DEF Charge, Books
  <2>2. /\ book.charges \in [Filings -> Nat] /\ f \in Filings /\ book.charges[f] = 0
        /\ f # ItrPaid /\ ItrPaid \in Filings
    BY <1>2 DEF BookOK, Books, Filings
  <2>3. /\ charges \in [Filings -> Nat] /\ charges[ItrPaid] = 0
        /\ \A g \in Filings : charges[g] <= 1 /\ (charges[g] = 1 => g \in paid)
    BY <2>2 DEF BookOK
  <2>4. paid \in SUBSET Filings /\ paid \subseteq book.filed /\ ItrPaid \in paid
    BY DEF BookOK, Books
  <2>5. /\ new \in Books
        /\ new.charges = charges /\ new.paid = paid /\ new.filed = book.filed
    <3> HIDE DEF charges, paid
    <3> QED
      BY <2>3, <2>4, Zenon DEF Books
  <2>6. BookOK(new)
    <3> HIDE DEF charges, paid, new
    <3> QED
      BY <2>3, <2>4, <2>5 DEF BookOK
  <2> QED
    BY <2>1, <2>5, <2>6
<1> QED
  BY <1>1, <1>2

\* The page after one process has changed its book.
Rebooked(ui, w, b) == [ui EXCEPT !.books = [ui.books EXCEPT ![w] = b]]

\* A process whose book stays sound, forgets no settlement and gains only what no
\* process has registered leaves the ledgers sound.
LEMMA BookChanged ==
    ASSUME NEW ui \in LedgerUis, ChargesOK(ui), NEW w \in Processes,
           NEW b \in Books, BookOK(b), ui.books[w].paid \subseteq b.paid,
           \A f \in b.filed \ ui.books[w].filed : f \notin Registered(ui)
    PROVE  /\ Rebooked(ui, w, b) \in LedgerUis /\ ChargesOK(Rebooked(ui, w, b))
           /\ Settled(ui) \cup b.paid \subseteq Settled(Rebooked(ui, w, b))
<1> DEFINE books == [ui.books EXCEPT ![w] = b]
           new == [ui EXCEPT !.books = books]
<1>1. /\ books \in [Processes -> Books] /\ books[w] = b
      /\ \A v \in Processes : v # w => books[v] = ui.books[v]
  BY DEF LedgerUis
<1> HIDE DEF books
<1>2. new \in LedgerUis /\ new.books = books /\ new.settled = ui.settled
  BY <1>1, Zenon DEF LedgerUis
<1> HIDE DEF new
<1>3. Settled(ui) \cup b.paid \subseteq Settled(new)
  BY <1>1, <1>2 DEF Settled
<1>4. \A v \in Processes : BookOK(new.books[v])
  BY <1>1, <1>2 DEF ChargesOK
<1>5. \A v \in Processes :
          v # w => new.books[v].filed \cap new.books[w].filed \subseteq {GstDue, ItrPaid}
  <2> SUFFICES ASSUME NEW v \in Processes, v # w, NEW f \in ui.books[v].filed \cap b.filed
               PROVE  f \in {GstDue, ItrPaid}
    BY <1>1, <1>2
  <2>1. f \in Registered(ui)
    BY DEF Registered
  <2>2. f \in ui.books[w].filed
    BY <2>1
  <2> QED BY <2>2 DEF ChargesOK
<1>6. \A u, v \in Processes :
          u # v => new.books[u].filed \cap new.books[v].filed \subseteq {GstDue, ItrPaid}
  <2> SUFFICES ASSUME NEW u \in Processes, NEW v \in Processes, u # v
               PROVE  new.books[u].filed \cap new.books[v].filed \subseteq {GstDue, ItrPaid}
    OBVIOUS
  <2>1. CASE u = w \/ v = w
    BY <1>5, <2>1
  <2>2. CASE u # w /\ v # w
    BY <1>1, <1>2, <2>2 DEF ChargesOK
  <2> QED BY <2>1, <2>2
<1>7. new.settled \subseteq Settled(new)
  BY <1>2, <1>3 DEF ChargesOK
<1>8. ChargesOK(new)
  BY <1>4, <1>6, <1>7 DEF ChargesOK
<1> QED BY <1>2, <1>3, <1>8 DEF new, books, Rebooked

\* Await keeps what the handler holds.
LEMMA AwaitKeeps ==
    ASSUME NEW p, LedgerOK(p), NEW c \in p.calls
    PROVE  Await(p, c) = AwaitWith(p, c, c.arg)
<1>1. c \in LedgerCalls
  BY DEF LedgerOK, LedgerPanels
<1>2. [c EXCEPT !.at = @ + 1] = [c EXCEPT !.at = @ + 1, !.arg = c.arg]
  BY <1>1, Zenon DEF LedgerCalls
<1> QED
  BY <1>2 DEF Await, AwaitWith

\* What a suspended handler of the ledger holds.
LEMMA Opened ==
    ASSUME LedgerOK(panel), NEW op \in LedgerOps, NEW c \in Suspended(op)
    PROVE  /\ c \in panel.calls /\ c \in LedgerCalls /\ c.op = op
           /\ LedgerCallOK(c, Settled(panel.ui))
           /\ panel \in LedgerPanels /\ panel.ui \in LedgerUis /\ ChargesOK(panel.ui)
  BY DEF LedgerOK, LedgerPanels, Suspended

\* The lists that the service and the fallback answer with.
LEMMA ListsOK == ASSUME LedgerOK(panel) PROVE Answers(panel.ui) \cup {FirstLedger} \subseteq Lists
<1>1. panel.ui \in LedgerUis
  BY DEF LedgerOK, LedgerPanels
<1>2. \A w \in Processes : Ledger(panel.ui.books[w].filed, panel.ui.books[w].paid) \in Lists
  BY <1>1 DEF LedgerUis, Books, Lists, Ledger
<1>3. FirstLedger \in Lists
  BY DEF Lists, Ledger, FirstLedger, Filings
<1> QED
  BY <1>2, <1>3, Zenon DEF Answers

\* Every answer and every step of the service keeps the ledger sound.
LEMMA LedgerResumeOK == LedgerOK(panel) /\ LedgerResume => LedgerOK(panel')
<1> SUFFICES ASSUME LedgerOK(panel), LedgerResume PROVE LedgerOK(panel')
  OBVIOUS
<1>1. CASE ServeRefresh
  <2>1. PICK c \in Suspended("refresh"), list \in Answers(panel.ui) :
            c.at = 0 /\ panel' = AwaitWith(panel, c, list)
    BY <1>1, Zenon DEF ServeRefresh
  <2> DEFINE d == [c EXCEPT !.at = @ + 1, !.arg = list]
  <2>2. c \in panel.calls /\ c \in LedgerCalls /\ c.op = "refresh"
    BY Opened DEF LedgerOps
  <2>3. list \in Lists
    BY ListsOK
  <2>4. d.op = "refresh" /\ d.arg = list
    BY <2>2 DEF LedgerCalls
  <2>5. LedgerCallOK(d, Settled(panel.ui))
    BY <2>3, <2>4 DEF LedgerCallOK
  <2>6. LedgerOK(AwaitWith(panel, c, list))
    BY <2>2, <2>3, <2>5, LedgerAwait, Zenon
  <2> QED
    BY <2>1, <2>6
<1>2. CASE RefreshEnds
  <2>1. PICK c \in Suspended("refresh") :
            panel' = Set(End(panel, c), "list", IF c.at = 1 THEN c.arg ELSE FirstLedger)
    BY <1>2 DEF RefreshEnds
  <2>2. c \in panel.calls /\ c.op = "refresh" /\ LedgerCallOK(c, Settled(panel.ui))
    BY Opened DEF LedgerOps
  <2>3. (IF c.at = 1 THEN c.arg ELSE FirstLedger) \in Lists
    BY <2>2, ListsOK DEF LedgerCallOK
  <2> QED
    BY <2>1, <2>2, <2>3, LedgerEnd, LedgerDisplay
<1>3. CASE ServeFiling
  <2>1. PICK c \in Suspended("file"), w \in Processes, due \in BOOLEAN,
             f \in NewFilings \ Registered(panel.ui) :
            /\ c.at = 0
            /\ panel' = AwaitWith([panel EXCEPT !.ui.books[w] = Register(@, f, due)], c,
                                  [filing |-> f, due |-> due])
    BY <1>3, Zenon DEF ServeFiling
  <2> DEFINE book == panel.ui.books[w]
             filed == book.filed \cup {f}
             paid == IF due THEN book.paid ELSE book.paid \cup {f}
             b == Register(book, f, due)
             ui == Rebooked(panel.ui, w, b)
             answer == [filing |-> f, due |-> due]
             p == [panel EXCEPT !.ui = ui]
             d == [c EXCEPT !.at = @ + 1, !.arg = answer]
  <2>2. /\ c \in panel.calls /\ c \in LedgerCalls /\ c.op = "file"
        /\ panel \in LedgerPanels /\ panel.ui \in LedgerUis /\ ChargesOK(panel.ui)
    BY Opened DEF LedgerOps
  <2>3. book \in Books /\ BookOK(book)
    BY <2>2 DEF LedgerUis, ChargesOK
  <2>4. /\ filed \in SUBSET Filings /\ paid \in SUBSET Filings
        /\ book.paid \subseteq paid /\ paid \subseteq filed /\ book.filed \subseteq filed
    BY <2>3 DEF Books, BookOK, Filings
  <2>5. b \in Books /\ b.filed = filed /\ b.paid = paid /\ b.charges = book.charges
    <3>1. b = [book EXCEPT !.filed = filed, !.paid = paid]
      BY DEF Register
    <3> HIDE DEF filed, paid, book, b
    <3> QED
      BY <2>3, <2>4, <3>1, Zenon DEF Books
  <2>6. BookOK(b)
    <3> HIDE DEF filed, paid, book, b
    <3> QED
      BY <2>3, <2>4, <2>5 DEF BookOK
  <2>7. \A g \in b.filed \ book.filed : g \notin Registered(panel.ui)
    BY <2>5
  <2>8. /\ ui \in LedgerUis /\ ChargesOK(ui) /\ Settled(panel.ui) \subseteq Settled(ui)
    <3> HIDE DEF b
    <3> QED
      BY <2>2, <2>4, <2>5, <2>6, <2>7, BookChanged
  <2>9. LedgerOK(p)
    <3> HIDE DEF ui
    <3> QED
      BY <2>8, LedgerPage
  <2>10. answer \in Receipts
    BY DEF Receipts
  <2>11. d.op = "file" /\ d.arg = answer
    BY <2>2 DEF LedgerCalls
  <2>12. LedgerCallOK(d, Settled(p.ui))
    BY <2>10, <2>11 DEF LedgerCallOK
  <2>13. p.calls = panel.calls
    BY <2>2 DEF LedgerPanels
  <2>14. panel' = AwaitWith(p, c, answer)
    BY <2>1, <2>2, Zenon DEF LedgerPanels, LedgerUis, Rebooked
  <2> HIDE DEF p, answer
  <2> QED
    BY <2>2, <2>9, <2>10, <2>12, <2>13, <2>14, LedgerAwait, Zenon
<1>4. CASE FilingAnswered
  <2>1. PICK c \in Suspended("file"), list \in Answers(panel.ui) \cup {FirstLedger} :
            /\ c.at = 1
            /\ panel' = [End(panel, c) EXCEPT
                            !.ui.list = list,
                            !.ui.selected = IF c.arg.due THEN c.arg.filing ELSE @]
    BY <1>4, Zenon DEF FilingAnswered
  <2> DEFINE chosen == IF c.arg.due THEN c.arg.filing ELSE panel.ui.selected
  <2>2. /\ c \in panel.calls /\ c.op = "file" /\ LedgerCallOK(c, Settled(panel.ui))
        /\ panel.ui \in LedgerUis
    BY Opened DEF LedgerOps
  <2>3. c.arg \in Receipts
    BY <2>1, <2>2 DEF LedgerCallOK
  <2>4. chosen \in Filings \cup {None}
    BY <2>2, <2>3 DEF Receipts, Filings, LedgerUis
  <2>5. LedgerOK(End(panel, c)) /\ End(panel, c).ui = panel.ui
    BY <2>2, LedgerEnd
  <2>6. list \in Lists
    BY <2>1, ListsOK
  <2>7. LedgerOK(Set(Set(End(panel, c), "list", list), "selected", chosen))
    <3> HIDE DEF chosen
    <3>1. LedgerOK(Set(End(panel, c), "list", list))
      BY <2>5, <2>6, LedgerDisplay
    <3> QED
      BY <3>1, <2>4, LedgerDisplay
  <2>8. panel' = Set(Set(End(panel, c), "list", list), "selected", chosen)
    <3>1. End(panel, c) \in LedgerPanels
      BY <2>5 DEF LedgerOK
    <3> QED
      BY <2>1, <2>5, <3>1, Zenon DEF Set, LedgerPanels, LedgerUis
  <2> QED
    BY <2>7, <2>8
<1>5. CASE FilingFails
  <2>1. PICK c \in Suspended("file") : panel' = Set(End(panel, c), "error", TRUE)
    BY <1>5, Zenon DEF FilingFails
  <2> QED
    BY <2>1, Opened, LedgerEnd, LedgerDisplay, Zenon DEF LedgerOps
<1>6. CASE WalletConnected
  <2>1. PICK c \in Suspended("wallet") : panel' = Set(End(panel, c), "connected", TRUE)
    BY <1>6, Zenon DEF WalletConnected
  <2> QED
    BY <2>1, Opened, LedgerEnd, LedgerDisplay, Zenon DEF LedgerOps
<1>7. CASE ServePayment
  <2>1. PICK c \in Suspended("pay"), w \in Processes :
            /\ c.arg \in panel.ui.books[w].filed
            /\ panel' = Await([panel EXCEPT !.ui.books[w] = Charge(@, c.arg)], c)
    BY <1>7, Zenon DEF ServePayment
  <2> DEFINE book == panel.ui.books[w]
             b == Charge(book, c.arg)
             ui == Rebooked(panel.ui, w, b)
             p == [panel EXCEPT !.ui = ui]
             d == [c EXCEPT !.at = @ + 1, !.arg = c.arg]
  <2>2. /\ c \in panel.calls /\ c \in LedgerCalls /\ c.op = "pay"
        /\ LedgerCallOK(c, Settled(panel.ui))
        /\ panel \in LedgerPanels /\ panel.ui \in LedgerUis /\ ChargesOK(panel.ui)
    BY Opened DEF LedgerOps
  <2>3. c.arg \in Filings /\ book \in Books /\ BookOK(book)
    BY <2>2 DEF LedgerCallOK, LedgerUis, ChargesOK
  <2>4. /\ b \in Books /\ BookOK(b) /\ book.paid \cup {c.arg} \subseteq b.paid
        /\ b.filed = book.filed
    <3> HIDE DEF book
    <3> QED
      BY <2>1, <2>3, ChargeSound DEF book
  <2>5. /\ ui \in LedgerUis /\ ChargesOK(ui)
        /\ Settled(panel.ui) \cup {c.arg} \subseteq Settled(ui)
    <3> HIDE DEF b
    <3> QED
      BY <2>2, <2>4, BookChanged
  <2>6. LedgerOK(p) /\ p.calls = panel.calls /\ p.ui = ui
    <3> HIDE DEF ui
    <3> QED
      BY <2>2, <2>5, LedgerPage DEF LedgerPanels
  <2>7. d.op = "pay" /\ d.arg = c.arg
    BY <2>2 DEF LedgerCalls
  <2>8. LedgerCallOK(d, Settled(p.ui))
    BY <2>3, <2>5, <2>6, <2>7 DEF LedgerCallOK
  <2>9. panel' = Await(p, c)
    BY <2>1, <2>2, Zenon DEF LedgerPanels, LedgerUis, Rebooked
  <2>10. Await(p, c) = AwaitWith(p, c, c.arg)
    BY <2>2, <2>6, AwaitKeeps, Zenon
  <2> HIDE DEF p
  <2> QED
    BY <2>2, <2>3, <2>6, <2>8, <2>9, <2>10, LedgerAwait, Zenon
<1>8. CASE PaymentSettled
  <2>1. PICK c \in Suspended("pay"), list \in Answers(panel.ui) \cup {FirstLedger} :
            /\ c.at = 1
            /\ panel' = [End(panel, c) EXCEPT
                            !.ui.list = list, !.ui.selected = None,
                            !.ui.settled = @ \cup {c.arg}]
    BY <1>8, Zenon DEF PaymentSettled
  <2> DEFINE p == End(panel, c)
             settled == panel.ui.settled \cup {c.arg}
             ui == [panel.ui EXCEPT !.list = list, !.selected = None, !.settled = settled]
  <2>2. /\ c \in panel.calls /\ c.op = "pay" /\ LedgerCallOK(c, Settled(panel.ui))
        /\ panel.ui \in LedgerUis /\ ChargesOK(panel.ui)
    BY Opened DEF LedgerOps
  <2>3. c.arg \in Filings /\ c.arg \in Settled(panel.ui)
    BY <2>1, <2>2 DEF LedgerCallOK
  <2>4. LedgerOK(p) /\ p \in LedgerPanels /\ p.ui = panel.ui
    BY <2>2, LedgerEnd DEF LedgerOK
  <2>5. list \in Lists
    BY <2>1, ListsOK
  <2>6. settled \in SUBSET Filings /\ settled \subseteq Settled(panel.ui)
    BY <2>2, <2>3 DEF LedgerUis, ChargesOK
  <2>7. /\ ui \in LedgerUis /\ ui.settled = settled
        /\ ui.books = panel.ui.books
    <3> HIDE DEF settled
    <3> QED
      BY <2>2, <2>5, <2>6, Zenon DEF LedgerUis
  <2>8. ChargesOK(ui) /\ Settled(ui) = Settled(panel.ui)
    BY <2>2, <2>6, <2>7 DEF ChargesOK, Settled
  <2>9. panel' = [p EXCEPT !.ui = ui]
    BY <2>1, <2>4, Zenon DEF LedgerPanels, LedgerUis
  <2> HIDE DEF p, ui
  <2> QED
    BY <2>4, <2>7, <2>8, <2>9, LedgerPage
<1>9. CASE PaymentFails
  <2>1. PICK c \in Suspended("pay") : panel' = Set(End(panel, c), "error", TRUE)
    BY <1>9, Zenon DEF PaymentFails
  <2> QED
    BY <2>1, Opened, LedgerEnd, LedgerDisplay, Zenon DEF LedgerOps
<1> QED
  BY <1>1, <1>2, <1>3, <1>4, <1>5, <1>6, <1>7, <1>8, <1>9 DEF LedgerResume

-----------------------------------------------------------------------------
\* The first render of the ledger is sound.
LEMMA LedgerMounted == LedgerOK(LedgerPanel)
<1> DEFINE books == [w \in Processes |-> FirstBook]
           ui == [books |-> books, list |-> Ledger({}, {}),
                  selected |-> None, method |-> "CARD", connected |-> FALSE,
                  error |-> FALSE, settled |-> {}]
<1>1. FirstBook \in Books /\ BookOK(FirstBook) /\ FirstBook.filed = {GstDue, ItrPaid}
  BY DEF FirstBook, Books, BookOK, Ledger, FirstLedger, Filings
<1>2. Ledger({}, {}) \in Lists
  BY DEF Lists, Ledger
<1>3. ui \in LedgerUis /\ ui.settled = {} /\ \A w \in Processes : ui.books[w] = FirstBook
  BY <1>1, <1>2 DEF LedgerUis
<1>4. ChargesOK(ui)
  <2> HIDE DEF ui
  <2> QED
    BY <1>1, <1>3 DEF ChargesOK
<1>5. LedgerPanel = [name |-> "ledger", ui |-> ui, calls |-> {}, busy |-> {}, shown |-> {},
                     logs |-> NoLogs, last |-> [o \in LedgerOps |-> 0], runs |-> 0]
  BY DEF LedgerPanel, Mounted, NoLogs, LedgerOps
<1>6. LedgerPanel \in LedgerPanels /\ LedgerPanel.ui = ui /\ LedgerPanel.calls = {}
  <2> HIDE DEF ui
  <2> QED
    BY <1>3, <1>5 DEF LedgerPanels
<1> QED
  BY <1>4, <1>6 DEF LedgerOK

-----------------------------------------------------------------------------
(* The returns, whatever an income is.                                     *)

\* One slab: what is above its floor is taxed and taken off.
Taxed(prev, slab) ==
    [above |-> prev.above - NotBelow0(prev.above - slab.floor),
     due |-> prev.due + slab.rate * NotBelow0(prev.above - slab.floor)]

SlabStep(income, g) ==
    [j \in 0..5 |-> IF j = 0 THEN [above |-> income, due |-> 0] ELSE Taxed(g[j - 1], Slabs[6 - j])]

\* What the recursion of TaxFrom is: a function that equals its own step.
LEMMA TaxUnfolds ==
    ASSUME NEW income
    PROVE  TaxFrom(5, income) = (CHOOSE g : g = SlabStep(income, g))[5].due
BY DEF TaxFrom, SlabStep, Taxed

\* The slabs, one by one.
LEMMA SlabsAre ==
    /\ Slabs[5] = [floor |-> 15, rate |-> 30] /\ Slabs[4] = [floor |-> 12, rate |-> 20]
    /\ Slabs[3] = [floor |-> 9, rate |-> 15] /\ Slabs[2] = [floor |-> 6, rate |-> 10]
    /\ Slabs[1] = [floor |-> 3, rate |-> 5]
BY DEF Slabs

\* The recursion over the slabs is well defined: its five steps, one by one.
LEMMA FiveSlabs ==
    ASSUME NEW income
    PROVE  LET t0 == [above |-> income, due |-> 0]
               t1 == Taxed(t0, Slabs[5])
               t2 == Taxed(t1, Slabs[4])
               t3 == Taxed(t2, Slabs[3])
               t4 == Taxed(t3, Slabs[2])
           IN  TaxFrom(5, income) = Taxed(t4, Slabs[1]).due
<1> DEFINE t0 == [above |-> income, due |-> 0]
           t1 == Taxed(t0, Slabs[5])
           t2 == Taxed(t1, Slabs[4])
           t3 == Taxed(t2, Slabs[3])
           t4 == Taxed(t3, Slabs[2])
           t5 == Taxed(t4, Slabs[1])
           w == [j \in 0..5 |-> IF j = 0 THEN t0 ELSE IF j = 1 THEN t1 ELSE IF j = 2 THEN t2
                                ELSE IF j = 3 THEN t3 ELSE IF j = 4 THEN t4 ELSE t5]
           g == CHOOSE f : f = SlabStep(income, f)
<1>1. \E f : f = SlabStep(income, f)
  <2>1. /\ w[0] = t0 /\ w[1] = t1 /\ w[2] = t2 /\ w[3] = t3 /\ w[4] = t4 /\ w[5] = t5
    <3> HIDE DEF t0, t1, t2, t3, t4, t5
    <3> QED OBVIOUS
  <2>2. ASSUME NEW j \in 0..5 PROVE w[j] = SlabStep(income, w)[j]
    <3>0. SlabStep(income, w)[j] = IF j = 0 THEN t0 ELSE Taxed(w[j - 1], Slabs[6 - j])
      BY DEF SlabStep
    <3> HIDE DEF w
    <3>1. CASE j = 0
      BY <2>1, <3>0, <3>1
    <3>2. CASE j = 1
      BY <2>1, <3>0, <3>2
    <3>3. CASE j = 2
      BY <2>1, <3>0, <3>3
    <3>4. CASE j = 3
      BY <2>1, <3>0, <3>4
    <3>5. CASE j = 4
      BY <2>1, <3>0, <3>5
    <3>6. CASE j = 5
      BY <2>1, <3>0, <3>6
    <3> QED BY <3>1, <3>2, <3>3, <3>4, <3>5, <3>6
  <2>3. w = SlabStep(income, w)
    <3>1. w = [j \in 0..5 |-> w[j]] /\ SlabStep(income, w) = [j \in 0..5 |-> SlabStep(income, w)[j]]
      BY DEF SlabStep
    <3> HIDE DEF w
    <3> QED BY <2>2, <3>1
  <2> HIDE DEF w
  <2> QED BY <2>3
<1>2. g = SlabStep(income, g)
  BY <1>1
<1>3. \A j \in 0..5 : g[j] = IF j = 0 THEN t0 ELSE Taxed(g[j - 1], Slabs[6 - j])
  BY <1>2, Zenon DEF SlabStep
<1> HIDE DEF g, t0
<1>4. g[0] = t0
  BY <1>3
<1>5. g[1] = t1
  BY <1>3, <1>4
<1>6. g[2] = t2
  BY <1>3, <1>5
<1>7. g[3] = t3
  BY <1>3, <1>6
<1>8. g[4] = t4
  BY <1>3, <1>7
<1>9. g[5] = t5
  BY <1>3, <1>8
<1> QED BY <1>9, TaxUnfolds DEF g, t0

\* A slab step on values that are named.
LEMMA TaxedIs ==
    ASSUME NEW a, NEW d, NEW f, NEW r, NEW o, o = NotBelow0(a - f),
           NEW b, b = a - o, NEW e, e = d + r * o
    PROVE  Taxed([above |-> a, due |-> d], [floor |-> f, rate |-> r]) = [above |-> b, due |-> e]
BY DEF Taxed

\* The service taxes an income slab by slab from the top, the page slice by slice:
\* the same, for every income.
LEMMA SlabsAreSlices ==
    ASSUME NEW income \in Int
    PROVE  TaxFrom(5, income) = ItrTax(income)
<1> DEFINE o5 == NotBelow0(income - 15)
           a5 == income - o5
           o4 == NotBelow0(a5 - 12)
           a4 == a5 - o4
           o3 == NotBelow0(a4 - 9)
           a3 == a4 - o3
           o2 == NotBelow0(a3 - 6)
           a2 == a3 - o2
           o1 == NotBelow0(a2 - 3)
           d1 == 30 * o5
           d2 == d1 + 20 * o4
           d3 == d2 + 15 * o3
           d4 == d3 + 10 * o2
           d5 == d4 + 5 * o1
           a1 == a2 - o1
<1>1. TaxFrom(5, income) = d5
  <2>0. o5 \in Int
    BY DEF NotBelow0
  <2>1. /\ o5 = NotBelow0(income - 15) /\ a5 = income - o5 /\ d1 = 0 + 30 * o5
    BY <2>0
  <2>a. o4 = NotBelow0(a5 - 12) /\ a4 = a5 - o4 /\ d2 = d1 + 20 * o4
    OBVIOUS
  <2>b. o3 = NotBelow0(a4 - 9) /\ a3 = a4 - o3 /\ d3 = d2 + 15 * o3
    OBVIOUS
  <2>c. o2 = NotBelow0(a3 - 6) /\ a2 = a3 - o2 /\ d4 = d3 + 10 * o2
    OBVIOUS
  <2>d. o1 = NotBelow0(a2 - 3) /\ a1 = a2 - o1 /\ d5 = d4 + 5 * o1
    OBVIOUS
  <2> HIDE DEF o1, o2, o3, o4, o5, a1, a2, a3, a4, a5, d1, d2, d3, d4, d5
  <2>2. Taxed([above |-> income, due |-> 0], Slabs[5]) = [above |-> a5, due |-> d1]
    BY <2>1, SlabsAre, TaxedIs
  <2>3. Taxed([above |-> a5, due |-> d1], Slabs[4]) = [above |-> a4, due |-> d2]
    BY <2>a, SlabsAre, TaxedIs
  <2>4. Taxed([above |-> a4, due |-> d2], Slabs[3]) = [above |-> a3, due |-> d3]
    BY <2>b, SlabsAre, TaxedIs
  <2>5. Taxed([above |-> a3, due |-> d3], Slabs[2]) = [above |-> a2, due |-> d4]
    BY <2>c, SlabsAre, TaxedIs
  <2>6. Taxed([above |-> a2, due |-> d4], Slabs[1]) = [above |-> a1, due |-> d5]
    BY <2>d, SlabsAre, TaxedIs
  <2>7. TaxFrom(5, income)
            = Taxed(Taxed(Taxed(Taxed(Taxed([above |-> income, due |-> 0], Slabs[5]),
                                      Slabs[4]), Slabs[3]), Slabs[2]), Slabs[1]).due
    BY FiveSlabs
  <2>8. TaxFrom(5, income) = [above |-> a1, due |-> d5].due
    BY <2>2, <2>3, <2>4, <2>5, <2>6, <2>7, Zenon, Zenon
  <2> QED BY <2>8
<1>2. o5 = NotBelow0(income - 15) /\ o5 \in Int /\ a5 = (IF income < 15 THEN income ELSE 15)
  BY DEF NotBelow0
<1>3. o4 = Slice(income, 12, 15) /\ o4 \in Int /\ a4 = (IF income < 12 THEN income ELSE 12)
  BY <1>2 DEF NotBelow0, Slice
<1>4. o3 = Slice(income, 9, 12) /\ o3 \in Int /\ a3 = (IF income < 9 THEN income ELSE 9)
  BY <1>3 DEF NotBelow0, Slice
<1>5. o2 = Slice(income, 6, 9) /\ o2 \in Int /\ a2 = (IF income < 6 THEN income ELSE 6)
  BY <1>4 DEF NotBelow0, Slice
<1>6. o1 = Slice(income, 3, 6) /\ o1 \in Int
  BY <1>5 DEF NotBelow0, Slice
<1> HIDE DEF o1, o2, o3, o4, o5
<1> QED BY <1>1, <1>2, <1>3, <1>4, <1>5, <1>6 DEF ItrTax

\* A return of any amount; the page starts with one of its own.
AnyReturn == [kind : {"itr", "corp", "vat"}, net : Int, rate : Rates]

\* Every form of the page is one, the first render's included.
LEMMA ReturnsAre == Returns \subseteq AnyReturn /\ Return("itr", 57, UsualRate) \in AnyReturn
<1>1. UsualRate \in Rates
  BY DEF Rates
<1>2. [kind : {"itr", "corp"}, net : Nets, rate : {UsualRate}] \subseteq AnyReturn
  BY <1>1, TaxAssumption, Zenon DEF AnyReturn
<1>3. [kind : {"vat"}, net : Nets, rate : Rates] \subseteq AnyReturn
  BY TaxAssumption, Zenon DEF AnyReturn
<1>4. Return("itr", 57, UsualRate) \in AnyReturn
  BY <1>1 DEF Return, AnyReturn
<1> QED
  BY <1>2, <1>3, <1>4 DEF Returns

\* The slices of a whole amount are whole.
LEMMA SliceIsInt ==
    ASSUME NEW n \in Int, NEW lo \in Int, NEW hi \in Int
    PROVE  Slice(n, lo, hi) \in Int /\ NotBelow0(n) \in Int
BY DEF Slice, NotBelow0

\* The service registers what the page previews, for every amount, but for VAT
\* at a rate that is not the usual one or on a sale that loses.
LEMMA AssessIsEstimate ==
    ASSUME NEW form \in AnyReturn
    PROVE  \/ form.kind = "vat" /\ (form.rate # UsualRate \/ form.net < 0)
           \/ Assess(form) = Estimate(form)
<1>1. form.net \in Int /\ form.kind \in {"itr", "corp", "vat"}
  BY DEF AnyReturn
<1>2. CASE form.kind = "itr"
  <2>1. NotBelow0(form.net) \in Int
    BY <1>1 DEF NotBelow0
  <2>2. Assess(form) = TaxFrom(5, NotBelow0(form.net))
    BY <1>2 DEF Assess
  <2>3. Estimate(form) = ItrTax(NotBelow0(form.net))
    BY <1>2 DEF Estimate
  <2> QED BY <2>1, <2>2, <2>3, SlabsAreSlices
<1>3. CASE form.kind = "corp"
  BY <1>3 DEF Assess, Estimate
<1>4. CASE form.kind = "vat" /\ form.rate = UsualRate /\ ~(form.net < 0)
  BY <1>1, <1>4 DEF Assess, Estimate, NotBelow0
<1> QED BY <1>1, <1>2, <1>3, <1>4

\* Every filing in flight holds a return, and every liability shown is the one
\* the service registers for it.
ReturnCalls == [op : {"assess"}, flag : {"filing"}, arg : AnyReturn, run : Nat, at : {0}]

Assessed == {r \in [op : {"assess"}, run : Nat, arg : AnyReturn, out : Int] : r.out = Assess(r.arg)}

ReturnPanels == [name : {"returns"}, ui : [form : AnyReturn], calls : SUBSET ReturnCalls,
                 busy : SUBSET {"filing"}, shown : SUBSET Assessed, logs : {NoLogs},
                 last : [{"assess"} -> Nat], runs : Nat]

\* What is registered is a whole sum.
LEMMA AssessIsInt == ASSUME NEW form \in AnyReturn PROVE Assess(form) \in Int
<1>1. form.net \in Int /\ form.kind \in {"itr", "corp", "vat"}
  BY DEF AnyReturn
<1>2. CASE form.kind = "itr"
  <2>1. NotBelow0(form.net) \in Int
    BY <1>1 DEF NotBelow0
  <2>2. Assess(form) = ItrTax(NotBelow0(form.net))
    BY <1>2, <2>1, SlabsAreSlices DEF Assess
  <2> DEFINE n == NotBelow0(form.net)
  <2>3. /\ Slice(n, 3, 6) \in Int /\ Slice(n, 6, 9) \in Int /\ Slice(n, 9, 12) \in Int
        /\ Slice(n, 12, 15) \in Int /\ NotBelow0(n - 15) \in Int
    <3> HIDE DEF n
    <3>1. n \in Int /\ n - 15 \in Int
      BY <2>1 DEF n
    <3> QED BY <3>1, SliceIsInt
  <2>4. ItrTax(NotBelow0(form.net)) \in Int
    BY <2>3 DEF ItrTax
  <2> QED BY <2>2, <2>4
<1>3. CASE form.kind = "corp"
  BY <1>1, <1>3 DEF Assess, NotBelow0
<1>4. CASE form.kind = "vat"
  BY <1>1, <1>4 DEF Assess, UsualRate
<1> QED BY <1>1, <1>2, <1>3, <1>4

\* The first render shows no liability.
LEMMA ReturnsStart == ReturnsPanel \in ReturnPanels
  BY ReturnsAre DEF ReturnsPanel, Mounted, ReturnPanels, NoLogs

\* The answer brings the liability of the form that was sent.
LEMMA ReturnsStep ==
    ASSUME panel \in ReturnPanels, ReturnsUser \/ ReturnAssessed
    PROVE  panel' \in ReturnPanels
<1>1. CASE EditReturn
  BY <1>1, ReturnsAre DEF EditReturn, Edit, Set, ReturnPanels
<1>2. CASE FileReturn
  <2> DEFINE c == NewCall(panel, "assess", "filing", panel.ui.form)
             calls == panel.calls \cup {c}
             busy == panel.busy \cup ({"filing"} \ {None})
             last == [panel.last EXCEPT !["assess"] = panel.runs + 1]
             shown == {r \in panel.shown : r.op \notin {"assess"}}
  <2>1. panel' = [panel EXCEPT !.calls = calls, !.busy = busy, !.last = last,
                               !.runs = panel.runs + 1, !.shown = shown]
    BY <1>2 DEF FileReturn, Hide, Begin, ReturnPanels
  <2>2. c \in ReturnCalls
    BY DEF NewCall, ReturnCalls, ReturnPanels
  <2>3. /\ calls \in SUBSET ReturnCalls /\ busy \in SUBSET {"filing"}
        /\ last \in [{"assess"} -> Nat] /\ shown \in SUBSET Assessed /\ panel.runs + 1 \in Nat
    BY <2>2 DEF ReturnPanels
  <2> HIDE DEF c, calls, busy, last, shown
  <2> QED BY <2>1, <2>3, Zenon DEF ReturnPanels
<1>3. CASE ReturnAssessed
  <2>1. PICK c \in Suspended("assess") :
            panel' \in {End(Show(panel, c, Assess(c.arg)), c), End(panel, c)}
    BY <1>3 DEF ReturnAssessed
  <2>2. c \in ReturnCalls
    BY DEF Suspended, ReturnPanels
  <2>3. End(panel, c) \in ReturnPanels
    BY Zenon DEF End, ReturnPanels
  <2> DEFINE new == [op |-> c.op, run |-> c.run, arg |-> c.arg, out |-> Assess(c.arg)]
             shown == {r \in panel.shown : r.op # c.op} \cup {new}
  <2>4. new \in Assessed
    <3>1. Assess(c.arg) \in Int
      BY <2>2, AssessIsInt DEF ReturnCalls
    <3> QED BY <2>2, <3>1 DEF ReturnCalls, Assessed
  <2>5. shown \in SUBSET Assessed
    BY <2>4 DEF ReturnPanels
  <2>6. Show(panel, c, Assess(c.arg)) = [panel EXCEPT !.shown = shown]
    BY DEF Show, ReturnPanels
  <2>7. Show(panel, c, Assess(c.arg)) \in ReturnPanels
    <3> HIDE DEF shown
    <3> QED BY <2>5, <2>6 DEF ReturnPanels
  <2>8. End(Show(panel, c, Assess(c.arg)), c) \in ReturnPanels
    BY <2>7, Zenon DEF End, ReturnPanels
  <2> QED BY <2>1, <2>3, <2>8
<1> QED BY <1>1, <1>2, <1>3 DEF ReturnsUser

\* What is shown of a return is what was previewed.
LEMMA ShownAsPreviewed == panel \in ReturnPanels => AssessedAsPreviewed
<1> SUFFICES ASSUME panel \in ReturnPanels, NEW r \in panel.shown
             PROVE  \/ r.arg.kind = "vat" /\ (r.arg.rate # UsualRate \/ r.arg.net < 0)
                    \/ r.out = Estimate(r.arg)
  BY DEF AssessedAsPreviewed
<1>1. r.arg \in AnyReturn /\ r.out = Assess(r.arg)
  BY DEF ReturnPanels, Assessed
<1> QED BY <1>1, AssessIsEstimate

-----------------------------------------------------------------------------
(* Every step of the console *)

\* A step keeps the handlers that a panel has.
LEMMA ShapeStep == ASSUME NEW p, NEW q, Step(p, q), Shape(p) PROVE Shape(q)
BY DEF Step, Shape

\* Every step of the console is a step of handlers.
LEMMA NextStep == ASSUME Inv(panel), Next PROVE Step(panel, panel')
BY RiskStep, SoarDeskStep, FilingStep, TaxStep, OperationsStep, PortalStep, ShellStep, DeskStep,
   PublicStep
   DEF Next, User, Timer, Resume

\* What the tax ledger holds, and what a return shows.
TaxOK(p) ==
    /\ p.name = "ledger" => LedgerOK(p)
    /\ p.name = "returns" => p \in ReturnPanels

\* The name of a panel tells whose steps it takes.
LEMMA PageSteps ==
    ASSUME Next
    PROVE  /\ panel.name = "apikey" => ApiKeyUser \/ ApiKeyResume
           /\ panel.name = "wallet" => GenerateZKProof \/ WalletResume
           /\ panel.name = "checkout" => CheckoutUser \/ CheckoutResume
           /\ panel.name = "preferences" => PreferencesUser \/ PreferencesResume
           /\ panel.name = "forms" => FormsUser \/ ToastExpires
           /\ panel.name = "workspace" => WorkspaceUser \/ CheckDb \/ WorkspaceResume
           /\ panel.name = "terminal"
                 => HandleCommand \/ ToggleExpanded \/ CommandOutput \/ ClearOutput
           /\ panel.name = "playbook" => PlaybookUser \/ PlaybookResume
           /\ panel.name = "payments" => PaymentsUser \/ Ingest \/ PaymentsResume
           /\ panel.name = "regtech" => RegTechUser \/ RegTechResume
           /\ panel.name = "strategy" => StrategyUser \/ StrategyResume
           /\ panel.name = "alerts" => FetchLive \/ NewAlert \/ Unmount
           /\ panel.name = "ledger" => LedgerUser \/ LedgerResume
           /\ panel.name = "returns" => ReturnsUser \/ ReturnAssessed
<1> USE DEF Next, User, Timer, Resume,
            RiskUser, RiskResume, SoarDeskUser, SoarDeskResume, FilingUser, FilingTimer,
            FilingResume, TaxUser, TaxResume, OperationsUser, OperationsTimer, OperationsResume,
            PortalUser, PortalResume, ShellUser, ShellTimer, ShellResume, DeskUser, DeskTimer,
            DeskResume, PublicUser, PublicTimer, PublicResume
<1>1. panel.name = "apikey" => ApiKeyUser \/ ApiKeyResume
  OBVIOUS
<1>2. panel.name = "wallet" => GenerateZKProof \/ WalletResume
  OBVIOUS
<1>3. panel.name = "checkout" => CheckoutUser \/ CheckoutResume
  OBVIOUS
<1>4. panel.name = "preferences" => PreferencesUser \/ PreferencesResume
  OBVIOUS
<1>5. panel.name = "forms" => FormsUser \/ ToastExpires
  OBVIOUS
<1>6. panel.name = "workspace" => WorkspaceUser \/ CheckDb \/ WorkspaceResume
  OBVIOUS
<1>7. panel.name = "terminal" => HandleCommand \/ ToggleExpanded \/ CommandOutput \/ ClearOutput
  OBVIOUS
<1>8. panel.name = "playbook" => PlaybookUser \/ PlaybookResume
  OBVIOUS
<1>9. panel.name = "payments" => PaymentsUser \/ Ingest \/ PaymentsResume
  OBVIOUS
<1>10. panel.name = "regtech" => RegTechUser \/ RegTechResume
  OBVIOUS
<1>11. panel.name = "strategy" => StrategyUser \/ StrategyResume
  OBVIOUS
<1>12. panel.name = "alerts" => FetchLive \/ NewAlert \/ Unmount
  OBVIOUS
<1>13. panel.name = "ledger" => LedgerUser \/ LedgerResume
  OBVIOUS
<1>14. panel.name = "returns" => ReturnsUser \/ ReturnAssessed
  OBVIOUS
<1> QED
  BY ONLY <1>1, <1>2, <1>3, <1>4, <1>5, <1>6, <1>7, <1>8, <1>9, <1>10, <1>11, <1>12, <1>13, <1>14

\* Every step of the console keeps what holds of each page.
LEMMA PagesStep == ASSUME Inv(panel), Next PROVE Pages(panel')
<1>0. panel'.name = panel.name
  BY NextStep DEF Step
<1>1. panel.name = "apikey" => ApiKeyOK(panel')
  BY ApiKeyPage, PageSteps
<1>2. panel.name = "wallet" => WalletOK(panel')
  BY WalletPage, PageSteps
<1>3. panel.name = "checkout" => CheckoutOK(panel')
  BY CheckoutPage, PageSteps
<1>4. panel.name \in {"preferences", "forms", "workspace", "terminal"} => WaitingOK(panel')
  BY PreferencesPage, FormsPage, WorkspacePage, TerminalPage, PageSteps
<1>5. panel.name = "playbook" => PlaybookOK(panel')
  BY PlaybookPage, PageSteps
<1>6. panel.name = "payments" => PaymentsOK(panel')
  BY PaymentsPage, PageSteps
<1>7. panel.name = "regtech" => RegTechOK(panel')
  BY RegTechPage, PageSteps
<1>8. panel.name = "strategy" => StrategyOK(panel')
  BY StrategyPage, PageSteps
<1>9. panel.name = "alerts" => AlertsOK(panel')
  BY AlertsPage, PageSteps
<1> QED BY <1>0, <1>1, <1>2, <1>3, <1>4, <1>5, <1>6, <1>7, <1>8, <1>9 DEF Pages

\* So it does with the ledger and the returns.
LEMMA TaxOKStep == ASSUME Inv(panel), TaxOK(panel), Next PROVE TaxOK(panel')
<1>0. panel'.name = panel.name
  BY NextStep DEF Step
<1>1. panel.name = "ledger" => LedgerOK(panel')
  BY LedgerUserOK, LedgerResumeOK, PageSteps DEF TaxOK
<1>2. panel.name = "returns" => panel' \in ReturnPanels
  BY ReturnsStep, PageSteps DEF TaxOK
<1> QED BY <1>0, <1>1, <1>2 DEF TaxOK

\* The inductive invariant of the console.
ConsoleOK(p) == Inv(p) /\ TaxOK(p)

\* The invariant is inductive.
LEMMA ConsoleStep == ConsoleOK(panel) /\ [Next]_panel => ConsoleOK(panel')
<1> SUFFICES ASSUME ConsoleOK(panel), [Next]_panel PROVE ConsoleOK(panel')
  OBVIOUS
<1>1. CASE Next
  <2>1. Step(panel, panel') /\ Pages(panel') /\ TaxOK(panel')
    BY <1>1, NextStep, PagesStep, TaxOKStep DEF ConsoleOK
  <2>2. Sound(panel') /\ Shape(panel')
    BY <2>1, ShapeStep DEF ConsoleOK, Inv, Step
  <2> QED BY <2>1, <2>2 DEF ConsoleOK, Inv
<1>2. CASE panel' = panel
  BY <1>2 DEF ConsoleOK
<1> QED BY <1>1, <1>2

-----------------------------------------------------------------------------
(* The first render of every panel *)

\* What holds of a panel that is mounted, with the handlers of its effects
\* started.
Ready(p, name, ui, ops) ==
    /\ Sound(p) /\ Step(p, p)
    /\ p.name = name /\ p.ui = ui /\ DOMAIN p.last = ops /\ DOMAIN p = Fields

\* A panel that is mounted is sound.
LEMMA MountedReady ==
    ASSUME NEW name, NEW ui, NEW ops, NEW terminals, terminals \cap NoSpinner = {}
    PROVE  /\ Ready(Mounted(name, ui, ops, terminals), name, ui, ops)
           /\ Mounted(name, ui, ops, terminals).busy = {}
           /\ Mounted(name, ui, ops, terminals).calls = {}
BY MountedBlank, BlankSound, StepRefl DEF Ready, Blank

\* It stays so when an effect starts a handler.
LEMMA StartReady ==
    ASSUME NEW p, NEW name, NEW ui, NEW ops, Ready(p, name, ui, ops),
           NEW op \in ops, NEW flag, NEW arg,
           \/ Plain(op) /\ (flag \in NoSpinner \/ flag \notin p.busy)
           \/ Own(op, flag) /\ op \notin Hiding /\ flag \notin p.busy
    PROVE  Ready(Begin(p, op, flag, arg), name, ui, ops)
<1>1. Step(p, Begin(p, op, flag, arg))
  BY StartStep DEF Ready
<1>2. Sound(Begin(p, op, flag, arg)) /\ Step(Begin(p, op, flag, arg), Begin(p, op, flag, arg))
  BY <1>1, StepRefl DEF Step
<1>3. /\ Begin(p, op, flag, arg).name = p.name /\ DOMAIN Begin(p, op, flag, arg).last = DOMAIN p.last
      /\ DOMAIN Begin(p, op, flag, arg) = Fields
  BY <1>1, StepSound
<1>4. Begin(p, op, flag, arg).ui = p.ui
  BY DEF Begin, Ready, Fields
<1> QED BY <1>2, <1>3, <1>4 DEF Ready

\* A panel whose effects start nothing, and which prints to no terminal.
LEMMA PlainReady ==
    \A name, ui, ops : /\ Ready(Mounted(name, ui, ops, {}), name, ui, ops)
                       /\ Mounted(name, ui, ops, {}).calls = {}
BY MountedReady

\* A panel whose effect starts one handler.
LEMMA LoadingReady ==
    ASSUME NEW name, NEW ui, NEW ops, NEW op \in ops, NEW flag, NEW arg,
           Plain(op) \/ (Own(op, flag) /\ op \notin Hiding)
    PROVE  Ready(Begin(Mounted(name, ui, ops, {}), op, flag, arg), name, ui, ops)
BY MountedReady, StartReady

\* No terminal has the name of a spinner that is shared.
LEMMA TerminalNames ==
    \A t \in {"scan", "train", "evacuate", "dispute", "screen", "filing", "boot", "probe",
              "solvency", "prove"} : {t} \cap NoSpinner = {}
BY NoneAssumption DEF NoSpinner, Shared, Spinners

\* The first render of every panel of RiskPanels.
LEMMA RiskStart == \A p \in RiskInitial : ConsoleOK(p)
<1>1. ConsoleOK(FraudPanel)
  <2>1. PICK ui : FraudPanel = Mounted("fraud", ui, {"verify", "memo"}, {})
    BY DEF FraudPanel
  <2>2. Ready(FraudPanel, "fraud", ui, {"verify", "memo"})
    BY <2>1, PlainReady
  <2> QED BY <2>2 DEF ConsoleOK, Inv, Ready, Shape, Pages, TaxOK
<1>2. ConsoleOK(CreditPanel)
  <2>1. PICK ui : CreditPanel = Mounted("credit", ui, {"underwrite"}, {})
    BY DEF CreditPanel
  <2>2. Ready(CreditPanel, "credit", ui, {"underwrite"})
    BY <2>1, PlainReady
  <2> QED BY <2>2 DEF ConsoleOK, Inv, Ready, Shape, Pages, TaxOK
<1>3. ConsoleOK(GraphPanel)
  BY MountedReady, TerminalNames
     DEF ConsoleOK, Inv, GraphPanel, Ready, Shape, Pages, TaxOK
<1>4. ConsoleOK(AdversarialPanel)
  <2>1. PICK ui : AdversarialPanel = Mounted("adversarial", ui, {"attack"}, {})
    BY DEF AdversarialPanel
  <2>2. Ready(AdversarialPanel, "adversarial", ui, {"attack"})
    BY <2>1, PlainReady
  <2> QED BY <2>2 DEF ConsoleOK, Inv, Ready, Shape, Pages, TaxOK
<1> QED
  BY <1>1, <1>2, <1>3, <1>4
     DEF RiskInitial

\* The first render of every panel of SoarDeskPanels.
LEMMA SoarDeskStart == \A p \in SoarDeskInitial : ConsoleOK(p)
<1>1. ConsoleOK(SoarViewPanel)
  <2>1. PICK ui : SoarViewPanel = Mounted("soarView", ui, {}, {})
    BY DEF SoarViewPanel
  <2>2. Ready(SoarViewPanel, "soarView", ui, {})
    BY <2>1, PlainReady
  <2> QED BY <2>2 DEF ConsoleOK, Inv, Ready, Shape, Pages, TaxOK
<1>2. ConsoleOK(PlaybookPanel)
  <2> DEFINE ui == [sequence |-> <<>>, progress |-> 0 - 1, complete |-> FALSE, executed |-> <<>>]
  <2>1. PlaybookPanel = Mounted("playbook", ui, {"execute"}, {})
    BY DEF PlaybookPanel
  <2>2. /\ DOMAIN ui = {"sequence", "progress", "complete", "executed"}
        /\ ui.sequence \in Seq(Steps) /\ ui.executed \in Seq(Steps) /\ ~ui.complete
    BY EmptySeq
  <2> HIDE DEF ui
  <2>3. Ready(PlaybookPanel, "playbook", ui, {"execute"}) /\ PlaybookPanel.calls = {}
    BY <2>1, PlainReady
  <2>4. PlaybookOK(PlaybookPanel)
    BY <2>2, <2>3 DEF PlaybookOK, Ready
  <2> QED BY <2>3, <2>4 DEF ConsoleOK, Inv, Ready, Shape, Pages, TaxOK
<1>3. ConsoleOK(ZkpPanel)
  <2>1. PICK ui : ZkpPanel = Mounted("zkp", ui, {"prove", "check"}, {})
    BY DEF ZkpPanel
  <2>2. Ready(ZkpPanel, "zkp", ui, {"prove", "check"})
    BY <2>1, PlainReady
  <2> QED BY <2>2 DEF ConsoleOK, Inv, Ready, Shape, Pages, TaxOK
<1>4. ConsoleOK(FederationPanel)
  BY MountedReady, TerminalNames
     DEF ConsoleOK, Inv, FederationPanel, Ready, Shape, Pages, TaxOK
<1>5. ConsoleOK(SignerPanel)
  <2>1. PICK ui : SignerPanel = Mounted("signer", ui, {"sign"}, {})
    BY DEF SignerPanel
  <2>2. Ready(SignerPanel, "signer", ui, {"sign"})
    BY <2>1, PlainReady
  <2> QED BY <2>2 DEF ConsoleOK, Inv, Ready, Shape, Pages, TaxOK
<1>6. ConsoleOK(SovereigntyPanel)
  <2>1. PICK ui : SovereigntyPanel = Mounted("sovereignty", ui, {"resolve"}, {})
    BY DEF SovereigntyPanel
  <2>2. Ready(SovereigntyPanel, "sovereignty", ui, {"resolve"})
    BY <2>1, PlainReady
  <2> QED BY <2>2 DEF ConsoleOK, Inv, Ready, Shape, Pages, TaxOK
<1>7. ConsoleOK(EvacuationPanel)
  BY MountedReady, TerminalNames
     DEF ConsoleOK, Inv, EvacuationPanel, Ready, Shape, Pages, TaxOK
<1> QED
  BY <1>1, <1>2, <1>3, <1>4, <1>5, <1>6, <1>7
     DEF SoarDeskInitial

\* The first render of every panel of FilingPanels.
LEMMA FilingStart == \A p \in FilingInitial : ConsoleOK(p)
<1>1. ConsoleOK(PaymentsPanel)
  <2> DEFINE ui == [ingesting |-> FALSE, txs |-> <<>>, tx |-> None, step |-> "DRAFT",
                   prepared |-> {}, sent |-> {}]
  <2>1. PaymentsPanel = Mounted("payments", ui, {"compile", "submit"}, {"dispute"})
    BY DEF PaymentsPanel
  <2>2. /\ DOMAIN ui = {"ingesting", "txs", "tx", "step", "prepared", "sent"}
        /\ ui.step = "DRAFT" /\ ui.prepared = {} /\ ui.sent = {}
    OBVIOUS
  <2> HIDE DEF ui
  <2>3. Ready(PaymentsPanel, "payments", ui, {"compile", "submit"}) /\ PaymentsPanel.calls = {}
    BY <2>1, MountedReady, TerminalNames
  <2> QED BY <2>2, <2>3 DEF ConsoleOK, Inv, Ready, Shape, Pages, TaxOK, PaymentsOK, FilingOK, Older
<1>2. ConsoleOK(RoutingPanel)
  <2>1. PICK ui : RoutingPanel = Mounted("routing", ui, {}, {})
    BY DEF RoutingPanel
  <2>2. Ready(RoutingPanel, "routing", ui, {})
    BY <2>1, PlainReady
  <2> QED BY <2>2 DEF ConsoleOK, Inv, Ready, Shape, Pages, TaxOK
<1>3. ConsoleOK(ScreeningPanel)
  BY MountedReady, TerminalNames
     DEF ConsoleOK, Inv, ScreeningPanel, Ready, Shape, Pages, TaxOK
<1>4. ConsoleOK(SuitabilityPanel)
  <2>1. PICK ui : SuitabilityPanel = Mounted("suitability", ui, {}, {})
    BY DEF SuitabilityPanel
  <2>2. Ready(SuitabilityPanel, "suitability", ui, {})
    BY <2>1, PlainReady
  <2> QED BY <2>2 DEF ConsoleOK, Inv, Ready, Shape, Pages, TaxOK
<1>5. ConsoleOK(StressPanel)
  <2>1. PICK ui : StressPanel = Mounted("stress", ui, {"stress"}, {})
    BY DEF StressPanel
  <2>2. Ready(StressPanel, "stress", ui, {"stress"})
    BY <2>1, PlainReady
  <2> QED BY <2>2 DEF ConsoleOK, Inv, Ready, Shape, Pages, TaxOK
<1>6. ConsoleOK(RegTechPanel)
  <2> DEFINE ui == [alert |-> None, draft |-> None, signed |-> FALSE, signature |-> None,
                   step |-> "IDLE", reference |-> None, envelope |-> None,
                   prepared |-> {}, sent |-> {}]
  <2>1. RegTechPanel = Mounted("regtech", ui, {"seal", "transmit"}, {"filing"})
    BY DEF RegTechPanel
  <2>2. /\ DOMAIN ui = {"alert", "draft", "signed", "signature", "step", "reference",
                        "envelope", "prepared", "sent"}
        /\ ~ui.signed /\ ui.prepared = {} /\ ui.sent = {}
    OBVIOUS
  <2> HIDE DEF ui
  <2>3. Ready(RegTechPanel, "regtech", ui, {"seal", "transmit"}) /\ RegTechPanel.calls = {}
    BY <2>1, MountedReady, TerminalNames
  <2> QED BY <2>2, <2>3 DEF ConsoleOK, Inv, Ready, Shape, Pages, TaxOK, RegTechOK, FilingOK,
         Older, Unused
<1> QED
  BY <1>1, <1>2, <1>3, <1>4, <1>5, <1>6
     DEF FilingInitial

\* The first render of every panel of TaxPanels.
LEMMA TaxStart == \A p \in TaxInitial : ConsoleOK(p)
<1>1. ConsoleOK(GstPanel)
  <2>1. PICK ui : GstPanel = Mounted("gst", ui, {"parse", "fileGst"}, {})
    BY DEF GstPanel
  <2>2. Ready(GstPanel, "gst", ui, {"parse", "fileGst"})
    BY <2>1, PlainReady
  <2> QED BY <2>2 DEF ConsoleOK, Inv, Ready, Shape, Pages, TaxOK
<1>2. ConsoleOK(ReturnsPanel)
  <2>1. PICK ui : ReturnsPanel = Mounted("returns", ui, {"assess"}, {})
    BY DEF ReturnsPanel
  <2>2. Ready(ReturnsPanel, "returns", ui, {"assess"})
    BY <2>1, PlainReady
  <2> QED BY <2>2, ReturnsStart DEF ConsoleOK, Inv, Ready, Shape, Pages, TaxOK
<1>3. ConsoleOK(LedgerPanel)
  <2> DEFINE ui == LedgerPanel.ui
             ops == {"refresh", "file", "pay", "wallet"}
  <2>1. LedgerPanel = Mounted("ledger", ui, ops, {})
    BY DEF LedgerPanel, Mounted
  <2> HIDE DEF ui
  <2>2. Ready(LedgerPanel, "ledger", ui, ops)
    BY <2>1, PlainReady
  <2> QED BY <2>2, LedgerMounted DEF ConsoleOK, Inv, Ready, Shape, Pages, TaxOK
<1> QED
  BY <1>1, <1>2, <1>3
     DEF TaxInitial

\* The first render of every panel of OperationsPanels.
LEMMA OperationsStart == \A p \in OperationsInitial : ConsoleOK(p)
<1>1. ConsoleOK(HealerPanel)
  <2>1. PICK ui : HealerPanel = Mounted("healer", ui, {"poll", "remediate", "clear"}, {})
    BY DEF HealerPanel
  <2>2. Ready(HealerPanel, "healer", ui, {"poll", "remediate", "clear"})
    BY <2>1, PlainReady
  <2> QED BY <2>2 DEF ConsoleOK, Inv, Ready, Shape, Pages, TaxOK
<1>2. ConsoleOK(EnclavePanel)
  <2>1. PICK ui : EnclavePanel = Mounted("enclave", ui, {"infer"}, {})
    BY DEF EnclavePanel
  <2>2. Ready(EnclavePanel, "enclave", ui, {"infer"})
    BY <2>1, PlainReady
  <2> QED BY <2>2 DEF ConsoleOK, Inv, Ready, Shape, Pages, TaxOK
<1>3. ConsoleOK(SwapPanel)
  <2>1. PICK ui : SwapPanel = Mounted("swap", ui, {"swap"}, {})
    BY DEF SwapPanel
  <2>2. Ready(SwapPanel, "swap", ui, {"swap"})
    BY <2>1, PlainReady
  <2> QED BY <2>2 DEF ConsoleOK, Inv, Ready, Shape, Pages, TaxOK
<1>4. ConsoleOK(BootPanel)
  <2> DEFINE m(ui) == Mounted("boot", ui, {"boot"}, {"boot"})
  <2>1. PICK ui : BootPanel = Begin(m(ui), "boot", "boot", None)
    BY DEF BootPanel
  <2>2. Ready(m(ui), "boot", ui, {"boot"}) /\ m(ui).busy = {}
    BY MountedReady, TerminalNames
  <2>3. Own("boot", "boot") /\ "boot" \notin Hiding
    BY OperationsOps DEF Hiding
  <2> HIDE DEF m
  <2>4. Ready(BootPanel, "boot", ui, {"boot"})
    BY <2>1, <2>2, <2>3, StartReady
  <2> QED BY <2>4 DEF ConsoleOK, Inv, Ready, Shape, Pages, TaxOK
<1>5. ConsoleOK(MergerPanel)
  <2>1. PICK ui : MergerPanel = Mounted("merger", ui, {"valuate"}, {})
    BY DEF MergerPanel
  <2>2. Ready(MergerPanel, "merger", ui, {"valuate"})
    BY <2>1, PlainReady
  <2> QED BY <2>2 DEF ConsoleOK, Inv, Ready, Shape, Pages, TaxOK
<1>6. ConsoleOK(FxPanel)
  <2>1. PICK ui : FxPanel = Mounted("fx", ui, {"route"}, {})
    BY DEF FxPanel
  <2>2. Ready(FxPanel, "fx", ui, {"route"})
    BY <2>1, PlainReady
  <2> QED BY <2>2 DEF ConsoleOK, Inv, Ready, Shape, Pages, TaxOK
<1>7. ConsoleOK(LinkPanel)
  <2>1. Plain("status")
    BY OperationsOps
  <2>2. PICK ui :
            LinkPanel = Begin(Mounted("link", ui, {"connect", "status", "stream"}, {}), "status", None, "mount")
    BY DEF LinkPanel
  <2>3. Ready(LinkPanel, "link", ui, {"connect", "status", "stream"})
    BY <2>1, <2>2, LoadingReady
  <2> QED BY <2>3 DEF ConsoleOK, Inv, Ready, Shape, Pages, TaxOK
<1>8. ConsoleOK(ProbePanel)
  BY MountedReady, TerminalNames
     DEF ConsoleOK, Inv, ProbePanel, Ready, Shape, Pages, TaxOK
<1> QED
  BY <1>1, <1>2, <1>3, <1>4, <1>5, <1>6, <1>7, <1>8
     DEF OperationsInitial

\* The strategy room loads a forecast and its inbox.
LEMMA StrategyStarts ==
    Sound(StrategyPanel) /\ StrategyPanel.name = "strategy" /\ StrategyOK(StrategyPanel)
    /\ DOMAIN StrategyPanel.last = {"forecast", "inbox", "decide"}
<1> DEFINE ops == {"forecast", "inbox", "decide"}
           ui == [scenario |-> "x1", server |-> {Item(1, "PENDING")}, queued |-> 1,
                  inbox |-> {}, selected |-> None, edited |-> FALSE]
           m == Mounted("strategy", ui, ops, {})
           p == Begin(m, "forecast", "forecast", m.ui.scenario)
           q == Begin(p, "inbox", None, None)
<1>1. StrategyPanel = q
  BY DEF StrategyPanel, Reload
<1>2. Ready(m, "strategy", ui, ops) /\ m.calls = {}
  <2> HIDE DEF ui, ops
  <2> QED BY PlainReady
<1>3. Ready(p, "strategy", ui, ops)
  <2> HIDE DEF m, ui
  <2> QED BY <1>2, StartReady, PortalOps
<1>4. Ready(q, "strategy", ui, ops)
  <2> HIDE DEF p, ui
  <2> QED BY <1>3, StartReady, PortalOps
<1>5. StrategyOK(m)
  <2>1. DOMAIN ui = {"scenario", "server", "queued", "inbox", "selected", "edited"}
    OBVIOUS
  <2> HIDE DEF m, ui
  <2> QED BY <1>2, <2>1 DEF StrategyOK, Ready
<1>6. Decided(m, q)
  <2>1. DOMAIN m = Fields /\ q = Reload(m)
    BY <1>2 DEF Reload, Ready
  <2> HIDE DEF m, q
  <2> QED BY <2>1, DecidedReload
<1> HIDE DEF m, p, q, ui
<1> QED BY <1>1, <1>4, <1>5, <1>6, DecidedOK DEF Ready

\* The first render of every panel of PortalPanels.
LEMMA PortalStart == \A p \in PortalInitial : ConsoleOK(p)
<1>1. ConsoleOK(KeysPanel)
  <2> DEFINE ui == [server |-> {Key(1), Key(2)}, listed |-> {}, generated |-> None,
                  modal |-> FALSE, dispatched |-> 0, history |-> 0, url |-> "x1"]
  <2>1. Plain("sync")
    BY PortalOps
  <2>2. KeysPanel = Begin(Mounted("keys", ui,
                                  {"sync", "create", "revoke", "invoice", "dispatch"}, {}),
                          "sync", "syncing", None)
    BY DEF KeysPanel
  <2> HIDE DEF ui
  <2>3. Ready(KeysPanel, "keys", ui, {"sync", "create", "revoke", "invoice", "dispatch"})
    BY <2>1, <2>2, LoadingReady
  <2> QED BY <2>3 DEF ConsoleOK, Inv, Ready, Shape, Pages, TaxOK
<1>2. ConsoleOK(PlaygroundPanel)
  <2>1. PICK ui : PlaygroundPanel = Mounted("playground", ui, {"play"}, {})
    BY DEF PlaygroundPanel
  <2>2. Ready(PlaygroundPanel, "playground", ui, {"play"})
    BY <2>1, PlainReady
  <2> QED BY <2>2 DEF ConsoleOK, Inv, Ready, Shape, Pages, TaxOK
<1>3. ConsoleOK(StrategyPanel)
  BY StrategyStarts DEF ConsoleOK, Inv, Shape, Pages, TaxOK
<1>4. ConsoleOK(ContractPanel)
  <2>1. PICK ui : ContractPanel = Mounted("contract", ui, {"audit"}, {})
    BY DEF ContractPanel
  <2>2. Ready(ContractPanel, "contract", ui, {"audit"})
    BY <2>1, PlainReady
  <2> QED BY <2>2 DEF ConsoleOK, Inv, Ready, Shape, Pages, TaxOK
<1>5. ConsoleOK(SweepPanel)
  <2>1. Own("sweep", "sweep") /\ "sweep" \notin Hiding
    BY PortalOps
  <2>2. PICK ui :
            SweepPanel = Begin(Mounted("sweep", ui, {"sweep", "deck"}, {}), "sweep", "sweep", "x1")
    BY DEF SweepPanel
  <2>3. Ready(SweepPanel, "sweep", ui, {"sweep", "deck"})
    BY <2>1, <2>2, LoadingReady
  <2> QED BY <2>3 DEF ConsoleOK, Inv, Ready, Shape, Pages, TaxOK
<1>6. ConsoleOK(SolvencyPanel)
  <2>1. PICK ui : SolvencyPanel = Mounted("solvency", ui, {"generate", "solvency"}, {"solvency"})
    BY DEF SolvencyPanel
  <2>2. Ready(SolvencyPanel, "solvency", ui, {"generate", "solvency"})
    BY <2>1, MountedReady, TerminalNames
  <2> QED BY <2>2 DEF ConsoleOK, Inv, Ready, Shape, Pages, TaxOK
<1>7. ConsoleOK(VaultsPanel)
  <2>1. Plain("vaults")
    BY PortalOps
  <2>2. PICK ui :
            VaultsPanel = Begin(Mounted("vaults", ui, {"vaults", "liquidate", "drop"}, {}), "vaults", "vaults", None)
    BY DEF VaultsPanel
  <2>3. Ready(VaultsPanel, "vaults", ui, {"vaults", "liquidate", "drop"})
    BY <2>1, <2>2, LoadingReady
  <2> QED BY <2>3 DEF ConsoleOK, Inv, Ready, Shape, Pages, TaxOK
<1>8. ConsoleOK(DidPanel)
  <2>1. PICK ui : DidPanel = Mounted("did", ui, {"did"}, {})
    BY DEF DidPanel
  <2>2. Ready(DidPanel, "did", ui, {"did"})
    BY <2>1, PlainReady
  <2> QED BY <2>2 DEF ConsoleOK, Inv, Ready, Shape, Pages, TaxOK
<1>9. ConsoleOK(QuotePanel("amm"))
  <2>1. Plain("quote")
    BY PortalOps
  <2>2. PICK ui :
            QuotePanel("amm") = Begin(Mounted("amm", ui, {"quote"}, {}), "quote", "quote", "x1")
    BY DEF QuotePanel
  <2>3. Ready(QuotePanel("amm"), "amm", ui, {"quote"})
    BY <2>1, <2>2, LoadingReady
  <2> QED BY <2>3 DEF ConsoleOK, Inv, Ready, Shape, Pages, TaxOK
<1>10. ConsoleOK(QuotePanel("cds"))
  <2>1. Plain("quote")
    BY PortalOps
  <2>2. PICK ui :
            QuotePanel("cds") = Begin(Mounted("cds", ui, {"quote"}, {}), "quote", "quote", "x1")
    BY DEF QuotePanel
  <2>3. Ready(QuotePanel("cds"), "cds", ui, {"quote"})
    BY <2>1, <2>2, LoadingReady
  <2> QED BY <2>3 DEF ConsoleOK, Inv, Ready, Shape, Pages, TaxOK
<1>11. ConsoleOK(SanctionsPanel)
  <2>1. Plain("quarantine")
    BY PortalOps
  <2>2. PICK ui :
            SanctionsPanel = Begin(Mounted("sanctions", ui, {"scan2", "quarantine"}, {}), "quarantine", "quarantine", None)
    BY DEF SanctionsPanel
  <2>3. Ready(SanctionsPanel, "sanctions", ui, {"scan2", "quarantine"})
    BY <2>1, <2>2, LoadingReady
  <2> QED BY <2>3 DEF ConsoleOK, Inv, Ready, Shape, Pages, TaxOK
<1>12. ConsoleOK(ReconPanel)
  <2>1. Own("recon", "recon") /\ "recon" \notin Hiding
    BY PortalOps
  <2>2. PICK ui :
            ReconPanel = Begin(Mounted("recon", ui, {"recon", "event"}, {}), "recon", "recon", "x1")
    BY DEF ReconPanel
  <2>3. Ready(ReconPanel, "recon", ui, {"recon", "event"})
    BY <2>1, <2>2, LoadingReady
  <2> QED BY <2>3 DEF ConsoleOK, Inv, Ready, Shape, Pages, TaxOK
<1> QED
  BY <1>1, <1>2, <1>3, <1>4, <1>5, <1>6, <1>7, <1>8, <1>9, <1>10, <1>11, <1>12
     DEF PortalInitial

\* The first render of every panel of ShellPanels.
LEMMA ShellStart == \A p \in ShellInitial : ConsoleOK(p)
<1>1. ConsoleOK(ApiKeyPanel)
  <2> DEFINE ui == [here |-> FactoryKey, there |-> FactoryKey, disk |-> FactoryKey,
                   dialog |-> FALSE, visible |-> FALSE, copied |-> FALSE, retired |-> {}]
  <2>1. ApiKeyPanel = Mounted("apikey", ui, {"regenerate", "copy"}, {})
    BY DEF ApiKeyPanel
  <2>2. /\ DOMAIN ui = {"here", "there", "disk", "dialog", "visible", "copied", "retired"}
        /\ ~ui.dialog
    OBVIOUS
  <2> HIDE DEF ui
  <2>3. Ready(ApiKeyPanel, "apikey", ui, {"regenerate", "copy"})
    BY <2>1, PlainReady
  <2> QED BY <2>2, <2>3 DEF ConsoleOK, Inv, Ready, Shape, Pages, TaxOK, ApiKeyOK
<1>2. ConsoleOK(PreferencesPanel)
  <2> DEFINE ui == [look |-> "x1", region |-> "x1", syncing |-> FALSE, export |-> None,
                   reset |-> FALSE, waiting |-> {}]
  <2>1. PreferencesPanel = Mounted("preferences", ui, {"toast", "reroute", "progress", "export", "reset"}, {})
    BY DEF PreferencesPanel
  <2>2. "waiting" \in DOMAIN ui /\ ui.waiting = {}
    OBVIOUS
  <2> HIDE DEF ui
  <2>3. Ready(PreferencesPanel, "preferences", ui, {"toast", "reroute", "progress", "export", "reset"})
    BY <2>1, PlainReady
  <2> QED BY <2>2, <2>3 DEF ConsoleOK, Inv, Ready, Shape, Pages, TaxOK, WaitingOK
<1>3. ConsoleOK(FormsPanel)
  <2> DEFINE ui == [prefs |-> FALSE, invite |-> None, retention |-> 1, expanded |-> FALSE,
                   waiting |-> {}]
  <2>1. FormsPanel = Mounted("forms", ui, {"toast"}, {})
    BY DEF FormsPanel
  <2>2. "waiting" \in DOMAIN ui /\ ui.waiting = {}
    OBVIOUS
  <2> HIDE DEF ui
  <2>3. Ready(FormsPanel, "forms", ui, {"toast"})
    BY <2>1, PlainReady
  <2> QED BY <2>2, <2>3 DEF ConsoleOK, Inv, Ready, Shape, Pages, TaxOK, WaitingOK
<1>4. ConsoleOK(NoticesPanel)
  <2>1. PICK ui : NoticesPanel = Mounted("notices", ui, {"seed", "stream"}, {})
    BY DEF NoticesPanel
  <2>2. Ready(NoticesPanel, "notices", ui, {"seed", "stream"})
    BY <2>1, PlainReady
  <2> QED BY <2>2 DEF ConsoleOK, Inv, Ready, Shape, Pages, TaxOK
<1>5. ConsoleOK(LayoutPanel)
  <2>1. PICK ui : LayoutPanel = Mounted("layout", ui, {}, {})
    BY DEF LayoutPanel
  <2>2. Ready(LayoutPanel, "layout", ui, {})
    BY <2>1, PlainReady
  <2> QED BY <2>2 DEF ConsoleOK, Inv, Ready, Shape, Pages, TaxOK
<1>6. ConsoleOK(TrailPanel)
  <2>1. PICK ui : TrailPanel = Mounted("trail", ui, {}, {})
    BY DEF TrailPanel
  <2>2. Ready(TrailPanel, "trail", ui, {})
    BY <2>1, PlainReady
  <2> QED BY <2>2 DEF ConsoleOK, Inv, Ready, Shape, Pages, TaxOK
<1>7. ConsoleOK(WorkspacePanel)
  <2> DEFINE ui == [linked |-> FALSE, done |-> FALSE, waiting |-> {}]
  <2>0. Plain("checkDb")
    BY ShellOps
  <2>1. WorkspacePanel = Begin(Mounted("workspace", ui, {"checkDb", "review", "toast"}, {}),
                              "checkDb", None, None)
    BY DEF WorkspacePanel
  <2>2. "waiting" \in DOMAIN ui /\ ui.waiting = {}
    OBVIOUS
  <2> HIDE DEF ui
  <2>3. Ready(WorkspacePanel, "workspace", ui, {"checkDb", "review", "toast"})
    BY <2>0, <2>1, LoadingReady
  <2> QED BY <2>2, <2>3 DEF ConsoleOK, Inv, Ready, Shape, Pages, TaxOK, WaitingOK
<1>8. ConsoleOK(SessionPanel)
  <2>1. PICK ui : SessionPanel = Mounted("session", ui, {}, {})
    BY DEF SessionPanel
  <2>2. Ready(SessionPanel, "session", ui, {})
    BY <2>1, PlainReady
  <2> QED BY <2>2 DEF ConsoleOK, Inv, Ready, Shape, Pages, TaxOK
<1> QED
  BY <1>1, <1>2, <1>3, <1>4, <1>5, <1>6, <1>7, <1>8
     DEF ShellInitial

\* The first render of every panel of DeskPanels.
LEMMA DeskStart == \A p \in DeskInitial : ConsoleOK(p)
<1>1. ConsoleOK(FeedPanel)
  <2> DEFINE ui == [filter |-> "x1", mocked |-> TRUE, row |-> None]
  <2>1. Plain("poll")
    BY DeskOps
  <2>2. FeedPanel = Begin(Mounted("feed", ui, {"poll", "highlight"}, {}), "poll", None, None)
    BY DEF FeedPanel
  <2> HIDE DEF ui
  <2>3. Ready(FeedPanel, "feed", ui, {"poll", "highlight"})
    BY <2>1, <2>2, LoadingReady
  <2> QED BY <2>3 DEF ConsoleOK, Inv, Ready, Shape, Pages, TaxOK
<1>2. ConsoleOK(OverviewPanel)
  <2>1. PICK ui : OverviewPanel = Mounted("overview", ui, {}, {})
    BY DEF OverviewPanel
  <2>2. Ready(OverviewPanel, "overview", ui, {})
    BY <2>1, PlainReady
  <2> QED BY <2>2 DEF ConsoleOK, Inv, Ready, Shape, Pages, TaxOK
<1>3. ConsoleOK(ChatPanel)
  <2>1. PICK ui : ChatPanel = Mounted("chat", ui, {"ask"}, {})
    BY DEF ChatPanel
  <2>2. Ready(ChatPanel, "chat", ui, {"ask"})
    BY <2>1, PlainReady
  <2> QED BY <2>2 DEF ConsoleOK, Inv, Ready, Shape, Pages, TaxOK
<1>4. ConsoleOK(TerminalPanel)
  <2> DEFINE ui == [expanded |-> FALSE, waiting |-> {}, answered |-> {}]
  <2>1. TerminalPanel = Mounted("terminal", ui, {"command"}, {})
    BY DEF TerminalPanel
  <2>2. "waiting" \in DOMAIN ui /\ ui.waiting = {}
    OBVIOUS
  <2> HIDE DEF ui
  <2>3. Ready(TerminalPanel, "terminal", ui, {"command"})
    BY <2>1, PlainReady
  <2> QED BY <2>2, <2>3 DEF ConsoleOK, Inv, Ready, Shape, Pages, TaxOK, WaitingOK
<1>5. ConsoleOK(RingPanel)
  <2>1. PICK ui : RingPanel = Mounted("ring", ui, {"expand"}, {})
    BY DEF RingPanel
  <2>2. Ready(RingPanel, "ring", ui, {"expand"})
    BY <2>1, PlainReady
  <2> QED BY <2>2 DEF ConsoleOK, Inv, Ready, Shape, Pages, TaxOK
<1>6. ConsoleOK(GridPanel)
  <2>1. PICK ui : GridPanel = Mounted("grid", ui, {}, {})
    BY DEF GridPanel
  <2>2. Ready(GridPanel, "grid", ui, {})
    BY <2>1, PlainReady
  <2> QED BY <2>2 DEF ConsoleOK, Inv, Ready, Shape, Pages, TaxOK
<1>7. ConsoleOK(AlertsPanel)
  <2> DEFINE ui == [mounted |-> TRUE, interval |-> FALSE, autonomous |-> FALSE, alerts |-> 1]
  <2>0. Plain("fetch")
    BY DeskOps
  <2>1. AlertsPanel = Begin(Mounted("alerts", ui, {"fetch"}, {}), "fetch", None, None)
    BY DEF AlertsPanel
  <2>2. DOMAIN ui = {"mounted", "interval", "autonomous", "alerts"} /\ ui.mounted
    OBVIOUS
  <2> HIDE DEF ui
  <2>3. Ready(AlertsPanel, "alerts", ui, {"fetch"})
    BY <2>0, <2>1, LoadingReady
  <2> QED BY <2>2, <2>3 DEF ConsoleOK, Inv, Ready, Shape, Pages, TaxOK, AlertsOK
<1>8. ConsoleOK(ForensicsPanel)
  <2>1. PICK ui : ForensicsPanel = Mounted("forensics", ui, {"forensics"}, {})
    BY DEF ForensicsPanel
  <2>2. Ready(ForensicsPanel, "forensics", ui, {"forensics"})
    BY <2>1, PlainReady
  <2> QED BY <2>2 DEF ConsoleOK, Inv, Ready, Shape, Pages, TaxOK
<1> QED
  BY <1>1, <1>2, <1>3, <1>4, <1>5, <1>6, <1>7, <1>8
     DEF DeskInitial

\* The first render of every panel of PublicPanels.
LEMMA PublicStart == \A p \in PublicInitial : ConsoleOK(p)
<1>1. ConsoleOK(CheckoutPanel)
  <2> DEFINE ui == [form |-> "blank", status |-> "IDLE", details |-> None, funded |-> {}]
  <2>1. CheckoutPanel = Mounted("checkout", ui, {"checkout"}, {})
    BY DEF CheckoutPanel
  <2>2. DOMAIN ui = {"form", "status", "details", "funded"} /\ ui.status = "IDLE"
    OBVIOUS
  <2> HIDE DEF ui
  <2>3. Ready(CheckoutPanel, "checkout", ui, {"checkout"}) /\ CheckoutPanel.calls = {}
    BY <2>1, PlainReady
  <2> QED BY <2>2, <2>3 DEF ConsoleOK, Inv, Ready, Shape, Pages, TaxOK, CheckoutOK
<1>2. ConsoleOK(WalletPanel)
  <2> DEFINE ui == [status |-> "IDLE", extensions |-> 0]
  <2>1. WalletPanel = Mounted("wallet", ui, {"witness"}, {"prove"})
    BY DEF WalletPanel
  <2>2. DOMAIN ui = {"status", "extensions"}
    OBVIOUS
  <2> HIDE DEF ui
  <2>3. Ready(WalletPanel, "wallet", ui, {"witness"}) /\ WalletPanel.calls = {}
    BY <2>1, MountedReady, TerminalNames
  <2> QED BY <2>2, <2>3 DEF ConsoleOK, Inv, Ready, Shape, Pages, TaxOK, WalletOK
<1>3. ConsoleOK(BiometricsPanel)
  <2> DEFINE ui == [mounted |-> TRUE, loaded |-> FALSE, collecting |-> FALSE, vector |-> None,
                  error |-> FALSE]
  <2>1. Plain("load")
    BY PublicOps
  <2>2. BiometricsPanel = Begin(Mounted("biometrics", ui, {"load", "stop"}, {}), "load", None, None)
    BY DEF BiometricsPanel
  <2> HIDE DEF ui
  <2>3. Ready(BiometricsPanel, "biometrics", ui, {"load", "stop"})
    BY <2>1, <2>2, LoadingReady
  <2> QED BY <2>3 DEF ConsoleOK, Inv, Ready, Shape, Pages, TaxOK
<1>4. ConsoleOK(ScorerPanel)
  <2>1. PICK ui : ScorerPanel = Mounted("scorer", ui, {"score"}, {})
    BY DEF ScorerPanel
  <2>2. Ready(ScorerPanel, "scorer", ui, {"score"})
    BY <2>1, PlainReady
  <2> QED BY <2>2 DEF ConsoleOK, Inv, Ready, Shape, Pages, TaxOK
<1>5. ConsoleOK(ChecklistPanel)
  <2>1. PICK ui : ChecklistPanel = Mounted("checklist", ui, {}, {})
    BY DEF ChecklistPanel
  <2>2. Ready(ChecklistPanel, "checklist", ui, {})
    BY <2>1, PlainReady
  <2> QED BY <2>2 DEF ConsoleOK, Inv, Ready, Shape, Pages, TaxOK
<1>6. ConsoleOK(LendingPanel)
  <2>1. PICK ui : LendingPanel = Mounted("lending", ui, {}, {})
    BY DEF LendingPanel
  <2>2. Ready(LendingPanel, "lending", ui, {})
    BY <2>1, PlainReady
  <2> QED BY <2>2 DEF ConsoleOK, Inv, Ready, Shape, Pages, TaxOK
<1>7. ConsoleOK(WealthPanel)
  <2>1. PICK ui : WealthPanel = Mounted("wealth", ui, {}, {})
    BY DEF WealthPanel
  <2>2. Ready(WealthPanel, "wealth", ui, {})
    BY <2>1, PlainReady
  <2> QED BY <2>2 DEF ConsoleOK, Inv, Ready, Shape, Pages, TaxOK
<1>8. ConsoleOK(TriagePanel)
  <2>1. PICK ui : TriagePanel = Mounted("triage", ui, {"triage"}, {})
    BY DEF TriagePanel
  <2>2. Ready(TriagePanel, "triage", ui, {"triage"})
    BY <2>1, PlainReady
  <2> QED BY <2>2 DEF ConsoleOK, Inv, Ready, Shape, Pages, TaxOK
<1>9. ConsoleOK(ConsentPanel)
  <2>1. PICK ui : ConsentPanel = Mounted("consent", ui, {"consent"}, {})
    BY DEF ConsentPanel
  <2>2. Ready(ConsentPanel, "consent", ui, {"consent"})
    BY <2>1, PlainReady
  <2> QED BY <2>2 DEF ConsoleOK, Inv, Ready, Shape, Pages, TaxOK
<1>10. ConsoleOK(TypologyPanel)
  <2>1. PICK ui : TypologyPanel = Mounted("typology", ui, {}, {})
    BY DEF TypologyPanel
  <2>2. Ready(TypologyPanel, "typology", ui, {})
    BY <2>1, PlainReady
  <2> QED BY <2>2 DEF ConsoleOK, Inv, Ready, Shape, Pages, TaxOK
<1>11. ConsoleOK(TickerPanel)
  <2>1. PICK ui : TickerPanel = Mounted("ticker", ui, {}, {})
    BY DEF TickerPanel
  <2>2. Ready(TickerPanel, "ticker", ui, {})
    BY <2>1, PlainReady
  <2> QED BY <2>2 DEF ConsoleOK, Inv, Ready, Shape, Pages, TaxOK
<1>12. ConsoleOK(HomePanel)
  <2>1. PICK ui : HomePanel = Mounted("home", ui, {}, {})
    BY DEF HomePanel
  <2>2. Ready(HomePanel, "home", ui, {})
    BY <2>1, PlainReady
  <2> QED BY <2>2 DEF ConsoleOK, Inv, Ready, Shape, Pages, TaxOK
<1>13. ConsoleOK(NavbarPanel)
  <2>1. PICK ui : NavbarPanel = Mounted("navbar", ui, {}, {})
    BY DEF NavbarPanel
  <2>2. Ready(NavbarPanel, "navbar", ui, {})
    BY <2>1, PlainReady
  <2> QED BY <2>2 DEF ConsoleOK, Inv, Ready, Shape, Pages, TaxOK
<1> QED
  BY <1>1, <1>2, <1>3, <1>4, <1>5, <1>6, <1>7, <1>8, <1>9, <1>10, <1>11, <1>12, <1>13
     DEF PublicInitial

\* Every panel starts with the invariant.
LEMMA ConsoleStart == Init => ConsoleOK(panel)
BY RiskStart, SoarDeskStart, FilingStart, TaxStart, OperationsStart, PortalStart, ShellStart,
   DeskStart, PublicStart DEF Init, Initial

-----------------------------------------------------------------------------
(* The theorems *)

\* Every reachable panel satisfies the inductive invariant, whatever the user
\* does, whichever timers fire, and in whatever order its requests settle.
THEOREM ConsoleInvariant == Spec => []ConsoleOK(panel)
<1>1. ConsoleOK(panel) /\ [Next]_panel => ConsoleOK(panel)'
  BY ConsoleStep
<1> QED BY <1>1, ConsoleStart, PTL DEF Spec

\* Every handler in flight and every result on display was started by this
\* panel, and a panel shows at most one result of each handler (the hooks hold
\* one value).
THEOREM ConsolePanelsOK == Spec => []PanelOK
<1>1. ConsoleOK(panel) => PanelOK
  <2> SUFFICES ASSUME Sound(panel) PROVE PanelOK
    BY DEF ConsoleOK, Inv
  <2>1. panel.runs \in Nat /\ \A o \in DOMAIN panel.last : panel.last[o] \in 0..panel.runs
    BY DEF Sound, LastOK
  <2>2. IsFiniteSet(panel.calls) /\ \A c \in panel.calls : CallShape(c)
    BY <2>1 DEF Sound, CallsOK, CallOK, CallShape
  <2>3. \A r \in panel.shown : CallShape(r)
    BY <2>1 DEF Sound, ShownOK, ResultOK, CallShape
  <2>4. \A r, s \in panel.shown : r.op = s.op => r = s
    BY DEF Sound, ShownOK
  <2> QED BY <2>1, <2>2, <2>3, <2>4 DEF PanelOK
<1> QED BY <1>1, ConsoleInvariant, PTL

\* A spinner turns exactly while its handler is in flight (setXLoading(true) at
\* the click, setXLoading(false) in finally), and no handler that has one runs
\* twice at a time.
THEOREM SpinnersTell == Spec => []SpinnersHonest
<1>1. ConsoleOK(panel) => SpinnersHonest
  BY DEF ConsoleOK, Inv, Sound, BusyOK, NoSpinner, SpinnersHonest
<1> QED BY <1>1, ConsoleInvariant, PTL

\* What a page shows of a handler is the answer to its last run, unless that
\* run is still in flight: no answer of an earlier click replaces it.
THEOREM LastRunShown == Spec => []ResultOfLastRun
<1>1. ConsoleOK(panel) => ResultOfLastRun
  BY DEF ConsoleOK, Inv, Sound, ShownOK, ResultOfLastRun
<1> QED BY <1>1, ConsoleInvariant, PTL

\* No step replaces a result on display by that of an earlier run.
THEOREM NoResultGoesBack == Spec => ResultsGoForward
<1>1. ConsoleOK(panel) /\ [Next]_panel
        => [\A r \in panel.shown, s \in panel'.shown :
               r.op = s.op /\ r.op \notin Overlapping => r.run <= s.run]_panel
  BY NextStep DEF ConsoleOK, Step, Forward
<1> QED BY <1>1, ConsoleInvariant, PTL DEF Spec, ResultsGoForward

\* The terminals of the pages (setXLogs(prev => [...prev, line])) show the lines
\* of one run after another and each run's in the order of its script.
THEOREM LogsInOrder == Spec => []LogInOrder
<1>1. ConsoleOK(panel) => LogInOrder
  <2> SUFFICES ASSUME Sound(panel), NEW t \in DOMAIN panel.logs,
                      NEW i \in 1..(Len(panel.logs[t]) - 1)
               PROVE  \/ panel.logs[t][i].run < panel.logs[t][i + 1].run
                      \/ /\ panel.logs[t][i].run = panel.logs[t][i + 1].run
                         /\ panel.logs[t][i].line < panel.logs[t][i + 1].line
    BY DEF ConsoleOK, Inv, LogInOrder
  <2> DEFINE log == panel.logs[t]
  <2>1. LogOK(log, panel.runs)
    BY DEF Sound, LogsOK
  <2>2. Len(log) \in Nat
    BY <2>1, LenProperties DEF LogOK
  <2>3. i \in 1..Len(log) /\ i + 1 \in 1..Len(log) /\ i < i + 1
    <3> HIDE DEF log
    <3>1. i \in 1..(Len(log) - 1)
      BY DEF log
    <3> QED BY <2>2, <3>1
  <2>4. Before(log[i], log[i + 1].run, log[i + 1].line)
    <3> HIDE DEF log
    <3> QED BY <2>1, <2>3 DEF LogOK
  <2> QED BY <2>4 DEF Before
<1> QED BY <1>1, ConsoleInvariant, PTL

\* A toast on screen has the timer that will remove it, a command that shows
\* "..." the one that will answer it, also after clears that overlap.
THEOREM WaitingAnswered == Spec => []NothingLeftWaiting
<1>1. ConsoleOK(panel) => NothingLeftWaiting
  BY DEF ConsoleOK, Inv, Pages, WaitingOK, NothingLeftWaiting
<1> QED BY <1>1, ConsoleInvariant, PTL

\* The playbook builder says "complete" of the sequence it executed only
\* (handleExecutePlaybook), whatever was edited between.
THEOREM CompleteMeansRun == Spec => []PlaybookCompleteMeansRun
<1>1. ConsoleOK(panel) => PlaybookCompleteMeansRun
  BY DEF ConsoleOK, Inv, Pages, PlaybookOK, PlaybookCompleteMeansRun
<1> QED BY <1>1, ConsoleInvariant, PTL

\* Whatever rows are selected, drafts regenerated or drawers closed while evidence
\* is compiled or a report sealed, each transmission rests on a compilation or a
\* seal that ended on the row it is sent from, and none serves two.
THEOREM FilingsUnderOwnMark == Spec => []FiledUnderOwnMark
<1>1. ConsoleOK(panel) => FiledUnderOwnMark
  BY DEF ConsoleOK, Inv, Pages, PaymentsOK, RegTechOK, FilingOK, FiledUnderOwnMark
<1> QED BY <1>1, ConsoleInvariant, PTL

\* No interval of useAutonomousData outlives the page, although the first load
\* may be answered after the cleanup.
THEOREM NoIntervalLeft == Spec => []NoTimerLeaks
<1>1. ConsoleOK(panel) => NoTimerLeaks
  BY DEF ConsoleOK, Inv, Pages, AlertsOK, NoTimerLeaks
<1> QED BY <1>1, ConsoleInvariant, PTL

\* The approval that the checkout shows is the decision of the last application
\* and was announced to the merchant.
THEOREM ApprovalsAnnounced == Spec => []ApprovalShown
<1>1. ConsoleOK(panel) => ApprovalShown
  BY DEF ConsoleOK, Inv, Pages, CheckoutOK, ApprovalShown
<1> QED BY <1>1, ConsoleInvariant, PTL

\* What the treasurer has decided stays decided, whatever the forecasts queue
\* and however often the same item is decided again.
THEOREM DecisionsKept == Spec => DecidedItemsKept
<1>1. ConsoleOK(panel) /\ [Next]_panel
        => [panel.name = "strategy" =>
              \A i \in panel.ui.server : i.status # "PENDING" =>
                  \E j \in panel'.ui.server : j.id = i.id /\ j.status # "PENDING"]_panel
  BY DecidedStay, PageSteps DEF ConsoleOK
<1> QED BY <1>1, ConsoleInvariant, PTL DEF Spec, DecidedItemsKept

\* However stale the list of the page, however often the user pays again after a
\* lost answer (handlePayLiability), and whichever processes answer, no process
\* charges a filing twice, a filing of the user's is charged by one process at
\* most, and the page announces as settled only what is.
THEOREM FilingsChargedOnce == Spec => []ChargedOnce
<1>1. ConsoleOK(panel) => ChargedOnce
  <2> SUFFICES ASSUME ConsoleOK(panel), panel.name = "ledger" PROVE ChargedOnce
    BY DEF ChargedOnce
  <2> DEFINE books == panel.ui.books
  <2>1. ChargesOK(panel.ui)
    BY DEF ConsoleOK, TaxOK, LedgerOK
  <2>2. ASSUME NEW f \in Filings \ {GstDue}, NEW v \in Processes, NEW w \in Processes,
               books[v].charges[f] = 1, books[w].charges[f] = 1, v # w
        PROVE  FALSE
    <3>1. f \in books[v].filed /\ f \in books[w].filed /\ f # ItrPaid
      BY <2>1, <2>2 DEF ChargesOK, BookOK
    <3>2. books[v].filed \cap books[w].filed \subseteq {GstDue, ItrPaid}
      BY <2>1, <2>2 DEF ChargesOK
    <3> QED BY <2>2, <3>1, <3>2
  <2>3. \A f \in Filings : \A w \in Processes : books[w].charges[f] <= 1
    BY <2>1 DEF ChargesOK, BookOK
  <2>4. panel.ui.settled \subseteq Settled(panel.ui)
    BY <2>1 DEF ChargesOK
  <2> HIDE DEF books
  <2>5. \A f \in Filings \ {GstDue} : \A v, w \in Processes :
            books[v].charges[f] = 1 /\ books[w].charges[f] = 1 => v = w
    BY <2>2
  <2> QED BY <2>3, <2>4, <2>5 DEF ChargedOnce, books
<1> QED BY <1>1, ConsoleInvariant, PTL

\* What file_itr registers slab by slab is what getItrEstimate previewed slice
\* by slice, for every income and however the form is edited meanwhile; so it
\* is for a corporate return and for VAT at the usual rate.
THEOREM ReturnsAsPreviewed == Spec => []AssessedAsPreviewed
<1>1. ConsoleOK(panel) => AssessedAsPreviewed
  BY ShownAsPreviewed DEF ConsoleOK, TaxOK, AssessedAsPreviewed
<1> QED BY <1>1, ConsoleInvariant, PTL
=============================================================================
