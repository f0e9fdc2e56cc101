---------------------------- MODULE ConsolePanel ----------------------------
(***************************************************************************)
(* The state of one mounted React panel and the steps its handlers are     *)
(* made of.  A panel is the largest group of useState hooks that some       *)
(* handler reads or writes together; panels of one page that share no hook  *)
(* are modelled apart, since nothing one does can be seen by the other.     *)
(*                                                                         *)
(* A handler that awaits is suspended: it sits in panel.calls with the      *)
(* values its closure captured at the click (arg), its spinner (flag), the  *)
(* number of timed lines it has printed (at) and its number on this panel   *)
(* (run).  Everything else may happen before it resumes.                    *)
(*                                                                         *)
(* panel.last and panel.runs are observations: no guard of the code reads   *)
(* them.  MaxRuns bounds the handlers that users and intervals start while  *)
(* a panel is mounted (MaxChainedRuns on the panels whose handlers fetch    *)
(* again when they are done); what a handler starts itself is not bounded.  *)
(***************************************************************************)
EXTENDS Naturals, Sequences, FiniteSets

CONSTANTS None,    \* null and the empty string: nothing selected, nothing shown
          Cases,   \* the rows of the tables: alerts, transactions, clusters
          MaxRuns, \* bounds, see above
          MaxChainedRuns

ASSUME ConsoleAssumption == /\ MaxRuns \in Nat /\ MaxChainedRuns \in Nat
                            /\ None \notin Cases

VARIABLE panel

\* The panel as the first render leaves it: initial hooks, nothing in flight.
Mounted(name, ui, ops, terminals) ==
    [name |-> name, ui |-> ui, calls |-> {}, busy |-> {}, shown |-> {},
     logs |-> [t \in terminals |-> <<>>],
     last |-> [o \in ops |-> 0], runs |-> 0]

-----------------------------------------------------------------------------
\* What the steps of a handler do to a panel p.

Set(p, field, v) == [p EXCEPT !.ui[field] = v]

Idle(flag) == flag \notin panel.busy

\* Panels that fetch at the mount and after every order.
Chained == {"strategy", "vaults", "link", "sanctions"}

CanRun == panel.runs < IF panel.name \in Chained THEN MaxChainedRuns ELSE MaxRuns

NewCall(p, op, flag, arg) ==
    [op |-> op, flag |-> flag, arg |-> arg, run |-> p.runs + 1, at |-> 0]

\* setXLoading(true), and the closure runs up to its first await.  A handler
\* without a spinner has the flag None.
Begin(p, op, flag, arg) ==
    [p EXCEPT !.calls = @ \cup {NewCall(p, op, flag, arg)},
              !.busy = @ \cup ({flag} \ {None}),
              !.last[op] = p.runs + 1,
              !.runs = @ + 1]

\* setXResult(null)
Hide(p, ops) == [p EXCEPT !.shown = {r \in @ : r.op \notin ops}]

\* Mutant of Show: the answer is listed beside the one it should replace.
ShowBeside(p, c, out) ==
    [p EXCEPT !.shown = @ \cup {[op |-> c.op, run |-> c.run, arg |-> c.arg, out |-> out]}]

\* setXResult(answer): out tells how the await ended.
Show(p, c, out) ==
    [p EXCEPT !.shown = {r \in @ : r.op # c.op} \cup
                        {[op |-> c.op, run |-> c.run, arg |-> c.arg, out |-> out]}]

\* setXLogs([line]): the handler that starts clears its terminal.
Reopen(p, term) == [p EXCEPT !.logs[term] = <<[run |-> p.runs, line |-> 0]>>]

\* setXLogs(prev => [...prev, line]) at the click of a handler that keeps
\* what its terminal shows.
Continue(p, term) == [p EXCEPT !.logs[term] = Append(@, [run |-> p.runs, line |-> 0])]

\* setXLogs([])
Wipe(p, term) == [p EXCEPT !.logs[term] = <<>>]

\* setXLogs(prev => [...prev, line]), the next line of the call's script.
Say(p, c, term) ==
    [p EXCEPT !.logs[term] = Append(@, [run |-> c.run, line |-> c.at + 1])]

\* The handler goes to its next await.
Await(p, c) == [p EXCEPT !.calls = (@ \ {c}) \cup {[c EXCEPT !.at = @ + 1]}]

\* The same, with what the await brought or left behind.
AwaitWith(p, c, arg) ==
    [p EXCEPT !.calls = (@ \ {c}) \cup {[c EXCEPT !.at = @ + 1, !.arg = arg]}]

\* finally { setXLoading(false) } and the handler is over.
End(p, c) == [p EXCEPT !.calls = @ \ {c}, !.busy = @ \ {c.flag}]

Suspended(op) == {c \in panel.calls : c.op = op}

\* The answer of the server, or the mock the catch block puts in its place.
Outcome == {"live", "fallback"}

-----------------------------------------------------------------------------
\* The steps as they appear in the panels.

\* An input's onChange.
Edit(field, values) ==
    \E v \in values \ {panel.ui[field]} : panel' = Set(panel, field, v)

\* A timer of a scripted terminal fires: one more line, then the next await.
PrintLine(op, lines, term) ==
    \E c \in Suspended(op) :
        /\ c.at < lines
        /\ panel' = Await(Say(panel, c, term), c)

\* Mutant of Request: the result of the last run is not cleared.
RequestOverOld(op, arg) ==
    /\ Idle(op) /\ CanRun
    /\ panel' = Begin(panel, op, op, arg)

\* A handler behind a button that its own spinner disables: it clears the
\* last result and captures arg.
Request(op, arg) ==
    /\ Idle(op) /\ CanRun
    /\ panel' = Hide(Begin(panel, op, op, arg), {op})

\* The same, where the last result stays until the next one.
RequestKeeping(op, arg) ==
    /\ Idle(op) /\ CanRun
    /\ panel' = Begin(panel, op, op, arg)

\* The fetch of a handler settles and its result is shown.
Answer(op) ==
    \E c \in Suspended(op), out \in Outcome :
        panel' = End(Show(panel, c, out), c)

\* The same, where the catch block shows nothing but a toast.
AnswerOrFail(op) ==
    \E c \in Suspended(op) :
        panel' \in {End(Show(panel, c, "live"), c), End(panel, c)}

-----------------------------------------------------------------------------
\* Shape shared by every panel.
CallShape(c) == /\ c.run \in 1..panel.runs
                /\ c.op \in DOMAIN panel.last

PanelOK ==
    /\ panel.runs \in Nat
    /\ \A o \in DOMAIN panel.last : panel.last[o] \in 0..panel.runs
    /\ \A c \in panel.calls : CallShape(c)
    /\ \A r \in panel.shown : CallShape(r)
    /\ \A r1, r2 \in panel.shown : r1.op = r2.op => r1 = r2
    /\ IsFiniteSet(panel.calls)
=============================================================================
