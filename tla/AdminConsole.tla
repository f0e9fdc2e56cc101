------------------------------ MODULE AdminConsole ------------------------------
(***************************************************************************)
(* The frontend: one panel of any page, mounted, used, timed and answered   *)
(* in every order.  Panels share no hook, so one panel at a time shows all  *)
(* that the code can do; what several of them share through a service or    *)
(* the store is part of the panel that uses it.                             *)
(***************************************************************************)
EXTENDS RiskPanels, SoarDeskPanels, FilingPanels, TaxPanels, OperationsPanels,
        PortalPanels, ShellPanels, DeskPanels, PublicPanels

Initial ==
    RiskInitial \cup SoarDeskInitial \cup FilingInitial \cup TaxInitial \cup OperationsInitial
        \cup PortalInitial \cup ShellInitial \cup DeskInitial \cup PublicInitial

Init == panel \in Initial

User ==
    \/ RiskUser \/ SoarDeskUser \/ FilingUser \/ TaxUser \/ OperationsUser
    \/ PortalUser \/ ShellUser \/ DeskUser \/ PublicUser

Timer == FilingTimer \/ OperationsTimer \/ ShellTimer \/ DeskTimer \/ PublicTimer

Resume ==
    \/ RiskResume \/ SoarDeskResume \/ FilingResume \/ TaxResume \/ OperationsResume
    \/ PortalResume \/ ShellResume \/ DeskResume \/ PublicResume

Next == User \/ Timer \/ Resume

\* Timers fire and requests settle; users and intervals may do nothing.
Spec == Init /\ [][Next]_panel /\ WF_panel(Resume)

-----------------------------------------------------------------------------
\* Spinners that several handlers in flight share, because nothing disables
\* the control that starts the next one: the second is turned off by the end
\* of the first.
Shared == {"parsing", "loading", "connecting", "syncing", "forecast", "quote", "vaults",
           "quarantine"}

\* The names of the other spinners, and of the terminals that the same handlers
\* print to.
Spinners ==
    {"biometrics", "memo", "underwrite", "scan", "attack", "zkp", "check", "sign", "resolve",
     "screen", "filing", "infer", "swap", "valuate", "route", "play", "solvency", "scan2",
     "score", "triage", "stress", "probe", "audit", "sweep", "generate", "did", "recon",
     "train", "evacuate", "dispute", "boot", "prove", "playbook", "paying", "wallet", "regenerate",
     "review", "remediate", "dispatch", "deck", "liquidate", "ask", "expand", "checkout"}

\* None is null: not the name of anything.
ASSUME NoneAssumption == None \notin Spinners

\* Results whose requests overlap: the last answer wins, whichever request it
\* answers.
Overlapping == {"quote", "forecast", "forensics", "poll", "stop", "quarantine"}

\* Results that stay on display when a later run fails.
Kept == {"probe", "audit", "sweep", "generate", "did", "recon", "boot"}

\* A spinner turns exactly while its handler is in flight, and no handler that
\* has one is started twice.
SpinnersHonest ==
    /\ panel.busy \ Shared = {c.flag : c \in panel.calls} \ (Shared \cup {None})
    /\ \A c1, c2 \in panel.calls :
          c1.flag = c2.flag /\ c1.flag \notin Shared \cup {None} => c1 = c2

\* A result on display is the one of the last run of its handler, unless that
\* run is still in flight.
ResultOfLastRun ==
    \A r \in panel.shown :
        \/ r.op \in Overlapping \cup Kept
        \/ r.run = panel.last[r.op]
        \/ \E c \in panel.calls : c.op = r.op /\ c.run = panel.last[r.op]

\* A result is never replaced by the result of an earlier run.
ResultsGoForward ==
    [][\A r \in panel.shown, s \in panel'.shown :
          r.op = s.op /\ r.op \notin Overlapping => r.run <= s.run]_panel

\* A terminal prints the lines of one run after another, each in its order.
LogInOrder ==
    \A t \in DOMAIN panel.logs : LET log == panel.logs[t] IN
        \A i \in 1..(Len(log) - 1) :
            \/ log[i].run < log[i + 1].run
            \/ log[i].run = log[i + 1].run /\ log[i].line < log[i + 1].line

\* A toast on screen has a timer that will remove it, and a command that shows
\* "..." one that will answer it, also after a clear that others overlap.
NothingLeftWaiting ==
    panel.name \in {"preferences", "forms", "workspace", "terminal"}
        => panel.ui.waiting \subseteq {c.run : c \in panel.calls}

\* Every handler that was started ends.
EveryRunEnds == panel.calls # {} ~> panel.calls = {}
=============================================================================
