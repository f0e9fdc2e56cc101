------------------------------ MODULE ShellPanels ------------------------------
(***************************************************************************)
(* What surrounds the pages: the preferences page and the store it writes   *)
(* (Settings.tsx, useAppStore.ts), the notification centre, the shell with  *)
(* its command palette (AppLayout.tsx), the audit trail and the frame that  *)
(* every feature page sits in (ModuleWorkspace).                            *)
(***************************************************************************)
EXTENDS ConsolePanel, Integers, SequencesExt

CONSTANTS MaxNotices,  \* how many notifications the store keeps (200 in the code)
          BellLength,  \* how many the bell lists (6 in the code)
          SeedCount,   \* how many a first visit seeds (8 in the code)
          PageSize     \* rows on a page of the audit trail (20 in the code)

-----------------------------------------------------------------------------
(* Toasts.  ui.waiting holds the runs of those on screen, here and in the   *)
(* investigator's terminal of DeskPanels: each waits for a timer.           *)

Toast(p) == [Begin(p, "toast", None, None) EXCEPT !.ui.waiting = @ \cup {p.runs + 1}]

ToastExpires ==
    \E c \in Suspended("toast") : panel' = [End(panel, c) EXCEPT !.ui.waiting = @ \ {c.run}]

\* The timer of a dismissed toast still fires, and then removes nothing.
DismissToast == \E t \in panel.ui.waiting : panel' = [panel EXCEPT !.ui.waiting = @ \ {t}]

-----------------------------------------------------------------------------
(* The API key.  Every setter of the store writes the whole state of its    *)
(* tab to the local storage and no tab listens to it: ui.here and ui.there  *)
(* are the keys two tabs hold, ui.disk the stored one.  Keys are named by   *)
(* the run that made them; ui.retired observes the keys replaced.           *)

FactoryKey == 0

ApiKeyPanel ==
    Mounted("apikey",
            [here |-> FactoryKey, there |-> FactoryKey, disk |-> FactoryKey,
             dialog |-> FALSE, visible |-> FALSE, copied |-> FALSE, retired |-> {}],
            {"regenerate", "copy"}, {})

SetApiKey(p, k) == [p EXCEPT !.ui.here = k, !.ui.disk = k]

ShowKey == Edit("visible", BOOLEAN)

CopyKey ==
    /\ CanRun
    /\ panel' = Set(Begin(panel, "copy", None, None), "copied", TRUE)

\* The first of two overlapping timers takes the tick away.
CopyTimeout == \E c \in Suspended("copy") : panel' = Set(End(panel, c), "copied", FALSE)

\* handleRegenerate, and onCancel of the dialogue.
AskRegenerate == Idle("regenerate") /\ Edit("dialog", BOOLEAN)

ConfirmRegenerate ==
    /\ panel.ui.dialog /\ CanRun
    /\ panel' = Set(Begin(panel, "regenerate", "regenerate", None), "dialog", FALSE)

KeyGenerated ==
    \E c \in Suspended("regenerate") :
        panel' = [SetApiKey(End(panel, c), c.run) EXCEPT !.ui.retired = @ \cup {panel.ui.here}]

\* resetToDefaults
ResetKey == panel' = SetApiKey(panel, FactoryKey)

\* Leaving the page unmounts its spinner; the timer still fires.
LeavePreferences ==
    panel' = [panel EXCEPT !.ui.dialog = FALSE, !.ui.visible = FALSE, !.busy = {},
                           !.calls = {[c EXCEPT !.flag = None] : c \in @}]

\* Any preference set in the other tab stores the key that tab holds.
OtherTabSaves == panel.ui.disk # panel.ui.there /\ panel' = Set(panel, "disk", panel.ui.there)

ReloadOtherTab == Edit("there", {panel.ui.disk})

\* A reload ends the timers of the page.
ReloadTab ==
    panel' = [ApiKeyPanel EXCEPT !.ui.here = panel.ui.disk, !.ui.disk = panel.ui.disk,
                                 !.ui.there = panel.ui.there, !.ui.retired = panel.ui.retired,
                                 !.last = panel.last, !.runs = panel.runs]

ApiKeyUser ==
    \/ ShowKey \/ CopyKey \/ AskRegenerate \/ ConfirmRegenerate \/ ResetKey
    \/ LeavePreferences \/ OtherTabSaves \/ ReloadOtherTab \/ ReloadTab

ApiKeyResume == CopyTimeout \/ KeyGenerated

-----------------------------------------------------------------------------
(* The other sections of the page.  ui.look is theme, font and alert        *)
(* preferences; region and look go back to their defaults at a reset.       *)

PreferencesPanel ==
    Mounted("preferences",
            [look |-> "x1", region |-> "x1", syncing |-> FALSE, export |-> None,
             reset |-> FALSE, waiting |-> {}],
            {"toast", "reroute", "progress", "export", "reset"}, {})

\* setTheme, setFont and the notification settings.
EditLook == Edit("look", {"x1", "x2"})

\* The regions stay clickable while one is being synchronised.
HandleRegionChange ==
    /\ CanRun
    /\ \E r \in {"x1", "x2"} :
          panel' = [Begin(panel, "reroute", None, None) EXCEPT
                       !.ui.region = r, !.ui.syncing = TRUE]

RerouteEnds == \E c \in Suspended("reroute") : panel' = Set(End(panel, c), "syncing", FALSE)

\* addProgressToast
ProgressToast(p) ==
    [Begin(p, "progress", None, None) EXCEPT !.ui.waiting = @ \cup {p.runs + 1}]

\* Only the button of the running export is disabled.
HandleExport ==
    /\ CanRun
    /\ \E x \in {"x1", "x2"} \ {panel.ui.export} :
          panel' = Set(Begin(ProgressToast(panel), "export", None, None), "export", x)

ExportEnds == \E c \in Suspended("export") : panel' = Set(End(panel, c), "export", None)

\* The bar reaches the end, and the toast goes two seconds later.
ProgressCompletes == \E c \in Suspended("progress") : c.at = 0 /\ panel' = Await(panel, c)

ProgressExpires ==
    \E c \in Suspended("progress") :
        c.at = 1 /\ panel' = [End(panel, c) EXCEPT !.ui.waiting = @ \ {c.run}]

HandleReset ==
    /\ CanRun
    /\ panel' = [Begin(panel, "reset", None, None) EXCEPT
                    !.ui.look = "x1", !.ui.region = "x1", !.ui.reset = TRUE]

ResetMessageEnds == \E c \in Suspended("reset") : panel' = Set(End(panel, c), "reset", FALSE)

PreferencesUser ==
    EditLook \/ HandleRegionChange \/ HandleExport \/ HandleReset \/ DismissToast

PreferencesResume ==
    RerouteEnds \/ ExportEnds \/ ProgressCompletes \/ ProgressExpires \/ ResetMessageEnds

\* Audit preferences, invitations, retention and the folded system details.
FormsPanel ==
    Mounted("forms",
            [prefs |-> FALSE, invite |-> None, retention |-> 1, expanded |-> FALSE,
             waiting |-> {}],
            {"toast"}, {})

HandleToggle == CanRun /\ panel' = Toast(Set(panel, "prefs", ~panel.ui.prefs))

OpenInvite == panel.ui.invite = None /\ panel' = Set(panel, "invite", "blank")

EditInvite == panel.ui.invite # None /\ Edit("invite", {"blank", "filled"})

CloseInvite == panel.ui.invite # None /\ panel' = Set(panel, "invite", None)

\* The form submits nothing while the name or the address is blank.
SubmitInvite ==
    /\ panel.ui.invite = "filled" /\ CanRun
    /\ panel' = Toast(Set(panel, "invite", None))

EditRetention == Edit("retention", {1, 2})

ToggleDetails == Edit("expanded", BOOLEAN)

FormsUser ==
    \/ HandleToggle \/ OpenInvite \/ EditInvite \/ CloseInvite \/ SubmitInvite
    \/ EditRetention \/ ToggleDetails \/ DismissToast

-----------------------------------------------------------------------------
(* Notifications: the list of the store, newest first, the page that seeds  *)
(* and streams into it, and the bell of the shell.  A notice is numbered by *)
(* _notifCounter.                                                           *)

NoticesPanel ==
    Mounted("notices",
            [list |-> <<>>, counter |-> 0, open |-> FALSE],
            {"seed", "stream"}, {})

Prepend(x, s, n) == SubSeq(<<x>> \o s, 1, IF Len(s) < n THEN Len(s) + 1 ELSE n)

\* addNotification
AddNotice(p) ==
    LET notice == [id |-> p.ui.counter + 1, read |-> FALSE, pinned |-> FALSE]
    IN  [p EXCEPT !.ui.list = Prepend(notice, @, MaxNotices), !.ui.counter = @ + 1]

\* The effect of the mount seeds an empty list, by timers that outlive it.
OpenNotices ==
    /\ ~panel.ui.open
    /\ \/ panel.ui.list # <<>> /\ panel' = Set(panel, "open", TRUE)
       \/ /\ panel.ui.list = <<>> /\ CanRun
          /\ panel' = Set(Begin(panel, "seed", None, None), "open", TRUE)

LeaveNotices == panel.ui.open /\ panel' = Set(panel, "open", FALSE)

SeedArrives ==
    \E c \in Suspended("seed") :
        panel' = IF c.at + 1 = SeedCount THEN End(AddNotice(panel), c)
                 ELSE Await(AddNotice(panel), c)

\* The stream's interval exists while the page is open.
StreamArrives ==
    /\ panel.ui.open /\ CanRun
    /\ panel' = AddNotice([panel EXCEPT !.runs = @ + 1])

\* markAsRead: on the page, or among the few that the bell lists.
MarkAsRead ==
    \E i \in DOMAIN panel.ui.list :
        /\ panel.ui.open \/ i <= BellLength
        /\ ~panel.ui.list[i].read
        /\ panel' = [panel EXCEPT !.ui.list[i].read = TRUE]

MarkAllAsRead ==
    /\ panel.ui.open
    /\ panel' = [panel EXCEPT !.ui.list = [i \in DOMAIN @ |-> [@[i] EXCEPT !.read = TRUE]]]

TogglePin ==
    /\ panel.ui.open
    /\ \E i \in DOMAIN panel.ui.list : panel' = [panel EXCEPT !.ui.list[i].pinned = ~@]

Dismiss ==
    /\ panel.ui.open
    /\ \E i \in DOMAIN panel.ui.list : panel' = Set(panel, "list", RemoveAt(panel.ui.list, i))

\* Clear All, and resetToDefaults on the settings page.
ClearNotices == panel'  = Set(panel, "list", <<>>)

NoticesUser ==
    \/ OpenNotices \/ LeaveNotices \/ MarkAsRead \/ MarkAllAsRead \/ TogglePin \/ Dismiss
    \/ ClearNotices

-----------------------------------------------------------------------------
(* The shell: palette, navigation, bell and collapsible sidebar.            *)

LayoutPanel ==
    Mounted("layout",
            [palette |-> FALSE, query |-> FALSE, bell |-> FALSE, sidebar |-> TRUE,
             section |-> "x1", look |-> "x1"], {}, {})

\* Ctrl-K toggles the palette, Escape closes it; closing forgets the query.
PaletteKey ==
    \E open \in {FALSE, ~panel.ui.palette} :
        panel' = [panel EXCEPT !.ui.palette = open, !.ui.query = open /\ @]

TypeQuery == panel.ui.palette /\ Edit("query", BOOLEAN)

\* A change of route closes the bell.
Navigate(p, s) == [p EXCEPT !.ui.section = s, !.ui.bell = @ /\ p.ui.section = s]

Perform ==
    /\ panel.ui.palette
    /\ LET p == [panel EXCEPT !.ui.palette = FALSE, !.ui.query = FALSE]
       IN  panel' \in {Navigate(p, s) : s \in {"x1", "x2"}} \cup
                      {Set(p, "look", v) : v \in {"x1", "x2"}}

ChooseSection == \E s \in {"x1", "x2"} : panel' = Navigate(panel, s)

\* Its button toggles the bell, a click elsewhere closes it.
ToggleBell == Edit("bell", BOOLEAN)

ToggleSidebar == Edit("sidebar", BOOLEAN)

LayoutUser ==
    PaletteKey \/ TypeQuery \/ Perform \/ ChooseSection \/ ToggleBell \/ ToggleSidebar

-----------------------------------------------------------------------------
(* The audit trail: a fixed log, filtered and paged.                        *)

Filters == {"all", "some", "none"}

Matching(f) == CASE f = "all" -> 6 * PageSize + 1 [] f = "some" -> PageSize [] f = "none" -> 0

TrailPanel == Mounted("trail", [filter |-> "all", page |-> 0, event |-> FALSE], {}, {})

TotalPages == (Matching(panel.ui.filter) + PageSize - 1) \div PageSize

OnPage == Matching(panel.ui.filter) - panel.ui.page * PageSize

\* handleFilterChange
ChangeFilter ==
    \E f \in Filters \ {panel.ui.filter} :
        panel' = [panel EXCEPT !.ui.filter = f, !.ui.page = 0]

PreviousPage == panel.ui.page # 0 /\ panel' = Set(panel, "page", panel.ui.page - 1)

NextPage ==
    panel.ui.page < TotalPages - 1 /\ panel' = Set(panel, "page", panel.ui.page + 1)

\* Five buttons at most, around the page shown.
PageButtons ==
    LET first == IF panel.ui.page < 3 THEN 0 ELSE panel.ui.page - 2
    IN  {n \in first..(first + 4) : n < TotalPages}

ChoosePage == Edit("page", PageButtons)

SelectEvent == OnPage > 0 /\ Edit("event", {TRUE})

CloseEvent == Edit("event", {FALSE})

TrailUser ==
    ChangeFilter \/ PreviousPage \/ NextPage \/ ChoosePage \/ SelectEvent \/ CloseEvent

-----------------------------------------------------------------------------
(* ModuleWorkspace: the frame of a feature page polls the database link,    *)
(* exports, and runs a scripted review that announces each step.            *)

ReviewSteps == 5

WorkspacePanel ==
    Begin(Mounted("workspace", [linked |-> FALSE, done |-> FALSE, waiting |-> {}],
                  {"checkDb", "review", "toast"}, {}),
          "checkDb", None, None)

\* checkDb, every four seconds, whether or not the last one was answered.
CheckDb == CanRun /\ panel' = Begin(panel, "checkDb", None, None)

CheckEnds ==
    \E c \in Suspended("checkDb"), up \in BOOLEAN : panel' = Set(End(panel, c), "linked", up)

ExportRows == CanRun /\ panel' = Toast(panel)

HandleRunReview ==
    /\ Idle("review") /\ CanRun
    /\ panel' = Toast(Set(Begin(panel, "review", "review", None), "done", FALSE))

ReviewStep ==
    \E c \in Suspended("review") : c.at < ReviewSteps - 2 /\ panel' = Toast(Await(panel, c))

ReviewEnds ==
    \E c \in Suspended("review") :
        c.at = ReviewSteps - 2 /\ panel' = Toast(Set(End(panel, c), "done", TRUE))

\* A toast of a page clears its timer when it is dismissed.
CloseToast == \E c \in Suspended("toast") :
    panel' = [End(panel, c) EXCEPT !.ui.waiting = @ \ {c.run}]

WorkspaceUser == ExportRows \/ HandleRunReview \/ CloseToast

WorkspaceResume == CheckEnds \/ ReviewStep \/ ReviewEnds \/ ToastExpires

-----------------------------------------------------------------------------
(* AdminSessionIntegrity and useSessionStore: the lock of an idle session.  *)
(* ui.idle is the time since lastActive, in minutes.                        *)

IdleTimeout == 15

SessionPanel == Mounted("session", [locked |-> FALSE, idle |-> 0, error |-> FALSE], {}, {})

\* A minute to the next tick of the interval, or the machine slept meanwhile.
TimePasses ==
    /\ panel.ui.idle = 0
    /\ Edit("idle", {1, IdleTimeout, IdleTimeout + 1})

\* updateActivity: the interval calls it as well as the events of the user.
UpdateActivity ==
    /\ ~panel.ui.locked
    /\ panel' = [panel EXCEPT !.ui.locked = panel.ui.idle > IdleTimeout, !.ui.idle = 0]

\* handleUnlock, with the right and with a wrong PIN.
HandleUnlock ==
    /\ panel.ui.locked
    /\ \/ panel' = SessionPanel
       \/ panel' = Set(panel, "error", TRUE)

-----------------------------------------------------------------------------
ShellInitial ==
    {ApiKeyPanel, PreferencesPanel, FormsPanel, NoticesPanel, LayoutPanel, TrailPanel,
     WorkspacePanel, SessionPanel}

ShellUser ==
    \/ panel.name = "apikey" /\ ApiKeyUser
    \/ panel.name = "preferences" /\ PreferencesUser
    \/ panel.name = "forms" /\ FormsUser
    \/ panel.name = "notices" /\ NoticesUser
    \/ panel.name = "layout" /\ LayoutUser
    \/ panel.name = "trail" /\ TrailUser
    \/ panel.name = "workspace" /\ WorkspaceUser
    \/ panel.name = "session" /\ (UpdateActivity \/ HandleUnlock)

ShellTimer ==
    \/ panel.name = "notices" /\ StreamArrives
    \/ panel.name = "workspace" /\ CheckDb
    \/ panel.name = "session" /\ (TimePasses \/ UpdateActivity)

ShellResume ==
    \/ panel.name = "apikey" /\ ApiKeyResume
    \/ panel.name = "preferences" /\ PreferencesResume
    \/ panel.name = "forms" /\ ToastExpires
    \/ panel.name = "notices" /\ SeedArrives
    \/ panel.name = "workspace" /\ WorkspaceResume
-----------------------------------------------------------------------------
\* "This will invalidate the current production API key immediately ... This
\* action cannot be undone": a key once replaced is not the key again.  The
\* code does not keep this: a reset of the preferences writes the first key
\* back, and so does a tab that still holds it.
ReplacedForGood ==
    panel.name = "apikey" => {panel.ui.here, panel.ui.disk} \cap panel.ui.retired = {}
=============================================================================
