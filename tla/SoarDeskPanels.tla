---------------------------- MODULE SoarDeskPanels ----------------------------
(***************************************************************************)
(* The SOAR desk and the trust pages of FeaturePages.tsx: severity matrix,  *)
(* playbook builder, zero-knowledge identity proofs, federated training,    *)
(* the post-quantum signer, sovereignty resolution and evacuation.          *)
(***************************************************************************)
EXTENDS ConsolePanel, SequencesExt

CONSTANTS Steps,     \* what a playbook can contain
          MaxSteps,  \* bound on the length of a playbook
          MaxRounds  \* bound on the training rounds the slider offers

-----------------------------------------------------------------------------
(* The severity matrix, the timeline and the tabs of SoarPage: selections   *)
(* that toggle and that nothing else reads.                                 *)

SoarViewPanel ==
    Mounted("soarView",
            [filter |-> None, hovered |-> None, mttr |-> FALSE, tab |-> "agents"],
            {}, {})

ToggleFilter ==
    \E cell \in Steps :
        panel' = Set(panel, "filter", IF panel.ui.filter = cell THEN None ELSE cell)

ClearFilter == panel.ui.filter # None /\ panel' = Set(panel, "filter", None)

HoverEvent == Edit("hovered", Steps \cup {None})

\* The bars of the MTTR chart grow when the timer set at mount fires.
AnimateMttr == ~panel.ui.mttr /\ panel' = Set(panel, "mttr", TRUE)

SwitchSoarTab == Edit("tab", {"agents", "zkp"})

SoarViewUser == ToggleFilter \/ ClearFilter \/ HoverEvent \/ SwitchSoarTab

-----------------------------------------------------------------------------
(* The playbook builder.  progress counts the steps executed so far: -1     *)
(* before a run, Len(sequence) after one.  executed observes the steps the  *)
(* last run performed.                                                      *)

PlaybookPanel ==
    Mounted("playbook",
            [sequence |-> <<>>, progress |-> 0 - 1, complete |-> FALSE, executed |-> <<>>],
            {"execute"}, {})

AddStep ==
    /\ Idle("playbook")
    /\ Len(panel.ui.sequence) < MaxSteps
    /\ \E s \in Steps :
          panel' = [panel EXCEPT !.ui.sequence = Append(@, s), !.ui.complete = FALSE]

\* Mutant of RemoveStep: the sequence stays marked complete.
RemoveCompletedStep ==
    /\ Idle("playbook")
    /\ \E i \in DOMAIN panel.ui.sequence :
          panel' = [panel EXCEPT !.ui.sequence = RemoveAt(@, i)]

\* The cross on a step is drawn only when nothing runs; progress is kept.
RemoveStep ==
    /\ Idle("playbook")
    /\ \E i \in DOMAIN panel.ui.sequence :
          panel' = [panel EXCEPT !.ui.sequence = RemoveAt(@, i), !.ui.complete = FALSE]

ClearPlaybook ==
    /\ Idle("playbook") /\ panel.ui.sequence # <<>>
    /\ panel' = [panel EXCEPT !.ui.sequence = <<>>, !.ui.complete = FALSE,
                              !.ui.progress = 0 - 1]

\* The closure keeps the sequence of the click and enters its loop: the
\* first step is under way when the handler first awaits.
ExecutePlaybook ==
    /\ Idle("playbook") /\ panel.ui.sequence # <<>> /\ CanRun
    /\ panel' = [Begin(panel, "execute", "playbook", panel.ui.sequence) EXCEPT
                    !.ui.complete = FALSE, !.ui.progress = 0, !.ui.executed = <<>>]

\* A step's delay is over: the loop starts the next step, or ends.
PlaybookResume ==
    \E c \in Suspended("execute") :
        LET done == c.at + 1
            p == [panel EXCEPT !.ui.progress = done,
                               !.ui.executed = Append(@, c.arg[done])]
        IN  panel' = IF done < Len(c.arg) THEN Await(p, c)
                     ELSE [End(p, c) EXCEPT !.ui.complete = TRUE]

PlaybookUser == AddStep \/ RemoveStep \/ ClearPlaybook \/ ExecutePlaybook

-----------------------------------------------------------------------------
(* The zero-knowledge tab.  Identities are pairs (ssn, dob) seen as one     *)
(* value.  The proof on display is the result of "prove"; its arg is the    *)
(* identity it was made for.                                                *)

Identities == {"i1", "i2"}

ZkpPanel ==
    Mounted("zkp", [suspect |-> "i1", claimed |-> None], {"prove", "check"}, {})

ProofShown == {r \in panel.shown : r.op = "prove"}

EditSuspect == Edit("suspect", Identities)

\* The claim's inputs are drawn next to a proof.
EditClaim == ProofShown # {} /\ Edit("claimed", Identities)

CreateZkp ==
    /\ Idle("zkp") /\ CanRun
    /\ panel' = Hide(Begin(panel, "prove", "zkp", panel.ui.suspect), {"prove", "check"})

\* With the proof the claim is filled in with the identity captured.
CreateZkpAnswer ==
    \E c \in Suspended("prove"), out \in Outcome :
        panel' = Set(End(Show(panel, c, out), c), "claimed", c.arg)

\* The closure keeps the proof, the claim and the suspect of the click.
VerifyZkp ==
    /\ Idle("check") /\ CanRun
    /\ \E proof \in ProofShown :
          panel' = Hide(Begin(panel, "check", "check",
                              [proof |-> proof.run, subject |-> proof.arg,
                               claimed |-> panel.ui.claimed,
                               suspect |-> panel.ui.suspect]), {"check"})

\* The server checks the claim against the proof; the fallback compares it
\* with the suspect of the form.
VerifyZkpAnswer ==
    \E c \in Suspended("check") :
        \/ panel' = End(Show(panel, c, c.arg.claimed = c.arg.subject), c)
        \/ panel' = End(Show(panel, c, c.arg.claimed = c.arg.suspect), c)

ZkpUser == EditSuspect \/ EditClaim \/ CreateZkp \/ VerifyZkp

-----------------------------------------------------------------------------
(* FederationPage: a training run prints two opening lines (one here), the  *)
(* distribution of the model, two lines a round and the closing line.       *)

FederationPanel == Mounted("federation", [rounds |-> 1], {"train"}, {"train"})

SetRounds == Edit("rounds", 1..MaxRounds)

TrainLines(c) == 2 + 2 * c.arg

RunFL ==
    /\ Idle("train") /\ CanRun
    /\ panel' = Reopen(Begin(panel, "train", "train", panel.ui.rounds), "train")

TrainResume ==
    \E c \in Suspended("train") :
        LET p == Say(panel, c, "train")
        IN  panel' = IF c.at + 1 < TrainLines(c) THEN Await(p, c) ELSE End(p, c)

FederationUser == SetRounds \/ RunFL

-----------------------------------------------------------------------------
(* QuantumPage: a message signer, a region resolver and an evacuation, three *)
(* panels: they share no hook.                                              *)

Inputs == {"m1", "m2"}

SignerPanel == Mounted("signer", [message |-> "m1"], {"sign"}, {})

EditMessage == Edit("message", Inputs)

PqcSign ==
    /\ Idle("sign") /\ CanRun
    /\ panel' = Hide(Begin(panel, "sign", "sign", panel.ui.message), {"sign"})

PqcSignAnswer == Answer("sign")

SovereigntyPanel == Mounted("sovereignty", [ip |-> "m1"], {"resolve"}, {})

EditIp == Edit("ip", Inputs)

ResolveSovereignty ==
    /\ Idle("resolve") /\ CanRun
    /\ panel' = Hide(Begin(panel, "resolve", "resolve", panel.ui.ip), {"resolve"})

ResolveAnswer == Answer("resolve")

EvacuationPanel == Mounted("evacuation", [region |-> "ap-south-1"], {"evacuate"}, {"evacuate"})

EvacuationLines == 3

EvacuateRegion ==
    /\ Idle("evacuate") /\ CanRun
    /\ panel' = Reopen(Begin(panel, "evacuate", "evacuate", None), "evacuate")

\* Both the answer and the catch block print that the evacuation succeeded.
EvacuateAnswer ==
    \E c \in Suspended("evacuate") :
        /\ c.at = EvacuationLines
        /\ panel' = End(Say(panel, c, "evacuate"), c)

EvacuationResume == PrintLine("evacuate", EvacuationLines, "evacuate") \/ EvacuateAnswer

-----------------------------------------------------------------------------
SoarDeskInitial ==
    {SoarViewPanel, PlaybookPanel, ZkpPanel, FederationPanel,
     SignerPanel, SovereigntyPanel, EvacuationPanel}

SoarDeskUser ==
    \/ panel.name = "soarView" /\ SoarViewUser
    \/ panel.name = "playbook" /\ PlaybookUser
    \/ panel.name = "zkp" /\ ZkpUser
    \/ panel.name = "federation" /\ FederationUser
    \/ panel.name = "signer" /\ (EditMessage \/ PqcSign)
    \/ panel.name = "sovereignty" /\ (EditIp \/ ResolveSovereignty)
    \/ panel.name = "evacuation" /\ EvacuateRegion

SoarDeskResume ==
    \/ panel.name = "soarView" /\ AnimateMttr
    \/ panel.name = "playbook" /\ PlaybookResume
    \/ panel.name = "zkp" /\ (CreateZkpAnswer \/ VerifyZkpAnswer)
    \/ panel.name = "federation" /\ TrainResume
    \/ panel.name = "signer" /\ PqcSignAnswer
    \/ panel.name = "sovereignty" /\ ResolveAnswer
    \/ panel.name = "evacuation" /\ EvacuationResume

-----------------------------------------------------------------------------
\* What the builder says is complete is what the last run performed, step by
\* step: no edit after the run leaves "complete" on another sequence.
PlaybookCompleteMeansRun ==
    panel.name = "playbook" /\ panel.ui.complete
        => /\ panel.ui.executed = panel.ui.sequence
           /\ panel.ui.progress = Len(panel.ui.sequence)
=============================================================================
