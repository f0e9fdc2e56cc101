--------------------------- MODULE FreezeAuthority ---------------------------
(***************************************************************************)
(* What the SOAR pipeline promises about bank accounts, whatever its       *)
(* agents, requests and failures do: a case is first authorised, and only  *)
(* then may its account be frozen; neither is ever taken back.             *)
(***************************************************************************)
CONSTANT Cases

VARIABLES authorised, frozen   \* sets of cases

Init == authorised = {} /\ frozen = {}

Authorise(c) ==
    /\ c \notin authorised
    /\ authorised' = authorised \cup {c}
    /\ UNCHANGED frozen

Freeze(c) ==
    /\ c \in authorised
    /\ frozen' = frozen \cup {c}
    /\ UNCHANGED authorised

Next == \E c \in Cases : Authorise(c) \/ Freeze(c)

Spec == Init /\ [][Next]_<<authorised, frozen>>
=============================================================================
