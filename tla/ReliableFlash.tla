---------------------------- MODULE ReliableFlash ----------------------------
(***************************************************************************)
(* What a caller who has partitions programmed may rely on, whatever lies  *)
(* between him and the device: the specification that the Download Mode    *)
(* flasher and the stock restore implement.  There are no messages here,   *)
(* no transfers and no modes of the device: a call names partitions, those *)
(* alone may come to change, one that is reported is whole and is left     *)
(* alone from then on, and success leaves none of them out.                *)
(***************************************************************************)
EXTENDS Naturals

CONSTANTS
    Partitions,
    Image,         \* Partitions -> the image that each is to hold
    Content        \* Partitions -> what each may hold after an attempt

VARIABLES
    state,         \* "idle", "busy", or "success" of the last call
    asked,         \* partitions that the call may still program
    due,           \* those that its success still depends on
    reported,      \* those that it has reported
    flash,         \* what the device holds
    late           \* an answer was given up too early: nothing is promised any more

vars == <<state, asked, due, reported, flash, late>>

Init == state = "idle" /\ asked = {} /\ due = {} /\ reported = {} /\ ~late

Goes == state' = state /\ asked' \subseteq asked
Ends(s) == state' = s /\ asked' = {} /\ due' = {}

\* All that the call is asked for is due.
Call ==
    /\ state # "busy" /\ state' = "busy"
    /\ asked' \subseteq due' /\ reported' = {} /\ UNCHANGED flash

\* A partition gets its image, a part of it, or that of an attempt that fails; the
\* call may fail with it.
Program(p) ==
    /\ state = "busy" /\ p \in asked \ reported
    /\ flash' = [flash EXCEPT ![p] = flash'[p]] /\ flash'[p] \in Content[p]
    /\ (Goes /\ UNCHANGED due) \/ Ends("idle")
    /\ UNCHANGED reported

Report(p) ==
    /\ state = "busy" /\ p \in due /\ flash[p] = Image[p]
    /\ Goes /\ due' = due \ {p} /\ reported' = reported \cup {p}
    /\ UNCHANGED flash

\* One that is refused stays due.
PassOver == state = "busy" /\ Goes /\ UNCHANGED <<due, reported, flash>>

Succeed ==
    /\ state = "busy" /\ due = {} /\ Ends("success")
    /\ UNCHANGED <<reported, flash>>

\* The call fails, or what it has said is forgotten with an exception or a later call.
GiveUp == Ends("idle") /\ reported' \in {reported, {}} /\ UNCHANGED flash

Step ==
    \/ \E p \in Partitions : Program(p) \/ Report(p)
    \/ Call \/ PassOver \/ Succeed \/ GiveUp

Next == late' \/ (~late /\ ~late' /\ Step)

Spec == Init /\ [][Next]_vars
=============================================================================
