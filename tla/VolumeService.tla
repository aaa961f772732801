---------------------------- MODULE VolumeService ----------------------------
(***************************************************************************)
(* What the vol loop of the server promises the client at the other end,   *)
(* as if one process served it: the mixer is touched only for the argument *)
(* that is asked, an argument has one answer at most, and an "ok" is given *)
(* only after the volume was set.  VolumeChange implements this with a     *)
(* chain of processes.                                                     *)
(***************************************************************************)
EXTENDS Naturals

CONSTANT NumChannels

VARIABLES
    sent,    \* arguments the client has sent
    asked,   \* the argument not yet answered, 0 when there is none
    over,    \* the client waits for no answer any more
    mixer,   \* the channels that are set
    heard    \* the answers the client took

vars == <<sent, asked, over, mixer, heard>>

Init ==
    /\ sent = 0
    /\ asked = 0
    /\ over = FALSE
    /\ mixer = {}
    /\ heard = {}

\* Also a client that waits for no answer any more.
Ask ==
    /\ asked = 0 /\ sent < NumChannels
    /\ sent' = sent + 1
    /\ asked' = sent + 1
    /\ UNCHANGED <<over, mixer, heard>>

GiveUp ==
    /\ ~over
    /\ over' = TRUE
    /\ UNCHANGED <<sent, asked, mixer, heard>>

\* Also for a client that gave up after it asked.
Set ==
    /\ asked # 0
    /\ mixer' = mixer \cup {asked}
    /\ UNCHANGED <<sent, asked, over, heard>>

Answer(text) ==
    /\ asked # 0 /\ ~over
    /\ text = "ok" => asked \in mixer
    /\ heard' = heard \cup {[chan |-> asked, text |-> text]}
    /\ asked' = 0
    /\ UNCHANGED <<sent, over, mixer>>

\* An answer to nobody.
Forget ==
    /\ asked # 0 /\ over
    /\ asked' = 0
    /\ UNCHANGED <<sent, over, mixer, heard>>

Next == Ask \/ GiveUp \/ Set \/ (\E text \in {"ok", "err"} : Answer(text)) \/ Forget

Spec == Init /\ [][Next]_vars

=============================================================================
