---------------------------- MODULE VolumeRequest ----------------------------
(***************************************************************************)
(* What a volume command promises its user, whatever happens to processes  *)
(* and connection: the channels are set one after the other in the order   *)
(* of the command line, the user is told of each one after it was set, and *)
(* no channel is touched before the user was told of every one before it.  *)
(* Session implements this.                                                *)
(***************************************************************************)
EXTENDS Naturals, Sequences

CONSTANT NumChannels

VARIABLES
    set,   \* the channels set, in order
    told   \* the channels the user was told are set

Init == set = <<>> /\ told = {}

SetNext ==
    /\ Len(set) < NumChannels
    /\ told = 1..Len(set)
    /\ set' = Append(set, Len(set) + 1)
    /\ told' = told

Tell ==
    /\ told # 1..Len(set)
    /\ told' = 1..Len(set)
    /\ set' = set

Next == SetNext \/ Tell

Spec == Init /\ [][Next]_<<set, told>>

=============================================================================
