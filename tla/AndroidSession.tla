--------------------------- MODULE AndroidSession ---------------------------
(***************************************************************************)
(* The Android application and the server child of its connection: several *)
(* commands over one connection, with the lists edited under the task, and *)
(* with timeouts, a stopping server and a dying application anywhere.      *)
(***************************************************************************)
EXTENDS ServerChild, AndroidClient

CONSTANT
    ServerEnc  \* whether the server may have been started with --encrypt

ASSUME ServerEncAssumption == ServerEnc \subseteq BOOLEAN

vars == <<wireVars, serverVars, appVars>>

Init ==
    /\ WireInit /\ ServerInit /\ AppInit
    /\ sUseEnc \in ServerEnc

\* The child exists once the connection does.
Linked == conn = "open" \/ cGone

ServerActs == Linked /\ ServerStep /\ UNCHANGED appVars
TaskActs   == TaskStep /\ UNCHANGED serverVars

Next ==
    \/ ServerActs
    \/ TaskActs
    \/ UiStep /\ UNCHANGED serverVars
    \/ ServerShutdown /\ UNCHANGED appVars

Spec == Init /\ [][Next]_vars

\* The child and the task are run; the user need not do anything.
FairSpec == Spec /\ WF_vars(ServerActs) /\ WF_vars(TaskActs)

-----------------------------------------------------------------------------
TypeOK == WireTypeOK /\ ServerTypeOK /\ AppTypeOK

(***************************************************************************)
(* Between two commands the connection holds no answer that the next       *)
(* command could take for its own, whatever failed before: nothing, or     *)
(* first the "end" of a child that gave up after an error, on which the    *)
(* application closes.  What a parent of that child writes on waking up is *)
(* behind it.                                                              *)
(***************************************************************************)
NoStaleAnswer ==
    aPc = "idle" /\ conn = "open" => s2c = <<>> \/ Head(s2c).text = "end"

(***************************************************************************)
(* The "ok" the application is about to read for an argument is of this    *)
(* argument, which amixer has set: also after the list of channels changed *)
(* between the number that was announced and the arguments that were sent. *)
(***************************************************************************)
OkWasSet ==
    aPc = "getArg" /\ Line("ok") =>
        applied # <<>> /\ applied[Len(applied)] = aI + 1

(***************************************************************************)
(* The mixer is touched only for the argument the task waits for, or after *)
(* the application closed the connection: a child that is still in the     *)
(* loop of an earlier, shortened command takes nothing else for a volume.  *)
(***************************************************************************)
AppliesWhatIsAsked ==
    [][applied' # applied => \/ aPc = "getArg" /\ applied'[Len(applied')] = aI + 1
                             \/ cGone]_vars

(***************************************************************************)
(* A command may be given up on the "end" of a child that ends itself, of  *)
(* which the user is not told, but only after an earlier error was shown.  *)
(***************************************************************************)
SilenceFollowsError == gaveUp => errors

(***************************************************************************)
(* The pause button is right about the player between commands, whatever   *)
(* became of other commands and across errors, as long as its Main lives   *)
(* and no "play" was dropped, failed, or given while this host was not     *)
(* selected: a "play" that was carried out pressed the key exactly once,   *)
(* and nothing else did.                                                   *)
(***************************************************************************)
ButtonIsRight ==
    ~Busy /\ conn = "open" /\ ~astray => (isPaused <=> pressed["play"] % 2 = 1)

(***************************************************************************)
(* The tasks end, whatever the server does: the end of a task is what the  *)
(* user waits for before another command is accepted.                      *)
(***************************************************************************)
TaskEnds == Busy ~> ~Busy \/ aPc = "dead"

(***************************************************************************)
(* A connection that the application has closed, or died with, does not    *)
(* keep its child, out of step or not, nor the processes that wait for it. *)
(***************************************************************************)
ChildFollowsApp == cGone ~> ServerEnded

(***************************************************************************)
(* "Connect to the server if not already connected" (doInBackground()):    *)
(* with a server that runs and can be reached, a task that gets past this  *)
(* point has a connection.                                                 *)
(***************************************************************************)
CommandsGoOut == aPc = "command" => conn = "open" \/ ~srvUp

=============================================================================
