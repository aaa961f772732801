---------------------------- MODULE VolumeChange ----------------------------
(***************************************************************************)
(* The vol loop of processCommand() seen as processes: changeVolume()      *)
(* forks a copy of the child to become amixer and waits for it, while the  *)
(* SIGCHLD handler the child inherited waits for any process at all.       *)
(*                                                                         *)
(* When execlp() fails the copy does not exit: it returns FAILURE from     *)
(* changeVolume() and goes on as a second server of the same connection,   *)
(* its parent asleep in waitpid().  procs is that chain of processes, the  *)
(* connection's child first, each one the parent of the next.  Whichever   *)
(* of them serves also takes requests that end it with the client still    *)
(* there: its parent then wakes up and writes behind the "end".            *)
(***************************************************************************)
EXTENDS Naturals, Sequences

CONSTANTS
    NumChannels,  \* requests the client may send
    ExecFails     \* execlp() may fail

ASSUME VolumeAssumption ==
    /\ NumChannels \in Nat \ {0}
    /\ ExecFails \in BOOLEAN

VARIABLES
    procs,    \* the chain: where each process is, the request it is at
    sent,     \* requests the client has sent
    asked,    \* the request not yet answered, 0 when there is none
    left,     \* the client has sent "end" or is gone
    ended,    \* the client has been sent "end", and takes no answer after it
    mixer,    \* the channels amixer has set
    answers   \* history: the replies, and whether the client awaited them

vars == <<procs, sent, asked, left, ended, mixer, answers>>

\* Places of a process that serves, of one inside changeVolume(), of the copy.
\* refuse and end: it answers "err" to what is no argument, then gives up.
Serving == {"read", "ok", "err", "refuse", "end"}
Waiting == {"forked", "wait"}
Amixer  == {"copy", "amixer", "zombie"}

Proc == [pc : Serving \cup Waiting \cup Amixer, chan : 0..NumChannels, status : {0, 1}]

Answer == [chan : 1..NumChannels, text : {"ok", "err"}, heard : BOOLEAN]

TypeOK ==
    /\ procs \in Seq(Proc)
    /\ sent \in 0..NumChannels
    /\ asked \in 0..NumChannels
    /\ left \in BOOLEAN
    /\ ended \in BOOLEAN
    /\ mixer \subseteq 1..NumChannels
    /\ answers \in Seq(Answer)

Init ==
    /\ procs = <<[pc |-> "read", chan |-> 0, status |-> 0]>>
    /\ sent = 0
    /\ asked = 0
    /\ left = FALSE
    /\ ended = FALSE
    /\ mixer = {}
    /\ answers = <<>>

At(k, place) == k \in 1..Len(procs) /\ procs[k].pc = place
Moves(k, place) == [procs EXCEPT ![k].pc = place]
HasZombie(k) == At(k + 1, "zombie")
\* The chain once process k has reaped its child.
Reaped(k) == SubSeq(procs, 1, k)
\* The chain once its last process k has ended.  The first of the chain is the
\* listening parent's to reap.
Without(k, status) ==
    IF k = 1 THEN <<>> ELSE [procs EXCEPT ![k].pc = "zombie", ![k].status = status]

-----------------------------------------------------------------------------
\* The next request of the client.
Request == sent' = sent + 1 /\ asked' = sent + 1

\* Mutant: one request more than there are.
AskOneMore ==
    /\ asked = 0 /\ sent <= NumChannels /\ ~left /\ ~ended
    /\ Request
    /\ UNCHANGED <<procs, left, ended, mixer, answers>>

\* The client sends the next request once the last is answered.
Ask ==
    /\ asked = 0 /\ sent < NumChannels /\ ~left /\ ~ended
    /\ Request
    /\ UNCHANGED <<procs, left, ended, mixer, answers>>

\* A client that was sent "end" may find it only in the place of the answer to
\* one more request.
Leave ==
    /\ ~left
    /\ left' = TRUE
    /\ \/ UNCHANGED <<sent, asked>>
       \/ ended /\ asked = 0 /\ sent < NumChannels /\ Request
    /\ UNCHANGED <<procs, ended, mixer, answers>>

\* Mutant: the first argument is parsed, and set at every turn.
ReadArgFirst(k) ==
    /\ At(k, "read") /\ k = Len(procs)
    /\ asked # 0
    /\ LET p == [procs[k] EXCEPT !.chan = IF procs[k].chan = 0 THEN asked ELSE procs[k].chan] IN
       procs' \in {[procs EXCEPT ![k] = [p EXCEPT !.pc = "err"]],
                   [procs EXCEPT ![k] = [p EXCEPT !.pc = "refuse"]],
                   Append([procs EXCEPT ![k] = [p EXCEPT !.pc = "forked"]],
                          [p EXCEPT !.pc = "copy"])}
    /\ UNCHANGED <<sent, asked, left, ended, mixer, answers>>

\* receive(), parseVolCommand() and the fork.  An argument that does not parse
\* and a fork that fails come to the same reply.  The request may also find the
\* process outside the loop, and be unknown there or a media key that fails.
ReadArg(k) ==
    /\ At(k, "read") /\ k = Len(procs)
    /\ asked # 0
    /\ LET p == [procs[k] EXCEPT !.chan = asked] IN
       procs' \in {[procs EXCEPT ![k] = [p EXCEPT !.pc = "err"]],
                   [procs EXCEPT ![k] = [p EXCEPT !.pc = "refuse"]],
                   Append([procs EXCEPT ![k] = [p EXCEPT !.pc = "forked"]],
                          [p EXCEPT !.pc = "copy"])}
    /\ UNCHANGED <<sent, asked, left, ended, mixer, answers>>

\* Mutant: a copy exits as soon as it has answered.
ReadEndAtOnce(k) ==
    /\ At(k, "read")
    /\ k > 1 \/ (left /\ asked = 0)
    /\ procs' = Without(k, 0)
    /\ UNCHANGED <<sent, asked, left, ended, mixer, answers>>

\* Mutant: a copy does not notice the end.
ReadEndNotCopy(k) ==
    /\ At(k, "read") /\ k = 1
    /\ left /\ asked = 0
    /\ procs' = <<>>
    /\ UNCHANGED <<sent, asked, left, ended, mixer, answers>>

\* "end" or end of file: exit(NORMAL_EXIT), whatever happened before.
ReadEnd(k) ==
    /\ At(k, "read")
    /\ left /\ asked = 0
    /\ procs' = Without(k, 0)
    /\ UNCHANGED <<sent, asked, left, ended, mixer, answers>>

\* After a failure main() sends "end" and exits just the same.
SendEnd(k) ==
    /\ At(k, "end")
    /\ ended' = TRUE
    /\ procs' \in {Without(k, 0)} \cup (IF left THEN {Without(k, 1)} ELSE {})
    /\ UNCHANGED <<sent, asked, left, mixer, answers>>

Exec(k) ==
    /\ At(k, "copy")
    /\ procs' \in {Moves(k, "amixer")} \cup (IF ExecFails THEN {Moves(k, "err")} ELSE {})
    /\ UNCHANGED <<sent, asked, left, ended, mixer, answers>>

\* amixer sets the volume and exits 0, or exits with an error.
AmixerExits(k) ==
    /\ At(k, "amixer")
    /\ \E status \in {0, 1} :
          /\ procs' = [procs EXCEPT ![k].pc = "zombie", ![k].status = status]
          /\ mixer' = IF status = 0 THEN mixer \cup {procs[k].chan} ELSE mixer
    /\ UNCHANGED <<sent, asked, left, ended, answers>>

\* The handler runs before waitpid() is called, and reaps the process waitpid()
\* is about to ask for.
HandlerReaps(k) ==
    /\ At(k, "forked") /\ HasZombie(k)
    /\ procs' = Reaped(k)
    /\ UNCHANGED <<sent, asked, left, ended, mixer, answers>>

\* Mutant: waitpid() does not block.
CallWaitNoHang(k) ==
    /\ At(k, "forked")
    /\ procs' = Moves(k, "err")
    /\ UNCHANGED <<sent, asked, left, ended, mixer, answers>>

\* Mutant: it is called until it returns the child.
CallWaitForEver(k) ==
    /\ At(k, "forked")
    /\ procs' = Moves(k, "wait")
    /\ UNCHANGED <<sent, asked, left, ended, mixer, answers>>

\* waitpid() is entered: it fails at once when there is no such child any more,
\* and status keeps its initial -1.
CallWait(k) ==
    /\ At(k, "forked")
    /\ procs' = Moves(k, IF k = Len(procs) THEN "err" ELSE "wait")
    /\ UNCHANGED <<sent, asked, left, ended, mixer, answers>>

\* Mutant: the status is not looked at.
WaitReturnsOk(k) ==
    /\ At(k, "wait") /\ HasZombie(k)
    /\ procs' = [Reaped(k) EXCEPT ![k].pc = "ok"]
    /\ UNCHANGED <<sent, asked, left, ended, mixer, answers>>

WaitReturns(k) ==
    /\ At(k, "wait") /\ HasZombie(k)
    /\ procs' = [Reaped(k) EXCEPT ![k].pc = IF procs[k + 1].status = 0 THEN "ok" ELSE "err"]
    /\ UNCHANGED <<sent, asked, left, ended, mixer, answers>>

\* The reply to the request.  A client that is there and was not sent an "end"
\* takes it.  For one that left it may fail, or SIGPIPE end the process.
Reply(k) ==
    /\ k \in 1..Len(procs) /\ procs[k].pc \in {"ok", "err", "refuse"}
    /\ answers' = Append(answers, [chan  |-> procs[k].chan,
                                   text  |-> IF procs[k].pc = "ok" THEN "ok" ELSE "err",
                                   heard |-> ~left /\ ~ended])
    /\ asked' = IF asked = procs[k].chan THEN 0 ELSE asked
    /\ procs' \in {Moves(k, IF procs[k].pc = "refuse" THEN "end" ELSE "read")}
                     \cup (IF left THEN {Moves(k, "end"), Without(k, 1)} ELSE {})
    /\ UNCHANGED <<sent, left, ended, mixer>>

ProcStep(k) ==
    \/ ReadArg(k) \/ ReadEnd(k) \/ SendEnd(k) \/ Exec(k) \/ AmixerExits(k)
    \/ HandlerReaps(k) \/ CallWait(k) \/ WaitReturns(k) \/ Reply(k)

Depth == NumChannels + 1

Next == Ask \/ Leave \/ \E k \in 1..Depth : ProcStep(k)

Spec == Init /\ [][Next]_vars

\* Every process is run by the kernel; the client may do nothing.
FairSpec == Spec /\ \A k \in 1..Depth : WF_vars(ProcStep(k))

-----------------------------------------------------------------------------
(***************************************************************************)
(* However many copies a failing execlp() leaves on the connection, one at *)
(* most serves it: all the others sleep in changeVolume().                 *)
(***************************************************************************)
OneServes ==
    \A j, k \in 1..Len(procs) : procs[j].pc \in Serving /\ procs[k].pc \in Serving => j = k

(***************************************************************************)
(* The client hears "ok" for a channel only if amixer has set that channel *)
(* (the exit code of a copy that took over is 0 too, and becomes an "ok"). *)
(***************************************************************************)
HeardOkWasSet ==
    \A n \in 1..Len(answers) :
        answers[n].heard /\ answers[n].text = "ok" => answers[n].chan \in mixer

(***************************************************************************)
(* A reply that the client takes answers the request it waits for: a copy  *)
(* and its sleeping parent never both answer one to it, however the copy   *)
(* comes to its end.  What the parent writes is behind an "end".           *)
(***************************************************************************)
AnswersWhatWasAsked ==
    [][\A n \in DOMAIN answers' \ DOMAIN answers :
          answers'[n].heard => asked # 0 /\ answers'[n].chan = asked]_vars

(***************************************************************************)
(* The chain of processes is to the client as one process that sets what   *)
(* it is asked and then answers (VolumeService), until the client leaves   *)
(* or is sent an "end".                                                    *)
(***************************************************************************)
Heard == {[chan |-> answers[n].chan, text |-> answers[n].text] :
             n \in {m \in 1..Len(answers) : answers[m].heard}}

Service == INSTANCE VolumeService WITH heard <- Heard, over <- left \/ ended

ImplementsService == Service!Spec

(***************************************************************************)
(* A request is answered unless the client stops waiting or was sent an    *)
(* "end", whichever process of the chain is left to do it.                 *)
(***************************************************************************)
AskIsAnswered == asked # 0 ~> (asked = 0 \/ left \/ ended)

(***************************************************************************)
(* When the client has left, the whole chain of processes unwinds.         *)
(***************************************************************************)
ChainUnwinds == left ~> procs = <<>>

(***************************************************************************)
(* What changeVolume() says of its wait, "Wait for the fork to exit and    *)
(* return its exit code": an argument whose channel amixer has just set is *)
(* not answered "err".                                                     *)
(***************************************************************************)
ReportsExitCode ==
    \A n \in 1..Len(answers) :
        answers[n].heard /\ answers[n].chan \in mixer => answers[n].text = "ok"

=============================================================================
