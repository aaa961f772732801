------------------------------- MODULE Session -------------------------------
(***************************************************************************)
(* One connection: a server child and a client program on the two ends of  *)
(* a wire, from accept() to the end of both, with the server stopping and  *)
(* the client dying at any moment.                                         *)
(***************************************************************************)
EXTENDS ServerChild, CommandClient

CONSTANT
    Configs  \* how server and client were started: see ConfigAssumption

ASSUME ConfigAssumption ==
    Configs \subseteq [server : BOOLEAN, client : BOOLEAN, cmd : Commands \cup {"none"}]

vars == <<wireVars, serverVars, clientVars>>

Init ==
    /\ WireInit /\ ServerInit /\ ClientInit
    /\ \E config \in Configs :
          /\ sUseEnc = config.server
          /\ cUseEnc = config.client
          /\ cCmd = config.cmd

ServerActs == ServerStep /\ UNCHANGED clientVars
ClientActs == ClientStep /\ UNCHANGED serverVars

Next ==
    \/ ServerActs
    \/ ClientActs
    \/ ServerShutdown /\ UNCHANGED clientVars
    \/ ClientKilled /\ UNCHANGED serverVars

Spec == Init /\ [][Next]_vars

(***************************************************************************)
(* Both programs are sequential processes the kernel runs; nothing obliges *)
(* anyone to stop the server or kill the client.                           *)
(***************************************************************************)
FairSpec == Spec /\ WF_vars(ServerActs) /\ WF_vars(ClientActs)

-----------------------------------------------------------------------------
TypeOK == WireTypeOK /\ ServerTypeOK /\ ClientTypeOK

\* The places a client reaches only after it accepted the server's "redy".
CommandPhase == {"command", "getVolOk", "num", "getNumOk", "arg", "getArgOk", "getMedia"}
VolReads == {"getVolOk", "getNumOk", "getArgOk"}

(***************************************************************************)
(* A channel the client counts as set has been set by amixer: "ok" answers *)
(* the argument sent last and nothing else, so no reply is ever taken for  *)
(* another's (sendVolCmd() matches replies to channels only by counting).  *)
(***************************************************************************)
AckedWereApplied == \A i \in cAcked : \E k \in 1..Len(applied) : applied[k] = i

(***************************************************************************)
(* The handshake lets no command through half-keyed: a client that sends   *)
(* commands, and the child that reads them, agree whether to encrypt, and  *)
(* if so the client holds the key of the server, whatever went wrong in    *)
(* the six segments of the exchange.                                       *)
(***************************************************************************)
KeysAgree ==
    cPc \in CommandPhase => /\ sEnc = cUseEnc
                            /\ cUseEnc => cCrypto /\ cKey = "server"

(***************************************************************************)
(* Without frames only the lock step of request and reply keeps two writes *)
(* from being read as one: while a volume command awaits a reply, one      *)
(* write at most is on the wire, in one direction or the other.            *)
(***************************************************************************)
OneWriteOnTheWire == cPc \in VolReads => Len(c2s) + Len(s2c) <= 1

\* What a process is blocked on.
ServerBlocked == sPc \in ServerReads /\ c2s = <<>> /\ ~cGone
ClientBlocked == cPc \in ClientReads /\ s2c = <<>> /\ ~HangUp

(***************************************************************************)
(* Child and client never both wait for the other to write, which no       *)
(* timeout of either would end.                                            *)
(***************************************************************************)
NoMutualWait == ~(ServerBlocked /\ ClientBlocked)

(***************************************************************************)
(* The server touches the mixer for a channel only while the client that   *)
(* asked for it waits for the answer, or is gone: it never runs ahead, and *)
(* it never acts twice on a request the client has given up.               *)
(***************************************************************************)
AppliesInStep ==
    [][applied' # applied =>
          \/ cPc = "getArgOk" /\ applied'[Len(applied')] = cI + 1
          \/ cGone]_vars

(***************************************************************************)
(* The session is a VolumeRequest: what amixer has set and what the client *)
(* counts as acknowledged move as that module says, across lost replies,   *)
(* crashes, failing mixers and refused handshakes.                         *)
(***************************************************************************)
Request == INSTANCE VolumeRequest WITH set <- applied, told <- cAcked

ImplementsRequest == Request!Spec

(***************************************************************************)
(* Every run of the client program ends, whenever the server stops.        *)
(***************************************************************************)
ClientEnds == <>(cPc \in ClientDone)

(***************************************************************************)
(* A media command whose key was pressed and answered is a success to the  *)
(* client, which waits "for ok of command confirmation" (sendMediaCmd());  *)
(* only a lost connection may leave it a failure.                          *)
(***************************************************************************)
PressedIsSuccess ==
    cCmd \in MediaKeys /\ pressed[cCmd] > 0 /\ cStatus = "failure" => HangUp

(***************************************************************************)
(* The client sends its "redy" only when it is "good to go": on a          *)
(* connection that holds, it has the server's key and IV by then.          *)
(***************************************************************************)
RedyMeansKeyed == cPc = "redy" /\ ~HangUp => cKey = "server"

(***************************************************************************)
(* A client that is gone does not keep its child: the child finds out and  *)
(* exits, wherever the client left it, and so do all that wait for it.     *)
(***************************************************************************)
ChildFollowsClient == cGone ~> ServerEnded

=============================================================================
