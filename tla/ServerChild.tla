----------------------------- MODULE ServerChild -----------------------------
(***************************************************************************)
(* The process that alsa-server forks for one connection: clientHandshake  *)
(* and processCommand of server.cpp, and the part of main() around them,   *)
(* down to exit().  Its program counter names the send() or receive() the  *)
(* process is at, or the work it does between the two.                     *)
(*                                                                         *)
(* A copy of the process that was to become amixer, and could not, serves  *)
(* on in its place while the process sleeps in waitpid().  The variables   *)
(* are those of the process that serves; asleep keeps what each of the     *)
(* sleepers goes on with.                                                  *)
(***************************************************************************)
EXTENDS Wire

CONSTANTS
    MediaKeyWorks,  \* the outcomes sendMediaKey() can have here
    ExecFails,      \* execlp() of amixer may fail
    Timely          \* the client reads within the usleep() between segments

ASSUME ServerAssumption ==
    /\ MediaKeyWorks \subseteq BOOLEAN
    /\ ExecFails \in BOOLEAN
    /\ Timely \in BOOLEAN

VARIABLES
    sPc,         \* where the process is
    sUseEnc,     \* the server was started with --encrypt
    sEnc,        \* client.isEnc(): initCrypto() sets it with crypto
    sRemoteKey,  \* crypto->remotePubKey # NULL
    sSeg,        \* next of the six segments of the IV and the key, 1..6
    sNum, sI,    \* num_channels and the loop variable of the vol command
    sArg,        \* the argument parseVolCommand() is at work on
    asleep,      \* the processes whose copy serves in their place, first to last
    applied,     \* history: the arguments amixer has set, in order
    pressed      \* history: how often each media key was pressed

MediaKeys == {"play", "next", "prev"}

serverVars == <<sPc, sUseEnc, sEnc, sRemoteKey, sSeg, sNum, sI, sArg,
                applied, pressed, asleep>>

-----------------------------------------------------------------------------
(***************************************************************************)
(* The sends.  Each names its text, whether it passes client.isEnc() to    *)
(* send(), and the places it leads to when it returns a length and when it *)
(* returns FAILURE.  A failed "redy" ends the handshake only in a verbose  *)
(* server.  "end" is the catch block of main().                            *)
(***************************************************************************)
ServerSend(t, seal, ok, bad) == [text |-> t, seal |-> seal, ok |-> ok, bad |-> bad]

ServerSends ==
    [helo   |-> ServerSend("helo",   FALSE, "getEnc",  {"end"}),
     refuse |-> ServerSend("err",    FALSE, "end",     {"end"}),
     pubKey |-> ServerSend("pubkey", FALSE, "getPub",  {"end"}),
     errPub |-> ServerSend("err",    FALSE, "end",     {"end"}),
     redy   |-> ServerSend("redy",   TRUE,  "getCmd",  {"getCmd", "end"}),
     bye    |-> ServerSend("bye",    TRUE,  "close",   {"close"}),
     unknown |-> ServerSend("err",   TRUE,  "end",     {"end"}),
     okPlay |-> ServerSend("ok",     TRUE,  "getCmd",  {"end"}),
     okNext |-> ServerSend("ok",     TRUE,  "getCmd",  {"end"}),
     okPrev |-> ServerSend("prev",   TRUE,  "getCmd",  {"end"}),
     noKey  |-> ServerSend("err",    TRUE,  "end",     {"end"}),
     okVol  |-> ServerSend("ok",     TRUE,  "getNum",  {"end"}),
     okNum  |-> ServerSend("ok",     TRUE,  "loop",    {"end"}),
     okArg  |-> ServerSend("ok",     TRUE,  "loop",    {"end"}),
     errArg |-> ServerSend("err",    TRUE,  "loop",    {"end"}),
     end    |-> ServerSend("end",    TRUE,  "close",   {"close"})]

ServerReads == {"getEnc", "getPub", "getRedy", "getCmd", "getNum", "getArg"}
ServerWork  == {"segment", "loop", "play", "next", "prev", "setVolume", "close"}
\* closed: close() and exit(); dead: killed by a signal; crashed: its own fault
ServerDone  == {"closed", "dead", "crashed"}

SendPlaces == DOMAIN ServerSends
ServerPlaces == SendPlaces \cup ServerReads \cup ServerWork \cup ServerDone

ServerTypeOK ==
    /\ sPc \in ServerPlaces
    /\ sUseEnc \in BOOLEAN
    /\ sEnc \in BOOLEAN
    /\ sRemoteKey \in BOOLEAN
    /\ sSeg \in 1..7
    /\ sNum \in Nat
    /\ sI \in Nat
    /\ sArg \in Nat
    /\ asleep \in Seq([num : Nat, i : Nat])
    /\ applied \in Seq(Nat)
    /\ pressed \in [MediaKeys -> Nat]

ServerInit ==
    /\ sPc = "helo"
    /\ sEnc = FALSE
    /\ sRemoteKey = FALSE
    /\ sSeg = 1
    /\ sNum = 0
    /\ sI = 0
    /\ sArg = 0
    /\ asleep = <<>>
    /\ applied = <<>>
    /\ pressed = [key \in MediaKeys |-> 0]

-----------------------------------------------------------------------------
\* Client::send() at one of the places above; refused bytes are not sent.
SendReply ==
    /\ sPc \in SendPlaces
    /\ LET send == ServerSends[sPc]
           key  == IF send.seal /\ sEnc THEN "server" ELSE "none"
       IN  \E o \in SendOutcomes(cGone) :
              /\ s2c' = Queued(s2c, Msg(send.text, 0, key), cGone, o)
              /\ sPc' \in CASE o = "sent"    -> {send.ok}
                            [] o = "fail"    -> send.bad
                            [] o = "sigpipe" -> {"dead"}
    /\ UNCHANGED <<c2s, sUseEnc, sEnc, sRemoteKey, sSeg, sNum, sI, sArg, applied, pressed, asleep>>

\* sendAESIv() and sendAESKey(): six bare sends, of which the caller learns the
\* result of the third and the sixth only.  rsaEncrypt() dereferences a NULL
\* remote key.  Nothing but time keeps two segments apart on the wire: see Timely.
SendSegment ==
    /\ sPc = "segment"
    /\ sRemoteKey /\ (Timely => s2c = <<>>)
    /\ \E o \in SendOutcomes(cGone) :
          /\ s2c' = Queued(s2c, Msg("seg", sSeg, "none"), cGone, o)
          /\ sPc' = CASE o = "sigpipe"                 -> "dead"
                      [] o = "fail" /\ sSeg \in {3, 6} -> "end"
                      [] o = "sent" /\ sSeg = 6        -> "getRedy"
                      [] OTHER                         -> "segment"
    /\ sSeg' = sSeg + 1
    /\ UNCHANGED <<c2s, sUseEnc, sEnc, sRemoteKey, sNum, sI, sArg, applied, pressed, asleep>>

SegmentCrash ==
    /\ sPc = "segment"
    /\ ~sRemoteKey
    /\ sPc' = "crashed"
    /\ UNCHANGED <<c2s, s2c, sUseEnc, sEnc, sRemoteKey, sSeg, sNum, sI, sArg, applied, pressed, asleep>>

-----------------------------------------------------------------------------
\* The answer to helo.  The client decides; a server without --encrypt refuses
\* to encrypt, and one with it accepts a client that does not.
GetEnc ==
    /\ sPc = "getEnc"
    /\ \E rd \in Reads(c2s, cGone, "none") :
          /\ c2s' = rd.left
          /\ sEnc' = (rd.res.text = "enc" /\ sUseEnc)
          /\ sPc' = CASE rd.res.text = "enc"   -> IF sUseEnc THEN "pubKey" ELSE "refuse"
                      [] rd.res.text = "noenc" -> "redy"
                      [] OTHER                 -> "end"
    /\ UNCHANGED <<s2c, sUseEnc, sRemoteKey, sSeg, sNum, sI, sArg, applied, pressed, asleep>>

\* receiveRemotePubKey().  Its END, for a client that closed, is not FAILURE, so
\* the handshake goes on without a key; so it does with text that is no key.
GetPub ==
    /\ sPc = "getPub"
    /\ \E rd \in Reads(c2s, cGone, "none") :
          /\ c2s' = rd.left
          /\ sRemoteKey' = (rd.res.text = "pubkey")
          /\ sPc' = IF rd.res.len = "fail" \/ rd.res.text = "err" THEN "errPub" ELSE "segment"
    /\ UNCHANGED <<s2c, sUseEnc, sEnc, sSeg, sNum, sI, sArg, applied, pressed, asleep>>

GetRedy ==
    /\ sPc = "getRedy"
    /\ \E rd \in Reads(c2s, cGone, "none") :
          /\ c2s' = rd.left
          /\ sPc' = IF rd.res.text = "redy" THEN "redy" ELSE "end"
    /\ UNCHANGED <<s2c, sUseEnc, sEnc, sRemoteKey, sSeg, sNum, sI, sArg, applied, pressed, asleep>>

\* Mutant: a read that returned nothing is tried again as the next command.
ReceivedNoEof(r, place) ==
    CASE r.len = "data"  -> place
      [] r.len = "abort" -> "crashed"
      [] OTHER           -> "getCmd"

\* What processCommand() does with the length of each of its reads.
Received(r, place) ==
    CASE r.len = "data"  -> place
      [] r.len = "abort" -> "crashed"
      [] OTHER           -> "end"

\* Mutant: the vol branch reads the number without having sent its "ok".
CommandPlaceNoOk(text) ==
    CASE text = "end"  -> "bye"
      [] text \in {"play", "next", "prev"} -> text
      [] text = "vol"  -> "getNum"
      [] OTHER         -> "unknown"

\* Mutant: "end" closes the connection without the "bye".
CommandPlaceNoBye(text) ==
    CASE text = "end"  -> "close"
      [] text \in {"play", "next", "prev"} -> text
      [] text = "vol"  -> "okVol"
      [] OTHER         -> "unknown"

\* The top of processCommand().  It asks for decryption whenever the server was
\* started with --encrypt; receive() does it only once there is a crypto object.
CommandPlace(text) ==
    CASE text = "end"  -> "bye"
      [] text \in {"play", "next", "prev"} -> text
      [] text = "vol"  -> "okVol"
      [] OTHER         -> "unknown"

GetCommand ==
    /\ sPc = "getCmd"
    /\ \E rd \in Reads(c2s, cGone, IF sUseEnc /\ sEnc THEN "server" ELSE "none") :
          /\ c2s' = rd.left
          /\ sPc' = Received(rd.res, CommandPlace(rd.res.text))
    /\ UNCHANGED <<s2c, sUseEnc, sEnc, sRemoteKey, sSeg, sNum, sI, sArg, applied, pressed, asleep>>

Pressed(works) == IF works THEN [pressed EXCEPT ![sPc] = @ + 1] ELSE pressed

\* Mutant: whether the key was pressed is not looked at.
PressKeyAlwaysOk ==
    /\ sPc \in MediaKeys
    /\ \E works \in MediaKeyWorks : pressed' = Pressed(works)
    /\ sPc' = CASE sPc = "play" -> "okPlay"
                 [] sPc = "next" -> "okNext"
                 [] sPc = "prev" -> "okPrev"
    /\ UNCHANGED <<c2s, s2c, sUseEnc, sEnc, sRemoteKey, sSeg, sNum, sI, sArg, applied, asleep>>

\* sendMediaKey() and the choice of the reply.
PressKey ==
    /\ sPc \in MediaKeys
    /\ \E works \in MediaKeyWorks :
          /\ pressed' = Pressed(works)
          /\ sPc' = IF ~works THEN "noKey"
                    ELSE CASE sPc = "play" -> "okPlay"
                           [] sPc = "next" -> "okNext"
                           [] sPc = "prev" -> "okPrev"
    /\ UNCHANGED <<c2s, s2c, sUseEnc, sEnc, sRemoteKey, sSeg, sNum, sI, sArg, applied, asleep>>

\* The key a command's later reads use.
SessionKey == IF sEnc THEN "server" ELSE "none"

\* num_channels is what atoi() makes of the text: the number it begins with.
GetNum ==
    /\ sPc = "getNum"
    /\ \E rd \in Reads(c2s, cGone, SessionKey) :
          /\ c2s' = rd.left
          /\ sNum' = IF rd.res.head = "num" THEN rd.res.arg ELSE 0
          /\ sI' = 0
          /\ sPc' = Received(rd.res, "okNum")
    /\ UNCHANGED <<s2c, sUseEnc, sEnc, sRemoteKey, sSeg, sArg, applied, pressed, asleep>>

LoopTest ==
    /\ sPc = "loop"
    /\ sPc' = IF sI < sNum THEN "getArg" ELSE "getCmd"
    /\ UNCHANGED <<c2s, s2c, sUseEnc, sEnc, sRemoteKey, sSeg, sNum, sI, sArg, applied, pressed, asleep>>

\* Mutant: it does not look for them.
ParsesAll(head) == head # "garbage"

\* parseVolCommand() finds an '=' and a ',', also with something glued behind.
\* No client writes an argument behind a write that was not read.
Parses(head) == head = "arg"

\* A turn of the loop: any text is taken for an argument, and one that does not
\* parse (PARSE_ERROR) is answered "err" and counted.
GetArg ==
    /\ sPc = "getArg"
    /\ \E rd \in Reads(c2s, cGone, SessionKey) :
          /\ c2s' = rd.left
          /\ sArg' = rd.res.arg
          /\ sI' = sI + 1
          /\ sPc' = Received(rd.res, IF Parses(rd.res.head) THEN "setVolume" ELSE "errArg")
    /\ UNCHANGED <<s2c, sUseEnc, sEnc, sRemoteKey, sSeg, sNum, applied, pressed, asleep>>

\* Mutant: the status of amixer is not looked at.
SetVolumeAlwaysOk ==
    /\ sPc = "setVolume"
    /\ applied' \in {Append(applied, sArg), applied}
    /\ sPc' = "okArg"
    /\ UNCHANGED <<c2s, s2c, sUseEnc, sEnc, sRemoteKey, sSeg, sNum, sI, sArg, pressed, asleep>>

(***************************************************************************)
(* changeVolume().  amixer sets the volume or fails; waitpid() returns its *)
(* status unless the SIGCHLD handler has reaped it first, which reads as a *)
(* failure.  When execlp() fails the copy returns FAILURE in the place of  *)
(* its parent, and serves on from there.                                   *)
(***************************************************************************)
SetVolume ==
    /\ sPc = "setVolume"
    /\ \/ applied' = Append(applied, sArg) /\ sPc' \in {"okArg", "errArg"} /\ asleep' = asleep
       \/ applied' = applied /\ sPc' = "errArg" /\ asleep' = asleep
       \/ /\ ExecFails
          /\ applied' = applied /\ sPc' = "errArg"
          /\ asleep' = Append(asleep, [num |-> sNum, i |-> sI])
    /\ UNCHANGED <<c2s, s2c, sUseEnc, sEnc, sRemoteKey, sSeg, sNum, sI, sArg, pressed>>

(***************************************************************************)
(* A copy that served has exited with 0, whatever it did, and the process  *)
(* that waits for it takes that for the status of amixer; so it does the   *)
(* signal that ended a copy, or the -1 of a copy the handler has reaped.   *)
(* It answers the argument its copy has answered before.                   *)
(***************************************************************************)
Wakes ==
    /\ sPc \in ServerDone /\ asleep # <<>>
    /\ sPc' \in (IF sPc = "closed" THEN {"okArg", "errArg"} ELSE {"errArg"})
    /\ sNum' = asleep[Len(asleep)].num
    /\ sI' = asleep[Len(asleep)].i
    /\ asleep' = SubSeq(asleep, 1, Len(asleep) - 1)
    /\ UNCHANGED <<c2s, s2c, sUseEnc, sEnc, sRemoteKey, sSeg, sArg, applied, pressed>>

\* client.close() and exit().
CloseClient ==
    /\ sPc = "close"
    /\ sPc' = "closed"
    /\ UNCHANGED <<c2s, s2c, sUseEnc, sEnc, sRemoteKey, sSeg, sNum, sI, sArg, applied, pressed, asleep>>

ServerStep ==
    /\ \/ SendReply \/ SendSegment \/ SegmentCrash
       \/ GetEnc \/ GetPub \/ GetRedy
       \/ GetCommand \/ PressKey
       \/ GetNum \/ LoopTest \/ GetArg \/ SetVolume
       \/ CloseClient \/ Wakes
    /\ UNCHANGED <<cGone, srvUp>>

\* The child has ended, and all that wait for it.
ServerEnded == sPc \in ServerDone /\ asleep = <<>>

(***************************************************************************)
(* SIGTERM or SIGINT to the parent: the handler kills the children and the *)
(* parent exits, so every descriptor of the connection is closed.  What    *)
(* the child had not read is lost.  A SIGTERM does not reach a copy, which *)
(* is in no list: to its client the server then stops when the copy ends.  *)
(***************************************************************************)
ServerShutdown ==
    /\ srvUp
    /\ srvUp' = FALSE
    /\ sPc' = IF sPc \in ServerDone THEN sPc ELSE "dead"
    /\ asleep' = <<>>
    /\ c2s' = <<>>
    /\ UNCHANGED <<s2c, cGone, sUseEnc, sEnc, sRemoteKey, sSeg, sNum, sI, sArg, applied, pressed>>

=============================================================================
