---------------------------- MODULE CommandClient ----------------------------
(***************************************************************************)
(* alsa-client: serverHandshake, sendVolCmd and sendMediaCmd of client.cpp *)
(* and main() around them, from the moment connectToServer() succeeded.    *)
(* One run of the program carries out one command and ends.                *)
(***************************************************************************)
EXTENDS Wire, FiniteSets

CONSTANTS
    NumChannels,  \* the -c / -v pairs on the command line
    TornKeys      \* the server's AES key or IV may hold a zero byte

ASSUME ClientAssumption ==
    /\ NumChannels \in Nat \ {0}
    /\ TornKeys \in BOOLEAN

Commands == {"vol", "play", "next", "prev"}

VARIABLES
    cPc,      \* where the process is
    cUseEnc,  \* --encrypt
    cCmd,     \* the command, or "none"
    cCrypto,  \* crypto # NULL
    cIv,      \* the AES IV in crypto, named as the keys are
    cKey,     \* what crypto seals with: its AES key under its IV
    cSeg,     \* next of the six segments to read, 1..6
    cIntact,  \* the segments of the group so far came one by one, in order
    cI,       \* channels acknowledged or skipped in the vol loop
    cStatus,  \* "run", then what the try block came to
    cAcked    \* history: the channels answered "ok"

clientVars == <<cPc, cUseEnc, cCmd, cCrypto, cIv, cKey, cSeg, cIntact, cI, cStatus, cAcked>>

-----------------------------------------------------------------------------
ClientReads == {"getHelo", "getPub", "getSeg", "getRedy", "getVolOk", "getNumOk",
                "getArgOk", "getMedia", "getBye"}
\* Where it sends in the clear and where it passes useEnc.
PlainSends  == {"encReq", "errPub", "pubKey", "redy"}
SealedSends == {"command", "num", "arg", "bye", "end"}
\* closed: closeConnection() and exit; dead: killed; crashed: its own fault
ClientDone  == {"closed", "dead", "crashed"}
ClientPlaces == ClientReads \cup PlainSends \cup SealedSends \cup ClientDone

ClientTypeOK ==
    /\ cPc \in ClientPlaces
    /\ cUseEnc \in BOOLEAN
    /\ cCmd \in Commands \cup {"none"}
    /\ cCrypto \in BOOLEAN
    /\ cIv \in {"own", "server", "torn"}
    /\ cKey \in {"own", "server", "torn"}
    /\ cSeg \in 1..7
    /\ cIntact \in BOOLEAN
    /\ cI \in 0..NumChannels
    /\ cStatus \in {"run", "success", "failure", "end"}
    /\ cAcked \subseteq 1..NumChannels

ClientInit ==
    /\ cPc = "getHelo"
    /\ cCrypto = FALSE
    /\ cIv = "own"
    /\ cKey = "own"
    /\ cSeg = 1
    /\ cIntact = TRUE
    /\ cI = 0
    /\ cStatus = "run"
    /\ cAcked = {}

\* What the try block of main() came to, and where its end leads: an END sends
\* "bye" first, and every way out sends "end".
Leaves(status) ==
    /\ cStatus' = status
    /\ cPc' = IF status = "end" THEN "bye" ELSE "end"

GoesTo(place) == cPc' = place /\ cStatus' = cStatus

\* A process that ends closes its socket.
ProcessEnds(place) ==
    /\ cPc' = place
    /\ cGone' = TRUE
    /\ s2c' = <<>>

-----------------------------------------------------------------------------
(***************************************************************************)
(* The sends of the handshake, all in the clear.                           *)
(***************************************************************************)
PlainText == [encReq |-> IF cUseEnc THEN "enc" ELSE "noenc",
              errPub |-> "err", pubKey |-> "pubkey", redy |-> "redy"]

\* initCrypto() follows the encryption request.
SendPlain ==
    /\ cPc \in PlainSends
    /\ \E o \in SendOutcomes(HangUp) :
          /\ c2s' = Queued(c2s, Msg(PlainText[cPc], 0, "none"), HangUp, o)
          /\ cCrypto' = (cCrypto \/ (cPc = "encReq" /\ cUseEnc /\ o = "sent"))
          /\ \/ /\ o = "sent" /\ cPc # "errPub"
                /\ GoesTo(CASE cPc = "encReq" -> IF cUseEnc THEN "getPub" ELSE "getRedy"
                            [] cPc = "pubKey" -> "getSeg"
                            [] cPc = "redy"   -> "getRedy")
                /\ UNCHANGED <<s2c, cGone>>
             \/ /\ o = "fail" \/ (o = "sent" /\ cPc = "errPub")
                /\ Leaves("failure")
                /\ UNCHANGED <<s2c, cGone>>
             \/ /\ o = "sigpipe"
                /\ ProcessEnds("dead")
                /\ UNCHANGED cStatus
    /\ UNCHANGED <<cUseEnc, cCmd, cIv, cKey, cSeg, cIntact, cI, cAcked>>

(***************************************************************************)
(* The sends that pass useEnc.  Without a crypto object the text goes out  *)
(* as it is, and then free() is called on the inside of a string, which    *)
(* aborts.                                                                 *)
(***************************************************************************)
SealedMsg ==
    LET key == IF cUseEnc /\ cCrypto THEN cKey ELSE "none" IN
    CASE cPc = "command" -> {Msg(cCmd, 0, key)}
      [] cPc = "num"     -> {Msg("num", NumChannels, key)}
      [] cPc = "arg"     -> {Msg("arg", cI + 1, key), Msg("badarg", cI + 1, key)}
      [] cPc \in {"bye", "end"} -> {Msg(cPc, 0, key)}

\* Mutant: the reply to the number of channels is not waited for.
AfterSendNoWait ==
    [command |-> IF cCmd = "vol" THEN "getVolOk" ELSE "getMedia",
     num |-> "arg", arg |-> "getArgOk", bye |-> "end", end |-> "getBye"]

\* Where a send that went well leads.
AfterSend ==
    [command |-> IF cCmd = "vol" THEN "getVolOk" ELSE "getMedia",
     num |-> "getNumOk", arg |-> "getArgOk", bye |-> "end", end |-> "getBye"]

SendSealed ==
    /\ cPc \in SealedSends
    /\ \E o \in SendOutcomes(HangUp), m \in SealedMsg :
          /\ c2s' = Queued(c2s, m, HangUp, o)
          /\ \/ /\ o = "sigpipe"
                /\ ProcessEnds("dead")
                /\ UNCHANGED cStatus
             \/ /\ o # "sigpipe" /\ cUseEnc /\ ~cCrypto
                /\ ProcessEnds("crashed")
                /\ UNCHANGED cStatus
             \/ /\ o = "fail" /\ (cUseEnc => cCrypto)
                /\ IF cPc \in {"bye", "end"} THEN GoesTo(AfterSend[cPc]) ELSE Leaves("failure")
                /\ UNCHANGED <<s2c, cGone>>
             \/ /\ o = "sent" /\ (cUseEnc => cCrypto)
                /\ GoesTo(AfterSend[cPc])
                /\ UNCHANGED <<s2c, cGone>>
    /\ UNCHANGED <<cUseEnc, cCmd, cCrypto, cIv, cKey, cSeg, cIntact, cI, cAcked>>

-----------------------------------------------------------------------------
\* "helo" or nothing: the test for "end" after it is never reached.
GetHelo ==
    /\ cPc = "getHelo"
    /\ \E rd \in Reads(s2c, HangUp, "none") :
          /\ s2c' = rd.left
          /\ IF rd.res.text = "helo" THEN GoesTo("encReq") ELSE Leaves("failure")
    /\ UNCHANGED <<c2s, cGone, cUseEnc, cCmd, cCrypto, cIv, cKey, cSeg, cIntact, cI, cAcked>>

\* receiveRemotePubKey().  Its END is not FAILURE, and any other text is taken.
GetPubKey ==
    /\ cPc = "getPub"
    /\ \E rd \in Reads(s2c, HangUp, "none") :
          /\ s2c' = rd.left
          /\ GoesTo(IF rd.res.len = "fail" \/ rd.res.text = "err" THEN "errPub" ELSE "pubKey")
    /\ UNCHANGED <<c2s, cGone, cUseEnc, cCmd, cCrypto, cIv, cKey, cSeg, cIntact, cI, cAcked>>

\* What setAESIv() or setAESKey() may store: strncpy() stops at a zero byte.
Stored == {"server"} \cup (IF TornKeys THEN {"torn"} ELSE {})

(***************************************************************************)
(* receiveAESIv() and receiveAESKey(): three bare recv()s each.  A group   *)
(* decrypts when each read took exactly the segment it stands for; an      *)
(* error of recv() shows only in that.  End of file returns END, which the *)
(* handshake does not tell from success.                                   *)
(***************************************************************************)
GetSegment ==
    /\ cPc = "getSeg"
    /\ \E rd \in Reads(s2c, HangUp, "none") :
          LET r == rd.res
              intact == cIntact /\ r.text = "seg" /\ r.arg = cSeg
              last == cSeg \in {3, 6} IN
          /\ s2c' = rd.left
          /\ cSeg' = IF r.len # "eof" THEN cSeg + 1 ELSE IF cSeg <= 3 THEN 4 ELSE 7
          /\ cIntact' = (intact \/ last \/ r.len = "eof")
          /\ \/ /\ last /\ r.len # "eof" /\ ~intact
                /\ Leaves("failure")
                /\ UNCHANGED <<cIv, cKey>>
             \/ /\ last /\ intact
                /\ GoesTo(IF cSeg = 6 THEN "redy" ELSE "getSeg")
                /\ \E stored \in Stored :
                      /\ cIv'  = IF cSeg = 3 THEN stored ELSE cIv
                      /\ cKey' = CASE cSeg = 3                      -> cKey
                                   [] cSeg = 6 /\ cIv = "server"    -> stored
                                   [] cSeg = 6 /\ cIv # "server"    -> "torn"
             \/ /\ r.len = "eof" \/ ~last
                /\ GoesTo(IF r.len = "eof" /\ cSeg > 3 THEN "redy" ELSE "getSeg")
                /\ UNCHANGED <<cIv, cKey>>
    /\ UNCHANGED <<c2s, cGone, cUseEnc, cCmd, cCrypto, cI, cAcked>>

\* The key the rest of the conversation is read under.
ClientKey == IF cUseEnc /\ cCrypto THEN cKey ELSE "none"

\* The string of NULL in receive() throws past every handler of main().
ReplyAborts ==
    /\ cPc \in {"getRedy", "getVolOk", "getNumOk", "getArgOk", "getMedia", "getBye"}
    /\ \E rd \in Reads(s2c, HangUp, ClientKey) : rd.res.len = "abort"
    /\ ProcessEnds("crashed")
    /\ UNCHANGED <<c2s, cUseEnc, cCmd, cCrypto, cIv, cKey, cSeg, cIntact, cI, cStatus, cAcked>>

\* A reply that receive() did return.
Takes(rd) == rd.res.len # "abort" /\ s2c' = rd.left

\* Mutant: only "end" is refused.
ConfirmsNotEnd(text) == text # "end"

\* The confirmation that completes the handshake.
Confirms(text) == text = "redy"

GetRedyBack ==
    /\ cPc = "getRedy"
    /\ \E rd \in Reads(s2c, HangUp, ClientKey) :
          LET r == rd.res IN
          /\ Takes(rd)
          /\ CASE Confirms(r.text) /\ cCmd # "none" -> GoesTo("command")
               [] Confirms(r.text) /\ cCmd = "none" -> Leaves("success")
               [] r.text = "end"                    -> Leaves("end")
               [] OTHER                             -> Leaves("failure")
    /\ UNCHANGED <<c2s, cGone, cUseEnc, cCmd, cCrypto, cIv, cKey, cSeg, cIntact, cI, cAcked>>

-----------------------------------------------------------------------------
\* Mutant: "err" is for one channel only and the command goes on.
EndsCommandNotErr(r) == r.len # "data" \/ r.text = "end"

\* The replies that end a command, and what the command then returns.
EndsCommand(r) == r.len # "data" \/ r.text \in {"err", "end"}
CommandStatus(r) == IF r.len = "eof" \/ r.text = "end" THEN "end" ELSE "failure"

\* sendVolCmd(): the replies to "vol" and to the number of channels.
GetVolOk ==
    /\ cPc \in {"getVolOk", "getNumOk"}
    /\ \E rd \in Reads(s2c, HangUp, ClientKey) :
          LET r == rd.res IN
          /\ Takes(rd)
          /\ IF r.text = "ok"
             THEN GoesTo(IF cPc = "getVolOk" THEN "num" ELSE "arg")
             ELSE Leaves(CommandStatus(r))
    /\ UNCHANGED <<c2s, cGone, cUseEnc, cCmd, cCrypto, cIv, cKey, cSeg, cIntact, cI, cAcked>>

\* Mutant: one turn too many.
MoreChannelsOneTooMany == cI < NumChannels

\* The test of its loop, after channel cI + 1.
MoreChannels == cI + 1 < NumChannels

\* A turn of its loop.  Text that is none of the replies counts for one: the
\* loop goes on to the next channel.
GetArgOk ==
    /\ cPc = "getArgOk"
    /\ \E rd \in Reads(s2c, HangUp, ClientKey) :
          LET r == rd.res IN
          /\ Takes(rd)
          /\ IF EndsCommand(r)
             THEN Leaves(CommandStatus(r)) /\ UNCHANGED <<cI, cAcked>>
             ELSE /\ cI' = cI + 1
                  /\ cAcked' = IF r.text = "ok" THEN cAcked \cup {cI + 1} ELSE cAcked
                  /\ IF MoreChannels THEN GoesTo("arg") ELSE Leaves("success")
    /\ UNCHANGED <<c2s, cGone, cUseEnc, cCmd, cCrypto, cIv, cKey, cSeg, cIntact>>

\* sendMediaCmd().  The last comparison is the other way round than in
\* sendVolCmd(): "ok" is the unknown response and anything unknown confirms.
MediaStatus(text) == IF text # "ok" THEN "success" ELSE "failure"

GetMedia ==
    /\ cPc = "getMedia"
    /\ \E rd \in Reads(s2c, HangUp, ClientKey) :
          LET r == rd.res IN
          /\ Takes(rd)
          /\ Leaves(IF EndsCommand(r) THEN CommandStatus(r) ELSE MediaStatus(r.text))
    /\ UNCHANGED <<c2s, cGone, cUseEnc, cCmd, cCrypto, cIv, cKey, cSeg, cIntact, cI, cAcked>>

-----------------------------------------------------------------------------
\* The end of main(): one more reply, whatever it is, and closeConnection().
GetBye ==
    /\ cPc = "getBye"
    /\ \E rd \in Reads(s2c, HangUp, ClientKey) : rd.res.len # "abort"
    /\ ProcessEnds("closed")
    /\ UNCHANGED <<c2s, cUseEnc, cCmd, cCrypto, cIv, cKey, cSeg, cIntact, cI, cStatus, cAcked>>

ClientStep ==
    /\ \/ SendPlain \/ SendSealed
       \/ GetHelo \/ GetPubKey \/ GetSegment \/ GetRedyBack \/ ReplyAborts
       \/ GetVolOk \/ GetArgOk \/ GetMedia
       \/ GetBye
    /\ UNCHANGED srvUp

\* The user interrupts the client, or it dies.
ClientKilled ==
    /\ cPc \notin ClientDone
    /\ ProcessEnds("dead")
    /\ UNCHANGED <<c2s, srvUp, cUseEnc, cCmd, cCrypto, cIv, cKey, cSeg, cIntact, cI, cStatus, cAcked>>

=============================================================================
