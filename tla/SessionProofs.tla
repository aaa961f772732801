---------------------------- MODULE SessionProofs ----------------------------
(***************************************************************************)
(* What is proved of Session for every number of channels and every way    *)
(* the two programs can be started.                                        *)
(***************************************************************************)
EXTENDS Session, ServerChildProofs

\* The segment counters stay within the six segments while they are in use.
SegmentsInRange ==
    /\ SegmentsSent
    /\ cPc \in {"getHelo", "encReq", "getPub", "pubKey"} => cSeg = 1
    /\ cPc = "getSeg" => cSeg \in 1..6

\* The loop of sendVolCmd() starts at zero and sends only what there is; a
\* client without a command sends none.
LoopInRange ==
    /\ cPc \in {"getHelo", "encReq", "getPub", "pubKey", "getSeg", "redy", "getRedy",
                "command", "getVolOk", "num", "getNumOk"} => cI = 0
    /\ cPc \in {"arg", "getArgOk"} => cI < NumChannels
    /\ cPc = "command" => cCmd \in Commands

TypeInv == TypeOK /\ SegmentsInRange /\ LoopInRange

-----------------------------------------------------------------------------
LEMMA TypeIsChild == TypeInv => ChildInv
BY DEF TypeInv, TypeOK, SegmentsInRange, SegmentsSent, ChildInv

LEMMA InitTypes == Init => TypeInv
<1> SUFFICES ASSUME Init PROVE TypeInv
  OBVIOUS
<1>1. PICK config \in Configs :
         sUseEnc = config.server /\ cUseEnc = config.client /\ cCmd = config.cmd
  BY DEF Init
<1>2. sUseEnc \in BOOLEAN /\ cUseEnc \in BOOLEAN /\ cCmd \in Commands \cup {"none"}
  <2>1. config \in [server : BOOLEAN, client : BOOLEAN, cmd : Commands \cup {"none"}]
    BY ConfigAssumption
  <2>2. /\ config.server \in BOOLEAN /\ config.client \in BOOLEAN
        /\ config.cmd \in Commands \cup {"none"}
    BY <2>1
  <2> QED  BY <1>1, <2>2
<1>3. WireTypeOK
  <2>1. <<>> \in Seq(Message)
    OBVIOUS
  <2> QED  BY <2>1 DEF Init, WireInit, WireTypeOK
<1>4. /\ sPc = "helo" /\ sEnc = FALSE /\ sRemoteKey = FALSE /\ sSeg = 1
      /\ sNum = 0 /\ sI = 0 /\ sArg = 0 /\ asleep = <<>> /\ applied = <<>>
      /\ pressed = [key \in MediaKeys |-> 0]
  BY DEF Init, ServerInit
<1>5. ServerTypeOK
  <2>1. <<>> \in Seq(Nat) /\ <<>> \in Seq([num : Nat, i : Nat])
    OBVIOUS
  <2>2. sPc \in ServerPlaces
    BY <1>4, SendTable DEF ServerPlaces
  <2>3. sSeg \in 1..7 /\ sNum \in Nat /\ sI \in Nat /\ sArg \in Nat /\ pressed \in [MediaKeys -> Nat]
    BY <1>4
  <2>4. sEnc \in BOOLEAN /\ sRemoteKey \in BOOLEAN
    BY <1>4
  <2> QED  BY <1>2, <1>4, <2>1, <2>2, <2>3, <2>4, Zenon DEF ServerTypeOK
<1>6. /\ cPc = "getHelo" /\ cCrypto = FALSE /\ cIv = "own" /\ cKey = "own" /\ cSeg = 1
      /\ cIntact = TRUE /\ cI = 0 /\ cStatus = "run" /\ cAcked = {}
  BY DEF Init, ClientInit
<1>7. ClientTypeOK
  <2>1. cI \in 0..NumChannels /\ cAcked \subseteq 1..NumChannels
    BY <1>6, ClientAssumption
  <2>2. cPc \in ClientPlaces
    BY <1>6 DEF ClientPlaces, ClientReads
  <2>3. cCrypto \in BOOLEAN /\ cIntact \in BOOLEAN
    BY <1>6
  <2>4. /\ cSeg \in 1..7 /\ cStatus \in {"run", "success", "failure", "end"}
        /\ cIv \in {"own", "server", "torn"} /\ cKey \in {"own", "server", "torn"}
    BY <1>6
  <2> QED  BY <1>2, <2>1, <2>2, <2>3, <2>4, Zenon DEF ClientTypeOK
<1>8. SegmentsInRange /\ LoopInRange
  BY <1>4, <1>6 DEF SegmentsInRange, SegmentsSent, LoopInRange
<1> QED  BY <1>3, <1>5, <1>7, <1>8 DEF TypeInv, TypeOK

(***************************************************************************)
(* Every step of the server keeps the types and the counters in range.     *)
(***************************************************************************)
LEMMA ServerKeepsTypes ==
    TypeInv /\ ServerStep /\ UNCHANGED clientVars => TypeInv'
<1> SUFFICES ASSUME TypeInv, ServerStep, UNCHANGED clientVars PROVE TypeInv'
  OBVIOUS
<1>1. ChildInv'
  BY TypeIsChild, ChildKeepsTypes
<1>2. ClientTypeOK' /\ LoopInRange' /\ UNCHANGED <<cPc, cSeg>>
  BY DEF TypeInv, TypeOK, clientVars, ClientTypeOK, LoopInRange
<1> QED  BY <1>1, <1>2 DEF TypeInv, TypeOK, SegmentsInRange, SegmentsSent, ChildInv

(***************************************************************************)
(* Every step of the client keeps the types and the counters in range.     *)
(***************************************************************************)
LEMMA ClientKeepsTypes ==
    TypeInv /\ ClientStep /\ UNCHANGED serverVars => TypeInv'
<1> SUFFICES ASSUME TypeInv, ClientStep, UNCHANGED serverVars PROVE TypeInv'
  OBVIOUS
<1> USE DEF TypeInv, TypeOK
<1>1. /\ ServerTypeOK' /\ srvUp' \in BOOLEAN /\ HangUp \in BOOLEAN
      /\ UNCHANGED <<sPc, sSeg>>
  BY DEF serverVars, ClientStep, ServerTypeOK, WireTypeOK, HangUp
<1>2. SUFFICES /\ c2s' \in Seq(Message) /\ s2c' \in Seq(Message) /\ cGone' \in BOOLEAN
               /\ ClientTypeOK'
               /\ cPc' \in {"getHelo", "encReq", "getPub", "pubKey"} => cSeg' = 1
               /\ cPc' = "getSeg" => cSeg' \in 1..6
               /\ LoopInRange'
  BY <1>1 DEF WireTypeOK, SegmentsInRange, SegmentsSent
<1>3. /\ c2s \in Seq(Message) /\ s2c \in Seq(Message) /\ cGone \in BOOLEAN
      /\ <<>> \in Seq(Message) /\ NumChannels \in Nat \ {0}
  BY ClientAssumption DEF WireTypeOK
<1>4. CASE SendPlain
  <2>1. PICK o \in SendOutcomes(HangUp) :
           /\ c2s' = Queued(c2s, Msg(PlainText[cPc], 0, "none"), HangUp, o)
           /\ cCrypto' = (cCrypto \/ (cPc = "encReq" /\ cUseEnc /\ o = "sent"))
           /\ \/ /\ o = "sent" /\ cPc # "errPub"
                 /\ GoesTo(CASE cPc = "encReq" -> IF cUseEnc THEN "getPub" ELSE "getRedy"
                             [] cPc = "pubKey" -> "getSeg"
                             [] cPc = "redy"   -> "getRedy")
                 /\ UNCHANGED <<s2c, cGone>>
              \/ /\ o = "fail" \/ (o = "sent" /\ cPc = "errPub")
                 /\ Leaves("failure")
                 /\ UNCHANGED <<s2c, cGone>>
              \/ /\ o = "sigpipe"
                 /\ ProcessEnds("dead")
                 /\ UNCHANGED cStatus
    BY <1>4 DEF SendPlain
  <2>2. /\ cPc \in {"encReq", "errPub", "pubKey", "redy"}
        /\ UNCHANGED <<cUseEnc, cCmd, cIv, cKey, cSeg, cIntact, cI, cAcked>>
    BY <1>4 DEF SendPlain, PlainSends
  <2>3. PlainText[cPc] \in Texts
    BY <2>2 DEF PlainText, Texts
  <2>4. c2s' \in Seq(Message)
    BY <1>1, <1>3, <2>1, <2>3, MessageTyped, QueuedMessages DEF Keys
  <2>5. /\ cPc' \in {"getPub", "getRedy", "getSeg", "end", "dead"}
        /\ cPc' = "getPub" => cPc = "encReq"
        /\ cPc' = "getSeg" => cPc = "pubKey"
        /\ cPc' = "getRedy" => cPc \in {"encReq", "redy"}
        /\ s2c' \in {s2c, <<>>} /\ cGone' \in {cGone, TRUE}
        /\ cStatus' \in {cStatus, "failure"}
    BY <2>1, <2>2 DEF GoesTo, Leaves, ProcessEnds
  <2>6. cCrypto' \in BOOLEAN
    BY <2>1, Zenon
  <2>7. cPc' \in ClientPlaces
    BY <2>5 DEF ClientPlaces, ClientReads, SealedSends, ClientDone
  <2>8. ClientTypeOK'
    BY <2>2, <2>5, <2>6, <2>7 DEF ClientTypeOK
  <2>9. s2c' \in Seq(Message) /\ cGone' \in BOOLEAN
    BY <1>3, <2>5
  <2>10. /\ cPc' \in {"getHelo", "encReq", "getPub", "pubKey"} => cSeg' = 1
         /\ cPc' = "getSeg" => cSeg' \in 1..6
    BY <2>2, <2>5 DEF SegmentsInRange, SegmentsSent
  <2>11. LoopInRange'
    BY <2>2, <2>5 DEF LoopInRange
  <2> QED  BY <2>4, <2>8, <2>9, <2>10, <2>11
<1>5. CASE SendSealed
  <2>1. PICK o \in SendOutcomes(HangUp), m \in SealedMsg :
           /\ c2s' = Queued(c2s, m, HangUp, o)
           /\ \/ /\ o = "sigpipe"
                 /\ ProcessEnds("dead")
                 /\ UNCHANGED cStatus
              \/ /\ o # "sigpipe" /\ cUseEnc /\ ~cCrypto
                 /\ ProcessEnds("crashed")
                 /\ UNCHANGED cStatus
              \/ /\ o = "fail" /\ (cUseEnc => cCrypto)
                 /\ IF cPc \in {"bye", "end"} THEN GoesTo(AfterSend[cPc]) ELSE Leaves("failure")
                 /\ UNCHANGED <<s2c, cGone>>
              \/ /\ o = "sent" /\ (cUseEnc => cCrypto)
                 /\ GoesTo(AfterSend[cPc])
                 /\ UNCHANGED <<s2c, cGone>>
    BY <1>5 DEF SendSealed
  <2>2. /\ cPc \in {"command", "num", "arg", "bye", "end"}
        /\ UNCHANGED <<cUseEnc, cCmd, cCrypto, cIv, cKey, cSeg, cIntact, cI, cAcked>>
    BY <1>5 DEF SendSealed, SealedSends
  <2>3. m \in Message
    <3>1. (IF cUseEnc /\ cCrypto THEN cKey ELSE "none") \in Keys
      <4>1. cKey \in Keys /\ "none" \in Keys
        BY DEF ClientTypeOK, Keys
      <4> QED  BY <4>1
    <3>2. cI + 1 \in Nat /\ NumChannels \in Nat /\ 0 \in Nat
      BY <1>3 DEF ClientTypeOK
    <3>3. cPc = "command" => cCmd \in Texts
      BY DEF LoopInRange, Commands, Texts
    <3>4. {"num", "arg", "badarg", "bye", "end"} \subseteq Texts
      BY DEF Texts
    <3> DEFINE k == IF cUseEnc /\ cCrypto THEN cKey ELSE "none"
    <3>5. /\ cPc = "command" => m = Msg(cCmd, 0, k)
          /\ cPc = "num" => m = Msg("num", NumChannels, k)
          /\ cPc = "arg" => m \in {Msg("arg", cI + 1, k), Msg("badarg", cI + 1, k)}
          /\ cPc \in {"bye", "end"} => m = Msg(cPc, 0, k)
      BY <2>1 DEF SealedMsg
    <3> HIDE DEF k
    <3>6. k \in Keys
      BY <3>1 DEF k
    <3> QED  BY <2>2, <3>2, <3>3, <3>4, <3>5, <3>6, MessageTyped
  <2>4. c2s' \in Seq(Message)
    BY <1>1, <1>3, <2>1, <2>3, QueuedMessages
  <2>5. /\ cPc' \in {"getVolOk", "getMedia", "getNumOk", "getArgOk", "end", "getBye", "dead", "crashed"}
        /\ cPc' = "getVolOk" => cPc = "command"
        /\ cPc' = "getNumOk" => cPc = "num"
        /\ cPc' = "getArgOk" => cPc = "arg"
        /\ s2c' \in {s2c, <<>>} /\ cGone' \in {cGone, TRUE}
        /\ cStatus' \in {cStatus, "failure"}
    <3>1. cPc' \in {AfterSend[cPc], "end", "dead", "crashed"}
      BY <2>1 DEF GoesTo, Leaves, ProcessEnds
    <3>2. s2c' \in {s2c, <<>>} /\ cGone' \in {cGone, TRUE} /\ cStatus' \in {cStatus, "failure"}
      BY <2>1 DEF GoesTo, Leaves, ProcessEnds
    <3>3. /\ AfterSend[cPc] \in {"getVolOk", "getMedia", "getNumOk", "getArgOk", "end", "getBye"}
          /\ AfterSend[cPc] = "getVolOk" => cPc = "command"
          /\ AfterSend[cPc] = "getNumOk" => cPc = "num"
          /\ AfterSend[cPc] = "getArgOk" => cPc = "arg"
      BY <2>2 DEF AfterSend
    <3> QED  BY <3>1, <3>2, <3>3
  <2>6. cPc' \in ClientPlaces
    BY <2>5 DEF ClientPlaces, ClientReads, SealedSends, ClientDone
  <2>7. ClientTypeOK'
    <3>1. cStatus' \in {"run", "success", "failure", "end"}
      BY <2>5 DEF ClientTypeOK
    <3> QED  BY <2>2, <2>6, <3>1, Zenon DEF ClientTypeOK
  <2> QED  BY <1>3, <2>2, <2>4, <2>5, <2>7 DEF SegmentsInRange, SegmentsSent, LoopInRange
<1>6. ASSUME NEW key, NEW rd \in Reads(s2c, HangUp, key)
      PROVE  rd.left \in Seq(Message)
  BY <1>1, <1>3, <1>6, ReadsResult
<1>7. CASE GetHelo
  <2>1. /\ s2c' \in Seq(Message)
        /\ cPc = "getHelo" /\ cPc' \in {"encReq", "end"} /\ cStatus' \in {cStatus, "failure"}
        /\ UNCHANGED <<c2s, cGone, cUseEnc, cCmd, cCrypto, cIv, cKey, cSeg, cIntact, cI, cAcked>>
    BY <1>6, <1>7 DEF GetHelo, GoesTo, Leaves
  <2>2. ClientTypeOK'
    BY <2>1 DEF ClientTypeOK, ClientPlaces, PlainSends, SealedSends
  <2> QED  BY <1>3, <2>1, <2>2 DEF SegmentsInRange, SegmentsSent, LoopInRange
<1>8. CASE GetPubKey
  <2>1. /\ s2c' \in Seq(Message)
        /\ cPc = "getPub" /\ cPc' \in {"errPub", "pubKey"} /\ cStatus' = cStatus
        /\ UNCHANGED <<c2s, cGone, cUseEnc, cCmd, cCrypto, cIv, cKey, cSeg, cIntact, cI, cAcked>>
    BY <1>6, <1>8 DEF GetPubKey, GoesTo
  <2>2. ClientTypeOK'
    BY <2>1 DEF ClientTypeOK, ClientPlaces, PlainSends
  <2> QED  BY <1>3, <2>1, <2>2 DEF SegmentsInRange, SegmentsSent, LoopInRange
<1>9. CASE GetSegment
  <2>1. /\ s2c' \in Seq(Message)
        /\ cPc = "getSeg" /\ cSeg \in 1..6
        /\ UNCHANGED <<c2s, cGone, cUseEnc, cCmd, cCrypto, cI, cAcked>>
    BY <1>6, <1>9 DEF GetSegment, SegmentsInRange, SegmentsSent
  <2>2. /\ cPc' \in {"end", "redy", "getSeg"}
        /\ cStatus' \in {cStatus, "failure"}
        /\ cIv' \in {cIv, "server", "torn"} /\ cKey' \in {cKey, "server", "torn"}
        /\ cIntact' \in BOOLEAN /\ cSeg' \in 1..7
        /\ cPc' = "getSeg" => cSeg' \in 1..6
    BY <1>9, <2>1 DEF GetSegment, GoesTo, Leaves, Stored
  <2>3. ClientTypeOK'
    BY <2>1, <2>2 DEF ClientTypeOK, ClientPlaces, PlainSends, ClientReads, SealedSends
  <2> QED  BY <1>3, <2>1, <2>2, <2>3 DEF LoopInRange
<1>10. CASE GetRedyBack
  <2>1. /\ s2c' \in Seq(Message)
        /\ cPc = "getRedy" /\ cPc' \in {"command", "bye", "end"}
        /\ cStatus' \in {cStatus, "success", "end", "failure"}
        /\ cPc' = "command" => cCmd # "none"
        /\ UNCHANGED <<c2s, cGone, cUseEnc, cCmd, cCrypto, cIv, cKey, cSeg, cIntact, cI, cAcked>>
    BY <1>6, <1>10 DEF GetRedyBack, GoesTo, Leaves, Takes
  <2>2. ClientTypeOK'
    BY <2>1 DEF ClientTypeOK, ClientPlaces, SealedSends
  <2> QED  BY <1>3, <2>1, <2>2 DEF LoopInRange, ClientTypeOK
<1>11. CASE ReplyAborts
  <2>1. /\ s2c' = <<>> /\ cGone' = TRUE /\ cPc' = "crashed"
        /\ UNCHANGED <<c2s, cUseEnc, cCmd, cCrypto, cIv, cKey, cSeg, cIntact, cI, cStatus, cAcked>>
    BY <1>11 DEF ReplyAborts, ProcessEnds
  <2>2. ClientTypeOK'
    BY <2>1 DEF ClientTypeOK, ClientPlaces, ClientDone
  <2> QED  BY <1>3, <2>1, <2>2 DEF LoopInRange
<1>12. CASE GetVolOk
  <2>1. /\ s2c' \in Seq(Message)
        /\ cPc \in {"getVolOk", "getNumOk"} /\ cPc' \in {"num", "arg", "bye", "end"}
        /\ cStatus' \in {cStatus, "end", "failure"}
        /\ UNCHANGED <<c2s, cGone, cUseEnc, cCmd, cCrypto, cIv, cKey, cSeg, cIntact, cI, cAcked>>
    BY <1>6, <1>12 DEF GetVolOk, GoesTo, Leaves, Takes, CommandStatus
  <2>2. ClientTypeOK'
    BY <2>1 DEF ClientTypeOK, ClientPlaces, SealedSends
  <2> QED  BY <1>3, <2>1, <2>2 DEF LoopInRange
<1>13. CASE GetArgOk
  <2>1. /\ s2c' \in Seq(Message)
        /\ cPc = "getArgOk" /\ cPc' \in {"arg", "bye", "end"}
        /\ cStatus' \in {cStatus, "success", "end", "failure"}
        /\ cI' \in {cI, cI + 1} /\ cAcked' \in {cAcked, cAcked \cup {cI + 1}}
        /\ cPc' = "arg" => cI' = cI + 1 /\ cI + 1 < NumChannels
        /\ UNCHANGED <<c2s, cGone, cUseEnc, cCmd, cCrypto, cIv, cKey, cSeg, cIntact>>
    BY <1>6, <1>13 DEF GetArgOk, GoesTo, Leaves, Takes, CommandStatus, MoreChannels
  <2>2. cI \in Nat /\ cI < NumChannels
    BY <1>3, <2>1 DEF LoopInRange, ClientTypeOK
  <2>3. cI' \in 0..NumChannels /\ cAcked' \subseteq 1..NumChannels
    BY <1>3, <2>1, <2>2 DEF ClientTypeOK
  <2>4. ClientTypeOK'
    BY <2>1, <2>3 DEF ClientTypeOK, ClientPlaces, SealedSends
  <2> QED  BY <1>3, <2>1, <2>2, <2>4 DEF LoopInRange
<1>14. CASE GetMedia
  <2>1. /\ s2c' \in Seq(Message)
        /\ cPc' \in {"bye", "end"} /\ cStatus' \in {"success", "end", "failure"}
        /\ UNCHANGED <<c2s, cGone, cUseEnc, cCmd, cCrypto, cIv, cKey, cSeg, cIntact, cI, cAcked>>
    BY <1>6, <1>14 DEF GetMedia, Leaves, Takes, CommandStatus, MediaStatus
  <2>2. ClientTypeOK'
    BY <2>1 DEF ClientTypeOK, ClientPlaces, SealedSends
  <2> QED  BY <1>3, <2>1, <2>2 DEF LoopInRange
<1>15. CASE GetBye
  <2>1. /\ s2c' = <<>> /\ cGone' = TRUE /\ cPc' = "closed"
        /\ UNCHANGED <<c2s, cUseEnc, cCmd, cCrypto, cIv, cKey, cSeg, cIntact, cI, cStatus, cAcked>>
    BY <1>15 DEF GetBye, ProcessEnds
  <2>2. ClientTypeOK'
    BY <2>1 DEF ClientTypeOK, ClientPlaces, ClientDone
  <2> QED  BY <1>3, <2>1, <2>2 DEF LoopInRange
<1> QED
  BY <1>4, <1>5, <1>7, <1>8, <1>9, <1>10, <1>11, <1>12, <1>13, <1>14, <1>15 DEF ClientStep

(***************************************************************************)
(* So do the stop of the server, the death of the client, and stuttering.  *)
(***************************************************************************)
LEMMA NextKeepsTypes == TypeInv /\ [Next]_vars => TypeInv'
<1> SUFFICES ASSUME TypeInv, [Next]_vars PROVE TypeInv'
  OBVIOUS
<1>1. CASE ServerActs
  BY <1>1, ServerKeepsTypes DEF ServerActs
<1>2. CASE ClientActs
  BY <1>2, ClientKeepsTypes DEF ClientActs
<1>3. CASE ServerShutdown /\ UNCHANGED clientVars
  <2>1. /\ c2s' = <<>> /\ srvUp' = FALSE /\ sPc' \in {"closed", "crashed", "dead"}
        /\ asleep' = <<>>
        /\ UNCHANGED <<s2c, cGone, sUseEnc, sEnc, sRemoteKey, sSeg, sNum, sI, sArg, applied, pressed>>
    <3>1. sPc' = IF sPc \in ServerDone THEN sPc ELSE "dead"
      BY <1>3 DEF ServerShutdown
    <3>2. sPc' \in {"closed", "crashed", "dead"}
      BY <3>1 DEF ServerDone
    <3> QED  BY <1>3, <3>2 DEF ServerShutdown
  <2>2. WireTypeOK' /\ ServerTypeOK'
    <3>1. c2s' \in Seq(Message) /\ srvUp' \in BOOLEAN
      <4>1. <<>> \in Seq(Message)
        OBVIOUS
      <4> QED  BY <2>1, <4>1, Zenon
    <3>2. WireTypeOK'
      BY <2>1, <3>1 DEF TypeInv, TypeOK, WireTypeOK
    <3>3. sPc' \in ServerPlaces
      <4>1. {"closed", "crashed", "dead"} \subseteq ServerPlaces
        BY DEF ServerPlaces, ServerDone
      <4> QED  BY <2>1, <4>1
    <3>4. asleep' \in Seq([num : Nat, i : Nat])
      <4>1. <<>> \in Seq([num : Nat, i : Nat])
        OBVIOUS
      <4> QED  BY <2>1, <4>1, Zenon
    <3>5. ServerTypeOK'
      BY <2>1, <3>3, <3>4, Zenon DEF TypeInv, TypeOK, ServerTypeOK
    <3> QED  BY <3>2, <3>5
  <2>3. ClientTypeOK' /\ LoopInRange' /\ UNCHANGED <<cPc, cSeg>>
    BY <1>3 DEF TypeInv, TypeOK, clientVars, ClientTypeOK, LoopInRange
  <2> QED  BY <2>1, <2>2, <2>3 DEF TypeInv, TypeOK, SegmentsInRange, SegmentsSent
<1>4. CASE ClientKilled /\ UNCHANGED serverVars
  <2>1. /\ s2c' = <<>> /\ cGone' = TRUE /\ cPc' = "dead"
        /\ UNCHANGED <<c2s, srvUp, cUseEnc, cCmd, cCrypto, cIv, cKey, cSeg, cIntact, cI, cStatus, cAcked>>
    BY <1>4 DEF ClientKilled, ProcessEnds
  <2>2. WireTypeOK' /\ ClientTypeOK' /\ LoopInRange'
    BY <2>1 DEF TypeInv, TypeOK, WireTypeOK, ClientTypeOK, ClientPlaces, ClientDone, LoopInRange
  <2>3. ServerTypeOK' /\ UNCHANGED <<sPc, sSeg>>
    BY <1>4 DEF TypeInv, TypeOK, serverVars, ServerTypeOK
  <2> QED  BY <2>1, <2>2, <2>3 DEF TypeInv, TypeOK, SegmentsInRange, SegmentsSent
<1>5. CASE UNCHANGED vars
  BY <1>5 DEF vars, wireVars, serverVars, clientVars, TypeInv, TypeOK, WireTypeOK, ServerTypeOK,
              ClientTypeOK, SegmentsInRange, SegmentsSent, LoopInRange
<1> QED  BY <1>1, <1>2, <1>3, <1>4, <1>5 DEF Next

(***************************************************************************)
(* Type correctness: in every reachable state of a session, whatever fails *)
(* or stops, each counter of the two programs is in its range (no seventh  *)
(* segment, no channel past the last), each program is at one of its       *)
(* places, and only messages of the protocol are on the wire.              *)
(***************************************************************************)
THEOREM TypeCorrect == Spec => []TypeOK
<1>1. TypeInv => TypeOK
  BY DEF TypeInv
<1> QED  BY <1>1, InitTypes, NextKeepsTypes, PTL DEF Spec

-----------------------------------------------------------------------------
(***************************************************************************)
(* Why no command goes through half-keyed.  What the client reads in       *)
(* answer to its own "redy" is the server's, sealed as the child decided   *)
(* when it read the client's request, a decision it does not take back.    *)
(***************************************************************************)
BeforeDecision == {"helo", "getEnc"}

\* What is on its way to the client is clear or under the server's key; the
\* latter only once the child encrypts, and then every "redy" is.
RedySealed ==
    \A j \in 1..Len(s2c) :
       /\ s2c[j].key \in {"none", "server"}
       /\ s2c[j].key = "server" => sEnc
       /\ s2c[j].text = "redy" => /\ s2c[j].key = (IF sEnc THEN "server" ELSE "none")
                                  /\ sPc \notin BeforeDecision

\* Only the answer to helo turns encryption on in the child.
Undecided == sPc \in BeforeDecision => ~sEnc

\* A client that asked to encrypt has its crypto object from then on.
CryptoReady ==
    cUseEnc /\ cPc \in {"getPub", "pubKey", "getSeg", "redy", "getRedy"} \cup CommandPhase
        => cCrypto

Decided == cPc \in CommandPhase => sPc \notin BeforeDecision

KeyInv == RedySealed /\ Undecided /\ CryptoReady /\ Decided /\ KeysAgree

LEMMA InitKeys == Init => KeyInv
<1> SUFFICES ASSUME Init PROVE KeyInv
  OBVIOUS
<1>1. s2c = <<>> /\ ~sEnc /\ cPc = "getHelo"
  BY DEF Init, WireInit, ServerInit, ClientInit
<1>2. RedySealed
  BY <1>1 DEF RedySealed
<1> QED
  BY <1>1, <1>2 DEF KeyInv, Undecided, CryptoReady, Decided, KeysAgree, CommandPhase

(***************************************************************************)
(* Every step of the child keeps what the client relies on.                *)
(***************************************************************************)
LEMMA ServerKeepsKeys ==
    TypeInv /\ KeyInv /\ ServerStep /\ UNCHANGED clientVars => KeyInv'
<1> SUFFICES ASSUME TypeInv, KeyInv, ServerStep, UNCHANGED clientVars PROVE KeyInv'
  OBVIOUS
<1>1. s2c \in Seq(Message) /\ cGone \in BOOLEAN
  BY DEF TypeInv, TypeOK, WireTypeOK
<1>2. UNCHANGED <<cPc, cUseEnc, cCrypto, cKey>>
  BY DEF clientVars
<1>3. CryptoReady'
  BY <1>2 DEF KeyInv, CryptoReady
<1>4. ASSUME sPc' \notin BeforeDecision \/ sPc \in BeforeDecision, sEnc' = sEnc
      PROVE  Undecided' /\ Decided' /\ KeysAgree'
  BY <1>2, <1>4 DEF KeyInv, Undecided, Decided, KeysAgree
<1>5. CASE SendReply
  <2> DEFINE send == ServerSends[sPc]
             m == Msg(send.text, 0, IF send.seal /\ sEnc THEN "server" ELSE "none")
  <2>1. PICK o \in SendOutcomes(cGone) :
           /\ s2c' = Queued(s2c, m, cGone, o)
           /\ sPc' \in CASE o = "sent"    -> {send.ok}
                         [] o = "fail"    -> send.bad
                         [] o = "sigpipe" -> {"dead"}
    BY <1>5 DEF SendReply
  <2>2. sPc \in SendPlaces /\ sEnc' = sEnc
    BY <1>5 DEF SendReply
  <2>3. sPc' \in {send.ok} \cup send.bad \cup {"dead"}
    BY <2>1 DEF SendOutcomes
  <2>4. sPc' \in BeforeDecision => sPc \in BeforeDecision
    BY <2>2, <2>3, SendTable DEF BeforeDecision, ServerReads
  <2>5. /\ m.key \in {"none", "server"}
        /\ m.key = "server" => sEnc
        /\ m.text = "redy" => m.key = (IF sEnc THEN "server" ELSE "none") /\ sPc = "redy"
    BY <2>2, SendTable DEF Msg
  <2>6. m \in Message
    BY <2>2, SendTable, MessageTyped DEF Keys
  <2> HIDE DEF m
  <2>7. \A j \in 1..Len(s2c') : s2c'[j] = m \/ (j \in 1..Len(s2c) /\ s2c'[j] = s2c[j])
    BY <1>1, <2>1, <2>6, QueuedMessages
  <2>8. sPc = "redy" => sPc' \notin BeforeDecision
    BY <2>4 DEF BeforeDecision
  <2>9. RedySealed'
    BY <2>2, <2>4, <2>5, <2>7, <2>8 DEF KeyInv, RedySealed
  <2> QED  BY <1>3, <1>4, <2>2, <2>4, <2>9 DEF KeyInv
<1>6. CASE SendSegment
  <2>1. PICK o \in SendOutcomes(cGone) : s2c' = Queued(s2c, Msg("seg", sSeg, "none"), cGone, o)
    BY <1>6 DEF SendSegment
  <2>2. /\ sPc' \notin BeforeDecision /\ sPc \notin BeforeDecision
        /\ sEnc' = sEnc
    BY <1>6 DEF SendSegment, BeforeDecision
  <2>3. Msg("seg", sSeg, "none") \in Message
    BY <1>6, MessageTyped DEF SendSegment, TypeInv, SegmentsInRange, SegmentsSent, Keys, Texts
  <2>4. \A j \in 1..Len(s2c') : \/ s2c'[j] = Msg("seg", sSeg, "none")
                                \/ j \in 1..Len(s2c) /\ s2c'[j] = s2c[j]
    BY <1>1, <2>1, <2>3, QueuedMessages
  <2>5. Msg("seg", sSeg, "none").key = "none" /\ Msg("seg", sSeg, "none").text = "seg"
    BY DEF Msg
  <2>6. RedySealed'
    BY <2>2, <2>4, <2>5 DEF KeyInv, RedySealed
  <2> QED  BY <1>3, <1>4, <2>2, <2>6 DEF KeyInv
<1>7. CASE GetEnc
  <2>1. s2c' = s2c /\ sPc = "getEnc" /\ sPc' \in {"pubKey", "refuse", "redy", "end"}
    BY <1>7 DEF GetEnc
  <2>2. ~sEnc /\ cPc \notin CommandPhase
    BY <2>1 DEF KeyInv, Undecided, Decided, BeforeDecision
  <2>3. \A j \in 1..Len(s2c) : s2c[j].key = "none" /\ s2c[j].text # "redy"
    BY <2>1, <2>2 DEF KeyInv, RedySealed, BeforeDecision
  <2>4. RedySealed'
    BY <2>1, <2>3 DEF RedySealed
  <2>5. Undecided' /\ Decided' /\ KeysAgree'
    BY <1>2, <2>1, <2>2 DEF Undecided, Decided, KeysAgree, BeforeDecision
  <2> QED  BY <1>3, <2>4, <2>5 DEF KeyInv
<1>8. CASE SegmentCrash \/ GetPub \/ GetRedy \/ GetCommand \/ PressKey \/ GetNum \/ LoopTest
           \/ GetArg \/ SetVolume \/ CloseClient \/ Wakes
  <2>1. /\ s2c' = s2c /\ sEnc' = sEnc
        /\ sPc \notin BeforeDecision /\ sPc' \notin BeforeDecision
    BY <1>8 DEF SegmentCrash, GetPub, GetRedy, GetCommand, PressKey, MediaKeys, GetNum, LoopTest, GetArg,
                SetVolume, CloseClient, Wakes, ServerDone, Received, CommandPlace, BeforeDecision
  <2>2. RedySealed'
    BY <2>1 DEF KeyInv, RedySealed
  <2> QED  BY <1>3, <1>4, <2>1, <2>2 DEF KeyInv
<1> QED  BY <1>5, <1>6, <1>7, <1>8 DEF ServerStep

(***************************************************************************)
(* A step of the client puts nothing on the stream it reads.               *)
(***************************************************************************)
LEMMA ClientOnlyTakes ==
    ASSUME TypeInv, ClientStep
    PROVE  \A j \in 1..Len(s2c') : \E i \in 1..Len(s2c) : s2c'[j] = s2c[i]
<1>1. s2c \in Seq(Message) /\ HangUp \in BOOLEAN
  BY DEF TypeInv, TypeOK, WireTypeOK, HangUp
<1>2. CASE s2c' = s2c
  BY <1>2
<1>3. CASE s2c' = <<>>
  BY <1>3
<1>4. CASE \E key : \E rd \in Reads(s2c, HangUp, key) : s2c' = rd.left
  <2>1. PICK key : \E rd \in Reads(s2c, HangUp, key) : s2c' = rd.left
    BY <1>4
  <2>2. PICK rd \in Reads(s2c, HangUp, key) : s2c' = rd.left
    BY <2>1
  <2> QED  BY <1>1, <2>2, ReadsResult
<1>5. CASE SendPlain \/ SendSealed \/ ReplyAborts \/ GetBye
  BY <1>2, <1>3, <1>5 DEF SendPlain, SendSealed, ReplyAborts, GetBye, ProcessEnds
<1>6. CASE GetHelo \/ GetPubKey \/ GetSegment
  BY <1>4, <1>6 DEF GetHelo, GetPubKey, GetSegment
<1>7. CASE GetRedyBack \/ GetVolOk \/ GetArgOk \/ GetMedia
  BY <1>4, <1>7 DEF GetRedyBack, GetVolOk, GetArgOk, GetMedia, Takes
<1> QED  BY <1>5, <1>6, <1>7 DEF ClientStep

(***************************************************************************)
(* Every step of the client keeps them.                                    *)
(***************************************************************************)
LEMMA ClientKeepsKeys ==
    TypeInv /\ KeyInv /\ ClientStep /\ UNCHANGED serverVars => KeyInv'
<1> SUFFICES ASSUME TypeInv, KeyInv, ClientStep, UNCHANGED serverVars PROVE KeyInv'
  OBVIOUS
<1> DEFINE KeyedPlaces == {"getPub", "pubKey", "getSeg", "redy", "getRedy"} \cup CommandPhase
<1>1. UNCHANGED <<sPc, sEnc>>
  BY DEF serverVars
<1>2. RedySealed' /\ Undecided'
  BY <1>1, ClientOnlyTakes DEF KeyInv, RedySealed, Undecided
<1>3. s2c \in Seq(Message) /\ HangUp \in BOOLEAN /\ cKey \in {"own", "server", "torn"}
  BY DEF TypeInv, TypeOK, WireTypeOK, ClientTypeOK, HangUp
<1>4. ASSUME cPc' \in CommandPhase => cPc \in CommandPhase /\ UNCHANGED <<cKey, cCrypto>>,
             cPc' \in KeyedPlaces => cPc \in KeyedPlaces /\ cCrypto' = cCrypto,
             cUseEnc' = cUseEnc
      PROVE  KeyInv'
  BY <1>1, <1>2, <1>4 DEF KeyInv, CryptoReady, Decided, KeysAgree
<1>5. CASE SendPlain
  <2>1. CASE cPc = "encReq"
    <3>1. /\ cPc' \in KeyedPlaces /\ cUseEnc => cCrypto'
          /\ cPc' \notin CommandPhase /\ cUseEnc' = cUseEnc
      BY <1>5, <2>1 DEF SendPlain, GoesTo, Leaves, ProcessEnds, CommandPhase
    <3> QED  BY <1>1, <1>2, <3>1 DEF KeyInv, CryptoReady, Decided, KeysAgree
  <2>2. CASE cPc # "encReq"
    <3>1. cPc \in {"errPub", "pubKey", "redy"} /\ cUseEnc' = cUseEnc
      BY <1>5, <2>2 DEF SendPlain, PlainSends
    <3>2. cCrypto' = cCrypto
      BY <1>5, <2>2 DEF SendPlain, TypeInv, TypeOK, ClientTypeOK
    <3>3. cPc' \in {"getSeg", "getRedy", "end", "dead"} /\ (cPc = "errPub" => cPc' \in {"end", "dead"})
      BY <1>5, <3>1 DEF SendPlain, SendOutcomes, GoesTo, Leaves, ProcessEnds
    <3> QED  BY <1>4, <3>1, <3>2, <3>3 DEF CommandPhase
  <2> QED  BY <2>1, <2>2
<1>6. CASE SendSealed
  <2>1. /\ cPc \in {"command", "num", "arg", "bye", "end"}
        /\ UNCHANGED <<cUseEnc, cCrypto, cKey>>
    BY <1>6 DEF SendSealed, SealedSends
  <2>2. cPc' \in {AfterSend[cPc], "end", "dead", "crashed"}
    BY <1>6 DEF SendSealed, GoesTo, Leaves, ProcessEnds
  <2>3. cPc' \in CommandPhase => cPc \in CommandPhase
    BY <2>1, <2>2 DEF AfterSend, CommandPhase
  <2>4. cPc' \in KeyedPlaces => cPc \in KeyedPlaces
    BY <2>1, <2>2 DEF AfterSend, CommandPhase
  <2> QED  BY <1>4, <2>1, <2>3, <2>4
<1>7. CASE GetHelo \/ GetPubKey
  <2>1. /\ UNCHANGED <<cUseEnc, cCrypto, cKey>>
        /\ \/ cPc' \in {"encReq", "end", "errPub"}
           \/ cPc' = "pubKey" /\ cPc = "getPub"
    BY <1>7 DEF GetHelo, GetPubKey, GoesTo, Leaves
  <2> QED  BY <1>4, <2>1 DEF CommandPhase
<1>8. CASE GetSegment
  <2>1. /\ UNCHANGED <<cUseEnc, cCrypto>>
        /\ cPc = "getSeg" /\ cPc' \in {"getSeg", "redy", "end"}
    BY <1>8 DEF GetSegment, GoesTo, Leaves
  <2> QED  BY <1>4, <2>1 DEF CommandPhase
<1>9. CASE GetRedyBack
  <2>1. PICK rd \in Reads(s2c, HangUp, ClientKey) :
           cPc' = "command" => rd.res.text = "redy"
    BY <1>9 DEF GetRedyBack, Confirms, GoesTo, Leaves
  <2>2. /\ UNCHANGED <<cUseEnc, cCrypto, cKey>>
        /\ cPc = "getRedy" /\ cPc' \in {"command", "bye", "end"}
    BY <1>9 DEF GetRedyBack, GoesTo, Leaves
  <2>3. CryptoReady'
    BY <2>2 DEF KeyInv, CryptoReady, CommandPhase
  <2>4. CASE cPc' = "command"
    <3>1. rd.res.text # "garbage" /\ s2c # <<>> /\ s2c[1].text = "redy" /\ s2c[1].key = ClientKey
      BY <1>3, <2>1, <2>4, ReadsResult
    <3>2. /\ s2c[1].key \in {"none", "server"}
          /\ s2c[1].key = (IF sEnc THEN "server" ELSE "none")
          /\ sPc \notin BeforeDecision
      BY <1>3, <3>1 DEF KeyInv, RedySealed
    <3>3. cUseEnc => cCrypto
      BY <2>2 DEF KeyInv, CryptoReady
    <3>4. CASE cUseEnc
      <4>1. ClientKey = cKey
        BY <3>3, <3>4 DEF ClientKey
      <4> QED  BY <1>1, <1>2, <1>3, <2>2, <2>3, <3>1, <3>2, <3>3, <3>4, <4>1
                  DEF KeyInv, Decided, KeysAgree, TypeInv, TypeOK, ServerTypeOK, ClientTypeOK
    <3>5. CASE ~cUseEnc
      <4>1. ClientKey = "none" /\ ~sEnc
        BY <3>1, <3>2, <3>5 DEF ClientKey
      <4> QED  BY <1>1, <1>2, <2>2, <2>3, <3>2, <3>5, <4>1
                  DEF KeyInv, Decided, KeysAgree, TypeInv, TypeOK, ServerTypeOK, ClientTypeOK
    <3> QED  BY <3>4, <3>5
  <2>5. CASE cPc' # "command"
    BY <1>2, <2>2, <2>3, <2>5 DEF KeyInv, Decided, KeysAgree, CommandPhase
  <2> QED  BY <2>4, <2>5
<1>10. CASE GetVolOk \/ GetArgOk \/ GetMedia
  <2>1. /\ UNCHANGED <<cUseEnc, cCrypto, cKey>>
        /\ cPc \in CommandPhase
    BY <1>10 DEF GetVolOk, GetArgOk, GetMedia, CommandPhase
  <2> QED  BY <1>4, <2>1
<1>11. CASE ReplyAborts \/ GetBye
  <2>1. UNCHANGED <<cUseEnc, cCrypto, cKey>> /\ cPc' \in {"crashed", "closed"}
    BY <1>11 DEF ReplyAborts, GetBye, ProcessEnds
  <2> QED  BY <1>4, <2>1 DEF CommandPhase
<1> QED
  BY <1>5, <1>6, <1>7, <1>8, <1>9, <1>10, <1>11 DEF ClientStep

LEMMA NextKeepsKeys == TypeInv /\ KeyInv /\ [Next]_vars => KeyInv'
<1> SUFFICES ASSUME TypeInv, KeyInv, [Next]_vars PROVE KeyInv'
  OBVIOUS
<1>1. CASE ServerActs
  BY <1>1, ServerKeepsKeys DEF ServerActs
<1>2. CASE ClientActs
  BY <1>2, ClientKeepsKeys DEF ClientActs
<1>3. CASE ServerShutdown /\ UNCHANGED clientVars
  <2>1. /\ UNCHANGED <<s2c, sEnc, cPc, cUseEnc, cCrypto, cKey>>
        /\ sPc' = IF sPc \in ServerDone THEN sPc ELSE "dead"
    BY <1>3 DEF ServerShutdown, clientVars
  <2>2. sPc' \notin BeforeDecision
    BY <2>1 DEF ServerDone, BeforeDecision
  <2> QED
    BY <2>1, <2>2 DEF KeyInv, RedySealed, Undecided, CryptoReady, Decided, KeysAgree
<1>4. CASE ClientKilled /\ UNCHANGED serverVars
  <2>1. /\ UNCHANGED <<sPc, sEnc, cUseEnc, cCrypto, cKey>>
        /\ s2c' = <<>> /\ cPc' = "dead"
    BY <1>4 DEF ClientKilled, ProcessEnds, serverVars
  <2> QED
    BY <2>1 DEF KeyInv, RedySealed, Undecided, CryptoReady, Decided, KeysAgree, CommandPhase
<1>5. CASE UNCHANGED vars
  BY <1>5 DEF vars, wireVars, serverVars, clientVars, KeyInv, RedySealed, Undecided, CryptoReady,
              Decided, KeysAgree
<1> QED  BY <1>1, <1>2, <1>3, <1>4, <1>5 DEF Next

(***************************************************************************)
(* No command goes through half-keyed: a client that sends commands and    *)
(* the child that reads them agree whether to encrypt, and then the client *)
(* seals with the server's key, whichever segments of the exchange of      *)
(* clientHandshake() and serverHandshake() were lost, glued or torn.       *)
(***************************************************************************)
THEOREM KeysAgreement == Spec => []KeysAgree
<1>1. KeyInv => KeysAgree
  BY DEF KeyInv
<1>2. Spec => [](TypeInv /\ KeyInv)
  BY InitTypes, InitKeys, NextKeepsTypes, NextKeepsKeys, PTL DEF Spec
<1> QED  BY <1>1, <1>2, PTL

=============================================================================
