--------------------------- MODULE LockStepProofs ---------------------------
(***************************************************************************)
(* Request and reply move in lock step: why what the client counts as set  *)
(* has been set, why the child touches the mixer only when it was just     *)
(* asked to, and why a session is a VolumeRequest.                         *)
(*                                                                         *)
(* The child's place is known only while its server has not been stopped.  *)
(***************************************************************************)
EXTENDS SessionProofs

-----------------------------------------------------------------------------
\* A child that refused to encrypt has closed, or is about to.
GaveUp == {"close", "closed"}

\* The segments on the wire are the last of those sent.
Segments ==
    /\ Len(s2c) < sSeg
    /\ \A j \in 1..Len(s2c) : s2c[j].text = "seg" /\ s2c[j].arg = sSeg - Len(s2c) + j - 1

HandshakeStep ==
    /\ cPc = "getHelo" => Works({"helo"}) \/ Answered({"helo"}, "none", {"getEnc"}) \/ Lost
    /\ cPc = "encReq"  => Turn({"getEnc"})
    /\ cPc = "getPub"  => \/ Asked({"enc"}, "none", {"getEnc"})
                          \/ Works({"pubKey", "refuse"})
                          \/ Answered({"pubkey"}, "none", {"getPub"})
                          \/ Answered({"err"}, "none", {"end"})
                          \/ /\ c2s = <<>> /\ Len(s2c) = 2
                             /\ s2c[1].text = "err" /\ s2c[1].key = "none"
                             /\ srvUp => sPc \in GaveUp
                          \/ Lost
    /\ cPc = "pubKey"  => Turn({"getPub"} \cup GaveUp)
    /\ cPc = "getSeg"  => \/ Asked({"pubkey"}, "none", {"getPub"} \cup GaveUp)
                          \/ c2s = <<>> /\ Segments /\ (srvUp => sPc \in {"segment", "getRedy"})
                          \/ Lost
    /\ cPc = "getSeg" /\ sPc = "segment" => sRemoteKey
    /\ cPc = "redy"    => Turn({"getRedy"})
    /\ cPc = "getRedy" => \/ Asked({"noenc"}, "none", {"getEnc"})
                          \/ Asked({"redy"}, "none", {"getRedy"})
                          \/ Works({"redy"})
                          \/ Answered({"redy"}, SessionKey, {"getCmd"})
                          \/ Lost

Announced == sNum = NumChannels
InLoop == {"loop", "getArg"}

\* The argument is answered; the loop may have been left after the last.
Replied(texts) ==
    /\ Answered(texts, SessionKey, InLoop \cup {"getCmd"})
    /\ srvUp /\ sPc = "getCmd" => sI = NumChannels

\* The same for a volume command; media commands have no second request.
CommandStep ==
    /\ cPc = "command"  => Turn({"getCmd"})
    /\ cPc = "getVolOk" => \/ Asked({"vol"}, SessionKey, {"getCmd"})
                           \/ Works({"okVol"})
                           \/ Answered({"ok"}, SessionKey, {"getNum"})
                           \/ Lost
    /\ cPc = "num"      => Turn({"getNum"})
    /\ cPc = "getNumOk" => \/ Asked({"num"}, SessionKey, {"getNum"}) /\ c2s[1].arg = NumChannels
                           \/ /\ Announced /\ sI = 0
                              /\ \/ Works({"okNum"})
                                 \/ Answered({"ok"}, SessionKey, InLoop)
                           \/ Lost
    /\ cPc = "arg"      => Turn(InLoop) /\ (srvUp => Announced /\ sI = cI)
    /\ cPc = "getArgOk" => \/ /\ Asked({"arg", "badarg"}, SessionKey, InLoop)
                              /\ Announced /\ sI = cI /\ c2s[1].arg = cI + 1
                              /\ Len(applied) = cI /\ asleep = <<>>
                           \/ /\ Announced /\ sI = cI + 1
                              /\ \/ /\ Works({"setVolume"}) /\ asleep = <<>>
                                    /\ sArg = cI + 1 /\ Len(applied) = cI
                                 \/ Works({"okArg"}) /\ Len(applied) = cI + 1 /\ asleep = <<>>
                                 \/ Works({"errArg"})
                                 \/ Replied({"ok"}) /\ Len(applied) = cI + 1 /\ asleep = <<>>
                                 \/ Replied({"err"})
                           \/ Lost

\* A process sleeps behind the one that serves only once an argument failed,
\* and a client that is told so asks for nothing more.
Sleepers ==
    asleep # <<>> => cPc \in {"getArgOk", "bye", "end", "getBye"} \cup ClientDone

\* No volume is asked for: not yet, or not any more.
NotAsked == sPc # "setVolume" /\ \A j \in 1..Len(c2s) : c2s[j].text # "arg"

\* A volume the child has yet to read, or to set, is the next one.
NextOnly == cAcked = 1..Len(applied) /\ Len(applied) < NumChannels

Pending ==
    /\ \A j \in 1..Len(c2s) : c2s[j].text = "arg" =>
          NextOnly /\ Len(c2s) = 1 /\ c2s[j].arg = Len(applied) + 1 /\ sPc # "setVolume"
    /\ sPc = "setVolume" => NextOnly /\ sArg = Len(applied) + 1

MixerInStep ==
    /\ \A k \in 1..Len(applied) : applied[k] = k
    /\ cAcked = 1..Len(applied) \/ cAcked = 1..(Len(applied) - 1)
    /\ cPc \in {"arg", "getArgOk"} => cAcked = 1..cI
    /\ cPc \in {"getHelo", "encReq", "getPub", "errPub", "pubKey", "getSeg", "redy", "getRedy",
                "command", "getVolOk", "num", "getNumOk"} => applied = <<>> /\ cAcked = {}
    /\ cPc = "arg" => Len(applied) = cI
    /\ cPc \notin {"getArgOk"} \cup ClientDone => NotAsked

LinkInv ==
    /\ cGone <=> cPc \in ClientDone
    /\ ~srvUp => c2s = <<>> /\ asleep = <<>> /\ sPc \in ServerDone
    /\ sEnc => sUseEnc

LockStep == LinkInv /\ HandshakeStep /\ CommandStep /\ Sleepers /\ Pending /\ MixerInStep

-----------------------------------------------------------------------------
(***************************************************************************)
(* Only a child whose server is there takes a step, and while its client   *)
(* is in step with it, none that sleeps behind it does.                    *)
(***************************************************************************)
LEMMA ChildRuns ==
    ASSUME LinkInv, ServerStep
    PROVE  /\ srvUp /\ UNCHANGED <<srvUp, cGone, sUseEnc>>
           /\ asleep = <<>> => sPc \notin ServerDone
BY ChildSteps DEF LinkInv

LEMMA ChildServes ==
    ASSUME LinkInv, CommandStep, Sleepers, ServerStep,
           cPc \notin {"bye", "end", "getBye"} \cup ClientDone
    PROVE  sPc \notin ServerDone
<1>1. CASE asleep = <<>>
  BY <1>1, ChildRuns
<1>2. CASE asleep # <<>>
  <2>1. srvUp /\ cPc = "getArgOk"
    BY <1>2, ChildRuns DEF Sleepers
  <2> QED
    BY <2>1 DEF CommandStep, Asked, Works, Replied, Answered, Lost, InLoop, ServerDone
<1> QED  BY <1>1, <1>2

(***************************************************************************)
(* The child sets only a volume that is asked for, and the next one.       *)
(***************************************************************************)
LEMMA ChildKeepsMixer ==
    ASSUME TypeInv, LockStep, ServerStep, UNCHANGED clientVars
    PROVE  Pending' /\ MixerInStep'
<1>1. /\ UNCHANGED <<cPc, cI, cAcked>>
      /\ c2s \in Seq(Message) /\ cGone \in BOOLEAN
      /\ applied \in Seq(Nat)
  BY DEF clientVars, TypeInv, TypeOK, WireTypeOK, ServerTypeOK
<1>2. ASSUME NEW j \in 1..Len(c2s'), c2s'[j].text = "arg", c2s' # c2s
      PROVE  FALSE
  <2>1. PICK key : \E rd \in Reads(c2s, cGone, key) : c2s' = rd.left
    BY <1>2, ChildEffects
  <2>2. PICK rd \in Reads(c2s, cGone, key) : c2s' = rd.left
    BY <2>1
  <2>3. PICK i \in 1..Len(c2s) : c2s'[j] = c2s[i]
    BY <1>1, <1>2, <2>2, ReadsResult
  <2>4. Len(c2s) = 1
    BY <1>2, <2>3 DEF LockStep, Pending
  <2>5. c2s' = <<>>
    BY <1>1, <2>2, <2>4, ReadsOne
  <2>6. Len(c2s') = 0
    BY <2>5
  <2> QED  BY <1>2, <2>6
<1>3. ASSUME sPc' = "setVolume"
      PROVE  /\ c2s # <<>> /\ c2s[1].text = "arg" /\ 1 \in 1..Len(c2s)
             /\ NextOnly /\ sArg' = Len(applied) + 1 /\ applied' = applied
             /\ c2s' = <<>>
  <2>1. PICK rd \in Reads(c2s, cGone, SessionKey) :
           c2s' = rd.left /\ rd.res.head = "arg" /\ sArg' = rd.res.arg
    BY <1>3, ChildEffects
  <2>2. c2s # <<>> /\ c2s[1].text = "arg" /\ c2s[1].key = SessionKey
    BY <1>1, <2>1, ReadsResult
  <2>3. 1 \in 1..Len(c2s)
    BY <1>1, <2>2, EmptySeq
  <2>4. NextOnly /\ Len(c2s) = 1 /\ c2s[1].arg = Len(applied) + 1
    BY <2>2, <2>3 DEF LockStep, Pending
  <2>5. rd.res.arg = c2s[1].arg /\ rd.left = <<>>
    BY <1>1, <2>2, <2>4, ReadsOne
  <2> QED  BY <1>3, <2>1, <2>2, <2>3, <2>4, <2>5, ChildEffects
<1>4. ASSUME applied' # applied
      PROVE  /\ sPc = "setVolume" /\ NextOnly /\ applied' = Append(applied, Len(applied) + 1)
             /\ \A j \in 1..Len(c2s) : c2s[j].text # "arg"
  <2>1. sPc = "setVolume" /\ applied' = Append(applied, sArg)
    BY <1>4, ChildEffects
  <2> QED  BY <2>1 DEF LockStep, Pending
<1>5. NotAsked => NotAsked' /\ applied' = applied
  <2> SUFFICES ASSUME NotAsked PROVE NotAsked' /\ applied' = applied
    OBVIOUS
  <2>1. applied' = applied
    BY <1>4 DEF NotAsked
  <2>2. sPc' # "setVolume"
    BY <1>3 DEF NotAsked
  <2> QED  BY <1>2, <2>1, <2>2 DEF NotAsked
<1>6. Pending'
  <2>1. ASSUME NEW j \in 1..Len(c2s'), c2s'[j].text = "arg"
        PROVE  (NextOnly /\ Len(c2s) = 1 /\ c2s[j].arg = Len(applied) + 1 /\ sPc # "setVolume")'
    <3>1. c2s' = c2s
      BY <1>2, <2>1
    <3>2. NextOnly /\ Len(c2s) = 1 /\ c2s[j].arg = Len(applied) + 1 /\ sPc # "setVolume"
      BY <2>1, <3>1 DEF LockStep, Pending
    <3>3. applied' = applied
      BY <1>4, <3>2
    <3>4. sPc' # "setVolume"
      <4>1. c2s' = <<>> => Len(c2s') = 0
        OBVIOUS
      <4> QED  BY <1>3, <2>1, <4>1
    <3> QED  BY <1>1, <3>1, <3>2, <3>3, <3>4 DEF NextOnly
  <2>2. sPc' = "setVolume" => (NextOnly /\ sArg = Len(applied) + 1)'
    BY <1>1, <1>3 DEF NextOnly
  <2> QED  BY <2>1, <2>2 DEF Pending
<1>7. MixerInStep'
  <2>1. CASE applied' = applied
    BY <1>1, <1>5, <2>1 DEF LockStep, MixerInStep
  <2>2. CASE applied' # applied
    <3>1. /\ sPc = "setVolume" /\ NextOnly
          /\ applied' = Append(applied, Len(applied) + 1)
      BY <1>4, <2>2
    <3>2. /\ Len(applied') = Len(applied) + 1
          /\ \A k \in 1..Len(applied) : applied'[k] = applied[k]
          /\ applied'[Len(applied) + 1] = Len(applied) + 1
      BY <1>1, <3>1
    <3>3. \A k \in 1..Len(applied') : applied'[k] = k
      BY <1>1, <3>2 DEF LockStep, MixerInStep
    <3>4. cAcked' = 1..(Len(applied') - 1)
      BY <1>1, <3>1, <3>2 DEF NextOnly
    <3>5. ~NotAsked
      BY <3>1 DEF NotAsked
    <3>6. cPc \in {"getArgOk"} \cup ClientDone
      BY <3>5 DEF LockStep, MixerInStep
    <3> QED
      BY <1>1, <3>3, <3>4, <3>6 DEF LockStep, MixerInStep, ClientDone
  <2> QED  BY <2>1, <2>2
<1> QED  BY <1>6, <1>7

(***************************************************************************)
(* The child keeps step with a client in the handshake, by the place of    *)
(* the client.                                                             *)
(***************************************************************************)
LEMMA ChildKeepsHandshake ==
    ASSUME TypeInv, LinkInv, HandshakeStep, Sleepers, ServerStep, UNCHANGED clientVars, ~cGone
    PROVE  HandshakeStep'
<1> SUFFICES ASSUME cPc \in {"getHelo", "encReq", "getPub", "pubKey", "getSeg", "redy", "getRedy"}
             PROVE  HandshakeStep'
  BY DEF HandshakeStep, clientVars
<1>0. ChildInv /\ (sEnc => sUseEnc)
  BY TypeIsChild DEF LinkInv
<1> USE <1>0
<1>1. /\ cPc' = cPc /\ srvUp /\ srvUp' = srvUp /\ sPc \notin ServerDone
      /\ c2s \in Seq(Message) /\ s2c \in Seq(Message) /\ cGone = FALSE
  BY ChildRuns DEF clientVars, TypeInv, TypeOK, WireTypeOK, Sleepers, ClientDone
<1>2. /\ Quiet => Len(c2s) = 0
      /\ c2s = <<>> => sPc \notin ServerReads
      /\ \A texts, key, places : Answered(texts, key, places) => sPc \in places \ ServerReads
      /\ \A places : Turn(places) => sPc \in places \ ServerReads
  BY <1>1, ChildWaits DEF Quiet, Answered, Turn
<1>3. sPc = "close" => sPc' = "closed" /\ UNCHANGED <<c2s, s2c>>
  BY ChildActs DEF CloseClient
<1>4. ASSUME cPc = "getHelo"
      PROVE  (Works({"helo"}) \/ Answered({"helo"}, "none", {"getEnc"}) \/ Lost)'
  <2>1. sPc = "helo" /\ Quiet
    BY <1>1, <1>2, <1>4 DEF HandshakeStep, Works, Lost, ServerReads
  <2>2. SendReply
    BY <2>1, ChildActs, SendTable
  <2>3. ServerSends["helo"] = ServerSend("helo", FALSE, "getEnc",  {"end"})
    BY DEF ServerSends
  <2> QED  BY <1>1, <2>1, <2>2, <2>3, ChildReplies DEF Quiet, Answered, On, ServerSend
<1>5. ASSUME cPc = "encReq"
      PROVE  FALSE
  BY <1>2, <1>5 DEF HandshakeStep, ServerReads
<1>6. ASSUME cPc = "getPub"
      PROVE  (\/ Asked({"enc"}, "none", {"getEnc"})
              \/ Works({"pubKey", "refuse"})
              \/ Answered({"pubkey"}, "none", {"getPub"})
              \/ Answered({"err"}, "none", {"end"})
              \/ /\ c2s = <<>> /\ Len(s2c) = 2
                 /\ s2c[1].text = "err" /\ s2c[1].key = "none"
                 /\ srvUp => sPc \in GaveUp
              \/ Lost)'
  <2>1. CASE Asked({"enc"}, "none", {"getEnc"})
    BY <1>1, <2>1, ChildReads DEF Asked, On, Works, Quiet
  <2>2. CASE Works({"pubKey", "refuse"})
    <3>1. SendReply
      BY <2>2, ChildActs, SendTable DEF Works
    <3>2. /\ ServerSends["pubKey"] = ServerSend("pubkey", FALSE, "getPub",  {"end"})
          /\ ServerSends["refuse"] = ServerSend("err",    FALSE, "end",     {"end"})
      BY DEF ServerSends
    <3> QED  BY <1>1, <2>2, <3>1, <3>2, ChildReplies DEF Works, Quiet, Answered, On, ServerSend
  <2>3. CASE Answered({"err"}, "none", {"end"})
    <3>1. SendReply /\ sPc = "end" /\ c2s = <<>> /\ On(s2c, {"err"}, "none")
      BY <1>1, <2>3, ChildActs, SendTable DEF Answered
    <3>2. ServerSends["end"].ok = "close"
      BY DEF ServerSends, ServerSend
    <3> QED  BY <3>1, <3>2, ChildReplies DEF On, GaveUp
  <2>4. CASE /\ c2s = <<>> /\ Len(s2c) = 2
             /\ s2c[1].text = "err" /\ s2c[1].key = "none"
             /\ srvUp => sPc \in GaveUp
    BY <1>1, <1>3, <2>4 DEF GaveUp, ServerDone
  <2> QED  BY <1>1, <1>2, <1>6, <2>1, <2>2, <2>3, <2>4 DEF HandshakeStep, Lost, ServerReads
<1>7. ASSUME cPc = "pubKey"
      PROVE  Turn({"getPub"} \cup GaveUp)'
  BY <1>1, <1>2, <1>3, <1>7 DEF HandshakeStep, Turn, Quiet, GaveUp, ServerReads, ServerDone
<1>8. ASSUME cPc = "getSeg"
      PROVE  (/\ \/ Asked({"pubkey"}, "none", {"getPub"} \cup GaveUp)
                 \/ c2s = <<>> /\ Segments /\ (srvUp => sPc \in {"segment", "getRedy"})
                 \/ Lost
              /\ sPc = "segment" => sRemoteKey)'
  <2>1. CASE Asked({"pubkey"}, "none", {"getPub"} \cup GaveUp)
    <3>1. CASE sPc = "getPub"
      <4>1. c2s' = <<>> /\ s2c' = <<>> /\ sSeg' = sSeg /\ sRemoteKey' /\ sPc' = "segment"
        BY <2>1, <3>1, ChildReads DEF Asked, On
      <4>2. Len(s2c') = 0 /\ sSeg \in 1..7
        BY <4>1 DEF TypeInv, TypeOK, ServerTypeOK
      <4>3. Segments'
        BY <4>1, <4>2 DEF Segments
      <4> QED  BY <4>1, <4>3
    <3>2. CASE sPc \in GaveUp
      BY <1>1, <1>3, <2>1, <3>2 DEF Asked, On, GaveUp, ServerDone
    <3> QED  BY <2>1, <3>1, <3>2 DEF Asked
  <2>2. CASE c2s = <<>> /\ Segments /\ (srvUp => sPc \in {"segment", "getRedy"})
    <3>1. sPc = "segment" /\ sRemoteKey /\ sSeg \in 1..6
      BY <1>1, <1>2, <1>8, <2>2 DEF HandshakeStep, ServerReads, TypeInv, SegmentsInRange, SegmentsSent
    <3>2. SendSegment
      BY <3>1, ChildActs DEF SegmentCrash
    <3>3. /\ s2c' = Queued(s2c, Msg("seg", sSeg, "none"), cGone, "sent")
          /\ sPc' \in {"segment", "getRedy"}
          /\ sSeg' = sSeg + 1 /\ UNCHANGED <<c2s, sRemoteKey>>
      BY <1>1, <3>2 DEF SendSegment, SendOutcomes
    <3>4. s2c' = Append(s2c, Msg("seg", sSeg, "none"))
      BY <1>1, <3>3 DEF Queued
    <3> DEFINE m == Msg("seg", sSeg, "none")
    <3>5. m \in Message /\ m.text = "seg" /\ m.arg = sSeg
      <4>1. m.text = "seg" /\ m.arg = sSeg
        BY DEF Msg
      <4>2. "seg" \in Texts /\ "none" \in Keys /\ sSeg \in Nat
        BY <3>1 DEF Texts, Keys
      <4> QED  BY <4>1, <4>2, MessageTyped
    <3> HIDE DEF m
    <3>6. /\ Len(s2c') = Len(s2c) + 1 /\ s2c'[Len(s2c) + 1] = m
          /\ \A j \in 1..Len(s2c) : s2c'[j] = s2c[j]
      BY <1>1, <3>4, <3>5 DEF m
    <3>7. Segments'
      <4>1. Len(s2c') < sSeg'
        BY <1>1, <2>2, <3>1, <3>3, <3>6 DEF Segments
      <4>2. ASSUME NEW j \in 1..Len(s2c')
            PROVE  s2c'[j].text = "seg" /\ s2c'[j].arg = sSeg' - Len(s2c') + j - 1
        <5>1. CASE j \in 1..Len(s2c)
          <6>1. s2c'[j] = s2c[j] /\ s2c[j].text = "seg" /\ s2c[j].arg = sSeg - Len(s2c) + j - 1
            BY <2>2, <3>6, <5>1 DEF Segments
          <6>2. sSeg' - Len(s2c') = sSeg - Len(s2c)
            BY <1>1, <3>1, <3>3, <3>6
          <6> QED  BY <6>1, <6>2
        <5>2. CASE j = Len(s2c) + 1
          BY <1>1, <3>1, <3>3, <3>5, <3>6, <5>2
        <5> QED  BY <1>1, <3>6, <4>2, <5>1, <5>2
      <4> QED  BY <4>1, <4>2 DEF Segments
    <3> QED  BY <2>2, <3>1, <3>3, <3>7
  <2> QED  BY <1>1, <1>8, <2>1, <2>2 DEF HandshakeStep, Lost
<1>9. ASSUME cPc = "redy"
      PROVE  FALSE
  BY <1>2, <1>9 DEF HandshakeStep, ServerReads
<1>10. ASSUME cPc = "getRedy"
       PROVE  (\/ Asked({"noenc"}, "none", {"getEnc"})
               \/ Asked({"redy"}, "none", {"getRedy"})
               \/ Works({"redy"})
               \/ Answered({"redy"}, SessionKey, {"getCmd"})
               \/ Lost)'
  <2>1. CASE Asked({"noenc"}, "none", {"getEnc"}) \/ Asked({"redy"}, "none", {"getRedy"})
    BY <1>1, <2>1, ChildReads DEF Asked, On, Works, Quiet
  <2>2. CASE Works({"redy"})
    <3>1. SendReply /\ sPc = "redy" /\ Quiet
      BY <2>2, ChildActs, SendTable DEF Works
    <3>2. ServerSends["redy"] = ServerSend("redy",   TRUE,  "getCmd",  {"getCmd", "end"})
      BY DEF ServerSends
    <3> QED  BY <1>1, <3>1, <3>2, ChildReplies DEF Quiet, Answered, On, ServerSend, SessionKey
  <2> QED  BY <1>1, <1>2, <1>10, <2>1, <2>2 DEF HandshakeStep, Lost, ServerReads
<1> QED
  BY <1>1, <1>4, <1>5, <1>6, <1>7, <1>8, <1>9, <1>10 DEF HandshakeStep

(***************************************************************************)
(* The child keeps step with a client that is at its volume command.       *)
(***************************************************************************)
LEMMA ChildKeepsCommand ==
    ASSUME TypeInv, LinkInv, CommandStep, Sleepers, ServerStep, UNCHANGED clientVars, ~cGone
    PROVE  CommandStep'
<1> SUFFICES ASSUME cPc \in {"command", "getVolOk", "num", "getNumOk", "arg", "getArgOk"}
             PROVE  CommandStep'
  BY DEF CommandStep, clientVars
<1>0. ChildInv /\ (sEnc => sUseEnc)
  BY TypeIsChild DEF LinkInv
<1> USE <1>0
<1>1. /\ UNCHANGED <<cPc, cI>> /\ srvUp /\ srvUp' = srvUp /\ sPc \notin ServerDone
      /\ c2s \in Seq(Message) /\ s2c \in Seq(Message) /\ cGone = FALSE
      /\ NumChannels \in Nat \ {0} /\ sI \in Nat /\ cI \in Nat /\ applied \in Seq(Nat)
  BY ChildRuns, ChildServes, ClientAssumption
     DEF clientVars, TypeInv, TypeOK, WireTypeOK, ServerTypeOK, ClientTypeOK, ClientDone
<1>2. /\ c2s = <<>> => sPc \notin ServerReads
      /\ \A texts, key, places : Answered(texts, key, places) => sPc \in places \ ServerReads
      /\ \A places : Turn(places) => sPc \in places \ ServerReads
  BY <1>1, ChildWaits DEF Quiet, Answered, Turn
<1>3. sPc = "loop" => /\ sPc' = IF sI < sNum THEN "getArg" ELSE "getCmd"
                      /\ UNCHANGED <<c2s, s2c, sEnc, sNum, sI, sArg, applied, asleep>>
  BY ChildActs DEF LoopTest
<1>4. /\ ServerSends["okVol"] = ServerSend("ok", TRUE, "getNum", {"end"})
      /\ ServerSends["okNum"] = ServerSend("ok", TRUE, "loop", {"end"})
      /\ ServerSends["okArg"] = ServerSend("ok", TRUE, "loop", {"end"})
      /\ ServerSends["errArg"] = ServerSend("err", TRUE, "loop", {"end"})
      /\ {"okVol", "okNum", "okArg", "errArg"} \subseteq SendPlaces
  BY SendTable DEF ServerSends
\* What a reply of the volume command comes to.
<1>5. ASSUME sPc \in {"okVol", "okNum", "okArg", "errArg"}, Quiet
      PROVE  /\ c2s' = <<>> /\ UNCHANGED <<sEnc, sNum, sI, sArg, applied, asleep>>
             /\ sPc = "okVol" => sPc' = "getNum"
             /\ sPc # "okVol" => sPc' = "loop"
             /\ On(s2c', {IF sPc = "errArg" THEN "err" ELSE "ok"}, SessionKey')
  <2>1. SendReply
    BY <1>4, <1>5, ChildActs
  <2>2. /\ UNCHANGED <<c2s, sEnc, sNum, sI, sArg, applied, asleep>>
        /\ sPc' = ServerSends[sPc].ok
        /\ On(s2c', {ServerSends[sPc].text},
              IF ServerSends[sPc].seal /\ sEnc THEN "server" ELSE "none")
    BY <1>5, <2>1, ChildReplies DEF Quiet
  <2> QED  BY <1>4, <1>5, <2>2 DEF Quiet, ServerSend, On, SessionKey
<1>6. ASSUME cPc = "getVolOk"
      PROVE  (\/ Asked({"vol"}, SessionKey, {"getCmd"})
              \/ Works({"okVol"})
              \/ Answered({"ok"}, SessionKey, {"getNum"})
              \/ Lost)'
  <2>1. CASE Asked({"vol"}, SessionKey, {"getCmd"})
    BY <1>1, <2>1, ChildReads DEF Asked, On, Works, Quiet, CommandPlace
  <2>2. CASE Works({"okVol"})
    BY <1>1, <1>5, <2>2 DEF Works, Answered, On
  <2> QED  BY <1>1, <1>2, <1>6, <2>1, <2>2 DEF CommandStep, Lost, ServerReads
<1>7. ASSUME cPc = "getNumOk"
      PROVE  (\/ Asked({"num"}, SessionKey, {"getNum"}) /\ c2s[1].arg = NumChannels
              \/ /\ Announced /\ sI = 0
                 /\ \/ Works({"okNum"})
                    \/ Answered({"ok"}, SessionKey, InLoop)
              \/ Lost)'
  <2>1. CASE Asked({"num"}, SessionKey, {"getNum"}) /\ c2s[1].arg = NumChannels
    BY <1>1, <2>1, ChildReads DEF Asked, On, Works, Quiet, Announced
  <2>2. CASE Announced /\ sI = 0 /\ Works({"okNum"})
    BY <1>1, <1>5, <2>2 DEF Works, Answered, On, Announced, InLoop
  <2>3. CASE Announced /\ sI = 0 /\ Answered({"ok"}, SessionKey, InLoop)
    <3>1. sPc = "loop"
      BY <1>2, <2>3 DEF InLoop, ServerReads
    <3> QED  BY <1>1, <1>3, <2>3, <3>1 DEF Answered, On, Announced, InLoop, SessionKey
  <2> QED  BY <1>1, <1>7, <2>1, <2>2, <2>3 DEF CommandStep, Lost
<1>8. ASSUME cPc = "arg"
      PROVE  (Turn(InLoop) /\ (srvUp => Announced /\ sI = cI))'
  <2>1. Turn(InLoop) /\ Announced /\ sI = cI /\ sPc = "loop"
    BY <1>1, <1>2, <1>8 DEF CommandStep, InLoop, ServerReads
  <2>2. cI < NumChannels
    BY <1>8 DEF TypeInv, LoopInRange
  <2> QED  BY <1>1, <1>3, <2>1, <2>2 DEF Turn, Quiet, Announced, InLoop
<1>9. ASSUME cPc = "getArgOk"
      PROVE  (\/ /\ Asked({"arg", "badarg"}, SessionKey, InLoop)
                 /\ Announced /\ sI = cI /\ c2s[1].arg = cI + 1
                 /\ Len(applied) = cI /\ asleep = <<>>
              \/ /\ Announced /\ sI = cI + 1
                 /\ \/ /\ Works({"setVolume"}) /\ asleep = <<>>
                       /\ sArg = cI + 1 /\ Len(applied) = cI
                    \/ Works({"okArg"}) /\ Len(applied) = cI + 1 /\ asleep = <<>>
                    \/ Works({"errArg"})
                    \/ Replied({"ok"}) /\ Len(applied) = cI + 1 /\ asleep = <<>>
                    \/ Replied({"err"})
              \/ Lost)'
  <2>1. cI < NumChannels
    BY <1>9 DEF TypeInv, LoopInRange
  <2>2. CASE /\ Asked({"arg", "badarg"}, SessionKey, InLoop)
             /\ Announced /\ sI = cI /\ c2s[1].arg = cI + 1
             /\ Len(applied) = cI /\ asleep = <<>>
    <3>1. CASE sPc = "loop"
      BY <1>1, <1>3, <2>1, <2>2, <3>1 DEF Asked, On, Announced, InLoop, SessionKey
    <3>2. CASE sPc = "getArg"
      <4>1. /\ c2s' = <<>> /\ s2c' = <<>>
            /\ sPc' \in {"setVolume", "errArg"}
            /\ sNum' = sNum /\ sI' = cI + 1 /\ sArg' = cI + 1 /\ applied' = applied
        BY <2>2, <3>2, ChildReads DEF Asked, On
      <4>2. asleep' = <<>>
        BY <2>2, <3>2, ChildEffects DEF ServerDone
      <4> QED  BY <1>1, <2>2, <4>1, <4>2 DEF Works, Quiet, Announced
    <3> QED  BY <2>2, <3>1, <3>2 DEF Asked, InLoop
  <2>3. CASE /\ Announced /\ sI = cI + 1 /\ Works({"setVolume"}) /\ asleep = <<>>
             /\ sArg = cI + 1 /\ Len(applied) = cI
    <3>1. SetVolume
      BY <2>3, ChildActs DEF Works
    <3>2. /\ UNCHANGED <<c2s, s2c, sNum, sI, sArg>>
          /\ \/ sPc' = "errArg"
             \/ sPc' = "okArg" /\ applied' = Append(applied, sArg) /\ asleep' = asleep
      BY <3>1 DEF SetVolume
    <3>3. sPc' = "okArg" => Len(applied') = cI + 1
      BY <1>1, <2>3, <3>2
    <3> QED  BY <1>1, <2>3, <3>2, <3>3 DEF Works, Quiet, Announced
  <2>4. CASE /\ Announced /\ sI = cI + 1 /\ Works({"okArg"}) /\ Len(applied) = cI + 1
             /\ asleep = <<>>
    BY <1>1, <1>5, <2>4 DEF Works, Replied, Answered, On, Announced, InLoop
  <2>5. CASE Announced /\ sI = cI + 1 /\ Works({"errArg"})
    BY <1>1, <1>5, <2>5 DEF Works, Replied, Answered, On, Announced, InLoop
  <2>6. ASSUME NEW texts, Announced, sI = cI + 1, Replied(texts)
        PROVE  /\ Announced' /\ sI' = cI' + 1 /\ applied' = applied /\ asleep' = asleep
               /\ Replied(texts)'
    <3>1. sPc = "loop"
      BY <1>2, <2>6 DEF Replied, InLoop, ServerReads
    <3>2. sPc' = "getCmd" => sI = NumChannels
      BY <1>1, <1>3, <2>1, <2>6, <3>1 DEF Announced
    <3> QED
      BY <1>1, <1>3, <2>6, <3>1, <3>2 DEF Replied, Answered, On, Announced, InLoop, SessionKey
  <2> QED
    BY <1>1, <1>9, <2>2, <2>3, <2>4, <2>5, <2>6 DEF CommandStep, Lost
<1>10. cPc \notin {"command", "num"}
  BY <1>2 DEF CommandStep, ServerReads
<1> QED
  BY <1>1, <1>6, <1>7, <1>8, <1>9, <1>10 DEF CommandStep

LEMMA ChildKeepsStep ==
    ASSUME TypeInv, LockStep, ServerStep, UNCHANGED clientVars
    PROVE  LockStep'
<1>1. LinkInv'
  <2>1. srvUp /\ UNCHANGED <<srvUp, cGone, sUseEnc, cPc>>
    BY ChildRuns DEF LockStep, clientVars
  <2>2. sEnc' => sUseEnc
    BY DEF LockStep, LinkInv, ServerStep, SendReply, SendSegment, SegmentCrash, GetEnc, GetPub, Wakes,
           GetRedy, GetCommand, PressKey, MediaKeys, GetNum, LoopTest, GetArg, SetVolume, CloseClient
  <2> QED  BY <2>1, <2>2 DEF LockStep, LinkInv
<1>2. HandshakeStep' /\ CommandStep'
  <2>1. CASE cGone
    <3>1. cPc' \in ClientDone
      BY <2>1 DEF LockStep, LinkInv, clientVars
    <3> QED  BY <3>1 DEF HandshakeStep, CommandStep, ClientDone
  <2>2. CASE ~cGone
    BY <2>2, ChildKeepsHandshake, ChildKeepsCommand DEF LockStep
  <2> QED  BY <2>1, <2>2
<1>3. Sleepers'
  <2> SUFFICES ASSUME asleep' # <<>>
               PROVE  cPc \in {"getArgOk", "bye", "end", "getBye"} \cup ClientDone
    BY DEF Sleepers, clientVars
  <2>1. asleep # <<>> \/ sPc = "setVolume"
    BY ChildSteps, ChildEffects
  <2>2. sPc = "setVolume" => cPc \in {"getArgOk"} \cup ClientDone
    BY DEF LockStep, MixerInStep, NotAsked
  <2> QED  BY <2>1, <2>2 DEF LockStep, Sleepers
<1> QED  BY <1>1, <1>2, <1>3, ChildKeepsMixer DEF LockStep

-----------------------------------------------------------------------------
(***************************************************************************)
(* What a client's send does to an empty stream of a server that is there, *)
(* and to one whose server has been stopped.                               *)
(***************************************************************************)
LEMMA ClientAsks ==
    ASSUME NEW m \in Message, NEW o \in SendOutcomes(HangUp),
           c2s = <<>>, srvUp \in BOOLEAN, c2s' = Queued(c2s, m, HangUp, o)
    PROVE  /\ srvUp => On(c2s', {m.text}, m.key) /\ c2s'[1] = m /\ o = "sent"
           /\ ~srvUp => c2s' = <<>>
<1>1. CASE srvUp
  <2>1. HangUp = FALSE /\ o = "sent"
    BY <1>1 DEF HangUp, SendOutcomes
  <2>2. Len(c2s') = 1 /\ c2s'[1] = m
    <3>1. <<>> \in Seq(Message)
      OBVIOUS
    <3>2. Len(Queued(<<>>, m, FALSE, "sent")) = 1 /\ Queued(<<>>, m, FALSE, "sent")[1] = m
      BY <3>1, QueuedOne
    <3>3. c2s' = Queued(<<>>, m, FALSE, "sent")
      BY <2>1, Zenon
    <3> QED  BY <3>2, <3>3
  <2> QED  BY <1>1, <2>1, <2>2 DEF On
<1>2. CASE ~srvUp
  BY <1>2 DEF HangUp, Queued
<1> QED  BY <1>1, <1>2

\* A read of the client from an empty stream, and of the only write on one.
LEMMA ClientHears ==
    ASSUME TypeInv, NEW key, NEW rd \in Reads(s2c, HangUp, key)
    PROVE  /\ s2c = <<>> => ~srvUp /\ rd.left = <<>> /\ rd.res.text = "garbage" /\ rd.res.len # "data"
           /\ Len(s2c) = 1 => /\ rd.left = <<>> /\ rd.res.len \in {"data", "fail"}
                              /\ s2c[1].key = key => rd.res.len = "data" /\ rd.res.text = s2c[1].text
<1>1. s2c \in Seq(Message) /\ HangUp \in BOOLEAN
  BY DEF TypeInv, TypeOK, WireTypeOK, HangUp
<1>2. s2c = <<>> => HangUp /\ rd.left = <<>> /\ rd.res.text = "garbage" /\ rd.res.len # "data"
  BY <1>1, ReadsTake
<1>3. Len(s2c) = 1 => /\ rd.left = <<>> /\ rd.res.len \in {"data", "fail"}
                      /\ s2c[1].key = key => rd.res.len = "data" /\ rd.res.text = s2c[1].text
  BY <1>1, ReadsOne
<1> QED  BY <1>2, <1>3 DEF HangUp

\* In its commands the client seals and reads with the child's key.
LEMMA SameKey ==
    ASSUME KeyInv, cPc \in CommandPhase
    PROVE  /\ ClientKey = SessionKey
           /\ (IF cUseEnc /\ cCrypto THEN cKey ELSE "none") = SessionKey
BY DEF KeyInv, KeysAgree, ClientKey, SessionKey

(***************************************************************************)
(* A step of the client that leaves the mixer's history as it is and asks  *)
(* for no volume keeps what is pending; so does its end.                   *)
(***************************************************************************)
EarlyPlaces == {"getHelo", "encReq", "getPub", "errPub", "pubKey", "getSeg", "redy", "getRedy",
                "command", "getVolOk", "num", "getNumOk"}

LEMMA ClientKeepsMixer ==
    ASSUME TypeInv, LockStep, UNCHANGED serverVars, UNCHANGED <<cI, cAcked>>,
           \/ c2s' = c2s
           \/ /\ NotAsked
              /\ \A j \in 1..Len(c2s') : c2s'[j].text = "arg" => \E i \in 1..Len(c2s) : c2s'[j] = c2s[i],
           cPc' \in EarlyPlaces => cPc \in EarlyPlaces,
           cPc' \notin {"arg", "getArgOk"},
           NotAsked \/ cPc' \in ClientDone
    PROVE  Pending' /\ MixerInStep'
<1>1. UNCHANGED <<sPc, sArg, applied>>
  BY DEF serverVars
<1>2. NotAsked => NotAsked'
  BY <1>1 DEF NotAsked
<1>3. Pending'
  <2>1. CASE c2s' = c2s
    BY <1>1, <2>1 DEF LockStep, Pending, NextOnly
  <2>2. CASE NotAsked
    BY <1>2, <2>2 DEF Pending, NotAsked
  <2> QED  BY <2>1, <2>2
<1>4. MixerInStep'
  BY <1>1, <1>2 DEF LockStep, MixerInStep, EarlyPlaces
<1> QED  BY <1>3, <1>4

LEMMA ClientKeepsLink ==
    ASSUME TypeInv, LinkInv, ClientStep, UNCHANGED serverVars
    PROVE  LinkInv'
<1>1. UNCHANGED <<sPc, sEnc, sUseEnc, asleep>> /\ srvUp' = srvUp
  BY DEF serverVars, ClientStep
<1>2. cPc \notin ClientDone
  BY DEF ClientStep, SendPlain, SendSealed, GetHelo, GetPubKey, GetSegment, GetRedyBack, ReplyAborts,
         GetVolOk, GetArgOk, GetMedia, GetBye, PlainSends, SealedSends, ClientDone
<1>3. ~cGone
  BY <1>2 DEF LinkInv
<1>4. /\ ~srvUp => c2s' = <<>>
      /\ cGone' <=> cPc' \in ClientDone
  <2>1. CASE SendPlain
    <3>1. PICK o \in SendOutcomes(HangUp) :
             /\ c2s' = Queued(c2s, Msg(PlainText[cPc], 0, "none"), HangUp, o)
             /\ \/ /\ o = "sent" /\ cPc # "errPub"
                   /\ GoesTo(CASE cPc = "encReq" -> IF cUseEnc THEN "getPub" ELSE "getRedy"
                               [] cPc = "pubKey" -> "getSeg"
                               [] cPc = "redy"   -> "getRedy")
                   /\ UNCHANGED <<s2c, cGone>>
                \/ /\ o = "fail" \/ (o = "sent" /\ cPc = "errPub")
                   /\ Leaves("failure")
                   /\ UNCHANGED <<s2c, cGone>>
                \/ /\ o = "sigpipe"
                   /\ ProcessEnds("dead")
                   /\ UNCHANGED cStatus
      BY <2>1 DEF SendPlain
    <3>2. cPc \in {"encReq", "errPub", "pubKey", "redy"}
      BY <2>1 DEF SendPlain, PlainSends
    <3>3. ~srvUp => c2s' = <<>>
      BY <3>1 DEF LinkInv, Queued, HangUp
    <3>4. \/ cPc' \in {"getPub", "getRedy", "getSeg", "end"} /\ cGone' = cGone
          \/ cPc' = "dead" /\ cGone' = TRUE
      BY <3>1, <3>2 DEF GoesTo, Leaves, ProcessEnds
    <3> QED  BY <1>3, <3>3, <3>4 DEF ClientDone
  <2>2. CASE SendSealed
    <3>1. PICK o \in SendOutcomes(HangUp), m \in SealedMsg :
             /\ c2s' = Queued(c2s, m, HangUp, o)
             /\ \/ ProcessEnds("dead") \/ ProcessEnds("crashed")
                \/ GoesTo(AfterSend[cPc]) /\ UNCHANGED cGone
                \/ Leaves("failure") /\ UNCHANGED cGone
      BY <2>2 DEF SendSealed
    <3>2. AfterSend[cPc] \notin ClientDone
      BY <2>2 DEF SendSealed, SealedSends, AfterSend, ClientDone
    <3>3. ~srvUp => c2s' = <<>>
      BY <3>1 DEF LinkInv, Queued, HangUp
    <3>4. \/ cPc' \in {AfterSend[cPc], "end"} /\ cGone' = cGone
          \/ cPc' \in {"dead", "crashed"} /\ cGone' = TRUE
      BY <3>1 DEF GoesTo, Leaves, ProcessEnds
    <3> QED  BY <1>3, <3>2, <3>3, <3>4 DEF ClientDone
  <2>3. CASE GetHelo \/ GetPubKey \/ GetSegment \/ GetRedyBack \/ GetVolOk \/ GetArgOk \/ GetMedia
    <3>1. UNCHANGED <<c2s, cGone>>
      BY <2>3 DEF GetHelo, GetPubKey, GetSegment, GetRedyBack, GetVolOk, GetArgOk, GetMedia
    <3>2. cPc' \notin ClientDone
      BY <2>3 DEF GetHelo, GetPubKey, GetSegment, GetRedyBack, GetVolOk, GetArgOk, GetMedia,
                  GoesTo, Leaves, ClientDone
    <3> QED  BY <1>3, <3>1, <3>2 DEF LinkInv
  <2>4. CASE ReplyAborts \/ GetBye
    BY <2>4 DEF ReplyAborts, GetBye, ProcessEnds, ClientDone, LinkInv
  <2> QED  BY <2>1, <2>2, <2>3, <2>4 DEF ClientStep
<1> QED  BY <1>1, <1>4 DEF LinkInv

(***************************************************************************)
(* Each action of the client keeps the step: it sends when it is its turn, *)
(* and finds the reply it waits for alone on the stream.                   *)
(***************************************************************************)
LEMMA SendPlainKeepsStep ==
    ASSUME TypeInv, LockStep, SendPlain, UNCHANGED serverVars, srvUp' = srvUp
    PROVE  HandshakeStep' /\ CommandStep' /\ Pending' /\ MixerInStep'
<1>1. UNCHANGED <<sPc, sRemoteKey>>
  BY DEF serverVars
<1>2. PICK o \in SendOutcomes(HangUp) :
         /\ c2s' = Queued(c2s, Msg(PlainText[cPc], 0, "none"), HangUp, o)
         /\ \/ /\ o = "sent" /\ cPc # "errPub"
               /\ GoesTo(CASE cPc = "encReq" -> IF cUseEnc THEN "getPub" ELSE "getRedy"
                           [] cPc = "pubKey" -> "getSeg"
                           [] cPc = "redy"   -> "getRedy")
               /\ UNCHANGED <<s2c, cGone>>
            \/ /\ o = "fail" \/ (o = "sent" /\ cPc = "errPub")
               /\ Leaves("failure")
               /\ UNCHANGED <<s2c, cGone>>
            \/ /\ o = "sigpipe"
               /\ ProcessEnds("dead")
               /\ UNCHANGED cStatus
  BY DEF SendPlain
<1>3. cPc \in {"encReq", "errPub", "pubKey", "redy"} /\ UNCHANGED <<cI, cAcked>>
  BY DEF SendPlain, PlainSends
<1> DEFINE m == Msg(PlainText[cPc], 0, "none")
<1>4. m.text = PlainText[cPc] /\ m.key = "none" /\ m \in Message /\ m.text # "arg"
  <2>1. PlainText[cPc] \in Texts /\ PlainText[cPc] # "arg"
    BY <1>3 DEF PlainText, Texts
  <2>2. m.text = PlainText[cPc] /\ m.key = "none"
    BY DEF Msg
  <2> QED  BY <2>1, <2>2, MessageTyped DEF Keys
<1>5. /\ PlainText["encReq"] = IF cUseEnc THEN "enc" ELSE "noenc"
      /\ PlainText["pubKey"] = "pubkey" /\ PlainText["redy"] = "redy"
  BY DEF PlainText
<1>6. c2s' = Queued(c2s, m, HangUp, o)
  BY <1>2
<1> HIDE DEF m
<1>7. c2s \in Seq(Message) /\ s2c \in Seq(Message) /\ srvUp \in BOOLEAN /\ HangUp \in BOOLEAN
  BY DEF TypeInv, TypeOK, WireTypeOK, HangUp
<1>8. \/ cPc' \in {"end", "dead"}
      \/ /\ s2c' = s2c
         /\ \/ cPc = "encReq" /\ cPc' = IF cUseEnc THEN "getPub" ELSE "getRedy"
            \/ cPc = "pubKey" /\ cPc' = "getSeg"
            \/ cPc = "redy" /\ cPc' = "getRedy"
  BY <1>2, <1>3 DEF GoesTo, Leaves, ProcessEnds
<1>9. cPc = "encReq" \/ cPc = "pubKey" \/ cPc = "redy" =>
         /\ Quiet
         /\ srvUp => On(c2s', {m.text}, "none")
         /\ ~srvUp => c2s' = <<>>
  <2>1. cPc = "encReq" \/ cPc = "pubKey" \/ cPc = "redy" => Quiet
    BY DEF LockStep, HandshakeStep, Turn
  <2> QED  BY <1>4, <1>6, <1>7, <2>1, ClientAsks DEF Quiet
<1>10. HandshakeStep'
  <2>1. CASE cPc' \in {"end", "dead"}
    BY <2>1 DEF HandshakeStep
  <2>2. CASE ~srvUp /\ cPc' \notin {"end", "dead"}
    <3>1. Lost' /\ sPc' \in ServerDone
      BY <1>1, <1>3, <1>8, <1>9, <2>2 DEF Lost, Quiet, LockStep, LinkInv
    <3> QED  BY <1>8, <2>2, <3>1 DEF HandshakeStep, ServerDone
  <2>3. CASE srvUp /\ cPc = "encReq" /\ cPc' = IF cUseEnc THEN "getPub" ELSE "getRedy"
    <3>1. sPc = "getEnc" /\ s2c = <<>> /\ s2c' = s2c
      BY <1>8, <1>9, <2>3 DEF LockStep, HandshakeStep, Turn, Quiet
    <3>2. CASE cUseEnc
      <4>1. Asked({"enc"}, "none", {"getEnc"})'
        BY <1>1, <1>4, <1>5, <1>9, <2>3, <3>1, <3>2 DEF Asked, On
      <4> QED  BY <2>3, <3>2, <4>1 DEF HandshakeStep
    <3>3. CASE ~cUseEnc
      <4>1. Asked({"noenc"}, "none", {"getEnc"})'
        BY <1>1, <1>4, <1>5, <1>9, <2>3, <3>1, <3>3 DEF Asked, On
      <4> QED  BY <2>3, <3>3, <4>1 DEF HandshakeStep
    <3> QED  BY <3>2, <3>3
  <2>4. CASE srvUp /\ cPc = "pubKey" /\ cPc' = "getSeg"
    <3>1. sPc \in {"getPub"} \cup GaveUp /\ s2c' = <<>>
      BY <1>8, <1>9, <2>4 DEF LockStep, HandshakeStep, Turn, Quiet
    <3>2. Asked({"pubkey"}, "none", {"getPub"} \cup GaveUp)'
      BY <1>1, <1>4, <1>5, <1>9, <2>4, <3>1 DEF Asked, On
    <3> QED  BY <1>1, <2>4, <3>1, <3>2 DEF HandshakeStep, GaveUp
  <2>5. CASE srvUp /\ cPc = "redy" /\ cPc' = "getRedy"
    <3>1. sPc = "getRedy" /\ s2c' = <<>>
      BY <1>8, <1>9, <2>5 DEF LockStep, HandshakeStep, Turn, Quiet
    <3>2. Asked({"redy"}, "none", {"getRedy"})'
      BY <1>1, <1>4, <1>5, <1>9, <2>5, <3>1 DEF Asked, On
    <3> QED  BY <2>5, <3>2 DEF HandshakeStep
  <2> QED  BY <1>7, <1>8, <2>1, <2>2, <2>3, <2>4, <2>5
<1>11. CommandStep'
  BY <1>8 DEF CommandStep
<1>12. Pending' /\ MixerInStep'
  <2>1. NotAsked
    BY <1>3 DEF LockStep, MixerInStep, ClientDone
  <2>2. \A j \in 1..Len(c2s') : c2s'[j].text = "arg" => \E i \in 1..Len(c2s) : c2s'[j] = c2s[i]
    BY <1>4, <1>6, <1>7, QueuedMessages
  <2>3. cPc \in EarlyPlaces /\ cPc' \notin {"arg", "getArgOk"}
    BY <1>3, <1>8 DEF EarlyPlaces
  <2> QED  BY <1>3, <2>1, <2>2, <2>3, ClientKeepsMixer
<1> QED  BY <1>10, <1>11, <1>12

LEMMA SendSealedKeepsStep ==
    ASSUME TypeInv, KeyInv, LockStep, SendSealed, UNCHANGED serverVars, srvUp' = srvUp
    PROVE  HandshakeStep' /\ CommandStep' /\ Pending' /\ MixerInStep'
<1>1. UNCHANGED <<sPc, sEnc, sNum, sI, sArg, asleep, applied, SessionKey>>
  BY DEF serverVars, SessionKey
<1>2. PICK o \in SendOutcomes(HangUp), m \in SealedMsg :
         /\ c2s' = Queued(c2s, m, HangUp, o)
         /\ \/ ProcessEnds("dead")
            \/ cUseEnc /\ ~cCrypto /\ ProcessEnds("crashed")
            \/ o = "fail" /\ Leaves("failure") /\ UNCHANGED s2c
            \/ GoesTo(AfterSend[cPc]) /\ UNCHANGED s2c
  BY DEF SendSealed
<1>3. cPc \in {"command", "num", "arg", "bye", "end"} /\ UNCHANGED <<cI, cAcked>>
  BY DEF SendSealed, SealedSends
<1> DEFINE key == IF cUseEnc /\ cCrypto THEN cKey ELSE "none"
<1>4. /\ cPc = "command" => m = Msg(cCmd, 0, key)
      /\ cPc = "num" => m = Msg("num", NumChannels, key)
      /\ cPc = "arg" => m \in {Msg("arg", cI + 1, key), Msg("badarg", cI + 1, key)}
      /\ cPc \in {"bye", "end"} => m = Msg(cPc, 0, key)
  BY <1>2 DEF SealedMsg
<1>5. cPc \in {"command", "num", "arg"} => key = SessionKey
  BY SameKey DEF CommandPhase
<1>6. key \in Keys
  <2>1. cKey \in Keys /\ "none" \in Keys
    BY DEF TypeInv, TypeOK, ClientTypeOK, Keys
  <2> QED  BY <2>1
<1> HIDE DEF key
<1>7. /\ c2s \in Seq(Message) /\ s2c \in Seq(Message) /\ srvUp \in BOOLEAN /\ HangUp \in BOOLEAN
      /\ cI \in Nat /\ NumChannels \in Nat
  BY ClientAssumption DEF TypeInv, TypeOK, WireTypeOK, ClientTypeOK, HangUp
<1>8. /\ m \in Message /\ m.key = key
      /\ cPc = "command" => m.text = cCmd
      /\ cPc = "num" => m.text = "num" /\ m.arg = NumChannels
      /\ cPc = "arg" => m.text \in {"arg", "badarg"} /\ m.arg = cI + 1
      /\ m.text = "arg" => cPc = "arg"
  <2>1. CASE cPc = "command"
    <3>1. cCmd \in Texts /\ cCmd # "arg"
      BY <2>1 DEF TypeInv, LoopInRange, Commands, Texts
    <3> QED  BY <1>4, <1>6, <2>1, <3>1, MessageTyped DEF Msg
  <2>2. CASE cPc = "num"
    <3>1. "num" \in Texts
      BY DEF Texts
    <3> QED  BY <1>4, <1>6, <1>7, <2>2, <3>1, MessageTyped DEF Msg
  <2>3. CASE cPc = "arg"
    <3>1. "arg" \in Texts /\ "badarg" \in Texts /\ cI + 1 \in Nat
      BY <1>7 DEF Texts
    <3> QED  BY <1>4, <1>6, <2>3, <3>1, MessageTyped DEF Msg
  <2>4. CASE cPc \in {"bye", "end"}
    <3>1. "bye" \in Texts /\ "end" \in Texts
      BY DEF Texts
    <3> QED  BY <1>4, <1>6, <2>4, <3>1, MessageTyped DEF Msg
  <2> QED  BY <1>3, <2>1, <2>2, <2>3, <2>4
<1>9. /\ AfterSend["command"] = (IF cCmd = "vol" THEN "getVolOk" ELSE "getMedia")
      /\ AfterSend["num"] = "getNumOk" /\ AfterSend["arg"] = "getArgOk"
      /\ AfterSend["bye"] = "end" /\ AfterSend["end"] = "getBye"
  BY DEF AfterSend
<1>10. \/ cPc' \in {"end", "dead", "getMedia", "getBye"}
       \/ cPc' = "crashed" /\ cUseEnc /\ ~cCrypto
       \/ /\ s2c' = s2c
          /\ \/ cPc = "command" /\ cCmd = "vol" /\ cPc' = "getVolOk"
             \/ cPc = "num" /\ cPc' = "getNumOk"
             \/ cPc = "arg" /\ cPc' = "getArgOk"
  BY <1>2, <1>3, <1>9 DEF GoesTo, Leaves, ProcessEnds
<1>11. cPc = "command" \/ cPc = "num" \/ cPc = "arg" =>
          /\ Quiet
          /\ srvUp => On(c2s', {m.text}, SessionKey) /\ c2s'[1] = m
          /\ ~srvUp => c2s' = <<>> /\ sPc \in ServerDone
  <2>1. cPc = "command" \/ cPc = "num" \/ cPc = "arg" => Quiet /\ (~srvUp => sPc \in ServerDone)
    BY DEF LockStep, LinkInv, CommandStep, Turn
  <2> QED  BY <1>2, <1>5, <1>7, <1>8, <2>1, ClientAsks DEF Quiet
<1>12. HandshakeStep'
  BY <1>10 DEF HandshakeStep
<1>13. CommandStep'
  <2>1. CASE cPc' \notin {"getVolOk", "getNumOk", "getArgOk"}
    BY <1>10, <2>1 DEF CommandStep
  <2>2. CASE ~srvUp /\ cPc' \in {"getVolOk", "getNumOk", "getArgOk"}
    <3>1. Lost'
      BY <1>10, <1>11, <2>2 DEF Lost, Quiet
    <3> QED  BY <2>2, <3>1 DEF CommandStep
  <2>3. CASE srvUp /\ cPc = "command" /\ cCmd = "vol" /\ cPc' = "getVolOk"
    <3>1. Asked({"vol"}, SessionKey, {"getCmd"})'
      BY <1>1, <1>8, <1>10, <1>11, <2>3 DEF LockStep, CommandStep, Turn, Asked, On, Quiet
    <3> QED  BY <2>3, <3>1 DEF CommandStep
  <2>4. CASE srvUp /\ cPc = "num" /\ cPc' = "getNumOk"
    <3>1. Asked({"num"}, SessionKey, {"getNum"})' /\ c2s'[1].arg = NumChannels
      BY <1>1, <1>8, <1>10, <1>11, <2>4 DEF LockStep, CommandStep, Turn, Asked, On, Quiet
    <3> QED  BY <2>4, <3>1 DEF CommandStep
  <2>5. CASE srvUp /\ cPc = "arg" /\ cPc' = "getArgOk"
    <3>1. Turn(InLoop) /\ Announced /\ sI = cI /\ Len(applied) = cI
      BY <2>5 DEF LockStep, CommandStep, MixerInStep
    <3>2. Asked({"arg", "badarg"}, SessionKey, InLoop)' /\ c2s'[1].arg = cI + 1
      BY <1>1, <1>8, <1>10, <1>11, <2>5, <3>1 DEF Turn, Asked, On, Quiet, InLoop
    <3>3. asleep = <<>>
      BY <2>5 DEF LockStep, Sleepers, ClientDone
    <3> QED  BY <1>1, <1>3, <2>5, <3>1, <3>2, <3>3 DEF CommandStep, Announced
  <2> QED  BY <1>7, <1>10, <2>1, <2>2, <2>3, <2>4, <2>5
<1>14. Pending' /\ MixerInStep'
  <2>1. NotAsked
    BY <1>3 DEF LockStep, MixerInStep, ClientDone
  <2>2. CASE cPc # "arg"
    <3>1. \A j \in 1..Len(c2s') : c2s'[j].text = "arg" => \E i \in 1..Len(c2s) : c2s'[j] = c2s[i]
      BY <1>2, <1>7, <1>8, <2>2, QueuedMessages
    <3>2. cPc' \in EarlyPlaces => cPc \in EarlyPlaces
      BY <1>10 DEF EarlyPlaces
    <3>3. cPc' \notin {"arg", "getArgOk"}
      BY <1>10, <2>2
    <3> QED  BY <1>3, <2>1, <3>1, <3>2, <3>3, ClientKeepsMixer
  <2>3. CASE cPc = "arg"
    <3>1. /\ cAcked = 1..cI /\ Len(applied) = cI /\ cI < NumChannels
          /\ \A k \in 1..Len(applied) : applied[k] = k
      BY <2>3 DEF LockStep, MixerInStep, TypeInv, LoopInRange
    <3>2. c2s' = <<>> \/ (Len(c2s') = 1 /\ c2s'[1] = m)
      BY <1>7, <1>11, <2>3 DEF On
    <3>3. NextOnly'
      BY <1>1, <1>3, <3>1 DEF NextOnly
    <3>4. sPc' # "setVolume"
      BY <1>1, <2>1 DEF NotAsked
    <3>5. Pending'
      <4>1. ASSUME NEW j \in 1..Len(c2s')
            PROVE  Len(c2s') = 1 /\ c2s'[j].arg = Len(applied') + 1
        <5>1. Len(c2s') = 1 /\ c2s'[1] = m
          <6>1. c2s' = <<>> => Len(c2s') = 0
            OBVIOUS
          <6> QED  BY <3>2, <4>1, <6>1
        <5>2. j = 1
          BY <4>1, <5>1
        <5> QED  BY <1>1, <1>8, <2>3, <3>1, <5>1, <5>2
      <4> QED  BY <3>3, <3>4, <4>1 DEF Pending
    <3>6. cPc' \notin EarlyPlaces \cup {"arg"}
      BY <1>10, <2>3 DEF EarlyPlaces
    <3>7. cPc' \in {"getArgOk"} \cup ClientDone \/ c2s' = <<>>
      <4>1. cPc' \notin {"getArgOk"} \cup ClientDone => ~srvUp
        BY <1>2, <1>7, <2>3, <1>9 DEF GoesTo, Leaves, ProcessEnds, ClientDone, HangUp, SendOutcomes
      <4> QED  BY <1>11, <2>3, <4>1
    <3>8. c2s' = <<>> => NotAsked'
      <4>1. c2s' = <<>> => Len(c2s') = 0
        OBVIOUS
      <4> QED  BY <3>4, <4>1 DEF NotAsked
    <3>9. MixerInStep'
      BY <1>1, <1>3, <3>1, <3>6, <3>7, <3>8 DEF MixerInStep, EarlyPlaces
    <3> QED  BY <3>5, <3>9
  <2> QED  BY <2>2, <2>3
<1> QED  BY <1>12, <1>13, <1>14

LEMMA HandshakeReadsKeepStep ==
    ASSUME TypeInv, LockStep, GetHelo \/ GetPubKey, UNCHANGED serverVars, srvUp' = srvUp
    PROVE  HandshakeStep' /\ CommandStep' /\ Pending' /\ MixerInStep'
<1>1. UNCHANGED <<sPc, c2s, cI, cAcked>> /\ srvUp \in BOOLEAN
  BY DEF GetHelo, GetPubKey, serverVars, TypeInv, TypeOK, WireTypeOK
<1>2. CASE GetHelo
  <2>1. PICK rd \in Reads(s2c, HangUp, "none") :
           /\ s2c' = rd.left
           /\ IF rd.res.text = "helo" THEN GoesTo("encReq") ELSE Leaves("failure")
    BY <1>2 DEF GetHelo
  <2>2. cPc = "getHelo" /\ cPc' = IF rd.res.text = "helo" THEN "encReq" ELSE "end"
    BY <1>2, <2>1 DEF GetHelo, GoesTo, Leaves
  <2>3. rd.res.text = "helo" => Turn({"getEnc"})'
    <3>1. CASE Answered({"helo"}, "none", {"getEnc"})
      BY <1>1, <2>1, <3>1, ClientHears DEF Answered, On, Turn, Quiet
    <3>2. CASE Works({"helo"}) \/ Lost
      BY <2>1, <3>2, ClientHears DEF Works, Lost, Quiet
    <3> QED  BY <2>2, <3>1, <3>2 DEF LockStep, HandshakeStep
  <2>4. HandshakeStep' /\ CommandStep'
    BY <2>2, <2>3 DEF HandshakeStep, CommandStep
  <2>5. NotAsked /\ cPc \in EarlyPlaces /\ cPc' \notin {"arg", "getArgOk"}
    BY <2>2 DEF LockStep, MixerInStep, ClientDone, EarlyPlaces
  <2> QED  BY <1>1, <2>4, <2>5, ClientKeepsMixer
<1>3. CASE GetPubKey
  <2>1. PICK rd \in Reads(s2c, HangUp, "none") :
           /\ s2c' = rd.left
           /\ GoesTo(IF rd.res.len = "fail" \/ rd.res.text = "err" THEN "errPub" ELSE "pubKey")
    BY <1>3 DEF GetPubKey
  <2>2. /\ cPc = "getPub"
        /\ cPc' = IF rd.res.len = "fail" \/ rd.res.text = "err" THEN "errPub" ELSE "pubKey"
    BY <1>3, <2>1 DEF GetPubKey, GoesTo
  <2>3. cPc' = "pubKey" => Turn({"getPub"} \cup GaveUp)'
    <3>1. CASE Asked({"enc"}, "none", {"getEnc"}) \/ Works({"pubKey", "refuse"})
      BY <2>1, <3>1, ClientHears DEF Asked, Works, Quiet
    <3>2. CASE Answered({"pubkey"}, "none", {"getPub"})
      BY <1>1, <2>1, <3>2, ClientHears DEF Answered, On, Turn, Quiet
    <3>3. CASE Answered({"err"}, "none", {"end"})
      BY <2>1, <2>2, <3>3, ClientHears DEF Answered, On
    <3>4. CASE /\ c2s = <<>> /\ Len(s2c) = 2
               /\ s2c[1].text = "err" /\ s2c[1].key = "none"
               /\ srvUp => sPc \in GaveUp
      <4>1. s2c \in Seq(Message) /\ HangUp \in BOOLEAN /\ s2c # <<>>
        BY <3>4, EmptySeq DEF TypeInv, TypeOK, WireTypeOK, HangUp
      <4>2. PICK n \in 1..Len(s2c) : /\ rd.left = SubSeq(s2c, n + 1, Len(s2c))
                                     /\ rd.res \in Decode(SubSeq(s2c, 1, n), "none")
        BY <4>1, ReadsTake
      <4>3. CASE n = 1
        <5>1. SubSeq(s2c, 1, 1)[1] = s2c[1] /\ Len(SubSeq(s2c, 1, 1)) = 1
          BY <4>1
        <5>2. rd.res.text = "err"
          BY <3>4, <4>2, <4>3, <5>1 DEF Decode, Data
        <5> QED  BY <2>2, <5>2
      <4>4. CASE n = 2
        <5>1. rd.left = <<>>
          BY <3>4, <4>1, <4>2, <4>4, SubSeqEmpty
        <5> QED  BY <1>1, <2>1, <3>4, <5>1 DEF Turn, Quiet
      <4> QED  BY <3>4, <4>2, <4>3, <4>4
    <3>5. CASE Lost
      BY <1>1, <2>1, <3>5, ClientHears DEF Lost, Turn, Quiet
    <3> QED  BY <2>2, <3>1, <3>2, <3>3, <3>4, <3>5 DEF LockStep, HandshakeStep
  <2>4. HandshakeStep' /\ CommandStep'
    BY <2>2, <2>3 DEF HandshakeStep, CommandStep
  <2>5. NotAsked /\ cPc \in EarlyPlaces /\ cPc' \notin {"arg", "getArgOk"}
    BY <2>2 DEF LockStep, MixerInStep, ClientDone, EarlyPlaces
  <2> QED  BY <1>1, <2>4, <2>5, ClientKeepsMixer
<1> QED  BY <1>2, <1>3

(***************************************************************************)
(* The sixth segment, understood, is the last one there will be.           *)
(***************************************************************************)
LEMMA SegmentKeepsStep ==
    ASSUME TypeInv, LockStep, GetSegment, UNCHANGED serverVars, srvUp' = srvUp
    PROVE  HandshakeStep' /\ CommandStep' /\ Pending' /\ MixerInStep'
<1>1. UNCHANGED <<sPc, sSeg, sRemoteKey, c2s, cI, cAcked>> /\ srvUp \in BOOLEAN /\ cPc = "getSeg"
  BY DEF GetSegment, serverVars, TypeInv, TypeOK, WireTypeOK
<1>2. PICK rd \in Reads(s2c, HangUp, "none") :
         /\ s2c' = rd.left
         /\ \/ cPc' \in {"end", "getSeg"}
            \/ cPc' = "redy" /\ cSeg = 6 /\ rd.res.text = "seg" /\ rd.res.arg = cSeg
            \/ cPc' = "redy" /\ rd.res.len = "eof"
  <2>1. PICK rd \in Reads(s2c, HangUp, "none") :
           /\ s2c' = rd.left
           /\ \/ Leaves("failure")
              \/ /\ cIntact /\ rd.res.text = "seg" /\ rd.res.arg = cSeg
                 /\ GoesTo(IF cSeg = 6 THEN "redy" ELSE "getSeg")
              \/ GoesTo(IF rd.res.len = "eof" /\ cSeg > 3 THEN "redy" ELSE "getSeg")
    BY DEF GetSegment
  <2> QED  BY <2>1 DEF Leaves, GoesTo
<1>3. s2c \in Seq(Message) /\ HangUp \in BOOLEAN /\ sSeg \in 1..7
  BY DEF TypeInv, TypeOK, WireTypeOK, ServerTypeOK, HangUp
<1>4. CASE s2c = <<>>
  <2>1. ~srvUp /\ s2c' = <<>>
    BY <1>2, <1>4, ClientHears
  <2>2. c2s = <<>>
    BY <2>1 DEF LockStep, LinkInv
  <2>3. Lost' /\ sPc' # "segment"
    BY <1>1, <2>1, <2>2 DEF LockStep, LinkInv, ServerDone, Lost, Quiet
  <2> QED
    <3>1. HandshakeStep'
      BY <1>2, <2>3 DEF HandshakeStep, Lost, Turn
    <3>2. CommandStep'
      BY <1>2 DEF CommandStep
    <3>3. NotAsked /\ cPc \in EarlyPlaces /\ cPc' \notin {"arg", "getArgOk"}
      BY <1>1, <1>2 DEF LockStep, MixerInStep, ClientDone, EarlyPlaces
    <3> QED  BY <1>1, <3>1, <3>2, <3>3, ClientKeepsMixer
<1>5. CASE s2c # <<>>
  <2>1. c2s = <<>> /\ Segments /\ (srvUp => sPc \in {"segment", "getRedy"})
    BY <1>1, <1>5 DEF LockStep, HandshakeStep, Asked, Lost, Quiet
  <2>2. PICK n \in 1..Len(s2c) : /\ s2c' = SubSeq(s2c, n + 1, Len(s2c))
                                 /\ rd.res \in Decode(SubSeq(s2c, 1, n), "none")
    BY <1>2, <1>3, <1>5, ReadsTake
  <2>3. Len(s2c) \in Nat /\ 1 \in 1..Len(s2c) /\ s2c[1].text = "seg" /\ s2c[1].arg = sSeg - Len(s2c)
    <3>1. Len(s2c) \in Nat /\ 1 \in 1..Len(s2c)
      BY <1>3, <1>5, EmptySeq
    <3> QED  BY <1>3, <2>1, <3>1 DEF Segments
  <2>4. Segments'
    <3>1. /\ Len(s2c') = Len(s2c) - n
          /\ \A j \in 1..Len(s2c') : s2c'[j] = s2c[n + j]
      BY <1>3, <2>2
    <3>2. ASSUME NEW j \in 1..Len(s2c')
          PROVE  s2c'[j].text = "seg" /\ s2c'[j].arg = sSeg - Len(s2c') + j - 1
      <4>1. n + j \in 1..Len(s2c)
        BY <2>3, <3>1, <3>2
      <4>2. s2c[n + j].text = "seg" /\ s2c[n + j].arg = sSeg - Len(s2c) + (n + j) - 1
        BY <2>1, <4>1 DEF Segments
      <4>3. s2c'[j] = s2c[n + j]
        BY <3>1, <3>2
      <4>4. sSeg - Len(s2c') + j - 1 = sSeg - Len(s2c) + (n + j) - 1
        BY <1>3, <2>3, <3>1
      <4> QED  BY <4>2, <4>3, <4>4
    <3>3. Len(s2c') < sSeg
      BY <1>3, <2>1, <2>3, <3>1 DEF Segments
    <3> QED  BY <1>1, <3>2, <3>3 DEF Segments
  <2>5. cPc' = "redy" => Turn({"getRedy"})'
    <3> SUFFICES ASSUME cPc' = "redy" PROVE Turn({"getRedy"})'
      OBVIOUS
    <3>1. SubSeq(s2c, 1, n)[1] = s2c[1] /\ Len(SubSeq(s2c, 1, n)) = n
      BY <1>3, <2>2, <2>3
    <3>2. rd.res.len # "eof"
      BY <2>2 DEF Decode, Data, Glued, Garbage, NoData
    <3>3. cSeg = 6 /\ rd.res.text = "seg" /\ rd.res.arg = 6
      BY <1>2, <3>2
    <3>4. rd.res = Data(s2c[1].text, s2c[1].arg) /\ n = 1
      <4> DEFINE chunk == SubSeq(s2c, 1, n)
      <4>1. chunk[1] = s2c[1] /\ Len(chunk) = n /\ rd.res \in Decode(chunk, "none")
        BY <2>2, <3>1
      <4> HIDE DEF chunk
      <4>2. \/ rd.res = Data(s2c[1].text, s2c[1].arg) /\ (n = 1 \/ s2c[1].text = "pubkey")
            \/ rd.res \in {Garbage, Glued(s2c[1].text, s2c[1].arg)}
        BY <4>1 DEF Decode
      <4>3. Garbage.text = "garbage" /\ Glued(s2c[1].text, s2c[1].arg).text = "garbage"
        BY DEF Garbage, Glued, Data
      <4> QED  BY <2>3, <3>3, <4>2, <4>3
    <3>5. sSeg - Len(s2c) = 6
      BY <2>3, <3>3, <3>4 DEF Data
    <3>6. Len(s2c) = 1 /\ sSeg = 7
      <4> DEFINE l == Len(s2c)
      <4>1. l \in Nat /\ l >= 1 /\ sSeg \in 1..7 /\ sSeg - l = 6
        BY <1>3, <2>3, <3>5
      <4> HIDE DEF l
      <4>2. l = 1 /\ sSeg = 7
        BY <4>1
      <4> QED  BY <4>2 DEF l
    <3>7. s2c' = <<>>
      BY <1>3, <2>2, <3>4, <3>6, SubSeqEmpty
    <3>8. sPc # "segment"
      BY <3>6 DEF TypeInv, SegmentsInRange, SegmentsSent
    <3> QED  BY <1>1, <2>1, <3>7, <3>8 DEF Turn, Quiet
  <2>6. HandshakeStep'
    <3>1. cPc' = "getSeg" => c2s' = <<>> /\ Segments' /\ (srvUp' => sPc' \in {"segment", "getRedy"})
      BY <1>1, <2>1, <2>4
    <3>2. sPc' = "segment" => sRemoteKey'
      BY <1>1 DEF LockStep, HandshakeStep
    <3> QED  BY <1>2, <2>5, <3>1, <3>2 DEF HandshakeStep
  <2>7. CommandStep'
    BY <1>2 DEF CommandStep
  <2>8. NotAsked /\ cPc \in EarlyPlaces /\ cPc' \notin {"arg", "getArgOk"}
    BY <1>1, <1>2 DEF LockStep, MixerInStep, ClientDone, EarlyPlaces
  <2> QED  BY <1>1, <2>6, <2>7, <2>8, ClientKeepsMixer
<1> QED  BY <1>4, <1>5

LEMMA RepliesKeepStep ==
    ASSUME TypeInv, KeyInv, LockStep, GetRedyBack \/ GetVolOk, UNCHANGED serverVars, srvUp' = srvUp
    PROVE  HandshakeStep' /\ CommandStep' /\ Pending' /\ MixerInStep'
<1>1. /\ UNCHANGED <<sPc, sEnc, sNum, sI, applied, c2s, cI, cAcked>> /\ srvUp \in BOOLEAN
      /\ NumChannels \in Nat \ {0}
  BY ClientAssumption DEF GetRedyBack, GetVolOk, serverVars, TypeInv, TypeOK, WireTypeOK
<1>2. NotAsked /\ cPc \in EarlyPlaces
  BY DEF GetRedyBack, GetVolOk, LockStep, MixerInStep, ClientDone, EarlyPlaces
<1>3. CASE GetRedyBack
  <2>1. PICK rd \in Reads(s2c, HangUp, ClientKey) :
           /\ s2c' = rd.left
           /\ cPc' \in {"command", "bye", "end"}
           /\ cPc' = "command" => rd.res.text = "redy"
    BY <1>3 DEF GetRedyBack, Takes, Confirms, GoesTo, Leaves
  <2>2. cPc = "getRedy"
    BY <1>3 DEF GetRedyBack
  <2>3. cPc' = "command" => Turn({"getCmd"})'
    <3>1. CASE Answered({"redy"}, SessionKey, {"getCmd"})
      BY <1>1, <2>1, <3>1, ClientHears DEF Answered, On, Turn, Quiet
    <3>2. CASE s2c = <<>>
      BY <2>1, <3>2, ClientHears
    <3> QED
      BY <2>2, <3>1, <3>2 DEF LockStep, HandshakeStep, Asked, Works, Lost, Quiet
  <2>4. HandshakeStep' /\ CommandStep'
    BY <2>1, <2>3 DEF HandshakeStep, CommandStep
  <2>5. cPc' \notin {"arg", "getArgOk"}
    BY <2>1
  <2> QED  BY <1>1, <1>2, <2>4, <2>5, ClientKeepsMixer
<1>4. CASE GetVolOk
  <2>1. PICK rd \in Reads(s2c, HangUp, ClientKey) :
           /\ s2c' = rd.left
           /\ IF rd.res.text = "ok"
              THEN GoesTo(IF cPc = "getVolOk" THEN "num" ELSE "arg")
              ELSE Leaves(CommandStatus(rd.res))
    BY <1>4 DEF GetVolOk, Takes
  <2>2. /\ cPc \in {"getVolOk", "getNumOk"}
        /\ \/ cPc' \in {"bye", "end"}
           \/ rd.res.text = "ok" /\ cPc = "getVolOk" /\ cPc' = "num"
           \/ rd.res.text = "ok" /\ cPc = "getNumOk" /\ cPc' = "arg"
    BY <1>4, <2>1 DEF GetVolOk, GoesTo, Leaves
  <2>3. CASE s2c = <<>> \/ cPc' \in {"bye", "end"}
    <3>1. cPc' \in {"bye", "end"}
      BY <2>1, <2>2, <2>3, ClientHears
    <3>2. HandshakeStep' /\ CommandStep'
      BY <3>1 DEF HandshakeStep, CommandStep
    <3> QED  BY <1>1, <1>2, <3>1, <3>2, ClientKeepsMixer
  <2>4. CASE cPc = "getVolOk" /\ cPc' = "num" /\ s2c # <<>>
    <3>1. Answered({"ok"}, SessionKey, {"getNum"})
      BY <2>4 DEF LockStep, CommandStep, Asked, Works, Lost, Quiet
    <3>2. Turn({"getNum"})'
      BY <1>1, <2>1, <3>1, ClientHears DEF Answered, On, Turn, Quiet
    <3>3. HandshakeStep' /\ CommandStep'
      BY <2>4, <3>2 DEF HandshakeStep, CommandStep
    <3> QED  BY <1>1, <1>2, <2>4, <3>3, ClientKeepsMixer
  <2>5. CASE cPc = "getNumOk" /\ cPc' = "arg" /\ s2c # <<>>
    <3>1. Announced /\ sI = 0 /\ Answered({"ok"}, SessionKey, InLoop)
      BY <2>5 DEF LockStep, CommandStep, Asked, Works, Lost, Quiet
    <3>2. Turn(InLoop)'
      BY <1>1, <2>1, <3>1, ClientHears DEF Answered, On, Turn, Quiet
    <3>3. cI = 0 /\ applied = <<>> /\ cAcked = {}
      BY <2>5 DEF TypeInv, LoopInRange, LockStep, MixerInStep
    <3>4. HandshakeStep' /\ CommandStep'
      BY <1>1, <2>5, <3>1, <3>2, <3>3 DEF HandshakeStep, CommandStep, Announced
    <3>5. Len(applied) = 0 /\ 1..0 = {}
      BY <3>3
    <3>6. NotAsked'
      BY <1>1, <1>2 DEF NotAsked
    <3>7. Pending'
      BY <3>6 DEF Pending, NotAsked
    <3>8. MixerInStep'
      BY <1>1, <2>5, <3>3, <3>5, <3>6 DEF MixerInStep
    <3> QED  BY <3>4, <3>7, <3>8
  <2> QED  BY <2>2, <2>3, <2>4, <2>5
<1> QED  BY <1>3, <1>4

(***************************************************************************)
(* The reply to an argument: "ok" is the answer to the channel just sent,  *)
(* and that channel has been set.                                          *)
(***************************************************************************)
LEMMA ArgReplyKeepsStep ==
    ASSUME TypeInv, KeyInv, LockStep, GetArgOk, UNCHANGED serverVars, srvUp' = srvUp
    PROVE  /\ HandshakeStep' /\ CommandStep' /\ Sleepers' /\ Pending' /\ MixerInStep'
           /\ cAcked' = cAcked \/ cAcked' = 1..Len(applied)
<1>1. /\ UNCHANGED <<sPc, sNum, sI, applied, sArg, asleep, c2s>> /\ srvUp \in BOOLEAN
      /\ NumChannels \in Nat \ {0} /\ cI \in Nat /\ cPc = "getArgOk"
      /\ cI < NumChannels
  BY ClientAssumption
     DEF GetArgOk, serverVars, TypeInv, TypeOK, WireTypeOK, ClientTypeOK, LoopInRange
<1>2. PICK rd \in Reads(s2c, HangUp, ClientKey) :
         /\ s2c' = rd.left
         /\ IF EndsCommand(rd.res)
            THEN Leaves(CommandStatus(rd.res)) /\ UNCHANGED <<cI, cAcked>>
            ELSE /\ cI' = cI + 1
                 /\ cAcked' = IF rd.res.text = "ok" THEN cAcked \cup {cI + 1} ELSE cAcked
                 /\ IF MoreChannels THEN GoesTo("arg") ELSE Leaves("success")
  BY DEF GetArgOk, Takes
<1>3. cAcked = 1..cI
  BY <1>1 DEF LockStep, MixerInStep
<1>4. NotAsked
  <2>1. srvUp => s2c # <<>>
    BY <1>2, ClientHears
  <2>2. c2s = <<>> /\ sPc # "setVolume"
    <3>1. CASE srvUp
      BY <1>1, <2>1, <3>1 DEF LockStep, CommandStep, Asked, Works, Lost, Quiet, Replied, Answered, InLoop
    <3>2. CASE ~srvUp
      BY <3>2 DEF LockStep, LinkInv, ServerDone
    <3> QED  BY <1>1, <3>1, <3>2
  <2>3. Len(c2s) = 0
    BY <2>2
  <2> QED  BY <2>2, <2>3 DEF NotAsked
<1>5. NotAsked' /\ Pending'
  BY <1>1, <1>4 DEF NotAsked, Pending
<1>6. CASE EndsCommand(rd.res)
  <2>1. cPc' \in {"bye", "end"} /\ UNCHANGED <<cI, cAcked>>
    BY <1>2, <1>6 DEF Leaves
  <2>2. HandshakeStep' /\ CommandStep'
    BY <2>1 DEF HandshakeStep, CommandStep
  <2>3. cPc' \notin {"arg", "getArgOk"} /\ cPc' \notin EarlyPlaces /\ Sleepers'
    BY <2>1 DEF EarlyPlaces, Sleepers
  <2> QED  BY <1>1, <1>4, <2>1, <2>2, <2>3, ClientKeepsMixer
<1>7. CASE ~EndsCommand(rd.res)
  <2>1. rd.res.len = "data" /\ rd.res.text \notin {"err", "end"}
    BY <1>7 DEF EndsCommand
  <2>2. s2c # <<>>
    BY <2>1, ClientHears
  <2>3. /\ Announced /\ sI = cI + 1
        /\ \/ Replied({"ok"}) /\ Len(applied) = cI + 1 /\ asleep = <<>>
           \/ Replied({"err"})
    BY <1>1, <2>2 DEF LockStep, CommandStep, Asked, Works, Lost, Quiet
  <2>4. c2s = <<>> /\ Len(s2c) = 1 /\ s2c[1].key = ClientKey
    <3>1. ClientKey = SessionKey
      BY <1>1, SameKey DEF CommandPhase
    <3> QED  BY <2>3, <3>1 DEF Replied, Answered, On
  <2>5. rd.res.text = s2c[1].text /\ s2c' = <<>>
    BY <1>2, <2>4, ClientHears
  <2>6. /\ Replied({"ok"}) /\ Len(applied) = cI + 1 /\ rd.res.text = "ok"
        /\ asleep = <<>> /\ Sleepers'
    BY <1>1, <2>1, <2>3, <2>5 DEF Replied, Answered, On, Sleepers
  <2>7. cI' = cI + 1 /\ cAcked' = 1..(cI + 1)
    <3>1. (1..cI) \cup {cI + 1} = 1..(cI + 1)
      BY <1>1
    <3> QED  BY <1>2, <1>3, <1>7, <2>6, <3>1
  <2>8. CASE cI + 1 < NumChannels
    <3>1. cPc' = "arg"
      BY <1>2, <1>7, <2>8 DEF MoreChannels, GoesTo
    <3>2. srvUp => sPc \in InLoop
      BY <1>1, <2>3, <2>6, <2>8 DEF Replied, Answered
    <3>3. Turn(InLoop)'
      BY <1>1, <2>4, <2>5, <3>2 DEF Turn, Quiet
    <3>4. HandshakeStep' /\ CommandStep'
      BY <1>1, <2>3, <2>7, <3>1, <3>3 DEF HandshakeStep, CommandStep, Announced
    <3>5. MixerInStep'
      BY <1>1, <1>5, <2>6, <2>7, <3>1 DEF LockStep, MixerInStep
    <3> QED  BY <1>5, <2>6, <2>7, <3>4, <3>5
  <2>9. CASE ~(cI + 1 < NumChannels)
    <3>1. cPc' = "end"
      BY <1>2, <1>7, <2>9 DEF MoreChannels, Leaves
    <3>2. HandshakeStep' /\ CommandStep'
      BY <3>1 DEF HandshakeStep, CommandStep
    <3>3. MixerInStep'
      BY <1>1, <1>5, <2>6, <2>7, <3>1 DEF LockStep, MixerInStep
    <3> QED  BY <1>5, <2>6, <2>7, <3>2, <3>3
  <2> QED  BY <2>8, <2>9
<1> QED  BY <1>6, <1>7

(***************************************************************************)
(* A client that has got its last reply, and one that ends.                *)
(***************************************************************************)
LEMMA EndKeepsStep ==
    ASSUME TypeInv, LockStep, UNCHANGED serverVars, srvUp' = srvUp,
           GetMedia \/ ReplyAborts \/ GetBye \/ ClientKilled
    PROVE  HandshakeStep' /\ CommandStep' /\ Pending' /\ MixerInStep'
<1>1. UNCHANGED <<c2s, cI, cAcked>>
  BY DEF GetMedia, ReplyAborts, GetBye, ClientKilled
<1>2. CASE GetMedia
  <2>1. cPc = "getMedia" /\ cPc' \in {"bye", "end"}
    BY <1>2 DEF GetMedia, Leaves
  <2>2. HandshakeStep' /\ CommandStep'
    BY <2>1 DEF HandshakeStep, CommandStep
  <2>3. NotAsked /\ cPc' \notin {"arg", "getArgOk"} /\ cPc' \notin EarlyPlaces
    BY <2>1 DEF LockStep, MixerInStep, ClientDone, EarlyPlaces
  <2> QED  BY <1>1, <2>2, <2>3, ClientKeepsMixer
<1>3. CASE ReplyAborts \/ GetBye \/ ClientKilled
  <2>1. cPc' \in {"crashed", "closed", "dead"}
    BY <1>3 DEF ReplyAborts, GetBye, ClientKilled, ProcessEnds
  <2>2. HandshakeStep' /\ CommandStep'
    BY <2>1 DEF HandshakeStep, CommandStep
  <2>3. cPc' \in ClientDone /\ cPc' \notin {"arg", "getArgOk"} /\ cPc' \notin EarlyPlaces
    BY <2>1 DEF ClientDone, EarlyPlaces
  <2> QED  BY <1>1, <2>2, <2>3, ClientKeepsMixer
<1> QED  BY <1>2, <1>3

-----------------------------------------------------------------------------
LEMMA InitStep == Init => LockStep
<1> SUFFICES ASSUME Init PROVE LockStep
  OBVIOUS
<1>1. /\ c2s = <<>> /\ s2c = <<>> /\ cGone = FALSE /\ srvUp = TRUE
      /\ sPc = "helo" /\ sEnc = FALSE /\ applied = <<>> /\ asleep = <<>>
      /\ cPc = "getHelo" /\ cAcked = {}
  BY DEF Init, WireInit, ServerInit, ClientInit
<1>2. Len(c2s) = 0 /\ Len(applied) = 0
  BY <1>1
<1>3. LinkInv /\ Sleepers
  BY <1>1 DEF LinkInv, Sleepers, ClientDone
<1>4. HandshakeStep /\ CommandStep
  BY <1>1 DEF HandshakeStep, CommandStep, Works, Quiet
<1>5. Pending /\ MixerInStep
  BY <1>1, <1>2 DEF Pending, MixerInStep, NotAsked
<1> QED  BY <1>3, <1>4, <1>5 DEF LockStep

LEMMA ClientKeepsStep ==
    ASSUME TypeInv, KeyInv, LockStep, ClientStep, UNCHANGED serverVars
    PROVE  LockStep'
<1>1. LinkInv' /\ srvUp' = srvUp /\ asleep' = asleep
  BY ClientKeepsLink DEF LockStep, ClientStep, serverVars
<1>2. CASE GetArgOk
  BY <1>1, <1>2, ArgReplyKeepsStep DEF LockStep
<1>3. ASSUME ~GetArgOk PROVE Sleepers'
  <2> SUFFICES ASSUME cPc \in {"getArgOk", "bye", "end", "getBye"} \cup ClientDone
               PROVE  cPc' \in {"getArgOk", "bye", "end", "getBye"} \cup ClientDone
    BY <1>1 DEF LockStep, Sleepers
  <2>1. SendSealed => cPc \in {"bye", "end"} /\ cPc' \in {AfterSend[cPc], "end", "dead", "crashed"}
    BY DEF SendSealed, SealedSends, GoesTo, Leaves, ProcessEnds, ClientDone
  <2>2. AfterSend["bye"] = "end" /\ AfterSend["end"] = "getBye"
    BY DEF AfterSend
  <2>3. ReplyAborts \/ GetBye => cPc' \in ClientDone
    BY DEF ReplyAborts, GetBye, ProcessEnds, ClientDone
  <2>4. SendSealed \/ ReplyAborts \/ GetBye
    BY <1>3 DEF ClientStep, SendPlain, PlainSends, GetHelo, GetPubKey, GetSegment, GetRedyBack,
                GetVolOk, GetMedia, ClientDone
  <2> QED  BY <2>1, <2>2, <2>3, <2>4 DEF ClientDone
<1> QED
  BY <1>1, <1>2, <1>3, SendPlainKeepsStep, SendSealedKeepsStep, HandshakeReadsKeepStep,
     SegmentKeepsStep, RepliesKeepStep, EndKeepsStep
     DEF LockStep, ClientStep

\* A stopped server leaves what is on its way to the client, and nothing else.
LEMMA ShutdownKeepsStep ==
    ASSUME TypeInv, LockStep, ServerShutdown, UNCHANGED clientVars
    PROVE  LockStep'
<1>1. /\ ~srvUp' /\ c2s' = <<>> /\ asleep' = <<>> /\ sPc' \in ServerDone
      /\ UNCHANGED <<s2c, cGone, sUseEnc, sEnc, sRemoteKey, sSeg, sNum, sI, sArg, applied, SessionKey>>
      /\ UNCHANGED <<cPc, cI, cAcked>>
  BY DEF ServerShutdown, ServerDone, clientVars, SessionKey
<1>2. Quiet => Lost'
  BY <1>1 DEF Quiet, Lost
<1>3. Asked({"enc"}, "none", {"getEnc"}) => Lost'
  BY <1>1 DEF Asked, Lost, Quiet
<1>4. \A texts, key, places : Asked(texts, key, places) => Lost'
  BY <1>1 DEF Asked, Lost, Quiet
<1>5. \A places : Works(places) => Lost'
  BY <1>2 DEF Works
<1>6. \A texts, key, places : Answered(texts, key, places) => Answered(texts, key, places)'
  BY <1>1 DEF Answered, On
<1>7. \A places : Turn(places) => Turn(places)'
  BY <1>1 DEF Turn, Quiet
<1>8. \A texts : Replied(texts) => Replied(texts)'
  BY <1>1 DEF Replied, Answered, On
<1>9. Segments => Segments'
  BY <1>1 DEF Segments
<1>10. sPc' # "segment" /\ Len(c2s') = 0 /\ sPc' # "setVolume"
  BY <1>1 DEF ServerDone
<1>11. LinkInv' /\ Sleepers'
  BY <1>1 DEF LockStep, LinkInv, Sleepers
<1>12. HandshakeStep'
  <2>1. HandshakeStep
    BY DEF LockStep
  <2> QED
    BY <1>1, <1>2, <1>4, <1>5, <1>6, <1>7, <1>9, <1>10, <2>1 DEF HandshakeStep, Lost
<1>13. CommandStep'
  <2>1. CommandStep
    BY DEF LockStep
  <2> QED
    BY <1>1, <1>2, <1>4, <1>5, <1>6, <1>7, <1>8, <2>1 DEF CommandStep, Lost, Announced
<1>14. Pending' /\ MixerInStep'
  BY <1>1, <1>10 DEF LockStep, Pending, MixerInStep, NotAsked
<1> QED  BY <1>11, <1>12, <1>13, <1>14 DEF LockStep

LEMMA NextKeepsStep == TypeInv /\ KeyInv /\ LockStep /\ [Next]_vars => LockStep'
<1> SUFFICES ASSUME TypeInv, KeyInv, LockStep, [Next]_vars PROVE LockStep'
  OBVIOUS
<1>1. CASE ServerActs
  BY <1>1, ChildKeepsStep DEF ServerActs
<1>2. CASE ClientActs
  BY <1>2, ClientKeepsStep DEF ClientActs
<1>3. CASE ServerShutdown /\ UNCHANGED clientVars
  BY <1>3, ShutdownKeepsStep
<1>4. CASE ClientKilled /\ UNCHANGED serverVars
  <2>1. cGone' = TRUE /\ cPc' \in ClientDone /\ UNCHANGED <<srvUp, c2s, sPc, sEnc, sUseEnc, asleep>>
    BY <1>4 DEF ClientKilled, ProcessEnds, ClientDone, serverVars
  <2>2. LinkInv' /\ Sleepers'
    BY <2>1 DEF LockStep, LinkInv, Sleepers
  <2> QED  BY <1>4, <2>1, <2>2, EndKeepsStep DEF LockStep
<1>5. CASE UNCHANGED vars
  BY <1>5 DEF vars, wireVars, serverVars, clientVars, LockStep, LinkInv, HandshakeStep, CommandStep,
              Sleepers, Pending, MixerInStep, NextOnly, NotAsked, Works, Turn, Asked, Answered, Replied, Lost,
              Quiet, On, Segments, Announced, SessionKey
<1> QED  BY <1>1, <1>2, <1>3, <1>4, <1>5 DEF Next

LEMMA StepAlways == Spec => [](TypeInv /\ KeyInv /\ LockStep)
BY InitTypes, InitKeys, InitStep, NextKeepsTypes, NextKeepsKeys, NextKeepsStep, PTL DEF Spec

-----------------------------------------------------------------------------
(***************************************************************************)
(* What sendVolCmd() counts as set, amixer has set: for any number of      *)
(* channels, encrypted or not, whoever dies when.                          *)
(***************************************************************************)
THEOREM AckedApplied == Spec => []AckedWereApplied
<1>1. TypeInv /\ LockStep => AckedWereApplied
  <2> SUFFICES ASSUME TypeInv, LockStep, NEW i \in cAcked
               PROVE  \E k \in 1..Len(applied) : applied[k] = i
    BY DEF AckedWereApplied
  <2>1. applied \in Seq(Nat)
    BY DEF TypeInv, TypeOK, ServerTypeOK
  <2>2. i \in 1..Len(applied)
    BY <2>1 DEF LockStep, MixerInStep
  <2> QED  BY <2>2 DEF LockStep, MixerInStep
<1> QED  BY <1>1, StepAlways, PTL

(***************************************************************************)
(* While a volume command awaits a reply the stream holds one write, so no *)
(* receive() of either program can glue two of them together.              *)
(***************************************************************************)
THEOREM NeverGlued == Spec => []OneWriteOnTheWire
<1>1. LockStep => OneWriteOnTheWire
  <2> SUFFICES ASSUME LockStep, cPc \in VolReads PROVE Len(c2s) + Len(s2c) <= 1
    BY DEF OneWriteOnTheWire
  <2>1. /\ c2s = <<>> \/ Len(c2s) = 1
        /\ s2c = <<>> \/ Len(s2c) = 1
        /\ c2s = <<>> \/ s2c = <<>>
    BY DEF LockStep, CommandStep, VolReads, Asked, Works, Answered, Replied, Lost, Quiet, On
  <2> DEFINE c == Len(c2s)
             s == Len(s2c)
  <2>2. /\ c2s = <<>> => c = 0
        /\ s2c = <<>> => s = 0
    OBVIOUS
  <2>3. c \in {0, 1} /\ s \in {0, 1} /\ (c = 0 \/ s = 0)
    BY <2>1, <2>2, Zenon
  <2> HIDE DEF c, s
  <2>4. c + s <= 1
    BY <2>3
  <2> QED  BY <2>4 DEF c, s
<1> QED  BY <1>1, StepAlways, PTL

(***************************************************************************)
(* changeVolume() runs for a channel only while the client waits for the   *)
(* answer to it, or is gone.                                               *)
(***************************************************************************)
THEOREM SetsWhenAsked == Spec => AppliesInStep
<1>1. TypeInv /\ LockStep /\ [Next]_vars =>
         [applied' # applied => \/ cPc = "getArgOk" /\ applied'[Len(applied')] = cI + 1
                                \/ cGone]_vars
  <2> SUFFICES ASSUME TypeInv, LockStep, [Next]_vars, applied' # applied, ~cGone
               PROVE  cPc = "getArgOk" /\ applied'[Len(applied')] = cI + 1
    OBVIOUS
  <2>1. ServerStep
    BY DEF Next, ServerActs, ClientActs, ServerShutdown, vars, serverVars
  <2>2. sPc = "setVolume" /\ applied' = Append(applied, sArg) /\ srvUp
    BY <2>1, ChildEffects, ChildRuns DEF LockStep
  <2>3. cPc = "getArgOk"
    BY <2>2 DEF LockStep, LinkInv, MixerInStep, NotAsked
  <2>4. sArg = cI + 1
    BY <2>2, <2>3 DEF LockStep, CommandStep, Asked, Works, Answered, Replied, Lost, InLoop
  <2>5. applied \in Seq(Nat) /\ sArg \in Nat
    BY DEF TypeInv, TypeOK, ServerTypeOK
  <2> QED  BY <2>2, <2>3, <2>4, <2>5
<1> QED  BY <1>1, StepAlways, PTL DEF AppliesInStep, Spec

(***************************************************************************)
(* A session of the two programs, with the server stopping and the client  *)
(* dying at any moment, is a VolumeRequest.                                *)
(***************************************************************************)
THEOREM SessionIsRequest == Spec => ImplementsRequest
<1>1. Init => Request!Init
  BY DEF Init, ServerInit, ClientInit, Request!Init
<1>2. TypeInv /\ KeyInv /\ LockStep /\ [Next]_vars => [Request!Next]_<<applied, cAcked>>
  <2> SUFFICES ASSUME TypeInv, KeyInv, LockStep, [Next]_vars,
                      ~UNCHANGED <<applied, cAcked>>
               PROVE  Request!Next
    OBVIOUS
  <2>1. \/ ServerStep /\ UNCHANGED clientVars
        \/ GetArgOk /\ UNCHANGED serverVars /\ srvUp' = srvUp
    <3>1. ClientActs => GetArgOk /\ UNCHANGED serverVars /\ srvUp' = srvUp
      BY DEF ClientActs, ClientStep, SendPlain, SendSealed, GetHelo, GetPubKey, GetSegment,
             GetRedyBack, ReplyAborts, GetVolOk, GetMedia, GetBye, serverVars
    <3>2. ~(ServerShutdown /\ UNCHANGED clientVars) /\ ~(ClientKilled /\ UNCHANGED serverVars)
          /\ ~UNCHANGED vars
      BY DEF ServerShutdown, ClientKilled, clientVars, serverVars, vars
    <3> QED  BY <3>1, <3>2 DEF Next, ServerActs
  <2>2. CASE ServerStep /\ UNCHANGED clientVars
    <3>1. cAcked' = cAcked /\ applied' # applied
      BY <2>2 DEF clientVars
    <3>2. sPc = "setVolume" /\ applied' = Append(applied, sArg)
      BY <2>2, <3>1, ChildEffects
    <3>3. NextOnly /\ sArg = Len(applied) + 1
      BY <3>2 DEF LockStep, Pending
    <3> QED  BY <3>1, <3>2, <3>3 DEF Request!Next, Request!SetNext, NextOnly
  <2>3. CASE GetArgOk /\ UNCHANGED serverVars /\ srvUp' = srvUp
    <3>1. applied' = applied /\ cAcked' # cAcked
      BY <2>3 DEF serverVars
    <3>2. cAcked' = 1..Len(applied)
      BY <2>3, <3>1, ArgReplyKeepsStep
    <3> QED  BY <3>1, <3>2 DEF Request!Next, Request!Tell
  <2> QED  BY <2>1, <2>2, <2>3
<1> QED  BY <1>1, <1>2, StepAlways, PTL DEF Spec, ImplementsRequest, Request!Spec

-----------------------------------------------------------------------------
(***************************************************************************)
(* Why the two programs do not wait for each other.  A client that reads   *)
(* has asked for something, and a child that has read something writes     *)
(* before it reads again.  The six segments are the exception: the client  *)
(* reads them without asking, and only the usleep() between them keeps its *)
(* count and the child's together.                                         *)
(***************************************************************************)
\* Where the child is to write before it reads, or has ended.
Owes == SendPlaces \cup MediaKeys \cup {"setVolume", "segment", "close"} \cup ServerDone

ReplyDue ==
    cPc \in ClientReads \ {"getSeg"} /\ srvUp => c2s # <<>> \/ s2c # <<>> \/ sPc \in Owes

SegmentDue ==
    Timely /\ cPc = "getSeg" /\ srvUp /\ sPc \in {"getPub", "segment", "getRedy"}
        => Len(s2c) <= 1 /\ sSeg = cSeg + Len(s2c) /\ (sPc = "getRedy" => sSeg = 7)

LEMMA QueuedNotEmpty ==
    ASSUME NEW q \in Seq(Message), NEW m \in Message
    PROVE  Queued(q, m, FALSE, "sent") # <<>> /\ Len(Queued(q, m, FALSE, "sent")) = Len(q) + 1
<1>1. Queued(q, m, FALSE, "sent") = Append(q, m)
  BY DEF Queued
<1>2. Len(Append(q, m)) = Len(q) + 1 /\ Len(q) \in Nat /\ Append(q, m) # <<>>
  BY AppendProperties
<1> QED  BY <1>1, <1>2

LEMMA ChildKeepsDue ==
    ASSUME TypeInv, LockStep, ReplyDue, SegmentDue, ServerStep, UNCHANGED clientVars
    PROVE  ReplyDue' /\ SegmentDue'
<1>1. /\ UNCHANGED <<cPc, cSeg, srvUp, cGone>> /\ ChildInv
      /\ c2s \in Seq(Message) /\ s2c \in Seq(Message)
      /\ sSeg \in 1..7 /\ cSeg \in 1..7
  BY ChildRuns, TypeIsChild
     DEF LockStep, clientVars, TypeInv, TypeOK, WireTypeOK, ServerTypeOK, ClientTypeOK
<1>2. cPc \in ClientReads => cGone = FALSE
  BY DEF LockStep, LinkInv, ClientReads, ClientDone, TypeInv, TypeOK, WireTypeOK
<1>3. ReplyDue'
  <2> SUFFICES ASSUME cPc \in ClientReads \ {"getSeg"}, srvUp
               PROVE  c2s' # <<>> \/ s2c' # <<>> \/ sPc' \in Owes
    BY <1>1 DEF ReplyDue
  <2>1. cGone = FALSE
    BY <1>2
  <2>2. CASE SendReply
    <3> DEFINE m == Msg(ServerSends[sPc].text, 0,
                        IF ServerSends[sPc].seal /\ sEnc THEN "server" ELSE "none")
    <3>1. s2c' = Queued(s2c, m, FALSE, "sent")
      BY <2>1, <2>2 DEF SendReply, SendOutcomes
    <3>2. m \in Message
      BY <2>2, SendTable, MessageTyped DEF SendReply, Keys
    <3> HIDE DEF m
    <3> QED  BY <1>1, <3>1, <3>2, QueuedNotEmpty
  <2>3. CASE SendSegment
    <3>1. s2c' = Queued(s2c, Msg("seg", sSeg, "none"), FALSE, "sent")
      BY <2>1, <2>3 DEF SendSegment, SendOutcomes
    <3>2. Msg("seg", sSeg, "none") \in Message
      BY <1>1, MessageTyped DEF Keys, Texts
    <3> QED  BY <1>1, <3>1, <3>2, QueuedNotEmpty
  <2>4. CASE GetEnc \/ GetPub \/ GetRedy \/ GetCommand \/ GetNum \/ GetArg
    BY <2>4, SendTable DEF GetEnc, GetPub, GetRedy, GetCommand, GetNum, GetArg, Received, CommandPlace,
                           Owes, MediaKeys, ServerDone
  <2>5. CASE LoopTest
    <3>1. sPc \notin Owes /\ UNCHANGED <<c2s, s2c>>
      BY <2>5, SendTable DEF LoopTest, Owes, MediaKeys, ServerDone
    <3> QED  BY <3>1 DEF ReplyDue
  <2>6. CASE SegmentCrash \/ PressKey \/ SetVolume \/ CloseClient \/ Wakes
    BY <2>6, SendTable DEF SegmentCrash, PressKey, SetVolume, CloseClient, Wakes, Owes, MediaKeys,
                           ServerDone
  <2> QED  BY <2>2, <2>3, <2>4, <2>5, <2>6 DEF ServerStep
<1>4. SegmentDue'
  <2> SUFFICES ASSUME Timely, cPc = "getSeg", srvUp, sPc' \in {"getPub", "segment", "getRedy"}
               PROVE  /\ Len(s2c') <= 1 /\ sSeg' = cSeg + Len(s2c')
                      /\ sPc' = "getRedy" => sSeg' = 7
    BY <1>1 DEF SegmentDue
  <2>1. cGone = FALSE
    BY <1>2 DEF ClientReads
  <2>2. CASE Asked({"pubkey"}, "none", {"getPub"} \cup GaveUp)
    <3>1. CASE sPc = "getPub"
      <4>1. UNCHANGED <<s2c, sSeg>> /\ sPc' = "segment"
        BY <1>1, <2>2, <3>1, ChildReads DEF Asked, On, LockStep, LinkInv
      <4> QED  BY <3>1, <4>1 DEF SegmentDue
    <3>2. CASE sPc \in GaveUp
      BY <3>2, ChildRuns, ChildActs
         DEF LockStep, Sleepers, ClientDone, CloseClient, GaveUp, ServerDone
    <3> QED  BY <2>2, <3>1, <3>2 DEF Asked
  <2>3. CASE c2s = <<>> /\ Segments /\ (srvUp => sPc \in {"segment", "getRedy"})
    <3>1. sPc = "segment" /\ sRemoteKey
      BY <1>1, <2>1, <2>3, ChildWaits DEF ServerReads, LockStep, HandshakeStep
    <3>2. SendSegment
      BY <3>1, ChildActs DEF SegmentCrash
    <3>3. /\ s2c = <<>> /\ sSeg' = sSeg + 1
          /\ s2c' = Queued(s2c, Msg("seg", sSeg, "none"), FALSE, "sent")
      BY <2>1, <3>2 DEF SendSegment, SendOutcomes
    <3>4. Msg("seg", sSeg, "none") \in Message
      BY <1>1, MessageTyped DEF Keys, Texts
    <3>5. Len(s2c') = Len(s2c) + 1 /\ Len(s2c) = 0
      BY <1>1, <3>3, <3>4, QueuedNotEmpty
    <3>6. sSeg = cSeg + Len(s2c)
      BY <3>1 DEF SegmentDue
    <3>7. sSeg = cSeg
      <4> DEFINE l == Len(s2c)
      <4>1. l = 0 /\ sSeg = cSeg + l
        BY <3>5, <3>6
      <4> HIDE DEF l
      <4> QED  BY <1>1, <4>1
    <3>8. Len(s2c') = 1
      <4> DEFINE l == Len(s2c)
                 k == Len(s2c')
      <4>1. l = 0 /\ k = l + 1
        BY <3>5
      <4> HIDE DEF l, k
      <4>2. k = 1
        BY <4>1
      <4> QED  BY <4>2 DEF k
    <3> DEFINE k == Len(s2c')
    <3>9. k = 1
      BY <3>8
    <3> HIDE DEF k
    <3>10. k <= 1 /\ sSeg' = cSeg + k
      BY <1>1, <3>3, <3>7, <3>9
    <3>11. sPc' = "getRedy" => sSeg = 6
      BY <2>1, <3>2 DEF SendSegment, SendOutcomes
    <3>12. sPc' = "getRedy" => sSeg' = 7
      BY <3>3, <3>11
    <3> QED  BY <3>10, <3>12 DEF k
  <2> QED  BY <2>2, <2>3 DEF LockStep, HandshakeStep, Lost
<1> QED  BY <1>3, <1>4

LEMMA ClientKeepsDue ==
    ASSUME TypeInv, KeyInv, LockStep, SegmentDue, ClientStep, UNCHANGED serverVars
    PROVE  ReplyDue' /\ SegmentDue'
<1>1. /\ UNCHANGED <<sPc, sSeg, srvUp>> /\ HangUp = ~srvUp
      /\ c2s \in Seq(Message) /\ s2c \in Seq(Message) /\ srvUp \in BOOLEAN
      /\ sSeg \in 1..7 /\ cSeg \in 1..7
  BY DEF serverVars, HangUp, ClientStep, TypeInv, TypeOK, WireTypeOK, ServerTypeOK, ClientTypeOK
<1>2. CASE SendPlain
  <2>1. PICK o \in SendOutcomes(HangUp) :
           /\ c2s' = Queued(c2s, Msg(PlainText[cPc], 0, "none"), HangUp, o)
           /\ \/ /\ o = "sent" /\ cPc # "errPub"
                 /\ GoesTo(CASE cPc = "encReq" -> IF cUseEnc THEN "getPub" ELSE "getRedy"
                             [] cPc = "pubKey" -> "getSeg"
                             [] cPc = "redy"   -> "getRedy")
                 /\ UNCHANGED <<s2c, cGone>>
              \/ /\ o = "fail" \/ (o = "sent" /\ cPc = "errPub")
                 /\ Leaves("failure")
                 /\ UNCHANGED <<s2c, cGone>>
              \/ /\ o = "sigpipe"
                 /\ ProcessEnds("dead")
                 /\ UNCHANGED cStatus
    BY <1>2 DEF SendPlain
  <2>2. cPc \in {"encReq", "errPub", "pubKey", "redy"} /\ cSeg' = cSeg
    BY <1>2 DEF SendPlain, PlainSends
  <2>3. PlainText[cPc] \in Texts
    BY <2>2 DEF PlainText, Texts
  <2>4. Msg(PlainText[cPc], 0, "none") \in Message
    BY <2>3, MessageTyped DEF Keys
  <2>5. srvUp => c2s' # <<>>
    <3> SUFFICES ASSUME srvUp PROVE c2s' # <<>>
      OBVIOUS
    <3>1. c2s' = Queued(c2s, Msg(PlainText[cPc], 0, "none"), FALSE, "sent")
      BY <1>1, <2>1 DEF SendOutcomes
    <3> QED  BY <1>1, <2>4, <3>1, QueuedNotEmpty
  <2>6. cPc' = "getSeg" => cPc = "pubKey" /\ s2c' = s2c
    BY <2>1, <2>2 DEF GoesTo, Leaves, ProcessEnds
  <2>7. SegmentDue'
    <3> SUFFICES ASSUME cPc' = "getSeg", srvUp, sPc \in {"getPub", "segment", "getRedy"}
                 PROVE  /\ Len(s2c') <= 1 /\ sSeg = cSeg + Len(s2c')
                        /\ sPc = "getRedy" => sSeg = 7
      BY <1>1, <2>2 DEF SegmentDue
    <3>1. s2c' = <<>> /\ sPc = "getPub"
      BY <2>6 DEF LockStep, HandshakeStep, Turn, Quiet, GaveUp
    <3>2. sSeg = 1 /\ cSeg = 1
      BY <2>6, <3>1 DEF TypeInv, SegmentsInRange, SegmentsSent
    <3>3. Len(s2c') = 0
      BY <3>1
    <3> QED  BY <3>1, <3>2, <3>3
  <2> QED  BY <1>1, <2>5, <2>7 DEF ReplyDue
<1>3. CASE SendSealed
  <2>1. PICK o \in SendOutcomes(HangUp), m \in SealedMsg : c2s' = Queued(c2s, m, HangUp, o)
    BY <1>3 DEF SendSealed
  <2>2. m \in Message
    <3>1. cPc \in {"command", "num", "arg", "bye", "end"}
      BY <1>3 DEF SendSealed, SealedSends
    <3> DEFINE key == IF cUseEnc /\ cCrypto THEN cKey ELSE "none"
    <3>2. key \in Keys
      <4>1. cKey \in Keys /\ "none" \in Keys
        BY DEF TypeInv, TypeOK, ClientTypeOK, Keys
      <4> QED  BY <4>1
    <3>3. \/ cPc = "command" /\ m = Msg(cCmd, 0, key)
          \/ m = Msg("num", NumChannels, key)
          \/ m = Msg("arg", cI + 1, key) \/ m = Msg("badarg", cI + 1, key)
          \/ m = Msg("bye", 0, key) \/ m = Msg("end", 0, key)
      BY <2>1, <3>1 DEF SealedMsg
    <3> HIDE DEF key
    <3>4. /\ {"num", "arg", "badarg", "bye", "end"} \subseteq Texts
          /\ cPc = "command" => cCmd \in Texts
          /\ NumChannels \in Nat /\ cI + 1 \in Nat
      BY ClientAssumption DEF Texts, TypeInv, TypeOK, ClientTypeOK, LoopInRange, Commands
    <3> QED  BY <3>2, <3>3, <3>4, MessageTyped
  <2>3. srvUp => c2s' # <<>>
    <3> SUFFICES ASSUME srvUp PROVE c2s' # <<>>
      OBVIOUS
    <3>1. c2s' = Queued(c2s, m, FALSE, "sent")
      BY <1>1, <2>1 DEF SendOutcomes
    <3> QED  BY <1>1, <2>2, <3>1, QueuedNotEmpty
  <2>4. cPc' # "getSeg"
    BY <1>3 DEF SendSealed, SealedSends, AfterSend, GoesTo, Leaves, ProcessEnds
  <2> QED  BY <1>1, <2>3, <2>4 DEF ReplyDue, SegmentDue
<1>4. CASE GetSegment
  <2>1. cPc = "getSeg" /\ cPc' \in {"getSeg", "redy", "end"}
    BY <1>4 DEF GetSegment, GoesTo, Leaves
  <2>2. SegmentDue'
    <3> SUFFICES ASSUME Timely, srvUp, sPc \in {"getPub", "segment", "getRedy"}
                 PROVE  /\ Len(s2c') <= 1 /\ sSeg = cSeg' + Len(s2c')
                        /\ sPc = "getRedy" => sSeg = 7
      BY <1>1 DEF SegmentDue
    <3>1. PICK rd \in Reads(s2c, HangUp, "none") :
             /\ s2c' = rd.left
             /\ cSeg' = IF rd.res.len # "eof" THEN cSeg + 1 ELSE IF cSeg <= 3 THEN 4 ELSE 7
      BY <1>4 DEF GetSegment
    <3>2. /\ s2c # <<>> /\ Len(s2c) <= 1 /\ sSeg = cSeg + Len(s2c)
          /\ sPc = "getRedy" => sSeg = 7
      BY <2>1, <3>1, ClientHears DEF SegmentDue
    <3> DEFINE l == Len(s2c)
    <3>3. l \in Nat /\ l # 0 /\ l <= 1 /\ sSeg = cSeg + l
      BY <1>1, <3>2, EmptySeq, LenProperties
    <3> HIDE DEF l
    <3>4. l = 1 /\ sSeg = cSeg + 1
      BY <3>3
    <3>5. Len(s2c) = 1 /\ HangUp \in BOOLEAN
      BY <1>1, <3>4 DEF l
    <3>6. rd.left = <<>> /\ rd.res.len \in {"data", "fail"}
      BY <3>5, ClientHears
    <3>7. cSeg' = cSeg + 1 /\ Len(s2c') = 0
      <4>1. rd.res.len # "eof"
        BY <3>6
      <4>2. s2c' = <<>>
        BY <3>1, <3>6
      <4>3. cSeg' = cSeg + 1
        BY <3>1, <4>1
      <4> QED  BY <4>2, <4>3
    <3> DEFINE k == Len(s2c')
    <3>8. k = 0
      BY <3>7
    <3> HIDE DEF k
    <3>9. k <= 1 /\ sSeg = cSeg' + k
      BY <1>1, <3>4, <3>7, <3>8
    <3> QED  BY <3>2, <3>9 DEF k
  <2> QED  BY <2>1, <2>2 DEF ReplyDue, ClientReads
<1>5. CASE GetHelo \/ GetPubKey \/ GetRedyBack \/ ReplyAborts \/ GetVolOk \/ GetArgOk \/ GetMedia \/ GetBye
  <2>1. cPc' \in {"encReq", "errPub", "pubKey", "command", "num", "arg", "bye", "end", "crashed", "closed"}
    BY <1>5 DEF GetHelo, GetPubKey, GetRedyBack, ReplyAborts, GetVolOk, GetArgOk, GetMedia, GetBye,
                GoesTo, Leaves, ProcessEnds
  <2> QED  BY <2>1 DEF ReplyDue, SegmentDue, ClientReads
<1> QED  BY <1>2, <1>3, <1>4, <1>5 DEF ClientStep

LEMMA DueAlways == Spec => [](TypeInv /\ LockStep /\ ReplyDue /\ SegmentDue)
<1>1. Init => ReplyDue /\ SegmentDue
  BY SendTable DEF Init, ServerInit, ClientInit, ReplyDue, SegmentDue, Owes
<1>2. TypeInv /\ KeyInv /\ LockStep /\ ReplyDue /\ SegmentDue /\ [Next]_vars
         => ReplyDue' /\ SegmentDue'
  <2> SUFFICES ASSUME TypeInv, KeyInv, LockStep, ReplyDue, SegmentDue, [Next]_vars
               PROVE  ReplyDue' /\ SegmentDue'
    OBVIOUS
  <2>1. CASE ServerActs
    BY <2>1, ChildKeepsDue DEF ServerActs
  <2>2. CASE ClientActs
    BY <2>2, ClientKeepsDue DEF ClientActs
  <2>3. CASE ServerShutdown \/ ClientKilled
    BY <2>3 DEF ServerShutdown, ClientKilled, ProcessEnds, ReplyDue, SegmentDue, ClientReads
  <2>4. CASE UNCHANGED vars
    BY <2>4 DEF vars, wireVars, serverVars, clientVars, ReplyDue, SegmentDue
  <2> QED  BY <2>1, <2>2, <2>3, <2>4 DEF Next
<1> QED  BY <1>1, <1>2, StepAlways, PTL DEF Spec

(***************************************************************************)
(* Whoever stops or dies when, a child and a client that both wait for the *)
(* other to write are in one place: the client waits for a segment the     *)
(* child has sent already, glued to another, and the child for its "redy". *)
(***************************************************************************)
THEOREM WaitsOnlyAtSegments ==
    Spec => [](ServerBlocked /\ ClientBlocked => cPc = "getSeg" /\ sPc = "getRedy" /\ ~Timely)
<1>1. TypeInv /\ LockStep /\ ReplyDue /\ SegmentDue =>
         (ServerBlocked /\ ClientBlocked => cPc = "getSeg" /\ sPc = "getRedy" /\ ~Timely)
  <2> SUFFICES ASSUME TypeInv, LockStep, ReplyDue, SegmentDue,
                      sPc \in ServerReads, c2s = <<>>, cPc \in ClientReads, s2c = <<>>, srvUp
               PROVE  cPc = "getSeg" /\ sPc = "getRedy" /\ ~Timely
    BY DEF ServerBlocked, ClientBlocked, HangUp
  <2>1. sPc \notin Owes
    BY SendTable DEF Owes, ServerReads, MediaKeys, ServerDone
  <2>2. cPc = "getSeg"
    BY <2>1 DEF ReplyDue
  <2>3. Len(c2s) = 0 /\ Len(s2c) = 0
    OBVIOUS
  <2>4. Segments /\ sPc = "getRedy"
    BY <2>2, <2>3 DEF LockStep, HandshakeStep, Asked, On, Lost, ServerReads
  <2>5. Timely => sSeg = cSeg /\ sSeg = 7
    <3> DEFINE l == Len(s2c)
    <3>1. l = 0 /\ cSeg \in Nat /\ (Timely => sSeg = cSeg + l /\ sSeg = 7)
      BY <2>2, <2>3, <2>4 DEF SegmentDue, TypeInv, TypeOK, ClientTypeOK
    <3> HIDE DEF l
    <3> QED  BY <3>1
  <2>6. cSeg \in 1..6
    BY <2>2 DEF TypeInv, SegmentsInRange
  <2> QED  BY <2>2, <2>4, <2>5, <2>6
<1> QED  BY <1>1, DueAlways, PTL

(***************************************************************************)
(* With a client that reads each segment within the usleep() after it, the *)
(* two programs never wait for each other.                                 *)
(***************************************************************************)
THEOREM NobodyWaits == ASSUME Timely PROVE Spec => []NoMutualWait
<1>1. (ServerBlocked /\ ClientBlocked => cPc = "getSeg" /\ sPc = "getRedy" /\ ~Timely) => NoMutualWait
  BY DEF NoMutualWait
<1> QED  BY <1>1, WaitsOnlyAtSegments, PTL

=============================================================================
