-------------------------- MODULE ServerChildProofs --------------------------
(***************************************************************************)
(* Facts about the server's child alone, whoever its client is, that the   *)
(* proofs about Session and AndroidSession cite.                           *)
(***************************************************************************)
EXTENDS ServerChild, WireProofs

\* The counter stays within the six segments while it is in use.
SegmentsSent ==
    /\ sPc \in {"helo", "getEnc", "refuse", "pubKey", "getPub", "errPub"} => sSeg = 1
    /\ sPc = "segment" => sSeg \in 1..6

ChildInv == WireTypeOK /\ ServerTypeOK /\ SegmentsSent

\* One write is on a stream, with one of these texts, sealed with that key.
On(q, texts, key) == Len(q) = 1 /\ q[1].text \in texts /\ q[1].key = key

Quiet == c2s = <<>> /\ s2c = <<>>

\* The client is to write; it has written; the child works on it; it has
\* answered; the server was stopped before it could.
Turn(places) == Quiet /\ (srvUp => sPc \in places)
Asked(texts, key, places) == On(c2s, texts, key) /\ s2c = <<>> /\ srvUp /\ sPc \in places
Works(places) == Quiet /\ srvUp /\ sPc \in places
Answered(texts, key, places) == c2s = <<>> /\ On(s2c, texts, key) /\ (srvUp => sPc \in places)
Lost == Quiet /\ ~srvUp

-----------------------------------------------------------------------------
(***************************************************************************)
(* Where the sends of the server are and where they lead.                  *)
(***************************************************************************)
LEMMA SendTable ==
    /\ SendPlaces = {"helo", "refuse", "pubKey", "errPub", "redy", "bye", "unknown", "okPlay",
                     "okNext", "okPrev", "noKey", "okVol", "okNum", "okArg", "errArg", "end"}
    /\ \A place \in SendPlaces :
          /\ ServerSends[place].text \in Texts
          /\ ServerSends[place].text = "redy" => place = "redy" /\ ServerSends[place].seal
          /\ ServerSends[place].ok \in ServerReads \cup {"end", "loop", "close"}
          /\ ServerSends[place].bad \subseteq {"end", "close", "getCmd"}
          /\ ServerSends[place].ok \in {"getEnc", "getPub"} => place \in {"helo", "pubKey"}
          /\ ServerSends[place].ok = "getEnc" => place = "helo"
BY DEF SendPlaces, ServerSends, ServerSend, ServerReads, Texts

LEMMA MessageTyped ==
    ASSUME NEW t \in Texts, NEW a \in Nat, NEW k \in Keys
    PROVE  Msg(t, a, k) \in Message
BY DEF Msg, Message

(***************************************************************************)
(* Every step of the child keeps the types and the counter in range.       *)
(***************************************************************************)
LEMMA ChildKeepsTypes ==
    ASSUME ChildInv, ServerStep
    PROVE  ChildInv'
<1> USE DEF ChildInv
<1>1. cGone' = cGone /\ srvUp' = srvUp
  BY DEF ServerStep
<1>2. SUFFICES c2s' \in Seq(Message) /\ s2c' \in Seq(Message) /\ ServerTypeOK' /\ SegmentsSent'
  BY <1>1 DEF WireTypeOK
<1>3. /\ c2s \in Seq(Message) /\ s2c \in Seq(Message) /\ cGone \in BOOLEAN
  BY DEF WireTypeOK
<1>4. CASE SendReply
  <2>1. PICK o \in SendOutcomes(cGone) :
           /\ s2c' = Queued(s2c, Msg(ServerSends[sPc].text, 0,
                                     IF ServerSends[sPc].seal /\ sEnc THEN "server" ELSE "none"),
                            cGone, o)
           /\ sPc' \in CASE o = "sent"    -> {ServerSends[sPc].ok}
                         [] o = "fail"    -> ServerSends[sPc].bad
                         [] o = "sigpipe" -> {"dead"}
    BY <1>4 DEF SendReply
  <2>2. sPc \in SendPlaces /\ UNCHANGED <<c2s, sUseEnc, sEnc, sRemoteKey, sSeg, sNum, sI, sArg,
                                          applied, pressed, asleep>>
    BY <1>4 DEF SendReply
  <2>3. s2c' \in Seq(Message)
    BY <1>3, <2>1, <2>2, SendTable, MessageTyped, QueuedMessages DEF Keys
  <2>4. sPc' \in {ServerSends[sPc].ok} \cup ServerSends[sPc].bad \cup {"dead"}
    BY <2>1 DEF SendOutcomes
  <2>5. sPc' \in ServerPlaces
    BY <2>2, <2>4, SendTable DEF ServerPlaces, ServerWork, ServerReads, ServerDone
  <2>6. sPc' \in {"helo", "getEnc", "refuse", "pubKey", "getPub", "errPub"} => sSeg = 1
    BY <2>2, <2>4, SendTable DEF SegmentsSent, ServerReads
  <2>7. sPc' # "segment"
    BY <2>2, <2>4, SendTable DEF ServerReads
  <2> QED  BY <1>1, <1>3, <2>2, <2>3, <2>5, <2>6, <2>7 DEF ServerTypeOK, SegmentsSent
<1>5. CASE SendSegment
  <2>1. sSeg \in 1..6 /\ sSeg' = sSeg + 1
    BY <1>5 DEF SendSegment, SegmentsSent
  <2>2. s2c' \in Seq(Message)
    BY <1>3, <1>5, <2>1, MessageTyped, QueuedMessages DEF SendSegment, Keys, Texts
  <2>3. sPc' \in {"dead", "end", "getRedy", "segment"} /\ (sPc' = "segment" => sSeg # 6)
    BY <1>5 DEF SendSegment, SendOutcomes
  <2>4. sPc' \in ServerPlaces
    BY <2>3, SendTable DEF ServerPlaces, ServerWork, ServerReads, ServerDone
  <2> QED
    BY <1>1, <1>3, <1>5, <2>1, <2>2, <2>3, <2>4 DEF SendSegment, ServerTypeOK, SegmentsSent
<1>6. CASE SegmentCrash
  BY <1>1, <1>3, <1>6 DEF SegmentCrash, ServerTypeOK, SegmentsSent, ServerPlaces, ServerDone
<1>7. CASE GetEnc
  <2>1. c2s' \in Seq(Message)
    BY <1>3, <1>7, ReadsResult DEF GetEnc
  <2>2. sPc' \in {"pubKey", "refuse", "redy", "end"} /\ sEnc' \in BOOLEAN /\ sPc = "getEnc"
    BY <1>7 DEF GetEnc, ServerTypeOK
  <2> QED
    BY <1>1, <1>3, <1>7, <2>1, <2>2, SendTable DEF GetEnc, ServerTypeOK, SegmentsSent, ServerPlaces
<1>8. CASE GetPub
  <2>1. c2s' \in Seq(Message)
    BY <1>3, <1>8, ReadsResult DEF GetPub
  <2>2. sPc' \in {"errPub", "segment"} /\ sRemoteKey' \in BOOLEAN /\ sPc = "getPub"
    BY <1>8 DEF GetPub
  <2> QED
    BY <1>1, <1>3, <1>8, <2>1, <2>2, SendTable
       DEF GetPub, ServerTypeOK, SegmentsSent, ServerPlaces, ServerWork
<1>9. CASE GetRedy
  <2>1. c2s' \in Seq(Message)
    BY <1>3, <1>9, ReadsResult DEF GetRedy
  <2>2. sPc' \in {"redy", "end"}
    BY <1>9 DEF GetRedy
  <2> QED
    BY <1>1, <1>3, <1>9, <2>1, <2>2, SendTable DEF GetRedy, ServerTypeOK, SegmentsSent, ServerPlaces
<1>10. CASE GetCommand
  <2>1. c2s' \in Seq(Message)
    BY <1>3, <1>10, ReadsResult DEF GetCommand
  <2>2. sPc' \in {"bye", "play", "next", "prev", "okVol", "unknown", "crashed", "end"}
    BY <1>10 DEF GetCommand, Received, CommandPlace
  <2> QED
    BY <1>1, <1>3, <1>10, <2>1, <2>2, SendTable
       DEF GetCommand, ServerTypeOK, SegmentsSent, ServerPlaces, ServerWork, ServerDone
<1>11. CASE PressKey
  <2>1. /\ sPc' \in {"okPlay", "okNext", "okPrev", "noKey"}
        /\ pressed' \in {pressed, [pressed EXCEPT ![sPc] = @ + 1]} /\ sPc \in MediaKeys
    BY <1>11, ServerAssumption DEF PressKey, Pressed, MediaKeys
  <2>2. pressed' \in [MediaKeys -> Nat]
    <3>1. pressed \in [MediaKeys -> Nat]
      BY DEF ServerTypeOK
    <3> QED  BY <2>1, <3>1
  <2> QED
    BY <1>1, <1>3, <1>11, <2>1, <2>2, SendTable DEF PressKey, ServerTypeOK, SegmentsSent, ServerPlaces
<1>12. CASE GetNum
  <2>1. PICK rd \in Reads(c2s, cGone, SessionKey) :
           /\ c2s' = rd.left
           /\ sNum' = IF rd.res.head = "num" THEN rd.res.arg ELSE 0
           /\ sPc' = Received(rd.res, "okNum")
    BY <1>12 DEF GetNum
  <2>2. c2s' \in Seq(Message) /\ sNum' \in Nat
    BY <1>3, <2>1, ReadsResult DEF Result
  <2>3. sPc' \in {"okNum", "crashed", "end"}
    BY <2>1 DEF Received
  <2> QED
    BY <1>1, <1>3, <1>12, <2>2, <2>3, SendTable
       DEF GetNum, ServerTypeOK, SegmentsSent, ServerPlaces, ServerDone
<1>13. CASE LoopTest
  BY <1>1, <1>3, <1>13 DEF LoopTest, ServerTypeOK, SegmentsSent, ServerPlaces, ServerReads
<1>14. CASE GetArg
  <2>1. PICK rd \in Reads(c2s, cGone, SessionKey) :
           /\ c2s' = rd.left
           /\ sArg' = rd.res.arg
           /\ sPc' = Received(rd.res, IF Parses(rd.res.head) THEN "setVolume" ELSE "errArg")
    BY <1>14 DEF GetArg
  <2>2. c2s' \in Seq(Message) /\ sArg' \in Nat
    BY <1>3, <2>1, ReadsResult DEF Result
  <2>3. sPc' \in {"setVolume", "errArg", "crashed", "end"}
    BY <2>1 DEF Received
  <2> QED
    BY <1>1, <1>3, <1>14, <2>2, <2>3, SendTable
       DEF GetArg, ServerTypeOK, SegmentsSent, ServerPlaces, ServerWork, ServerDone
<1>15. CASE SetVolume
  <2>1. applied' \in Seq(Nat) /\ sPc' \in {"okArg", "errArg"}
    <3>1. applied \in Seq(Nat) /\ sArg \in Nat
      BY DEF ServerTypeOK
    <3>2. Append(applied, sArg) \in Seq(Nat)
      BY <3>1
    <3>3. applied' \in {applied, Append(applied, sArg)} /\ sPc' \in {"okArg", "errArg"}
      BY <1>15 DEF SetVolume
    <3> QED  BY <3>1, <3>2, <3>3
  <2>2. asleep' \in Seq([num : Nat, i : Nat])
    <3>1. /\ asleep \in Seq([num : Nat, i : Nat])
          /\ [num |-> sNum, i |-> sI] \in [num : Nat, i : Nat]
      BY DEF ServerTypeOK
    <3>2. Append(asleep, [num |-> sNum, i |-> sI]) \in Seq([num : Nat, i : Nat])
      BY <3>1, AppendProperties
    <3>3. asleep' \in {asleep, Append(asleep, [num |-> sNum, i |-> sI])}
      BY <1>15 DEF SetVolume
    <3> QED  BY <3>1, <3>2, <3>3
  <2> QED
    BY <1>1, <1>3, <1>15, <2>1, <2>2, SendTable
       DEF SetVolume, ServerTypeOK, SegmentsSent, ServerPlaces
<1>16. CASE CloseClient
  BY <1>1, <1>3, <1>16 DEF CloseClient, ServerTypeOK, SegmentsSent, ServerPlaces, ServerDone
<1>17. CASE Wakes
  <2>1. asleep \in Seq([num : Nat, i : Nat]) /\ asleep # <<>>
    BY <1>17 DEF Wakes, ServerTypeOK
  <2>2. Len(asleep) \in 1..Len(asleep)
    BY <2>1, EmptySeq, LenProperties
  <2>3. asleep[Len(asleep)] \in [num : Nat, i : Nat]
    BY <2>1, <2>2, ElementOfSeq
  <2>4. asleep' \in Seq([num : Nat, i : Nat]) /\ sNum' \in Nat /\ sI' \in Nat
    <3>1. SubSeq(asleep, 1, Len(asleep) - 1) \in Seq([num : Nat, i : Nat])
      <4>1. ASSUME NEW j \in 1..(Len(asleep) - 1)
            PROVE  asleep[j] \in [num : Nat, i : Nat]
        <5>1. j \in 1..Len(asleep)
          BY <2>2
        <5> QED  BY <2>1, <5>1, ElementOfSeq
      <4> QED  BY <2>2, <4>1, SubSeqProperties
    <3>2. asleep[Len(asleep)].num \in Nat /\ asleep[Len(asleep)].i \in Nat
      BY <2>3
    <3> QED  BY <1>17, <3>1, <3>2 DEF Wakes
  <2>5. sPc' \in {"okArg", "errArg"}
    BY <1>17 DEF Wakes
  <2> QED
    BY <1>1, <1>3, <1>17, <2>4, <2>5, SendTable DEF Wakes, ServerTypeOK, SegmentsSent, ServerPlaces
<1> QED
  BY <1>4, <1>5, <1>6, <1>7, <1>8, <1>9, <1>10, <1>11, <1>12, <1>13, <1>14, <1>15, <1>16, <1>17
     DEF ServerStep

-----------------------------------------------------------------------------
(***************************************************************************)
(* A child that has ended takes a step only where another waits for it,    *)
(* and one that waits for a client that is there and silent takes none.    *)
(***************************************************************************)
LEMMA ChildSteps ==
    ASSUME ServerStep
    PROVE  /\ UNCHANGED <<srvUp, cGone, sUseEnc>>
           /\ sPc \in ServerDone => Wakes /\ asleep # <<>>
           /\ sPc \notin ServerDone => ~Wakes
<1>1. sPc \in ServerDone => Wakes
  BY DEF ServerStep, SendReply, SendPlaces, ServerSends, SendSegment, SegmentCrash, GetEnc, GetPub,
         GetRedy, GetCommand, PressKey, MediaKeys, GetNum, LoopTest, GetArg, SetVolume, CloseClient,
         ServerDone
<1>2. UNCHANGED <<srvUp, cGone, sUseEnc>>
  BY DEF ServerStep, SendReply, SendSegment, SegmentCrash, GetEnc, GetPub, Wakes,
         GetRedy, GetCommand, PressKey, GetNum, LoopTest, GetArg, SetVolume, CloseClient
<1>3. Wakes => asleep # <<>> /\ sPc \in ServerDone
  BY DEF Wakes
<1> QED  BY <1>1, <1>2, <1>3

LEMMA ChildWaits ==
    ASSUME ChildInv, ServerStep, c2s = <<>>, ~cGone
    PROVE  sPc \notin ServerReads
<1>1. \A key : Reads(c2s, cGone, key) = {}
  <2> SUFFICES ASSUME NEW key, NEW rd \in Reads(c2s, cGone, key) PROVE FALSE
    OBVIOUS
  <2>1. c2s \in Seq(Message) /\ cGone \in BOOLEAN
    BY DEF ChildInv, WireTypeOK
  <2> QED  BY <2>1, ReadsTake
<1>2. ~(GetEnc \/ GetPub \/ GetRedy \/ GetCommand \/ GetNum \/ GetArg)
  BY <1>1 DEF GetEnc, GetPub, GetRedy, GetCommand, GetNum, GetArg
<1> QED
  BY <1>2 DEF ServerStep, SendReply, SendPlaces, ServerSends, SendSegment, SegmentCrash,
              PressKey, MediaKeys, LoopTest, SetVolume, CloseClient, Wakes, ServerDone, ServerReads

(***************************************************************************)
(* Where the child is tells what it does next.                             *)
(***************************************************************************)
LEMMA ChildActs ==
    ASSUME ServerStep
    PROVE  /\ sPc \in SendPlaces => SendReply
           /\ sPc = "segment" => SendSegment \/ SegmentCrash
           /\ sPc = "getEnc" => GetEnc
           /\ sPc = "getPub" => GetPub
           /\ sPc = "getRedy" => GetRedy
           /\ sPc = "getCmd" => GetCommand
           /\ sPc = "getNum" => GetNum
           /\ sPc = "loop" => LoopTest
           /\ sPc = "getArg" => GetArg
           /\ sPc = "setVolume" => SetVolume
           /\ sPc = "close" => CloseClient
BY SendTable DEF ServerStep, SendReply, SendSegment, SegmentCrash, GetEnc, GetPub, GetRedy, GetCommand,
                 PressKey, MediaKeys, GetNum, LoopTest, GetArg, SetVolume, CloseClient, Wakes, ServerDone

(***************************************************************************)
(* What the child does to the stream it reads, to the mixer and to those   *)
(* that wait for it.                                                       *)
(***************************************************************************)
LEMMA ChildEffects ==
    ASSUME ServerStep
    PROVE  /\ \/ c2s' = c2s
              \/ \E key : \E rd \in Reads(c2s, cGone, key) : c2s' = rd.left
           /\ applied' # applied => sPc = "setVolume" /\ applied' = Append(applied, sArg)
           /\ sPc' = "setVolume" =>
                \E rd \in Reads(c2s, cGone, SessionKey) :
                   c2s' = rd.left /\ rd.res.head = "arg" /\ sArg' = rd.res.arg
           /\ sPc' = "setVolume" => applied' = applied
           /\ sPc \notin MediaKeys => pressed' = pressed
           /\ sPc # "getEnc" => sEnc' = sEnc
           /\ sPc \notin ServerDone \cup {"setVolume"} => asleep' = asleep
           /\ sPc = "setVolume" /\ asleep' # asleep => sPc' = "errArg"
           /\ sPc \in ServerDone => c2s' = c2s /\ s2c' = s2c /\ sPc' \in {"okArg", "errArg"}
<1>1. CASE SendReply
  <2>1. PICK o \in SendOutcomes(cGone) :
           sPc' \in CASE o = "sent"    -> {ServerSends[sPc].ok}
                      [] o = "fail"    -> ServerSends[sPc].bad
                      [] o = "sigpipe" -> {"dead"}
    BY <1>1 DEF SendReply
  <2>2. sPc' \in {ServerSends[sPc].ok} \cup ServerSends[sPc].bad \cup {"dead"} /\ sPc \in SendPlaces
    BY <1>1, <2>1 DEF SendOutcomes, SendReply
  <2>3. sPc' # "setVolume" /\ sPc \notin ServerDone
    BY <2>2, SendTable DEF ServerReads, ServerDone
  <2> QED  BY <1>1, <2>3 DEF SendReply
<1>2. CASE SendSegment \/ SegmentCrash
  BY <1>2 DEF SendSegment, SegmentCrash, SendOutcomes, ServerDone
<1>3. CASE GetEnc \/ GetPub \/ GetRedy \/ GetCommand \/ GetNum
  BY <1>3 DEF GetEnc, GetPub, GetRedy, GetCommand, GetNum, Received, CommandPlace, ServerDone
<1>4. CASE GetArg
  <2>1. PICK rd \in Reads(c2s, cGone, SessionKey) :
           /\ c2s' = rd.left
           /\ sArg' = rd.res.arg
           /\ sPc' = Received(rd.res, IF Parses(rd.res.head) THEN "setVolume" ELSE "errArg")
    BY <1>4 DEF GetArg
  <2>2. sPc' = "setVolume" => rd.res.head = "arg"
    BY <2>1 DEF Received, Parses
  <2> QED  BY <1>4, <2>1, <2>2 DEF GetArg, ServerDone
<1>5. CASE PressKey \/ LoopTest \/ SetVolume \/ CloseClient
  BY <1>5 DEF PressKey, MediaKeys, LoopTest, SetVolume, CloseClient, ServerDone
<1>6. CASE Wakes
  BY <1>6 DEF Wakes, MediaKeys, ServerDone
<1> QED  BY <1>1, <1>2, <1>3, <1>4, <1>5, <1>6 DEF ServerStep

(***************************************************************************)
(* A reply to a client that is there, on an empty stream, is all there is. *)
(***************************************************************************)
LEMMA ChildReplies ==
    ASSUME ChildInv, SendReply, ~cGone
    PROVE  /\ UNCHANGED <<c2s, sEnc, sRemoteKey, sSeg, sNum, sI, sArg, applied, asleep>>
           /\ sPc' = ServerSends[sPc].ok
           /\ s2c = <<>> =>
                On(s2c', {ServerSends[sPc].text},
                   IF ServerSends[sPc].seal /\ sEnc THEN "server" ELSE "none")
           /\ Len(s2c) = 1 => Len(s2c') = 2 /\ s2c'[1] = s2c[1]
<1> DEFINE m == Msg(ServerSends[sPc].text, 0,
                    IF ServerSends[sPc].seal /\ sEnc THEN "server" ELSE "none")
<1>1. /\ s2c' = Queued(s2c, m, cGone, "sent")
      /\ sPc' = ServerSends[sPc].ok
  BY DEF SendReply, SendOutcomes
<1>2. m \in Message
  BY SendTable, MessageTyped DEF SendReply, Keys
<1>3. /\ m.text = ServerSends[sPc].text
      /\ m.key = IF ServerSends[sPc].seal /\ sEnc THEN "server" ELSE "none"
  BY DEF Msg
<1> HIDE DEF m
<1>4. s2c \in Seq(Message) /\ cGone = FALSE
  BY DEF ChildInv, WireTypeOK
<1>5. /\ s2c = <<>> => Len(s2c') = 1 /\ s2c'[1] = m
      /\ Len(s2c) = 1 => Len(s2c') = 2 /\ s2c'[1] = s2c[1]
  BY <1>1, <1>2, <1>4, QueuedOne
<1> QED  BY <1>1, <1>3, <1>5 DEF SendReply, On

\* What a child does to a request that is all there is on its stream.
LEMMA ChildReads ==
    ASSUME ChildInv, sEnc => sUseEnc, ServerStep, Len(c2s) = 1
    PROVE  /\ sPc = "getEnc" /\ c2s[1].key = "none" =>
                /\ c2s' = <<>> /\ s2c' = s2c
                /\ c2s[1].text = "enc" => sPc' \in {"pubKey", "refuse"}
                /\ c2s[1].text = "noenc" => sPc' = "redy"
           /\ sPc = "getPub" /\ c2s[1].key = "none" /\ c2s[1].text = "pubkey" =>
                /\ c2s' = <<>> /\ s2c' = s2c /\ sSeg' = sSeg
                /\ sRemoteKey' /\ sPc' = "segment"
           /\ sPc = "getRedy" /\ c2s[1].key = "none" /\ c2s[1].text = "redy" =>
                c2s' = <<>> /\ s2c' = s2c /\ sPc' = "redy"
           /\ sPc = "getCmd" /\ c2s[1].key = SessionKey =>
                /\ c2s' = <<>> /\ s2c' = s2c /\ sEnc' = sEnc
                /\ sPc' = CommandPlace(c2s[1].text) /\ UNCHANGED <<applied, pressed>>
           /\ sPc = "getNum" /\ c2s[1].key = SessionKey /\ c2s[1].text = "num" =>
                /\ c2s' = <<>> /\ s2c' = s2c /\ sPc' = "okNum" /\ sEnc' = sEnc
                /\ sNum' = c2s[1].arg /\ sI' = 0
           /\ sPc = "getArg" /\ c2s[1].key = SessionKey =>
                /\ c2s' = <<>> /\ s2c' = s2c /\ sEnc' = sEnc
                /\ sPc' = (IF c2s[1].text = "arg" THEN "setVolume" ELSE "errArg")
                /\ sNum' = sNum /\ sI' = sI + 1 /\ sArg' = c2s[1].arg
                /\ applied' = applied
<1>1. c2s \in Seq(Message) /\ cGone \in BOOLEAN
  BY DEF ChildInv, WireTypeOK
<1>2. CASE sPc = "getEnc" /\ c2s[1].key = "none"
  <2>1. PICK rd \in Reads(c2s, cGone, "none") :
           /\ c2s' = rd.left
           /\ sPc' = CASE rd.res.text = "enc"   -> IF sUseEnc THEN "pubKey" ELSE "refuse"
                       [] rd.res.text = "noenc" -> "redy"
                       [] OTHER                 -> "end"
    BY <1>2, ChildActs DEF GetEnc
  <2>2. rd.left = <<>> /\ rd.res.text = c2s[1].text
    BY <1>1, <1>2, ReadsOne
  <2>3. s2c' = s2c
    BY <1>2, ChildActs DEF GetEnc
  <2> QED  BY <1>2, <2>1, <2>2, <2>3
<1>3. CASE sPc = "getPub" /\ c2s[1].key = "none" /\ c2s[1].text = "pubkey"
  <2>1. PICK rd \in Reads(c2s, cGone, "none") :
           /\ c2s' = rd.left
           /\ sRemoteKey' = (rd.res.text = "pubkey")
           /\ sPc' = IF rd.res.len = "fail" \/ rd.res.text = "err" THEN "errPub" ELSE "segment"
    BY <1>3, ChildActs DEF GetPub
  <2>2. rd.left = <<>> /\ rd.res.text = "pubkey" /\ rd.res.len = "data"
    BY <1>1, <1>3, ReadsOne
  <2>3. s2c' = s2c /\ sSeg' = sSeg
    BY <1>3, ChildActs DEF GetPub
  <2> QED  BY <1>3, <2>1, <2>2, <2>3
<1>4. CASE sPc = "getRedy" /\ c2s[1].key = "none" /\ c2s[1].text = "redy"
  <2>1. PICK rd \in Reads(c2s, cGone, "none") :
           c2s' = rd.left /\ sPc' = IF rd.res.text = "redy" THEN "redy" ELSE "end"
    BY <1>4, ChildActs DEF GetRedy
  <2>2. rd.left = <<>> /\ rd.res.text = "redy"
    BY <1>1, <1>4, ReadsOne
  <2>3. s2c' = s2c
    BY <1>4, ChildActs DEF GetRedy
  <2> QED  BY <1>4, <2>1, <2>2, <2>3
<1>5. CASE sPc = "getCmd" /\ c2s[1].key = SessionKey
  <2>1. PICK rd \in Reads(c2s, cGone, IF sUseEnc /\ sEnc THEN "server" ELSE "none") :
           c2s' = rd.left /\ sPc' = Received(rd.res, CommandPlace(rd.res.text))
    BY <1>5, ChildActs DEF GetCommand
  <2>2. SessionKey = IF sUseEnc /\ sEnc THEN "server" ELSE "none"
    BY DEF SessionKey
  <2>3. rd.left = <<>> /\ rd.res.text = c2s[1].text /\ rd.res.len = "data"
    BY <1>1, <1>5, <2>2, ReadsOne
  <2>4. s2c' = s2c /\ sEnc' = sEnc /\ UNCHANGED <<applied, pressed>>
    BY <1>5, ChildActs DEF GetCommand
  <2> QED  BY <1>5, <2>1, <2>3, <2>4 DEF Received
<1>6. CASE sPc = "getNum" /\ c2s[1].key = SessionKey /\ c2s[1].text = "num"
  <2>1. PICK rd \in Reads(c2s, cGone, SessionKey) :
           /\ c2s' = rd.left
           /\ sNum' = IF rd.res.head = "num" THEN rd.res.arg ELSE 0
           /\ sPc' = Received(rd.res, "okNum")
    BY <1>6, ChildActs DEF GetNum
  <2>2. rd.left = <<>> /\ rd.res.head = "num" /\ rd.res.len = "data" /\ rd.res.arg = c2s[1].arg
    BY <1>1, <1>6, ReadsOne
  <2>3. s2c' = s2c /\ sEnc' = sEnc /\ sI' = 0
    BY <1>6, ChildActs DEF GetNum
  <2> QED  BY <1>6, <2>1, <2>2, <2>3 DEF Received
<1>7. CASE sPc = "getArg" /\ c2s[1].key = SessionKey
  <2>1. PICK rd \in Reads(c2s, cGone, SessionKey) :
           /\ c2s' = rd.left
           /\ sArg' = rd.res.arg
           /\ sPc' = Received(rd.res, IF Parses(rd.res.head) THEN "setVolume" ELSE "errArg")
    BY <1>7, ChildActs DEF GetArg
  <2>2. /\ rd.left = <<>> /\ rd.res.head = c2s[1].text /\ rd.res.len = "data"
        /\ rd.res.arg = c2s[1].arg
    BY <1>1, <1>7, ReadsOne
  <2>3. s2c' = s2c /\ sEnc' = sEnc /\ sNum' = sNum /\ sI' = sI + 1 /\ applied' = applied
    BY <1>7, ChildActs DEF GetArg
  <2> QED  BY <1>7, <2>1, <2>2, <2>3 DEF Received, Parses
<1> QED  BY <1>2, <1>3, <1>4, <1>5, <1>6, <1>7

=============================================================================
