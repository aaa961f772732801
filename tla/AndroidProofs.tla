---------------------------- MODULE AndroidProofs ----------------------------
(***************************************************************************)
(* The safety properties of AndroidSession, for every set of commands, any *)
(* number of them and of channels, and a server of either kind.            *)
(*                                                                         *)
(* The invariant says for every place of the task what is on the two       *)
(* streams and where the child is, as long as the connection is open: it   *)
(* opens once, and nothing is claimed of it once it is closed.             *)
(***************************************************************************)
EXTENDS AndroidSession, ServerChildProofs

\* Where the child may be between two commands: a command that was cut short
\* leaves it in the loop over the arguments it was told of.
Ready == {"getCmd", "loop", "getArg"}

\* The child is asked for nothing, and does nothing for anyone.
Calm == c2s = <<>> /\ sPc \notin {"helo", "getEnc", "setVolume"} \cup MediaKeys

\* What the task waits for the answer to.
Awaits(text, arg) ==
    \/ aPc = "getVolOk" /\ text = "vol"
    \/ aPc = "getMedia" /\ text = aCmd
    \/ aPc = "getArg"   /\ text = "arg" /\ arg = aI + 1

\* Whoever serves the connection has at most the request of the task to read, and
\* works on nothing else.
Strays ==
    /\ sPc \notin {"helo", "getEnc"}
    /\ c2s # <<>> => Len(c2s) = 1 /\ c2s[1].key = "none" /\ Awaits(c2s[1].text, c2s[1].arg)
    /\ sPc = "setVolume" => Awaits("arg", sArg)
    /\ sPc \in MediaKeys => Awaits(sPc, 0)

\* After an "err" that was its last word, the child says "end".  One that waited
\* for it may serve on, but the "end" is what the application reads next.
Over ==
    /\ errors
    /\ \/ s2c = <<>> /\ sPc = "end"
       \/ s2c # <<>> /\ s2c[1].text = "end"
    /\ Strays

\* The child is to answer "err", or has, and may have given up after it.
Refused ==
    \/ Works({"errArg", "unknown", "noKey"})
    \/ Answered({"err"}, "none", Ready \cup {"end"})
    \/ Calm /\ Len(s2c) >= 2 /\ s2c[1].text = "err" /\ s2c[2].text = "end"

Between == {"idle", "host", "connect", "command", "loop", "arg", "next"}

OkPlaces == {"okPlay", "okNext", "okPrev"}
OkPlaceOf(key) == CASE key = "play" -> "okPlay" [] key = "next" -> "okNext" [] key = "prev" -> "okPrev"

LastApplied(arg) == applied # <<>> /\ applied[Len(applied)] = arg

InStep ==
    /\ aPc \in Between => Turn(Ready) \/ Over
    /\ aPc = "getHelo" => Works({"helo"}) \/ Answered({"helo"}, "none", {"getEnc"}) \/ Lost
    /\ aPc = "noenc"   => Turn({"getEnc"})
    /\ aPc = "getRedy" => \/ Asked({"noenc"}, "none", {"getEnc"})
                          \/ Works({"redy"})
                          \/ Answered({"redy"}, "none", {"getCmd"})
                          \/ Lost
    /\ aPc = "getVolOk" => \/ Asked({"vol"}, "none", Ready)
                           \/ Works({"okVol"})
                           \/ Answered({"ok"}, "none", {"getNum"})
                           \/ Refused \/ Over \/ Lost
    /\ aPc = "num"      => Turn({"getNum"})
    /\ aPc = "getNumOk" => \/ Asked({"num"}, "none", {"getNum"})
                           \/ Works({"okNum"})
                           \/ Answered({"ok"}, "none", Ready)
                           \/ Lost
    /\ aPc = "getArg"   => \/ Asked({"arg"}, "none", Ready) /\ c2s[1].arg = aI + 1
                           \/ Works({"setVolume"}) /\ sArg = aI + 1
                           \/ Works({"okArg"}) /\ LastApplied(aI + 1)
                           \/ Answered({"ok"}, "none", Ready) /\ LastApplied(aI + 1)
                           \/ Refused \/ Over \/ Lost
    /\ aPc = "getMedia" => \/ Asked({aCmd}, "none", Ready)
                           \/ Works({aCmd})
                           \/ Works({OkPlaceOf(aCmd)})
                           \/ Answered({"ok", "prev"}, "none", {"getCmd"})
                           \/ Refused \/ Over \/ Lost

LinkInv ==
    /\ cGone => conn = "closed"
    /\ aPc = "dead" => conn = "closed"
    /\ conn # "closed" => ~sEnc
    /\ conn = "absent" => Quiet /\ (srvUp => sPc = "helo")
    /\ ~srvUp => c2s = <<>> /\ sPc \in ServerDone /\ asleep = <<>>

CommandInv ==
    /\ aPc \notin {"idle", "next", "dead"} => aCmd # "none"
    /\ aPc = "getMedia" => aCmd \in MediaKeys
    /\ aPc = "getArg" => aI < MaxChannels

\* The face of the button, when n presses of the key are still to come.
Face(n) == isPaused <=> (pressed["play"] + n) % 2 = 1
ToPress == IF aCmd = "play" THEN 1 ELSE 0

\* While no Main was destroyed, only one command is under way.
InTurn ==
    /\ Busy => bg
    /\ queue # <<>> => aPc = "idle" /\ Len(queue) = 1

ButtonInv ==
    conn # "closed" /\ ~astray =>
        /\ InTurn
        /\ aPc = "idle" => Face(IF queue = <<"play">> THEN 1 ELSE 0)
        /\ aPc \in {"host", "connect", "getHelo", "noenc", "getRedy", "command"} => Face(ToPress)
        /\ aPc \in {"next", "getVolOk", "num", "getNumOk", "loop", "arg", "getArg"} => Face(0)
        /\ aPc = "getMedia" =>
              /\ aCmd # "play" => Face(0)
              /\ aCmd = "play" /\ ~Over =>
                    /\ c2s # <<>> \/ sPc = "play" => Face(1)
                    /\ Works({"okPlay"}) => Face(0)
                    /\ s2c # <<>> /\ s2c[1].text \in {"ok", "prev"} => Face(0)

AppInv ==
    /\ TypeOK /\ SegmentsSent /\ LinkInv /\ CommandInv
    /\ conn = "open" => InStep
    /\ SilenceFollowsError
    /\ ButtonInv

-----------------------------------------------------------------------------
(***************************************************************************)
(* The child, while the application is there and nothing is encrypted.  It *)
(* waits for a request; it takes one; it answers; it gives up.             *)
(***************************************************************************)
LEMMA ChildIdles ==
    ASSUME ChildInv, ServerStep, ~cGone, c2s = <<>>, sPc \in ServerReads \cup {"loop"}
    PROVE  sPc' \in Ready /\ sPc = "loop" /\ UNCHANGED <<c2s, s2c, sEnc, applied, pressed>>
<1>1. sPc = "loop"
  BY ChildWaits
<1>2. LoopTest
  BY <1>1, ChildActs
<1> QED  BY <1>1, <1>2 DEF LoopTest, Ready

LEMMA ChildTakes ==
    ASSUME ChildInv, ServerStep, ~sEnc, NEW text, Asked({text}, "none", Ready)
    PROVE  /\ UNCHANGED <<sEnc, applied, pressed>>
           /\ \/ Asked({text}, "none", Ready)' /\ c2s' = c2s
              \/ /\ Works({CommandPlace(text), IF text = "arg" THEN "setVolume" ELSE "errArg"})'
                 /\ sPc' = "setVolume" => sArg' = c2s[1].arg
<1>1. /\ Len(c2s) = 1 /\ c2s[1].text = text /\ c2s[1].key = SessionKey /\ SessionKey = "none"
      /\ s2c = <<>> /\ srvUp /\ srvUp' = srvUp /\ sPc \in Ready /\ (sEnc => sUseEnc)
  BY ChildSteps DEF Asked, On, SessionKey
<1>2. UNCHANGED <<sEnc, pressed>>
  BY <1>1, ChildEffects DEF Ready, MediaKeys
<1>3. CASE sPc = "loop"
  <2>1. LoopTest
    BY <1>3, ChildActs
  <2> QED  BY <1>1, <1>2, <2>1 DEF LoopTest, Asked, On, Ready
<1>4. CASE sPc = "getCmd"
  <2>1. /\ c2s' = <<>> /\ s2c' = s2c /\ sPc' = CommandPlace(text) /\ applied' = applied
    BY <1>1, <1>4, ChildReads
  <2>2. CommandPlace(text) # "setVolume"
    BY DEF CommandPlace
  <2> QED  BY <1>1, <1>2, <2>1, <2>2 DEF Works, Quiet
<1>5. CASE sPc = "getArg"
  <2>1. /\ c2s' = <<>> /\ s2c' = s2c /\ applied' = applied /\ sArg' = c2s[1].arg
        /\ sPc' = (IF text = "arg" THEN "setVolume" ELSE "errArg")
    BY <1>1, <1>5, ChildReads
  <2> QED  BY <1>1, <1>2, <2>1 DEF Works, Quiet
<1> QED  BY <1>1, <1>3, <1>4, <1>5 DEF Ready

LEMMA ChildAnswers ==
    ASSUME ChildInv, ServerStep, ~cGone, ~sEnc, NEW place \in SendPlaces, Works({place})
    PROVE  /\ UNCHANGED <<sEnc, applied, pressed>>
           /\ Answered({ServerSends[place].text}, "none", {ServerSends[place].ok})'
<1>1. SendReply /\ Quiet /\ srvUp /\ sPc = place
  BY ChildActs DEF Works
<1>2. /\ UNCHANGED <<c2s, sEnc, applied>> /\ sPc' = ServerSends[place].ok
      /\ On(s2c', {ServerSends[place].text}, "none")
  BY <1>1, ChildReplies DEF Quiet
<1>3. pressed' = pressed
  BY <1>1 DEF SendReply
<1> QED  BY <1>1, <1>2, <1>3 DEF Answered, On, Quiet

LEMMA Written ==
    ASSUME NEW q \in Seq(Message), NEW m \in Message
    PROVE  /\ Append(q, m) # <<>>
           /\ q = <<>> => Append(q, m)[1] = m
           /\ q # <<>> => Append(q, m)[1] = q[1]
           /\ Len(q) = 1 => Len(Append(q, m)) = 2 /\ Append(q, m)[2] = m
           /\ Len(q) >= 2 => Len(Append(q, m)) >= 2 /\ Append(q, m)[2] = q[2]
<1> DEFINE both == Append(q, m)
<1>1. both # <<>> /\ Len(both) = Len(q) + 1 /\ Len(q) \in Nat
  BY AppendProperties
<1>2. \A i \in 1..Len(q) : both[i] = q[i]
  OBVIOUS
<1>3. both[Len(q) + 1] = m
  BY AppendProperties, Zenon
<1>4. (q = <<>> <=> Len(q) = 0)
  BY EmptySeq
<1> HIDE DEF both
<1>5. q = <<>> => both[1] = m
  <2>1. q = <<>> => Len(q) + 1 = 1
    BY <1>4
  <2> QED  BY <1>3, <2>1
<1>6. q # <<>> => both[1] = q[1]
  BY <1>1, <1>2, <1>4
<1>7. Len(q) = 1 => Len(both) = 2 /\ both[2] = m
  <2>1. Len(q) = 1 => Len(q) + 1 = 2
    OBVIOUS
  <2> QED  BY <1>1, <1>3, <2>1
<1>8. Len(q) >= 2 => Len(both) >= 2 /\ both[2] = q[2]
  BY <1>1, <1>2
<1> QED  BY <1>1, <1>5, <1>6, <1>7, <1>8 DEF both

(***************************************************************************)
(* Whoever serves the connection, beyond the handshake, takes what it is   *)
(* asked and writes behind what is written.                                *)
(***************************************************************************)
LEMMA ChildWrites ==
    ASSUME ChildInv, ServerStep, ~cGone
    PROVE  s2c' = s2c \/ \E m \in Message : s2c' = Append(s2c, m)
<1>1. CASE SendReply
  <2> DEFINE m == Msg(ServerSends[sPc].text, 0,
                      IF ServerSends[sPc].seal /\ sEnc THEN "server" ELSE "none")
  <2>1. m \in Message
    BY <1>1, SendTable, MessageTyped DEF SendReply, Keys
  <2>2. s2c' = Append(s2c, m)
    BY <1>1 DEF SendReply, SendOutcomes, Queued
  <2> QED  BY <2>1, <2>2
<1>2. CASE SendSegment
  <2>1. Msg("seg", sSeg, "none") \in Message
    BY MessageTyped DEF ChildInv, ServerTypeOK, Texts, Keys
  <2>2. s2c' = Append(s2c, Msg("seg", sSeg, "none"))
    BY <1>2 DEF SendSegment, SendOutcomes, Queued
  <2> QED  BY <2>1, <2>2
<1>3. CASE ~SendReply /\ ~SendSegment
  BY <1>3 DEF ServerStep, SegmentCrash, GetEnc, GetPub, GetRedy, GetCommand, PressKey, GetNum,
              LoopTest, GetArg, SetVolume, CloseClient, Wakes
<1> QED  BY <1>1, <1>2, <1>3

LEMMA ChildGoesOn ==
    ASSUME ChildInv, ServerStep, ~cGone, ~sEnc, sPc \notin {"helo", "getEnc"},
           c2s # <<>> => Len(c2s) = 1 /\ c2s[1].key = "none"
    PROVE  /\ sEnc' = sEnc /\ sPc' \notin {"helo", "getEnc"}
           /\ c2s' = c2s \/ c2s' = <<>>
           /\ sPc' = "setVolume" => c2s # <<>> /\ c2s[1].text = "arg" /\ sArg' = c2s[1].arg
           /\ sPc' \in MediaKeys => c2s # <<>> /\ c2s[1].text = sPc'
<1>1. sEnc' = sEnc /\ SessionKey = "none" /\ (sEnc => sUseEnc)
  BY ChildEffects DEF SessionKey
<1>2. c2s \in Seq(Message) /\ cGone \in BOOLEAN
  BY DEF ChildInv, WireTypeOK
<1>3. CASE sPc \in ServerReads
  <2>1. c2s # <<>> /\ Len(c2s) = 1 /\ c2s[1].key = "none"
    BY <1>3, ChildWaits
  <2>2. c2s' = <<>> \/ c2s' = c2s
    <3>1. ASSUME NEW key, NEW rd \in Reads(c2s, cGone, key) PROVE rd.left = <<>>
      BY <1>2, <2>1, ReadsOne
    <3> QED  BY <3>1, ChildEffects
  <2>3. CASE sPc = "getCmd"
    <3>1. sPc' = CommandPlace(c2s[1].text)
      BY <1>1, <2>1, <2>3, ChildReads
    <3> QED  BY <1>1, <2>1, <2>2, <3>1 DEF CommandPlace, MediaKeys
  <2>4. CASE sPc = "getArg"
    <3>1. sPc' = (IF c2s[1].text = "arg" THEN "setVolume" ELSE "errArg") /\ sArg' = c2s[1].arg
      BY <1>1, <2>1, <2>4, ChildReads
    <3> QED  BY <1>1, <2>1, <2>2, <3>1 DEF MediaKeys
  <2>5. CASE sPc \in {"getPub", "getRedy", "getNum"}
    <3>1. sPc' \in {"errPub", "segment", "redy", "end", "okNum", "crashed"}
      BY <2>5, ChildActs DEF GetPub, GetRedy, GetNum, Received
    <3> QED  BY <1>1, <2>2, <3>1 DEF MediaKeys
  <2> QED  BY <1>3, <2>3, <2>4, <2>5 DEF ServerReads
<1>4. CASE sPc \notin ServerReads
  <2>1. ~(GetEnc \/ GetPub \/ GetRedy \/ GetCommand \/ GetNum \/ GetArg)
    BY <1>4 DEF GetEnc, GetPub, GetRedy, GetCommand, GetNum, GetArg, ServerReads
  <2>2. CASE SendReply
    <3>1. sPc' = ServerSends[sPc].ok /\ sPc \in SendPlaces /\ c2s' = c2s
      BY <2>2, ChildReplies DEF SendReply
    <3>2. sPc' \in ServerReads \cup {"end", "loop", "close"} /\ sPc' # "getEnc"
      BY <3>1, SendTable
    <3> QED  BY <1>1, <3>1, <3>2 DEF ServerReads, MediaKeys
  <2>3. CASE SendSegment
    BY <1>1, <2>3 DEF SendSegment, SendOutcomes, MediaKeys
  <2>4. CASE SegmentCrash \/ PressKey \/ LoopTest \/ SetVolume \/ CloseClient \/ Wakes
    <3>1. c2s' = c2s /\ sPc' \in {"crashed", "noKey", "okPlay", "okNext", "okPrev", "getArg", "getCmd",
                                   "okArg", "errArg", "closed"}
      BY <2>4 DEF SegmentCrash, PressKey, LoopTest, SetVolume, CloseClient, Wakes, MediaKeys
    <3> QED  BY <1>1, <3>1 DEF MediaKeys
  <2> QED  BY <2>1, <2>2, <2>3, <2>4 DEF ServerStep
<1> QED  BY <1>3, <1>4

LEMMA ChildEnds ==
    ASSUME ChildInv, ServerStep, ~cGone, ~sEnc, sPc = "end"
    PROVE  /\ UNCHANGED <<c2s, sEnc, applied, pressed>> /\ sPc' = "close"
           /\ s2c = <<>> => s2c' # <<>> /\ s2c'[1].text = "end"
           /\ Len(s2c) = 1 => Len(s2c') = 2 /\ s2c'[1] = s2c[1] /\ s2c'[2].text = "end"
<1> DEFINE m == Msg("end", 0, "none")
<1>1. UNCHANGED <<c2s, sEnc, applied, pressed>> /\ sPc' = "close" /\ s2c' = Append(s2c, m)
  BY ChildActs, SendTable DEF SendReply, ServerSends, ServerSend, SendOutcomes, Queued
<1>2. m \in Message /\ m.text = "end" /\ s2c \in Seq(Message)
  BY MessageTyped DEF Texts, Keys, Msg, ChildInv, WireTypeOK
<1> HIDE DEF m
<1>3. Len(s2c) = 1 => s2c # <<>>
  OBVIOUS
<1> QED  BY <1>1, <1>2, <1>3, Written

LEMMA ChildGivesUp ==
    ASSUME ChildInv, ServerStep, srvUp, ~cGone, ~sEnc, Refused
    PROVE  UNCHANGED <<sEnc, applied, pressed>> /\ Refused'
<1>1. srvUp' = srvUp /\ s2c \in Seq(Message)
  BY ChildSteps DEF ChildInv, WireTypeOK
<1>2. CASE Works({"errArg", "unknown", "noKey"})
  <2>1. PICK place \in {"errArg", "unknown", "noKey"} : Works({place})
    BY <1>2 DEF Works
  <2>2. place \in SendPlaces /\ ServerSends[place].text = "err" /\ ServerSends[place].ok \in {"loop", "end"}
    BY DEF SendPlaces, ServerSends, ServerSend
  <2>3. UNCHANGED <<sEnc, applied, pressed>>
        /\ Answered({ServerSends[place].text}, "none", {ServerSends[place].ok})'
    BY <2>1, <2>2, ChildAnswers
  <2>4. Answered({"err"}, "none", Ready \cup {"end"})'
    BY <2>2, <2>3 DEF Answered, On, Ready
  <2> QED  BY <2>3, <2>4 DEF Refused
<1>3. CASE Answered({"err"}, "none", {"end"})
  <2>1. /\ UNCHANGED <<c2s, sEnc, applied, pressed>> /\ sPc' = "close"
        /\ Len(s2c') = 2 /\ s2c'[1] = s2c[1] /\ s2c'[2].text = "end"
    BY <1>3, ChildEnds DEF Answered, On
  <2> QED  BY <1>3, <2>1 DEF Answered, On, Refused, Calm, MediaKeys
<1>4. CASE Answered({"err"}, "none", Ready)
  <2>1. sPc' \in Ready /\ UNCHANGED <<c2s, s2c, sEnc, applied, pressed>>
    BY <1>4, ChildIdles DEF Answered, Ready, ServerReads
  <2>2. Answered({"err"}, "none", Ready \cup {"end"})'
    BY <1>1, <1>4, <2>1 DEF Answered, On
  <2> QED  BY <2>1, <2>2 DEF Refused
<1>5. CASE Calm /\ Len(s2c) >= 2 /\ s2c[1].text = "err" /\ s2c[2].text = "end"
  <2>1. Calm' /\ sEnc' = sEnc
    BY <1>5, ChildGoesOn DEF Calm
  <2>2. UNCHANGED <<applied, pressed>>
    BY <1>5, ChildEffects DEF Calm
  <2>3. Len(s2c') >= 2 /\ s2c'[1].text = "err" /\ s2c'[2].text = "end"
    <3>1. s2c # <<>>
      BY <1>1, <1>5, EmptySeq
    <3> QED  BY <1>1, <1>5, <3>1, ChildWrites, Written
  <2> QED  BY <2>1, <2>2, <2>3 DEF Refused
<1> QED  BY <1>2, <1>3, <1>4, <1>5 DEF Refused, Answered

LEMMA ChildStrays ==
    ASSUME ChildInv, ServerStep, srvUp, ~cGone, ~sEnc, Over, UNCHANGED <<aPc, aCmd, aI, errors>>
    PROVE  sEnc' = sEnc /\ Over'
<1>1. s2c \in Seq(Message) /\ Strays /\ errors'
  BY DEF ChildInv, WireTypeOK, Over
<1>2. /\ sEnc' = sEnc /\ sPc' \notin {"helo", "getEnc"}
      /\ c2s' = c2s \/ c2s' = <<>>
      /\ sPc' = "setVolume" => c2s # <<>> /\ c2s[1].text = "arg" /\ sArg' = c2s[1].arg
      /\ sPc' \in MediaKeys => c2s # <<>> /\ c2s[1].text = sPc'
  BY <1>1, ChildGoesOn DEF Strays
<1>3. Strays'
  <2>1. \A text, arg : Awaits(text, arg) => Awaits(text, arg)'
    BY DEF Awaits
  <2>2. \A key \in MediaKeys : \A arg : Awaits(key, arg) => Awaits(key, 0)
    BY DEF Awaits, MediaKeys
  <2> QED  BY <1>1, <1>2, <2>1, <2>2 DEF Strays
<1>4. CASE s2c = <<>> /\ sPc = "end"
  BY <1>1, <1>2, <1>3, <1>4, ChildEnds DEF Over
<1>5. CASE s2c # <<>> /\ s2c[1].text = "end"
  <2>1. s2c' # <<>> /\ s2c'[1].text = "end"
    BY <1>1, <1>5, ChildWrites, Written
  <2> QED  BY <1>1, <1>2, <1>3, <2>1 DEF Over
<1> QED  BY <1>4, <1>5 DEF Over

\* Where the task waits for no answer, nobody works for it.
LEMMA OverCalm == Over /\ aPc \in Between => Calm
BY DEF Over, Strays, Awaits, Between, Calm

LEMMA CalmStrays == Calm => Strays
BY DEF Calm, Strays

LEMMA OverKeeps ==
    ASSUME Over, Calm, errors', UNCHANGED <<s2c, sPc>>, c2s' = <<>>
    PROVE  Over'
BY DEF Over, Calm, Strays

-----------------------------------------------------------------------------
(***************************************************************************)
(* A step of the child, one place of the task after the other.             *)
(***************************************************************************)
Serves == AppInv /\ ServerActs /\ conn = "open"

\* What every such step leaves alone.
LEMMA ServesFrame ==
    ASSUME Serves
    PROVE  /\ ChildInv /\ ServerStep /\ InStep
           /\ srvUp /\ srvUp' /\ cGone = FALSE /\ ~sEnc
           /\ UNCHANGED <<aPc, aCmd, aI, conn, errors, astray, isPaused, queue, bg>>
<1>1. ChildInv /\ ServerStep /\ InStep /\ UNCHANGED appVars
  BY DEF Serves, AppInv, TypeOK, ChildInv, ServerActs
<1>2. (sPc \in ServerDone => asleep # <<>>) /\ srvUp' = srvUp
  BY <1>1, ChildSteps
<1>3. srvUp /\ ~cGone /\ ~sEnc /\ cGone \in BOOLEAN
  BY <1>2 DEF Serves, AppInv, LinkInv, TypeOK, WireTypeOK
<1> QED  BY <1>1, <1>2, <1>3 DEF appVars, taskVars, uiVars

\* The task is to write, between two requests; the child has nothing to read.
LEMMA ServesTurn ==
    ASSUME Serves, aPc \in Between \cup {"noenc", "num"}
    PROVE  InStep' /\ UNCHANGED <<sEnc, pressed>>
<1>1. /\ ChildInv /\ ServerStep /\ InStep /\ srvUp /\ srvUp' /\ cGone = FALSE /\ ~sEnc
      /\ UNCHANGED <<aPc, aCmd, aI, conn, errors>>
  BY ServesFrame
<1>2. CASE Turn(Ready \cup {"getEnc", "getNum"})
  <2>1. /\ c2s = <<>> /\ sPc \in Ready \cup {"getEnc", "getNum"}
    BY <1>1, <1>2 DEF Turn, Quiet
  <2>2. sPc' \in Ready /\ sPc = "loop" /\ UNCHANGED <<c2s, s2c, sEnc, pressed>>
    BY <1>1, <2>1, ChildIdles DEF Ready, ServerReads
  <2> QED  BY <1>1, <1>2, <2>2 DEF InStep, Turn, Quiet, Between, Over, On
<1>3. CASE Over /\ aPc \in Between
  <2>1. Over' /\ sEnc' = sEnc
    BY <1>1, <1>3, ChildStrays
  <2>2. pressed' = pressed
    BY <1>1, <1>3, OverCalm, ChildEffects DEF Calm
  <2> QED  BY <1>1, <1>3, <2>1, <2>2 DEF InStep, Between
<1>4. Turn(Ready \cup {"getEnc", "getNum"}) \/ (Over /\ aPc \in Between)
  BY <1>1 DEF InStep, Turn, Between
<1> QED  BY <1>2, <1>3, <1>4

LEMMA ServesHandshake ==
    ASSUME Serves, aPc \in {"getHelo", "getRedy"}
    PROVE  InStep' /\ UNCHANGED pressed /\ ~sEnc'
<1>1. /\ ChildInv /\ ServerStep /\ InStep /\ srvUp /\ srvUp' /\ cGone = FALSE /\ ~sEnc
      /\ UNCHANGED <<aPc, aCmd, aI, conn, errors>>
  BY ServesFrame
<1>2. ~Lost
  BY <1>1 DEF Lost
<1>3. CASE c2s = <<>> /\ sPc \in {"getEnc", "getCmd"}
  BY <1>1, <1>3, ChildIdles DEF ServerReads
<1>4. CASE aPc = "getHelo" /\ Works({"helo"})
  <2>1. /\ "helo" \in SendPlaces /\ ServerSends["helo"].text = "helo" /\ ServerSends["helo"].ok = "getEnc"
    BY DEF SendPlaces, ServerSends, ServerSend
  <2>2. Answered({"helo"}, "none", {"getEnc"})' /\ UNCHANGED <<sEnc, pressed>>
    BY <1>1, <1>4, <2>1, ChildAnswers
  <2> QED  BY <1>1, <1>4, <2>2 DEF InStep, Between
<1>5. CASE aPc = "getRedy" /\ Works({"redy"})
  <2>1. /\ "redy" \in SendPlaces /\ ServerSends["redy"].text = "redy" /\ ServerSends["redy"].ok = "getCmd"
    BY DEF SendPlaces, ServerSends, ServerSend
  <2>2. Answered({"redy"}, "none", {"getCmd"})' /\ UNCHANGED <<sEnc, pressed>>
    BY <1>1, <1>5, <2>1, ChildAnswers
  <2> QED  BY <1>1, <1>5, <2>2 DEF InStep, Between
<1>6. CASE aPc = "getRedy" /\ Asked({"noenc"}, "none", {"getEnc"})
  <2>1. GetEnc /\ Len(c2s) = 1 /\ c2s[1].key = "none" /\ c2s[1].text = "noenc" /\ s2c = <<>>
    BY <1>1, <1>6, ChildActs DEF Asked, On
  <2>2. PICK rd \in Reads(c2s, cGone, "none") : sEnc' = (rd.res.text = "enc" /\ sUseEnc)
    BY <2>1 DEF GetEnc
  <2>3. rd.res.text = "noenc"
    BY <1>1, <2>1, ReadsOne DEF ChildInv, WireTypeOK
  <2>4. c2s' = <<>> /\ s2c' = s2c /\ sPc' = "redy" /\ pressed' = pressed
    BY <1>1, <1>6, <2>1, ChildReads DEF Asked, GetEnc
  <2>5. Works({"redy"})' /\ ~sEnc'
    BY <1>1, <2>1, <2>2, <2>3, <2>4 DEF Works, Quiet
  <2> QED  BY <1>1, <1>6, <2>4, <2>5 DEF InStep, Between
<1> QED  BY <1>1, <1>2, <1>3, <1>4, <1>5, <1>6 DEF InStep, Answered

\* After an error no key is pressed but one the task asked for.
LEMMA RefusedOrOver ==
    ASSUME ChildInv, ServerStep, srvUp, ~cGone, ~sEnc, Refused \/ Over,
           UNCHANGED <<aPc, aCmd, aI, errors>>
    PROVE  /\ sEnc' = sEnc /\ (Refused' \/ Over')
           /\ pressed' # pressed => aPc = "getMedia" /\ sPc = aCmd /\ Over
<1>1. CASE Refused
  BY <1>1, ChildGivesUp
<1>2. CASE Over
  <2>1. sPc \in MediaKeys => aPc = "getMedia" /\ sPc = aCmd
    BY <1>2 DEF Over, Strays, Awaits, MediaKeys
  <2> QED  BY <1>2, <2>1, ChildStrays, ChildEffects
<1> QED  BY <1>1, <1>2

LEMMA ServesVolume ==
    ASSUME Serves, aPc \in {"getVolOk", "getNumOk"}
    PROVE  InStep' /\ UNCHANGED <<sEnc, pressed>>
<1>1. /\ ChildInv /\ ServerStep /\ InStep /\ srvUp /\ srvUp' /\ cGone = FALSE /\ ~sEnc
      /\ UNCHANGED <<aPc, aCmd, aI, conn, errors>>
  BY ServesFrame
<1>2. ~Lost
  BY <1>1 DEF Lost
<1>3. CASE aPc = "getVolOk" /\ (Refused \/ Over)
  <2>1. UNCHANGED <<sEnc, pressed>> /\ (Refused' \/ Over')
    BY <1>1, <1>3, RefusedOrOver
  <2> QED  BY <1>1, <1>3, <2>1 DEF InStep, Between
<1>4. CASE aPc = "getVolOk" /\ Asked({"vol"}, "none", Ready)
  <2>1. UNCHANGED <<sEnc, pressed>> /\ \/ Asked({"vol"}, "none", Ready)'
                                       \/ Works({CommandPlace("vol"), "errArg"})'
    BY <1>1, <1>4, ChildTakes
  <2>2. Asked({"vol"}, "none", Ready)' \/ Works({"okVol"})' \/ Refused'
    BY <2>1 DEF CommandPlace, Works, Refused
  <2> QED  BY <1>1, <1>4, <2>1, <2>2 DEF InStep, Between
<1>5. CASE aPc = "getVolOk" /\ Works({"okVol"})
  <2>1. /\ "okVol" \in SendPlaces /\ ServerSends["okVol"].text = "ok" /\ ServerSends["okVol"].ok = "getNum"
    BY DEF SendPlaces, ServerSends, ServerSend
  <2>2. Answered({"ok"}, "none", {"getNum"})' /\ UNCHANGED <<sEnc, pressed>>
    BY <1>1, <1>5, <2>1, ChildAnswers
  <2> QED  BY <1>1, <1>5, <2>2 DEF InStep, Between
<1>6. CASE c2s = <<>> /\ sPc = "getNum"
  BY <1>1, <1>6, ChildIdles DEF ServerReads
<1>7. CASE aPc = "getNumOk" /\ Asked({"num"}, "none", {"getNum"})
  <2>1. GetNum /\ Len(c2s) = 1 /\ c2s[1].key = SessionKey /\ c2s[1].text = "num" /\ s2c = <<>>
    BY <1>1, <1>7, ChildActs DEF Asked, On, SessionKey
  <2>2. c2s' = <<>> /\ s2c' = s2c /\ sPc' = "okNum" /\ sEnc' = sEnc /\ pressed' = pressed
    BY <1>1, <1>7, <2>1, ChildReads DEF Asked, GetNum
  <2>3. Works({"okNum"})'
    BY <1>1, <2>1, <2>2 DEF Works, Quiet
  <2> QED  BY <1>1, <1>7, <2>2, <2>3 DEF InStep, Between
<1>8. CASE aPc = "getNumOk" /\ Works({"okNum"})
  <2>1. /\ "okNum" \in SendPlaces /\ ServerSends["okNum"].text = "ok" /\ ServerSends["okNum"].ok = "loop"
    BY DEF SendPlaces, ServerSends, ServerSend
  <2>2. Answered({"ok"}, "none", {"loop"})' /\ UNCHANGED <<sEnc, pressed>>
    BY <1>1, <1>8, <2>1, ChildAnswers
  <2>3. Answered({"ok"}, "none", Ready)'
    BY <2>2 DEF Answered, Ready
  <2> QED  BY <1>1, <1>8, <2>2, <2>3 DEF InStep, Between
<1>9. CASE aPc = "getNumOk" /\ Answered({"ok"}, "none", Ready)
  <2>1. sPc' \in Ready /\ UNCHANGED <<c2s, s2c, sEnc, pressed>>
    BY <1>1, <1>9, ChildIdles DEF Answered, Ready, ServerReads
  <2>2. Answered({"ok"}, "none", Ready)'
    BY <1>9, <2>1 DEF Answered, On
  <2> QED  BY <1>1, <1>9, <2>1, <2>2 DEF InStep, Between
<1> QED  BY <1>1, <1>2, <1>3, <1>4, <1>5, <1>6, <1>7, <1>8, <1>9 DEF InStep, Answered

LEMMA ServesArg ==
    ASSUME Serves, aPc = "getArg"
    PROVE  InStep' /\ UNCHANGED <<sEnc, pressed>>
<1>1. /\ ChildInv /\ ServerStep /\ InStep /\ srvUp /\ srvUp' /\ cGone = FALSE /\ ~sEnc
      /\ UNCHANGED <<aPc, aCmd, aI, conn, errors>>
  BY ServesFrame
<1>2. ~Lost
  BY <1>1 DEF Lost
<1>3. CASE Refused \/ Over
  <2>1. UNCHANGED <<sEnc, pressed>> /\ (Refused' \/ Over')
    BY <1>1, <1>3, RefusedOrOver
  <2> QED  BY <1>1, <2>1 DEF InStep, Between
<1>4. CASE Asked({"arg"}, "none", Ready) /\ c2s[1].arg = aI + 1
  <2>1. /\ UNCHANGED <<sEnc, pressed>>
        /\ \/ Asked({"arg"}, "none", Ready)' /\ c2s' = c2s
           \/ /\ Works({CommandPlace("arg"), "setVolume"})'
              /\ sPc' = "setVolume" => sArg' = c2s[1].arg
    BY <1>1, <1>4, ChildTakes
  <2>2. \/ Asked({"arg"}, "none", Ready)' /\ c2s'[1].arg = aI + 1
        \/ Works({"setVolume"})' /\ sArg' = aI + 1
        \/ Refused'
    BY <1>4, <2>1 DEF CommandPlace, Works, Refused
  <2> QED  BY <1>1, <2>1, <2>2 DEF InStep, Between
<1>5. CASE Works({"setVolume"}) /\ sArg = aI + 1
  <2>1. SetVolume /\ applied \in Seq(Nat) /\ sArg \in Nat /\ Quiet /\ sPc = "setVolume"
    BY <1>1, <1>5, ChildActs DEF Works, ChildInv, ServerTypeOK
  <2>2. Quiet' /\ UNCHANGED <<sEnc, pressed>>
    BY <2>1 DEF SetVolume, Quiet
  <2>3. CASE sPc' = "errArg"
    BY <1>1, <2>2, <2>3 DEF InStep, Between, Refused, Works
  <2>4. CASE sPc' = "okArg"
    <3>1. applied' = Append(applied, sArg)
      BY <2>1, <2>4 DEF SetVolume
    <3>2. applied' # <<>> /\ applied'[Len(applied')] = sArg
      BY <2>1, <3>1
    <3>3. LastApplied(aI + 1)'
      BY <1>1, <1>5, <3>2 DEF LastApplied
    <3> QED  BY <1>1, <2>2, <2>4, <3>3 DEF InStep, Between, Works
  <2> QED  BY <2>1, <2>3, <2>4 DEF SetVolume
<1>6. CASE Works({"okArg"}) /\ LastApplied(aI + 1)
  <2>1. /\ "okArg" \in SendPlaces /\ ServerSends["okArg"].text = "ok" /\ ServerSends["okArg"].ok = "loop"
    BY DEF SendPlaces, ServerSends, ServerSend
  <2>2. Answered({"ok"}, "none", {"loop"})' /\ UNCHANGED <<sEnc, pressed, applied>>
    BY <1>1, <1>6, <2>1, ChildAnswers
  <2>3. Answered({"ok"}, "none", Ready)' /\ LastApplied(aI + 1)'
    BY <1>1, <1>6, <2>2 DEF Answered, Ready, LastApplied
  <2> QED  BY <1>1, <2>2, <2>3 DEF InStep, Between
<1>7. CASE Answered({"ok"}, "none", Ready) /\ LastApplied(aI + 1)
  <2>1. sPc' \in Ready /\ UNCHANGED <<c2s, s2c, sEnc, pressed, applied>>
    BY <1>1, <1>7, ChildIdles DEF Answered, Ready, ServerReads
  <2>2. Answered({"ok"}, "none", Ready)' /\ LastApplied(aI + 1)'
    BY <1>1, <1>7, <2>1 DEF Answered, On, LastApplied
  <2> QED  BY <1>1, <2>1, <2>2 DEF InStep, Between
<1> QED  BY <1>1, <1>2, <1>3, <1>4, <1>5, <1>6, <1>7 DEF InStep

\* One more press of the key changes what the button should show.
LEMMA Parity ==
    ASSUME NEW n \in Nat
    PROVE  ((n + 1) % 2 = 1 <=> n % 2 # 1) /\ ((n + 1) + 1) % 2 = n % 2 /\ n + 0 = n
OBVIOUS

LEMMA KeyPressed ==
    ASSUME ChildInv, ServerStep, srvUp, srvUp', NEW key \in MediaKeys, Works({key})
    PROVE  /\ Quiet' /\ sEnc' = sEnc
           /\ \/ Works({"noKey"})' /\ pressed' = pressed
              \/ Works({OkPlaceOf(key)})' /\ pressed' = [pressed EXCEPT ![key] = @ + 1]
<1>1. PressKey /\ sPc = key /\ Quiet
  BY SendTable
     DEF Works, ServerStep, SendReply, SendSegment, SegmentCrash, GetEnc, GetPub, GetRedy, GetCommand,
         GetNum, LoopTest, GetArg, SetVolume, CloseClient, Wakes, ServerDone, MediaKeys
<1>2. PICK works \in MediaKeyWorks :
         /\ pressed' = Pressed(works)
         /\ sPc' = IF ~works THEN "noKey" ELSE OkPlaceOf(key)
  BY <1>1 DEF PressKey, OkPlaceOf
<1>3. Quiet' /\ sEnc' = sEnc
  BY <1>1 DEF PressKey, Quiet
<1> QED  BY <1>1, <1>2, <1>3 DEF Works, Pressed

LEMMA MediaInStep ==
    ASSUME Serves, aPc = "getMedia"
    PROVE  InStep' /\ ~sEnc' /\ (aCmd # "play" => pressed'["play"] = pressed["play"])
<1>1. /\ ChildInv /\ ServerStep /\ InStep /\ srvUp /\ srvUp' /\ cGone = FALSE /\ ~sEnc
      /\ UNCHANGED <<aPc, aCmd, aI, conn, errors>>
  BY ServesFrame
<1>2. ~Lost
  BY <1>1 DEF Lost
<1>3. aCmd \in MediaKeys /\ pressed \in [MediaKeys -> Nat]
  BY <1>1 DEF Serves, AppInv, CommandInv, ChildInv, ServerTypeOK
<1>4. CASE Refused \/ Over
  <2>1. sEnc' = sEnc /\ (Refused' \/ Over') /\ (pressed' # pressed => sPc = aCmd)
    BY <1>1, <1>4, RefusedOrOver
  <2>2. aCmd # "play" => pressed'["play"] = pressed["play"]
    <3>1. CASE pressed' = pressed
      BY <3>1
    <3>2. CASE sPc = aCmd /\ aCmd # "play"
      <4>1. PressKey
        BY <1>1, <1>3, <3>2, SendTable
           DEF ServerStep, SendReply, SendSegment, SegmentCrash, GetEnc, GetPub, GetRedy, GetCommand,
               GetNum, LoopTest, GetArg, SetVolume, CloseClient, Wakes, ServerDone, MediaKeys
      <4> QED  BY <1>3, <3>2, <4>1 DEF PressKey, Pressed, MediaKeys
    <3> QED  BY <2>1, <3>1, <3>2
  <2> QED  BY <1>1, <2>1, <2>2 DEF InStep, Between
<1>5. CASE Asked({aCmd}, "none", Ready)
  <2>1. CommandPlace(aCmd) = aCmd /\ aCmd # "arg"
    BY <1>3 DEF MediaKeys, CommandPlace
  <2>2. /\ UNCHANGED <<sEnc, pressed>>
        /\ Asked({aCmd}, "none", Ready)' \/ Works({aCmd, "errArg"})'
    BY <1>1, <1>5, <2>1, ChildTakes
  <2>3. Asked({aCmd}, "none", Ready)' \/ Works({aCmd})' \/ Refused'
    BY <2>2 DEF Works, Refused
  <2> QED  BY <1>1, <2>2, <2>3 DEF InStep, Between
<1>6. CASE Works({aCmd})
  <2>1. /\ sEnc' = sEnc
        /\ \/ Works({"noKey"})' /\ pressed' = pressed
           \/ Works({OkPlaceOf(aCmd)})' /\ pressed' = [pressed EXCEPT ![aCmd] = @ + 1]
    BY <1>1, <1>3, <1>6, KeyPressed
  <2>2. Refused' \/ Works({OkPlaceOf(aCmd)})'
    BY <2>1 DEF Refused, Works
  <2>3. aCmd # "play" => pressed'["play"] = pressed["play"]
    BY <1>3, <2>1 DEF MediaKeys
  <2> QED  BY <1>1, <2>1, <2>2, <2>3 DEF InStep, Between
<1>7. CASE Works({OkPlaceOf(aCmd)})
  <2>1. OkPlaceOf(aCmd) \in OkPlaces
    BY <1>3 DEF OkPlaceOf, OkPlaces, MediaKeys
  <2>2. /\ sPc \in OkPlaces \cap SendPlaces /\ Works({sPc})
        /\ ServerSends[sPc].text \in {"ok", "prev"} /\ ServerSends[sPc].ok = "getCmd"
    BY <1>7, <2>1 DEF Works, OkPlaces, SendPlaces, ServerSends, ServerSend
  <2>3. PICK place \in SendPlaces : /\ place = sPc /\ ServerSends[place].text \in {"ok", "prev"}
                                    /\ ServerSends[place].ok = "getCmd"
    BY <2>2
  <2>4. /\ UNCHANGED <<sEnc, pressed>>
        /\ Answered({ServerSends[place].text}, "none", {ServerSends[place].ok})'
    BY <1>1, <2>2, <2>3, ChildAnswers
  <2>5. Answered({"ok", "prev"}, "none", {"getCmd"})'
    BY <2>3, <2>4 DEF Answered, On
  <2> QED  BY <1>1, <2>4, <2>5 DEF InStep, Between
<1>8. CASE Answered({"ok", "prev"}, "none", {"getCmd"})
  BY <1>1, <1>8, ChildIdles DEF Answered, ServerReads
<1> QED  BY <1>1, <1>2, <1>4, <1>5, <1>6, <1>7, <1>8 DEF InStep

LEMMA ServesMedia ==
    ASSUME Serves, aPc = "getMedia"
    PROVE  InStep' /\ ~sEnc' /\ ButtonInv'
<1>1. /\ ChildInv /\ ServerStep /\ InStep /\ srvUp /\ srvUp' /\ cGone = FALSE /\ ~sEnc
      /\ UNCHANGED <<aPc, aCmd, aI, conn, errors, astray, isPaused, queue, bg>>
  BY ServesFrame
<1>2. ~Lost
  BY <1>1 DEF Lost
<1>3. aCmd \in MediaKeys /\ ButtonInv
  BY DEF Serves, AppInv, CommandInv
<1>4. \A n : pressed' = pressed /\ Face(n) => Face(n)'
  BY <1>1 DEF Face
\* The other keys do not concern the button.
<1>5. CASE aCmd # "play"
  <2>1. InStep' /\ ~sEnc'
    BY <1>1, <1>3, MediaInStep
  <2>2. pressed'["play"] = pressed["play"]
    BY <1>1, <1>3, <1>5, MediaInStep
  <2>3. Face(0) => Face(0)'
    BY <1>1, <2>2 DEF Face
  <2> QED  BY <1>1, <1>3, <1>5, <2>1, <2>3 DEF ButtonInv, InTurn, Busy
<1>6. CASE aCmd = "play"
  <2>1. InStep' /\ ~sEnc'
    BY <1>1, <1>3, MediaInStep
  <2> SUFFICES ASSUME conn # "closed", ~astray, ~Over'
               PROVE  /\ c2s' # <<>> \/ sPc' = "play" => Face(1)'
                      /\ Works({"okPlay"})' => Face(0)'
                      /\ s2c' # <<>> /\ s2c'[1].text \in {"ok", "prev"} => Face(0)'
    BY <1>1, <1>3, <1>6, <2>1 DEF ButtonInv, InTurn, Busy
  <2>2. ~Over
    BY <1>1, ChildStrays
  <2>3. /\ c2s # <<>> \/ sPc = "play" => Face(1)
        /\ Works({"okPlay"}) => Face(0)
        /\ s2c # <<>> /\ s2c[1].text \in {"ok", "prev"} => Face(0)
    BY <1>1, <1>3, <1>6, <2>2 DEF ButtonInv
  <2>4. CASE Refused
    <3>1. Refused' /\ pressed' = pressed
      BY <1>1, <2>4, ChildGivesUp
    <3>2. /\ c2s' = <<>> /\ sPc' # "play" /\ ~Works({"okPlay"})'
          /\ s2c' # <<>> => s2c'[1].text = "err"
      <4>1. CASE Works({"errArg", "unknown", "noKey"})'
        BY <4>1 DEF Works, Quiet
      <4>2. CASE Answered({"err"}, "none", Ready \cup {"end"})'
        BY <1>1, <4>2 DEF Answered, Works, Quiet, On, Ready
      <4>3. CASE (Calm /\ Len(s2c) >= 2 /\ s2c[1].text = "err" /\ s2c[2].text = "end")'
        <5>1. s2c' # <<>>
          BY <4>3, EmptySeq
        <5> QED  BY <4>3, <5>1 DEF Calm, Works, Quiet, MediaKeys
      <4> QED  BY <3>1, <4>1, <4>2, <4>3 DEF Refused
    <3> QED  BY <3>2
  <2>5. CASE Asked({"play"}, "none", Ready)
    <3>1. /\ UNCHANGED <<sEnc, pressed>>
          /\ Asked({"play"}, "none", Ready)' \/ Works({CommandPlace("play"), "errArg"})'
      BY <1>1, <2>5, ChildTakes
    <3>2. Face(1)'
      BY <1>4, <2>3, <2>5, <3>1 DEF Asked, On
    <3>3. s2c' = <<>> /\ sPc' # "okPlay"
      BY <3>1 DEF Asked, Works, Quiet, Ready, CommandPlace
    <3> QED  BY <3>2, <3>3 DEF Works
  <2>6. CASE Works({"play"})
    <3>1. /\ Quiet' /\ sPc' \in {"noKey", "okPlay"}
          /\ sPc' = "okPlay" => pressed' = [pressed EXCEPT !["play"] = @ + 1]
      BY <1>1, <2>6, KeyPressed DEF MediaKeys, OkPlaceOf, Works
    <3>2. pressed \in [MediaKeys -> Nat] /\ "play" \in MediaKeys
      BY <1>1 DEF ChildInv, ServerTypeOK, MediaKeys
    <3>3. sPc' = "okPlay" => Face(0)'
      <4>1. SUFFICES ASSUME sPc' = "okPlay" PROVE Face(0)'
        OBVIOUS
      <4>2. pressed["play"] \in Nat /\ pressed'["play"] = pressed["play"] + 1
        BY <3>1, <3>2, <4>1
      <4>3. Face(1)
        BY <2>3, <2>6 DEF Works
      <4> QED  BY <1>1, <4>2, <4>3, Parity DEF Face
    <3> QED  BY <3>1, <3>3 DEF Quiet, Works
  <2>7. CASE Works({"okPlay"})
    <3>1. "okPlay" \in SendPlaces /\ ServerSends["okPlay"].ok = "getCmd"
      BY DEF SendPlaces, ServerSends, ServerSend
    <3>2. UNCHANGED <<sEnc, pressed>>
          /\ Answered({ServerSends["okPlay"].text}, "none", {ServerSends["okPlay"].ok})'
      BY <1>1, <2>7, <3>1, ChildAnswers
    <3> QED  BY <1>1, <1>4, <2>3, <2>7, <3>1, <3>2 DEF Answered, Works, Quiet
  <2>8. CASE Answered({"ok", "prev"}, "none", {"getCmd"})
    BY <1>1, <2>8, ChildIdles DEF Answered, ServerReads
  <2> QED
    BY <1>1, <1>2, <1>6, <2>2, <2>4, <2>5, <2>6, <2>7, <2>8 DEF InStep, OkPlaceOf
<1> QED  BY <1>5, <1>6

LEMMA AppTypesKept == UNCHANGED appVars /\ AppTypeOK => AppTypeOK'
BY DEF appVars, taskVars, uiVars, AppTypeOK

LEMMA ChildKeepsApp ==
    ASSUME AppInv, ServerActs
    PROVE  AppInv'
<1>1. /\ ServerStep /\ Linked /\ UNCHANGED appVars
      /\ ChildInv /\ AppTypeOK /\ LinkInv /\ CommandInv /\ SilenceFollowsError
  BY DEF AppInv, TypeOK, ChildInv, ServerActs
<1>2. TypeOK' /\ SegmentsSent' /\ CommandInv' /\ SilenceFollowsError'
  <2>1. ChildInv' /\ AppTypeOK'
    BY <1>1, ChildKeepsTypes, AppTypesKept
  <2>2. CommandInv' /\ SilenceFollowsError'
    BY <1>1 DEF appVars, taskVars, uiVars, CommandInv, SilenceFollowsError
  <2> QED  BY <2>1, <2>2 DEF ChildInv, TypeOK
<1>3. srvUp /\ srvUp' /\ conn # "absent"
      /\ UNCHANGED <<cGone, aPc, conn, aCmd, aI, errors, astray, isPaused, queue, bg>>
  <2>1. srvUp' = srvUp /\ cGone' = cGone /\ (sPc \in ServerDone => asleep # <<>>)
    BY <1>1, ChildSteps
  <2>2. srvUp /\ conn # "absent"
    BY <1>1, <2>1 DEF LinkInv, Linked, TypeOK, AppInv, WireTypeOK
  <2> QED  BY <1>1, <2>1, <2>2 DEF appVars, taskVars, uiVars
<1>4. CASE conn # "open"
  <2>1. conn = "closed"
    BY <1>1, <1>3, <1>4 DEF AppTypeOK, Connections
  <2> QED  BY <1>1, <1>2, <1>3, <2>1 DEF AppInv, LinkInv, ButtonInv
<1>5. CASE conn = "open"
  <2>1. Serves
    BY <1>5 DEF Serves
  <2>2. aPc \in Between \cup {"noenc", "num", "getHelo", "getRedy", "getVolOk", "getNumOk", "getArg",
                              "getMedia"}
    BY <1>1, <1>5 DEF AppTypeOK, TaskPlaces, TaskReads, TaskSends, Between, LinkInv
  <2>3. CASE aPc = "getMedia"
    BY <1>1, <1>2, <1>3, <2>1, <2>3, ServesMedia DEF AppInv, LinkInv
  <2>4. CASE aPc # "getMedia"
    <3>1. InStep' /\ ~sEnc' /\ pressed' = pressed
      BY <1>1, <1>5, <2>1, <2>2, <2>4, ServesTurn, ServesHandshake, ServesVolume, ServesArg DEF LinkInv
    <3>2. ButtonInv'
      BY <1>3, <2>4, <3>1 DEF AppInv, ButtonInv, InTurn, Busy, Face, ToPress
    <3> QED  BY <1>1, <1>2, <1>3, <3>1, <3>2 DEF AppInv, LinkInv
  <2> QED  BY <2>3, <2>4
<1> QED  BY <1>4, <1>5

\* The child sets a volume only while the task waits for its answer.
LEMMA ChildSetsAsked ==
    ASSUME AppInv, ServerActs, applied' # applied
    PROVE  (aPc = "getArg" /\ applied'[Len(applied')] = aI + 1) \/ cGone
<1>1. sPc = "setVolume" /\ applied' = Append(applied, sArg) /\ Linked
  BY ChildEffects DEF ServerActs
<1>2. applied \in Seq(Nat) /\ sArg \in Nat
  BY DEF AppInv, TypeOK, ServerTypeOK
<1>3. CASE conn = "open"
  <2>1. aPc = "getArg" /\ sArg = aI + 1
    <3>1. ~Refused /\ ~Lost
      BY <1>1, <1>3 DEF AppInv, LinkInv, Refused, Lost, Works, Answered, Ready, Calm, ServerDone
    <3>2. srvUp /\ aPc # "dead" /\ (aPc = "getMedia" => aCmd \in MediaKeys)
      BY <1>1, <1>3 DEF AppInv, CommandInv, LinkInv, ServerDone
    <3>3. Over => aPc = "getArg" /\ sArg = aI + 1
      BY <1>1, <3>2 DEF Over, Strays, Awaits, MediaKeys
    <3>4. CASE aPc = "getMedia"
      BY <1>1, <1>3, <3>1, <3>2, <3>3, <3>4
         DEF AppInv, InStep, Asked, Works, Answered, Ready, OkPlaceOf, MediaKeys
    <3>5. aPc \in Between \cup {"noenc", "num", "getHelo", "getRedy", "getVolOk", "getNumOk", "getArg",
                                "getMedia"}
      BY <3>2 DEF AppInv, TypeOK, AppTypeOK, TaskPlaces, TaskReads, TaskSends, Between
    <3> QED
      BY <1>1, <1>3, <3>1, <3>2, <3>3, <3>4, <3>5
         DEF AppInv, InStep, Turn, Asked, Works, Answered, Ready
  <2> QED  BY <1>1, <1>2, <2>1
<1>4. CASE conn # "open"
  BY <1>1, <1>4 DEF Linked
<1> QED  BY <1>3, <1>4

-----------------------------------------------------------------------------
(***************************************************************************)
(* The task.  What it prints, and what it makes of a line.                 *)
(***************************************************************************)
LEMMA PrintedTyped ==
    ASSUME AppInv, NEW text \in Texts, NEW arg \in Nat
    PROVE  /\ Printed(text, arg) \in Seq(Message)
           /\ ~srvUp => Printed(text, arg) = <<>>
<1>1. Msg(text, arg, "none") \in Message
  BY MessageTyped DEF Keys
<1>2. c2s \in Seq(Message) /\ (~srvUp => c2s = <<>>)
  BY DEF AppInv, TypeOK, WireTypeOK, LinkInv
<1> QED  BY <1>1, <1>2 DEF Printed

LEMMA PrintsRequest ==
    ASSUME AppInv, conn = "open", NEW text \in Texts, NEW arg \in Nat, NEW places, Turn(places),
           c2s' = Printed(text, arg), UNCHANGED <<s2c, sPc, srvUp>>
    PROVE  (Asked({text}, "none", places)' /\ c2s'[1].arg = arg) \/ Lost'
<1>1. CASE srvUp
  <2>1. c2s' = Append(<<>>, Msg(text, arg, "none"))
    BY <1>1 DEF Printed, Turn, Quiet
  <2>2. Len(c2s') = 1 /\ c2s'[1] = Msg(text, arg, "none")
    BY <2>1
  <2> QED  BY <1>1, <2>2 DEF Asked, On, Turn, Quiet, Msg
<1>2. CASE ~srvUp
  BY <1>2 DEF Printed, Turn, Quiet, Lost
<1> QED  BY <1>1, <1>2

LEMMA LineIs ==
    ASSUME AppInv, NEW text, Line(text)
    PROVE  /\ conn = "open" /\ InStep /\ s2c # <<>> /\ s2c[1].text = text
           /\ Len(s2c) = 1 => Tail(s2c) = <<>>
           /\ Len(s2c) >= 2 => Tail(s2c) # <<>> /\ Tail(s2c)[1] = s2c[2]
           /\ Tail(s2c) \in Seq(Message)
<1>1. s2c \in Seq(Message) /\ s2c # <<>> /\ conn = "open" /\ Head(s2c).text = text /\ InStep
  BY DEF AppInv, TypeOK, WireTypeOK, Line
<1>2. Head(s2c) = s2c[1] /\ Tail(s2c) \in Seq(Message)
  BY <1>1
<1>3. Len(Tail(s2c)) = Len(s2c) - 1
  BY <1>1, HeadTailProperties, Zenon
<1>4. Len(s2c) = 1 => Tail(s2c) = <<>>
  <2> SUFFICES ASSUME Len(s2c) = 1 PROVE Tail(s2c) = <<>>
    OBVIOUS
  <2>1. Len(Tail(s2c)) = 0
    BY <1>3
  <2> QED  BY <1>2, <2>1, EmptySeq
<1>5. Len(s2c) >= 2 => Tail(s2c) # <<>> /\ Tail(s2c)[1] = s2c[2]
  <2> DEFINE tail == Tail(s2c)
  <2>1. \A i \in 1..Len(tail) : tail[i] = s2c[i + 1]
    BY <1>1, HeadTailProperties, Zenon
  <2>2. Len(s2c) \in Nat /\ (tail = <<>> => Len(tail) = 0)
    BY <1>1, <1>2, EmptySeq
  <2>3. Len(tail) = Len(s2c) - 1
    BY <1>3
  <2> HIDE DEF tail
  <2>4. Len(s2c) >= 2 => tail # <<>> /\ tail[1] = s2c[2]
    BY <2>1, <2>2, <2>3
  <2> QED  BY <2>4 DEF tail
<1> QED  BY <1>1, <1>2, <1>4, <1>5

\* The "err" and the "end" are what they are said to be.
LEMMA ErrorLine ==
    ASSUME AppInv, Line("err"), errors', s2c' = Tail(s2c), UNCHANGED <<c2s, sPc, srvUp>>
    PROVE  (Turn(Ready) \/ Over)'
<1>1. /\ InStep /\ s2c # <<>> /\ s2c[1].text = "err"
      /\ Len(s2c) = 1 => Tail(s2c) = <<>>
      /\ Len(s2c) >= 2 => Tail(s2c) # <<>> /\ Tail(s2c)[1] = s2c[2]
  BY LineIs
<1>2. (~srvUp => sPc \in ServerDone) /\ aPc \in TaskReads
  BY DEF AppInv, LinkInv, Line
<1>3. Refused
  BY <1>1, <1>2 DEF InStep, TaskReads, Works, Answered, Asked, On, Quiet, Lost, Over
<1>4. CASE Answered({"err"}, "none", Ready \cup {"end"})
  <2>1. s2c' = <<>> /\ c2s' = <<>>
    BY <1>1, <1>4 DEF Answered, On
  <2>2. CASE srvUp /\ sPc = "end"
    BY <2>1, <2>2 DEF Over, Strays, MediaKeys
  <2>3. CASE ~(srvUp /\ sPc = "end")
    BY <1>4, <2>1, <2>3 DEF Answered, Turn, Quiet
  <2> QED  BY <2>2, <2>3
<1>5. CASE Calm /\ Len(s2c) >= 2 /\ s2c[1].text = "err" /\ s2c[2].text = "end"
  BY <1>1, <1>5 DEF Calm, Over, Strays
<1> QED  BY <1>1, <1>3, <1>4, <1>5 DEF Refused, Works, Quiet

LEMMA EndLine ==
    ASSUME AppInv, Line("end")
    PROVE  errors \/ aPc \in {"getHelo", "getRedy"}
<1>1. InStep /\ s2c # <<>> /\ s2c[1].text = "end" /\ aPc \in TaskReads
  BY LineIs DEF Line
<1> QED  BY <1>1 DEF InStep, TaskReads, Works, Answered, Asked, On, Quiet, Lost, Over, Refused

-----------------------------------------------------------------------------
\* What a step of the task between its hosts can change.
LEMMA TaskTyped ==
    ASSUME AppTypeOK, UNCHANGED <<aCmd, uiVars>>, aPc' \in TaskPlaces, aI' \in 0..MaxChannels,
           conn' \in Connections, errors' \in {errors, TRUE}, gaveUp' \in {gaveUp, TRUE},
           astray' = astray \/ Fails
    PROVE  AppTypeOK'
<1>1. /\ UNCHANGED <<channels, filling, listed, edited, queue, bg, isPaused, given, aCmd>>
      /\ astray' \in BOOLEAN /\ errors' \in BOOLEAN /\ gaveUp' \in BOOLEAN
  BY DEF uiVars, AppTypeOK, Fails
<1> QED  BY <1>1 DEF AppTypeOK

LEMMA TaskKeepsPlace ==
    ASSUME AppInv, TaskActs
    PROVE  /\ TypeOK' /\ SegmentsSent' /\ CommandInv'
           /\ ~srvUp' => c2s' = <<>> /\ sPc' \in ServerDone /\ asleep' = <<>>
           /\ cGone' \/ aPc' = "dead" => conn' = "closed"
<1>1. /\ UNCHANGED serverVars /\ srvUp' = srvUp
      /\ TypeOK /\ SegmentsSent /\ CommandInv /\ LinkInv
  BY DEF TaskActs, TaskStep, AppInv
<1>2. SUFFICES /\ c2s' \in Seq(Message) /\ s2c' \in Seq(Message) /\ cGone' \in BOOLEAN
               /\ AppTypeOK' /\ CommandInv'
               /\ ~srvUp => c2s' = <<>>
               /\ cGone' \/ aPc' = "dead" => conn' = "closed"
  BY <1>1 DEF serverVars, TypeOK, WireTypeOK, ServerTypeOK, SegmentsSent, LinkInv
<1>3. /\ c2s \in Seq(Message) /\ s2c \in Seq(Message) /\ cGone \in BOOLEAN /\ AppTypeOK
      /\ <<>> \in Seq(Message)
      /\ ~srvUp => c2s = <<>>
      /\ cGone \/ aPc = "dead" => conn = "closed"
  BY <1>1 DEF TypeOK, WireTypeOK, LinkInv
<1>4. CASE LeaveHosts
  <2>1. /\ aPc' \in {"idle", "dead"} /\ aCmd' = "none" /\ aI' = 0 /\ edited' = FALSE
        /\ UNCHANGED <<c2s, channels, filling, listed, queue, bg, isPaused, given, astray, errors,
                       gaveUp>>
        /\ (aPc' = "idle" /\ UNCHANGED <<conn, cGone, s2c>>) \/ Closes
    BY <1>4 DEF LeaveHosts, KeepsConn, ProcessDies, SaysNothing
  <2>2. 0 \in 0..MaxChannels
    BY AppAssumption
  <2>3. conn' \in {conn, "closed"} /\ s2c' \in {s2c, <<>>} /\ cGone' \in BOOLEAN
    BY <1>3, <2>1 DEF Closes
  <2>4. AppTypeOK'
    BY <1>3, <2>1, <2>2, <2>3 DEF AppTypeOK, TaskPlaces, Connections
  <2>5. CommandInv'
    BY <2>1 DEF CommandInv
  <2>6. cGone' \/ aPc' = "dead" => conn' = "closed"
    BY <1>3, <2>1 DEF Closes
  <2> QED  BY <1>3, <2>1, <2>3, <2>4, <2>5, <2>6
<1>5. CASE TakeHost /\ UNCHANGED uiVars
  <2>1. /\ UNCHANGED <<c2s, aCmd, aI, errors, gaveUp, uiVars>> /\ aPc = "host"
        /\ (astray' = astray \/ Fails)
        /\ \/ aPc' \in {"connect", "next"} /\ UNCHANGED <<conn, cGone, s2c>>
           \/ aPc' = "dead" /\ Closes
    BY <1>5 DEF TakeHost, KeepsConn, ProcessDies, SaysNothing
  <2>2. conn' \in {conn, "closed"} /\ s2c' \in {s2c, <<>>} /\ cGone' \in BOOLEAN
    BY <1>3, <2>1 DEF Closes
  <2>3. AppTypeOK'
    BY <1>3, <2>1, <2>2, TaskTyped DEF AppTypeOK, TaskPlaces, Connections
  <2> QED  BY <1>1, <1>3, <2>1, <2>2, <2>3 DEF CommandInv, Closes
<1>6. CASE Connect /\ UNCHANGED uiVars
  <2>1. /\ aPc = "connect" /\ UNCHANGED <<c2s, aCmd, aI, gaveUp, uiVars>> /\ errors' \in {errors, TRUE}
        /\ (astray' = astray \/ Fails)
        /\ \/ aPc' = "getHelo" /\ conn = "absent" /\ conn' = "open" /\ UNCHANGED <<cGone, s2c>>
           \/ aPc' = "next" /\ Closes
           \/ aPc' = "command" /\ UNCHANGED <<conn, cGone, s2c>>
    BY <1>6 DEF Connect, KeepsConn, SaysNothing, ShowsError
  <2>2. AppTypeOK'
    BY <1>3, <2>1, TaskTyped DEF Closes, AppTypeOK, TaskPlaces, TaskReads, TaskSends, Connections
  <2>3. CommandInv'
    BY <1>1, <2>1 DEF CommandInv
  <2>4. s2c' \in {s2c, <<>>} /\ cGone' \in BOOLEAN
    BY <1>3, <2>1 DEF Closes
  <2>5. cGone' \/ aPc' = "dead" => conn' = "closed"
    BY <1>3, <2>1 DEF Closes
  <2> QED  BY <1>3, <2>1, <2>2, <2>3, <2>4, <2>5
<1>7. CASE TaskSend /\ UNCHANGED uiVars
  <2>1. aCmd \in AppCommands /\ aCmd \in Texts /\ aI + 1 \in Nat /\ channels \in Nat /\ aPc \in TaskSends
    BY <1>1, <1>3, <1>7, AppAssumption DEF TaskSend, TaskSends, CommandInv, AppTypeOK, Texts
  <2>2. CASE aPc = "arg" /\ aI >= channels
    BY <1>1, <1>3, <1>7, <2>2 DEF TaskSend, ProcessDies, Closes, SaysNothing, AppTypeOK, uiVars,
                                  TaskPlaces, Connections, CommandInv
  <2>3. CASE ~(aPc = "arg" /\ aI >= channels)
    <3>1. \E text \in Texts, arg \in Nat : c2s' = Printed(text, arg)
      BY <1>7, <2>1, <2>3 DEF TaskSend, TaskSends, Texts
    <3>2. c2s' \in Seq(Message) /\ (~srvUp => c2s' = <<>>)
      BY <3>1, PrintedTyped
    <3>3. /\ aPc' = CASE aPc = "noenc"   -> "getRedy"
                      [] aPc = "command" -> IF aCmd = "vol" THEN "getVolOk" ELSE "getMedia"
                      [] aPc = "num"     -> "getNumOk"
                      [] aPc = "arg"     -> "getArg"
          /\ UNCHANGED <<aCmd, aI, conn, cGone, s2c, errors, gaveUp, astray, uiVars>>
      BY <1>7, <2>3 DEF TaskSend, KeepsConn, SaysNothing
    <3>4. aPc' \in {"getRedy", "getVolOk", "getMedia", "getNumOk", "getArg"}
          /\ (aPc' = "getMedia" => aCmd # "vol")
          /\ (aPc' = "getArg" => ~(aI >= channels))
      BY <2>1, <2>3, <3>3 DEF TaskSends
    <3>5. AppTypeOK'
      BY <1>3, <3>3, <3>4, TaskTyped DEF AppTypeOK, TaskPlaces, TaskReads
    <3>6. CommandInv'
      <4>1. aPc' = "getMedia" => aCmd' \in MediaKeys
        BY <2>1, <3>3, <3>4, AppAssumption DEF MediaKeys
      <4>2. aPc' = "getArg" => aI' < MaxChannels
        <5>1. aI \in Nat /\ channels \in Nat /\ channels <= MaxChannels /\ MaxChannels \in Nat
          BY <1>3, AppAssumption DEF AppTypeOK
        <5>2. ~(aI >= channels) => aI < MaxChannels
          BY <5>1
        <5> QED  BY <3>3, <3>4, <5>2
      <4>3. aCmd' # "none"
        BY <2>1, <3>3, AppAssumption
      <4> QED  BY <4>1, <4>2, <4>3 DEF CommandInv
    <3> QED  BY <1>3, <3>2, <3>3, <3>4, <3>5, <3>6
  <2> QED  BY <2>2, <2>3
<1>8. CASE ChannelLoop /\ UNCHANGED uiVars
  BY <1>1, <1>3, <1>8 DEF ChannelLoop, KeepsConn, SaysNothing, AppTypeOK, uiVars,
                          TaskPlaces, TaskSends, CommandInv
<1>9. CASE ReadFails /\ UNCHANGED uiVars
  <2>1. AppTypeOK'
    BY <1>3, <1>9, TaskTyped DEF ReadFails, Closes, ShowsError, AppTypeOK, TaskPlaces, Connections
  <2> QED  BY <1>1, <1>3, <1>9, <2>1 DEF ReadFails, Closes, CommandInv
<1>10. CASE Handshake /\ UNCHANGED uiVars
  <2>1. CASE Closes
    <3>1. c2s' \in {c2s, Printed("end", 0)}
      BY <1>10 DEF Handshake
    <3>2. c2s' \in Seq(Message) /\ (~srvUp => c2s' = <<>>)
      BY <1>3, <3>1, PrintedTyped DEF Texts
    <3>3. aPc' \in {"noenc", "command", "next"}
      BY <1>10 DEF Handshake, Onward, Expected
    <3>4. UNCHANGED <<aCmd, aI, gaveUp, uiVars>> /\ errors' \in {errors, TRUE}
          /\ (astray' = astray \/ Fails)
      BY <1>10 DEF Handshake, ShowsError, SaysNothing
    <3>5. AppTypeOK'
      BY <1>3, <2>1, <3>3, <3>4, TaskTyped DEF Closes, AppTypeOK, TaskPlaces, TaskSends, Connections
    <3> QED
      BY <1>1, <1>3, <1>10, <2>1, <3>2, <3>3, <3>4, <3>5 DEF Handshake, Expected, Closes, CommandInv
  <2>2. CASE ~Closes
    <3>1. /\ Line(Expected[aPc]) /\ aPc' = Onward[aPc] /\ TakesLine /\ SaysNothing /\ c2s' = c2s
          /\ aPc \in {"getHelo", "getRedy"} /\ UNCHANGED <<aCmd, aI, uiVars>>
      BY <1>10, <2>2 DEF Handshake, Expected
    <3>2. s2c' \in Seq(Message)
      BY <3>1, LineIs DEF TakesLine
    <3>3. aPc' \in {"noenc", "command"}
      BY <3>1 DEF Onward
    <3> QED
      BY <1>1, <1>3, <3>1, <3>2, <3>3
         DEF TakesLine, SaysNothing, AppTypeOK, uiVars, TaskPlaces, TaskSends, CommandInv
  <2> QED  BY <2>1, <2>2
<1>11. CASE GetReply /\ UNCHANGED uiVars
  <2>1. PICK text \in Texts : Line(text)
    BY <1>11 DEF GetReply, Texts
  <2>2. s2c' \in Seq(Message)
    BY <1>11, <2>1, LineIs DEF GetReply, TakesLine
  <2>3. aPc' \in {"num", "loop", "next"} /\ aPc \in DOMAIN AfterReply /\ aI' \in {0, aI}
    BY <1>11 DEF GetReply, AfterReply
  <2>4. /\ UNCHANGED <<c2s, aCmd, gaveUp, conn, cGone, uiVars>> /\ errors' \in {errors, TRUE}
        /\ aPc \in {"getVolOk", "getNumOk", "getMedia"} /\ (astray' = astray \/ Fails)
    BY <1>11 DEF GetReply, AfterReply, TakesLine, SaysNothing, ShowsError
  <2>5. aI' \in 0..MaxChannels
    BY <1>3, <2>3, AppAssumption DEF AppTypeOK
  <2>6. AppTypeOK'
    BY <1>3, <2>3, <2>4, <2>5, TaskTyped DEF AppTypeOK, TaskPlaces, TaskSends
  <2> QED  BY <1>1, <1>3, <2>2, <2>3, <2>4, <2>6 DEF CommandInv
<1>12. CASE GetArgReply /\ UNCHANGED uiVars
  <2>1. PICK text \in Texts : Line(text)
    BY <1>12 DEF GetArgReply, Texts
  <2>2. s2c' \in Seq(Message)
    BY <1>12, <2>1, LineIs DEF GetArgReply, TakesLine
  <2>3. aI' \in 0..MaxChannels
    BY <1>1, <1>3, <1>12, AppAssumption DEF GetArgReply, CommandInv, AppTypeOK
  <2>4. /\ UNCHANGED <<c2s, aCmd, gaveUp, conn, cGone, uiVars>> /\ errors' \in {errors, TRUE}
        /\ aPc = "getArg" /\ aPc' = "loop" /\ (astray' = astray \/ Fails)
    BY <1>12 DEF GetArgReply, TakesLine, SaysNothing, ShowsError
  <2>5. AppTypeOK'
    BY <1>3, <2>3, <2>4, TaskTyped DEF AppTypeOK, TaskPlaces
  <2> QED  BY <1>1, <1>3, <2>2, <2>4, <2>5 DEF CommandInv
<1>13. CASE GetEnd /\ UNCHANGED uiVars
  <2>1. c2s' \in Seq(Message) /\ (~srvUp => c2s' = <<>>)
    BY <1>13, PrintedTyped DEF GetEnd, Texts
  <2>2. aI' \in 0..MaxChannels /\ aPc' \in {"loop", "next"}
    BY <1>1, <1>3, <1>13, AppAssumption DEF GetEnd, CommandInv, AppTypeOK
  <2>3. /\ UNCHANGED <<aCmd, errors, uiVars>> /\ gaveUp' = TRUE /\ Closes /\ Fails
        /\ aPc \in {"getVolOk", "getNumOk", "getMedia", "getArg"}
    BY <1>13 DEF GetEnd, AfterReply
  <2>4. AppTypeOK'
    BY <1>3, <2>2, <2>3, TaskTyped DEF Closes, AppTypeOK, TaskPlaces, Connections
  <2> QED  BY <1>1, <1>3, <2>1, <2>2, <2>3, <2>4 DEF Closes, CommandInv
<1>14. CASE StartTask
  <2>1. /\ aPc' \in {"host", "next"} /\ aCmd' = Head(queue) /\ queue' = Tail(queue) /\ queue # <<>>
        /\ edited' = FALSE /\ astray' \in BOOLEAN
        /\ UNCHANGED <<c2s, aI, errors, gaveUp, channels, filling, listed, bg, isPaused, given>>
        /\ UNCHANGED <<conn, cGone, s2c>>
    BY <1>3, <1>14 DEF StartTask, KeepsConn, AppTypeOK
  <2>2. Head(queue) \in AppCommands /\ Tail(queue) \in Seq(AppCommands)
    BY <1>3, <2>1 DEF AppTypeOK
  <2>3. AppTypeOK'
    BY <1>3, <2>1, <2>2 DEF AppTypeOK, TaskPlaces
  <2>4. CommandInv'
    BY <2>1, <2>2, AppAssumption DEF CommandInv
  <2> QED  BY <1>3, <2>1, <2>3, <2>4
<1> QED
  BY <1>4, <1>5, <1>6, <1>7, <1>8, <1>9, <1>10, <1>11, <1>12, <1>13, <1>14
     DEF TaskActs, TaskStep

-----------------------------------------------------------------------------
\* What is left of the invariant, besides the types and the places.
Talks ==
    /\ conn = "open" => InStep
    /\ conn # "closed" => ~sEnc
    /\ conn = "absent" => Quiet /\ (srvUp => sPc = "helo")
    /\ SilenceFollowsError /\ ButtonInv

LEMMA ClosedTalks ==
    ASSUME conn' = "closed", SilenceFollowsError'
    PROVE  Talks'
BY DEF Talks, ButtonInv

LEMMA AstrayStays ==
    /\ SaysNothing => (astray => astray')
    /\ Fails => (astray => astray') /\ (aCmd = "play" => astray')
    /\ ShowsError => (astray => astray') /\ (aCmd = "play" => astray')
BY Zenon DEF SaysNothing, Fails, ShowsError

LEMMA TaskFrame ==
    ASSUME AppInv, TaskActs
    PROVE  /\ UNCHANGED <<sPc, sArg, sEnc, pressed, srvUp, isPaused, bg>> /\ Talks
           /\ \A n : Face(n) => Face(n)'
BY DEF AppInv, LinkInv, Talks, TaskActs, TaskStep, StartTask, LeaveHosts, uiVars, serverVars, Face

\* The child, while the task goes from one place between two requests to the next.
LEMMA TaskWalks ==
    ASSUME AppInv, TaskActs, aPc \in Between, aPc' \in Between,
           UNCHANGED <<conn, cGone, c2s, s2c, errors, gaveUp>>, ButtonInv'
    PROVE  Talks'
<1>1. UNCHANGED <<sPc, sArg, sEnc, pressed, srvUp>> /\ Talks
  BY TaskFrame
<1>2. ASSUME conn = "open" PROVE InStep'
  <2>1. Turn(Ready) \/ Over
    BY <1>1, <1>2 DEF Talks, InStep
  <2>2. CASE Turn(Ready)
    BY <1>1, <2>2 DEF InStep, Between, Turn, Quiet
  <2>3. CASE Over
    <3>1. Calm /\ errors
      BY <2>3, OverCalm DEF Over
    <3>2. Over'
      BY <1>1, <2>3, <3>1 DEF Over, Calm, Strays
    <3> QED  BY <3>2 DEF InStep, Between
  <2> QED  BY <2>1, <2>2, <2>3
<1> QED  BY <1>1, <1>2 DEF Talks, SilenceFollowsError, Quiet

LEMMA TaskStarts ==
    ASSUME AppInv, TaskActs, StartTask
    PROVE  Talks'
<1>1. /\ aPc = "idle" /\ queue # <<>> /\ aCmd' = Head(queue) /\ queue' = Tail(queue)
      /\ aPc' = IF listed THEN "host" ELSE "next"
      /\ astray' = (astray \/ (~listed /\ Head(queue) = "play"))
      /\ UNCHANGED <<conn, cGone, c2s, s2c, errors, gaveUp>>
  BY DEF StartTask, KeepsConn
<1>2. ButtonInv'
  <2> SUFFICES ASSUME conn # "closed", ~astray'
               PROVE  /\ InTurn'
                      /\ aPc' = "host" => Face(ToPress)'
                      /\ aPc' = "next" => Face(0)'
    BY <1>1 DEF ButtonInv
  <2>1. ButtonInv /\ bg' = bg /\ queue \in Seq(AppCommands) /\ \A n : Face(n) => Face(n)'
    BY TaskFrame DEF Talks, AppInv, TypeOK, AppTypeOK
  <2>2. Len(queue) = 1 /\ bg /\ Face(IF queue = <<"play">> THEN 1 ELSE 0)
    BY <1>1, <2>1 DEF ButtonInv, InTurn, Busy
  <2>3. queue' = <<>> /\ (queue = <<"play">> <=> Head(queue) = "play")
    BY <1>1, <2>1, <2>2
  <2>4. InTurn'
    BY <2>1, <2>2, <2>3 DEF InTurn
  <2>5. aPc' = "host" => Face(ToPress)'
    BY <1>1, <2>1, <2>2, <2>3 DEF ToPress
  <2>6. aPc' = "next" => Face(0)'
    BY <1>1, <2>1, <2>2, <2>3
  <2> QED  BY <2>4, <2>5, <2>6
<1> QED  BY <1>1, <1>2, TaskWalks DEF Between

LEMMA TaskMovesOn ==
    ASSUME AppInv, TaskActs, \/ LeaveHosts
                             \/ (TakeHost \/ Connect \/ ChannelLoop \/ ReadFails) /\ UNCHANGED uiVars
    PROVE  Talks'
<1>1. /\ UNCHANGED <<sPc, sArg, sEnc, pressed, srvUp, isPaused, bg>> /\ Talks
      /\ \A n : Face(n) => Face(n)'
  BY TaskFrame
<1>2. CASE ReadFails /\ UNCHANGED uiVars
  <2>1. conn' = "closed" /\ SilenceFollowsError'
    BY <1>2 DEF ReadFails, Closes, ShowsError, SilenceFollowsError
  <2> QED  BY <2>1, ClosedTalks
<1>3. CASE LeaveHosts \/ ((TakeHost \/ ChannelLoop) /\ UNCHANGED uiVars)
  <2>1. /\ UNCHANGED <<errors, gaveUp, c2s, queue>> /\ (astray => astray')
        /\ \/ UNCHANGED <<conn, cGone, s2c>>
           \/ conn' = "closed"
        /\ \/ aPc = "next" /\ aPc' = "idle"
           \/ aPc = "host" /\ aPc' = "connect" /\ aCmd' = aCmd
           \/ aPc = "host" /\ aPc' = "next" /\ (aCmd = "play" => astray')
           \/ aPc = "loop" /\ aPc' \in {"arg", "next"}
           \/ conn' = "closed"
    <3>1. SaysNothing \/ Fails
      BY <1>3 DEF LeaveHosts, TakeHost, ChannelLoop
    <3>2. astray => astray'
      BY <3>1, AstrayStays
    <3>3. /\ UNCHANGED <<errors, gaveUp, c2s, queue>>
          /\ UNCHANGED <<conn, cGone, s2c>> \/ conn' = "closed"
      BY <1>3 DEF LeaveHosts, TakeHost, ChannelLoop, KeepsConn, ProcessDies, Closes, SaysNothing, uiVars
    <3>4. \/ aPc = "next" /\ aPc' = "idle"
          \/ aPc = "host" /\ aPc' = "connect" /\ aCmd' = aCmd
          \/ aPc = "host" /\ aPc' = "next" /\ Fails
          \/ aPc = "loop" /\ aPc' \in {"arg", "next"}
          \/ conn' = "closed"
      BY <1>3 DEF LeaveHosts, TakeHost, ChannelLoop, ProcessDies, Closes
    <3> QED  BY <3>2, <3>3, <3>4, AstrayStays
  <2>2. CASE conn' = "closed"
    BY <1>1, <2>1, <2>2, ClosedTalks DEF Talks, SilenceFollowsError
  <2>3. CASE conn' # "closed"
    <3>1. aPc \in Between /\ aPc' \in Between /\ UNCHANGED <<conn, cGone, c2s, s2c>>
      BY <2>1, <2>3 DEF Between
    <3>2. ButtonInv'
      <4>1. CASE aPc = "next" /\ aPc' = "idle"
        BY <1>1, <2>1, <3>1, <4>1 DEF Talks, ButtonInv, InTurn, Busy
      <4>2. CASE aPc \in {"host", "loop"}
        BY <1>1, <2>1, <2>3, <3>1, <4>2 DEF Talks, ButtonInv, InTurn, Busy, ToPress
      <4> QED  BY <2>1, <2>3, <4>1, <4>2
    <3> QED  BY <2>1, <3>1, <3>2, TaskWalks
  <2> QED  BY <2>2, <2>3
<1>4. CASE Connect /\ UNCHANGED uiVars
  <2>1. aPc = "connect" /\ UNCHANGED <<c2s, aCmd, aI, gaveUp, queue>> /\ (astray => astray')
    <3>1. SaysNothing \/ ShowsError
      BY <1>4 DEF Connect
    <3> QED  BY <1>4, <3>1, AstrayStays DEF Connect, SaysNothing, ShowsError, uiVars
  <2>2. CASE conn' = "closed"
    <3>1. SilenceFollowsError'
      BY <1>1, <1>4 DEF Talks, Connect, SaysNothing, ShowsError, SilenceFollowsError
    <3> QED  BY <2>2, <3>1, ClosedTalks
  <2>3. CASE conn = "absent" /\ conn' = "open"
    <3>1. /\ aPc' = "getHelo" /\ errors' = errors /\ s2c' = s2c /\ srvUp
      BY <1>4, <2>3 DEF Connect, Closes, SaysNothing, KeepsConn
    <3>2. Works({"helo"})'
      BY <1>1, <2>1, <2>3, <3>1 DEF Talks, Works, Quiet
    <3>3. InStep'
      BY <3>1, <3>2 DEF InStep, Between
    <3>4. ButtonInv'
      BY <1>1, <2>1, <2>3, <3>1 DEF Talks, ButtonInv, InTurn, Busy, ToPress
    <3> QED  BY <1>1, <2>1, <2>3, <3>1, <3>3, <3>4 DEF Talks, SilenceFollowsError
  <2>4. CASE conn = "open" /\ conn' = "open"
    <3>1. aPc' = "command" /\ UNCHANGED <<errors, cGone, s2c>>
      BY <1>4, <2>4 DEF Connect, Closes, SaysNothing, KeepsConn
    <3>2. ButtonInv'
      BY <1>1, <2>1, <2>4, <3>1 DEF Talks, ButtonInv, InTurn, Busy, ToPress
    <3> QED  BY <2>1, <2>4, <3>1, <3>2, TaskWalks DEF Between
  <2> QED  BY <1>4, <2>2, <2>3, <2>4 DEF Connect, Closes, KeepsConn
<1> QED  BY <1>2, <1>3, <1>4

LEMMA PrintsOver ==
    ASSUME AppInv, Over, Calm, NEW text \in Texts, NEW arg \in Nat, c2s' = Printed(text, arg),
           UNCHANGED <<s2c, sPc, errors>>, Awaits(text, arg)'
    PROVE  Over'
<1>1. c2s' # <<>> => Len(c2s') = 1 /\ c2s'[1] = Msg(text, arg, "none")
  <2>1. c2s' \in {<<>>, Append(<<>>, Msg(text, arg, "none"))}
    BY DEF Calm, Printed
  <2> QED  BY <2>1
<1> QED  BY <1>1 DEF Over, Calm, Strays, Msg

LEMMA TaskAsks ==
    ASSUME AppInv, TaskActs, TaskSend /\ UNCHANGED uiVars
    PROVE  Talks'
<1>1. /\ UNCHANGED <<sPc, sArg, sEnc, pressed, srvUp, isPaused, bg>> /\ Talks
      /\ \A n : Face(n) => Face(n)'
  BY TaskFrame
<1>2. CASE aPc = "arg" /\ aI >= channels
  <2>1. conn' = "closed" /\ SilenceFollowsError'
    BY <1>1, <1>2 DEF TaskSend, ProcessDies, Closes, SaysNothing, Talks, SilenceFollowsError
  <2> QED  BY <2>1, ClosedTalks
<1>3. CASE ~(aPc = "arg" /\ aI >= channels)
  <2>1. /\ UNCHANGED <<conn, s2c, aCmd, aI, errors, gaveUp, queue, astray>> /\ aPc \in TaskSends
        /\ c2s' = CASE aPc = "noenc"   -> Printed("noenc", 0)
                    [] aPc = "command" -> Printed(aCmd, 0)
                    [] aPc = "num"     -> Printed("num", channels)
                    [] aPc = "arg"     -> Printed("arg", aI + 1)
        /\ aPc' = CASE aPc = "noenc"   -> "getRedy"
                    [] aPc = "command" -> IF aCmd = "vol" THEN "getVolOk" ELSE "getMedia"
                    [] aPc = "num"     -> "getNumOk"
                    [] aPc = "arg"     -> "getArg"
    BY <1>3 DEF TaskSend, KeepsConn, SaysNothing, uiVars
  <2>2. aCmd \in Texts /\ aI + 1 \in Nat /\ channels \in Nat
    BY <2>1, AppAssumption DEF AppInv, CommandInv, TypeOK, AppTypeOK, TaskSends, Texts
  <2>3. aPc = "getMedia" => FALSE
    BY <2>1 DEF TaskSends
  <2>4. Over /\ aPc \in Between => Over'
    <3> SUFFICES ASSUME Over, aPc \in Between PROVE Over'
      OBVIOUS
    <3>1. Calm
      BY OverCalm
    <3>2. CASE aPc = "command"
      <4>1. Awaits(aCmd, 0)' /\ c2s' = Printed(aCmd, 0)
        BY <2>1, <3>2 DEF Awaits
      <4> QED  BY <1>1, <2>1, <2>2, <3>1, <4>1, PrintsOver
    <3>3. CASE aPc = "arg"
      <4>1. Awaits("arg", aI + 1)' /\ c2s' = Printed("arg", aI + 1)
        BY <2>1, <3>3 DEF Awaits
      <4>2. aI' + 1 = aI + 1 /\ "arg" \in Texts
        BY <2>1 DEF Texts
      <4> QED  BY <1>1, <2>1, <2>2, <3>1, <4>1, <4>2, PrintsOver
    <3> QED  BY <2>1, <3>2, <3>3 DEF Between, TaskSends
  <2>5. ButtonInv'
    <3>1. CASE aPc' # "getMedia"
      <4>1. \/ aPc = "noenc" /\ aPc' = "getRedy"
            \/ aPc = "command" /\ aPc' = "getVolOk" /\ aCmd = "vol"
            \/ aPc = "num" /\ aPc' = "getNumOk"
            \/ aPc = "arg" /\ aPc' = "getArg"
        BY <2>1, <3>1 DEF TaskSends
      <4> QED  BY <1>1, <2>1, <4>1 DEF Talks, ButtonInv, InTurn, Busy, ToPress
    <3>2. CASE aPc' = "getMedia"
      <4>1. aPc = "command"
        BY <2>1, <3>2 DEF TaskSends
      <4>2. ~Over' /\ conn # "closed" => s2c = <<>> /\ (srvUp => sPc # "okPlay")
        <5>1. conn \in Connections /\ aPc \in Between
          BY <4>1 DEF AppInv, TypeOK, AppTypeOK, Between
        <5>2. CASE conn = "absent"
          BY <1>1, <5>2 DEF Talks, Quiet
        <5>3. CASE conn = "open"
          BY <1>1, <2>4, <5>1, <5>3 DEF Talks, InStep, Turn, Quiet, Ready
        <5> QED  BY <5>1, <5>2, <5>3 DEF Connections
      <4> QED  BY <1>1, <2>1, <3>2, <4>1, <4>2 DEF Talks, ButtonInv, InTurn, Busy, ToPress, Works
    <3> QED  BY <3>1, <3>2
  <2>6. ASSUME conn = "open" PROVE InStep'
    <3>1. InStep
      BY <1>1, <2>6 DEF Talks
    <3>2. CASE Over /\ aPc \in {"command", "arg"}
      <4>1. Over'
        BY <2>4, <3>2 DEF Between
      <4>2. aPc' \in {"getVolOk", "getMedia", "getArg"}
        BY <2>1, <3>2
      <4> QED  BY <4>1, <4>2 DEF InStep, Between
    <3>3. CASE aPc = "noenc"
      <4>1. Asked({"noenc"}, "none", {"getEnc"})' \/ Lost'
        BY <1>1, <2>1, <2>6, <3>1, <3>3, PrintsRequest DEF InStep, Texts
      <4> QED  BY <2>1, <3>3, <4>1 DEF InStep, Between
    <3>4. CASE aPc = "command" /\ Turn(Ready)
      <4>1. Asked({aCmd}, "none", Ready)' \/ Lost'
        BY <1>1, <2>1, <2>2, <2>6, <3>4, PrintsRequest
      <4> QED  BY <2>1, <3>4, <4>1 DEF InStep, Between, Asked, On
    <3>5. CASE aPc = "num"
      <4>1. Asked({"num"}, "none", {"getNum"})' \/ Lost'
        BY <1>1, <2>1, <2>2, <2>6, <3>1, <3>5, PrintsRequest DEF InStep, Texts
      <4> QED  BY <2>1, <3>5, <4>1 DEF InStep, Between
    <3>6. CASE aPc = "arg" /\ Turn(Ready)
      <4>1. (Asked({"arg"}, "none", Ready)' /\ c2s'[1].arg = aI + 1) \/ Lost'
        BY <1>1, <2>1, <2>2, <2>6, <3>6, PrintsRequest DEF Texts
      <4> QED  BY <2>1, <3>6, <4>1 DEF InStep, Between
    <3> QED  BY <2>1, <3>1, <3>2, <3>3, <3>4, <3>5, <3>6 DEF InStep, Between, TaskSends
  <2>7. conn' = "absent" => Quiet'
    <3>1. ASSUME conn = "absent" PROVE c2s' = c2s
      BY <2>1, <3>1 DEF Printed, TaskSends
    <3> QED  BY <1>1, <2>1, <3>1 DEF Talks, Quiet
  <2> QED  BY <1>1, <2>1, <2>5, <2>6, <2>7 DEF Talks, SilenceFollowsError
<1> QED  BY <1>2, <1>3

LEMMA TaskHearsHandshake ==
    ASSUME AppInv, TaskActs, Handshake /\ UNCHANGED uiVars
    PROVE  Talks'
<1>1. /\ UNCHANGED <<sPc, sArg, sEnc, pressed, srvUp, isPaused, bg>> /\ Talks
      /\ \A n : Face(n) => Face(n)'
  BY TaskFrame
<1>2. CASE Closes
  <2>1. conn' = "closed" /\ SilenceFollowsError'
    BY <1>1, <1>2 DEF Handshake, Closes, ShowsError, SaysNothing, Talks, SilenceFollowsError
  <2> QED  BY <2>1, ClosedTalks
<1>3. CASE ~Closes
  <2>1. /\ Line(Expected[aPc]) /\ s2c' = Tail(s2c) /\ aPc \in {"getHelo", "getRedy"}
        /\ aPc' = Onward[aPc]
        /\ UNCHANGED <<c2s, conn, aCmd, aI, errors, gaveUp, queue, astray>>
    BY <1>3 DEF Handshake, Expected, TakesLine, SaysNothing, uiVars
  <2>2. conn = "open" /\ InStep /\ s2c # <<>> /\ (Len(s2c) = 1 => s2c' = <<>>)
    BY <2>1, LineIs
  <2>3. CASE aPc = "getHelo"
    <3>1. aPc' = "noenc"
      BY <2>1, <2>3 DEF Onward
    <3>2. Turn({"getEnc"})'
      BY <1>1, <2>1, <2>2, <2>3 DEF InStep, Works, Answered, Lost, On, Turn, Quiet
    <3> QED
      BY <1>1, <2>1, <2>2, <2>3, <3>1, <3>2
         DEF Talks, InStep, Between, ButtonInv, InTurn, Busy, ToPress, SilenceFollowsError
  <2>4. CASE aPc = "getRedy"
    <3>1. aPc' = "command"
      BY <2>1, <2>4 DEF Onward
    <3>2. Turn(Ready)'
      BY <1>1, <2>1, <2>2, <2>4 DEF InStep, Asked, Works, Answered, Lost, On, Turn, Quiet, Ready
    <3> QED
      BY <1>1, <2>1, <2>2, <2>4, <3>1, <3>2
         DEF Talks, InStep, Between, ButtonInv, InTurn, Busy, ToPress, SilenceFollowsError
  <2> QED  BY <2>1, <2>3, <2>4
<1> QED  BY <1>2, <1>3

LEMMA TaskHearsReply ==
    ASSUME AppInv, TaskActs, (GetReply \/ GetArgReply) /\ UNCHANGED uiVars
    PROVE  Talks'
<1>1. /\ UNCHANGED <<sPc, sArg, sEnc, pressed, srvUp, isPaused, bg>> /\ Talks
      /\ \A n : Face(n) => Face(n)'
  BY TaskFrame
<1>2. /\ s2c' = Tail(s2c) /\ UNCHANGED <<c2s, conn, aCmd, queue>>
      /\ aPc \in {"getVolOk", "getNumOk", "getMedia", "getArg"}
  BY DEF GetReply, GetArgReply, AfterReply, TakesLine, uiVars
<1>3. CASE Line("err") /\ ShowsError
  <2>1. (Turn(Ready) \/ Over)' /\ conn = "open"
    BY <1>1, <1>2, <1>3, ErrorLine, LineIs DEF ShowsError
  <2>2. aPc' \in {"next", "loop"} \/ \E text \in Texts \ {"err", "end"} : Line(text)
    BY <1>3 DEF GetReply, GetArgReply
  <2>3. aPc' \in {"next", "loop"}
    BY <1>3, <2>2 DEF GetReply, GetArgReply, Line
  <2>4. InStep' /\ SilenceFollowsError'
    BY <1>3, <2>1, <2>3 DEF InStep, Between, SilenceFollowsError, ShowsError
  <2>5. ButtonInv'
    <3> SUFFICES ASSUME conn # "closed", ~astray' PROVE InTurn' /\ Face(0)'
      BY <1>2, <2>3 DEF ButtonInv
    <3>1. ~astray /\ aCmd # "play"
      BY <1>3, AstrayStays
    <3> QED  BY <1>1, <1>2, <2>3, <3>1 DEF Talks, ButtonInv, InTurn, Busy
  <2> QED  BY <1>1, <1>2, <2>1, <2>4, <2>5 DEF Talks
<1>4. CASE \E text \in Texts \ {"err", "end"} : Line(text) /\ SaysNothing
  <2>1. PICK text \in Texts \ {"err", "end"} : Line(text) /\ SaysNothing
    BY <1>4
  <2>2. /\ conn = "open" /\ InStep /\ s2c # <<>> /\ s2c[1].text \notin {"err", "end"}
        /\ Len(s2c) = 1 => s2c' = <<>>
    BY <1>2, <2>1, LineIs
  <2>3. ~Refused /\ ~Over /\ ~Lost
    BY <2>2 DEF Refused, Over, Lost, Works, Answered, On, Quiet
  <2>4. ~Line("err") /\ UNCHANGED <<errors, gaveUp, astray>>
    BY <2>1 DEF Line, SaysNothing
  <2>5. CASE aPc = "getVolOk"
    <3>1. aPc' = "num"
      BY <2>4, <2>5 DEF GetReply, GetArgReply, AfterReply
    <3>2. Turn({"getNum"})'
      BY <1>1, <1>2, <2>2, <2>3, <2>5 DEF InStep, Asked, Works, Answered, On, Turn, Quiet
    <3> QED
      BY <1>1, <1>2, <2>2, <2>4, <2>5, <3>1, <3>2
         DEF Talks, InStep, Between, ButtonInv, InTurn, Busy, SilenceFollowsError
  <2>6. CASE aPc \in {"getNumOk", "getArg"}
    <3>1. aPc' = "loop"
      BY <2>4, <2>6 DEF GetReply, GetArgReply, AfterReply
    <3>2. Turn(Ready)'
      BY <1>1, <1>2, <2>2, <2>3, <2>6 DEF InStep, Asked, Works, Answered, On, Turn, Quiet
    <3> QED
      BY <1>1, <1>2, <2>2, <2>4, <2>6, <3>1, <3>2
         DEF Talks, InStep, Between, ButtonInv, InTurn, Busy, SilenceFollowsError
  <2>7. CASE aPc = "getMedia"
    <3>1. aPc' = "next"
      BY <2>4, <2>7 DEF GetReply, GetArgReply, AfterReply
    <3>2. Answered({"ok", "prev"}, "none", {"getCmd"})
      BY <2>2, <2>3, <2>7 DEF InStep, Asked, Works, Quiet
    <3>3. Turn(Ready)' /\ s2c[1].text \in {"ok", "prev"}
      BY <1>1, <1>2, <2>2, <3>2 DEF Answered, On, Turn, Quiet, Ready
    <3> QED
      BY <1>1, <1>2, <2>2, <2>3, <2>4, <2>7, <3>1, <3>3
         DEF Talks, InStep, Between, ButtonInv, InTurn, Busy, SilenceFollowsError
  <2> QED  BY <1>2, <2>5, <2>6, <2>7
<1> QED  BY <1>3, <1>4 DEF GetReply, GetArgReply

LEMMA TaskHearsEnd ==
    ASSUME AppInv, TaskActs, GetEnd
    PROVE  Talks'
<1>1. conn' = "closed" /\ Line("end") /\ errors' = errors /\ aPc \notin {"getHelo", "getRedy"}
  BY DEF GetEnd, AfterReply, Closes
<1>2. SilenceFollowsError'
  BY <1>1, EndLine DEF SilenceFollowsError
<1> QED  BY <1>1, <1>2, ClosedTalks

LEMMA TaskKeepsApp ==
    ASSUME AppInv, TaskActs
    PROVE  AppInv'
<1>1. Talks'
  BY TaskStarts, TaskMovesOn, TaskAsks, TaskHearsHandshake, TaskHearsReply, TaskHearsEnd
     DEF TaskActs, TaskStep
<1> QED  BY <1>1, TaskKeepsPlace DEF AppInv, LinkInv, Talks

-----------------------------------------------------------------------------
(***************************************************************************)
(* The user, the end of the process, and the end of the server.            *)
(***************************************************************************)
LEMMA InStepStays ==
    ASSUME InStep, UNCHANGED <<c2s, s2c, srvUp, serverVars, aPc, aCmd, aI, errors>>
    PROVE  InStep'
BY DEF InStep, Turn, Quiet, Over, Strays, Calm, Awaits, On, Asked, Works, Answered, Lost, Refused,
       LastApplied, serverVars

LEMMA UiKeepsApp ==
    ASSUME AppInv, UiStep /\ UNCHANGED serverVars
    PROVE  AppInv'
<1>1. /\ UNCHANGED <<sPc, sEnc, pressed, asleep, srvUp>> /\ UNCHANGED serverVars /\ Talks
      /\ ServerTypeOK' /\ SegmentsSent'
      /\ c2s \in Seq(Message) /\ s2c \in Seq(Message) /\ cGone \in BOOLEAN /\ srvUp \in BOOLEAN
      /\ AppTypeOK /\ CommandInv /\ LinkInv /\ <<>> \in Seq(Message)
  <2>1. srvUp' = srvUp
    BY DEF UiStep, GiveCommand, EditServers, ClearChannels, FillChannels, Destroy, Killed, wireVars
  <2> QED
    BY <2>1 DEF AppInv, TypeOK, WireTypeOK, ServerTypeOK, SegmentsSent, serverVars, Talks, LinkInv
<1>2. CASE GiveCommand
  <2>1. PICK cmd \in AppCommands :
          /\ isPaused' = IF cmd = "play" THEN ~isPaused ELSE isPaused
          /\ IF bg /\ Busy
             THEN queue' = queue /\ astray' = (astray \/ cmd = "play")
             ELSE queue' = Append(queue, cmd) /\ astray' = astray
    BY <1>2 DEF GiveCommand
  <2>2. /\ UNCHANGED <<c2s, s2c, cGone, aPc, aCmd, aI, conn, errors, gaveUp, channels, filling, listed,
                       edited>>
        /\ bg' = TRUE /\ given' = given + 1 /\ given < MaxCommands
    BY <1>2 DEF GiveCommand, wireVars
  <2>3. AppTypeOK'
    <3>1. /\ given \in 0..MaxCommands /\ isPaused \in BOOLEAN /\ astray \in BOOLEAN
          /\ queue \in Seq(AppCommands)
      BY <1>1 DEF AppTypeOK
    <3>2. given' \in 0..MaxCommands
      BY <2>2, <3>1, AppAssumption
    <3>3. isPaused' \in BOOLEAN /\ astray' \in BOOLEAN
      BY <2>1, <3>1
    <3>4. queue' \in Seq(AppCommands)
      BY <2>1, <3>1
    <3> QED  BY <1>1, <2>2, <3>2, <3>3, <3>4 DEF AppTypeOK
  <2>4. CommandInv'
    BY <1>1, <2>2 DEF CommandInv
  <2>5. conn = "open" => InStep'
    BY <1>1, <2>2, InStepStays DEF Talks
  <2>6. ButtonInv'
    <3> SUFFICES ASSUME conn # "closed", ~astray' PROVE ButtonInv'
      BY <2>2 DEF ButtonInv
    <3>1. /\ ButtonInv /\ queue \in Seq(AppCommands) /\ isPaused \in BOOLEAN
          /\ pressed["play"] \in Nat /\ pressed' = pressed
      BY <1>1 DEF Talks, AppTypeOK, AppInv, TypeOK, ServerTypeOK, MediaKeys
    <3>2. CASE bg /\ Busy
      <4>1. queue' = queue /\ ~astray /\ cmd # "play"
        BY <2>1, <3>2
      <4>2. isPaused' = isPaused
        BY <2>1, <4>1
      <4> QED
        BY <1>1, <2>2, <3>1, <3>2, <4>1, <4>2
           DEF ButtonInv, InTurn, Busy, Face, ToPress, Over, Strays, Awaits, Works, Quiet, serverVars
    <3>3. CASE ~(bg /\ Busy)
      <4>1. queue' = Append(queue, cmd) /\ ~astray
        BY <2>1, <3>3
      <4>2. aPc = "idle" /\ queue = <<>> /\ Face(0)
        BY <3>1, <3>3, <4>1 DEF ButtonInv, InTurn, Busy
      <4>3. queue' = <<cmd>> /\ Len(queue') = 1
        BY <4>1, <4>2
      <4>4. Face(IF queue = <<"play">> THEN 1 ELSE 0)'
        <5>1. CASE cmd = "play"
          BY <2>1, <3>1, <4>2, <4>3, <5>1, Parity DEF Face
        <5>2. CASE cmd # "play"
          <6>1. queue' # <<"play">>
            BY <4>3, <5>2
          <6> QED  BY <2>1, <3>1, <4>2, <5>2, <6>1 DEF Face
        <5> QED  BY <5>1, <5>2
      <4> QED  BY <2>2, <4>2, <4>3, <4>4 DEF ButtonInv, InTurn, Busy
    <3> QED  BY <3>2, <3>3
  <2> QED
    BY <1>1, <2>2, <2>3, <2>4, <2>5, <2>6
       DEF AppInv, TypeOK, WireTypeOK, LinkInv, Talks, SilenceFollowsError, Quiet
<1>3. CASE EditServers \/ ClearChannels \/ FillChannels
  <2>1. /\ UNCHANGED <<c2s, s2c, cGone, aPc, aCmd, aI, conn, errors, gaveUp, queue, isPaused, astray,
                       given, bg>>
        /\ channels' \in 0..MaxChannels /\ filling' \in BOOLEAN /\ edited' \in BOOLEAN
        /\ listed' \in BOOLEAN
    <3>1. 0 \in 0..MaxChannels
      BY AppAssumption
    <3>2. /\ channels \in 0..MaxChannels /\ filling \in BOOLEAN /\ edited \in BOOLEAN
          /\ listed \in BOOLEAN
      BY <1>1 DEF AppTypeOK
    <3> QED
      BY <1>3, <3>1, <3>2 DEF EditServers, ClearChannels, FillChannels, wireVars, taskVars
  <2>2. AppTypeOK' /\ CommandInv' /\ SilenceFollowsError'
    BY <1>1, <2>1 DEF AppTypeOK, CommandInv, Talks, SilenceFollowsError
  <2>3. conn = "open" => InStep'
    BY <1>1, <2>1, InStepStays DEF Talks
  <2>4. ButtonInv'
    BY <1>1, <2>1
       DEF Talks, ButtonInv, InTurn, Busy, Face, ToPress, Over, Strays, Awaits, Works, Quiet, serverVars
  <2> QED
    BY <1>1, <2>1, <2>2, <2>3, <2>4 DEF AppInv, TypeOK, WireTypeOK, LinkInv, Quiet
<1>4. CASE Destroy
  <2>1. /\ UNCHANGED <<aCmd, aI, errors, gaveUp, channels, filling, listed, edited, queue, given>>
        /\ bg' = FALSE /\ isPaused' = FALSE /\ astray' = TRUE
        /\ c2s' \in {c2s, Printed("end", 0)} /\ aPc' \in {aPc, "dead"}
        /\ \/ conn = "absent" /\ aPc' = aPc /\ UNCHANGED <<conn, cGone, s2c>>
              /\ c2s' = c2s
           \/ Closes
    BY <1>4 DEF Destroy, ProcessDies, KeepsConn, Printed
  <2>2. c2s' \in Seq(Message) /\ (~srvUp => c2s' = <<>>)
    BY <1>1, <2>1, PrintedTyped DEF Texts, LinkInv
  <2>3. s2c' \in {s2c, <<>>} /\ cGone' \in BOOLEAN /\ conn' \in {conn, "closed"}
    BY <1>1, <2>1 DEF Closes
  <2>4. AppTypeOK'
    BY <1>1, <2>1, <2>3 DEF AppTypeOK, TaskPlaces, Connections
  <2>5. CommandInv' /\ SilenceFollowsError' /\ ButtonInv'
    BY <1>1, <2>1 DEF CommandInv, Talks, SilenceFollowsError, ButtonInv
  <2>6. (cGone' => conn' = "closed") /\ (aPc' = "dead" => conn' = "closed")
    BY <1>1, <1>4, <2>1 DEF Closes, LinkInv, Destroy, UiReady
  <2>7. conn' # "open" /\ (conn' = "absent" => Quiet')
    BY <1>1, <2>1 DEF Closes, LinkInv, Quiet
  <2>8. LinkInv'
    BY <1>1, <2>2, <2>3, <2>6, <2>7 DEF LinkInv
  <2> QED  BY <1>1, <2>2, <2>3, <2>4, <2>5, <2>7, <2>8 DEF AppInv, TypeOK, WireTypeOK
<1>5. CASE Killed
  <2>1. /\ UNCHANGED <<c2s, aCmd, aI, errors, gaveUp, channels, filling, listed, edited, queue, given, bg,
                       isPaused, astray>>
        /\ aPc' = "dead" /\ Closes
    BY <1>5 DEF Killed, ProcessDies, uiVars
  <2>2. AppTypeOK' /\ CommandInv' /\ SilenceFollowsError' /\ cGone' \in BOOLEAN
    BY <1>1, <2>1 DEF AppTypeOK, TaskPlaces, Connections, CommandInv, Talks, SilenceFollowsError, Closes
  <2> QED
    BY <1>1, <2>1, <2>2 DEF Closes, AppInv, TypeOK, WireTypeOK, LinkInv, ButtonInv
<1> QED  BY <1>2, <1>3, <1>4, <1>5 DEF UiStep

LEMMA ShutdownKeepsApp ==
    ASSUME AppInv, ServerShutdown /\ UNCHANGED appVars
    PROVE  AppInv'
<1>1. /\ UNCHANGED <<s2c, cGone, sUseEnc, sEnc, sRemoteKey, sSeg, sNum, sI, sArg, applied, pressed>>
      /\ UNCHANGED <<aPc, aCmd, aI, conn, errors, gaveUp, queue, bg, isPaused, astray>>
      /\ UNCHANGED appVars
      /\ c2s' = <<>> /\ asleep' = <<>> /\ srvUp /\ ~srvUp' /\ srvUp' = FALSE
      /\ sPc' = IF sPc \in ServerDone THEN sPc ELSE "dead"
  BY DEF ServerShutdown, appVars, taskVars, uiVars
<1>2. /\ ServerTypeOK /\ AppTypeOK /\ WireTypeOK /\ SegmentsSent /\ LinkInv /\ CommandInv
      /\ SilenceFollowsError /\ ButtonInv
  BY DEF AppInv, TypeOK
<1>3. sPc' \in ServerDone /\ Calm'
  BY <1>1 DEF ServerDone, Calm, MediaKeys
<1>4. TypeOK' /\ SegmentsSent' /\ CommandInv' /\ SilenceFollowsError'
  <2>1. ServerTypeOK' /\ WireTypeOK'
    <3>1. <<>> \in Seq(Message)
      OBVIOUS
    <3>2. WireTypeOK'
      BY <1>1, <1>2, <3>1 DEF WireTypeOK
    <3>3. ServerTypeOK'
      <4>1. asleep' \in Seq([num : Nat, i : Nat])
        BY <1>1
      <4> QED  BY <1>1, <1>2, <1>3, <4>1 DEF ServerTypeOK, ServerPlaces
    <3> QED  BY <3>2, <3>3
  <2>2. AppTypeOK' /\ CommandInv' /\ SilenceFollowsError'
    BY <1>1, <1>2, AppTypesKept DEF CommandInv, SilenceFollowsError
  <2>3. SegmentsSent'
    BY <1>3 DEF SegmentsSent, ServerDone
  <2> QED  BY <2>1, <2>2, <2>3 DEF TypeOK
<1>5. LinkInv'
  BY <1>1, <1>2, <1>3 DEF LinkInv, Quiet
<1>6. ASSUME conn = "open" PROVE InStep'
  <2>1. InStep
    BY <1>6 DEF AppInv
  <2>2. CASE s2c = <<>>
    <3>1. Lost'
      BY <1>1, <2>2 DEF Lost, Quiet
    <3>2. Turn(Ready)' /\ Turn({"getEnc"})' /\ Turn({"getNum"})'
      BY <3>1 DEF Turn, Lost
    <3> QED  BY <3>1, <3>2 DEF InStep
  <2>3. CASE s2c # <<>>
    <3>1. ASSUME NEW texts, NEW key, NEW places, Answered(texts, key, places)
          PROVE  Answered(texts, key, places)'
      BY <1>1, <3>1 DEF Answered, On
    <3>2. Refused => Refused'
      BY <1>1, <1>3, <2>3 DEF Refused, Works, Quiet, Answered, On
    <3>3. Over => Over'
      BY <1>1, <1>3, <2>3 DEF Over, Calm, Strays
    <3>4. LastApplied(aI + 1) => LastApplied(aI + 1)'
      BY <1>1 DEF LastApplied
    <3>5. /\ Answered({"helo"}, "none", {"getEnc"}) => Answered({"helo"}, "none", {"getEnc"})'
          /\ Answered({"redy"}, "none", {"getCmd"}) => Answered({"redy"}, "none", {"getCmd"})'
          /\ Answered({"ok"}, "none", {"getNum"}) => Answered({"ok"}, "none", {"getNum"})'
          /\ Answered({"ok"}, "none", Ready) => Answered({"ok"}, "none", Ready)'
          /\ Answered({"ok", "prev"}, "none", {"getCmd"}) => Answered({"ok", "prev"}, "none", {"getCmd"})'
      BY <3>1 DEF Ready
    <3> QED
      BY <1>1, <2>1, <2>3, <3>2, <3>3, <3>4, <3>5 DEF InStep, Turn, Asked, Works, Lost, Quiet
  <2> QED  BY <2>2, <2>3
<1>7. ButtonInv'
  <2>1. \A n : Face(n) => Face(n)'
    BY <1>1 DEF Face
  <2>2. c2s' = <<>> /\ sPc' # "play" /\ ~Works({"okPlay"})'
    BY <1>1, <1>3 DEF ServerDone, Works
  <2>3. s2c # <<>> => (Over => Over')
    BY <1>1, <1>3 DEF Over, Calm, Strays
  <2> QED  BY <1>1, <1>2, <2>1, <2>2, <2>3 DEF ButtonInv, InTurn, Busy, ToPress
<1> QED  BY <1>1, <1>4, <1>5, <1>6, <1>7 DEF AppInv

-----------------------------------------------------------------------------
LEMMA InitApp == Init => AppInv
<1> SUFFICES ASSUME Init PROVE AppInv
  OBVIOUS
<1>1. TypeOK
  <2>1. sUseEnc \in BOOLEAN
    BY ServerEncAssumption DEF Init
  <2>2. WireTypeOK /\ ServerTypeOK
    <3>1. "helo" \in ServerPlaces
      BY SendTable DEF ServerPlaces
    <3>2. /\ <<>> \in Seq(Message) /\ <<>> \in Seq(Nat) /\ <<>> \in Seq([num : Nat, i : Nat])
          /\ [key \in MediaKeys |-> 0] \in [MediaKeys -> Nat]
      OBVIOUS
    <3>3. WireTypeOK
      BY <3>2 DEF Init, WireInit, WireTypeOK
    <3>4. ServerTypeOK
      <4>1. /\ sPc = "helo" /\ sEnc = FALSE /\ sRemoteKey = FALSE /\ sSeg = 1 /\ sNum = 0 /\ sI = 0
            /\ sArg = 0 /\ asleep = <<>> /\ applied = <<>> /\ pressed = [key \in MediaKeys |-> 0]
        BY DEF Init, ServerInit
      <4>2. sSeg \in 1..7 /\ sNum \in Nat /\ sI \in Nat /\ sArg \in Nat
        BY <4>1
      <4>3. /\ applied \in Seq(Nat) /\ pressed \in [MediaKeys -> Nat]
            /\ asleep \in Seq([num : Nat, i : Nat])
        BY <3>2, <4>1
      <4> QED  BY <2>1, <3>1, <4>1, <4>2, <4>3 DEF ServerTypeOK
    <3> QED  BY <3>3, <3>4
  <2>3. AppTypeOK
    <3>1. 0 \in 0..MaxChannels /\ 0 \in 0..MaxCommands /\ channels \in 0..MaxChannels
      BY AppAssumption DEF Init, AppInit
    <3>2. <<>> \in Seq(AppCommands)
      OBVIOUS
    <3> QED  BY <3>1, <3>2 DEF Init, AppInit, AppTypeOK, TaskPlaces, Connections
  <2> QED  BY <2>2, <2>3 DEF TypeOK
<1>2. SegmentsSent /\ LinkInv /\ CommandInv /\ SilenceFollowsError /\ conn # "open"
  BY DEF Init, WireInit, ServerInit, AppInit, SegmentsSent, LinkInv, CommandInv, SilenceFollowsError, Quiet
<1>3. ButtonInv
  <2>1. pressed["play"] = 0
    BY DEF Init, ServerInit, MediaKeys
  <2>2. Face(0)
    BY <2>1 DEF Init, AppInit, Face
  <2>3. queue # <<"play">> /\ ~Busy
    BY DEF Init, AppInit, Busy
  <2> QED  BY <2>2, <2>3 DEF Init, AppInit, ButtonInv, InTurn
<1> QED  BY <1>1, <1>2, <1>3 DEF AppInv

LEMMA AppInvKept == AppInv /\ [Next]_vars => AppInv'
<1> SUFFICES ASSUME AppInv, [Next]_vars PROVE AppInv'
  OBVIOUS
<1>1. CASE ServerActs
  BY <1>1, ChildKeepsApp
<1>2. CASE TaskActs
  BY <1>2, TaskKeepsApp
<1>3. CASE UiStep /\ UNCHANGED serverVars
  BY <1>3, UiKeepsApp
<1>4. CASE ServerShutdown /\ UNCHANGED appVars
  BY <1>4, ShutdownKeepsApp
<1>5. CASE UNCHANGED vars
  <2>1. UNCHANGED <<wireVars, serverVars, appVars>>
    BY <1>5 DEF vars
  <2>2. TypeOK' /\ SegmentsSent'
    BY <2>1, AppTypesKept
       DEF AppInv, TypeOK, WireTypeOK, ServerTypeOK, SegmentsSent, wireVars, serverVars
  <2>3. LinkInv' /\ CommandInv' /\ SilenceFollowsError' /\ ButtonInv'
    BY <2>1 DEF AppInv, LinkInv, CommandInv, SilenceFollowsError, ButtonInv, InTurn, Busy, Face, ToPress,
                Over, Strays, Awaits, Works, Quiet, wireVars, serverVars, appVars, taskVars, uiVars
  <2>4. conn = "open" => InStep'
    BY <2>1, InStepStays DEF AppInv, wireVars, appVars, taskVars
  <2>5. conn' = conn
    BY <2>1 DEF appVars, taskVars
  <2> QED  BY <2>2, <2>3, <2>4, <2>5 DEF AppInv
<1> QED  BY <1>1, <1>2, <1>3, <1>4, <1>5 DEF Next

LEMMA AppInvAlways == Spec => []AppInv
BY InitApp, AppInvKept, PTL DEF Spec

(***************************************************************************)
(* The variables of the application, the child and the streams keep their  *)
(* types, whatever the user, the server and the network do.                *)
(***************************************************************************)
THEOREM AppTypes == Spec => []TypeOK
<1>1. AppInv => TypeOK
  BY DEF AppInv
<1> QED  BY <1>1, AppInvAlways, PTL

(***************************************************************************)
(* No command finds an answer on the connection that was meant for another *)
(* one: whatever failed before, there is none, or first the "end" of a     *)
(* child that gave up, on which the application closes the connection.     *)
(***************************************************************************)
THEOREM NoAnswerIsStale == Spec => []NoStaleAnswer
<1>1. AppInv => NoStaleAnswer
  <2> SUFFICES ASSUME AppInv, aPc = "idle", conn = "open"
               PROVE  s2c = <<>> \/ Head(s2c).text = "end"
    BY DEF NoStaleAnswer
  <2>1. s2c = <<>> \/ s2c[1].text = "end"
    BY DEF AppInv, InStep, Between, Turn, Quiet, Over
  <2>2. Head(s2c) = s2c[1]
    BY DEF AppInv, TypeOK, WireTypeOK
  <2> QED  BY <2>1, <2>2
<1> QED  BY <1>1, AppInvAlways, PTL

(***************************************************************************)
(* An "ok" read for an argument is the answer to this argument, and amixer *)
(* has set it, for any number of channels and any change of their list.    *)
(***************************************************************************)
THEOREM OkMeansSet == Spec => []OkWasSet
<1>1. AppInv => OkWasSet
  <2> SUFFICES ASSUME AppInv, aPc = "getArg", Line("ok")
               PROVE  applied # <<>> /\ applied[Len(applied)] = aI + 1
    BY DEF OkWasSet
  <2>1. InStep /\ s2c # <<>> /\ s2c[1].text = "ok"
    BY LineIs
  <2> QED
    BY <2>1 DEF InStep, Asked, Works, Answered, Lost, Refused, Over, On, Quiet, LastApplied
<1> QED  BY <1>1, AppInvAlways, PTL

(***************************************************************************)
(* A command given up on the server's "end", without a word, follows an    *)
(* error that was shown.                                                   *)
(***************************************************************************)
THEOREM SilentAfterError == Spec => []SilenceFollowsError
<1>1. AppInv => SilenceFollowsError
  BY DEF AppInv
<1> QED  BY <1>1, AppInvAlways, PTL

(***************************************************************************)
(* Between commands the pause button shows whether the "play" key was      *)
(* pressed an odd number of times, whatever failed since, as long as the   *)
(* Main it belongs to lives and no "play" itself was dropped, failed, or   *)
(* passed this host over.                                                  *)
(***************************************************************************)
THEOREM ButtonShowsPresses == Spec => []ButtonIsRight
<1>1. AppInv => ButtonIsRight
  <2> SUFFICES ASSUME AppInv, ~Busy, conn = "open", ~astray
               PROVE  isPaused <=> pressed["play"] % 2 = 1
    BY DEF ButtonIsRight
  <2>1. aPc = "idle" /\ queue # <<"play">>
    BY DEF Busy
  <2>2. Face(0)
    BY <2>1 DEF AppInv, ButtonInv
  <2>3. pressed["play"] \in Nat
    BY DEF AppInv, TypeOK, ServerTypeOK, MediaKeys
  <2> QED  BY <2>2, <2>3, Parity DEF Face
<1> QED  BY <1>1, AppInvAlways, PTL

(***************************************************************************)
(* The mixer changes only for the argument the task waits for, while the   *)
(* connection is open.                                                     *)
(***************************************************************************)
THEOREM MixerSetsWhatIsAsked == Spec => AppliesWhatIsAsked
<1>1. AppInv /\ [Next]_vars =>
         [applied' # applied => \/ aPc = "getArg" /\ applied'[Len(applied')] = aI + 1
                                \/ cGone]_vars
  <2> SUFFICES ASSUME AppInv, [Next]_vars, applied' # applied
               PROVE  (aPc = "getArg" /\ applied'[Len(applied')] = aI + 1) \/ cGone
    OBVIOUS
  <2>1. ServerActs
    BY DEF Next, TaskActs, ServerShutdown, vars, serverVars
  <2> QED  BY <2>1, ChildSetsAsked
<1> QED  BY <1>1, AppInvAlways, PTL DEF Spec, AppliesWhatIsAsked

=============================================================================
