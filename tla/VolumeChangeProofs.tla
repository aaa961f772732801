------------------------- MODULE VolumeChangeProofs -------------------------
(***************************************************************************)
(* What is proved of VolumeChange for every number of channels, with and   *)
(* without an execlp() that fails.                                         *)
(***************************************************************************)
EXTENDS VolumeChange, SequenceTheorems, TLAPS

Last == Len(procs)

\* All but the last process of the chain are inside changeVolume(); the last is
\* not yet in waitpid(), and the first is the child of the connection itself.
Chained ==
    \A k \in 1..Last :
        /\ k < Last => procs[k].pc \in Waiting
        /\ k = Last => procs[k].pc # "wait"
        /\ k = 1 => procs[k].pc \notin Amixer
        /\ procs[k].pc # "read" \/ k > 1 => procs[k].chan # 0

\* While the client is there and was sent no "end", the copy that is to be amixer
\* works on the channel of its parent, the last of the chain on the one the
\* client waits for, and what is about to become an "ok" has been set.
InStep ==
    ~left /\ ~ended =>
             /\ Last # 0
             /\ \A k \in 1..Last :
                   /\ k > 1 /\ procs[k].pc \in Amixer => procs[k].chan = procs[k - 1].chan
                   /\ k = Last /\ procs[k].pc \notin {"read", "end"} => procs[k].chan = asked
                   /\ \/ procs[k].pc = "ok"
                      \/ procs[k].pc = "zombie" /\ procs[k].status = 0
                      => procs[k].chan \in mixer

\* amixer, or the copy that is to become it, is at the argument not yet answered,
\* whether the client is there or not: so nothing but what is asked is set.
MixerAsked ==
    \A k \in 1..Last : procs[k].pc \in {"copy", "amixer"} => procs[k].chan = asked /\ asked # 0

VolumeInv == TypeOK /\ Chained /\ InStep /\ MixerAsked /\ HeardOkWasSet

-----------------------------------------------------------------------------
(***************************************************************************)
(* The chain with one process changed, as Moves() and EXCEPT change it.    *)
(***************************************************************************)
LEMMA ChainExcept ==
    ASSUME NEW chain \in Seq(Proc), NEW k \in 1..Len(chain), NEW p \in Proc
    PROVE  /\ [chain EXCEPT ![k] = p] \in Seq(Proc)
           /\ Len([chain EXCEPT ![k] = p]) = Len(chain)
           /\ \A j \in 1..Len(chain) :
                 [chain EXCEPT ![k] = p][j] = IF j = k THEN p ELSE chain[j]
BY ExceptSeq

LEMMA ProcFields ==
    ASSUME NEW p \in Proc
    PROVE  /\ p.pc \in Serving \cup Waiting \cup Amixer
           /\ p.chan \in 0..NumChannels
           /\ p.status \in {0, 1}
           /\ \A pc \in Serving \cup Waiting \cup Amixer :
                 /\ [p EXCEPT !.pc = pc] \in Proc
                 /\ [p EXCEPT !.pc = pc].pc = pc
                 /\ [p EXCEPT !.pc = pc].chan = p.chan
                 /\ [p EXCEPT !.pc = pc].status = p.status
BY DEF Proc

\* Places, told apart.
LEMMA Places ==
    /\ \A pc \in Serving : pc \notin Waiting /\ pc \notin Amixer
    /\ \A pc \in Waiting : pc \notin Amixer
BY DEF Serving, Waiting, Amixer

(***************************************************************************)
(* A process that moves to another place, all else staying.                *)
(***************************************************************************)
LEMMA Moved ==
    ASSUME procs \in Seq(Proc), NEW k \in 1..Len(procs),
           NEW place \in Serving \cup Waiting \cup Amixer
    PROVE  /\ Moves(k, place) \in Seq(Proc)
           /\ Len(Moves(k, place)) = Len(procs)
           /\ \A j \in 1..Len(procs) :
                 /\ Moves(k, place)[j] \in Proc
                 /\ Moves(k, place)[j].pc = IF j = k THEN place ELSE procs[j].pc
                 /\ Moves(k, place)[j].chan = procs[j].chan
                 /\ Moves(k, place)[j].status = procs[j].status
<1> DEFINE p == [procs[k] EXCEPT !.pc = place]
<1>1. \A j \in 1..Len(procs) : procs[j] \in Proc
  BY ElementOfSeq
<1>2. p \in Proc /\ p.pc = place /\ p.chan = procs[k].chan /\ p.status = procs[k].status
  BY <1>1, ProcFields
<1>3. Moves(k, place) = [procs EXCEPT ![k] = p]
  BY DEF Moves
<1> HIDE DEF p
<1> QED  BY <1>1, <1>2, <1>3, ChainExcept

LEMMA InitVolume == Init => VolumeInv
<1> SUFFICES ASSUME Init PROVE VolumeInv
  OBVIOUS
<1> DEFINE p == [pc |-> "read", chan |-> 0, status |-> 0]
<1>1. p \in Proc
  BY VolumeAssumption DEF Proc, Serving
<1>2. procs = <<p>> /\ sent = 0 /\ asked = 0 /\ left = FALSE /\ ended = FALSE
      /\ mixer = {} /\ answers = <<>>
  BY DEF Init
<1>3. procs \in Seq(Proc) /\ Len(procs) = 1 /\ procs[1] = p
  BY <1>1, <1>2
<1>4. p.pc = "read"
  OBVIOUS
<1>5. TypeOK
  <2>1. answers \in Seq(Answer)
    BY <1>2, EmptySeq
  <2>2. sent \in 0..NumChannels /\ asked \in 0..NumChannels /\ mixer \subseteq 1..NumChannels
    BY <1>2, VolumeAssumption
  <2>3. left \in BOOLEAN /\ ended \in BOOLEAN
    BY <1>2
  <2> QED  BY <1>3, <2>1, <2>2, <2>3 DEF TypeOK
<1>6. Chained /\ InStep /\ MixerAsked /\ HeardOkWasSet
  BY <1>2, <1>3, <1>4 DEF Chained, InStep, MixerAsked, HeardOkWasSet, Last, Amixer
<1> QED  BY <1>5, <1>6 DEF VolumeInv

(***************************************************************************)
(* The client's steps leave the chain alone; each step of a process moves  *)
(* its end, lengthens it or cuts it.                                       *)
(***************************************************************************)
LEMMA AskKeeps == VolumeInv /\ (Ask \/ Leave) => VolumeInv'
<1> SUFFICES ASSUME VolumeInv, Ask \/ Leave PROVE VolumeInv'
  OBVIOUS
<1> USE DEF VolumeInv
<1>1. procs' = procs /\ mixer' = mixer /\ answers' = answers
  BY DEF Ask, Leave
<1>2. TypeOK'
  <2>1. sent' \in 0..NumChannels /\ asked' \in 0..NumChannels
    BY VolumeAssumption DEF TypeOK, Ask, Leave, Request
  <2>2. left' \in BOOLEAN /\ ended' \in BOOLEAN
    BY DEF TypeOK, Ask, Leave
  <2> QED  BY <1>1, <2>1, <2>2 DEF TypeOK
<1>3. Chained' /\ HeardOkWasSet'
  BY <1>1 DEF Chained, HeardOkWasSet, Last
<1>4. InStep'
  <2>1. CASE Leave
    BY <2>1 DEF Leave, InStep
  <2>2. CASE Ask
    <3>1. ~left /\ ~ended /\ asked = 0
      BY <2>2 DEF Ask
    <3>2. \A k \in 1..Last : k = Last => procs[k].pc \in {"read", "end"}
      BY <3>1 DEF InStep, Chained
    <3> QED  BY <1>1, <3>1, <3>2 DEF InStep, Last
  <2> QED  BY <2>1, <2>2
<1>5. MixerAsked'
  BY <1>1 DEF Ask, Leave, Request, MixerAsked, Last
<1> QED  BY <1>2, <1>3, <1>4, <1>5

\* Facts about the chain before a step.
LEMMA ChainFacts ==
    VolumeInv =>
       /\ procs \in Seq(Proc) /\ Last \in Nat
       /\ \A k \in 1..Last : procs[k] \in Proc
       /\ \A k \in 1..Last : k # Last => procs[k].pc \in Waiting
       /\ mixer \subseteq 1..NumChannels /\ asked \in 0..NumChannels
       /\ left \in BOOLEAN /\ ended \in BOOLEAN
<1> SUFFICES ASSUME VolumeInv PROVE
       /\ procs \in Seq(Proc) /\ Last \in Nat
       /\ \A k \in 1..Last : procs[k] \in Proc
       /\ \A k \in 1..Last : k # Last => procs[k].pc \in Waiting
       /\ mixer \subseteq 1..NumChannels /\ asked \in 0..NumChannels
       /\ left \in BOOLEAN /\ ended \in BOOLEAN
  OBVIOUS
<1>1. procs \in Seq(Proc) /\ mixer \subseteq 1..NumChannels /\ asked \in 0..NumChannels
      /\ left \in BOOLEAN /\ ended \in BOOLEAN
  BY DEF VolumeInv, TypeOK
<1>2. Last \in Nat /\ \A k \in 1..Last : procs[k] \in Proc
  BY <1>1, ElementOfSeq, LenProperties DEF Last
<1> QED  BY <1>1, <1>2 DEF VolumeInv, Chained

LEMMA ReadArgKeeps ==
    ASSUME NEW k \in Nat, VolumeInv, ReadArg(k)
    PROVE  VolumeInv'
<1> USE DEF VolumeInv
<1> DEFINE p == [procs[k] EXCEPT !.chan = asked]
           f == [p EXCEPT !.pc = "forked"]
           c == [p EXCEPT !.pc = "copy"]
<1>1. k \in 1..Last /\ k = Last /\ procs[k].pc = "read" /\ asked # 0
      /\ UNCHANGED <<sent, asked, left, ended, mixer, answers>>
  BY DEF ReadArg, At, Last
<1>2. p \in Proc /\ p.chan = asked
  BY <1>1, ChainFacts DEF Proc
<1>3. /\ f \in Proc /\ f.pc = "forked" /\ f.chan = asked
      /\ c \in Proc /\ c.pc = "copy" /\ c.chan = asked
      /\ \A place \in {"err", "refuse"} :
            /\ [p EXCEPT !.pc = place] \in Proc
            /\ [p EXCEPT !.pc = place].pc = place
            /\ [p EXCEPT !.pc = place].chan = asked
  BY <1>2, ProcFields DEF Serving, Waiting, Amixer
<1>4. \/ \E place \in {"err", "refuse"} : procs' = [procs EXCEPT ![k] = [p EXCEPT !.pc = place]]
      \/ procs' = Append([procs EXCEPT ![k] = f], c)
  BY DEF ReadArg
<1> HIDE DEF p, f, c
<1>5. HeardOkWasSet'
  BY <1>1 DEF HeardOkWasSet
<1>6. ASSUME NEW place \in {"err", "refuse"}, procs' = [procs EXCEPT ![k] = [p EXCEPT !.pc = place]]
      PROVE  VolumeInv'
  <2> DEFINE e == [p EXCEPT !.pc = place]
  <2>0. e \in Proc /\ e.pc = place /\ e.chan = asked /\ procs' = [procs EXCEPT ![k] = e]
    BY <1>3, <1>6
  <2> HIDE DEF e
  <2>1. /\ procs' \in Seq(Proc) /\ Len(procs') = Last
        /\ \A j \in 1..Last : procs'[j] = IF j = k THEN e ELSE procs[j]
    BY <1>1, <2>0, ChainFacts, ChainExcept DEF Last
  <2>2. TypeOK'
    BY <1>1, <2>1 DEF TypeOK
  <2>3. Chained'
    <3>1. e.pc \notin Amixer /\ e.pc # "wait" /\ e.chan # 0
      BY <1>1, <1>6, <2>0 DEF Amixer
    <3> QED  BY <1>1, <2>1, <3>1 DEF Chained, Last
  <2>4. InStep'
    <3>1. \A j \in 1..Last : j # k => procs'[j] = procs[j] /\ procs[j].pc \in Waiting
      BY <1>1, <2>1, ChainFacts
    <3> QED  BY <1>1, <1>6, <2>0, <2>1, <3>1 DEF InStep, Last, Waiting, Amixer
  <2>5. MixerAsked'
    BY <1>1, <1>6, <2>0, <2>1 DEF MixerAsked, Last
  <2> QED  BY <1>5, <2>2, <2>3, <2>4, <2>5
<1>7. CASE procs' = Append([procs EXCEPT ![k] = f], c)
  <2>1. /\ procs' \in Seq(Proc) /\ Len(procs') = Last + 1
        /\ \A j \in 1..Last : procs'[j] = IF j = k THEN f ELSE procs[j]
        /\ procs'[Last + 1] = c
    <3>1. /\ [procs EXCEPT ![k] = f] \in Seq(Proc) /\ Len([procs EXCEPT ![k] = f]) = Last
          /\ \A j \in 1..Last : [procs EXCEPT ![k] = f][j] = IF j = k THEN f ELSE procs[j]
      BY <1>1, <1>3, ChainFacts, ChainExcept DEF Last
    <3> QED  BY <1>3, <1>7, <3>1, ChainFacts
  <2>2. TypeOK'
    BY <1>1, <2>1 DEF TypeOK
  <2>3. Last \in Nat /\ \A j \in 1..Last : j # k => procs'[j] = procs[j] /\ procs[j].pc \in Waiting
    BY <1>1, <2>1, ChainFacts
  <2>4. \A j \in 1..Last + 1 : j \in 1..Last \/ j = Last + 1
    BY <2>3
  <2>5. Chained'
    BY <1>1, <1>3, <2>1, <2>3, <2>4 DEF Chained, Last, Amixer, Waiting
  <2>6. InStep'
    BY <1>1, <1>3, <2>1, <2>3, <2>4 DEF InStep, Last, Amixer, Waiting
  <2>7. MixerAsked'
    BY <1>1, <1>3, <2>1, <2>4 DEF MixerAsked, Last
  <2> QED  BY <1>5, <2>2, <2>5, <2>6, <2>7
<1> QED  BY <1>4, <1>6, <1>7

(***************************************************************************)
(* The last process of the chain ends: with the client gone, or sent "end" *)
(* by now, nothing is claimed of the channels any more.                    *)
(***************************************************************************)
LEMMA WithoutKeeps ==
    ASSUME NEW k \in Nat, VolumeInv, k \in 1..Last, procs[k].pc \in Serving,
           k > 1 => procs[k].chan # 0,
           NEW status \in {0, 1}, procs' = Without(k, status), left' \/ ended',
           left' = left, ended' \in BOOLEAN, UNCHANGED <<sent, mixer>>,
           asked' \in 0..NumChannels, answers' \in Seq(Answer), HeardOkWasSet'
    PROVE  VolumeInv'
<1> USE DEF VolumeInv
<1> DEFINE q == [procs[k] EXCEPT !.pc = "zombie", !.status = status]
<1>1. k = Last
  BY ChainFacts, Places
<1>2. InStep'
  BY DEF InStep
<1>3. CASE k = 1
  <2>1. procs' = <<>>
    BY <1>3 DEF Without
  <2>2. procs' \in Seq(Proc) /\ Len(procs') = 0
    BY <2>1, EmptySeq
  <2> QED  BY <1>2, <2>2 DEF TypeOK, Chained, MixerAsked, Last
<1>4. CASE k # 1
  <2>1. procs' = [procs EXCEPT ![k] = q]
    BY <1>4 DEF Without
  <2>2. q \in Proc /\ q.pc = "zombie" /\ q.chan = procs[k].chan
    BY ChainFacts DEF Proc, Amixer
  <2>3. procs[k].chan # 0
    BY <1>4
  <2> HIDE DEF q
  <2>4. /\ procs' \in Seq(Proc) /\ Len(procs') = Last
        /\ \A j \in 1..Last : procs'[j] = IF j = k THEN q ELSE procs[j]
    BY <2>1, <2>2, ChainFacts, ChainExcept DEF Last
  <2>5. Chained'
    BY <1>1, <1>4, <2>2, <2>3, <2>4 DEF Chained, Last
  <2>6. MixerAsked'
    <3>1. \A j \in 1..Last : procs'[j].pc \notin {"copy", "amixer"}
      BY <1>1, <2>2, <2>4, ChainFacts DEF Waiting
    <3> QED  BY <2>4, <3>1 DEF MixerAsked, Last
  <2> QED  BY <1>2, <2>4, <2>5, <2>6 DEF TypeOK
<1> QED  BY <1>3, <1>4

LEMMA ReadEndKeeps ==
    ASSUME NEW k \in Nat, VolumeInv, ReadEnd(k)
    PROVE  VolumeInv'
<1>1. /\ k \in 1..Last /\ procs[k].pc = "read" /\ procs' = Without(k, 0) /\ left
      /\ UNCHANGED <<sent, asked, left, ended, mixer, answers>>
  BY DEF ReadEnd, At, Last
<1>2. procs[k].pc \in Serving /\ (k > 1 => procs[k].chan # 0)
  BY <1>1 DEF VolumeInv, Chained, Serving
<1>3. asked' \in 0..NumChannels /\ answers' \in Seq(Answer) /\ ended' \in BOOLEAN /\ HeardOkWasSet'
  BY <1>1 DEF VolumeInv, TypeOK, HeardOkWasSet
<1> QED  BY <1>1, <1>2, <1>3, WithoutKeeps

LEMMA SendEndKeeps ==
    ASSUME NEW k \in Nat, VolumeInv, SendEnd(k)
    PROVE  VolumeInv'
<1>1. /\ k \in 1..Last /\ procs[k].pc = "end" /\ ended'
      /\ UNCHANGED <<sent, asked, left, mixer, answers>>
  BY DEF SendEnd, At, Last
<1>2. PICK status \in {0, 1} : procs' = Without(k, status)
  BY DEF SendEnd
<1>3. procs[k].pc \in Serving /\ (k > 1 => procs[k].chan # 0)
  BY <1>1 DEF VolumeInv, Chained, Serving
<1>4. asked' \in 0..NumChannels /\ answers' \in Seq(Answer) /\ HeardOkWasSet' /\ ended' \in BOOLEAN
  BY <1>1 DEF VolumeInv, TypeOK, HeardOkWasSet, SendEnd
<1> QED  BY <1>1, <1>2, <1>3, <1>4, WithoutKeeps

\* The copy goes on: as amixer, or, where execlp() failed, as a server.
LEMMA ExecKeeps ==
    ASSUME NEW k \in Nat, VolumeInv, Exec(k)
    PROVE  VolumeInv'
<1> USE DEF VolumeInv
<1>1. /\ k \in 1..Last /\ procs[k].pc = "copy"
      /\ UNCHANGED <<sent, asked, left, ended, mixer, answers>>
  BY DEF Exec, At, Last
<1>2. k = Last /\ k # 1
  BY <1>1, ChainFacts DEF Waiting, Chained, Amixer
<1>3. PICK place \in {"amixer", "err"} : procs' = Moves(k, place)
  BY DEF Exec
<1>4. place \in Serving \cup Waiting \cup Amixer
  BY DEF Serving, Amixer
<1>5. /\ procs' \in Seq(Proc) /\ Len(procs') = Last
      /\ \A j \in 1..Last : /\ procs'[j].pc = IF j = k THEN place ELSE procs[j].pc
                            /\ procs'[j].chan = procs[j].chan
                            /\ procs'[j].status = procs[j].status
  BY <1>1, <1>3, <1>4, ChainFacts, Moved DEF Last
<1>6. TypeOK' /\ HeardOkWasSet'
  BY <1>1, <1>5 DEF TypeOK, HeardOkWasSet
<1>7. Chained'
  BY <1>1, <1>2, <1>5 DEF Chained, Last
<1>8. InStep'
  <2>1. \A j \in 1..Last : j # k => procs[j].pc \in Waiting
    BY <1>2, ChainFacts
  <2>2. \A j \in 1..Last : j > 1 => j - 1 \in 1..Last
    BY ChainFacts
  <2> QED  BY <1>1, <1>2, <1>5, <2>1, <2>2 DEF InStep, Last, Waiting, Amixer
<1>9. MixerAsked'
  BY <1>1, <1>5 DEF MixerAsked, Last
<1> QED  BY <1>6, <1>7, <1>8, <1>9

LEMMA AmixerExitsKeeps ==
    ASSUME NEW k \in Nat, VolumeInv, AmixerExits(k)
    PROVE  VolumeInv'
<1> USE DEF VolumeInv
<1>1. /\ k \in 1..Last /\ procs[k].pc = "amixer"
      /\ UNCHANGED <<sent, asked, left, ended, answers>>
  BY DEF AmixerExits, At, Last
<1>2. k = Last /\ k # 1
  BY <1>1, ChainFacts DEF Waiting, Chained, Amixer
<1>3. PICK status \in {0, 1} :
         /\ procs' = [procs EXCEPT ![k].pc = "zombie", ![k].status = status]
         /\ mixer' = IF status = 0 THEN mixer \cup {procs[k].chan} ELSE mixer
  BY DEF AmixerExits
<1> DEFINE q == [procs[k] EXCEPT !.pc = "zombie", !.status = status]
<1>4. procs' = [procs EXCEPT ![k] = q]
  BY <1>3
<1>5. /\ procs[k] \in Proc /\ q \in Proc /\ q.pc = "zombie" /\ q.chan = procs[k].chan
      /\ q.status = status /\ q.chan \in 0..NumChannels
  BY <1>1, ChainFacts DEF Proc, Amixer
<1>6. q.chan # 0
  BY <1>1, <1>2, <1>5, ChainFacts DEF Chained
<1>7. mixer' \subseteq 1..NumChannels /\ mixer \subseteq mixer'
  BY <1>3, <1>5, <1>6, ChainFacts
<1> HIDE DEF q
<1>8. /\ procs' \in Seq(Proc) /\ Len(procs') = Last
      /\ \A j \in 1..Last : procs'[j] = IF j = k THEN q ELSE procs[j]
  BY <1>1, <1>4, <1>5, ChainFacts, ChainExcept DEF Last
<1>9. TypeOK'
  BY <1>1, <1>7, <1>8 DEF TypeOK
<1>10. Chained'
  BY <1>1, <1>2, <1>5, <1>6, <1>8 DEF Chained, Last
<1>11. InStep'
  <2>1. \A j \in 1..Last : j # k => procs'[j] = procs[j] /\ procs[j].pc \in Waiting
    BY <1>2, <1>8, ChainFacts
  <2>2. procs'[k] = q /\ (status = 0 => q.chan \in mixer')
    BY <1>1, <1>3, <1>5, <1>8
  <2>3. \A j \in 1..Last : j > 1 => j - 1 \in 1..Last
    BY ChainFacts
  <2> QED  BY <1>1, <1>2, <1>5, <1>8, <2>1, <2>2, <2>3 DEF InStep, Last, Waiting, Amixer
<1>12. HeardOkWasSet'
  BY <1>1, <1>7 DEF HeardOkWasSet
<1>13. MixerAsked'
  BY <1>1, <1>5, <1>8 DEF MixerAsked, Last
<1> QED  BY <1>9, <1>10, <1>11, <1>12, <1>13

\* The chain cut behind the process whose child is reaped.
LEMMA CutFacts ==
    ASSUME VolumeInv, NEW k \in Nat, k \in 1..Last
    PROVE  /\ Reaped(k) \in Seq(Proc) /\ Len(Reaped(k)) = k
           /\ \A j \in 1..k : Reaped(k)[j] = procs[j]
<1>1. procs \in Seq(Proc) /\ Last \in Nat /\ \A j \in 1..k : procs[j] \in Proc
  BY ChainFacts
<1> QED  BY <1>1, SubSeqProperties DEF Reaped, Last

\* A zombie is the last of the chain, right behind its parent.
LEMMA ZombieLast ==
    ASSUME VolumeInv, NEW k \in Nat, k \in 1..Last, HasZombie(k)
    PROVE  /\ k + 1 = Last /\ procs[k + 1].pc = "zombie"
           /\ procs[k].pc \in Waiting
           /\ procs[k].chan # 0
           /\ ~left /\ ~ended => /\ procs[k].chan = procs[k + 1].chan
                                 /\ procs[k + 1].chan = asked
                                 /\ procs[k + 1].status = 0 => procs[k].chan \in mixer
<1>1. k + 1 \in 1..Last /\ procs[k + 1].pc = "zombie"
  BY DEF HasZombie, At, Last
<1>2. k + 1 = Last
  BY <1>1, ChainFacts DEF Waiting
<1>3. procs[k].pc \in Waiting
  BY <1>2, ChainFacts
<1>4. procs[k].chan # 0
  BY <1>3 DEF VolumeInv, Chained, Waiting
<1>5. ~left /\ ~ended => /\ procs[k].chan = procs[k + 1].chan
                         /\ procs[k + 1].chan = asked
                         /\ procs[k + 1].status = 0 => procs[k].chan \in mixer
  BY <1>1, <1>2 DEF VolumeInv, InStep, Amixer
<1> QED  BY <1>1, <1>2, <1>3, <1>4, <1>5

LEMMA HandlerReapsKeeps ==
    ASSUME NEW k \in Nat, VolumeInv, HandlerReaps(k)
    PROVE  VolumeInv'
<1> USE DEF VolumeInv
<1>1. /\ k \in 1..Last /\ procs[k].pc = "forked" /\ HasZombie(k) /\ procs' = Reaped(k)
      /\ UNCHANGED <<sent, asked, left, ended, mixer, answers>>
  BY DEF HandlerReaps, At, Last
<1>2. /\ procs' \in Seq(Proc) /\ Len(procs') = k
      /\ \A j \in 1..k : procs'[j] = procs[j] /\ j \in 1..Last
  BY <1>1, CutFacts, ChainFacts
<1>3. TypeOK' /\ HeardOkWasSet'
  BY <1>1, <1>2 DEF TypeOK, HeardOkWasSet
<1>4. k + 1 = Last /\ \A j \in 1..k : procs[j].pc \in Waiting
  BY <1>1, <1>2, ZombieLast, ChainFacts
<1>5. Chained'
  BY <1>1, <1>2, <1>4 DEF Chained, Last
<1>6. InStep'
  BY <1>1, <1>2, <1>4, ZombieLast DEF InStep, Last, Waiting, Amixer
<1>7. MixerAsked'
  BY <1>1, <1>2 DEF MixerAsked, Last
<1> QED  BY <1>3, <1>5, <1>6, <1>7

LEMMA CallWaitKeeps ==
    ASSUME NEW k \in Nat, VolumeInv, CallWait(k)
    PROVE  VolumeInv'
<1> USE DEF VolumeInv
<1> DEFINE place == IF k = Len(procs) THEN "err" ELSE "wait"
<1>1. /\ k \in 1..Last /\ procs[k].pc = "forked" /\ procs' = Moves(k, place)
      /\ UNCHANGED <<sent, asked, left, ended, mixer, answers>>
  BY DEF CallWait, At, Last
<1>2. place \in Serving \cup Waiting \cup Amixer
  BY DEF Serving, Waiting
<1>3. place = IF k = Last THEN "err" ELSE "wait"
  BY DEF Last
<1> HIDE DEF place
<1>4. /\ procs' \in Seq(Proc) /\ Len(procs') = Last
      /\ \A j \in 1..Last : /\ procs'[j].pc = IF j = k THEN place ELSE procs[j].pc
                            /\ procs'[j].chan = procs[j].chan
                            /\ procs'[j].status = procs[j].status
  BY <1>1, <1>2, ChainFacts, Moved DEF Last
<1>5. TypeOK' /\ HeardOkWasSet'
  BY <1>1, <1>4 DEF TypeOK, HeardOkWasSet
<1>6. Chained'
  BY <1>1, <1>3, <1>4 DEF Chained, Last, Waiting, Amixer
<1>7. InStep'
  <2>1. \A j \in 1..Last : j > 1 => j - 1 \in 1..Last
    BY ChainFacts
  <2> QED  BY <1>1, <1>3, <1>4, <2>1 DEF InStep, Last, Amixer
<1>8. MixerAsked'
  BY <1>1, <1>3, <1>4 DEF MixerAsked, Last
<1> QED  BY <1>5, <1>6, <1>7, <1>8

LEMMA WaitReturnsKeeps ==
    ASSUME NEW k \in Nat, VolumeInv, WaitReturns(k)
    PROVE  VolumeInv'
<1> USE DEF VolumeInv
<1> DEFINE place == IF procs[k + 1].status = 0 THEN "ok" ELSE "err"
           q == [procs[k] EXCEPT !.pc = place]
<1>1. /\ k \in 1..Last /\ procs[k].pc = "wait" /\ HasZombie(k)
      /\ procs' = [Reaped(k) EXCEPT ![k].pc = place]
      /\ UNCHANGED <<sent, asked, left, ended, mixer, answers>>
  BY DEF WaitReturns, At, Last
<1>2. /\ Reaped(k) \in Seq(Proc) /\ Len(Reaped(k)) = k /\ k \in 1..k
      /\ \A j \in 1..k : Reaped(k)[j] = procs[j] /\ j \in 1..Last
  BY <1>1, CutFacts, ChainFacts
<1>3. place \in {"ok", "err"} /\ (place = "ok" => procs[k + 1].status = 0)
  OBVIOUS
<1> HIDE DEF place
<1>4. q \in Proc /\ q.pc = place /\ q.chan = procs[k].chan
  <2>1. procs[k] \in Proc /\ place \in Serving \cup Waiting \cup Amixer
    BY <1>1, <1>3, ChainFacts DEF Serving
  <2> QED  BY <2>1, ProcFields
<1>5. procs' = [Reaped(k) EXCEPT ![k] = q]
  BY <1>1, <1>2
<1> HIDE DEF q
<1>6. /\ procs' \in Seq(Proc) /\ Len(procs') = k
      /\ \A j \in 1..k : procs'[j] = IF j = k THEN q ELSE procs[j]
  BY <1>2, <1>4, <1>5, ChainExcept
<1>7. TypeOK' /\ HeardOkWasSet'
  BY <1>1, <1>6 DEF TypeOK, HeardOkWasSet
<1>8. k + 1 = Last /\ procs[k].chan # 0 /\ \A j \in 1..k : procs[j].pc \in Waiting
  BY <1>1, <1>2, ZombieLast, ChainFacts
<1>9. Chained'
  BY <1>1, <1>2, <1>3, <1>4, <1>6, <1>8 DEF Chained, Last, Amixer
<1>10. InStep'
  BY <1>1, <1>2, <1>3, <1>4, <1>6, <1>8, ZombieLast DEF InStep, Last, Waiting, Amixer
<1>11. MixerAsked'
  BY <1>1, <1>2, <1>3, <1>4, <1>6 DEF MixerAsked, Last
<1> QED  BY <1>7, <1>9, <1>10, <1>11

(***************************************************************************)
(* A reply: who gives it, and, to a client that takes it, of what.         *)
(***************************************************************************)
ReplyOf(k) == [chan  |-> procs[k].chan,
               text  |-> IF procs[k].pc = "ok" THEN "ok" ELSE "err",
               heard |-> ~left /\ ~ended]

LEMMA ReplyFacts ==
    ASSUME NEW k \in Nat, VolumeInv, Reply(k)
    PROVE  /\ k \in 1..Last /\ k = Last /\ procs[k].pc \in {"ok", "err", "refuse"}
           /\ procs[k].chan \in 1..NumChannels
           /\ ~left /\ ~ended => /\ procs[k].chan = asked
                                 /\ procs[k].pc = "ok" => procs[k].chan \in mixer
           /\ answers' = Append(answers, ReplyOf(k)) /\ ReplyOf(k) \in Answer
           /\ ReplyOf(k).chan = procs[k].chan
           /\ ReplyOf(k).text = IF procs[k].pc = "ok" THEN "ok" ELSE "err"
           /\ ReplyOf(k).heard <=> ~left /\ ~ended
           /\ asked' = IF asked = procs[k].chan THEN 0 ELSE asked
           /\ UNCHANGED <<sent, left, ended, mixer>>
<1> USE DEF VolumeInv
<1>1. k \in 1..Last /\ procs[k].pc \in {"ok", "err", "refuse"}
  BY DEF Reply, Last
<1>2. k = Last
  BY <1>1, ChainFacts DEF Waiting
<1>3. procs[k].chan \in 1..NumChannels
  <2>1. procs[k].chan \in 0..NumChannels /\ procs[k].chan # 0
    BY <1>1, ChainFacts, ProcFields DEF Chained
  <2> QED  BY <2>1, VolumeAssumption
<1>4. ~left /\ ~ended => procs[k].chan = asked /\ (procs[k].pc = "ok" => procs[k].chan \in mixer)
  BY <1>1, <1>2 DEF InStep
<1>5. /\ answers' = Append(answers, ReplyOf(k))
      /\ asked' = IF asked = procs[k].chan THEN 0 ELSE asked
      /\ UNCHANGED <<sent, left, ended, mixer>>
  BY DEF Reply, ReplyOf
<1>6. /\ ReplyOf(k) \in Answer /\ ReplyOf(k).chan = procs[k].chan
      /\ ReplyOf(k).text = IF procs[k].pc = "ok" THEN "ok" ELSE "err"
      /\ ReplyOf(k).heard <=> ~left /\ ~ended
  BY <1>3 DEF Answer, ReplyOf
<1> QED  BY <1>1, <1>2, <1>3, <1>4, <1>5, <1>6

LEMMA ReplyKeeps ==
    ASSUME NEW k \in Nat, VolumeInv, Reply(k)
    PROVE  VolumeInv'
<1> USE DEF VolumeInv
<1> DEFINE answer == ReplyOf(k)
<1>1. /\ answer \in Answer /\ answers' = Append(answers, answer)
      /\ UNCHANGED <<sent, left, ended, mixer>>
  BY ReplyFacts
<1>2. answer.heard /\ answer.text = "ok" => answer.chan \in mixer
  BY ReplyFacts
<1>3. asked' \in 0..NumChannels
  BY ReplyFacts, VolumeAssumption DEF TypeOK
<1>4. answers' \in Seq(Answer)
  BY <1>1 DEF TypeOK
<1> HIDE DEF answer
<1>5. HeardOkWasSet'
  <2>1. /\ answers \in Seq(Answer) /\ Len(answers) \in Nat
        /\ Len(answers') = Len(answers) + 1
        /\ \A n \in 1..Len(answers) : answers'[n] = answers[n]
        /\ answers'[Len(answers) + 1] = answer
    BY <1>1 DEF TypeOK
  <2>2. \A n \in 1..Len(answers') : n \in 1..Len(answers) \/ n = Len(answers) + 1
    BY <2>1
  <2> QED  BY <1>1, <1>2, <2>1, <2>2 DEF HeardOkWasSet
<1>6. CASE left /\ procs' = Without(k, 1)
  <2>1. procs[k].pc \in Serving /\ procs[k].chan # 0
    BY ReplyFacts DEF Serving
  <2>2. left' /\ ended' \in BOOLEAN
    BY <1>1, <1>6, ChainFacts
  <2> QED  BY <1>1, <1>3, <1>4, <1>5, <1>6, <2>1, <2>2, ReplyFacts, WithoutKeeps
<1>7. ASSUME NEW place \in {"read", "end"}, procs' = Moves(k, place)
      PROVE  VolumeInv'
  <2>1. place \in Serving \cup Waiting \cup Amixer
    BY DEF Serving
  <2>2. /\ procs' \in Seq(Proc) /\ Len(procs') = Last
        /\ \A j \in 1..Last : /\ procs'[j].pc = IF j = k THEN place ELSE procs[j].pc
                              /\ procs'[j].chan = procs[j].chan
                              /\ procs'[j].status = procs[j].status
    BY <1>7, <2>1, ReplyFacts, ChainFacts, Moved DEF Last
  <2>3. TypeOK'
    BY <1>1, <1>3, <1>4, <2>2 DEF TypeOK
  <2>4. Chained'
    BY <2>2, ReplyFacts DEF Chained, Last, Waiting, Amixer
  <2>5. InStep'
    <3>1. \A j \in 1..Last : j # k => procs[j].pc \in Waiting
      BY ReplyFacts, ChainFacts
    <3>2. \A j \in 1..Last : j > 1 => j - 1 \in 1..Last
      BY ChainFacts
    <3> QED  BY <1>1, <2>2, <3>1, <3>2, ReplyFacts DEF InStep, Last, Waiting, Amixer
  <2>6. MixerAsked'
    BY <2>2, ReplyFacts, ChainFacts DEF MixerAsked, Last, Waiting
  <2> QED  BY <1>5, <2>3, <2>4, <2>5, <2>6
<1>8. \/ left /\ procs' = Without(k, 1)
      \/ \E place \in {"read", "end"} : procs' = Moves(k, place)
  BY DEF Reply
<1> QED  BY <1>6, <1>7, <1>8

-----------------------------------------------------------------------------
LEMMA VolumeInvariant == Spec => []VolumeInv
<1>1. ASSUME VolumeInv, [Next]_vars PROVE VolumeInv'
  <2>1. CASE UNCHANGED vars
    BY <1>1, <2>1 DEF vars, VolumeInv, TypeOK, Chained, InStep, MixerAsked, HeardOkWasSet, Last
  <2>2. CASE Ask \/ Leave
    BY <1>1, <2>2, AskKeeps
  <2>3. ASSUME NEW k \in 1..Depth, ProcStep(k) PROVE VolumeInv'
    <3>1. k \in Nat
      OBVIOUS
    <3> QED  BY <1>1, <2>3, <3>1, ReadArgKeeps, ReadEndKeeps, SendEndKeeps, ExecKeeps,
                AmixerExitsKeeps, HandlerReapsKeeps, CallWaitKeeps, WaitReturnsKeeps, ReplyKeeps DEF ProcStep
  <2> QED  BY <1>1, <2>1, <2>2, <2>3 DEF Next
<1> QED  BY <1>1, InitVolume, PTL DEF Spec

(***************************************************************************)
(* changeVolume() and the processes it leaves keep their types, for any    *)
(* number of arguments: no channel that was not sent is set or answered.   *)
(***************************************************************************)
THEOREM VolumeTypes == Spec => []TypeOK
<1>1. VolumeInv => TypeOK
  BY DEF VolumeInv
<1> QED  BY <1>1, VolumeInvariant, PTL

(***************************************************************************)
(* However many copies a failing execlp() leaves, one process at most      *)
(* reads and answers on the connection.                                    *)
(***************************************************************************)
THEOREM OneProcessServes == Spec => []OneServes
<1>1. VolumeInv => OneServes
  <2>1. SUFFICES ASSUME VolumeInv, NEW j \in 1..Len(procs), NEW k \in 1..Len(procs),
                        procs[j].pc \in Serving, procs[k].pc \in Serving
                 PROVE  j = k
    BY DEF OneServes
  <2>2. j = Last /\ k = Last
    BY <2>1, ChainFacts, Places DEF Last
  <2> QED  BY <2>2
<1> QED  BY <1>1, VolumeInvariant, PTL

(***************************************************************************)
(* An "ok" the client hears is of a channel amixer has set, whoever of the *)
(* chain says it and whichever of handler and waitpid() was first.         *)
(***************************************************************************)
THEOREM OkIsTrue == Spec => []HeardOkWasSet
<1>1. VolumeInv => HeardOkWasSet
  BY DEF VolumeInv
<1> QED  BY <1>1, VolumeInvariant, PTL

(***************************************************************************)
(* A reply the client takes is the reply to the request it waits for, also *)
(* when a copy ends with the client there and wakes its parent up: what    *)
(* that one writes comes behind the "end" of the copy.                     *)
(***************************************************************************)
THEOREM AnswersAreAsked == Spec => AnswersWhatWasAsked
<1> DEFINE A == \A n \in DOMAIN answers' \ DOMAIN answers :
                   answers'[n].heard => asked # 0 /\ answers'[n].chan = asked
<1>1. VolumeInv /\ [Next]_vars => [A]_vars
  <2>1. SUFFICES ASSUME VolumeInv, Next, answers' # answers
                 PROVE  A
    BY DEF vars
  <2>2. PICK k \in 1..Depth : Reply(k)
    BY <2>1 DEF Next, ProcStep, Ask, Leave, ReadArg, ReadEnd, SendEnd, Exec, AmixerExits,
                HandlerReaps, CallWait, WaitReturns
  <2>3. k \in Nat
    OBVIOUS
  <2>4. /\ answers' = Append(answers, ReplyOf(k)) /\ ReplyOf(k) \in Answer
        /\ ReplyOf(k).heard => asked # 0 /\ ReplyOf(k).chan = asked
    BY <2>1, <2>2, <2>3, ReplyFacts
  <2>5. answers \in Seq(Answer)
    BY <2>1 DEF VolumeInv, TypeOK
  <2>6. \A n \in DOMAIN answers' \ DOMAIN answers : answers'[n] = ReplyOf(k)
    BY <2>4, <2>5
  <2> QED  BY <2>4, <2>6
<1> QED  BY <1>1, VolumeInvariant, PTL DEF Spec, AnswersWhatWasAsked

-----------------------------------------------------------------------------
(***************************************************************************)
(* The answers the client took, before and after one more is written.      *)
(***************************************************************************)
LEMMA HeardGrows ==
    ASSUME answers \in Seq(Answer), NEW a \in Answer, answers' = Append(answers, a)
    PROVE  Heard' = IF a.heard THEN Heard \cup {[chan |-> a.chan, text |-> a.text]} ELSE Heard
<1>1. /\ Len(answers) \in Nat /\ Len(answers') = Len(answers) + 1
      /\ \A n \in 1..Len(answers) : answers'[n] = answers[n]
      /\ answers'[Len(answers) + 1] = a
  OBVIOUS
<1>2. 1..Len(answers') = 1..Len(answers) \cup {Len(answers) + 1}
  BY <1>1
<1> QED  BY <1>1, <1>2 DEF Heard

(***************************************************************************)
(* Whatever becomes of amixer, its copy and the waits for them, the chain  *)
(* of processes implements one process that sets what it is asked and      *)
(* answers "ok" only after that.                                           *)
(***************************************************************************)
THEOREM ChainIsService == Spec => ImplementsService
<1>1. Init => Service!Init
  <2> SUFFICES ASSUME Init PROVE Service!Init
    OBVIOUS
  <2>1. answers = <<>> /\ Len(answers) = 0
    BY DEF Init
  <2>2. Heard = {}
    BY <2>1 DEF Heard
  <2> QED  BY <2>2 DEF Init, Service!Init
<1>2. VolumeInv /\ [Next]_vars => [Service!Next]_(Service!vars)
  <2> SUFFICES ASSUME VolumeInv, [Next]_vars
               PROVE  Service!Next \/ UNCHANGED Service!vars
    BY DEF Service!vars
  <2>1. ASSUME answers' = answers PROVE Heard' = Heard
    BY <2>1 DEF Heard
  <2>2. CASE UNCHANGED vars
    BY <2>1, <2>2 DEF vars, Service!vars
  <2>3. CASE Ask
    BY <2>1, <2>3 DEF Ask, Request, Service!Ask, Service!Next
  <2>4. CASE Leave
    BY <2>1, <2>4, ChainFacts DEF Leave, Request, Service!GiveUp, Service!Ask, Service!Next,
                                  Service!vars
  <2>5. ASSUME NEW k \in 1..Depth, ReadArg(k) \/ ReadEnd(k) \/ Exec(k) \/ HandlerReaps(k)
                                    \/ CallWait(k) \/ WaitReturns(k)
        PROVE  UNCHANGED Service!vars
    BY <2>1, <2>5 DEF ReadArg, ReadEnd, Exec, HandlerReaps, CallWait, WaitReturns, Service!vars
  <2>8. ASSUME NEW k \in 1..Depth, SendEnd(k)
        PROVE  Service!GiveUp \/ UNCHANGED Service!vars
    BY <2>1, <2>8, ChainFacts DEF SendEnd, Service!GiveUp, Service!vars
  <2>6. ASSUME NEW k \in 1..Depth, AmixerExits(k)
        PROVE  Service!Set \/ UNCHANGED Service!vars
    <3>1. k \in 1..Last /\ procs[k].pc = "amixer"
      BY <2>6 DEF AmixerExits, At, Last
    <3>2. procs[k].chan = asked /\ asked # 0
      BY <3>1 DEF VolumeInv, MixerAsked
    <3> QED  BY <2>1, <2>6, <3>2 DEF AmixerExits, Service!Set, Service!vars
  <2>7. ASSUME NEW k \in 1..Depth, Reply(k)
        PROVE  Service!Next \/ UNCHANGED Service!vars
    <3> DEFINE text == IF procs[k].pc = "ok" THEN "ok" ELSE "err"
    <3>1. /\ procs[k].chan \in 1..NumChannels
          /\ ~left /\ ~ended => /\ procs[k].chan = asked
                                /\ procs[k].pc = "ok" => procs[k].chan \in mixer
          /\ answers' = Append(answers, ReplyOf(k)) /\ ReplyOf(k) \in Answer
          /\ ReplyOf(k).chan = procs[k].chan /\ ReplyOf(k).text = text
          /\ ReplyOf(k).heard <=> ~left /\ ~ended
          /\ asked' = IF asked = procs[k].chan THEN 0 ELSE asked
          /\ UNCHANGED <<sent, left, ended, mixer>>
      <4>1. k \in Nat
        OBVIOUS
      <4> QED  BY <2>7, <4>1, ReplyFacts
    <3>2. text \in {"ok", "err"} /\ (text = "ok" => procs[k].pc = "ok")
      OBVIOUS
    <3>3. answers \in Seq(Answer)
      BY DEF VolumeInv, TypeOK
    <3> HIDE DEF text
    <3>4. Heard' = IF ~left /\ ~ended THEN Heard \cup {[chan |-> procs[k].chan, text |-> text]}
                   ELSE Heard
      BY <3>1, <3>3, HeardGrows
    <3>5. CASE left \/ ended
      <4>1. Heard' = Heard
        BY <3>4, <3>5
      <4> QED  BY <3>1, <3>5, <4>1 DEF Service!Next, Service!Forget, Service!vars
    <3>6. CASE ~left /\ ~ended
      <4>1. asked # 0 /\ procs[k].chan = asked
        BY <3>1, <3>6
      <4>2. Heard' = Heard \cup {[chan |-> asked, text |-> text]}
        BY <3>4, <3>6, <4>1
      <4>3. Service!Answer(text)
        BY <3>1, <3>2, <3>6, <4>1, <4>2 DEF Service!Answer
      <4> QED  BY <3>2, <4>3 DEF Service!Next
    <3> QED  BY <3>5, <3>6
  <2> QED  BY <2>2, <2>3, <2>4, <2>5, <2>6, <2>7, <2>8 DEF Next, ProcStep, Service!Next
<1> QED  BY <1>1, <1>2, VolumeInvariant, PTL DEF Spec, ImplementsService, Service!Spec

=============================================================================
