----------------------------- MODULE WireProofs -----------------------------
(***************************************************************************)
(* Facts about the operators of Wire that the proofs about Session cite.   *)
(***************************************************************************)
EXTENDS Wire, SequenceTheorems, TLAPS

(***************************************************************************)
(* What a read returns has the type receive() promises; a text that means  *)
(* something was the first write of the stream, sealed with the key it was *)
(* read under, and so was one that begins with something; and what is left *)
(* on the stream was there before.                                         *)
(***************************************************************************)
LEMMA ReadsResult ==
    ASSUME NEW q \in Seq(Message), NEW peerGone \in BOOLEAN, NEW key,
           NEW rd \in Reads(q, peerGone, key)
    PROVE  /\ rd.res \in Result
           /\ rd.left \in Seq(Message)
           /\ rd.res.text # "garbage" => rd.res.head = rd.res.text
           /\ rd.res.head # "garbage" => /\ rd.res.len = "data"
                                         /\ q # <<>>
                                         /\ q[1].text = rd.res.head
                                         /\ q[1].arg = rd.res.arg
                                         /\ q[1].key = key
           /\ \A j \in 1..Len(rd.left) : \E i \in 1..Len(q) : rd.left[j] = q[i]
<1>1. CASE q = <<>> /\ peerGone /\ rd \in [res : NothingLeft(key), left : {q}]
  <2>1. rd.left = q /\ rd.res \in NothingLeft(key)
    BY <1>1
  <2>2. rd.res \in {NoData("eof"), NoData("fail"), NoData("abort")}
    BY <2>1 DEF NothingLeft
  <2>3. rd.res \in Result /\ rd.res.text = "garbage" /\ rd.res.head = "garbage"
    BY <2>2 DEF NoData, Result
  <2> QED  BY <2>1, <2>3
<1>2. ASSUME NEW n \in 1..Len(q), rd \in [res : Decode(SubSeq(q, 1, n), key), left : {Rest(q, n)}]
      PROVE  /\ rd.res \in Result
             /\ rd.left \in Seq(Message)
             /\ rd.res.text # "garbage" => rd.res.head = rd.res.text
             /\ rd.res.head # "garbage" => /\ rd.res.len = "data"
                                           /\ q # <<>>
                                           /\ q[1].text = rd.res.head
                                           /\ q[1].arg = rd.res.arg
                                           /\ q[1].key = key
             /\ \A j \in 1..Len(rd.left) : \E i \in 1..Len(q) : rd.left[j] = q[i]
  <2>1. rd.left = SubSeq(q, n + 1, Len(q)) /\ rd.res \in Decode(SubSeq(q, 1, n), key)
    BY <1>2 DEF Rest
  <2>2. Len(q) \in Nat /\ \A i \in 1..Len(q) : q[i] \in Message
    BY ElementOfSeq, LenProperties
  <2>3. SubSeq(q, 1, n)[1] = q[1] /\ q[1] \in Message /\ q # <<>>
    BY <2>2
  <2>4. /\ rd.left \in Seq(Message)
        /\ Len(rd.left) = Len(q) - n
        /\ \A j \in 1..Len(rd.left) : rd.left[j] = q[n + j]
    BY <2>1, <2>2
  <2>5. \A j \in 1..Len(rd.left) : \E i \in 1..Len(q) : rd.left[j] = q[i]
    BY <2>2, <2>4
  <2>6. \/ rd.res = Data(q[1].text, q[1].arg) /\ q[1].key = key
        \/ rd.res = Glued(q[1].text, q[1].arg) /\ q[1].key = key
        \/ rd.res = Garbage
        \/ rd.res = NoData("fail")
    BY <2>1, <2>3 DEF Decode
  <2>7. q[1].text \in Texts /\ q[1].arg \in Nat
    BY <2>3 DEF Message
  <2>8. rd.res \in Result
    BY <2>6, <2>7 DEF Result, Data, Glued, Garbage, NoData
  <2>9. /\ rd.res.text # "garbage" => rd.res.head = rd.res.text
        /\ rd.res.head # "garbage" => /\ rd.res.len = "data"
                                      /\ q[1].text = rd.res.head
                                      /\ q[1].arg = rd.res.arg
                                      /\ q[1].key = key
    BY <2>6 DEF Data, Glued, Garbage, NoData
  <2> QED  BY <2>3, <2>4, <2>5, <2>8, <2>9
<1>3. \/ q = <<>> /\ peerGone /\ rd \in [res : NothingLeft(key), left : {q}]
      \/ \E n \in 1..Len(q) : rd \in [res : Decode(SubSeq(q, 1, n), key), left : {Rest(q, n)}]
  BY DEF Reads
<1> QED
  <2>1. CASE \E n \in 1..Len(q) :
                rd \in [res : Decode(SubSeq(q, 1, n), key), left : {Rest(q, n)}]
    <3>1. PICK n \in 1..Len(q) : rd \in [res : Decode(SubSeq(q, 1, n), key), left : {Rest(q, n)}]
      BY <2>1
    <3> QED  BY <3>1, <1>2
  <2> QED  BY <1>1, <1>3, <2>1

(***************************************************************************)
(* A read of an empty stream says only that the peer is gone; any other    *)
(* takes from the front of the stream, one write at least.                 *)
(***************************************************************************)
LEMMA ReadsTake ==
    ASSUME NEW q \in Seq(Message), NEW peerGone \in BOOLEAN, NEW key,
           NEW rd \in Reads(q, peerGone, key)
    PROVE  /\ q = <<>> => /\ peerGone
                          /\ rd.left = <<>>
                          /\ rd.res.text = "garbage" /\ rd.res.head = "garbage"
                          /\ rd.res.len # "data"
           /\ q # <<>> => \E n \in 1..Len(q) : /\ rd.left = SubSeq(q, n + 1, Len(q))
                                               /\ rd.res \in Decode(SubSeq(q, 1, n), key)
<1>1. CASE q = <<>> /\ peerGone /\ rd \in [res : NothingLeft(key), left : {q}]
  <2>1. rd.left = q /\ rd.res \in {NoData("eof"), NoData("fail"), NoData("abort")}
    BY <1>1 DEF NothingLeft
  <2> QED  BY <1>1, <2>1 DEF NoData
<1>2. ASSUME NEW n \in 1..Len(q), rd \in [res : Decode(SubSeq(q, 1, n), key), left : {Rest(q, n)}]
      PROVE  q # <<>> /\ rd.left = SubSeq(q, n + 1, Len(q)) /\ rd.res \in Decode(SubSeq(q, 1, n), key)
  <2>1. q # <<>>
    BY <1>2, EmptySeq
  <2> QED  BY <1>2, <2>1 DEF Rest
<1> QED  BY <1>1, <1>2 DEF Reads

(***************************************************************************)
(* A read of a stream with one write takes it, and understands it exactly  *)
(* when it reads under the key the write was sealed with.                  *)
(***************************************************************************)
LEMMA ReadsOne ==
    ASSUME NEW q \in Seq(Message), Len(q) = 1, NEW peerGone \in BOOLEAN, NEW key,
           NEW rd \in Reads(q, peerGone, key)
    PROVE  /\ rd.left = <<>>
           /\ rd.res.len \in {"data", "fail"}
           /\ q[1].key = key => /\ rd.res.len = "data"
                                /\ rd.res.text = q[1].text /\ rd.res.arg = q[1].arg
                                /\ rd.res.head = q[1].text
           /\ q[1].key # key => rd.res.text = "garbage"
<1>1. q # <<>> /\ q[1] \in Message
  BY EmptySeq, ElementOfSeq
<1>2. rd.left = SubSeq(q, 2, 1) /\ rd.res \in Decode(SubSeq(q, 1, 1), key)
  <2>1. PICK n \in 1..Len(q) : /\ rd.left = SubSeq(q, n + 1, Len(q))
                               /\ rd.res \in Decode(SubSeq(q, 1, n), key)
    BY <1>1, ReadsTake
  <2>2. n = 1
    BY <2>1
  <2> QED  BY <2>1, <2>2
<1>3. SubSeq(q, 1, 1)[1] = q[1] /\ Len(SubSeq(q, 1, 1)) = 1
  BY <1>1
<1>4. rd.left = <<>>
  BY <1>2, SubSeqEmpty
<1>5. CASE q[1].key = key
  <2>1. rd.res = Data(q[1].text, q[1].arg)
    BY <1>2, <1>3, <1>5 DEF Decode
  <2> QED  BY <1>4, <1>5, <2>1 DEF Data
<1>6. CASE q[1].key # key
  <2>1. rd.res \in {Garbage, NoData("fail")}
    BY <1>2, <1>3, <1>6 DEF Decode
  <2> QED  BY <1>4, <1>6, <2>1 DEF Garbage, NoData, Data
<1> QED  BY <1>5, <1>6

(***************************************************************************)
(* A send leaves a stream of messages: those that were on it, and perhaps  *)
(* the new one.                                                            *)
(***************************************************************************)
LEMMA QueuedMessages ==
    ASSUME NEW q \in Seq(Message), NEW m \in Message, NEW peerGone \in BOOLEAN, NEW o
    PROVE  /\ Queued(q, m, peerGone, o) \in Seq(Message)
           /\ \A j \in 1..Len(Queued(q, m, peerGone, o)) :
                 \/ Queued(q, m, peerGone, o)[j] = m
                 \/ j \in 1..Len(q) /\ Queued(q, m, peerGone, o)[j] = q[j]
<1>1. CASE o = "sent" /\ ~peerGone
  <2>1. Queued(q, m, peerGone, o) = Append(q, m)
    BY <1>1 DEF Queued
  <2> QED  BY <2>1, AppendProperties
<1>2. CASE ~(o = "sent" /\ ~peerGone)
  BY <1>2 DEF Queued
<1> QED  BY <1>1, <1>2

(***************************************************************************)
(* A send to a peer that is there, on a stream with nothing or one write.  *)
(***************************************************************************)
LEMMA QueuedOne ==
    ASSUME NEW q \in Seq(Message), NEW m \in Message
    PROVE  /\ q = <<>> => /\ Len(Queued(q, m, FALSE, "sent")) = 1
                          /\ Queued(q, m, FALSE, "sent")[1] = m
           /\ Len(q) = 1 => /\ Len(Queued(q, m, FALSE, "sent")) = 2
                            /\ Queued(q, m, FALSE, "sent")[1] = q[1]
<1>1. Queued(q, m, FALSE, "sent") = Append(q, m)
  BY DEF Queued
<1>2. /\ Len(Append(q, m)) = Len(q) + 1 /\ Append(q, m)[Len(q) + 1] = m
      /\ \A j \in 1..Len(q) : Append(q, m)[j] = q[j]
  OBVIOUS
<1>3. ASSUME q = <<>> PROVE Len(Append(q, m)) = 1 /\ Append(q, m)[1] = m
  <2>1. Len(q) = 0
    BY <1>3
  <2> QED  BY <1>2, <2>1
<1>4. ASSUME Len(q) = 1 PROVE Len(Append(q, m)) = 2 /\ Append(q, m)[1] = q[1]
  <2>1. 1 \in 1..Len(q)
    BY <1>4
  <2> QED  BY <1>2, <1>4, <2>1
<1> QED  BY <1>1, <1>3, <1>4

=============================================================================
