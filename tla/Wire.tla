-------------------------------- MODULE Wire --------------------------------
(***************************************************************************)
(* The TCP connection between one alsa-server child and one client, and    *)
(* the two receive routines that read it.                                  *)
(*                                                                         *)
(* Neither side frames its messages: a send() appends bytes to the stream  *)
(* and a recv(.., BUFFER, ..) takes whatever has arrived.  A stream is     *)
(* therefore the sequence of the writes not yet read, and one read returns *)
(* one or more of them glued together.  Every message is far shorter than  *)
(* a segment, so a single write is never split.                            *)
(***************************************************************************)
EXTENDS Naturals, Sequences

VARIABLES
    c2s,    \* what the client wrote and the server has not read
    s2c,    \* what the server wrote and the client has not read
    cGone,  \* the client's end is closed (its process closed it or died)
    srvUp   \* the server's parent process lives: see HangUp

wireVars == <<c2s, s2c, cGone, srvUp>>

(***************************************************************************)
(* Messages.  arg is the channel count, or the index of a channel argument *)
(* or of a key segment; "badarg" is a channel argument that lacks its '='  *)
(* or its ','.  key is the AES key the write was encrypted with, "none"    *)
(* for a plaintext write.                                                  *)
(***************************************************************************)
Texts == {"helo", "enc", "noenc", "pubkey", "seg", "redy", "err", "end", "bye",
          "ok", "vol", "num", "arg", "badarg", "play", "next", "prev"}

\* "own" is the key Crypto::init() generates in the client and the handshake
\* is meant to overwrite; "torn" is a key or IV cut short by strncpy(), or the
\* server's key under an IV that is not the server's.
Keys == {"none", "server", "own", "torn"}

Message == [text : Texts, arg : Nat, key : Keys]

Msg(t, a, k) == [text |-> t, arg |-> a, key |-> k]

(***************************************************************************)
(* What Client::receive() leaves to its caller: the class of the length it *)
(* returns and the text in *reply.                                         *)
(*   data   a positive length                                              *)
(*   eof    0                 fail   FAILURE                               *)
(*   abort  never returns: string(NULL) throws, which nothing catches      *)
(* The text "garbage" compares unequal to every command.  head is what the *)
(* text begins with, and arg the number in it: atoi() and the search for   *)
(* an '=' and a ',' look no further than they need.                        *)
(***************************************************************************)
Result == [len : {"data", "eof", "fail", "abort"},
           text : Texts \cup {"garbage"}, head : Texts \cup {"garbage"}, arg : Nat]

Data(t, a) == [len |-> "data", text |-> t, head |-> t, arg |-> a]
Glued(t, a) == [len |-> "data", text |-> "garbage", head |-> t, arg |-> a]
Garbage == Data("garbage", 0)
NoData(l) == [len |-> l, text |-> "garbage", head |-> "garbage", arg |-> 0]

(***************************************************************************)
(* The replies one read can produce from the writes it took.  A read under *)
(* "none" does not decrypt.  A public key ends in the NUL that             *)
(* getLocalPubKey() puts there, so the C string made of it stops there.    *)
(* Any other glued read is text that matches nothing but begins with the   *)
(* first write; aesDecrypt() has stored that much when it fails on the     *)
(* rest.  Of an undecipherable read it stores nothing, and the string made *)
(* of that is either empty, which is reported as FAILURE, or arbitrary.    *)
(***************************************************************************)
Decode(chunk, key) ==
    LET first == chunk[1] IN
    IF first.key = key /\ (Len(chunk) = 1 \/ (key = "none" /\ first.text = "pubkey"))
    THEN {Data(first.text, first.arg)}
    ELSE IF first.key = key THEN {Glued(first.text, first.arg)}
    ELSE IF key = "none" THEN {Garbage}
    ELSE {Garbage, NoData("fail")}

\* The peer is gone and nothing is left to read: end of file or a reset.  An
\* encrypted read decrypts zero bytes, which fails, or, after a reset, asks
\* malloc() for (size_t)-1 bytes and makes a string of the NULL it gets.
NothingLeft(key) ==
    {NoData("eof"), NoData("fail")} \cup (IF key = "none" THEN {} ELSE {NoData("abort")})

Rest(q, n) == SubSeq(q, n + 1, Len(q))

\* What a blocking receive() on q under key may return, with what it leaves.
\* It returns nothing, and so blocks, while q is empty and the peer is there.
Reads(q, peerGone, key) ==
    (UNION {[res : Decode(SubSeq(q, 1, n), key), left : {Rest(q, n)}] : n \in 1..Len(q)})
    \cup (IF q = <<>> /\ peerGone THEN [res : NothingLeft(key), left : {q}] ELSE {})

(***************************************************************************)
(* The outcomes of ::send().  While the peer's end is open the write is    *)
(* queued.  Once it is not, the write may still be accepted and lost, fail *)
(* with a pending error, or raise SIGPIPE, which kills the writer: neither *)
(* program handles it.                                                     *)
(***************************************************************************)
SendOutcomes(peerGone) ==
    IF peerGone THEN {"sent", "fail", "sigpipe"} ELSE {"sent"}

\* The queue after a send of m: a peer that is gone reads nothing.
Queued(q, m, peerGone, outcome) ==
    IF outcome = "sent" /\ ~peerGone THEN Append(q, m) ELSE q

WireTypeOK ==
    /\ c2s \in Seq(Message)
    /\ s2c \in Seq(Message)
    /\ cGone \in BOOLEAN
    /\ srvUp \in BOOLEAN

WireInit ==
    /\ c2s = <<>>
    /\ s2c = <<>>
    /\ cGone = FALSE
    /\ srvUp = TRUE

(***************************************************************************)
(* The server's end of the connection is open in two processes: the child  *)
(* that serves it and the parent, which keeps the descriptor accept()      *)
(* returned and never closes it (so do the children forked later).  A      *)
(* child that closes or dies therefore sends the client no end of file;    *)
(* the client sees one only when the whole server has stopped.             *)
(***************************************************************************)
HangUp == ~srvUp

=============================================================================
