------------------------------ MODULE MCSession ------------------------------
(***************************************************************************)
(* Instances of Session for TLC.                                           *)
(***************************************************************************)
EXTENDS Session

\* Both sides were started alike, or the client does not ask to encrypt.
Compatible == {c \in [server : BOOLEAN, client : BOOLEAN, cmd : Commands \cup {"none"}] :
                  c.client => c.server}

\* An encrypting client meets a server that was started without --encrypt.
Refused == [server : {FALSE}, client : {TRUE}, cmd : {"vol"}]

AllConfigs == Compatible \cup Refused

MediaPlain == [server : {FALSE}, client : {FALSE}, cmd : {"play", "next", "prev"}]

Encrypted == [server : {TRUE}, client : {TRUE}, cmd : {"vol"}]

=============================================================================
