---------------------------- MODULE AndroidClient ----------------------------
(***************************************************************************)
(* The Android application and one server of its list: the task that       *)
(* carries out a command (Background.doInBackground), the connection it    *)
(* keeps between commands (Server), and the user interface that starts     *)
(* tasks, edits the lists they work on and closes their connections (Main, *)
(* SelectDialog).  Task and user interface are threads of one process.     *)
(*                                                                         *)
(* The application never encrypts.  Other servers of the list take their   *)
(* turns before and after this one and touch nothing here.  A command can  *)
(* be given for them while this one is not selected.                       *)
(***************************************************************************)
EXTENDS Wire

CONSTANTS
    AppCommands,  \* the commands the user gives
    MaxCommands,  \* how many, in all
    MaxChannels   \* entries of the list of channels

ASSUME AppAssumption ==
    /\ AppCommands \subseteq {"vol", "play", "next", "prev"}
    /\ MaxCommands \in Nat /\ MaxChannels \in Nat \ {0}

VARIABLES
    aPc,       \* where the task is; "idle" when none runs
    aCmd,      \* the command it carries out
    aI,        \* i of its loop over the channels
    conn,      \* the Server object of this host, its socket with it
    channels,  \* Main.channelList, which the task shares: how many it has
    filling,   \* SelectDialog.onPause() has cleared it and not yet refilled it
    listed,    \* Main.serverList has this host
    edited,    \* it was rewritten since the task made its iterator
    queue,     \* commands given and not yet begun: one task runs at a time
    bg,        \* this Main has started a task before
    isPaused,  \* as in Main
    given,     \* commands the user gave
    astray,    \* history: a "play" was not carried out here, or its Main destroyed
    errors,    \* history: the user was shown an error
    gaveUp     \* history: a command was given up on the server's "end"

taskVars == <<aPc, aCmd, aI, conn, astray, errors, gaveUp>>
uiVars   == <<channels, filling, listed, edited, queue, bg, isPaused, given>>
appVars  == <<taskVars, uiVars>>

(***************************************************************************)
(* absent: not in the map of servers; closed: it stays in the map, and its *)
(* Socket cannot be connected again.                                       *)
(***************************************************************************)
Connections == {"absent", "open", "closed"}

TaskReads == {"getHelo", "getRedy", "getVolOk", "getNumOk", "getArg", "getMedia"}
TaskSends == {"noenc", "command", "num", "arg"}
\* dead: the process is killed, or an exception no handler takes ends it
TaskPlaces == {"idle", "host", "connect", "loop", "next", "dead"} \cup TaskReads \cup TaskSends

AppTypeOK ==
    /\ aPc \in TaskPlaces
    /\ aCmd \in AppCommands \cup {"none"}
    /\ aI \in 0..MaxChannels
    /\ conn \in Connections
    /\ channels \in 0..MaxChannels
    /\ queue \in Seq(AppCommands)
    /\ given \in 0..MaxCommands
    /\ \A flag \in {filling, listed, edited, bg, isPaused, astray, errors, gaveUp} :
          flag \in BOOLEAN

AppInit ==
    /\ aPc = "idle"
    /\ aCmd = "none"
    /\ aI = 0
    /\ conn = "absent"
    /\ channels \in 1..MaxChannels
    /\ listed \in BOOLEAN
    /\ queue = <<>>
    /\ given = 0
    /\ filling = FALSE /\ edited = FALSE /\ bg = FALSE /\ isPaused = FALSE
    /\ astray = FALSE /\ errors = FALSE /\ gaveUp = FALSE

-----------------------------------------------------------------------------
(***************************************************************************)
(* Server.send(): a PrintWriter.  It reports nothing: what is printed to a *)
(* connection that is closed or broken is gone.                            *)
(***************************************************************************)
Printed(text, arg) ==
    IF conn = "open" /\ srvUp THEN Append(c2s, Msg(text, arg, "none")) ELSE c2s

\* Server.close().
Closes ==
    /\ conn' = "closed"
    /\ cGone' = (cGone \/ conn = "open")
    /\ s2c' = <<>>

KeepsConn == UNCHANGED <<conn, cGone, s2c>>

\* The process ends, and its sockets with it; what it knew of servers is lost.
ProcessDies ==
    /\ aPc' = "dead"
    /\ Closes

\* A command that comes to nothing here leaves the face of its button wrong.
Fails == astray' = (astray \/ aCmd = "play")

ShowsError  == errors' = TRUE /\ gaveUp' = gaveUp /\ Fails
SaysNothing == UNCHANGED <<astray, errors, gaveUp>>

-----------------------------------------------------------------------------
Busy == aPc # "idle" \/ queue # <<>>

(***************************************************************************)
(* The executor begins the next task once the last has ended.  Its loop    *)
(* iterates over Main.serverList itself, as it is now: a host that is not  *)
(* there, or not there again yet, is passed over.                          *)
(***************************************************************************)
StartTask ==
    /\ aPc = "idle" /\ queue # <<>>
    /\ aCmd' = Head(queue) /\ queue' = Tail(queue)
    /\ aPc' = IF listed THEN "host" ELSE "next"
    /\ astray' = (astray \/ (~listed /\ Head(queue) = "play"))
    /\ edited' = FALSE
    /\ KeepsConn
    /\ UNCHANGED <<c2s, aI, errors, gaveUp, channels, filling, listed, bg, isPaused, given>>

\* The turn of the loop over the hosts that is this one's.  The iterator of a
\* list that was rewritten throws ConcurrentModificationException, or finds
\* itself at the end of the shorter list.
TakeHost ==
    /\ aPc = "host"
    /\ \/ ~edited /\ aPc' = "connect" /\ KeepsConn /\ SaysNothing
       \/ edited /\ ProcessDies /\ SaysNothing
       \/ edited /\ aPc' = "next" /\ KeepsConn /\ Fails /\ UNCHANGED <<errors, gaveUp>>
    /\ UNCHANGED <<c2s, aCmd, aI>>

\* The other hosts, and the end of the task.
LeaveHosts ==
    /\ aPc = "next"
    /\ \/ aPc' = "idle" /\ KeepsConn
       \/ edited /\ ProcessDies
    /\ aCmd' = "none" /\ aI' = 0 /\ edited' = FALSE
    /\ SaysNothing
    /\ UNCHANGED <<c2s, channels, filling, listed, queue, bg, isPaused, given>>

(***************************************************************************)
(* The map entry is made if there is none, and connected unless it says it *)
(* is.  Any failure closes it.  connect() throws on a socket that was      *)
(* closed; isConnected() of one that was open before may be true or false, *)
(* which depends on the version of the platform.                           *)
(***************************************************************************)
Connect ==
    /\ aPc = "connect"
    /\ \/ /\ conn = "absent" /\ srvUp
          /\ conn' = "open" /\ aPc' = "getHelo"
          /\ UNCHANGED <<cGone, s2c>> /\ SaysNothing
       \/ /\ conn # "open"
          /\ aPc' = "next" /\ Closes /\ ShowsError
       \/ /\ conn = "open" \/ (conn = "closed" /\ cGone)
          /\ aPc' = "command" /\ KeepsConn /\ SaysNothing
    /\ UNCHANGED <<c2s, aCmd, aI>>

(***************************************************************************)
(* The sends.  The number is that of the list as it is now; an argument    *)
(* that has left the list since the test of the loop ends the process      *)
(* (IndexOutOfBoundsException).                                            *)
(***************************************************************************)
TaskSend ==
    /\ aPc \in TaskSends
    /\ IF aPc = "arg" /\ aI >= channels
       THEN ProcessDies /\ c2s' = c2s
       ELSE /\ c2s' = CASE aPc = "noenc"   -> Printed("noenc", 0)
                        [] aPc = "command" -> Printed(aCmd, 0)
                        [] aPc = "num"     -> Printed("num", channels)
                        [] aPc = "arg"     -> Printed("arg", aI + 1)
            /\ aPc' = CASE aPc = "noenc"   -> "getRedy"
                        [] aPc = "command" -> IF aCmd = "vol" THEN "getVolOk" ELSE "getMedia"
                        [] aPc = "num"     -> "getNumOk"
                        [] aPc = "arg"     -> "getArg"
            /\ KeepsConn
    /\ SaysNothing
    /\ UNCHANGED <<aCmd, aI>>

ChannelLoop ==
    /\ aPc = "loop"
    /\ aPc' = IF aI < channels THEN "arg" ELSE "next"
    /\ KeepsConn /\ SaysNothing
    /\ UNCHANGED <<c2s, aCmd, aI>>

-----------------------------------------------------------------------------
\* A line of the stream: a BufferedReader never glues two.
Line(text) == aPc \in TaskReads /\ conn = "open" /\ s2c # <<>> /\ Head(s2c).text = text
TakesLine == s2c' = Tail(s2c) /\ UNCHANGED <<conn, cGone>>

\* Mutant: an argument whose reply did not come is sent again.
ReadFailsRetries ==
    /\ aPc \in TaskReads
    /\ conn = "closed" \/ s2c = <<>> \/ ~srvUp
    /\ aPc' = IF aPc = "getArg" THEN "loop" ELSE "next"
    /\ Closes /\ ShowsError
    /\ UNCHANGED <<c2s, aCmd, aI>>

\* Mutant: a reply that did not come is counted, and the next waited for.
ReadFailsCounts ==
    /\ aPc \in TaskReads
    /\ conn = "closed" \/ s2c = <<>> \/ ~srvUp
    /\ aPc' = IF aPc = "getArg" THEN aPc ELSE "next"
    /\ aI' = IF aPc = "getArg" THEN aI + 1 ELSE aI
    /\ Closes /\ ShowsError
    /\ UNCHANGED <<c2s, aCmd>>

(***************************************************************************)
(* No line: nothing came for NETWORK_TIMEOUT, the stream has ended (null,  *)
(* and a NullPointerException), it was reset, or the user interface has    *)
(* closed it.  The handlers show the error and close the connection.       *)
(***************************************************************************)
ReadFails ==
    /\ aPc \in TaskReads
    /\ conn = "closed" \/ s2c = <<>> \/ ~srvUp
    /\ aPc' = "next"
    /\ Closes /\ ShowsError
    /\ UNCHANGED <<c2s, aCmd, aI>>

\* The lines that the handshake expects.
Expected == [getHelo |-> "helo", getRedy |-> "redy"]
Onward   == [getHelo |-> "noenc", getRedy |-> "command"]

Handshake ==
    /\ aPc \in DOMAIN Expected
    /\ \/ /\ Line(Expected[aPc])
          /\ aPc' = Onward[aPc]
          /\ TakesLine /\ SaysNothing
          /\ c2s' = c2s
       \/ /\ \E text \in Texts \ {Expected[aPc]} : Line(text)
          /\ aPc' = "next"
          /\ c2s' = Printed("end", 0)
          /\ Closes /\ ShowsError
    /\ UNCHANGED <<aCmd, aI>>

\* The replies to the command and to the number: only "err" and "end" are told
\* from "ok".  "err" gives the command up and leaves the connection as it is.
AfterReply == [getVolOk |-> "num", getNumOk |-> "loop", getMedia |-> "next"]

\* Mutant: nobody is told of the "err".
GetReplyQuiet ==
    /\ aPc \in DOMAIN AfterReply
    /\ \E text \in Texts \ {"end"} :
          Line(text) /\ aPc' = IF text = "err" THEN "next" ELSE AfterReply[aPc]
    /\ TakesLine /\ SaysNothing
    /\ aI' = IF aPc = "getNumOk" THEN 0 ELSE aI
    /\ UNCHANGED <<c2s, aCmd>>

GetReply ==
    /\ aPc \in DOMAIN AfterReply
    /\ \/ /\ \E text \in Texts \ {"err", "end"} : Line(text)
          /\ aPc' = AfterReply[aPc]
          /\ SaysNothing
       \/ /\ Line("err")
          /\ aPc' = "next"
          /\ ShowsError
    /\ TakesLine
    /\ aI' = IF aPc = "getNumOk" THEN 0 ELSE aI
    /\ UNCHANGED <<c2s, aCmd>>

\* Mutant: the reply to an argument is not waited for once it is late.
GetArgReplyAnyTime ==
    /\ aPc = "getArg"
    /\ \/ \E text \in Texts \ {"err", "end"} : Line(text) /\ TakesLine /\ SaysNothing
       \/ Line("err") /\ TakesLine /\ ShowsError
       \/ conn = "open" /\ s2c = <<>> /\ KeepsConn /\ ShowsError
    /\ aI' = aI + 1
    /\ aPc' = "loop"
    /\ UNCHANGED <<c2s, aCmd>>

\* The reply to an argument.  An error is shown and the loop goes on.
GetArgReply ==
    /\ aPc = "getArg"
    /\ \/ \E text \in Texts \ {"err", "end"} : Line(text) /\ SaysNothing
       \/ Line("err") /\ ShowsError
    /\ TakesLine
    /\ aI' = aI + 1
    /\ aPc' = "loop"
    /\ UNCHANGED <<c2s, aCmd>>

(***************************************************************************)
(* "end": the server will not go on.  The application answers and closes,  *)
(* without a word to the user.  Among the arguments the loop goes on, on a *)
(* closed connection.                                                      *)
(***************************************************************************)
GetEnd ==
    /\ aPc \in DOMAIN AfterReply \cup {"getArg"}
    /\ Line("end")
    /\ c2s' = Printed("bye", 0)
    /\ Closes
    /\ gaveUp' = TRUE /\ errors' = errors /\ Fails
    /\ IF aPc = "getArg" THEN aPc' = "loop" /\ aI' = aI + 1
                         ELSE aPc' = "next" /\ aI' = aI
    /\ UNCHANGED aCmd

TaskStep ==
    /\ \/ StartTask \/ LeaveHosts
       \/ /\ \/ TakeHost \/ Connect \/ TaskSend \/ ChannelLoop
             \/ ReadFails \/ Handshake \/ GetReply \/ GetArgReply \/ GetEnd
          /\ UNCHANGED uiVars
    /\ srvUp' = srvUp

-----------------------------------------------------------------------------
\* The user interface handles one event at a time.
UiReady == aPc # "dead" /\ ~filling

(***************************************************************************)
(* The listeners of the volume bars and the buttons, and execBgThread(),   *)
(* which drops the command while the last task of this Main is not         *)
(* finished; that of a Main destroyed since then it does not know.  The    *)
(* button changes its face whether or not its command is carried out.      *)
(***************************************************************************)
GiveCommand ==
    /\ UiReady /\ given < MaxCommands
    /\ \E cmd \in AppCommands :
          /\ cmd = "vol" => channels > 0
          /\ isPaused' = IF cmd = "play" THEN ~isPaused ELSE isPaused
          /\ IF bg /\ Busy
             THEN queue' = queue /\ astray' = (astray \/ cmd = "play")
             ELSE queue' = Append(queue, cmd) /\ astray' = astray
    /\ bg' = TRUE
    /\ given' = given + 1
    /\ UNCHANGED <<wireVars, aPc, aCmd, aI, conn, errors, gaveUp, channels, filling, listed, edited>>

\* SelectDialog.onPause(), for the servers and, in two steps, for the channels.
\* A list of servers that is not refilled yet is one without this host.
EditServers ==
    /\ UiReady
    /\ listed' \in BOOLEAN
    /\ edited' = (aPc # "idle")
    /\ UNCHANGED <<wireVars, taskVars, channels, filling, queue, bg, isPaused, given>>

ClearChannels ==
    /\ UiReady
    /\ channels' = 0 /\ filling' = TRUE
    /\ UNCHANGED <<wireVars, taskVars, listed, edited, queue, bg, isPaused, given>>

FillChannels ==
    /\ aPc # "dead" /\ filling
    /\ channels' \in 0..MaxChannels /\ filling' = FALSE
    /\ UNCHANGED <<wireVars, taskVars, listed, edited, queue, bg, isPaused, given>>

(***************************************************************************)
(* Main.onDestroy() and closeAllServers(), from which a Main made later    *)
(* inherits the map of servers.  It runs on the thread of the user         *)
(* interface, where the platform refuses to write to a network: the        *)
(* exception ends the process, unless nothing was to be written.           *)
(***************************************************************************)
Destroy ==
    /\ UiReady /\ given > 0
    /\ \/ /\ c2s' = Printed("end", 0)
          /\ IF conn = "absent" THEN KeepsConn ELSE Closes
          /\ aPc' = aPc
       \/ /\ conn = "open"
          /\ c2s' = c2s
          /\ ProcessDies
    /\ bg' = FALSE /\ isPaused' = FALSE /\ astray' = TRUE
    /\ UNCHANGED <<srvUp, aCmd, aI, errors, gaveUp, channels, filling, listed, edited, queue, given>>

\* The system ends the process, or a dialog does that a task shows in a Main
\* that is destroyed.
Killed ==
    /\ aPc # "dead"
    /\ ProcessDies
    /\ UNCHANGED <<c2s, srvUp, aCmd, aI, astray, errors, gaveUp, uiVars>>

UiStep == GiveCommand \/ EditServers \/ ClearChannels \/ FillChannels \/ Destroy \/ Killed

=============================================================================
