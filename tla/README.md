# A model of Alsa Channel Control

Alsa Channel Control sets the volume of a machine's ALSA channels, and presses
its media keys, over the network. `alsa-server` forks a process per connection;
`alsa-client` (and an Android application) connects, shakes hands, optionally
exchanges an AES key, sends one command and leaves. This directory holds a
TLA+ model of the C++ programs and of the application, TLC configurations that
check it, and proofs of its most important properties. Line numbers are those
of the source in `src/src/`; Java files are in
`android_client/src/com/shanet/alsa_control/`.

## The system

| Component | State | Operations | Modelled in |
|---|---|---|---|
| server child (`server/server.cpp`, `server/Client.cpp`) | where it is, `useEnc`, the client's `crypto`, `num_channels` | `clientHandshake`, `processCommand`, `sendAESIv`, `sendAESKey`, `receiveRemotePubKey`, `close` | `ServerChild` |
| volume change (`server.cpp` 587-679) | the forked copy, its exit status, the inherited SIGCHLD handler | `parseVolCommand`, `changeVolume`, `sigHandler` | one step in `ServerChild`, with the copy that serves on and the parent that wakes up behind it; in full in `VolumeChange` |
| server parent (`server.cpp` 124-173, 608-637) | `children`, the descriptors it never closes | the accept loop, `sigHandler` | `Supervisor` |
| client program (`client/client.cpp`, `client/Client.cpp`) | where it is, `useEnc`, `crypto` with key and IV, the channel it is at | `serverHandshake`, `sendVolCmd`, `sendMediaCmd`, `receiveAESIv`, `receiveAESKey`, the end of `main` | `CommandClient` |
| connection | bytes in flight, which ends are open | `send`, `recv` | `Wire` |
| crypto (`crypto/Crypto.cpp`) | keys | `aesDecrypt`, `setAESKey`, `setAESIv`, ... | their effect on callers, in `Wire` and `CommandClient` |
| start-up of both programs | options, sockets | `getopt_long`, `bind`, `connect` | no |
| Android application: commands (`Background.java`, `Server.java`, `Main.java`) | the connection kept per server, the task and the channel it is at, the lists it shares with the user interface, the play button | `doInBackground`, `handshake`, `sendVolCmd`, `sendMediaCmd`, `execBgThread`, `closeAllServers` | `AndroidClient` |
| Android application: selection (`SelectDialog.java`, ...) | files, check marks, dialogs | `onPause` rewrites the lists | only that, in `AndroidClient` |
| Android application: `Crypto.java` | keys | | no: nothing calls it |
| installation | | | no |

Child and client interact only through the stream. The application's task and
its user interface are threads of one process and share objects without locks. Parent and children share
the listening socket, every connection's socket, and signals.

What is hard here:

- **No frames.** A `recv()` takes what has arrived. Two writes that arrive
  together become one text that matches nothing. Only strict request and reply,
  and two `usleep`s between the segments of a key, keep them apart.
- **No timeouts.** Every `recv()` blocks, and the parent keeps a descriptor of
  every connection, so a child's death gives the client no end of file.
- **Signal handlers everywhere.** The SIGCHLD handler runs in the parent
  between `fork()` and `push_back()`, and, inherited, in a child between
  `fork()` and `waitpid()`. The SIGTERM handler in a child walks a stale copy
  of the parent's list.
- **A failed `execlp()` returns.** The copy of the child that was to become
  `amixer` carries on as a second server of the same connection. Its exit code
  is 0 however it ends, and its parent, which has slept meanwhile, takes that for
  the status of `amixer`, answers "ok" to the argument the copy has answered
  "err", and serves on itself.
- **Half-failed handshakes.** `END` is not `FAILURE` to most callers, so a key
  exchange can go on without a key.
- **Connections that are kept.** The application sends several commands over one
  connection, gives up a reply after 3 s, and closes in one thread what the
  other is using. What a failed command leaves on the stream, and in the
  child's loop, meets the next command.
- **Lists edited in use.** The number of channels is announced from a list the
  user interface may clear before the arguments are sent; the list of servers
  is rewritten under the task's iterator.

What makes it correct: the client is told of a volume only after it was set,
in order, and the server never runs ahead (`VolumeRequest`); commands are sent
only when both sides agree on the key; the client takes one answer to each
request; nobody waits for ever; no child is forgotten; no answer is left for the application's
next command to take for its own. `PROJECT.json` lists the hazards line by
line, with the property that watches each.

## The modules

`Wire` is the connection: the two streams as sequences of writes, and `Reads`,
everything one `receive()` may return: the first write, or two or more glued
together, under the right key or a wrong one, the end of the stream, a reset.
A message is its text, a number (channel count, channel, or segment) and the
key it was sealed with. Channel names, volumes and formatting are abstracted:
a channel argument is its index, or `badarg` when it does not parse.

`ServerChild` and `CommandClient` are the two programs. A program counter
(`sPc`, `cPc`) names the `send` or `receive` at which the process is. The
sends of the server are the table `ServerSends`: text, whether it passes
`client.isEnc()`, and where success and failure lead. Each receive is an
action. `applied`, `pressed` and `cAcked` are history variables: what amixer
has set, keys pressed, and the channels the client took an "ok" for. The
variables of the child are those of the process that serves. When `execlp()`
fails in `SetVolume` they pass to the copy, and `asleep` keeps the loop counters
of the process that waits for it; `Wakes` is its way back, with one more answer.

`Session` composes them on one wire, with the server stopping and the client
dying at any moment, and states the properties of the whole. `VolumeRequest`
is the abstract specification of a volume command, three lines of behaviour:
set the next channel, tell the user, and never set one before the last was
told. `Session` implements it with `set <- applied, told <- cAcked`.

`VolumeChange` looks into `SetVolume` and `Wakes` of `ServerChild`: the chain of
processes a connection's child can grow into, each the parent of the next, with
the fork, the exit and both ways to wait for it as steps of their own.
`HandlerReaps` is the inherited handler winning the race against `waitpid()`,
`Exec` the failing `execlp()` that leaves a second server. A request need not be
an argument: what is unknown where it is read, and a media key that fails, is
answered "err" (`refuse`) and followed by "end" (`SendEnd`), and the process that
served exits, with the client there. `ended` says that the client was sent an
"end": whatever the woken parent writes is behind it. `VolumeService` is what the
client is promised until then, as by one process: set what is asked, then answer,
"ok" only if it was set. `VolumeChange` implements it with `heard` as the answers
the client took.

`Supervisor` is the parent with the kernel's process table: reused pids,
merged SIGCHLDs, failed forks, handlers at any point, other programs of the
user. A child is only a process here.

`AndroidClient` is the application with one server of its list, or not of its
list (`listed`): the user may leave it out, and the task then passes it over. The
task (`aPc`) is a sequence of reads, sends and loop tests; `conn` is the `Server`
object, which outlives the task; the actions of the user interface give
commands, edit the lists, destroy the `Main` activity, which closes the
connections, or end the process. A command becomes a task of the executor's
`queue` (`StartTask` takes it from there), except that a `Main` drops it while the last task it
started itself is not finished (`bg`); a new `Main` knows of none. Other than the
C++ client it reads lines, so nothing is glued; `Tail(s2c)` is what is left.
`ReadFails` is a timeout, an end of stream or a reset at any read.
`AndroidSession` composes it with the same `ServerChild` as `Session`.

`MCSession`, `MCAndroidSession`, `MCVolumeChange` and `MCSupervisor` are the
instances for TLC. `WireProofs`, `ServerChildProofs`, `SessionProofs`,
`LockStepProofs`, `AndroidProofs`, `VolumeChangeProofs` and `SupervisorProofs`
hold the theorems.
An operator whose comment begins with "Mutant:" is a plausible bug; it is used
nowhere in the specifications and serves to show, put in the place of the
definition that follows it, that a property would notice.

## The runs

| Run | Checks | Bounds |
|---|---|---|
| `session` (`MCSession.cfg`) | `TypeOK`, `AckedWereApplied`, `KeysAgree`, `OneWriteOnTheWire`, `AppliesInStep`, `ImplementsRequest` | 3 channels, all 4 commands and none, encryption asked and offered or not, media keys that work or fail, torn keys, glued segments |
| `session_live` (`MCSessionLive.cfg`) | `NoMutualWait`, `ClientEnds`, `ChildFollowsClient` | 2 channels, programs started alike, X server reachable, timely client |
| `volume` (`MCVolumeChange.cfg`) | `TypeOK`, `OneServes`, `HeardOkWasSet`, `AnswersWhatWasAsked`, `ImplementsService`, `AskIsAnswered`, `ChainUnwinds` | 3 requests, so chains of up to 4 processes |
| `supervisor` (`MCSupervisor.cfg`) | `TypeOK`, `RunningAreListed`, `OneSurvives`, `SignalHasZombie`, `ListedChildrenEnd`, `EveryConnectionAccepted` | 3 pids, 3 connections, 3 descriptors |
| `android` (`MCAndroidSession.cfg`) | `TypeOK`, `NoStaleAnswer`, `OkWasSet`, `SilenceFollowsError`, `ButtonIsRight`, `AppliesWhatIsAsked`, `TaskEnds`, `ChildFollowsApp` | 2 commands out of `vol`, `play` and `next`, 1 channel, lists that are edited at any time, with and without this host and the channel, failing mixer, `execlp()` and X server |

Three channels give a first, a middle and a last turn to both loops; their
states repeat beyond that. Three pids are enough for a pid to be reused while
another child holds the old list and a third runs. Two commands are what it
takes for one to meet what the other left behind, and one channel is what
it takes for a list to shrink between its number and its arguments; with two the
run has 2,008,112 states, more than its two liveness properties can be checked on
in a few minutes (the safety properties were, and their theorems have every
number of channels). `next` stands for the keys
that are not to move the play button; `prev` is as `next` but for the text of its
confirmation. The child's encryption cannot matter to a client that always says
`noenc`, so the run has one way to start the server (349,368 states). The proofs
have every set of commands and both ways. All passing runs are
complete (no constraint): the programs handle one command and end, so the
state spaces are finite with the bounds above. Deadlock checking is off: the
programs end, and a chain or a connection then has no step left.

Seven runs show a disagreement between a comment and the code; each checks one
property that states the comment, and finds it violated:

| Run | The comment | The code |
|---|---|---|
| `media_hang` | "If we didn't get it, oh well." (client.cpp:193) | the wait before it never ends when `err` and `end` were read as one text |
| `media_status` | "Wait for ok of command confirmation" (client.cpp:486) | "ok" is the unknown response and ends in FAILURE (508) |
| `torn_key` | "let the server know we're good to go" (client.cpp:298) | said with a key torn by `strncpy()` (Crypto.cpp:281, 297) |
| `spurious_err` | "Wait for the fork to exit and return its exit code" (server.cpp:667) | the handler may reap it first (631), and a volume that was set is answered "err" |
| `fd_limit` | "Accept any incoming connections" (server.cpp:125) | the parent closes no descriptor, and accepts none once they are used up |
| `kill_all` | "Kill the children" (server.cpp:615) | the list holds stale pids and the -1 of a failed fork, which means everyone |
| `android_stale` | "Connect to the server if not already connected" (Background.java:111) | it asks `isConnected()`, which stays true of a connection closed after an error: the command is printed to a closed stream |

### Assumptions

- *Fairness.* `Session` and `VolumeChange` assume that the kernel runs each
  process that can run (weak fairness per process). `Supervisor` assumes it for
  the parent's loop and for the delivery of pending signals. `AndroidSession` assumes it for the child and for the task; the timeout of a
  read is a step of the task, so a silent server does not stop it, and so is the
  start of the next task of the executor. Nothing is
  assumed of users: clients need not come or leave, nobody need stop the server,
  give a command or edit a list.
- *The application's platform.* A `Socket` that was closed may still say
  `isConnected()`, or `connect()` throws on it; a `PrintWriter` reports no
  error; a network write on the thread of the user interface throws; tasks run
  one at a time, in the order they were given (an `AsyncTask` uses the serial
  executor for the target version of the manifest); a changed list makes its
  iterator throw, except at its end, where it may not look, and a list that changed
  before there is an iterator (Background.java:92) does not. Other hosts may be
  in the list, so a command can be given when this one is not. Whether a `Main`
  made after another was destroyed reads its lists anew makes no difference: they
  may be edited to anything at any time.
- *Timely.* The constant is the belief of `server/Client.cpp:192-203` that a
  client reads within half a second. Only the liveness run and the theorem
  `NobodyWaits` assume it. Without it `NoMutualWait` fails: glued segments leave
  the client waiting for one more and the child for its `redy`. That this is the
  only place is `WaitsOnlyAtSegments`.
- *One write, one segment.* A write is never split; all are shorter than
  a TCP segment. They may be glued in any number.
- A stop of the server ends the child in `Session` and `AndroidSession`, and what
  waits for a copy. A SIGTERM does not reach the copy itself, which is in no
  list: to its client the server stops when the copy ends. That a stop may miss the
  child just forked is a matter of `Supervisor`.
- A program's own memory errors end it (`crashed`) or give arbitrary text,
  as the build can; the layout of memory is not modelled.

## The proofs

All are checked by TLAPS, for every number of channels or arguments, every way
to start the programs, every set of pids and every limit.

- `WireProofs!ReadsResult`: a read that yields a meaningful text yields that of
  the first write on the stream, which was sealed with the key it was read
  under, and leaves only what was there. `ReadsOne`: from a stream with one
  write a read takes it whole, and under the right key understands it.
  `QueuedMessages` and `QueuedOne` are the like for sends.
- `TypeCorrect`: `Spec => []TypeOK` for `Session`. `TypeOK` is not inductive:
  that `sSeg` never passes 7 needs `sSeg \in 1..6` while segments are sent, that
  `cI` stays within the channels needs the loop's test on the way to the next
  argument, and that only messages of the protocol are sent needs that a client
  in the place `command` has a command. `SegmentsInRange` and `LoopInRange` say so.
- `KeysAgreement`: `Spec => []KeysAgree`. The argument, as `KeyInv`: the child
  decides once, when it reads the answer to helo (`Undecided`, `Decided`); what
  it writes is in the clear or under its key, and each `redy` is sealed exactly
  when it encrypts (`RedySealed`); a client that asked to encrypt reads under
  the key it has (`CryptoReady`), so a `redy` it can read shows that key to be
  the server's. `Timely` plays no part in it.
- `AckedApplied`, `NeverGlued`, `SetsWhenAsked` and `SessionIsRequest` for
  `Session`, in `LockStepProofs`. None of the four properties is inductive: that
  an "ok" is true depends on where the child is while the client waits for it.
  The invariant is `LockStep`: for every place of the client, what is on the two
  streams and where the child then is. A request moves through `Turn` (the client
  is to write), `Asked`, `Works`, `Answered`, and to `Lost` when the server is
  stopped before the answer; `Sleepers` says that a process waits for a copy only
  behind an argument that failed, after which this client asks for nothing more,
  so that what the sleeper does on waking up is heard by nobody. `HandshakeStep`
  and `CommandStep` say which place has what, with the
  loop counters of both sides (`sI = cI`, then `sI = cI + 1` once the argument is
  read). It rests on `KeysAgreement` (what is read was sealed with the key it is
  read under) and on `ReadsOne`: because the lock step leaves one write on a
  stream, that write is read whole, which is what keeps the lock step. Two places
  are not in step, and the invariant says how: the six segments of a key
  exchange may be glued (`Segments`: those on the wire are the last of those
  sent, so a client that understands the sixth has emptied the stream), and a
  child that refused to encrypt writes `err` and `end` (`GaveUp`).
  `Pending` and `MixerInStep` carry what outlives a dead client: a volume still
  to be read or set is the next one, and was asked for after the one before it
  was acknowledged. The refinement maps `SetVolume` to `SetNext`, an understood
  "ok" to `Tell`, and everything else to stuttering; it does not need `Timely`.
- `NobodyWaits` and `WaitsOnlyAtSegments` for `Session`, from `LockStep` and two
  more conjuncts. `ReplyDue`: while the client reads, the request or the answer
  is on a stream, or the child is at a place where it writes before it reads, or
  has ended (`Owes`); the lock step alone allows a child that took the request and
  wrote nothing. `SegmentDue`: of a timely client, the child has written as many
  segments as the client has read and the stream holds, so that a child at its
  `redy` has sent six and the client at a segment has one to read. Where both
  are blocked neither stream holds anything, which leaves the segments of an
  untimely client.
- `AppTypes`, `NoAnswerIsStale`, `OkMeansSet`, `SilentAfterError`,
  `ButtonShowsPresses` and `MixerSetsWhatIsAsked` for `AndroidSession`, in
  `AndroidProofs`, for every set and number of commands. The invariant is
  `AppInv`. Its part `InStep` is the lock step of a connection that is kept, for
  every place of the task and only while `conn` is open: a command meets the
  child at its loop over commands or, when the list shrank under an earlier
  command, still inside the loop over arguments (`Ready`); there it is answered
  "err" (`Refused`), as an argument that does not parse. A child that ends after an
  "err" leaves its `end` behind (`Over`), or is about to write it; it is the first
  text that outlives a command, and `Over` has `errors`, which is why a command
  given up without a word follows an error. Behind the `end` there may be the
  answers of parents that woke up, and one of them may read the next request and
  carry it out: `Strays` says that it has no other than the task's own to read, and
  `Calm` that between commands it has none. Nothing is claimed once the connection is closed: a task that goes on, on a
  closed connection, reads nothing and writes to nobody. `ButtonInv` follows the
  face of the button through a command (`Face`): a press still to come is owed by
  the task, or by one in the queue, until the request is written, by the child
  until the key is pressed, and by nobody after that; a `play` that ends in any
  other way is `astray`.
- What the child does at each place with what is on the stream is stated once,
  in `ServerChildProofs` (`ChildReplies`, `ChildReads`, `ChildEffects`, ...), for any
  client of the wire; `LockStepProofs` and `AndroidProofs` use the same lemmas.
- `VolumeTypes`, `OneProcessServes`, `OkIsTrue`, `AnswersAreAsked` and `ChainIsService`
  for `VolumeChange`, from `VolumeInv`. `Chained`: every process but the last is
  inside `changeVolume()`, and the last is not in `waitpid()`. `InStep`: while
  the client is there and was not sent an "end", the last process is at the request
  the client waits for, a copy that is to become `amixer` at that of its parent, and
  whatever is about to become an "ok", in its place or in the exit status of a zombie,
  is set. A copy can exit in no other way than behind an "end" or a client that
  left, which is why its status, always 0, is never an "ok" the client takes.
  `MixerAsked` holds also after that: amixer and the copy that is to become it are
  at the argument not yet answered, so nothing else is ever set. The refinement
  maps `AmixerExits` with status 0 to `Set`, a reply the client takes to `Answer`,
  one to nobody to `Forget`, `Leave` and `SendEnd` to `GiveUp`, the last request of
  a client that finds the "end" in its answer to `Ask`, and every other step of
  the chain to stuttering.
- `NoChildForgotten`, `OneChildSurvives`, `SignalFindsZombie` and
  `SupervisorTypes` for `Supervisor`, from `ListInv`: the last needs that what
  waits has arrived, the second that a stop marks all who were listed.

They rest on the named assumptions on the constants only (`AppAssumption`,
`ClientAssumption`, `ConfigAssumption`, `ServerAssumption`, `ServerEncAssumption`,
`SupervisorAssumption`, `VolumeAssumption`), which TLC evaluates in the runs;
`NobodyWaits` has `Timely` as a hypothesis besides.

Every invariant and every safety property of a step that a passing run checks is
a theorem, and so are both refinements. Only model-checked are the properties
that need fairness (`ClientEnds`, `ChildFollowsClient`, `AskIsAnswered`,
`ChainUnwinds`, `ListedChildrenEnd`, `EveryConnectionAccepted`, `TaskEnds`,
`ChildFollowsApp`), which are out of this prover's reach.

## Not modelled

- Start-up of both C++ programs and the installation: sequential, over before
  the first connection. The destructor of the temporary in `server.cpp` that
  closes an uninitialised descriptor is part of it.
- `Crypto`: the EVP calls, key generation and key files. What its callers see
  of it is modelled: who holds which key, text read under the wrong one, keys
  torn by `strncpy()`.
- `Crypto.java`: the application has no caller of it.
- Names of channels, volumes, addresses, printing, dialogs, files and check
  marks. A channel is its index.
- Two losses that the application says nothing of, and no property denies: a
  `vol` command announced with an emptied list (Background.java:191-210), and a
  command that passes over a host which is not in the list. Only the lost `play` is
  watched (`astray`), since the button goes on as if it were not.
- A child that dies alone, by a signal from another program of the user:
  `Session` stops it with the whole server only. Copies of a child are processes of
  `VolumeChange`; `Supervisor` does not count them among the children.
- Other servers of the application's list: the task serves them one after the
  other and they share nothing with this one but the timeout and the map of
  servers, whose iteration in `closeAllServers()` while a task adds an entry
  needs two of them.
- Undefined behaviour without a finite set of outcomes: a list torn by a
  handler that interrupts `push_back()`, the byte past the buffer of a `recv()`
  that fills it.
- The stop command (server.cpp:457), which cannot be reached.

## What could follow

`ServerChild` as an implementation of `VolumeService` too, up to the "end" it
writes, which would tie `SetVolume` and `Wakes` to the chain of processes by
proof; and `ServerChild`
against any client that writes messages of the protocol, to find what of the
properties depends on the client's good behaviour.
