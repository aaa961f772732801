----------------------------- MODULE Supervisor -----------------------------
(***************************************************************************)
(* The alsa-server parent: the accept loop of main() in server.cpp, the    *)
(* list of children it keeps, and sigHandler(), which interrupts it at any *)
(* point.  What a child does with its connection is module ServerChild;    *)
(* here it runs and exits.                                                 *)
(***************************************************************************)
EXTENDS Integers, FiniteSets

CONSTANTS
    Pids,      \* the process ids the kernel hands out
    MaxFds,    \* connections the parent may hold open (RLIMIT_NOFILE)
    MaxConns   \* connections that clients open, in all

ASSUME SupervisorAssumption ==
    /\ Pids \subseteq Nat \ {0} /\ IsFiniteSet(Pids)
    /\ MaxFds \in Nat /\ MaxConns \in Nat

VARIABLES
    pPc,       \* where the loop is
    pPid,      \* pid, what fork() returned
    children,  \* the list of that name; what repeats in it changes nothing
    procs,     \* the kernel's process table
    lists,     \* the copy of the list a child was forked with
    termed,    \* children with a SIGTERM or SIGINT pending
    chld,      \* SIGCHLD is pending; further ones are merged with it
    arrived,   \* connections opened so far
    waiting,   \* of those, how many the listening socket has queued
    fds,       \* connection descriptors open in the parent
    strays     \* history: processes a handler signalled that are no children

vars == <<pPc, pPid, children, procs, lists, termed, chld, arrived, waiting, fds, strays>>

\* What fork() returns when it fails, and what kill() takes for "everyone".
Failed == -1
Entries == Pids \cup {Failed}

TypeOK ==
    /\ pPc \in {"accept", "fork", "push", "stopped"}
    /\ pPid \in Entries
    /\ children \subseteq Entries
    /\ procs \in [Pids -> {"free", "child", "zombie", "other"}]
    /\ lists \in [Pids -> SUBSET Entries]
    /\ termed \subseteq Pids
    /\ chld \in BOOLEAN
    /\ arrived \in 0..MaxConns
    /\ waiting \in 0..MaxConns
    /\ fds \in 0..MaxFds
    /\ strays \subseteq Pids

Init ==
    /\ pPc = "accept"
    /\ pPid = Failed
    /\ children = {}
    /\ procs = [p \in Pids |-> "free"]
    /\ lists = [p \in Pids |-> {}]
    /\ termed = {}
    /\ chld = FALSE
    /\ arrived = 0
    /\ waiting = 0
    /\ fds = 0
    /\ strays = {}

Having(state) == {p \in Pids : procs[p] = state}

-----------------------------------------------------------------------------
\* A client connects; the kernel completes it against the listening socket.
Connects ==
    /\ arrived < MaxConns
    /\ arrived' = arrived + 1
    /\ waiting' = waiting + 1
    /\ UNCHANGED <<pPc, pPid, children, procs, lists, termed, chld, fds, strays>>

\* Mutant: accept() does not wait for a connection.
AcceptNoWait ==
    /\ pPc = "accept"
    /\ fds < MaxFds
    /\ waiting' = waiting - 1
    /\ fds' = fds + 1
    /\ pPc' = "fork"
    /\ UNCHANGED <<pPid, children, procs, lists, termed, chld, arrived, strays>>

\* acceptConnection().  With no descriptor left accept() fails at once, leaves the
\* connection queued, and the loop turns without effect.
Accept ==
    /\ pPc = "accept"
    /\ waiting > 0 /\ fds < MaxFds
    /\ waiting' = waiting - 1
    /\ fds' = fds + 1
    /\ pPc' = "fork"
    /\ UNCHANGED <<pPid, children, procs, lists, termed, chld, arrived, strays>>

\* The child has the parent's memory, its list of children included.
ForkedAs(p) ==
    /\ pPid' = p
    /\ procs' = [procs EXCEPT ![p] = "child"]
    /\ lists' = [lists EXCEPT ![p] = children]

\* Mutant: fork() is called until it succeeds.
ForkUntilDone ==
    /\ pPc = "fork"
    /\ \E p \in Having("free") : ForkedAs(p)
    /\ pPc' = "push"
    /\ UNCHANGED <<children, termed, chld, arrived, waiting, fds, strays>>

\* The result is tested for zero only: a failure is one more pid.
Fork ==
    /\ pPc = "fork"
    /\ \/ \E p \in Having("free") : ForkedAs(p)
       \/ pPid' = Failed /\ UNCHANGED <<procs, lists>>
    /\ pPc' = "push"
    /\ UNCHANGED <<children, termed, chld, arrived, waiting, fds, strays>>

PushBack ==
    /\ pPc = "push"
    /\ children' = children \cup {pPid}
    /\ pPc' = "accept"
    /\ UNCHANGED <<pPid, procs, lists, termed, chld, arrived, waiting, fds, strays>>

ParentStep == Accept \/ Fork \/ PushBack

\* A child ends: a zombie and a SIGCHLD, or nothing once init is its parent.
Ends(p) ==
    /\ procs' = [procs EXCEPT ![p] = IF pPc = "stopped" THEN "free" ELSE "zombie"]
    /\ lists' = [lists EXCEPT ![p] = {}]
    /\ chld' = (pPc # "stopped")

\* exit(NORMAL_EXIT) or a crash of the child.
ChildExits ==
    /\ \E p \in Having("child") : Ends(p) /\ termed' = termed \ {p}
    /\ UNCHANGED <<pPc, pPid, children, arrived, waiting, fds, strays>>

\* Mutant: the child forked last is the one removed.
HandleChldRemovesLast ==
    /\ chld
    /\ chld' = FALSE
    /\ \E p \in Having("zombie") : procs' = [procs EXCEPT ![p] = "free"]
    /\ children' = children \ {pPid}
    /\ UNCHANGED <<pPc, pPid, lists, termed, arrived, waiting, fds, strays>>

\* Mutant: the signal stays pending.
HandleChldKeepsSignal ==
    /\ chld
    /\ chld' = chld
    /\ \E p \in Having("zombie") :
          /\ procs' = [procs EXCEPT ![p] = "free"]
          /\ children' = children \ {p}
    /\ UNCHANGED <<pPc, pPid, lists, termed, arrived, waiting, fds, strays>>

\* sigHandler(SIGCHLD): one waitpid(), for whichever child comes first.  There
\* is one to reap: see SignalHasZombie.
HandleChld ==
    /\ chld
    /\ chld' = FALSE
    /\ \E p \in Having("zombie") :
          /\ procs' = [procs EXCEPT ![p] = "free"]
          /\ children' = children \ {p}
    /\ UNCHANGED <<pPc, pPid, lists, termed, arrived, waiting, fds, strays>>

\* Mutant: the first of the list only.
ReachedFirst(list) ==
    {p \in Pids : procs[p] \in {"child", "other"} /\ p \in list /\ \A q \in list : p <= q}

\* Whom kill() reaches for the entries of a list.
Reached(list) == {p \in Pids : procs[p] \in {"child", "other"} /\ (p \in list \/ Failed \in list)}

KillsList(list) == strays' = strays \cup (Reached(list) \cap Having("other"))

\* sigHandler(SIGTERM) or SIGINT: the parent signals its list and exits; init
\* reaps what it leaves.
HandleTerm ==
    /\ pPc # "stopped"
    /\ pPc' = "stopped"
    /\ chld' = FALSE
    /\ KillsList(children)
    /\ termed' = termed \cup (Reached(children) \cap Having("child"))
    /\ procs' = [p \in Pids |-> IF procs[p] = "zombie" THEN "free" ELSE procs[p]]
    /\ UNCHANGED <<pPid, children, lists, arrived, waiting, fds>>

\* Someone signals one child; control-C at the terminal of a server that did not
\* fork at its start signals all of them.
Interrupts ==
    /\ \E p \in Having("child") \ termed : termed' = termed \cup {p}
    /\ UNCHANGED <<pPc, pPid, children, procs, lists, chld, arrived, waiting, fds, strays>>

\* Mutant: a child that has signalled the others goes on.
ChildHandlesTermGoesOn(p) ==
    /\ p \in termed
    /\ KillsList(lists[p])
    /\ termed' = (termed \cup (Reached(lists[p]) \cap Having("child"))) \ {p}
    /\ UNCHANGED <<pPc, pPid, children, procs, lists, chld, arrived, waiting, fds>>

\* The same handler in a child: it signals the older children that were in the
\* list when it was forked, whatever became of them, and exits.
ChildHandlesTerm(p) ==
    /\ p \in termed
    /\ KillsList(lists[p])
    /\ termed' = (termed \cup (Reached(lists[p]) \cap Having("child"))) \ {p}
    /\ Ends(p)
    /\ UNCHANGED <<pPc, pPid, children, arrived, waiting, fds>>

\* Other programs of the user come and go.
OtherStep ==
    /\ \/ \E p \in Having("free")  : procs' = [procs EXCEPT ![p] = "other"]
       \/ \E p \in Having("other") : procs' = [procs EXCEPT ![p] = "free"]
    /\ UNCHANGED <<pPc, pPid, children, lists, termed, chld, arrived, waiting, fds, strays>>

Next ==
    \/ Connects \/ ParentStep \/ ChildExits
    \/ HandleChld \/ HandleTerm \/ Interrupts \/ \E p \in Pids : ChildHandlesTerm(p)
    \/ OtherStep

Spec == Init /\ [][Next]_vars

\* The parent runs and the kernel delivers its signals; children may serve for
\* ever and clients need not come.
FairSpec ==
    /\ Spec
    /\ WF_vars(ParentStep) /\ WF_vars(HandleChld)
    /\ \A p \in Pids : WF_vars(ChildHandlesTerm(p))

-----------------------------------------------------------------------------
(***************************************************************************)
(* The list never loses a child that runs: one that is not in it has been  *)
(* forked just now.  So SIGTERM misses one child at the most, whatever the *)
(* order of exits, reused pids and handlers before it.                     *)
(***************************************************************************)
RunningAreListed ==
    pPc # "stopped" =>
        \A p \in Having("child") : p \in children \/ (pPc = "push" /\ pPid = p)

OneSurvives == pPc = "stopped" => Cardinality(Having("child") \ termed) <= 1

(***************************************************************************)
(* A server that is told to stop ends every child in its list: what still  *)
(* serves after that is the one it was about to add.                       *)
(***************************************************************************)
ListedChildrenEnd ==
    <>[](pPc = "stopped" => \A p \in Having("child") : p = pPid)

(***************************************************************************)
(* SIGCHLDs are merged, never invented: when one is handled there is still *)
(* a child to reap, so waitpid() never reports "none yet", whose 0 would   *)
(* be taken for a pid.                                                     *)
(***************************************************************************)
SignalHasZombie == chld => Having("zombie") # {}

(***************************************************************************)
(* "Accept any incoming connections": what a client opens is accepted      *)
(* sooner or later, unless the server is stopped.                          *)
(***************************************************************************)
EveryConnectionAccepted == waiting > 0 ~> (waiting = 0 \/ pPc = "stopped")

(***************************************************************************)
(* "Kill the children": what the handler signals are children.             *)
(***************************************************************************)
OnlyChildrenSignalled == strays = {}

=============================================================================
