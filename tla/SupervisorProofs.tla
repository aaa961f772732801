-------------------------- MODULE SupervisorProofs --------------------------
(***************************************************************************)
(* What is proved of Supervisor for every set of process ids and every     *)
(* number of connections and descriptors.                                  *)
(***************************************************************************)
EXTENDS Supervisor, FiniteSetTheorems, TLAPS

\* Once the parent is gone, whoever was listed has been told to end.
StoppedLeavesOne ==
    pPc = "stopped" => \E last \in Entries : Having("child") \ termed \subseteq {last}

\* Only what has arrived can wait, so the bound on the one bounds the other.
QueueBounded == waiting <= arrived

TypeInv == TypeOK /\ QueueBounded

ListInv == RunningAreListed /\ StoppedLeavesOne /\ SignalHasZombie

-----------------------------------------------------------------------------
LEMMA InitSupervisor == Init => TypeInv /\ ListInv
<1> SUFFICES ASSUME Init PROVE TypeInv /\ ListInv
  OBVIOUS
<1>1. TypeInv
  <2>1. chld \in BOOLEAN
    BY DEF Init
  <2>2. /\ arrived \in 0..MaxConns /\ waiting \in 0..MaxConns /\ fds \in 0..MaxFds
        /\ waiting <= arrived
    BY SupervisorAssumption DEF Init
  <2>3. /\ procs \in [Pids -> {"free", "child", "zombie", "other"}]
        /\ lists \in [Pids -> SUBSET Entries]
    BY DEF Init
  <2>4. /\ pPc \in {"accept", "fork", "push", "stopped"}
        /\ pPid \in Entries /\ children \subseteq Entries
        /\ termed \subseteq Pids /\ strays \subseteq Pids
    BY DEF Init, Entries
  <2> QED  BY <2>1, <2>2, <2>3, <2>4 DEF TypeInv, TypeOK, QueueBounded
<1>2. Having("child") = {} /\ pPc = "accept" /\ ~chld
  BY DEF Init, Having
<1> QED
  BY <1>1, <1>2 DEF ListInv, RunningAreListed, StoppedLeavesOne, SignalHasZombie

(***************************************************************************)
(* Every step keeps the types: no counter passes its bound, and no list    *)
(* holds anything but pids and the -1 of a failed fork().                  *)
(***************************************************************************)
LEMMA SupervisorKeepsTypes == TypeInv /\ [Next]_vars => TypeInv'
<1> SUFFICES ASSUME TypeInv, [Next]_vars PROVE TypeInv'
  OBVIOUS
<1> USE DEF TypeInv, QueueBounded
<1>1. MaxFds \in Nat /\ MaxConns \in Nat
  BY SupervisorAssumption
<1>2. CASE Connects
  BY <1>1, <1>2 DEF Connects, TypeOK
<1>3. CASE Accept
  BY <1>1, <1>3 DEF Accept, TypeOK
<1>4. CASE Fork
  <2>1. CASE \E p \in Having("free") : ForkedAs(p)
    BY <1>4, <2>1 DEF Fork, ForkedAs, Having, TypeOK, Entries
  <2>2. CASE pPid' = Failed /\ UNCHANGED <<procs, lists>>
    BY <1>4, <2>2 DEF Fork, TypeOK, Entries
  <2> QED  BY <1>4, <2>1, <2>2 DEF Fork
<1>5. CASE PushBack
  BY <1>5 DEF PushBack, TypeOK
<1>6. CASE ChildExits
  BY <1>6 DEF ChildExits, Ends, Having, TypeOK
<1>7. CASE HandleChld
  BY <1>7 DEF HandleChld, Having, TypeOK
<1>8. CASE HandleTerm
  BY <1>8 DEF HandleTerm, KillsList, Reached, Having, TypeOK
<1>9. CASE Interrupts
  BY <1>9 DEF Interrupts, Having, TypeOK
<1>10. CASE \E p \in Pids : ChildHandlesTerm(p)
  BY <1>10 DEF ChildHandlesTerm, KillsList, Ends, Reached, Having, TypeOK
<1>11. CASE OtherStep
  BY <1>11 DEF OtherStep, Having, TypeOK
<1>12. CASE UNCHANGED vars
  BY <1>12 DEF vars, TypeOK
<1> QED
  BY <1>2, <1>3, <1>4, <1>5, <1>6, <1>7, <1>8, <1>9, <1>10, <1>11, <1>12 DEF Next, ParentStep

(***************************************************************************)
(* Every step keeps the list in step with the process table.               *)
(***************************************************************************)
LEMMA SupervisorKeepsList == TypeOK /\ ListInv /\ [Next]_vars => ListInv'
<1> SUFFICES ASSUME TypeOK, ListInv, [Next]_vars PROVE ListInv'
  OBVIOUS
<1> USE DEF ListInv
<1>1. CASE Connects
  BY <1>1 DEF Connects, RunningAreListed, StoppedLeavesOne, SignalHasZombie, Having
<1>2. CASE Accept
  BY <1>2 DEF Accept, RunningAreListed, StoppedLeavesOne, SignalHasZombie, Having
<1>3. CASE Fork
  <2>1. pPc = "fork" /\ pPc' = "push" /\ UNCHANGED <<children, chld>>
    BY <1>3 DEF Fork
  <2>2. \A p \in Having("child") : p \in children
    BY <2>1 DEF RunningAreListed
  <2>3. /\ Having("child")' \subseteq Having("child") \cup {pPid'}
        /\ Having("zombie") \subseteq Having("zombie")'
    BY <1>3 DEF Fork, ForkedAs, Having, TypeOK
  <2> QED  BY <2>1, <2>2, <2>3 DEF RunningAreListed, StoppedLeavesOne, SignalHasZombie
<1>4. CASE PushBack
  BY <1>4 DEF PushBack, RunningAreListed, StoppedLeavesOne, SignalHasZombie, Having
<1>5. ASSUME NEW p \in Pids, Ends(p), UNCHANGED <<pPc, pPid, children>>,
             termed \ {p} \subseteq termed'
      PROVE  ListInv'
  <2>1. Having("child")' = Having("child") \ {p}
    BY <1>5 DEF Ends, Having, TypeOK
  <2>2. pPc # "stopped" => p \in Having("zombie")'
    BY <1>5 DEF Ends, Having, TypeOK
  <2>3. SignalHasZombie'
    BY <1>5, <2>2 DEF Ends, SignalHasZombie
  <2>4. RunningAreListed'
    BY <1>5, <2>1 DEF RunningAreListed
  <2>5. (Having("child") \ termed)' \subseteq Having("child") \ termed
    BY <1>5, <2>1
  <2> QED  BY <1>5, <2>3, <2>4, <2>5 DEF StoppedLeavesOne
<1>6. CASE ChildExits
  BY <1>5, <1>6 DEF ChildExits, Having
<1>7. CASE HandleChld
  <2>1. PICK z \in Having("zombie") :
           procs' = [procs EXCEPT ![z] = "free"] /\ children' = children \ {z}
    BY <1>7 DEF HandleChld
  <2>2. ~chld' /\ UNCHANGED <<pPc, pPid, termed>>
    BY <1>7 DEF HandleChld
  <2>3. Having("child")' = Having("child") /\ z \notin Having("child")
    BY <2>1 DEF Having, TypeOK
  <2> QED  BY <2>1, <2>2, <2>3 DEF RunningAreListed, StoppedLeavesOne, SignalHasZombie
<1>8. CASE HandleTerm
  <2>1. /\ pPc # "stopped" /\ pPc' = "stopped" /\ ~chld' /\ pPid' = pPid
        /\ termed' = termed \cup (Reached(children) \cap Having("child"))
    BY <1>8 DEF HandleTerm
  <2>2. Having("child")' = Having("child")
    BY <1>8 DEF HandleTerm, Having, TypeOK
  <2>3. \A p \in Having("child") : p \in Reached(children) \/ p = pPid
    BY <2>1 DEF RunningAreListed, Reached, Having
  <2>4. (Having("child") \ termed)' \subseteq {pPid}
    BY <2>1, <2>2, <2>3
  <2> QED
    BY <2>1, <2>4 DEF RunningAreListed, StoppedLeavesOne, SignalHasZombie, TypeOK
<1>9. CASE Interrupts
  BY <1>9 DEF Interrupts, RunningAreListed, StoppedLeavesOne, SignalHasZombie, Having
<1>10. CASE \E p \in Pids : ChildHandlesTerm(p)
  <2>1. PICK p \in Pids : ChildHandlesTerm(p)
    BY <1>10
  <2> QED  BY <1>5, <2>1 DEF ChildHandlesTerm
<1>11. CASE OtherStep
  <2>1. /\ Having("child")' = Having("child") /\ Having("zombie")' = Having("zombie")
        /\ UNCHANGED <<pPc, pPid, children, termed, chld>>
    BY <1>11 DEF OtherStep, Having, TypeOK
  <2> QED  BY <2>1 DEF RunningAreListed, StoppedLeavesOne, SignalHasZombie
<1>12. CASE UNCHANGED vars
  BY <1>12 DEF vars, RunningAreListed, StoppedLeavesOne, SignalHasZombie, Having
<1> QED
  BY <1>1, <1>2, <1>3, <1>4, <1>6, <1>7, <1>8, <1>9, <1>10, <1>11, <1>12 DEF Next, ParentStep

LEMMA SupervisorInvariant == Spec => [](TypeInv /\ ListInv)
<1>1. TypeInv => TypeOK
  BY DEF TypeInv
<1> QED
  BY <1>1, InitSupervisor, SupervisorKeepsTypes, SupervisorKeepsList, PTL DEF Spec

-----------------------------------------------------------------------------
(***************************************************************************)
(* Type correctness: through failed forks, reused pids and handlers that   *)
(* run between any two steps of the loop, the descriptors stay within the  *)
(* limit and the lists hold pids and -1 only.                              *)
(***************************************************************************)
THEOREM SupervisorTypes == Spec => []TypeOK
<1>1. TypeInv => TypeOK
  BY DEF TypeInv
<1> QED  BY <1>1, SupervisorInvariant, PTL

(***************************************************************************)
(* The list of children that main() keeps with push_back() and sigHandler()*)
(* with remove() misses no child that runs, except the one between fork()  *)
(* and push_back(), in whatever order children exit and pids are reused.   *)
(***************************************************************************)
THEOREM NoChildForgotten == Spec => []RunningAreListed
<1>1. ListInv => RunningAreListed
  BY DEF ListInv
<1> QED  BY <1>1, SupervisorInvariant, PTL

(***************************************************************************)
(* A SIGTERM that stops the parent, at any point of the accept loop, has   *)
(* been sent on to all of its children but one.                            *)
(***************************************************************************)
THEOREM OneChildSurvives == Spec => []OneSurvives
<1>1. ListInv => OneSurvives
  <2> SUFFICES ASSUME ListInv, pPc = "stopped"
               PROVE  Cardinality(Having("child") \ termed) <= 1
    BY DEF OneSurvives
  <2>1. PICK last \in Entries : Having("child") \ termed \subseteq {last}
    BY DEF ListInv, StoppedLeavesOne
  <2>2. Having("child") \ termed = {} \/ Having("child") \ termed = {last}
    BY <2>1
  <2>3. Cardinality({}) = 0 /\ Cardinality({last}) = 1
    BY FS_EmptySet, FS_Singleton
  <2> QED  BY <2>2, <2>3
<1> QED  BY <1>1, SupervisorInvariant, PTL

(***************************************************************************)
(* A pending SIGCHLD means a child to reap: the WNOHANG of sigHandler()    *)
(* never comes back with 0, which would be removed from the list as a pid. *)
(***************************************************************************)
THEOREM SignalFindsZombie == Spec => []SignalHasZombie
<1>1. ListInv => SignalHasZombie
  BY DEF ListInv
<1> QED  BY <1>1, SupervisorInvariant, PTL

=============================================================================
