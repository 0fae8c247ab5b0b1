--------------------------- MODULE SessionManager ---------------------------
(***************************************************************************)
(* SessionManager of session.py: one slot for a session, the lock around   *)
(* it, and the calls that open and close, each on a thread of its own.     *)
(* A session is named by the open() that makes it.  Of what a session does *)
(* on its own only the lease is left: _shutdown takes a while, ends with   *)
(* the port released or left to the drain thread, and says which.          *)
(***************************************************************************)
EXTENDS Integers, FiniteSets

CONSTANTS
  Opens,     \* calls of open()
  Closes,    \* calls of close()
  Devices,   \* the adapters a call may name
  Nobody,    \* no session
  Stranger   \* a process outside this worker

ASSUME NameAssumption ==
  /\ Nobody \notin Opens /\ Stranger \notin Opens
  /\ Nobody # Stranger

VARIABLES
  lock,      \* holder of the manager's _lock
  current,   \* _current
  warning,   \* last_close_warning, by the session it is about
  flock,     \* who holds the exclusive lock on each tty
  opc,       \* where each open() is
  device,    \* the device it resolved
  blocker,   \* who kept it from the port
  answer,    \* what it told its caller, and the session its note named
  phase,     \* the lease of each session
  drain,     \* its port is left to the drain thread
  kpc,       \* where each close() is
  target     \* the session it is about

slot   == <<lock, current, warning>>
opens  == <<opc, device, blocker, answer>>
leases == <<phase, drain>>
closes == <<kpc, target>>
vars   == <<slot, flock, opens, leases, closes>>

Sessions == Opens \cup {Nobody}

Init ==
  /\ lock = Nobody /\ current = Nobody /\ warning = Nobody
  /\ flock = [d \in Devices |-> Nobody]
  /\ opc = [o \in Opens |-> "start"]
  /\ device \in [Opens -> Devices]
  /\ blocker = [o \in Opens |-> Nobody]
  /\ answer = [o \in Opens |-> [said |-> "nothing", note |-> Nobody]]
  /\ phase = [o \in Opens |-> "none"]
  /\ drain = [o \in Opens |-> FALSE]
  /\ kpc = [k \in Closes |-> "start"]
  /\ target = [k \in Closes |-> Nobody]

-----------------------------------------------------------------------------
(* Any other process may hold a tty for a while.                           *)

StrangerTakes(d) ==
  /\ flock[d] = Nobody
  /\ flock' = [flock EXCEPT ![d] = Stranger]
  /\ UNCHANGED <<slot, opens, leases, closes>>

StrangerLeaves(d) ==
  /\ flock[d] = Stranger
  /\ flock' = [flock EXCEPT ![d] = Nobody]
  /\ UNCHANGED <<slot, opens, leases, closes>>

-----------------------------------------------------------------------------
(* open(), under the lock from the check of the slot to its publication.   *)

OpenAt(o, from, to) == opc[o] = from /\ opc' = [opc EXCEPT ![o] = to]

Tell(o, said, note) ==
  answer' = [answer EXCEPT ![o] = [said |-> said, note |-> note]]

OpenEnters(o) ==
  /\ lock = Nobody
  /\ OpenAt(o, "start", "check")
  /\ lock' = o
  /\ UNCHANGED <<current, warning, flock, device, blocker, answer, leases, closes>>

SlotTaken == current # Nobody

OpenRefused(o) ==
  /\ SlotTaken
  /\ OpenAt(o, "check", "end")
  /\ Tell(o, "busy", Nobody)
  /\ lock' = Nobody
  /\ UNCHANGED <<current, warning, flock, device, blocker, leases, closes>>

(* resolve_device() raises, or does not.                                   *)
OpenUnresolved(o) ==
  /\ ~SlotTaken
  /\ OpenAt(o, "check", "end")
  /\ Tell(o, "unresolved", Nobody)
  /\ lock' = Nobody
  /\ UNCHANGED <<current, warning, flock, device, blocker, leases, closes>>

OpenResolves(o) ==
  /\ ~SlotTaken
  /\ OpenAt(o, "check", "port")
  /\ UNCHANGED <<slot, flock, device, blocker, answer, leases, closes>>

(* _open_port(): open(2) with TIOCEXCL and flock(LOCK_EX | LOCK_NB).       *)
OpenTakesPort(o) ==
  /\ flock[device[o]] = Nobody
  /\ OpenAt(o, "port", "build")
  /\ flock' = [flock EXCEPT ![device[o]] = o]
  /\ UNCHANGED <<slot, device, blocker, answer, leases, closes>>

OpenFindsHeld(o) ==
  /\ flock[device[o]] # Nobody
  /\ OpenAt(o, "port", "explain")
  /\ blocker' = [blocker EXCEPT ![o] = flock[device[o]]]
  /\ UNCHANGED <<slot, flock, device, answer, leases, closes>>

OpenExplains(o) ==
  /\ OpenAt(o, "explain", "end")
  /\ Tell(o, "held", warning)
  /\ lock' = Nobody
  /\ UNCHANGED <<current, warning, flock, device, blocker, leases, closes>>

(* The session and its capture are built and the reader is started.        *)
OpenBuilds(o) ==
  /\ OpenAt(o, "build", "publish")
  /\ phase' = [phase EXCEPT ![o] = "live"]
  /\ UNCHANGED <<slot, flock, device, blocker, answer, drain, closes>>

(* Mutant of AfterBuildFails: the port is left to the garbage collector.   *)
PortStranded(o) == flock

AfterBuildFails(o) == [flock EXCEPT ![device[o]] = Nobody]

OpenBuildFails(o) ==
  /\ OpenAt(o, "build", "end")
  /\ flock' = AfterBuildFails(o)
  /\ Tell(o, "failed", Nobody)
  /\ lock' = Nobody
  /\ UNCHANGED <<current, warning, device, blocker, leases, closes>>

OpenPublishes(o) ==
  /\ OpenAt(o, "publish", "end")
  /\ current' = o
  /\ Tell(o, "opened", Nobody)
  /\ lock' = Nobody
  /\ UNCHANGED <<warning, flock, device, blocker, leases, closes>>

OpenStep(o) ==
  \/ OpenEnters(o) \/ OpenRefused(o) \/ OpenUnresolved(o) \/ OpenResolves(o)
  \/ OpenTakesPort(o) \/ OpenFindsHeld(o) \/ OpenExplains(o)
  \/ OpenBuilds(o) \/ OpenBuildFails(o) \/ OpenPublishes(o)

-----------------------------------------------------------------------------
(* close(): the slot is freed under the lock, the shutdown runs outside it.*)

CloseAt(k, from, to) == kpc[k] = from /\ kpc' = [kpc EXCEPT ![k] = to]

(* Mutant of SlotAfterClose: the slot is kept until the shutdown is done.  *)
SlotKept == current

SlotAfterClose == Nobody

IsCurrent(s) == current = s

(* Mutant of NoteAfterEntry: no word of the close until it is done.        *)
NoteCleared == Nobody

NoteAfterEntry == current

(* Mutant of LockAfterEntry: the lock is kept for the shutdown.            *)
LockKept(k) == k

LockAfterEntry(k) == Nobody

(* Any id may be passed: the current one, a stale one.                     *)
CloseUnknown(k) ==
  /\ lock = Nobody
  /\ \E s \in Opens :
       /\ ~IsCurrent(s)
       /\ target' = [target EXCEPT ![k] = s]
  /\ CloseAt(k, "start", "unknown")
  /\ UNCHANGED <<slot, flock, opens, leases>>

CloseEnters(k) ==
  /\ lock = Nobody /\ current # Nobody
  /\ \E s \in Opens :
       /\ IsCurrent(s)
       /\ target' = [target EXCEPT ![k] = s]
  /\ CloseAt(k, "start", "begin")
  /\ current' = SlotAfterClose
  /\ warning' = NoteAfterEntry
  /\ lock' = LockAfterEntry(k)
  /\ UNCHANGED <<flock, opens, leases>>

(* _shutdown() of the session taken out of the slot.                       *)
ShutdownBegins(k) ==
  /\ CloseAt(k, "begin", "shutdown")
  /\ phase' = [phase EXCEPT ![target[k]] = "ending"]
  /\ UNCHANGED <<slot, flock, opens, drain, target>>

(* The write lock is acquired and the port released; the reader may not    *)
(* have joined, which is warned about as well.                             *)
ShutdownReleases(k) ==
  /\ \/ CloseAt(k, "shutdown", "clean") \/ CloseAt(k, "shutdown", "warned")
  /\ flock' = [flock EXCEPT ![device[target[k]]] = Nobody]
  /\ UNCHANGED <<slot, opens, leases, target>>

(* Mutant of ShutdownLeaves: no drain thread is started.                   *)
ShutdownLeavesAlone(k) ==
  /\ CloseAt(k, "shutdown", "warned")
  /\ UNCHANGED <<slot, flock, opens, leases, target>>

(* A call is still at the port: the drain thread is to release it.         *)
ShutdownLeaves(k) ==
  /\ CloseAt(k, "shutdown", "warned")
  /\ drain' = [drain EXCEPT ![target[k]] = TRUE]
  /\ UNCHANGED <<slot, flock, opens, phase, target>>

(* last_close_warning is assigned outside the lock.                        *)
CloseRecords(k) ==
  /\ \/ CloseAt(k, "clean", "end") /\ warning' = Nobody
     \/ CloseAt(k, "warned", "end") /\ warning' = target[k]
  /\ phase' = [phase EXCEPT ![target[k]] = "over"]
  /\ UNCHANGED <<lock, current, flock, opens, drain, target>>

CloseStep(k) ==
  \/ CloseUnknown(k) \/ CloseEnters(k) \/ ShutdownBegins(k)
  \/ ShutdownReleases(k) \/ ShutdownLeaves(k) \/ CloseRecords(k)

(* The call at the port has returned.                                      *)
Drains(s) ==
  /\ drain[s]
  /\ drain' = [drain EXCEPT ![s] = FALSE]
  /\ flock' = [flock EXCEPT ![device[s]] = Nobody]
  /\ UNCHANGED <<slot, opens, phase, closes>>

(* Every call has returned and no thread is left.                          *)
Over ==
  /\ \A o \in Opens : opc[o] = "end" /\ ~drain[o]
  /\ \A k \in Closes : kpc[k] \in {"end", "unknown"}
  /\ UNCHANGED vars

Next ==
  \/ \E d \in Devices : StrangerTakes(d) \/ StrangerLeaves(d)
  \/ \E o \in Opens : OpenStep(o)
  \/ \E k \in Closes : CloseStep(k)
  \/ \E s \in Opens : Drains(s)
  \/ Over

Spec == Init /\ [][Next]_vars

(* Threads that open are scheduled.  Of a close nothing is assumed here.   *)
Fairness == \A o \in Opens : WF_vars(OpenStep(o))

FairSpec == Spec /\ Fairness

-----------------------------------------------------------------------------
OpenPlaces == {"start", "check", "port", "explain", "build", "publish", "end"}
ClosePlaces == {"start", "unknown", "begin", "shutdown", "clean", "warned", "end"}
Sayings == {"nothing", "busy", "unresolved", "held", "failed", "opened"}
Answers == [said: Sayings, note: Sessions]

TypeOK ==
  /\ lock \in Sessions /\ current \in Sessions /\ warning \in Sessions
  /\ flock \in [Devices -> Sessions \cup {Stranger}]
  /\ opc \in [Opens -> OpenPlaces]
  /\ device \in [Opens -> Devices]
  /\ blocker \in [Opens -> Sessions \cup {Stranger}]
  /\ answer \in [Opens -> Answers]
  /\ phase \in [Opens -> {"none", "live", "ending", "over"}]
  /\ drain \in [Opens -> BOOLEAN]
  /\ kpc \in [Closes -> ClosePlaces]
  /\ target \in [Closes -> Sessions]

(* The session in the slot is one whose port is its own and that no close  *)
(* has begun to end: status and get never hand out one on its way out.     *)
SlotHoldsPort ==
  current # Nobody => phase[current] = "live" /\ flock[device[current]] = current

Closing(s) == \E k \in Closes : target[k] = s /\ kpc[k] \in {"begin", "shutdown"}

(* Every port this worker holds has someone who will release it: the slot, *)
(* the open still building its session, a running close or a drain thread. *)
(* The manager does not report an idle bench whose port nothing can open.  *)
NoStrandedPort ==
  \A d \in Devices : \A s \in Opens : flock[d] = s =>
    \/ current = s
    \/ lock = s /\ opc[s] \in {"build", "publish"}
    \/ Closing(s)
    \/ drain[s]

(* Of several closes of one session exactly one shuts it down: the others  *)
(* are told there is no such session.                                      *)
OneCloseEach ==
  \A j, k \in Closes :
    {kpc[j], kpc[k]} \cap {"start", "unknown"} = {} /\ target[j] = target[k] => j = k

(* A session that is over for its manager while its port is still held.    *)
Lingers(s) == flock[device[s]] = s /\ (drain[s] \/ Closing(s))

(* A failed open of a port that lingers can be explained, if no other      *)
(* session was ever closed.                                                *)
LoneCloseIsExplained ==
  \A s \in Opens :
    /\ Lingers(s)
    /\ \A k \in Closes : kpc[k] \in {"start", "unknown"} \/ target[k] = s
    => warning = s

(* An open that fails on a port which a session of this worker still holds *)
(* is told the name of that session.                                       *)
OpenFailureExplained ==
  [][\A o \in Opens : \A s \in Opens :
       OpenExplains(o) /\ blocker[o] = s /\ Lingers(s) => answer'[o].note = s]_vars

(* An open is answered although a shutdown may take for ever.              *)
OpensAreAnswered == \A o \in Opens : <>(opc[o] = "end")

(* When shutdowns and the calls they wait for come to an end, the port of  *)
(* a session that was closed is free for the next one.                     *)
PortsAreFreed ==
  /\ \A k \in Closes : WF_vars(CloseStep(k) /\ kpc[k] # "start")
  /\ \A s \in Opens : WF_vars(Drains(s))
  => \A s \in Opens : phase[s] = "ending" ~> flock[device[s]] # s
=============================================================================
