------------------------ MODULE SessionManagerProofs ------------------------
(***************************************************************************)
(* Proofs about SessionManager, for any number of calls and any devices.   *)
(***************************************************************************)
EXTENDS SessionManager, TLAPS

Inside == {"check", "port", "explain", "build", "publish"}
Ending == {"begin", "shutdown", "clean", "warned", "end"}

(* Who will release the port a session holds.                              *)
Owner(s) ==
  current = s \/ opc[s] \in {"build", "publish"} \/ Closing(s) \/ drain[s]

LockInv ==
  /\ \A o \in Opens : opc[o] \in Inside <=> lock = o
  /\ \A o \in Opens : opc[o] \in Inside \ {"check"} => current = Nobody

PortInv ==
  \A d \in Devices : \A s \in Opens : flock[d] = s <=> device[s] = d /\ Owner(s)

LifeInv ==
  /\ current # Nobody => phase[current] = "live" /\ opc[current] = "end"
  /\ \A o \in Opens : opc[o] = "publish" => phase[o] = "live"
  /\ \A s \in Opens : drain[s] => opc[s] = "end" /\ current # s

CloseInv ==
  /\ \A k \in Closes : kpc[k] \in Ending =>
       /\ target[k] \in Opens /\ target[k] # current
       /\ opc[target[k]] = "end"
       /\ kpc[k] \in {"begin", "shutdown", "clean"} => ~drain[target[k]]
  /\ \A j, k \in Closes :
       kpc[j] \in Ending /\ kpc[k] \in Ending /\ target[j] = target[k] => j = k

Inv == TypeOK /\ LockInv /\ PortInv /\ LifeInv /\ CloseInv

USE NameAssumption
USE DEF slot, opens, leases, closes, Sessions

(* Nothing is open, held or closing at first.                              *)
LEMMA InvInit == Init => Inv
<1> SUFFICES ASSUME Init PROVE Inv
  OBVIOUS
<1> USE DEF Init
<1>1. TypeOK
  BY DEF TypeOK, OpenPlaces, ClosePlaces, Answers, Sayings
<1>2. LockInv /\ PortInv /\ LifeInv /\ CloseInv
  BY DEF LockInv, PortInv, LifeInv, CloseInv, Inside, Ending, Owner, Closing
<1> QED
  BY <1>1, <1>2 DEF Inv

(* A stranger takes a tty nobody holds, and gives back its own.            *)
LEMMA StrangerInv ==
  ASSUME Inv, NEW d \in Devices, StrangerTakes(d) \/ StrangerLeaves(d)
  PROVE  Inv'
<1> USE DEF Inv, StrangerTakes, StrangerLeaves
<1>1. TypeOK'
  BY DEF TypeOK
<1>2. LockInv' /\ LifeInv' /\ CloseInv'
  BY DEF LockInv, LifeInv, CloseInv
<1>3. PortInv'
  BY DEF PortInv, Owner, Closing, TypeOK
<1> QED
  BY <1>1, <1>2, <1>3

(* The steps of an open that touch no port.                                *)
LEMMA OpenMovesInv ==
  ASSUME Inv, NEW o \in Opens,
         \/ OpenEnters(o) \/ OpenRefused(o) \/ OpenUnresolved(o)
         \/ OpenResolves(o) \/ OpenFindsHeld(o) \/ OpenExplains(o)
  PROVE  Inv'
<1> USE DEF Inv, OpenAt, Tell, SlotTaken, OpenEnters, OpenRefused,
            OpenUnresolved, OpenResolves, OpenFindsHeld, OpenExplains
<1>1. TypeOK'
  BY DEF TypeOK, OpenPlaces, Answers, Sayings
<1>2. LockInv'
  BY DEF LockInv, Inside, TypeOK
<1>3. PortInv'
  BY DEF PortInv, Owner, Closing, TypeOK
<1>4. LifeInv'
  BY DEF LifeInv, TypeOK
<1>5. CloseInv'
  BY DEF CloseInv, TypeOK, Ending
<1> QED
  BY <1>1, <1>2, <1>3, <1>4, <1>5

(* The steps of an open that take, give back or publish its port.          *)
LEMMA OpenPortInv ==
  ASSUME Inv, NEW o \in Opens,
         \/ OpenTakesPort(o) \/ OpenBuilds(o) \/ OpenBuildFails(o)
         \/ OpenPublishes(o)
  PROVE  Inv'
<1> USE DEF Inv, OpenAt, Tell, OpenTakesPort, OpenBuilds, OpenBuildFails,
            OpenPublishes, AfterBuildFails
<1>1. TypeOK'
  <2> USE DEF TypeOK, OpenPlaces, Answers, Sayings
  <2>1. CASE OpenTakesPort(o)
    BY <2>1
  <2>2. CASE OpenBuilds(o)
    BY <2>2
  <2>3. CASE OpenBuildFails(o)
    BY <2>3
  <2>4. CASE OpenPublishes(o)
    BY <2>4
  <2> QED
    BY <2>1, <2>2, <2>3, <2>4
<1>2. LockInv'
  BY DEF LockInv, Inside, TypeOK
<1>3. PortInv'
  <2> USE DEF PortInv, Owner, Closing, TypeOK, LockInv, LifeInv, CloseInv, Inside, Ending
  <2>1. CASE OpenTakesPort(o)
    BY <2>1
  <2>2. CASE OpenBuilds(o)
    BY <2>2
  <2>3. CASE OpenBuildFails(o)
    BY <2>3
  <2>4. CASE OpenPublishes(o)
    BY <2>4
  <2> QED
    BY <2>1, <2>2, <2>3, <2>4
<1>4. LifeInv'
  BY DEF LifeInv, TypeOK, LockInv, Inside
<1>5. CloseInv'
  BY DEF CloseInv, TypeOK, LockInv, Inside, Ending
<1> QED
  BY <1>1, <1>2, <1>3, <1>4, <1>5

(* A step of a close takes the slot's session, and its port, to its end.   *)
LEMMA CloseStepInv ==
  ASSUME Inv, NEW k \in Closes, CloseStep(k)
  PROVE  Inv'
<1> USE DEF Inv, CloseAt, SlotAfterClose, IsCurrent, NoteAfterEntry,
            LockAfterEntry
<1>1. CASE CloseUnknown(k)
  <2> USE <1>1 DEF CloseUnknown
  <2>1. TypeOK' /\ LockInv' /\ LifeInv'
    BY DEF TypeOK, ClosePlaces, LockInv, LifeInv
  <2>2. PortInv' /\ CloseInv'
    BY DEF PortInv, CloseInv, Owner, Closing, TypeOK, Ending
  <2> QED
    BY <2>1, <2>2
<1>2. CASE CloseEnters(k)
  <2> USE <1>2 DEF CloseEnters
  <2>1. TypeOK' /\ LockInv' /\ LifeInv'
    BY DEF TypeOK, ClosePlaces, LockInv, LifeInv
  <2>2. PortInv'
    BY DEF PortInv, CloseInv, Owner, Closing, TypeOK, Ending
  <2>3. CloseInv'
    BY DEF CloseInv, LifeInv, TypeOK, Ending
  <2> QED
    BY <2>1, <2>2, <2>3
<1>3. CASE ShutdownBegins(k)
  <2> USE <1>3 DEF ShutdownBegins
  <2>1. TypeOK' /\ LockInv' /\ LifeInv'
    BY DEF TypeOK, ClosePlaces, LockInv, LifeInv, CloseInv, Ending
  <2>2. PortInv' /\ CloseInv'
    BY DEF PortInv, CloseInv, Owner, Closing, TypeOK, Ending
  <2> QED
    BY <2>1, <2>2
<1>4. CASE ShutdownReleases(k)
  <2> USE <1>4 DEF ShutdownReleases
  <2>1. TypeOK' /\ LockInv' /\ LifeInv'
    BY DEF TypeOK, ClosePlaces, LockInv, LifeInv
  <2>2. PortInv'
    BY DEF PortInv, CloseInv, Owner, Closing, TypeOK, Ending
  <2>3. CloseInv'
    BY DEF CloseInv, TypeOK, Ending
  <2> QED
    BY <2>1, <2>2, <2>3
<1>5. CASE ShutdownLeaves(k)
  <2> USE <1>5 DEF ShutdownLeaves
  <2>1. TypeOK' /\ LockInv'
    BY DEF TypeOK, ClosePlaces, LockInv
  <2>2. LifeInv' /\ CloseInv'
    BY DEF LifeInv, CloseInv, TypeOK, Ending
  <2>3. PortInv'
    BY DEF PortInv, CloseInv, Owner, Closing, TypeOK, Ending
  <2> QED
    BY <2>1, <2>2, <2>3
<1>6. CASE CloseRecords(k)
  <2> USE <1>6 DEF CloseRecords
  <2>1. TypeOK' /\ LockInv' /\ LifeInv'
    BY DEF TypeOK, ClosePlaces, LockInv, LifeInv, CloseInv, Ending
  <2>2. PortInv' /\ CloseInv'
    BY DEF PortInv, CloseInv, Owner, Closing, TypeOK, Ending
  <2> QED
    BY <2>1, <2>2
<1> QED
  BY <1>1, <1>2, <1>3, <1>4, <1>5, <1>6 DEF CloseStep

(* The drain thread releases a port that is nobody's any more.             *)
LEMMA DrainInv ==
  ASSUME Inv, NEW s \in Opens, Drains(s)
  PROVE  Inv'
<1> USE DEF Inv, Drains
<1>1. TypeOK' /\ LockInv'
  BY DEF TypeOK, LockInv
<1>2. LifeInv' /\ CloseInv'
  BY DEF LifeInv, CloseInv, TypeOK
<1>3. PortInv'
  BY DEF PortInv, Owner, Closing, TypeOK, LifeInv, CloseInv, Ending
<1> QED
  BY <1>1, <1>2, <1>3

(* The invariant is inductive: one case per kind of step.                  *)
LEMMA InvStep == Inv /\ [Next]_vars => Inv'
<1> SUFFICES ASSUME Inv, [Next]_vars PROVE Inv'
  OBVIOUS
<1>1. CASE UNCHANGED vars
  BY <1>1 DEF vars, Inv, TypeOK, LockInv, PortInv, LifeInv, CloseInv, Owner, Closing
<1> QED
  BY <1>1, StrangerInv, OpenMovesInv, OpenPortInv, CloseStepInv, DrainInv
  DEF Next, OpenStep, Over

(* The manager keeps to its types.                                         *)
THEOREM ManagerTypes == Spec => []TypeOK
<1>1. Inv => TypeOK
  BY DEF Inv
<1> QED
  BY InvInit, InvStep, <1>1, PTL DEF Spec

(* The session in the slot is live and its port its own.                   *)
THEOREM SlotSound == Spec => []SlotHoldsPort
<1>1. Inv => SlotHoldsPort
  BY DEF Inv, TypeOK, PortInv, LifeInv, Owner, SlotHoldsPort
<1> QED
  BY InvInit, InvStep, <1>1, PTL DEF Spec

(* No port is held that nobody will release.                               *)
THEOREM NothingStranded == Spec => []NoStrandedPort
<1>1. Inv => NoStrandedPort
  BY DEF Inv, PortInv, LockInv, Owner, Inside, NoStrandedPort
<1> QED
  BY InvInit, InvStep, <1>1, PTL DEF Spec

(* One close of a session shuts it down.                                   *)
THEOREM ClosedOnce == Spec => []OneCloseEach
<1>1. Inv => OneCloseEach
  BY DEF Inv, TypeOK, CloseInv, Ending, ClosePlaces, OneCloseEach
<1> QED
  BY InvInit, InvStep, <1>1, PTL DEF Spec

-----------------------------------------------------------------------------
(* LoneCloseIsExplained.  last_close_warning is set under the lock when a  *)
(* close enters, and again, outside it, when the close is recorded; no     *)
(* session being closed but s, only a clean end of the one close of s      *)
(* takes its name away, and then nothing of s is left at the port.         *)

OnlyCloseOf(s) == \A k \in Closes : kpc[k] \in {"start", "unknown"} \/ target[k] = s

NoteInv ==
  \A s \in Opens : (drain[s] \/ Closing(s)) /\ OnlyCloseOf(s) => warning = s

(* The steps of a close, which set the note.                               *)
LEMMA CloseNotes ==
  ASSUME Inv, NoteInv, NEW k \in Closes, CloseStep(k)
  PROVE  NoteInv'
<1> SUFFICES ASSUME NEW s \in Opens, (drain[s] \/ Closing(s))', OnlyCloseOf(s)'
             PROVE  warning' = s
  BY DEF NoteInv
<1> USE DEF Inv, TypeOK, CloseAt
<1>1. CASE CloseUnknown(k)
  BY <1>1 DEF CloseUnknown, NoteInv, OnlyCloseOf, Closing
<1>2. CASE CloseEnters(k)
  BY <1>2 DEF CloseEnters, IsCurrent, NoteAfterEntry, OnlyCloseOf
<1>3. CASE ShutdownBegins(k)
  <2>1. OnlyCloseOf(s) /\ (drain[s] \/ Closing(s))
    BY <1>3 DEF ShutdownBegins, OnlyCloseOf, Closing
  <2> QED
    BY <1>3, <2>1 DEF ShutdownBegins, NoteInv
<1>4. CASE ShutdownReleases(k)
  <2>1. OnlyCloseOf(s) /\ (drain[s] \/ Closing(s))
    BY <1>4 DEF ShutdownReleases, OnlyCloseOf, Closing
  <2> QED
    BY <1>4, <2>1 DEF ShutdownReleases, NoteInv
<1>5. CASE ShutdownLeaves(k)
  <2>1. OnlyCloseOf(s) /\ target[k] = s /\ Closing(s)
    BY <1>5 DEF ShutdownLeaves, OnlyCloseOf, Closing
  <2> QED
    BY <1>5, <2>1 DEF ShutdownLeaves, NoteInv
<1>6. CASE CloseRecords(k)
  <2>1. target[k] = s
    BY <1>6 DEF CloseRecords, OnlyCloseOf
  <2>2. CASE kpc[k] = "warned"
    BY <1>6, <2>1, <2>2 DEF CloseRecords
  <2>3. CASE kpc[k] = "clean"
    <3>1. ~drain[s]
      BY <2>1, <2>3 DEF CloseInv, Ending
    <3>2. PICK j \in Closes : target[j] = s /\ kpc'[j] \in {"begin", "shutdown"}
      BY <1>6, <3>1 DEF CloseRecords, Closing
    <3>3. j # k /\ kpc[j] \in {"begin", "shutdown"}
      BY <1>6, <3>2 DEF CloseRecords
    <3> QED
      BY <2>1, <2>3, <3>2, <3>3 DEF CloseInv, Ending
  <2> QED
    BY <1>6, <2>2, <2>3 DEF CloseRecords
<1> QED
  BY <1>1, <1>2, <1>3, <1>4, <1>5, <1>6 DEF CloseStep

(* A port that lingers is named to whoever finds it held, when no other    *)
(* session was ever closed: for any number of closes of the one session.   *)
THEOREM LoneCloseExplained == Spec => []LoneCloseIsExplained
<1>1. Init => NoteInv
  BY DEF Init, NoteInv, Closing
<1>2. Inv /\ NoteInv /\ [Next]_vars => NoteInv'
  <2> SUFFICES ASSUME Inv, NoteInv, [Next]_vars PROVE NoteInv'
    OBVIOUS
  <2>1. ASSUME NEW k \in Closes, CloseStep(k) PROVE NoteInv'
    BY <2>1, CloseNotes
  <2>2. ASSUME NEW s \in Opens, Drains(s) PROVE NoteInv'
    BY <2>2 DEF Drains, NoteInv, OnlyCloseOf, Closing, Inv, TypeOK
  <2>3. ASSUME UNCHANGED <<warning, drain, kpc, target>> PROVE NoteInv'
    BY <2>3 DEF NoteInv, OnlyCloseOf, Closing
  <2>4. ASSUME NEW o \in Opens, OpenStep(o)
        PROVE  UNCHANGED <<warning, drain, kpc, target>>
    BY <2>4 DEF OpenStep, OpenEnters, OpenRefused, OpenUnresolved, OpenResolves,
                OpenTakesPort, OpenFindsHeld, OpenExplains, OpenBuilds,
                OpenBuildFails, OpenPublishes
  <2>5. ASSUME NEW d \in Devices, StrangerTakes(d) \/ StrangerLeaves(d)
        PROVE  UNCHANGED <<warning, drain, kpc, target>>
    BY <2>5 DEF StrangerTakes, StrangerLeaves
  <2>6. CASE Over \/ UNCHANGED vars
    BY <2>3, <2>6 DEF Over, vars
  <2> QED
    BY <2>1, <2>2, <2>3, <2>4, <2>5, <2>6 DEF Next
<1>3. NoteInv => LoneCloseIsExplained
  BY DEF NoteInv, LoneCloseIsExplained, Lingers, OnlyCloseOf
<1> QED
  BY InvInit, InvStep, <1>1, <1>2, <1>3, PTL DEF Spec
=============================================================================
