---------------------------- MODULE RelayProofs ----------------------------
(* Proofs about Relay, for any set of calls and either polarity.           *)
EXTENDS Relay, TLAPS

(* A bit of a command switches the channel to a Boolean, or leaves it.     *)
LEMMA ExecutedType ==
  ASSUME TypeOK, todo # <<>>
  PROVE  Executed(Head(todo).bit) \in BOOLEAN /\ Head(todo).by \in Calls
<1>1. Head(todo) \in Commands
  BY DEF TypeOK
<1> QED
  BY <1>1 DEF TypeOK, Commands, Executed

(* What running calls have seen stays a set of power states.               *)
LEMMA WitnessedType ==
  ASSUME TypeOK, NEW bit
  PROVE  Witnessed(bit) \in [Calls -> SUBSET {"on", "off"}]
  BY DEF TypeOK, Witnessed, Powered

(* A call that goes on, or raises, stays at one of its places.             *)
LEMMA SucceedType ==
  ASSUME TypeOK, NEW c \in Calls, NEW said \in {"none", "on", "off"},
         Succeed(c, said)
  PROVE  /\ doing' \in [Calls -> {"idle", "off", "sleep", "on", "ask", "end"}]
         /\ at' \in [Calls -> {"open", "write", "read"}]
         /\ failed' \subseteq Calls
         /\ answer' \in [Calls -> {"none", "error", "on", "off"}]
<1>1. NextPart(c) \in {"sleep", "on", "ask", "end"}
  BY DEF NextPart
<1> QED
  BY <1>1 DEF TypeOK, Succeed, Told

(* The same of a call that raises.                                         *)
LEMMA RaiseType ==
  ASSUME TypeOK, NEW c \in Calls, Raise(c)
  PROVE  /\ doing' \in [Calls -> {"idle", "off", "sleep", "on", "ask", "end"}]
         /\ at' \in [Calls -> {"open", "write", "read"}]
         /\ failed' \subseteq Calls
         /\ answer' \in [Calls -> {"none", "error", "on", "off"}]
<1>1. PartAfterError(c) \in {"on", "end"}
  BY DEF PartAfterError
<1> QED
  BY <1>1 DEF TypeOK, Raise, Told

(* Whatever the reply was, an accepted one is told as a power state.       *)
LEMMA AcceptSucceeds ==
  ASSUME NEW c \in Calls, NEW reply, Accept(c, reply)
  PROVE  \E said \in {"none", "on", "off"} : Succeed(c, said)
  BY DEF Accept, TargetOn

(* Every step of one call keeps the types.                                 *)
LEMMA CallTypes ==
  ASSUME TypeOK, NEW c \in Calls, CallStep(c) \/ TtyFails(c)
  PROVE  TypeOK'
<1>1. CASE OpenRelay(c)
  BY <1>1 DEF TypeOK, OpenRelay, Discarded
<1>2. CASE SendFails(c)
  BY <1>2, RaiseType DEF TypeOK, SendFails, line
<1>3. CASE SendCommand(c)
  <2>1. [by |-> c, bit |-> BitOf(doing[c])] \in Commands
    BY DEF Commands, BitOf
  <2>2. todo' \in Seq(Commands)
    BY <1>3, <2>1 DEF TypeOK, SendCommand
  <2> QED
    BY <1>3, <2>2 DEF TypeOK, SendCommand
<1>4. CASE ReadReply(c)
  <2>1. PICK said \in {"none", "on", "off"} : Succeed(c, said)
    BY <1>4, AcceptSucceeds DEF ReadReply
  <2>2. rx' \in Seq(Replies)
    BY <1>4 DEF TypeOK, ReadReply
  <2> QED
    BY <1>4, <2>1, <2>2, SucceedType DEF TypeOK, ReadReply
<1>5. CASE ReadPart(c)
  <2>1. rx' \in Seq(Replies)
    BY <1>5 DEF TypeOK, ReadPart
  <2>2. (\E said \in {"none", "on", "off"} : Succeed(c, said)) \/ Raise(c)
    BY <1>5, AcceptSucceeds DEF ReadPart
  <2>3. CASE Raise(c)
    BY <1>5, <2>1, <2>3, RaiseType DEF TypeOK, ReadPart
  <2>4. ASSUME NEW said \in {"none", "on", "off"}, Succeed(c, said)
        PROVE  TypeOK'
    BY <1>5, <2>1, <2>4, SucceedType DEF TypeOK, ReadPart
  <2> QED
    BY <2>2, <2>3, <2>4
<1>6. CASE ReadFails(c)
  BY <1>6, RaiseType DEF TypeOK, ReadFails, line
<1>7. CASE TtyFails(c)
  BY <1>7, RaiseType DEF TypeOK, TtyFails, line
<1>8. CASE Sleeps(c)
  <2>1. CASE Succeed(c, "none")
    BY <1>8, <2>1, SucceedType DEF TypeOK, Sleeps, line
  <2>2. CASE Raise(c)
    BY <1>8, <2>2, RaiseType DEF TypeOK, Sleeps, line
  <2> QED
    BY <1>8, <2>1, <2>2 DEF Sleeps
<1> QED
  BY <1>1, <1>2, <1>3, <1>4, <1>5, <1>6, <1>7, <1>8 DEF CallStep

(* The state of the relay and of every call on it has its type, for any    *)
(* number of concurrent calls.                                             *)
THEOREM RelayTypes == Spec => []TypeOK
<1>1. Init => TypeOK
  BY DEF Init, TypeOK
<1>2. TypeOK /\ [Next]_vars => TypeOK'
  <2> SUFFICES ASSUME TypeOK, [Next]_vars PROVE TypeOK'
    OBVIOUS
  <2>1. CASE RelayAnswers
    <3>1. rx' \in Seq(Replies) /\ todo' \in Seq(Commands)
      BY <2>1 DEF TypeOK, RelayAnswers, Replies
    <3>2. energised' \in BOOLEAN /\ seen' \in [Calls -> SUBSET {"on", "off"}]
      BY <2>1, ExecutedType, WitnessedType DEF RelayAnswers
    <3> QED
      BY <2>1, <3>1, <3>2 DEF TypeOK, RelayAnswers, work
  <2>2. CASE RelayIsSilent
    <3>1. todo' \in Seq(Commands)
      BY <2>2 DEF TypeOK, RelayIsSilent
    <3>2. /\ energised' \in BOOLEAN /\ lost' \subseteq Calls
          /\ seen' \in [Calls -> SUBSET {"on", "off"}]
      BY <2>2, ExecutedType, WitnessedType DEF TypeOK, RelayIsSilent
    <3> QED
      BY <2>2, <3>1, <3>2 DEF TypeOK, RelayIsSilent, work
  <2>3. ASSUME NEW c \in Calls, Begin(c) PROVE TypeOK'
    <3>1. FirstPart(c) \in {"on", "off", "ask"} /\ Powered(energised) \in {"on", "off"}
      BY DEF FirstPart, Powered
    <3> QED
      BY <2>3, <3>1 DEF TypeOK, Begin, line
  <2>4. ASSUME NEW c \in Calls, CallStep(c) \/ TtyFails(c) PROVE TypeOK'
    BY <2>4, CallTypes
  <2>5. CASE Over \/ UNCHANGED vars
    BY <2>5 DEF TypeOK, Over, vars, line, work
  <2> QED
    BY <2>1, <2>2, <2>3, <2>4, <2>5 DEF Next
<1> QED
  BY <1>1, <1>2, PTL DEF Spec

-----------------------------------------------------------------------------
(* StrandedOnlyByRelay.  Once a cycle has sent its restoring command, a    *)
(* channel that is off, or that the commands on their way leave off, means *)
(* a cycle whose restoring command is still to come: its off command is on *)
(* the wire or behind it, and it will be followed by an on command whatever*)
(* happens, unless a command of a cycle comes to nothing.                  *)

(* The commands that restore the power, and those that take it.            *)
Restores(cmd) == cmd.by \in Cycles /\ cmd.bit = BitOf("on")
SwitchesOff(cmd) == cmd.bit = BitOf("off")

(* The line leaves the target without power, but for SetsOn.               *)
HeadsOff ==
  \/ \E i \in 1..Len(todo) :
       /\ SwitchesOff(todo[i])
       /\ \A j \in 1..Len(todo) : j > i => ~Restores(todo[j])
  \/ /\ Powered(energised) = "off"
     /\ \A j \in 1..Len(todo) : ~Restores(todo[j])

(* A cycle that has sent its restoring command, and one that sent the other*)
(* command only.                                                           *)
Restored(c) == \/ doing[c] = "on" /\ at[c] = "read"
               \/ doing[c] \in {"ask", "end"}
Restoring(c) == \/ doing[c] = "off" /\ at[c] = "read"
                \/ doing[c] = "sleep"
                \/ doing[c] = "on" /\ at[c] \in {"open", "write"}

Excused == (\E c \in SetsOff : doing[c] # "idle") \/ lost \cap Cycles # {}

(* Each call is at a part of its own work.                                 *)
PartInv ==
  /\ \A c \in SetsOn : doing[c] \in {"idle", "on", "end"}
  /\ \A c \in SetsOff : doing[c] \in {"idle", "off", "end"}
  /\ \A c \in Queries : doing[c] \in {"idle", "ask", "end"}

StrandInv ==
  ~Excused /\ HeadsOff /\ (\E c \in Cycles : Restored(c))
    => \E c \in Cycles : Restoring(c)

(* The two bits differ, and a channel set to a bit is powered accordingly. *)
LEMMA Bits ==
  /\ BitOf("on") \in {"0", "1"} /\ BitOf("off") \in {"0", "1"}
  /\ BitOf("on") # BitOf("off") /\ BitOf("ask") = "?"
  /\ Powered(Executed(BitOf("on"))) = "on"
  /\ Powered(Executed(BitOf("off"))) = "off"
  BY PolarityAssumption DEF BitOf, EnergisedFor, Powered, Executed

(* A command that leaves the line can only have changed what it set.       *)
LEMMA HeadLeaves ==
  ASSUME TypeOK, todo # <<>>, todo' = Tail(todo), HeadsOff',
         \/ energised' = Executed(Head(todo).bit)
         \/ energised' = energised /\ Head(todo).by \notin Cycles
  PROVE  HeadsOff
<1> DEFINE n == Len(todo)
<1>1. /\ todo \in Seq(Commands) /\ n \in Nat /\ n >= 1 /\ Head(todo) = todo[1]
      /\ Len(todo') = n - 1 /\ \A i \in 1..(n - 1) : todo'[i] = todo[i + 1]
  BY DEF TypeOK
<1>2. todo[1] \in Commands
  BY <1>1
<1>3. todo[1].bit \in {BitOf("on"), BitOf("off"), "?"}
  BY <1>2, Bits DEF Commands
<1> HIDE DEF n
<1>4. ASSUME NEW i \in 1..Len(todo'), SwitchesOff(todo'[i]),
             \A j \in 1..Len(todo') : j > i => ~Restores(todo'[j])
      PROVE  HeadsOff
  <2>1. i + 1 \in 1..n /\ SwitchesOff(todo[i + 1])
    BY <1>1, <1>4
  <2>2. ASSUME NEW j \in 1..n, j > i + 1 PROVE ~Restores(todo[j])
    <3>1. j - 1 \in 1..Len(todo') /\ j - 1 > i /\ todo'[j - 1] = todo[(j - 1) + 1]
      BY <1>1, <1>4, <2>2
    <3> QED
      BY <1>4, <3>1
  <2> QED
    BY <2>1, <2>2 DEF HeadsOff, n
<1>5. ASSUME Powered(energised') = "off",
             \A j \in 1..Len(todo') : ~Restores(todo'[j])
      PROVE  HeadsOff
  <2>1. ASSUME NEW j \in 1..n, j > 1 PROVE ~Restores(todo[j])
    <3>1. j - 1 \in 1..Len(todo') /\ todo'[j - 1] = todo[(j - 1) + 1]
      BY <1>1, <2>1
    <3> QED
      BY <1>5, <3>1
  <2>2. CASE todo[1].bit = BitOf("off")
    <3>1. 1 \in 1..n /\ SwitchesOff(todo[1])
      BY <1>1, <2>2 DEF SwitchesOff
    <3> QED
      BY <2>1, <3>1 DEF HeadsOff, n
  <2>3. CASE ~(todo[1].bit = BitOf("off"))
    <3>1. energised' = energised /\ ~Restores(todo[1])
      BY <1>1, <1>3, <1>5, <2>3, Bits DEF Restores, Executed
    <3>2. \A j \in 1..n : ~Restores(todo[j])
      <4> SUFFICES ASSUME NEW j \in 1..n PROVE ~Restores(todo[j])
        OBVIOUS
      <4>1. j = 1 \/ j > 1
        BY <1>1
      <4> QED
        BY <2>1, <3>1, <4>1
    <3> QED
      BY <1>5, <3>1, <3>2 DEF HeadsOff, n
  <2> QED
    BY <2>2, <2>3
<1> QED
  BY <1>4, <1>5 DEF HeadsOff, SwitchesOff, Restores

(* A command put on the line that takes no power away undoes nothing.      *)
LEMMA TailJoins ==
  ASSUME TypeOK, NEW cmd \in Commands, todo' = Append(todo, cmd),
         energised' = energised, HeadsOff'
  PROVE  ~Restores(cmd) /\ (SwitchesOff(cmd) \/ HeadsOff)
<1> DEFINE n == Len(todo)
<1>1. /\ todo \in Seq(Commands) /\ n \in Nat /\ Len(todo') = n + 1
      /\ todo'[n + 1] = cmd /\ \A i \in 1..n : todo'[i] = todo[i]
  BY DEF TypeOK
<1>h. n + 1 \in 1..Len(todo') /\ \A i \in 1..n : i \in 1..Len(todo') /\ n + 1 > i
  BY <1>1
<1> HIDE DEF n
<1>2. ASSUME NEW i \in 1..Len(todo'), SwitchesOff(todo'[i]),
             \A j \in 1..Len(todo') : j > i => ~Restores(todo'[j])
      PROVE  ~Restores(cmd) /\ (SwitchesOff(cmd) \/ HeadsOff)
  <2>1. CASE i = n + 1
    BY <1>1, <1>2, <2>1, Bits DEF SwitchesOff, Restores
  <2>2. CASE i # n + 1
    <3>1. i \in 1..n
      BY <1>1, <2>2
    <3>2. SwitchesOff(todo[i]) /\ \A j \in 1..n : j > i => ~Restores(todo[j])
      BY <1>1, <1>2, <1>h, <3>1
    <3> QED
      BY <1>1, <1>2, <1>h, <3>1, <3>2 DEF HeadsOff, n
  <2> QED
    BY <2>1, <2>2
<1>3. ASSUME Powered(energised) = "off",
             \A j \in 1..Len(todo') : ~Restores(todo'[j])
      PROVE  ~Restores(cmd) /\ HeadsOff
  BY <1>1, <1>3, <1>h DEF HeadsOff, n
<1> QED
  BY <1>2, <1>3 DEF HeadsOff, SwitchesOff, Restores

(* Where a part of a call leads, for each kind of call.                    *)
LEMMA PartsOfCalls ==
  ASSUME PartInv, NEW c \in Calls, Running(c)
  PROVE  /\ c \notin Cycles => NextPart(c) = "end" /\ PartAfterError(c) = "end"
         /\ c \in Cycles /\ doing[c] = "off" =>
              NextPart(c) = "sleep" /\ PartAfterError(c) = "on"
         /\ c \in Cycles /\ doing[c] = "sleep" =>
              NextPart(c) = "on" /\ PartAfterError(c) = "on"
         /\ c \in Cycles /\ doing[c] \in {"on", "ask"} =>
              NextPart(c) \in {"ask", "end"} /\ PartAfterError(c) = "end"
  BY DEF NextPart, PartAfterError

(* Beside SendCommand, no step of a call takes a cycle back from having    *)
(* restored the power, and a step away from being about to costs a command.*)
LEMMA MovesKeep ==
  ASSUME TypeOK, PartInv, NEW c \in Calls,
         \/ OpenRelay(c) \/ SendFails(c) \/ ReadReply(c) \/ ReadPart(c)
         \/ ReadFails(c) \/ Sleeps(c) \/ TtyFails(c),
         NEW d \in Cycles, lost' \cap Cycles = {}
  PROVE  /\ todo' = todo /\ energised' = energised
         /\ Restored(d)' => Restored(d)
         /\ Restoring(d) => Restoring(d)'
<1>0. d \in Calls /\ (d # c => doing'[d] = doing[d] /\ at'[d] = at[d])
  BY DEF Calls, TypeOK, OpenRelay, SendFails, ReadReply, ReadPart, ReadFails,
         Sleeps, TtyFails, Raise, Succeed, Accept
<1>1. todo' = todo /\ energised' = energised
  BY DEF OpenRelay, SendFails, ReadReply, ReadPart, ReadFails, Sleeps, TtyFails, line
<1>2. CASE d # c
  BY <1>0, <1>1, <1>2 DEF Restored, Restoring
<1>3. CASE d = c
  <2>1. CASE OpenRelay(c)
    BY <1>0, <1>1, <1>3, <2>1 DEF TypeOK, OpenRelay, Restored, Restoring
  <2>2. CASE SendFails(c)
    BY <1>3, <2>2 DEF TypeOK, SendFails
  <2>3. ASSUME InPart(c), at[c] = "read", Raise(c)
        PROVE  (Restored(d)' => Restored(d)) /\ (Restoring(d) => Restoring(d)')
    BY <1>0, <1>3, <2>3, PartsOfCalls
       DEF TypeOK, InPart, Running, Raise, Restored, Restoring
  <2>4. ASSUME NEW said, Running(c), Succeed(c, said), at[c] = "read" \/ doing[c] = "sleep"
        PROVE  (Restored(d)' => Restored(d)) /\ (Restoring(d) => Restoring(d)')
    BY <1>0, <1>3, <2>4, PartsOfCalls
       DEF TypeOK, Running, Succeed, Restored, Restoring
  <2>5. CASE ReadReply(c) \/ ReadPart(c) \/ ReadFails(c) \/ TtyFails(c)
    <3>1. (\E said : Succeed(c, said)) \/ Raise(c)
      BY <2>5 DEF ReadReply, ReadPart, ReadFails, TtyFails, Accept
    <3>2. InPart(c) /\ Running(c) /\ at[c] = "read"
      BY <2>5 DEF ReadReply, ReadPart, ReadFails, TtyFails, InPart
    <3> QED
      BY <1>1, <2>3, <2>4, <3>1, <3>2
  <2>6. CASE Sleeps(c)
    <3>1. Running(c) /\ doing[c] = "sleep"
      BY <2>6 DEF Sleeps, Running
    <3>2. CASE Raise(c)
      BY <1>0, <1>1, <1>3, <3>1, <3>2, PartsOfCalls
         DEF TypeOK, Raise, Restored, Restoring
    <3>3. CASE Succeed(c, "none")
      BY <1>1, <2>4, <3>1, <3>3
    <3> QED
      BY <2>6, <3>2, <3>3 DEF Sleeps
  <2> QED
    BY <1>1, <2>1, <2>2, <2>5, <2>6
<1> QED
  BY <1>2, <1>3

(* A step of a call is of that call's own parts only.                      *)
LEMMA CallParts ==
  ASSUME TypeOK, PartInv, NEW c \in Calls,
         Begin(c) \/ CallStep(c) \/ TtyFails(c)
  PROVE  PartInv'
<1>1. CASE Begin(c)
  BY <1>1, CallAssumption DEF TypeOK, PartInv, Begin, FirstPart, Calls
<1>2. CASE OpenRelay(c) \/ SendCommand(c)
  BY <1>2 DEF PartInv, OpenRelay, SendCommand
<1>3. ASSUME Running(c), (\E said : Succeed(c, said)) \/ Raise(c)
      PROVE  PartInv'
  BY <1>3, PartsOfCalls, CallAssumption
     DEF TypeOK, PartInv, Running, Succeed, Raise, Calls
<1>4. CASE SendFails(c) \/ ReadReply(c) \/ ReadPart(c) \/ ReadFails(c)
           \/ Sleeps(c) \/ TtyFails(c)
  BY <1>3, <1>4 DEF SendFails, ReadReply, ReadPart, ReadFails, Sleeps, TtyFails,
                    Accept, InPart, Running
<1> QED
  BY <1>1, <1>2, <1>4 DEF CallStep

(* The relay's own steps: a command that is done or dropped.               *)
LEMMA StrandRelay ==
  ASSUME TypeOK, StrandInv, RelayAnswers \/ RelayIsSilent
  PROVE  StrandInv'
<1> SUFFICES ASSUME ~Excused', HeadsOff', NEW c \in Cycles, Restored(c)'
             PROVE  (\E d \in Cycles : Restoring(d))'
  BY DEF StrandInv
<1>1. todo # <<>> /\ todo' = Tail(todo) /\ doing' = doing /\ at' = at
  BY DEF RelayAnswers, RelayIsSilent, work
<1>2. Head(todo) \in Commands
  BY <1>1 DEF TypeOK
<1>3. \/ energised' = Executed(Head(todo).bit)
      \/ energised' = energised /\ Head(todo).by \notin Cycles
  BY DEF RelayAnswers, RelayIsSilent, Excused
<1>4. HeadsOff
  BY <1>1, <1>3, HeadLeaves
<1>5. ~Excused
  BY <1>1 DEF Excused, RelayAnswers, RelayIsSilent
<1> QED
  BY <1>1, <1>4, <1>5 DEF StrandInv, Restored, Restoring

(* A command goes on its way: the off of a cycle makes it one that is about*)
(* to restore the power, and its on leaves no channel off.                 *)
LEMMA StrandSend ==
  ASSUME TypeOK, PartInv, StrandInv, NEW c \in Calls, SendCommand(c)
  PROVE  StrandInv'
<1> SUFFICES ASSUME ~Excused', HeadsOff', NEW r \in Cycles, Restored(r)'
             PROVE  (\E d \in Cycles : Restoring(d))'
  BY DEF StrandInv
<1> DEFINE cmd == [by |-> c, bit |-> BitOf(doing[c])]
<1>1. /\ todo' = Append(todo, cmd) /\ energised' = energised /\ doing' = doing
      /\ at' = [at EXCEPT ![c] = "read"] /\ lost' = lost
  BY DEF SendCommand
<1>2. cmd \in Commands
  BY DEF Commands, BitOf
<1>3. ~Restores(cmd) /\ (SwitchesOff(cmd) \/ HeadsOff)
  <2> HIDE DEF cmd
  <2> QED
    BY <1>1, <1>2, TailJoins
<1>4. doing[c] \in {"off", "on", "ask"} /\ doing[c] # "sleep"
  BY DEF SendCommand, InPart, Running, TypeOK
<1>5. CASE c \in Cycles /\ doing[c] = "off"
  <2>1. Restoring(c)'
    BY <1>1, <1>5 DEF Restoring, TypeOK
  <2> QED
    BY <1>5, <2>1
<1>6. CASE ~(c \in Cycles /\ doing[c] = "off")
  <2>1. ~(c \in Cycles /\ doing[c] = "on")
    BY <1>3 DEF Restores
  <2>2. ~Excused
    BY <1>1 DEF Excused
  <2>3. c \notin SetsOff
    BY <1>1, <1>4, <2>2 DEF Excused
  <2>4. ~SwitchesOff(cmd)
    BY <1>4, <1>6, <2>3, Bits DEF SwitchesOff, PartInv, Calls
  <2>5. Restored(r) /\ \A d \in Cycles : Restoring(d) => Restoring(d)'
    BY <1>1, <1>4, <1>6, <2>1 DEF Restored, Restoring, TypeOK, Calls
  <2> QED
    BY <1>3, <2>2, <2>4, <2>5 DEF StrandInv
<1> QED
  BY <1>5, <1>6

(* Every other step of a call leaves the line, or only discards replies.   *)
LEMMA StrandCall ==
  ASSUME TypeOK, PartInv, StrandInv, NEW c \in Calls,
         Begin(c) \/ CallStep(c) \/ TtyFails(c)
  PROVE  StrandInv'
<1>1. CASE SendCommand(c)
  BY <1>1, StrandSend
<1>2. CASE ~SendCommand(c)
  <2> SUFFICES ASSUME ~Excused', HeadsOff', NEW r \in Cycles, Restored(r)'
               PROVE  (\E d \in Cycles : Restoring(d))'
    BY DEF StrandInv
  <2>1. /\ todo' = todo /\ energised' = energised
        /\ Restored(r)' => Restored(r)
        /\ \A d \in Cycles : Restoring(d) => Restoring(d)'
    <3>1. CASE Begin(c)
      BY <3>1, CallAssumption
         DEF Begin, FirstPart, TypeOK, Restored, Restoring, Calls, line
    <3>2. CASE CallStep(c) \/ TtyFails(c)
      BY <1>2, <3>2, MovesKeep DEF CallStep, Excused
    <3> QED
      BY <3>1, <3>2
  <2>2. ~Excused
    <3>1. lost \subseteq lost'
      BY <1>2 DEF Begin, CallStep, OpenRelay, SendFails, ReadReply, ReadPart,
                  ReadFails, Sleeps, TtyFails
    <3>2. ASSUME NEW d \in SetsOff, doing[d] # "idle" PROVE doing'[d] # "idle"
      <4>1. d # c => doing'[d] = doing[d]
        BY <1>2 DEF Calls, TypeOK, Begin, CallStep, OpenRelay, SendFails, ReadReply,
                    ReadPart, ReadFails, Sleeps, TtyFails, Raise, Succeed, Accept
      <4>2. PartInv' /\ TypeOK
        BY CallParts
      <4>3. CASE d = c
        <5>1. Running(c) /\ (doing' = doing \/ Raise(c) \/ \E said : Succeed(c, said))
          BY <1>2, <3>2, <4>3
             DEF Begin, CallStep, OpenRelay, SendFails, ReadReply, ReadPart, ReadFails,
                 Sleeps, TtyFails, InPart, Running, Accept
        <5>2. c \notin Cycles
          BY <4>3, CallAssumption
        <5> QED
          BY <3>2, <4>3, <5>1, <5>2, PartsOfCalls DEF TypeOK, Raise, Succeed
      <4> QED
        BY <3>2, <4>1, <4>3
    <3> QED
      BY <3>1, <3>2 DEF Excused
  <2>3. HeadsOff
    BY <2>1 DEF HeadsOff, Restores, SwitchesOff
  <2> QED
    BY <2>1, <2>2, <2>3 DEF StrandInv
<1> QED
  BY <1>1, <1>2

(* When every call is over, a target without power was switched off by     *)
(* someone who meant it, or a command of a cycle never took effect: for any*)
(* number of overlapping cycles, however their commands and errors fall.   *)
THEOREM OnlyRelayStrands == Spec => []StrandedOnlyByRelay
<1>1. Init => PartInv /\ StrandInv
  BY CallAssumption DEF Init, PartInv, StrandInv, Restored, Calls
<1>2. TypeOK /\ PartInv /\ StrandInv /\ [Next]_vars => PartInv' /\ StrandInv'
  <2> SUFFICES ASSUME TypeOK, PartInv, StrandInv, [Next]_vars
               PROVE  PartInv' /\ StrandInv'
    OBVIOUS
  <2>1. CASE RelayAnswers \/ RelayIsSilent
    BY <2>1, StrandRelay DEF RelayAnswers, RelayIsSilent, PartInv, work
  <2>2. ASSUME NEW c \in Calls, Begin(c) \/ CallStep(c) \/ TtyFails(c)
        PROVE  PartInv' /\ StrandInv'
    BY <2>2, CallParts, StrandCall
  <2>3. CASE Over \/ UNCHANGED vars
    BY <2>3 DEF Over, vars, line, work, PartInv, StrandInv, Excused, HeadsOff,
                Restores, SwitchesOff, Restored, Restoring
  <2> QED
    BY <2>1, <2>2, <2>3 DEF Next
<1>3. TypeOK /\ PartInv /\ StrandInv => StrandedOnlyByRelay
  <2> SUFFICES ASSUME TypeOK, PartInv, StrandInv, Quiet, Powered(energised) = "off",
                      NEW c \in Cycles, doing[c] = "end",
                      \A d \in SetsOff : doing[d] # "end", lost \cap Cycles = {}
               PROVE  FALSE
    BY DEF StrandedOnlyByRelay
  <2>1. ~Excused
    BY DEF Excused, Quiet, Running, PartInv, Calls
  <2>2. HeadsOff /\ Restored(c)
    BY DEF HeadsOff, Quiet, Restored
  <2>3. \A d \in Cycles : ~Restoring(d)
    BY DEF Restoring, Quiet, Running, Calls
  <2> QED
    BY <2>1, <2>2, <2>3 DEF StrandInv
<1> QED
  BY <1>1, <1>2, <1>3, RelayTypes, PTL DEF Spec

-----------------------------------------------------------------------------
(* LoneAnswerIsTrue.  While a call that nothing crowds runs, the line holds*)
(* its own command and then the reply to that, whatever the tty held when  *)
(* it was opened; the channel is then what the reply says of it.           *)

ReplyTo(bit) == IF bit # "?" THEN "ok" ELSE IF energised THEN "one" ELSE "zero"

(* What a lone call finds on the line.                                     *)
OwnLine(c) ==
  LET bit == BitOf(doing[c]) IN
  /\ at[c] \in {"open", "write"} => todo = <<>>
  /\ at[c] = "write" => rx = <<>>
  /\ at[c] = "read" =>
       \/ Len(todo) = 1 /\ Head(todo).bit = bit /\ rx = <<>>
       \/ /\ todo = <<>>
          /\ rx # <<>> => Head(rx) = ReplyTo(bit) /\ Executed(bit) = energised

LoneInv ==
  /\ \A c \in Calls : ~InPart(c) => at[c] = "open"
  /\ \A c \in Calls : doing[c] # "end" => answer[c] = "none"
  /\ \A c \in Calls : Running(c) => Powered(energised) \in seen[c]
  /\ \A c \in Calls \ crowded : Running(c) =>
       OwnLine(c) /\ \A d \in Calls \ {c} : ~Running(d)
  /\ \A c \in Calls \ crowded : answer[c] \in {"on", "off"} => answer[c] \in seen[c]

(* The state read back from the channel is the one the wiring gives.       *)
LEMMA Wiring ==
  /\ \A bit \in BOOLEAN : TargetOn(bit) = Powered(bit)
  /\ \A state : EnergisedFor(state) \in BOOLEAN
<1>1. \A bit \in BOOLEAN : TargetOn(bit) = Powered(bit)
  <2>1. TargetOn(TRUE) = Powered(TRUE) /\ TargetOn(FALSE) = Powered(FALSE)
    BY PolarityAssumption DEF TargetOn, Powered
  <2> QED
    BY <2>1
<1>2. \A state : EnergisedFor(state) \in BOOLEAN
  BY PolarityAssumption DEF EnergisedFor
<1> QED
  BY <1>1, <1>2

(* What a lone call tells is the power the target has when it is told.     *)
LEMMA ToldIsPowered ==
  ASSUME TypeOK, LoneInv, NEW c \in Calls \ crowded, InPart(c), at[c] = "read",
         rx # <<>>, NEW said, Accept(c, Head(rx)),
         said = IF doing[c] = "ask" THEN TargetOn(Head(rx) = "one")
                ELSE TargetOn(EnergisedFor(doing[c]))
  PROVE  said = Powered(energised) /\ todo = <<>>
<1>1. LET bit == BitOf(doing[c])
      IN  todo = <<>> /\ Head(rx) = ReplyTo(bit) /\ Executed(bit) = energised
  BY DEF LoneInv, OwnLine, InPart
<1>2. energised \in BOOLEAN
  BY DEF TypeOK
<1>3. CASE doing[c] = "ask"
  BY <1>1, <1>2, <1>3, Wiring DEF ReplyTo, BitOf
<1>4. CASE doing[c] # "ask"
  <2> DEFINE b == EnergisedFor(doing[c])
  <2>1. b \in BOOLEAN
    BY Wiring
  <2>2. Executed(IF b THEN "1" ELSE "0") = energised
    BY <1>1, <1>4 DEF BitOf
  <2>3. said = TargetOn(b)
    BY <1>4
  <2> HIDE DEF b
  <2>4. energised = b
    <3>1. CASE b
      <4>1. Executed("1")
        BY DEF Executed
      <4> QED
        BY <1>2, <2>1, <2>2, <3>1, <4>1
    <3>2. CASE ~b
      <4>1. ~Executed("0")
        BY DEF Executed
      <4> QED
        BY <1>2, <2>1, <2>2, <3>2, <4>1
    <3> QED
      BY <3>1, <3>2
  <2> QED
    BY <1>1, <1>2, <2>3, <2>4, Wiring
<1> QED
  BY <1>1, <1>3, <1>4

(* The relay's own steps.                                                  *)
LEMMA LoneRelay ==
  ASSUME TypeOK, LoneInv, RelayAnswers \/ RelayIsSilent
  PROVE  LoneInv'
<1>1. /\ todo # <<>> /\ todo' = Tail(todo) /\ doing' = doing /\ at' = at
      /\ answer' = answer /\ crowded' = crowded
  BY DEF RelayAnswers, RelayIsSilent, work
<1>2. \/ energised' = energised /\ seen' = seen
      \/ energised' = Executed(Head(todo).bit) /\ seen' = Witnessed(energised')
  BY DEF RelayAnswers, RelayIsSilent
<1>3. \A c \in Calls : seen[c] \subseteq seen'[c]
  BY <1>2 DEF Witnessed, TypeOK
<1>4. ASSUME NEW c \in Calls, Running(c) PROVE Powered(energised') \in seen'[c]
  BY <1>2, <1>4 DEF LoneInv, Witnessed, TypeOK
<1>5. ASSUME NEW c \in Calls \ crowded, Running(c) PROVE OwnLine(c)'
  <2> DEFINE bit == BitOf(doing[c])
  <2>1. at[c] = "read" /\ Len(todo) = 1 /\ Head(todo).bit = bit /\ rx = <<>>
    BY <1>1, <1>5 DEF LoneInv, OwnLine, TypeOK
  <2>2. todo' = <<>>
    BY <1>1, <2>1 DEF TypeOK
  <2>3. CASE RelayIsSilent
    BY <1>1, <2>1, <2>2, <2>3 DEF OwnLine, RelayIsSilent
  <2>4. CASE RelayAnswers
    <3>1. energised' = Executed(bit) /\ rx' = Append(rx, ReplyTo(bit))
      BY <2>1, <2>4 DEF RelayAnswers, ReplyTo
    <3>2. Head(rx') = ReplyTo(bit)
      BY <2>1, <3>1
    <3>3. ReplyTo(bit)' = ReplyTo(bit) /\ Executed(bit)' = energised'
      BY <1>1, <3>1 DEF ReplyTo, Executed
    <3> QED
      BY <1>1, <2>1, <2>2, <3>2, <3>3 DEF OwnLine
  <2> QED
    BY <2>3, <2>4
<1> QED
  BY <1>1, <1>3, <1>4, <1>5 DEF LoneInv, InPart, Running

(* A call that begins beside nothing has the line to itself.               *)
LEMMA LoneBegins ==
  ASSUME TypeOK, LoneInv, NEW c \in Calls, Begin(c)
  PROVE  LoneInv'
<1>1. /\ doing[c] = "idle" /\ doing' = [doing EXCEPT ![c] = FirstPart(c)]
      /\ FirstPart(c) \in {"on", "off", "ask"} /\ at' = at /\ answer' = answer
      /\ todo' = todo /\ rx' = rx /\ energised' = energised
      /\ seen' = [seen EXCEPT ![c] = {Powered(energised)}]
      /\ crowded \subseteq crowded'
  BY DEF Begin, FirstPart, line
<1>2. at[c] = "open" /\ answer[c] = "none"
  BY <1>1 DEF LoneInv, InPart, Running
<1>3. ASSUME NEW d \in Calls \ crowded', Running(d)'
      PROVE  OwnLine(d)' /\ \A e \in Calls \ {d} : ~Running(e)'
  <2>1. crowded' = crowded
    <3>1. CASE crowded' = crowded \cup {c} \cup {e \in Calls : Running(e)}
      BY <1>1, <1>3, <3>1 DEF Running, TypeOK
    <3> QED
      BY <3>1 DEF Begin
  <2>2. \/ (\A e \in Calls : ~Running(e)) /\ todo = <<>>
       \/ crowded' = crowded \cup {c} \cup {e \in Calls : Running(e)}
    BY DEF Begin
  <2>3. d = c /\ (\A e \in Calls : ~Running(e)) /\ todo = <<>>
    BY <1>1, <1>3, <2>2 DEF Running, TypeOK
  <2> QED
    BY <1>1, <1>2, <2>3 DEF OwnLine, Running, TypeOK
<1> QED
  BY <1>1, <1>2, <1>3 DEF LoneInv, TypeOK, InPart, Running

(* A step of a call, whatever it does to that call.                        *)
LEMMA LoneCall ==
  ASSUME TypeOK, LoneInv, NEW c \in Calls, CallStep(c) \/ TtyFails(c)
  PROVE  LoneInv'
<1>1. /\ Running(c) /\ energised' = energised /\ seen' = seen /\ crowded' = crowded
      /\ \A d \in Calls \ {c} :
           doing'[d] = doing[d] /\ at'[d] = at[d] /\ answer'[d] = answer[d]
  BY DEF TypeOK, CallStep, OpenRelay, SendFails, SendCommand, ReadReply, ReadPart,
         ReadFails, Sleeps, TtyFails, InPart, Running, Raise, Succeed, Told, Accept
<1>2. \A d \in Calls \ {c} : Running(d) => d \in crowded
  BY <1>1 DEF LoneInv
<1> DEFINE Settled == /\ ~InPart(c)' => at'[c] = "open"
                      /\ doing'[c] # "end" => answer'[c] = "none"
                      /\ c \notin crowded /\ answer'[c] \in {"on", "off"} =>
                           answer'[c] \in seen[c]
                      /\ c \notin crowded /\ Running(c)' => OwnLine(c)'
<1>3. answer[c] = "none" /\ (~InPart(c) => at[c] = "open") /\ answer \in [Calls -> {"none", "error", "on", "off"}]
  BY <1>1 DEF LoneInv, Running, TypeOK
<1>4. c \notin crowded => OwnLine(c) /\ \A d \in Calls \ {c} : ~InPart(d)
  BY <1>1 DEF LoneInv, InPart
<1>5. ASSUME Raise(c), c \notin crowded => todo' = <<>> PROVE Settled
  BY <1>3, <1>5 DEF TypeOK, Raise, Told, OwnLine, InPart, Running
<1>6. ASSUME NEW said, Succeed(c, said), c \notin crowded => todo' = <<>>,
             c \notin crowded /\ NextPart(c) = "end" => said \in seen[c] \cup {"none"}
      PROVE  Settled
  BY <1>3, <1>6 DEF TypeOK, Succeed, Told, OwnLine, InPart, Running
<1>14. \A d \in Calls \ {c} : (InPart(d)' <=> InPart(d)) /\ (Running(d)' <=> Running(d))
  BY <1>1 DEF InPart, Running
<1> SUFFICES Settled
  BY <1>1, <1>2, <1>14 DEF LoneInv
<1> HIDE DEF Settled
<1>7. CASE OpenRelay(c)
  BY <1>1, <1>3, <1>4, <1>7
     DEF Settled, TypeOK, OpenRelay, InPart, Running, OwnLine, Discarded
<1>8. CASE SendCommand(c)
  <2>1. /\ doing' = doing /\ answer' = answer /\ rx' = rx
        /\ at' = [at EXCEPT ![c] = "read"] /\ at[c] = "write" /\ InPart(c)
        /\ todo' = Append(todo, [by |-> c, bit |-> BitOf(doing[c])])
    BY <1>8 DEF SendCommand
  <2>2. InPart(c)' /\ at'[c] = "read"
    BY <2>1 DEF InPart, Running, TypeOK
  <2>3. ASSUME c \notin crowded PROVE OwnLine(c)'
    <3>1. todo = <<>> /\ rx = <<>>
      BY <1>4, <2>1, <2>3 DEF OwnLine
    <3>2. Len(todo') = 1 /\ Head(todo').bit = BitOf(doing[c])
      BY <2>1, <3>1
    <3> QED
      BY <2>1, <2>2, <3>1, <3>2 DEF OwnLine
  <2> QED
    BY <1>3, <2>1, <2>2, <2>3 DEF Settled, Running
<1>9. CASE SendFails(c)
  BY <1>4, <1>5, <1>9 DEF SendFails, OwnLine, line
<1>10. CASE ReadReply(c)
  <2> DEFINE said == IF doing[c] = "ask" THEN TargetOn(Head(rx) = "one")
                     ELSE TargetOn(EnergisedFor(doing[c]))
  <2>1. /\ InPart(c) /\ at[c] = "read" /\ rx # <<>> /\ todo' = todo
        /\ Accept(c, Head(rx)) /\ Succeed(c, said)
    BY <1>10 DEF ReadReply, Accept
  <2>2. c \notin crowded => said = Powered(energised) /\ todo = <<>>
    BY <2>1, ToldIsPowered
  <2>3. Powered(energised) \in seen[c]
    BY <1>1 DEF LoneInv
  <2> HIDE DEF said
  <2> QED
    BY <1>6, <2>1, <2>2, <2>3
<1>11. CASE ReadPart(c)
  <2>1. c \in crowded
    BY <1>4, <1>11 DEF ReadPart
  <2>2. (\E said : Succeed(c, said)) \/ Raise(c)
    BY <1>11 DEF ReadPart, Accept
  <2> QED
    BY <1>5, <1>6, <2>1, <2>2
<1>12. CASE ReadFails(c) \/ TtyFails(c)
  BY <1>5, <1>12 DEF ReadFails, TtyFails, TimesOut, line
<1>13. CASE Sleeps(c)
  <2>1. at[c] = "open" /\ todo' = todo
    BY <1>3, <1>13 DEF Sleeps, InPart, line
  <2>2. c \notin crowded => todo = <<>>
    BY <1>4, <2>1 DEF OwnLine
  <2> QED
    BY <1>5, <1>6, <1>13, <2>1, <2>2 DEF Sleeps
<1> QED
  BY <1>7, <1>8, <1>9, <1>10, <1>11, <1>12, <1>13 DEF CallStep

(* A call that had the relay to itself tells the power the target then has,*)
(* whatever was left in the tty, for either polarity and any other calls.  *)
THEOREM LoneAnswersAreTrue == Spec => []LoneAnswerIsTrue
<1>1. Init => LoneInv
  BY DEF Init, LoneInv, InPart, Running
<1>2. TypeOK /\ LoneInv /\ [Next]_vars => LoneInv'
  <2> SUFFICES ASSUME TypeOK, LoneInv, [Next]_vars PROVE LoneInv'
    OBVIOUS
  <2>1. ASSUME NEW c \in Calls, Begin(c) \/ CallStep(c) \/ TtyFails(c)
        PROVE  LoneInv'
    BY <2>1, LoneBegins, LoneCall
  <2>2. CASE Over \/ UNCHANGED vars
    <3>1. /\ energised' = energised /\ todo' = todo /\ rx' = rx /\ doing' = doing
          /\ at' = at /\ answer' = answer /\ seen' = seen /\ crowded' = crowded
      BY <2>2 DEF Over, vars, line, work
    <3> QED
      BY <3>1 DEF LoneInv, OwnLine, InPart, Running, ReplyTo, Executed, Powered
  <2> QED
    BY <2>1, <2>2, LoneRelay DEF Next
<1>3. LoneInv => LoneAnswerIsTrue
  BY DEF LoneInv, LoneAnswerIsTrue
<1> QED
  BY <1>1, <1>2, <1>3, RelayTypes, PTL DEF Spec
=============================================================================
