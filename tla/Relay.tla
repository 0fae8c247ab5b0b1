------------------------------- MODULE Relay -------------------------------
(***************************************************************************)
(* The relay that switches the target's power (RelayController of relay.py)*)
(* under the power tools, which call it from threads of their own with no  *)
(* lock between them, and under on_rate of a cycling scan.  Every command  *)
(* opens the relay's tty, discards its input, writes, reads one reply and  *)
(* closes; the tty is not opened exclusively, so replies queue in one input*)
(* that every open descriptor drains and every open discards.  Assumed of  *)
(* the relay: it answers within the read timeout or not at all.            *)
(***************************************************************************)
EXTENDS Integers, Sequences

CONSTANTS
  SetsOn, SetsOff,   \* calls of set_power("on"), of set_power("off")
  Cycles,            \* calls of power_cycle()
  Queries,           \* calls of status()
  Polarity           \* the contact the target is wired to, "nc" or "no"

Calls == SetsOn \cup SetsOff \cup Cycles \cup Queries

ASSUME PolarityAssumption == Polarity \in {"nc", "no"}
ASSUME CallAssumption ==
  /\ SetsOn \cap (SetsOff \cup Cycles \cup Queries) = {}
  /\ SetsOff \cap (Cycles \cup Queries) = {}
  /\ Cycles \cap Queries = {}

VARIABLES
  energised,   \* the channel
  todo,        \* commands on their way to the relay
  rx,          \* replies in the tty's input queue
  doing,       \* the part of its work each call is at
  at,          \* where it is in _at()
  failed,      \* the calls with an exception on its way out
  answer,      \* the target_power each call told, or "error"
  lost,        \* history: the calls one of whose commands came to nothing
  seen,        \* history: the power states the target had during a call
  crowded      \* history: the calls another call ran beside, or whose start
               \* found a command of another still on its way

line == <<todo, rx>>
work == <<doing, at, failed, answer>>
vars == <<energised, line, work, lost, seen, crowded>>

Running(c) == doing[c] \notin {"idle", "end"}

(* The wiring: a target on the closed contact runs while the relay is idle.*)
Powered(bit) == IF (Polarity = "nc") # bit THEN "on" ELSE "off"

Init ==
  /\ energised \in BOOLEAN
  /\ todo = <<>> /\ rx = <<>>
  /\ doing = [c \in Calls |-> "idle"]
  /\ at = [c \in Calls |-> "open"]
  /\ failed = {}
  /\ answer = [c \in Calls |-> "none"]
  /\ lost = {} /\ crowded = {}
  /\ seen = [c \in Calls |-> {}]

-----------------------------------------------------------------------------
(* The relay and its line.                                                 *)

Executed(bit) == IF bit = "?" THEN energised ELSE bit = "1"

(* Every running call sees the power the target has now.                   *)
Witnessed(bit) ==
  [c \in Calls |-> IF Running(c) THEN seen[c] \cup {Powered(bit)} ELSE seen[c]]

RelayAnswers ==
  /\ todo # <<>>
  /\ LET bit == Head(todo).bit
         reply == IF bit # "?" THEN "ok" ELSE IF energised THEN "one" ELSE "zero"
     IN  /\ energised' = Executed(bit)
         /\ rx' = Append(rx, reply)
         /\ seen' = Witnessed(Executed(bit))
  /\ todo' = Tail(todo)
  /\ UNCHANGED <<work, lost, crowded>>

(* The reply is lost on the way, or the command was.                       *)
RelayIsSilent ==
  /\ todo # <<>>
  /\ todo' = Tail(todo)
  /\ \/ /\ energised' = Executed(Head(todo).bit)
        /\ seen' = Witnessed(Executed(Head(todo).bit))
        /\ UNCHANGED lost
     \/ /\ lost' = lost \cup {Head(todo).by}
        /\ UNCHANGED <<energised, seen>>
  /\ UNCHANGED <<rx, work, crowded>>

-----------------------------------------------------------------------------
(* _energised_for_state and _status_from_energised.                        *)
EnergisedFor(state) == IF Polarity = "nc" THEN state # "on" ELSE state = "on"

TargetOn(bit) == IF (IF Polarity = "nc" THEN ~bit ELSE bit) THEN "on" ELSE "off"

(* Mutant of BitOf: the state goes on the wire, not the channel's bit.     *)
StateAsBit(part) == IF part = "ask" THEN "?" ELSE part

(* The AT command of each part of a call.                                  *)
BitOf(part) ==
  IF part = "ask" THEN "?" ELSE IF EnergisedFor(part) THEN "1" ELSE "0"

FirstPart(c) ==
  IF c \in Queries THEN "ask" ELSE IF c \in SetsOn THEN "on" ELSE "off"

Begin(c) ==
  /\ doing[c] = "idle"
  /\ doing' = [doing EXCEPT ![c] = FirstPart(c)]
  /\ seen' = [seen EXCEPT ![c] = {Powered(energised)}]
  /\ crowded' = IF todo # <<>> \/ \E d \in Calls : Running(d)
                THEN crowded \cup {c} \cup {d \in Calls : Running(d)} ELSE crowded
  /\ UNCHANGED <<energised, line, at, failed, answer, lost>>

(* The part of a cycle after one that went well: off, sleep, on, status.   *)
NextPart(c) ==
  CASE c \in Cycles /\ doing[c] = "off"   -> "sleep"
    [] c \in Cycles /\ doing[c] = "sleep" -> "on"
    [] c \in Cycles /\ doing[c] = "on" /\ c \notin failed -> "ask"
    [] OTHER -> "end"

(* Mutant of PartAfterError: there is no finally.                          *)
NoFinally(c) == "end"

(* The finally of power_cycle: the target is switched on again.            *)
PartAfterError(c) ==
  IF c \in Cycles /\ doing[c] \in {"off", "sleep"} THEN "on" ELSE "end"

(* What a call that is over tells its caller.                              *)
Told(c, part, said) ==
  IF part = "end" THEN [answer EXCEPT ![c] = said] ELSE answer

Succeed(c, said) ==
  /\ doing' = [doing EXCEPT ![c] = NextPart(c)]
  /\ at' = [at EXCEPT ![c] = "open"]
  /\ answer' = Told(c, NextPart(c), IF c \in failed THEN "error" ELSE said)
  /\ UNCHANGED failed

Raise(c) ==
  /\ doing' = [doing EXCEPT ![c] = PartAfterError(c)]
  /\ at' = [at EXCEPT ![c] = "open"]
  /\ failed' = failed \cup {c}
  /\ answer' = Told(c, PartAfterError(c), "error")

-----------------------------------------------------------------------------
(* _run and _at.                                                           *)

InPart(c) == Running(c) /\ doing[c] # "sleep"

(* Mutant of Discarded: what an earlier command left is still there.       *)
NotDiscarded == rx

Discarded == <<>>

(* serial.Serial(device), which discards the input, and reset_input_buffer.*)
OpenRelay(c) ==
  /\ InPart(c) /\ at[c] = "open"
  /\ at' = [at EXCEPT ![c] = "write"]
  /\ rx' = Discarded
  /\ UNCHANGED <<energised, todo, doing, failed, answer, lost, seen, crowded>>

(* The relay is not there, or its tty fails on the way: nothing was sent.  *)
SendFails(c) ==
  /\ InPart(c) /\ at[c] \in {"open", "write"}
  /\ Raise(c)
  /\ lost' = lost \cup {c}
  /\ UNCHANGED <<energised, line, seen, crowded>>

SendCommand(c) ==
  /\ InPart(c) /\ at[c] = "write"
  /\ at' = [at EXCEPT ![c] = "read"]
  /\ todo' = Append(todo, [by |-> c, bit |-> BitOf(doing[c])])
  /\ UNCHANGED <<energised, rx, doing, failed, answer, lost, seen, crowded>>

(* Anything that starts with OK is success.  Of a status() reply the digit *)
(* after the last "=" counts, and a reply without one has no "1" there.    *)
Accept(c, reply) ==
  Succeed(c, IF doing[c] = "ask" THEN TargetOn(reply = "one")
             ELSE TargetOn(EnergisedFor(doing[c])))

ReadReply(c) ==
  /\ InPart(c) /\ at[c] = "read" /\ rx # <<>>
  /\ Accept(c, Head(rx))
  /\ rx' = Tail(rx)
  /\ UNCHANGED <<energised, todo, lost, seen, crowded>>

(* Two calls read at once and each gets some of the bytes: the start of a  *)
(* reply, or the rest of one.                                              *)
ReadPart(c) ==
  /\ InPart(c) /\ at[c] = "read" /\ rx # <<>>
  /\ \E d \in Calls \ {c} : InPart(d) /\ at[d] = "read"
  /\ Accept(c, "ok") \/ Raise(c)
  /\ rx' = Tail(rx)
  /\ UNCHANGED <<energised, todo, lost, seen, crowded>>

(* Mutant of TimesOut: the relay is waited for without a timeout.          *)
NeverTimesOut(c) == FALSE

TimesOut(c) == rx = <<>> /\ todo = <<>>

(* No reply within the timeout.                                            *)
ReadFails(c) ==
  /\ InPart(c) /\ at[c] = "read"
  /\ TimesOut(c)
  /\ Raise(c)
  /\ UNCHANGED <<energised, line, lost, seen, crowded>>

(* The tty fails although the reply is there.                              *)
TtyFails(c) ==
  /\ InPart(c) /\ at[c] = "read" /\ todo = <<>>
  /\ Raise(c)
  /\ UNCHANGED <<energised, line, lost, seen, crowded>>

(* time.sleep(off_ms), which may be interrupted.                           *)
Sleeps(c) ==
  /\ doing[c] = "sleep"
  /\ Succeed(c, "none") \/ Raise(c)
  /\ UNCHANGED <<energised, line, lost, seen, crowded>>

CallStep(c) ==
  \/ OpenRelay(c) \/ SendFails(c) \/ SendCommand(c)
  \/ ReadReply(c) \/ ReadPart(c) \/ ReadFails(c) \/ Sleeps(c)

(* Every call has returned.                                                *)
Over ==
  /\ \A c \in Calls : doing[c] = "end"
  /\ todo = <<>>
  /\ UNCHANGED vars

Next ==
  \/ RelayAnswers \/ RelayIsSilent
  \/ \E c \in Calls : Begin(c) \/ CallStep(c) \/ TtyFails(c)
  \/ Over

Spec == Init /\ [][Next]_vars

(* A command reaches the relay or is lost; threads are scheduled.          *)
Fairness ==
  /\ WF_vars(RelayAnswers \/ RelayIsSilent)
  /\ \A c \in Calls : WF_vars(CallStep(c))

FairSpec == Spec /\ Fairness

-----------------------------------------------------------------------------
Replies == {"ok", "one", "zero"}
Commands == [by: Calls, bit: {"0", "1", "?"}]

TypeOK ==
  /\ energised \in BOOLEAN
  /\ todo \in Seq(Commands) /\ rx \in Seq(Replies)
  /\ doing \in [Calls -> {"idle", "off", "sleep", "on", "ask", "end"}]
  /\ at \in [Calls -> {"open", "write", "read"}]
  /\ failed \subseteq Calls /\ lost \subseteq Calls /\ crowded \subseteq Calls
  /\ answer \in [Calls -> {"none", "error", "on", "off"}]
  /\ seen \in [Calls -> SUBSET {"on", "off"}]

Quiet == todo = <<>> /\ \A c \in Calls : ~Running(c)

(* When every call is over, a target without power was switched off by     *)
(* someone who meant it, or a command of a cycle never took effect: however*)
(* cycles overlap, and wherever in one an exception strikes (the finally   *)
(* of power_cycle).                                                        *)
StrandedOnlyByRelay ==
  Quiet /\ (\E c \in Cycles : doing[c] = "end") /\ Powered(energised) = "off"
    => (\E c \in SetsOff : doing[c] = "end") \/ lost \cap Cycles # {}

(* A call that had the relay to itself tells the power the target then has,*)
(* whatever earlier calls left in the tty (reset_input_buffer, polarity).  *)
LoneAnswerIsTrue ==
  Quiet => \A c \in Calls \ crowded :
    answer[c] \in {"on", "off"} => answer[c] \in seen[c]

(* Every call on the relay comes back, answered or not (the read timeout). *)
CallsComeBack == \A c \in Calls : Running(c) ~> doing[c] = "end"

(* power_status tells a state the target was in while it was asked.        *)
StatusIsTrue ==
  \A c \in Queries : answer[c] \in {"on", "off"} => answer[c] \in seen[c]

(* A power cycle that had the target on at any time leaves it on, even if   *)
(* the cycle fails partway.                                                *)
CycleLeavesPower ==
  Quiet => \A c \in Cycles :
    doing[c] = "end" /\ "on" \in seen[c] => Powered(energised) = "on"
=============================================================================
