---------------------------- MODULE KafkaConsumer ---------------------------
(***************************************************************************)
(* The Kafka consumer of src/src/messaging/Messaging.hpp: one thread that  *)
(* consumes, calls back, commits, or seeks back and counts the failures of *)
(* a message, over partitions whose offsets all start at 0.  The broker    *)
(* keeps the committed offsets; the process may crash, the group may       *)
(* rebalance, and commits, seeks and callbacks fail.  Behind the messages  *)
(* that are told apart every partition may go on for ever: the offset      *)
(* Length stands for all of those.                                         *)
(***************************************************************************)
EXTENDS Naturals

CONSTANTS
    Partitions,
    Length,         \* messages of each partition that are told apart
    Poison,         \* the messages, <<partition, offset>>, that always fail
    MaxAttempts,    \* kMaxPoisonAttempts
    MaxFaults       \* bound on faults of every kind in a behaviour

Offsets == 0 .. Length - 1
Messages == Partitions \X Offsets
Later == Partitions \X {Length}     \* their callbacks return

ASSUME LogAssumption == Length \in Nat \ {0} /\ Poison \subseteq Messages
ASSUME AttemptsAssumption == MaxAttempts \in Nat \ {0} /\ MaxFaults \in Nat

VARIABLES
    at,         \* off, loop, callback, commit, skip, seek, stopped
    msg,        \* the message in hand
    consuming,  \* the flag that stop_consuming clears
    position,   \* the fetch position in each partition
    poison,     \* poison_offset_ and poison_count_
    committed,  \* the group's committed offsets, kept by the broker
    handled, skipped, sought,   \* what became of a message: the callback
                \* returned, it was given up, or seeking back to it failed
    failures,   \* history: failed callbacks of each message, up to MaxAttempts
    faults

vars == <<at, msg, consuming, position, poison, committed, handled, skipped,
          sought, failures, faults>>

NoPoison == [offset |-> Length, count |-> 0]    \* for poison_offset_ = -1
Fault == faults < MaxFaults /\ faults' = faults + 1
Outcomes == <<handled, skipped, sought, failures>>

Init ==
    /\ at = "off" /\ msg \in {<<p, 0>> : p \in Partitions}
    /\ consuming = FALSE
    /\ position = [p \in Partitions |-> 0]
    /\ committed = [p \in Partitions |-> 0]
    /\ poison = NoPoison
    /\ handled = {} /\ skipped = {} /\ sought = {}
    /\ failures = [m \in Messages |-> 0]
    /\ faults = 0

-----------------------------------------------------------------------------
(* initialize, subscribe and start_consuming: fetching starts behind the
   committed offsets. *)
Start ==
    /\ at = "off"
    /\ at' = "loop" /\ consuming' = TRUE
    /\ position' = committed
    /\ poison' = NoPoison
    /\ UNCHANGED <<msg, committed, Outcomes, faults>>

(* consume() returns a message of p; it may also time out and return none. *)
Consume(p) ==
    /\ at = "loop" /\ consuming
    /\ position[p] < Length
    /\ msg' = <<p, position[p]>>
    /\ position' = [position EXCEPT ![p] = @ + 1]
    /\ at' = "callback"
    /\ UNCHANGED <<consuming, poison, committed, Outcomes, faults>>

(* The same for a message behind those. *)
ConsumeLater(p) ==
    /\ at = "loop" /\ consuming
    /\ position[p] = Length
    /\ msg' = <<p, Length>>
    /\ at' = "callback"
    /\ UNCHANGED <<consuming, position, poison, committed, Outcomes, faults>>

CallbackReturns ==
    /\ at = "callback" /\ msg \notin Poison
    /\ handled' = handled \union {msg}
    /\ poison' = NoPoison
    /\ at' = "commit"
    /\ UNCHANGED <<msg, consuming, position, committed, skipped, sought, failures, faults>>

(* A slip: every failure is counted as the first one. *)
CountedAfresh(m) == [offset |-> m[2], count |-> 1]

(* The count that the failure of m leads to; the partition is not compared. *)
Counted(m) ==
    IF m[2] = poison.offset THEN [poison EXCEPT !.count = @ + 1]
    ELSE [offset |-> m[2], count |-> 1]

(* A slip: a message is given up one failure early. *)
GivenUpEarly(n) == n >= MaxAttempts - 1

(* A slip: one failure too many is waited for. *)
GivenUpLate(n) == n > MaxAttempts

GivenUp(n) == n >= MaxAttempts

(* The callback throws, for a poison message always. *)
CallbackThrows ==
    /\ at = "callback" /\ msg \in Messages
    /\ IF msg \in Poison THEN UNCHANGED faults ELSE Fault
    /\ failures' = [failures EXCEPT ![msg] = IF @ < MaxAttempts THEN @ + 1 ELSE @]
    /\ poison' = Counted(msg)
    /\ at' = IF GivenUp(poison'.count) THEN "skip" ELSE "seek"
    /\ UNCHANGED <<msg, consuming, position, committed, handled, skipped, sought>>

CommitMsg == committed' = [committed EXCEPT ![msg[1]] =
                              IF msg \in Later THEN Length ELSE msg[2] + 1]

(* commitSync(msg); its failure is only logged. *)
Commit ==
    /\ at = "commit"
    /\ \/ CommitMsg /\ UNCHANGED faults
       \/ Fault /\ UNCHANGED committed
    /\ at' = "loop"
    /\ UNCHANGED <<msg, consuming, position, poison, Outcomes>>

(* Committing past a message that was given up. *)
Skip ==
    /\ at = "skip"
    /\ \/ CommitMsg /\ UNCHANGED faults
       \/ Fault /\ UNCHANGED committed
    /\ skipped' = skipped \union {msg}
    /\ poison' = NoPoison
    /\ at' = "loop"
    /\ UNCHANGED <<msg, consuming, position, handled, sought, failures>>

(* A slip: the failed message is left uncommitted, and that is all. *)
SeekForgotten ==
    /\ at = "seek"
    /\ at' = "loop"
    /\ UNCHANGED <<msg, consuming, position, poison, committed, Outcomes, faults>>

Seek ==
    /\ at = "seek"
    /\ \/ /\ position' = [position EXCEPT ![msg[1]] = msg[2]]
          /\ UNCHANGED <<sought, faults>>
       \/ /\ Fault
          /\ sought' = sought \union {msg}
          /\ UNCHANGED position
    /\ at' = "loop"
    /\ UNCHANGED <<msg, consuming, poison, committed, handled, skipped, failures>>

(* stop_consuming, from another thread: seen at the top of the loop. *)
Stop ==
    /\ at \notin {"off", "stopped"} /\ consuming
    /\ consuming' = FALSE
    /\ UNCHANGED <<at, msg, position, poison, committed, Outcomes, faults>>

LoopEnds ==
    /\ at = "loop" /\ ~consuming
    /\ at' = "stopped"
    /\ UNCHANGED <<msg, consuming, position, poison, committed, Outcomes, faults>>

(* The group takes p away and gives it back during a poll. *)
Rebalance(p) ==
    /\ at = "loop" /\ position[p] /= committed[p]
    /\ Fault
    /\ position' = [position EXCEPT ![p] = committed[p]]
    /\ UNCHANGED <<at, msg, consuming, poison, committed, Outcomes>>

Crash ==
    /\ at \notin {"off", "stopped"}
    /\ Fault
    /\ at' = "off"
    /\ UNCHANGED <<msg, consuming, position, poison, committed, Outcomes>>

Work ==
    \/ Start
    \/ CallbackReturns
    \/ msg \in Poison /\ CallbackThrows
    \/ Commit
    \/ Skip
    \/ Seek
    \/ LoopEnds

Next ==
    \/ Work
    \/ \E p \in Partitions : Consume(p) \/ ConsumeLater(p) \/ Rebalance(p)
    \/ msg \notin Poison /\ CallbackThrows
    \/ Stop
    \/ Crash

Spec == Init /\ [][Next]_vars

(* The thread runs and is restarted; librdkafka serves every partition that
   has messages.  Whether there are later ones is left open. *)
FairSpec ==
    /\ Spec
    /\ WF_vars(Work)
    /\ \A p \in Partitions : SF_vars(Consume(p))

-----------------------------------------------------------------------------
(* Types; the counter of failures stays within its bound. *)
TypeOK ==
    /\ at \in {"off", "loop", "callback", "commit", "skip", "seek", "stopped"}
    /\ msg \in Messages \union Later /\ consuming \in BOOLEAN
    /\ position \in [Partitions -> 0 .. Length]
    /\ committed \in [Partitions -> 0 .. Length]
    /\ poison \in [offset : 0 .. Length, count : 0 .. MaxAttempts]
    /\ handled \subseteq Messages \union Later
    /\ skipped \subseteq Messages /\ sought \subseteq Messages
    /\ failures \in [Messages -> 0 .. MaxAttempts]
    /\ faults \in 0 .. MaxFaults

Settled(m) == m \in handled \union skipped \union sought

(* At least once: below a committed offset, every message was handled, was
   given up or could not be sought back, through crashes, rebalances and lost
   commits. *)
CommittedIsSettled ==
    \A m \in Messages : m[2] < committed[m[1]] => Settled(m)

(* A message is given up only when MaxAttempts of its own callbacks failed,
   or when at least one did and a message of another partition with the same
   offset failed too: the counter does not tell the two apart, where the log
   line at Messaging.hpp:290-296 counts the failures of one message. *)
TwinFailed(m) == \E p \in Partitions \ {m[1]} : failures[<<p, m[2]>>] > 0
GivenUpAfterAttempts ==
    \A m \in skipped : failures[m] >= (IF TwinFailed(m) THEN 1 ELSE MaxAttempts)

(* A poison message that is retried for ever while other partitions are
   consumed for ever: each of their messages takes the counter from it.  The
   comment at Messaging.hpp:181-184 wants to rule this out. *)
Pinned(m) ==
    /\ []<>(at = "callback" /\ msg = m)
    /\ []<>(at = "callback" /\ msg[1] # m[1])

(* Every message is settled or the consumer was told to stop, poison messages
   notwithstanding; nothing but a pinned partition prevents it. *)
EveryMessageSettles ==
    \/ <>(at = "stopped" \/ \A m \in Messages : Settled(m))
    \/ \E m \in Poison : Pinned(m)
=============================================================================
