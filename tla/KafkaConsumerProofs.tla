------------------------ MODULE KafkaConsumerProofs -------------------------
(***************************************************************************)
(* Proofs about KafkaConsumer, for any number of partitions, messages,     *)
(* poison messages, attempts and faults.                                   *)
(***************************************************************************)
EXTENDS KafkaConsumer, TLAPS

(* Between a consume() and the commit or the seek that ends its handling.   *)
Handling == {"callback", "commit", "skip", "seek"}

(* The counter is below its limit but where a message is being given up and *)
(* where the process died doing that.                                       *)
CountOK == at \notin {"skip", "off"} => poison.count < MaxAttempts

(* Only a message told apart from the rest is given up or sought back to.   *)
FailedIsMessage == at \in {"skip", "seek"} => msg \in Messages

TypeInv == TypeOK /\ CountOK /\ FailedIsMessage

(* While the consumer runs, what lies behind the fetch position is settled  *)
(* or in hand.                                                              *)
FetchedIsSettled ==
    at # "off" => \A m \in Messages :
        m[2] < position[m[1]] => Settled(m) \/ (m = msg /\ at \in {"callback", "skip", "seek"})

(* The message in hand is the last one fetched; one to be committed was     *)
(* handled.                                                                 *)
InHandIsLast ==
    /\ at \in Handling => position[msg[1]] = IF msg \in Later THEN Length ELSE msg[2] + 1
    /\ at = "commit" => msg \in handled

IInv == TypeInv /\ FetchedIsSettled /\ InHandIsLast /\ CommittedIsSettled

(* The assumptions in the form the proofs use. *)
LEMMA Bounds ==
    /\ Length \in Nat /\ Length > 0 /\ MaxAttempts \in Nat /\ MaxAttempts > 0
    /\ MaxFaults \in Nat
    /\ Messages = Partitions \X (0 .. Length - 1) /\ Poison \subseteq Messages
    /\ Later = Partitions \X {Length} /\ \A m \in Messages : m \notin Later
  BY LogAssumption, AttemptsAssumption DEF Messages, Later, Offsets

LEMMA TypeInit == Init => TypeInv
<1> SUFFICES ASSUME Init PROVE TypeInv
  OBVIOUS
<1>1. msg \in Messages
  BY Bounds DEF Init
<1>2. poison \in [offset : 0 .. Length, count : 0 .. MaxAttempts]
  BY Bounds DEF Init, NoPoison
<1>3. /\ position \in [Partitions -> 0 .. Length] /\ committed \in [Partitions -> 0 .. Length]
      /\ failures \in [Messages -> 0 .. MaxAttempts] /\ faults \in 0 .. MaxFaults
  BY Bounds DEF Init
<1> QED
  BY <1>1, <1>2, <1>3 DEF Init, TypeInv, TypeOK, CountOK, FailedIsMessage

(* What is said of the message in hand and of the counter, one by one. *)
LEMMA InHand ==
    ASSUME TypeOK
    PROVE  /\ msg[1] \in Partitions /\ msg[2] \in 0 .. Length /\ msg = <<msg[1], msg[2]>>
           /\ msg \in Messages => msg[2] \in 0 .. Length - 1
           /\ poison.count \in 0 .. MaxAttempts
           /\ position[msg[1]] \in 0 .. Length
  BY Bounds DEF TypeOK

LEMMA CountedOK ==
    ASSUME TypeOK, msg \in Messages, poison.count < MaxAttempts
    PROVE  /\ Counted(msg) \in [offset : 0 .. Length, count : 0 .. MaxAttempts]
           /\ NoPoison \in [offset : 0 .. Length, count : 0 .. MaxAttempts] /\ NoPoison.count = 0
<1>1. NoPoison \in [offset : 0 .. Length, count : 0 .. MaxAttempts] /\ NoPoison.count = 0
  BY Bounds DEF NoPoison
<1>2. poison \in [offset : 0 .. Length, count : 0 .. MaxAttempts]
  BY DEF TypeOK
<1>3. [poison EXCEPT !.count = @ + 1] \in [offset : 0 .. Length, count : 0 .. MaxAttempts]
  BY <1>2, Bounds
<1>4. [offset |-> msg[2], count |-> 1] \in [offset : 0 .. Length, count : 0 .. MaxAttempts]
  BY InHand, Bounds
<1> QED
  BY <1>1, <1>3, <1>4 DEF Counted

(* The step of every action but the callback's keeps the counter or resets it. *)
LEMMA TypeStep == TypeInv /\ [Next]_vars => TypeInv'
<1> SUFFICES ASSUME TypeInv, [Next]_vars PROVE TypeInv'
  OBVIOUS
<1>0. /\ NoPoison \in [offset : 0 .. Length, count : 0 .. MaxAttempts] /\ NoPoison.count = 0
      /\ Length \in Nat /\ Length > 0 /\ MaxAttempts \in Nat /\ MaxAttempts > 0
      /\ MaxFaults \in Nat /\ Messages = Partitions \X (0 .. Length - 1)
      /\ Later = Partitions \X {Length}
  BY Bounds DEF NoPoison
<1> USE <1>0 DEF TypeInv, TypeOK, CountOK, FailedIsMessage
<1>1. CASE Start
  BY <1>1 DEF Start, Outcomes
<1>2. CASE CallbackReturns
  BY <1>2 DEF CallbackReturns
<1>3. CASE CallbackThrows
  <2>1. Counted(msg) \in [offset : 0 .. Length, count : 0 .. MaxAttempts]
    BY <1>3, CountedOK DEF CallbackThrows
  <2>2. poison' \in [offset : 0 .. Length, count : 0 .. MaxAttempts]
    BY <1>3, <2>1 DEF CallbackThrows
  <2>3. failures' \in [Messages -> 0 .. MaxAttempts]
    BY <1>3 DEF CallbackThrows
  <2>4. at' = IF poison'.count >= MaxAttempts THEN "skip" ELSE "seek"
    BY <1>3 DEF CallbackThrows, GivenUp
  <2>5. poison'.count \in Nat
    BY <2>2
  <2>6. faults' \in 0 .. MaxFaults
    BY <1>3 DEF CallbackThrows, Fault
  <2> QED
    BY <1>3, <2>2, <2>3, <2>4, <2>5, <2>6 DEF CallbackThrows
<1>4. CASE Commit
  BY <1>4, InHand DEF Commit, CommitMsg, Fault, Outcomes
<1>5. CASE Skip
  BY <1>5, InHand DEF Skip, CommitMsg, Fault
<1>6. CASE Seek
  BY <1>6, InHand DEF Seek, Fault
<1>7. CASE LoopEnds
  BY <1>7 DEF LoopEnds, Outcomes
<1>8. ASSUME NEW p \in Partitions, Consume(p) PROVE TypeInv'
  <2>1. position[p] \in 0 .. Length - 1
    BY <1>8 DEF Consume
  <2>2. msg' \in Messages /\ position' \in [Partitions -> 0 .. Length]
    BY <1>8, <2>1 DEF Consume
  <2> QED
    BY <1>8, <2>2 DEF Consume, Outcomes
<1>9. ASSUME NEW p \in Partitions, Rebalance(p) PROVE TypeInv'
  BY <1>9 DEF Rebalance, Fault, Outcomes
<1>10. CASE Stop
  BY <1>10 DEF Stop, Outcomes
<1>11. CASE Crash
  BY <1>11 DEF Crash, Fault, Outcomes
<1>12. ASSUME NEW p \in Partitions, ConsumeLater(p) PROVE TypeInv'
  BY <1>12 DEF ConsumeLater, Outcomes
<1>13. CASE UNCHANGED vars
  BY <1>13 DEF vars, Outcomes
<1> QED
  BY <1>1, <1>2, <1>3, <1>4, <1>5, <1>6, <1>7, <1>8, <1>9, <1>10, <1>11, <1>12, <1>13
  DEF Next, Work

(* Every variable keeps its type, and the count of a poison message never    *)
(* passes kMaxPoisonAttempts, through crashes, rebalances and lost commits.  *)
THEOREM TypeCorrectness == Spec => []TypeOK
<1>1. TypeInv => TypeOK
  BY DEF TypeInv
<1> QED
  BY <1>1, TypeInit, TypeStep, PTL DEF Spec

-----------------------------------------------------------------------------
LEMMA SafetyInit == Init => FetchedIsSettled /\ InHandIsLast /\ CommittedIsSettled
<1> SUFFICES ASSUME Init PROVE FetchedIsSettled /\ InHandIsLast /\ CommittedIsSettled
  OBVIOUS
<1>1. ASSUME NEW m \in Messages PROVE ~(m[2] < committed[m[1]])
  BY Bounds DEF Init
<1> QED
  BY <1>1 DEF Init, FetchedIsSettled, InHandIsLast, CommittedIsSettled, Handling

(* A commit of the message in hand, which is settled by then, keeps the     *)
(* promise: what lies behind it was settled before.                         *)
LEMMA CommitOK ==
    ASSUME IInv, at \in Handling, CommitMsg, msg' = msg, Settled(msg)',
           \A m \in Messages : Settled(m) => Settled(m)'
    PROVE  CommittedIsSettled'
<1> SUFFICES ASSUME NEW m \in Messages, m[2] < committed'[m[1]] PROVE Settled(m)'
  BY DEF CommittedIsSettled
<1>1. m = <<m[1], m[2]>> /\ m[1] \in Partitions /\ m[2] \in Nat
  BY Bounds
<1>2. msg = <<msg[1], msg[2]>> /\ msg[1] \in Partitions
  BY InHand DEF IInv, TypeInv
<1>3. CASE m[1] # msg[1]
  BY <1>1, <1>2, <1>3 DEF CommitMsg, IInv, TypeInv, TypeOK, CommittedIsSettled
<1>4. CASE m[1] = msg[1]
  <2>1. committed'[msg[1]] = IF msg \in Later THEN Length ELSE msg[2] + 1
    BY <1>2 DEF CommitMsg, IInv, TypeInv, TypeOK
  <2>2. m[2] < position[msg[1]]
    BY <1>4, <2>1 DEF IInv, InHandIsLast
  <2>3. Settled(m) \/ m = msg
    BY <1>4, <2>2 DEF IInv, FetchedIsSettled, Handling
  <2>4. CASE m = msg
    BY <2>4 DEF Settled
  <2> QED
    BY <2>3, <2>4
<1> QED
  BY <1>3, <1>4

(* When a partition is fetched from its committed offset again, what lies   *)
(* behind the fetch position is settled.                                    *)
LEMMA SafetyStep ==
    ASSUME IInv, TypeInv', [Next]_vars
    PROVE  FetchedIsSettled' /\ InHandIsLast' /\ CommittedIsSettled'
<1> DEFINE Goal == FetchedIsSettled' /\ InHandIsLast' /\ CommittedIsSettled'
<1>0. TypeOK /\ TypeOK'
  BY DEF IInv, TypeInv
<1>a. \A m \in Messages : m = <<m[1], m[2]>> /\ m[1] \in Partitions /\ m[2] \in Nat
  BY Bounds
<1>b. /\ msg[1] \in Partitions /\ msg[2] \in Nat
      /\ at \in {"skip", "seek"} => msg \in Messages
      /\ \A m \in Messages : m \notin Later
  BY <1>0, InHand, Bounds DEF IInv, TypeInv, FailedIsMessage
<1> USE DEF IInv, FetchedIsSettled, InHandIsLast, CommittedIsSettled, Settled, Handling
<1>1. CASE Start
  BY <1>1 DEF Start, Outcomes
<1>2. CASE CallbackReturns
  BY <1>2 DEF CallbackReturns
<1>3. CASE CallbackThrows
  BY <1>3 DEF CallbackThrows
<1>4. CASE Commit
  <2>1. CommittedIsSettled'
    <3>1. CASE CommitMsg
      BY <1>4, <3>1, CommitOK DEF Commit, Outcomes
    <3>2. CASE UNCHANGED committed
      BY <1>4, <3>2 DEF Commit, Outcomes
    <3> QED
      BY <1>4, <3>1, <3>2 DEF Commit
  <2>2. FetchedIsSettled' /\ InHandIsLast'
    BY <1>4 DEF Commit, Outcomes
  <2> QED
    BY <2>1, <2>2
<1>5. CASE Skip
  <2>1. CommittedIsSettled'
    <3>1. CASE CommitMsg
      BY <1>5, <3>1, CommitOK DEF Skip
    <3>2. CASE UNCHANGED committed
      BY <1>5, <3>2 DEF Skip
    <3> QED
      BY <1>5, <3>1, <3>2 DEF Skip
  <2>2. FetchedIsSettled' /\ InHandIsLast'
    BY <1>5 DEF Skip
  <2> QED
    BY <2>1, <2>2
<1>6. CASE Seek
  <2>1. CommittedIsSettled' /\ InHandIsLast'
    BY <1>6 DEF Seek
  <2>2. FetchedIsSettled'
    <3>1. CASE position' = [position EXCEPT ![msg[1]] = msg[2]] /\ UNCHANGED sought
      <4> SUFFICES ASSUME NEW m \in Messages, m[2] < position'[m[1]] PROVE Settled(m)
        BY <1>6, <3>1 DEF Seek
      <4>1. m[2] < position[m[1]] /\ m # msg
        BY <1>0, <1>6, <1>a, <1>b, <3>1 DEF Seek, TypeOK
      <4> QED
        BY <1>6, <4>1 DEF Seek
    <3>2. CASE sought' = sought \union {msg} /\ UNCHANGED position
      BY <1>6, <3>2 DEF Seek
    <3> QED
      BY <1>6, <3>1, <3>2 DEF Seek
  <2> QED
    BY <2>1, <2>2
<1>7. CASE LoopEnds
  BY <1>7 DEF LoopEnds, Outcomes
<1>8. ASSUME NEW p \in Partitions, Consume(p) PROVE Goal
  <2>1. CommittedIsSettled'
    BY <1>8 DEF Consume, Outcomes
  <2>2. position[p] \in Nat /\ position'[p] = position[p] + 1 /\ msg' = <<p, position[p]>>
    BY <1>0, <1>8 DEF Consume, TypeOK
  <2>3. InHandIsLast'
    <3>1. msg' \notin Later
      BY <1>8, <2>2, Bounds DEF Consume, Later
    <3> QED
      BY <1>0, <1>8, <2>2, <3>1 DEF Consume, TypeOK
  <2>4. FetchedIsSettled'
    <3> SUFFICES ASSUME NEW m \in Messages, m[2] < position'[m[1]], m # msg' PROVE Settled(m)
      BY <1>8 DEF Consume, Outcomes
    <3>1. m[2] < position[m[1]]
      <4>1. CASE m[1] = p
        <5>1. m[2] < position[p] + 1 /\ m[2] \in Nat
          BY <1>a, <2>2, <4>1
        <5>2. m[2] # position[p]
          BY <1>a, <2>2, <4>1
        <5> QED
          BY <2>2, <4>1, <5>1, <5>2
      <4>2. CASE m[1] # p
        BY <1>0, <1>8, <1>a, <4>2 DEF Consume, TypeOK
      <4> QED
        BY <4>1, <4>2
    <3> QED
      BY <1>8, <3>1 DEF Consume
  <2> QED
    BY <2>1, <2>3, <2>4
<1>9. ASSUME NEW p \in Partitions, Rebalance(p) PROVE Goal
  BY <1>0, <1>9, <1>a DEF Rebalance, Outcomes, TypeOK
<1>10. CASE Stop
  BY <1>10 DEF Stop, Outcomes
<1>11. CASE Crash
  BY <1>11 DEF Crash, Outcomes
<1>12. ASSUME NEW p \in Partitions, ConsumeLater(p) PROVE Goal
  <2>1. msg' = <<p, Length>> /\ msg' \in Later
    BY <1>12, Bounds DEF ConsumeLater
  <2>2. InHandIsLast'
    BY <1>12, <2>1 DEF ConsumeLater
  <2> QED
    BY <1>12, <2>2 DEF ConsumeLater, Outcomes
<1>13. CASE UNCHANGED vars
  BY <1>13 DEF vars, Outcomes
<1> QED
  BY <1>1, <1>2, <1>3, <1>4, <1>5, <1>6, <1>7, <1>8, <1>9, <1>10, <1>11, <1>12, <1>13
  DEF Next, Work

(* At least once: no offset is committed past a message that was neither    *)
(* handled nor given up nor lost to a failed seek, whatever crashes, is     *)
(* rebalanced or fails, for any number of partitions and poison messages.   *)
THEOREM NothingCommittedUnsettled == Spec => []CommittedIsSettled
<1>1. Init => IInv
  BY TypeInit, SafetyInit DEF IInv
<1>2. IInv /\ [Next]_vars => IInv'
  <2> SUFFICES ASSUME IInv, [Next]_vars PROVE IInv'
    OBVIOUS
  <2>1. TypeInv'
    BY TypeStep DEF IInv
  <2> QED
    BY <2>1, SafetyStep DEF IInv
<1>3. IInv => CommittedIsSettled
  BY DEF IInv
<1> QED
  BY <1>1, <1>2, <1>3, PTL DEF Spec

-----------------------------------------------------------------------------
(* The counter counts failures that happened at its offset: those of the    *)
(* one message there, or of several, each of which is then another's twin.  *)
CountedFailures ==
    poison.offset # Length => \A m \in Messages :
        m[2] = poison.offset => TwinFailed(m) \/ poison.count <= failures[m]

(* Where a message is about to be given up, the counter stands at its       *)
(* offset and at the limit, and its own callback has just failed.           *)
GivingUp ==
    at = "skip" => /\ msg \in Messages /\ poison.offset = msg[2]
                   /\ poison.count >= MaxAttempts /\ failures[msg] >= 1

(* Failures are never taken back, so what was given up stays justified.     *)
LEMMA FailuresGrow ==
    ASSUME TypeInv, TypeInv', CallbackThrows
    PROVE  /\ \A m \in Messages : failures[m] \in Nat /\ failures'[m] \in Nat /\ failures'[m] >= failures[m]
           /\ failures'[msg] >= 1
           /\ \A m \in Messages : TwinFailed(m) => TwinFailed(m)'
           /\ \A m \in Messages : m # msg /\ m[2] = msg[2] => TwinFailed(m)'
<1>1. /\ msg \in Messages
      /\ failures' = [failures EXCEPT ![msg] = IF @ < MaxAttempts THEN @ + 1 ELSE @]
      /\ failures \in [Messages -> 0 .. MaxAttempts] /\ MaxAttempts \in Nat /\ MaxAttempts > 0
  BY Bounds DEF CallbackThrows, TypeInv, TypeOK
<1>2. \A m \in Messages : failures[m] \in Nat /\ failures'[m] \in Nat /\ failures'[m] >= failures[m]
  BY <1>1
<1>3. failures'[msg] >= 1
  BY <1>1
<1>4. ASSUME NEW m \in Messages PROVE /\ m = <<m[1], m[2]>> /\ m[1] \in Partitions
                                      /\ \A p \in Partitions : <<p, m[2]>> \in Messages
  BY Bounds
<1>5. ASSUME NEW m \in Messages, TwinFailed(m) PROVE TwinFailed(m)'
  BY <1>2, <1>4, <1>5 DEF TwinFailed
<1>6. ASSUME NEW m \in Messages, m # msg, m[2] = msg[2] PROVE TwinFailed(m)'
  <2>1. msg = <<msg[1], m[2]>> /\ msg[1] \in Partitions \ {m[1]}
    BY <1>1, <1>4, <1>6
  <2>2. failures'[<<msg[1], m[2]>>] > 0
    BY <1>1, <1>2, <1>3, <2>1
  <2> QED
    BY <2>1, <2>2 DEF TwinFailed
<1> QED
  BY <1>2, <1>3, <1>5, <1>6

LEMMA GivenUpStep ==
    ASSUME TypeInv, TypeInv', CountedFailures, GivingUp, GivenUpAfterAttempts, [Next]_vars
    PROVE  CountedFailures' /\ GivingUp' /\ GivenUpAfterAttempts'
<1> DEFINE Goal == CountedFailures' /\ GivingUp' /\ GivenUpAfterAttempts'
<1>0. /\ skipped \subseteq Messages
      /\ failures \in [Messages -> 0 .. MaxAttempts] /\ poison.count \in 0 .. MaxAttempts
      /\ poison'.count \in 0 .. MaxAttempts
      /\ poison \in [offset : 0 .. Length, count : 0 .. MaxAttempts]
      /\ MaxAttempts \in Nat /\ MaxAttempts > 0 /\ NoPoison.offset = Length
      /\ \A m \in Messages : m[2] # Length
  BY Bounds DEF TypeInv, TypeOK, NoPoison
<1>1. ASSUME UNCHANGED <<poison, failures, skipped>>, at' # "skip" \/ UNCHANGED <<at, msg>> PROVE Goal
  BY <1>1 DEF CountedFailures, GivingUp, GivenUpAfterAttempts, TwinFailed
<1>2. ASSUME poison' = NoPoison, UNCHANGED failures, at' # "skip",
             skipped' = skipped \/ (at = "skip" /\ skipped' = skipped \union {msg})
      PROVE  Goal
  <2>1. CountedFailures' /\ GivingUp'
    BY <1>0, <1>2 DEF CountedFailures, GivingUp
  <2>2. at = "skip" => failures[msg] >= (IF TwinFailed(msg) THEN 1 ELSE MaxAttempts)
    BY <1>0 DEF CountedFailures, GivingUp
  <2>3. GivenUpAfterAttempts'
    BY <1>2, <2>2 DEF GivenUpAfterAttempts, TwinFailed
  <2> QED
    BY <2>1, <2>3
<1>3. CASE CallbackThrows
  <2>1. /\ msg \in Messages /\ poison' = Counted(msg) /\ UNCHANGED <<msg, skipped>>
        /\ failures' = [failures EXCEPT ![msg] = IF @ < MaxAttempts THEN @ + 1 ELSE @]
        /\ at' = "skip" => poison'.count >= MaxAttempts
    BY <1>3 DEF CallbackThrows, GivenUp
  <2>2. /\ \A m \in Messages : failures[m] \in Nat /\ failures'[m] \in Nat /\ failures'[m] >= failures[m]
        /\ failures'[msg] >= 1
        /\ \A m \in Messages : TwinFailed(m) => TwinFailed(m)'
        /\ \A m \in Messages : m # msg /\ m[2] = msg[2] => TwinFailed(m)'
    BY <1>3, FailuresGrow
  <2>3. poison'.offset = msg[2] /\ (TwinFailed(msg)' \/ poison'.count <= failures'[msg])
    <3>1. CASE msg[2] = poison.offset
      <4>1. poison'.offset = msg[2] /\ poison'.count = poison.count + 1
        BY <1>0, <2>1, <3>1 DEF Counted
      <4>2. TwinFailed(msg) \/ poison.count <= failures[msg]
        BY <1>0, <2>1, <3>1 DEF CountedFailures
      <4>3. CASE poison.count <= failures[msg]
        BY <1>0, <2>1, <4>1, <4>3
      <4> QED
        BY <2>1, <2>2, <4>1, <4>2, <4>3
    <3>2. CASE msg[2] # poison.offset
      <4>1. poison'.offset = msg[2] /\ poison'.count = 1
        BY <2>1, <3>2 DEF Counted
      <4> QED
        BY <2>1, <2>2, <4>1
    <3> QED
      BY <3>1, <3>2
  <2>4. CountedFailures'
    <3> SUFFICES ASSUME NEW m \in Messages, m[2] = poison'.offset
                 PROVE  TwinFailed(m)' \/ poison'.count <= failures'[m]
      BY DEF CountedFailures
    <3>1. CASE m = msg
      BY <2>1, <2>3, <3>1 DEF TwinFailed
    <3>2. CASE m # msg
      BY <2>2, <2>3, <3>2
    <3> QED
      BY <3>1, <3>2
  <2>5. GivenUpAfterAttempts'
    <3> SUFFICES ASSUME NEW m \in skipped
                 PROVE  failures'[m] >= (IF TwinFailed(m)' THEN 1 ELSE MaxAttempts)
      BY <2>1 DEF GivenUpAfterAttempts
    <3>1. m \in Messages /\ failures[m] >= (IF TwinFailed(m) THEN 1 ELSE MaxAttempts)
      BY <1>0 DEF GivenUpAfterAttempts
    <3> QED
      BY <1>0, <2>2, <3>1
  <2>6. GivingUp'
    BY <2>1, <2>2, <2>3 DEF GivingUp
  <2> QED
    BY <2>4, <2>5, <2>6
<1>4. CASE CallbackReturns \/ Skip \/ Start
  BY <1>2, <1>4 DEF CallbackReturns, Skip, Start, Outcomes
<1>5. CASE Commit \/ Seek \/ LoopEnds \/ Stop \/ Crash \/ UNCHANGED vars
  BY <1>1, <1>5 DEF Commit, Seek, LoopEnds, Stop, Crash, Outcomes, vars
<1>6. ASSUME NEW p \in Partitions, Consume(p) \/ ConsumeLater(p) \/ Rebalance(p) PROVE Goal
  BY <1>1, <1>6 DEF Consume, ConsumeLater, Rebalance, Outcomes
<1> QED
  BY <1>3, <1>4, <1>5, <1>6 DEF Next, Work

(* No message is given up before kMaxPoisonAttempts of its own callbacks     *)
(* failed, through crashes, rebalances and failed seeks: the counter starts  *)
(* again for every other offset, success and start                           *)
(* (src/src/messaging/Messaging.hpp 246-317) and never counts ahead.  Only   *)
(* where the message of another partition with the same offset failed too,   *)
(* whose failures the counter takes for this one's, one failure may do.      *)
THEOREM PoisonIsRetried == Spec => []GivenUpAfterAttempts
<1>1. Init => CountedFailures /\ GivingUp /\ GivenUpAfterAttempts
  BY DEF Init, CountedFailures, GivingUp, GivenUpAfterAttempts, NoPoison
<1>2. TypeInv /\ TypeInv' /\ CountedFailures /\ GivingUp /\ GivenUpAfterAttempts /\ [Next]_vars
      => CountedFailures' /\ GivingUp' /\ GivenUpAfterAttempts'
  BY GivenUpStep
<1> QED
  BY <1>1, <1>2, TypeInit, TypeStep, PTL DEF Spec
=============================================================================
