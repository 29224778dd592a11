-------------------------- MODULE SocketDMAProof --------------------------
(***************************************************************************)
(* Theorems about SocketDMA, for any threads, any bound on the wire and    *)
(* any number of faults.                                                   *)
(*                                                                         *)
(* FlushHonest is about the moment a flush returns, and depends on the     *)
(* whole way there: that an answer can only be the caller's own, that a    *)
(* command is on the wire only while its thread is among the writers, and  *)
(* that a dropped command is either charged to its thread or known by a    *)
(* reset that no later command can overtake.  IInv says so.                *)
(***************************************************************************)
EXTENDS SocketDMA, SequenceTheorems, TLAPS

\* `_lock`: whoever is in a call holds it.
Held == (holder = NoThread <=> pc = "free") /\ (holder = NoThread => op = "connect")

\* The socket: what a closed one cannot have, and which steps have one.
Connected ==
  /\ ~open => wire = <<>> /\ ~fin /\ ~rst /\ replies = 0
  /\ open => ~closed
  /\ pc \in {"probe", "send", "await", "ok"} => open
  /\ pc = "dial" => ~open
  /\ op = "connect" /\ pc # "free" => ~closed /\ pc \in {"dial", "ok", "raise"}

\* _unconfirmed_writers covers every command on the wire.
Owed ==
  /\ Stuck \subseteq writers
  /\ unconfirmed <=> writers # {}

\* An IDENTIFY is the last thing on the wire, and its reply comes with the wire
\* empty; nothing runs or answers behind a reset.
Answers ==
  /\ replies \in {0, 1}
  /\ replies > 0 => wire = <<>> /\ ~rst
  /\ rst => wire = <<>>
  /\ pc \notin {"probe", "await"} => Identify \notin Range(wire) /\ replies = 0
  /\ \A i \in 1 .. Len(wire) : wire[i] = Identify => i = Len(wire)
  /\ Identify \in Range(wire) => replies = 0

\* The idle close: a FIN with commands behind it is recent.
Fins == fin => peer = "closed" /\ (quiet = "fresh" \/ Stuck = {})

\* A loss not counted is one a reset tells of, on the connection that is open; a
\* send tried again starts from nothing.
Losses ==
  /\ uncounted /\ ~closed => open /\ rst /\ writers # {}
  /\ retried => ~SendsIdentify /\ pc \in {"dial", "send", "ok", "raise"}
  /\ retried /\ pc = "send" => wire = <<>> /\ writers = {}

\* Whose commands were dropped: a report is pending for it, or it is a writer of
\* the connection that the reset will be found on.
Charged == closed \/ lost \subseteq pending \cup (IF uncounted THEN writers ELSE {})

\* Behind the answer to a flush nothing is owed.
Flushed ==
  /\ pc = "await" => SendsIdentify
  /\ pc = "ok" /\ op = "flush" => wire = <<>> /\ writers = {}

\* The inductive invariant.
IInv ==
  TypeOK /\ Held /\ Connected /\ Owed /\ Answers /\ Fins /\ Losses /\ Charged /\ Flushed

\* Nothing is on an empty wire.
LEMMA EmptyWire == Range(<<>>) = {}
BY DEF Range

\* A send adds its command to the wire and nothing else (sendall).
LEMMA LongerWire ==
  ASSUME NEW S, NEW s \in Seq(S), NEW e \in S
  PROVE  Range(Append(s, e)) = Range(s) \cup {e} /\ Append(s, e) \in Seq(S)
<1>1. Append(s, e) \in Seq(S) /\ DOMAIN Append(s, e) = 1 .. Len(s) + 1
  OBVIOUS
<1>2. Range(Append(s, e)) \subseteq Range(s) \cup {e}
  BY <1>1 DEF Range
<1>3. \A x \in Range(s) : x \in Range(Append(s, e))
  <2> SUFFICES ASSUME NEW i \in 1 .. Len(s) PROVE s[i] \in Range(Append(s, e))
    BY DEF Range
  <2>1. Append(s, e)[i] = s[i] /\ i \in 1 .. Len(s) + 1
    OBVIOUS
  <2> QED
    BY <1>1, <2>1 DEF Range
<1>4. e \in Range(Append(s, e))
  <2>1. Append(s, e)[Len(s) + 1] = e /\ Len(s) + 1 \in 1 .. Len(s) + 1
    OBVIOUS
  <2> QED
    BY <1>1, <2>1 DEF Range
<1> QED
  BY <1>1, <1>2, <1>3, <1>4

\* A command that has run leaves only what was there before.
LEMMA ShorterWire ==
  ASSUME NEW S, NEW s \in Seq(S), s # <<>>
  PROVE  Range(Tail(s)) \subseteq Range(s) /\ Tail(s) \in Seq(S)
BY DEF Range

\* A new client has nothing open and nothing owed.
THEOREM IInvInit == Init => IInv
BY ThreadAssumption, BoundAssumption, EmptyWire DEF Init, IInv, TypeOK, Held, Connected, Owed,
   Answers, Fins, Losses, Charged, Flushed, Stuck, Ops, SendsIdentify

\* Every call, and whatever the server, the network and time do, keeps it.
THEOREM IInvStep == IInv /\ [Next]_vars => IInv'
<1> SUFFICES ASSUME IInv, [Next]_vars PROVE IInv'
  OBVIOUS
<1> USE ThreadAssumption, BoundAssumption, EmptyWire DEF IInv, TypeOK, Held, Connected, Owed,
     Answers, Fins, Losses, Charged, Flushed, Stuck, Ops, SendsIdentify
<1>1. CASE Leave
  BY <1>1 DEF Leave, client, books, call, net, truth
<1>2. CASE LiveNoSocket
  BY <1>2 DEF LiveNoSocket, client, books, call, net, truth
<1>3. CASE LiveQuiet
  BY <1>3 DEF LiveQuiet, PeerGone, client, books, call, net, truth
<1>4. CASE LiveIdle
  <2>1. Range(wire') = Range(wire) \cup {Identify} /\ wire' \in Seq(Threads \cup {Identify})
    BY <1>4, LongerWire DEF LiveIdle
  <2>2. /\ Len(wire') = Len(wire) + 1
        /\ \A i \in 1 .. Len(wire) : wire'[i] = wire[i] /\ wire[i] # Identify
    BY <1>4 DEF LiveIdle, PeerGone, client, books, call, net, truth, Range
  <2>3. Answers'
    BY <1>4, <2>1, <2>2 DEF LiveIdle, PeerGone, client, books, call, net, truth
  <2>4. TypeOK' /\ Held' /\ Connected' /\ Owed' /\ Fins'
    BY <1>4, <2>1 DEF LiveIdle, PeerGone, client, books, call, net, truth
  <2>5. Charged'
    BY <1>4 DEF LiveIdle, PeerGone, client, books, call, net, truth
  <2>6. Losses' /\ Flushed'
    BY <1>4 DEF LiveIdle, PeerGone, client, books, call, net, truth
  <2> QED
    BY <2>1, <2>2, <2>3, <2>4, <2>5, <2>6
<1>5. CASE LiveGone
  <2>1. Unconfirmed \subseteq Threads
    BY DEF Unconfirmed
  <2>2. Unconfirmed = {} => ~unconfirmed
    BY DEF Unconfirmed
  <2>3. writers' = {} /\ wire' = <<>> /\ pending' \in {pending, pending \cup Unconfirmed}
    BY <1>5 DEF LiveGone, AbandonLocked, CloseLocked, Count, Benign, PeerGone, client, books,
       call, net, truth
  <2>4. losses' \in {losses, losses + 1} /\ charges' \in [Threads -> Nat]
    BY <1>5, <2>1 DEF LiveGone, AbandonLocked, CloseLocked, Count, Benign, PeerGone, client,
       books, call, net, truth
  <2>5. TypeOK'
    BY <1>5, <2>1, <2>3, <2>4 DEF LiveGone, AbandonLocked, CloseLocked, Count, Benign, PeerGone,
       client, books, call, net, truth
  <2>6. Held' /\ Connected' /\ Owed' /\ Answers' /\ Fins'
    BY <1>5, <2>3 DEF LiveGone, AbandonLocked, CloseLocked, Count, Benign, PeerGone, client,
       books, call, net, truth
  <2>7. Charged'
    BY <1>5 DEF LiveGone, AbandonLocked, CloseLocked, Count, Benign, PeerGone, client, books,
       call, net, truth, Unconfirmed
  <2>8. Losses' /\ Flushed'
    BY <1>5 DEF LiveGone, AbandonLocked, CloseLocked, Count, Benign, PeerGone, client, books,
       call, net, truth, Unconfirmed
  <2> QED
    BY <2>1, <2>2, <2>3, <2>4, <2>5, <2>6, <2>7, <2>8
<1>6. CASE DialRefused
  BY <1>6 DEF DialRefused, Barred, client, books, call, net, truth
<1>7. CASE DialOK
  BY <1>7 DEF DialOK, NoteAnsweredLocked, Barred, client, books, call, net, truth
<1>8. CASE SendCommand
  <2>1. Range(wire') = Range(wire) \cup {holder} /\ wire' \in Seq(Threads \cup {Identify})
    BY <1>8, LongerWire DEF SendCommand
  <2>2. /\ Len(wire') = Len(wire) + 1
        /\ \A i \in 1 .. Len(wire) : wire'[i] = wire[i] /\ wire[i] # Identify
    BY <1>8 DEF SendCommand, client, books, call, net, truth, Range
  <2>3. Answers'
    BY <1>8, <2>1, <2>2 DEF SendCommand, client, books, call, net, truth
  <2>4. TypeOK' /\ Held' /\ Connected' /\ Owed' /\ Fins'
    BY <1>8, <2>1 DEF SendCommand, client, books, call, net, truth
  <2>5. Charged'
    BY <1>8 DEF SendCommand, client, books, call, net, truth
  <2>6. Losses' /\ Flushed'
    BY <1>8 DEF SendCommand, client, books, call, net, truth
  <2> QED
    BY <2>1, <2>2, <2>3, <2>4, <2>5, <2>6
<1>9. CASE SendIdentify
  <2>1. Range(wire') = Range(wire) \cup {Identify} /\ wire' \in Seq(Threads \cup {Identify})
    BY <1>9, LongerWire DEF SendIdentify
  <2>2. /\ Len(wire') = Len(wire) + 1
        /\ \A i \in 1 .. Len(wire) : wire'[i] = wire[i] /\ wire[i] # Identify
    BY <1>9 DEF SendIdentify, client, books, call, net, truth, Range
  <2>3. Answers'
    BY <1>9, <2>1, <2>2 DEF SendIdentify, client, books, call, net, truth
  <2>4. TypeOK' /\ Held' /\ Connected' /\ Owed' /\ Fins'
    BY <1>9, <2>1 DEF SendIdentify, client, books, call, net, truth
  <2>5. Charged'
    BY <1>9 DEF SendIdentify, client, books, call, net, truth
  <2>6. Losses' /\ Flushed'
    BY <1>9 DEF SendIdentify, client, books, call, net, truth
  <2> QED
    BY <2>1, <2>2, <2>3, <2>4, <2>5, <2>6
<1>10. CASE SendFails
  <2>1. Unconfirmed \subseteq Threads
    BY DEF Unconfirmed
  <2>2. Unconfirmed = {} => ~unconfirmed
    BY DEF Unconfirmed
  <2>3. writers' = {} /\ wire' = <<>> /\ pending' \in {pending, pending \cup Unconfirmed}
    BY <1>10 DEF SendFails, AbandonLocked, CloseLocked, Count, MayFail, Faulty, Harmless, client,
       books, call, net, truth
  <2>4. losses' \in {losses, losses + 1} /\ charges' \in [Threads -> Nat]
    BY <1>10, <2>1 DEF SendFails, AbandonLocked, CloseLocked, Count, MayFail, Faulty, Harmless,
       client, books, call, net, truth
  <2>5. TypeOK'
    BY <1>10, <2>1, <2>3, <2>4 DEF SendFails, AbandonLocked, CloseLocked, Count, MayFail, Faulty,
       Harmless, client, books, call, net, truth
  <2>6. Held' /\ Connected' /\ Owed' /\ Answers' /\ Fins'
    BY <1>10, <2>3 DEF SendFails, AbandonLocked, CloseLocked, Count, MayFail, Faulty, Harmless,
       client, books, call, net, truth
  <2>7. Charged'
    BY <1>10 DEF SendFails, AbandonLocked, CloseLocked, Count, MayFail, Faulty, Harmless, client,
       books, call, net, truth, Unconfirmed
  <2>8. Losses' /\ Flushed'
    BY <1>10 DEF SendFails, AbandonLocked, CloseLocked, Count, MayFail, Faulty, Harmless, client,
       books, call, net, truth, Unconfirmed
  <2> QED
    BY <2>1, <2>2, <2>3, <2>4, <2>5, <2>6, <2>7, <2>8
<1>11. CASE SendFailsAgain
  BY <1>11 DEF SendFailsAgain, CloseLocked, MayFail, Faulty, Harmless, client, books, call, net,
     truth
<1>12. CASE InterruptSend
  BY <1>12 DEF InterruptSend, Count, Unconfirmed, Faulty, client, books, call, net, truth
<1>13. CASE Answered
  BY <1>13 DEF Answered, NoteAnsweredLocked, client, books, call, net, truth
<1>14. CASE ProbeUnanswered
  <2>1. Unconfirmed \subseteq Threads
    BY DEF Unconfirmed
  <2>2. Unconfirmed = {} => ~unconfirmed
    BY DEF Unconfirmed
  <2>3. writers' = {} /\ wire' = <<>> /\ pending' \in {pending, pending \cup Unconfirmed}
    BY <1>14 DEF ProbeUnanswered, AbandonLocked, CloseLocked, Count, MayFail, Faulty, Harmless,
       client, books, call, net, truth
  <2>4. losses' \in {losses, losses + 1} /\ charges' \in [Threads -> Nat]
    BY <1>14, <2>1 DEF ProbeUnanswered, AbandonLocked, CloseLocked, Count, MayFail, Faulty,
       Harmless, client, books, call, net, truth
  <2>5. TypeOK'
    BY <1>14, <2>1, <2>3, <2>4 DEF ProbeUnanswered, AbandonLocked, CloseLocked, Count, MayFail,
       Faulty, Harmless, client, books, call, net, truth
  <2>6. Held' /\ Connected' /\ Owed' /\ Answers' /\ Fins'
    BY <1>14, <2>3 DEF ProbeUnanswered, AbandonLocked, CloseLocked, Count, MayFail, Faulty,
       Harmless, client, books, call, net, truth
  <2>7. Charged'
    BY <1>14 DEF ProbeUnanswered, AbandonLocked, CloseLocked, Count, MayFail, Faulty, Harmless,
       client, books, call, net, truth, Unconfirmed
  <2>8. Losses' /\ Flushed'
    BY <1>14 DEF ProbeUnanswered, AbandonLocked, CloseLocked, Count, MayFail, Faulty, Harmless,
       client, books, call, net, truth, Unconfirmed
  <2> QED
    BY <2>1, <2>2, <2>3, <2>4, <2>5, <2>6, <2>7, <2>8
<1>15. CASE Unanswered
  <2>1. Unconfirmed \subseteq Threads
    BY DEF Unconfirmed
  <2>2. Unconfirmed = {} => ~unconfirmed
    BY DEF Unconfirmed
  <2>3. writers' = {} /\ wire' = <<>> /\ pending' \in {pending, pending \cup Unconfirmed}
    BY <1>15 DEF Unanswered, AbandonLocked, CloseLocked, Count, MayFail, Faulty, Harmless, client,
       books, call, net, truth
  <2>4. losses' \in {losses, losses + 1} /\ charges' \in [Threads -> Nat]
    BY <1>15, <2>1 DEF Unanswered, AbandonLocked, CloseLocked, Count, MayFail, Faulty, Harmless,
       client, books, call, net, truth
  <2>5. TypeOK'
    BY <1>15, <2>1, <2>3, <2>4 DEF Unanswered, AbandonLocked, CloseLocked, Count, MayFail, Faulty,
       Harmless, client, books, call, net, truth
  <2>6. Held' /\ Connected' /\ Owed' /\ Answers' /\ Fins'
    BY <1>15, <2>3 DEF Unanswered, AbandonLocked, CloseLocked, Count, MayFail, Faulty, Harmless,
       client, books, call, net, truth
  <2>7. Charged'
    BY <1>15 DEF Unanswered, AbandonLocked, CloseLocked, Count, MayFail, Faulty, Harmless, client,
       books, call, net, truth, Unconfirmed
  <2>8. Losses' /\ Flushed'
    BY <1>15 DEF Unanswered, AbandonLocked, CloseLocked, Count, MayFail, Faulty, Harmless, client,
       books, call, net, truth, Unconfirmed
  <2> QED
    BY <2>1, <2>2, <2>3, <2>4, <2>5, <2>6, <2>7, <2>8
<1>16. CASE Close
  BY <1>16 DEF Close, CloseLocked, client, books, call, net, truth
<1>17. CASE CheckForLoss
  BY <1>17 DEF CheckForLoss, AbandonLocked, CloseLocked, Count, Unconfirmed, Benign, PeerGone,
     client, books, call, net, truth
<1>18. CASE ServerRuns
  <2>1. Range(wire') \subseteq Range(wire) /\ wire' \in Seq(Threads \cup {Identify})
    BY <1>18, ShorterWire DEF ServerRuns
  <2>2. Head(wire) = Identify => wire' = <<>>
    BY <1>18 DEF ServerRuns, client, books, call, net, truth
  <2>3. \A i \in 1 .. Len(wire') : wire'[i] = Identify => i = Len(wire')
    BY <1>18 DEF ServerRuns, client, books, call, net, truth
  <2>4. Identify \in Range(wire') => replies' = 0
    BY <1>18, <2>1, <2>2, EmptyWire DEF ServerRuns, client, books, call, net, truth, Range
  <2>5. Answers'
    BY <1>18, <2>1, <2>2, <2>3, <2>4 DEF ServerRuns, client, books, call, net, truth, Range
  <2>6. TypeOK' /\ Held' /\ Connected' /\ Owed' /\ Fins' /\ Losses' /\ Charged' /\ Flushed'
    BY <1>18, <2>1 DEF ServerRuns, client, books, call, net, truth
  <2> QED
    BY <2>1, <2>2, <2>3, <2>4, <2>5, <2>6
<1>19. CASE ServerCloses
  BY <1>19 DEF ServerCloses, Faulty, client, books, call, net, truth
<1>20. CASE PowerLoss
  BY <1>20 DEF PowerLoss, Faulty, client, books, call, net, truth
<1>21. CASE ResetArrives
  <2>1. Stuck \subseteq writers /\ wire' = <<>>
    BY <1>21 DEF ResetArrives
  <2>2. Answers' /\ Held'
    BY <1>21 DEF ResetArrives, client, books, call, net, truth
  <2>3. TypeOK' /\ Connected' /\ Owed' /\ Fins'
    BY <1>21, <2>1 DEF ResetArrives, client, books, call, net, truth
  <2>4. Charged'
    BY <1>21, <2>1 DEF ResetArrives, client, books, call, net, truth
  <2>5. Losses' /\ Flushed'
    BY <1>21, <2>1 DEF ResetArrives, client, books, call, net, truth
  <2> QED
    BY <2>1, <2>2, <2>3, <2>4, <2>5
<1>22. CASE TimePasses
  BY <1>22 DEF TimePasses, client, books, call, net, truth
<1>23. CASE BackoffElapses
  BY <1>23 DEF BackoffElapses, client, books, call, net, truth
<1>24. CASE \E t \in Threads : Connect(t)
  BY <1>24 DEF Connect, client, books, call, net, truth
<1>25. CASE \E t \in Threads, o \in Ops : Enter(t, o)
  BY <1>25 DEF Enter, client, books, call, net, truth
<1>26. CASE \E rejected, interrupted \in BOOLEAN : DialFails(rejected, interrupted)
  BY <1>26 DEF DialFails, Barred, client, books, call, net, truth
<1>27. CASE UNCHANGED vars
  BY <1>27 DEF vars, client, books, call, net, truth
<1> QED BY <1>1, <1>2, <1>3, <1>4, <1>5, <1>6, <1>7, <1>8, <1>9, <1>10, <1>11, <1>12, <1>13,
   <1>14, <1>15, <1>16, <1>17, <1>18, <1>19, <1>20, <1>21, <1>22, <1>23, <1>24, <1>25, <1>26,
   <1>27 DEF Next, Step

\* The invariant holds of every behaviour of the client.
THEOREM Invariance == Spec => []IInv
<1> QED
  BY IInvInit, IInvStep, PTL DEF Spec

\* Every variable that is not a flag keeps its type.
THEOREM TypeCorrect == Spec => []TypeOK
<1>1. IInv => TypeOK
  BY DEF IInv
<1> QED
  BY <1>1, Invariance, PTL

\* A dropped command that possible_loss_count has missed was sent on the
\* connection that is still open and still unconfirmed.
THEOREM LossIsCountedHolds == Spec => []LossIsCounted
<1>1. IInv => LossIsCounted
  BY DEF IInv, Losses, Owed, LossIsCounted
<1> QED
  BY <1>1, Invariance, PTL

\* No call can read the answer to another's round trip.
THEOREM StreamInStepHolds == Spec => []StreamInStep
<1>1. IInv => StreamInStep
  BY DEF IInv, Answers, StreamInStep
<1> QED
  BY <1>1, Invariance, PTL

\* A flush that returns normally means that all its thread sent has run.
THEOREM FlushHonestHolds == Spec => FlushHonest
<1> DEFINE Honest == \A t \in Threads :
       result[t] = "none" /\ result'[t] = "ok" /\ op = "flush" => t \notin lost /\ t \notin Stuck
<1>1. ASSUME IInv, [Next]_vars PROVE Honest \/ UNCHANGED vars
  <2> SUFFICES ASSUME NEW t \in Threads, result[t] = "none", result'[t] = "ok", op = "flush"
               PROVE  t \notin lost /\ t \notin Stuck
    OBVIOUS
  <2>1. CASE Leave
    <3>1. holder = t /\ pc = "ok" /\ t \notin pending
      BY <1>1, <2>1 DEF Leave, IInv, TypeOK
    <3>2. wire = <<>> /\ writers = {} /\ ~closed
      BY <1>1, <3>1 DEF IInv, Flushed, Connected
    <3> QED
      BY <1>1, <3>1, <3>2, EmptyWire DEF IInv, Charged, Stuck
  <2>2. CASE ~Leave
    <3>1. CASE Step
      BY <2>2, <3>1 DEF Step, LiveNoSocket, LiveQuiet, LiveIdle, LiveGone, DialRefused, DialOK,
         DialFails, SendCommand, SendIdentify, SendFails, SendFailsAgain, InterruptSend, Answered,
         ProbeUnanswered, Unanswered
    <3>2. CASE \E u \in Threads : Connect(u) \/ \E o \in Ops : Enter(u, o)
      BY <1>1, <3>2 DEF Connect, Enter, IInv, TypeOK
    <3>3. CASE UNCHANGED vars
      BY <3>3 DEF vars
    <3>4. CASE \/ Close \/ CheckForLoss \/ ServerRuns \/ ServerCloses \/ PowerLoss
               \/ ResetArrives \/ TimePasses \/ BackoffElapses
      BY <3>4 DEF Close, CheckForLoss, ServerRuns, ServerCloses, PowerLoss, ResetArrives,
         TimePasses, BackoffElapses
    <3> QED
      BY <1>1, <3>1, <3>2, <3>3, <3>4 DEF Next
  <2> QED
    BY <2>1, <2>2
<1>2. IInv /\ [Next]_vars => [Honest]_vars
  BY <1>1
<1> QED
  BY <1>2, Invariance, PTL DEF Spec, FlushHonest

\* The commands on a wire without an IDENTIFY are all of it; behind an IDENTIFY
\* there is nothing, so what stands before it is the wire less its last entry.
LEMMA AcceptedEmpty == wire = <<>> => Accepted = <<>>
BY EmptyWire DEF Accepted

LEMMA FrontOfLonger ==
  ASSUME NEW S, NEW s \in Seq(S), NEW e \in S
  PROVE  Front(Append(s, e)) = s
BY DEF Front

LEMMA FrontOf ==
  ASSUME NEW S, NEW s \in Seq(S), Len(s) >= 1
  PROVE  Front(s) \in Seq(S) /\ Len(Front(s)) = Len(s) - 1
<1>1. 1 \in Int /\ Len(s) - 1 \in Int /\ \A i \in 1 .. Len(s) - 1 : s[i] \in S
  OBVIOUS
<1>2. /\ SubSeq(s, 1, Len(s) - 1) \in Seq(S)
      /\ Len(SubSeq(s, 1, Len(s) - 1)) = IF 1 <= Len(s) - 1 THEN Len(s) - 1 - 1 + 1 ELSE 0
  BY <1>1, SubSeqProperties
<1>3. Len(s) \in Nat
  OBVIOUS
<1>4. \A n \in Nat : n >= 1 => (IF 1 <= n - 1 THEN n - 1 - 1 + 1 ELSE 0) = n - 1
  OBVIOUS
<1> QED
  BY <1>2, <1>3, <1>4 DEF Front

LEMMA FrontOfShorter ==
  ASSUME NEW S, NEW s \in Seq(S), Len(s) > 1
  PROVE  Front(Tail(s)) = Tail(Front(s)) /\ Front(s) # <<>>
<1>1. Tail(s) \in Seq(S) /\ Len(Tail(s)) = Len(s) - 1
  OBVIOUS
<1>2. Front(Tail(s)) \in Seq(S) /\ Len(Front(Tail(s))) = Len(s) - 2
  <2>1. Len(s) \in Nat /\ Len(s) - 1 >= 1 /\ Len(s) - 1 - 1 = Len(s) - 2
    OBVIOUS
  <2>2. Front(Tail(s)) \in Seq(S) /\ Len(Front(Tail(s))) = Len(s) - 1 - 1
    BY <1>1, <2>1, FrontOf
  <2> QED
    BY <2>1, <2>2
<1>3. Front(s) \in Seq(S) /\ Len(Front(s)) = Len(s) - 1
  BY FrontOf
<1>4. Tail(Front(s)) \in Seq(S) /\ Len(Tail(Front(s))) = Len(s) - 2
  BY <1>3
<1>5. \A i \in 1 .. Len(s) - 2 : Front(Tail(s))[i] = s[i + 1]
  BY <1>1 DEF Front
<1>6. \A i \in 1 .. Len(s) - 2 : Tail(Front(s))[i] = s[i + 1]
  BY <1>3 DEF Front
<1>7. \A i \in 1 .. Len(s) - 2 : Front(Tail(s))[i] = Tail(Front(s))[i]
  BY <1>5, <1>6
<1>8. Front(Tail(s)) = Tail(Front(s))
  <2> DEFINE f == Front(Tail(s))
             g == Tail(Front(s))
  <2>1. f \in Seq(S) /\ g \in Seq(S) /\ Len(f) = Len(g)
    BY <1>2, <1>4
  <2>2. \A i \in 1 .. Len(f) : f[i] = g[i]
    BY <1>2, <1>7
  <2> HIDE DEF f, g
  <2>3. f = g
    BY <2>1, <2>2
  <2> QED
    BY <2>3 DEF f, g
<1> QED
  BY <1>3, <1>8

\* An entry of a sequence is in its range.
LEMMA InRange ==
  ASSUME NEW S, NEW s \in Seq(S), NEW i \in 1 .. Len(s)
  PROVE  s[i] \in Range(s) /\ s[i] \in S
BY DEF Range

\* What is only ever the last entry of a sequence is its last entry.
LEMMA OnlyLast ==
  ASSUME NEW S, NEW s \in Seq(S), NEW e \in Range(s),
         \A i \in 1 .. Len(s) : s[i] = e => i = Len(s)
  PROVE  Len(s) \in Nat \ {0} /\ s[Len(s)] = e
<1>1. PICK i \in 1 .. Len(s) : s[i] = e
  BY DEF Range
<1> QED
  BY <1>1

\* What the invariant says of the wire.
WireOK ==
  /\ wire \in Seq(Threads \cup {Identify})
  /\ \A i \in 1 .. Len(wire) : wire[i] = Identify => i = Len(wire)

\* Where no thread has a command on the wire, no command is accepted and waiting;
\* what a thread has there is accepted.
LEMMA AcceptedStuck ==
  ASSUME WireOK
  PROVE  Accepted = <<>> <=> Stuck = {}
<1>1. CASE wire = <<>>
  BY <1>1, EmptyWire, AcceptedEmpty DEF Stuck
<1>2. CASE wire # <<>> /\ Identify \notin Range(wire)
  BY <1>2 DEF WireOK, Accepted, Range, Stuck
<1>3. CASE Identify \in Range(wire)
  <2>1. Len(wire) \in Nat \ {0} /\ wire[Len(wire)] = Identify
    BY <1>3, OnlyLast DEF WireOK
  <2>2. Front(wire) \in Seq(Threads \cup {Identify}) /\ Len(Front(wire)) = Len(wire) - 1
    BY <2>1, FrontOf DEF WireOK
  <2>3. CASE Len(wire) = 1
    <3>1. Front(wire) = <<>>
      BY <2>2, <2>3
    <3>2. Range(wire) = {Identify}
      BY <2>1, <2>3 DEF WireOK, Range
    <3> QED
      BY <1>3, <3>1, <3>2, ThreadAssumption DEF Accepted, Stuck
  <2>4. CASE Len(wire) # 1
    <3>0. \A n \in Nat \ {0} : 1 \in 1 .. n
      OBVIOUS
    <3>1. 1 \in 1 .. Len(wire)
      BY <2>1, <3>0
    <3>2. wire[1] \in Threads \cup {Identify} /\ wire[1] \in Range(wire)
      BY <3>1, InRange DEF WireOK
    <3>4. wire[1] # Identify
      BY <2>4, <3>1, Zenon DEF WireOK
    <3>3. Front(wire) # <<>>
      BY <2>1, <2>2, <2>4
    <3> QED
      BY <1>3, <3>2, <3>3, <3>4 DEF Accepted, Stuck
  <2> QED
    BY <2>3, <2>4
<1> QED
  BY <1>1, <1>2, <1>3

\* A command that runs leaves the accepted ones from the front; the IDENTIFY is
\* not one of them.
LEMMA AcceptedRuns ==
  ASSUME WireOK, wire # <<>>, wire' = Tail(wire)
  PROVE  \/ Accepted # <<>> /\ Accepted' = Tail(Accepted)
         \/ Accepted' = Accepted
<1>1. CASE Identify \notin Range(wire)
  <2>1. Identify \notin Range(wire')
    BY <1>1, ShorterWire DEF WireOK
  <2> QED
    BY <1>1, <2>1 DEF Accepted
<1>2. CASE Identify \in Range(wire)
  <2>1. Len(wire) \in Nat \ {0} /\ wire[Len(wire)] = Identify
    BY <1>2, OnlyLast DEF WireOK
  <2>2. Accepted = Front(wire)
    BY <1>2 DEF Accepted
  <2>3. CASE Len(wire) = 1
    <3>1. wire' = <<>>
      BY <2>3 DEF WireOK
    <3>2. Front(wire) = <<>>
      BY <2>3, FrontOf DEF WireOK
    <3>3. Accepted' = <<>>
      BY <3>1, EmptyWire DEF Accepted
    <3> QED
      BY <2>2, <3>2, <3>3
  <2>4. CASE Len(wire) # 1
    <3>0. \A n \in Nat \ {0} : n # 1 => n > 1
      OBVIOUS
    <3>1. Len(wire) > 1
      BY <2>1, <2>4, <3>0
    <3>2. Len(wire) - 1 \in 1 .. Len(Tail(wire)) /\ Tail(wire)[Len(wire) - 1] = Identify
      BY <2>1, <3>1 DEF WireOK
    <3>3. Identify \in Range(Tail(wire))
      BY <3>2, ShorterWire, InRange DEF WireOK
    <3>4. Accepted' = Front(Tail(wire))
      BY <3>3 DEF Accepted
    <3> QED
      BY <2>2, <3>1, <3>4, FrontOfShorter DEF WireOK
  <2> QED
    BY <2>3, <2>4
<1> QED
  BY <1>1, <1>2

\* The flags that LossyLink sees have values of their own.
Flags == uncounted \in BOOLEAN /\ closed \in BOOLEAN

LEMMA FlagsInit == Init => Flags
BY DEF Init, Flags

LEMMA FlagsStep == Flags /\ [Next]_vars => Flags'
<1> SUFFICES ASSUME Flags, [Next]_vars PROVE uncounted' \in BOOLEAN /\ closed' \in BOOLEAN
  BY DEF Flags
<1> USE DEF Flags
<1>1. uncounted' \in BOOLEAN
  <2>1. CASE \/ LiveGone \/ SendFails \/ ProbeUnanswered \/ Unanswered \/ CheckForLoss
    <3>1. PICK benign, senders : AbandonLocked(benign, senders)
      BY <2>1 DEF LiveGone, SendFails, ProbeUnanswered, Unanswered, CheckForLoss
    <3> QED
      BY <3>1, Zenon DEF AbandonLocked
  <2>2. CASE ResetArrives
    BY <2>2, Zenon DEF ResetArrives
  <2>3. CASE InterruptSend \/ \E t \in Threads : Connect(t)
    BY <2>3, Zenon DEF InterruptSend, Connect
  <2>4. CASE UNCHANGED uncounted
    BY <2>4
  <2>5. \/ LiveGone \/ SendFails \/ ProbeUnanswered \/ Unanswered \/ CheckForLoss
        \/ ResetArrives \/ InterruptSend \/ (\E t \in Threads : Connect(t))
        \/ UNCHANGED uncounted
    BY DEF Next, Step, vars, truth, Leave, LiveNoSocket, LiveQuiet, LiveIdle, DialRefused,
       DialOK, DialFails, SendCommand, SendIdentify, SendFailsAgain, Answered, Close,
       ServerRuns, ServerCloses, PowerLoss, TimePasses, BackoffElapses, Enter
  <2> QED
    BY <2>1, <2>2, <2>3, <2>4, <2>5
<1>2. closed' \in BOOLEAN
  <2>1. closed' = TRUE \/ closed' = FALSE \/ closed' = closed
    BY DEF Next, Step, vars, client, Leave, LiveNoSocket, LiveQuiet, LiveIdle, LiveGone,
       DialRefused, DialOK, DialFails, SendCommand, SendIdentify, SendFails, SendFailsAgain,
       InterruptSend, Answered, ProbeUnanswered, Unanswered, Close, CheckForLoss, Connect,
       ServerRuns, ServerCloses, PowerLoss, ResetArrives, TimePasses, BackoffElapses, Enter
  <2> QED
    BY <2>1, Zenon
<1> QED
  BY <1>1, <1>2

\* What LossyLink sees.
seen == <<wire, writers, uncounted, pending, losses, charges, closed>>

LEMMA UnseenStep == UNCHANGED seen => UNCHANGED Link!linkVars
BY DEF seen, Link!linkVars, Accepted

LEMMA InvWire == IInv => WireOK
BY DEF IInv, TypeOK, Answers, WireOK

\* Giving up a connection counts its loss, if somebody owes an answer on it;
\* without an account of it, nothing was lost (_abandon_locked).
LEMMA AbandonImplements ==
  ASSUME IInv, Flags, NEW benign \in BOOLEAN, UNCHANGED closed,
         AbandonLocked(benign, Unconfirmed), benign => Stuck = {} /\ ~uncounted
  PROVE  [Link!LinkNext]_(Link!linkVars)
<1>1. Unconfirmed = writers /\ writers \subseteq Threads /\ Stuck \subseteq writers
  BY DEF IInv, TypeOK, Owed, Unconfirmed
<1>2. wire' = <<>> /\ Accepted' = <<>> /\ writers' = {}
  BY EmptyWire DEF AbandonLocked, CloseLocked, Accepted
<1>3. CASE writers # {} /\ ~benign
  <2>1. Count(writers) /\ uncounted' = FALSE
    BY <1>1, <1>3 DEF AbandonLocked
  <2>2. Link!CountLoss(writers)
    BY <1>2, <1>3, <2>1 DEF Count, Link!CountLoss
  <2> QED
    BY <1>1, <2>2 DEF Link!LinkNext
<1>4. CASE writers = {} \/ benign
  <2>1. Stuck = {} /\ Accepted = <<>>
    BY <1>1, <1>4, AcceptedStuck, InvWire
  <2>2. UNCHANGED <<losses, pending, charges>> /\ uncounted' = (uncounted \/ Stuck # {})
    BY <1>1, <1>4 DEF AbandonLocked
  <2>3. uncounted' = uncounted
    BY <2>1, <2>2, Zenon DEF Flags
  <2>4. CASE benign
    <3>1. Link!Settle
      BY <1>2, <2>1, <2>2, <2>3, <2>4 DEF Link!Settle
    <3> QED
      BY <3>1 DEF Link!LinkNext
  <2>5. CASE writers = {}
    BY <1>2, <2>1, <2>2, <2>3, <2>5 DEF Link!linkVars
  <2> QED
    BY <1>4, <2>4, <2>5
<1> QED
  BY <1>3, <1>4

\* Every step of the client and its surroundings is one of the promise, or is
\* not seen in it.
LEMMA StepImplements ==
  ASSUME IInv, Flags, [Next]_vars
  PROVE  [Link!LinkNext]_(Link!linkVars)
<1> USE ThreadAssumption
<1>1. CASE Leave
  <2>1. holder \in Threads
    BY <1>1 DEF Leave, IInv, TypeOK, Held
  <2>2. UNCHANGED <<wire, writers, uncounted, losses, charges, closed>>
    BY <1>1 DEF Leave, client, net
  <2>3. Accepted' = Accepted
    BY <2>2 DEF Accepted
  <2>4. CASE op = "flush"
    <3>1. Link!FlushEnds(holder)
      BY <1>1, <2>2, <2>3, <2>4 DEF Leave, Link!FlushEnds
    <3> QED
      BY <2>1, <3>1 DEF Link!LinkNext
  <2>5. CASE op # "flush"
    BY <1>1, <2>2, <2>5, UnseenStep DEF Leave, seen
  <2> QED
    BY <2>4, <2>5
<1>2. CASE \/ LiveNoSocket \/ LiveQuiet \/ DialRefused
           \/ ServerCloses \/ PowerLoss \/ TimePasses \/ BackoffElapses
           \/ \E t \in Threads, o \in Ops : Enter(t, o)
           \/ \E rejected, interrupted \in BOOLEAN : DialFails(rejected, interrupted)
           \/ UNCHANGED vars
  <2>1. UNCHANGED seen
    BY <1>2 DEF seen, LiveNoSocket, LiveQuiet, DialRefused, ServerCloses, PowerLoss, TimePasses,
       BackoffElapses, Enter, DialFails, vars, client, books, call, net, truth
  <2> QED
    BY <2>1, UnseenStep
<1>3. CASE LiveIdle \/ SendIdentify
  <2>1. wire' = Append(wire, Identify) /\ Identify \notin Range(wire)
    BY <1>3 DEF LiveIdle, SendIdentify, IInv, Answers
  <2>2. UNCHANGED <<writers, uncounted, pending, losses, charges, closed>>
    BY <1>3 DEF LiveIdle, SendIdentify, client, books, truth
  <2>3. wire \in Seq(Threads \cup {Identify})
    BY DEF IInv, TypeOK
  <2>4. Accepted = wire /\ Accepted' = Front(Append(wire, Identify))
    BY <2>1, <2>3, LongerWire DEF Accepted
  <2>5. Accepted' = Accepted
    BY <2>3, <2>4, FrontOfLonger
  <2> QED
    BY <2>2, <2>5 DEF Link!linkVars
<1>4. CASE SendCommand
  <2>1. wire' = Append(wire, holder) /\ Identify \notin Range(wire) /\ holder \in Threads
    BY <1>4 DEF SendCommand, IInv, Answers, TypeOK, Held
  <2>2. wire \in Seq(Threads \cup {Identify})
    BY DEF IInv, TypeOK
  <2>3. Identify \notin Range(wire')
    BY <2>1, <2>2, LongerWire
  <2>4. Accepted' = Append(Accepted, holder)
    BY <2>1, <2>3 DEF Accepted
  <2>5. Link!Accept(holder, holder)
    BY <1>4, <2>4 DEF SendCommand, Link!Accept
  <2> QED
    BY <2>1, <2>5 DEF Link!LinkNext
<1>5. CASE LiveGone
  <2>1. AbandonLocked(Benign, Unconfirmed) /\ UNCHANGED closed /\ open
    BY <1>5 DEF LiveGone
  <2>2. Benign => Stuck = {} /\ ~uncounted
    BY <2>1 DEF Benign, IInv, Fins, Losses, Connected
  <2>3. Benign \in BOOLEAN
    BY DEF Benign
  <2> QED
    BY <2>1, <2>2, <2>3, AbandonImplements
<1>6. CASE SendFails \/ ProbeUnanswered \/ Unanswered \/ CheckForLoss
  <2>1. AbandonLocked(FALSE, Unconfirmed) /\ UNCHANGED closed
    BY <1>6 DEF SendFails, ProbeUnanswered, Unanswered, CheckForLoss
  <2> QED
    BY <2>1, AbandonImplements
<1>7. CASE SendFailsAgain
  <2>1. wire = <<>> /\ wire' = <<>>
    BY <1>7 DEF SendFailsAgain, CloseLocked, IInv, Losses
  <2>2. UNCHANGED seen
    BY <1>7, <2>1 DEF SendFailsAgain, books, seen
  <2> QED
    BY <2>2, UnseenStep
<1>8. CASE InterruptSend
  <2>1. holder \in Threads /\ writers \subseteq Threads /\ Unconfirmed = writers
    BY <1>8 DEF InterruptSend, IInv, TypeOK, Owed, Unconfirmed
  <2>2. Accepted' = <<>>
    BY <1>8, EmptyWire DEF InterruptSend, Accepted
  <2>3. Link!CountLoss(writers \cup {holder})
    BY <1>8, <2>1, <2>2 DEF InterruptSend, Count, Link!CountLoss
  <2> QED
    BY <2>1, <2>3 DEF Link!LinkNext
<1>9. CASE DialOK \/ Answered
  <2>1. wire = <<>> /\ ~uncounted
    BY <1>9 DEF DialOK, Barred, Answered, IInv, Connected, Answers, Losses, TypeOK, Held
  <2>2. Accepted = <<>> /\ UNCHANGED wire
    BY <1>9, <2>1, AcceptedEmpty DEF DialOK, Answered
  <2>3. Accepted' = Accepted
    BY <2>2 DEF Accepted
  <2>4. Link!Settle
    BY <1>9, <2>1, <2>2, <2>3 DEF DialOK, Answered, NoteAnsweredLocked, truth, Link!Settle
  <2> QED
    BY <2>4 DEF Link!LinkNext
<1>10. CASE Close
  <2>1. Accepted' = <<>>
    BY <1>10, EmptyWire DEF Close, CloseLocked, Accepted
  <2>2. Link!Shut
    BY <1>10, <2>1 DEF Close, books, Link!Shut
  <2> QED
    BY <2>2 DEF Link!LinkNext
<1>11. CASE \E t \in Threads : Connect(t)
  <2>1. /\ ~open /\ closed' = FALSE /\ uncounted' = FALSE
        /\ UNCHANGED <<wire, writers, pending, losses, charges>>
    BY <1>11 DEF Connect, net, books
  <2>2. Accepted' = Accepted
    BY <2>1 DEF Accepted
  <2>3. CASE closed
    <3>1. Link!Reopen
      BY <2>1, <2>2, <2>3 DEF Link!Reopen
    <3> QED
      BY <3>1 DEF Link!LinkNext
  <2>4. CASE ~closed
    <3>1. ~uncounted
      BY <2>1, <2>4 DEF IInv, Losses
    <3>2. uncounted' = uncounted
      BY <2>1, <3>1, Zenon DEF Flags
    <3>3. closed' = closed
      BY <2>1, <2>4, Zenon DEF Flags
    <3> QED
      BY <2>1, <2>2, <3>2, <3>3 DEF Link!linkVars
  <2> QED
    BY <2>3, <2>4
<1>12. CASE ServerRuns
  <2>1. wire # <<>> /\ wire' = Tail(wire)
    BY <1>12 DEF ServerRuns
  <2>2. UNCHANGED <<writers, uncounted, pending, losses, charges, closed>> /\ ~uncounted
    BY <1>12, <2>1 DEF ServerRuns, client, books, truth, IInv, Losses, Connected, Answers
  <2>3. CASE Accepted' = Accepted
    BY <2>2, <2>3 DEF Link!linkVars
  <2>4. CASE Accepted # <<>> /\ Accepted' = Tail(Accepted)
    <3>1. Link!Run
      BY <2>2, <2>4 DEF Link!Run
    <3> QED
      BY <3>1 DEF Link!LinkNext
  <2> QED
    BY <2>1, <2>3, <2>4, InvWire, AcceptedRuns
<1>13. CASE ResetArrives
  <2>1. /\ wire' = <<>> /\ Accepted' = <<>> /\ uncounted' = (uncounted \/ Stuck # {})
        /\ UNCHANGED <<writers, pending, losses, charges, closed>>
    BY <1>13, EmptyWire DEF ResetArrives, Accepted, client, books
  <2>2. CASE Stuck = {}
    <3>1. Accepted = <<>>
      BY <2>2, InvWire, AcceptedStuck
    <3>2. uncounted' = uncounted
      BY <2>1, <2>2, Zenon DEF Flags
    <3> QED
      BY <2>1, <3>1, <3>2 DEF Link!linkVars
  <2>3. CASE Stuck # {}
    <3>1. Accepted # <<>>
      BY <2>3, InvWire, AcceptedStuck
    <3>2. uncounted' = TRUE
      BY <2>1, <2>3, Zenon DEF Flags
    <3>3. Link!Drop
      BY <2>1, <3>1, <3>2 DEF Link!Drop
    <3> QED
      BY <3>3 DEF Link!LinkNext
  <2> QED
    BY <2>2, <2>3
<1> QED
  BY <1>1, <1>2, <1>3, <1>4, <1>5, <1>6, <1>7, <1>8, <1>9, <1>10, <1>11, <1>12, <1>13
     DEF Next, Step

\* The connection keeps the promise of LossyLink: commands run in the order they
\* were accepted or are lost together, nothing is settled while a loss is not
\* counted, and each loss is charged to all who had commands on the connection.
THEOREM ImplementsLossyLinkHolds == Spec => ImplementsLossyLink
<1>1. Init => Link!LinkInit
  BY AcceptedEmpty DEF Init, Link!LinkInit
<1>2. IInv /\ Flags /\ [Next]_vars => [Link!LinkNext]_(Link!linkVars)
  BY StepImplements
<1> QED
  BY <1>1, <1>2, Invariance, FlagsInit, FlagsStep, PTL
     DEF Spec, ImplementsLossyLink, Link!Spec
=============================================================================
