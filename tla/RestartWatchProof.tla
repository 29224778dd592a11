-------------------------- MODULE RestartWatchProof --------------------------
(***************************************************************************)
(* Proofs about RestartWatch, for any restart limit and any number of      *)
(* faults, with resets on the run loop and on another thread: the evidence *)
(* of a restart is never a reset its listener has reported, such a reset   *)
(* always leaves a re-arm owed, a scene is set up again a bounded number   *)
(* of times, and a launched program's memory is left alone unless a report *)
(* crossed the handover.                                                   *)
(*                                                                         *)
(* The inductive invariant has one conjunct for each of the four and the   *)
(* labels they need: where the zeros of an own reset can be seen (memory,  *)
(* a read in flight, a sample), a re-arm is owed, a report is on its way,  *)
(* or the nonce is being written.                                          *)
(*                                                                         *)
(* The watch borrows its reads from a poller that is a PollThread.  The    *)
(* theorems about PollThread are the second part: its variables are        *)
(* PollThreadState's, its steps those of the instance P.                   *)
(***************************************************************************)
EXTENDS RestartWatch, PollThreadState, TLAPS

\* What the flags say at the labels of a judgement and of a write.
AtLabels ==
    /\ pc = "look" => armed
    /\ pc = "after" => where = "frame"
    /\ pc \in {"write", "mark"} => ~suspended
    /\ pc = "setup" => handed = "no"
    /\ pc \in {"poll", "rest", "look", "restore"} /\ where = "setup" => handed = "no"
    /\ pc # "restore" => verdict = "none"
    /\ pc = "mark" => ~stoodDown
    /\ suspended \/ stoodDown => ~armed

\* Unless a report crosses the look, what it saw of the flags lasts.
Seen ==
    ~crossed => /\ other = "idle"
                /\ pc \in {"poll", "rest", "look"} => ~rearm

\* A watch suspended before any listener looked stays so.
Suspended ==
    handed = "alone" => /\ suspended /\ ~rearm /\ ~armed /\ other # "checked"
                        /\ pc \notin {"restore", "look", "write", "mark"}

\* Set-ups again within a play are counted restarts.
Counting ==
    /\ again <= restarts /\ again < RestartLimit
    /\ restarts >= RestartLimit => stoodDown
    /\ pc = "restore" /\ Counted => again < restarts /\ restarts < RestartLimit

\* The zeros of an own reset are in memory: a re-arm is owed or will be, or
\* the nonce is about to be written.
OwnInMemory ==
    /\ mem # "stale" /\ mem # "none"
    /\ mem = "own" => \/ pc = "write" \/ (pc = "mark" /\ ~wrote)
                      \/ pc # "mark" /\ ~armed
                      \/ rearm \/ other # "idle"

\* They are in a read that will be heeded: likewise.  Older zeros are not
\* heeded once the marks are recorded.
Heeds(what) == \E r \in {reading, sample} : r.fresh /\ r.seen = what

OwnInReads ==
    /\ Heeds("own") => ~armed \/ rearm \/ pc \in {"write", "mark"} \/ other # "idle"
    /\ Heeds("stale") => pc = "mark"

IInv ==
    /\ TypeOK /\ AtLabels /\ Seen /\ Suspended /\ Counting
    /\ OwnInMemory /\ OwnInReads /\ NotItsOwn

\* Before the first set-up nothing is armed and nothing read.
THEOREM IInvInit == Init => IInv
BY Bounds DEF Init, IInv, TypeOK, AtLabels, Seen, Suspended, Counting, Counted, OwnInMemory,
       OwnInReads, Heeds, NotItsOwn, NoRead, Reads, Values, Zeros, Labels

\* A read of which the mark took note is fresh no more.
LEMMA ReadsClosed ==
    ASSUME NEW r \in Reads
    PROVE  /\ [r EXCEPT !.fresh = FALSE] \in Reads
           /\ ~[r EXCEPT !.fresh = FALSE].fresh
BY DEF Reads

\* Each step of the run, the machine, the poller and the other thread keeps it.
THEOREM IInvStep == IInv /\ [Next]_vars => IInv'
<1> SUFFICES ASSUME IInv, [Next]_vars PROVE IInv'
  OBVIOUS
<1> USE Bounds DEF IInv, TypeOK, AtLabels, Seen, Suspended, Counting, Counted, OwnInMemory,
            OwnInReads, Heeds, NotItsOwn, NoRead, Reads, Values, Zeros, Labels, Read,
            machine, flags, marks, poller, loop, ghosts, fixed
<1>1. CASE UNCHANGED vars
  BY <1>1 DEF vars
<1>2. CASE ButtonReset \/ PowerBlip \/ LinkDrops \/ LinkReturns \/ TuneZeroes \/ Overwritten
  BY <1>2 DEF ButtonReset, PowerBlip, LinkDrops, LinkReturns, TuneZeroes, Overwritten, Fault, MarksMove
<1>3. CASE PollReads
  BY <1>3 DEF PollReads
<1>4. CASE PollPublishes
  BY <1>4 DEF PollPublishes, Heeded
<1>5. CASE PollFails
  BY <1>5 DEF PollFails
<1>6. CASE OwnReset
  BY <1>6 DEF OwnReset, AfterReset
<1>24. CASE ResetUnanswered
  BY <1>24 DEF ResetUnanswered, Fault
<1>7. CASE OtherResets \/ OtherChecks \/ OtherReports
  BY <1>7 DEF OtherResets, OtherChecks, OtherReports
<1>8. CASE NothingPolled \/ NoLook \/ LookStarts \/ LookFails
  BY <1>8 DEF NothingPolled, NoLook, LookStarts, LookFails, WorthLooking, GoesOn
<1>9. CASE JudgePoll
  <2>1. CASE sample.seen = "nonce"
    BY <1>9, <2>1 DEF JudgePoll, Judge, Fresh
  <2>2. CASE sample.seen = "other"
    BY <1>9, <2>2 DEF JudgePoll, Judge, Fresh
  <2>3. CASE sample.seen \in Zeros /\ ~Counted
    <3>1. /\ armed' = FALSE /\ verdict' = sample.seen /\ pc' = "restore" /\ ~Counted'
          /\ UNCHANGED <<restarts, stoodDown>>
      BY <1>9, <2>3 DEF JudgePoll, Judge, Finds
    <3> QED
      BY <1>9, <2>3, <3>1 DEF JudgePoll, Fresh
  <2>4. CASE sample.seen \in Zeros /\ Counted
    <3>1. restarts < RestartLimit /\ sample.seen \notin {"nonce", "other"}
      BY <1>9, <2>4 DEF JudgePoll
    <3>2. CASE restarts + 1 < RestartLimit
      <4>1. ~(restarts + 1 >= RestartLimit)
        BY <3>2
      <4>2. armed' = FALSE /\ restarts' = restarts + 1 /\ Finds(sample.seen) /\ UNCHANGED stoodDown
        BY <1>9, <2>4, <3>1, <4>1 DEF JudgePoll, Judge
      <4> QED
        BY <1>9, <2>4, <3>2, <4>2 DEF JudgePoll, Finds, Fresh
    <3>3. CASE restarts + 1 >= RestartLimit
      <4>1. /\ armed' = FALSE /\ restarts' = restarts + 1 /\ stoodDown' = TRUE
            /\ pc' = "rest" /\ UNCHANGED verdict
        BY <1>9, <2>4, <3>1, <3>3 DEF JudgePoll, Judge
      <4> QED
        BY <1>9, <2>4, <3>1, <3>3, <4>1 DEF JudgePoll, Fresh
    <3> QED
      BY <3>1, <3>2, <3>3
  <2> QED
    BY <1>9, <2>1, <2>2, <2>3, <2>4 DEF JudgePoll, Judge
<1>10. CASE LookReads
  <2>1. CASE mem = "nonce"
    BY <1>10, <2>1 DEF LookReads, Judge, GoesOn
  <2>2. CASE mem = "other"
    BY <1>10, <2>2 DEF LookReads, Judge, GoesOn
  <2>3. CASE mem \in Zeros /\ ~Counted
    <3>1. /\ armed' = FALSE /\ verdict' = mem /\ pc' = "restore" /\ ~Counted'
          /\ UNCHANGED <<restarts, stoodDown>>
      BY <1>10, <2>3 DEF LookReads, Judge, Finds
    <3> QED
      BY <1>10, <2>3, <3>1 DEF LookReads
  <2>4. CASE mem \in Zeros /\ Counted
    <3>1. restarts < RestartLimit /\ mem \notin {"nonce", "other"}
      BY <1>10, <2>4 DEF LookReads
    <3>2. CASE restarts + 1 < RestartLimit
      <4>1. ~(restarts + 1 >= RestartLimit)
        BY <3>2
      <4>2. armed' = FALSE /\ restarts' = restarts + 1 /\ Finds(mem) /\ UNCHANGED stoodDown
        BY <1>10, <2>4, <3>1, <4>1 DEF LookReads, Judge
      <4> QED
        BY <1>10, <2>4, <3>2, <4>2 DEF LookReads, Finds, GoesOn
    <3>3. CASE restarts + 1 >= RestartLimit
      <4>1. /\ armed' = FALSE /\ restarts' = restarts + 1 /\ stoodDown' = TRUE
            /\ pc' = GoesOn /\ UNCHANGED verdict
        BY <1>10, <2>4, <3>1, <3>3 DEF LookReads, Judge
      <4> QED
        BY <1>10, <2>4, <3>1, <3>3, <4>1 DEF LookReads, GoesOn
    <3> QED
      BY <3>1, <3>2, <3>3
  <2> QED
    BY <1>10, <2>1, <2>2, <2>3, <2>4 DEF LookReads, Judge
<1>11. CASE WriteStandsDown
  BY <1>11 DEF WriteStandsDown, AfterWrite, GoesOn
<1>12. CASE WriteLands
  BY <1>12 DEF WriteLands, Staled
<1>13. CASE WriteIsLost
  BY <1>13 DEF WriteIsLost, Staled, MarksMove
<1>14. CASE RecordsMarks
  BY <1>14, ReadsClosed DEF RecordsMarks, MarksPoller, RetryIfLost, AfterWrite, GoesOn
<1>15. CASE SetupRetries
  BY <1>15 DEF SetupRetries
<1>25. CASE AsksBeforeSetup
  <2>1. CASE other = "idle"
    <3>1. ~crossed'
      BY <1>25, <2>1 DEF AsksBeforeSetup
    <3> QED
      BY <1>25, <2>1, <3>1 DEF AsksBeforeSetup
  <2>2. CASE other # "idle"
    <3>1. crossed'
      BY <1>25, <2>2 DEF AsksBeforeSetup
    <3> QED
      BY <1>25, <2>2, <3>1 DEF AsksBeforeSetup
  <2> QED
    BY <2>1, <2>2
<1>16. CASE SetupHandsOver
  BY <1>16 DEF SetupHandsOver, Suspend
<1>17. CASE SetupArms
  BY <1>17 DEF SetupArms, WriteBegins, CountsOn
<1>18. ASSUME NEW l \in BOOLEAN, NEW e \in BOOLEAN, Frame(l, e) PROVE IInv'
  BY <1>18 DEF Frame, MarksMove
<1>19. CASE RearmWaits
  BY <1>19 DEF RearmWaits, GoesOn
<1>20. CASE Rearms
  BY <1>20 DEF Rearms, WriteBegins
<1>21. CASE AfterFrame
  <2>1. CASE other = "idle"
    <3>1. ~crossed'
      BY <1>21, <2>1 DEF AfterFrame
    <3> QED
      BY <1>21, <2>1, <3>1 DEF AfterFrame
  <2>2. CASE other # "idle"
    <3>1. crossed'
      BY <1>21, <2>2 DEF AfterFrame
    <3> QED
      BY <1>21, <2>2, <3>1 DEF AfterFrame
  <2> QED
    BY <2>1, <2>2
<1>22. CASE Restores
  BY <1>22 DEF Restores
<1>23. QED
  BY <1>1, <1>2, <1>3, <1>4, <1>5, <1>6, <1>7, <1>8, <1>9, <1>10, <1>11, <1>12, <1>13, <1>14,
     <1>15, <1>16, <1>17, <1>18, <1>19, <1>20, <1>21, <1>22, <1>24,
     <1>25 DEF Next

\* Own zeros are always accompanied by what keeps them from being evidence.
THEOREM Invariance == Spec => []IInv
BY IInvInit, IInvStep, PTL DEF Spec

\* Labels, memory, reads and counts keep their types.
THEOREM TypeCorrect == Spec => []TypeOK
BY Invariance, PTL DEF IInv

\* No restart is found on the evidence of a reported reset or a stale sample.
THEOREM NotItsOwnHolds == Spec => []NotItsOwn
BY Invariance, PTL DEF IInv

\* An own reset leaves no watch armed over its zeros without a re-arm owed.
THEOREM OwnResetIsOwedHolds == Spec => []OwnResetIsOwed
<1>1. IInv => OwnResetIsOwed
  BY DEF IInv, OwnInMemory, OwnResetIsOwed, TypeOK
<1> QED
  BY Invariance, <1>1, PTL

\* Fewer than RESTART_LIMIT_PER_PLAY set-ups again in a play.
THEOREM RestartsAreBoundedHolds == Spec => []RestartsAreBounded
<1>1. IInv => RestartsAreBounded
  BY Bounds DEF IInv, Counting, RestartsAreBounded
<1> QED
  BY Invariance, <1>1, PTL

\* The nonce is not written over a launched program, unless a report crossed
\* the handover to it.
THEOREM ProgramUntouchedHolds == Spec => ProgramUntouched
<1> DEFINE A == handed = "alone" => ~(mem # "nonce" /\ mem' = "nonce")
<1>1. IInv /\ [Next]_vars => [A]_vars
  <2> SUFFICES ASSUME IInv, Next PROVE A
    OBVIOUS
  <2>1. CASE WriteLands \/ WriteIsLost
    BY <2>1 DEF IInv, Suspended, WriteLands, WriteIsLost
  <2>2. CASE ~(WriteLands \/ WriteIsLost)
    BY <2>2 DEF Next, machine, ButtonReset, PowerBlip, LinkDrops, LinkReturns, TuneZeroes, Overwritten,
       PollReads, PollPublishes, PollFails, OwnReset, ResetUnanswered, OtherResets, OtherChecks, OtherReports,
       NothingPolled, JudgePoll, NoLook, LookStarts, LookReads, LookFails, WriteStandsDown,
       RecordsMarks, AsksBeforeSetup, SetupRetries, SetupHandsOver, SetupArms, Frame, RearmWaits,
       Rearms, AfterFrame, Restores
  <2> QED
    BY <2>1, <2>2
<1> QED
  BY Invariance, <1>1, PTL DEF Spec, ProgramUntouched

------------------------------------------------------------------------------
(***************************************************************************)
(* PollThread, for any sets of callers and workers: at most one worker     *)
(* runs the target, the latest start() or stop() is honoured, and          *)
(* is_running() is truthful.  All four follow from one inductive           *)
(* invariant, which says where the worker is in terms of who holds         *)
(* _handoff: outside a lock scope it is _thread, inside a _spawn() it is   *)
(* the thread being handed over or the one not yet published.              *)
(***************************************************************************)
P == INSTANCE PollThread

HoldsHandoff(t) == at[t] \in {"startLocked", "stopLocked"} \cup Spawning
HoldsLifecycle(t) ==
  IF t \in Callers THEN at[t] # "idle"
  ELSE at[t] \in {"start", "startLocked", "stop", "stopLocked"}

\* Callers and workers stay on their own labels.
ThreadLabels ==
  /\ \A c \in Callers : at[c] \in CallerPC
  /\ \A w \in Workers : at[w] \in WorkerPC

\* A lock's holder is where its scope says it is, and nobody else is.
LockScopes ==
  \A t \in Threads : /\ handoff = t <=> HoldsHandoff(t)
                     /\ lifecycle = t <=> HoldsLifecycle(t)

\* Every live worker is _thread, or the fresh one, or is itself spawning.
WhereWorkersAre ==
  /\ \A w \in Workers : at[w] # "dead" => thread = w \/ fresh = w \/ at[w] \in Spawning
  /\ thread # NoThread => at[thread] \notin {"dead"} \cup Spawning
  /\ fresh # NoThread => /\ at[fresh] \notin {"dead"} \cup Spawning
                         /\ thread = NoThread
  /\ \A t \in Threads : fresh # NoThread /\ HoldsHandoff(t) => at[t] = "publish"
  /\ fresh # NoThread => handoff # NoThread

\* While a _spawn() is in progress: for a start() nobody has cancelled.
SpawnInProgress ==
  \A t \in Threads : at[t] \in Spawning =>
    /\ thread = NoThread
    /\ ~queued
    /\ wanted
    /\ at[t] # "clear" => ~stopSet
    /\ at[t] = "publish" => /\ fresh # NoThread
                            /\ lost = "no" => at[fresh] \in Looping \cup {"stop"}

\* The worker goes on exactly when the latest call was a start().
Intent ==
  /\ queued => thread # NoThread /\ wanted /\ stopSet
  /\ ~wanted => \A w \in Workers : at[w] \in Looping => stopSet
  /\ ~wanted /\ thread # NoThread => stopSet
  /\ (wanted /\ lost = "no" /\ (\A t \in Threads : at[t] \notin Spawning)) =>
       /\ thread # NoThread
       /\ stopSet => queued
       /\ ~stopSet => at[thread] \in Looping \cup {"stop", "stopLocked"}

PollIInv ==
  /\ P!TypeOK
  /\ ThreadLabels
  /\ LockScopes
  /\ WhereWorkersAre
  /\ SpawnInProgress
  /\ Intent

\* No caller has called and no worker was made.
LEMMA PollInit == P!Init => PollIInv
BY CallersAssumption, DisjointAssumption
   DEF P!Init, PollIInv, P!TypeOK, ThreadLabels, LockScopes, WhereWorkersAre, SpawnInProgress,
       Intent, HoldsHandoff, HoldsLifecycle, Threads, CallerPC, WorkerPC, Looping, Spawning,
       P!Threads, P!CallerPC, P!WorkerPC, P!Looping, P!Spawning, P!Losses

\* Each step of a caller or a worker keeps the invariant.
LEMMA PollStep == PollIInv /\ [P!Next]_(P!vars) => PollIInv'
<1> SUFFICES ASSUME PollIInv, [P!Next]_(P!vars) PROVE PollIInv'
  OBVIOUS
<1> USE CallersAssumption, DisjointAssumption
    DEF PollIInv, P!TypeOK, ThreadLabels, LockScopes, WhereWorkersAre, SpawnInProgress, Intent,
        HoldsHandoff, HoldsLifecycle, P!Goto, Threads, CallerPC, WorkerPC, Looping, Spawning,
        P!Threads, P!CallerPC, P!WorkerPC, P!Looping, P!Spawning
<1>1. ASSUME NEW c \in Callers, P!CallStart(c) PROVE PollIInv'
  BY <1>1 DEF P!CallStart
<1>2. ASSUME NEW t \in Threads, P!StartAcquire(t) PROVE PollIInv'
  BY <1>2 DEF P!StartAcquire
<1>3. ASSUME NEW t \in Threads, P!StartSpawns(t) PROVE PollIInv'
  <2>1. t \in Callers
    BY <1>3 DEF P!StartSpawns
  <2>2. t \notin Workers
    BY <2>1
  <2>3. P!TypeOK'
    BY <1>3 DEF P!StartSpawns, P!Losses
  <2>4. ThreadLabels'
    BY <1>3, <2>1, <2>2 DEF P!StartSpawns
  <2>5. LockScopes'
    BY <1>3, <2>1 DEF P!StartSpawns
  <2>6. WhereWorkersAre'
    BY <1>3, <2>2 DEF P!StartSpawns
  <2>7. SpawnInProgress'
    BY <1>3 DEF P!StartSpawns
  <2>8. Intent'
    BY <1>3, <2>2 DEF P!StartSpawns
  <2>9. QED
    BY <2>3, <2>4, <2>5, <2>6, <2>7, <2>8
<1>4. ASSUME NEW t \in Threads, P!StartKeeps(t) PROVE PollIInv'
  <2>1. P!TypeOK'
    BY <1>4 DEF P!StartKeeps, P!Started, P!Losses
  <2>2. ThreadLabels'
    BY <1>4 DEF P!StartKeeps, P!Started
  <2>3. LockScopes'
    BY <1>4 DEF P!StartKeeps, P!Started
  <2>4. WhereWorkersAre'
    BY <1>4 DEF P!StartKeeps, P!Started
  <2>5. SpawnInProgress'
    BY <1>4 DEF P!StartKeeps, P!Started
  <2>6. Intent'
    <3>1. thread' = thread /\ stopSet' = stopSet /\ wanted' /\ thread \in Workers
      BY <1>4 DEF P!StartKeeps
    <3>2. (queued' => stopSet) /\ (stopSet => queued')
      BY <1>4 DEF P!StartKeeps
    <3>3. ~stopSet /\ lost' = "no" => at[thread] # "exit"
      BY <1>4 DEF P!StartKeeps
    <3>4. at[thread] \in WorkerPC \ ({"dead"} \cup Spawning)
      BY <3>1
    <3>5. t = thread => at[t] = "startLocked" /\ at'[t] = "target"
      BY <1>4, <3>1 DEF P!StartKeeps, P!Started
    <3>6. t # thread => at'[thread] = at[thread]
      BY <1>4, <3>1 DEF P!StartKeeps, P!Started
    <3>7. ~stopSet /\ lost' = "no" => at'[thread] \in Looping \cup {"stop", "stopLocked"}
      BY <3>3, <3>4, <3>5, <3>6
    <3>8. QED
      BY <3>1, <3>2, <3>7
  <2>7. QED
    BY <2>1, <2>2, <2>3, <2>4, <2>5, <2>6
<1>5. ASSUME NEW c \in Callers, P!CallStop(c) PROVE PollIInv'
  BY <1>5 DEF P!CallStop
<1>6. ASSUME NEW c \in Callers, P!StopRequest(c) PROVE PollIInv'
  BY <1>6, ZenonT(40) DEF P!StopRequest, P!RequestStop
<1>7. ASSUME NEW c \in Callers, P!StopReturn(c) PROVE PollIInv'
  BY <1>7 DEF P!StopReturn
<1>8. ASSUME NEW w \in Workers, P!LoopCheck(w) PROVE PollIInv'
  BY <1>8 DEF P!LoopCheck
<1>9. ASSUME NEW w \in Workers, P!TargetReturns(w) PROVE PollIInv'
  BY <1>9 DEF P!TargetReturns
<1>10. ASSUME NEW w \in Workers, P!TargetEnds(w) PROVE PollIInv'
  BY <1>10 DEF P!TargetEnds, P!Losses
<1>11. ASSUME NEW w \in Workers, P!ExitHandover(w) PROVE PollIInv'
  <2>1. P!TypeOK'
    <3>1. CASE queued
      BY <1>11, <3>1, ZenonT(40) DEF P!ExitHandover
    <3>2. CASE ~queued
      BY <1>11, <3>2, ZenonT(40) DEF P!ExitHandover
    <3>3. QED
      BY <3>1, <3>2
  <2>2. ThreadLabels'
    BY <1>11 DEF P!ExitHandover
  <2>3. LockScopes'
    BY <1>11 DEF P!ExitHandover
  <2>4. WhereWorkersAre'
    BY <1>11 DEF P!ExitHandover
  <2>5. SpawnInProgress'
    BY <1>11 DEF P!ExitHandover
  <2>6. Intent'
    BY <1>11 DEF P!ExitHandover
  <2>7. QED
    BY <2>1, <2>2, <2>3, <2>4, <2>5, <2>6
<1>12. ASSUME NEW w \in Workers, P!SelfStop(w) PROVE PollIInv'
  BY <1>12 DEF P!SelfStop
<1>13. ASSUME NEW w \in Workers, P!SelfStopRaises(w) PROVE PollIInv'
  <2>1. P!TypeOK'
    BY <1>13 DEF P!SelfStopRaises, P!RequestStop
  <2>2. ThreadLabels'
    BY <1>13 DEF P!SelfStopRaises, P!RequestStop
  <2>3. LockScopes'
    BY <1>13 DEF P!SelfStopRaises, P!RequestStop
  <2>4. WhereWorkersAre'
    BY <1>13 DEF P!SelfStopRaises, P!RequestStop
  <2>5. SpawnInProgress'
    BY <1>13 DEF P!SelfStopRaises, P!RequestStop
  <2>6. Intent'
    BY <1>13 DEF P!SelfStopRaises, P!RequestStop
  <2>7. QED
    BY <2>1, <2>2, <2>3, <2>4, <2>5, <2>6
<1>14. ASSUME NEW t \in Threads, P!StopAcquire(t) PROVE PollIInv'
  BY <1>14 DEF P!StopAcquire
<1>15. ASSUME NEW t \in Threads, P!SpawnClear(t) PROVE PollIInv'
  BY <1>15, ZenonT(40) DEF P!SpawnClear
<1>16. ASSUME NEW t \in Threads, P!SpawnStart(t) PROVE PollIInv'
  BY <1>16 DEF P!SpawnStart, P!Unused
<1>17. ASSUME NEW t \in Threads, P!SpawnPublish(t) PROVE PollIInv'
  BY <1>17 DEF P!SpawnPublish
<1>18. ASSUME NEW t \in Threads, P!SpawnFails(t) PROVE PollIInv'
  BY <1>18 DEF P!SpawnFails, P!Losses
<1>19. ASSUME NEW w \in Workers, P!SelfStart(w) PROVE PollIInv'
  BY <1>19 DEF P!SelfStart
<1>20. CASE UNCHANGED P!vars
  BY <1>20 DEF P!vars
<1>21. QED
  BY <1>1, <1>2, <1>3, <1>4, <1>5, <1>6, <1>7, <1>8, <1>9, <1>10, <1>11, <1>12, <1>13, <1>14,
     <1>15, <1>16, <1>17, <1>20, <1>18, <1>19 DEF P!Next, P!CallerNext, P!WorkerNext, P!EitherNext

\* Where the worker is, at every step of every caller.
THEOREM PollInvariance == P!Spec => []PollIInv
<1>1. P!Init => PollIInv
  BY PollInit
<1>2. PollIInv /\ [P!Next]_(P!vars) => PollIInv'
  BY PollStep
<1>3. QED
  BY <1>1, <1>2, PTL DEF P!Spec

(* However start() and stop() interleave, one worker at most runs the target. *)
THEOREM OneWorkerHolds == P!Spec => []OneWorker
<1>1. PollIInv => OneWorker
  BY CallersAssumption, DisjointAssumption
     DEF PollIInv, OneWorker, P!TypeOK, ThreadLabels, LockScopes, WhereWorkersAre, SpawnInProgress,
         HoldsHandoff, Threads, Looping, Spawning, P!Threads, P!Looping, P!Spawning
<1>2. QED
  BY <1>1, PollInvariance, PTL

(* A stop() holds until the next start(). *)
THEOREM StopSticksHolds == P!Spec => []StopSticks
<1>1. PollIInv => StopSticks
  BY DEF PollIInv, StopSticks, Intent
<1>2. QED
  BY <1>1, PollInvariance, PTL

(* A start() is served until the next stop(), unless its worker ends by itself,
   had ended already when it came, or no thread could be made for it. *)
THEOREM StartSticksHolds == P!Spec => []StartSticks
<1>1. PollIInv => StartSticks
  <2> SUFFICES ASSUME PollIInv, wanted, lost = "no", handoff = NoThread PROVE StartSticks
    BY DEF StartSticks
  <2>1. \A t \in Threads : ~HoldsHandoff(t)
    BY CallersAssumption, DisjointAssumption DEF PollIInv, LockScopes, Threads
  <2>2. QED
    BY CallersAssumption, DisjointAssumption, <2>1
       DEF PollIInv, StartSticks, P!TypeOK, WhereWorkersAre, Intent, HoldsHandoff,
           Threads, Looping, Spawning, P!Threads
<1>2. QED
  BY <1>1, PollInvariance, PTL

(* is_running() reports a live worker, abandoned or not, and only a live one. *)
THEOREM IsRunningTruthfulHolds == P!Spec => []IsRunningTruthful
<1>1. PollIInv => IsRunningTruthful
  <2> SUFFICES ASSUME PollIInv, handoff = NoThread, NEW w \in Workers
               PROVE  at[w] # "dead" <=> thread = w
    BY DEF IsRunningTruthful
  <2>1. \A t \in Threads : ~HoldsHandoff(t)
    BY CallersAssumption, DisjointAssumption DEF PollIInv, LockScopes, Threads
  <2>2. fresh = NoThread
    BY CallersAssumption, DisjointAssumption DEF PollIInv, WhereWorkersAre
  <2>3. QED
    BY CallersAssumption, DisjointAssumption, <2>1, <2>2
       DEF PollIInv, P!TypeOK, WhereWorkersAre, HoldsHandoff, Threads, Spawning, P!Threads
<1>2. QED
  BY <1>1, PollInvariance, PTL
=============================================================================
