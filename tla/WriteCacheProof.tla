-------------------------- MODULE WriteCacheProof --------------------------
(***************************************************************************)
(* Theorems about WriteCache, for any regions, slabs, values, tries and    *)
(* faults: write_confirmed() (hw/delivery.py) returns True only behind a   *)
(* write the machine has run, and write_region() (hw/backend.py) never     *)
(* skips bytes the machine does not have.                                  *)
(*                                                                         *)
(* Neither is inductive.  For the first, IInv follows the routine from the *)
(* write to the verdict, by a count that only grows.  For the second, CInv *)
(* adds that the epoch of the cache is such a count too, so that a loss or *)
(* a failed write, at whatever point of a push, leaves it behind for good; *)
(* and that a push under way has sent what it no longer lists as to send.  *)
(***************************************************************************)
EXTENDS WriteCache, SequenceTheorems, FiniteSetTheorems, TLAPS

\* The mark is a past value of a count that only grows.
MarkIsPast == cpc \in {"write", "check", "flush", "verdict"} => mark <= Mark

\* As long as the count has not moved, the routine has run or is on its way,
\* on a link that owes its thread an answer; behind the flush it has run.
OnItsWay ==
  Mark = mark =>
    /\ cpc \in {"check", "flush"} =>
         routine \/ ("other" \in owing /\ (dropped \/ Routine \in Range(wire)))
    /\ cpc = "verdict" => routine

\* The inductive invariant.
IInv == TypeOK /\ MarkIsPast /\ OnItsWay /\ ConfirmedHasRun

\* Nothing is on an empty wire.
LEMMA EmptyWire == Range(<<>>) = {} /\ <<>> \in Seq(Range(<<>>))
BY DEF Range

\* An accepted write is on the wire with what was there before.
LEMMA LongerWire ==
  ASSUME NEW s, s \in Seq(Range(s)), NEW e
  PROVE  Range(Append(s, e)) = Range(s) \cup {e} /\ Append(s, e) \in Seq(Range(Append(s, e)))
<1> DEFINE S == Range(s) \cup {e}
<1>0. s \in Seq(S)
  OBVIOUS
<1>1. Append(s, e) \in Seq(S) /\ DOMAIN Append(s, e) = 1 .. Len(s) + 1
  BY <1>0
<1>2. Range(Append(s, e)) \subseteq S
  BY <1>1 DEF Range
<1>3. \A x \in Range(s) : x \in Range(Append(s, e))
  <2> SUFFICES ASSUME NEW i \in 1 .. Len(s) PROVE s[i] \in Range(Append(s, e))
    BY <1>0 DEF Range
  <2>1. Append(s, e)[i] = s[i] /\ i \in 1 .. Len(s) + 1
    BY <1>0
  <2> QED
    BY <1>1, <2>1 DEF Range
<1>4. e \in Range(Append(s, e))
  <2>1. Append(s, e)[Len(s) + 1] = e /\ Len(s) + 1 \in 1 .. Len(s) + 1
    BY <1>0
  <2> QED
    BY <1>1, <2>1 DEF Range
<1> QED
  BY <1>1, <1>2, <1>3, <1>4

\* A write that ran leaves the others.
LEMMA ShorterWire ==
  ASSUME NEW s, s \in Seq(Range(s)), s # <<>>
  PROVE  /\ Tail(s) \in Seq(Range(Tail(s)))
         /\ \A e \in Range(s) : e = Head(s) \/ e \in Range(Tail(s))
<1>1. Tail(s) \in Seq(Range(s)) /\ DOMAIN Tail(s) = 1 .. Len(s) - 1
  OBVIOUS
<1>2. Tail(s) \in Seq(Range(Tail(s)))
  BY <1>1, SeqOfRange
<1>3. ASSUME NEW i \in 1 .. Len(s) PROVE s[i] = Head(s) \/ s[i] \in Range(Tail(s))
  <2>1. CASE i = 1
    BY <2>1
  <2>2. CASE i # 1
    <3>1. i - 1 \in 1 .. Len(s) - 1 /\ Tail(s)[i - 1] = s[i]
      BY <2>2
    <3> QED
      BY <1>1, <3>1 DEF Range
  <2> QED
    BY <2>1, <2>2
<1>4. \A e \in Range(s) : \E i \in 1 .. Len(s) : e = s[i]
  BY DEF Range
<1> QED
  BY <1>2, <1>3, <1>4

\* A loss is charged to a thread that owes, and to no other.
LEMMA Charging ==
  ASSUME TypeOK, L!CountLoss(owing)
  PROVE  /\ wire' = <<>> /\ owing' = {} /\ ~dropped' /\ losses' \in Nat
         /\ pending' \subseteq Threads /\ charges' \in [Threads -> Nat]
         /\ "other" \in owing => charges'["other"] = charges["other"] + 1
         /\ "other" \notin owing => charges'["other"] = charges["other"]
BY DEF TypeOK, L!CountLoss, Threads

\* The rest of the types are those of what a loss leaves alone.
LEMMA LossKeepsTypes ==
  ASSUME TypeOK, L!CountLoss(owing), cacheEpoch' = cacheEpoch, errors' = errors, failed' = failed,
         pc' = pc, seen' = seen, tries' = tries, mark' = mark, changes' = changes,
         cpc' \in {cpc, "verdict"}, faults' \in 0 .. MaxFaults
  PROVE  TypeOK'
<1>1. wire' \in Seq(Range(wire')) /\ owing' \subseteq Threads
  BY Charging, EmptyWire
<1>2. losses' \in Nat /\ pending' \subseteq Threads /\ charges' \in [Threads -> Nat]
  BY Charging
<1>3. cacheEpoch' \in Nat /\ errors' \in Nat /\ failed' \in [Threads -> Nat] /\ seen' \in Nat
  BY DEF TypeOK
<1>4. /\ pc' \in {"idle", "epoch", "emit"}
      /\ cpc' \in {"begin", "write", "check", "flush", "verdict", "confirmed", "gave_up"}
  BY DEF TypeOK
<1>5. tries' \in Nat /\ mark' \in Nat /\ changes' \in 0 .. MaxChanges
  BY DEF TypeOK
<1> QED
  BY <1>1, <1>2, <1>3, <1>4, <1>5 DEF TypeOK, Threads

\* What takes from the bound on faults stays within it.
LEMMA FaultsBounded ==
  ASSUME TypeOK, faults' = faults \/ Faulty
  PROVE  faults' \in 0 .. MaxFaults
BY CacheAssumption DEF TypeOK, Faulty

\* Before the first call nothing is sent, marked or confirmed.
THEOREM IInvInit == Init => IInv
BY CacheAssumption, EmptyWire DEF Init, L!LinkInit, IInv, TypeOK, MarkIsPast, OnItsWay,
   ConfirmedHasRun, Threads, Mark

\* Every step of either thread, of the link and of the machine keeps it.
THEOREM IInvStep == IInv /\ [Next]_vars => IInv'
<1> SUFFICES ASSUME IInv, [Next]_vars PROVE IInv'
  OBVIOUS
<1> USE CacheAssumption, EmptyWire DEF IInv, TypeOK, MarkIsPast, OnItsWay, ConfirmedHasRun, Threads,
     Mark, link, backend, failures, push, confirm, machine
<1>1. ASSUME NEW r \in Regions, NEW c \in Content, PictureChanges(r, c) PROVE IInv'
  BY <1>1 DEF PictureChanges
<1>2. ASSUME NEW r \in Regions, ReadsErrors(r) PROVE IInv'
  BY <1>2 DEF ReadsErrors
<1>3. CASE ReadsLosses
  BY <1>3 DEF ReadsLosses
<1>4. CASE Emits
  BY <1>4, LongerWire DEF Emits, Sends, NextPiece, L!Accept
<1>5. CASE EmitFails
  BY <1>5 DEF EmitFails, NoteEmitFailure, NextPiece, Faulty
<1>6. CASE ResetMachine
  <2>1. CASE L!Settle
    BY <1>6, <2>1 DEF ResetMachine, L!Settle, Faulty
  <2>2. CASE L!CountLoss(owing)
    <3>1. failed' = failed /\ UNCHANGED <<mark, routine, tries, errors>>
      BY <1>6 DEF ResetMachine
    <3>2. TypeOK'
      <4>1. cpc' \in {cpc, "verdict"} /\ faults' \in 0 .. MaxFaults
        BY <1>6, FaultsBounded DEF ResetMachine
      <4> QED
        BY <1>6, <2>2, <4>1, LossKeepsTypes DEF ResetMachine
    <3>3. MarkIsPast' /\ OnItsWay' /\ ConfirmedHasRun'
      BY <1>6, <2>2, <3>1, Charging DEF ResetMachine
    <3> QED
      BY <3>2, <3>3
  <2> QED
    BY <1>6, <2>1, <2>2 DEF ResetMachine
<1>7. CASE TakesMark
  BY <1>7 DEF TakesMark
<1>8. CASE WritesRoutine
  <2>1. CASE Sends("other", Routine) /\ UNCHANGED <<failures, faults>>
    <3>1. Range(wire') = Range(wire) \cup {Routine} /\ wire' \in Seq(Range(wire'))
      BY <2>1, LongerWire DEF Sends, L!Accept
    <3> QED
      BY <1>8, <2>1, <3>1 DEF WritesRoutine, Sends, L!Accept, NoteEmitFailure, Faulty
  <2>2. CASE NoteEmitFailure("other") /\ UNCHANGED link
    <3>1. failed' \in [Threads -> Nat] /\ failed'["other"] = failed["other"] + 1
      BY <2>2 DEF NoteEmitFailure
    <3>2. errors' \in Nat /\ faults' \in 0 .. MaxFaults
      BY <2>2, FaultsBounded DEF NoteEmitFailure
    <3>3. cpc' = "check" /\ UNCHANGED <<link, backend, picture, push, tries, mark, machine, changes>>
      BY <1>8, <2>2 DEF WritesRoutine
    <3>4. TypeOK'
      BY <3>1, <3>2, <3>3
    <3>5. charges["other"] \in Nat /\ failed["other"] \in Nat /\ mark \in Nat /\ mark <= Mark
      BY <1>8 DEF WritesRoutine
    <3>6. mark' # Mark'
      BY <3>1, <3>3, <3>5
    <3>7. MarkIsPast'
      BY <3>1, <3>3, <3>5
    <3> QED
      BY <3>3, <3>4, <3>6, <3>7
  <2> QED
    BY <1>8, <2>1, <2>2 DEF WritesRoutine
<1>9. CASE WriteRaises
  BY <1>9 DEF WriteRaises, NextTry, Faulty
<1>10. CASE ChecksMark
  BY <1>10 DEF ChecksMark, NextTry
<1>11. CASE Flushes
  <2>1. CASE L!Settle
    BY <1>11, <2>1 DEF Flushes, L!Settle, Faulty
  <2>2. CASE L!CountLoss(owing)
    <3>1. failed' = failed /\ UNCHANGED <<mark, routine, tries, errors>>
      BY <1>11 DEF Flushes
    <3>2. TypeOK'
      <4>1. cpc' \in {cpc, "verdict"} /\ faults' \in 0 .. MaxFaults
        BY <1>11, FaultsBounded DEF Flushes
      <4> QED
        BY <1>11, <2>2, <4>1, LossKeepsTypes DEF Flushes
    <3>3. MarkIsPast' /\ OnItsWay' /\ ConfirmedHasRun'
      BY <1>11, <2>2, <3>1, Charging DEF Flushes
    <3> QED
      BY <3>2, <3>3
  <2>3. CASE owing = {} /\ Faulty /\ UNCHANGED link
    BY <1>11, <2>3 DEF Flushes, Faulty
  <2> QED
    BY <1>11, <2>1, <2>2, <2>3 DEF Flushes
<1>12. CASE Verdict
  BY <1>12 DEF Verdict, L!FlushEnds, NextTry
<1>13. CASE MachineRuns
  BY <1>13, ShorterWire DEF MachineRuns, L!Run
<1>14. CASE LinkDrops
  BY <1>14 DEF LinkDrops, L!Drop, Faulty
<1>15. CASE LinkNotices
  <2>1. TypeOK'
    BY <1>15, Charging DEF LinkNotices
  <2>2. MarkIsPast' /\ OnItsWay' /\ ConfirmedHasRun'
    BY <1>15, Charging DEF LinkNotices
  <2> QED
    BY <2>1, <2>2
<1>16. CASE LinkSettles
  <2>1. CASE L!Settle
    BY <1>16, <2>1 DEF LinkSettles, L!Settle, Faulty
  <2>2. CASE L!CountLoss(owing)
    <3>1. failed' = failed /\ UNCHANGED <<mark, routine, tries, errors>>
      BY <1>16 DEF LinkSettles
    <3>2. TypeOK'
      <4>1. cpc' \in {cpc, "verdict"} /\ faults' \in 0 .. MaxFaults
        BY <1>16, FaultsBounded DEF LinkSettles
      <4> QED
        BY <1>16, <2>2, <4>1, LossKeepsTypes DEF LinkSettles
    <3>3. MarkIsPast' /\ OnItsWay' /\ ConfirmedHasRun'
      BY <1>16, <2>2, <3>1, Charging DEF LinkSettles
    <3> QED
      BY <3>2, <3>3
  <2> QED
    BY <1>16, <2>1, <2>2 DEF LinkSettles
<1>17. CASE UNCHANGED vars
  BY <1>17 DEF vars
<1> QED
  BY <1>1, <1>2, <1>3, <1>4, <1>5, <1>6, <1>7, <1>8, <1>9, <1>10, <1>11, <1>12, <1>13, <1>14,
     <1>15, <1>16, <1>17 DEF Next, Render, Confirm

\* The invariant holds of every behaviour of the two threads.
THEOREM Invariance == Spec => []IInv
BY IInvInit, IInvStep, PTL DEF Spec

\* The control and the books keep their types.
THEOREM TypeCorrect == Spec => []TypeOK
<1>1. IInv => TypeOK
  BY DEF IInv
<1> QED
  BY <1>1, Invariance, PTL

\* write_confirmed() returns True only for a write the machine has run.
THEOREM ConfirmedHasRunHolds == Spec => []ConfirmedHasRun
<1>1. IInv => ConfirmedHasRun
  BY DEF IInv
<1> QED
  BY <1>1, Invariance, PTL

-----------------------------------------------------------------------------
\* The cache.

\* What the render thread works on.
DataOK ==
  /\ picture \in [Regions -> Content] /\ cache \in [Regions -> Content \cup {Absent}]
  /\ DOMAIN mem = Regions /\ \A r \in Regions : DOMAIN mem[r] = Slabs
  /\ \A i \in DOMAIN wire : DOMAIN wire[i].data \subseteq Slabs
  /\ pc \in {"epoch", "emit"} => region \in Regions
  /\ pc = "emit" => todo \in Seq(SUBSET Slabs) /\ todo # <<>>

\* The epochs are past values of counts that only grow.
EpochIsPast == cacheEpoch <= errors + losses /\ (pc = "epoch" => seen <= errors)

\* The epoch of the cache is the link's, with no loss waiting to be found.
Fresh == cacheEpoch = errors + losses /\ ~dropped

\* A push under way has yet to send a slab, or the machine will have it.
PushIsTrue ==
  Fresh /\ pc = "emit" =>
    \A slab \in Slabs :
      slab \in UNION Range(todo) \/ WillHold(region, slab, picture[region][slab])

\* What is inductive, with TypeOK.
CInv == DataOK /\ EpochIsPast /\ CacheIsTrue /\ PushIsTrue

\* What is sent is behind what was on the wire.
LEMMA Behind ==
  ASSUME NEW s, s \in Seq(Range(s)), NEW e
  PROVE  /\ DOMAIN Append(s, e) = DOMAIN s \cup {Len(s) + 1}
         /\ Len(s) \in Nat /\ DOMAIN s = 1 .. Len(s)
         /\ \A i \in DOMAIN s : Append(s, e)[i] = s[i]
         /\ Append(s, e)[Len(s) + 1] = e
<1>1. s \in Seq(Range(s) \cup {e})
  OBVIOUS
<1> QED
  BY <1>1, AppendProperties, LenProperties

\* A write that does not cover a slab leaves what it will be,
LEMMA OtherWrite ==
  ASSUME TypeOK, NEW e, wire' = Append(wire, e), mem' = mem, NEW r, NEW slab, NEW v,
         ~(e.to = r /\ slab \in DOMAIN e.data), WillHold(r, slab, v)
  PROVE  WillHold(r, slab, v)'
<1>0. PICK n \in Nat : n = Len(wire)
  BY Behind DEF TypeOK
<1>1. /\ DOMAIN wire' = DOMAIN wire \cup {n + 1} /\ DOMAIN wire = 1 .. n
      /\ \A i \in DOMAIN wire : wire'[i] = wire[i]
      /\ wire'[n + 1] = e
  BY <1>0, Behind DEF TypeOK
<1>2. /\ \A i \in DOMAIN wire : Covers(i, r, slab)' <=> Covers(i, r, slab)
      /\ ~Covers(n + 1, r, slab)'
  BY <1>1 DEF Covers
<1>3. CASE mem[r][slab] = v /\ \A i \in DOMAIN wire : ~Covers(i, r, slab)
  BY <1>1, <1>2, <1>3 DEF WillHold
<1>4. ASSUME NEW i \in DOMAIN wire, Covers(i, r, slab), wire[i].data[slab] = v,
             \A j \in DOMAIN wire : Covers(j, r, slab) => j <= i
      PROVE  WillHold(r, slab, v)'
  <2>1. i \in DOMAIN wire' /\ Covers(i, r, slab)' /\ wire'[i].data[slab] = v
    BY <1>1, <1>2, <1>4
  <2>2. \A j \in DOMAIN wire' : Covers(j, r, slab)' => j <= i
    BY <1>1, <1>2, <1>4
  <2> QED
    BY <2>1, <2>2 DEF WillHold
<1> QED
  BY <1>3, <1>4 DEF WillHold

\* and one that does decides it.
LEMMA ThisWrite ==
  ASSUME TypeOK, NEW e, wire' = Append(wire, e), NEW slab \in DOMAIN e.data
  PROVE  WillHold(e.to, slab, e.data[slab])'
<1>0. PICK n \in Nat : n = Len(wire)
  BY Behind DEF TypeOK
<1>1. DOMAIN wire' = DOMAIN wire \cup {n + 1} /\ DOMAIN wire = 1 .. n /\ wire'[n + 1] = e
  BY <1>0, Behind DEF TypeOK
<1>2. Covers(n + 1, e.to, slab)' /\ \A j \in DOMAIN wire' : j <= n + 1
  BY <1>1 DEF Covers
<1> QED
  BY <1>1, <1>2 DEF WillHold

\* Running the oldest write changes nothing of what will be.
LEMMA RunsTowards ==
  ASSUME TypeOK, DataOK, MachineRuns,
         NEW r \in Regions, NEW slab \in Slabs, NEW v, WillHold(r, slab, v)
  PROVE  WillHold(r, slab, v)'
<1>1. wire # <<>> /\ wire' = Tail(wire) /\ mem' = Applied(mem, Head(wire))
  BY DEF MachineRuns, L!Run
<1>2. Len(wire) \in Nat \ {0} /\ DOMAIN wire = 1 .. Len(wire) /\ Head(wire) = wire[1]
  BY <1>1 DEF TypeOK
<1>3. DOMAIN wire' = 1 .. Len(wire) - 1 /\ \A i \in 1 .. Len(wire) - 1 : wire'[i] = wire[i + 1]
  BY <1>1 DEF TypeOK
<1>4. \A i \in 1 .. Len(wire) - 1 : Covers(i, r, slab)' <=> Covers(i + 1, r, slab)
  BY <1>3 DEF Covers
<1>5. mem'[r][slab] = IF Covers(1, r, slab) THEN wire[1].data[slab] ELSE mem[r][slab]
  BY <1>1, <1>2 DEF Applied, Covers, DataOK
<1>6. CASE mem[r][slab] = v /\ \A i \in DOMAIN wire : ~Covers(i, r, slab)
  BY <1>2, <1>3, <1>4, <1>5, <1>6 DEF WillHold
<1>7. ASSUME NEW i \in DOMAIN wire, Covers(i, r, slab), wire[i].data[slab] = v,
             \A j \in DOMAIN wire : Covers(j, r, slab) => j <= i
      PROVE  WillHold(r, slab, v)'
  <2>1. CASE i = 1
    <3>1. \A j \in 1 .. Len(wire) - 1 : ~Covers(j, r, slab)'
      BY <1>2, <1>4, <1>7, <2>1
    <3>2. mem'[r][slab] = v
      BY <1>5, <1>7, <2>1
    <3> QED
      BY <1>3, <3>1, <3>2 DEF WillHold
  <2>2. CASE i # 1
    <3>1. i - 1 \in 1 .. Len(wire) - 1 /\ i - 1 + 1 = i
      BY <1>2, <2>2
    <3>2. Covers(i - 1, r, slab)' /\ wire'[i - 1].data[slab] = v
      BY <1>3, <1>4, <1>7, <3>1
    <3>3. \A j \in 1 .. Len(wire) - 1 : Covers(j, r, slab)' => j <= i - 1
      BY <1>2, <1>4, <1>7
    <3> QED
      BY <1>3, <3>1, <3>2, <3>3 DEF WillHold
  <2> QED
    BY <2>1, <2>2
<1> QED
  BY <1>6, <1>7 DEF WillHold

\* What is remembered stays true as long as no loss is found out.
LEMMA StaysTrue ==
  ASSUME DataOK, CacheIsTrue, PushIsTrue,
         UNCHANGED <<cache, cacheEpoch, picture, pc, region, todo>>,
         Fresh' => Fresh /\ \A r \in Regions, slab \in Slabs, v \in Values :
                              WillHold(r, slab, v) => WillHold(r, slab, v)'
  PROVE  CacheIsTrue' /\ PushIsTrue'
<1> SUFFICES ASSUME Fresh' PROVE CacheIsTrue' /\ PushIsTrue'
  BY DEF CacheIsTrue, PushIsTrue, Fresh
<1>1. ASSUME NEW r \in Regions, cache[r] # Absent, pc # "emit" \/ region # r, NEW slab \in Slabs
      PROVE  WillHold(r, slab, cache[r][slab])'
  <2>1. WillHold(r, slab, cache[r][slab]) /\ cache[r][slab] \in Values
    BY <1>1 DEF CacheIsTrue, Fresh, DataOK, Content
  <2>2. PICK v \in Values : v = cache[r][slab] /\ v = cache'[r][slab]
    BY <2>1
  <2> QED
    BY <2>1, <2>2
<1>2. ASSUME pc = "emit", NEW slab \in Slabs, slab \notin UNION Range(todo)
      PROVE  WillHold(region, slab, picture[region][slab])'
  <2>1. region \in Regions /\ picture[region][slab] \in Values
        /\ WillHold(region, slab, picture[region][slab])
    BY <1>2 DEF PushIsTrue, DataOK, Content
  <2>2. PICK r \in Regions, v \in Values : r = region /\ v = picture[region][slab]
    BY <2>1
  <2>3. WillHold(r, slab, v)'
    BY <2>1, <2>2
  <2>4. r = region' /\ v = picture'[region'][slab]
    BY <2>2
  <2> QED
    BY <2>3, <2>4
<1> QED
  BY <1>1, <1>2 DEF CacheIsTrue, PushIsTrue, Fresh

\* Once one is, nothing is claimed.
LEMMA LossIsSeen ==
  ASSUME TypeOK, EpochIsPast, cacheEpoch' = cacheEpoch,
         \/ errors' = errors /\ L!CountLoss(owing)
         \/ errors' = errors + 1 /\ losses' = losses
  PROVE  ~Fresh' /\ cacheEpoch' <= errors' + losses' /\ errors <= errors'
BY DEF TypeOK, EpochIsPast, Fresh, L!CountLoss

\* The cache is empty before the first push.
THEOREM CInvInit == Init => CInv
<1> SUFFICES ASSUME Init PROVE CInv
  OBVIOUS
<1>1. (CHOOSE c \in Content : TRUE) \in Content
  <2>1. PICK v \in Values : TRUE
    BY CacheAssumption
  <2>2. [s \in Slabs |-> v] \in Content
    BY DEF Content
  <2> QED
    BY <2>2
<1>2. DataOK
  BY <1>1 DEF Init, DataOK, L!LinkInit
<1>3. EpochIsPast /\ CacheIsTrue /\ PushIsTrue
  BY DEF Init, L!LinkInit, EpochIsPast, CacheIsTrue, PushIsTrue, Absent
<1> QED
  BY <1>2, <1>3 DEF CInv

\* The span covers what is dirty, and so do the dirty slabs one by one.
LEMMA PlansCover ==
  ASSUME NEW old, NEW new, NEW plan \in Plans(old, new)
  PROVE  /\ plan \in Seq(SUBSET Slabs)
         /\ old = Absent => Slabs \subseteq UNION Range(plan)
         /\ \A s \in Slabs : old # Absent /\ old[s] # new[s] => s \in UNION Range(plan)
<1> DEFINE dirty == {s \in Slabs : old[s] # new[s]}
<1>1. CASE old = Absent
  <2>1. plan = <<Slabs>>
    BY <1>1 DEF Plans
  <2>2. Range(<<Slabs>>) = {Slabs}
    BY DEF Range
  <2> QED
    BY <1>1, <2>1, <2>2
<1>2. CASE old # Absent /\ dirty = {}
  <2>1. plan = <<>>
    BY <1>2 DEF Plans
  <2> QED
    BY <1>2, <2>1
<1>3. CASE plan = <<Span(dirty)>> /\ old # Absent
  <2>1. Span(dirty) \subseteq Slabs /\ dirty \subseteq Span(dirty)
    BY CacheAssumption DEF Span, Slabs
  <2>2. Range(<<Span(dirty)>>) = {Span(dirty)}
    BY DEF Range
  <2>3. plan \in Seq(SUBSET Slabs) /\ UNION Range(plan) = Span(dirty)
    BY <1>3, <2>1, <2>2
  <2> QED
    BY <1>3, <2>1, <2>3
<1>4. ASSUME old # Absent, NEW q \in Ascending(dirty), plan = [i \in DOMAIN q |-> {q[i]}]
      PROVE  plan \in Seq(SUBSET Slabs) /\ \A s \in dirty : s \in UNION Range(plan)
  <2>1. Cardinality(dirty) \in Nat
    <3>1. IsFiniteSet(Slabs)
      BY FS_Interval, CacheAssumption DEF Slabs
    <3> QED
      BY <3>1, FS_Subset, FS_CardinalityType
  <2>2. DOMAIN q = 1 .. Cardinality(dirty) /\ Range(q) = dirty
    BY DEF Ascending
  <2>3. \A i \in DOMAIN q : q[i] \in Slabs
    BY DEF Ascending
  <2>4. plan \in Seq(SUBSET Slabs)
    <3>1. plan \in [1 .. Cardinality(dirty) -> SUBSET Slabs]
      BY <1>4, <2>2, <2>3
    <3> HIDE DEF dirty
    <3> QED
      BY <2>1, <3>1, SeqDef
  <2>5. \A s \in dirty : \E i \in DOMAIN q : q[i] = s
    BY <2>2 DEF Range
  <2> QED
    BY <1>4, <2>4, <2>5 DEF Range
<1> QED
  BY <1>1, <1>2, <1>3, <1>4 DEF Plans

\* A new picture, a look at the epoch and a reset leave nothing to be sent.
LEMMA CacheBetweenPushes ==
  ASSUME TypeOK, CInv,
         \/ \E r \in Regions : ReadsErrors(r) \/ \E c \in Content : PictureChanges(r, c)
         \/ ResetMachine
  PROVE  CInv'
<1> USE DEF CInv, DataOK, EpochIsPast
<1>1. ASSUME NEW r \in Regions, ReadsErrors(r) PROVE CInv'
  <2>1. /\ pc = "idle" /\ pc' = "epoch" /\ region' = r /\ seen' = errors
        /\ UNCHANGED <<link, backend, failures, picture, todo, machine>>
    BY <1>1 DEF ReadsErrors
  <2>2. DataOK' /\ EpochIsPast'
    BY <2>1 DEF link, backend, failures, machine, TypeOK
  <2>3. CacheIsTrue' /\ PushIsTrue'
    BY <2>1 DEF link, backend, failures, machine, CacheIsTrue, PushIsTrue, Fresh, WillHold, Covers
  <2> QED
    BY <2>2, <2>3
<1>2. ASSUME NEW r \in Regions, NEW c \in Content, PictureChanges(r, c) PROVE CInv'
  <2>1. /\ pc = "idle" /\ picture' = [picture EXCEPT ![r] = c]
        /\ UNCHANGED <<link, backend, failures, push, machine>>
    BY <1>2 DEF PictureChanges
  <2>2. DataOK' /\ EpochIsPast'
    BY <2>1 DEF link, backend, failures, push, machine
  <2>3. CacheIsTrue' /\ PushIsTrue'
    BY <2>1 DEF link, backend, failures, push, machine, CacheIsTrue, PushIsTrue, Fresh, WillHold,
       Covers
  <2> QED
    BY <2>2, <2>3
<1>3. CASE ResetMachine
  <2>1. /\ pc = "idle" /\ cache' = [r \in Regions |-> Absent]
        /\ UNCHANGED <<cacheEpoch, failures, picture, push>> /\ losses' \in {losses, losses + 1}
        /\ wire' = <<>>
    BY <1>3 DEF ResetMachine, L!Settle, L!CountLoss
  <2>2. DOMAIN mem' = Regions /\ \A r \in Regions : DOMAIN mem'[r] = Slabs
    BY <1>3 DEF ResetMachine
  <2>3. DataOK'
    BY <2>1, <2>2 DEF push
  <2>4. EpochIsPast'
    <3>1. pc' = "idle" /\ cacheEpoch' = cacheEpoch /\ errors' = errors
      BY <2>1 DEF push, failures
    <3>2. cacheEpoch \in Nat /\ errors \in Nat /\ losses \in Nat /\ cacheEpoch <= errors + losses
      BY DEF TypeOK
    <3>3. losses' \in {losses, losses + 1}
      BY <2>1
    <3>4. cacheEpoch <= errors + losses'
      <4>1. \A a, b, c \in Nat : a <= b + c => a <= b + (c + 1)
        OBVIOUS
      <4> QED
        BY <3>2, <3>3, <4>1
    <3> QED
      BY ONLY <3>1, <3>4 DEF EpochIsPast
  <2>5. CacheIsTrue' /\ PushIsTrue'
    BY <2>1 DEF push, CacheIsTrue, PushIsTrue
  <2> QED
    BY <2>3, <2>4, <2>5
<1> QED
  BY <1>1, <1>2, <1>3

\* A push starts from what the cache knows under the epoch it read.
LEMMA CachePushStarts ==
  ASSUME TypeOK, CInv, ReadsLosses
  PROVE  CInv'
<1> DEFINE kept == IF seen + losses = cacheEpoch THEN cache ELSE [r \in Regions |-> Absent]
<1>1. /\ pc = "epoch" /\ region \in Regions /\ cache' = kept /\ cacheEpoch' = seen + losses
      /\ todo' \in Plans(kept[region], picture[region])
      /\ pc' = (IF todo' = <<>> THEN "idle" ELSE "emit")
      /\ todo' # <<>> => region' = region
      /\ UNCHANGED <<link, failures, picture, machine>>
  BY DEF ReadsLosses, CInv, DataOK
<1>2. kept \in [Regions -> Content \cup {Absent}]
  BY DEF CInv, DataOK
<1>3. /\ todo' \in Seq(SUBSET Slabs)
      /\ kept[region] = Absent => Slabs \subseteq UNION Range(todo')
      /\ \A s \in Slabs : kept[region] # Absent /\ kept[region][s] # picture[region][s]
                            => s \in UNION Range(todo')
  BY <1>1, PlansCover
<1>4. Fresh' => kept = [r \in Regions |-> Absent] \/ (kept = cache /\ Fresh)
  BY <1>1 DEF CInv, EpochIsPast, Fresh, TypeOK, link, failures
<1> HIDE DEF kept
<1>5. DataOK'
  BY <1>1, <1>2, <1>3 DEF CInv, DataOK, link, machine
<1>6. EpochIsPast'
  BY <1>1 DEF CInv, EpochIsPast, TypeOK, link, failures
<1>7. \A r \in Regions, slab \in Slabs :
        \A v : WillHold(r, slab, v)' <=> WillHold(r, slab, v)
  BY <1>1 DEF WillHold, Covers, link, machine
<1>8. ASSUME Fresh', NEW r \in Regions, kept[r] # Absent, NEW slab \in Slabs
      PROVE  WillHold(r, slab, kept[r][slab])
  BY <1>1, <1>4, <1>8 DEF CInv, CacheIsTrue, Fresh
<1>9. CacheIsTrue'
  <2> SUFFICES ASSUME Fresh', NEW r \in Regions, cache'[r] # Absent, NEW slab \in Slabs
               PROVE  WillHold(r, slab, cache[r][slab])'
    BY DEF CacheIsTrue, Fresh
  <2>1. PICK v : v = kept[r][slab] /\ v = cache'[r][slab]
    BY <1>1
  <2>2. WillHold(r, slab, v)
    BY <1>1, <1>8, <2>1
  <2> QED
    BY <1>7, <2>1, <2>2
<1>10. PushIsTrue'
  <2> SUFFICES ASSUME Fresh', pc' = "emit", NEW slab \in Slabs, slab \notin UNION Range(todo')
               PROVE  WillHold(region, slab, picture[region][slab])'
    BY DEF PushIsTrue
  <2>1. region' = region /\ picture' = picture
    BY <1>1
  <2>2. PICK r : r = region /\ r \in Regions
    BY <1>1
  <2>3. PICK v : v = picture[r][slab]
    OBVIOUS
  <2>4. WillHold(r, slab, v)
    BY <1>3, <1>8, <2>2, <2>3
  <2>5. WillHold(r, slab, v)'
    BY <1>7, <2>2, <2>4
  <2>6. r = region' /\ v = picture'[region'][slab]
    BY <2>1, <2>2, <2>3
  <2> QED
    BY <2>5, <2>6
<1> QED
  BY <1>5, <1>6, <1>9, <1>10 DEF CInv

\* A push goes on, or ends with the region remembered.
LEMMA CachePushGoesOn ==
  ASSUME TypeOK, CInv, Emits \/ EmitFails
  PROVE  CInv'
<1>1. /\ pc = "emit" /\ region \in Regions /\ todo \in Seq(SUBSET Slabs) /\ todo # <<>>
      /\ picture[region] \in Content /\ picture' = picture /\ cacheEpoch' = cacheEpoch
      /\ mem' = mem /\ seen' = seen
  BY DEF Emits, EmitFails, NextPiece, CInv, DataOK, machine
<1>2. /\ todo' = Tail(todo) /\ todo' \in Seq(SUBSET Slabs) /\ Head(todo) \subseteq Slabs
      /\ Len(todo) > 1 => todo' # <<>>
      /\ Len(todo) = 1 => todo' = <<>>
      /\ Len(todo) \in Nat \ {0}
  BY <1>1 DEF Emits, EmitFails, NextPiece
<1>3. \/ /\ Len(todo) > 1 /\ pc' = "emit" /\ region' = region /\ cache' = cache
      \/ /\ Len(todo) = 1 /\ pc' = "idle" /\ cache' = [cache EXCEPT ![region] = picture[region]]
  <2>1. Len(todo) > 1 \/ Len(todo) = 1
    <3>1. \A n \in Nat \ {0} : n > 1 \/ n = 1
      OBVIOUS
    <3> QED
      BY <1>2, <3>1
  <2>2. NextPiece
    BY DEF Emits, EmitFails
  <2> QED
    BY <1>1, <2>1, <2>2 DEF NextPiece
<1>4. cache' \in [Regions -> Content \cup {Absent}]
  BY <1>1, <1>3 DEF CInv, DataOK
<1>5. CASE Emits
  <2>1. /\ wire' = Append(wire, Write(region, Head(todo), picture[region]))
        /\ UNCHANGED <<errors, losses, dropped>>
    BY <1>5 DEF Emits, Sends, L!Accept, failures
  <2>2. PICK r, h, e :
          /\ r = region /\ h = Head(todo) /\ e = Write(region, Head(todo), picture[region])
          /\ r \in Regions /\ h \in SUBSET Slabs
    BY <1>1, <1>2
  <2>3. e.to = r /\ DOMAIN e.data = h /\ \A s \in h : e.data[s] = picture[region][s]
    BY <2>2 DEF Write
  <2>4. wire' = Append(wire, e)
    BY <2>1, <2>2
  <2>5. ASSUME NEW q \in Regions, NEW slab \in Slabs, NEW v, WillHold(q, slab, v),
               ~(q = r /\ slab \in h)
        PROVE  WillHold(q, slab, v)'
    BY <1>1, <2>3, <2>4, <2>5, OtherWrite
  <2>6. ASSUME NEW slab \in h, NEW v, v = picture[region][slab] PROVE WillHold(r, slab, v)'
    <3>1. slab \in DOMAIN e.data /\ e.to = r /\ e.data[slab] = v
      BY <2>3, <2>6
    <3>2. WillHold(e.to, slab, e.data[slab])'
      BY <2>4, <3>1, ThisWrite
    <3> QED
      BY <3>1, <3>2
  <2>7. EpochIsPast'
    BY <1>1, <1>3, <2>1 DEF CInv, EpochIsPast
  <2>8. DataOK'
    <3>1. \A i \in DOMAIN wire' : DOMAIN wire'[i].data \subseteq Slabs
      <4>1. DOMAIN wire' = DOMAIN wire \cup {Len(wire) + 1} /\ wire'[Len(wire) + 1] = e
            /\ \A i \in DOMAIN wire : wire'[i] = wire[i]
        BY <2>4, Behind DEF TypeOK
      <4> QED
        BY <2>2, <2>3, <4>1 DEF CInv, DataOK
    <3> QED
      BY <1>1, <1>2, <1>3, <1>4, <3>1 DEF CInv, DataOK
  <2>9. ASSUME Fresh', NEW slab \in Slabs, slab \notin UNION Range(todo'),
               NEW v, v = picture[region][slab]
        PROVE  WillHold(r, slab, v)'
    <3>1. CASE slab \in h
      BY <2>6, <2>9, <3>1
    <3>2. CASE slab \notin h
      <4>1. slab \notin UNION Range(todo)
        <5>1. todo \in Seq(Range(todo))
          BY <1>1, SeqOfRange
        <5>2. \A x \in Range(todo) : x = Head(todo) \/ x \in Range(Tail(todo))
          BY <1>1, <5>1, ShorterWire
        <5> QED
          BY <1>2, <2>2, <2>9, <3>2, <5>2
      <4>2. WillHold(r, slab, v)
        BY <1>1, <2>1, <2>2, <2>9, <4>1 DEF CInv, PushIsTrue, Fresh
      <4> QED
        BY <2>2, <2>5, <3>2, <4>2
    <3> QED
      BY <3>1, <3>2
  <2>10. CacheIsTrue'
    <3> SUFFICES ASSUME Fresh', NEW q \in Regions, cache'[q] # Absent, pc' # "emit" \/ region' # q,
                        NEW slab \in Slabs
                 PROVE  WillHold(q, slab, cache[q][slab])'
      BY DEF CacheIsTrue, Fresh
    <3>1. PICK v : v = cache'[q][slab]
      OBVIOUS
    <3>2. CASE q = r
      <4>1. pc' = "idle" /\ Len(todo) = 1 /\ cache' = [cache EXCEPT ![region] = picture[region]]
        BY <1>3, <2>2, <3>2
      <4>2. v = picture[region][slab] /\ slab \notin UNION Range(todo')
        BY <1>2, <2>2, <3>1, <3>2, <4>1, EmptyWire DEF CInv, DataOK
      <4>3. WillHold(q, slab, v)'
        BY <2>9, <3>2, <4>2
      <4> QED
        BY <3>1, <4>3
    <3>3. CASE q # r
      <4>1. cache'[q] = cache[q]
        BY <1>3, <2>2, <3>3 DEF CInv, DataOK
      <4>2. WillHold(q, slab, v)
        BY <1>1, <2>1, <2>2, <3>1, <3>3, <4>1 DEF CInv, CacheIsTrue, Fresh
      <4>3. WillHold(q, slab, v)'
        BY <2>5, <3>3, <4>2
      <4> QED
        BY <3>1, <4>3
    <3> QED
      BY <3>2, <3>3
  <2>11. PushIsTrue'
    <3> SUFFICES ASSUME Fresh', pc' = "emit", NEW slab \in Slabs, slab \notin UNION Range(todo')
                 PROVE  WillHold(region, slab, picture[region][slab])'
      BY DEF PushIsTrue
    <3>1. PICK v : v = picture[region][slab]
      OBVIOUS
    <3>2. WillHold(r, slab, v)'
      BY <2>9, <3>1
    <3>3. r = region' /\ v = picture'[region'][slab]
      BY <1>1, <1>3, <2>2, <3>1
    <3> QED
      BY <3>2, <3>3
  <2> QED
    BY <2>7, <2>8, <2>10, <2>11 DEF CInv
<1>6. CASE EmitFails
  <2>1. wire' = wire /\ losses' = losses /\ errors' = errors + 1
    BY <1>6 DEF EmitFails, NoteEmitFailure, link
  <2>2. ~Fresh' /\ cacheEpoch' <= errors' + losses'
    BY <1>1, <2>1, LossIsSeen DEF CInv
  <2>3. EpochIsPast'
    BY <1>3, <2>2 DEF EpochIsPast
  <2>4. DataOK'
    BY <1>1, <1>2, <1>3, <1>4, <2>1 DEF CInv, DataOK
  <2>5. CacheIsTrue' /\ PushIsTrue'
    BY <2>2 DEF CacheIsTrue, PushIsTrue, Fresh
  <2> QED
    BY <2>3, <2>4, <2>5 DEF CInv
<1> QED
  BY <1>5, <1>6

\* What the render thread does not do leaves what it remembers, and how far
\* its push has come.
RenderRests == UNCHANGED <<cache, cacheEpoch, picture, pc, region, seen, todo>>

\* A loss, or a failed write of the other thread, ends the epoch.
LEMMA CacheAfterLoss ==
  ASSUME TypeOK, CInv, RenderRests, UNCHANGED mem,
         \/ errors' = errors /\ L!CountLoss(owing)
         \/ errors' = errors + 1 /\ UNCHANGED <<wire, losses>>
  PROVE  CInv'
<1>1. ~Fresh' /\ cacheEpoch' <= errors' + losses' /\ errors <= errors'
  BY LossIsSeen DEF CInv, RenderRests
<1>2. DataOK'
  <2>1. wire' = wire \/ wire' = <<>>
    BY DEF L!CountLoss
  <2> QED
    BY <2>1 DEF CInv, DataOK, RenderRests
<1>3. EpochIsPast'
  <2>1. errors' \in Nat /\ errors \in Nat /\ seen \in Nat
    BY DEF TypeOK
  <2> QED
    BY <1>1, <2>1 DEF CInv, EpochIsPast, RenderRests
<1>4. CacheIsTrue' /\ PushIsTrue'
  BY <1>1 DEF CacheIsTrue, PushIsTrue, Fresh
<1> QED
  BY <1>2, <1>3, <1>4 DEF CInv

\* A step that leaves the link and the machine, or only settles them.
LEMMA CacheLeftAlone ==
  ASSUME CInv, RenderRests, UNCHANGED <<mem, wire, dropped, errors, losses>>
  PROVE  CInv'
<1>1. \A r \in Regions, slab \in Slabs, v \in Values : WillHold(r, slab, v) => WillHold(r, slab, v)'
  BY DEF WillHold, Covers
<1>2. CacheIsTrue' /\ PushIsTrue'
  BY <1>1, StaysTrue DEF CInv, RenderRests, Fresh
<1> QED
  BY <1>2 DEF CInv, DataOK, EpochIsPast, RenderRests

\* Every step keeps it.
THEOREM CInvStep == TypeOK /\ CInv /\ [Next]_vars => CInv'
<1> SUFFICES ASSUME TypeOK, CInv, [Next]_vars PROVE CInv'
  OBVIOUS
<1> USE DEF RenderRests, link, backend, failures, push, machine
<1>1. ASSUME NEW r \in Regions, ReadsErrors(r) PROVE CInv'
  BY <1>1, CacheBetweenPushes
<1>2. ASSUME NEW r \in Regions, NEW c \in Content, PictureChanges(r, c) PROVE CInv'
  BY <1>2, CacheBetweenPushes
<1>3. CASE ResetMachine
  BY <1>3, CacheBetweenPushes
<1>4. CASE ReadsLosses
  BY <1>4, CachePushStarts
<1>5. CASE Emits \/ EmitFails
  BY <1>5, CachePushGoesOn
<1>6. CASE TakesMark \/ WriteRaises \/ ChecksMark \/ Verdict
  <2>1. RenderRests /\ UNCHANGED <<mem, wire, dropped, errors, losses>>
    BY <1>6 DEF TakesMark, WriteRaises, ChecksMark, Verdict, L!FlushEnds
  <2> QED
    BY <2>1, CacheLeftAlone
<1>7. CASE WritesRoutine
  <2>1. CASE Sends("other", Routine) /\ UNCHANGED <<failures, faults>>
    <3>1. wire' = Append(wire, Routine) /\ RenderRests /\ UNCHANGED <<mem, dropped, errors, losses>>
      BY <1>7, <2>1 DEF WritesRoutine, Sends, L!Accept
    <3>2. \A r \in Regions, slab \in Slabs, v \in Values :
            WillHold(r, slab, v) => WillHold(r, slab, v)'
      BY <3>1, OtherWrite DEF Routine
    <3>3. CacheIsTrue' /\ PushIsTrue'
      BY <3>1, <3>2, StaysTrue DEF CInv, Fresh
    <3>4. \A i \in DOMAIN wire' : DOMAIN wire'[i].data \subseteq Slabs
      <4>1. DOMAIN wire' = DOMAIN wire \cup {Len(wire) + 1} /\ wire'[Len(wire) + 1] = Routine
            /\ \A i \in DOMAIN wire : wire'[i] = wire[i]
        BY <3>1, Behind DEF TypeOK
      <4> QED
        BY <4>1 DEF CInv, DataOK, Routine
    <3>5. DataOK' /\ EpochIsPast'
      BY <3>1, <3>4 DEF CInv, DataOK, EpochIsPast
    <3> QED
      BY <3>3, <3>5 DEF CInv
  <2>2. CASE NoteEmitFailure("other") /\ UNCHANGED link
    BY <1>7, <2>2, CacheAfterLoss DEF WritesRoutine, NoteEmitFailure
  <2> QED
    BY <1>7, <2>1, <2>2 DEF WritesRoutine
<1>8. CASE Flushes \/ LinkSettles
  <2>1. /\ RenderRests /\ UNCHANGED <<mem, errors>>
        /\ L!Settle \/ L!CountLoss(owing) \/ UNCHANGED link
    BY <1>8 DEF Flushes, LinkSettles
  <2>2. CASE L!CountLoss(owing)
    BY <2>1, <2>2, CacheAfterLoss
  <2>3. CASE L!Settle \/ UNCHANGED link
    BY <2>1, <2>3, CacheLeftAlone DEF L!Settle
  <2> QED
    BY <2>1, <2>2, <2>3
<1>9. CASE LinkNotices
  BY <1>9, CacheAfterLoss DEF LinkNotices
<1>10. CASE LinkDrops
  <2>1. RenderRests /\ UNCHANGED <<mem, errors, losses>> /\ dropped' /\ wire' = <<>>
    BY <1>10 DEF LinkDrops, L!Drop
  <2>2. DataOK' /\ EpochIsPast'
    BY <2>1 DEF CInv, DataOK, EpochIsPast
  <2>3. CacheIsTrue' /\ PushIsTrue'
    BY <2>1 DEF CacheIsTrue, PushIsTrue, Fresh
  <2> QED
    BY <2>2, <2>3 DEF CInv
<1>11. CASE MachineRuns
  <2>1. RenderRests /\ UNCHANGED <<dropped, errors, losses>> /\ wire # <<>> /\ wire' = Tail(wire)
        /\ mem' = Applied(mem, Head(wire))
    BY <1>11 DEF MachineRuns, L!Run
  <2>2. \A r \in Regions, slab \in Slabs, v \in Values :
          WillHold(r, slab, v) => WillHold(r, slab, v)'
    BY <1>11, RunsTowards DEF CInv
  <2>3. CacheIsTrue' /\ PushIsTrue'
    BY <2>1, <2>2, StaysTrue DEF CInv, Fresh
  <2>4. \A i \in DOMAIN wire' : DOMAIN wire'[i].data \subseteq Slabs
    <3>1. Len(wire) \in Nat \ {0} /\ DOMAIN wire = 1 .. Len(wire)
          /\ DOMAIN wire' = 1 .. Len(wire) - 1
          /\ \A i \in 1 .. Len(wire) - 1 : wire'[i] = wire[i + 1]
      BY <2>1 DEF TypeOK
    <3>2. \A n \in Nat : \A i \in 1 .. n - 1 : i + 1 \in 1 .. n
      OBVIOUS
    <3> QED
      BY <3>1, <3>2 DEF CInv, DataOK
  <2>5. DOMAIN mem' = Regions /\ \A r \in Regions : DOMAIN mem'[r] = Slabs
    BY <2>1 DEF Applied, CInv, DataOK
  <2>6. DataOK' /\ EpochIsPast'
    BY <2>1, <2>4, <2>5 DEF CInv, DataOK, EpochIsPast
  <2> QED
    BY <2>3, <2>6 DEF CInv
<1>12. CASE UNCHANGED vars
  BY <1>12, CacheLeftAlone DEF vars
<1> QED
  BY <1>1, <1>2, <1>3, <1>4, <1>5, <1>6, <1>7, <1>8, <1>9, <1>10, <1>11, <1>12
     DEF Next, Render, Confirm

\* write_region() never skips bytes the machine does not have.
THEOREM CacheIsTrueHolds == Spec => []CacheIsTrue
<1>1. IInv => TypeOK
  BY DEF IInv
<1>2. CInv => CacheIsTrue
  BY DEF CInv
<1> QED
  BY <1>1, <1>2, Invariance, CInvInit, CInvStep, PTL DEF Spec
=============================================================================
