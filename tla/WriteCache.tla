----------------------------- MODULE WriteCache -----------------------------
(***************************************************************************)
(* hw/backend.py, BufferedWriteBackend: the per-region cache with which    *)
(* write_region() sends only what changed, over a link that may lose what  *)
(* it accepted (module LossyLink, which module SocketDMA implements); and  *)
(* hw/delivery.py, write_confirmed(), on another thread of the same link.  *)
(*                                                                         *)
(* The render thread pushes the picture one region at a time, over and     *)
(* over.  A region is a few slabs (DELTA_CHUNK_BYTES each) and a push is   *)
(* one write of everything, of the span of dirty slabs, or of each dirty   *)
(* slab.  The other thread writes one value that nothing rewrites (a 6502  *)
(* routine) and may not go on before it is known to be there.              *)
(***************************************************************************)
EXTENDS Naturals, Sequences, FiniteSets, Functions

CONSTANTS Regions,      \* region ids
          NumSlabs,     \* slabs of a region
          Values,       \* what a slab can hold
          Blank,        \* what a reset leaves there
          Tries,        \* CONFIRM_TRIES
          MaxWire,      \* bound: writes under way
          MaxFaults,    \* bound: failed writes, lost connections, resets
          MaxChanges    \* bound: changes of the picture

ASSUME CacheAssumption ==
  /\ NumSlabs \in Nat \ {0} /\ Values # {} /\ Blank \notin Values
  /\ Tries \in Nat \ {0} /\ MaxWire \in Nat \ {0}
  /\ MaxFaults \in Nat /\ MaxChanges \in Nat

Slabs == 1..NumSlabs
Threads == {"render", "other"}
Content == [Slabs -> Values]

\* A write: the slabs it covers with what it puts there, or the routine.
Write(region, slabs, data) == [to |-> region, data |-> [s \in slabs |-> data[s]]]
Routine == [to |-> "routine", data |-> [s \in {} |-> 0]]
Commands ==
  {Write(r, slabs, data) : r \in Regions, slabs \in SUBSET Slabs, data \in Content} \cup {Routine}

VARIABLES
  \* The link (LossyLink).
  wire, owing, dropped, pending, losses, charges, shut,
  \* BufferedWriteBackend.
  cache,       \* `_cache`
  cacheEpoch,  \* `_cache_epoch`
  errors,      \* `_stats["errors"]`
  failed,      \* `_thread_errors`
  \* The render thread.
  picture,     \* what it wants each region to show
  pc, region, seen, todo,  \* a write_region() call
  \* The other thread: a write_confirmed() call.
  cpc, tries, mark,
  \* The machine, and the bounds.
  mem, routine, faults, changes

L == INSTANCE LossyLink

link == <<wire, owing, dropped, pending, losses, charges, shut>>
backend == <<cache, cacheEpoch>>
failures == <<errors, failed>>
push == <<pc, region, seen, todo>>
confirm == <<cpc, tries, mark>>
machine == <<mem, routine>>
vars == <<link, backend, failures, picture, push, confirm, machine, faults, changes>>

Absent == [s \in {} |-> 0]

\* The control and the books.  The other variables are flags, or data the
\* picture is made of.
TypeOK ==
  /\ wire \in Seq(Range(wire)) /\ owing \subseteq Threads /\ pending \subseteq Threads
  /\ losses \in Nat /\ charges \in [Threads -> Nat]
  /\ cacheEpoch \in Nat /\ errors \in Nat /\ failed \in [Threads -> Nat]
  /\ pc \in {"idle", "epoch", "emit"} /\ seen \in Nat
  /\ cpc \in {"begin", "write", "check", "flush", "verdict", "confirmed", "gave_up"}
  /\ tries \in Nat /\ mark \in Nat
  /\ faults \in 0 .. MaxFaults /\ changes \in 0 .. MaxChanges

NoRegion == CHOOSE r \in Regions : TRUE

Init ==
  /\ L!LinkInit
  /\ cache = [r \in Regions |-> Absent] /\ cacheEpoch = 0
  /\ errors = 0 /\ failed = [t \in Threads |-> 0]
  /\ picture = [r \in Regions |-> CHOOSE c \in Content : TRUE]
  /\ pc = "idle" /\ region = NoRegion /\ seen = 0 /\ todo = <<>>
  /\ cpc = "begin" /\ tries = 0 /\ mark = 0
  /\ mem = [r \in Regions |-> [s \in Slabs |-> Blank]] /\ routine = FALSE
  /\ faults = 0 /\ changes = 0

Faulty == faults < MaxFaults /\ faults' = faults + 1
-----------------------------------------------------------------------------
\* Mutant: a failed write is logged and not counted.
FailureOnlyLogged(t) ==
  Faulty /\ UNCHANGED failures

\* _note_emit_failure()
NoteEmitFailure(t) ==
  /\ Faulty
  /\ errors' = errors + 1
  /\ failed' = [failed EXCEPT ![t] = @ + 1]

Sends(t, command) == Len(wire) < MaxWire /\ L!Accept(t, command)

\* A new frame.
PictureChanges(r, c) ==
  /\ pc = "idle"
  /\ changes < MaxChanges /\ changes' = changes + 1
  /\ picture[r] # c
  /\ picture' = [picture EXCEPT ![r] = c]
  /\ UNCHANGED <<link, backend, failures, push, confirm, machine, faults>>

\* write_region(): delivery_epoch adds two counters that any thread moves,
\* and reads them one after the other.
ReadsErrors(r) ==
  /\ pc = "idle"
  /\ pc' = "epoch" /\ region' = r /\ seen' = errors
  /\ UNCHANGED <<link, backend, failures, picture, todo, confirm, machine, faults, changes>>

Span(dirty) == {s \in Slabs : \E a, b \in dirty : a <= s /\ s <= b}

\* The dirty slabs as the loop over them takes them, in ascending order.
Ascending(dirty) ==
  {q \in [1..Cardinality(dirty) -> dirty] :
     Range(q) = dirty /\ \A i, j \in DOMAIN q : i < j => q[i] < q[j]}

\* What is sent for `new` over `old`: one write of everything, one of the
\* dirty span, or one per dirty slab where the link charges less for that.
Plans(old, new) ==
  LET dirty == {s \in Slabs : old[s] # new[s]}
  IN  IF old = Absent THEN {<<Slabs>>}
      ELSE IF dirty = {} THEN {<<>>}
      ELSE {<<Span(dirty)>>} \cup
           (IF Cardinality(Span(dirty)) > 2
            THEN {[i \in DOMAIN q |-> {q[i]}] : q \in Ascending(dirty)}
            ELSE {})

ReadsLosses ==
  /\ pc = "epoch"
  /\ LET epoch == seen + losses
         kept == IF epoch = cacheEpoch THEN cache ELSE [r \in Regions |-> Absent]
     IN  /\ cache' = kept /\ cacheEpoch' = epoch
         /\ todo' \in Plans(kept[region], picture[region])
  /\ pc' = IF todo' = <<>> THEN "idle" ELSE "emit"
  /\ seen' = 0 /\ region' = IF todo' = <<>> THEN NoRegion ELSE region
  /\ UNCHANGED <<link, failures, picture, confirm, machine, faults, changes>>

\* Mutant: the cache is stamped with the epoch the push ended under.
StampsAtTheEnd ==
  /\ todo' = Tail(todo)
  /\ IF Len(todo) > 1
     THEN UNCHANGED <<pc, region, cache, cacheEpoch>>
     ELSE /\ pc' = "idle" /\ region' = NoRegion
          /\ cache' = [cache EXCEPT ![region] = picture[region]]
          /\ cacheEpoch' = errors + losses

\* After the last write of the push, landed or not, the cache has the region.
NextPiece ==
  /\ todo' = Tail(todo)
  /\ IF Len(todo) > 1
     THEN UNCHANGED <<pc, region, cache, cacheEpoch>>
     ELSE /\ pc' = "idle" /\ region' = NoRegion
          /\ cache' = [cache EXCEPT ![region] = picture[region]]
          /\ UNCHANGED cacheEpoch

Emits ==
  /\ pc = "emit"
  /\ Sends("render", Write(region, Head(todo), picture[region]))
  /\ NextPiece
  /\ UNCHANGED <<failures, picture, seen, confirm, machine, faults, changes>>

EmitFails ==
  /\ pc = "emit"
  /\ NoteEmitFailure("render")
  /\ NextPiece
  /\ UNCHANGED <<link, picture, seen, confirm, machine, changes>>

\* reset(): flush, drop the cache, reset the machine over REST.  The flush may
\* fail, and so may the reset.
ResetMachine ==
  /\ pc = "idle"
  /\ Faulty
  /\ L!Settle \/ (owing # {} /\ L!CountLoss(owing))
  /\ cache' = [r \in Regions |-> Absent]
  /\ \/ mem' = [r \in Regions |-> [s \in Slabs |-> Blank]]
     \/ mem' = mem
  /\ UNCHANGED <<cacheEpoch, failures, picture, push, confirm, routine, changes>>
-----------------------------------------------------------------------------
\* write_confirmed() on the other thread.

Mark == failed["other"] + charges["other"]   \* write_loss_mark()

NextTry ==
  /\ tries' = tries + 1
  /\ cpc' = IF tries + 1 = Tries THEN "gave_up" ELSE "begin"

TakesMark ==
  /\ cpc = "begin"
  /\ cpc' = "write" /\ mark' = Mark
  /\ UNCHANGED <<link, backend, failures, picture, push, tries, machine, faults, changes>>

WritesRoutine ==
  /\ cpc = "write"
  /\ \/ Sends("other", Routine) /\ UNCHANGED <<failures, faults>>
     \/ NoteEmitFailure("other") /\ UNCHANGED link
  /\ cpc' = "check"
  /\ UNCHANGED <<backend, picture, push, tries, mark, machine, changes>>

\* reu_write() raises when the redial is refused: nothing was sent.
WriteRaises ==
  /\ cpc = "write"
  /\ Faulty
  /\ NextTry
  /\ UNCHANGED <<link, backend, failures, picture, push, mark, machine, changes>>

ChecksMark ==
  /\ cpc = "check"
  /\ IF Mark # mark THEN NextTry ELSE cpc' = "flush" /\ UNCHANGED tries
  /\ UNCHANGED <<link, backend, failures, picture, push, mark, machine, faults, changes>>

\* flush(): answered once everything has run, or given up on; api.flush()
\* returns the same way after both.
Flushes ==
  /\ cpc = "flush"
  /\ \/ L!Settle /\ UNCHANGED faults
     \/ owing # {} /\ L!CountLoss(owing) /\ (IF dropped THEN UNCHANGED faults ELSE Faulty)
     \/ owing = {} /\ Faulty /\ UNCHANGED link
  /\ cpc' = "verdict"
  /\ UNCHANGED <<backend, failures, picture, push, tries, mark, machine, changes>>

\* Mutant: a flush that returned is taken for a flush that was answered.
TrustsTheFlush ==
  /\ cpc = "verdict"
  /\ L!FlushEnds("other")
  /\ cpc' = "confirmed"
  /\ UNCHANGED <<tries, backend, failures, picture, push, mark, machine, faults, changes>>

Verdict ==
  /\ cpc = "verdict"
  /\ L!FlushEnds("other")
  /\ IF Mark # mark THEN NextTry ELSE cpc' = "confirmed" /\ UNCHANGED tries
  /\ UNCHANGED <<backend, failures, picture, push, mark, machine, faults, changes>>
-----------------------------------------------------------------------------
\* The link, as LossyLink has it, and the machine.

Applied(m, command) ==
  [r \in DOMAIN m |-> [s \in DOMAIN m[r] |->
     IF r = command.to /\ s \in DOMAIN command.data THEN command.data[s] ELSE m[r][s]]]

MachineRuns ==
  /\ L!Run
  /\ mem' = Applied(mem, Head(wire))
  /\ routine' = (routine \/ Head(wire) = Routine)
  /\ UNCHANGED <<backend, failures, picture, push, confirm, faults, changes>>

LinkDrops ==
  /\ ~dropped
  /\ L!Drop
  /\ Faulty
  /\ UNCHANGED <<backend, failures, picture, push, confirm, machine, changes>>

\* check_for_loss(), or another thread's command, finds the connection dead.
LinkNotices ==
  /\ dropped
  /\ L!CountLoss(owing)
  /\ UNCHANGED <<backend, failures, picture, push, confirm, machine, faults, changes>>

\* Another thread's round trip: answered, or given up on.
LinkSettles ==
  /\ owing # {}
  /\ \/ L!Settle /\ UNCHANGED faults
     \/ ~dropped /\ L!CountLoss(owing) /\ Faulty
  /\ UNCHANGED <<backend, failures, picture, push, confirm, machine, changes>>
-----------------------------------------------------------------------------
Render ==
  \/ \E r \in Regions : ReadsErrors(r) \/ \E c \in Content : PictureChanges(r, c)
  \/ ReadsLosses \/ Emits \/ EmitFails \/ ResetMachine

Confirm == TakesMark \/ WritesRoutine \/ WriteRaises \/ ChecksMark \/ Flushes \/ Verdict

Next == Render \/ Confirm \/ MachineRuns \/ LinkDrops \/ LinkNotices \/ LinkSettles

Spec == Init /\ [][Next]_vars

\* The playlist renders every region again and again, and check_for_loss() is
\* asked on each of those pushes.
FairSpec ==
  /\ Spec
  /\ \A r \in Regions : SF_vars(ReadsErrors(r))
  /\ WF_vars(ReadsLosses) /\ WF_vars(Emits)
  /\ WF_vars(MachineRuns) /\ WF_vars(LinkNotices)
-----------------------------------------------------------------------------
\* The i-th write on the wire covers the slab.
Covers(i, r, slab) == wire[i].to = r /\ slab \in DOMAIN wire[i].data

\* What the machine will hold once it has run everything on the wire: what the
\* last write that covers the slab puts there, or else what it holds already.
WillHold(r, slab, v) ==
  \/ \E i \in DOMAIN wire :
       /\ Covers(i, r, slab) /\ wire[i].data[slab] = v
       /\ \A j \in DOMAIN wire : Covers(j, r, slab) => j <= i
  \/ mem[r][slab] = v /\ \A i \in DOMAIN wire : ~Covers(i, r, slab)

\* write_region() never skips bytes the machine does not have: between pushes,
\* while the epoch has not moved and no loss is waiting to be found, what the
\* cache remembers of a region is what the machine holds, or will hold once it
\* has run what is on the wire (write_region's docstring, 929-932).
CacheIsTrue ==
  (cacheEpoch = errors + losses /\ ~dropped) =>
     \A r \in Regions :
       cache[r] # Absent /\ (pc # "emit" \/ region # r) =>
         \A slab \in Slabs : WillHold(r, slab, cache[r][slab])

\* write_confirmed() returns True only for a write the machine has run.
ConfirmedHasRun == cpc = "confirmed" => routine

\* A picture that stops changing reaches the machine in the end, and stays,
\* whatever was lost, refused or reset on the way.
PictureHeals == <>[](\A r \in Regions : mem[r] = picture[r])
=============================================================================
