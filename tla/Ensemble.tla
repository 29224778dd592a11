------------------------------ MODULE Ensemble ------------------------------
(***************************************************************************)
(* Several C64s in one show (app/ensemble.py, app/orchestrator.py and the  *)
(* EnsembleCoordinator of app/playlist_support.py).  Each system walks its *)
(* own scene list on its own thread; what they share is                    *)
(*   - the audio slot, with the line of systems waiting for it, and        *)
(*   - the broadcast: while the conductor's span scene plays, every other  *)
(*     system is interrupted and runs a follower scene until it ends.      *)
(*                                                                         *)
(* The run loop is Playlist's, with what does not touch the slot or the    *)
(* broadcast folded: a setup lands, raises, or meets an outage it waits    *)
(* out; a scene on screen may end, be skipped or be cut from at any time.  *)
(***************************************************************************)
EXTENDS Integers, Sequences, FiniteSets, SequencesExt

CONSTANTS
  Systems,
  Shows,      \* [Systems -> the kinds of its scenes: "audio", "quiet" or "span"]
  MayPause,   \* whether systems are paused
  MayJump,    \* whether request_jump is called
  MayStop,    \* whether the run is stopped
  MaxFaults   \* bound on outages, restarts and reloads

Nobody == "nobody"

ASSUME EnsembleAssumption ==
  /\ Nobody \notin Systems
  /\ \A s \in Systems : Shows[s] \in Seq({"audio", "quiet", "span"}) /\ Shows[s] # <<>>
  /\ \A s, t \in Systems :
       (\E i \in DOMAIN Shows[s], j \in DOMAIN Shows[t] :
          Shows[s][i] = "span" /\ Shows[t][j] = "span")
         => s = t
  /\ {MayPause, MayJump, MayStop} \subseteq BOOLEAN /\ MaxFaults \in Nat

VARIABLES
  holder, queue,       \* Ensemble.audio_holder, audio_queue
  active,              \* Ensemble.active_orchestrator: 0, or which instance
  on,                  \* its _active
  instance,            \* the instance last made: 1 and 2 in turn
  interrupt, resume,   \* broadcast_interrupt, broadcast_resume
  stop,                \* the shared stop_event
  pc, index, current,  \* per system, as in Playlist
  up,                  \* current's setup landed, and nothing has torn it down
  live,                \* a setup of the scene reached the machine, whole or in part, and
                       \* nothing has torn it down
  claimed,             \* indices of the scenes stamped _audio_lock_held
  claimant,            \* this setup gave its slot up to an outage
  probe,               \* offset of resolve_next_index's pass
  following,           \* the instance a follower scene is bound to, or 0
  failed,              \* history: the instance whose follower could not be shown, or 0
  back,                \* where an interlude returns to, "advance" without one
  pauseEv, resumeEv,
  faults

slot  == <<holder, queue>>
cast  == <<active, on, instance, interrupt, resume>>
local == <<index, current, up, live, claimed, claimant, probe, following, failed, back,
           pauseEv, resumeEv>>
vars  == <<slot, cast, stop, pc, local, faults>>

Scenes(s) == DOMAIN Shows[s]
Single(s) == Len(Shows[s]) = 1
Kind(s) == Shows[s][index[s]]
Competes(s, i) == Shows[s][i] = "audio"               \* competes_for_audio_lock
Followers(s) == Systems \ {s}

Init ==
  /\ holder = Nobody /\ queue = <<>>
  /\ active = 0 /\ on = FALSE /\ instance = 1
  /\ interrupt = [s \in Systems |-> FALSE] /\ resume = [s \in Systems |-> FALSE]
  /\ stop = FALSE
  /\ pc = [s \in Systems |-> "top"] /\ index = [s \in Systems |-> 1]
  /\ current = [s \in Systems |-> "none"] /\ up = [s \in Systems |-> FALSE]
  /\ live = [s \in Systems |-> FALSE]
  /\ claimed = [s \in Systems |-> {}] /\ claimant = [s \in Systems |-> FALSE]
  /\ probe = [s \in Systems |-> 0]
  /\ following = [s \in Systems |-> 0] /\ failed = [s \in Systems |-> 0]
  /\ back = [s \in Systems |-> "advance"]
  /\ pauseEv = [s \in Systems |-> FALSE] /\ resumeEv = [s \in Systems |-> FALSE]
  /\ faults = 0

\* s goes on to `to`; with UNCHANGED of the rest it is a step of control only.
At(s, from) == pc[s] = from
To(s, to)   == pc' = [pc EXCEPT ![s] = to]
Goes(s, to) == To(s, to) /\ UNCHANGED <<slot, cast, stop, local, faults>>

-----------------------------------------------------------------------------
(* The audio slot (Ensemble). *)

JoinQueue(s)  == queue' = IF s \in ToSet(queue) THEN queue ELSE Append(queue, s)
LeaveQueue(s) == queue' = RemoveFirst(queue, s)

\* Mutant: a free slot goes to whoever asks.
ClaimableByAll(s) == holder \in {s, Nobody}

Claimable(s) ==
  IF holder = Nobody THEN s \in (IF queue = <<>> THEN Systems ELSE {Head(queue)}) ELSE holder = s

Release(s) == holder' = IF holder = s THEN Nobody ELSE holder

(* release_audio_claim of the scene at i.                                   *)
ReleaseClaim(s, i) ==
  IF i \in claimed[s]
  THEN Release(s) /\ claimed' = [claimed EXCEPT ![s] = @ \ {i}]
  ELSE UNCHANGED <<holder, claimed>>

-----------------------------------------------------------------------------
(* The broadcast (Orchestrator). *)

Conducts(s) == current[s] = "scene" /\ Kind(s) = "span"

(* begin: the instance goes active, the resume events of the last cycle are *)
(* cleared, and then the interrupts are set.                                *)
\* Mutant: the resume events are left as the last cycle set them.
ForgetsToClear(s) == UNCHANGED resume

ClearResumes(s) == resume' = [t \in Systems |-> t = s /\ resume[t]]

SetInterrupts(s) ==
  interrupt' = [t \in Systems |-> t # s \/ interrupt[t]]

EndCast(s) ==
  /\ on' = FALSE
  /\ resume' = IF on THEN [t \in Systems |-> t # s \/ resume[t]] ELSE resume

(* safe_teardown of the scene at index[s]: a conductor's big_text ends its  *)
(* broadcast, and release_scene clears the orchestrator and the claim.      *)
TeardownScene(s) ==
  /\ IF Conducts(s) THEN EndCast(s) /\ active' = 0 ELSE UNCHANGED <<on, resume, active>>
  /\ ReleaseClaim(s, index[s])

(* drop_current: a card dropped lets go of the slot of the scene it         *)
(* announces.                                                               *)
\* Mutant: a dropped card keeps the slot of the scene it announced.
DropKeepsAnnounced(s) ==
  CASE current[s] = "scene" -> TeardownScene(s)
    [] OTHER -> UNCHANGED <<on, resume, active, holder, claimed>>

LetsGo(s) ==
  CASE current[s] = "scene" -> TeardownScene(s)
    [] current[s] = "card"  -> ReleaseClaim(s, index[s]) /\ UNCHANGED <<on, resume, active>>
    [] OTHER -> UNCHANGED <<on, resume, active, holder, claimed>>

DropCurrent(s) ==
  /\ LetsGo(s)
  /\ current' = [current EXCEPT ![s] = "none"]
  /\ up' = [up EXCEPT ![s] = FALSE] /\ live' = [live EXCEPT ![s] = FALSE]

-----------------------------------------------------------------------------
(* The top of a system's loop. *)

Exits(s) ==
  /\ \/ At(s, "top") /\ stop
     \/ At(s, "exit")
  /\ DropCurrent(s) /\ To(s, "ended")
  /\ UNCHANGED <<queue, instance, interrupt, stop, index, claimant, probe, following, failed,
                 back, pauseEv, resumeEv, faults>>

Pauses(s) ==
  /\ At(s, "top") /\ ~stop /\ pauseEv[s]
  /\ DropCurrent(s) /\ To(s, "paused")
  /\ resumeEv' = [resumeEv EXCEPT ![s] = FALSE]
  /\ UNCHANGED <<queue, instance, interrupt, stop, index, claimant, probe, following, failed,
                 back, pauseEv, faults>>

Resumes(s) ==
  /\ At(s, "paused") /\ ~stop /\ resumeEv[s]
  /\ pauseEv' = [pauseEv EXCEPT ![s] = FALSE] /\ resumeEv' = [resumeEv EXCEPT ![s] = FALSE]
  /\ To(s, "cast")
  /\ UNCHANGED <<slot, cast, stop, index, current, up, live, claimed, claimant, probe,
                 following, failed, back, faults>>

PauseStops(s) == At(s, "paused") /\ stop /\ Goes(s, "exit")

NotPaused(s) == At(s, "top") /\ ~stop /\ ~pauseEv[s] /\ Goes(s, "cast")

(* _apply_reload, to a list of the same shape.                              *)
Reloads(s) ==
  /\ At(s, "cast") /\ faults < MaxFaults /\ faults' = faults + 1
  /\ DropCurrent(s) /\ index' = [index EXCEPT ![s] = 1]
  /\ UNCHANGED <<queue, instance, interrupt, stop, pc, claimant, probe, following, failed, back,
                 pauseEv, resumeEv>>

\* Mutant: the interrupt is looked at between scenes only.
BetweenScenesOnly(s) ==
  At(s, "cast") /\ (interrupt[s] => current[s] # "none") /\ Goes(s, "advance")

NoInterrupt(s) == At(s, "cast") /\ ~interrupt[s] /\ Goes(s, "advance")

-----------------------------------------------------------------------------
(* handle_broadcast_interrupt, from the run loop or from a wait. *)

StaleInterrupt == active = 0 \/ ~on

(* The interrupt is taken and the follower's cfg looked up.                 *)
Interrupted(s, from, to) ==
  /\ At(s, from) /\ interrupt[s] /\ ~stop
  /\ interrupt' = [interrupt EXCEPT ![s] = FALSE]
  /\ IF StaleInterrupt
     THEN To(s, to) /\ UNCHANGED <<following, failed, back, pauseEv, resumeEv>>
     ELSE /\ To(s, "joining")
          /\ following' = [following EXCEPT ![s] = active] /\ failed' = [failed EXCEPT ![s] = 0]
          /\ back' = [back EXCEPT ![s] = to]
          /\ pauseEv' = [pauseEv EXCEPT ![s] = FALSE]
          /\ resumeEv' = [resumeEv EXCEPT ![s] = pauseEv[s] \/ @]

InterruptedOnAir(s) ==
  /\ Interrupted(s, "cast", "advance")
  /\ UNCHANGED <<slot, active, on, instance, resume, stop, index, current, up, live, claimed,
                 claimant, probe, faults>>

(* _serve_broadcast_while_waiting: out of the line for the interlude, with  *)
(* the waiting scene set aside.                                             *)
InterruptedInLine(s) ==
  /\ \/ Interrupted(s, "wait", "join")
     \/ Interrupted(s, "gated", "resolve")
  /\ LeaveQueue(s)
  /\ current' = [current EXCEPT ![s] = "none"] /\ probe' = [probe EXCEPT ![s] = 0]
  /\ UNCHANGED <<holder, active, on, instance, resume, stop, index, up, live, claimed, claimant,
                 faults>>

(* The scene on air is dropped, and the follower built and set up: as long  *)
(* as that takes, an outage waited out included.                            *)
Joins(s) ==
  /\ At(s, "joining")
  /\ LetsGo(s) /\ current' = [current EXCEPT ![s] = "follower"]
  /\ up' = [up EXCEPT ![s] = TRUE] /\ live' = [live EXCEPT ![s] = FALSE]
  /\ To(s, "follow")
  /\ UNCHANGED <<queue, instance, interrupt, stop, index, claimant, probe, following, failed,
                 back, pauseEv, resumeEv, faults>>

(* The interlude is over.                                                   *)
Returns(s, to) == To(s, to) /\ back' = [back EXCEPT ![s] = "advance"]

(* The follower goes without having seen the end of the broadcast.          *)
GivesUp(s) ==
  /\ faults < MaxFaults /\ faults' = faults + 1
  /\ following' = [following EXCEPT ![s] = 0] /\ failed' = [failed EXCEPT ![s] = following[s]]

(* The build failed.                                                        *)
JoinFails(s) ==
  /\ At(s, "joining") /\ GivesUp(s)
  /\ DropCurrent(s) /\ Returns(s, back[s])
  /\ UNCHANGED <<queue, instance, interrupt, stop, index, claimant, probe, pauseEv, resumeEv>>

(* Its setup failed, or the one after a restart of the machine did.         *)
FollowerFails(s) ==
  /\ At(s, "follow") /\ ~stop /\ GivesUp(s)
  /\ resume' = [resume EXCEPT ![s] = FALSE]
  /\ current' = [current EXCEPT ![s] = "none"] /\ up' = [up EXCEPT ![s] = FALSE]
  /\ Returns(s, back[s])
  /\ UNCHANGED <<slot, active, on, instance, interrupt, stop, index, live, claimed, claimant,
                 probe, pauseEv, resumeEv>>

(* resume_event, or the stop, seen behind a frame.                          *)
Unfollows(s) ==
  /\ At(s, "follow") /\ (resume[s] \/ stop)
  /\ resume' = [resume EXCEPT ![s] = FALSE]
  /\ current' = [current EXCEPT ![s] = "none"] /\ up' = [up EXCEPT ![s] = FALSE]
  /\ following' = [following EXCEPT ![s] = 0]
  /\ Returns(s, IF stop /\ back[s] = "advance" THEN "exit" ELSE back[s])
  /\ UNCHANGED <<slot, active, on, instance, interrupt, stop, index, live, claimed, claimant,
                 probe, failed, pauseEv, resumeEv, faults>>

-----------------------------------------------------------------------------
(* _advance. *)

AdvanceFirst(s) ==
  /\ At(s, "advance") /\ current[s] = "none"
  /\ Goes(s, IF Single(s) THEN "claim" ELSE "resolve")

(* A frame of the scene, card or conductor on screen.                       *)
Renders(s) == At(s, "advance") /\ up[s] /\ Goes(s, "top")

(* The conductor's message has scrolled off the leftmost screen.            *)
MessageEnds(s) ==
  /\ At(s, "advance") /\ Conducts(s) /\ up[s] /\ on
  /\ EndCast(s) /\ To(s, "top")
  /\ UNCHANGED <<slot, active, instance, interrupt, stop, local, faults>>

(* The next scene; a playlist of one plays it again.                        *)
SceneEnds(s) ==
  /\ At(s, "advance") /\ current[s] = "scene"
  /\ DropCurrent(s)
  /\ index' = [index EXCEPT ![s] = (@ % Len(Shows[s])) + 1]
  /\ To(s, IF Single(s) THEN "claim" ELSE "resolve")
  /\ UNCHANGED <<queue, instance, interrupt, stop, claimant, probe, following, failed, back,
                 pauseEv, resumeEv, faults>>

(* A pending request_jump, as a scene or its card ends: a hard cut waits    *)
(* for the slot of its target.                                              *)
Jumps(s) ==
  /\ At(s, "advance") /\ MayJump /\ ~Single(s) /\ current[s] \in {"scene", "card"}
  /\ DropCurrent(s)
  /\ \E target \in Scenes(s) : index' = [index EXCEPT ![s] = target]
  /\ pc' \in {[pc EXCEPT ![s] = to] : to \in {"claim", "resolve"}}
  /\ UNCHANGED <<queue, instance, interrupt, stop, claimant, probe, following, failed, back,
                 pauseEv, resumeEv, faults>>

(* The card is over: its scene, unless its claim lapsed in an outage.       *)
CardEnds(s) ==
  /\ At(s, "advance") /\ current[s] = "card"
  /\ up' = [up EXCEPT ![s] = FALSE]
  /\ LET lapsed == Competes(s, index[s]) /\ index[s] \notin claimed[s] IN
       IF lapsed THEN current' = [current EXCEPT ![s] = "none"] /\ To(s, "resolve")
                 ELSE current' = [current EXCEPT ![s] = "scene"] /\ To(s, "setup")
  /\ UNCHANGED <<slot, cast, stop, index, live, claimed, claimant, probe, following, failed,
                 back, pauseEv, resumeEv, faults>>

(* The machine restarted under the scene: torn down, and set up again once  *)
(* its slot is claimed back.                                                *)
Restarts(s) ==
  /\ At(s, "advance") /\ current[s] = "scene" /\ faults < MaxFaults /\ faults' = faults + 1
  /\ DropCurrent(s) /\ To(s, "claim")
  /\ UNCHANGED <<queue, instance, interrupt, stop, index, claimant, probe, following, failed,
                 back, pauseEv, resumeEv>>

-----------------------------------------------------------------------------
(* resolve_next_index: one scene of the pass at a time. *)

Candidate(s) == ((index[s] - 1 + probe[s]) % Len(Shows[s])) + 1

ResolveStops(s) ==
  /\ At(s, "resolve") /\ probe[s] = 0 /\ stop
  /\ LeaveQueue(s) /\ To(s, "exit")
  /\ UNCHANGED <<holder, cast, stop, local, faults>>

Resolves(s) ==
  /\ At(s, "resolve") /\ probe[s] < Len(Shows[s]) /\ (probe[s] = 0 => ~stop)
  /\ LET i == Candidate(s) IN
       /\ Competes(s, i) => Claimable(s)
       /\ holder' = IF Competes(s, i) THEN s ELSE holder
       /\ claimed' = [claimed EXCEPT ![s] = IF Competes(s, i) THEN @ \cup {i} ELSE @]
       /\ index' = [index EXCEPT ![s] = i]
  /\ LeaveQueue(s) /\ probe' = [probe EXCEPT ![s] = 0] /\ To(s, "announce")
  /\ UNCHANGED <<cast, stop, current, up, live, claimant, following, failed, back, pauseEv,
                 resumeEv, faults>>

Refused(s) ==
  /\ At(s, "resolve") /\ probe[s] < Len(Shows[s]) /\ (probe[s] = 0 => ~stop)
  /\ Competes(s, Candidate(s)) /\ ~Claimable(s)
  /\ probe' = [probe EXCEPT ![s] = @ + 1]
  /\ UNCHANGED <<slot, cast, stop, pc, index, current, up, live, claimed, claimant, following,
                 failed, back, pauseEv, resumeEv, faults>>

(* Every scene was refused: into the line.                                  *)
AllGated(s) ==
  /\ At(s, "resolve") /\ probe[s] = Len(Shows[s])
  /\ JoinQueue(s) /\ To(s, "gated")
  /\ UNCHANGED <<holder, cast, stop, local, faults>>

PollsAgain(s) ==
  /\ At(s, "gated") /\ (interrupt[s] => stop)
  /\ probe' = [probe EXCEPT ![s] = 0] /\ To(s, "resolve")
  /\ UNCHANGED <<slot, cast, stop, index, current, up, live, claimed, claimant, following,
                 failed, back, pauseEv, resumeEv, faults>>

-----------------------------------------------------------------------------
(* wait_for_audio_claim. *)

NoClaimNeeded(s) ==
  /\ At(s, "claim") /\ ~Competes(s, index[s])
  /\ current' = [current EXCEPT ![s] = "scene"] /\ To(s, "setup")
  /\ UNCHANGED <<slot, cast, stop, index, up, live, claimed, claimant, probe, following, failed,
                 back, pauseEv, resumeEv, faults>>

(* Into the line before the first try, and again behind an interlude.       *)
Lines(s) ==
  /\ \/ At(s, "claim") /\ Competes(s, index[s])
     \/ At(s, "join")
  /\ JoinQueue(s) /\ To(s, "wait")
  /\ UNCHANGED <<holder, cast, stop, local, faults>>

Claims(s) ==
  /\ At(s, "wait") /\ ~stop /\ Claimable(s)
  /\ holder' = s /\ LeaveQueue(s)
  /\ claimed' = [claimed EXCEPT ![s] = @ \cup {index[s]}]
  /\ current' = [current EXCEPT ![s] = "scene"] /\ To(s, "setup")
  /\ UNCHANGED <<cast, stop, index, up, live, claimant, probe, following, failed, back, pauseEv,
                 resumeEv, faults>>

\* Mutant: the wait ends without leaving the line.
StopsInLine(s) ==
  /\ At(s, "wait") /\ stop
  /\ To(s, "exit")
  /\ UNCHANGED <<slot, cast, stop, local, faults>>

WaitStops(s) ==
  /\ At(s, "wait") /\ stop
  /\ LeaveQueue(s) /\ To(s, "exit")
  /\ UNCHANGED <<holder, cast, stop, local, faults>>

-----------------------------------------------------------------------------
(* safe_setup, of the card and of a scene. *)

Announces(s) ==
  /\ At(s, "announce")
  /\ current' = [current EXCEPT ![s] = "card"] /\ up' = [up EXCEPT ![s] = TRUE]
  /\ To(s, "top")
  /\ UNCHANGED <<slot, cast, stop, index, live, claimed, claimant, probe, following, failed,
                 back, pauseEv, resumeEv, faults>>

(* An outage: the card gives up the slot of the scene it announces, for     *)
(* good; a scene claims its own back.                                       *)
AnnounceMeetsOutage(s) ==
  /\ At(s, "announce") /\ faults < MaxFaults /\ faults' = faults + 1
  /\ current' = [current EXCEPT ![s] = "card"]
  /\ ReleaseClaim(s, index[s]) /\ To(s, "cardDown")
  /\ UNCHANGED <<queue, cast, stop, index, up, live, claimant, probe, following, failed, back,
                 pauseEv, resumeEv>>

(* maybe_install_conductor: a scene already stamped keeps its orchestrator. *)
InstallsConductor(s) ==
  IF Kind(s) = "span" /\ active = 0
  THEN instance' = 3 - instance /\ active' = 3 - instance
  ELSE UNCHANGED <<instance, active>>

SetsUp(s) ==
  /\ At(s, "setup") /\ Kind(s) # "span"
  /\ up' = [up EXCEPT ![s] = TRUE] /\ live' = [live EXCEPT ![s] = TRUE]
  /\ To(s, "top")
  /\ UNCHANGED <<slot, cast, stop, index, current, claimed, claimant, probe, following, failed,
                 back, pauseEv, resumeEv, faults>>

(* begin, in the setup of the conductor's big_text: an overlay, whose setup *)
(* comes behind that of its scene.                                          *)
Begins(s) ==
  /\ At(s, "setup") /\ Kind(s) = "span" /\ ~on
  /\ InstallsConductor(s) /\ on' = TRUE /\ To(s, "opened")
  /\ UNCHANGED <<slot, interrupt, resume, stop, local, faults>>

Clears(s) ==
  /\ At(s, "opened") /\ ClearResumes(s) /\ To(s, "begun")
  /\ UNCHANGED <<slot, active, on, instance, interrupt, stop, local, faults>>

Broadcasts(s) ==
  /\ At(s, "begun") /\ SetInterrupts(s)
  /\ up' = [up EXCEPT ![s] = TRUE] /\ live' = [live EXCEPT ![s] = TRUE]
  /\ To(s, "top")
  /\ UNCHANGED <<slot, active, on, instance, resume, stop, index, current, claimed, claimant,
                 probe, following, failed, back, pauseEv, resumeEv, faults>>

(* It raises before that, and is disabled: the scene plays without it.      *)
BigTextFails(s) ==
  /\ At(s, "setup") /\ Kind(s) = "span" /\ faults < MaxFaults /\ faults' = faults + 1
  /\ InstallsConductor(s)
  /\ up' = [up EXCEPT ![s] = TRUE] /\ live' = [live EXCEPT ![s] = TRUE]
  /\ To(s, "top")
  /\ UNCHANGED <<slot, on, interrupt, resume, stop, index, current, claimed, claimant, probe,
                 following, failed, back, pauseEv, resumeEv>>

(* The setup raised: the scene renders nothing and ends.  What it had done  *)
(* to the machine by then may sound.                                        *)
SetupRaises(s) ==
  /\ At(s, "setup") /\ faults < MaxFaults /\ faults' = faults + 1
  /\ InstallsConductor(s) /\ live' = [live EXCEPT ![s] = TRUE] /\ To(s, "top")
  /\ UNCHANGED <<slot, on, interrupt, resume, stop, index, current, up, claimed, claimant,
                 probe, following, failed, back, pauseEv, resumeEv>>

(* An outage takes the slot, not what the setup has done to the machine.    *)
SetupMeetsOutage(s) ==
  /\ At(s, "setup") /\ faults < MaxFaults /\ faults' = faults + 1
  /\ InstallsConductor(s) /\ live' = [live EXCEPT ![s] = TRUE]
  /\ ReleaseClaim(s, index[s])
  /\ claimant' = [claimant EXCEPT ![s] = index[s] \in claimed[s]]
  /\ To(s, "sceneDown")
  /\ UNCHANGED <<queue, on, interrupt, resume, stop, index, current, up, probe, following,
                 failed, back, pauseEv, resumeEv>>

(* Writes were lost on a link that answers again at once: the slot is kept. *)
SetupLosesWrites(s) ==
  /\ At(s, "setup") /\ faults < MaxFaults /\ faults' = faults + 1
  /\ InstallsConductor(s) /\ live' = [live EXCEPT ![s] = TRUE] /\ To(s, "sceneDown")
  /\ UNCHANGED <<slot, on, interrupt, resume, stop, index, current, up, claimed, claimant,
                 probe, following, failed, back, pauseEv, resumeEv>>

LinkAnswers(s) == At(s, "sceneDown") /\ ~stop /\ Goes(s, "sceneBack")

\* Mutant: the scene is set up again without claiming its slot back.
SceneJustRetries(s) ==
  /\ At(s, "sceneBack")
  /\ live' = [live EXCEPT ![s] = FALSE]
  /\ To(s, "setup")
  /\ claimant' = [claimant EXCEPT ![s] = FALSE]
  /\ UNCHANGED <<slot, cast, stop, index, current, up, claimed, probe, following, failed, back,
                 pauseEv, resumeEv, faults>>

(* The half set up scene is torn down, and then its slot claimed back.      *)
SceneRetries(s) ==
  /\ At(s, "sceneBack")
  /\ live' = [live EXCEPT ![s] = FALSE]
  /\ To(s, IF claimant[s] THEN "claim" ELSE "setup")
  /\ claimant' = [claimant EXCEPT ![s] = FALSE]
  /\ UNCHANGED <<slot, cast, stop, index, current, up, claimed, probe, following, failed, back,
                 pauseEv, resumeEv, faults>>

CardRetries(s) == At(s, "cardDown") /\ ~stop /\ Goes(s, "announce")

OutageStops(s) == pc[s] \in {"cardDown", "sceneDown"} /\ stop /\ Goes(s, "exit")

-----------------------------------------------------------------------------
(* The operators. *)

AskPause(s)  == /\ MayPause /\ ~pauseEv[s] /\ pc[s] # "ended"
                /\ pauseEv' = [pauseEv EXCEPT ![s] = TRUE]
                /\ UNCHANGED <<slot, cast, stop, pc, index, current, up, live, claimed,
                               claimant, probe, following, failed, back, resumeEv, faults>>
AskResume(s) == /\ MayPause /\ pauseEv[s] /\ ~resumeEv[s]
                /\ resumeEv' = [resumeEv EXCEPT ![s] = TRUE]
                /\ UNCHANGED <<slot, cast, stop, pc, index, current, up, live, claimed,
                               claimant, probe, following, failed, back, pauseEv, faults>>
AskStop == /\ MayStop /\ ~stop /\ stop' = TRUE
           /\ UNCHANGED <<slot, cast, pc, local, faults>>

Follower(s) == InterruptedOnAir(s) \/ InterruptedInLine(s) \/ Joins(s) \/ Unfollows(s)

Step(s) ==
  \/ Exits(s) \/ Pauses(s) \/ Resumes(s) \/ PauseStops(s) \/ NotPaused(s) \/ NoInterrupt(s)
  \/ Follower(s)
  \/ AdvanceFirst(s) \/ Renders(s) \/ MessageEnds(s) \/ SceneEnds(s) \/ CardEnds(s)
  \/ ResolveStops(s) \/ Resolves(s) \/ Refused(s) \/ AllGated(s) \/ PollsAgain(s)
  \/ NoClaimNeeded(s) \/ Lines(s) \/ Claims(s) \/ WaitStops(s)
  \/ Announces(s) \/ SetsUp(s) \/ Begins(s) \/ Clears(s) \/ Broadcasts(s)
  \/ LinkAnswers(s) \/ SceneRetries(s) \/ CardRetries(s) \/ OutageStops(s)

Upset(s) ==
  \/ Reloads(s) \/ JoinFails(s) \/ FollowerFails(s) \/ Jumps(s) \/ Restarts(s)
  \/ AnnounceMeetsOutage(s) \/ BigTextFails(s) \/ SetupRaises(s) \/ SetupMeetsOutage(s)
  \/ SetupLosesWrites(s)
  \/ AskPause(s) \/ AskResume(s)

Next == AskStop \/ \E s \in Systems : Step(s) \/ Upset(s)

Spec == Init /\ [][Next]_vars

-----------------------------------------------------------------------------
Places == {"top", "cast", "advance", "paused", "joining", "follow", "resolve", "gated", "claim",
           "join", "wait", "announce", "cardDown", "setup", "opened", "begun", "sceneDown",
           "sceneBack", "exit", "ended"}

(* What each variable holds; the others are flags, one of each per system.  *)
TypeOK ==
  /\ holder \in Systems \cup {Nobody}
  /\ active \in 0..2 /\ instance \in 1..2
  /\ pc \in [Systems -> Places]
  /\ index \in [Systems -> Nat] /\ \A s \in Systems : index[s] \in Scenes(s)
  /\ claimed \in [Systems -> SUBSET Nat] /\ \A s \in Systems : claimed[s] \subseteq Scenes(s)
  /\ probe \in [Systems -> Nat] /\ \A s \in Systems : probe[s] <= Len(Shows[s])
  /\ current \in [Systems -> {"none", "card", "scene", "follower"}]
  /\ following \in [Systems -> 0..2] /\ failed \in [Systems -> 0..2]
  /\ back \in [Systems -> {"advance", "join", "resolve"}]
  /\ faults \in 0..MaxFaults

Sounds(s) == current[s] = "scene" /\ live[s] /\ Competes(s, index[s])

(* The wait for a link that took a setup's slot, until its teardown or the  *)
(* end of the run.                                                          *)
CutOff(s) == claimant[s] /\ pc[s] \in {"sceneDown", "sceneBack", "exit"}

(* What sounds holds the slot, through restarts, jumps, reloads, pauses,    *)
(* interludes and setups that fail half way.  The one overlap is the one    *)
(* the architecture notes accept: a half set up scene whose outage took its *)
(* slot sounds on beside its new holder until it is torn down, and it is    *)
(* torn down before it lines up for the slot again (config.md:403).         *)
OneSounds == \A s \in Systems : Sounds(s) => holder = s \/ CutOff(s)

(* The slot is never stranded: its holder has exactly one scene stamped     *)
(* with the claim, and that scene is on screen, announced or being set up.  *)
SlotIsUsed ==
  /\ \A s \in Systems : claimed[s] # {} => holder = s /\ claimed[s] = {index[s]}
  /\ holder # Nobody =>
       /\ claimed[holder] # {}
       /\ \/ current[holder] \in {"card", "scene"}
          \/ pc[holder] = "announce"

(* A place in the line is held only by a system that is polling: a head     *)
(* nobody serves would hold the slot against everyone (ensemble.py:161-163).*)
LineIsServed ==
  \A s \in Systems : s \in ToSet(queue) => pc[s] \in {"wait", "gated", "resolve"}

(* No system misses a broadcast: from the interrupts to the end, every      *)
(* other system follows it or has its interrupt pending, though it waited   *)
(* in line or was late for the one before (orchestrator.py:119-121); or its *)
(* follower for this very broadcast could not be shown.  What becomes of a  *)
(* pending interrupt is InterruptedJoin's.                                  *)
NobodyMissed ==
  \A c \in Systems : Conducts(c) /\ up[c] /\ on =>
    \A t \in Followers(c) :
      interrupt[t] \/ following[t] = active \/ failed[t] = active \/ stop

-----------------------------------------------------------------------------
(* Every system's thread is scheduled.                                      *)
FairSpec == Spec /\ \A s \in Systems : WF_vars(Step(s))

(* What ends in its own time, for a promise that rests on it: a tune, a     *)
(* card, a broadcast.  Any other scene may play for ever.  A follower sees  *)
(* its resume event within a frame, well before the conductor comes round   *)
(* to its next broadcast.                                                   *)
Progress(s) ==
  (SceneEnds(s) /\ Kind(s) = "audio") \/ CardEnds(s) \/ MessageEnds(s) \/ Unfollows(s)
ScenesEnd == \A s \in Systems : SF_vars(Progress(s))

(* A system in line gets the slot, whatever the others play: none of them   *)
(* can release it and take it again past the line (ensemble.py:126-133).    *)
(* A broadcast may call it away first, and it lines up again behind it.     *)
WaitersServed ==
  ScenesEnd => \A s \in Systems : s \in ToSet(queue) ~> (holder = s \/ stop \/ interrupt[s])

(* An interrupted system joins this very broadcast, on air or in line,      *)
(* unless the broadcast is over first.  Left out is one that is late from   *)
(* the broadcast before and still bound to it: it sits this one out, since  *)
(* each asks whether any is on, not which (orchestrator.py:138-139).        *)
InterruptedJoin ==
  \A s \in Systems :
    (interrupt[s] /\ on /\ following[s] = 0) ~> (following[s] = active \/ ~on \/ stop)
=============================================================================
