---------------------------- MODULE RestartWatch ----------------------------
(***************************************************************************)
(* MachineRestartWatch (app/playlist_support.py) and the reads it borrows  *)
(* from the Commodore-key poller (control/keyboard.py): how a run tells a  *)
(* machine that restarted under a scene from a link that dropped out, and  *)
(* from a reset of its own.                                                *)
(*                                                                         *)
(* The watch keeps a nonce in eight bytes that a C64 reset zeroes.  The    *)
(* run loop judges what is read back there: from the poller's samples, and *)
(* over REST once the link has changed.  Three parties move meanwhile: the *)
(* machine, the poller's thread, and (by the contract of the backend's     *)
(* reset listener) another thread that resets the machine for c64cast.     *)
(*                                                                         *)
(* Counters of the code that are only compared are kept as the comparison: *)
(* "moved" says that the link marks differ from the recorded ones, "fresh" *)
(* that a read's number is above the poller mark.                          *)
(***************************************************************************)
EXTENDS Naturals

CONSTANTS
    RestartLimit,   \* RESTART_LIMIT_PER_PLAY
    MaxFaults       \* bound: what the machine and the link may do to the run

ASSUME Bounds == RestartLimit \in Nat \ {0} /\ MaxFaults \in Nat

VARIABLES
    polled,      \* attach_poller() was called
    mem,         \* what the eight bytes hold, and who put it there
    link,        \* the machine answers
    faults,
    restored,    \* the run's machine state is in place
    other,       \* the other thread: "idle", "reset" issued, listener "checked"
    armed, rearm, rearmLost, suspended, stoodDown, restarts,
    moved,       \* delivery_epoch or link_generation left _marks
    inLook,      \* ... since the marks of the look in progress were taken
    reading,     \* the poller's read in flight
    sample,      \* the last one it published
    pc, where,   \* the run loop: its label, and whom it judges for
    landed, ended,   \* of the frame that after_frame is asked about
    wrote, afterRestart,
    handed,      \* whether a launched program owns the machine: "no", "alone", or
                 \* "crossed" by another thread on its way to report a reset
    again,       \* times this play's scene was set up again
    verdict,     \* what the last restart that was found rested on
    crossed      \* history: another thread's reset was unreported as the run loop last
                 \* looked at its flags, or has been issued since

machine == <<mem, link, faults>>
flags == <<armed, rearm, rearmLost, suspended, stoodDown, restarts>>
marks == <<moved, inLook>>
poller == <<reading, sample>>
loop == <<pc, where, landed, ended, wrote, afterRestart, handed>>
ghosts == <<restored, again, verdict, crossed>>
fixed == <<polled>>
vars == <<machine, flags, marks, poller, loop, ghosts, fixed, other>>

\* Zeros of a reset c64cast issued and was answered ("own") or not, of one of
\* the machine itself, of a program; and zeros that were read before the nonce
\* the watch now waits for.
Zeros == {"own", "unanswered", "machine", "tune", "stale"}
Values == Zeros \cup {"nonce", "other"}
NoRead == [seen |-> "none", fresh |-> FALSE]
Read(s) == [seen |-> s, fresh |-> TRUE]
Reads == [seen : Values \cup {"none"}, fresh : BOOLEAN]
Labels == {"before", "poll", "rest", "look", "restore", "setup", "write", "mark", "frame", "after"}

\* The other variables are flags.
TypeOK ==
    /\ mem \in Values /\ other \in {"idle", "reset", "checked"}
    /\ reading \in Reads /\ sample \in Reads
    /\ pc \in Labels /\ where \in {"setup", "frame"}
    /\ restarts \in 0 .. RestartLimit /\ again \in 0 .. RestartLimit
    /\ verdict \in Zeros \cup {"none"} /\ handed \in {"no", "alone", "crossed"}

Init ==
    /\ polled \in BOOLEAN
    /\ mem = "other" /\ link = TRUE /\ faults = 0
    /\ restored = TRUE /\ other = "idle"
    /\ armed = FALSE /\ rearm = FALSE /\ rearmLost = FALSE
    /\ suspended = FALSE /\ stoodDown = FALSE /\ restarts = 0
    /\ moved = FALSE /\ inLook = FALSE
    /\ reading = NoRead /\ sample = NoRead
    /\ pc = "before" /\ where = "setup"
    /\ landed = FALSE /\ ended = FALSE /\ wrote = FALSE /\ afterRestart = FALSE
    /\ handed = "no" /\ again = 0 /\ verdict = "none" /\ crossed = FALSE

-----------------------------------------------------------------------------
(* The machine and the link. *)

Fault == faults < MaxFaults /\ faults' = faults + 1

\* A redial, or a loss charged to delivery_epoch.
MarksMove == moved' = TRUE /\ inLook' = (pc = "look")

\* The front panel's button, or a REST reset from elsewhere: the link stays.
ButtonReset ==
    /\ Fault
    /\ mem' = "machine" /\ restored' = FALSE
    /\ UNCHANGED <<link, flags, marks, poller, loop, again, verdict, crossed, fixed, other>>

\* A power blip or a firmware crash: the machine is gone until LinkReturns.
PowerBlip ==
    /\ Fault
    /\ mem' = "machine" /\ restored' = FALSE /\ link' = FALSE
    /\ UNCHANGED <<flags, marks, poller, loop, again, verdict, crossed, fixed, other>>

LinkDrops ==
    /\ Fault /\ link /\ link' = FALSE
    /\ UNCHANGED <<mem, flags, marks, poller, loop, ghosts, fixed, other>>

\* The next send redials.  A machine needs seconds to boot, so it is not back
\* between a confirmed write and the statement that records the marks.
LinkReturns ==
    /\ ~link /\ link' = TRUE
    /\ ~(pc = "mark" /\ wrote)
    /\ MarksMove
    /\ UNCHANGED <<mem, faults, flags, poller, loop, ghosts, fixed, other>>

\* A program on the machine stores over the nonce, zeros or something else.
TuneZeroes ==
    /\ pc = "frame" /\ mem = "nonce" /\ mem' = "tune"
    /\ UNCHANGED <<link, faults, flags, marks, poller, loop, ghosts, fixed, other>>

Overwritten ==
    /\ Fault /\ pc = "frame" /\ mem' = "other"
    /\ UNCHANGED <<link, flags, marks, poller, loop, ghosts, fixed, other>>

-----------------------------------------------------------------------------
(* The poller's thread: the read takes its number, then reads; the sample  *)
(* is published when the answer is there.  It does not read while a        *)
(* program owns the keyboard.  watched_since has a sample at or below the  *)
(* mark count as none.                                                     *)

Heeded(r) == IF r.fresh THEN r ELSE NoRead

PollReads ==
    /\ polled /\ reading = NoRead /\ handed = "no" /\ link
    /\ reading' = Read(mem)
    /\ UNCHANGED <<machine, flags, marks, sample, loop, ghosts, fixed, other>>

PollPublishes ==
    /\ reading # NoRead
    /\ sample' = Heeded(reading) /\ reading' = NoRead
    /\ UNCHANGED <<machine, flags, marks, loop, ghosts, fixed, other>>

\* The read fails; the last sample stays.
PollFails ==
    /\ reading # NoRead /\ reading' = NoRead
    /\ UNCHANGED <<machine, flags, marks, sample, loop, ghosts, fixed, other>>

-----------------------------------------------------------------------------
(* Resets c64cast issues itself, which end in _after_reset. *)

AfterReset == IF suspended \/ stoodDown THEN UNCHANGED rearm ELSE rearm' = TRUE

\* On the run loop: a setup that kicks a program, a tune change within a
\* frame, a pause between two scenes.
OwnReset ==
    /\ pc \in {"before", "setup", "frame"} /\ link
    /\ mem' = "own" /\ AfterReset
    /\ UNCHANGED <<link, faults, armed, rearmLost, suspended, stoodDown, restarts,
                   marks, poller, loop, ghosts, fixed, other>>

\* The request fails or its answer is lost, and nothing is reported.  The
\* machine may reset all the same, and later than the call gave up.
ResetUnanswered ==
    /\ Fault /\ link
    /\ mem' = "unanswered" /\ restored' = FALSE
    /\ UNCHANGED <<link, flags, marks, poller, loop, again, verdict, crossed, fixed, other>>

OtherResets ==
    /\ other = "idle" /\ link
    /\ mem' = "own" /\ other' = "reset" /\ crossed' = TRUE
    /\ UNCHANGED <<link, faults, flags, marks, poller, loop, restored, again, verdict, fixed>>

OtherChecks ==
    /\ other = "reset"
    /\ other' = IF suspended \/ stoodDown THEN "idle" ELSE "checked"
    /\ UNCHANGED <<machine, flags, marks, poller, loop, ghosts, fixed>>

OtherReports ==
    /\ other = "checked" /\ other' = "idle"
    /\ rearm' = TRUE
    /\ UNCHANGED <<machine, armed, rearmLost, suspended, stoodDown, restarts,
                   marks, poller, loop, ghosts, fixed>>

-----------------------------------------------------------------------------
(* Judging what was read. *)

Counted == where = "frame" /\ ~ended

\* Where the run loop goes once nothing was found.
GoesOn == IF where = "setup" THEN "setup" ELSE IF ended THEN "before" ELSE "frame"

Finds(seen) ==
    /\ verdict' = seen /\ pc' = "restore"

\* _judge: the nonce, something else, or zeros; "next" is where no restart leads.
Judge(seen, next) ==
    \/ /\ seen = "nonce" /\ pc' = next
       /\ UNCHANGED <<armed, restarts, stoodDown, verdict>>
    \/ /\ seen = "other" /\ armed' = FALSE /\ pc' = next
       /\ UNCHANGED <<restarts, stoodDown, verdict>>
    \/ /\ seen \in Zeros /\ ~Counted
       /\ armed' = FALSE /\ Finds(seen)
       /\ UNCHANGED <<restarts, stoodDown>>
    \/ /\ seen \in Zeros /\ Counted
       /\ armed' = FALSE /\ restarts' = restarts + 1
       /\ IF restarts + 1 >= RestartLimit
          THEN stoodDown' = TRUE /\ pc' = next /\ UNCHANGED verdict
          ELSE Finds(seen) /\ UNCHANGED stoodDown

Fresh == polled /\ sample.fresh

NothingPolled ==
    /\ pc = "poll" /\ ~(armed /\ Fresh)
    /\ pc' = "rest"
    /\ UNCHANGED <<machine, flags, marks, poller, where, landed, ended, wrote,
                   afterRestart, handed, ghosts, fixed, other>>

JudgePoll ==
    /\ pc = "poll" /\ armed /\ Fresh
    /\ sample' = NoRead
    /\ Judge(sample.seen, "rest")
    /\ UNCHANGED <<machine, rearm, rearmLost, suspended, marks, reading, where, landed, ended,
                   wrote, afterRestart, handed, restored, again, crossed, fixed, other>>

\* Over REST: only when armed, after a landed frame, the link having changed.
\* A frame's look may also come too soon after the last one (_next_check).
WorthLooking == armed /\ moved /\ (where = "frame" => landed)

NoLook ==
    /\ pc = "rest" /\ (WorthLooking => where = "frame") /\ pc' = GoesOn /\ landed' = FALSE
    /\ UNCHANGED <<machine, flags, marks, poller, where, ended, wrote,
                   afterRestart, handed, ghosts, fixed, other>>

LookStarts ==
    /\ pc = "rest" /\ WorthLooking /\ pc' = "look" /\ landed' = FALSE
    /\ inLook' = FALSE
    /\ UNCHANGED <<machine, flags, moved, poller, where, ended, wrote,
                   afterRestart, handed, ghosts, fixed, other>>

LookReads ==
    /\ pc = "look" /\ link
    /\ moved' = inLook /\ inLook' = FALSE
    /\ Judge(mem, GoesOn)
    /\ UNCHANGED <<machine, rearm, rearmLost, suspended, poller,
                   where, landed, ended, wrote, afterRestart, handed, restored, again, crossed,
                   fixed, other>>

\* Mutant: a read that failed records the marks all the same.
LookFailsForGood ==
    /\ pc = "look" /\ pc' = GoesOn /\ inLook' = FALSE /\ moved' = FALSE
    /\ UNCHANGED <<machine, flags, poller, where, landed, ended, wrote, afterRestart,
                   handed, ghosts, fixed, other>>

LookFails ==
    /\ pc = "look" /\ pc' = GoesOn /\ inLook' = FALSE
    /\ UNCHANGED <<machine, flags, moved, poller, where, landed, ended, wrote, afterRestart,
                   handed, ghosts, fixed, other>>

-----------------------------------------------------------------------------
(* Writing the nonce: _write_nonce and _retry_if_lost. *)

WriteBegins ==
    /\ rearm' = FALSE /\ rearmLost' = FALSE /\ suspended' = FALSE
    /\ pc' = "write" /\ landed' = FALSE

\* Whatever was read as zeros so far was read before this nonce.
Staled(r) == IF r.seen \in Zeros THEN [r EXCEPT !.seen = "stale"] ELSE r

AfterWrite == IF where = "setup" THEN "frame" ELSE GoesOn

WriteStandsDown ==
    /\ pc = "write" /\ stoodDown
    /\ armed' = FALSE /\ pc' = AfterWrite
    /\ UNCHANGED <<machine, rearm, rearmLost, suspended, stoodDown, restarts, marks, poller, where,
                   landed, ended, wrote, afterRestart, handed, ghosts, fixed, other>>

WriteLands ==
    /\ pc = "write" /\ ~stoodDown /\ link
    /\ mem' = "nonce" /\ wrote' = TRUE /\ pc' = "mark"
    /\ reading' = Staled(reading) /\ sample' = Staled(sample)
    /\ UNCHANGED <<link, faults, flags, marks, where, landed, ended, afterRestart, handed,
                   ghosts, fixed, other>>

\* write_confirmed ran out of tries; the nonce may be there all the same.
WriteIsLost ==
    /\ pc = "write" /\ ~stoodDown
    /\ \/ UNCHANGED <<mem, poller>>
       \/ /\ link /\ mem' = "nonce"
          /\ reading' = Staled(reading) /\ sample' = Staled(sample)
    /\ MarksMove
    /\ wrote' = FALSE /\ pc' = "mark"
    /\ UNCHANGED <<link, faults, flags, where, landed, ended,
                   afterRestart, handed, ghosts, fixed, other>>

\* Mutant: the mark of the last nonce is kept.
MarksNothing == UNCHANGED poller

\* _poller_mark := reads_started: no read issued so far will be heeded.
MarksPoller == sample' = NoRead /\ reading' = [reading EXCEPT !.fresh = FALSE]

\* Mutant: a reset reported during the write is forgotten.
RetryAssigns ==
    IF wrote THEN rearm' = FALSE /\ rearmLost' = FALSE ELSE rearm' = TRUE /\ rearmLost' = TRUE

\* _retry_if_lost, which only ever sets the flags.
RetryIfLost ==
    IF wrote THEN UNCHANGED <<rearm, rearmLost>> ELSE rearm' = TRUE /\ rearmLost' = TRUE

RecordsMarks ==
    /\ pc = "mark"
    /\ armed' = wrote /\ moved' = FALSE /\ wrote' = FALSE
    /\ MarksPoller /\ RetryIfLost
    /\ pc' = AfterWrite
    /\ UNCHANGED <<machine, suspended, stoodDown, restarts, inLook, where, landed, ended,
                   afterRestart, handed, ghosts, fixed, other>>

-----------------------------------------------------------------------------
(* The run loop around the watch. *)

\* restarted_before_setup, asked before every attempt at a setup.
AsksBeforeSetup ==
    /\ pc = "before"
    /\ where' = "setup" /\ handed' = "no" /\ landed' = FALSE /\ ended' = FALSE
    /\ pc' = IF armed /\ ~rearm THEN "poll" ELSE "setup"
    /\ crossed' = (other # "idle")
    /\ UNCHANGED <<machine, flags, marks, poller, wrote, afterRestart, restored, again,
                   verdict, fixed, other>>

\* An attempt on a link that is down is made again.
SetupRetries ==
    /\ pc = "setup" /\ ~link /\ pc' = "before"
    /\ UNCHANGED <<machine, flags, marks, poller, where, landed, ended, wrote, afterRestart, handed,
                   ghosts, fixed, other>>

Suspend == armed' = FALSE /\ rearm' = FALSE /\ rearmLost' = FALSE /\ suspended' = TRUE

\* The scene is a launcher.
SetupHandsOver ==
    /\ pc = "setup" /\ link /\ ~afterRestart
    /\ Suspend
    /\ handed' = (IF other = "checked" THEN "crossed" ELSE "alone")
    /\ pc' = "frame" /\ again' = 0
    /\ UNCHANGED <<machine, stoodDown, restarts, marks, poller, where, landed, ended, wrote,
                   afterRestart, restored, verdict, crossed, fixed, other>>

\* Mutant: every arm() starts the count over.
CountsAnew == restarts' = 0 /\ stoodDown' = FALSE

\* arm() of a new play ends a stand-down and starts the count over.
CountsOn ==
    IF afterRestart THEN UNCHANGED <<restarts, stoodDown>>
    ELSE restarts' = 0 /\ stoodDown' = FALSE

\* Any other scene: arm().
SetupArms ==
    /\ pc = "setup" /\ link
    /\ WriteBegins /\ CountsOn
    /\ afterRestart' = FALSE /\ again' = IF afterRestart THEN again ELSE 0
    /\ UNCHANGED <<machine, armed, marks, poller, where, ended, wrote, handed,
                   restored, verdict, crossed, fixed, other>>

\* A frame renders; writes to a link that is down are lost.
Frame(l, e) ==
    /\ pc = "frame" /\ pc' = "after" /\ where' = "frame"
    /\ l => link
    /\ landed' = l /\ ended' = e
    /\ IF link THEN UNCHANGED marks ELSE MarksMove
    /\ UNCHANGED <<machine, flags, poller, wrote, afterRestart, handed,
                   ghosts, fixed, other>>

\* after_frame with a re-arm owed: a lost one waits for a landed frame, or
\* for a spell without a loss (_next_rearm, which may pass at any time).
RearmWaits ==
    /\ pc = "after" /\ rearm /\ rearmLost /\ ~landed
    /\ pc' = GoesOn /\ landed' = FALSE
    /\ UNCHANGED <<machine, flags, moved, inLook, poller, where, ended, wrote,
                   afterRestart, handed, ghosts, fixed, other>>

Rearms ==
    /\ pc = "after" /\ rearm
    /\ WriteBegins
    /\ UNCHANGED <<machine, armed, stoodDown, restarts, marks, poller, where, ended, wrote,
                   afterRestart, handed, ghosts, fixed, other>>

AfterFrame ==
    /\ pc = "after" /\ ~rearm /\ pc' = "poll" /\ crossed' = (other # "idle")
    /\ UNCHANGED <<machine, flags, marks, poller, where, landed, ended, wrote, afterRestart, handed,
                   restored, again, verdict, fixed, other>>

\* A restart was found: the run's machine state is put back, and the scene
\* under it, if it goes on, is set up again.
Restores ==
    /\ pc = "restore" /\ restored' = TRUE /\ verdict' = "none"
    /\ pc' = IF where = "setup" THEN "setup" ELSE "before"
    /\ IF Counted THEN afterRestart' = TRUE /\ again' = again + 1
       ELSE UNCHANGED <<afterRestart, again>>
    /\ UNCHANGED <<machine, flags, marks, poller, where, landed, ended, wrote, handed, crossed,
                   fixed, other>>

Next ==
    \/ ButtonReset \/ PowerBlip \/ LinkDrops \/ LinkReturns
    \/ TuneZeroes \/ Overwritten
    \/ PollReads \/ PollPublishes \/ PollFails
    \/ OwnReset \/ ResetUnanswered \/ OtherResets \/ OtherChecks \/ OtherReports
    \/ NothingPolled \/ JudgePoll \/ NoLook \/ LookStarts \/ LookReads \/ LookFails
    \/ WriteStandsDown \/ WriteLands \/ WriteIsLost \/ RecordsMarks
    \/ AsksBeforeSetup \/ SetupRetries \/ SetupHandsOver \/ SetupArms
    \/ \E l, e \in BOOLEAN : Frame(l, e)
    \/ RearmWaits \/ Rearms \/ AfterFrame \/ Restores

Spec == Init /\ [][Next]_vars

\* The run loop and the poller are threads that keep running; a link that is
\* down comes back, and of the frames and reads that are tried
\* again and again some succeed.
Fairness ==
    /\ WF_vars(LinkReturns)
    /\ WF_vars(PollReads) /\ SF_vars(PollPublishes)
    /\ WF_vars(NothingPolled \/ JudgePoll \/ NoLook \/ LookStarts \/ LookReads \/ LookFails)
    /\ SF_vars(LookStarts) /\ SF_vars(LookReads)
    /\ WF_vars(WriteStandsDown \/ WriteLands \/ WriteIsLost \/ RecordsMarks)
    /\ WF_vars(AsksBeforeSetup \/ SetupRetries \/ SetupHandsOver \/ SetupArms)
    /\ WF_vars(\E l, e \in BOOLEAN : Frame(l, e)) /\ SF_vars(Frame(TRUE, FALSE))
    /\ WF_vars(RearmWaits \/ Rearms \/ AfterFrame \/ Restores)

FairSpec == Spec /\ Fairness

-----------------------------------------------------------------------------
\* A restart is never found on the evidence of a sample read before the nonce
\* was written (_poller_mark), nor of a reset of c64cast's own that its listener
\* heard of.  The report of one on another thread has to be there when the run
\* loop looks at _rearm: the look itself is made later (playlist_support.py:
\* 784-802, 823-826).  One whose request failed is never reported, and found.
NotItsOwn == verdict # "stale" /\ (verdict = "own" => crossed)

\* Whatever thread resets the machine, and whenever in a nonce's write: once
\* its listener has run, a watch armed over the zeros owes a re-arm.
OwnResetIsOwed ==
    armed /\ mem = "own" /\ other = "idle" /\ pc # "write" /\ (pc = "mark" => wrote) => rearm

\* A program that keeps clearing the nonce has its scene set up again fewer
\* than RESTART_LIMIT_PER_PLAY times in one play.
RestartsAreBounded == again < RestartLimit

\* The memory of a launched program is not written to, whatever thread resets
\* the machine under it, unless a listener had looked at _suspended by the
\* handover and set _rearm behind it (playlist_support.py:722-723).
ProgramUntouched == [][handed = "alone" => ~(mem # "nonce" /\ mem' = "nonce")]_vars

\* A restart under a scene that goes on is met, and so is a reset nobody heard
\* of: the machine's state is put back, unless the scene ends, a reset of its
\* own or another store hides it, or the watch stood down.
RestartIsMet ==
    (/\ pc = "frame" /\ armed /\ ~rearm /\ mem \in {"machine", "unanswered"}
     /\ (polled /\ handed = "no") \/ moved)
        ~> (restored \/ pc = "setup" \/ rearm \/ other # "idle" \/ mem = "other" \/ stoodDown)
=============================================================================
