------------------------------ MODULE TeensyLink ------------------------------
(* TRClient (hw/teensyrom_dma.py): commands to a TeensyROM over a byte link    *)
(* with no framing and no sequence numbers.  A command is a chunk of bytes and *)
(* its reply, or several such rounds; one that fails part way leaves the       *)
(* firmware owed bytes, or a reply under way.  The client closes neither gap   *)
(* by talking: it marks the link out of step, and the next command first waits *)
(* until the firmware must have given up (_resync).                            *)
(*                                                                             *)
(* Commands hold the lock from start to end, so the client is one process.     *)
(* The firmware is external: its waits are those the client's constants and    *)
(* comments state.  Time advances by Tick; the client never stalls between two *)
(* blocking calls, and bytes are delivered at once.                            *)
EXTENDS Integers, Sequences, FiniteSetsExt

CONSTANTS
    Kinds,        \* the commands in use
    Quiet, DeadQuiet, MinQuiet,   \* _RESYNC_QUIET_S, _RESYNC_DEAD_QUIET_S, _RESYNC_MIN_QUIET_S
    HeaderWait,   \* _SPANS_HEADER_WAIT_S
    JobCeiling,   \* _SPANS_JOB_CEILING_S
    IoTimeout,    \* a read's io_timeout
    Reply,        \* firmware: the longest an answer takes
    Late,         \* firmware: the longest a slow one does, which ends its command
    Owed,         \* firmware: its wait for a byte it is owed (500 ms)
    Discard,      \* firmware: the silence that ends its discard (1 s)
    HeaderGivesUp,\* firmware: its wait for a span list's header
    Job,          \* firmware: the longest a spans job runs
    CutBehindPayload, \* whether an interrupt may come between a payload and its deadline
    MaxFaults     \* bound: cut calls, chatter, lost, late or refusing replies

Chunks == [write |-> <<"frame">>, read |-> <<"query">>, reset |-> <<"text">>, ping |-> <<"text">>,
           spans |-> <<"token", "header", "payload">>, file |-> <<"open", "body">>,
           post |-> <<"post", "head", "body">>, drain |-> <<>>]

ASSUME Waits ==
    /\ Kinds \subseteq DOMAIN Chunks
    /\ {Quiet, DeadQuiet, MinQuiet, HeaderWait, JobCeiling, IoTimeout,
        Reply, Late, Owed, Discard, HeaderGivesUp, Job, MaxFaults} \subseteq Nat
    /\ CutBehindPayload \in BOOLEAN
    /\ Reply < MinQuiet /\ Reply <= Owed /\ Owed > 0
    /\ Reply <= Late /\ Late < DeadQuiet /\ DeadQuiet <= Quiet
    /\ Reply + Owed < DeadQuiet
    /\ Reply + Owed + Discard < Quiet
    /\ Reply + HeaderGivesUp + Discard < HeaderWait /\ Quiet <= HeaderWait
    /\ IoTimeout < HeaderGivesUp
    /\ Job < JobCeiling

VARIABLES
    pc,       \* "idle", "resync", "drain", "send", "read" or "close"
    kind, step,   \* the command, and which of its chunks
    out,      \* _out_of_step
    dead,     \* _judged_dead
    failed,   \* _send_failed
    discards, \* _discard_owed
    heard,    \* what this command's resync has heard; TRUE without one
    since,    \* ticks since _last_send
    due,      \* ticks to _reply_due
    win, past,\* the drain in hand: the silence it waits for, whether it began past the wait
    got,      \* whether it read (the line it is for, or any byte)
    still,    \* ticks since this blocking read began or last had a byte
    last,     \* how the last command ended: "ok" or "err"
    fw,       \* external: the firmware: where it is, whose bytes put it there, ticks left
    fwin,     \* external: chunks it has yet to take
    inbox,    \* external: replies the client has yet to read
    faults

client == <<pc, kind, step, out, dead, failed, discards, heard, due, win, past, got, last>>
clocks == <<since, still>>
board == <<fw, fwin, inbox>>
vars == <<client, clocks, board, faults>>

Larger(a, b) == Max({a, b})

------------------------------------------------------------------------------
(* The firmware.                                                              *)

Idle == [at |-> "idle", cmd |-> "none", of |-> "old", left |-> 0]
At(where, cmd, of, n) == [at |-> where, cmd |-> cmd, of |-> of, left |-> n]

\* A chunk as the firmware gets it: all of it, or a first part.
Chunk(what, whole) == [what |-> what, whole |-> whole, of |-> "own"]
Answers(reps, of) == [i \in DOMAIN reps |-> [rep |-> reps[i], of |-> of]]

\* Where it waits for a command's next chunk.
Stages == {"header", "payload", "head", "body"}

\* The chunks it takes as what they were sent as, where it is.
Accepts(c) ==
    \/ fw.at = "idle" /\ c.what \in {"frame", "query", "text", "token", "open", "post", "zeros"}
    \/ fw.at \in Stages /\ c.of = fw.of /\ c.what = fw.at
    \/ fw.at = "header" /\ c.of = fw.of /\ c.what = "zeros"
    \/ fw.at = "owed" /\ c.of = fw.of
    \/ fw.at = "discard" /\ c.what \in {"header", "payload", "zeros"}

Listens == fw.at \in {"idle", "owed", "discard"} \cup Stages

\* What taking chunk c does where the firmware is.
Takes(c) ==
    CASE fw.at = "discard" -> At("discard", "none", "old", Discard)
      [] fw.at = "owed" -> IF c.what = "zeros" THEN At("busy", "stray", c.of, Reply) ELSE Idle
      [] fw.at = "idle" ->
            IF c.what \in Stages \cup {"zeros"} THEN Idle
            ELSE IF c.whole THEN At("busy", c.what, c.of, Reply) ELSE At("owed", "none", c.of, Owed)
      [] fw.at \in Stages /\ c.whole ->
            At(IF fw.at = "payload" THEN "job" ELSE "busy", c.what, c.of, Reply)
      [] fw.at = "header" /\ ~c.whole -> fw
      [] OTHER -> [fw EXCEPT !.left = Owed]

FwTakes ==
    /\ Listens /\ fwin # <<>>
    /\ fw' = Takes(Head(fwin))
    /\ fwin' = Tail(fwin)
    /\ UNCHANGED <<client, clocks, inbox, faults>>

\* The state an acked chunk leaves the firmware in.
Acked == CASE fw.cmd = "token" -> At("header", "none", fw.of, HeaderGivesUp)
           [] fw.cmd = "header" -> At("payload", "none", fw.of, Owed)
           [] fw.cmd = "post" -> At("head", "none", fw.of, Owed)
           [] fw.cmd \in {"open", "head"} -> At("body", "none", fw.of, Owed)
           [] OTHER -> Idle
\* A refused span list is followed by the discard; a job that failed is owed nothing.
Refused == IF fw.cmd = "header" THEN At("discard", "none", "old", Discard) ELSE Idle

Says == CASE fw.cmd = "text" -> <<"text">>
          [] fw.cmd = "query" -> <<"ack", "data">>
          [] OTHER -> <<"ack">>

AtWork == fw.at \in {"busy", "job", "late"}

FwAnswers ==
    /\ AtWork
    /\ fw.cmd \notin {"zeros", "stray"}
    /\ fw' = Acked
    /\ inbox' = inbox \o Answers(Says, fw.of)
    /\ UNCHANGED <<client, clocks, fwin, faults>>

\* Four zero bytes are a header it refuses, or the end of a token it does not know.
FwRefusesZeros ==
    /\ fw.at = "busy" /\ fw.cmd \in {"zeros", "stray"}
    /\ fw' = Idle
    /\ inbox' = inbox \o Answers(<<IF fw.cmd = "zeros" THEN "fail" ELSE "noise">>, fw.of)
    /\ UNCHANGED <<client, clocks, fwin, faults>>

\* A refusal; or an answer that chatter swallows.
FwRefuses ==
    /\ faults < MaxFaults
    /\ AtWork /\ fw.cmd \notin {"zeros", "stray", "text"}
    /\ fw' = Refused
    /\ inbox' = inbox \o Answers(<<"fail">>, fw.of)
    /\ faults' = faults + 1
    /\ UNCHANGED <<client, clocks, fwin>>

\* What may be answered late: the last of a write, a read, a reset or a file command.
Slow == {"frame", "query", "text", "body"}

\* A bus that stalls a job's slices, which end by the job's ceiling; or a slow answer
\* (not to a ping, which takes any byte for its line and needs it while it drains).
FwStalls ==
    /\ faults < MaxFaults /\ faults' = faults + 1
    /\ fw.left = Reply
    /\ \/ fw.at = "job" /\ fw.cmd = "payload" /\ fw' = At("job", "stalled", fw.of, Job)
       \/ /\ fw.at = "busy" /\ fw.cmd \in Slow /\ (kind = "ping" => fw.cmd # "text")
          /\ fw' = At("late", fw.cmd, fw.of, Late)
    /\ UNCHANGED <<client, clocks, fwin, inbox>>

FwAnswerLost ==
    /\ faults < MaxFaults
    /\ AtWork /\ fw.cmd \notin {"zeros", "stray"}
    /\ fw' = Acked
    /\ faults' = faults + 1
    /\ UNCHANGED <<client, clocks, fwin, inbox>>

\* It gives up on bytes it was owed and says so; after WriteC64Spans it discards.
FwGivesUp ==
    /\ fw.at \in {"owed"} \cup Stages /\ fw.left = 0 /\ fwin = <<>>
    /\ fw' = IF fw.at \in {"header", "payload"} THEN At("discard", "none", "old", Discard) ELSE Idle
    /\ inbox' = inbox \o Answers(<<"timeout">>, fw.of)
    /\ UNCHANGED <<client, clocks, fwin, faults>>

FwDiscardEnds ==
    /\ fw.at = "discard" /\ fw.left = 0 /\ fwin = <<>>
    /\ fw' = Idle
    /\ UNCHANGED <<client, clocks, fwin, inbox, faults>>

\* Boot or menu chatter, which is no reply to anything.
Chatter ==
    /\ faults < MaxFaults
    /\ inbox' = inbox \o Answers(<<"noise">>, "old")
    /\ faults' = faults + 1
    /\ UNCHANGED <<client, clocks, fw, fwin>>

FwMustAct == (Listens /\ fwin # <<>>) \/ (fw.at # "idle" /\ fw.left = 0)

ClientMustAct ==
    \/ pc \in {"send", "close"}
    \/ pc # "idle" /\ inbox # <<>>
    \/ pc = "read" /\ still >= IoTimeout
    \/ pc \in {"resync", "drain"} /\ still >= win

Tick ==
    /\ ~FwMustAct /\ ~ClientMustAct
    /\ fw' = [fw EXCEPT !.left = IF @ = 0 THEN 0 ELSE @ - 1]
    /\ since' = IF since < HeaderWait THEN since + 1 ELSE since
    /\ still' = IF pc = "idle" THEN 0 ELSE still + 1
    /\ due' = IF due = 0 THEN 0 ELSE due - 1
    /\ UNCHANGED <<pc, kind, step, out, dead, failed, discards, heard, win, past, got, last, fwin, inbox, faults>>

------------------------------------------------------------------------------
(* The client.                                                                *)

\* Mutant: a link judged dead has its short wait after a spans command too.
ShortAfterSpans == Larger((IF dead THEN DeadQuiet ELSE Quiet) - since, due)

\* What is left of the resync's wait: from the last byte sent, or until a reply is due.
Left == Larger((IF dead /\ ~discards THEN DeadQuiet ELSE Quiet) - since, due)

\* The bytes and replies of a command that has ended are no longer any command's own.
Old(q) == [i \in DOMAIN q |-> [q[i] EXCEPT !.of = "old"]]
Ends(q, r) ==
    /\ pc' = "idle" /\ kind' = "drain" /\ step' = 0
    /\ failed' = FALSE /\ heard' = TRUE
    /\ win' = 0 /\ past' = FALSE /\ got' = FALSE /\ still' = 0
    /\ fw' = [fw EXCEPT !.of = "old"] /\ fwin' = Old(q) /\ inbox' = Old(r)

\* How _command leaves: by the end of its body or a TRNak, or by anything else.
Completes(how, o) == last' = how /\ out' = o /\ dead' = FALSE /\ due' = 0
Fails(f, d) == last' = "err" /\ out' = TRUE /\ dead' = (dead \/ (~heard /\ f)) /\ due' = d

\* The command's first step once the link is in step; file commands drain first.
Opens(k) ==
    IF k \in {"file", "post", "drain"}
    THEN pc' = "drain" /\ win' = MinQuiet /\ step' = 0
    ELSE pc' = "send" /\ win' = 0 /\ step' = 1

Begin(k) ==
    /\ pc = "idle"
    /\ kind' = k
    /\ \/ out /\ pc' = "resync" /\ win' = Larger(Left, MinQuiet) /\ past' = (Left <= 0)
          /\ heard' = FALSE /\ step' = 0
       \/ ~out /\ Opens(k) /\ past' = FALSE /\ heard' = TRUE
    /\ UNCHANGED <<out, dead, failed, discards, due, got, last, clocks, board, faults>>

\* Mutant: a drain that heard nothing is followed by another.
OnlyWhenHeard ==
    /\ pc = "resync" /\ inbox = <<>> /\ still >= win /\ heard
    /\ Opens(kind)
    /\ due' = 0 /\ discards' = FALSE /\ out' = FALSE /\ dead' = FALSE
    /\ past' = FALSE /\ still' = 0
    /\ UNCHANGED <<kind, failed, heard, got, last, since, board, faults>>

\* The wait is over: the drain's silence outlasted it.
ResyncEnds ==
    /\ pc = "resync" /\ inbox = <<>> /\ still >= win
    /\ Opens(kind)
    /\ due' = 0 /\ discards' = FALSE /\ out' = FALSE
    /\ dead' = (dead /\ ~heard)
    /\ past' = FALSE /\ still' = 0
    /\ UNCHANGED <<kind, failed, heard, got, last, since, board, faults>>

\* A drain its hard cap ended, the device still sending: another follows, unless
\* this one began when the wait was over.
ResyncCapped ==
    /\ faults < MaxFaults /\ faults' = faults + 1
    /\ pc = "resync"
    /\ \/ past /\ Ends(fwin, <<>>) /\ last' = "err"
       \/ /\ ~past /\ heard' = TRUE /\ inbox' = <<>>
          /\ win' = Larger(Left, MinQuiet) /\ past' = (Left <= 0) /\ still' = 0
          /\ UNCHANGED <<pc, kind, step, failed, got, last, fw, fwin>>
    /\ UNCHANGED <<out, dead, discards, due, since>>

\* Interrupted in the resync: the next command resyncs again, and judges nothing.
ResyncCut ==
    /\ faults < MaxFaults /\ faults' = faults + 1
    /\ pc = "resync"
    /\ Ends(fwin, inbox) /\ last' = "err"
    /\ UNCHANGED <<out, dead, discards, due, since>>

\* Reset's line is looked for by its text, a ping's is whatever came.
Answered == kind # "reset" \/ \E i \in DOMAIN inbox : inbox[i] = [rep |-> "text", of |-> "own"]

DrainTakes ==
    /\ pc \in {"resync", "drain"} /\ inbox # <<>>
    /\ inbox' = <<>> /\ still' = 0
    /\ IF pc = "resync" THEN heard' = TRUE /\ UNCHANGED got
                         ELSE got' = (got \/ Answered) /\ UNCHANGED heard
    /\ UNCHANGED <<pc, kind, step, out, dead, failed, discards, due, win, past, last, since, fw, fwin, faults>>

DrainIsOver(capped) ==
    \/ /\ kind \in {"file", "post"}
       /\ pc' = "send" /\ step' = 1 /\ win' = 0 /\ got' = FALSE /\ still' = 0
       /\ UNCHANGED <<kind, out, dead, failed, heard, due, past, last, board>>
    \/ kind = "drain" /\ Completes("ok", out) /\ Ends(fwin, inbox)
    \/ kind \in {"reset", "ping"} /\ Completes("ok", capped \/ ~got) /\ Ends(fwin, inbox)

DrainEnds ==
    /\ pc = "drain" /\ inbox = <<>> /\ still >= win
    /\ DrainIsOver(FALSE)
    /\ UNCHANGED <<discards, since, faults>>

DrainCapped ==
    /\ faults < MaxFaults /\ faults' = faults + 1
    /\ pc = "drain"
    /\ DrainIsOver(TRUE)
    /\ UNCHANGED <<discards, since>>

DrainCut ==
    /\ faults < MaxFaults /\ faults' = faults + 1
    /\ pc = "drain"
    /\ Fails(failed, due) /\ Ends(fwin, inbox)
    /\ UNCHANGED <<discards, since>>

IsData == kind = "read" /\ step = 2
What == IF IsData THEN "query" ELSE Chunks[kind][step]

\* While a span list's header goes out its reply is due as late as the firmware may wait.
DueIfCut == IF What = "header" THEN HeaderWait - since ELSE due

\* Mutant: the landing's reply is due no later than any other.
JobLikeAnyReply ==
    /\ pc = "send"
    /\ fwin' = Append(fwin, Chunk(What, TRUE))
    /\ since' = 0 /\ still' = 0
    /\ pc' = IF What = "text" THEN "drain" ELSE "read"
    /\ win' = IF What = "text" THEN MinQuiet ELSE 0
    /\ due' = IF What = "header" THEN 0 ELSE due
    /\ UNCHANGED <<kind, step, out, dead, failed, discards, heard, past, got, last, fw, inbox, faults>>

Send ==
    /\ pc = "send"
    /\ fwin' = Append(fwin, Chunk(What, TRUE))
    /\ since' = 0 /\ still' = 0
    /\ pc' = IF What = "text" THEN "drain" ELSE "read"
    /\ win' = IF What = "text" THEN MinQuiet ELSE 0
    /\ due' = CASE What = "header" -> 0 [] What = "payload" -> JobCeiling [] OTHER -> due
    /\ UNCHANGED <<kind, step, out, dead, failed, discards, heard, past, got, last, fw, inbox, faults>>

\* A send an OSError cut, or an interrupt, which may come once all of it is out.  With
\* CutBehindPayload that goes for a payload as well: its job runs, and no reply is due.
SendCut ==
    /\ faults < MaxFaults /\ faults' = faults + 1
    /\ pc = "send"
    /\ since' = 0
    /\ \E os \in BOOLEAN, q \in {<<>>, <<Chunk(What, FALSE)>>, <<Chunk(What, TRUE)>>} :
          /\ q = <<Chunk(What, TRUE)>> => ~os /\ (What # "payload" \/ CutBehindPayload)
          /\ IF What = "token"
             THEN /\ pc' = "close" /\ failed' = os /\ fwin' = fwin \o q
                  /\ UNCHANGED <<kind, step, out, dead, heard, due, win, past, got, last, still, fw, inbox>>
             ELSE Fails(os, DueIfCut) /\ Ends(fwin \o q, inbox)
    /\ UNCHANGED discards

\* _close_spans_token: a header of no spans for a token without a usable reply.
CloseToken ==
    /\ pc = "close"
    /\ since' = 0
    /\ \/ Fails(failed, 0) /\ Ends(Append(fwin, Chunk("zeros", TRUE)), inbox) /\ UNCHANGED faults
       \/ /\ faults < MaxFaults /\ faults' = faults + 1
          /\ \E os \in BOOLEAN : Fails(failed \/ os, HeaderWait - since)
          /\ \E q \in {<<>>, <<Chunk("zeros", FALSE)>>} : Ends(fwin \o q, inbox)
    /\ UNCHANGED discards

\* Any reply but an ack or a refusal, or none.
NoUse(q) ==
    IF What = "token"
    THEN /\ pc' = "close" /\ inbox' = q
         /\ UNCHANGED <<kind, step, out, dead, failed, heard, due, win, past, got, last, still, fw, fwin>>
    ELSE Fails(failed, due) /\ Ends(fwin, q)

Awaits == pc = "read" /\ inbox # <<>>
Taken == Head(inbox).rep

TakeAck ==
    /\ Awaits /\ ~IsData /\ Taken = "ack"
    /\ \/ /\ kind = "read" \/ step < Len(Chunks[kind])
          /\ pc' = IF kind = "read" THEN "read" ELSE "send"
          /\ step' = step + 1 /\ still' = 0 /\ inbox' = Tail(inbox)
          /\ discards' = (discards \/ What = "token")
          /\ UNCHANGED <<kind, out, dead, failed, heard, due, win, past, got, last, fw, fwin>>
       \/ /\ kind # "read" /\ step = Len(Chunks[kind])
          /\ Completes("ok", out) /\ Ends(fwin, Tail(inbox))
          /\ UNCHANGED discards
    /\ UNCHANGED <<since, faults>>

\* The data of a read is as many bytes, whatever they are.
TakeData ==
    /\ Awaits /\ IsData
    /\ Completes("ok", out) /\ Ends(fwin, Tail(inbox))
    /\ UNCHANGED <<discards, since, faults>>

\* A TRNak leaves the link in step, unless the firmware discards after it.
TakeRefusal ==
    /\ Awaits /\ ~IsData /\ Taken = "fail"
    /\ Completes("err", out \/ What \in {"header", "payload"}) /\ Ends(fwin, <<>>)
    /\ UNCHANGED <<discards, since, faults>>

TakeTimeout ==
    /\ Awaits /\ ~IsData /\ Taken = "timeout"
    /\ Fails(failed, due) /\ Ends(fwin, <<>>)
    /\ UNCHANGED <<discards, since, faults>>

TakeOther ==
    /\ Awaits /\ ~IsData /\ Taken \in {"noise", "text", "data"}
    /\ NoUse(IF What = "token" THEN Tail(inbox) ELSE <<>>)
    /\ UNCHANGED <<discards, since, faults>>

\* The read times out, or is interrupted.
ReadFails ==
    /\ pc = "read" /\ inbox = <<>>
    /\ \/ still >= IoTimeout /\ UNCHANGED faults
       \/ faults < MaxFaults /\ faults' = faults + 1
    /\ NoUse(inbox)
    /\ UNCHANGED <<discards, since>>

\* leave_out_of_step.
LeaveOutOfStep ==
    /\ faults < MaxFaults /\ faults' = faults + 1
    /\ pc = "idle" /\ out' = TRUE
    /\ UNCHANGED <<pc, kind, step, dead, failed, discards, heard, due, win, past, got, last, clocks, board>>

Init ==
    /\ pc = "idle" /\ kind = "drain" /\ step = 0
    /\ out = FALSE /\ dead = FALSE /\ failed = FALSE /\ discards = FALSE /\ heard = TRUE
    /\ since = HeaderWait /\ due = 0 /\ win = 0 /\ past = FALSE /\ got = FALSE /\ still = 0
    /\ last = "ok"
    /\ fw = Idle /\ fwin = <<>> /\ inbox = <<>> /\ faults = 0

Firmware == FwTakes \/ FwAnswers \/ FwRefusesZeros \/ FwGivesUp \/ FwDiscardEnds
Works ==
    \/ ResyncEnds \/ DrainTakes \/ DrainEnds
    \/ Send \/ TakeAck \/ TakeData \/ TakeRefusal \/ TakeTimeout \/ TakeOther \/ ReadFails
    \/ CloseToken
Faults ==
    \/ FwRefuses \/ FwStalls \/ FwAnswerLost \/ Chatter
    \/ ResyncCapped \/ ResyncCut \/ DrainCapped \/ DrainCut \/ LeaveOutOfStep \/ SendCut
Next == Tick \/ Firmware \/ Works \/ (\E k \in Kinds : Begin(k)) \/ Faults

Spec == Init /\ [][Next]_vars

\* Time passes, the firmware acts, a caller's commands go on and others follow:
\* the render loop writes every frame.
FairSpec ==
    Spec /\ WF_vars(Tick) /\ WF_vars(Firmware) /\ WF_vars(Works)
         /\ WF_vars(\E k \in Kinds : Begin(k))

------------------------------------------------------------------------------
(* Correctness.                                                               *)

\* "in every case the firmware is back at its command dispatcher before the
\* next command goes out": the firmware never takes a command's bytes as the
\* rest of another's frame, never throws them away, and never runs what
\* follows a token as commands.  In every case but one: not with CutBehindPayload.
NothingMisread == Listens /\ fwin # <<>> => Accepts(Head(fwin))

\* An ack or a refusal the client takes answers the command it is in, though a
\* failed command's own came after its read had timed out: by up to Late, or a
\* job's by its ceiling.  One later than the wait would be read by the next
\* command, as the documents say; nor does it hold with CutBehindPayload.
ReplyIsOwn == Awaits /\ ~IsData /\ Taken \in {"ack", "fail"} => Head(inbox).of = "own"

\* Once nothing more goes wrong commands succeed again: no resync leaves the
\* link out of step for ever, on a link judged dead as on any other.
LinkRecovers == <>[](last = "ok")
=============================================================================
