----------------------------- MODULE SocketDMA -----------------------------
(***************************************************************************)
(* hw/socket_dma.py: the one TCP connection all threads of the program     *)
(* share to write the C64's memory.                                        *)
(*                                                                         *)
(* Commands are not acknowledged.  The server runs them in order and only  *)
(* answers IDENTIFY (or a debug register read), so an answer proves that   *)
(* everything sent before it has run, and silence proves nothing.  Every   *)
(* public method holds `_lock` from its first network call to its last;    *)
(* what interleaves with it is the network, the server, and time.  One     *)
(* action here is one network call with the bookkeeping that follows it.   *)
(*                                                                         *)
(* A command on the wire is represented by the thread that sent it.        *)
(***************************************************************************)
EXTENDS Naturals, Sequences, SequencesExt

CONSTANTS Threads,     \* the threads that share the client
          MainThread,  \* the one Python delivers KeyboardInterrupt to
          Identify,    \* a command on the wire that draws a reply
          NoThread,    \* nobody holds `_lock`
          MaxWire,     \* commands the kernel takes before sendall() blocks
          MaxFaults    \* bound: closes, power losses, timeouts, interrupts

ASSUME ThreadAssumption ==
  /\ MainThread \in Threads
  /\ Identify \notin Threads
  /\ NoThread \notin Threads
  /\ Identify # NoThread
ASSUME BoundAssumption == MaxWire \in Nat \ {0} /\ MaxFaults \in Nat

VARIABLES
  \* The client (SocketDMAClient.__init__).
  open,          \* `_sock` is not None
  closed,        \* `_closed`
  authRejected,  \* `_auth_rejected`
  backoff,       \* `_redial_backoff_s`, in units of REDIAL_BACKOFF_MIN_S
  waiting,       \* monotonic() has not reached `_redial_not_before`
  quiet,         \* time since `_last_send`, against the two thresholds
  unconfirmed,   \* `_unconfirmed`
  writers,       \* `_unconfirmed_writers`
  pending,       \* the threads whose `_ThreadLoss.pending` is set
  losses,        \* `possible_loss_count`
  charges,       \* thread_loss_count(), per thread
  \* The call that holds `_lock`.
  holder, op, pc, retried,
  \* The connection, as the kernel and the server see it.
  wire,          \* commands sent and not yet run, oldest first
  peer,          \* "open", "closed" (it sent a FIN) or "gone" (lost power)
  fin, rst,      \* what the client's kernel has received
  replies,       \* reply bytes the client has not read
  faults,        \* how much of MaxFaults is used
  \* What really happened, which the client cannot see.
  lost,          \* the threads with a command dropped since their last flush
  dirty,         \* the threads with a command issued since their last flush
  uncounted,     \* a command was dropped since `possible_loss_count` moved
  result         \* how each thread's latest flush ended

client == <<open, closed, authRejected, backoff, waiting, quiet>>
books == <<unconfirmed, writers, pending, losses, charges>>
call == <<holder, op, pc, retried>>
net == <<wire, peer, fin, rst, replies>>
truth == <<lost, dirty, uncounted>>
vars == <<client, books, call, net, faults, truth, result>>

Ops == {"write", "flush", "read_debug_register", "connect"}

\* The other variables are flags.
TypeOK ==
  /\ backoff \in {0, 1, 2, 4, 8, 16} /\ quiet \in {"fresh", "settled", "idle"}
  /\ writers \subseteq Threads /\ pending \subseteq Threads
  /\ losses \in Nat /\ charges \in [Threads -> Nat]
  /\ holder \in Threads \cup {NoThread} /\ op \in Ops
  /\ pc \in {"free", "live", "probe", "dial", "send", "await", "ok", "raise"}
  /\ wire \in Seq(Threads \cup {Identify})
  /\ peer \in {"open", "closed", "gone"} /\ replies \in Nat
  /\ faults \in 0 .. MaxFaults
  /\ lost \subseteq Threads /\ dirty \subseteq Threads
  /\ result \in [Threads -> {"none", "ok", "maybe_lost", "raised"}]

Init ==
  /\ open = FALSE /\ closed = FALSE /\ authRejected = FALSE
  /\ backoff = 0 /\ waiting = FALSE /\ quiet = "idle"
  /\ unconfirmed = FALSE /\ writers = {} /\ pending = {} /\ losses = 0
  /\ charges = [t \in Threads |-> 0]
  /\ holder = NoThread /\ op = "connect" /\ pc = "free" /\ retried = FALSE
  /\ wire = <<>> /\ peer = "closed" /\ fin = FALSE /\ rst = FALSE /\ replies = 0
  /\ faults = 0
  /\ lost = {} /\ dirty = {} /\ uncounted = FALSE
  /\ result = [t \in Threads |-> "none"]
-----------------------------------------------------------------------------
\* Bookkeeping shared by the calls.

Stuck == Range(wire) \cap Threads   \* whose commands have not run

Faulty == faults < MaxFaults /\ faults' = faults + 1
Harmless == faults' = faults

\* What happens without a fault when the peer is not there, and as one (a
\* stalled server, a full buffer) when it is.
MayFail == IF peer = "open" /\ ~rst THEN Faulty ELSE Harmless

\* _close_locked(): what is still on the wire never runs.
CloseLocked ==
  /\ open' = FALSE
  /\ wire' = <<>> /\ fin' = FALSE /\ rst' = FALSE /\ replies' = 0
  /\ lost' = lost \cup Stuck
  /\ UNCHANGED <<peer, dirty>>

\* _note_answered_locked()
NoteAnsweredLocked ==
  unconfirmed' = FALSE /\ writers' = {} /\ quiet' = "fresh"

\* The account of a loss: `senders` are the threads it is charged to.
Count(senders) ==
  /\ losses' = losses + 1
  /\ pending' = pending \cup senders
  /\ charges' = [t \in Threads |-> IF t \in senders THEN charges[t] + 1 ELSE charges[t]]

\* _abandon_locked(): `senders` is `_unconfirmed_writers`, plus the caller
\* when its own command was cut.
AbandonLocked(benign, senders) ==
  /\ IF senders # {} /\ ~benign
     THEN Count(senders) /\ uncounted' = FALSE
     ELSE UNCHANGED <<losses, pending, charges>> /\ uncounted' = (uncounted \/ Stuck # {})
  /\ unconfirmed' = FALSE /\ writers' = {}
  /\ CloseLocked

Unconfirmed == IF unconfirmed THEN writers ELSE {}

\* _peer_gone_locked(): the zero-timeout peek, and whether a FIN it finds is
\* the server's own orderly close.
PeerGone == fin \/ rst \/ replies > 0

\* Mutant: any FIN is taken for the idle close.
AnyFinIsBenign == fin /\ ~rst /\ replies = 0

Benign == fin /\ ~rst /\ replies = 0 /\ quiet # "fresh"
-----------------------------------------------------------------------------
\* The calls: dmawrite, reuwrite, reset, keyb, vicstream (all "write"), flush,
\* read_debug_register, connect, check_for_loss, close.

Enter(t, o) ==
  /\ holder = NoThread
  /\ o # "connect"
  /\ holder' = t /\ op' = o /\ pc' = "live" /\ retried' = FALSE
  /\ result' = [result EXCEPT ![t] = "none"]
  /\ UNCHANGED <<client, books, net, faults, truth>>

\* An explicit connect() on a client with no connection: the first one, one
\* after close(), or one after a rejected password.  What was dropped before
\* it is the business of the calls that raised, or of close().
Connect(t) ==
  /\ holder = NoThread
  /\ ~open
  /\ holder' = t /\ op' = "connect" /\ pc' = "dial" /\ retried' = FALSE
  /\ closed' = FALSE /\ authRejected' = FALSE /\ backoff' = 0 /\ waiting' = FALSE
  /\ lost' = {} /\ uncounted' = FALSE
  /\ result' = [result EXCEPT ![t] = "none"]
  /\ UNCHANGED <<open, quiet, books, net, faults, dirty>>

\* close(): under the lock, and without the account an abandonment keeps.
Close ==
  /\ holder = NoThread
  /\ CloseLocked
  /\ closed' = TRUE
  /\ UNCHANGED <<authRejected, backoff, waiting, quiet, books, call, faults,
                 uncounted, result>>

\* check_for_loss(): skipped when a thread is in a call.
CheckForLoss ==
  /\ holder = NoThread
  /\ open /\ unconfirmed
  /\ PeerGone /\ ~Benign
  /\ AbandonLocked(FALSE, Unconfirmed)
  /\ UNCHANGED <<closed, authRejected, backoff, waiting, quiet, call, faults, result>>

\* The end of a call.  flush() clears the caller's pending loss whichever way
\* it ends, and reports it if its own round trip was answered.
Leave ==
  /\ pc \in {"ok", "raise"}
  /\ holder' = NoThread /\ pc' = "free" /\ op' = "connect" /\ retried' = FALSE
  /\ result' = [result EXCEPT ![holder] =
                  IF pc = "raise" THEN "raised"
                  ELSE IF op = "flush" /\ holder \in pending THEN "maybe_lost" ELSE "ok"]
  /\ IF op = "flush"
     THEN /\ pending' = pending \ {holder}
          /\ lost' = lost \ {holder} /\ dirty' = dirty \ {holder}
     ELSE UNCHANGED <<pending, lost, dirty>>
  /\ UNCHANGED <<client, unconfirmed, writers, losses, charges, net, faults, uncounted>>
-----------------------------------------------------------------------------
\* _ensure_live_locked()

LiveNoSocket ==
  /\ pc = "live" /\ ~open
  /\ pc' = "dial"
  /\ UNCHANGED <<client, books, holder, op, retried, net, faults, truth, result>>

LiveQuiet ==
  /\ pc = "live" /\ open /\ ~PeerGone /\ quiet # "idle"
  /\ pc' = "send"
  /\ UNCHANGED <<client, books, holder, op, retried, net, faults, truth, result>>

\* Nothing sent for IDLE_VERIFY_AFTER_S: prove the connection first.
LiveIdle ==
  /\ pc = "live" /\ open /\ ~PeerGone /\ quiet = "idle"
  /\ wire' = Append(wire, Identify)
  /\ pc' = "probe"
  /\ UNCHANGED <<client, books, holder, op, retried, peer, fin, rst, replies,
                 faults, truth, result>>

LiveGone ==
  /\ pc = "live" /\ open /\ PeerGone
  /\ AbandonLocked(Benign, Unconfirmed)
  /\ pc' = "dial"
  /\ UNCHANGED <<closed, authRejected, backoff, waiting, quiet, holder, op, retried,
                 faults, result>>
-----------------------------------------------------------------------------
\* _reconnect_locked() and _connect_locked(): the dial, with the handshake.

Barred == op # "connect" /\ (closed \/ authRejected \/ waiting)

\* No network I/O: closed, refused for good, or inside the backoff.
DialRefused ==
  /\ pc = "dial" /\ Barred
  /\ pc' = "raise"
  /\ UNCHANGED <<client, books, holder, op, retried, net, faults, truth, result>>

DialOK ==
  /\ pc = "dial" /\ ~Barred
  /\ open' = TRUE /\ peer' = "open"
  /\ NoteAnsweredLocked
  /\ backoff' = 0 /\ waiting' = FALSE
  /\ pc' = IF op = "connect" THEN "ok" ELSE "send"
  /\ UNCHANGED <<closed, authRejected, pending, losses, charges, holder, op, retried,
                 wire, fin, rst, replies, faults, truth, result>>

\* Refused, unreachable, silent, or the password rejected.  Only an implicit
\* dial starts or doubles the backoff, and a KeyboardInterrupt does neither.
DialFails(rejected, interrupted) ==
  /\ pc = "dial" /\ ~Barred
  /\ interrupted => holder = MainThread /\ ~rejected
  /\ authRejected' = (authRejected \/ rejected)
  /\ IF op = "connect" \/ interrupted
     THEN UNCHANGED <<backoff, waiting>>
     ELSE /\ backoff' = IF backoff = 0 THEN 1 ELSE IF backoff = 16 THEN 16 ELSE 2 * backoff
          /\ waiting' = TRUE
  /\ pc' = "raise"
  /\ UNCHANGED <<open, closed, quiet, books, holder, op, retried, net, faults, truth, result>>
-----------------------------------------------------------------------------
\* _send_with_reconnect(), _flush_locked(), read_debug_register()

SendsIdentify == op \in {"flush", "read_debug_register"}

SendCommand ==
  /\ pc = "send" /\ ~SendsIdentify
  /\ ~rst /\ Len(wire) < MaxWire
  /\ wire' = Append(wire, holder)
  /\ quiet' = "fresh"
  /\ unconfirmed' = TRUE /\ writers' = writers \cup {holder}
  /\ dirty' = dirty \cup {holder}
  /\ pc' = "ok"
  /\ UNCHANGED <<open, closed, authRejected, backoff, waiting, pending, losses, charges,
                 holder, op, retried, peer, fin, rst, replies, faults, lost,
                 uncounted, result>>

SendIdentify ==
  /\ pc = "send" /\ SendsIdentify
  /\ ~rst /\ Len(wire) < MaxWire
  /\ wire' = Append(wire, Identify)
  /\ pc' = "await"
  /\ UNCHANGED <<client, books, holder, op, retried, peer, fin, rst, replies,
                 faults, truth, result>>

\* Mutant: the redial after a failed send takes the loss for harmless.
RedialForgives ==
  /\ pc = "send" /\ ~SendsIdentify /\ ~retried
  /\ MayFail
  /\ AbandonLocked(TRUE, Unconfirmed)
  /\ retried' = TRUE /\ pc' = "dial"
  /\ UNCHANGED <<closed, authRejected, backoff, waiting, quiet, holder, op, result>>

\* The first failed send redials and tries once more.
SendFails ==
  /\ pc = "send" /\ ~SendsIdentify /\ ~retried
  /\ MayFail
  /\ AbandonLocked(FALSE, Unconfirmed)
  /\ retried' = TRUE /\ pc' = "dial"
  /\ UNCHANGED <<closed, authRejected, backoff, waiting, quiet, holder, op, result>>

\* The second closes the connection and raises.
SendFailsAgain ==
  /\ pc = "send" /\ ~SendsIdentify /\ retried
  /\ MayFail
  /\ CloseLocked
  /\ pc' = "raise"
  /\ UNCHANGED <<closed, authRejected, backoff, waiting, quiet, books, holder, op,
                 retried, uncounted, result>>

\* KeyboardInterrupt inside sendall(): part of the command is on the wire, so
\* the caller is one of the senders (_whole_frame_locked).
InterruptSend ==
  /\ pc = "send" /\ holder = MainThread /\ ~SendsIdentify
  /\ Faulty
  /\ Count(Unconfirmed \cup {holder})
  /\ lost' = lost \cup Stuck \cup {holder} /\ dirty' = dirty \cup {holder}
  /\ unconfirmed' = FALSE /\ writers' = {} /\ uncounted' = FALSE
  /\ open' = FALSE /\ wire' = <<>> /\ fin' = FALSE /\ rst' = FALSE /\ replies' = 0
  /\ pc' = "raise"
  /\ UNCHANGED <<closed, authRejected, backoff, waiting, quiet, holder, op, retried,
                 peer, result>>

\* The reply to IDENTIFY: everything sent before it has run.
Answered ==
  /\ pc \in {"probe", "await"} /\ replies > 0
  /\ replies' = replies - 1
  /\ NoteAnsweredLocked
  /\ pc' = IF pc = "probe" THEN "send" ELSE "ok"
  /\ UNCHANGED <<open, closed, authRejected, backoff, waiting, pending, losses, charges,
                 holder, op, retried, wire, peer, fin, rst, faults, truth, result>>

\* _idle_check_locked() got no answer: the connection is abandoned, redialed.
ProbeUnanswered ==
  /\ pc = "probe" /\ replies = 0
  /\ MayFail
  /\ AbandonLocked(FALSE, Unconfirmed)
  /\ pc' = "dial"
  /\ UNCHANGED <<closed, authRejected, backoff, waiting, quiet, holder, op, retried, result>>

\* No answer to flush() or a register read, or an interrupt in any round trip:
\* the reply may still be in flight, so the connection goes too.
Unanswered ==
  /\ \/ pc = "await" /\ replies = 0
     \/ pc = "send" /\ SendsIdentify
     \/ pc \in {"probe", "await"} /\ holder = MainThread /\ faults < MaxFaults
  /\ MayFail
  /\ AbandonLocked(FALSE, Unconfirmed)
  /\ pc' = "raise"
  /\ UNCHANGED <<closed, authRejected, backoff, waiting, quiet, holder, op, retried, result>>
-----------------------------------------------------------------------------
\* The server, the network and time (outside this repository: what the client
\* and its comments rely on).

ServerRuns ==
  /\ peer = "open" /\ wire # <<>>
  /\ wire' = Tail(wire)
  /\ replies' = IF Head(wire) = Identify THEN replies + 1 ELSE replies
  /\ UNCHANGED <<client, books, call, peer, fin, rst, faults, truth, result>>

\* The server closes.  It has run everything that reached it; only commands
\* sent in the last round trip, or an IDENTIFY, can cross the FIN.
ServerCloses ==
  /\ open /\ peer = "open"
  /\ quiet = "fresh" \/ Stuck = {}
  /\ Faulty
  /\ peer' = "closed" /\ fin' = TRUE
  /\ UNCHANGED <<client, books, call, wire, rst, replies, truth, result>>

\* A machine that loses power tells nobody.
PowerLoss ==
  /\ open /\ peer = "open"
  /\ Faulty
  /\ peer' = "gone"
  /\ UNCHANGED <<client, books, call, wire, fin, rst, replies, truth, result>>

\* Commands that reach a closed connection, or a machine that came back, draw
\* a reset and are gone.
ResetArrives ==
  /\ open /\ peer # "open" /\ wire # <<>>
  /\ rst' = TRUE /\ wire' = <<>>
  /\ lost' = lost \cup Stuck /\ uncounted' = (uncounted \/ Stuck # {})
  /\ UNCHANGED <<client, books, call, peer, fin, replies, faults, dirty, result>>

\* FIN_SETTLE_S after the last command, a reset that it drew has arrived.
TimePasses ==
  /\ \/ quiet = "fresh" /\ (peer = "closed" => wire = <<>>) /\ quiet' = "settled"
     \/ quiet = "settled" /\ quiet' = "idle"
  /\ UNCHANGED <<open, closed, authRejected, backoff, waiting, books, call, net,
                 faults, truth, result>>

BackoffElapses ==
  /\ waiting
  /\ waiting' = FALSE
  /\ UNCHANGED <<open, closed, authRejected, backoff, quiet, books, call, net,
                 faults, truth, result>>
-----------------------------------------------------------------------------
Step ==
  \/ Leave \/ LiveNoSocket \/ LiveQuiet \/ LiveIdle \/ LiveGone
  \/ DialRefused \/ DialOK
  \/ \E rejected, interrupted \in BOOLEAN : DialFails(rejected, interrupted)
  \/ SendCommand \/ SendIdentify \/ SendFails \/ SendFailsAgain \/ InterruptSend
  \/ Answered \/ ProbeUnanswered \/ Unanswered

Next ==
  \/ \E t \in Threads : Connect(t) \/ \E o \in Ops : Enter(t, o)
  \/ Close \/ CheckForLoss
  \/ Step
  \/ ServerRuns \/ ServerCloses \/ PowerLoss \/ ResetArrives
  \/ TimePasses \/ BackoffElapses

Spec == Init /\ [][Next]_vars
-----------------------------------------------------------------------------
\* A flush() that returns normally means that every command its thread issued
\* since the thread's last flush() has run: none was dropped with an earlier
\* connection and none is still on the wire (flush's docstring, 774-791).
FlushHonest ==
  [][\A t \in Threads :
       result[t] = "none" /\ result'[t] = "ok" /\ op = "flush"
         => t \notin lost /\ t \notin Stuck]_vars

\* possible_loss_count, on which write_region's cache relies, misses nothing:
\* while a dropped command is not counted, the connection it was sent on is
\* still the current one and still unconfirmed, so the next call on it, or the
\* next check_for_loss(), can find out.
LossIsCounted == uncounted /\ ~closed => open /\ unconfirmed

\* Replies match requests: outside a round trip there is no IDENTIFY on the
\* wire and no reply unread, so no call can read the answer to another's.
StreamInStep ==
  /\ replies <= 1
  /\ pc \notin {"probe", "await"} => Identify \notin Range(wire) /\ replies = 0

\* The commands on the wire, without the IDENTIFY, which is only ever its last.
Accepted == IF Identify \in Range(wire) THEN Front(wire) ELSE wire

\* What the client promises the code above it: module LossyLink, with the
\* commands of the threads for its commands.
Link == INSTANCE LossyLink WITH
          Commands <- Threads,
          wire <- Accepted,
          owing <- writers, dropped <- uncounted, shut <- closed
ImplementsLossyLink == Link!Spec
=============================================================================
