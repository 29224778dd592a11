----------------------------- MODULE LossyLink -----------------------------
(***************************************************************************)
(* What the write link promises the code above it (class docstring of      *)
(* SocketDMAClient, and C64Backend.delivery_epoch and write_loss_mark): a  *)
(* command is accepted, and either runs, in order, or is lost with every   *)
(* later one of its connection.  A loss may go unnoticed for a while, but  *)
(* not for ever and not behind an answer: everything is settled only when  *)
(* everything has run, and a loss is counted, and charged to the threads   *)
(* that had commands on that connection, before anything else is settled.  *)
(***************************************************************************)
EXTENDS Naturals, Sequences

CONSTANTS Threads, Commands

VARIABLES wire,     \* accepted and not yet run, oldest first
          owing,    \* the threads with a command since the last settlement
          dropped,  \* a command was lost and the loss is not counted yet
          pending,  \* the threads whose next flush must report a loss
          losses,   \* how many losses were counted
          charges,  \* ... and charged to each thread
          shut      \* the client was closed

linkVars == <<wire, owing, dropped, pending, losses, charges, shut>>

LinkInit ==
  /\ wire = <<>> /\ owing = {} /\ dropped = FALSE /\ shut = FALSE
  /\ pending = {} /\ losses = 0 /\ charges = [t \in Threads |-> 0]

Accept(t, c) ==
  /\ wire' = Append(wire, c)
  /\ owing' = owing \cup {t}
  /\ UNCHANGED <<dropped, pending, losses, charges, shut>>

Run ==
  /\ wire # <<>> /\ ~dropped
  /\ wire' = Tail(wire)
  /\ UNCHANGED <<owing, dropped, pending, losses, charges, shut>>

Drop ==
  /\ wire # <<>>
  /\ wire' = <<>> /\ dropped' = TRUE
  /\ UNCHANGED <<owing, pending, losses, charges, shut>>

\* The connection is given up: `who` is everybody that owes, and perhaps a
\* thread whose command was cut half way.
CountLoss(who) ==
  /\ owing \subseteq who /\ who # {}
  /\ losses' = losses + 1
  /\ pending' = pending \cup who
  /\ charges' = [t \in Threads |-> IF t \in who THEN charges[t] + 1 ELSE charges[t]]
  /\ wire' = <<>> /\ dropped' = FALSE /\ owing' = {}
  /\ UNCHANGED shut

\* A round trip was answered, or the server closed after reading everything.
Settle ==
  /\ wire = <<>> /\ ~dropped
  /\ owing' = {}
  /\ UNCHANGED <<wire, dropped, pending, losses, charges, shut>>

\* A flush() of `t` is over, and has reported what was pending.
FlushEnds(t) ==
  /\ pending' = pending \ {t}
  /\ UNCHANGED <<wire, owing, dropped, losses, charges, shut>>

Shut ==
  /\ shut' = TRUE /\ wire' = <<>>
  /\ UNCHANGED <<owing, dropped, pending, losses, charges>>

\* An explicit connect() after close().
Reopen ==
  /\ shut
  /\ shut' = FALSE /\ dropped' = FALSE
  /\ UNCHANGED <<wire, owing, pending, losses, charges>>

LinkNext ==
  \/ \E t \in Threads : FlushEnds(t) \/ \E c \in Commands : Accept(t, c)
  \/ \E who \in SUBSET Threads : CountLoss(who)
  \/ Run \/ Drop \/ Settle \/ Shut \/ Reopen

Spec == LinkInit /\ [][LinkNext]_linkVars
=============================================================================
