--------------------------- MODULE TeensyLinkProof ---------------------------
(***************************************************************************)
(* Proofs about TeensyLink, for any waits in the order the constants are   *)
(* assumed to have, any set of commands and any number of faults: the      *)
(* firmware never misreads a command, and a reply is taken by the command  *)
(* it answers.  Both need two things, stated where they are used: an       *)
(* answer comes within Late, which the wait outlasts, and no interrupt     *)
(* falls between a spans payload and the note of when its reply is due     *)
(* (CutBehindPayload = FALSE); with one TLC refutes both.                  *)
(*                                                                         *)
(* The inductive invariant says where the firmware can be at each label of *)
(* the client.  In a command that is a short list, with what the time      *)
(* since the last byte bounds.  On a link out of step it is Rests: the     *)
(* firmware is back at its dispatcher within so many ticks, the number the *)
(* wait of _resync outlasts.                                               *)
(***************************************************************************)
EXTENDS TeensyLink, SequenceTheorems, TLAPS

------------------------------------------------------------------------------
(* The state's types.                                                         *)

\* Chunks that begin a command.
Opening == {"frame", "query", "text", "token", "open", "post"}

\* Whether a byte or a reply is of the command in progress.
Marks == {"own", "old"}
Bytes == [what : Opening \cup Stages \cup {"zeros"}, whole : BOOLEAN, of : Marks]
Replies == [rep : {"ack", "data", "fail", "timeout", "text", "noise"}, of : Marks]
Boards == [at : {"idle", "owed", "discard", "busy", "job", "late"} \cup Stages,
           cmd : Opening \cup Stages \cup {"zeros", "stray", "stalled", "none"},
           of : Marks, left : Nat]

TypeOK ==
    /\ pc \in {"idle", "resync", "drain", "send", "read", "close"}
    /\ kind \in DOMAIN Chunks /\ step \in Nat
    /\ out \in BOOLEAN /\ discards \in BOOLEAN /\ got \in BOOLEAN
    /\ since \in 0..HeaderWait /\ still \in Nat /\ due \in Nat /\ win \in Nat
    /\ fw \in Boards /\ fwin \in Seq(Bytes) /\ inbox \in Seq(Replies)

\* Where a command is: which of its chunks, and what it has noted by then.
Steps ==
    /\ pc \in {"send", "read"} => kind # "drain"
    /\ pc = "send" => step \in 1..Len(Chunks[kind])
    /\ pc = "read" => /\ kind \notin {"reset", "ping"}
                      /\ step \in 1..Len(Chunks[kind]) \/ IsData
    /\ pc = "drain" => \/ step = 0 /\ kind \in {"file", "post", "drain"}
                       \/ step = 1 /\ kind \in {"reset", "ping"} /\ win = MinQuiet
    /\ pc = "close" => kind = "spans" /\ step = 1
    /\ pc \in {"send", "read"} /\ kind = "spans" /\ step > 1 => discards
    /\ out => pc \in {"idle", "resync"}
    /\ pc = "resync" => out
    /\ pc = "idle" => still = 0
    /\ got => pc = "drain"

------------------------------------------------------------------------------
(* A command in progress.                                                     *)

\* How long the firmware waits at a stage.
Full(stage) == IF stage = "header" THEN HeaderGivesUp ELSE Owed

\* Where an acked chunk leaves the firmware.
NextAt(what) ==
    CASE what = "token" -> "header" [] what = "header" -> "payload"
      [] what = "post" -> "head" [] what \in {"open", "head"} -> "body"
      [] OTHER -> "idle"

\* The firmware is at its dispatcher with nothing to take; only chatter is left to read.
Calm == fw.at = "idle" /\ Len(fwin) = 0
Noise(q) == \A i \in 1..Len(q) : q[i].rep = "noise"

\* The one reply in the inbox, with a read's data behind its ack.
One(q, reps, what) ==
    \E i \in 1..Len(q) :
        /\ q[i].rep \in reps /\ q[i].of = "own"
        /\ what = "query" /\ q[i].rep = "ack" => i < Len(q)
        /\ \A j \in 1..Len(q) :
              j # i => q[j].rep = IF what = "query" /\ q[i].rep = "ack" /\ j = i + 1
                                  THEN "data" ELSE "noise"

\* The firmware has yet to take the chunk.
Sent ==
    /\ Len(fwin) = 1 /\ fwin[1] = Chunk(What, TRUE) /\ since = 0
    /\ IF step = 1 THEN fw.at = "idle" ELSE fw.at = What /\ fw.of = "own"
    /\ Noise(inbox)

\* It is at work on it; a landing job may be stalled, and what is slow answered late.
Working ==
    /\ Len(fwin) = 0 /\ fw.of = "own" /\ Noise(inbox)
    /\ \/ /\ fw.at = (IF What = "payload" THEN "job" ELSE "busy") /\ fw.cmd = What
          /\ fw.left + since <= Reply
       \/ /\ What = "payload" /\ fw.at = "job" /\ fw.cmd = "stalled"
          /\ fw.left + since <= Job
       \/ /\ What \in Slow /\ fw.at = "late" /\ fw.cmd = What
          /\ fw.left + since <= Late

\* It has answered, and waits for the next chunk if there is one.
Replied ==
    /\ Len(fwin) = 0 /\ fw.at = NextAt(What)
    /\ fw.at # "idle" => fw.of = "own" /\ fw.left = Full(fw.at) /\ since <= Reply
    /\ One(inbox, {"ack"}, What)

\* Its answer was lost.
Lost ==
    /\ Len(fwin) = 0 /\ fw.at = NextAt(What)
    /\ fw.at # "idle" => /\ fw.of = "own"
                         /\ Full(fw.at) <= fw.left + since
                         /\ fw.left + since <= Reply + Full(fw.at)
    /\ Noise(inbox)

\* It has refused the chunk, or given up on the next one.
Ended ==
    /\ Len(fwin) = 0 /\ fw.at \in {"idle", "discard"}
    /\ fw.at = "discard" => What = "header" /\ fw.left + since <= Reply + Owed + Discard
    /\ One(inbox, {"fail", "timeout"}, What)

\* The labels of a link in step before a command has sent anything.
InStep ==
    \/ pc = "idle" /\ ~out
    \/ pc = "drain" /\ step = 0
    \/ pc = "send" /\ step = 1

Sending == pc = "send" /\ step > 1
Reading == pc = "read" /\ ~IsData
TextDrain == pc = "drain" /\ step = 1

\* A later chunk goes out in time to a firmware that waits for it.
AtSend ==
    /\ Len(fwin) = 0 /\ fw.at = What /\ fw.of = "own"
    /\ fw.left = Full(What) /\ since <= Reply /\ Noise(inbox)

\* The line a reset looks for has not been heard, nor is it there to read.
Unsaid == kind = "reset" => ~got /\ Noise(inbox)

\* A reset or a ping: sent, at work, or said.  Until it is said a reset hears no line of
\* its own; a ping's is not late, so it comes within its drain.
AtText ==
    \/ /\ Len(fwin) = 1 /\ fwin[1] = Chunk("text", TRUE) /\ fw.at = "idle"
       /\ since = 0 /\ still = 0 /\ Unsaid
    \/ /\ Len(fwin) = 0 /\ fw.at = "busy" /\ fw.cmd = "text"
       /\ fw.left + since <= Reply /\ fw.left + still <= Reply /\ Unsaid
    \/ /\ Len(fwin) = 0 /\ fw.at = "late" /\ fw.cmd = "text" /\ kind = "reset"
       /\ fw.left + since <= Late /\ Unsaid
    \/ Calm

\* A token without a usable reply: taken or not, whole or cut, acked or at work.
AtClose ==
    /\ since <= IoTimeout
    /\ \/ Calm
       \/ fw.at = "idle" /\ Len(fwin) = 1 /\ fwin[1].what = "token" /\ since = 0
       \/ fw.at = "owed" /\ Len(fwin) = 0 /\ fw.left = Owed /\ since = 0
       \/ fw.at = "busy" /\ fw.cmd = "token" /\ Len(fwin) = 0 /\ fw.left + since <= Reply
       \/ /\ fw.at = "header" /\ Len(fwin) = 0
          /\ HeaderGivesUp <= fw.left + since /\ fw.left + since <= Reply + HeaderGivesUp

InCommand ==
    /\ InStep => Calm /\ Noise(inbox)
    /\ Sending => AtSend
    /\ Reading => /\ since = still /\ still <= IoTimeout
                  /\ Sent \/ Working \/ Replied \/ Lost \/ Ended
    /\ Reading /\ What = "payload" => JobCeiling <= due + since
    /\ pc = "read" /\ IsData => Calm /\ Len(inbox) > 0 /\ Noise(Tail(inbox))
    /\ TextDrain => AtText
    /\ pc = "close" => AtClose

------------------------------------------------------------------------------
(* A link out of step.                                                        *)

\* What is left of a chunk's command once it is acked and no more is sent.
After(what) ==
    CASE what = "token" -> HeaderGivesUp + Discard
      [] what = "header" -> Owed + Discard
      [] what \in {"post", "open", "head"} -> Owed
      [] OTHER -> 0

\* The silence a stage ends with.
Discards(stage) == IF stage \in {"header", "payload"} THEN Discard ELSE 0

\* At the dispatcher with a command, or an end of one, still to take.
RestsIdle(f, q, n) ==
    \/ Len(q) = 1 /\ q[1].what = "zeros"
    \/ /\ Len(q) = 1 /\ q[1].what \in Opening
       /\ n >= IF q[1].whole THEN Reply + After(q[1].what) ELSE Owed
       /\ q[1].whole /\ q[1].what \in Slow => n >= Late
    \/ /\ Len(q) = 2 /\ q[1].what = "token" /\ q[2].what = "zeros"
       /\ n >= IF ~q[1].whole THEN Reply
               ELSE IF q[2].whole THEN Reply + Reply ELSE Reply + (HeaderGivesUp + Discard)

\* Owed bytes: they come, or it gives up.
RestsOwed(f, q, n) ==
    \/ Len(q) = 0 /\ n >= f.left
    \/ Len(q) = 1 /\ q[1].what = "zeros" /\ n >= Reply

\* At work on a command, whose answer may yet be late; on a token the closing header may be behind it.
RestsBusy(f, q, n) ==
    \/ /\ Len(q) = 0 /\ n >= f.left + After(f.cmd)
       /\ f.cmd \in Slow => f.left <= Reply /\ (f.left = Reply => n >= Late)
    \/ /\ f.cmd = "token" /\ Len(q) = 1 /\ q[1].what = "zeros"
       /\ n >= f.left + (IF q[1].whole THEN Reply ELSE HeaderGivesUp + Discard)

\* A landing job, which may yet stall for as long as a job may run.
RestsJob(f, q, n) ==
    /\ f.cmd \in {"payload", "stalled"} /\ Len(q) = 0 /\ n >= f.left
    /\ f.cmd = "payload" => f.left <= Reply /\ (f.left = Reply => n >= Job)

\* Late with an answer that ends the command.
RestsLate(f, q, n) == f.cmd \in Slow /\ Len(q) = 0 /\ n >= f.left

\* Waiting for a stage's chunk: nothing comes, the whole, a part, or the closing header.
RestsStage(f, q, n) ==
    \/ Len(q) = 0 /\ n >= f.left + Discards(f.at)
    \/ /\ Len(q) = 1 /\ q[1].what = f.at /\ q[1].whole
       /\ n >= Reply + After(f.at)
       /\ (f.at = "payload" => n >= Job) /\ (f.at \in Slow => n >= Late)
    \/ /\ Len(q) = 1 /\ q[1].what = f.at /\ ~q[1].whole
       /\ n >= Discards(f.at) + (IF f.at = "header" THEN f.left ELSE Owed)
    \/ /\ f.at = "header" /\ Len(q) = 1 /\ q[1].what = "zeros"
       /\ n >= IF q[1].whole THEN Reply ELSE f.left + Discard

\* Firmware f, with q to take, is at its dispatcher within n ticks, or already.
Rests(f, q, n) ==
    \/ f.at = "idle" /\ Len(q) = 0
    \/ /\ n >= 0
       /\ \/ f.at = "idle" /\ RestsIdle(f, q, n)
          \/ f.at = "owed" /\ RestsOwed(f, q, n)
          \/ f.at = "busy" /\ RestsBusy(f, q, n)
          \/ f.at = "job" /\ RestsJob(f, q, n)
          \/ f.at = "late" /\ RestsLate(f, q, n)
          \/ f.at \in Stages /\ RestsStage(f, q, n)
          \/ f.at = "discard" /\ Len(q) = 0 /\ n >= f.left

\* What the wait of _resync outlasts, all but its last tick: the silence it counts from
\* the last byte sent, even on a link judged dead, and the reply that is due.
Outlasted(discarding, ago, duein) ==
    LET quiet == (IF discarding THEN Quiet ELSE DeadQuiet) - 1 - ago
    IN IF quiet >= duein - 1 THEN quiet ELSE duein - 1
Budget == Outlasted(discards, since, due)

OutOfStep ==
    /\ pc \in {"idle", "resync"} => fw.of = "old" /\ \A i \in 1..Len(fwin) : fwin[i].of = "old"
    /\ out => Rests(fw, fwin, Budget)
    /\ pc = "resync" => Rests(fw, fwin, (win - still) - 1)

IInv == TypeOK /\ Steps /\ InCommand /\ OutOfStep
------------------------------------------------------------------------------
(* Operators.                                                                 *)

\* Larger is the larger of two integers.
LEMMA LargerIs ==
    ASSUME NEW a \in Int, NEW b \in Int
    PROVE  Larger(a, b) = IF a >= b THEN a ELSE b
<1>1. \E x \in {a, b} : \A y \in {a, b} : x >= y
  <2>1. CASE a >= b BY <2>1
  <2>2. CASE ~(a >= b) BY <2>2
  <2>3. QED BY <2>1, <2>2
<1>2. Max({a, b}) \in {a, b} /\ \A y \in {a, b} : Max({a, b}) >= y
  BY <1>1, Zenon DEF Max
<1>3. QED BY <1>2 DEF Larger

\* The first chunk or reply of a queue, and those behind it.
LEMMA TakeFirst ==
    ASSUME NEW S, NEW q \in Seq(S), q # <<>>
    PROVE  /\ Len(q) > 0 /\ Head(q) = q[1] /\ q[1] \in S
           /\ Tail(q) \in Seq(S) /\ Len(Tail(q)) = Len(q) - 1
           /\ \A i \in 1..Len(q) - 1 : Tail(q)[i] = q[i + 1]
OBVIOUS

\* A queue with one more at its end.
LEMMA AddLast ==
    ASSUME NEW S, NEW q \in Seq(S), NEW c \in S
    PROVE  /\ Append(q, c) \in Seq(S) /\ Len(Append(q, c)) = Len(q) + 1
           /\ Append(q, c)[Len(q) + 1] = c
           /\ \A i \in 1..Len(q) : Append(q, c)[i] = q[i]
OBVIOUS

\* Two queues, one behind the other.
LEMMA Joined ==
    ASSUME NEW S, NEW q \in Seq(S), NEW r \in Seq(S)
    PROVE  q \o r \in Seq(S) /\ Len(q \o r) = Len(q) + Len(r)
OBVIOUS

\* A queue and one more behind it, as the firmware's shorter answers are.
LEMMA JoinedOne ==
    ASSUME NEW S, NEW q \in Seq(S), NEW r \in Seq(S)
    PROVE  Len(r) = 1 => /\ q \o r \in Seq(S) /\ Len(q \o r) = Len(q) + 1
                         /\ (q \o r)[Len(q) + 1] = r[1]
                         /\ \A i \in 1..Len(q) : (q \o r)[i] = q[i]
<1> DEFINE n == Len(q)
           p == q \o r
<1>1. n \in Nat /\ Len(r) \in Nat /\ p \in Seq(S) /\ Len(p) = n + Len(r)
  BY Joined
<1>2. \A i \in 1..n + Len(r) : p[i] = IF i <= n THEN q[i] ELSE r[i - n]
  BY ConcatProperties
<1> HIDE DEF n, p
<1>3. HAVE Len(r) = 1
<1>4. \A i \in 1..n : p[i] = q[i]
  <2>1. \A i \in 1..n : i \in 1..n + Len(r) /\ i <= n
    BY <1>1
  <2>2. QED
    BY <1>2, <2>1, Zenon
<1>5. p[n + 1] = r[1]
  <2>1. n + 1 \in 1..n + Len(r) /\ ~(n + 1 <= n) /\ (n + 1) - n = 1
    BY <1>1, <1>3
  <2>2. p[n + 1] = IF n + 1 <= n THEN q[n + 1] ELSE r[(n + 1) - n]
    BY <1>2, <2>1, Zenon
  <2>3. QED
    BY <2>1, <2>2, Zenon
<1>6. QED
  BY <1>1, <1>3, <1>4, <1>5 DEF n, p

\* A queue and two more behind it, as the answer to a read is.
LEMMA JoinedTwo ==
    ASSUME NEW S, NEW q \in Seq(S), NEW r \in Seq(S)
    PROVE  Len(r) = 2 => /\ q \o r \in Seq(S) /\ Len(q \o r) = Len(q) + 2
                         /\ (q \o r)[Len(q) + 1] = r[1] /\ (q \o r)[Len(q) + 2] = r[2]
                         /\ \A i \in 1..Len(q) : (q \o r)[i] = q[i]
<1> DEFINE n == Len(q)
           p == q \o r
<1>1. n \in Nat /\ Len(r) \in Nat /\ p \in Seq(S) /\ Len(p) = n + Len(r)
  BY Joined
<1>2. \A i \in 1..n + Len(r) : p[i] = IF i <= n THEN q[i] ELSE r[i - n]
  BY ConcatProperties
<1> HIDE DEF n, p
<1>3. HAVE Len(r) = 2
<1>4. \A i \in 1..n : p[i] = q[i]
  <2>1. \A i \in 1..n : i \in 1..n + Len(r) /\ i <= n
    BY <1>1
  <2>2. QED
    BY <1>2, <2>1, Zenon
<1>5. p[n + 1] = r[1]
  <2>1. n + 1 \in 1..n + Len(r) /\ ~(n + 1 <= n) /\ (n + 1) - n = 1
    BY <1>1, <1>3
  <2>2. p[n + 1] = IF n + 1 <= n THEN q[n + 1] ELSE r[(n + 1) - n]
    BY <1>2, <2>1, Zenon
  <2>3. QED
    BY <2>1, <2>2, Zenon
<1>6. p[n + 2] = r[2]
  <2>1. n + 2 \in 1..n + Len(r) /\ ~(n + 2 <= n) /\ (n + 2) - n = 2
    BY <1>1, <1>3
  <2>2. p[n + 2] = IF n + 2 <= n THEN q[n + 2] ELSE r[(n + 2) - n]
    BY <1>2, <2>1, Zenon
  <2>3. QED
    BY <2>1, <2>2, Zenon
<1>7. QED
  BY <1>1, <1>3, <1>4, <1>5, <1>6 DEF n, p

\* An empty queue has no length, and the other way round.
LEMMA EmptyIs ==
    ASSUME NEW S, NEW q \in Seq(S)
    PROVE  q = <<>> <=> Len(q) = 0
OBVIOUS

\* Ending a command changes whose a chunk is, and nothing else of it.
LEMMA OldChunks ==
    ASSUME NEW q \in Seq(Bytes)
    PROVE  /\ Old(q) \in Seq(Bytes) /\ Len(Old(q)) = Len(q)
           /\ \A i \in 1..Len(q) : /\ Old(q)[i].what = q[i].what
                                   /\ Old(q)[i].whole = q[i].whole
                                   /\ Old(q)[i].of = "old"
<1>1. \A i \in 1..Len(q) : q[i] \in Bytes
  OBVIOUS
<1>2. \A i \in 1..Len(q) : [q[i] EXCEPT !.of = "old"] \in Bytes
  BY <1>1 DEF Bytes, Marks
<1>3. Old(q) = [i \in 1..Len(q) |-> [q[i] EXCEPT !.of = "old"]]
  BY DEF Old
<1>4. Old(q) \in Seq(Bytes) /\ Len(Old(q)) = Len(q)
  BY <1>2, <1>3
<1>5. QED
  BY <1>1, <1>3, <1>4 DEF Bytes

\* Nor of a reply.
LEMMA OldReplies ==
    ASSUME NEW q \in Seq(Replies)
    PROVE  /\ Old(q) \in Seq(Replies) /\ Len(Old(q)) = Len(q)
           /\ \A i \in 1..Len(q) : Old(q)[i].rep = q[i].rep
<1>1. \A i \in 1..Len(q) : q[i] \in Replies
  OBVIOUS
<1>2. \A i \in 1..Len(q) : [q[i] EXCEPT !.of = "old"] \in Replies
  BY <1>1 DEF Replies, Marks
<1>3. Old(q) = [i \in 1..Len(q) |-> [q[i] EXCEPT !.of = "old"]]
  BY DEF Old
<1>4. Old(q) \in Seq(Replies) /\ Len(Old(q)) = Len(q)
  BY <1>2, <1>3
<1>5. QED
  BY <1>1, <1>3, <1>4 DEF Replies

\* An answer is one reply, or an ack with the data behind it.
LEMMA AnswersOne ==
    ASSUME NEW r \in {"ack", "fail", "timeout", "text", "noise"}, NEW m \in Marks
    PROVE  /\ Answers(<<r>>, m) \in Seq(Replies) /\ Len(Answers(<<r>>, m)) = 1
           /\ Answers(<<r>>, m)[1].rep = r /\ Answers(<<r>>, m)[1].of = m
BY DEF Answers, Replies

\* That of a read.
LEMMA AnswersTwo ==
    ASSUME NEW m \in Marks
    PROVE  LET a == Answers(<<"ack", "data">>, m)
           IN /\ a \in Seq(Replies) /\ Len(a) = 2
              /\ a[1].rep = "ack" /\ a[1].of = m /\ a[2].rep = "data"
BY DEF Answers, Replies

\* The chunk a command is at, by its kind.
LEMMA WhatIs ==
    ASSUME kind \in DOMAIN Chunks, step \in Nat
    PROVE  /\ IsData => What = "query"
           /\ IsData => step \notin 1..Len(Chunks[kind])
           /\ ~IsData /\ step \in 1..Len(Chunks[kind]) =>
                 /\ kind # "drain"
                 /\ step = 1 => What \in Opening
                 /\ step > 1 => What \in Stages /\ kind \in {"spans", "file", "post"}
                 /\ What = "token" <=> kind = "spans" /\ step = 1
                 /\ What = "header" <=> kind = "spans" /\ step = 2
                 /\ What = "payload" <=> kind = "spans" /\ step = 3
                 /\ What = "text" <=> kind \in {"reset", "ping"}
                 /\ What = "query" <=> kind = "read"
                 /\ kind = "read" => step = 1
                 /\ step < Len(Chunks[kind]) =>
                       NextAt(What) = Chunks[kind][step + 1] /\ NextAt(What) \in Stages
                 /\ step = Len(Chunks[kind]) => NextAt(What) = "idle"
<1>1. DOMAIN Chunks = {"write", "read", "reset", "ping", "spans", "file", "post", "drain"}
  BY DEF Chunks
<1>2. CASE kind = "write" BY <1>2 DEF Chunks, What, IsData, NextAt, Opening, Stages
<1>3. CASE kind = "read" BY <1>3 DEF Chunks, What, IsData, NextAt, Opening, Stages
<1>4. CASE kind = "reset" BY <1>4 DEF Chunks, What, IsData, NextAt, Opening, Stages
<1>5. CASE kind = "ping" BY <1>5 DEF Chunks, What, IsData, NextAt, Opening, Stages
<1>6. CASE kind = "spans" BY <1>6 DEF Chunks, What, IsData, NextAt, Opening, Stages
<1>7. CASE kind = "file" BY <1>7 DEF Chunks, What, IsData, NextAt, Opening, Stages
<1>8. CASE kind = "post" BY <1>8 DEF Chunks, What, IsData, NextAt, Opening, Stages
<1>9. CASE kind = "drain" BY <1>9 DEF Chunks, What, IsData, NextAt, Opening, Stages
<1>10. QED BY <1>1, <1>2, <1>3, <1>4, <1>5, <1>6, <1>7, <1>8, <1>9

------------------------------------------------------------------------------
(* Rests: what the firmware's steps and the clock do to it.                   *)

\* Takes, by where the firmware is.
LEMMA TakesIs ==
    ASSUME NEW c
    PROVE  /\ fw.at = "discard" => Takes(c) = At("discard", "none", "old", Discard)
           /\ fw.at = "owed" => Takes(c) = IF c.what = "zeros" THEN At("busy", "stray", c.of, Reply) ELSE Idle
           /\ fw.at = "idle" /\ c.what \in Stages \cup {"zeros"} => Takes(c) = Idle
           /\ fw.at = "idle" /\ c.what \in Opening =>
                Takes(c) = IF c.whole THEN At("busy", c.what, c.of, Reply) ELSE At("owed", "none", c.of, Owed)
           /\ fw.at \in Stages /\ c.whole =>
                Takes(c) = At(IF fw.at = "payload" THEN "job" ELSE "busy", c.what, c.of, Reply)
           /\ fw.at = "header" /\ ~c.whole => Takes(c) = fw
           /\ fw.at \in Stages \ {"header"} /\ ~c.whole => Takes(c) = [fw EXCEPT !.left = Owed]
<1>1. CASE fw.at = "discard" BY <1>1 DEF Takes, Stages
<1>2. CASE fw.at = "owed" BY <1>2 DEF Takes, Stages
<1>3. CASE fw.at = "idle" BY <1>3 DEF Takes, Stages, Opening
<1>4. CASE fw.at = "payload" BY <1>4 DEF Takes, Stages
<1>5. CASE fw.at = "header" BY <1>5 DEF Takes, Stages
<1>6. CASE fw.at \in {"head", "body"} BY <1>6 DEF Takes, Stages
<1>7. QED BY <1>1, <1>2, <1>3, <1>4, <1>5, <1>6 DEF Stages

\* The waits behind a chunk, and of a stage.
LEMMA AfterIs ==
    /\ \A what : After(what) \in Nat /\ Discards(what) \in Nat
    /\ After("token") = HeaderGivesUp + Discard /\ After("header") = Owed + Discard
    /\ \A what \in {"post", "open", "head"} : After(what) = Owed
    /\ \A what \in {"frame", "query", "text", "payload", "body", "zeros", "stray"} : After(what) = 0
<1>1. HeaderGivesUp + Discard \in Nat /\ Owed + Discard \in Nat /\ Owed \in Nat /\ Discard \in Nat BY Waits
<1>2. \A what : Discards(what) \in Nat BY <1>1 DEF Discards
<1>3. ASSUME NEW what PROVE After(what) \in Nat 
  <2>1. CASE what = "token" BY <1>1, <2>1 DEF After
  <2>2. CASE what = "header" BY <1>1, <2>2 DEF After
  <2>3. CASE what \in {"post", "open", "head"} BY <1>1, <2>3 DEF After
  <2>4. CASE what \notin {"post", "open", "head", "token", "header"} BY <2>4 DEF After
  <2>5. QED BY <2>1, <2>2, <2>3, <2>4
<1>4. After("token") = HeaderGivesUp + Discard /\ After("header") = Owed + Discard BY DEF After
<1>5. \A what \in {"post", "open", "head"} : After(what) = Owed BY DEF After
<1>6. \A what \in {"frame", "query", "text", "payload", "body", "zeros", "stray"} : After(what) = 0 BY DEF After
<1>7. QED BY <1>2, <1>3, <1>4, <1>5, <1>6

\* A longer wait is as good.
LEMMA RestsLonger ==
    ASSUME NEW f \in Boards, NEW q \in Seq(Bytes), NEW m \in Int, NEW n \in Int,
           m <= n, Rests(f, q, m)
    PROVE  Rests(f, q, n)
<1>1. /\ f.left \in Nat /\ Reply \in Nat /\ Late \in Nat /\ Owed \in Nat
      /\ Discard \in Nat /\ HeaderGivesUp \in Nat /\ Job \in Nat
  BY Waits DEF Boards
<1>2. After(f.cmd) \in Nat /\ After(f.at) \in Nat /\ After(q[1].what) \in Nat /\ Discards(f.at) \in Nat
  BY AfterIs
<1>b. \A b \in Int : m >= b => n >= b OBVIOUS
<1>3. RestsIdle(f, q, m) => RestsIdle(f, q, n)
  <2>1. (IF q[1].whole THEN Reply + After(q[1].what) ELSE Owed) \in Int
    <3>1. Reply + After(q[1].what) \in Int /\ Owed \in Int BY <1>1, <1>2
    <3>2. QED BY <3>1, Zenon
  <2>2. (IF ~q[1].whole THEN Reply
         ELSE IF q[2].whole THEN Reply + Reply ELSE Reply + (HeaderGivesUp + Discard)) \in Int
    <3>1. /\ Reply \in Int /\ Reply + Reply \in Int
          /\ Reply + (HeaderGivesUp + Discard) \in Int
      BY <1>1
    <3>2. QED BY <3>1, Zenon
  <2>3. Late \in Int BY <1>1
  <2>4. QED BY <1>b, <2>1, <2>2, <2>3, Zenon DEF RestsIdle
<1>4. RestsOwed(f, q, m) => RestsOwed(f, q, n) BY <1>1, <1>2 DEF RestsOwed
<1>5. RestsBusy(f, q, m) => RestsBusy(f, q, n)
  <2>1. f.left + After(f.cmd) \in Int /\ Late \in Int BY <1>1, <1>2
  <2>2. f.left + (IF q[1].whole THEN Reply ELSE HeaderGivesUp + Discard) \in Int
    <3>1. f.left + Reply \in Int /\ f.left + (HeaderGivesUp + Discard) \in Int BY <1>1
    <3>2. QED BY <3>1, Zenon
  <2>3. QED BY <1>b, <2>1, <2>2, Zenon DEF RestsBusy
<1>6. RestsJob(f, q, m) => RestsJob(f, q, n) BY <1>1, <1>2 DEF RestsJob
<1>7. RestsStage(f, q, m) => RestsStage(f, q, n)
  <2>1. Reply + After(f.at) \in Int /\ Job \in Int /\ Late \in Int BY <1>1, <1>2
  <2>2. f.left + Discards(f.at) \in Int
    <3> DEFINE d == Discards(f.at)
    <3>1. f.left \in Nat /\ d \in Nat BY <1>1, <1>2
    <3> HIDE DEF d
    <3>2. f.left + d \in Int BY <3>1
    <3>3. QED BY <3>2 DEF d
  <2>3. Discards(f.at) + (IF f.at = "header" THEN f.left ELSE Owed) \in Int
    <3>1. CASE f.at = "header" BY <1>1, <1>2, <3>1
    <3>2. CASE f.at # "header" BY <1>1, <1>2, <3>2
    <3>3. QED BY <3>1, <3>2
  <2>4. (IF q[1].whole THEN Reply ELSE f.left + Discard) \in Int
    <3>1. Reply \in Int /\ f.left + Discard \in Int BY <1>1
    <3>2. QED BY <3>1, Zenon
  <2>5. QED BY <1>b, <2>1, <2>2, <2>3, <2>4, Zenon DEF RestsStage
<1>8. RestsLate(f, q, m) => RestsLate(f, q, n) BY <1>1 DEF RestsLate
<1>9. QED BY <1>1, <1>3, <1>4, <1>5, <1>6, <1>7, <1>8 DEF Rests

\* The end of a command leaves the firmware where it is.
LEMMA RestsOld ==
    ASSUME NEW f \in Boards, NEW q \in Seq(Bytes), NEW n \in Int, Rests(f, q, n)
    PROVE  Rests([f EXCEPT !.of = "old"], Old(q), n)
<1> DEFINE g == [f EXCEPT !.of = "old"]
           r == Old(q)
<1>1. g.at = f.at /\ g.cmd = f.cmd /\ g.left = f.left
  BY DEF Boards
<1>2. /\ Len(r) = Len(q)
      /\ \A i \in 1..Len(q) : r[i].what = q[i].what /\ r[i].whole = q[i].whole
  BY OldChunks
<1>3. Len(q) \in Nat OBVIOUS
<1> HIDE DEF g, r
<1>4. Len(q) >= 1 => r[1].what = q[1].what /\ r[1].whole = q[1].whole BY <1>2, <1>3
<1>5. Len(q) >= 2 => r[2].what = q[2].what /\ r[2].whole = q[2].whole BY <1>2, <1>3
<1>6. Rests(g, r, n)
  BY <1>1, <1>2, <1>3, <1>4, <1>5 DEF Rests, RestsIdle, RestsOwed, RestsBusy, RestsJob, RestsLate, RestsStage
<1>7. QED BY <1>6 DEF g, r

\* Time brings the firmware nearer.
LEMMA RestsTick ==
    ASSUME TypeOK, Tick, NEW n \in Int, Rests(fw, fwin, n)
    PROVE  Rests(fw', fwin', n - 1)
<1>1. fwin' = fwin /\ fw' = [fw EXCEPT !.left = IF @ = 0 THEN 0 ELSE @ - 1] /\ ~FwMustAct
  BY DEF Tick
<1>2. fw \in Boards /\ fwin \in Seq(Bytes) /\ fw.left \in Nat
  BY DEF TypeOK, Boards
<1>3. fw'.at = fw.at /\ fw'.cmd = fw.cmd /\ fw'.left = IF fw.left = 0 THEN 0 ELSE fw.left - 1
  BY <1>1, <1>2 DEF Boards
<1>4. CASE fw.at = "idle" /\ Len(fwin) = 0 BY <1>4, <1>1, <1>3 DEF Rests
<1>5. CASE ~(fw.at = "idle" /\ Len(fwin) = 0)
  <2>1. Listens => Len(fwin) = 0 BY <1>1, <1>2, EmptyIs DEF FwMustAct
  <2>2. fw.at # "idle" BY <1>5, <2>1 DEF Listens
  <2>3. fw.left > 0 /\ fw'.left = fw.left - 1 BY <1>1, <1>2, <1>3, <2>2 DEF FwMustAct
  <2>4. After(fw.cmd) \in Nat /\ Discards(fw.at) \in Nat BY AfterIs
  <2>5. /\ Reply \in Nat /\ Late \in Nat /\ Discard \in Nat
        /\ HeaderGivesUp \in Nat /\ Job \in Nat
    BY Waits
  <2>6. CASE fw.at = "owed" /\ RestsOwed(fw, fwin, n)
    BY <1>1, <1>2, <1>3, <2>1, <2>3, <2>6 DEF Rests, RestsOwed, Listens
  <2>7. CASE fw.at = "busy" /\ RestsBusy(fw, fwin, n)
    <3>1. n - 1 >= 0 /\ RestsBusy(fw', fwin, n - 1)
      <4> DEFINE rest == IF fwin[1].whole THEN Reply ELSE HeaderGivesUp + Discard
      <4>1. rest \in Nat BY <2>5
      <4>2. CASE /\ Len(fwin) = 0 /\ n >= fw.left + After(fw.cmd)
                 /\ fw.cmd \in Slow => fw.left <= Reply
        <5>1. fw'.cmd \in Slow => fw'.left < Reply BY <1>2, <1>3, <2>3, <2>5, <4>2
        <5>2. n - 1 >= 0 /\ n - 1 >= fw'.left + After(fw'.cmd)
          BY <1>2, <1>3, <2>3, <2>4, <4>2
        <5>3. QED BY <1>2, <1>3, <2>3, <2>5, <4>2, <5>1, <5>2 DEF RestsBusy
      <4>3. CASE /\ fw.cmd = "token" /\ Len(fwin) = 1 /\ fwin[1].what = "zeros"
                 /\ n >= fw.left + rest
        <5>1. n - 1 >= 0 /\ n - 1 >= fw'.left + rest BY <1>2, <2>3, <4>1, <4>3
        <5>2. QED BY <1>3, <4>3, <5>1 DEF RestsBusy
      <4>4. QED BY <2>7, <4>2, <4>3 DEF RestsBusy
    <3>2. QED BY <1>1, <1>3, <2>7, <3>1 DEF Rests
  <2>8. CASE fw.at = "job" /\ RestsJob(fw, fwin, n)
    <3>1. n - 1 >= 0 /\ n - 1 >= fw'.left BY <1>2, <2>3, <2>8 DEF RestsJob
    <3>2. fw'.cmd = "payload" => fw'.left <= Reply /\ fw'.left # Reply
      BY <1>2, <1>3, <2>3, <2>5, <2>8 DEF RestsJob
    <3>3. QED BY <1>1, <1>3, <2>8, <3>1, <3>2 DEF Rests, RestsJob
  <2>9. CASE fw.at \in Stages /\ RestsStage(fw, fwin, n)
    BY <1>1, <1>2, <1>3, <2>1, <2>3, <2>4, <2>9 DEF Rests, RestsStage, Listens
  <2>10. CASE fw.at = "discard" /\ Len(fwin) = 0 /\ n >= fw.left
    BY <1>1, <1>2, <1>3, <2>3, <2>10 DEF Rests
  <2>11. CASE fw.at = "late" /\ RestsLate(fw, fwin, n)
    BY <1>1, <1>2, <1>3, <2>3, <2>11 DEF Rests, RestsLate
  <2>12. QED BY <2>2, <2>6, <2>7, <2>8, <2>9, <2>10, <2>11, <1>5 DEF Rests
<1>6. QED BY <1>4, <1>5

\* So does no step of its own take it further away.
LEMMA RestsTakes ==
    ASSUME TypeOK, FwTakes, NEW n \in Int, Rests(fw, fwin, n)
    PROVE  Rests(fw', fwin', n)
<1>1. fw \in Boards /\ fwin \in Seq(Bytes) /\ fw.left \in Nat /\ Len(fwin) \in Nat
  BY DEF TypeOK, Boards
<1>2. fwin # <<>> /\ Listens /\ fw' = Takes(fwin[1]) /\ fwin' = Tail(fwin)
  BY <1>1, TakeFirst DEF FwTakes
<1>3. /\ fwin[1] \in Bytes /\ Len(fwin) > 0 /\ Len(fwin') = Len(fwin) - 1
      /\ \A i \in 1..Len(fwin) - 1 : fwin'[i] = fwin[i + 1]
  BY <1>1, <1>2, TakeFirst
<1>4. n >= 0 BY <1>3 DEF Rests
<1>5. Len(fwin) = 2 => fwin'[1] = fwin[2] BY <1>3
<1>6. /\ Reply \in Nat /\ Late \in Nat /\ Owed \in Nat /\ Discard \in Nat
      /\ HeaderGivesUp \in Nat /\ Job \in Nat
  BY Waits
<1> DEFINE c == fwin[1]
<1>7. CASE fw.at = "idle" /\ Len(fwin) = 1 /\ c.what = "zeros"
  <2>1. fw' = Idle BY <1>2, <1>7, TakesIs
  <2>2. QED BY <1>3, <1>7, <2>1 DEF Idle, Rests
<1>8. CASE fw.at = "idle" /\ RestsIdle(fw, fwin, n) /\ c.what \in Opening
  <2>1. c.what # "zeros" /\ c.what \notin Stages BY <1>8 DEF Opening, Stages
  <2>2. fw' = IF c.whole THEN At("busy", c.what, c.of, Reply) ELSE At("owed", "none", c.of, Owed)
    BY <1>2, <1>8, TakesIs
  <2>3. After("token") = HeaderGivesUp + Discard BY AfterIs
  <2>4. CASE Len(fwin) = 1
    BY <1>3, <1>4, <1>6, <1>8, <2>1, <2>2, <2>4 DEF Rests, RestsIdle, RestsBusy, RestsOwed, At
  <2>5. CASE Len(fwin) = 2
    BY <1>3, <1>4, <1>5, <1>6, <1>8, <2>2, <2>3, <2>5
       DEF Rests, RestsIdle, RestsBusy, RestsOwed, At, Slow
  <2>6. QED BY <1>8, <2>1, <2>4, <2>5 DEF RestsIdle
<1>9. CASE fw.at = "owed" /\ RestsOwed(fw, fwin, n)
  <2>1. Len(fwin) = 1 /\ c.what = "zeros" /\ n >= Reply BY <1>3, <1>9 DEF RestsOwed
  <2>2. fw' = At("busy", "stray", c.of, Reply)
    BY <1>2, <1>9, <2>1, TakesIs
  <2>3. After("stray") = 0 BY AfterIs
  <2>4. QED BY <1>3, <1>4, <1>6, <2>1, <2>2, <2>3 DEF Rests, RestsBusy, At, Slow
<1>10. CASE fw.at \in Stages /\ Len(fwin) = 1 /\ c.what = fw.at /\ c.whole /\ RestsStage(fw, fwin, n)
  <2>1. fw.at # "discard" /\ fw.at # "owed" /\ fw.at # "idle" BY <1>10 DEF Stages
  <2>2. /\ n >= Reply + After(fw.at)
        /\ (fw.at = "payload" => n >= Job) /\ (fw.at \in Slow => n >= Late)
    BY <1>3, <1>10, <2>1 DEF RestsStage, Stages
  <2>3. fw' = At(IF fw.at = "payload" THEN "job" ELSE "busy", c.what, c.of, Reply)
    BY <1>2, <1>10, TakesIs
  <2>4. After("payload") = 0 BY AfterIs
  <2>5. QED BY <1>3, <1>4, <1>6, <1>10, <2>2, <2>3, <2>4 DEF Rests, RestsBusy, RestsJob, At
<1>11. CASE fw.at \in Stages /\ Len(fwin) = 1 /\ c.what = fw.at /\ ~c.whole /\ RestsStage(fw, fwin, n)
  <2>1. fw.at # "discard" /\ fw.at # "owed" /\ fw.at # "idle" BY <1>11 DEF Stages
  <2>2. n >= Discards(fw.at) + (IF fw.at = "header" THEN fw.left ELSE Owed)
    BY <1>3, <1>11 DEF RestsStage, Stages
  <2>3. fw' = IF fw.at = "header" THEN fw ELSE [fw EXCEPT !.left = Owed]
    BY <1>2, <1>11, TakesIs DEF Stages
  <2>4. fw'.at = fw.at /\ fw'.left = IF fw.at = "header" THEN fw.left ELSE Owed
    BY <1>1, <2>3 DEF Boards
  <2>5. Discards(fw.at) \in Nat BY AfterIs
  <2>6. RestsStage(fw', fwin', n) BY <1>1, <1>3, <1>6, <1>11, <2>2, <2>4, <2>5 DEF RestsStage
  <2>7. QED BY <1>4, <1>11, <2>4, <2>6 DEF Rests
<1>12. CASE fw.at = "header" /\ Len(fwin) = 1 /\ c.what = "zeros" /\ RestsStage(fw, fwin, n)
  <2>1. n >= IF c.whole THEN Reply ELSE fw.left + Discard
    BY <1>3, <1>12 DEF RestsStage, Stages
  <2>2. CASE c.whole
    <3>1. fw' = At("busy", "zeros", c.of, Reply)
      BY <1>2, <1>12, <2>2, TakesIs DEF Stages
    <3>2. After("zeros") = 0 BY AfterIs
    <3>3. QED BY <1>3, <1>4, <1>6, <1>12, <2>1, <2>2, <3>1, <3>2 DEF Rests, RestsBusy, At, Slow
  <2>3. CASE ~c.whole
    <3>1. fw' = fw
      BY <1>2, <1>12, <2>3, TakesIs DEF Stages
    <3>2. QED BY <1>3, <1>4, <1>6, <1>12, <2>1, <2>3, <3>1 DEF Rests, RestsStage, Discards, Stages
  <2>4. QED BY <2>2, <2>3
<1>13. CASE fw.at \in Stages /\ RestsStage(fw, fwin, n)
  BY <1>3, <1>13, <1>10, <1>11, <1>12 DEF RestsStage
<1>14. CASE fw.at = "idle" /\ RestsIdle(fw, fwin, n)
  BY <1>7, <1>8, <1>14 DEF RestsIdle, Opening
<1>15. QED
  BY <1>2, <1>3, <1>9, <1>13, <1>14 DEF Rests, Listens, Stages

\* Where an ack leaves the firmware: at the dispatcher, or waiting for the next chunk.
LEMMA AckedIs ==
    /\ Acked = IF NextAt(fw.cmd) = "idle" THEN Idle
               ELSE At(NextAt(fw.cmd), "none", fw.of, Full(NextAt(fw.cmd)))
    /\ NextAt(fw.cmd) = "idle" \/ NextAt(fw.cmd) \in Stages
    /\ NextAt(fw.cmd) # "idle" => After(fw.cmd) = Full(NextAt(fw.cmd)) + Discards(NextAt(fw.cmd))
<1>1. CASE fw.cmd = "token" BY <1>1, Waits DEF Acked, NextAt, Full, Stages, After, Discards
<1>2. CASE fw.cmd = "header" BY <1>2, Waits DEF Acked, NextAt, Full, Stages, After, Discards
<1>3. CASE fw.cmd = "post" BY <1>3, Waits DEF Acked, NextAt, Full, Stages, After, Discards
<1>4. CASE fw.cmd \in {"open", "head"} BY <1>4, Waits DEF Acked, NextAt, Full, Stages, After, Discards
<1>5. CASE fw.cmd \notin {"token", "header", "post", "open", "head"}
  BY <1>5 DEF Acked, NextAt
<1>6. QED BY <1>1, <1>2, <1>3, <1>4, <1>5

\* Where a chunk taken, an ack or a refusal leaves the firmware is a place it can be.
LEMMA FirmwareTypes ==
    ASSUME TypeOK
    PROVE  /\ Acked \in Boards /\ Refused \in Boards /\ Idle \in Boards
           /\ At("discard", "none", "old", Discard) \in Boards
           /\ At("job", "stalled", fw.of, Job) \in Boards
           /\ At("late", fw.cmd, fw.of, Late) \in Boards
           /\ \A c \in Bytes : Listens => Takes(c) \in Boards
<1>1. /\ fw \in Boards /\ Reply \in Nat /\ Late \in Nat /\ Owed \in Nat
      /\ Discard \in Nat /\ HeaderGivesUp \in Nat /\ Job \in Nat
  BY Waits DEF TypeOK
<1>2. Idle \in Boards BY DEF Idle, Boards, Marks
<1>3. /\ At("discard", "none", "old", Discard) \in Boards /\ At("job", "stalled", fw.of, Job) \in Boards
      /\ At("late", fw.cmd, fw.of, Late) \in Boards
  BY <1>1 DEF At, Boards, Marks
<1>4. Refused \in Boards BY <1>2, <1>3 DEF Refused
<1>5. Acked \in Boards
  BY <1>1, <1>2, AckedIs DEF At, Boards, Full
<1>6. ASSUME NEW c \in Bytes, Listens PROVE Takes(c) \in Boards
  <2>1. c.what \in Opening \cup Stages \cup {"zeros"} /\ c.of \in Marks /\ c.whole \in BOOLEAN
    BY DEF Bytes
  <2>2. At("busy", c.what, c.of, Reply) \in Boards /\ At("job", c.what, c.of, Reply) \in Boards
        /\ At("owed", "none", c.of, Owed) \in Boards /\ At("busy", "stray", c.of, Reply) \in Boards
    BY <1>1, <2>1 DEF At, Boards
  <2>3. [fw EXCEPT !.left = Owed] \in Boards BY <1>1 DEF Boards
  <2>4. CASE fw.at \in {"discard", "owed", "idle"}
    BY <1>2, <1>3, <2>1, <2>2, <2>4, TakesIs
  <2>5. CASE fw.at \in Stages
    BY <1>1, <2>1, <2>2, <2>3, <2>5, TakesIs
  <2>6. QED BY <1>6, <2>4, <2>5 DEF Listens
<1>7. QED BY <1>2, <1>3, <1>4, <1>5, <1>6

\* An ack, a refusal or a lost answer leaves it no further from its dispatcher.
LEMMA RestsAcked ==
    ASSUME TypeOK, AtWork, fwin' = fwin,
           fw' = Acked \/ fw' = Refused \/ (fw' = Idle /\ fw.cmd \in {"zeros", "stray"}),
           NEW n \in Int, Rests(fw, fwin, n)
    PROVE  Rests(fw', fwin', n)
<1>1. fw \in Boards /\ fwin \in Seq(Bytes) /\ fw.left \in Nat /\ Len(fwin) \in Nat
  BY DEF TypeOK, Boards
<1>2. n >= 0 BY DEF Rests, AtWork
<1>3. Reply \in Nat /\ Owed \in Nat /\ Discard \in Nat /\ HeaderGivesUp \in Nat /\ Job \in Nat BY Waits
<1>4. Idle.at = "idle" BY DEF Idle
<1>5. CASE Len(fwin) = 0 /\ fw'.at = "idle" BY <1>5 DEF Rests
<1>6. CASE fw.at = "busy" /\ Len(fwin) = 0 /\ fw'.at # "idle"
  <2>1. n >= fw.left + After(fw.cmd) BY <1>6 DEF Rests, RestsBusy, Stages
  <2>2. CASE fw' = Acked
    <3>1. NextAt(fw.cmd) \in Stages /\ fw' = At(NextAt(fw.cmd), "none", fw.of, Full(NextAt(fw.cmd)))
      BY <1>4, <1>6, <2>2, AckedIs
    <3>2. After(fw.cmd) = fw'.left + Discards(fw'.at) /\ fw'.at \in Stages
      BY <3>1, AckedIs DEF At, Stages
    <3>3. After(fw.cmd) \in Nat BY AfterIs
    <3>4. QED BY <1>1, <1>2, <1>6, <2>1, <3>2, <3>3 DEF Rests, RestsStage
  <2>3. CASE fw' = Refused
    <3>1. fw.cmd = "header" /\ fw' = At("discard", "none", "old", Discard)
      BY <1>4, <1>6, <2>3 DEF Refused
    <3>2. After(fw.cmd) = Owed + Discard BY <3>1, AfterIs
    <3>3. n >= Discard BY <1>1, <1>3, <2>1, <3>2
    <3>4. QED BY <1>2, <1>6, <3>1, <3>3 DEF Rests, At
  <2>4. QED BY <1>4, <1>6, <2>2, <2>3
<1>7. CASE fw.at = "busy" /\ Len(fwin) # 0
  <2>1. /\ fw.cmd = "token" /\ Len(fwin) = 1 /\ fwin[1].what = "zeros"
        /\ n >= fw.left + (IF fwin[1].whole THEN Reply ELSE HeaderGivesUp + Discard)
    BY <1>7 DEF Rests, RestsBusy, Stages
  <2>2. CASE fw' = Acked
    <3>1. fw' = At("header", "none", fw.of, HeaderGivesUp) BY <2>1, <2>2 DEF Acked
    <3>2. QED BY <1>1, <1>2, <1>3, <2>1, <3>1 DEF Rests, RestsStage, At, Stages
  <2>3. CASE fw' = Refused
    <3>1. fw' = Idle BY <2>1, <2>3 DEF Refused
    <3>2. QED BY <1>1, <1>2, <1>4, <2>1, <3>1 DEF Rests, RestsIdle
  <2>4. QED BY <2>1, <2>2, <2>3
<1>8. CASE fw.at = "job"
  <2>1. Len(fwin) = 0 /\ fw.cmd \in {"payload", "stalled"} BY <1>8 DEF Rests, RestsJob, Stages
  <2>2. Acked = Idle /\ Refused = Idle BY <2>1, AckedIs DEF NextAt, Refused
  <2>3. QED BY <1>4, <1>5, <2>1, <2>2
<1>9. CASE fw.at = "late"
  <2>1. Len(fwin) = 0 /\ fw.cmd \in Slow BY <1>9 DEF Rests, RestsLate, Stages
  <2>2. Acked = Idle /\ Refused = Idle BY <2>1, AckedIs DEF NextAt, Refused, Slow
  <2>3. QED BY <1>4, <1>5, <2>1, <2>2
<1>10. QED BY <1>5, <1>6, <1>7, <1>8, <1>9 DEF AtWork

\* No step of the firmware takes it further from its dispatcher.
LEMMA RestsFirmware ==
    ASSUME TypeOK, NEW n \in Int, Rests(fw, fwin, n),
           FwTakes \/ FwAnswers \/ FwRefusesZeros \/ FwRefuses \/ FwStalls \/ FwAnswerLost
           \/ FwGivesUp \/ FwDiscardEnds
    PROVE  Rests(fw', fwin', n)
<1>1. CASE FwTakes BY <1>1, RestsTakes
<1>2. CASE FwAnswers
  <2>1. AtWork /\ fwin' = fwin /\ fw' = Acked BY <1>2 DEF FwAnswers
  <2>2. QED BY <2>1, RestsAcked
<1>3. CASE FwRefusesZeros BY <1>3, RestsAcked DEF FwRefusesZeros, AtWork
<1>4. CASE FwRefuses
  <2>1. AtWork /\ fwin' = fwin /\ fw' = Refused BY <1>4 DEF FwRefuses
  <2>2. QED BY <2>1, RestsAcked
<1>5. CASE FwAnswerLost
  <2>1. AtWork /\ fwin' = fwin /\ fw' = Acked BY <1>5 DEF FwAnswerLost
  <2>2. QED BY <2>1, RestsAcked
<1>6. CASE FwStalls
  <2>1. CASE fw.at = "job"
    <3>1. n >= 0 /\ Len(fwin) = 0 /\ n >= Job
      BY <1>6, <2>1 DEF FwStalls, Rests, RestsJob, Stages
    <3>2. QED BY <1>6, <2>1, <3>1 DEF FwStalls, Rests, RestsJob, At
  <2>2. CASE fw.at = "busy"
    <3>1. fw.cmd \in Slow /\ fw.left = Reply BY <1>6, <2>2 DEF FwStalls
    <3>2. n >= 0 /\ Len(fwin) = 0 /\ n >= Late
      BY <2>2, <3>1 DEF Rests, RestsBusy, Stages, Slow
    <3>3. QED BY <1>6, <2>2, <3>1, <3>2 DEF FwStalls, Rests, RestsLate, At
  <2>3. QED BY <1>6, <2>1, <2>2 DEF FwStalls
<1>7. CASE FwGivesUp
  <2>1. Len(fwin) = 0 /\ fwin' = fwin BY <1>7 DEF FwGivesUp, TypeOK
  <2>2. CASE fw.at \in {"header", "payload"}
    <3>1. n >= 0 /\ n >= 0 + Discard BY <1>7, <2>1, <2>2 DEF FwGivesUp, Rests, RestsStage, Discards, Stages
    <3>2. n >= Discard BY <3>1, Waits
    <3>3. QED BY <1>7, <2>1, <2>2, <3>1, <3>2 DEF FwGivesUp, Rests, At
  <2>3. CASE fw.at \notin {"header", "payload"}
    BY <1>7, <2>1, <2>3 DEF FwGivesUp, Rests, Idle
  <2>4. QED BY <2>2, <2>3
<1>8. CASE FwDiscardEnds
  BY <1>8 DEF FwDiscardEnds, Rests, Idle
<1>9. QED BY <1>1, <1>2, <1>3, <1>4, <1>5, <1>6, <1>7, <1>8

------------------------------------------------------------------------------
(* The inbox: chatter, and at most one reply that is the command's own.       *)

\* Chatter among chatter.
LEMMA NoiseMore ==
    ASSUME NEW q \in Seq(Replies), Noise(q), NEW m \in Marks
    PROVE  Noise(q \o Answers(<<"noise">>, m))
<1> DEFINE a == Answers(<<"noise">>, m)
<1>1. a \in Seq(Replies) /\ Len(a) = 1 /\ a[1].rep = "noise" BY AnswersOne
<1> HIDE DEF a
<1>2. Len(q \o a) = Len(q) + 1 /\ (\A i \in 1..Len(q) : (q \o a)[i] = q[i]) /\ (q \o a)[Len(q) + 1] = a[1]
  BY <1>1, JoinedOne
<1>3. Len(q) \in Nat OBVIOUS
<1>4. Noise(q \o a) BY <1>1, <1>2, <1>3 DEF Noise
<1>5. QED BY <1>4 DEF a

\* What is behind chatter that was read.
LEMMA NoiseTail ==
    ASSUME NEW q \in Seq(Replies), q # <<>>, Noise(q)
    PROVE  Noise(Tail(q))
BY TakeFirst DEF Noise

\* Chatter behind the data of a read.
LEMMA NoiseBehind ==
    ASSUME NEW q \in Seq(Replies), Len(q) > 0, Noise(Tail(q)), NEW m \in Marks
    PROVE  LET p == q \o Answers(<<"noise">>, m) IN Len(p) > 0 /\ Noise(Tail(p))
<1> DEFINE a == Answers(<<"noise">>, m)
           p == q \o a
<1>1. a \in Seq(Replies) /\ Len(a) = 1 /\ a[1].rep = "noise" BY AnswersOne
<1> HIDE DEF a
<1>2. p \in Seq(Replies) /\ Len(p) = Len(q) + 1 /\ (\A i \in 1..Len(q) : p[i] = q[i]) /\ p[Len(q) + 1] = a[1]
  BY <1>1, JoinedOne
<1> HIDE DEF p
<1>3. Len(q) \in Nat /\ q # <<>> OBVIOUS
<1>4. Len(Tail(q)) = Len(q) - 1 /\ \A i \in 1..Len(q) - 1 : Tail(q)[i] = q[i + 1]
  BY <1>3, TakeFirst
<1>5. p # <<>> BY <1>2, <1>3
<1>6. Len(Tail(p)) = Len(q) /\ \A i \in 1..Len(q) : Tail(p)[i] = p[i + 1]
  BY <1>2, <1>3, <1>5, TakeFirst
<1>7. ASSUME NEW i \in 1..Len(q) PROVE Tail(p)[i].rep = "noise"
  <2>1. CASE i = Len(q) BY <1>1, <1>2, <1>3, <1>6, <2>1
  <2>2. CASE i # Len(q)
    <3>1. i \in 1..Len(q) - 1 /\ i + 1 \in 1..Len(q) BY <1>3, <2>2
    <3>2. Tail(p)[i] = Tail(q)[i] BY <1>2, <1>4, <1>6, <3>1
    <3>3. Tail(q)[i].rep = "noise" BY <1>4, <3>1 DEF Noise
    <3>4. QED BY <3>2, <3>3
  <2>3. QED BY <2>1, <2>2
<1>8. QED BY <1>2, <1>3, <1>6, <1>7 DEF Noise, p, a

\* Chatter that a command leaves behind.
LEMMA NoiseOld ==
    ASSUME NEW q \in Seq(Replies), Noise(q)
    PROVE  Noise(Old(q))
BY OldReplies DEF Noise

\* Chatter behind the one reply.
LEMMA OneMore ==
    ASSUME NEW q \in Seq(Replies), NEW reps, NEW what, One(q, reps, what), NEW m \in Marks
    PROVE  One(q \o Answers(<<"noise">>, m), reps, what)
<1> DEFINE a == Answers(<<"noise">>, m)
           p == q \o a
<1>1. a \in Seq(Replies) /\ Len(a) = 1 /\ a[1].rep = "noise" BY AnswersOne
<1> HIDE DEF a
<1>2. Len(p) = Len(q) + 1 /\ (\A i \in 1..Len(q) : p[i] = q[i]) /\ p[Len(q) + 1] = a[1]
  BY <1>1, JoinedOne
<1>3. Len(q) \in Nat OBVIOUS
<1> HIDE DEF p
<1>4. PICK i \in 1..Len(q) :
        /\ q[i].rep \in reps /\ q[i].of = "own"
        /\ what = "query" /\ q[i].rep = "ack" => i < Len(q)
        /\ \A j \in 1..Len(q) :
              j # i => q[j].rep = IF what = "query" /\ q[i].rep = "ack" /\ j = i + 1
                                  THEN "data" ELSE "noise"
  BY DEF One
<1>5. i \in 1..Len(p) /\ p[i] = q[i] /\ (i < Len(q) => i < Len(p)) BY <1>2, <1>3
<1>6. ASSUME NEW j \in 1..Len(p), j # i
      PROVE  p[j].rep = IF what = "query" /\ p[i].rep = "ack" /\ j = i + 1 THEN "data" ELSE "noise"
  <2>1. CASE j \in 1..Len(q) BY <1>2, <1>4, <1>5, <1>6, <2>1
  <2>2. CASE j = Len(q) + 1 BY <1>1, <1>2, <1>3, <1>4, <1>5, <2>2
  <2>3. QED BY <1>2, <1>3, <2>1, <2>2
<1>7. One(p, reps, what) BY <1>4, <1>5, <1>6 DEF One
<1>8. QED BY <1>7 DEF p, a

\* The firmware's ack, with a read's data, or what it says of a failure.
LEMMA OneNew ==
    ASSUME NEW q \in Seq(Replies), Noise(q), NEW what,
           NEW r \in {"ack", "fail", "timeout"}, r = "ack" => what # "query"
    PROVE  One(q \o Answers(<<r>>, "own"), {r}, what)
<1> DEFINE a == Answers(<<r>>, "own")
           p == q \o a
<1>1. a \in Seq(Replies) /\ Len(a) = 1 /\ a[1].rep = r /\ a[1].of = "own"
  BY AnswersOne DEF Marks
<1> HIDE DEF a
<1>2. Len(p) = Len(q) + 1 /\ (\A i \in 1..Len(q) : p[i] = q[i]) /\ p[Len(q) + 1] = a[1]
  BY <1>1, JoinedOne
<1>3. Len(q) \in Nat OBVIOUS
<1> HIDE DEF p
<1>4. One(p, {r}, what) BY <1>1, <1>2, <1>3 DEF One, Noise
<1>5. QED BY <1>4 DEF p, a

\* A reply of one kind is one of several.
LEMMA OneWider ==
    ASSUME NEW q, NEW what, NEW reps, NEW r \in reps, One(q, {r}, what)
    PROVE  One(q, reps, what)
<1>1. PICK i \in 1..Len(q) :
        /\ q[i].rep \in {r} /\ q[i].of = "own"
        /\ what = "query" /\ q[i].rep = "ack" => i < Len(q)
        /\ \A j \in 1..Len(q) :
              j # i => q[j].rep = IF what = "query" /\ q[i].rep = "ack" /\ j = i + 1
                                  THEN "data" ELSE "noise"
  BY Zenon DEF One
<1>2. q[i].rep \in reps BY <1>1
<1>3. QED BY <1>1, <1>2, Zenon DEF One

\* The ack of a read, and its data.
LEMMA OneRead ==
    ASSUME NEW q \in Seq(Replies), Noise(q), NEW what, what = "query"
    PROVE  One(q \o Answers(<<"ack", "data">>, "own"), {"ack"}, what)
<1> DEFINE a == Answers(<<"ack", "data">>, "own")
           p == q \o a
<1>1. a \in Seq(Replies) /\ Len(a) = 2 /\ a[1].rep = "ack" /\ a[1].of = "own" /\ a[2].rep = "data"
  BY AnswersTwo DEF Marks
<1> HIDE DEF a
<1>2. /\ Len(p) = Len(q) + 2 /\ (\A i \in 1..Len(q) : p[i] = q[i])
      /\ p[Len(q) + 1] = a[1] /\ p[Len(q) + 2] = a[2]
  BY <1>1, JoinedTwo
<1>3. Len(q) \in Nat OBVIOUS
<1> HIDE DEF p
<1>4. One(p, {"ack"}, what)
  <2> DEFINE k == Len(q) + 1
  <2>1. k \in 1..Len(p) /\ k < Len(p) BY <1>2, <1>3
  <2>2. p[k].rep = "ack" /\ p[k].of = "own" BY <1>1, <1>2
  <2>3. ASSUME NEW j \in 1..Len(p), j # k
        PROVE  p[j].rep = IF j = k + 1 THEN "data" ELSE "noise"
    <3>1. (j \in 1..Len(q) /\ j # k + 1) \/ j = k + 1 BY <1>2, <1>3, <2>3
    <3>2. k + 1 = Len(q) + 2 BY <1>3
    <3>3. QED BY <1>1, <1>2, <3>1, <3>2 DEF Noise
  <2> HIDE DEF k
  <2>4. QED BY <2>1, <2>2, <2>3 DEF One
<1>5. QED BY <1>4 DEF p, a

\* A reply at the head that is no chatter is the command's own, and the last.
LEMMA OneFirst ==
    ASSUME NEW q \in Seq(Replies), q # <<>>, NEW reps, NEW what, One(q, reps, what),
           q[1].rep \in {"ack", "fail", "timeout"}
    PROVE  /\ q[1].rep \in reps /\ q[1].of = "own"
           /\ ~(what = "query" /\ q[1].rep = "ack") => Noise(Tail(q))
           /\ what = "query" /\ q[1].rep = "ack" => Len(Tail(q)) > 0 /\ Noise(Tail(Tail(q)))
<1>1. PICK i \in 1..Len(q) :
        /\ q[i].rep \in reps /\ q[i].of = "own"
        /\ what = "query" /\ q[i].rep = "ack" => i < Len(q)
        /\ \A j \in 1..Len(q) :
              j # i => q[j].rep = IF what = "query" /\ q[i].rep = "ack" /\ j = i + 1
                                  THEN "data" ELSE "noise"
  BY DEF One
<1>2. /\ Len(q) \in Nat /\ Len(q) > 0 /\ Tail(q) \in Seq(Replies) /\ Len(Tail(q)) = Len(q) - 1
      /\ \A k \in 1..Len(q) - 1 : Tail(q)[k] = q[k + 1]
  BY TakeFirst
<1>3. i = 1
  <2>1. SUFFICES ASSUME i # 1 PROVE FALSE OBVIOUS
  <2>2. 1 \in 1..Len(q) /\ i + 1 # 1 BY <1>2
  <2>3. q[1].rep = IF what = "query" /\ q[i].rep = "ack" /\ 1 = i + 1 THEN "data" ELSE "noise"
    BY <1>1, <2>1, <2>2
  <2>4. i \in Nat /\ i >= 1 /\ 1 # i + 1 OBVIOUS
  <2>5. QED BY <2>3, <2>4
<1>4. q[1].rep \in reps /\ q[1].of = "own" BY <1>1, <1>3
<1>5. ASSUME ~(what = "query" /\ q[1].rep = "ack") PROVE Noise(Tail(q))
  BY <1>1, <1>2, <1>3, <1>5 DEF Noise
<1>6. ASSUME what = "query", q[1].rep = "ack" PROVE Len(Tail(q)) > 0 /\ Noise(Tail(Tail(q)))
  <2>1. Len(q) > 1 BY <1>1, <1>3, <1>6
  <2> DEFINE t == Tail(q)
  <2>2. t \in Seq(Replies) /\ Len(t) > 0 BY <1>2, <2>1
  <2> HIDE DEF t
  <2>2a. t # <<>> BY <2>2, EmptyIs
  <2>3. /\ Len(Tail(Tail(q))) = Len(q) - 2
        /\ \A k \in 1..Len(q) - 2 : Tail(Tail(q))[k] = Tail(q)[k + 1]
    BY <1>2, <2>2a, TakeFirst DEF t
  <2>4. ASSUME NEW k \in 1..Len(q) - 2 PROVE Tail(Tail(q))[k].rep = "noise"
    <3>1. Tail(Tail(q))[k] = q[k + 2] BY <1>2, <2>3
    <3>2. k + 2 \in 1..Len(q) /\ k + 2 # 1 /\ k + 2 # 2 BY <1>2
    <3>3. QED BY <1>1, <1>3, <3>1, <3>2
  <2>5. QED BY <2>2, <2>3, <2>4 DEF Noise, t
<1>7. QED BY <1>4, <1>5, <1>6

------------------------------------------------------------------------------
(* The wait of a resync, and the end of a command.                            *)

\* A resync waits for more ticks than the firmware may take to rest.
LEMMA OutlastedIs ==
    ASSUME NEW d \in BOOLEAN, NEW s \in Int, NEW u \in Int
    PROVE  LET n == Outlasted(d, s, u)
           IN /\ n \in Int /\ n >= Reply + Owed - s /\ n >= Late - s /\ n >= u - 1
              /\ d => n >= Reply + Owed + Discard - s
<1>1. /\ Reply \in Nat /\ Late \in Nat /\ Owed \in Nat /\ Discard \in Nat /\ Quiet \in Nat /\ DeadQuiet \in Nat /\ Late < DeadQuiet
      /\ Reply + Owed < DeadQuiet /\ Reply + Owed + Discard < Quiet /\ DeadQuiet <= Quiet
  BY Waits
<1>2. CASE d
  BY <1>1, <1>2 DEF Outlasted
<1>3. CASE ~d
  BY <1>1, <1>3 DEF Outlasted
<1>4. QED
  BY <1>2, <1>3

\* The wait that _resync chooses is longer than the firmware may take to rest.
LEMMA LeftIs ==
    ASSUME TypeOK
    PROVE  Budget \in Int /\ Larger(Left, MinQuiet) \in Nat /\ Larger(Left, MinQuiet) > Budget
<1>1. /\ since \in Int /\ due \in Int
      /\ Quiet \in Nat /\ DeadQuiet \in Nat /\ MinQuiet \in Nat /\ DeadQuiet <= Quiet
  BY Waits DEF TypeOK
<1> DEFINE q == (IF dead /\ ~discards THEN DeadQuiet ELSE Quiet) - since
           b == (IF discards THEN Quiet ELSE DeadQuiet) - 1 - since
<1>2. q \in Int /\ b \in Int /\ q > b
  <2>1. CASE discards BY <1>1, <2>1
  <2>2. CASE ~discards BY <1>1, <2>2
  <2>3. QED BY <2>1, <2>2
<1>3. Left = Larger(q, due) /\ Budget = IF b >= due - 1 THEN b ELSE due - 1
  BY DEF Left, Budget, Outlasted
<1> HIDE DEF q, b
<1>4. Left = IF q >= due THEN q ELSE due BY <1>1, <1>2, <1>3, LargerIs
<1>5. Left \in Int /\ Left > Budget /\ Budget \in Int BY <1>1, <1>2, <1>3, <1>4
<1>6. Larger(Left, MinQuiet) = IF Left >= MinQuiet THEN Left ELSE MinQuiet
  BY <1>1, <1>5, LargerIs
<1>7. QED BY <1>1, <1>5, <1>6

\* A command that ends leaves a link in step at rest, or one out of step that
\* rests within the wait.
LEMMA EndsWell ==
    ASSUME TypeOK, NEW q \in Seq(Bytes), NEW r \in Seq(Replies), Ends(q, r),
           out' \in BOOLEAN, discards' \in BOOLEAN, since' \in 0..HeaderWait, due' \in Nat,
           ~out' => fw.at = "idle" /\ Len(q) = 0 /\ Noise(r),
           out' => Rests(fw, q, Budget')
    PROVE  IInv'
<1>1. /\ pc' = "idle" /\ kind' = "drain" /\ step' = 0 /\ still' = 0 /\ win' = 0
      /\ fw' = [fw EXCEPT !.of = "old"] /\ fwin' = Old(q) /\ inbox' = Old(r)
      /\ got' = FALSE
  BY DEF Ends
<1>2. fw \in Boards BY DEF TypeOK
<1>3. fw' \in Boards /\ fw'.at = fw.at /\ fw'.of = "old" BY <1>1, <1>2 DEF Boards, Marks
<1>4. TypeOK'
  <2>1. kind' \in DOMAIN Chunks BY <1>1 DEF Chunks
  <2>2. fwin' \in Seq(Bytes) /\ inbox' \in Seq(Replies) BY <1>1, OldChunks, OldReplies
  <2>3. QED BY <1>1, <1>3, <2>1, <2>2 DEF TypeOK
<1>5. Steps' BY <1>1 DEF Steps
<1>6. InCommand'
  <2>1. ~out' => Calm' /\ Noise(inbox')
    BY <1>1, <1>3, OldChunks, NoiseOld DEF Calm
  <2>2. QED BY <1>1, <2>1 DEF InCommand, InStep, Sending, Reading, TextDrain
<1>7. OutOfStep'
  <2>1. fw'.of = "old" /\ \A i \in 1..Len(fwin') : fwin'[i].of = "old"
    BY <1>1, <1>3, OldChunks
  <2>2. Budget' \in Int
    <3>1. since' \in Int /\ due' \in Int /\ Quiet \in Nat /\ DeadQuiet \in Nat
      BY Waits
    <3>2. Budget' = Outlasted(discards', since', due') BY DEF Budget
    <3>3. QED BY <3>1, <3>2, OutlastedIs
  <2>3. out' => Rests(fw', fwin', Budget') BY <1>1, <1>2, <2>2, RestsOld
  <2>4. QED BY <1>1, <2>1, <2>3 DEF OutOfStep
<1>8. QED BY <1>4, <1>5, <1>6, <1>7 DEF IInv

------------------------------------------------------------------------------
(* The firmware's steps.                                                      *)

\* On a link out of step the firmware's own steps bring it no further from rest.
LEMMA FirmwareOutOfStep ==
    ASSUME IInv, UNCHANGED <<client, clocks>>, fw' \in Boards, fwin' \in Seq(Bytes),
           FwTakes \/ FwAnswers \/ FwRefusesZeros \/ FwRefuses \/ FwStalls \/ FwAnswerLost
           \/ FwGivesUp \/ FwDiscardEnds
    PROVE  OutOfStep'
<1>1. TypeOK /\ OutOfStep BY DEF IInv
<1>2. Budget' = Budget /\ Budget \in Int BY <1>1, LeftIs DEF Budget, client, clocks
<1>3. (win - still) - 1 \in Int BY <1>1 DEF TypeOK
<1>4. UNCHANGED <<pc, out, win, still>> BY DEF client, clocks
<1>5. ASSUME pc \in {"idle", "resync"}
      PROVE  fw'.of = "old" /\ \A i \in 1..Len(fwin') : fwin'[i].of = "old"
  <2>1. fw.of = "old" /\ (\A i \in 1..Len(fwin) : fwin[i].of = "old") /\ fw \in Boards
    BY <1>1, <1>5 DEF OutOfStep, TypeOK
  <2>2. CASE FwTakes
    <3>1. fwin \in Seq(Bytes) /\ fwin # <<>> /\ Listens /\ fw' = Takes(fwin[1]) /\ fwin' = Tail(fwin)
      BY <1>1, <2>2, TakeFirst DEF FwTakes, TypeOK
    <3>2. /\ Len(fwin) > 0 /\ Len(fwin) \in Nat /\ Len(fwin') = Len(fwin) - 1
          /\ \A i \in 1..Len(fwin) - 1 : fwin'[i] = fwin[i + 1]
      BY <3>1, TakeFirst
    <3>3. \A i \in 1..Len(fwin') : fwin'[i].of = "old" BY <2>1, <3>2
    <3>4. fwin[1].of = "old" BY <2>1, <3>2
    <3>5. fw'.of = "old"
      <4>1. CASE fw.at \in {"discard", "owed", "idle"}
        <5>1. fwin[1] \in Bytes BY <3>1, TakeFirst
        <5>2. fwin[1].what \in Opening \cup Stages \cup {"zeros"} BY <5>1 DEF Bytes
        <5>3. QED BY <3>1, <3>4, <4>1, <5>2, TakesIs DEF At, Idle
      <4>2. CASE fw.at \in Stages
        <5>1. [fw EXCEPT !.left = Owed].of = "old" BY <2>1 DEF Boards
        <5>2. fwin[1].whole => fw'.of = "old" BY <3>1, <3>4, <4>2, TakesIs DEF At
        <5>3. ~fwin[1].whole => fw'.of = "old" BY <2>1, <3>1, <4>2, <5>1, TakesIs
        <5>4. QED BY <5>2, <5>3
      <4>3. QED BY <3>1, <4>1, <4>2 DEF Listens
    <3>6. QED BY <3>3, <3>5
  <2>3. CASE ~FwTakes
    <3>1. fwin' = fwin
      BY <2>3 DEF FwAnswers, FwRefusesZeros, FwRefuses, FwStalls, FwAnswerLost, FwGivesUp, FwDiscardEnds
    <3>2. \/ fw' = Acked \/ fw' = Refused \/ fw' = Idle \/ fw' = At("job", "stalled", fw.of, Job)
          \/ fw' = At("discard", "none", "old", Discard) \/ fw' = At("late", fw.cmd, fw.of, Late)
      BY <2>3 DEF FwAnswers, FwRefusesZeros, FwRefuses, FwStalls, FwAnswerLost, FwGivesUp, FwDiscardEnds
    <3>3. fw'.of = "old" BY <2>1, <3>2, AckedIs DEF Refused, At, Idle
    <3>4. QED BY <2>1, <3>1, <3>3
  <2>4. QED BY <2>2, <2>3
<1>6. out => Rests(fw', fwin', Budget) BY <1>1, <1>2, RestsFirmware DEF OutOfStep
<1>7. pc = "resync" => Rests(fw', fwin', (win - still) - 1)
  BY <1>1, <1>3, RestsFirmware DEF OutOfStep
<1>8. QED BY <1>2, <1>4, <1>5, <1>6, <1>7 DEF OutOfStep

\* While only the firmware acts, a command stays where it is.
LEMMA SameCommand ==
    ASSUME UNCHANGED <<client, clocks>>
    PROVE  /\ UNCHANGED <<pc, kind, step, out, since, still, due, win, discards, got>>
           /\ What' = What /\ (IsData' <=> IsData)
           /\ (InStep' <=> InStep) /\ (Sending' <=> Sending)
           /\ (Reading' <=> Reading) /\ (TextDrain' <=> TextDrain)
BY DEF client, clocks, What, IsData, InStep, Sending, Reading, TextDrain

\* What the invariant says of the chunk sent, or of the one to send.
LEMMA AtChunk ==
    ASSUME TypeOK, Steps
    PROVE  /\ Reading \/ pc = "send" => step \in 1..Len(Chunks[kind]) /\ ~IsData
           /\ Reading => What # "text"
           /\ (Reading \/ pc = "send") /\ step = 1 => What \in Opening
           /\ (Reading \/ pc = "send") /\ step # 1 => What \in Stages /\ kind \in {"spans", "file", "post"}
<1>1. Reading \/ pc = "send" => step \in 1..Len(Chunks[kind]) /\ ~IsData
  BY WhatIs DEF TypeOK, Steps, Reading
<1>2. step \in Nat /\ (step \in 1..Len(Chunks[kind]) /\ step # 1 => step > 1)
  BY DEF TypeOK
<1>3. Reading => What # "text"
  BY <1>1, WhatIs DEF TypeOK, Steps, Reading
<1>4. QED BY <1>1, <1>2, <1>3, WhatIs DEF TypeOK

\* The firmware takes a chunk of the command in progress.
LEMMA TakesInCommand ==
    ASSUME IInv, FwTakes
    PROVE  InCommand'
<1>1. TypeOK /\ Steps /\ InCommand BY DEF IInv
<1>2. /\ UNCHANGED <<client, clocks>> /\ inbox' = inbox
      /\ fwin \in Seq(Bytes) /\ fwin # <<>> /\ Listens /\ fw' = Takes(fwin[1]) /\ fwin' = Tail(fwin)
  BY <1>1, TakeFirst DEF FwTakes, TypeOK
<1>3. Len(fwin) > 0 /\ Len(fwin) \in Nat /\ Len(fwin') = Len(fwin) - 1 /\ fwin[1] \in Bytes
  BY <1>2, TakeFirst
<1>4. ~InStep /\ ~Sending /\ ~(pc = "read" /\ IsData) BY <1>1, <1>3 DEF InCommand, Calm, AtSend
<1>5. Reply \in Nat /\ Owed \in Nat /\ since \in Nat /\ still \in Nat BY <1>1, Waits DEF TypeOK
<1>6. ASSUME Reading PROVE Working'
  <2>1. Sent BY <1>1, <1>3, <1>6 DEF InCommand, Working, Replied, Lost, Ended
  <2>2. fwin[1].what = What /\ fwin[1].whole /\ fwin[1].of = "own" /\ Len(fwin') = 0 /\ since = 0
        /\ Noise(inbox)
    BY <1>3, <2>1 DEF Sent, Chunk
  <2>3. fw' = At(IF What = "payload" THEN "job" ELSE "busy", What, "own", Reply)
    <3>1. CASE step = 1
      <4>1. What \in Opening /\ fw.at = "idle" BY <1>1, <1>6, <2>1, <3>1, AtChunk DEF Sent
      <4>2. What # "payload" BY <4>1 DEF Opening
      <4>3. QED BY <1>2, <2>2, <4>1, <4>2, TakesIs
    <3>2. CASE step # 1
      <4>1. What \in Stages /\ fw.at = What BY <1>1, <1>6, <2>1, <3>2, AtChunk DEF Sent
      <4>2. QED BY <1>2, <2>2, <4>1, TakesIs
    <3>3. QED BY <3>1, <3>2
  <2>4. /\ fw'.at = (IF What = "payload" THEN "job" ELSE "busy") /\ fw'.cmd = What
        /\ fw'.of = "own" /\ fw'.left = Reply
    BY <2>3 DEF At
  <2>5. QED BY <1>2, <1>5, <2>2, <2>4, SameCommand DEF Working
<1>7. ASSUME TextDrain PROVE AtText'
  <2>1. /\ Len(fwin) = 1 /\ fwin[1] = Chunk("text", TRUE) /\ fw.at = "idle"
        /\ since = 0 /\ still = 0 /\ Unsaid
    <3>1. AtText BY <1>1, <1>7 DEF InCommand
    <3>2. Len(fwin) # 0 BY <1>3
    <3>3. QED BY <3>1, <3>2, Zenon DEF AtText, Calm
  <2>2. fw' = At("busy", "text", "own", Reply) BY <1>2, <2>1, TakesIs DEF Chunk, Opening
  <2>3. Len(fwin') = 0 /\ since' = since /\ still' = still BY <1>2, <1>3, <2>1, SameCommand
  <2>4. fw'.at = "busy" /\ fw'.cmd = "text" /\ fw'.left = Reply BY <2>2 DEF At
  <2>5. Unsaid' BY <1>2, <2>1, SameCommand DEF Unsaid
  <2>6. QED BY <1>5, <2>1, <2>3, <2>4, <2>5 DEF AtText
<1>8. ASSUME pc = "close" PROVE AtClose'
  <2>1. fw.at = "idle" /\ Len(fwin) = 1 /\ fwin[1].what = "token" /\ since = 0 /\ since <= IoTimeout
    BY <1>1, <1>3, <1>8 DEF InCommand, AtClose, Calm
  <2>2. fw' = IF fwin[1].whole THEN At("busy", "token", fwin[1].of, Reply)
                               ELSE At("owed", "none", fwin[1].of, Owed)
    BY <1>2, <2>1, TakesIs DEF Opening
  <2>3. Len(fwin') = 0 /\ since' = since BY <1>2, <1>3, <2>1, SameCommand
  <2>4. CASE fwin[1].whole BY <1>5, <2>1, <2>2, <2>3, <2>4 DEF AtClose, At
  <2>5. CASE ~fwin[1].whole BY <1>5, <2>1, <2>2, <2>3, <2>5 DEF AtClose, At
  <2>6. QED BY <2>4, <2>5
<1>9. Reading => since = still /\ still <= IoTimeout /\ (What = "payload" => JobCeiling <= due + since)
  BY <1>1 DEF InCommand
<1>10. QED BY <1>2, <1>4, <1>6, <1>7, <1>8, <1>9, SameCommand DEF InCommand

\* An ack, said or lost, in a command.
LEMMA AckedInCommand ==
    ASSUME IInv, UNCHANGED <<client, clocks>>, AtWork, fw' = Acked, fwin' = fwin,
           fw.cmd \notin {"zeros", "stray"},
           \/ inbox' = inbox
           \/ inbox' = inbox \o Answers(Says, fw.of)
    PROVE  InCommand'
<1>1. TypeOK /\ Steps /\ InCommand BY DEF IInv
<1>2. /\ fw \in Boards /\ fwin \in Seq(Bytes) /\ inbox \in Seq(Replies) /\ Len(fwin) \in Nat
      /\ fw.left \in Nat /\ since \in Nat /\ still \in Nat
      /\ Reply \in Nat /\ Owed \in Nat /\ HeaderGivesUp \in Nat /\ IoTimeout \in Nat
  BY <1>1, Waits DEF TypeOK, Boards
<1>3. ~InStep /\ ~Sending /\ ~(pc = "read" /\ IsData)
  <2>1. fw.at \notin Stages \cup {"idle"} BY DEF Stages, AtWork
  <2>2. Sending => What \in Stages BY <1>1, AtChunk DEF Sending
  <2>3. QED BY <1>1, <2>1, <2>2 DEF InCommand, Calm, AtSend
<1>4. ASSUME Reading PROVE Replied' \/ Lost'
  <2>1. Working
    <3>1. fw.at \notin Stages \cup {"idle", "discard"} BY DEF Stages, AtWork
    <3>2. ~Sent BY <1>1, <1>4, <3>1, AtChunk DEF Sent
    <3>3. NextAt(What) \in Stages \cup {"idle"} BY <1>1, <1>4, AtChunk, WhatIs DEF TypeOK, NextAt, Stages
    <3>4. ~Replied /\ ~Lost /\ ~Ended BY <3>1, <3>3 DEF Replied, Lost, Ended
    <3>5. QED BY <1>1, <1>4, <3>2, <3>4 DEF InCommand
  <2>2. NextAt(fw.cmd) = NextAt(What) /\ (NextAt(What) # "idle" => fw.left + since <= Reply)
    BY <2>1 DEF Working, NextAt, Slow
  <2>3. Len(fwin) = 0 /\ fw.of = "own" /\ Noise(inbox) BY <2>1 DEF Working
  <2>4. fw'.at = NextAt(What)
    BY <2>2, AckedIs DEF At, Idle
  <2>5. fw'.at # "idle" => fw'.of = "own" /\ fw'.left = Full(fw'.at) /\ since <= Reply
    BY <1>2, <2>2, <2>3, <2>4, AckedIs DEF At
  <2>6. CASE inbox' = inbox
    <3>1. Full(NextAt(What)) \in Nat BY <1>2 DEF Full
    <3>2. QED BY <1>2, <2>3, <2>4, <2>5, <2>6, <3>1, SameCommand DEF Lost, Full
  <2>7. CASE inbox' = inbox \o Answers(Says, fw.of)
    <3>1. fw.cmd = What \/ (What = "payload" /\ fw.cmd = "stalled") BY <2>1 DEF Working
    <3>2. Says = IF What = "query" THEN <<"ack", "data">> ELSE <<"ack">>
      <4>1. What # "text" BY <1>1, <1>4, AtChunk
      <4>2. QED BY <3>1, <4>1 DEF Says
    <3>3. One(inbox', {"ack"}, What)
      BY <1>2, <2>3, <2>7, <3>2, OneNew, OneRead
    <3>4. QED BY <2>3, <2>4, <2>5, <3>3, SameCommand DEF Replied
  <2>8. QED BY <2>6, <2>7
<1>5. ASSUME TextDrain PROVE AtText'
  <2>1. Len(fwin) = 0 /\ fw.cmd = "text" BY <1>1, <1>5 DEF InCommand, AtText, Calm, AtWork
  <2>2. fw'.at = "idle" BY <2>1, AckedIs DEF NextAt, Idle
  <2>3. QED BY <2>1, <2>2 DEF AtText, Calm
<1>6. ASSUME pc = "close" PROVE AtClose'
  <2>1. Len(fwin) = 0 /\ fw.cmd = "token" /\ fw.left + since <= Reply /\ since <= IoTimeout
    BY <1>1, <1>6 DEF InCommand, AtClose, Calm, AtWork
  <2>2. fw' = At("header", "none", fw.of, HeaderGivesUp) BY <2>1, AckedIs DEF NextAt, Full
  <2>3. /\ fw'.at = "header" /\ fw'.left = HeaderGivesUp /\ Len(fwin') = 0
        /\ since' = since /\ since <= Reply
    BY <1>2, <2>1, <2>2, SameCommand DEF At
  <2>4. HeaderGivesUp <= HeaderGivesUp + since /\ HeaderGivesUp + since <= Reply + HeaderGivesUp
    BY <1>2, <2>3
  <2>5. QED BY <2>1, <2>3, <2>4 DEF AtClose
<1>7. Reading => since = still /\ still <= IoTimeout /\ (What = "payload" => JobCeiling <= due + since)
  BY <1>1 DEF InCommand
<1>8. QED BY <1>3, <1>4, <1>5, <1>6, <1>7, SameCommand DEF InCommand

\* A refusal, or the firmware's patience at its end, in a command.
LEMMA EndedInCommand ==
    ASSUME IInv, Reading, UNCHANGED <<client, clocks>>, fwin' = fwin, Len(fwin) = 0,
           \/ fw' = Idle
           \/ What = "header" /\ fw' = At("discard", "none", "old", Discard) /\ since <= Reply + Owed,
           fw.of = "own", Noise(inbox),
           NEW r \in {"fail", "timeout"}, inbox' = inbox \o Answers(<<r>>, fw.of)
    PROVE  InCommand'
<1>1. TypeOK /\ Steps /\ InCommand BY DEF IInv
<1>2. inbox \in Seq(Replies) /\ since \in Nat /\ Reply \in Nat /\ Owed \in Nat /\ Discard \in Nat
  BY <1>1, Waits DEF TypeOK
<1>3. One(inbox', {r}, What) BY <1>2, OneNew
<1>4. One(inbox', {"fail", "timeout"}, What)
  BY <1>3, OneWider
<1>5. Ended'
  <2>1. CASE fw' = Idle BY <1>4, <2>1, SameCommand DEF Ended, Idle
  <2>2. CASE What = "header" /\ fw' = At("discard", "none", "old", Discard) /\ since <= Reply + Owed
    BY <1>2, <1>4, <2>2, SameCommand DEF Ended, At
  <2>3. QED BY <2>1, <2>2
<1>6. ~InStep /\ ~Sending /\ ~(pc = "read" /\ IsData) /\ ~TextDrain /\ pc # "close"
  BY DEF Reading, InStep, Sending, TextDrain
<1>7. since = still /\ still <= IoTimeout /\ (What = "payload" => JobCeiling <= due + since)
  BY <1>1 DEF InCommand
<1>8. QED BY <1>5, <1>6, <1>7, SameCommand DEF InCommand

\* In a command a busy firmware is at work on the chunk it was sent.
LEMMA BusyInCommand ==
    ASSUME IInv, pc \notin {"idle", "resync"}, AtWork
    PROVE  /\ Len(fwin) = 0 /\ fw.cmd \notin {"zeros", "stray"}
           /\ \/ Reading /\ Working
              \/ TextDrain /\ fw.cmd = "text"
              \/ pc = "close" /\ fw.cmd = "token" /\ fw.at = "busy"
<1>1. TypeOK /\ Steps /\ InCommand BY DEF IInv
<1>2. fw.at \notin Stages \cup {"idle", "discard", "owed", "header"} BY DEF Stages, AtWork
<1>3. ~InStep BY <1>1, <1>2 DEF InCommand, Calm
<1>4. ~Sending
  <2>1. Sending => What \in Stages BY <1>1, AtChunk DEF Sending
  <2>2. QED BY <1>1, <1>2, <2>1 DEF InCommand, AtSend
<1>5. ~(pc = "read" /\ IsData) BY <1>1, <1>2 DEF InCommand, Calm
<1>6. CASE Reading
  <2>1. What \in Opening \cup Stages BY <1>1, <1>6, AtChunk
  <2>2. ~Sent BY <1>1, <1>2, <1>6, AtChunk DEF Sent
  <2>3. NextAt(What) \in Stages \cup {"idle"} BY <1>1, <1>6, AtChunk, WhatIs DEF TypeOK, NextAt, Stages
  <2>4. Working BY <1>1, <1>2, <1>6, <2>2, <2>3 DEF InCommand, Replied, Lost, Ended
  <2>5. fw.cmd = What \/ fw.cmd = "stalled" BY <2>4 DEF Working
  <2>6. fw.cmd \notin {"zeros", "stray"} BY <2>1, <2>5 DEF Opening, Stages
  <2>7. QED BY <1>6, <2>4, <2>6 DEF Working
<1>7. CASE TextDrain
  <2>1. AtText BY <1>1, <1>7 DEF InCommand
  <2>2. QED BY <1>2, <1>7, <2>1 DEF AtText, Calm
<1>8. CASE pc = "close"
  <2>1. AtClose BY <1>1, <1>8 DEF InCommand
  <2>2. QED BY <1>2, <1>8, <2>1 DEF AtClose, Calm, AtWork
<1>9. pc \in {"drain", "send", "read", "close"} /\ step \in Nat BY <1>1 DEF TypeOK
<1>10. pc = "drain" => InStep \/ TextDrain BY <1>1 DEF Steps, InStep, TextDrain
<1>11. pc = "send" => InStep \/ Sending
  <2>1. pc = "send" => step \in 1..Len(Chunks[kind]) BY <1>1 DEF Steps
  <2>2. step \in 1..Len(Chunks[kind]) => step = 1 \/ step > 1 BY <1>9
  <2>3. QED BY <2>1, <2>2 DEF InStep, Sending
<1>12. pc = "read" => Reading \/ (pc = "read" /\ IsData) BY DEF Reading
<1>13. QED BY <1>3, <1>4, <1>5, <1>6, <1>7, <1>8, <1>9, <1>10, <1>11, <1>12

\* With no command, in step, the firmware has nothing to do.
LEMMA RestInStep ==
    ASSUME IInv, pc \in {"idle", "resync"}, ~out
    PROVE  pc = "idle" /\ Calm /\ Noise(inbox)
BY DEF IInv, Steps, InCommand, InStep

\* A command's invariant is no concern of a link out of step.
LEMMA NoCommand ==
    ASSUME pc' \in {"idle", "resync"}, pc' = "idle" => out'
    PROVE  InCommand'
BY DEF InCommand, InStep, Sending, Reading, TextDrain

\* While a command goes on, the firmware's steps are those it waits for.
LEMMA FirmwareInCommand ==
    ASSUME IInv, UNCHANGED <<client, clocks>>,
           FwTakes \/ FwAnswers \/ FwRefusesZeros \/ FwRefuses \/ FwStalls \/ FwAnswerLost
           \/ FwGivesUp \/ FwDiscardEnds
    PROVE  InCommand'
<1>1. TypeOK /\ Steps /\ InCommand BY DEF IInv
<1>2. /\ fw \in Boards /\ fwin \in Seq(Bytes) /\ inbox \in Seq(Replies) /\ Len(fwin) \in Nat
      /\ fw.left \in Nat /\ since \in Nat /\ still \in Nat
      /\ Reply \in Nat /\ Owed \in Nat /\ Discard \in Nat /\ HeaderGivesUp \in Nat /\ IoTimeout \in Nat
      /\ Reply <= Owed /\ Owed > 0 /\ IoTimeout < HeaderGivesUp
  BY <1>1, Waits DEF TypeOK, Boards
<1>3. CASE pc \in {"idle", "resync"}
  <2>1. CASE out BY <1>3, <2>1, NoCommand DEF client
  <2>2. CASE ~out
    <3>1. Calm BY <1>3, <2>2, RestInStep
    <3>2. fw.at = "idle" /\ fwin = <<>> BY <1>2, <3>1, EmptyIs DEF Calm
    <3>3. FALSE
      BY <3>2 DEF FwTakes, FwAnswers, FwRefusesZeros, FwRefuses, FwStalls, FwAnswerLost,
                  FwGivesUp, FwDiscardEnds, AtWork, Stages
    <3>4. QED BY <3>3
  <2>3. QED BY <2>1, <2>2
<1>4. CASE pc \notin {"idle", "resync"}
  <2>1. CASE FwTakes BY <2>1, TakesInCommand
  <2>2. CASE FwAnswers
    <3>1. /\ AtWork /\ fw' = Acked /\ fwin' = fwin /\ fw.cmd \notin {"zeros", "stray"}
          /\ inbox' = inbox \o Answers(Says, fw.of)
      BY <2>2 DEF FwAnswers
    <3>2. QED BY <3>1, AckedInCommand
  <2>3. CASE FwRefusesZeros
    BY <1>4, <2>3, BusyInCommand DEF FwRefusesZeros, AtWork
  <2>4. CASE FwRefuses
    <3>1. /\ AtWork /\ fw' = Refused /\ fwin' = fwin /\ fw.cmd # "text"
          /\ inbox' = inbox \o Answers(<<"fail">>, fw.of)
      BY <2>4 DEF FwRefuses
    <3>2. CASE Reading
      <4>1. Working /\ Len(fwin) = 0 BY <1>4, <3>1, <3>2, BusyInCommand DEF Reading, TextDrain
      <4>2. fw.of = "own" /\ Noise(inbox) BY <4>1 DEF Working
      <4>3. fw.cmd = "header" => What = "header" /\ since <= Reply + Owed
        BY <1>2, <4>1 DEF Working, Slow
      <4>4. QED BY <3>1, <3>2, <4>1, <4>2, <4>3, EndedInCommand DEF Refused
    <3>3. CASE ~Reading
      <4>1. pc = "close" /\ fw.cmd = "token" /\ Len(fwin) = 0
        BY <1>4, <3>1, <3>3, BusyInCommand
      <4>2. fw' = Idle BY <3>1, <4>1 DEF Refused
      <4>3. since <= IoTimeout BY <1>1, <4>1 DEF InCommand, AtClose
      <4>4. AtClose' BY <3>1, <4>1, <4>2, <4>3, SameCommand DEF AtClose, Calm, Idle
      <4>5. QED BY <4>1, <4>4, SameCommand DEF InCommand, InStep, Sending, Reading, TextDrain
    <3>4. QED BY <3>2, <3>3
  <2>5. CASE FwStalls
    <3>1. fw.left = Reply /\ fwin' = fwin /\ inbox' = inbox /\ AtWork
      BY <2>5 DEF FwStalls, AtWork
    <3>2. CASE Reading
      <4>1. Working BY <1>4, <3>1, <3>2, BusyInCommand DEF Reading, TextDrain
      <4>2. fw.at \in {"busy", "job"} /\ fw.cmd # "stalled"
        BY <2>5 DEF FwStalls, Slow
      <4>3. /\ since = 0 /\ Len(fwin) = 0 /\ fw.of = "own" /\ Noise(inbox) /\ fw.cmd = What
            /\ fw.at = (IF What = "payload" THEN "job" ELSE "busy")
        BY <1>2, <3>1, <4>1, <4>2 DEF Working
      <4>4. Job + 0 <= Job /\ Late + 0 <= Late BY Waits
      <4>5. Working'
        <5>1. CASE What = "payload"
          <6>1. fw' = At("job", "stalled", "own", Job)
            BY <2>5, <4>3, <5>1 DEF FwStalls
          <6>2. QED BY <3>1, <4>3, <4>4, <5>1, <6>1, SameCommand DEF Working, At
        <5>2. CASE What # "payload"
          <6>1. fw' = At("late", What, "own", Late) /\ What \in Slow
            BY <2>5, <4>3, <5>2 DEF FwStalls
          <6>2. QED BY <3>1, <4>3, <4>4, <5>2, <6>1, SameCommand DEF Working, At
        <5>3. QED BY <5>1, <5>2
      <4>6. since = still /\ still <= IoTimeout /\ (What = "payload" => JobCeiling <= due + since)
        BY <1>1, <3>2 DEF InCommand
      <4>7. ~InStep /\ ~Sending /\ ~(pc = "read" /\ IsData) /\ ~TextDrain /\ pc # "close"
        BY <3>2 DEF Reading, InStep, Sending, TextDrain
      <4>8. QED BY <4>5, <4>6, <4>7, SameCommand DEF InCommand
    <3>3. CASE ~Reading
      <4>1. TextDrain /\ fw.cmd = "text" /\ Len(fwin) = 0
        BY <1>4, <2>5, <3>1, <3>3, BusyInCommand DEF FwStalls, Slow
      <4>2. fw.at = "busy" /\ kind # "ping" /\ fw' = At("late", "text", fw.of, Late)
        BY <2>5, <4>1 DEF FwStalls
      <4>3. kind = "reset" BY <1>1, <4>1, <4>2 DEF Steps, TextDrain
      <4>4. Unsaid /\ since = 0
        <5>1. AtText BY <1>1, <4>1 DEF InCommand
        <5>2. QED BY <1>2, <3>1, <4>2, <5>1 DEF AtText, Calm
      <4>5. Unsaid' BY <3>1, <4>4, SameCommand DEF Unsaid
      <4>6. Late + 0 <= Late BY Waits
      <4>7. AtText' BY <3>1, <4>1, <4>2, <4>3, <4>4, <4>5, <4>6, SameCommand DEF AtText, At
      <4>8. QED BY <4>1, <4>7, SameCommand DEF InCommand, InStep, Sending, Reading, TextDrain
    <3>4. QED BY <3>2, <3>3
  <2>6. CASE FwAnswerLost
    <3>1. /\ AtWork /\ fw' = Acked /\ fwin' = fwin /\ fw.cmd \notin {"zeros", "stray"}
          /\ inbox' = inbox
      BY <2>6 DEF FwAnswerLost
    <3>2. QED BY <3>1, AckedInCommand
  <2>7. CASE FwGivesUp
    <3>1. /\ fw.at \in {"owed"} \cup Stages /\ fw.left = 0 /\ fwin' = fwin /\ Len(fwin) = 0
          /\ fw' = IF fw.at \in {"header", "payload"} THEN At("discard", "none", "old", Discard) ELSE Idle
          /\ inbox' = inbox \o Answers(<<"timeout">>, fw.of)
      BY <1>2, <2>7 DEF FwGivesUp
    <3>2. fw.at \notin {"idle", "busy", "job", "late", "discard"} BY <3>1 DEF Stages
    <3>3. \A stage : Full(stage) > 0 BY <1>2 DEF Full
    <3>4. ~InStep /\ ~(pc = "read" /\ IsData) BY <1>1, <3>2 DEF InCommand, Calm
    <3>5. ~Sending BY <1>1, <3>1, <3>3 DEF InCommand, AtSend
    <3>6. ~TextDrain
      <4>1. TextDrain => AtText BY <1>1 DEF InCommand
      <4>2. QED BY <3>2, <4>1 DEF AtText, Calm
    <3>7. pc # "close"
      <4>1. pc = "close" => AtClose BY <1>1 DEF InCommand
      <4>2. QED BY <1>2, <3>1, <3>2, <4>1 DEF AtClose, Calm
    <3>8. ASSUME Reading PROVE InCommand'
      <4>1. Lost
        <5>1. ~Sent BY <3>1 DEF Sent
        <5>2. ~Working /\ ~Ended BY <3>2 DEF Working, Ended
        <5>3. ~Replied BY <3>1, <3>2, <3>3 DEF Replied
        <5>4. QED BY <1>1, <3>8, <5>1, <5>2, <5>3 DEF InCommand
      <4>2. fw.at = NextAt(What) /\ fw.of = "own" /\ Noise(inbox)
            /\ Full(fw.at) <= since /\ since <= Reply + Full(fw.at)
        BY <1>2, <3>1, <3>2, <4>1 DEF Lost, Full
      <4>3. fw.at # "header"
        <5>1. since <= IoTimeout BY <1>1, <3>8 DEF InCommand
        <5>2. QED BY <1>2, <4>2, <5>1 DEF Full
      <4>4. since <= Reply + Owed BY <4>2, <4>3 DEF Full
      <4>5. fw.at = "payload" => What = "header" BY <4>2 DEF NextAt
      <4>6. QED BY <3>1, <3>8, <4>2, <4>3, <4>4, <4>5, EndedInCommand
    <3>9. QED BY <3>4, <3>5, <3>6, <3>7, <3>8, SameCommand DEF InCommand
  <2>8. CASE FwDiscardEnds
    <3>1. fw.at = "discard" /\ Len(fwin) = 0 /\ fw' = Idle /\ fwin' = fwin /\ inbox' = inbox
      BY <1>2, <2>8 DEF FwDiscardEnds
    <3>2. fw.at \notin Stages \cup {"idle", "busy", "job", "late", "owed"} BY <3>1 DEF Stages
    <3>3. ~InStep /\ ~(pc = "read" /\ IsData) BY <1>1, <3>2 DEF InCommand, Calm
    <3>4. ~Sending
      <4>1. Sending => What \in Stages BY <1>1, AtChunk DEF Sending
      <4>2. QED BY <1>1, <3>2, <4>1 DEF InCommand, AtSend
    <3>5. ~TextDrain
      <4>1. TextDrain => AtText BY <1>1 DEF InCommand
      <4>2. QED BY <3>2, <4>1 DEF AtText, Calm
    <3>6. pc # "close"
      <4>1. pc = "close" => AtClose BY <1>1 DEF InCommand
      <4>2. QED BY <3>1, <3>2, <4>1 DEF AtClose, Calm
    <3>7. ASSUME Reading PROVE Ended'
      <4>1. Ended
        <5>1. NextAt(What) \in Stages \cup {"idle"} BY <1>1, <3>7, AtChunk, WhatIs DEF TypeOK, NextAt, Stages
        <5>2. ~Replied /\ ~Lost BY <3>2, <5>1 DEF Replied, Lost
        <5>3. ~Sent BY <3>1 DEF Sent
        <5>4. ~Working BY <3>1 DEF Working
        <5>5. QED BY <1>1, <3>7, <5>2, <5>3, <5>4 DEF InCommand
      <4>2. QED BY <3>1, <4>1, SameCommand DEF Ended, Idle
    <3>8. Reading => since = still /\ still <= IoTimeout /\ (What = "payload" => JobCeiling <= due + since)
  BY <1>1 DEF InCommand
    <3>9. QED BY <3>3, <3>4, <3>5, <3>6, <3>7, <3>8, SameCommand DEF InCommand
  <2>9. QED BY <2>1, <2>2, <2>3, <2>4, <2>5, <2>6, <2>7, <2>8
<1>5. QED BY <1>3, <1>4

\* The firmware's steps, the faulty ones too.
LEMMA FirmwareStep ==
    ASSUME IInv,
           FwTakes \/ FwAnswers \/ FwRefusesZeros \/ FwRefuses \/ FwStalls \/ FwAnswerLost
           \/ FwGivesUp \/ FwDiscardEnds
    PROVE  IInv'
<1>1. TypeOK BY DEF IInv
<1>2. UNCHANGED <<client, clocks>>
  BY DEF FwTakes, FwAnswers, FwRefusesZeros, FwRefuses, FwStalls, FwAnswerLost, FwGivesUp, FwDiscardEnds
<1>3. fw \in Boards /\ fwin \in Seq(Bytes) /\ inbox \in Seq(Replies) /\ fw.of \in Marks
  BY <1>1 DEF TypeOK, Boards
<1>4. fw' \in Boards
  <2>1. CASE FwTakes
    <3>1. fwin # <<>> /\ Listens /\ fw' = Takes(Head(fwin)) BY <2>1 DEF FwTakes
    <3>2. Head(fwin) \in Bytes BY <1>3, <3>1, TakeFirst
    <3>3. QED BY <1>1, <3>1, <3>2, FirmwareTypes
  <2>2. CASE ~FwTakes
    <3>1. \/ fw' = Acked \/ fw' = Refused \/ fw' = Idle \/ fw' = At("job", "stalled", fw.of, Job)
          \/ fw' = At("discard", "none", "old", Discard) \/ fw' = At("late", fw.cmd, fw.of, Late)
      BY <2>2 DEF FwAnswers, FwRefusesZeros, FwRefuses, FwStalls, FwAnswerLost, FwGivesUp, FwDiscardEnds
    <3>2. QED BY <1>1, <3>1, FirmwareTypes
  <2>3. QED BY <2>1, <2>2
<1>5. fwin' \in Seq(Bytes)
  <2>1. CASE FwTakes BY <1>3, <2>1, TakeFirst DEF FwTakes
  <2>2. CASE ~FwTakes
    BY <1>3, <2>2 DEF FwAnswers, FwRefusesZeros, FwRefuses, FwStalls, FwAnswerLost, FwGivesUp, FwDiscardEnds
  <2>3. QED BY <2>1, <2>2
<1>6. inbox' \in Seq(Replies)
  <2>1. \A r \in {"ack", "fail", "timeout", "text", "noise"} : inbox \o Answers(<<r>>, fw.of) \in Seq(Replies)
    BY <1>3, AnswersOne, Joined
  <2>2. inbox \o Answers(<<"ack", "data">>, fw.of) \in Seq(Replies)
    BY <1>3, AnswersTwo, Joined
  <2>3. CASE FwAnswers
    <3>1. Says \in {<<"text">>, <<"ack", "data">>, <<"ack">>} BY DEF Says
    <3>2. QED BY <2>1, <2>2, <2>3, <3>1 DEF FwAnswers
  <2>4. CASE ~FwAnswers
    BY <1>3, <2>1, <2>4 DEF FwTakes, FwRefusesZeros, FwRefuses, FwStalls, FwAnswerLost, FwGivesUp, FwDiscardEnds
  <2>5. QED BY <2>3, <2>4
<1>7. TypeOK' BY <1>1, <1>2, <1>4, <1>5, <1>6, SameCommand DEF TypeOK
<1>8. Steps' BY <1>2, SameCommand DEF IInv, Steps
<1>9. InCommand' BY <1>2, FirmwareInCommand
<1>10. OutOfStep' BY <1>2, <1>4, <1>5, FirmwareOutOfStep
<1>11. QED BY <1>7, <1>8, <1>9, <1>10 DEF IInv

\* Chatter changes nothing but the inbox.
LEMMA ChatterStep ==
    ASSUME IInv, Chatter
    PROVE  IInv'
<1>1. TypeOK /\ Steps /\ InCommand /\ OutOfStep BY DEF IInv
<1>2. /\ UNCHANGED <<client, clocks>> /\ fw' = fw /\ fwin' = fwin
      /\ inbox' = inbox \o Answers(<<"noise">>, "old") /\ inbox \in Seq(Replies)
  BY <1>1 DEF Chatter, TypeOK
<1>3. Answers(<<"noise">>, "old") \in Seq(Replies) /\ Len(Answers(<<"noise">>, "old")) = 1
      /\ Answers(<<"noise">>, "old")[1].rep = "noise"
  BY AnswersOne DEF Marks
<1>4. inbox' \in Seq(Replies) BY <1>2, <1>3, Joined
<1>5. TypeOK' BY <1>1, <1>2, <1>4, SameCommand DEF TypeOK
<1>6. Steps' BY <1>1, <1>2, SameCommand DEF Steps
<1>7. Noise(inbox) => Noise(inbox') BY <1>2, NoiseMore DEF Marks
<1>8. \A reps : One(inbox, reps, What) => One(inbox', reps, What) BY <1>2, OneMore DEF Marks
<1>9. Len(inbox) > 0 /\ Noise(Tail(inbox)) => Len(inbox') > 0 /\ Noise(Tail(inbox'))
  BY <1>2, NoiseBehind DEF Marks
<1>10. InCommand'
  <2>1. Reading /\ (Sent \/ Working \/ Replied \/ Lost \/ Ended) => (Sent \/ Working \/ Replied \/ Lost \/ Ended)'
    <3>1. Sent => Sent' BY <1>2, <1>7, SameCommand DEF Sent
    <3>2. Working => Working' BY <1>2, <1>7, SameCommand DEF Working
    <3>3. Replied => Replied' BY <1>2, <1>8, SameCommand DEF Replied
    <3>4. Lost => Lost' BY <1>2, <1>7, SameCommand DEF Lost
    <3>5. Ended => Ended' BY <1>2, <1>8, SameCommand DEF Ended
    <3>6. QED BY <3>1, <3>2, <3>3, <3>4, <3>5
  <2>2. AtText => AtText' BY <1>2, <1>7, SameCommand DEF AtText, Calm, Unsaid
  <2>3. AtClose => AtClose' BY <1>2, SameCommand DEF AtClose, Calm
  <2>4. AtSend => AtSend' BY <1>2, <1>7, SameCommand DEF AtSend
  <2>5. Calm => Calm' BY <1>2 DEF Calm
  <2>6. QED BY <1>1, <1>2, <1>7, <1>9, <2>1, <2>2, <2>3, <2>4, <2>5, SameCommand DEF InCommand
<1>11. OutOfStep' BY <1>1, <1>2, SameCommand DEF OutOfStep, Budget
<1>12. QED BY <1>5, <1>6, <1>10, <1>11 DEF IInv

\* Time passes.
LEMMA TickStep ==
    ASSUME IInv, Tick
    PROVE  IInv'
<1>1. TypeOK /\ Steps /\ InCommand /\ OutOfStep BY DEF IInv
<1>2. /\ UNCHANGED <<pc, kind, step, out, discards, win, got, fwin, inbox>>
      /\ ~FwMustAct /\ ~ClientMustAct
  BY DEF Tick
<1>3. /\ fw \in Boards /\ fwin \in Seq(Bytes) /\ inbox \in Seq(Replies)
      /\ fw.left \in Nat /\ Len(fwin) \in Nat
  BY <1>1 DEF TypeOK, Boards
<1>4. /\ fw' \in Boards /\ fw'.at = fw.at /\ fw'.cmd = fw.cmd /\ fw'.of = fw.of
      /\ fw'.left = IF fw.left = 0 THEN 0 ELSE fw.left - 1
  <2>1. fw' = [fw EXCEPT !.left = IF @ = 0 THEN 0 ELSE @ - 1] BY DEF Tick
  <2>2. QED BY <1>3, <2>1 DEF Boards
<1>c. /\ Reply \in Nat /\ Owed \in Nat /\ Discard \in Nat /\ HeaderGivesUp \in Nat /\ Job \in Nat
      /\ IoTimeout \in Nat /\ HeaderWait \in Nat /\ Quiet \in Nat /\ MinQuiet \in Nat
      /\ Late \in Nat /\ DeadQuiet \in Nat /\ DeadQuiet <= Quiet
      /\ Reply + HeaderGivesUp + Discard < HeaderWait /\ Quiet <= HeaderWait
      /\ Reply + Owed + Discard < Quiet /\ IoTimeout < HeaderGivesUp
  BY Waits
<1>t. /\ since \in Nat /\ since <= HeaderWait /\ still \in Nat /\ due \in Nat /\ win \in Nat
      /\ since' = IF since < HeaderWait THEN since + 1 ELSE since
      /\ still' = IF pc = "idle" THEN 0 ELSE still + 1
      /\ due' = IF due = 0 THEN 0 ELSE due - 1
  BY <1>1, <1>c DEF TypeOK, Tick
<1>n. since' \in Nat /\ since' <= HeaderWait /\ still' \in Nat /\ due' \in Nat
  BY <1>c, <1>t
<1>5. TypeOK' BY <1>1, <1>2, <1>4, <1>n DEF TypeOK
<1>6. Steps' /\ What' = What /\ (IsData' <=> IsData)
  BY <1>1, <1>2, <1>t DEF Steps, What, IsData
<1>7. pc \notin {"send", "close"} /\ (pc = "read" => Len(inbox) = 0 /\ still < IoTimeout)
  BY <1>2, <1>3, <1>t, <1>c, EmptyIs DEF ClientMustAct
<1>8. /\ fw.at # "idle" => fw.left > 0 /\ fw'.left = fw.left - 1
      /\ fw.at \in {"idle"} \cup Stages => Len(fwin) = 0
  BY <1>2, <1>3, <1>4, EmptyIs DEF FwMustAct, Listens
<1>9. InCommand'
  <2>1. InStep' => Calm' /\ Noise(inbox')
    BY <1>1, <1>2, <1>4 DEF InCommand, InStep, Calm
  <2>2. ASSUME Reading
        PROVE  since' = still' /\ still' <= IoTimeout /\ (Working \/ Lost)'
    <3>1. since = still /\ still < IoTimeout /\ still' = still + 1 /\ since' = since + 1
      BY <1>1, <1>7, <1>c, <1>t, <2>2 DEF InCommand, Reading
    <3>2. ~Replied /\ ~Ended BY <1>3, <1>7, <2>2 DEF Reading, Replied, Ended, One
    <3>3. ~Sent
      <4>1. Sent => fw.at \in {"idle"} \cup Stages BY <1>1, <2>2, AtChunk DEF Sent
      <4>2. Sent => Len(fwin) = 1 BY DEF Sent
      <4>3. QED BY <1>8, <4>1, <4>2
    <3>4. CASE Working
      <4>1. fw'.left + since' = fw.left + since BY <1>3, <1>8, <1>t, <3>1, <3>4 DEF Working
      <4>2. Working' BY <1>2, <1>4, <1>6, <3>4, <4>1 DEF Working
      <4>3. QED BY <1>c, <1>t, <3>1, <4>2
    <3>5. CASE Lost
      <4>1. ASSUME fw.at # "idle" PROVE fw'.left + since' = fw.left + since
        <5>1. fw'.left = fw.left - 1 BY <1>8, <4>1
        <5>2. fw.left \in Nat /\ since \in Nat /\ since' = since + 1 BY <1>3, <1>t, <3>1
        <5>3. QED BY <5>1, <5>2
      <4>2. Lost' BY <1>2, <1>4, <1>6, <3>5, <4>1 DEF Lost, Full
      <4>3. QED BY <1>c, <1>t, <3>1, <4>2
    <3>6. QED BY <1>1, <2>2, <3>2, <3>3, <3>4, <3>5 DEF InCommand
  <2>3. ASSUME TextDrain PROVE AtText'
    <3>1. AtText BY <1>1, <2>3 DEF InCommand
    <3>2. CASE Calm BY <1>2, <1>4, <3>2 DEF AtText, Calm
    <3>u. Unsaid => Unsaid' BY <1>2 DEF Unsaid
    <3>l. CASE /\ Len(fwin) = 0 /\ fw.at = "late" /\ fw.cmd = "text" /\ kind = "reset"
               /\ fw.left + since <= Late /\ Unsaid
      <4>1. since' <= since + 1 /\ fw'.left = fw.left - 1 /\ since' \in Nat
        BY <1>8, <1>c, <1>t, <1>n, <3>l
      <4>2. fw'.left + since' <= Late
        <5>1. fw.left \in Nat /\ since \in Nat /\ Late \in Nat /\ fw.left + since <= Late
          BY <1>3, <1>c, <1>t, <3>l
        <5>2. QED BY <4>1, <5>1
      <4>3. QED BY <1>2, <1>4, <3>l, <3>u, <4>2 DEF AtText
    <3>3. CASE /\ Len(fwin) = 0 /\ fw.at = "busy" /\ fw.cmd = "text"
               /\ fw.left + since <= Reply /\ fw.left + still <= Reply /\ Unsaid
      <4>1. fw.at = "busy" /\ fw.cmd = "text" /\ fw.left + since <= Reply /\ fw.left + still <= Reply
            /\ Len(fwin) = 0
        BY <3>3
      <4>2. still' = still + 1 /\ since' <= since + 1 /\ fw'.left = fw.left - 1
        BY <1>8, <1>c, <1>t, <2>3, <4>1 DEF TextDrain
      <4>3. since' \in Nat BY <1>n
      <4>4. fw'.left + since' <= Reply /\ fw'.left + still' <= Reply
        <5>1. fw.left \in Nat /\ since \in Nat /\ still \in Nat /\ Reply \in Nat
          BY <1>3, <1>c, <1>t
        <5>2. QED BY <4>1, <4>2, <4>3, <5>1
      <4>5. QED BY <1>2, <1>4, <3>3, <3>u, <4>1, <4>4 DEF AtText
    <3>4. QED
      <4>1. fw.at = "idle" => Len(fwin) = 0 BY <1>8
      <4>2. QED BY <3>1, <3>2, <3>3, <3>l, <4>1 DEF AtText, Calm
  <2>4. pc = "read" /\ IsData => Calm' /\ Len(inbox') > 0 /\ Noise(Tail(inbox'))
    BY <1>1, <1>2, <1>4 DEF InCommand, Calm
  <2>5. pc' # "close" /\ ~Sending' BY <1>2, <1>7 DEF Sending
  <2>6. (Reading' => Reading) /\ (TextDrain' => TextDrain)
    BY <1>2, <1>6 DEF Reading, TextDrain
  <2>7. Reading /\ What = "payload" => JobCeiling <= due' + since'
    <3>1. ASSUME Reading, What = "payload" PROVE JobCeiling <= due' + since'
      <4>1. JobCeiling <= due + since /\ JobCeiling \in Nat BY <1>1, <3>1, Waits DEF InCommand
      <4>2. since < HeaderWait BY <1>1, <1>7, <1>c, <1>t, <3>1 DEF InCommand, Reading
      <4>3. QED BY <1>t, <4>1, <4>2
    <3>2. QED BY <3>1
  <2>8. QED BY <1>2, <1>6, <2>1, <2>2, <2>3, <2>4, <2>5, <2>6, <2>7 DEF InCommand
<1>10. OutOfStep'
  <2>1. Budget \in Int /\ Budget' \in Int
    <3>1. since' \in Int /\ due' \in Int BY <1>n
    <3>2. Budget' \in Int
      <4>1. Budget' = Outlasted(discards, since', due') BY <1>2 DEF Budget
      <4>2. QED BY <1>1, <3>1, <4>1, OutlastedIs DEF TypeOK
    <3>3. QED BY <1>1, <3>2, LeftIs
  <2>2. ASSUME out PROVE Rests(fw', fwin', Budget')
    <3>1. Rests(fw', fwin', Budget - 1) BY <1>1, <2>1, <2>2, RestsTick DEF OutOfStep
    <3>2. CASE Budget - 1 <= Budget' BY <1>3, <1>4, <1>2, <2>1, <3>1, <3>2, RestsLonger
    <3>3. CASE ~(Budget - 1 <= Budget')
      <4>1. Budget < 1
        <5> DEFINE q == (IF discards THEN Quiet ELSE DeadQuiet) - 1
        <5>1. q \in Int /\ q <= HeaderWait - 1
          <6>1. CASE discards BY <1>c, <6>1
          <6>2. CASE ~discards BY <1>c, <6>2
          <6>3. QED BY <6>1, <6>2
        <5>2. Budget = IF q - since >= due - 1 THEN q - since ELSE due - 1
          BY DEF Budget, Outlasted
        <5>3. Budget' = IF q - since' >= due' - 1 THEN q - since' ELSE due' - 1
          BY <1>2 DEF Budget, Outlasted
        <5> HIDE DEF q
        <5>4. CASE since < HeaderWait /\ due > 0
          BY <1>c, <1>t, <2>1, <3>3, <5>1, <5>2, <5>3, <5>4
        <5>5. CASE since = HeaderWait BY <1>c, <1>t, <2>1, <3>3, <5>1, <5>2, <5>3, <5>5
        <5>6. CASE due = 0 /\ since < HeaderWait
          BY <1>c, <1>t, <2>1, <3>3, <5>1, <5>2, <5>3, <5>6
        <5>7. QED BY <1>c, <1>t, <5>4, <5>5, <5>6
      <4>2. fw'.at = "idle" /\ Len(fwin') = 0
        BY <2>1, <3>1, <4>1 DEF Rests
      <4>3. QED BY <4>2 DEF Rests
    <3>4. QED BY <3>2, <3>3
  <2>3. ASSUME pc = "resync" PROVE Rests(fw', fwin', (win' - still') - 1)
    <3>1. (win - still) - 1 \in Int /\ ((win - still) - 1) - 1 = (win' - still') - 1
      BY <1>2, <1>t, <2>3
    <3>2. Rests(fw', fwin', ((win - still) - 1) - 1) BY <1>1, <2>3, <3>1, RestsTick DEF OutOfStep
    <3>3. QED BY <3>1, <3>2
  <2>4. pc \in {"idle", "resync"} => fw'.of = "old" /\ \A i \in 1..Len(fwin') : fwin'[i].of = "old"
    BY <1>1, <1>2, <1>4 DEF OutOfStep
  <2>5. QED BY <1>2, <2>2, <2>3, <2>4 DEF OutOfStep
<1>11. QED BY <1>5, <1>6, <1>9, <1>10 DEF IInv

\* The waits, as a proof uses them.
LEMMA Waiting ==
    ASSUME TypeOK
    PROVE  /\ Reply \in Nat /\ Owed \in Nat /\ Discard \in Nat /\ HeaderGivesUp \in Nat /\ Job \in Nat
           /\ IoTimeout \in Nat /\ HeaderWait \in Nat /\ MinQuiet \in Nat /\ JobCeiling \in Nat
           /\ Late \in Nat
           /\ Reply < MinQuiet /\ Reply <= Owed /\ IoTimeout < HeaderGivesUp /\ Job < JobCeiling
           /\ Reply + HeaderGivesUp + Discard < HeaderWait
           /\ fw \in Boards /\ fwin \in Seq(Bytes) /\ inbox \in Seq(Replies)
           /\ fw.left \in Nat /\ Len(fwin) \in Nat
           /\ since \in Nat /\ since <= HeaderWait /\ still \in Nat /\ due \in Nat /\ win \in Nat
BY Waits DEF TypeOK, Boards

\* A read that fails leaves a firmware the resync outlasts, whatever it has
\* done of the chunk.
LEMMA FailedRead ==
    ASSUME IInv, Reading, What # "token", NEW n \in Int,
           n >= Reply + Owed - since, discards => n >= Reply + Owed + Discard - since,
           n >= Late - since, n >= due - 1
    PROVE  Rests(fw, fwin, n)
<1>1. TypeOK /\ Steps /\ InCommand BY DEF IInv
<1>2. /\ Reply \in Nat /\ Late \in Nat /\ Owed \in Nat /\ Discard \in Nat
      /\ Job \in Nat /\ JobCeiling \in Nat /\ Job < JobCeiling /\ fw.left \in Nat /\ Len(fwin) \in Nat /\ since \in Nat /\ due \in Nat
  BY <1>1, Waiting
<1>3. What \in Opening \cup Stages BY <1>1, AtChunk
<1>4. What \in {"header", "payload"} => discards
  BY <1>1, AtChunk, WhatIs DEF TypeOK, Steps, Reading
<1>5. /\ What = "header" => After(What) = Owed + Discard
      /\ What \in {"post", "open", "head"} => After(What) = Owed
      /\ What \notin {"header", "post", "open", "head"} => After(What) = 0
  BY DEF After
<1>6. What = "payload" => JobCeiling <= due + since BY <1>1 DEF InCommand
<1>n. /\ n + since >= Reply + Owed /\ n + since >= Late /\ n + since >= due - 1 + since
      /\ What \in {"header", "payload"} => n + since >= Reply + Owed + Discard
  BY <1>2, <1>4
<1>7. n + since >= Reply + After(What)
  BY <1>2, <1>5, <1>n
<1>8. CASE Sent
  <2>1. Len(fwin) = 1 /\ fwin[1].what = What /\ fwin[1].whole /\ since = 0 BY <1>8 DEF Sent, Chunk
  <2>2. n >= Reply + After(What) /\ n >= 0 /\ (What = "payload" => n >= Job) /\ n >= Late
    <3>1. After(What) \in Nat BY AfterIs
    <3>2. QED BY <1>2, <1>6, <1>7, <1>n, <2>1, <3>1
  <2>3. CASE step = 1
    <3>1. What \in Opening /\ fw.at = "idle" BY <1>1, <1>8, <2>3, AtChunk DEF Sent
    <3>2. QED BY <2>1, <2>2, <3>1 DEF Rests, RestsIdle
  <2>4. CASE step # 1
    <3>1. What \in Stages /\ fw.at = What BY <1>1, <1>8, <2>4, AtChunk DEF Sent
    <3>2. QED BY <2>1, <2>2, <3>1 DEF Rests, RestsStage
  <2>5. QED BY <2>3, <2>4
<1>9. CASE Working
  <2>1. CASE fw.at = "busy" /\ fw.cmd = What /\ fw.left + since <= Reply
    <3>1. /\ n >= fw.left + After(fw.cmd) /\ n >= 0
          /\ fw.left <= Reply /\ (fw.left = Reply => n >= Late)
      <4>1. After(What) \in Nat BY AfterIs
      <4>2. QED BY <1>2, <1>7, <1>n, <2>1, <4>1
    <3>2. QED BY <1>9, <2>1, <3>1 DEF Working, Rests, RestsBusy
  <2>2. CASE What = "payload" /\ fw.at = "job" /\ fw.cmd = What /\ fw.left + since <= Reply
    <3>1. n >= fw.left /\ n >= 0 /\ fw.left <= Reply /\ (fw.left = Reply => n >= Job)
      BY <1>2, <1>6, <1>n, <2>2
    <3>2. QED BY <1>9, <2>2, <3>1 DEF Working, Rests, RestsJob
  <2>3. CASE What = "payload" /\ fw.at = "job" /\ fw.cmd = "stalled" /\ fw.left + since <= Job
    <3>1. n >= fw.left /\ n >= 0
      BY <1>2, <1>6, <1>n, <2>3
    <3>2. QED BY <1>9, <2>3, <3>1 DEF Working, Rests, RestsJob
  <2>4. CASE What \in Slow /\ fw.at = "late" /\ fw.cmd = What /\ fw.left + since <= Late
    <3>1. n >= fw.left /\ n >= 0 BY <1>2, <1>n, <2>4
    <3>2. QED BY <1>9, <2>4, <3>1 DEF Working, Rests, RestsLate
  <2>5. QED BY <1>9, <2>1, <2>2, <2>3, <2>4 DEF Working
<1>10. CASE Replied \/ Lost
  <2>1. Len(fwin) = 0 /\ fw.at = NextAt(What) BY <1>10 DEF Replied, Lost
  <2>2. CASE fw.at = "idle" BY <2>1, <2>2 DEF Rests
  <2>3. CASE fw.at # "idle"
    <3>1. Full(fw.at) \in Nat BY <1>1, Waiting DEF Full
    <3>2. fw.left + since <= Reply + Full(fw.at)
      BY <1>2, <1>10, <2>3, <3>1 DEF Replied, Lost
    <3>3. fw.at \in {"payload", "head", "body"} /\ (fw.at = "payload" <=> What = "header")
      BY <2>1, <2>3 DEF NextAt
    <3>4. Full(fw.at) = Owed BY <3>3 DEF Full
    <3>5. Discards(fw.at) = IF What = "header" THEN Discard ELSE 0 BY <3>3 DEF Discards
    <3>6. n >= fw.left + Discards(fw.at) /\ n >= 0
      BY <1>2, <1>n, <3>2, <3>4, <3>5
    <3>7. QED BY <2>1, <3>3, <3>6 DEF Rests, RestsStage, Stages
  <2>4. QED BY <2>2, <2>3
<1>11. CASE Ended
  <2>1. CASE fw.at = "idle" BY <1>11, <2>1 DEF Ended, Rests
  <2>2. CASE fw.at = "discard"
    <3>1. What = "header" /\ fw.left + since <= Reply + Owed + Discard /\ Len(fwin) = 0
      BY <1>11, <2>2 DEF Ended
    <3>2. n >= fw.left /\ n >= 0 BY <1>2, <1>n, <3>1
    <3>3. QED BY <2>2, <3>1, <3>2 DEF Rests
  <2>3. QED BY <1>11, <2>1, <2>2 DEF Ended
<1>12. QED BY <1>1, <1>8, <1>9, <1>10, <1>11 DEF InCommand

\* What the firmware can be at when the token's reply is of no use.
LEMMA TokenFails ==
    ASSUME IInv, Reading, What = "token"
    PROVE  AtClose
<1>1. TypeOK /\ Steps /\ InCommand BY DEF IInv
<1>2. Reply \in Nat /\ HeaderGivesUp \in Nat /\ fw.left \in Nat /\ since \in Nat
  BY <1>1, Waiting
<1>3. step = 1 /\ What \in Opening BY <1>1, AtChunk, WhatIs DEF TypeOK
<1>4. since <= IoTimeout BY <1>1 DEF InCommand
<1>5. NextAt(What) = "header" /\ Full("header") = HeaderGivesUp BY DEF NextAt, Full
<1>6. CASE Sent BY <1>3, <1>4, <1>6 DEF Sent, Chunk, AtClose
<1>7. CASE Working
  <2>1. Len(fwin) = 0 /\ fw.at = "busy" /\ fw.cmd = "token" /\ fw.left + since <= Reply
    BY <1>7 DEF Working, Slow
  <2>2. QED BY <1>4, <2>1 DEF AtClose
<1>8. CASE Replied
  <2>1. Len(fwin) = 0 /\ fw.at = "header" /\ fw.left = HeaderGivesUp /\ since <= Reply
    BY <1>5, <1>8 DEF Replied
  <2>2. HeaderGivesUp <= fw.left + since /\ fw.left + since <= Reply + HeaderGivesUp BY <1>2, <2>1
  <2>3. QED BY <1>4, <2>1, <2>2 DEF AtClose
<1>9. CASE Lost BY <1>4, <1>5, <1>9 DEF Lost, AtClose
<1>10. CASE Ended
  <2>1. fw.at = "idle" /\ Len(fwin) = 0 BY <1>10 DEF Ended
  <2>2. QED BY <1>4, <2>1 DEF AtClose, Calm
<1>11. QED BY <1>1, <1>6, <1>7, <1>8, <1>9, <1>10 DEF InCommand

\* A command whose reply is of no use: it fails, or closes the token.
LEMMA NoUseStep ==
    ASSUME IInv, Reading, NEW q \in Seq(Replies), NoUse(q), UNCHANGED <<discards, since>>
    PROVE  IInv'
<1>1. TypeOK /\ Steps /\ InCommand BY DEF IInv
<1>2. CASE What = "token"
  <2>1. /\ pc' = "close" /\ inbox' = q
        /\ UNCHANGED <<kind, step, out, due, win, got, still, fw, fwin, discards, since>>
    BY <1>2 DEF NoUse
  <2>2. kind = "spans" /\ step = 1 /\ ~out /\ ~got
    BY <1>1, <1>2, AtChunk, WhatIs DEF TypeOK, Steps, Reading
  <2>3. TypeOK' BY <1>1, <2>1 DEF TypeOK
  <2>4. Steps' BY <2>1, <2>2 DEF Steps
  <2>5. AtClose' BY <1>2, <2>1, TokenFails DEF AtClose, Calm
  <2>6. InCommand' BY <2>1, <2>5 DEF InCommand, InStep, Sending, Reading, TextDrain
  <2>7. OutOfStep' BY <2>1, <2>2 DEF OutOfStep
  <2>8. QED BY <2>3, <2>4, <2>6, <2>7 DEF IInv
<1>3. CASE What # "token"
  <2>1. out' = TRUE /\ due' = due /\ Ends(fwin, q) BY <1>3 DEF NoUse, Fails
  <2>2. Budget' = Budget /\ Budget \in Int BY <1>1, <2>1, LeftIs DEF Budget, Outlasted
  <2>3. /\ Budget >= Reply + Owed - since /\ Budget >= Late - since /\ Budget >= due - 1
        /\ discards => Budget >= Reply + Owed + Discard - since
    <3>1. since \in Int /\ due \in Int /\ discards \in BOOLEAN BY <1>1 DEF TypeOK
    <3>2. QED BY <3>1, OutlastedIs DEF Budget
  <2>4. Rests(fw, fwin, Budget) BY <1>3, <2>2, <2>3, FailedRead
  <2>5. fwin \in Seq(Bytes) /\ due' \in Nat /\ since' \in 0..HeaderWait /\ discards' \in BOOLEAN
    BY <1>1, <2>1 DEF TypeOK
  <2>6. QED BY <1>1, <2>1, <2>2, <2>4, <2>5, EndsWell
<1>4. QED BY <1>2, <1>3

------------------------------------------------------------------------------
(* The client's steps.                                                        *)

\* What the wait of _resync is, on a link out of step.
LEMMA ResyncBegins ==
    ASSUME IInv, out, pc' = "resync", win' = Larger(Left, MinQuiet), still' = 0, kind' \in DOMAIN Chunks,
           step' \in Nat, got' = FALSE, UNCHANGED <<out, discards, due, since, fw, fwin>>, inbox' \in Seq(Replies)
    PROVE  IInv'
<1>1. TypeOK /\ OutOfStep /\ Steps BY DEF IInv
<1>2. Budget \in Int /\ win' \in Nat /\ win' > Budget BY <1>1, LeftIs
<1>3. TypeOK' BY <1>1, <1>2 DEF TypeOK
<1>4. Steps' BY <1>1 DEF Steps
<1>5. InCommand' BY DEF InCommand, InStep, Sending, Reading, TextDrain
<1>6. OutOfStep'
  <2>1. Rests(fw, fwin, Budget) /\ pc \in {"idle", "resync"}
    BY <1>1 DEF OutOfStep, Steps
  <2>2. fw \in Boards /\ fwin \in Seq(Bytes) BY <1>1 DEF TypeOK
  <2>3. (win' - still') - 1 \in Int /\ Budget <= (win' - still') - 1 BY <1>2
  <2>4. Rests(fw, fwin, (win' - still') - 1) BY <1>2, <2>1, <2>2, <2>3, RestsLonger
  <2>5. Budget' = Budget BY DEF Budget
  <2>6. QED BY <1>1, <2>1, <2>4, <2>5 DEF OutOfStep
<1>7. QED BY <1>3, <1>4, <1>5, <1>6 DEF IInv

\* A command that opens in step finds the firmware at its dispatcher.
LEMMA OpensWell ==
    ASSUME TypeOK, Calm, Noise(inbox), NEW k \in DOMAIN Chunks, Opens(k), kind' = k, out' = FALSE,
           got' = FALSE, discards' \in BOOLEAN, due' \in Nat, still' \in Nat, UNCHANGED <<since, board>>
    PROVE  IInv'
<1>1. MinQuiet \in Nat BY Waits
<1>2. fw' = fw /\ fwin' = fwin /\ inbox' = inbox BY DEF board
<1>3. CASE k \in {"file", "post", "drain"}
  <2>1. pc' = "drain" /\ win' = MinQuiet /\ step' = 0 BY <1>3 DEF Opens
  <2>2. TypeOK' BY <1>1, <1>2, <2>1 DEF TypeOK
  <2>3. Steps' BY <1>3, <2>1 DEF Steps
  <2>4. InCommand' BY <1>2, <2>1 DEF InCommand, InStep, Sending, Reading, TextDrain, Calm
  <2>5. OutOfStep' BY <2>1 DEF OutOfStep
  <2>6. QED BY <2>2, <2>3, <2>4, <2>5 DEF IInv
<1>4. CASE k \notin {"file", "post", "drain"}
  <2>1. pc' = "send" /\ win' = 0 /\ step' = 1 BY <1>4 DEF Opens
  <2>2. TypeOK' BY <1>2, <2>1 DEF TypeOK
  <2>3. 1 \in 1..Len(Chunks[k])
    <3>1. k \in {"write", "read", "reset", "ping", "spans"} BY <1>4 DEF Chunks
    <3>2. QED BY <3>1 DEF Chunks
  <2>4. Steps' BY <1>4, <2>1, <2>3 DEF Steps
  <2>5. InCommand' BY <1>2, <2>1 DEF InCommand, InStep, Sending, Reading, TextDrain, Calm
  <2>6. OutOfStep' BY <2>1 DEF OutOfStep
  <2>7. QED BY <2>2, <2>4, <2>5, <2>6 DEF IInv
<1>5. QED BY <1>3, <1>4

\* A command begins, on a link in step or out of it.
LEMMA BeginStep ==
    ASSUME IInv, NEW k \in Kinds, Begin(k)
    PROVE  IInv'
<1>1. TypeOK /\ Steps /\ InCommand BY DEF IInv
<1>2. k \in DOMAIN Chunks BY Waits
<1>3. /\ pc = "idle" /\ kind' = k /\ still = 0 /\ got' = FALSE
      /\ UNCHANGED <<out, discards, due, since, still, fw, fwin, inbox, board>>
  BY <1>1 DEF Begin, clocks, board, Steps, TypeOK
<1>4. CASE out
  <2>1. pc' = "resync" /\ win' = Larger(Left, MinQuiet) /\ step' = 0 BY <1>4 DEF Begin
  <2>2. still' = 0 /\ step' \in Nat /\ inbox' \in Seq(Replies) BY <1>1, <1>3, <2>1 DEF TypeOK
  <2>3. QED BY <1>2, <1>3, <1>4, <2>1, <2>2, ResyncBegins
<1>5. CASE ~out
  <2>1. Opens(k) BY <1>5 DEF Begin
  <2>2. Calm /\ Noise(inbox) BY <1>1, <1>3, <1>5 DEF InCommand, InStep
  <2>3. out' = FALSE BY <1>1, <1>3, <1>5 DEF TypeOK
  <2>4. discards' \in BOOLEAN /\ due' \in Nat /\ still' \in Nat BY <1>1, <1>3 DEF TypeOK
  <2>5. QED BY <1>1, <1>2, <1>3, <2>1, <2>2, <2>3, <2>4, OpensWell
<1>6. QED BY <1>4, <1>5

\* The resync ends, is capped or cut: only its end takes the link to be in step,
\* and by then the firmware rests.
LEMMA ResyncStep ==
    ASSUME IInv, ResyncEnds \/ ResyncCapped \/ ResyncCut
    PROVE  IInv'
<1>1. TypeOK /\ Steps /\ InCommand /\ OutOfStep BY DEF IInv
<1>2. pc = "resync" /\ out /\ got = FALSE /\ Rests(fw, fwin, Budget) /\ Rests(fw, fwin, (win - still) - 1)
  BY <1>1 DEF ResyncEnds, ResyncCapped, ResyncCut, Steps, OutOfStep, TypeOK
<1>3. /\ fwin \in Seq(Bytes) /\ inbox \in Seq(Replies) /\ <<>> \in Seq(Replies)
      /\ kind \in DOMAIN Chunks /\ win \in Nat /\ still \in Nat
  BY <1>1 DEF TypeOK
<1>4. CASE ResyncEnds
  <2>1. /\ still >= win /\ Opens(kind) /\ kind' = kind /\ inbox = <<>>
        /\ out' = FALSE /\ discards' = FALSE /\ due' = 0 /\ still' = 0 /\ got' = FALSE
        /\ UNCHANGED <<since, board>>
    BY <1>2, <1>4 DEF ResyncEnds
  <2>2. ~((win - still) - 1 >= 0) BY <1>3, <2>1
  <2>3. Calm BY <1>2, <2>2 DEF Rests, Calm
  <2>4. Noise(inbox) BY <2>1 DEF Noise
  <2>5. discards' \in BOOLEAN /\ due' \in Nat /\ still' \in Nat BY <2>1
  <2>6. QED BY <1>1, <1>3, <2>1, <2>3, <2>4, <2>5, OpensWell
<1>5. ASSUME NEW r \in Seq(Replies), Ends(fwin, r), UNCHANGED <<out, discards, due, since>>
      PROVE  IInv'
  <2>1. out' \in BOOLEAN /\ discards' \in BOOLEAN /\ since' \in 0..HeaderWait /\ due' \in Nat
    BY <1>1, <1>5 DEF TypeOK
  <2>2. Budget' = Budget BY <1>5 DEF Budget
  <2>3. out' /\ Rests(fw, fwin, Budget') BY <1>2, <1>5, <2>2
  <2>4. QED BY <1>1, <1>3, <1>5, <2>1, <2>3, EndsWell
<1>6. CASE ResyncCapped
  <2>1. UNCHANGED <<out, discards, due, since>> BY <1>6 DEF ResyncCapped
  <2>2. CASE past BY <1>3, <1>5, <1>6, <2>1, <2>2 DEF ResyncCapped
  <2>3. CASE ~past
    <3>1. /\ pc' = "resync" /\ win' = Larger(Left, MinQuiet) /\ still' = 0 /\ kind' = kind
          /\ UNCHANGED <<step, fw, fwin>> /\ inbox' = <<>> /\ got' = FALSE
      BY <1>2, <1>6, <2>3 DEF ResyncCapped
    <3>2. step' \in Nat BY <1>1, <3>1 DEF TypeOK
    <3>3. QED BY <1>2, <1>3, <2>1, <3>1, <3>2, ResyncBegins
  <2>4. QED BY <2>2, <2>3
<1>7. CASE ResyncCut BY <1>3, <1>5, <1>7 DEF ResyncCut
<1>8. QED BY <1>4, <1>6, <1>7

\* A drain: of a link out of step, before a file command, or of a line of text.
LEMMA TextRests ==
    ASSUME IInv, TextDrain, NEW n \in Int, n >= Reply - since, n >= Late - since
    PROVE  Rests(fw, fwin, n)
<1>1. TypeOK /\ AtText BY DEF IInv, InCommand
<1>2. /\ Reply \in Nat /\ Late \in Nat /\ fw.left \in Nat
      /\ since \in Nat /\ Len(fwin) \in Nat BY <1>1, Waiting
<1>3. CASE Calm BY <1>3 DEF Calm, Rests
<1>4. CASE Len(fwin) = 1 /\ fwin[1] = Chunk("text", TRUE) /\ fw.at = "idle" /\ since = 0
  <2>1. fwin[1].what = "text" /\ fwin[1].whole BY <1>4 DEF Chunk
  <2>2. fwin[1].what \in Opening /\ After(fwin[1].what) = 0 BY <2>1, AfterIs DEF Opening
  <2>3. n >= 0 /\ n >= Reply /\ Reply + 0 = Reply /\ n >= Late BY <1>2, <1>4
  <2>4. QED BY <1>4, <2>1, <2>2, <2>3 DEF Rests, RestsIdle
<1>5. CASE Len(fwin) = 0 /\ fw.at = "busy" /\ fw.cmd = "text" /\ fw.left + since <= Reply
  <2>1. After("text") = 0 BY AfterIs
  <2>2. n >= fw.left /\ n >= 0 /\ fw.left <= Reply /\ (fw.left = Reply => n >= Late)
    BY <1>2, <1>5
  <2>3. QED BY <1>2, <1>5, <2>1, <2>2 DEF Rests, RestsBusy
<1>6. CASE Len(fwin) = 0 /\ fw.at = "late" /\ fw.cmd = "text" /\ fw.left + since <= Late
  <2>1. n >= fw.left /\ n >= 0 BY <1>2, <1>6
  <2>2. QED BY <1>6, <2>1 DEF Rests, RestsLate, Slow
<1>7. QED BY <1>1, <1>3, <1>4, <1>5, <1>6 DEF AtText

\* A drain reads what came.
LEMMA DrainTakesStep ==
    ASSUME IInv, DrainTakes
    PROVE  IInv'
<1>1. TypeOK /\ Steps /\ InCommand /\ OutOfStep BY DEF IInv
<1>2. /\ pc \in {"resync", "drain"} /\ inbox' = <<>> /\ still' = 0
      /\ UNCHANGED <<pc, kind, step, out, discards, due, win, since, fw, fwin>>
  BY DEF DrainTakes
<1>3. /\ fw \in Boards /\ fwin \in Seq(Bytes) /\ win \in Nat /\ still \in Nat
      /\ fw.left \in Nat /\ Reply \in Nat
  BY <1>1, Waiting
<1>g. \/ pc = "resync" /\ UNCHANGED got
      \/ pc = "drain" /\ got' = (got \/ Answered)
  BY <1>2 DEF DrainTakes
<1>4. TypeOK'
  <2>1. got \in BOOLEAN BY <1>1 DEF TypeOK
  <2>2. got' \in BOOLEAN BY <1>g, <2>1
  <2>3. QED BY <1>1, <1>2, <2>2 DEF TypeOK
<1>5. Steps' BY <1>1, <1>2, <1>g DEF Steps
<1>6. InCommand'
  <2>1. Noise(inbox') BY <1>2 DEF Noise
  <2>2. InStep' => Calm' BY <1>1, <1>2 DEF InCommand, InStep, Calm
  <2>3. TextDrain' => AtText'
    <3>1. TextDrain' => AtText BY <1>1, <1>2 DEF InCommand, TextDrain
    <3>2. fw.left + still <= Reply => fw.left + still' <= Reply BY <1>2, <1>3
    <3>n. kind = "reset" /\ Noise(inbox) => ~Answered
      <4>1. DOMAIN inbox = 1..Len(inbox) BY <1>1 DEF TypeOK
      <4>2. QED BY <4>1 DEF Answered, Noise
    <3>u. Unsaid => Unsaid' BY <1>2, <1>g, <2>1, <3>n DEF Unsaid
    <3>3. AtText => AtText' BY <1>2, <3>2, <3>u DEF AtText, Calm
    <3>4. QED BY <3>1, <3>3
  <2>4. QED BY <1>2, <2>1, <2>2, <2>3 DEF InCommand, Sending, Reading
<1>7. OutOfStep'
  <2>1. Budget' = Budget BY <1>2 DEF Budget
  <2>2. ASSUME pc = "resync" PROVE Rests(fw', fwin', (win' - still') - 1)
    <3>1. (win - still) - 1 \in Int /\ (win' - still') - 1 \in Int /\ (win - still) - 1 <= (win' - still') - 1
      BY <1>2, <1>3
    <3>2. QED BY <1>1, <1>2, <1>3, <2>2, <3>1, RestsLonger DEF OutOfStep
  <2>3. QED BY <1>1, <1>2, <2>1, <2>2 DEF OutOfStep
<1>8. QED BY <1>4, <1>5, <1>6, <1>7 DEF IInv

\* A drain ends, is capped or cut.
LEMMA DrainStep ==
    ASSUME IInv, DrainEnds \/ DrainCapped \/ DrainCut
    PROVE  IInv'
<1>1. TypeOK /\ Steps /\ InCommand BY DEF IInv
<1>2. pc = "drain" /\ ~out /\ UNCHANGED <<discards, since>>
  BY <1>1 DEF DrainEnds, DrainCapped, DrainCut, Steps
<1>3. /\ fwin \in Seq(Bytes) /\ inbox \in Seq(Replies) /\ kind \in DOMAIN Chunks
      /\ discards' \in BOOLEAN /\ since' \in 0..HeaderWait /\ due \in Nat
  BY <1>1, <1>2 DEF TypeOK
<1>c. /\ Reply \in Nat /\ Owed \in Nat /\ Discard \in Nat /\ MinQuiet \in Nat /\ Reply < MinQuiet
      /\ since \in Nat /\ still \in Nat /\ fw.left \in Nat /\ Len(fwin) \in Nat
  BY <1>1, Waiting
<1>4. \/ InStep /\ step = 0 /\ kind \in {"file", "post", "drain"}
      \/ TextDrain /\ kind \in {"reset", "ping"} /\ win = MinQuiet
  BY <1>1, <1>2 DEF Steps, InStep, TextDrain
<1>5. InStep => Calm /\ Noise(inbox) BY <1>1 DEF InCommand
<1>6. ASSUME due' \in Nat
      PROVE  Budget' \in Int /\ Budget' >= Reply - since /\ Budget' >= Late - since
  <2>1. Reply \in Nat /\ Owed \in Nat /\ Discard \in Nat /\ since' = since BY <1>2, <1>c
  <2>2. since' \in Int /\ due' \in Int BY <1>6, <1>c, <2>1
  <2>3. /\ Budget' \in Int /\ Budget' >= Reply + Owed - since'
        /\ Budget' >= Late - since'
    BY <1>3, <2>2, OutlastedIs DEF Budget
  <2>4. QED BY <1>c, <2>1, <2>3
<1>7. ASSUME due' \in Nat PROVE Rests(fw, fwin, Budget')
  <2>1. CASE InStep BY <1>5, <2>1 DEF Calm, Rests
  <2>2. CASE TextDrain BY <1>6, <1>7, <2>2, TextRests
  <2>3. QED BY <1>4, <2>1, <2>2
<1>8. CASE DrainCut
  <2>1. out' = TRUE /\ due' = due /\ Ends(fwin, inbox) BY <1>8 DEF DrainCut, Fails
  <2>2. QED BY <1>1, <1>3, <1>7, <2>1, EndsWell
<1>9. ASSUME NEW capped \in BOOLEAN, DrainIsOver(capped),
             TextDrain /\ ~capped /\ got => Calm /\ Noise(inbox)
      PROVE  IInv'
  <2>1. CASE kind \in {"file", "post"}
    <3>1. /\ pc' = "send" /\ step' = 1 /\ win' = 0 /\ still' = 0 /\ got' = FALSE
          /\ UNCHANGED <<kind, out, due, fw, fwin, inbox>>
      BY <1>9, <2>1 DEF DrainIsOver, board
    <3>2. Calm /\ Noise(inbox) BY <1>4, <1>5, <2>1
    <3>3. TypeOK' BY <1>1, <1>2, <3>1 DEF TypeOK
    <3>4. 1 \in 1..Len(Chunks[kind]) BY <2>1 DEF Chunks
    <3>5. Steps' BY <1>2, <2>1, <3>1, <3>4 DEF Steps
    <3>6. InCommand' BY <3>1, <3>2 DEF InCommand, InStep, Sending, Reading, TextDrain, Calm
    <3>7. OutOfStep' BY <1>2, <3>1 DEF OutOfStep
    <3>8. QED BY <3>3, <3>5, <3>6, <3>7 DEF IInv
  <2>2. CASE kind = "drain"
    <3>1. out' = out /\ due' = 0 /\ Ends(fwin, inbox) BY <1>9, <2>2 DEF DrainIsOver, Completes
    <3>2. out' \in BOOLEAN /\ due' \in Nat BY <1>1, <3>1 DEF TypeOK
    <3>3. fw.at = "idle" /\ Len(fwin) = 0 /\ Noise(inbox) BY <1>4, <1>5, <2>2 DEF Calm
    <3>4. QED BY <1>1, <1>2, <1>3, <3>1, <3>2, <3>3, EndsWell
  <2>3. CASE kind \in {"reset", "ping"}
    <3>1. out' = (capped \/ ~got) /\ due' = 0 /\ Ends(fwin, inbox) BY <1>9, <2>3 DEF DrainIsOver, Completes
    <3>2. out' \in BOOLEAN /\ due' \in Nat BY <3>1
    <3>3. ~out' => fw.at = "idle" /\ Len(fwin) = 0 /\ Noise(inbox)
      BY <1>4, <1>9, <2>3, <3>1 DEF Calm
    <3>4. QED BY <1>1, <1>3, <1>7, <3>1, <3>2, <3>3, EndsWell
  <2>4. QED BY <1>4, <2>1, <2>2, <2>3
<1>10. CASE DrainEnds
  <2>1. inbox = <<>> /\ still >= win /\ DrainIsOver(FALSE) BY <1>10 DEF DrainEnds
  <2>2. Noise(inbox) BY <2>1 DEF Noise
  <2>3. TextDrain /\ got => Calm
    <3>1. TextDrain => still > Reply /\ still > 0 BY <1>4, <1>c, <2>1 DEF InStep, TextDrain
    <3>2. ~(fw.left + still <= Reply /\ still > Reply) BY <1>c
    <3>3. TextDrain => AtText BY <1>1 DEF InCommand
    <3>4. ~(still = 0 /\ still > 0) BY <1>c
    <3>5. QED BY <3>1, <3>2, <3>3, <3>4, Zenon DEF AtText, Unsaid
  <2>4. QED BY <1>9, <2>1, <2>2, <2>3
<1>11. CASE DrainCapped BY <1>9, <1>11 DEF DrainCapped
<1>12. QED BY <1>8, <1>10, <1>11

\* A chunk goes out whole, to a firmware that waits for it.
LEMMA SendStep ==
    ASSUME IInv, Send
    PROVE  IInv'
<1>1. TypeOK /\ Steps /\ InCommand BY DEF IInv
<1>2. /\ pc = "send" /\ fwin' = Append(fwin, Chunk(What, TRUE)) /\ since' = 0 /\ still' = 0
      /\ pc' = IF What = "text" THEN "drain" ELSE "read"
      /\ win' = IF What = "text" THEN MinQuiet ELSE 0
      /\ due' = CASE What = "header" -> 0 [] What = "payload" -> JobCeiling [] OTHER -> due
      /\ UNCHANGED <<kind, step, out, discards, fw, inbox>> /\ got' = FALSE
  BY <1>1 DEF Send, Steps, TypeOK
<1>c. /\ fwin \in Seq(Bytes) /\ MinQuiet \in Nat /\ JobCeiling \in Nat /\ due \in Nat /\ step \in Nat
      /\ IoTimeout \in Nat /\ HeaderWait \in Nat
  BY <1>1, Waiting DEF TypeOK
<1>3. step \in 1..Len(Chunks[kind]) /\ ~IsData /\ What \in Opening \cup Stages
  BY <1>1, <1>2, AtChunk
<1>4. /\ What = "text" <=> kind \in {"reset", "ping"}
      /\ What = "text" => step = 1
      /\ What = "payload" => What # "text"
  BY <1>1, <1>2, <1>3, AtChunk, WhatIs DEF TypeOK, Stages
<1>5. /\ Len(fwin) = 0 /\ Noise(inbox)
      /\ IF step = 1 THEN fw.at = "idle" ELSE fw.at = What /\ fw.of = "own"
  <2>1. CASE step = 1 BY <1>1, <1>2, <2>1 DEF InCommand, InStep, Calm
  <2>2. CASE step # 1
    <3>1. Sending BY <1>2, <1>3, <1>c, <2>2 DEF Sending
    <3>2. QED BY <1>1, <2>2, <3>1 DEF InCommand, AtSend
  <2>3. QED BY <2>1, <2>2
<1>6. Chunk(What, TRUE) \in Bytes BY <1>3 DEF Chunk, Bytes, Marks
<1>7. fwin' \in Seq(Bytes) /\ Len(fwin') = 1 /\ fwin'[1] = Chunk(What, TRUE)
  <2>1. /\ Append(fwin, Chunk(What, TRUE)) \in Seq(Bytes)
        /\ Len(Append(fwin, Chunk(What, TRUE))) = Len(fwin) + 1
        /\ Append(fwin, Chunk(What, TRUE))[Len(fwin) + 1] = Chunk(What, TRUE)
    BY <1>6, <1>c, AddLast
  <2>2. Len(fwin) + 1 = 1 BY <1>5
  <2>3. QED BY <1>2, <2>1, <2>2
<1>8. What' = What /\ (IsData' <=> IsData) BY <1>2 DEF What, IsData
<1>9. TypeOK'
  <2>1. due' \in Nat BY <1>2, <1>c
  <2>2. since' \in 0..HeaderWait BY <1>2, <1>c
  <2>3. QED BY <1>1, <1>2, <1>c, <1>7, <2>1, <2>2 DEF TypeOK
<1>10. Steps' BY <1>1, <1>2, <1>3, <1>4, <1>8 DEF Steps
<1>11. InCommand'
  <2>1. CASE What = "text"
    <3>1. pc' = "drain" /\ step' = 1 BY <1>2, <1>4, <2>1
    <3>u. Unsaid' BY <1>2, <1>5 DEF Unsaid
    <3>2. AtText' BY <1>2, <1>4, <1>5, <1>7, <2>1, <3>u DEF AtText
    <3>3. QED BY <3>1, <3>2 DEF InCommand, InStep, Sending, Reading
  <2>2. CASE What # "text"
    <3>1. pc' = "read" BY <1>2, <2>2
    <3>2. Sent' BY <1>2, <1>5, <1>7, <1>8 DEF Sent
    <3>3. What = "payload" => JobCeiling <= due' + since' BY <1>2, <1>c
    <3>4. since' = still' /\ still' <= IoTimeout BY <1>2, <1>c
    <3>5. QED BY <1>3, <1>8, <3>1, <3>2, <3>3, <3>4 DEF InCommand, InStep, Sending, TextDrain
  <2>3. QED BY <2>1, <2>2
<1>12. OutOfStep'
  <2>1. ~out' /\ pc' \notin {"idle", "resync"} BY <1>1, <1>2 DEF Steps
  <2>2. QED BY <2>1 DEF OutOfStep
<1>13. QED BY <1>9, <1>10, <1>11, <1>12 DEF IInv

\* A queue with one chunk more.
LEMMA OneSent ==
    ASSUME NEW p \in Seq(Bytes), NEW c \in Bytes, NEW q, q = p \o <<c>> \/ q = Append(p, c)
    PROVE  /\ q \in Seq(Bytes) /\ Len(q) = Len(p) + 1 /\ q[Len(p) + 1] = c
           /\ \A i \in 1..Len(p) : q[i] = p[i]
<1>1. CASE q = p \o <<c>>
  <2>1. <<c>> \in Seq(Bytes) /\ Len(<<c>>) = 1 /\ <<c>>[1] = c OBVIOUS
  <2>2. QED BY <1>1, <2>1, JoinedOne
<1>2. CASE q = Append(p, c) BY <1>2, AddLast
<1>3. QED BY <1>1, <1>2

\* A chunk that is cut, nothing of it sent, or the start, or all.
LEMMA SendCutStep ==
    ASSUME IInv, SendCut, CutBehindPayload = FALSE
    PROVE  IInv'
<1>1. TypeOK /\ Steps /\ InCommand BY DEF IInv
<1>2. PICK os \in BOOLEAN, q \in {<<>>, <<Chunk(What, FALSE)>>, <<Chunk(What, TRUE)>>} :
         /\ q = <<Chunk(What, TRUE)>> => ~os /\ (What # "payload" \/ CutBehindPayload)
         /\ IF What = "token"
            THEN /\ pc' = "close" /\ failed' = os /\ fwin' = fwin \o q
                 /\ UNCHANGED <<kind, step, out, dead, heard, due, win, past, got, last, still, fw, inbox>>
            ELSE Fails(os, DueIfCut) /\ Ends(fwin \o q, inbox)
  BY DEF SendCut
<1>3. pc = "send" /\ since' = 0 /\ discards' = discards /\ ~out /\ ~got
  BY <1>1 DEF SendCut, Steps
<1>c. /\ Reply \in Nat /\ Owed \in Nat /\ Discard \in Nat /\ HeaderGivesUp \in Nat /\ Job \in Nat
      /\ HeaderWait \in Nat /\ IoTimeout \in Nat /\ Late \in Nat /\ Reply <= Owed
      /\ Reply + HeaderGivesUp + Discard < HeaderWait
      /\ fwin \in Seq(Bytes) /\ inbox \in Seq(Replies) /\ fw \in Boards /\ fw.left \in Nat
      /\ since \in Nat /\ due \in Nat /\ step \in Nat
  BY <1>1, Waiting DEF TypeOK
<1>4. step \in 1..Len(Chunks[kind]) /\ ~IsData /\ What \in Opening \cup Stages
  BY <1>1, <1>3, AtChunk
<1>5. /\ step = 1 => What \in Opening /\ Calm
      /\ step # 1 => What \in Stages /\ AtSend
      /\ Len(fwin) = 0 /\ Noise(inbox)
  <2>1. CASE step = 1 BY <1>1, <1>3, <2>1, AtChunk DEF InCommand, InStep, Calm
  <2>2. CASE step # 1
    <3>1. Sending BY <1>3, <1>4, <1>c, <2>2 DEF Sending
    <3>2. QED BY <1>1, <1>3, <2>2, <3>1, AtChunk DEF InCommand, AtSend
  <2>3. QED BY <2>1, <2>2
<1> DEFINE f == fwin \o q
<1>6. /\ f \in Seq(Bytes) /\ Len(f) \in {0, 1}
      /\ Len(f) = 1 => f[1].what = What /\ f[1].of = "own" /\ f[1].whole \in BOOLEAN
                     /\ (f[1].whole => What # "payload")
  <2>1. \A w \in BOOLEAN : /\ Chunk(What, w) \in Bytes /\ Chunk(What, w).what = What
                           /\ Chunk(What, w).of = "own" /\ Chunk(What, w).whole = w
    BY <1>4 DEF Chunk, Bytes, Marks
  <2>f. Len(fwin) + 1 = 1 BY <1>5
  <2>2. CASE q = <<>>
    <3>1. f = fwin BY <1>c, <2>2
    <3>2. QED BY <1>5, <1>c, <3>1
  <2>3. CASE q = <<Chunk(What, FALSE)>>
    <3>1. f \in Seq(Bytes) /\ Len(f) = 1 /\ f[1] = Chunk(What, FALSE)
      <4> DEFINE c == Chunk(What, FALSE)
      <4>1. c \in Bytes /\ f = fwin \o <<c>> BY <2>1, <2>3
      <4> HIDE DEF f, c
      <4>2. f \in Seq(Bytes) /\ Len(f) = Len(fwin) + 1 /\ f[Len(fwin) + 1] = c
        BY <1>c, <4>1, OneSent
      <4>3. f \in Seq(Bytes) /\ Len(f) = 1 /\ f[1] = c BY <2>f, <4>2
      <4>4. QED BY <4>3 DEF c
    <3>2. QED BY <2>1, <3>1
  <2>4. CASE q = <<Chunk(What, TRUE)>>
    <3>1. f \in Seq(Bytes) /\ Len(f) = 1 /\ f[1] = Chunk(What, TRUE)
      <4> DEFINE c == Chunk(What, TRUE)
      <4>1. c \in Bytes /\ f = fwin \o <<c>> BY <2>1, <2>4
      <4> HIDE DEF f, c
      <4>2. f \in Seq(Bytes) /\ Len(f) = Len(fwin) + 1 /\ f[Len(fwin) + 1] = c
        BY <1>c, <4>1, OneSent
      <4>3. f \in Seq(Bytes) /\ Len(f) = 1 /\ f[1] = c BY <2>f, <4>2
      <4>4. QED BY <4>3 DEF c
    <3>2. QED BY <1>2, <2>1, <2>4, <3>1
  <2>5. QED BY <2>2, <2>3, <2>4
<1>7. CASE What = "token"
  <2>1. /\ pc' = "close" /\ fwin' = f
        /\ UNCHANGED <<kind, step, out, due, win, got, still, fw, inbox>>
    BY <1>2, <1>7
  <2>2. kind = "spans" /\ step = 1 BY <1>1, <1>4, <1>7, WhatIs DEF TypeOK
  <2>3. since' \in 0..HeaderWait BY <1>3, <1>c
  <2>4. TypeOK' BY <1>1, <1>3, <1>6, <2>1, <2>3 DEF TypeOK
  <2>5. Steps' BY <1>3, <2>1, <2>2 DEF Steps
  <2>6. fw.at = "idle" BY <1>5, <2>2 DEF Calm
  <2>7. AtClose' BY <1>3, <1>6, <1>7, <1>c, <2>1, <2>6 DEF AtClose, Calm
  <2>8. InCommand' BY <2>1, <2>7 DEF InCommand, InStep, Sending, Reading, TextDrain
  <2>9. OutOfStep' BY <1>3, <2>1 DEF OutOfStep
  <2>10. QED BY <2>4, <2>5, <2>8, <2>9 DEF IInv
<1>8. CASE What # "token"
  <2>1. out' = TRUE /\ due' = DueIfCut /\ Ends(f, inbox) BY <1>2, <1>8 DEF Fails
  <2>2. What = "header" => kind = "spans" /\ step = 2 BY <1>1, <1>4, WhatIs DEF TypeOK
  <2>3. What = "payload" => kind = "spans" /\ step = 3 BY <1>1, <1>4, WhatIs DEF TypeOK
  <2>4. What \in {"header", "payload"} => discards BY <1>1, <1>3, <2>2, <2>3 DEF Steps
  <2>5. What = "header" => since <= Reply /\ due' = HeaderWait - since
    BY <1>5, <2>1, <2>2 DEF AtSend, DueIfCut
  <2>6. due' \in Nat
    BY <1>c, <2>1, <2>5 DEF DueIfCut
  <2>7. /\ Budget' \in Int /\ Budget' >= Reply + Owed - since' /\ Budget' >= due' - 1
        /\ discards' => Budget' >= Reply + Owed + Discard - since'
        /\ Budget' >= Late - since'
    <3>1. discards' \in BOOLEAN /\ since' \in Int /\ due' \in Int BY <1>1, <1>3, <2>6 DEF TypeOK
    <3>2. QED BY <3>1, OutlastedIs DEF Budget
  <2>8. ASSUME NEW n \in Int, n = Budget' PROVE Rests(fw, f, n)
    <3>h. /\ n \in Int /\ n >= 0 /\ n >= Reply + Owed /\ n >= due' - 1 /\ n >= Late
          /\ discards => n >= Reply + Owed + Discard
      BY <1>3, <1>c, <2>7, <2>8
    <3> HIDE DEF f
    <3>1. CASE step = 1
      <4>1. CASE Len(f) = 0 BY <1>5, <3>1, <4>1 DEF Calm, Rests
      <4>2. CASE Len(f) = 1
        <5>1. f[1].what \in Opening /\ f[1].what # "token" BY <1>5, <1>6, <1>8, <3>1, <4>2
        <5>2. After(f[1].what) <= Owed /\ After(f[1].what) \in Nat
          <6>1. f[1].what \in {"frame", "query", "text", "open", "post"} BY <5>1 DEF Opening
          <6>2. After(f[1].what) \in {0, Owed} BY <6>1, AfterIs
          <6>3. QED BY <1>c, <6>2
        <5>3. n >= IF f[1].whole THEN Reply + After(f[1].what) ELSE Owed BY <1>c, <3>h, <5>2
        <5>4. fw.at = "idle" BY <1>5, <3>1 DEF Calm
        <5>5. RestsIdle(fw, f, n) BY <3>h, <4>2, <5>1, <5>3 DEF RestsIdle
        <5>6. QED BY <3>h, <5>4, <5>5 DEF Rests
      <4>3. QED BY <1>6, <4>1, <4>2 DEF f
    <3>2. CASE step # 1
      <4>1. What \in Stages /\ fw.at = What /\ fw.left = Full(What) BY <1>5, <3>2 DEF AtSend
      <4>2. What = "header" => n >= HeaderGivesUp + Discard
        BY <1>c, <2>5, <3>h
      <4>3. fw.left = IF What = "header" THEN HeaderGivesUp ELSE Owed BY <4>1 DEF Full
      <4>4. Discards(What) = IF What \in {"header", "payload"} THEN Discard ELSE 0 BY DEF Discards
      <4>5. n >= fw.left + Discards(What) /\ n >= Discards(What) + (IF What = "header" THEN fw.left ELSE Owed)
        BY <1>c, <2>4, <3>h, <4>2, <4>3, <4>4
      <4>6. n >= Reply + After(What)
        <5>1. /\ What = "header" => After(What) = Owed + Discard
              /\ What # "header" => After(What) \in {0, Owed}
          BY <4>1 DEF After, Stages
        <5>2. CASE What = "header" BY <1>c, <2>4, <3>h, <5>1, <5>2
        <5>3. CASE What # "header" BY <1>c, <3>h, <5>1, <5>3
        <5>4. QED BY <5>2, <5>3
      <4>s. /\ n >= fw.left + Discards(fw.at) /\ n >= Reply + After(fw.at)
            /\ n >= Discards(fw.at) + (IF fw.at = "header" THEN fw.left ELSE Owed)
        BY <4>1, <4>5, <4>6
      <4>7. CASE Len(f) = 0
        <5>1. RestsStage(fw, f, n) BY <4>s, <4>7 DEF RestsStage
        <5>2. QED BY <3>h, <4>1, <5>1 DEF Rests
      <4>8. CASE Len(f) = 1
        <5>1. f[1].what = fw.at /\ (f[1].whole => fw.at # "payload") /\ f[1].whole \in BOOLEAN
          BY <1>6, <4>1, <4>8 DEF f
        <5>2. RestsStage(fw, f, n) BY <3>h, <4>s, <4>8, <5>1 DEF RestsStage
        <5>3. QED BY <3>h, <4>1, <5>2 DEF Rests
      <4>9. QED BY <1>6, <4>7, <4>8 DEF f
    <3>3. QED BY <3>1, <3>2
  <2>9. since' \in 0..HeaderWait /\ discards' \in BOOLEAN BY <1>1, <1>3, <1>c DEF TypeOK
  <2>10. QED BY <1>1, <1>6, <1>c, <2>1, <2>6, <2>7, <2>8, <2>9, EndsWell
<1>9. QED BY <1>7, <1>8

\* The header of no spans goes out, or part of it.
LEMMA CloseTokenStep ==
    ASSUME IInv, CloseToken
    PROVE  IInv'
<1>1. TypeOK /\ Steps /\ InCommand BY DEF IInv
<1>2. pc = "close" /\ since' = 0 /\ discards' = discards BY DEF CloseToken
<1>3. AtClose BY <1>1, <1>2 DEF InCommand
<1>c. /\ Reply \in Nat /\ Owed \in Nat /\ Discard \in Nat /\ HeaderGivesUp \in Nat
      /\ HeaderWait \in Nat /\ IoTimeout \in Nat /\ Reply <= Owed /\ IoTimeout < HeaderGivesUp
      /\ Reply + HeaderGivesUp + Discard < HeaderWait
      /\ fwin \in Seq(Bytes) /\ inbox \in Seq(Replies) /\ fw \in Boards /\ fw.left \in Nat
      /\ since \in Nat /\ Len(fwin) \in Nat
  BY <1>1, Waiting
<1>4. since <= IoTimeout /\ HeaderWait - since \in Nat
  <2>1. since <= IoTimeout BY <1>3 DEF AtClose
  <2>2. QED BY <1>c, <2>1
<1>5. ASSUME NEW w \in BOOLEAN
      PROVE  /\ Chunk("zeros", w) \in Bytes
             /\ Chunk("zeros", w).what = "zeros" /\ Chunk("zeros", w).whole = w
  BY DEF Chunk, Bytes, Marks
<1>6. PICK w \in BOOLEAN, f \in Seq(Bytes) :
         /\ out' = TRUE /\ Ends(f, inbox)
         /\ \/ w /\ due' = 0
            \/ ~w /\ due' = HeaderWait - since
         /\ \/ f = fwin /\ ~w
            \/ /\ Len(f) = Len(fwin) + 1 /\ f[Len(fwin) + 1].what = "zeros" /\ f[Len(fwin) + 1].whole = w
               /\ \A i \in 1..Len(fwin) : f[i] = fwin[i]
  <2>1. CASE Fails(failed, 0) /\ Ends(Append(fwin, Chunk("zeros", TRUE)), inbox)
    <3> DEFINE c == Chunk("zeros", TRUE)
               f == Append(fwin, c)
    <3>1. c \in Bytes /\ c.what = "zeros" /\ c.whole = TRUE BY <1>5
    <3>2. out' = TRUE /\ due' = 0 /\ Ends(f, inbox) BY <2>1 DEF Fails
    <3> HIDE DEF c
    <3>3. f \in Seq(Bytes) /\ Len(f) = Len(fwin) + 1 /\ f[Len(fwin) + 1] = c
          /\ \A i \in 1..Len(fwin) : f[i] = fwin[i]
      BY <1>c, <3>1, AddLast
    <3> HIDE DEF f
    <3>4. QED BY <3>1, <3>2, <3>3
  <2>2. ASSUME \E os \in BOOLEAN : Fails(failed \/ os, HeaderWait - since),
               NEW q \in {<<>>, <<Chunk("zeros", FALSE)>>}, Ends(fwin \o q, inbox)
        PROVE  \E f \in Seq(Bytes) :
                  /\ out' = TRUE /\ Ends(f, inbox) /\ due' = HeaderWait - since
                  /\ \/ f = fwin
                     \/ /\ Len(f) = Len(fwin) + 1 /\ f[Len(fwin) + 1].what = "zeros"
                        /\ f[Len(fwin) + 1].whole = FALSE
                        /\ \A i \in 1..Len(fwin) : f[i] = fwin[i]
    <3>1. out' = TRUE /\ due' = HeaderWait - since BY <2>2 DEF Fails
    <3>2. CASE q = <<>>
      <4>1. fwin \o q = fwin BY <1>c, <3>2
      <4>2. QED BY <1>c, <2>2, <3>1, <4>1
    <3>3. CASE q = <<Chunk("zeros", FALSE)>>
      <4> DEFINE c == Chunk("zeros", FALSE)
                 f == fwin \o <<c>>
      <4>1. c \in Bytes /\ c.what = "zeros" /\ c.whole = FALSE BY <1>5
      <4>2. Ends(f, inbox) BY <2>2, <3>3
      <4> HIDE DEF c
      <4>3. f = fwin \o <<c>> OBVIOUS
      <4> HIDE DEF f
      <4>4. f \in Seq(Bytes) /\ Len(f) = Len(fwin) + 1 /\ f[Len(fwin) + 1] = c
            /\ \A i \in 1..Len(fwin) : f[i] = fwin[i]
        BY <1>c, <4>1, <4>3, OneSent
      <4>5. QED BY <3>1, <4>1, <4>2, <4>4
    <3>4. QED BY <3>2, <3>3
  <2>3. CASE /\ \E os \in BOOLEAN : Fails(failed \/ os, HeaderWait - since)
             /\ \E q \in {<<>>, <<Chunk("zeros", FALSE)>>} : Ends(fwin \o q, inbox)
    <3>1. PICK f \in Seq(Bytes) :
                  /\ out' = TRUE /\ Ends(f, inbox) /\ due' = HeaderWait - since
                  /\ \/ f = fwin
                     \/ /\ Len(f) = Len(fwin) + 1 /\ f[Len(fwin) + 1].what = "zeros"
                        /\ f[Len(fwin) + 1].whole = FALSE
                        /\ \A i \in 1..Len(fwin) : f[i] = fwin[i]
      BY <2>2, <2>3
    <3>2. QED BY <3>1
  <2>4. QED BY <2>1, <2>3 DEF CloseToken
<1>7. due' \in Nat BY <1>4, <1>6
<1>8. discards' \in BOOLEAN /\ since' \in Int /\ due' \in Int /\ since' \in 0..HeaderWait
  BY <1>1, <1>2, <1>7, <1>c DEF TypeOK
<1>9. ASSUME NEW n \in Int, n = Budget' PROVE Rests(fw, f, n)
  <2>1. n >= Reply + Owed /\ (~w => n >= (HeaderWait - since) - 1)
    <3>1. n >= Reply + Owed - since' /\ n >= due' - 1 BY <1>8, <1>9, OutlastedIs DEF Budget
    <3>2. QED BY <1>2, <1>4, <1>6, <1>c, <3>1
  <2>2. n >= 0 /\ n >= Reply + Reply BY <1>c, <2>1
  <2>3. ~w => n >= (Reply + HeaderGivesUp + Discard) - since BY <1>4, <1>c, <2>1
  <2>4. /\ After("token") = HeaderGivesUp + Discard
        /\ "token" \in Opening /\ "token" \notin Slow
    BY AfterIs DEF Opening, Slow
  <2>5. CASE Calm
    <3>1. Len(fwin) = 0 /\ fw.at = "idle" BY <2>5 DEF Calm
    <3>2. CASE f = fwin BY <3>1, <3>2 DEF Rests
    <3>3. CASE f # fwin
      <4>1. Len(f) = 1 /\ f[1].what = "zeros"
        <5>1. Len(fwin) + 1 = 1 BY <3>1
        <5>2. QED BY <1>6, <3>3, <5>1
      <4>2. QED BY <2>2, <3>1, <4>1 DEF Rests, RestsIdle
    <3>4. QED BY <3>2, <3>3
  <2>6. CASE fw.at = "idle" /\ Len(fwin) = 1 /\ fwin[1].what = "token" /\ since = 0
    <3>1. CASE f = fwin
      <4>1. n >= IF f[1].whole THEN Reply + After(f[1].what) ELSE Owed
        <5>1. f[1].what = "token" /\ n >= Owed BY <1>c, <2>1, <2>6, <3>1
        <5>2. ~w => n >= Reply + (HeaderGivesUp + Discard) BY <1>c, <2>3, <2>6
        <5>3. w => f # fwin BY <1>6
        <5>4. QED BY <2>4, <3>1, <5>1, <5>2, <5>3
      <4>2. f[1].what \in Opening BY <2>4, <2>6, <3>1
      <4>3. QED BY <2>2, <2>4, <2>6, <3>1, <4>1, <4>2 DEF Rests, RestsIdle
    <3>2. CASE f # fwin
      <4>1. Len(f) = 2 /\ f[1].what = "token" /\ f[2].what = "zeros" /\ f[2].whole = w
        <5>1. Len(fwin) + 1 = 2 /\ 1 \in 1..Len(fwin) BY <2>6
        <5>2. QED BY <1>6, <2>6, <3>2, <5>1
      <4>2. ~w => n >= Reply + (HeaderGivesUp + Discard) BY <1>c, <2>3, <2>6
      <4>3. n >= Reply BY <1>c, <2>1
      <4>4. QED BY <2>2, <2>6, <4>1, <4>2, <4>3 DEF Rests, RestsIdle
    <3>3. QED BY <3>1, <3>2
  <2>7. CASE fw.at = "owed" /\ Len(fwin) = 0 /\ fw.left = Owed /\ since = 0
    <3>1. CASE f = fwin BY <1>c, <2>1, <2>2, <2>7, <3>1 DEF Rests, RestsOwed
    <3>2. CASE f # fwin
      <4>1. Len(f) = 1 /\ f[1].what = "zeros"
        <5>1. Len(fwin) + 1 = 1 BY <2>7
        <5>2. QED BY <1>6, <3>2, <5>1
      <4>2. n >= Reply BY <1>c, <2>1
      <4>3. QED BY <2>2, <2>7, <4>1, <4>2 DEF Rests, RestsOwed
    <3>3. QED BY <3>1, <3>2
  <2>8. CASE fw.at = "busy" /\ fw.cmd = "token" /\ Len(fwin) = 0 /\ fw.left + since <= Reply
    <3>1. n >= fw.left + Reply /\ (~w => n >= fw.left + (HeaderGivesUp + Discard))
      BY <1>c, <2>2, <2>3, <2>8
    <3>2. CASE f = fwin
      <4>1. n >= fw.left + After(fw.cmd) BY <1>6, <2>4, <2>8, <3>1, <3>2, <1>c
      <4>2. RestsBusy(fw, f, n) BY <2>4, <2>8, <3>2, <4>1 DEF RestsBusy
      <4>3. QED BY <2>2, <2>8, <4>2 DEF Rests
    <3>3. CASE f # fwin
      <4>1. Len(f) = 1 /\ f[1].what = "zeros" /\ f[1].whole = w
        <5>1. Len(fwin) + 1 = 1 BY <2>8
        <5>2. QED BY <1>6, <3>3, <5>1
      <4>2. n >= fw.left + (IF f[1].whole THEN Reply ELSE HeaderGivesUp + Discard) BY <3>1, <4>1
      <4>3. RestsBusy(fw, f, n) BY <2>8, <4>1, <4>2 DEF RestsBusy
      <4>4. QED BY <2>2, <2>8, <4>3 DEF Rests
    <3>4. QED BY <3>2, <3>3
  <2>9. CASE fw.at = "header" /\ Len(fwin) = 0 /\ fw.left + since <= Reply + HeaderGivesUp
    <3>1. n >= Reply /\ (~w => n >= fw.left + Discard) BY <1>c, <2>2, <2>3, <2>9
    <3>2. fw.at \in Stages /\ Discards(fw.at) = Discard BY <2>9 DEF Stages, Discards
    <3>3. CASE f = fwin
      <4>1. n >= fw.left + Discards(fw.at) BY <1>6, <3>1, <3>2, <3>3, <1>c
      <4>2. RestsStage(fw, f, n) BY <2>9, <3>3, <4>1 DEF RestsStage
      <4>3. QED BY <2>2, <3>2, <4>2 DEF Rests
    <3>4. CASE f # fwin
      <4>1. Len(f) = 1 /\ f[1].what = "zeros" /\ f[1].whole = w
        <5>1. Len(fwin) + 1 = 1 BY <2>9
        <5>2. QED BY <1>6, <3>4, <5>1
      <4>2. n >= IF f[1].whole THEN Reply ELSE fw.left + Discard BY <3>1, <4>1
      <4>3. RestsStage(fw, f, n) BY <2>9, <4>1, <4>2 DEF RestsStage
      <4>4. QED BY <2>2, <3>2, <4>3 DEF Rests
    <3>5. QED BY <3>3, <3>4
  <2>10. QED BY <1>3, <2>5, <2>6, <2>7, <2>8, <2>9 DEF AtClose
<1>10. Budget' \in Int BY <1>8, OutlastedIs DEF Budget
<1>11. QED BY <1>1, <1>6, <1>7, <1>8, <1>9, <1>10, <1>c, EndsWell

\* The reply the client takes, if it is an answer, is the only one there.
LEMMA TakenIs ==
    ASSUME IInv, Awaits, ~IsData, Taken \in {"ack", "fail", "timeout"}
    PROVE  /\ Reading /\ Head(inbox).of = "own"
           /\ Taken = "ack" => Replied
           /\ Taken # "ack" => Ended
           /\ ~(What = "query" /\ Taken = "ack") => Noise(Tail(inbox))
           /\ What = "query" /\ Taken = "ack" => Len(Tail(inbox)) > 0 /\ Noise(Tail(Tail(inbox)))
<1>1. TypeOK /\ InCommand BY DEF IInv
<1>2. Reading /\ inbox # <<>> /\ inbox \in Seq(Replies) BY <1>1 DEF Awaits, Reading, TypeOK
<1>3. /\ Len(inbox) \in Nat /\ Len(inbox) > 0 /\ Head(inbox) = inbox[1] /\ Taken = inbox[1].rep
  BY <1>2, TakeFirst DEF Taken
<1>4. ~Noise(inbox)
  <2>1. 1 \in 1..Len(inbox) BY <1>3
  <2>2. inbox[1].rep # "noise" BY <1>3
  <2>3. QED BY <2>1, <2>2 DEF Noise
<1>5. Replied \/ Ended BY <1>1, <1>2, <1>4 DEF InCommand, Sent, Working, Lost
<1>6. CASE Replied
  <2>1. One(inbox, {"ack"}, What) BY <1>6 DEF Replied
  <2>2. /\ inbox[1].rep \in {"ack"} /\ inbox[1].of = "own"
        /\ ~(What = "query" /\ inbox[1].rep = "ack") => Noise(Tail(inbox))
        /\ What = "query" /\ inbox[1].rep = "ack" => Len(Tail(inbox)) > 0 /\ Noise(Tail(Tail(inbox)))
    BY <1>2, <1>3, <2>1, OneFirst
  <2>3. QED BY <1>2, <1>3, <1>6, <2>2
<1>7. CASE Ended
  <2>1. One(inbox, {"fail", "timeout"}, What) BY <1>7 DEF Ended
  <2>2. /\ inbox[1].rep \in {"fail", "timeout"} /\ inbox[1].of = "own"
        /\ ~(What = "query" /\ inbox[1].rep = "ack") => Noise(Tail(inbox))
    BY <1>2, <1>3, <2>1, OneFirst
  <2>3. QED BY <1>2, <1>3, <1>7, <2>2
<1>8. QED BY <1>5, <1>6, <1>7

\* An ack: the command goes on to its next chunk, or is done.
LEMMA TakeAckStep ==
    ASSUME IInv, TakeAck
    PROVE  IInv'
<1>1. TypeOK /\ Steps /\ InCommand BY DEF IInv
<1>2. Awaits /\ ~IsData /\ Taken = "ack" /\ since' = since /\ inbox # <<>> /\ pc = "read" /\ ~out /\ ~got
  BY <1>1 DEF TakeAck, Awaits, Steps
<1>3. /\ Reading /\ Replied
      /\ What # "query" => Noise(Tail(inbox))
      /\ What = "query" => Len(Tail(inbox)) > 0 /\ Noise(Tail(Tail(inbox)))
  BY <1>2, TakenIs
<1>4. /\ fwin \in Seq(Bytes) /\ inbox \in Seq(Replies) /\ Tail(inbox) \in Seq(Replies)
      /\ step \in Nat /\ kind \in DOMAIN Chunks /\ discards \in BOOLEAN /\ due \in Nat
      /\ out \in BOOLEAN /\ since \in 0..HeaderWait
  BY <1>1, <1>2, TakeFirst DEF TypeOK
<1>5. step \in 1..Len(Chunks[kind]) BY <1>1, <1>3, AtChunk
<1>6. /\ kind # "drain" /\ (What = "query" <=> kind = "read") /\ (kind = "read" => step = 1)
      /\ What = "token" <=> kind = "spans" /\ step = 1
      /\ step < Len(Chunks[kind]) => NextAt(What) = Chunks[kind][step + 1] /\ NextAt(What) \in Stages
      /\ step = Len(Chunks[kind]) => NextAt(What) = "idle"
  BY <1>2, <1>4, <1>5, WhatIs
<1>7. /\ Len(fwin) = 0 /\ fw.at = NextAt(What)
      /\ fw.at # "idle" => fw.of = "own" /\ fw.left = Full(fw.at) /\ since <= Reply
  BY <1>3 DEF Replied
<1>8. Len(Chunks["read"]) = 1 /\ kind \notin {"reset", "ping"}
  BY <1>1, <1>2 DEF Chunks, Steps
<1>9. CASE /\ kind = "read" \/ step < Len(Chunks[kind])
           /\ pc' = IF kind = "read" THEN "read" ELSE "send"
           /\ step' = step + 1 /\ still' = 0 /\ inbox' = Tail(inbox)
           /\ discards' = (discards \/ What = "token")
           /\ UNCHANGED <<kind, out, due, win, got, fw, fwin>>
  <2>1. step' \in Nat /\ discards' \in BOOLEAN /\ still' \in Nat
    BY <1>4, <1>9
  <2>2. TypeOK' BY <1>1, <1>2, <1>4, <1>9, <2>1 DEF TypeOK
  <2>3. OutOfStep' BY <1>2, <1>9 DEF OutOfStep
  <2>4. CASE kind = "read"
    <3>1. pc' = "read" /\ step' = 2 /\ IsData' BY <1>6, <1>9, <2>4 DEF IsData
    <3>2. Steps' BY <1>2, <1>9, <2>4, <3>1 DEF Steps
    <3>3. Calm' BY <1>6, <1>7, <1>8, <1>9, <2>4 DEF Calm
    <3>4. InCommand' BY <1>3, <1>6, <1>9, <2>4, <3>1, <3>3 DEF InCommand, InStep, Sending, Reading, TextDrain
    <3>5. QED BY <2>2, <2>3, <3>2, <3>4 DEF IInv
  <2>5. CASE kind # "read"
    <3>1. pc' = "send" /\ step < Len(Chunks[kind]) BY <1>9, <2>5
    <3>2. step' \in 1..Len(Chunks[kind]) /\ step' > 1 /\ (step = 1 \/ step > 1)
      <4>1. Len(Chunks[kind]) \in Nat BY <1>4 DEF Chunks
      <4>2. QED BY <1>5, <1>9, <3>1, <4>1
    <3>3. kind = "spans" => discards' BY <1>1, <1>2, <1>6, <1>9, <3>2 DEF Steps
    <3>4. Steps' BY <1>2, <1>6, <1>9, <3>1, <3>2, <3>3 DEF Steps
    <3>5. What' = NextAt(What) /\ What' \in Stages
      <4>1. ~IsData' BY <1>9, <2>5 DEF IsData
      <4>2. What' = Chunks[kind][step + 1] BY <1>9, <4>1 DEF What
      <4>3. QED BY <1>6, <3>1, <4>2
    <3>6. AtSend'
      <4>1. fw.at # "idle" BY <1>7, <3>5 DEF Stages
      <4>2. Full(What') = Full(fw.at) BY <1>7, <3>5
      <4>3. QED BY <1>2, <1>3, <1>6, <1>7, <1>9, <2>5, <3>5, <4>1, <4>2 DEF AtSend, Full
    <3>7. ~InStep' BY <3>1, <3>2 DEF InStep
    <3>8. InCommand' BY <3>1, <3>6, <3>7 DEF InCommand, Reading, TextDrain
    <3>9. QED BY <2>2, <2>3, <3>4, <3>8 DEF IInv
  <2>6. QED BY <2>4, <2>5
<1>10. CASE /\ kind # "read" /\ step = Len(Chunks[kind])
            /\ Completes("ok", out) /\ Ends(fwin, Tail(inbox))
            /\ discards' = discards
  <2>1. out' = out /\ due' = 0 BY <1>10 DEF Completes
  <2>2. fw.at = "idle" /\ Len(fwin) = 0 /\ Noise(Tail(inbox)) BY <1>3, <1>6, <1>7, <1>10
  <2>3. out' \in BOOLEAN /\ due' \in Nat /\ since' \in 0..HeaderWait /\ discards' \in BOOLEAN /\ ~out'
    BY <1>2, <1>4, <1>10, <2>1
  <2>4. QED BY <1>1, <1>4, <1>10, <2>2, <2>3, EndsWell
<1>11. QED BY <1>9, <1>10 DEF TakeAck

\* The data of a read.
LEMMA TakeDataStep ==
    ASSUME IInv, TakeData
    PROVE  IInv'
<1>1. TypeOK /\ Steps /\ InCommand BY DEF IInv
<1>2. /\ pc = "read" /\ IsData /\ inbox # <<>> /\ out' = out /\ due' = 0 /\ Ends(fwin, Tail(inbox))
      /\ discards' = discards /\ since' = since
  BY DEF TakeData, Awaits, Completes
<1>3. Calm /\ Noise(Tail(inbox)) /\ ~out BY <1>1, <1>2 DEF InCommand, Steps
<1>4. /\ fwin \in Seq(Bytes) /\ Tail(inbox) \in Seq(Replies) /\ out' \in BOOLEAN /\ due' \in Nat
      /\ since' \in 0..HeaderWait /\ discards' \in BOOLEAN
  BY <1>1, <1>2, TakeFirst DEF TypeOK
<1>5. QED BY <1>1, <1>2, <1>3, <1>4, EndsWell DEF Calm

\* A refusal: the firmware is at its dispatcher, or discards.
LEMMA TakeRefusalStep ==
    ASSUME IInv, TakeRefusal
    PROVE  IInv'
<1>1. TypeOK /\ Steps /\ InCommand BY DEF IInv
<1>2. /\ Awaits /\ ~IsData /\ Taken = "fail" /\ pc = "read" /\ ~out
      /\ out' = (out \/ What \in {"header", "payload"}) /\ due' = 0 /\ Ends(fwin, <<>>)
      /\ discards' = discards /\ since' = since
  BY <1>1 DEF TakeRefusal, Awaits, Completes, Steps
<1>3. Reading /\ Ended BY <1>2, TakenIs
<1>4. /\ Len(fwin) = 0 /\ fw.at \in {"idle", "discard"}
      /\ fw.at = "discard" => What = "header" /\ fw.left + since <= Reply + Owed + Discard
  BY <1>3 DEF Ended
<1>5. /\ fwin \in Seq(Bytes) /\ <<>> \in Seq(Replies) /\ out' \in BOOLEAN /\ due' \in Nat
      /\ since' \in 0..HeaderWait /\ discards' \in BOOLEAN /\ since' \in Int
  BY <1>1, <1>2 DEF TypeOK
<1>c. Reply \in Nat /\ Owed \in Nat /\ Discard \in Nat /\ fw.left \in Nat /\ since \in Nat
  BY <1>1, Waiting
<1>6. ~out' => fw.at = "idle" /\ Len(fwin) = 0 /\ Noise(<<>>)
  <2>1. \A r : r = <<>> => Noise(r) BY DEF Noise
  <2>2. QED BY <1>2, <1>4, <2>1
<1>7. Rests(fw, fwin, Budget')
  <2>1. CASE fw.at = "idle" BY <1>4, <2>1 DEF Rests
  <2>2. ASSUME fw.at = "discard", NEW n \in Int, n = Budget' PROVE Rests(fw, fwin, n)
    <3>1. discards'
      <4>1. What = "header" => kind = "spans" /\ step > 1
        BY <1>1, <1>3, AtChunk, WhatIs DEF TypeOK
      <4>2. QED BY <1>1, <1>2, <1>4, <2>2, <4>1 DEF Steps
    <3>2. n >= Reply + Owed + Discard - since'
      <4>1. discards' \in BOOLEAN /\ since' \in Int /\ due' \in Int BY <1>5
      <4>2. /\ Budget' \in Int /\ Budget' >= Reply + Owed - since' /\ Budget' >= due' - 1
            /\ discards' => Budget' >= Reply + Owed + Discard - since'
        BY <4>1, OutlastedIs DEF Budget
      <4>3. QED BY <2>2, <3>1, <4>2
    <3>3. n >= fw.left /\ n >= 0 BY <1>2, <1>4, <1>c, <2>2, <3>2
    <3>4. QED BY <1>4, <2>2, <3>3 DEF Rests
  <2>3. Budget' \in Int BY <1>5, OutlastedIs DEF Budget
  <2>4. QED BY <1>4, <2>1, <2>2, <2>3
<1>8. QED BY <1>1, <1>2, <1>5, <1>6, <1>7, EndsWell

\* The firmware says that it has given up.
LEMMA TakeTimeoutStep ==
    ASSUME IInv, TakeTimeout
    PROVE  IInv'
<1>1. TypeOK /\ Steps /\ InCommand BY DEF IInv
<1>2. /\ Awaits /\ ~IsData /\ Taken = "timeout" /\ Fails(failed, due) /\ Ends(fwin, <<>>)
      /\ UNCHANGED <<discards, since>>
  BY DEF TakeTimeout
<1>3. Reading /\ Ended BY <1>2, TakenIs
<1>4. CASE What # "token"
  <2>1. NoUse(<<>>) BY <1>2, <1>4 DEF NoUse
  <2>2. <<>> \in Seq(Replies) OBVIOUS
  <2>3. QED BY <1>2, <1>3, <2>1, <2>2, NoUseStep
<1>5. CASE What = "token"
  <2>1. fw.at = "idle" /\ Len(fwin) = 0 BY <1>3, <1>5 DEF Ended
  <2>2. out' = TRUE /\ due' = due BY <1>2 DEF Fails
  <2>3. /\ fwin \in Seq(Bytes) /\ <<>> \in Seq(Replies) /\ out' \in BOOLEAN /\ due' \in Nat
        /\ since' \in 0..HeaderWait /\ discards' \in BOOLEAN
    BY <1>1, <1>2, <2>2 DEF TypeOK
  <2>4. Rests(fw, fwin, Budget') BY <2>1 DEF Rests
  <2>5. QED BY <1>1, <1>2, <2>2, <2>3, <2>4, EndsWell
<1>6. QED BY <1>4, <1>5

\* A reply that is none.
LEMMA TakeOtherStep ==
    ASSUME IInv, TakeOther
    PROVE  IInv'
<1>1. inbox \in Seq(Replies) BY DEF IInv, TypeOK
<1>2. Reading /\ inbox # <<>> /\ UNCHANGED <<discards, since>> BY DEF TakeOther, Awaits, Reading
<1>3. Tail(inbox) \in Seq(Replies) /\ <<>> \in Seq(Replies) BY <1>1, <1>2, TakeFirst
<1>4. QED BY <1>2, <1>3, NoUseStep DEF TakeOther

\* No reply came in time, or the read was interrupted.
LEMMA ReadFailsStep ==
    ASSUME IInv, ReadFails
    PROVE  IInv'
<1>1. TypeOK /\ InCommand BY DEF IInv
<1>2. pc = "read" /\ inbox = <<>> /\ NoUse(inbox) /\ UNCHANGED <<discards, since>> BY DEF ReadFails
<1>3. Len(inbox) = 0 BY <1>2
<1>4. Reading BY <1>1, <1>2, <1>3 DEF InCommand, Reading
<1>5. inbox \in Seq(Replies) BY <1>1 DEF TypeOK
<1>6. QED BY <1>2, <1>4, <1>5, NoUseStep

\* The link is said to be out of step.
LEMMA LeaveStep ==
    ASSUME IInv, LeaveOutOfStep
    PROVE  IInv'
<1>1. TypeOK /\ Steps /\ InCommand /\ OutOfStep BY DEF IInv
<1>2. /\ pc = "idle" /\ out' = TRUE
      /\ UNCHANGED <<pc, kind, step, discards, due, win, got, since, still, fw, fwin, inbox>>
  BY DEF LeaveOutOfStep, clocks, board
<1>3. TypeOK' BY <1>1, <1>2 DEF TypeOK
<1>4. Steps' BY <1>1, <1>2 DEF Steps
<1>5. InCommand' BY <1>2 DEF InCommand, InStep, Sending, Reading, TextDrain
<1>6. OutOfStep'
  <2>1. Budget' = Budget BY <1>2 DEF Budget
  <2>2. ~out => Calm BY <1>1, <1>2 DEF InCommand, InStep
  <2>3. Rests(fw, fwin, Budget) BY <1>1, <2>2 DEF OutOfStep, Calm, Rests
  <2>4. QED BY <1>1, <1>2, <2>1, <2>3 DEF OutOfStep
<1>7. QED BY <1>3, <1>4, <1>5, <1>6 DEF IInv

------------------------------------------------------------------------------
(* The theorems.                                                              *)

\* A link that has done nothing is in step.
LEMMA InitIInv == Init => IInv
<1> SUFFICES ASSUME Init PROVE IInv
  OBVIOUS
<1>1. TypeOK
  <2>1. fw \in Boards /\ fwin \in Seq(Bytes) /\ inbox \in Seq(Replies)
    BY DEF Init, Idle, Boards, Marks
  <2>2. since \in 0..HeaderWait BY Waits DEF Init
  <2>3. kind \in DOMAIN Chunks BY DEF Init, Chunks
  <2>4. QED BY <2>1, <2>2, <2>3 DEF Init, TypeOK
<1>2. Steps BY DEF Init, Steps
<1>3. Calm /\ Noise(inbox) BY DEF Init, Calm, Noise, Idle
<1>4. InCommand BY <1>3 DEF Init, InCommand, InStep, Sending, Reading, TextDrain
<1>5. OutOfStep BY DEF Init, OutOfStep, Idle
<1>6. QED BY <1>1, <1>2, <1>4, <1>5 DEF IInv

\* The invariant is inductive: one case per action.
LEMMA NextIInv ==
    ASSUME CutBehindPayload = FALSE
    PROVE  IInv /\ [Next]_vars => IInv'
<1> SUFFICES ASSUME IInv, [Next]_vars PROVE IInv'
  OBVIOUS
<1>1. CASE Tick BY <1>1, TickStep
<1>2. CASE FwTakes \/ FwAnswers \/ FwRefusesZeros \/ FwRefuses \/ FwStalls \/ FwAnswerLost
           \/ FwGivesUp \/ FwDiscardEnds
  BY <1>2, FirmwareStep
<1>3. CASE Chatter BY <1>3, ChatterStep
<1>4. CASE \E k \in Kinds : Begin(k) BY <1>4, BeginStep
<1>5. CASE ResyncEnds \/ ResyncCapped \/ ResyncCut BY <1>5, ResyncStep
<1>6. CASE DrainTakes BY <1>6, DrainTakesStep
<1>7. CASE DrainEnds \/ DrainCapped \/ DrainCut BY <1>7, DrainStep
<1>8. CASE Send BY <1>8, SendStep
<1>9. CASE SendCut BY <1>9, SendCutStep
<1>10. CASE CloseToken BY <1>10, CloseTokenStep
<1>11. CASE TakeAck BY <1>11, TakeAckStep
<1>12. CASE TakeData BY <1>12, TakeDataStep
<1>13. CASE TakeRefusal BY <1>13, TakeRefusalStep
<1>14. CASE TakeTimeout BY <1>14, TakeTimeoutStep
<1>15. CASE TakeOther BY <1>15, TakeOtherStep
<1>16. CASE ReadFails BY <1>16, ReadFailsStep
<1>17. CASE LeaveOutOfStep BY <1>17, LeaveStep
<1>18. CASE UNCHANGED vars
  <2>1. /\ UNCHANGED <<client, clocks, pc, kind, step, out, discards, since, still, due, win>>
        /\ UNCHANGED <<got, fw, fwin, inbox>>
    BY <1>18 DEF vars, client, clocks, board
  <2>2. TypeOK'
    <3>1. TypeOK BY DEF IInv
    <3>2. QED BY <2>1, <3>1 DEF TypeOK
  <2>3. Steps' BY <2>1, SameCommand DEF IInv, Steps
  <2>4. (Sent \/ Working \/ Replied \/ Lost \/ Ended) => (Sent \/ Working \/ Replied \/ Lost \/ Ended)'
    <3>1. Sent => Sent' BY <2>1, SameCommand DEF Sent
    <3>2. Working => Working' BY <2>1, SameCommand DEF Working
    <3>3. Replied => Replied' BY <2>1, SameCommand DEF Replied
    <3>4. Lost => Lost' BY <2>1, SameCommand DEF Lost
    <3>5. Ended => Ended' BY <2>1, SameCommand DEF Ended
    <3>6. QED BY <3>1, <3>2, <3>3, <3>4, <3>5
  <2>5. AtText => AtText' BY <2>1 DEF AtText, Calm, Unsaid
  <2>6. AtClose => AtClose' BY <2>1 DEF AtClose, Calm
  <2>7. AtSend => AtSend' BY <2>1, SameCommand DEF AtSend
  <2>8. InCommand' BY <2>1, <2>4, <2>5, <2>6, <2>7, SameCommand DEF IInv, InCommand, Calm
  <2>9. OutOfStep' BY <2>1 DEF IInv, OutOfStep, Budget
  <2>10. QED BY <2>2, <2>3, <2>8, <2>9 DEF IInv
<1>19. QED
  BY <1>1, <1>2, <1>3, <1>4, <1>5, <1>6, <1>7, <1>8, <1>9, <1>10, <1>11, <1>12, <1>13, <1>14,
     <1>15, <1>16, <1>17, <1>18
  DEF Next, Firmware, Works, Faults

\* In every state the firmware and the client stand to each other as the
\* invariant says, provided no interrupt comes between a payload and the note
\* of when its reply is due.
THEOREM LinkIsKnown ==
    ASSUME CutBehindPayload = FALSE
    PROVE  Spec => []IInv
<1>1. QED BY InitIInv, NextIInv, PTL DEF Spec

\* NothingMisread: in every state, whatever else has failed before, the chunk the
\* firmware takes next is what it is waiting for.
THEOREM NothingMisreadHolds ==
    ASSUME CutBehindPayload = FALSE
    PROVE  Spec => []NothingMisread
<1>1. IInv => NothingMisread
  <2> SUFFICES ASSUME IInv, Listens, fwin # <<>> PROVE Accepts(fwin[1])
    BY TakeFirst DEF NothingMisread, IInv, TypeOK
  <2>1. TypeOK /\ Steps /\ InCommand /\ OutOfStep BY DEF IInv
  <2>2. fwin \in Seq(Bytes) /\ Len(fwin) > 0 /\ Len(fwin) \in Nat /\ step \in Nat
    BY <2>1, EmptyIs DEF TypeOK
  <2>3. 1 \in 1..Len(fwin) /\ ~Calm BY <2>2 DEF Calm
  <2>4. CASE out
    <3>1. pc \in {"idle", "resync"} BY <2>1, <2>4 DEF Steps
    <3>2. fw.of = "old" /\ fwin[1].of = "old" BY <2>1, <2>3, <3>1 DEF OutOfStep
    <3>3. Rests(fw, fwin, Budget) BY <2>1, <2>4 DEF OutOfStep
    <3>4. \/ fw.at = "idle" /\ RestsIdle(fw, fwin, Budget)
          \/ fw.at = "owed" /\ RestsOwed(fw, fwin, Budget)
          \/ fw.at \in Stages /\ RestsStage(fw, fwin, Budget)
      BY <2>2, <3>3 DEF Rests, Listens, Stages
    <3>5. CASE fw.at = "idle" /\ RestsIdle(fw, fwin, Budget)
      <4>1. fwin[1].what \in Opening \cup {"zeros"} BY <3>5 DEF RestsIdle, Opening
      <4>2. QED BY <3>5, <4>1 DEF Accepts, Opening
    <3>6. CASE fw.at = "owed" BY <3>2, <3>6 DEF Accepts
    <3>7. CASE fw.at \in Stages /\ RestsStage(fw, fwin, Budget)
      <4>1. fwin[1].what = fw.at \/ (fw.at = "header" /\ fwin[1].what = "zeros")
        BY <2>2, <3>7 DEF RestsStage
      <4>2. QED BY <3>2, <3>7, <4>1 DEF Accepts
    <3>8. QED BY <3>4, <3>5, <3>6, <3>7
  <2>5. CASE ~out
    <3>1. ~InStep BY <2>1, <2>3 DEF InCommand
    <3>2. pc \in {"drain", "send", "read", "close"} BY <2>1, <2>5, <3>1 DEF TypeOK, Steps, InStep
    <3>3. CASE pc = "drain"
      <4>1. TextDrain BY <2>1, <3>1, <3>3 DEF Steps, InStep, TextDrain
      <4>2. AtText /\ Len(fwin) # 0 BY <2>1, <2>2, <4>1 DEF InCommand
      <4>3. fwin[1] = Chunk("text", TRUE) /\ fw.at = "idle" BY <2>3, <4>2, Zenon DEF AtText
      <4>4. QED BY <4>3 DEF Accepts, Chunk
    <3>4. pc # "send"
      <4>1. ASSUME pc = "send" PROVE FALSE
        <5>1. step \in 1..Len(Chunks[kind]) /\ step # 1 BY <2>1, <3>1, <4>1 DEF Steps, InStep
        <5>2. Sending BY <2>2, <4>1, <5>1 DEF Sending
        <5>3. QED BY <2>1, <2>2, <5>2 DEF InCommand, AtSend
      <4>2. QED BY <4>1
    <3>5. CASE pc = "read"
      <4>1. Reading BY <2>1, <2>3, <3>5 DEF InCommand, Reading
      <4>2. Sent BY <2>1, <2>2, <4>1 DEF InCommand, Working, Replied, Lost, Ended
      <4>3. fwin[1].what = What /\ fwin[1].of = "own" BY <4>2 DEF Sent, Chunk
      <4>4. CASE step = 1
        <5>1. What \in Opening /\ fw.at = "idle" BY <2>1, <4>1, <4>2, <4>4, AtChunk DEF Sent
        <5>2. QED BY <4>3, <5>1 DEF Accepts, Opening
      <4>5. CASE step # 1
        <5>1. What \in Stages /\ fw.at = What /\ fw.of = "own"
          BY <2>1, <4>1, <4>2, <4>5, AtChunk DEF Sent
        <5>2. QED BY <4>3, <5>1 DEF Accepts
      <4>6. QED BY <4>4, <4>5
    <3>6. CASE pc = "close"
      <4>1. AtClose BY <2>1, <3>6 DEF InCommand
      <4>2. fwin[1].what = "token" /\ fw.at = "idle" BY <2>2, <2>3, <4>1 DEF AtClose
      <4>3. QED BY <4>2 DEF Accepts
    <3>7. QED BY <3>2, <3>3, <3>4, <3>5, <3>6
  <2>6. QED BY <2>4, <2>5
<1>2. QED BY <1>1, LinkIsKnown, PTL

\* ReplyIsOwn: in every state, an ack or a refusal about to be taken answers
\* the command that takes it, on the same condition and for answers that come
\* within the wait.
THEOREM ReplyIsOwnHolds ==
    ASSUME CutBehindPayload = FALSE
    PROVE  Spec => []ReplyIsOwn
<1>1. IInv => ReplyIsOwn BY TakenIs DEF ReplyIsOwn
<1>2. QED BY <1>1, LinkIsKnown, PTL
=============================================================================
