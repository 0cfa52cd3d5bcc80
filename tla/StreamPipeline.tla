--------------------------- MODULE StreamPipeline ---------------------------
(***************************************************************************)
(* One event stream of a meeting, the consumer groups that read it, and    *)
(* the dead letter queue (DLQ) behind them.                                *)
(*                                                                         *)
(* The stream lives in Redis and is reached through RedisStreamBus         *)
(* (packages/event_schema/bus.py).  Each worker of services/*_worker runs  *)
(* the same loop: read a batch that no one of its group has read, process  *)
(* the messages of the batch one after the other, publish what each one    *)
(* yields, acknowledge it; a message whose processing raises goes to the   *)
(* DLQ.  The orchestrator reads the DLQ and either puts a copy of the      *)
(* failed payload back on the stream or quarantines it                     *)
(* (services/orchestrator/dlq_retry.py).                                   *)
(*                                                                         *)
(* A step is what happens between two awaits, so that workers, the         *)
(* orchestrator, crashes and Redis failures interleave as they do in       *)
(* production.                                                             *)
(***************************************************************************)
EXTENDS Integers, Sequences, FiniteSets

CONSTANTS
  Groups,       \* consumer groups of the stream
  Workers,      \* worker processes
  GroupOf,      \* [Workers -> Groups]: the group a worker reads with
  Segments,     \* the speech segments the upstream stage publishes
  Strict,       \* groups that validate the payload against a schema that
                \* forbids extra keys (every worker but the STT worker)
  Poison,       \* {<<g, s>>}: segments whose processing always raises
  Outputs,      \* [Groups -> [Segments -> SUBSET Nat]]: how many events the
                \* group may decide to publish for a segment, 0 for none
  Batch,        \* XREADGROUP COUNT of a poll, of workers and orchestrator
  MaxLen,       \* MAXLEN of the stream
  MaxRetries,   \* settings.orchestrator_dlq_max_retries
  MaxEntries,   \* bound of the model: entries ever added to the stream
  MaxFailures,  \* bound of the model: exceptions caught by process_message
  MaxOutages    \* bound of the model: crashes and exceptions that escape it

ASSUME PipelineAssumption ==
  /\ GroupOf \in [Workers -> Groups]
  /\ Strict \subseteq Groups
  /\ Poison \subseteq Groups \X Segments
  /\ Outputs \in [Groups -> [Segments -> SUBSET Nat]]
  /\ \A g \in Groups, s \in Segments : Outputs[g][s] # {}
  /\ Batch \in Nat \ {0}
  /\ MaxLen \in Nat \ {0}
  /\ MaxRetries \in Nat
  /\ MaxEntries \in Nat
  /\ MaxFailures \in Nat
  /\ MaxOutages \in Nat

VARIABLES
  stream,       \* the stream, an entry's id is its index; trimmed entries stay
  floor,        \* id of the oldest entry that has not been trimmed
  start,        \* [Groups -> Nat]: last id when the group was created at "$"
  cursor,       \* [Groups -> Int]: last id delivered, -1: no group yet
  pel,          \* [Groups -> SUBSET Nat]: delivered and not acknowledged
  claimed,      \* [Groups -> SUBSET Nat]: pending ids the orchestrator claimed
  missed,       \* [Groups -> SUBSET Nat]: ids trimmed before delivery (history)
  pc,           \* [Workers -> ...]: where the worker is in its loop
  cur, last,    \* [Workers -> Nat]: the rest of its batch is cur..last
  plan, sent,   \* [Workers -> Nat]: events to publish for cur, and published
  out,          \* events published downstream, in order (history)
  dlq,          \* the DLQ stream
  dlqCursor,    \* last DLQ id the orchestrator has read
  dlqPel,       \* DLQ ids read and not acknowledged
  mpc,          \* where the DLQ retry manager is; "off": meeting unknown to it
  mcur, mlast,  \* the rest of the manager's batch
  failures, outages   \* counters behind MaxFailures and MaxOutages

streamVars == <<stream, floor>>
groupVars  == <<start, cursor, pel, claimed, missed>>
workerVars == <<pc, cur, last, plan, sent>>
dlqVars    == <<dlq, dlqCursor, dlqPel>>
mgrVars    == <<mpc, mcur, mlast>>
vars == <<streamVars, groupVars, workerVars, out, dlqVars, mgrVars,
          failures, outages>>

-----------------------------------------------------------------------------
(***************************************************************************)
(* What is stored.  rc is the key "retry_count" the retry manager writes   *)
(* into a payload, 0 when the key is absent; from is the DLQ entry a       *)
(* stream entry is a copy of, 0 for an original (history).                 *)
(***************************************************************************)
Entry    == [seg : Segments, rc : Nat, from : Nat]
Output   == [grp : Groups, id : Nat, n : Nat]
DlqEntry == [grp : Groups, id : Nat, seg : Segments, rc : Nat]

Larger(a, b)  == IF a > b THEN a ELSE b
Smaller(a, b) == IF a < b THEN a ELSE b

G(w) == GroupOf[w]

Emitted(g, i, n) == \E k \in DOMAIN out : out[k] = [grp |-> g, id |-> i, n |-> n]
InDlq(g, i)      == \E k \in DOMAIN dlq : dlq[k].grp = g /\ dlq[k].id = i

\* Mutation of Rejects: every group validates against the strict schema.
RejectsMarked(g, e) == <<g, e.seg>> \in Poison \/ e.rc > 0

\* process_message raises on every attempt: the segment is poison for the
\* group, or its schema forbids the key the retry manager added.
Rejects(g, e) == <<g, e.seg>> \in Poison \/ (g \in Strict /\ e.rc > 0)

-----------------------------------------------------------------------------
(***************************************************************************)
(* The stream                                                              *)
(***************************************************************************)

\* Mutation of TrimTo: a stream shorter than MaxLen is not told apart.
TrimToUnclamped(len) == floor' = len - MaxLen + 1

\* Mutation of TrimTo: one entry too many is trimmed.
TrimToOffByOne(len) ==
  floor' \in floor .. Larger(floor, len - MaxLen + 2)

\* XADD with MAXLEN ~: Redis may trim down to MaxLen entries, or less.
TrimTo(len) ==
  floor' \in floor .. Larger(floor, len - MaxLen + 1)

\* The upstream stage publishes the event of a segment.
Publish(s) ==
  /\ Len(stream) < MaxEntries
  /\ \A i \in DOMAIN stream : stream[i].seg # s
  /\ stream' = Append(stream, [seg |-> s, rc |-> 0, from |-> 0])
  /\ TrimTo(Len(stream) + 1)
  /\ UNCHANGED <<groupVars, workerVars, out, dlqVars, mgrVars, failures, outages>>

-----------------------------------------------------------------------------
(***************************************************************************)
(* Workers                                                                 *)
(***************************************************************************)

\* run: setup creates the group at "$" unless it exists, then the loop starts.
Start(w) ==
  /\ pc[w] = "down"
  /\ pc' = [pc EXCEPT ![w] = "idle"]
  /\ IF cursor[G(w)] = -1
     THEN /\ start' = [start EXCEPT ![G(w)] = Len(stream)]
          /\ cursor' = [cursor EXCEPT ![G(w)] = Len(stream)]
     ELSE UNCHANGED <<start, cursor>>
  /\ UNCHANGED <<streamVars, pel, claimed, missed, cur, last, plan, sent, out,
                 dlqVars, mgrVars, failures, outages>>

\* Mutation of Poll: the last delivered id is read again.
PollInclusive(w) ==
  LET g     == G(w)
      first == Larger(Larger(cursor[g], 1), floor)
      final == Smaller(first + Batch - 1, Len(stream))
  IN /\ pc[w] = "idle"
     /\ first <= Len(stream)
     /\ pc' = [pc EXCEPT ![w] = "parse"]
     /\ cur' = [cur EXCEPT ![w] = first]
     /\ last' = [last EXCEPT ![w] = final]
     /\ cursor' = [cursor EXCEPT ![g] = final]
     /\ pel' = [pel EXCEPT ![g] = @ \cup (first .. final)]
     /\ UNCHANGED <<streamVars, start, claimed, missed, plan, sent, out, dlqVars,
                    mgrVars, failures, outages>>

\* poll_and_process reads ">" : the next ids after the group's cursor that
\* are still in the stream, at most Batch of them, which become pending.
Poll(w) ==
  LET g     == G(w)
      first == Larger(cursor[g] + 1, floor)
      final == Smaller(first + Batch - 1, Len(stream))
  IN /\ pc[w] = "idle"
     /\ first <= Len(stream)
     /\ pc' = [pc EXCEPT ![w] = "parse"]
     /\ cur' = [cur EXCEPT ![w] = first]
     /\ last' = [last EXCEPT ![w] = final]
     /\ cursor' = [cursor EXCEPT ![g] = final]
     /\ pel' = [pel EXCEPT ![g] = @ \cup (first .. final)]
     /\ missed' = [missed EXCEPT ![g] = @ \cup (cursor[g] + 1 .. first - 1)]
     /\ UNCHANGED <<streamVars, start, claimed, plan, sent, out, dlqVars,
                    mgrVars, failures, outages>>

\* Validation succeeds and the message's outputs are decided: none (an early
\* acknowledgement: no listener language, partial or stale translation,
\* partial transcript) or n events.
Parse(w) ==
  LET e == stream[cur[w]] IN
  /\ pc[w] = "parse"
  /\ ~ Rejects(G(w), e)
  /\ \E n \in Outputs[G(w)][e.seg] :
       /\ plan' = [plan EXCEPT ![w] = n]
       /\ pc' = [pc EXCEPT ![w] = IF n = 0 THEN "ack" ELSE "emit"]
  /\ UNCHANGED <<streamVars, groupVars, cur, last, sent, out, dlqVars, mgrVars,
                 failures, outages>>

\* The validation or the processing raises, and always will for this payload.
Reject(w) ==
  /\ pc[w] = "parse"
  /\ Rejects(G(w), stream[cur[w]])
  /\ pc' = [pc EXCEPT ![w] = "dlq"]
  /\ UNCHANGED <<streamVars, groupVars, cur, last, plan, sent, out, dlqVars,
                 mgrVars, failures, outages>>

AppendOutput(w) ==
  out' = Append(out, [grp |-> G(w), id |-> cur[w], n |-> sent[w] + 1])

\* stream_bus.publish of the next output.
Emit(w) ==
  /\ pc[w] = "emit"
  /\ AppendOutput(w)
  /\ sent' = [sent EXCEPT ![w] = @ + 1]
  /\ pc' = [pc EXCEPT ![w] = IF sent[w] + 1 = plan[w] THEN "ack" ELSE "emit"]
  /\ UNCHANGED <<streamVars, groupVars, cur, last, plan, dlqVars, mgrVars,
                 failures, outages>>

\* XACK of the current message by the group.
AckCurrent(w) ==
  /\ pel' = [pel EXCEPT ![G(w)] = @ \ {cur[w]}]
  /\ claimed' = [claimed EXCEPT ![G(w)] = @ \ {cur[w]}]
  /\ UNCHANGED <<start, cursor, missed>>

\* The loop of poll_and_process goes on to the next message of the batch.
NextMessage(w) ==
  LET done == cur[w] = last[w] IN
  /\ pc' = [pc EXCEPT ![w] = IF done THEN "idle" ELSE "parse"]
  /\ cur' = [cur EXCEPT ![w] = IF done THEN 1 ELSE @ + 1]
  /\ last' = [last EXCEPT ![w] = IF done THEN 0 ELSE @]
  /\ plan' = [plan EXCEPT ![w] = 0]
  /\ sent' = [sent EXCEPT ![w] = 0]

Ack(w) ==
  /\ pc[w] = "ack"
  /\ AckCurrent(w)
  /\ NextMessage(w)
  /\ UNCHANGED <<streamVars, out, dlqVars, mgrVars, failures, outages>>

\* Something inside the try of process_message raises: the engine, or a call
\* to Redis, which may have taken effect before the client saw the error.
Fail(w) ==
  /\ failures < MaxFailures
  /\ failures' = failures + 1
  /\ pc[w] \in {"parse", "emit", "ack"}
  /\ pc' = [pc EXCEPT ![w] = "dlq"]
  /\ \/ UNCHANGED <<groupVars, out>>
     \/ pc[w] = "emit" /\ AppendOutput(w) /\ UNCHANGED groupVars
     \/ pc[w] = "ack" /\ AckCurrent(w) /\ UNCHANGED out
  /\ UNCHANGED <<streamVars, cur, last, plan, sent, dlqVars, mgrVars, outages>>

\* send_to_dlq, first half.  No worker passes the retry_count of the payload,
\* so the DLQ entry always carries the parameter's default.
AppendDlq(w) ==
  dlq' = Append(dlq, [grp |-> G(w), id |-> cur[w],
                      seg |-> stream[cur[w]].seg, rc |-> 0])

\* Mutation of DlqPublish: a failing XADD to the DLQ is swallowed.
DlqPublishSwallowed(w) ==
  /\ pc[w] = "dlq"
  /\ pc' = [pc EXCEPT ![w] = "dlqAck"]
  /\ UNCHANGED <<streamVars, groupVars, cur, last, plan, sent, out, dlqVars,
                 mgrVars, failures, outages>>

DlqPublish(w) ==
  /\ pc[w] = "dlq"
  /\ AppendDlq(w)
  /\ pc' = [pc EXCEPT ![w] = "dlqAck"]
  /\ UNCHANGED <<streamVars, groupVars, cur, last, plan, sent, out, dlqCursor,
                 dlqPel, mgrVars, failures, outages>>

\* Mutation of DlqAck: the original message is not acknowledged.
DlqAckForgotten(w) ==
  /\ pc[w] = "dlqAck"
  /\ NextMessage(w)
  /\ UNCHANGED <<streamVars, groupVars, out, dlqVars, mgrVars, failures, outages>>

\* send_to_dlq, second half: the original message is acknowledged.
DlqAck(w) ==
  /\ pc[w] = "dlqAck"
  /\ AckCurrent(w)
  /\ NextMessage(w)
  /\ UNCHANGED <<streamVars, out, dlqVars, mgrVars, failures, outages>>

\* The batch is forgotten; what was not acknowledged stays pending.
DropBatch(w, state) ==
  /\ pc' = [pc EXCEPT ![w] = state]
  /\ cur' = [cur EXCEPT ![w] = 1]
  /\ last' = [last EXCEPT ![w] = 0]
  /\ plan' = [plan EXCEPT ![w] = 0]
  /\ sent' = [sent EXCEPT ![w] = 0]

\* send_to_dlq itself raises, with or without effect: the exception leaves
\* process_message and poll_and_process, and the loop of run polls again.
DlqFail(w) ==
  /\ outages < MaxOutages
  /\ outages' = outages + 1
  /\ \/ pc[w] \in {"dlq", "dlqAck"} /\ UNCHANGED <<groupVars, dlqVars>>
     \/ pc[w] = "dlq" /\ AppendDlq(w) /\ UNCHANGED <<groupVars, dlqCursor, dlqPel>>
     \/ pc[w] = "dlqAck" /\ AckCurrent(w) /\ UNCHANGED dlqVars
  /\ DropBatch(w, "idle")
  /\ UNCHANGED <<streamVars, out, mgrVars, failures>>

\* Mutation of Crash: the unfinished batch is delivered again.
CrashRedelivers(w) ==
  /\ outages < MaxOutages
  /\ outages' = outages + 1
  /\ pc[w] # "down"
  /\ DropBatch(w, "down")
  /\ cursor' = [cursor EXCEPT ![G(w)] = IF pc[w] = "idle" THEN @ ELSE cur[w] - 1]
  /\ UNCHANGED <<streamVars, start, pel, claimed, missed, out, dlqVars, mgrVars,
                 failures>>

\* The process ends, or its task is cancelled, between two steps.  A worker
\* that starts again has a new consumer name and reads ">" as well.
Crash(w) ==
  /\ outages < MaxOutages
  /\ outages' = outages + 1
  /\ pc[w] # "down"
  /\ DropBatch(w, "down")
  /\ UNCHANGED <<streamVars, groupVars, out, dlqVars, mgrVars, failures>>

-----------------------------------------------------------------------------
(***************************************************************************)
(* Orchestrator                                                            *)
(***************************************************************************)

\* initialize_meeting_pipeline: the meeting becomes active, the DLQ group is
\* created at "0", the stream is trimmed.
InitializePipeline ==
  /\ mpc = "off"
  /\ mpc' = "idle"
  /\ TrimTo(Len(stream))
  /\ UNCHANGED <<stream, groupVars, workerVars, out, dlqVars, mcur, mlast,
                 failures, outages>>

\* Mutation of DlqPoll: the batch is read with NOACK.
DlqPollNoAck ==
  /\ mpc = "idle"
  /\ dlqCursor < Len(dlq)
  /\ mpc' = "work"
  /\ mcur' = dlqCursor + 1
  /\ mlast' = Smaller(dlqCursor + Batch, Len(dlq))
  /\ dlqCursor' = Smaller(dlqCursor + Batch, Len(dlq))
  /\ UNCHANGED <<streamVars, groupVars, workerVars, out, dlq, dlqPel, failures,
                 outages>>

\* poll_and_retry reads the next batch of the DLQ.
DlqPoll ==
  /\ mpc = "idle"
  /\ dlqCursor < Len(dlq)
  /\ mpc' = "work"
  /\ mcur' = dlqCursor + 1
  /\ mlast' = Smaller(dlqCursor + Batch, Len(dlq))
  /\ dlqCursor' = Smaller(dlqCursor + Batch, Len(dlq))
  /\ dlqPel' = dlqPel \cup (dlqCursor + 1 .. Smaller(dlqCursor + Batch, Len(dlq)))
  /\ UNCHANGED <<streamVars, groupVars, workerVars, out, dlq, failures, outages>>

AppendCopy ==
  stream' = Append(stream, [seg |-> dlq[mcur].seg, rc |-> dlq[mcur].rc + 1,
                            from |-> mcur])

\* process_dlq_event below the retry budget: the payload, with its new
\* retry_count, goes back on the original stream (XADD without MAXLEN).
Republish ==
  /\ mpc = "work"
  /\ dlq[mcur].rc < MaxRetries
  /\ Len(stream) < MaxEntries
  /\ AppendCopy
  /\ mpc' = "ack"
  /\ UNCHANGED <<floor, groupVars, workerVars, out, dlqVars, mcur, mlast,
                 failures, outages>>

NextDlqEvent ==
  /\ mpc' = IF mcur = mlast THEN "idle" ELSE "work"
  /\ mcur' = IF mcur = mlast THEN 1 ELSE mcur + 1
  /\ mlast' = IF mcur = mlast THEN 0 ELSE mlast

DlqXAck ==
  /\ dlqPel' = dlqPel \ {mcur}
  /\ UNCHANGED <<dlq, dlqCursor>>

\* Mutation of AckRetried: the acknowledgement is forgotten.
AckRetriedForgotten ==
  /\ mpc = "ack"
  /\ NextDlqEvent
  /\ UNCHANGED <<streamVars, groupVars, workerVars, out, dlqVars, failures,
                 outages>>

\* The acknowledgement after a retry.
AckRetried ==
  /\ mpc = "ack"
  /\ DlqXAck
  /\ NextDlqEvent
  /\ UNCHANGED <<streamVars, groupVars, workerVars, out, failures, outages>>

\* process_dlq_event with the budget spent: acknowledged for good.
Quarantine ==
  /\ mpc = "work"
  /\ dlq[mcur].rc >= MaxRetries
  /\ DlqXAck
  /\ NextDlqEvent
  /\ UNCHANGED <<streamVars, groupVars, workerVars, out, failures, outages>>

\* A Redis call of process_dlq_event raises, with or without effect; main
\* logs it and the rest of the batch is left pending.
RetryFail ==
  /\ outages < MaxOutages
  /\ outages' = outages + 1
  /\ \/ mpc \in {"work", "ack"} /\ UNCHANGED <<streamVars, dlqVars>>
     \/ /\ mpc = "work"
        /\ dlq[mcur].rc < MaxRetries
        /\ Len(stream) < MaxEntries
        /\ AppendCopy
        /\ UNCHANGED <<floor, dlqVars>>
     \/ /\ mpc = "ack" \/ (mpc = "work" /\ dlq[mcur].rc >= MaxRetries)
        /\ DlqXAck
        /\ UNCHANGED streamVars
  /\ mpc' = "idle"
  /\ mcur' = 1
  /\ mlast' = 0
  /\ UNCHANGED <<groupVars, workerVars, out, failures>>

\* Mutation of OrchestratorCrash: the restarted orchestrator reads its
\* unfinished batch again.
OrchestratorCrashRereads ==
  /\ outages < MaxOutages
  /\ outages' = outages + 1
  /\ mpc # "off"
  /\ mpc' = "off"
  /\ mcur' = 1
  /\ mlast' = 0
  /\ dlqCursor' = IF mpc = "idle" THEN dlqCursor ELSE mcur - 1
  /\ UNCHANGED <<streamVars, groupVars, workerVars, out, dlq, dlqPel, failures>>

\* The orchestrator restarts and has forgotten which meetings are active.
OrchestratorCrash ==
  /\ outages < MaxOutages
  /\ outages' = outages + 1
  /\ mpc # "off"
  /\ mpc' = "off"
  /\ mcur' = 1
  /\ mlast' = 0
  /\ UNCHANGED <<streamVars, groupVars, workerVars, out, dlqVars, failures>>

\* recover_stuck_messages: XAUTOCLAIM makes the orchestrator the owner of the
\* pending entries and drops those already trimmed; nobody processes them.
RecoverStuck(g, c) ==
  LET gone == {i \in c : i < floor} IN
  /\ mpc = "idle"
  /\ c # {}
  /\ c \subseteq pel[g] \ claimed[g]
  /\ pel' = [pel EXCEPT ![g] = @ \ gone]
  /\ claimed' = [claimed EXCEPT ![g] = @ \cup (c \ gone)]
  /\ missed' = [missed EXCEPT ![g] = @ \cup gone]
  /\ UNCHANGED <<streamVars, start, cursor, workerVars, out, dlqVars, mgrVars,
                 failures, outages>>

-----------------------------------------------------------------------------
Init ==
  /\ stream = << >>
  /\ floor = 1
  /\ start = [g \in Groups |-> 0]
  /\ cursor = [g \in Groups |-> -1]
  /\ pel = [g \in Groups |-> {}]
  /\ claimed = [g \in Groups |-> {}]
  /\ missed = [g \in Groups |-> {}]
  /\ pc = [w \in Workers |-> "down"]
  /\ cur = [w \in Workers |-> 1]
  /\ last = [w \in Workers |-> 0]
  /\ plan = [w \in Workers |-> 0]
  /\ sent = [w \in Workers |-> 0]
  /\ out = << >>
  /\ dlq = << >>
  /\ dlqCursor = 0
  /\ dlqPel = {}
  /\ mpc = "off"
  /\ mcur = 1
  /\ mlast = 0
  /\ failures = 0
  /\ outages = 0

\* What a worker does when nothing goes wrong, or only its payload does.
WorkerStep(w) ==
  \/ Poll(w)
  \/ Parse(w)
  \/ Reject(w)
  \/ Emit(w)
  \/ Ack(w)
  \/ DlqPublish(w)
  \/ DlqAck(w)

\* One turn of the orchestrator's loop over the meeting's DLQ.
RetryStep ==
  \/ DlqPoll
  \/ Republish
  \/ AckRetried
  \/ Quarantine

Next ==
  \/ \E s \in Segments : Publish(s)
  \/ \E w \in Workers : Start(w) \/ WorkerStep(w)
  \/ \E w \in Workers : Fail(w) \/ DlqFail(w) \/ Crash(w)
  \/ InitializePipeline
  \/ RetryStep
  \/ RetryFail
  \/ OrchestratorCrash
  \/ \E g \in Groups : \E c \in SUBSET pel[g] : RecoverStuck(g, c)

Spec == Init /\ [][Next]_vars

\* run loops until it is stopped and a stopped pod is started again; main
\* polls the DLQ of its active meetings every second.  Nothing in production
\* calls initialize_meeting_pipeline, so no fairness is assumed of it.
Fairness ==
  /\ \A w \in Workers : WF_vars(Start(w)) /\ WF_vars(WorkerStep(w))
  /\ WF_vars(RetryStep)

FairSpec == Spec /\ Fairness

-----------------------------------------------------------------------------
(***************************************************************************)
(* Properties                                                              *)
(***************************************************************************)
WorkerStates == {"down", "idle", "parse", "emit", "ack", "dlq", "dlqAck"}

\* The values the state of the bus, the workers and the retry manager ranges
\* over.
TypeOK ==
  /\ stream \in Seq(Entry)
  /\ floor \in Nat \ {0}
  /\ start \in [Groups -> Nat]
  /\ cursor \in [Groups -> Int]
  /\ pel \in [Groups -> SUBSET Nat]
  /\ claimed \in [Groups -> SUBSET Nat]
  /\ missed \in [Groups -> SUBSET Nat]
  /\ pc \in [Workers -> WorkerStates]
  /\ cur \in [Workers -> Nat]
  /\ last \in [Workers -> Nat]
  /\ plan \in [Workers -> Nat]
  /\ sent \in [Workers -> Nat]
  /\ out \in Seq(Output)
  /\ dlq \in Seq(DlqEntry)
  /\ dlqCursor \in Nat
  /\ dlqPel \in SUBSET Nat
  /\ mpc \in {"off", "idle", "work", "ack"}
  /\ mcur \in Nat
  /\ mlast \in Nat
  /\ failures \in Nat
  /\ outages \in Nat

\* All the group may owe for entry i is done: every event it decided on is
\* published, or the entry is in the DLQ.
Settled(g, i) ==
  \/ \E n \in Outputs[g][stream[i].seg] : \A k \in 1 .. n : Emitted(g, i, k)
  \/ InDlq(g, i)

\* Invariant #4 of the project, at-least-once delivery, as far as the workers
\* keep it: an entry delivered to a group is never gone without a trace.  It
\* is pending, or its events are published, or it is in the DLQ, whatever
\* crashes and Redis failures come between process_message's calls; only
\* trimming takes entries away.
NoSilentLoss ==
  \A g \in Groups : \A i \in start[g] + 1 .. cursor[g] :
    i \in pel[g] \/ i \in missed[g] \/ Settled(g, i)

\* MAXLEN costs a lagging group events only when it is a whole retention
\* behind: an entry lost by trimming has MaxLen newer ones after it.
LossNeedsOverflow ==
  \A g \in Groups : \A i \in missed[g] : Len(stream) >= i + MaxLen

\* No entry of the stream makes a group publish the same event twice: two
\* workers never process the same entry, none processes it again after a
\* crash, a failed call or a claim.  (Duplicates downstream are always new
\* stream entries, put there by the retry manager.)
AtMostOncePerEntry ==
  \A j, k \in DOMAIN out : out[j] = out[k] => j = k

\* A group with a single worker publishes in stream order, and the events of
\* one entry in the order the worker makes them, across crashes and failures.
EmissionOrder ==
  \A j, k \in DOMAIN out :
    (/\ j < k
     /\ out[j].grp = out[k].grp
     /\ \A v, w \in Workers : G(v) = out[j].grp /\ G(w) = out[j].grp => v = w)
    => \/ out[j].id < out[k].id
       \/ out[j].id = out[k].id /\ out[j].n < out[k].n

\* A failure is retried at most once: no DLQ entry has two copies on the
\* stream, although xadd and the acknowledgement of the DLQ entry are two
\* calls and the orchestrator may crash between them.
RetriedAtMostOnce ==
  \A i, j \in DOMAIN stream :
    stream[i].from = stream[j].from /\ stream[i].from # 0 => i = j

\* The retry manager acknowledges a DLQ entry only when a copy of it is on
\* the stream or its retry budget is spent.
DlqAccounted ==
  \A k \in 1 .. dlqCursor :
    \/ k \in dlqPel
    \/ dlq[k].rc >= MaxRetries
    \/ \E i \in DOMAIN stream : stream[i].from = k

\* A message delivered to a group does not stay pending, as long as nothing
\* escapes process_message: the worker that read it acknowledges it.
PendingSettles ==
  \A g \in Groups : \A i \in 1 .. MaxEntries : i \in pel[g] ~> i \notin pel[g]

\* The retry manager gets done with every DLQ entry of a meeting it watches.
DlqDrains ==
  \A k \in 1 .. MaxEntries :
    (k \in DOMAIN dlq /\ mpc # "off") ~> (k <= dlqCursor /\ k \notin dlqPel)

Arrived(g, s) ==
  \E i \in DOMAIN stream : stream[i].seg = s /\ cursor[g] >= 0 /\ i > start[g]

Served(g, s) ==
  \E i \in DOMAIN stream :
    /\ stream[i].seg = s
    /\ i > start[g]
    /\ \E n \in Outputs[g][s] : \A k \in 1 .. n : Emitted(g, i, k)

\* What the DLQ is for: a group that accepts retried payloads publishes what
\* every segment calls for in spite of transient failures, once the
\* orchestrator watches the meeting.
EverySegmentServed ==
  \A g \in Groups : \A s \in Segments :
    (Arrived(g, s) /\ mpc # "off") ~> Served(g, s)

\* dlq_retry.py:3-4, GA_RELEASE_CERTIFICATION.md:97: a failing event is
\* retried at most MaxRetries times and then quarantined.
RetryBudget ==
  \A s \in Segments :
    Cardinality({i \in DOMAIN stream : stream[i].seg = s}) <= MaxRetries + 1

\* bus.py:35, "consumer groups and DLQ isolation": what one group fails on is
\* not made to fail in another.
DlqIsolation ==
  \A k \in DOMAIN dlq :
    LET e == stream[dlq[k].id] IN
    e.from # 0 => dlq[e.from].grp = dlq[k].grp

\* disaster-recovery.md:56: pending messages of a crashed worker are claimed
\* by the orchestrator, so that none stays pending for ever.
PendingIsRecovered ==
  \A g \in Groups : \A i \in 1 .. MaxEntries : i \in pel[g] ~> i \notin pel[g]

\* Every fairness the runbook asks for: the pipeline is initialised and the
\* orchestrator keeps claiming what is pending.
RecoverySpec ==
  /\ FairSpec
  /\ WF_vars(InitializePipeline)
  /\ \A g \in Groups : WF_vars(\E c \in SUBSET pel[g] : RecoverStuck(g, c))
=============================================================================
