------------------------ MODULE StreamPipelineProofs ------------------------
(***************************************************************************)
(* Theorems about StreamPipeline for every set of groups, workers and      *)
(* segments, every batch size, retention and retry budget.                 *)
(***************************************************************************)
EXTENDS StreamPipelineInv, TLAPS

\* Arithmetic of a batch and of a plan: what is not at the end has a next.
LEMMA StrictlyBelow ==
  /\ \A a, b \in Int : a <= b /\ a # b => a + 1 <= b
  /\ \A a, b \in Nat : a < b /\ a + 1 # b => a + 1 < b
OBVIOUS

\* The entries a worker or the retry manager is working on exist.
LEMMA CurrentExists ==
  ASSUME TypeOK, CursorInv, BatchInv, RetryInv
  PROVE  /\ \A w \in Workers : Busy(w) => /\ cur[w] \in 1 .. Len(stream)
                                          /\ stream[cur[w]] \in Entry
                                          /\ stream[cur[w]].seg \in Segments
         /\ mpc \in {"work", "ack"} => dlq[mcur] \in DlqEntry
<1> USE PipelineAssumption DEF TypeOK
<1>1. ASSUME NEW w \in Workers, Busy(w)
      PROVE  /\ cur[w] \in 1 .. Len(stream)
             /\ stream[cur[w]] \in Entry
             /\ stream[cur[w]].seg \in Segments
  <2>1. G(w) \in Groups
    BY DEF G
  <2>2. /\ start[G(w)] < cur[w] /\ cur[w] <= last[w] /\ last[w] <= cursor[G(w)]
        /\ cursor[G(w)] <= Len(stream)
    BY <1>1, <2>1 DEF CursorInv, BatchInv
  <2>3. cur[w] \in 1 .. Len(stream)
    BY <2>1, <2>2
  <2>4. stream[cur[w]] \in Entry
    BY <2>3
  <2>5. QED
    BY <2>3, <2>4 DEF Entry
<1>2. ASSUME mpc \in {"work", "ack"}
      PROVE  dlq[mcur] \in DlqEntry
  BY <1>2 DEF RetryInv
<1>3. QED
  BY <1>1, <1>2

\* Every step keeps the variables within their types.
LEMMA TypeStep ==
  ASSUME TypeOK, CursorInv, BatchInv, RetryInv, [Next]_vars
  PROVE  TypeOK'
<1> USE PipelineAssumption
<1>0. GroupOf \in [Workers -> Groups] /\ \A w \in Workers : G(w) \in Groups
  BY DEF G
<1>1. ASSUME NEW s \in Segments, Publish(s)
      PROVE  TypeOK'
  <2>1. [seg |-> s, rc |-> 0, from |-> 0] \in Entry
    BY DEF Entry
  <2>2. floor' \in Nat \ {0}
    BY <1>1 DEF Publish, TrimTo, Larger, TypeOK
  <2>3. QED
    BY <1>1, <2>1, <2>2 DEF Publish, TypeOK, groupVars, workerVars, dlqVars, mgrVars
<1>2. ASSUME NEW w \in Workers, Start(w)
      PROVE  TypeOK'
  <2>1. pc' \in [Workers -> WorkerStates]
    BY <1>2 DEF Start, TypeOK, WorkerStates
  <2>2. start' \in [Groups -> Nat] /\ cursor' \in [Groups -> Int]
    <3>1. /\ Len(stream) \in Nat /\ Len(stream) \in Int
          /\ start \in [Groups -> Nat]
          /\ cursor \in [Groups -> Int]
      BY DEF TypeOK
    <3>2. CASE cursor[G(w)] = -1
      <4>1. /\ start' = [start EXCEPT ![G(w)] = Len(stream)]
            /\ cursor' = [cursor EXCEPT ![G(w)] = Len(stream)]
        BY <1>2, <3>2 DEF Start
      <4>2. start' \in [Groups -> Nat]
        BY <3>1, <4>1
      <4>3. cursor' \in [Groups -> Int]
        BY <3>1, <4>1
      <4>4. QED
        BY <4>2, <4>3
    <3>3. CASE cursor[G(w)] # -1
      BY <1>2, <3>3 DEF Start, TypeOK
    <3>4. QED
      BY <3>2, <3>3
  <2>3. QED
    BY <1>2, <2>1, <2>2 DEF Start, TypeOK, streamVars, dlqVars, mgrVars
<1>3. ASSUME NEW w \in Workers, Poll(w)
      PROVE  TypeOK'
  <2> DEFINE first == Larger(cursor[G(w)] + 1, floor)
             final == Smaller(first + Batch - 1, Len(stream))
  <2>0. cursor[G(w)] \in Nat
    BY <1>0, <1>3 DEF Poll, BatchInv, TypeOK
  <2>1. first \in Nat \ {0} /\ final \in Nat
    <3>1. floor \in Nat /\ Len(stream) \in Nat
      BY DEF TypeOK
    <3>2. first \in Nat \ {0}
      BY <2>0, <3>1 DEF Larger
    <3>3. final \in Nat
      BY <3>1, <3>2 DEF Smaller
    <3>4. QED
      BY <3>2, <3>3
  <2>2. /\ pc' \in [Workers -> WorkerStates]
        /\ cur' \in [Workers -> Nat]
        /\ last' \in [Workers -> Nat]
        /\ cursor' \in [Groups -> Int]
    <3>1. /\ pc' = [pc EXCEPT ![w] = "parse"]
          /\ cur' = [cur EXCEPT ![w] = first]
          /\ last' = [last EXCEPT ![w] = final]
          /\ cursor' = [cursor EXCEPT ![G(w)] = final]
      BY <1>3 DEF Poll
    <3> HIDE DEF first, final
    <3>2. /\ pc \in [Workers -> WorkerStates] /\ cur \in [Workers -> Nat]
          /\ last \in [Workers -> Nat] /\ cursor \in [Groups -> Int]
      BY DEF TypeOK
    <3>3. pc' \in [Workers -> WorkerStates]
      BY <3>1, <3>2 DEF WorkerStates
    <3>4. cur' \in [Workers -> Nat] /\ last' \in [Workers -> Nat]
      BY <2>1, <3>1, <3>2
    <3>5. cursor' \in [Groups -> Int]
      BY <1>0, <2>1, <3>1, <3>2
    <3>6. QED
      BY <3>3, <3>4, <3>5
  <2>3. missed' \in [Groups -> SUBSET Nat]
    <3>1. cursor[G(w)] + 1 .. first - 1 \subseteq Nat
      BY <2>0, <2>1
    <3>2. QED
      BY <1>0, <1>3, <3>1 DEF Poll, TypeOK
  <2>4. pel' \in [Groups -> SUBSET Nat]
    <3>1. first .. final \subseteq Nat
      BY <2>1
    <3>2. QED
      BY <1>0, <1>3, <3>1 DEF Poll, TypeOK
  <2>5. QED
    BY <1>3, <2>2, <2>3, <2>4 DEF Poll, TypeOK, streamVars, dlqVars, mgrVars
<1>4. ASSUME NEW w \in Workers, Parse(w)
      PROVE  TypeOK'
  <2>1. PICK n \in Outputs[G(w)][stream[cur[w]].seg] :
          /\ plan' = [plan EXCEPT ![w] = n]
          /\ pc' = [pc EXCEPT ![w] = IF n = 0 THEN "ack" ELSE "emit"]
    BY <1>4 DEF Parse
  <2>2. stream[cur[w]].seg \in Segments
    BY <1>4, CurrentExists DEF Parse, Busy
  <2>3. n \in Nat
    BY <1>0, <2>1, <2>2
  <2>4. QED
    BY <1>4, <2>1, <2>3 DEF Parse, TypeOK, WorkerStates, streamVars, groupVars, dlqVars, mgrVars
<1>5. ASSUME NEW w \in Workers, Reject(w)
      PROVE  TypeOK'
  BY <1>5 DEF Reject, TypeOK, WorkerStates, streamVars, groupVars, dlqVars, mgrVars
<1>6. ASSUME NEW w \in Workers, AppendOutput(w)
      PROVE  out' \in Seq(Output)
  <2>1. [grp |-> G(w), id |-> cur[w], n |-> sent[w] + 1] \in Output
    BY <1>0 DEF Output, TypeOK
  <2>2. QED
    BY <1>6, <2>1 DEF AppendOutput, TypeOK
<1>7. ASSUME NEW w \in Workers, Emit(w)
      PROVE  TypeOK'
  <2>1. pc' \in [Workers -> WorkerStates] /\ sent' \in [Workers -> Nat]
    BY <1>7 DEF Emit, TypeOK, WorkerStates
  <2>2. out' \in Seq(Output)
    BY <1>6, <1>7 DEF Emit
  <2>3. QED
    BY <1>7, <2>1, <2>2 DEF Emit, TypeOK, streamVars, groupVars, dlqVars, mgrVars
<1>8. ASSUME NEW w \in Workers, AckCurrent(w)
      PROVE  /\ pel' \in [Groups -> SUBSET Nat]
             /\ claimed' \in [Groups -> SUBSET Nat]
             /\ UNCHANGED <<start, cursor, missed>>
  BY <1>0, <1>8 DEF AckCurrent, TypeOK
<1>9. ASSUME NEW w \in Workers, NextMessage(w)
      PROVE  /\ pc' \in [Workers -> WorkerStates]
             /\ cur' \in [Workers -> Nat]
             /\ last' \in [Workers -> Nat]
             /\ plan' \in [Workers -> Nat]
             /\ sent' \in [Workers -> Nat]
  BY <1>9 DEF NextMessage, TypeOK, WorkerStates
<1>10. ASSUME NEW w \in Workers, Ack(w)
       PROVE  TypeOK'
  BY <1>8, <1>9, <1>10 DEF Ack, TypeOK, streamVars, dlqVars, mgrVars
<1>11. ASSUME NEW w \in Workers, Fail(w)
       PROVE  TypeOK'
  <2>1. /\ pc' \in [Workers -> WorkerStates]
        /\ failures' \in Nat
    BY <1>11 DEF Fail, TypeOK, WorkerStates
  <2>2. /\ out' \in Seq(Output)
        /\ pel' \in [Groups -> SUBSET Nat]
        /\ claimed' \in [Groups -> SUBSET Nat]
        /\ UNCHANGED <<start, cursor, missed>>
    BY <1>6, <1>8, <1>11 DEF Fail, TypeOK, groupVars
  <2>3. QED
    BY <1>11, <2>1, <2>2 DEF Fail, TypeOK, streamVars, dlqVars, mgrVars
<1>12. ASSUME NEW w \in Workers, AppendDlq(w), Busy(w)
       PROVE  dlq' \in Seq(DlqEntry)
  <2>1. stream[cur[w]].seg \in Segments
    BY <1>12, CurrentExists
  <2>2. [grp |-> G(w), id |-> cur[w], seg |-> stream[cur[w]].seg, rc |-> 0] \in DlqEntry
    BY <1>0, <2>1 DEF DlqEntry, TypeOK
  <2>3. QED
    BY <1>12, <2>2 DEF AppendDlq, TypeOK
<1>13. ASSUME NEW w \in Workers, DlqPublish(w)
       PROVE  TypeOK'
  BY <1>12, <1>13 DEF DlqPublish, Busy, TypeOK, WorkerStates, streamVars, groupVars, mgrVars
<1>14. ASSUME NEW w \in Workers, DlqAck(w)
       PROVE  TypeOK'
  BY <1>8, <1>9, <1>14 DEF DlqAck, TypeOK, streamVars, dlqVars, mgrVars
<1>15. ASSUME NEW w \in Workers, NEW st \in WorkerStates, DropBatch(w, st)
       PROVE  /\ pc' \in [Workers -> WorkerStates]
              /\ cur' \in [Workers -> Nat]
              /\ last' \in [Workers -> Nat]
              /\ plan' \in [Workers -> Nat]
              /\ sent' \in [Workers -> Nat]
  BY <1>15 DEF DropBatch, TypeOK
<1>16. ASSUME NEW w \in Workers, DlqFail(w)
       PROVE  TypeOK'
  <2>1. /\ pc' \in [Workers -> WorkerStates]
        /\ cur' \in [Workers -> Nat]
        /\ last' \in [Workers -> Nat]
        /\ plan' \in [Workers -> Nat]
        /\ sent' \in [Workers -> Nat]
    <3>1. "idle" \in WorkerStates /\ DropBatch(w, "idle")
      BY <1>16 DEF DlqFail, WorkerStates
    <3>2. QED
      BY <1>15, <3>1
  <2>2. /\ dlq' \in Seq(DlqEntry)
        /\ UNCHANGED <<dlqCursor, dlqPel>>
    BY <1>12, <1>16 DEF DlqFail, Busy, TypeOK, dlqVars
  <2>3. /\ pel' \in [Groups -> SUBSET Nat]
        /\ claimed' \in [Groups -> SUBSET Nat]
        /\ UNCHANGED <<start, cursor, missed>>
    <3>1. CASE AckCurrent(w)
      BY <1>8, <3>1
    <3>2. CASE UNCHANGED groupVars
      BY <3>2 DEF TypeOK, groupVars
    <3>3. QED
      BY <1>16, <3>1, <3>2 DEF DlqFail, groupVars, dlqVars
  <2>4. outages' \in Nat /\ UNCHANGED <<stream, floor, out, mpc, mcur, mlast, failures>>
    BY <1>16 DEF DlqFail, streamVars, mgrVars, TypeOK
  <2>5. QED
    BY <2>1, <2>2, <2>3, <2>4 DEF TypeOK
<1>17. ASSUME NEW w \in Workers, Crash(w)
       PROVE  TypeOK'
  <2>1. "down" \in WorkerStates /\ DropBatch(w, "down") /\ outages' \in Nat
    BY <1>17 DEF Crash, WorkerStates, TypeOK
  <2>2. QED
    BY <1>15, <1>17, <2>1 DEF Crash, TypeOK, streamVars, groupVars, dlqVars, mgrVars
<1>18. ASSUME InitializePipeline
       PROVE  TypeOK'
  <2>1. floor' \in Nat \ {0}
    BY <1>18 DEF InitializePipeline, TrimTo, Larger, TypeOK
  <2>2. QED
    BY <1>18, <2>1 DEF InitializePipeline, TypeOK, groupVars, workerVars, dlqVars
<1>19. ASSUME DlqPoll
       PROVE  TypeOK'
  <2>1. Smaller(dlqCursor + Batch, Len(dlq)) \in Nat
    BY DEF Smaller, TypeOK
  <2>2. dlqCursor + 1 .. Smaller(dlqCursor + Batch, Len(dlq)) \subseteq Nat
    BY <2>1 DEF TypeOK
  <2>3. dlqPel' \in SUBSET Nat
    BY <1>19, <2>2 DEF DlqPoll, TypeOK
  <2>4. QED
    BY <1>19, <2>1, <2>3 DEF DlqPoll, TypeOK, streamVars, groupVars, workerVars
<1>20. ASSUME AppendCopy, mpc \in {"work", "ack"}
       PROVE  stream' \in Seq(Entry)
  <2>1. dlq[mcur] \in DlqEntry
    BY <1>20, CurrentExists
  <2>2. [seg |-> dlq[mcur].seg, rc |-> dlq[mcur].rc + 1, from |-> mcur] \in Entry
    <3>1. dlq[mcur].seg \in Segments /\ dlq[mcur].rc \in Nat
      BY <2>1 DEF DlqEntry
    <3>2. mcur \in Nat /\ dlq[mcur].rc + 1 \in Nat
      BY <3>1 DEF TypeOK
    <3>3. QED
      BY <3>1, <3>2 DEF Entry
  <2>3. QED
    BY <1>20, <2>2 DEF AppendCopy, TypeOK
<1>21. ASSUME Republish
       PROVE  TypeOK'
  BY <1>20, <1>21 DEF Republish, TypeOK, groupVars, workerVars, dlqVars
<1>22. ASSUME AckRetried \/ Quarantine
       PROVE  TypeOK'
  <2>1. mpc' \in {"off", "idle", "work", "ack"} /\ mcur' \in Nat /\ mlast' \in Nat
    BY <1>22 DEF AckRetried, Quarantine, NextDlqEvent, TypeOK
  <2>2. dlqPel' \in SUBSET Nat /\ UNCHANGED <<dlq, dlqCursor>>
    BY <1>22 DEF AckRetried, Quarantine, DlqXAck, TypeOK
  <2>3. QED
    BY <1>22, <2>1, <2>2 DEF AckRetried, Quarantine, TypeOK, streamVars, groupVars, workerVars
<1>23. ASSUME RetryFail
       PROVE  TypeOK'
  <2>1. /\ stream' \in Seq(Entry)
        /\ UNCHANGED <<floor, dlq, dlqCursor>>
        /\ dlqPel' \in SUBSET Nat
    BY <1>20, <1>23 DEF RetryFail, DlqXAck, TypeOK, streamVars, dlqVars
  <2>2. QED
    BY <1>23, <2>1 DEF RetryFail, TypeOK, groupVars, workerVars
<1>24. ASSUME OrchestratorCrash
       PROVE  TypeOK'
  BY <1>24 DEF OrchestratorCrash, TypeOK, streamVars, groupVars, workerVars, dlqVars
<1>25. ASSUME NEW g \in Groups, NEW c \in SUBSET pel[g], RecoverStuck(g, c)
       PROVE  TypeOK'
  BY <1>25 DEF RecoverStuck, TypeOK, streamVars, workerVars, dlqVars, mgrVars
<1>26. ASSUME UNCHANGED vars
       PROVE  TypeOK'
  BY <1>26 DEF TypeOK, vars, streamVars, groupVars, workerVars, dlqVars, mgrVars
<1>27. QED
  BY <1>1, <1>2, <1>3, <1>4, <1>5, <1>7, <1>10, <1>11, <1>13, <1>14, <1>16, <1>17,
     <1>18, <1>19, <1>21, <1>22, <1>23, <1>24, <1>25, <1>26
     DEF Next, WorkerStep, RetryStep

\* What is appended to a sequence leaves the elements before it in place.
LEMMA AppendGrows ==
  ASSUME NEW S, NEW seq \in Seq(S), NEW e \in S
  PROVE  /\ Len(Append(seq, e)) = Len(seq) + 1
         /\ \A i \in 1 .. Len(seq) : Append(seq, e)[i] = seq[i]
         /\ Append(seq, e)[Len(seq) + 1] = e
         /\ DOMAIN Append(seq, e) = 1 .. Len(seq) + 1
         /\ DOMAIN seq = 1 .. Len(seq)
OBVIOUS

\* An entry of the stream, once added, stays what it is: trimming moves floor.
LEMMA StreamGrows ==
  ASSUME TypeOK, CursorInv, BatchInv, RetryInv, [Next]_vars
  PROVE  /\ Len(stream) <= Len(stream')
         /\ \A i \in 1 .. Len(stream) : stream'[i] = stream[i]
<1> USE DEF TypeOK
<1>1. ASSUME NEW e \in Entry, stream' = Append(stream, e)
      PROVE  /\ Len(stream) <= Len(stream')
             /\ \A i \in 1 .. Len(stream) : stream'[i] = stream[i]
  BY <1>1, AppendGrows
<1>2. CASE UNCHANGED stream
  BY <1>2
<1>3. CASE \E s \in Segments : Publish(s)
  <2>1. PICK s \in Segments : stream' = Append(stream, [seg |-> s, rc |-> 0, from |-> 0])
    BY <1>3 DEF Publish
  <2>2. [seg |-> s, rc |-> 0, from |-> 0] \in Entry
    BY DEF Entry
  <2>3. QED
    BY <1>1, <2>1, <2>2
<1>4. CASE mpc \in {"work", "ack"} /\ AppendCopy
  <2>1. dlq[mcur] \in DlqEntry
    BY <1>4, CurrentExists
  <2>2. dlq[mcur].seg \in Segments /\ dlq[mcur].rc \in Nat
    BY <2>1 DEF DlqEntry
  <2>3. [seg |-> dlq[mcur].seg, rc |-> dlq[mcur].rc + 1, from |-> mcur] \in Entry
    BY <2>2 DEF Entry
  <2>4. QED
    BY <1>1, <1>4, <2>3 DEF AppendCopy
<1>5. QED
  BY <1>2, <1>3, <1>4
     DEF Next, WorkerStep, RetryStep, vars, streamVars, Start, Poll, Parse, Reject, Emit, Ack,
         Fail, DlqPublish, DlqAck, DlqFail, Crash, InitializePipeline, DlqPoll,
         Republish, AckRetried, Quarantine, RetryFail, OrchestratorCrash, RecoverStuck

\* Steps of the upstream stage and of the orchestrator leave the workers, what
\* they were delivered and what they published alone.
LEMMA OtherSteps ==
  ASSUME [Next]_vars
  PROVE  \/ UNCHANGED <<start, cursor, workerVars, out, dlq>>
         \/ \E w \in Workers : Start(w) \/ WorkerStep(w) \/ Fail(w) \/ DlqFail(w) \/ Crash(w)
BY DEF Next, RetryStep, vars, groupVars, workerVars, dlqVars, Publish,
       InitializePipeline, DlqPoll, Republish, AckRetried, Quarantine, RetryFail,
       OrchestratorCrash, RecoverStuck, DlqXAck

\* A step of one worker leaves the local state of the others alone.
LEMMA Frame ==
  ASSUME TypeOK, NEW w \in Workers,
         Start(w) \/ WorkerStep(w) \/ Fail(w) \/ DlqFail(w) \/ Crash(w),
         NEW v \in Workers, v # w
  PROVE  /\ pc'[v] = pc[v]
         /\ cur'[v] = cur[v]
         /\ last'[v] = last[v]
         /\ plan'[v] = plan[v]
         /\ sent'[v] = sent[v]
BY DEF TypeOK, WorkerStep, Start, Poll, Parse, Reject, Emit, Ack, Fail, DlqPublish,
       DlqAck, DlqFail, Crash, NextMessage, DropBatch, workerVars

\* What Poll reads: the ids first .. final, all of them in the stream and
\* after the group's cursor.
LEMMA PollRange ==
  ASSUME TypeOK, CursorInv, BatchInv, NEW w \in Workers, Poll(w)
  PROVE  \E first, final \in Nat :
           /\ G(w) \in Groups
           /\ cursor[G(w)] \in Nat
           /\ start[G(w)] <= cursor[G(w)]
           /\ cursor[G(w)] < first
           /\ floor <= first
           /\ first <= final
           /\ final <= Len(stream)
           /\ first = cursor[G(w)] + 1 \/ first = floor
           /\ pc[w] = "idle"
           /\ pc' = [pc EXCEPT ![w] = "parse"]
           /\ cur' = [cur EXCEPT ![w] = first]
           /\ last' = [last EXCEPT ![w] = final]
           /\ cursor' = [cursor EXCEPT ![G(w)] = final]
           /\ pel' = [pel EXCEPT ![G(w)] = @ \cup (first .. final)]
           /\ missed' = [missed EXCEPT ![G(w)] = @ \cup (cursor[G(w)] + 1 .. first - 1)]
           /\ UNCHANGED <<stream, start, plan, sent, out, dlq>>
<1> USE PipelineAssumption
<1> DEFINE first == Larger(cursor[G(w)] + 1, floor)
           final == Smaller(first + Batch - 1, Len(stream))
<1>1. G(w) \in Groups
  BY DEF G
<1>2. cursor[G(w)] \in Nat /\ start[G(w)] <= cursor[G(w)]
  <2>1. pc[w] # "down"
    BY DEF Poll
  <2>2. cursor[G(w)] >= 0 /\ cursor[G(w)] \in Int
    BY <1>1, <2>1 DEF BatchInv, TypeOK
  <2>3. QED
    BY <1>1, <2>2 DEF CursorInv
<1>3. /\ first \in Nat
      /\ cursor[G(w)] < first
      /\ floor <= first
      /\ first = cursor[G(w)] + 1 \/ first = floor
  <2>1. floor \in Nat
    BY DEF TypeOK
  <2>2. QED
    BY <1>2, <2>1 DEF Larger
<1>4. /\ pc[w] = "idle"
      /\ first <= Len(stream)
      /\ pc' = [pc EXCEPT ![w] = "parse"]
      /\ cur' = [cur EXCEPT ![w] = first]
      /\ last' = [last EXCEPT ![w] = final]
      /\ cursor' = [cursor EXCEPT ![G(w)] = final]
      /\ pel' = [pel EXCEPT ![G(w)] = @ \cup (first .. final)]
      /\ missed' = [missed EXCEPT ![G(w)] = @ \cup (cursor[G(w)] + 1 .. first - 1)]
      /\ UNCHANGED <<stream, start, plan, sent, out, dlq>>
  BY DEF Poll, streamVars, dlqVars
<1>5. /\ final \in Nat
      /\ first <= final
      /\ final <= Len(stream)
  <2>1. Len(stream) \in Nat
    BY DEF TypeOK
  <2>2. QED
    <3>1. first \in Nat \ {0}
      BY <1>2, <1>3
    <3> HIDE DEF first
    <3>2. QED
      BY <1>4, <2>1, <3>1 DEF Smaller
<1> HIDE DEF first, final
<1>6. QED
  BY <1>1, <1>2, <1>3, <1>4, <1>5

\* Cursors only move forward, and only over entries the stream has.
LEMMA CursorGrows ==
  ASSUME TypeOK, CursorInv, BatchInv, RetryInv, [Next]_vars, NEW g \in Groups
  PROVE  /\ cursor[g] <= cursor'[g]
         /\ cursor[g] >= 0 => start'[g] = start[g]
         /\ start'[g] <= Len(stream')
         /\ cursor'[g] <= Len(stream')
         /\ cursor'[g] = -1 \/ start'[g] <= cursor'[g]
<1> USE PipelineAssumption
<1>1. /\ Len(stream) \in Nat /\ Len(stream') \in Nat /\ Len(stream) <= Len(stream')
      /\ cursor[g] \in Int /\ start[g] \in Nat
      /\ start[g] <= Len(stream) /\ cursor[g] <= Len(stream)
      /\ cursor[g] = -1 \/ start[g] <= cursor[g]
  <2>1. TypeOK' /\ Len(stream) <= Len(stream')
    BY StreamGrows, TypeStep
  <2>2. Len(stream) \in Nat /\ Len(stream') \in Nat
    <3>1. stream \in Seq(Entry)
      BY DEF TypeOK
    <3>2. stream' \in Seq(Entry)
      BY <2>1 DEF TypeOK
    <3>3. QED
      BY <3>1, <3>2
  <2>3. QED
    BY <2>1, <2>2 DEF CursorInv, TypeOK
<1>2. CASE UNCHANGED <<start, cursor>>
  BY <1>1, <1>2
<1>3. ASSUME NEW w \in Workers, Start(w)
      PROVE  \/ cursor'[g] = cursor[g] /\ start'[g] = start[g]
             \/ cursor[g] = -1 /\ cursor'[g] = Len(stream) /\ start'[g] = Len(stream)
  <2>1. CASE G(w) = g /\ cursor[g] = -1
    BY <1>3, <2>1 DEF Start, TypeOK
  <2>2. CASE G(w) # g \/ cursor[g] # -1
    BY <1>3, <2>2 DEF Start, TypeOK
  <2>3. QED
    BY <2>1, <2>2
<1>4. ASSUME NEW w \in Workers, Poll(w)
      PROVE  /\ start'[g] = start[g]
             /\ \/ cursor'[g] = cursor[g]
                \/ cursor'[g] <= Len(stream) /\ cursor'[g] > cursor[g] /\ cursor[g] >= 0
                   /\ cursor'[g] \in Nat
  <2>1. PICK first, final \in Nat :
           /\ cursor[G(w)] \in Nat
           /\ cursor[G(w)] < first
           /\ first <= final
           /\ final <= Len(stream)
           /\ cursor' = [cursor EXCEPT ![G(w)] = final]
           /\ UNCHANGED start
    BY <1>4, PollRange
  <2>2. QED
    BY <2>1 DEF TypeOK
<1>5. UNCHANGED <<start, cursor>> \/ \E w \in Workers : Start(w) \/ Poll(w)
  <2>1. ASSUME NEW w \in Workers, WorkerStep(w) \/ Fail(w) \/ DlqFail(w) \/ Crash(w), ~ Poll(w)
        PROVE  UNCHANGED <<start, cursor>>
    BY <2>1 DEF WorkerStep, Parse, Reject, Emit, Ack, Fail, DlqPublish, DlqAck, DlqFail,
                Crash, AckCurrent, groupVars
  <2>2. QED
    BY <2>1, OtherSteps
<1>6. QED
  BY <1>1, <1>2, <1>3, <1>4, <1>5

\* Every step preserves CursorInv.
LEMMA CursorStep ==
  ASSUME TypeOK, CursorInv, BatchInv, RetryInv, [Next]_vars
  PROVE  CursorInv'
<1> USE PipelineAssumption
<1>1. Len(stream) \in Nat /\ Len(stream') \in Nat /\ Len(stream) <= Len(stream') /\ floor \in Nat
      /\ floor <= Larger(1, Len(stream))
  <2>1. TypeOK' /\ Len(stream) <= Len(stream')
    BY StreamGrows, TypeStep
  <2>2. stream \in Seq(Entry) /\ stream' \in Seq(Entry) /\ floor \in Nat
    BY <2>1 DEF TypeOK
  <2>3. floor <= Larger(1, Len(stream))
    BY DEF CursorInv
  <2>4. Len(stream) \in Nat /\ Len(stream') \in Nat
    BY <2>2
  <2>5. QED
    BY <2>1, <2>2, <2>3, <2>4
<1>2. floor' <= Larger(1, Len(stream'))
  <2>1. CASE UNCHANGED floor
    BY <1>1, <2>1 DEF Larger
  <2>2. CASE \E s \in Segments : Publish(s)
    <3>1. TrimTo(Len(stream) + 1) /\ Len(stream') = Len(stream) + 1
      <4>1. PICK s \in Segments :
              /\ TrimTo(Len(stream) + 1)
              /\ stream' = Append(stream, [seg |-> s, rc |-> 0, from |-> 0])
        BY <2>2 DEF Publish
      <4>2. [seg |-> s, rc |-> 0, from |-> 0] \in Entry
        BY DEF Entry
      <4>3. QED
        BY <4>1, <4>2, AppendGrows DEF TypeOK
    <3>2. QED
      BY <1>1, <3>1 DEF TrimTo, Larger
  <2>3. CASE InitializePipeline
    <3>1. TrimTo(Len(stream)) /\ stream' = stream
      BY <2>3 DEF InitializePipeline
    <3>2. QED
      BY <1>1, <3>1 DEF TrimTo, Larger
  <2>4. QED
    BY <2>1, <2>2, <2>3
       DEF Next, WorkerStep, RetryStep, vars, streamVars, Start, Poll, Parse, Reject, Emit,
           Ack, Fail, DlqPublish, DlqAck, DlqFail, Crash, DlqPoll, Republish, AckRetried,
           Quarantine, RetryFail, OrchestratorCrash, RecoverStuck
<1>3. QED
  BY <1>2, CursorGrows DEF CursorInv

\* Every step preserves BatchInv.
LEMMA BatchStep ==
  ASSUME TypeOK, CursorInv, BatchInv, RetryInv, [Next]_vars
  PROVE  BatchInv'
<1> USE PipelineAssumption
<1>1. TypeOK' /\ \A v \in Workers : G(v) \in Groups
  BY TypeStep DEF G
<1>2. SUFFICES ASSUME NEW v \in Workers
               PROVE  /\ pc'[v] # "down" => cursor'[G(v)] >= 0
                      /\ Busy(v)' => /\ start'[G(v)] < cur'[v]
                                     /\ cur'[v] <= last'[v]
                                     /\ last'[v] <= cursor'[G(v)]
  BY DEF BatchInv
<1>3. /\ cursor[G(v)] <= cursor'[G(v)]
      /\ cursor[G(v)] >= 0 => start'[G(v)] = start[G(v)]
      /\ cursor[G(v)] \in Int /\ cursor'[G(v)] \in Int
      /\ cur[v] \in Nat /\ last[v] \in Nat /\ start[G(v)] \in Nat
  BY <1>1, CursorGrows DEF TypeOK
<1>4. CASE /\ pc'[v] = pc[v] \/ (pc[v] # "down" /\ pc'[v] = "idle") \/ (Busy(v) /\ Busy(v)')
           /\ Busy(v)' => cur'[v] = cur[v] /\ last'[v] = last[v]
  BY <1>3, <1>4 DEF BatchInv, Busy
<1>5. CASE \E w \in Workers : w # v /\ (Start(w) \/ WorkerStep(w) \/ Fail(w) \/ DlqFail(w) \/ Crash(w))
  BY <1>4, <1>5, Frame DEF Busy
<1>6. CASE UNCHANGED <<start, cursor, workerVars, out, dlq>>
  BY <1>4, <1>6 DEF workerVars, Busy
<1>7. CASE Start(v)
  <2>1. pc'[v] = "idle"
    BY <1>7 DEF Start, TypeOK
  <2>2. cursor'[G(v)] >= 0
    <3>1. Len(stream) \in Nat /\ cursor \in [Groups -> Int]
      BY DEF TypeOK
    <3>2. CASE cursor[G(v)] = -1
      <4>1. cursor' = [cursor EXCEPT ![G(v)] = Len(stream)]
        BY <1>7, <3>2 DEF Start
      <4>2. QED
        BY <1>1, <3>1, <4>1
    <3>3. CASE cursor[G(v)] # -1
      <4>1. cursor' = cursor
        BY <1>7, <3>3 DEF Start
      <4>2. cursor[G(v)] = -1 \/ start[G(v)] <= cursor[G(v)]
        BY <1>1 DEF CursorInv
      <4>3. QED
        BY <1>3, <3>3, <4>1, <4>2
    <3>4. QED
      BY <3>2, <3>3
  <2>3. QED
    BY <2>1, <2>2 DEF Busy
<1>8. CASE Poll(v)
  <2>1. PICK first, final \in Nat :
           /\ cursor[G(v)] \in Nat
           /\ start[G(v)] <= cursor[G(v)]
           /\ cursor[G(v)] < first
           /\ first <= final
           /\ cur' = [cur EXCEPT ![v] = first]
           /\ last' = [last EXCEPT ![v] = final]
           /\ cursor' = [cursor EXCEPT ![G(v)] = final]
           /\ UNCHANGED start
    BY <1>8, PollRange
  <2>2. cur'[v] = first /\ last'[v] = final /\ cursor'[G(v)] = final
    BY <1>1, <2>1 DEF TypeOK
  <2>3. QED
    BY <1>1, <1>3, <2>1, <2>2
<1>9. CASE Parse(v) \/ Reject(v) \/ Emit(v) \/ Fail(v) \/ DlqPublish(v)
  <2>1. Busy(v) /\ Busy(v)' /\ cur' = cur /\ last' = last
    BY <1>9 DEF Parse, Reject, Emit, Fail, DlqPublish, Busy, TypeOK
  <2>2. QED
    BY <1>4, <2>1
<1>10. CASE NextMessage(v) /\ pc[v] \in {"ack", "dlqAck"}
  <2>1. CASE cur[v] = last[v]
    <3>1. pc[v] # "down" /\ pc'[v] = "idle" /\ ~ Busy(v)'
      BY <1>10, <2>1 DEF NextMessage, TypeOK, Busy
    <3>2. QED
      BY <1>4, <3>1
  <2>2. CASE cur[v] # last[v]
    <3>1. cur'[v] = cur[v] + 1 /\ last'[v] = last[v]
      BY <1>10, <2>2 DEF NextMessage, TypeOK
    <3>2. start[G(v)] < cur[v] /\ cur[v] <= last[v] /\ last[v] <= cursor[G(v)]
      BY <1>10 DEF Busy, BatchInv
    <3>3. cursor[G(v)] >= 0
      BY <1>3, <3>2
    <3>4. start'[G(v)] < cur[v] + 1
      BY <1>3, <3>2, <3>3
    <3>5. cur[v] + 1 <= last[v]
      <4>1. cur[v] \in Int /\ last[v] \in Int /\ cur[v] <= last[v] /\ cur[v] # last[v]
        BY <1>3, <2>2, <3>2
      <4>2. QED
        BY <4>1, StrictlyBelow
    <3>6. last[v] <= cursor'[G(v)]
      BY <1>3, <3>2
    <3>7. QED
      BY <1>3, <3>1, <3>3, <3>4, <3>5, <3>6
  <2>3. QED
    BY <2>1, <2>2
<1>11. CASE DlqFail(v)
  BY <1>4, <1>11 DEF DlqFail, DropBatch, Busy, TypeOK
<1>12. CASE Crash(v)
  <2>1. pc'[v] = "down"
    BY <1>12 DEF Crash, DropBatch, TypeOK
  <2>2. QED
    BY <2>1 DEF Busy
<1>13. QED
  BY <1>5, <1>6, <1>7, <1>8, <1>9, <1>10, <1>11, <1>12, OtherSteps DEF WorkerStep, Ack, DlqAck

\* Every step preserves RetryInv.
LEMMA RetryStepInv ==
  ASSUME TypeOK, CursorInv, BatchInv, RetryInv, [Next]_vars
  PROVE  RetryInv'
<1> USE PipelineAssumption
<1>1. /\ Len(dlq) \in Nat /\ dlqCursor \in Nat /\ mcur \in Nat /\ mlast \in Nat
      /\ dlqCursor <= Len(dlq)
      /\ mpc \in {"work", "ack"} => 1 <= mcur /\ mcur <= mlast /\ mlast <= dlqCursor
  BY DEF TypeOK, RetryInv
<1>2. ASSUME NEW w \in Workers, AppendDlq(w), Busy(w)
      PROVE  Len(dlq') = Len(dlq) + 1
  <2>1. stream[cur[w]].seg \in Segments /\ G(w) \in Groups /\ cur[w] \in Nat
    BY <1>2, CurrentExists DEF G, TypeOK
  <2>2. [grp |-> G(w), id |-> cur[w], seg |-> stream[cur[w]].seg, rc |-> 0] \in DlqEntry
    BY <2>1 DEF DlqEntry
  <2>3. dlq \in Seq(DlqEntry)
    BY DEF TypeOK
  <2>4. QED
    BY <1>2, <2>2, <2>3, AppendGrows DEF AppendDlq
<1>3. CASE UNCHANGED <<dlqCursor, mpc, mcur, mlast>> /\ Len(dlq') \in {Len(dlq), Len(dlq) + 1}
  BY <1>1, <1>3 DEF RetryInv
<1>4. CASE DlqPoll
  BY <1>1, <1>4 DEF DlqPoll, RetryInv, Smaller
<1>5. CASE Republish
  BY <1>1, <1>5 DEF Republish, RetryInv, dlqVars
<1>6. CASE AckRetried \/ Quarantine
  BY <1>1, <1>6 DEF AckRetried, Quarantine, DlqXAck, NextDlqEvent, RetryInv
<1>7. CASE RetryFail
  BY <1>1, <1>7 DEF RetryFail, DlqXAck, RetryInv, dlqVars
<1>8. CASE OrchestratorCrash
  BY <1>1, <1>8 DEF OrchestratorCrash, RetryInv, dlqVars
<1>9. CASE InitializePipeline
  BY <1>1, <1>9 DEF InitializePipeline, RetryInv, dlqVars
<1>10. CASE UNCHANGED <<dlqVars, mgrVars>>
  BY <1>3, <1>10 DEF dlqVars, mgrVars
<1>11. ASSUME NEW w \in Workers, DlqPublish(w) \/ DlqFail(w)
       PROVE  RetryInv'
  <2>1. UNCHANGED <<dlqCursor, mpc, mcur, mlast>>
    BY <1>11 DEF DlqPublish, DlqFail, dlqVars, mgrVars
  <2>2. dlq' = dlq \/ (AppendDlq(w) /\ Busy(w))
    BY <1>11 DEF DlqPublish, DlqFail, dlqVars, Busy
  <2>3. QED
    BY <1>2, <1>3, <2>1, <2>2
<1>12. QED
  BY <1>4, <1>5, <1>6, <1>7, <1>8, <1>9, <1>10, <1>11
     DEF Next, WorkerStep, RetryStep, vars, Publish, Start, Poll, Parse, Reject, Emit, Ack,
         Fail, DlqAck, Crash, RecoverStuck

\* Nothing is delivered and no one is at work in the beginning.
LEMMA InitBasics ==
  ASSUME Init
  PROVE  TypeOK /\ CursorInv /\ BatchInv /\ RetryInv
<1> USE PipelineAssumption DEF Init
<1>1. TypeOK
  BY DEF TypeOK, WorkerStates
<1>2. CursorInv
  BY DEF CursorInv, Larger
<1>3. BatchInv
  BY DEF BatchInv, Busy
<1>4. RetryInv
  BY DEF RetryInv
<1>5. QED
  BY <1>1, <1>2, <1>3, <1>4

\* Types and positions are invariant.
THEOREM Basics == Spec => [](TypeOK /\ CursorInv /\ BatchInv /\ RetryInv)
<1>1. Init => TypeOK /\ CursorInv /\ BatchInv /\ RetryInv
  BY InitBasics
<1>2. TypeOK /\ CursorInv /\ BatchInv /\ RetryInv /\ [Next]_vars
      => (TypeOK /\ CursorInv /\ BatchInv /\ RetryInv)'
  BY TypeStep, CursorStep, BatchStep, RetryStepInv
<1>3. QED
  BY <1>1, <1>2, PTL DEF Spec

\* The variables of the bus, the workers and the retry manager keep their types,
\* whatever the batch size, the retention and the number of workers.
THEOREM TypeCorrect == Spec => []TypeOK
<1>1. QED
  BY Basics, PTL

-----------------------------------------------------------------------------
(***************************************************************************)
(* No delivered entry is lost silently.                                    *)
(***************************************************************************)

\* Only a worker about to publish appends to out, and it appends its current
\* entry with the next number.
LEMMA OutStep ==
  ASSUME TypeOK, [Next]_vars
  PROVE  \/ out' = out
         \/ \E w \in Workers :
              /\ pc[w] = "emit"
              /\ (WorkerStep(w) \/ Fail(w)) /\ pc'[w] # "parse"
              /\ pc'[w] \in {"emit", "ack"} => sent'[w] = sent[w] + 1
              /\ cur' = cur /\ last' = last /\ cursor' = cursor
              /\ [grp |-> G(w), id |-> cur[w], n |-> sent[w] + 1] \in Output
              /\ out' = Append(out, [grp |-> G(w), id |-> cur[w], n |-> sent[w] + 1])
<1> USE PipelineAssumption
<1>1. CASE \E w \in Workers : Emit(w)
  <2>1. PICK w \in Workers : Emit(w)
    BY <1>1
  <2>2. [grp |-> G(w), id |-> cur[w], n |-> sent[w] + 1] \in Output
    BY DEF Output, G, TypeOK
  <2>3. pc'[w] # "parse" /\ sent'[w] = sent[w] + 1
    BY <2>1 DEF Emit, TypeOK
  <2>4. QED
    BY <2>1, <2>2, <2>3 DEF Emit, AppendOutput, WorkerStep, groupVars
<1>2. CASE \E w \in Workers : Fail(w) /\ out' # out
  <2>1. PICK w \in Workers : Fail(w) /\ out' # out
    BY <1>2
  <2>2. [grp |-> G(w), id |-> cur[w], n |-> sent[w] + 1] \in Output
    BY DEF Output, G, TypeOK
  <2>3. pc'[w] = "dlq"
    BY <2>1 DEF Fail, TypeOK
  <2>4. QED
    BY <2>1, <2>2, <2>3 DEF Fail, AppendOutput, groupVars
<1>3. QED
  BY <1>1, <1>2, OtherSteps
     DEF WorkerStep, Start, Poll, Parse, Reject, Ack, DlqPublish, DlqAck, DlqFail, Crash

\* Only a worker that gives up its current entry appends to the DLQ.
LEMMA DlqStep ==
  ASSUME TypeOK, CursorInv, BatchInv, RetryInv, [Next]_vars
  PROVE  \/ dlq' = dlq
         \/ \E w \in Workers :
              /\ [grp |-> G(w), id |-> cur[w], seg |-> stream[cur[w]].seg, rc |-> 0] \in DlqEntry
              /\ dlq' = Append(dlq, [grp |-> G(w), id |-> cur[w],
                                     seg |-> stream[cur[w]].seg, rc |-> 0])
<1> USE PipelineAssumption
<1>1. ASSUME NEW w \in Workers, pc[w] = "dlq"
      PROVE  [grp |-> G(w), id |-> cur[w], seg |-> stream[cur[w]].seg, rc |-> 0] \in DlqEntry
  <2>1. stream[cur[w]].seg \in Segments
    BY <1>1, CurrentExists DEF Busy
  <2>2. QED
    BY <2>1 DEF DlqEntry, G, TypeOK
<1>2. dlq' = dlq \/ \E w \in Workers : pc[w] = "dlq" /\ AppendDlq(w)
  BY OtherSteps
     DEF WorkerStep, Start, Poll, Parse, Reject, Emit, Ack, Fail, DlqPublish, DlqAck, DlqFail,
         Crash, dlqVars
<1>3. QED
  BY <1>1, <1>2 DEF AppendDlq

\* What was published stays published, what was dead-lettered stays in the DLQ.
LEMMA TracesStay ==
  ASSUME TypeOK, CursorInv, BatchInv, RetryInv, [Next]_vars
  PROVE  /\ DOMAIN out \subseteq DOMAIN out' /\ \A k \in DOMAIN out : out'[k] = out[k]
         /\ DOMAIN dlq \subseteq DOMAIN dlq' /\ \A k \in DOMAIN dlq : dlq'[k] = dlq[k]
<1>1. DOMAIN out \subseteq DOMAIN out' /\ \A k \in DOMAIN out : out'[k] = out[k]
  <2>1. CASE out' = out
    BY <2>1
  <2>2. CASE \E e \in Output : out' = Append(out, e)
    <3>1. PICK e \in Output : out' = Append(out, e)
      BY <2>2
    <3>2. out \in Seq(Output) /\ Len(out) \in Nat
      BY DEF TypeOK
    <3>3. QED
      BY <3>1, <3>2, AppendGrows
  <2>3. QED
    BY <2>1, <2>2, OutStep
<1>2. DOMAIN dlq \subseteq DOMAIN dlq' /\ \A k \in DOMAIN dlq : dlq'[k] = dlq[k]
  <2>1. CASE dlq' = dlq
    BY <2>1
  <2>2. CASE \E e \in DlqEntry : dlq' = Append(dlq, e)
    <3>1. PICK e \in DlqEntry : dlq' = Append(dlq, e)
      BY <2>2
    <3>2. dlq \in Seq(DlqEntry) /\ Len(dlq) \in Nat
      BY DEF TypeOK
    <3>3. QED
      BY <3>1, <3>2, AppendGrows
  <2>3. QED
    BY <2>1, <2>2, DlqStep
<1>3. QED
  BY <1>1, <1>2

\* An entry that is settled stays settled.
LEMMA SettledStays ==
  ASSUME TypeOK, CursorInv, BatchInv, RetryInv, [Next]_vars,
         NEW g \in Groups, NEW i \in 1 .. Len(stream), Settled(g, i)
  PROVE  Settled(g, i)'
<1> USE PipelineAssumption
<1>1. stream'[i] = stream[i] /\ i \in Nat /\ stream[i].seg \in Segments
  <2>1. stream \in Seq(Entry) /\ Len(stream) \in Nat
    BY DEF TypeOK
  <2>2. i \in Nat /\ stream[i] \in Entry
    BY <2>1
  <2>3. QED
    BY <2>2, StreamGrows DEF Entry
<1>2. CASE InDlq(g, i)
  BY <1>1, <1>2, TracesStay DEF Settled, InDlq
<1>3. CASE \E n \in Outputs[g][stream[i].seg] : \A k \in 1 .. n : Emitted(g, i, k)
  <2>1. PICK n \in Outputs[g][stream[i].seg] : \A k \in 1 .. n : Emitted(g, i, k)
    BY <1>3
  <2>2. \A k \in 1 .. n : Emitted(g, i, k)'
    BY <2>1, TracesStay DEF Emitted
  <2>3. QED
    BY <1>1, <2>1, <2>2 DEF Settled
<1>4. QED
  BY <1>2, <1>3 DEF Settled

\* Every step preserves PlanInv.
LEMMA PlanStep ==
  ASSUME TypeOK, CursorInv, BatchInv, RetryInv, PlanInv, [Next]_vars
  PROVE  PlanInv'
<1> USE PipelineAssumption
<1>1. SUFFICES ASSUME NEW v \in Workers
               PROVE  /\ pc'[v] \in {"idle", "down", "parse"} => sent'[v] = 0
                      /\ pc'[v] \in {"emit", "ack"} =>
                           plan'[v] \in Outputs[G(v)][stream'[cur'[v]].seg]
                      /\ pc'[v] = "emit" => sent'[v] < plan'[v]
                      /\ pc'[v] = "ack" => sent'[v] = plan'[v]
  BY DEF PlanInv, G
<1>2. Busy(v) => stream'[cur[v]] = stream[cur[v]] /\ stream[cur[v]].seg \in Segments /\ G(v) \in Groups
  BY CurrentExists, StreamGrows DEF G
<1>3. CASE pc'[v] = pc[v] /\ cur'[v] = cur[v] /\ plan'[v] = plan[v] /\ sent'[v] = sent[v]
  BY <1>2, <1>3 DEF PlanInv, Busy
<1>4. CASE pc'[v] \in {"idle", "down", "parse"} /\ sent'[v] = 0
  BY <1>4
<1>5. CASE pc'[v] \in {"dlq", "dlqAck"}
  BY <1>5
<1>6. CASE \E w \in Workers : w # v /\ (Start(w) \/ WorkerStep(w) \/ Fail(w) \/ DlqFail(w) \/ Crash(w))
  BY <1>3, <1>6, Frame
<1>7. CASE UNCHANGED <<start, cursor, workerVars, out, dlq>>
  BY <1>3, <1>7 DEF workerVars
<1>8. CASE Start(v) \/ Poll(v)
  <2>1. pc[v] \in {"down", "idle"} /\ pc'[v] \in {"idle", "parse"} /\ sent'[v] = sent[v]
    BY <1>8 DEF Start, Poll, TypeOK
  <2>2. QED
    BY <1>4, <2>1 DEF PlanInv
<1>9. CASE Parse(v)
  <2>1. PICK n \in Outputs[G(v)][stream[cur[v]].seg] :
          /\ plan' = [plan EXCEPT ![v] = n]
          /\ pc' = [pc EXCEPT ![v] = IF n = 0 THEN "ack" ELSE "emit"]
    BY <1>9 DEF Parse
  <2>2. n \in Nat /\ stream'[cur[v]] = stream[cur[v]]
    BY <1>2, <1>9, <2>1 DEF Parse, Busy
  <2>3. cur'[v] = cur[v] /\ sent'[v] = 0
    BY <1>9 DEF Parse, PlanInv
  <2>4. plan'[v] = n /\ pc'[v] = IF n = 0 THEN "ack" ELSE "emit"
    BY <2>1 DEF TypeOK
  <2>5. QED
    BY <2>1, <2>2, <2>3, <2>4
<1>10. CASE Emit(v)
  <2>1. /\ cur'[v] = cur[v] /\ plan'[v] = plan[v]
        /\ sent'[v] = sent[v] + 1
        /\ pc[v] = "emit" /\ pc'[v] = IF sent[v] + 1 = plan[v] THEN "ack" ELSE "emit"
    BY <1>10 DEF Emit, TypeOK
  <2>2. sent[v] < plan[v] /\ sent[v] \in Nat /\ plan[v] \in Nat
    BY <2>1 DEF PlanInv, TypeOK
  <2>3. plan[v] \in Outputs[G(v)][stream'[cur[v]].seg]
    BY <1>2, <2>1 DEF PlanInv, Busy
  <2>4. CASE sent[v] + 1 = plan[v]
    BY <2>1, <2>3, <2>4
  <2>5. CASE sent[v] + 1 # plan[v]
    <3>1. sent[v] + 1 < plan[v]
      BY <2>2, <2>5, StrictlyBelow
    <3>2. QED
      BY <2>1, <2>3, <2>5, <3>1
  <2>6. QED
    BY <2>4, <2>5
<1>11. CASE NextMessage(v)
  <2>1. pc'[v] \in {"idle", "parse"} /\ sent'[v] = 0
    BY <1>11 DEF NextMessage, TypeOK
  <2>2. QED
    BY <1>4, <2>1
<1>12. CASE Reject(v) \/ Fail(v) \/ DlqPublish(v)
  <2>1. pc'[v] \in {"dlq", "dlqAck"}
    BY <1>12 DEF Reject, Fail, DlqPublish, TypeOK
  <2>2. QED
    BY <1>5, <2>1
<1>13. CASE DlqFail(v) \/ Crash(v)
  <2>1. pc'[v] \in {"idle", "down"} /\ sent'[v] = 0
    BY <1>13 DEF DlqFail, Crash, DropBatch, TypeOK
  <2>2. QED
    BY <1>4, <2>1
<1>14. QED
  BY <1>6, <1>7, <1>8, <1>9, <1>10, <1>11, <1>12, <1>13, OtherSteps DEF WorkerStep, Ack, DlqAck

\* Every step preserves ProgressInv.
LEMMA ProgressStep ==
  ASSUME TypeOK, CursorInv, BatchInv, RetryInv, PlanInv, ProgressInv, [Next]_vars
  PROVE  ProgressInv'
<1> USE PipelineAssumption
<1> DEFINE Published(v, n) ==
             \E k \in DOMAIN out' : out'[k] = [grp |-> G(v), id |-> cur'[v], n |-> n]
           Dead(v) == \E k \in DOMAIN dlq' : dlq'[k].grp = G(v) /\ dlq'[k].id = cur'[v]
<1>1. SUFFICES ASSUME NEW v \in Workers
               PROVE  /\ pc'[v] \in {"emit", "ack"} =>
                           \A n \in 1 .. sent'[v] : Published(v, n)
                      /\ pc'[v] = "dlqAck" => Dead(v)
  BY DEF ProgressInv, G, Emitted, InDlq
<1>2. G(v) \in Groups /\ cur[v] \in Nat /\ sent[v] \in Nat
  BY DEF G, TypeOK
<1>3. CASE pc'[v] = pc[v] /\ cur'[v] = cur[v] /\ sent'[v] = sent[v]
  <2>1. pc[v] \in {"emit", "ack"} => \A n \in 1 .. sent'[v] : Published(v, n)
    BY <1>3, TracesStay DEF ProgressInv, Emitted
  <2>2. pc[v] = "dlqAck" => Dead(v)
    BY <1>3, TracesStay DEF ProgressInv, InDlq
  <2>3. QED
    BY <1>3, <2>1, <2>2
<1>4. CASE pc'[v] \in {"idle", "down", "parse", "dlq"}
  BY <1>4
<1>5. CASE \E w \in Workers : w # v /\ (Start(w) \/ WorkerStep(w) \/ Fail(w) \/ DlqFail(w) \/ Crash(w))
  BY <1>3, <1>5, Frame
<1>6. CASE UNCHANGED <<start, cursor, workerVars, out, dlq>>
  BY <1>3, <1>6 DEF workerVars
<1>7. CASE Parse(v)
  <2>1. sent'[v] = 0 /\ pc'[v] # "dlqAck"
    BY <1>7 DEF Parse, PlanInv, TypeOK
  <2>2. QED
    BY <2>1
<1>8. CASE Emit(v)
  <2>1. cur'[v] = cur[v] /\ sent'[v] = sent[v] + 1 /\ pc[v] = "emit" /\ pc'[v] # "dlqAck"
    BY <1>8 DEF Emit, TypeOK
  <2>2. \A n \in 1 .. sent[v] : Emitted(G(v), cur[v], n)
    BY <2>1 DEF ProgressInv
  <2>3. \A n \in 1 .. sent[v] : Published(v, n)
    BY <2>1, <2>2, TracesStay DEF Emitted
  <2>4. Published(v, sent[v] + 1)
    <3>1. out' = Append(out, [grp |-> G(v), id |-> cur[v], n |-> sent[v] + 1])
      BY <1>8 DEF Emit, AppendOutput
    <3>2. [grp |-> G(v), id |-> cur[v], n |-> sent[v] + 1] \in Output
      BY <1>2 DEF Output
    <3>3. out \in Seq(Output) /\ Len(out) + 1 \in 1 .. Len(out) + 1
      BY DEF TypeOK
    <3>4. /\ Len(out) + 1 \in DOMAIN out'
          /\ out'[Len(out) + 1] = [grp |-> G(v), id |-> cur[v], n |-> sent[v] + 1]
      BY <3>1, <3>2, <3>3, AppendGrows
    <3>5. QED
      BY <2>1, <3>4
  <2>5. \A n \in 1 .. sent[v] + 1 : n \in 1 .. sent[v] \/ n = sent[v] + 1
    <3>1. \A m \in Nat : \A n \in 1 .. m + 1 : n \in 1 .. m \/ n = m + 1
      OBVIOUS
    <3>2. QED
      BY <1>2, <3>1
  <2>6. QED
    BY <2>1, <2>3, <2>4, <2>5
<1>9. CASE NextMessage(v)
  <2>1. pc'[v] \in {"idle", "parse"}
    BY <1>9 DEF NextMessage, TypeOK
  <2>2. QED
    BY <1>4, <2>1
<1>10. CASE Start(v) \/ Poll(v) \/ Reject(v) \/ Fail(v) \/ DlqFail(v) \/ Crash(v)
  <2>1. pc'[v] \in {"idle", "down", "parse", "dlq"}
    BY <1>10 DEF Start, Poll, Reject, Fail, DlqFail, Crash, DropBatch, TypeOK
  <2>2. QED
    BY <1>4, <2>1
<1>11. CASE DlqPublish(v)
  <2>1. pc'[v] = "dlqAck" /\ cur'[v] = cur[v] /\ Busy(v)
    BY <1>11 DEF DlqPublish, TypeOK, Busy
  <2>2. dlq' = Append(dlq, [grp |-> G(v), id |-> cur[v], seg |-> stream[cur[v]].seg, rc |-> 0])
    BY <1>11 DEF DlqPublish, AppendDlq
  <2>3. stream[cur[v]].seg \in Segments
    BY <2>1, CurrentExists
  <2>4. [grp |-> G(v), id |-> cur[v], seg |-> stream[cur[v]].seg, rc |-> 0] \in DlqEntry
    BY <1>2, <2>3 DEF DlqEntry
  <2>5. dlq \in Seq(DlqEntry) /\ Len(dlq) + 1 \in 1 .. Len(dlq) + 1
    BY DEF TypeOK
  <2>6. /\ Len(dlq) + 1 \in DOMAIN dlq'
        /\ dlq'[Len(dlq) + 1] =
             [grp |-> G(v), id |-> cur[v], seg |-> stream[cur[v]].seg, rc |-> 0]
        /\ dlq'[Len(dlq) + 1].grp = G(v) /\ dlq'[Len(dlq) + 1].id = cur[v]
    BY <2>2, <2>4, <2>5, AppendGrows
  <2>7. Dead(v)
    BY <2>1, <2>6
  <2>8. QED
    BY <2>1, <2>7
<1>12. QED
  BY <1>5, <1>6, <1>7, <1>8, <1>9, <1>10, <1>11, OtherSteps DEF WorkerStep, Ack, DlqAck

\* An entry leaves the pending list of its group because it was trimmed, or
\* because the worker at it acknowledges it.
LEMMA PendingStep ==
  ASSUME TypeOK, CursorInv, BatchInv, RetryInv, [Next]_vars, NEW g \in Groups, NEW i
  PROVE  /\ i \in missed[g] => i \in missed'[g]
         /\ i \in pel[g] => \/ i \in pel'[g]
                            \/ i \in missed'[g]
                            \/ \E w \in Workers : /\ G(w) = g /\ cur[w] = i
                                                 /\ pc[w] \in {"ack", "dlqAck"}
<1> USE PipelineAssumption
<1>1. /\ pel \in [Groups -> SUBSET Nat] /\ missed \in [Groups -> SUBSET Nat]
      /\ claimed \in [Groups -> SUBSET Nat]
  BY DEF TypeOK
<1>2. CASE UNCHANGED <<pel, missed>>
  BY <1>2
<1>3. CASE \E w \in Workers : Poll(w)
  <2>1. PICK w \in Workers : Poll(w)
    BY <1>3
  <2>2. PICK first, final \in Nat :
          /\ G(w) \in Groups
          /\ cursor[G(w)] < first
          /\ pel' = [pel EXCEPT ![G(w)] = @ \cup (first .. final)]
          /\ missed' = [missed EXCEPT ![G(w)] = @ \cup (cursor[G(w)] + 1 .. first - 1)]
          /\ UNCHANGED start
    BY <2>1, PollRange
  <2>3. pel[g] \subseteq pel'[g] /\ missed[g] \subseteq missed'[g]
    BY <1>1, <2>2
  <2>4. QED
    BY <2>3
<1>4. CASE \E w \in Workers : pc[w] \in {"ack", "dlqAck"} /\ AckCurrent(w)
  <2>1. PICK w \in Workers : pc[w] \in {"ack", "dlqAck"} /\ AckCurrent(w)
    BY <1>4
  <2>2. missed' = missed /\ pel' = [pel EXCEPT ![G(w)] = @ \ {cur[w]}]
    BY <2>1 DEF AckCurrent
  <2>3. i \in pel[g] => i \in pel'[g] \/ (G(w) = g /\ cur[w] = i)
    BY <1>1, <2>2
  <2>4. QED
    BY <2>1, <2>2, <2>3
<1>5. CASE \E h \in Groups : \E c \in SUBSET pel[h] : RecoverStuck(h, c)
  <2>1. PICK h \in Groups : \E c \in SUBSET pel[h] : RecoverStuck(h, c)
    BY <1>5
  <2>2. PICK gone \in SUBSET pel[h] :
          /\ pel' = [pel EXCEPT ![h] = @ \ gone]
          /\ missed' = [missed EXCEPT ![h] = @ \cup gone]
    BY <2>1 DEF RecoverStuck
  <2>3. QED
    BY <1>1, <2>2
<1>6. QED
  BY <1>2, <1>3, <1>4, <1>5
     DEF Next, WorkerStep, RetryStep, vars, groupVars, Publish, Start, Parse, Reject, Emit,
         Ack, Fail, DlqPublish, DlqAck, DlqFail, Crash, InitializePipeline, DlqPoll, Republish,
         AckRetried, Quarantine, RetryFail, OrchestratorCrash

\* What is delivered for the first time becomes pending or was trimmed.
LEMMA DeliveryStep ==
  ASSUME TypeOK, CursorInv, BatchInv, RetryInv, [Next]_vars, NEW g \in Groups,
         NEW i \in start'[g] + 1 .. cursor'[g]
  PROVE  \/ i \in start[g] + 1 .. cursor[g]
         \/ i \in pel'[g]
         \/ i \in missed'[g]
<1> USE PipelineAssumption
<1>1. /\ cursor[g] \in Int /\ start[g] \in Nat /\ Len(stream) \in Nat
      /\ pel \in [Groups -> SUBSET Nat] /\ missed \in [Groups -> SUBSET Nat]
  BY DEF TypeOK
<1>2. CASE start'[g] = start[g] /\ cursor'[g] = cursor[g]
  BY <1>2
<1>3. CASE start'[g] = cursor'[g] /\ cursor'[g] = Len(stream)
  BY <1>1, <1>3
<1>4. ASSUME NEW w \in Workers, Start(w)
      PROVE  \/ start'[g] = start[g] /\ cursor'[g] = cursor[g]
             \/ start'[g] = cursor'[g] /\ cursor'[g] = Len(stream)
  <2>1. CASE G(w) = g /\ cursor[g] = -1
    BY <1>4, <2>1 DEF Start, TypeOK
  <2>2. CASE G(w) # g \/ cursor[g] # -1
    BY <1>4, <2>2 DEF Start, TypeOK
  <2>3. QED
    BY <2>1, <2>2
<1>5. ASSUME NEW w \in Workers, Poll(w)
      PROVE  \/ i \in start[g] + 1 .. cursor[g]
             \/ i \in pel'[g]
             \/ i \in missed'[g]
  <2>1. PICK first, final \in Nat :
          /\ G(w) \in Groups
          /\ cursor[G(w)] < first
          /\ cursor' = [cursor EXCEPT ![G(w)] = final]
          /\ pel' = [pel EXCEPT ![G(w)] = @ \cup (first .. final)]
          /\ missed' = [missed EXCEPT ![G(w)] = @ \cup (cursor[G(w)] + 1 .. first - 1)]
          /\ UNCHANGED start
    BY <1>5, PollRange
  <2>2. CASE G(w) # g
    <3>1. cursor'[g] = cursor[g] /\ start'[g] = start[g]
      BY <2>1, <2>2 DEF TypeOK
    <3>2. QED
      BY <1>2, <3>1
  <2>3. CASE G(w) = g
    <3>1. cursor'[g] = final /\ start'[g] = start[g]
      BY <2>1, <2>3 DEF TypeOK
    <3>2. first .. final \subseteq pel'[g] /\ cursor[g] + 1 .. first - 1 \subseteq missed'[g]
      BY <1>1, <2>1, <2>3
    <3>3. i \in start[g] + 1 .. final
      BY <3>1
    <3>4. i \in start[g] + 1 .. cursor[g] \/ i \in cursor[g] + 1 .. first - 1 \/ i \in first .. final
      BY <1>1, <3>3
    <3>5. QED
      BY <3>2, <3>4
  <2>4. QED
    BY <2>2, <2>3
<1>6. UNCHANGED <<start, cursor>> \/ \E w \in Workers : Start(w) \/ Poll(w)
  <2>1. ASSUME NEW w \in Workers, WorkerStep(w) \/ Fail(w) \/ DlqFail(w) \/ Crash(w), ~ Poll(w)
        PROVE  UNCHANGED <<start, cursor>>
    BY <2>1 DEF WorkerStep, Parse, Reject, Emit, Ack, Fail, DlqPublish, DlqAck, DlqFail,
                Crash, AckCurrent, groupVars
  <2>2. QED
    BY <2>1, OtherSteps
<1>7. QED
  BY <1>2, <1>3, <1>4, <1>5, <1>6

\* Every step preserves NoSilentLoss.
LEMMA LossStep ==
  ASSUME TypeOK, CursorInv, BatchInv, RetryInv, PlanInv, ProgressInv, NoSilentLoss, [Next]_vars
  PROVE  NoSilentLoss'
<1> USE PipelineAssumption
<1>1. SUFFICES ASSUME NEW g \in Groups, NEW i \in start'[g] + 1 .. cursor'[g]
               PROVE  i \in pel'[g] \/ i \in missed'[g] \/ Settled(g, i)'
  BY DEF NoSilentLoss
<1>2. CASE i \in start[g] + 1 .. cursor[g]
  <2>1. i \in 1 .. Len(stream)
    BY <1>2 DEF CursorInv, TypeOK
  <2>2. ASSUME NEW w \in Workers, G(w) = g, cur[w] = i, pc[w] \in {"ack", "dlqAck"}
        PROVE  Settled(g, i)
    <3>1. CASE pc[w] = "ack"
      <4>1. plan[w] \in Outputs[g][stream[i].seg]
        BY <2>2, <3>1 DEF PlanInv
      <4>2. \A n \in 1 .. plan[w] : Emitted(g, i, n)
        BY <2>2, <3>1 DEF PlanInv, ProgressInv
      <4>3. QED
        BY <4>1, <4>2 DEF Settled
    <3>2. CASE pc[w] = "dlqAck"
      BY <2>2, <3>2 DEF Settled, ProgressInv
    <3>3. QED
      BY <2>2, <3>1, <3>2
  <2>3. i \in pel[g] \/ i \in missed[g] \/ Settled(g, i)
    BY <1>2 DEF NoSilentLoss
  <2>4. QED
    BY <2>1, <2>2, <2>3, PendingStep, SettledStays
<1>3. QED
  BY <1>2, DeliveryStep

\* At-least-once delivery up to the PEL and the DLQ: whatever the number of
\* workers, batches, crashes and failed calls, an entry that was delivered is
\* pending, answered, dead-lettered or trimmed.
THEOREM NothingLostSilently == Spec => []NoSilentLoss
<1> DEFINE Inv == /\ TypeOK /\ CursorInv /\ BatchInv /\ RetryInv
                  /\ PlanInv /\ ProgressInv /\ NoSilentLoss
<1>1. Init => Inv
  <2> SUFFICES ASSUME Init PROVE Inv
    OBVIOUS
  <2>1. PlanInv
    BY DEF Init, PlanInv
  <2>2. ProgressInv
    BY DEF Init, ProgressInv
  <2>3. NoSilentLoss
    BY DEF Init, NoSilentLoss
  <2>4. QED
    BY <2>1, <2>2, <2>3, InitBasics
<1>2. Inv /\ [Next]_vars => Inv'
  <2>1. SUFFICES ASSUME Inv, [Next]_vars PROVE Inv'
    OBVIOUS
  <2>2. TypeOK' /\ CursorInv' /\ BatchInv' /\ RetryInv'
    BY <2>1, TypeStep, CursorStep, BatchStep, RetryStepInv
  <2>3. PlanInv' /\ ProgressInv' /\ NoSilentLoss'
    BY <2>1, PlanStep, ProgressStep, LossStep
  <2>4. QED
    BY <2>2, <2>3
<1>3. Inv => NoSilentLoss
  OBVIOUS
<1>4. QED
  BY <1>1, <1>2, <1>3, PTL DEF Spec

-----------------------------------------------------------------------------
(***************************************************************************)
(* No entry makes a group publish an event twice.                          *)
(***************************************************************************)

\* How a worker's step moves its batch.
LEMMA WorkerMoves ==
  ASSUME TypeOK, CursorInv, BatchInv, NEW w \in Workers,
         Start(w) \/ WorkerStep(w) \/ Fail(w) \/ DlqFail(w) \/ Crash(w)
  PROVE  \/ ~ Busy(w)'
         \/ /\ Busy(w) /\ Busy(w)' /\ last'[w] = last[w]
            /\ \/ /\ cur'[w] = cur[w] /\ pc'[w] # "parse"
                  /\ pc'[w] \in {"emit", "ack"} => pc[w] = "parse" \/ sent'[w] = sent[w] + 1
               \/ cur'[w] = cur[w] + 1
         \/ cursor[G(w)] < cur'[w]
<1> USE PipelineAssumption
<1>1. CASE Start(w) \/ DlqFail(w) \/ Crash(w)
  <2>1. pc'[w] \in {"idle", "down"}
    BY <1>1 DEF Start, DlqFail, Crash, DropBatch, TypeOK
  <2>2. QED
    BY <2>1 DEF Busy
<1>2. CASE Poll(w)
  <2>1. PICK first, final \in Nat :
          /\ G(w) \in Groups
          /\ cursor[G(w)] < first
          /\ cur' = [cur EXCEPT ![w] = first]
          /\ last' = [last EXCEPT ![w] = final]
    BY <1>2, PollRange
  <2>2. QED
    BY <2>1 DEF TypeOK
<1>3. CASE Parse(w)
  BY <1>3 DEF Parse, Busy, TypeOK
<1>4. CASE Emit(w)
  BY <1>4 DEF Emit, Busy, TypeOK
<1>5. CASE Reject(w) \/ Fail(w) \/ DlqPublish(w)
  <2>1. Busy(w) /\ pc'[w] \in {"dlq", "dlqAck"} /\ UNCHANGED <<cur, last>>
    BY <1>5 DEF Reject, Fail, DlqPublish, Busy, TypeOK
  <2>2. QED
    BY <2>1 DEF Busy
<1>6. CASE NextMessage(w) /\ Busy(w)
  BY <1>6 DEF NextMessage, Busy, TypeOK
<1>7. QED
  BY <1>1, <1>2, <1>3, <1>4, <1>5, <1>6 DEF WorkerStep, Ack, DlqAck, Busy

\* Every step preserves DisjointInv.
LEMMA DisjointStep ==
  ASSUME TypeOK, CursorInv, BatchInv, RetryInv, DisjointInv, [Next]_vars
  PROVE  DisjointInv'
<1> USE PipelineAssumption
<1>1. \A w \in Workers : /\ cur[w] \in Nat /\ last[w] \in Nat /\ cur'[w] \in Nat /\ last'[w] \in Nat
                         /\ cursor[G(w)] \in Int
  <2>1. TypeOK'
    BY TypeStep
  <2>2. QED
    BY <2>1 DEF TypeOK, G
<1>2. CASE UNCHANGED <<start, cursor, workerVars, out, dlq>>
  BY <1>2 DEF workerVars, DisjointInv, Busy, G
<1>3. ASSUME NEW w \in Workers,
             Start(w) \/ WorkerStep(w) \/ Fail(w) \/ DlqFail(w) \/ Crash(w)
      PROVE  DisjointInv'
  <2>1. ASSUME NEW v \in Workers, v # w, G(v) = G(w), Busy(v)', Busy(w)'
        PROVE  last'[v] < cur'[w] \/ last'[w] < cur'[v]
    <3>1. cur'[v] = cur[v] /\ last'[v] = last[v] /\ pc'[v] = pc[v]
      BY <1>3, <2>1, Frame
    <3>2. Busy(v) /\ last[v] <= cursor[G(w)]
      BY <2>1, <3>1 DEF Busy, BatchInv
    <3>3. CASE cursor[G(w)] < cur'[w]
      BY <1>1, <3>1, <3>2, <3>3
    <3>4. CASE Busy(w) /\ last'[w] = last[w] /\ cur'[w] \in {cur[w], cur[w] + 1}
      <4>1. last[v] < cur[w] \/ last[w] < cur[v]
        BY <2>1, <3>2, <3>4 DEF DisjointInv
      <4>2. QED
        BY <1>1, <3>1, <3>4, <4>1
    <3>5. QED
      BY <1>3, <2>1, <3>3, <3>4, WorkerMoves
  <2>2. ASSUME NEW u \in Workers, NEW v \in Workers, u # w, v # w, u # v, G(u) = G(v),
               Busy(u)', Busy(v)'
        PROVE  last'[u] < cur'[v] \/ last'[v] < cur'[u]
    <3>1. /\ cur'[v] = cur[v] /\ last'[v] = last[v] /\ pc'[v] = pc[v]
          /\ cur'[u] = cur[u] /\ last'[u] = last[u] /\ pc'[u] = pc[u]
      BY <1>3, <2>2, Frame
    <3>2. QED
      BY <2>2, <3>1 DEF DisjointInv, Busy
  <2>3. QED
    BY <2>1, <2>2 DEF DisjointInv, G
<1>4. QED
  BY <1>2, <1>3, OtherSteps

\* A worker about to publish has its number sent + 1 to itself.
LEMMA EmitFresh ==
  ASSUME TypeOK, CursorInv, BatchInv, OutInv, NEW w \in Workers, pc[w] = "emit",
         NEW k \in DOMAIN out
  PROVE  out[k] # [grp |-> G(w), id |-> cur[w], n |-> sent[w] + 1]
<1> SUFFICES ASSUME out[k] = [grp |-> G(w), id |-> cur[w], n |-> sent[w] + 1]
             PROVE  FALSE
  OBVIOUS
<1>1. out[k].grp = G(w) /\ out[k].id = cur[w] /\ out[k].n = sent[w] + 1
  OBVIOUS
<1>2. Busy(w) /\ cur[w] <= last[w] /\ cur[w] \in Nat /\ sent[w] \in Nat
  BY DEF Busy, BatchInv, TypeOK
<1>3. out[k].n <= sent[w]
  BY <1>1, <1>2 DEF OutInv
<1>4. QED
  BY <1>1, <1>2, <1>3

\* Every step preserves AtMostOncePerEntry.
LEMMA OnceStep ==
  ASSUME TypeOK, CursorInv, BatchInv, OutInv, AtMostOncePerEntry, [Next]_vars
  PROVE  AtMostOncePerEntry'
<1>1. CASE out' = out
  BY <1>1 DEF AtMostOncePerEntry
<1>2. ASSUME NEW w \in Workers, pc[w] = "emit",
             [grp |-> G(w), id |-> cur[w], n |-> sent[w] + 1] \in Output,
             out' = Append(out, [grp |-> G(w), id |-> cur[w], n |-> sent[w] + 1])
      PROVE  AtMostOncePerEntry'
  <2> DEFINE e == [grp |-> G(w), id |-> cur[w], n |-> sent[w] + 1]
  <2>1. out \in Seq(Output) /\ Len(out) \in Nat
    BY DEF TypeOK
  <2>2. /\ DOMAIN out = 1 .. Len(out)
        /\ DOMAIN out' = 1 .. Len(out) + 1
        /\ out'[Len(out) + 1] = e
        /\ \A k \in 1 .. Len(out) : out'[k] = out[k]
    BY <1>2, <2>1, AppendGrows
  <2>3. \A k \in 1 .. Len(out) : out[k] # e
    BY <1>2, <2>2, EmitFresh
  <2>4. \A k \in 1 .. Len(out) + 1 : k \in 1 .. Len(out) \/ k = Len(out) + 1
    BY <2>1
  <2> HIDE DEF e
  <2>5. \A j, k \in DOMAIN out' : out'[j] = out'[k] => j = k
    BY <2>2, <2>3, <2>4 DEF AtMostOncePerEntry
  <2>6. QED
    BY <2>5 DEF AtMostOncePerEntry
<1>3. QED
  BY <1>1, <1>2, OutStep

\* Every step preserves OutInv.
LEMMA OutInvStep ==
  ASSUME TypeOK, CursorInv, BatchInv, RetryInv, PlanInv, DisjointInv, OutInv, [Next]_vars
  PROVE  OutInv'
<1> USE PipelineAssumption
<1> DEFINE Old(e, w) ==
             Busy(w) /\ G(w) = e.grp /\ cur[w] <= e.id /\ e.id <= last[w]
             => e.id = cur[w] /\ pc[w] # "parse" /\ (pc[w] \in {"emit", "ack"} => e.n <= sent[w])
           New(e, w) ==
             Busy(w)' /\ G(w) = e.grp /\ cur'[w] <= e.id /\ e.id <= last'[w]
             => e.id = cur'[w] /\ pc'[w] # "parse"
                /\ (pc'[w] \in {"emit", "ack"} => e.n <= sent'[w])
<1>1. \A w \in Workers : /\ cur[w] \in Nat /\ last[w] \in Nat /\ cur'[w] \in Nat /\ last'[w] \in Nat
                         /\ cursor[G(w)] \in Int /\ sent[w] \in Nat /\ sent'[w] \in Nat
  <2>1. TypeOK'
    BY TypeStep
  <2>2. QED
    BY <2>1 DEF TypeOK, G
<1>2. \A e \in Output : e.grp \in Groups /\ e.id \in Nat /\ e.n \in Nat
  BY DEF Output
<1>3. ASSUME NEW e \in Output, NEW w \in Workers, e.id <= cursor[e.grp], Old(e, w)
      PROVE  New(e, w)
  <2>1. CASE UNCHANGED <<start, cursor, workerVars, out, dlq>>
    BY <1>3, <2>1 DEF workerVars, Busy
  <2>2. CASE \E v \in Workers : v # w /\ (Start(v) \/ WorkerStep(v) \/ Fail(v) \/ DlqFail(v) \/ Crash(v))
    BY <1>3, <2>2, Frame DEF Busy
  <2>3. CASE Start(w) \/ WorkerStep(w) \/ Fail(w) \/ DlqFail(w) \/ Crash(w)
    <3>1. SUFFICES ASSUME Busy(w)', G(w) = e.grp, cur'[w] <= e.id, e.id <= last'[w]
                   PROVE  /\ e.id = cur'[w] /\ pc'[w] # "parse"
                          /\ pc'[w] \in {"emit", "ack"} => e.n <= sent'[w]
      OBVIOUS
    <3>2. ~ (cursor[G(w)] < cur'[w])
      BY <1>1, <1>2, <1>3, <3>1
    <3>3. CASE Busy(w) /\ last'[w] = last[w] /\ cur'[w] = cur[w] + 1
      BY <1>1, <1>2, <1>3, <3>1, <3>3
    <3>4. CASE /\ Busy(w) /\ last'[w] = last[w] /\ cur'[w] = cur[w] /\ pc'[w] # "parse"
               /\ pc'[w] \in {"emit", "ack"} => pc[w] = "parse" \/ sent'[w] = sent[w] + 1
      <4>1. /\ e.id = cur[w] /\ pc[w] # "parse"
            /\ pc[w] \in {"emit", "ack"} => e.n <= sent[w]
        BY <1>3, <3>1, <3>4
      <4>2. ASSUME pc'[w] \in {"emit", "ack"}
            PROVE  e.n <= sent'[w]
        <5>1. sent'[w] = sent[w] + 1
          BY <3>4, <4>1, <4>2
        <5>2. pc[w] \in {"emit", "ack"}
          BY <2>3, <4>2, <5>1, <1>1, <4>1
             DEF Start, WorkerStep, Poll, Parse, Reject, Emit, Ack, Fail, DlqPublish, DlqAck,
                 DlqFail, Crash, NextMessage, DropBatch, TypeOK
        <5>3. QED
          BY <1>1, <1>2, <4>1, <5>1, <5>2
      <4>3. QED
        BY <3>4, <4>1, <4>2
    <3>5. QED
      BY <2>3, <3>1, <3>2, <3>3, <3>4, WorkerMoves
  <2>4. QED
    BY <2>1, <2>2, <2>3, OtherSteps
<1>4. ASSUME NEW k \in DOMAIN out
      PROVE  /\ out[k].id <= cursor'[out[k].grp]
             /\ \A w \in Workers : New(out[k], w)
  <2>1. out[k] \in Output
    BY DEF TypeOK
  <2>2. out[k].id <= cursor[out[k].grp] /\ \A w \in Workers : Old(out[k], w)
    BY DEF OutInv
  <2>3. /\ cursor[out[k].grp] <= cursor'[out[k].grp]
        /\ cursor[out[k].grp] \in Int /\ cursor'[out[k].grp] \in Int
    BY <1>2, <2>1, CursorGrows, TypeStep DEF TypeOK
  <2>4. QED
    BY <1>2, <1>3, <2>1, <2>2, <2>3
<1>5. CASE out' = out
  BY <1>4, <1>5 DEF OutInv, Busy, G
<1>6. ASSUME NEW v \in Workers, pc[v] = "emit", WorkerStep(v) \/ Fail(v), pc'[v] # "parse",
             pc'[v] \in {"emit", "ack"} => sent'[v] = sent[v] + 1,
             cur' = cur, last' = last, cursor' = cursor,
             [grp |-> G(v), id |-> cur[v], n |-> sent[v] + 1] \in Output,
             out' = Append(out, [grp |-> G(v), id |-> cur[v], n |-> sent[v] + 1])
      PROVE  OutInv'
  <2> DEFINE e == [grp |-> G(v), id |-> cur[v], n |-> sent[v] + 1]
  <2>1. out \in Seq(Output) /\ Len(out) \in Nat
    BY DEF TypeOK
  <2>2. /\ DOMAIN out = 1 .. Len(out)
        /\ DOMAIN out' = 1 .. Len(out) + 1
        /\ out'[Len(out) + 1] = e
        /\ \A k \in 1 .. Len(out) : out'[k] = out[k]
    BY <1>6, <2>1, AppendGrows
  <2>3. \A k \in 1 .. Len(out) + 1 : k \in 1 .. Len(out) \/ k = Len(out) + 1
    BY <2>1
  <2>4. cur[v] <= last[v] /\ last[v] <= cursor[G(v)] /\ Busy(v)
    BY <1>6 DEF BatchInv, Busy
  <2>5. e.id <= cursor'[e.grp]
    BY <1>1, <1>6, <2>4
  <2>6. ASSUME NEW w \in Workers
        PROVE  New(e, w)
    <3>1. CASE w = v
      BY <1>1, <1>6, <3>1
    <3>2. CASE w # v
      <4>1. pc'[w] = pc[w]
        BY <1>6, <3>2, Frame
      <4>2. ~ (Busy(w) /\ G(w) = G(v) /\ cur[w] <= cur[v] /\ cur[v] <= last[w])
        BY <1>1, <2>4, <3>2 DEF DisjointInv
      <4>3. QED
        BY <1>6, <4>1, <4>2 DEF Busy
    <3>3. QED
      BY <3>1, <3>2
  <2> HIDE DEF e
  <2>7. \A k \in DOMAIN out' : /\ out'[k].id <= cursor'[out'[k].grp]
                               /\ \A w \in Workers : New(out'[k], w)
    BY <1>4, <2>2, <2>3, <2>5, <2>6
  <2>8. QED
    BY <2>7 DEF OutInv, Busy, G
<1>7. QED
  BY <1>5, <1>6, OutStep

\* Two workers never publish for the same entry, and no entry is worked on
\* again, however workers crash and restart.
THEOREM PublishedOnce == Spec => []AtMostOncePerEntry
<1> DEFINE Inv == /\ TypeOK /\ CursorInv /\ BatchInv /\ RetryInv
                  /\ PlanInv /\ DisjointInv /\ OutInv /\ AtMostOncePerEntry
<1>1. Init => Inv
  <2> SUFFICES ASSUME Init PROVE Inv
    OBVIOUS
  <2>1. PlanInv
    BY DEF Init, PlanInv
  <2>2. DisjointInv
    BY DEF Init, DisjointInv, Busy
  <2>3. OutInv /\ AtMostOncePerEntry
    BY DEF Init, OutInv, AtMostOncePerEntry
  <2>4. QED
    BY <2>1, <2>2, <2>3, InitBasics
<1>2. Inv /\ [Next]_vars => Inv'
  <2>1. SUFFICES ASSUME Inv, [Next]_vars PROVE Inv'
    OBVIOUS
  <2>2. TypeOK' /\ CursorInv' /\ BatchInv' /\ RetryInv'
    BY <2>1, TypeStep, CursorStep, BatchStep, RetryStepInv
  <2>3. PlanInv' /\ DisjointInv' /\ OutInv' /\ AtMostOncePerEntry'
    BY <2>1, PlanStep, DisjointStep, OutInvStep, OnceStep
  <2>4. QED
    BY <2>2, <2>3
<1>3. Inv => AtMostOncePerEntry
  OBVIOUS
<1>4. QED
  BY <1>1, <1>2, <1>3, PTL DEF Spec

-----------------------------------------------------------------------------
(***************************************************************************)
(* Trimming takes only entries that are a whole retention behind.          *)
(***************************************************************************)

\* The floor moves by trimming only, up to a retention behind the new end.
LEMMA FloorStep ==
  ASSUME TypeOK, CursorInv, BatchInv, RetryInv, [Next]_vars
  PROVE  floor' = floor \/ floor' \in floor .. Larger(floor, Len(stream') - MaxLen + 1)
<1> USE PipelineAssumption
<1>1. CASE \E s \in Segments : Publish(s)
  <2>1. PICK s \in Segments :
          /\ TrimTo(Len(stream) + 1)
          /\ stream' = Append(stream, [seg |-> s, rc |-> 0, from |-> 0])
    BY <1>1 DEF Publish
  <2>2. [seg |-> s, rc |-> 0, from |-> 0] \in Entry
    BY DEF Entry
  <2>3. Len(stream') = Len(stream) + 1
    BY <2>1, <2>2, AppendGrows DEF TypeOK
  <2>4. QED
    BY <2>1, <2>3 DEF TrimTo
<1>2. CASE InitializePipeline
  BY <1>2 DEF InitializePipeline, TrimTo
<1>3. QED
  BY <1>1, <1>2
     DEF Next, WorkerStep, RetryStep, vars, streamVars, Start, Poll, Parse, Reject, Emit,
         Ack, Fail, DlqPublish, DlqAck, DlqFail, Crash, DlqPoll, Republish, AckRetried,
         Quarantine, RetryFail, OrchestratorCrash, RecoverStuck

\* What a group comes to miss is below the floor; what it comes to hold or miss
\* has an id.
LEMMA MissedStep ==
  ASSUME TypeOK, CursorInv, BatchInv, RetryInv, [Next]_vars, NEW g \in Groups,
         0 \notin pel[g], 0 \notin missed[g]
  PROVE  /\ 0 \notin pel'[g]
         /\ \A i \in missed'[g] : i \in missed[g] \/ (i \in Nat \ {0} /\ i < floor)
<1> USE PipelineAssumption
<1>1. /\ pel \in [Groups -> SUBSET Nat] /\ missed \in [Groups -> SUBSET Nat] /\ floor \in Nat
  BY DEF TypeOK
<1>2. CASE UNCHANGED <<pel, missed>>
  BY <1>2
<1>3. ASSUME NEW w \in Workers, Poll(w)
      PROVE  /\ 0 \notin pel'[g]
             /\ \A i \in missed'[g] : i \in missed[g] \/ (i \in Nat \ {0} /\ i < floor)
  <2>1. PICK first, final \in Nat :
          /\ G(w) \in Groups
          /\ cursor[G(w)] \in Nat
          /\ cursor[G(w)] < first
          /\ first = cursor[G(w)] + 1 \/ first = floor
          /\ first <= final
          /\ pel' = [pel EXCEPT ![G(w)] = @ \cup (first .. final)]
          /\ missed' = [missed EXCEPT ![G(w)] = @ \cup (cursor[G(w)] + 1 .. first - 1)]
    BY <1>3, PollRange
  <2>2. 0 \notin first .. final
    BY <2>1
  <2>3. \A i \in cursor[G(w)] + 1 .. first - 1 : i \in Nat \ {0} /\ i < floor
    BY <1>1, <2>1
  <2>4. pel'[g] \subseteq pel[g] \cup (first .. final)
    BY <1>1, <2>1
  <2>5. missed'[g] \subseteq missed[g] \cup (cursor[G(w)] + 1 .. first - 1)
    BY <1>1, <2>1
  <2>6. QED
    BY <2>2, <2>3, <2>4, <2>5
<1>4. CASE \E w \in Workers : AckCurrent(w)
  <2>1. PICK w \in Workers : missed' = missed /\ pel' = [pel EXCEPT ![G(w)] = @ \ {cur[w]}]
    BY <1>4 DEF AckCurrent
  <2>2. QED
    BY <1>1, <2>1
<1>5. ASSUME NEW h \in Groups, NEW c \in SUBSET pel[h], RecoverStuck(h, c)
      PROVE  /\ 0 \notin pel'[g]
             /\ \A i \in missed'[g] : i \in missed[g] \/ (i \in Nat \ {0} /\ i < floor)
  <2>1. PICK gone \in SUBSET pel[h] :
          /\ \A i \in gone : i < floor
          /\ pel' = [pel EXCEPT ![h] = @ \ gone]
          /\ missed' = [missed EXCEPT ![h] = @ \cup gone]
    BY <1>5 DEF RecoverStuck
  <2>2. QED
    BY <1>1, <2>1
<1>6. QED
  BY <1>2, <1>3, <1>4, <1>5
     DEF Next, WorkerStep, RetryStep, vars, groupVars, Publish, Start, Parse, Reject, Emit,
         Ack, Fail, DlqPublish, DlqAck, DlqFail, Crash, InitializePipeline, DlqPoll, Republish,
         AckRetried, Quarantine, RetryFail, OrchestratorCrash

\* Every step preserves RetentionInv and LossNeedsOverflow.
LEMMA RetentionStep ==
  ASSUME TypeOK, CursorInv, BatchInv, RetryInv, RetentionInv, LossNeedsOverflow, [Next]_vars
  PROVE  RetentionInv' /\ LossNeedsOverflow'
<1> USE PipelineAssumption
<1>1. /\ Len(stream) \in Nat /\ Len(stream') \in Nat /\ floor \in Nat
      /\ Len(stream) <= Len(stream')
      /\ missed \in [Groups -> SUBSET Nat]
  <2>1. TypeOK' /\ Len(stream) <= Len(stream')
    BY TypeStep, StreamGrows
  <2>2. QED
    BY <2>1 DEF TypeOK
<1>2. floor' = 1 \/ Len(stream') >= floor' + MaxLen - 1
  BY <1>1, FloorStep DEF RetentionInv, Larger
<1>3. ASSUME NEW g \in Groups
      PROVE  /\ 0 \notin pel'[g] /\ 0 \notin missed'[g]
             /\ \A i \in missed'[g] : Len(stream') >= i + MaxLen
  <2>1. 0 \notin pel[g] /\ 0 \notin missed[g]
    BY DEF RetentionInv
  <2>2. /\ 0 \notin pel'[g]
        /\ \A i \in missed'[g] : i \in missed[g] \/ (i \in Nat \ {0} /\ i < floor)
    BY <2>1, MissedStep
  <2>3. \A i \in missed[g] : i \in Nat /\ Len(stream) >= i + MaxLen
    BY <1>1 DEF LossNeedsOverflow
  <2>4. \A i \in Nat \ {0} : i < floor => Len(stream) >= i + MaxLen
    BY <1>1 DEF RetentionInv
  <2>5. ASSUME NEW i \in missed'[g]
        PROVE  Len(stream') >= i + MaxLen
    <3>1. i \in Nat /\ Len(stream) >= i + MaxLen
      BY <2>2, <2>3, <2>4
    <3>2. QED
      BY <1>1, <3>1
  <2>6. QED
    BY <2>1, <2>2, <2>5
<1>4. QED
  BY <1>2, <1>3 DEF RetentionInv, LossNeedsOverflow

\* A group loses an entry to MAXLEN only once a whole retention of newer entries
\* is on the stream, whatever Redis decides to trim and when.
THEOREM LossIsOverflow == Spec => []LossNeedsOverflow
<1> DEFINE Inv == RetentionInv /\ LossNeedsOverflow
<1>1. Init => Inv
  BY PipelineAssumption DEF Init, RetentionInv, LossNeedsOverflow
<1>2. TypeOK /\ CursorInv /\ BatchInv /\ RetryInv /\ Inv /\ [Next]_vars => Inv'
  BY RetentionStep
<1>3. QED
  BY <1>1, <1>2, Basics, PTL DEF Spec

-----------------------------------------------------------------------------
(***************************************************************************)
(* A single worker publishes in stream order.                              *)
(***************************************************************************)

\* Every step preserves SoleInv.
LEMMA SoleStep ==
  ASSUME TypeOK, CursorInv, BatchInv, RetryInv, SoleInv, [Next]_vars
  PROVE  SoleInv'
<1> USE PipelineAssumption
<1>1. SUFFICES ASSUME NEW w \in Workers, Busy(w)', \A v \in Workers : G(v) = G(w) => v = w
               PROVE  last'[w] = cursor'[G(w)]
  BY DEF SoleInv, G
<1>2. G(w) \in Groups /\ cursor \in [Groups -> Int] /\ last \in [Workers -> Nat]
  BY DEF G, TypeOK
<1>3. Busy(w) => last[w] = cursor[G(w)] /\ cursor[G(w)] >= 0
  BY <1>1 DEF SoleInv, BatchInv, Busy
<1>4. CASE UNCHANGED <<start, cursor, workerVars, out, dlq>>
  BY <1>1, <1>3, <1>4 DEF workerVars, Busy
<1>5. ASSUME NEW v \in Workers,
             Start(v) \/ WorkerStep(v) \/ Fail(v) \/ DlqFail(v) \/ Crash(v)
      PROVE  last'[w] = cursor'[G(w)]
  <2>1. CASE v = w
    <3>1. CASE Poll(w)
      <4>1. PICK first, final \in Nat : /\ last' = [last EXCEPT ![w] = final]
                                        /\ cursor' = [cursor EXCEPT ![G(w)] = final]
        BY <3>1, PollRange
      <4>2. QED
        BY <1>2, <4>1
    <3>2. CASE Start(w) \/ DlqFail(w) \/ Crash(w)
      BY <1>1, <3>2 DEF Start, DlqFail, Crash, DropBatch, Busy, TypeOK
    <3>3. CASE Parse(w) \/ Reject(w) \/ Emit(w) \/ Fail(w) \/ DlqPublish(w)
      <4>1. Busy(w) /\ last' = last /\ cursor' = cursor
        BY <3>3 DEF Parse, Reject, Emit, Fail, DlqPublish, Busy, groupVars, AckCurrent
      <4>2. QED
        BY <1>3, <4>1
    <3>4. CASE Ack(w) \/ DlqAck(w)
      <4>1. Busy(w) /\ cursor' = cursor /\ NextMessage(w)
        BY <3>4 DEF Ack, DlqAck, Busy, AckCurrent
      <4>2. last'[w] = last[w]
        BY <1>1, <4>1 DEF NextMessage, Busy, TypeOK
      <4>3. QED
        BY <1>3, <4>1, <4>2
    <3>5. QED
      BY <1>5, <2>1, <3>1, <3>2, <3>3, <3>4 DEF WorkerStep
  <2>2. CASE v # w
    <3>1. pc'[w] = pc[w] /\ last'[w] = last[w]
      BY <1>5, <2>2, Frame
    <3>2. Busy(w)
      BY <1>1, <3>1 DEF Busy
    <3>3. G(v) # G(w) /\ G(v) \in Groups
      BY <1>1, <2>2 DEF G
    <3>4. CASE Poll(v)
      <4>1. PICK final \in Nat : cursor' = [cursor EXCEPT ![G(v)] = final]
        BY <3>4, PollRange
      <4>2. QED
        BY <1>2, <1>3, <3>1, <3>2, <3>3, <4>1
    <3>5. CASE Start(v)
      <4>1. cursor'[G(w)] = cursor[G(w)]
        BY <1>2, <3>3, <3>5 DEF Start
      <4>2. QED
        BY <1>3, <3>1, <3>2, <4>1
    <3>6. CASE cursor' = cursor
      BY <1>3, <3>1, <3>2, <3>6
    <3>7. QED
      BY <1>5, <3>4, <3>5, <3>6
         DEF WorkerStep, Parse, Reject, Emit, Ack, Fail, DlqPublish, DlqAck, DlqFail, Crash,
             AckCurrent, groupVars
  <2>3. QED
    BY <2>1, <2>2
<1>6. QED
  BY <1>4, <1>5, OtherSteps

\* Every step preserves EmissionOrder.
LEMMA OrderStep ==
  ASSUME TypeOK, CursorInv, BatchInv, RetryInv, OutInv, SoleInv, EmissionOrder, [Next]_vars
  PROVE  EmissionOrder'
<1> USE PipelineAssumption
<1> DEFINE Sole(g) == \A v, w \in Workers : G(v) = g /\ G(w) = g => v = w
           Before(d, e) == d.id < e.id \/ (d.id = e.id /\ d.n < e.n)
<1>1. CASE out' = out
  BY <1>1 DEF EmissionOrder, G
<1>2. ASSUME NEW w \in Workers, pc[w] = "emit",
             [grp |-> G(w), id |-> cur[w], n |-> sent[w] + 1] \in Output,
             out' = Append(out, [grp |-> G(w), id |-> cur[w], n |-> sent[w] + 1])
      PROVE  EmissionOrder'
  <2> DEFINE e == [grp |-> G(w), id |-> cur[w], n |-> sent[w] + 1]
  <2>1. out \in Seq(Output) /\ Len(out) \in Nat
    BY DEF TypeOK
  <2>2. /\ DOMAIN out = 1 .. Len(out)
        /\ DOMAIN out' = 1 .. Len(out) + 1
        /\ out'[Len(out) + 1] = e
        /\ \A k \in 1 .. Len(out) : out'[k] = out[k]
    BY <1>2, <2>1, AppendGrows
  <2>3. ASSUME NEW k \in 1 .. Len(out), out[k].grp = G(w), Sole(G(w))
        PROVE  Before(out[k], e)
    <3>1. Busy(w) /\ last[w] = cursor[G(w)]
      BY <1>2, <2>3 DEF Busy, SoleInv
    <3>2. out[k] \in Output
      BY <2>1
    <3>3. out[k].id \in Nat /\ out[k].n \in Nat /\ cur[w] \in Nat /\ sent[w] \in Nat
      BY <3>2 DEF Output, TypeOK
    <3>4. out[k].id <= last[w]
      <4>1. k \in DOMAIN out
        BY <2>2, <2>3
      <4>2. out[k].id <= cursor[out[k].grp]
        BY <4>1 DEF OutInv
      <4>3. QED
        BY <2>3, <3>1, <4>2
    <3>5. cur[w] <= out[k].id => out[k].id = cur[w] /\ out[k].n <= sent[w]
      BY <1>2, <2>2, <2>3, <3>1, <3>4 DEF OutInv
    <3>6. e.id = cur[w] /\ e.n = sent[w] + 1
      OBVIOUS
    <3>7. QED
      BY <3>3, <3>5, <3>6
  <2>4. e.grp = G(w)
    OBVIOUS
  <2> HIDE DEF e
  <2>5. ASSUME NEW j \in DOMAIN out, NEW k \in DOMAIN out, j < k,
               out[j].grp = out[k].grp, Sole(out[j].grp)
        PROVE  Before(out[j], out[k])
    BY <2>5 DEF EmissionOrder
  <2>6. \A k \in 1 .. Len(out) + 1 : k \in 1 .. Len(out) \/ k = Len(out) + 1
    BY <2>1
  <2> HIDE DEF Before, Sole
  <2>7. ASSUME NEW j \in DOMAIN out', NEW k \in DOMAIN out', j < k,
               out'[j].grp = out'[k].grp, Sole(out'[j].grp)
        PROVE  Before(out'[j], out'[k])
    <3>1. CASE k \in 1 .. Len(out)
      <4>1. j \in 1 .. Len(out)
        BY <2>1, <2>2, <2>7, <3>1
      <4>2. out'[j] = out[j] /\ out'[k] = out[k]
        BY <2>2, <3>1, <4>1
      <4>3. out[j].grp = out[k].grp /\ Sole(out[j].grp)
        BY <2>7, <4>2
      <4>4. Before(out[j], out[k])
        BY <2>2, <2>5, <2>7, <3>1, <4>1, <4>3
      <4>5. QED
        BY <4>2, <4>4
    <3>2. CASE k = Len(out) + 1
      <4>1. j \in 1 .. Len(out)
        BY <2>1, <2>2, <2>7, <3>2
      <4>2. out'[j] = out[j] /\ out'[k] = e
        BY <2>2, <3>2, <4>1
      <4>3. QED
        BY <2>3, <2>4, <2>7, <4>1, <4>2
    <3>3. k \in 1 .. Len(out) \/ k = Len(out) + 1
      BY <2>2, <2>6
    <3>4. QED
      BY <3>1, <3>2, <3>3
  <2>8. QED
    BY <2>7 DEF EmissionOrder, G, Before, Sole
<1>3. QED
  BY <1>1, <1>2, OutStep

\* A group with one worker publishes the events of earlier entries first, and
\* those of one entry in order, across crashes, restarts and failed calls.
THEOREM PublishedInOrder == Spec => []EmissionOrder
<1> DEFINE Inv == /\ TypeOK /\ CursorInv /\ BatchInv /\ RetryInv
                  /\ PlanInv /\ DisjointInv /\ OutInv /\ SoleInv /\ EmissionOrder
<1>1. Init => Inv
  <2> SUFFICES ASSUME Init PROVE Inv
    OBVIOUS
  <2>1. PlanInv
    BY DEF Init, PlanInv
  <2>2. DisjointInv /\ SoleInv
    BY DEF Init, DisjointInv, SoleInv, Busy
  <2>3. OutInv /\ EmissionOrder
    BY DEF Init, OutInv, EmissionOrder
  <2>4. QED
    BY <2>1, <2>2, <2>3, InitBasics
<1>2. Inv /\ [Next]_vars => Inv'
  <2>1. SUFFICES ASSUME Inv, [Next]_vars PROVE Inv'
    OBVIOUS
  <2>2. TypeOK' /\ CursorInv' /\ BatchInv' /\ RetryInv'
    BY <2>1, TypeStep, CursorStep, BatchStep, RetryStepInv
  <2>3. PlanInv' /\ DisjointInv' /\ OutInv'
    BY <2>1, PlanStep, DisjointStep, OutInvStep
  <2>4. SoleInv' /\ EmissionOrder'
    BY <2>1, SoleStep, OrderStep
  <2>5. QED
    BY <2>2, <2>3, <2>4
<1>3. Inv => EmissionOrder
  OBVIOUS
<1>4. QED
  BY <1>1, <1>2, <1>3, PTL DEF Spec

-----------------------------------------------------------------------------
(***************************************************************************)
(* Every dead letter the retry manager is done with was copied once, or    *)
(* its budget was spent.                                                   *)
(***************************************************************************)

\* What is appended to the stream is an original, or the manager's copy of the
\* DLQ entry it is at, after which it acknowledges or gives the batch up.
LEMMA StreamStep ==
  ASSUME TypeOK, CursorInv, BatchInv, RetryInv, [Next]_vars
  PROVE  \/ stream' = stream
         \/ \E e \in Entry :
              /\ stream' = Append(stream, e)
              /\ UNCHANGED <<dlqCursor, dlqPel>>
              /\ \/ e.from = 0 /\ UNCHANGED mgrVars
                 \/ /\ mpc = "work" /\ e.from = mcur
                    /\ mpc' = "idle" \/ (mpc' = "ack" /\ mcur' = mcur /\ mlast' = mlast)
<1>1. CASE \E s \in Segments : Publish(s)
  <2>1. PICK s \in Segments : Publish(s)
    BY <1>1
  <2> DEFINE e == [seg |-> s, rc |-> 0, from |-> 0]
  <2>2. e \in Entry /\ e.from = 0
    BY DEF Entry
  <2>3. stream' = Append(stream, e) /\ UNCHANGED <<dlqCursor, dlqPel>> /\ UNCHANGED mgrVars
    BY <2>1 DEF Publish, dlqVars
  <2> HIDE DEF e
  <2>4. QED
    BY <2>2, <2>3
<1>2. CASE mpc = "work" /\ AppendCopy /\ (Republish \/ RetryFail)
  <2> DEFINE e == [seg |-> dlq[mcur].seg, rc |-> dlq[mcur].rc + 1, from |-> mcur]
  <2>1. dlq[mcur] \in DlqEntry /\ mcur \in Nat
    BY <1>2, CurrentExists DEF TypeOK
  <2>2. e \in Entry /\ e.from = mcur
    BY <2>1 DEF Entry, DlqEntry
  <2>3. stream' = Append(stream, e)
    BY <1>2 DEF AppendCopy
  <2>4. stream' # stream
    BY <2>2, <2>3, AppendGrows DEF TypeOK
  <2>5. UNCHANGED <<dlqCursor, dlqPel>>
    BY <1>2, <2>4 DEF Republish, RetryFail, dlqVars, streamVars
  <2>6. mpc' = "idle" \/ (mpc' = "ack" /\ mcur' = mcur /\ mlast' = mlast)
    BY <1>2 DEF Republish, RetryFail
  <2> HIDE DEF e
  <2>7. QED
    BY <1>2, <2>2, <2>3, <2>5, <2>6
<1>3. QED
  BY <1>1, <1>2
     DEF Next, WorkerStep, RetryStep, vars, streamVars, Start, Poll, Parse, Reject, Emit,
         Ack, Fail, DlqPublish, DlqAck, DlqFail, Crash, InitializePipeline, DlqPoll, Republish,
         AckRetried, Quarantine, RetryFail, OrchestratorCrash, RecoverStuck

\* How a step that leaves the stream alone moves the retry manager.
LEMMA ManagerStep ==
  ASSUME TypeOK, RetryInv, [Next]_vars, stream' = stream
  PROVE  \/ UNCHANGED <<dlqCursor, mpc, mcur, mlast>>
         \/ mpc' \in {"idle", "off"} /\ dlqCursor' = dlqCursor
         \/ /\ mpc' = "work" /\ mcur' = dlqCursor + 1
            /\ dlqCursor' >= dlqCursor
            /\ mlast' <= dlqCursor'
         \/ /\ mpc \in {"work", "ack"} /\ mpc' = "work"
            /\ mcur' = mcur + 1 /\ mlast' = mlast /\ dlqCursor' = dlqCursor
<1> USE PipelineAssumption
<1>1. CASE DlqPoll
  BY <1>1 DEF DlqPoll, Smaller, TypeOK
<1>2. CASE Republish
  <2>1. dlq[mcur] \in DlqEntry => Len(stream') = Len(stream) + 1
    <3>1. SUFFICES ASSUME dlq[mcur] \in DlqEntry PROVE Len(stream') = Len(stream) + 1
      OBVIOUS
    <3>2. [seg |-> dlq[mcur].seg, rc |-> dlq[mcur].rc + 1, from |-> mcur] \in Entry
      <4>1. dlq[mcur].seg \in Segments /\ dlq[mcur].rc \in Nat
        BY <3>1 DEF DlqEntry
      <4>2. mcur \in Nat
        BY DEF TypeOK
      <4>3. QED
        BY <4>1, <4>2 DEF Entry
    <3>3. QED
      BY <1>2, <3>2, AppendGrows DEF Republish, AppendCopy, TypeOK
  <2>2. dlq[mcur] \in DlqEntry
    BY <1>2 DEF Republish, RetryInv, TypeOK
  <2>3. QED
    BY <2>1, <2>2 DEF TypeOK
<1>3. CASE AckRetried \/ Quarantine
  BY <1>3 DEF AckRetried, Quarantine, DlqXAck, NextDlqEvent
<1>4. CASE RetryFail
  BY <1>4 DEF RetryFail, DlqXAck, dlqVars
<1>5. CASE OrchestratorCrash \/ InitializePipeline
  BY <1>5 DEF OrchestratorCrash, InitializePipeline, dlqVars
<1>6. CASE UNCHANGED <<dlqCursor, mgrVars>>
  BY <1>6 DEF mgrVars
<1>7. QED
  BY <1>1, <1>2, <1>3, <1>4, <1>5, <1>6
     DEF Next, WorkerStep, RetryStep, vars, dlqVars, Publish, Start, Poll, Parse, Reject, Emit,
         Ack, Fail, DlqPublish, DlqAck, DlqFail, Crash, RecoverStuck

\* Every step preserves CopyInv and RetriedAtMostOnce.
LEMMA CopyStep ==
  ASSUME TypeOK, CursorInv, BatchInv, RetryInv, CopyInv, RetriedAtMostOnce, [Next]_vars
  PROVE  CopyInv' /\ RetriedAtMostOnce'
<1> USE PipelineAssumption
<1> DEFINE Apart(k) == /\ k <= dlqCursor
                       /\ mpc = "work" => k \notin mcur .. mlast
                       /\ mpc = "ack" => k \notin mcur + 1 .. mlast
           ApartNext(k) == /\ k <= dlqCursor'
                           /\ mpc' = "work" => k \notin mcur' .. mlast'
                           /\ mpc' = "ack" => k \notin mcur' + 1 .. mlast'
<1>1. /\ Len(stream) \in Nat /\ DOMAIN stream = 1 .. Len(stream)
      /\ \A i \in DOMAIN stream : stream[i] \in Entry /\ stream[i].from \in Nat
      /\ mcur \in Nat /\ mlast \in Nat /\ dlqCursor \in Nat /\ dlqCursor' \in Nat
      /\ mpc \in {"work", "ack"} => mcur <= mlast /\ mlast <= dlqCursor /\ 1 <= mcur
  <2>1. dlqCursor' \in Nat
    BY TypeStep DEF TypeOK
  <2>2. stream \in Seq(Entry)
    BY DEF TypeOK
  <2>3. Len(stream) \in Nat /\ DOMAIN stream = 1 .. Len(stream)
    BY <2>2
  <2>4. ASSUME NEW i \in DOMAIN stream
        PROVE  stream[i] \in Entry /\ stream[i].from \in Nat
    <3>1. stream[i] \in Entry
      BY <2>2, <2>3
    <3>2. QED
      BY <3>1 DEF Entry
  <2>5. QED
    BY <2>1, <2>3, <2>4 DEF TypeOK, RetryInv
<1>2. \A i \in DOMAIN stream : stream[i].from # 0 => Apart(stream[i].from)
  BY DEF CopyInv
<1>3. CASE stream' = stream
  <2>1. ASSUME NEW i \in DOMAIN stream, stream[i].from # 0
        PROVE  ApartNext(stream[i].from)
    <3>1. Apart(stream[i].from) /\ stream[i].from \in Nat
      BY <1>1, <1>2, <2>1
    <3>2. QED
      BY <1>1, <1>3, <3>1, ManagerStep
  <2>2. QED
    BY <1>3, <2>1 DEF CopyInv, RetriedAtMostOnce
<1>4. ASSUME NEW e \in Entry,
             stream' = Append(stream, e),
             UNCHANGED <<dlqCursor, dlqPel>>,
             \/ e.from = 0 /\ UNCHANGED mgrVars
             \/ /\ mpc = "work" /\ e.from = mcur
                /\ mpc' = "idle" \/ (mpc' = "ack" /\ mcur' = mcur /\ mlast' = mlast)
      PROVE  CopyInv' /\ RetriedAtMostOnce'
  <2>1. /\ DOMAIN stream' = 1 .. Len(stream) + 1
        /\ stream'[Len(stream) + 1] = e
        /\ \A i \in 1 .. Len(stream) : stream'[i] = stream[i]
    BY <1>4, AppendGrows DEF TypeOK
  <2>2. \A i \in 1 .. Len(stream) + 1 : i \in 1 .. Len(stream) \/ i = Len(stream) + 1
    BY <1>1
  <2>3. ASSUME NEW i \in DOMAIN stream, stream[i].from # 0
        PROVE  ApartNext(stream[i].from) /\ stream[i].from # e.from
    <3>1. Apart(stream[i].from) /\ stream[i].from \in Nat
      BY <1>1, <1>2, <2>3
    <3>2. CASE e.from = 0 /\ UNCHANGED mgrVars
      BY <1>4, <2>3, <3>1, <3>2 DEF mgrVars
    <3>3. CASE /\ mpc = "work" /\ e.from = mcur
               /\ mpc' = "idle" \/ (mpc' = "ack" /\ mcur' = mcur /\ mlast' = mlast)
      BY <1>1, <1>4, <3>1, <3>3
    <3>4. QED
      BY <1>4, <3>2, <3>3
  <2>4. e.from # 0 => ApartNext(e.from)
    BY <1>1, <1>4
  <2> HIDE DEF ApartNext, Apart
  <2>5. \A i \in DOMAIN stream' : stream'[i].from # 0 => ApartNext(stream'[i].from)
    BY <1>1, <2>1, <2>2, <2>3, <2>4
  <2>6. ASSUME NEW i \in DOMAIN stream', NEW j \in DOMAIN stream',
               stream'[i].from = stream'[j].from, stream'[i].from # 0
        PROVE  i = j
    <3>1. CASE i \in 1 .. Len(stream) /\ j \in 1 .. Len(stream)
      BY <1>1, <2>1, <2>6, <3>1 DEF RetriedAtMostOnce
    <3>2. CASE i = Len(stream) + 1 /\ j \in 1 .. Len(stream)
      BY <1>1, <2>1, <2>3, <2>6, <3>2
    <3>3. CASE i \in 1 .. Len(stream) /\ j = Len(stream) + 1
      BY <1>1, <2>1, <2>3, <2>6, <3>3
    <3>4. QED
      BY <2>1, <2>2, <3>1, <3>2, <3>3
  <2>7. QED
    BY <2>5, <2>6 DEF CopyInv, RetriedAtMostOnce, ApartNext
<1>5. QED
  BY <1>3, <1>4, StreamStep

\* A copy of a DLQ entry stays on the stream.
LEMMA CopyStays ==
  ASSUME TypeOK, CursorInv, BatchInv, RetryInv, [Next]_vars, NEW k,
         \E i \in DOMAIN stream : stream[i].from = k
  PROVE  \E i \in DOMAIN stream' : stream'[i].from = k
<1>1. PICK i \in DOMAIN stream : stream[i].from = k
  OBVIOUS
<1>2. /\ Len(stream) \in Nat /\ Len(stream') \in Nat
      /\ DOMAIN stream = 1 .. Len(stream) /\ DOMAIN stream' = 1 .. Len(stream')
  <2>1. stream \in Seq(Entry) /\ stream' \in Seq(Entry)
    BY TypeStep DEF TypeOK
  <2>2. QED
    BY <2>1
<1>3. i \in DOMAIN stream' /\ stream'[i] = stream[i]
  BY <1>1, <1>2, StreamGrows
<1>4. QED
  BY <1>1, <1>3

\* The manager turns to the acknowledgement when it has copied, and stays there.
LEMMA AckStep ==
  ASSUME TypeOK, CursorInv, BatchInv, RetryInv, AckInv, [Next]_vars
  PROVE  AckInv'
<1>1. SUFFICES ASSUME mpc' = "ack"
               PROVE  \E i \in DOMAIN stream' : stream'[i].from = mcur'
  BY DEF AckInv
<1>2. CASE mpc = "ack" /\ mcur' = mcur
  BY <1>2, CopyStays DEF AckInv
<1>3. CASE Republish
  <2>1. mpc = "work" /\ mcur' = mcur /\ mcur \in Nat
    BY <1>3 DEF Republish, TypeOK
  <2> DEFINE e == [seg |-> dlq[mcur].seg, rc |-> dlq[mcur].rc + 1, from |-> mcur]
  <2>2. e \in Entry /\ e.from = mcur
    BY <2>1, CurrentExists DEF Entry, DlqEntry
  <2>3. stream' = Append(stream, e)
    BY <1>3 DEF Republish, AppendCopy
  <2> HIDE DEF e
  <2>4. Len(stream) + 1 \in DOMAIN stream' /\ stream'[Len(stream) + 1] = e
    BY <2>2, <2>3, AppendGrows DEF TypeOK
  <2>5. QED
    BY <2>1, <2>2, <2>4
<1>4. mpc' = "ack" => Republish \/ (mpc = "ack" /\ mcur' = mcur)
  BY DEF Next, WorkerStep, RetryStep, vars, mgrVars, Publish, Start, Poll, Parse, Reject, Emit,
         Ack, Fail, DlqPublish, DlqAck, DlqFail, Crash, InitializePipeline, DlqPoll,
         AckRetried, Quarantine, NextDlqEvent, RetryFail, OrchestratorCrash, RecoverStuck
<1>5. QED
  BY <1>1, <1>2, <1>3, <1>4

\* What the manager comes to have read is pending; what it acknowledges it has
\* copied, or its budget is spent.
LEMMA DlqPendingStep ==
  ASSUME TypeOK, CursorInv, BatchInv, RetryInv, [Next]_vars, NEW k \in Nat
  PROVE  /\ k <= dlqCursor' => k <= dlqCursor \/ k \in dlqPel'
         /\ k \in dlqPel => \/ k \in dlqPel'
                            \/ k = mcur /\ mpc = "ack"
                            \/ k = mcur /\ dlq[mcur].rc >= MaxRetries
<1> USE PipelineAssumption
<1>1. CASE DlqPoll
  BY <1>1 DEF DlqPoll, Smaller, TypeOK
<1>2. CASE AckRetried \/ Quarantine
  BY <1>2 DEF AckRetried, Quarantine, DlqXAck
<1>3. CASE RetryFail
  BY <1>3 DEF RetryFail, DlqXAck, dlqVars
<1>4. CASE UNCHANGED <<dlqCursor, dlqPel>>
  BY <1>4
<1>5. QED
  BY <1>1, <1>2, <1>3, <1>4
     DEF Next, WorkerStep, RetryStep, vars, dlqVars, Publish, Start, Poll, Parse, Reject, Emit,
         Ack, Fail, DlqPublish, DlqAck, DlqFail, Crash, InitializePipeline, Republish,
         OrchestratorCrash, RecoverStuck

\* Every step preserves DlqAccounted.
LEMMA AccountedStep ==
  ASSUME TypeOK, CursorInv, BatchInv, RetryInv, AckInv, DlqAccounted, [Next]_vars
  PROVE  DlqAccounted'
<1> USE PipelineAssumption
<1>1. SUFFICES ASSUME NEW k \in 1 .. dlqCursor'
               PROVE  \/ k \in dlqPel'
                      \/ dlq'[k].rc >= MaxRetries
                      \/ \E i \in DOMAIN stream' : stream'[i].from = k
  BY DEF DlqAccounted
<1>2. k \in Nat /\ 1 <= k /\ k <= dlqCursor' /\ dlqCursor \in Nat /\ Len(dlq) \in Nat
  BY TypeStep DEF TypeOK
<1>3. CASE k <= dlqCursor
  <2>1. k \in DOMAIN dlq
    BY <1>2, <1>3 DEF RetryInv, TypeOK
  <2>2. dlq'[k] = dlq[k]
    BY <2>1, TracesStay
  <2>3. \/ k \in dlqPel
        \/ dlq[k].rc >= MaxRetries
        \/ \E i \in DOMAIN stream : stream[i].from = k
    BY <1>2, <1>3 DEF DlqAccounted
  <2>4. CASE k \in dlqPel
    BY <1>2, <2>2, <2>4, DlqPendingStep, CopyStays DEF AckInv
  <2>5. QED
    BY <2>2, <2>3, <2>4, CopyStays
<1>4. QED
  BY <1>2, <1>3, DlqPendingStep

\* No failure is put back twice, although the copy and the acknowledgement are
\* two calls and the orchestrator may crash or fail between them.
THEOREM RetriedOnce == Spec => []RetriedAtMostOnce
<1> DEFINE Inv == CopyInv /\ RetriedAtMostOnce
<1>1. Init => Inv
  BY DEF Init, CopyInv, RetriedAtMostOnce
<1>2. TypeOK /\ CursorInv /\ BatchInv /\ RetryInv /\ Inv /\ [Next]_vars => Inv'
  BY CopyStep
<1>3. QED
  BY <1>1, <1>2, Basics, PTL DEF Spec

\* No dead letter the manager has read is forgotten: it is pending, copied, or
\* its budget was spent.
THEOREM DeadLettersAccounted == Spec => []DlqAccounted
<1> DEFINE Inv == AckInv /\ DlqAccounted
<1>1. Init => Inv
  BY DEF Init, AckInv, DlqAccounted
<1>2. TypeOK /\ CursorInv /\ BatchInv /\ RetryInv /\ Inv /\ [Next]_vars => Inv'
  BY AckStep, AccountedStep
<1>3. QED
  BY <1>1, <1>2, Basics, PTL DEF Spec
=============================================================================
