-------------------------- MODULE StreamPipelineInv --------------------------
(***************************************************************************)
(* The inductive invariant behind the safety properties of StreamPipeline. *)
(***************************************************************************)
EXTENDS StreamPipeline

Busy(w) == pc[w] \in {"parse", "emit", "ack", "dlq", "dlqAck"}

\* Cursors and trimming stay within the stream, a group starts before what it
\* is delivered.
CursorInv ==
  /\ floor <= Larger(1, Len(stream))
  /\ \A g \in Groups : /\ start[g] <= Len(stream)
                       /\ cursor[g] <= Len(stream)
                       /\ cursor[g] = -1 \/ start[g] <= cursor[g]

\* A busy worker's batch lies in what its group was delivered.
BatchInv ==
  \A w \in Workers :
    /\ pc[w] # "down" => cursor[G(w)] >= 0
    /\ Busy(w) => /\ start[G(w)] < cur[w]
                  /\ cur[w] <= last[w]
                  /\ last[w] <= cursor[G(w)]

\* The retry manager's batch lies in what it read of the DLQ.
RetryInv ==
  /\ dlqCursor <= Len(dlq)
  /\ mpc \in {"work", "ack"} => 1 <= mcur /\ mcur <= mlast /\ mlast <= dlqCursor

\* Two busy workers of a group have batches that do not meet.
DisjointInv ==
  \A v, w \in Workers :
    v # w /\ G(v) = G(w) /\ Busy(v) /\ Busy(w) => last[v] < cur[w] \/ last[w] < cur[v]

\* Where a worker is in the emission of its current message.
PlanInv ==
  \A w \in Workers :
    /\ pc[w] \in {"idle", "down", "parse"} => sent[w] = 0
    /\ pc[w] \in {"emit", "ack"} => plan[w] \in Outputs[G(w)][stream[cur[w]].seg]
    /\ pc[w] = "emit" => sent[w] < plan[w]
    /\ pc[w] = "ack" => sent[w] = plan[w]

\* What has been published comes from delivered entries, and of a worker's
\* unfinished entries only from the current one, up to sent.
OutInv ==
  \A k \in DOMAIN out :
    /\ out[k].id <= cursor[out[k].grp]
    /\ \A w \in Workers :
         Busy(w) /\ G(w) = out[k].grp /\ cur[w] <= out[k].id /\ out[k].id <= last[w]
         => /\ out[k].id = cur[w]
            /\ pc[w] # "parse"
            /\ pc[w] \in {"emit", "ack"} => out[k].n <= sent[w]

\* A worker past a publication finds it in the stream it published to.
ProgressInv ==
  \A w \in Workers :
    /\ pc[w] \in {"emit", "ack"} => \A n \in 1 .. sent[w] : Emitted(G(w), cur[w], n)
    /\ pc[w] = "dlqAck" => InDlq(G(w), cur[w])

\* What is trimmed is a whole retention behind the end of the stream, and ids
\* count from one.
RetentionInv ==
  /\ floor = 1 \/ Len(stream) >= floor + MaxLen - 1
  /\ \A g \in Groups : 0 \notin pel[g] /\ 0 \notin missed[g]

\* The batch of a worker that is alone in its group ends where the group does.
SoleInv ==
  \A w \in Workers :
    Busy(w) /\ (\A v \in Workers : G(v) = G(w) => v = w) => last[w] = cursor[G(w)]

\* Copies on the stream come from DLQ entries the manager has read, of its
\* unfinished batch only from the one it is about to acknowledge.
CopyInv ==
  \A i \in DOMAIN stream :
    stream[i].from # 0 =>
      /\ stream[i].from <= dlqCursor
      /\ mpc = "work" => stream[i].from \notin mcur .. mlast
      /\ mpc = "ack" => stream[i].from \notin mcur + 1 .. mlast

\* The manager acknowledges after a retry only what it has copied.
AckInv == mpc = "ack" => \E i \in DOMAIN stream : stream[i].from = mcur

\* The inductive invariant.
IInv ==
  /\ TypeOK
  /\ CursorInv
  /\ BatchInv
  /\ RetryInv
  /\ DisjointInv
  /\ PlanInv
  /\ OutInv
  /\ ProgressInv
  /\ RetentionInv
  /\ SoleInv
  /\ CopyInv
  /\ AckInv
  /\ NoSilentLoss
  /\ LossNeedsOverflow
  /\ AtMostOncePerEntry
  /\ EmissionOrder
  /\ RetriedAtMostOnce
  /\ DlqAccounted
=============================================================================
