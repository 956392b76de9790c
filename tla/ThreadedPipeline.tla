-------------------------- MODULE ThreadedPipeline --------------------------
(***************************************************************************)
(* run_threaded of apps/trading_sim.cpp: a producer thread replays the     *)
(* market data events through an SPSCQueue to an engine thread, ends the   *)
(* stream with a sentinel and raises producer_done.  The queue's steps are *)
(* those of SPSCQueue; this module adds what the two threads do around     *)
(* them.  Handling an event is appending it to consumed.                   *)
(***************************************************************************)
EXTENDS SPSCQueue

CONSTANTS Events,    \* replay.events()
          Sentinel   \* what is_sentinel recognises: sequence_number == UINT64_MAX

VARIABLES producer_done,  \* the atomic flag, stored once
          loc,            \* where the consumer's loop is
          consumed        \* the events given to process_market_data_event

engineVars == <<producer_done, loc, consumed>>
pipeVars == <<queueVars, engineVars>>

\* Mutant: the stream is not closed by a sentinel.
StreamUnclosed == Events

\* What the producer pushes: the events, then the sentinel.
Stream == Append(Events, Sentinel)

ASSUME PipelineAssumption ==
    /\ Events \in Seq(Values) /\ Sentinel \in Values
    /\ PushLimit = Len(Events) + 1

is_sentinel(event) == event = Sentinel

PipeInit ==
    /\ QueueInit
    /\ producer_done = FALSE /\ loc = "pop" /\ consumed = <<>>

-----------------------------------------------------------------------------
(* The producer: push each item until the queue takes it, then store the    *)
(* flag and end.                                                           *)

ProducerPush ==
    /\ Len(pushed) < Len(Stream)
    /\ PushCall(Stream[Len(pushed) + 1])
    /\ UNCHANGED engineVars

ProducerInPush == PushStep /\ UNCHANGED engineVars

ProducerDone ==
    /\ ppc = "idle" /\ Len(pushed) = Len(Stream) /\ ~producer_done
    /\ producer_done' = TRUE
    /\ UNCHANGED <<queueVars, loc, consumed>>

Producer == ProducerPush \/ ProducerInPush \/ ProducerDone

(* The consumer's loop. *)

ConsumerPop ==
    /\ loc = "pop"
    /\ PopCall
    /\ UNCHANGED engineVars

\* pop fails: look at the flag before trying again.
ConsumerInPop ==
    /\ PopStep
    /\ loc' = IF cpc' # "idle" THEN "pop"
              ELSE IF cpc = "release" THEN "got" ELSE "failed"
    /\ UNCHANGED <<producer_done, consumed>>

\* The load of producer_done returns false, be it late: yield and retry.
ConsumerSeesRunning ==
    /\ loc = "failed"
    /\ loc' = "pop"
    /\ UNCHANGED <<queueVars, producer_done, consumed>>

\* Mutant: the flag is loaded relaxed, which orders nothing.
SyncWithProducerRelaxed == UNCHANGED tailAcq

\* The acquire load that returns true makes all the producer did visible.
SyncWithProducer == tailAcq' = Len(pushed)

ConsumerSeesDone ==
    /\ loc = "failed" /\ producer_done
    /\ SyncWithProducer
    /\ loc' = "asking"
    /\ UNCHANGED <<buffer, head, tail, cpc, out, chead, cHint, producerVars,
                   pushed, popped, producer_done, consumed>>

\* queue.empty(): the loop continues whatever the answer.
ConsumerAsksEmpty ==
    /\ loc = "asking"
    /\ \E n \in tailAcq .. Len(pushed) : ConsumerAsks(n)
    /\ loc' = "pop"
    /\ UNCHANGED <<producer_done, consumed>>

\* Mutant: the popped event is dropped on the way to the engine.
HandleDrops == consumed' \in {consumed, Append(consumed, out)}

Handle == consumed' = Append(consumed, out)

ConsumerHandles ==
    /\ loc = "got"
    /\ IF is_sentinel(out)
       THEN loc' = "exited" /\ UNCHANGED consumed
       ELSE loc' = "pop" /\ Handle
    /\ UNCHANGED <<queueVars, producer_done>>

Consumer ==
    \/ ConsumerPop
    \/ ConsumerInPop
    \/ ConsumerSeesRunning
    \/ ConsumerSeesDone
    \/ ConsumerAsksEmpty
    \/ ConsumerHandles

\* producer.join(); consumer.join();
Joined == producer_done /\ loc = "exited"

PipeNext == Producer \/ Consumer \/ (Joined /\ UNCHANGED pipeVars)

-----------------------------------------------------------------------------
(* Fairness: both threads keep being scheduled, and a store to an atomic    *)
(* reaches a thread that keeps loading it in finite time, so a thread that  *)
(* loads an index again and again also loads its latest value again and     *)
(* again.                                                                  *)

ProducerLoadsLatest ==
    (PushFull(Len(popped)) \/ PushRoom(Len(popped))) /\ UNCHANGED engineVars

ConsumerLoadsLatest ==
    /\ ConsumerInPop
    /\ PopEmpty(Len(pushed)) \/ PopItem(Len(pushed))

PipeFairness ==
    /\ WF_pipeVars(Producer) /\ WF_pipeVars(Consumer)
    /\ SF_pipeVars(ProducerLoadsLatest) /\ SF_pipeVars(ConsumerLoadsLatest)

PipeSpec == PipeInit /\ [][PipeNext]_pipeVars /\ PipeFairness

-----------------------------------------------------------------------------
PipeTypeOK ==
    /\ QueueTypeOK
    /\ producer_done \in BOOLEAN
    /\ loc \in {"pop", "failed", "asking", "got", "exited"}
    /\ consumed \in Seq(Values)

(* The engine thread handles the replay's events exactly once and in order, *)
(* and when it leaves the loop it has handled all of them (every event is   *)
(* "consumed == event_count" in the threaded test).                        *)
HandoffExact ==
    /\ Len(consumed) <= Len(Events)
    /\ \A k \in 1 .. Len(consumed) : consumed[k] = Events[k]
    /\ loc = "exited" => consumed = Events

(* When the consumer has read producer_done as true, the sentinel is still  *)
(* queued and visible to it: the queue cannot look drained after the end of *)
(* the stream, so the loop never continues forever on the branch that finds *)
(* producer_done set and the queue empty.                                  *)
SentinelStillQueued == loc = "asking" => Len(popped) < tailAcq

(* Both threads end, and run_threaded returns from its joins. *)
Termination == <>Joined

=============================================================================
