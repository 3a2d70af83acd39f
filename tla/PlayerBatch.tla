----------------------------- MODULE PlayerBatch -----------------------------
(***************************************************************************)
(* GetPlayerHistoriesBatch of endpoints/async.go: workers that pull input  *)
(* positions from a shared counter and send results into a buffered        *)
(* channel, the goroutine that closes it, and the consumer, who may stop   *)
(* reading or cancel the context at any time.  The fetch of one history is *)
(* one step: it ends with a result, a value or an error.  The single async *)
(* methods (deliverAsync) are a goroutine that fetches, sends into a       *)
(* channel of one result and closes it, whatever became of the context.    *)
(***************************************************************************)
EXTENDS Naturals, Sequences, FiniteSets

CONSTANTS BatchWorkers,  \* batchWorkers of the code
          MaxInputs      \* bound of the model: length of ids

ASSUME BatchAssumption == BatchWorkers \in Nat \ {0} /\ MaxInputs \in Nat

VARIABLES kind,       \* "batch", or "single" for deliverAsync
          n,          \* len(ids)
          next,       \* the shared counter
          pc,         \* where each worker is in its loop
          pos,        \* the position a worker pulled
          channel,    \* positions of the buffered results
          closed,     \* the channel is closed
          received,   \* positions of the results the consumer received
          consumer,   \* "reading", "abandoned", or "ended" after seeing the close
          cancelled,  \* the context is done
          late        \* history: fetches started after the cancellation

vars == <<kind, n, next, pc, pos, channel, closed, received, consumer, cancelled, late>>

Pool == 1 .. BatchWorkers
workers == IF n < BatchWorkers THEN n ELSE BatchWorkers   \* also the channel's capacity
Workers == 1 .. workers

\* pc: "top" before the ctx.Err check, "pull" before next.Add, "fetch" in
\* getPlayerHistory, "send" in the select, "exited" after wg.Done.
\* Without input no worker starts and the channel is closed at once; deliverAsync is one
\* goroutine that is in its operation already.
Init == /\ \/ kind = "batch" /\ n \in 0 .. MaxInputs /\ next = 0
           \/ kind = "single" /\ n = 1 /\ next = 1
        /\ pc = [w \in Pool |-> IF w \in Workers THEN (IF kind = "batch" THEN "top" ELSE "fetch")
                                ELSE "exited"]
        /\ pos = [w \in Pool |-> 0]
        /\ channel = <<>>
        /\ closed = (n = 0)
        /\ received = <<>>
        /\ consumer = "reading"
        /\ cancelled = FALSE
        /\ late = 0

Goto(w, place) == pc' = [pc EXCEPT ![w] = place]

\* Mutant of the loop: the context is not looked at.
TopDeaf(w) == /\ pc[w] = "top"
              /\ Goto(w, "pull")
              /\ UNCHANGED <<kind, n, next, pos, channel, closed, received, consumer, cancelled, late>>

\* ctx.Err at the top of the loop.
Top(w) == /\ pc[w] = "top"
          /\ Goto(w, IF cancelled THEN "exited" ELSE "pull")
          /\ UNCHANGED <<kind, n, next, pos, channel, closed, received, consumer, cancelled, late>>

\* Mutant of the counter: positions start at one.
PullFromOne(w) == /\ pc[w] = "pull"
                  /\ next' = next + 1
                  /\ \/ next + 1 >= n /\ Goto(w, "exited") /\ UNCHANGED <<pos, late>>
                     \/ /\ next + 1 < n
                        /\ pos' = [pos EXCEPT ![w] = next + 1]
                        /\ late' = IF cancelled THEN late + 1 ELSE late
                        /\ Goto(w, "fetch")
                  /\ UNCHANGED <<kind, n, channel, closed, received, consumer, cancelled>>

\* i := next.Add(1) - 1; the worker returns when there is no position i.
Pull(w) == /\ pc[w] = "pull"
           /\ next' = next + 1
           /\ \/ next >= n /\ Goto(w, "exited") /\ UNCHANGED <<pos, late>>
              \/ /\ next < n
                 /\ pos' = [pos EXCEPT ![w] = next]
                 /\ late' = IF cancelled THEN late + 1 ELSE late
                 /\ Goto(w, "fetch")
           /\ UNCHANGED <<kind, n, channel, closed, received, consumer, cancelled>>

\* getPlayerHistory returns, also with the context's error.
Fetch(w) == /\ pc[w] = "fetch"
            /\ Goto(w, "send")
            /\ UNCHANGED <<kind, n, next, pos, channel, closed, received, consumer, cancelled, late>>

\* After its send a worker goes on and deliverAsync returns.
Sent(w) == Goto(w, IF kind = "batch" THEN "top" ELSE "exited")

\* Mutants of the send: a buffer for the whole batch, and none for a single result.
SendUnbounded(w) == /\ pc[w] = "send"
                    /\ channel' = Append(channel, pos[w])
                    /\ Sent(w)
                    /\ UNCHANGED <<kind, n, next, pos, closed, received, consumer, cancelled, late>>

SendUnbuffered(w) == /\ pc[w] = "send"
                     /\ Len(channel) < workers
                     /\ kind = "single" => consumer = "reading"
                     /\ channel' = Append(channel, pos[w])
                     /\ Sent(w)
                     /\ UNCHANGED <<kind, n, next, pos, closed, received, consumer, cancelled, late>>

\* The result is sent: there is room in the buffer.
Send(w) == /\ pc[w] = "send"
           /\ Len(channel) < workers
           /\ channel' = Append(channel, pos[w])
           /\ Sent(w)
           /\ UNCHANGED <<kind, n, next, pos, closed, received, consumer, cancelled, late>>

\* Mutant of the drop: the context is looked at only when the send would not block.
DropPolitely(w) ==
  /\ pc[w] = "send" /\ kind = "batch"
  /\ cancelled
  /\ Len(channel) < workers
  /\ Goto(w, "exited")
  /\ UNCHANGED <<kind, n, next, pos, channel, closed, received, consumer, cancelled, late>>

\* The select takes ctx.Done: the result is dropped and the worker returns.
Drop(w) == /\ pc[w] = "send" /\ kind = "batch"
           /\ cancelled
           /\ Goto(w, "exited")
           /\ UNCHANGED <<kind, n, next, pos, channel, closed, received, consumer, cancelled, late>>

\* Mutant of the close: it waits for the context and not for the workers.
CloseOnCancel == /\ cancelled
                 /\ ~closed
                 /\ closed' = TRUE
                 /\ UNCHANGED <<kind, n, next, pc, pos, channel, received, consumer, cancelled, late>>

\* wg.Wait returns and the channel is closed, by deliverAsync when it returns.
Close == /\ \A w \in Workers : pc[w] = "exited"
         /\ ~closed
         /\ closed' = TRUE
         /\ UNCHANGED <<kind, n, next, pc, pos, channel, received, consumer, cancelled, late>>

Receive == /\ consumer = "reading"
           /\ channel # <<>>
           /\ received' = Append(received, Head(channel))
           /\ channel' = Tail(channel)
           /\ UNCHANGED <<kind, n, next, pc, pos, closed, consumer, cancelled, late>>

SeeClose == /\ consumer = "reading"
            /\ closed /\ channel = <<>>
            /\ consumer' = "ended"
            /\ UNCHANGED <<kind, n, next, pc, pos, channel, closed, received, cancelled, late>>

Abandon == /\ consumer = "reading"
           /\ consumer' = "abandoned"
           /\ UNCHANGED <<kind, n, next, pc, pos, channel, closed, received, cancelled, late>>

Cancel == /\ ~cancelled
          /\ cancelled' = TRUE
          /\ UNCHANGED <<kind, n, next, pc, pos, channel, closed, received, consumer, late>>

Work(w) == Top(w) \/ Pull(w) \/ Fetch(w) \/ Send(w) \/ Drop(w)

Next == \/ \E w \in Pool : Work(w)
        \/ Close \/ Receive \/ SeeClose \/ Abandon \/ Cancel

Spec == Init /\ [][Next]_vars

\* Goroutines run, fetches end, and a consumer that did not stop goes on reading.
FairSpec == /\ Spec
            /\ \A w \in Pool : WF_vars(Work(w))
            /\ WF_vars(Close) /\ WF_vars(Receive) /\ WF_vars(SeeClose)

-----------------------------------------------------------------------------
(* Properties *)

Pulled == 0 .. (IF next < n THEN next ELSE n) - 1
InHand == {w \in Pool : pc[w] \in {"fetch", "send"}}

\* Nobody sends on the closed channel, which would panic, whenever the context is
\* cancelled: closing waits for every worker, also for one blocked in its send.
ClosedAfterWorkers == closed => \A w \in Pool : pc[w] = "exited"

\* The contract's bound on what runs ahead of the consumer: at most one result per worker
\* is buffered and one held, however long the batch and however slow the reader.
BoundedAhead ==
  ~cancelled => Cardinality(Pulled) <= Len(received) + Len(channel) + Cardinality(InHand)
                /\ Cardinality(Pulled) <= Len(received) + 2 * workers

\* A cancellation bounds the work done after it to one fetch per worker, the one whose
\* position was pulled between its check of the context and the counter.
BoundedAfterCancel == late <= workers

\* What the consumer sees is the delivery contract: no result twice, none made up, and
\* while the context is active none missing when the channel ends.
Promise == INSTANCE BatchContract WITH inputs <- n, delivered <- received,
                                       ended <- (consumer = "ended")

DeliversContract == Promise!Contract

\* A cancelled batch ends and frees its workers even when nobody reads any more.
CancelReleases == cancelled ~> closed

\* A single async call delivers exactly one result, also when the context was cancelled,
\* and it closes its channel and ends, also when nobody reads it.
SingleDelivered ==
  kind = "single" => <>closed /\ [](consumer = "ended" => received = <<0>>)

\* Without a cancellation the batch ends as long as the consumer does not stop reading.
ReadingEnds == <>(consumer \in {"ended", "abandoned"})
=============================================================================
