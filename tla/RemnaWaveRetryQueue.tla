------------------------ MODULE RemnaWaveRetryQueue ------------------------
(***************************************************************************)
(* The deferred queue of panel updates that failed with an exception: a     *)
(* deque in the memory of the bot and one task that empties it at every     *)
(* interval and works through what it took.  Any handler may enqueue while  *)
(* the task waits for the panel.                                            *)
(***************************************************************************)
EXTENDS Naturals, Sequences

CONSTANTS
  Subscription, \* subscriptions that may be enqueued
  Gone,         \* those whose row has been deleted since
  MaxRetries    \* max_retries

VARIABLES
  queue,  \* _queue
  batch   \* what process_pending took and has not worked through

Item == [sub : Subscription, attempts : 0..MaxRetries]

QueueInit == queue = <<>> /\ batch = <<>>

InSeq(seq, s) == \E i \in DOMAIN seq : seq[i].sub = s
Held(s) == InSeq(queue, s) \/ InSeq(batch, s)

\* One item for a subscription, as far as the deque shows.  (Mutation: one
\* item for all of them.)
EnqueueFirst(s) ==
  /\ queue' = IF queue # <<>> THEN queue
              ELSE Append(queue, [sub |-> s, attempts |-> 0])
  /\ UNCHANGED batch
Enqueue(s) ==
  /\ queue' = IF InSeq(queue, s) THEN queue
              ELSE Append(queue, [sub |-> s, attempts |-> 0])
  /\ UNCHANGED batch

\* process_pending starts: the deque is copied and cleared.
Take ==
  /\ batch = <<>> /\ queue # <<>>
  /\ batch' = queue /\ queue' = <<>>

\* The update returns, or the row is gone: the item is done with.
Drop ==
  /\ batch # <<>>
  /\ batch' = Tail(batch) /\ UNCHANGED queue

\* An exception, or no panel configured: put back, without a look at the deque.
Exhausted(item) == item.attempts + 1 >= MaxRetries
Requeue ==
  /\ batch # <<>>
  /\ batch' = Tail(batch)
  /\ queue' = IF Exhausted(Head(batch)) THEN queue
              ELSE Append(queue, [Head(batch) EXCEPT !.attempts = @ + 1])

\* stop, or the end of the process.
Forget == queue' = <<>> /\ batch' = <<>>
=============================================================================
