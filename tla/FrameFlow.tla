----------------------------- MODULE FrameFlow ------------------------------
(***************************************************************************)
(* What a live stream promises its subscribers, as if frames were values:  *)
(* there are no buffers to recycle, no references to count and no locks.   *)
(*   - A frame is made once, in order, and stays what it is wherever it    *)
(*     has got to: the ingest channel, the fan-out, a subscriber's         *)
(*     channel, its hand, a viewer's cache.                                *)
(*   - It moves one place at a time, and may be dropped on the way.        *)
(*   - A fan-out offers its frame once to each subscriber it set out with, *)
(*     before it turns to the next frame.                                  *)
(***************************************************************************)
EXTENDS Naturals, Sequences

CONSTANT Subs

VARIABLES
  sent,    \* frames made so far; they are numbered from 1
  making,  \* the frame the publisher has in hand; 0 for none
  ingest,  \* frames on their way to the fan-out
  fan,     \* the frame that is being fanned out; 0 for none
  todo,    \* the subscribers that are still to be offered it
  queue,   \* what each subscriber has to write
  hand,    \* what each subscriber is writing; 0 for nothing
  last,    \* what each subscriber wrote last; 0 for nothing
  cache    \* what each subscriber keeps for its viewer

vars == <<sent, making, ingest, fan, todo, queue, hand, last, cache>>

Init ==
  /\ sent = 0 /\ making = 0 /\ ingest = <<>> /\ fan = 0 /\ todo = {}
  /\ queue = [s \in Subs |-> <<>>] /\ cache = [s \in Subs |-> <<>>]
  /\ hand = [s \in Subs |-> 0] /\ last = [s \in Subs |-> 0]

Make ==
  /\ making = 0
  /\ sent' = sent + 1 /\ making' = sent + 1
  /\ UNCHANGED <<ingest, fan, todo, queue, hand, last, cache>>

\* The frame is sent, or dropped: the channel is full or the stream closed.
Send ==
  /\ making # 0
  /\ making' = 0
  /\ ingest' \in {ingest, Append(ingest, making)}
  /\ UNCHANGED <<sent, fan, todo, queue, hand, last, cache>>

BeginFan ==
  /\ fan = 0 /\ ingest # <<>>
  /\ fan' = Head(ingest) /\ ingest' = Tail(ingest)
  /\ todo' \subseteq Subs
  /\ UNCHANGED <<sent, making, queue, hand, last, cache>>

\* Subscriber s is offered the frame: it queues or drops it, or caches it and
\* lets go of a group it had before.
Offer(s) ==
  /\ fan # 0 /\ s \in todo
  /\ todo' = todo \ {s}
  /\ \/ /\ queue' \in {queue, [queue EXCEPT ![s] = Append(@, fan)]}
        /\ UNCHANGED cache
     \/ /\ LET g == Append(cache[s], fan)
           IN  \E k \in 1..Len(g) : cache' = [cache EXCEPT ![s] = SubSeq(g, k, Len(g))]
        /\ UNCHANGED queue
  /\ UNCHANGED <<sent, making, ingest, fan, hand, last>>

EndFan ==
  /\ fan # 0 /\ todo = {}
  /\ fan' = 0
  /\ UNCHANGED <<sent, making, ingest, todo, queue, hand, last, cache>>

Receive(s) ==
  /\ hand[s] = 0 /\ queue[s] # <<>>
  /\ hand' = [hand EXCEPT ![s] = Head(queue[s])]
  /\ queue' = [queue EXCEPT ![s] = Tail(@)]
  /\ UNCHANGED <<sent, making, ingest, fan, todo, last, cache>>

Write(s) ==
  /\ hand[s] # 0
  /\ last' = [last EXCEPT ![s] = hand[s]]
  /\ hand' = [hand EXCEPT ![s] = 0]
  /\ UNCHANGED <<sent, making, ingest, fan, todo, queue, cache>>

\* A subscriber that ends throws away what it has not written.
Discard(s) ==
  /\ queue[s] # <<>>
  /\ queue' = [queue EXCEPT ![s] = Tail(@)]
  /\ UNCHANGED <<sent, making, ingest, fan, todo, hand, last, cache>>

\* The caches of the subscribers in S are dropped.
Forget(S) ==
  /\ cache' = [s \in Subs |-> IF s \in S THEN <<>> ELSE cache[s]]
  /\ UNCHANGED <<sent, making, ingest, fan, todo, queue, hand, last>>

Next ==
  \/ Make \/ Send \/ BeginFan \/ EndFan
  \/ \E s \in Subs : Offer(s) \/ Receive(s) \/ Write(s) \/ Discard(s)
  \/ \E S \in SUBSET Subs : Forget(S)

Spec == Init /\ [][Next]_vars
=============================================================================
