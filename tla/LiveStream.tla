----------------------------- MODULE LiveStream -----------------------------
(***************************************************************************)
(* One live stream: the publisher's Ingest, the pump goroutine that fans a *)
(* packet out to every subscriber, the subscribers' own goroutines, and    *)
(* the pool of reference-counted packets they share.                       *)
(*   internal/stream/types.go    packetPool, NewAVPacket, Retain, Release  *)
(*   internal/stream/fanout.go   liveStream: pump, Ingest, Add/Remove,     *)
(*                               Close                                     *)
(*   internal/subscriber/*.go    Deliver, Close, run, updateGOP, SendGOP   *)
(*                                                                         *)
(* A packet is a buffer identity; what it carries is the number of the     *)
(* frame written into it last.  Storage, HLS, MinIO and relay subscribers  *)
(* share one shape (a channel and a run loop); a livestream subscriber is  *)
(* called on the pump goroutine and keeps the current group of pictures.   *)
(***************************************************************************)
EXTENDS Integers, Sequences, FiniteSets

CONSTANTS
  Packets,        \* buffer identities
  Subs,           \* subscriber objects
  SubIDs,         \* the values of Subscriber.ID()
  Kind,           \* [Subs -> {"storage", "hls", "minio", "relay", "live"}]
  ID,             \* [Subs -> SubIDs]; two relays of one key share an ID
  Frames,         \* the kinds of the frames the camera sends, in order
  IngestBufSize,  \* capacity of liveStream.ingest
  SubBufSize,     \* capacity of a subscriber's channel
  GopCacheMax,    \* gopCacheMax
  NoSub, NoPacket

LiveSubs  == {s \in Subs : Kind[s] = "live"}
QueueSubs == Subs \ LiveSubs
Viewers   == {s \in Subs : Kind[s] \in {"live", "relay"}}

FrameKinds == {"hdr", "key", "delta", "audio"}

ASSUME LiveStreamAssumption ==
  /\ Kind \in [Subs -> {"storage", "hls", "minio", "relay", "live"}]
  /\ ID \in [Subs -> SubIDs]
  /\ \A s, t \in Subs : s # t /\ ID[s] = ID[t] => Kind[s] = "relay" /\ Kind[t] = "relay"
  /\ Frames \in Seq(FrameKinds)
  /\ IngestBufSize \in Nat \ {0} /\ SubBufSize \in Nat \ {0} /\ GopCacheMax \in Nat \ {0}
  /\ NoSub \notin Subs /\ NoPacket \notin Packets
  /\ IsFiniteSet(Subs)

VARIABLES
  refs,    \* AVPacket.refs
  pool,    \* packets in packetPool
  frame,   \* frame number a packet carries; 0 for a buffer never used
  stale,   \* the buffer's composition-time bytes are not zero
  sent,    \* number of frames the publisher has built
  pub,     \* the publisher goroutine: where it is, the packet in hand
  ingest,  \* liveStream.ingest
  closed,  \* liveStream.closed
  done,    \* liveStream.done is closed
  closer,  \* the goroutine inside Close
  subs,    \* liveStream.subs
  pump,    \* the pump goroutine: packet, subscribers left, live one in Deliver
  queue,   \* the subscribers' channels
  run,     \* the subscribers' run goroutines
  hand,    \* the packet a run goroutine is writing
  sdone,   \* the subscribers' done channels are closed
  last,    \* the last frame a run goroutine wrote
  gop,     \* LivestreamSubscriber.gopCache
  snap,    \* the copy SendGOP still has to send
  first,   \* the first frame a live viewer was sent; 0 if none
  owner,   \* the goroutine that created the subscriber
  lost     \* packets whose last reference was dropped without Release

pktVars == <<refs, pool, frame, stale>>
subVars == <<queue, run, hand, sdone, last, gop, snap, first, owner>>
vars == <<pktVars, sent, pub, ingest, closed, done, closer, subs, pump, subVars, lost>>

-----------------------------------------------------------------------------
(* Packets.                                                                *)

IsVideo(n)    == Frames[n] # "audio"
IsKeyframe(n) == Frames[n] \in {"hdr", "key"}

\* How often each packet occurs in sequence q, or in the caches of the
\* subscribers in S.  Places: the subscribers in S and the positions in their
\* sequences f, of length n at most, where p is.
Count(q) == [p \in Packets |-> Cardinality({i \in DOMAIN q : q[i] = p})]
Places(f, S, n, p) == {x \in S \X (1..n) : x[2] \in DOMAIN f[x[1]] /\ f[x[1]][x[2]] = p}
Cached(S) == [p \in Packets |-> Cardinality(Places(gop, S, GopCacheMax, p))]

\* inc[p] times Retain and dec[p] times Release of every packet p; a packet
\* whose count comes down to zero goes back to the pool.
RetainRelease(inc, dec) ==
  /\ refs' = [p \in Packets |-> refs[p] + inc[p] - dec[p]]
  /\ pool' = pool \cup {p \in Packets : dec[p] > 0 /\ refs[p] + inc[p] = dec[p]}

Nothing == Count(<<>>)
Retain(p)  == RetainRelease(Count(<<p>>), Nothing)
Release(p) == RetainRelease(Nothing, Count(<<p>>))

\* A packet no goroutine can reach any more is the runtime's to collect; what
\* Get returns is a pooled packet or one the pool's New allocates.
Allocatable == pool \cup {p \in Packets : frame[p] = 0}

\* NewAVPacket and the builder that fills the buffer.  A buffer that is long
\* enough is kept with its old bytes.  The builders write bytes 2..4 of an
\* audio body and leave those of a video body alone.
BuildPacket ==
  /\ pub.pc = "idle"
  /\ sent < Len(Frames)
  /\ \E p \in Allocatable, fits \in BOOLEAN :
       /\ refs' = [refs EXCEPT ![p] = 1]
       /\ pool' = pool \ {p}
       /\ frame' = [frame EXCEPT ![p] = sent + 1]
       /\ stale' = [stale EXCEPT ![p] = ~IsVideo(sent + 1) \/ (fits /\ @)]
       /\ pub' = [pc |-> "check", pkt |-> p]
  /\ sent' = sent + 1
  /\ UNCHANGED <<ingest, closed, done, closer, subs, pump, subVars, lost>>

-----------------------------------------------------------------------------
(* The publisher: liveStream.Ingest, closed read under its own mutex, then *)
(* a send that does not block.                                             *)

PubIdle == [pc |-> "idle", pkt |-> NoPacket]

IngestCheck ==
  /\ pub.pc = "check"
  /\ IF closed
     THEN /\ pub' = PubIdle
          /\ lost' = lost \cup {pub.pkt}
     ELSE /\ pub' = [pub EXCEPT !.pc = "send"]
          /\ UNCHANGED lost
  /\ UNCHANGED <<pktVars, sent, ingest, closed, done, closer, subs, pump, subVars>>

IngestSend ==
  /\ pub.pc = "send"
  /\ pub' = PubIdle
  /\ IF Len(ingest) < IngestBufSize
     THEN /\ ingest' = Append(ingest, pub.pkt)
          /\ UNCHANGED lost
     ELSE /\ lost' = lost \cup {pub.pkt}
          /\ UNCHANGED ingest
  /\ UNCHANGED <<pktVars, sent, closed, done, closer, subs, pump, subVars>>

-----------------------------------------------------------------------------
(* The pump.  It holds mu for reading from "fan" to PumpRelease.           *)

PumpIdle == [pc |-> "select", pkt |-> NoPacket, todo |-> {}, cur |-> NoSub]
RLocked  == pump.pc = "fan"
Attached == {subs[i] : i \in SubIDs} \ {NoSub}

PumpReceive ==
  /\ pump.pc = "select"
  /\ ingest # <<>>
  /\ pump' = [pc |-> "fan", pkt |-> Head(ingest), todo |-> Attached, cur |-> NoSub]
  /\ ingest' = Tail(ingest)
  /\ UNCHANGED <<pktVars, sent, pub, closed, done, closer, subs, subVars, lost>>

PumpQuit ==
  /\ pump.pc = "select"
  /\ done
  /\ pump' = [PumpIdle EXCEPT !.pc = "exited"]
  /\ UNCHANGED <<pktVars, sent, pub, ingest, closed, done, closer, subs, subVars, lost>>

\* Faulty variant: the packet is queued on the pump's own reference.
DeliverQueueUnretained(s) ==
  /\ pump.pc = "fan" /\ pump.cur = NoSub /\ s \in pump.todo /\ s \in QueueSubs
  /\ queue' = [queue EXCEPT ![s] = IF Len(@) < SubBufSize THEN Append(@, pump.pkt) ELSE @]
  /\ pump' = [pump EXCEPT !.todo = @ \ {s}]
  /\ UNCHANGED <<pktVars, sent, pub, ingest, closed, done, closer, subs,
                 run, hand, sdone, last, gop, snap, first, owner, lost>>

\* Faulty variant: a send without the default case waits for room.
DeliverQueueBlocking(s) ==
  /\ pump.pc = "fan" /\ pump.cur = NoSub /\ s \in pump.todo /\ s \in QueueSubs
  /\ Len(queue[s]) < SubBufSize
  /\ queue' = [queue EXCEPT ![s] = Append(@, pump.pkt)]
  /\ Retain(pump.pkt)
  /\ pump' = [pump EXCEPT !.todo = @ \ {s}]
  /\ UNCHANGED <<frame, stale, sent, pub, ingest, closed, done, closer, subs,
                 run, hand, sdone, last, gop, snap, first, owner, lost>>

\* Retain, then Deliver of a storage, HLS, MinIO or relay subscriber.
DeliverQueue(s) ==
  /\ pump.pc = "fan" /\ pump.cur = NoSub /\ s \in pump.todo /\ s \in QueueSubs
  /\ IF Len(queue[s]) < SubBufSize
     THEN /\ queue' = [queue EXCEPT ![s] = Append(@, pump.pkt)]
          /\ Retain(pump.pkt)
     ELSE /\ UNCHANGED queue
          /\ RetainRelease(Count(<<pump.pkt>>), Count(<<pump.pkt>>))
  /\ pump' = [pump EXCEPT !.todo = @ \ {s}]
  /\ UNCHANGED <<frame, stale, sent, pub, ingest, closed, done, closer, subs,
                 run, hand, sdone, last, gop, snap, first, owner, lost>>

\* The cache after updateGOP(p), and what it let go of: the group before a
\* keyframe, and what exceeds GopCacheMax.
GopKept(s, p) == IF IsKeyframe(frame[p]) THEN <<>> ELSE gop[s]
GopCut(s, p)  == LET n == Len(GopKept(s, p)) + 1 - GopCacheMax IN IF n > 0 THEN n ELSE 0
NextGop(s, p) == LET g == Append(GopKept(s, p), p)
                 IN  SubSeq(g, GopCut(s, p) + 1, Len(g))
GopDropped(s, p) ==
  IF IsKeyframe(frame[p]) THEN gop[s] ELSE SubSeq(gop[s], 1, GopCut(s, p))

\* Faulty variant: updateGOP caches the packet without a reference of its own.
DeliverCacheUnretained(s) ==
  /\ pump.pc = "fan" /\ pump.cur = NoSub /\ s \in pump.todo /\ s \in LiveSubs
  /\ gop' = [gop EXCEPT ![s] = NextGop(s, pump.pkt)]
  /\ RetainRelease(Count(<<pump.pkt>>), Count(GopDropped(s, pump.pkt)))
  /\ pump' = [pump EXCEPT !.todo = @ \ {s}, !.cur = s]
  /\ UNCHANGED <<frame, stale, sent, pub, ingest, closed, done, closer, subs,
                 queue, run, hand, sdone, last, snap, first, owner, lost>>

\* Retain, then updateGOP under gopMu: the first half of Deliver of a
\* livestream subscriber.  The fan-out's reference is held until DeliverPush.
DeliverCache(s) ==
  /\ pump.pc = "fan" /\ pump.cur = NoSub /\ s \in pump.todo /\ s \in LiveSubs
  /\ gop' = [gop EXCEPT ![s] = NextGop(s, pump.pkt)]
  /\ RetainRelease(Count(<<pump.pkt, pump.pkt>>), Count(GopDropped(s, pump.pkt)))
  /\ pump' = [pump EXCEPT !.todo = @ \ {s}, !.cur = s]
  /\ UNCHANGED <<frame, stale, sent, pub, ingest, closed, done, closer, subs,
                 queue, run, hand, sdone, last, snap, first, owner, lost>>

\* What the viewer saw first, once frame n is written to its connection.
Shown(s, n) == [first EXCEPT ![s] = IF @ = 0 THEN n ELSE @]

\* onPkt and Release: the second half.  The write to the viewer may fail.
DeliverPush ==
  /\ pump.pc = "fan" /\ pump.cur # NoSub
  /\ first' \in {Shown(pump.cur, frame[pump.pkt]), first}
  /\ Release(pump.pkt)
  /\ pump' = [pump EXCEPT !.cur = NoSub]
  /\ UNCHANGED <<frame, stale, sent, pub, ingest, closed, done, closer, subs,
                 queue, run, hand, sdone, last, gop, snap, owner, lost>>

\* RUnlock and the pump's own Release.
PumpRelease ==
  /\ pump.pc = "fan" /\ pump.todo = {} /\ pump.cur = NoSub
  /\ Release(pump.pkt)
  /\ pump' = PumpIdle
  /\ UNCHANGED <<frame, stale, sent, pub, ingest, closed, done, closer, subs, subVars, lost>>

-----------------------------------------------------------------------------
(* The run goroutine of a storage, HLS, MinIO or relay subscriber.         *)

\* Opening the output: a directory, a file or a first segment may fail.
RunOpen(s) ==
  /\ run[s] = "open"
  /\ \E to \in {"select"} \cup (IF Kind[s] \in {"storage", "hls"} THEN {"drain"} ELSE {}) :
       run' = [run EXCEPT ![s] = to]
  /\ UNCHANGED <<pktVars, sent, pub, ingest, closed, done, closer, subs, pump,
                 queue, hand, sdone, last, gop, snap, first, owner, lost>>

RunReceive(s) ==
  /\ run[s] = "select"
  /\ queue[s] # <<>>
  /\ hand' = [hand EXCEPT ![s] = Head(queue[s])]
  /\ queue' = [queue EXCEPT ![s] = Tail(@)]
  /\ run' = [run EXCEPT ![s] = "write"]
  /\ UNCHANGED <<pktVars, sent, pub, ingest, closed, done, closer, subs, pump,
                 sdone, last, gop, snap, first, owner, lost>>

\* WriteTag and Release.  A relay gives up on a failed write.
RunWrite(s) ==
  /\ run[s] = "write"
  /\ last' = [last EXCEPT ![s] = frame[hand[s]]]
  /\ \E to \in {"select"} \cup (IF Kind[s] = "relay" THEN {"drain"} ELSE {}) :
       run' = [run EXCEPT ![s] = to]
  /\ Release(hand[s])
  /\ hand' = [hand EXCEPT ![s] = NoPacket]
  /\ UNCHANGED <<frame, stale, sent, pub, ingest, closed, done, closer, subs, pump,
                 queue, sdone, gop, snap, first, owner, lost>>

\* Faulty variant: the select has no done case.
RunLeaveNotWhenDone(s) ==
  /\ run[s] = "select"
  /\ Kind[s] = "hls"
  /\ run' = [run EXCEPT ![s] = "drain"]
  /\ UNCHANGED <<pktVars, sent, pub, ingest, closed, done, closer, subs, pump,
                 queue, hand, sdone, last, gop, snap, first, owner, lost>>

\* The done case, or HLS failing to open the next segment on a tick.
RunLeave(s) ==
  /\ run[s] = "select"
  /\ sdone[s] \/ Kind[s] = "hls"
  /\ run' = [run EXCEPT ![s] = "drain"]
  /\ UNCHANGED <<pktVars, sent, pub, ingest, closed, done, closer, subs, pump,
                 queue, hand, sdone, last, gop, snap, first, owner, lost>>

\* Faulty variant: the deferred loop empties the channel without Release.
RunDrainUnreleased(s) ==
  /\ run[s] = "drain"
  /\ queue' = [queue EXCEPT ![s] = <<>>]
  /\ run' = [run EXCEPT ![s] = "exited"]
  /\ UNCHANGED <<pktVars, sent, pub, ingest, closed, done, closer, subs, pump,
                 hand, sdone, last, gop, snap, first, owner, lost>>

\* The deferred loop releases what is buffered and stops at the first empty
\* read; what is delivered later stays in the channel.
RunDrain(s) ==
  /\ run[s] = "drain"
  /\ IF queue[s] # <<>>
     THEN /\ Release(Head(queue[s]))
          /\ queue' = [queue EXCEPT ![s] = Tail(@)]
          /\ UNCHANGED run
     ELSE /\ run' = [run EXCEPT ![s] = "exited"]
          /\ UNCHANGED <<refs, pool, queue>>
  /\ UNCHANGED <<frame, stale, sent, pub, ingest, closed, done, closer, subs, pump,
                 hand, sdone, last, gop, snap, first, owner, lost>>

-----------------------------------------------------------------------------
(* Adding and removing subscribers, and Close.                             *)

\* The constructor starts the run goroutine before the subscriber is added.
NewSubscriber(s) ==
  /\ owner[s] = "none"
  /\ owner' = [owner EXCEPT ![s] = "made"]
  /\ run' = [run EXCEPT ![s] = IF s \in QueueSubs THEN "open" ELSE @]
  /\ UNCHANGED <<pktVars, sent, pub, ingest, closed, done, closer, subs, pump,
                 queue, hand, sdone, last, gop, snap, first, lost>>

\* AddSubscriber replaces a subscriber with the same ID and asks neither
\* whether there is one nor whether the stream is closed.
AddSubscriber(s) ==
  /\ owner[s] = "made"
  /\ ~RLocked
  /\ subs' = [subs EXCEPT ![ID[s]] = s]
  /\ owner' = [owner EXCEPT ![s] = "added"]
  /\ UNCHANGED <<pktVars, sent, pub, ingest, closed, done, closer, pump,
                 queue, run, hand, sdone, last, gop, snap, first, lost>>

\* Close of every subscriber in S: done channels closed, caches released.
CloseSubscribers(S) ==
  /\ sdone' = [s \in Subs |-> sdone[s] \/ s \in S \cap QueueSubs]
  /\ gop' = [s \in Subs |-> IF s \in S THEN <<>> ELSE gop[s]]
  /\ RetainRelease(Nothing, Cached(S))

\* Faulty variant: mu is not taken, so a fan-out may be under way.
RemoveSubscriberUnlocked(s) ==
  /\ s \in Viewers
  /\ owner[s] = IF Kind[s] = "live" THEN "open" ELSE "added"
  /\ CloseSubscribers({subs[ID[s]]} \ {NoSub})
  /\ subs' = [subs EXCEPT ![ID[s]] = NoSub]
  /\ owner' = [owner EXCEPT ![s] = IF Kind[s] = "live" THEN "removed" ELSE "left"]
  /\ UNCHANGED <<frame, stale, sent, pub, ingest, closed, done, closer, pump,
                 queue, run, hand, last, snap, first, lost>>

\* RemoveSubscriber(id), called by the handler that owns s: it closes the
\* subscriber found under the ID, whichever object that is.
RemoveSubscriber(s) ==
  /\ s \in Viewers
  /\ owner[s] = IF Kind[s] = "live" THEN "open" ELSE "added"
  /\ ~RLocked
  /\ CloseSubscribers({subs[ID[s]]} \ {NoSub})
  /\ subs' = [subs EXCEPT ![ID[s]] = NoSub]
  /\ owner' = [owner EXCEPT ![s] = IF Kind[s] = "live" THEN "removed" ELSE "left"]
  /\ UNCHANGED <<frame, stale, sent, pub, ingest, closed, done, closer, pump,
                 queue, run, hand, last, snap, first, lost>>

\* The websocket's OnClose also closes its own subscriber, under gopMu only.
CloseOwn(s) ==
  /\ owner[s] = "removed"
  /\ CloseSubscribers({s})
  /\ owner' = [owner EXCEPT ![s] = "left"]
  /\ UNCHANGED <<frame, stale, sent, pub, ingest, closed, done, closer, subs, pump,
                 queue, run, hand, last, snap, first, lost>>

\* SendGOP copies the cache under gopMu, without Retain, and sends the copy
\* after it has let go of the mutex.
SendGOPCopy(s) ==
  /\ owner[s] = "added" /\ Kind[s] = "live"
  /\ snap' = [snap EXCEPT ![s] = gop[s]]
  /\ owner' = [owner EXCEPT ![s] = "sending"]
  /\ UNCHANGED <<pktVars, sent, pub, ingest, closed, done, closer, subs, pump,
                 queue, run, hand, sdone, last, gop, first, lost>>

SendGOPStep(s) ==
  /\ owner[s] = "sending"
  /\ \/ /\ snap[s] = <<>>
        /\ owner' = [owner EXCEPT ![s] = "open"]
        /\ UNCHANGED <<snap, first>>
     \/ /\ snap[s] # <<>>
        /\ first' = Shown(s, frame[Head(snap[s])])
        /\ snap' = [snap EXCEPT ![s] = Tail(@)]
        /\ UNCHANGED owner
     \/ /\ snap[s] # <<>>   \* onPkt failed: return
        /\ snap' = [snap EXCEPT ![s] = <<>>]
        /\ owner' = [owner EXCEPT ![s] = "open"]
        /\ UNCHANGED first
  /\ UNCHANGED <<pktVars, sent, pub, ingest, closed, done, closer, subs, pump,
                 queue, run, hand, sdone, last, gop, lost>>

\* Close: mark, close and forget the subscribers under mu, close(done).
CloseMark ==
  /\ ~closed
  /\ closed' = TRUE
  /\ closer' = "subs"
  /\ UNCHANGED <<pktVars, sent, pub, ingest, done, subs, pump, subVars, lost>>

CloseSubs ==
  /\ closer = "subs"
  /\ ~RLocked
  /\ CloseSubscribers(Attached)
  /\ subs' = [i \in SubIDs |-> NoSub]
  /\ closer' = "done"
  /\ UNCHANGED <<frame, stale, sent, pub, ingest, closed, done, pump,
                 queue, run, hand, last, snap, first, owner, lost>>

CloseDone ==
  /\ closer = "done"
  /\ done' = TRUE
  /\ closer' = "idle"
  /\ UNCHANGED <<pktVars, sent, pub, ingest, closed, subs, pump, subVars, lost>>

-----------------------------------------------------------------------------
Init ==
  /\ refs = [p \in Packets |-> 0]
  /\ pool = {}
  /\ frame = [p \in Packets |-> 0]
  /\ stale = [p \in Packets |-> FALSE]
  /\ sent = 0
  /\ pub = PubIdle
  /\ ingest = <<>>
  /\ closed = FALSE /\ done = FALSE /\ closer = "idle"
  /\ subs = [i \in SubIDs |-> NoSub]
  /\ pump = PumpIdle
  /\ queue = [s \in Subs |-> <<>>]
  /\ run = [s \in Subs |-> "none"]
  /\ hand = [s \in Subs |-> NoPacket]
  /\ sdone = [s \in Subs |-> FALSE]
  /\ last = [s \in Subs |-> 0]
  /\ gop = [s \in Subs |-> <<>>]
  /\ snap = [s \in Subs |-> <<>>]
  /\ first = [s \in Subs |-> 0]
  /\ owner = [s \in Subs |-> "none"]
  /\ lost = {}

PumpStep == PumpReceive \/ PumpQuit \/ DeliverPush \/ PumpRelease
            \/ \E s \in Subs : DeliverQueue(s) \/ DeliverCache(s)
RunStep(s) == RunOpen(s) \/ RunReceive(s) \/ RunWrite(s) \/ RunLeave(s) \/ RunDrain(s)
OwnerStep(s) == NewSubscriber(s) \/ AddSubscriber(s) \/ RemoveSubscriber(s) \/ CloseOwn(s)
                \/ SendGOPCopy(s) \/ SendGOPStep(s)
CloseStep == CloseSubs \/ CloseDone

Next ==
  \/ BuildPacket \/ IngestCheck \/ IngestSend
  \/ PumpStep
  \/ CloseMark \/ CloseStep
  \/ \E s \in Subs : RunStep(s) \/ OwnerStep(s)

Spec == Init /\ [][Next]_vars

\* The scheduler runs a goroutine that can go on.  Nothing makes a camera
\* send, a viewer come or go, or a stream end.
FairSpec == Spec /\ WF_vars(PumpStep) /\ WF_vars(CloseStep) /\ \A s \in Subs : WF_vars(RunStep(s))

-----------------------------------------------------------------------------
\* Types of the packets, the stream, the pump and the subscribers; the map of
\* subscribers is keyed by ID.
PacketTypes ==
  /\ refs \in [Packets -> Int]
  /\ pool \subseteq Packets /\ lost \subseteq Packets
  /\ frame \in [Packets -> 0..Len(Frames)]
  /\ stale \in [Packets -> BOOLEAN]
StreamTypes ==
  /\ sent \in 0..Len(Frames)
  /\ pub \in [pc : {"idle", "check", "send"}, pkt : Packets \cup {NoPacket}]
  /\ ingest \in Seq(Packets)
  /\ closed \in BOOLEAN /\ done \in BOOLEAN /\ closer \in {"idle", "subs", "done"}
  /\ subs \in [SubIDs -> Subs \cup {NoSub}]
  /\ pump \in [pc : {"select", "fan", "exited"}, pkt : Packets \cup {NoPacket},
                todo : SUBSET Subs, cur : Subs \cup {NoSub}]
SubscriberTypes ==
  /\ queue \in [Subs -> Seq(Packets)] /\ gop \in [Subs -> Seq(Packets)]
  /\ snap \in [Subs -> Seq(Packets)]
  /\ run \in [Subs -> {"none", "open", "select", "write", "drain", "exited"}]
  /\ hand \in [Subs -> Packets \cup {NoPacket}]
  /\ sdone \in [Subs -> BOOLEAN]
  /\ last \in [Subs -> 0..Len(Frames)] /\ first \in [Subs -> 0..Len(Frames)]
  /\ owner \in [Subs -> {"none", "made", "added", "sending", "open", "removed", "left"}]
TypeOK == PacketTypes /\ StreamTypes /\ SubscriberTypes

\* How many references to p exist: in the publisher's hand, the ingest
\* channel, the pump (one more while a live Deliver runs), the subscribers'
\* channels, hands and caches, or thrown away without Release.
One(b) == IF b THEN 1 ELSE 0
Holders(p) ==
  One(pub.pkt = p) + Count(ingest)[p]
  + One(pump.pkt = p) + One(pump.pkt = p /\ pump.cur # NoSub)
  + Cardinality(Places(queue, Subs, SubBufSize, p))
  + Cardinality({s \in Subs : hand[s] = p})
  + Cached(Subs)[p]
  + One(p \in lost)

\* The reference count of a packet is the number of places that hold it, at
\* every moment and in whatever order publisher, pump, run goroutines,
\* viewers and Close interleave; a packet is in the pool exactly when its
\* count has come down to zero after use, so no goroutine that holds a
\* packet can see it handed out again.
RefsMatchHolders ==
  \A p \in Packets :
    /\ refs[p] = Holders(p)
    /\ p \in pool <=> frame[p] # 0 /\ refs[p] = 0

\* The frames in a sequence of packets and the one in a hand, 0 for none; with
\* them, what is where, as frames.
FramesOf(q) == [i \in DOMAIN q |-> frame[q[i]]]
FrameIn(p)  == IF p = NoPacket THEN 0 ELSE frame[p]
Making   == FrameIn(pub.pkt)
Arriving == FramesOf(ingest)
Fanning  == FrameIn(pump.pkt)
Queued   == [s \in Subs |-> FramesOf(queue[s])]
Writing  == [s \in Subs |-> FrameIn(hand[s])]
Keeping  == [s \in Subs |-> FramesOf(gop[s])]

F == INSTANCE FrameFlow WITH
       making <- Making, ingest <- Arriving, fan <- Fanning, todo <- pump.todo,
       queue <- Queued, hand <- Writing, cache <- Keeping

\* The recycling of buffers can not be seen: with packets that are counted,
\* pooled and written over, every channel, hand and cache behaves as if it held
\* the frames themselves (FrameFlow), whoever retains and releases when.  The
\* copy that SendGOP sends without references is not among them (SnapshotAlive).
ImplementsFlow == F!Spec

\* A run goroutine writes each frame at most once and in the order the camera
\* sent them, although buffers are recycled while channels hold them.
WritesInOrder ==
  \A s \in QueueSubs : hand[s] # NoPacket => frame[hand[s]] > last[s]

\* Once a viewer's OnClose has run, its cache is empty and the stream no
\* longer knows it: a pump in the middle of a fan-out cannot fill it again.
DepartedViewerHoldsNothing ==
  \A s \in LiveSubs : owner[s] = "left" => gop[s] = <<>> /\ s \notin Attached

\* In the middle of a fan-out the pump can always go on by itself, whatever the
\* subscribers' goroutines are doing and however full their channels are
\* (Deliver is non-blocking, types.go); with one subscriber less to do after
\* each Deliver, it comes to an end.
PumpNeverBlocked == RLocked => ENABLED PumpStep

\* A subscriber whose done channel is closed stops its goroutine, with an
\* empty hand, and so does the pump of a closed stream.
ClosedGoroutinesExit ==
  /\ \A s \in QueueSubs : sdone[s] /\ run[s] # "none" ~> run[s] = "exited"
  /\ done ~> pump.pc = "exited"

\* README.md on Retain and Release: "ensuring absolute memory safety".  Here:
\* the packets SendGOP has yet to send have not been recycled.
SnapshotAlive == \A s \in LiveSubs : \A i \in DOMAIN snap[s] : snap[s][i] \notin pool

\* relay.go on a relay subscriber: "When the HTTP connection closes (Node B
\* disconnects), Close() is called".
RelayClosedOnDisconnect ==
  \A s \in Subs : Kind[s] = "relay" /\ owner[s] = "left" => sdone[s]

\* livestream.go: the cached GOP is sent first "so they get a complete frame
\* immediately (no waiting for next keyframe)".
JoinStartsAtKeyframe == \A s \in LiveSubs : first[s] # 0 => IsKeyframe(first[s])

\* ingester.go, buildVideoFrame and buildVideoSeqHeader: the composition time
\* is "already zero".
CompositionTimeZero ==
  \A p \in Packets : refs[p] > 0 /\ IsVideo(frame[p]) => ~stale[p]
=============================================================================
