----------------------------- MODULE SessionTail -----------------------------
(***************************************************************************)
(* How a page follows a session's event log: es/event-tail.ts publishes    *)
(* committed events to the subscriber of one page, over its SSE stream or  *)
(* over the sync gateway's socket; the page's session-sync-engine.ts       *)
(* applies them and reads a snapshot when it is told that it must.         *)
(***************************************************************************)
EXTENDS Naturals, Sequences, SequencesExt

CONSTANTS TailLimit,     \* DEFAULT_TAIL_LIMIT: most events of a replay
          StreamLimit,   \* TAIL_STREAM_MAX_EVENTS: most events an SSE stream keeps
          Oversized,     \* versions whose event exceeds the gateway's byte limit
          MaxVersion,    \* bound: events committed
          MaxDrops       \* bound: connections lost

ASSUME SessionTailAssumption ==
    /\ StreamLimit \in Nat \ {0} /\ TailLimit \in Nat \ {0}
    /\ MaxVersion \in Nat /\ MaxDrops \in Nat
    /\ Oversized \subseteq Nat

Versions == 1 .. MaxVersion

VARIABLES committed,     \* version of the session's log
          unpublished,   \* versions an actor task committed and has yet to publish
          overtaken,     \* history: versions published after a later one
          transport,     \* the page's event source
          tail,          \* the server's side of the page's subscription
          page,          \* lastSeenVersion, the versions it was told of, refetch wanted
          drops,
          parked         \* the SSE stream's reader waits on an empty queue

tailVars == <<committed, unpublished, overtaken, transport, tail, page, drops, parked>>

Event(v)            == [kind |-> "event", version |-> v]
SnapshotRequired(v) == [kind |-> "snapshot", version |-> v]
TailEnd             == [kind |-> "end", version |-> 0]

(* "live": subscribed; "ending": the SSE stream closes after its backlog;  *)
(* "ended": the gateway dropped the subscription, the socket stays open.   *)
Detached == [state |-> "none", last |-> 0, wire |-> <<>>]

TailInit ==
    /\ committed = 0 /\ unpublished = <<>> /\ overtaken = {}
    /\ transport \in {"sse", "sync"}
    /\ tail = [Detached EXCEPT !.state = "unopened"]
    /\ page = [first |-> 0, cursor |-> 0, told |-> {}, refetch |-> FALSE]
    /\ drops = 0
    /\ parked = FALSE

-----------------------------------------------------------------------------
(* What a subscriber does with a published event                           *)

(* Mutated form: nothing closes the stream once its backlog is replaced.    *)
EndsUnsaid(v) == [state |-> "stopped", last |-> 0, wire |-> <<SnapshotRequired(v)>>]

Ending(v) == [state |-> "ending", last |-> 0, wire |-> <<SnapshotRequired(v)>>]

(* openTailStream's enqueueEvent: a full backlog is replaced.              *)
Enqueue(t, v) ==
    IF t.state # "live" THEN t
    ELSE IF Len(t.wire) + 1 > StreamLimit THEN Ending(v)
    ELSE [t EXCEPT !.wire = Append(@, Event(v))]

(* attachSessionTail's callback, and createBoundedSender's limit.          *)
SendLive(t, v) ==
    IF t.state # "live" \/ v <= t.last THEN t
    ELSE IF v \in Oversized
         THEN [state |-> "ended", last |-> v, wire |-> Append(t.wire, TailEnd)]
         ELSE [state |-> "live", last |-> v, wire |-> Append(t.wire, Event(v))]

Offer(t, v) == IF transport = "sse" THEN Enqueue(t, v) ELSE SendLive(t, v)

(* One after the other, from the tail t.                                   *)
OfferAll(t, versions) ==
    LET sent[k \in 0 .. Len(versions)] ==
            IF k = 0 THEN t ELSE Offer(sent[k - 1], versions[k])
    IN  sent[Len(versions)]

-----------------------------------------------------------------------------
(* The server: commit in the session's actor and publish a moment later    *)

CommitInActor ==
    /\ unpublished = <<>>
    /\ \E n \in 1 .. 2 :
         /\ committed + n <= MaxVersion
         /\ committed' = committed + n
         /\ unpublished' = [i \in 1 .. n |-> committed + i]
    /\ UNCHANGED <<overtaken, transport, tail, page, drops, parked>>

Publish ==
    /\ unpublished # <<>>
    /\ tail' = OfferAll(tail, unpublished)
    /\ unpublished' = <<>>
    /\ UNCHANGED <<committed, overtaken, transport, page, drops, parked>>

(* Provider targets commit and publish at once, outside the actor.         *)
CommitDirectly ==
    /\ committed < MaxVersion
    /\ committed' = committed + 1
    /\ overtaken' = overtaken \cup ToSet(unpublished)
    /\ tail' = OfferAll(tail, <<committed + 1>>)
    /\ UNCHANGED <<unpublished, transport, page, drops, parked>>

-----------------------------------------------------------------------------
(* The page connects: the replay, then the subscription, in one step       *)

(* Mutated form: the query reads no row beyond the limit.                  *)
RowsToLimit(v) == LET n == committed - v
                  IN  [i \in 1 .. (IF n > TailLimit THEN TailLimit ELSE n) |-> v + i]

Rows(v) == LET n == committed - v
           IN  [i \in 1 .. (IF n > TailLimit THEN TailLimit + 1 ELSE n) |-> v + i]

TooFarBehind(v) == Len(Rows(v)) > TailLimit

Subscribed(v) == [state |-> "live", last |-> v, wire |-> <<>>]

(* The page has read a snapshot and starts its engine with its revision.   *)
StartEngine ==
    /\ tail.state = "unopened"
    /\ tail' = Detached
    /\ page' = [first |-> committed, cursor |-> committed,
                told |-> 1 .. committed, refetch |-> FALSE]
    /\ UNCHANGED <<committed, unpublished, overtaken, transport, drops, parked>>

(* The URL of the stream keeps the version the page was opened with.       *)
OpenStream ==
    /\ transport = "sse" /\ tail.state = "none"
    /\ tail' = LET backlog == OfferAll(Subscribed(0), Rows(page.first))
               IN  IF TooFarBehind(page.first) \/ backlog.state # "live"
                   THEN Ending(committed)
                   ELSE backlog
    /\ UNCHANGED <<committed, unpublished, overtaken, transport, page, drops, parked>>

(* The socket opened: resubscribeAll sends the subscription's cursor.      *)
OpenSocket ==
    /\ transport = "sync" /\ tail.state = "none"
    /\ tail' = IF TooFarBehind(page.cursor)
               THEN [state |-> "ended", last |-> committed,
                     wire  |-> <<SnapshotRequired(committed), TailEnd>>]
               ELSE OfferAll(Subscribed(page.cursor), Rows(page.cursor))
    /\ UNCHANGED <<committed, unpublished, overtaken, transport, page, drops, parked>>

(* SessionSyncEngine: handleSessionEvent, applyEvent, handleError          *)
Applied(p, frame) ==
    IF frame.kind = "end" THEN [p EXCEPT !.refetch = TRUE]
    ELSE IF frame.version <= p.cursor THEN p
    ELSE IF frame.kind = "snapshot"
         THEN [p EXCEPT !.cursor = frame.version, !.refetch = TRUE]
         ELSE [p EXCEPT !.cursor = frame.version, !.told = @ \cup {frame.version}]

(* openTailStream's drain: with a high-water mark of zero a frame leaves    *)
(* only when the reader pulls.                                             *)
PageReads ==
    /\ tail.wire # <<>> /\ ~parked
    /\ page' = Applied(page, Head(tail.wire))
    /\ tail' = [tail EXCEPT !.wire = Tail(@)]
    /\ UNCHANGED <<committed, unpublished, overtaken, transport, drops, parked>>

(* A pull that finds nothing is not made again when a frame comes later.   *)
ReaderParks ==
    /\ transport = "sse" /\ tail.state = "live" /\ tail.wire = <<>> /\ ~parked
    /\ parked' = TRUE
    /\ UNCHANGED <<committed, unpublished, overtaken, transport, tail, page, drops>>

(* The event that comes, or else a keep-alive comment, stays pending; the  *)
(* stall watchdog throws it away and closes the stream.                    *)
StallReaped ==
    /\ parked
    /\ parked' = FALSE
    /\ tail' = Detached
    /\ page' = [page EXCEPT !.refetch = TRUE]
    /\ UNCHANGED <<committed, unpublished, overtaken, transport, drops>>

(* The stream closes after its last event; the page will connect again.    *)
StreamEnds ==
    /\ tail.state = "ending" /\ tail.wire = <<>>
    /\ tail' = Detached
    /\ page' = [page EXCEPT !.refetch = TRUE]
    /\ parked' = FALSE
    /\ UNCHANGED <<committed, unpublished, overtaken, transport, drops>>

(* A lost connection, or a page that stopped reading and is given up.      *)
(* Only the SSE source reports it to the page.                             *)
Disconnect ==
    /\ tail.state \in {"live", "ending", "ended"} /\ drops < MaxDrops
    /\ drops' = drops + 1
    /\ tail' = Detached
    /\ page' = [page EXCEPT !.refetch = @ \/ transport = "sse"]
    /\ parked' = FALSE
    /\ UNCHANGED <<committed, unpublished, overtaken, transport>>

FetchSnapshot ==
    /\ page.refetch
    /\ page' = [page EXCEPT !.told = @ \cup (1 .. committed), !.refetch = FALSE]
    /\ UNCHANGED <<committed, unpublished, overtaken, transport, tail, drops, parked>>

TailNext ==
    \/ CommitInActor \/ Publish \/ CommitDirectly
    \/ StartEngine \/ OpenStream \/ OpenSocket \/ PageReads
    \/ ReaderParks \/ StallReaped \/ StreamEnds \/ Disconnect \/ FetchSnapshot

(* Promise callbacks run; the page reconnects on a timer without end,      *)
(* pulls the frames that are pending, and repeats a refetch until it is    *)
(* answered.  What comes for a parked reader is never delivered; what is   *)
(* fair is the watchdog's interval, which ends its stream.                 *)
TailFairness ==
    /\ WF_tailVars(Publish)
    /\ WF_tailVars(OpenStream \/ OpenSocket)
    /\ WF_tailVars(PageReads) /\ WF_tailVars(StreamEnds)
    /\ WF_tailVars(StallReaped) /\ WF_tailVars(FetchSnapshot)

TailSpec == TailInit /\ [][TailNext]_tailVars /\ TailFairness
-----------------------------------------------------------------------------
(* Every variable has its type.                                            *)
TailTypeOK ==
    /\ committed \in 0 .. MaxVersion
    /\ unpublished \in Seq(Versions) /\ Len(unpublished) <= 2
    /\ overtaken \subseteq Versions
    /\ transport \in {"sse", "sync"}
    /\ tail.state \in {"unopened", "none", "live", "ending", "ended"}
    /\ tail.last \in 0 .. committed
    /\ tail.state = "ending" => transport = "sse"
    /\ tail.state = "ended" => transport = "sync"
    /\ \A i \in 1 .. Len(tail.wire) : tail.wire[i].version \in 0 .. committed
    /\ transport = "sse" => Len(tail.wire) <= StreamLimit
    /\ page.first \in 0 .. page.cursor
    /\ page.cursor \in 0 .. committed /\ page.told \subseteq Versions
    /\ page.refetch \in BOOLEAN /\ drops \in 0 .. MaxDrops
    /\ parked \in BOOLEAN
    /\ parked => transport = "sse" /\ tail.state \in {"live", "ending"}

(* A page that moved its cursor past an event was told of the event, or is *)
(* about to read a snapshot that holds it, however the replay, the live    *)
(* events, a replaced backlog and reconnections interleaved.  The one      *)
(* exception are events whose publication a direct commit overtook:        *)
(* attachSessionTail and handleSessionEvent drop them for good.            *)
NothingSkipped ==
    \A v \in 1 .. page.cursor :
        v \in page.told \/ v \in overtaken \/ page.refetch

(* In the end an open page was told of every committed event, by the tail  *)
(* or by a snapshot, also when backlogs overflow, connections are lost and *)
(* events are thrown away with the stream of a parked reader; unless the   *)
(* event was overtaken, or the gateway ended the subscription: the page    *)
(* does not renew that one before its socket is lost.                      *)
TailCatchesUp ==
    <>[]( \/ tail.state \in {"unopened", "ended"}
          \/ (1 .. committed) \subseteq page.told \cup overtaken )
=============================================================================
