--------------------------- MODULE ServicesProofs ---------------------------
(***************************************************************************)
(* The three services of the server beside the chat runtime, for any       *)
(* awaits, result keys, jobs, requests, deliveries, crashes, limits,       *)
(* versions and lost connections.                                          *)
(*                                                                         *)
(* Session awaits: the wake-up of an await is delivered once at most, and  *)
(* one CI result wakes the session once.  Both need to know what may be    *)
(* under way for a row.  A row that can still trigger (Untold) has woken   *)
(* nobody and nobody is about to be woken for it; a notice of a failure is *)
(* sent for rows that are failed only, so that losing one makes no         *)
(* triggered row unaccounted; a key stays with the row that was marked.    *)
(*                                                                         *)
(* Background jobs: the owner of a job is told of one outcome only.  A row *)
(* that is not projected carries the outcome its owner was told of, a row  *)
(* still active was told to nobody, and a call that waits in               *)
(* adapter.cancel holds the outcome "cancelled", which nobody overwrites   *)
(* meanwhile.                                                              *)
(*                                                                         *)
(* The tail of a session's log: a page that moved its cursor past an event *)
(* was told of it, is about to read a snapshot, or the event's publication *)
(* was overtaken.  The cursor moves when the page reads the wire, so the   *)
(* invariant is about what is on the wire: of the frames that would carry  *)
(* the cursor past a version, the first is that version or a snapshot.  A  *)
(* live subscription keeps that only if every version below the next one   *)
(* has been offered to it already, or is covered otherwise.                *)
(*                                                                         *)
(* The types of each service follow from its invariant and the bounds that *)
(* its limits keep; the services share no state, so every step of their    *)
(* composition is one of a single service and the theorems of all five     *)
(* hold of it.                                                             *)
(***************************************************************************)
EXTENDS MCServices, RelaydProofs, RecursionProofs, FiniteSetTheorems

-----------------------------------------------------------------------------
(* Session awaits                                                          *)

AwaitRecord == [status : {"absent", "pending", "triggered", "expired", "cancelled", "failed"},
                failure : {"none", "source", "delivery"},
                errors : Nat, key : ResultKeys \cup {NoKey}, rekeyed : BOOLEAN]
SendCall == [await : Awaits, kind : {"result", "failure"}, by : {"poller", "job", "request"}]

AwaitTypes ==
    /\ awaitRow \in [Awaits -> AwaitRecord]
    /\ sends \subseteq SendCall
    /\ woken \in [Awaits -> Nat]
    /\ poller.rows \subseteq Inline

CanTrigger(row) ==
    \/ row.status \in {"absent", "pending", "expired", "cancelled"}
    \/ row.failure = "delivery"
Untold(a) == CanTrigger(awaitRow[a])

NoSend(a)  == \A s \in sends : s.await # a
OneSend(a) == \E s \in sends : s.await = a /\ \A t \in sends : t.await = a => t = s

Account(a) ==
    \/ woken[a] = 0 /\ NoSend(a) /\ (awaitRow[a].status = "triggered" => a \in lostWakes)
    \/ woken[a] = 1 /\ NoSend(a) /\ ~Untold(a)
    \/ woken[a] = 0 /\ OneSend(a) /\ ~Untold(a)

(* A triggered row has no failure.                                         *)
RowsAreClean ==
    \A a \in Awaits : awaitRow[a].status = "triggered" => awaitRow[a].failure = "none"

NoticesAreOfFailures ==
    \A s \in sends : s.kind = "failure" =>
        awaitRow[s.await].status = "failed" /\ awaitRow[s.await].failure = "source"

Reported(row) ==
    row.status = "triggered" \/ (row.status = "failed" /\ row.failure = "delivery")

(* Of the rows whose key no retry replaced, no two have the same.          *)
KeysAreReported ==
    /\ \A a \in Awaits : awaitRow[a].key # NoKey => Reported(awaitRow[a])
    /\ \A a, b \in Inline :
         (/\ awaitRow[a].key = awaitRow[b].key /\ awaitRow[a].key # NoKey
          /\ ~awaitRow[a].rekeyed /\ ~awaitRow[b].rekeyed) => a = b

AwaitInv ==
    /\ AwaitTypes
    /\ \A a \in Awaits : Account(a)
    /\ RowsAreClean /\ NoticesAreOfFailures /\ KeysAreReported

LEMMA InitAwaitInv == AwaitInit => AwaitInv
<1> SUFFICES ASSUME AwaitInit PROVE AwaitInv
  OBVIOUS
<1>0. /\ NotRegistered \in AwaitRecord /\ EarlierRow \in AwaitRecord
      /\ NotRegistered.key = NoKey /\ EarlierRow.key = NoKey
      /\ NotRegistered.status = "absent" /\ EarlierRow.status = "cancelled"
  <2>1. /\ NotRegistered \in AwaitRecord /\ NotRegistered.key = NoKey
        /\ NotRegistered.status = "absent"
    BY DEF NotRegistered, AwaitRecord
  <2>2. ASSUME NEW row \in AwaitRecord, NEW later, later = [row EXCEPT !.status = "cancelled"]
        PROVE  later \in AwaitRecord /\ later.key = row.key /\ later.status = "cancelled"
    BY <2>2 DEF AwaitRecord
  <2> QED BY <2>1, <2>2 DEF EarlierRow
<1>1. \A a \in Awaits : /\ awaitRow[a] \in AwaitRecord /\ Untold(a) /\ awaitRow[a].key = NoKey
                        /\ awaitRow[a].status # "triggered"
  BY <1>0 DEF AwaitInit, Untold, CanTrigger
<1>2. AwaitTypes
  BY <1>0 DEF AwaitInit, AwaitTypes, At
<1>3. \A a \in Awaits : Account(a)
  BY <1>1 DEF AwaitInit, Account, NoSend
<1>4. RowsAreClean /\ NoticesAreOfFailures
  BY <1>1 DEF AwaitInit, RowsAreClean, NoticesAreOfFailures
<1>5. KeysAreReported
  BY <1>1 DEF KeysAreReported, Awaits
<1> QED BY <1>2, <1>3, <1>4, <1>5 DEF AwaitInv

-----------------------------------------------------------------------------
(* Rows of the set F get a delivery each, other rows stay or are settled   *)
(* without one.                                                            *)

StillAccounted ==
    /\ \A a \in Awaits : Account(a)
    /\ RowsAreClean /\ NoticesAreOfFailures

LEMMA SendsKeepAccounts ==
    ASSUME AwaitInv, NEW F \in SUBSET Awaits,
           NEW kind \in {"result", "failure"}, NEW by \in {"poller", "job", "request"},
           awaitRow' \in [Awaits -> AwaitRecord],
           sends' = sends \cup {Send(a, kind, by) : a \in F},
           UNCHANGED <<woken, lostWakes>>,
           \A a \in F : Untold(a) /\ ~CanTrigger(awaitRow'[a]),
           \A a \in F : kind = "failure" =>
              awaitRow'[a].status = "failed" /\ awaitRow'[a].failure = "source",
           \A a \in Awaits \ F :
              awaitRow'[a] = awaitRow[a] \/ (Untold(a) /\ awaitRow'[a].status # "triggered"),
           \A a \in Awaits : awaitRow'[a].status = "triggered" => awaitRow'[a].failure = "none"
    PROVE  sends' \subseteq SendCall /\ StillAccounted'
<1>1. sends' \subseteq SendCall
  BY DEF AwaitInv, AwaitTypes, SendCall, Send
<1>2. ASSUME NEW a \in Awaits PROVE Account(a)'
  <2>1. CASE a \in F
    <3>1. woken[a] = 0 /\ NoSend(a)
      BY <2>1 DEF AwaitInv, Account
    <3>2. OneSend(a)'
      <4>1. Send(a, kind, by) \in sends' /\ Send(a, kind, by).await = a
        BY <2>1 DEF Send
      <4>2. \A t \in sends' : t.await = a => t = Send(a, kind, by)
        BY <3>1 DEF NoSend, Send
      <4> QED BY <4>1, <4>2 DEF OneSend
    <3>3. ~Untold(a)'
      BY <2>1 DEF Untold
    <3> QED BY <3>1, <3>2, <3>3 DEF Account
  <2>2. CASE a \notin F
    <3>1. \A t : t.await = a => (t \in sends' <=> t \in sends)
      BY <2>2 DEF Send
    <3>2. (NoSend(a)' <=> NoSend(a)) /\ (OneSend(a)' <=> OneSend(a))
      BY <3>1 DEF NoSend, OneSend
    <3>3. CASE awaitRow'[a] = awaitRow[a]
      BY <3>2, <3>3 DEF AwaitInv, Account, Untold
    <3>4. CASE Untold(a) /\ awaitRow'[a].status # "triggered"
      BY <3>2, <3>4 DEF AwaitInv, Account
    <3> QED BY <2>2, <3>3, <3>4
  <2> QED BY <2>1, <2>2
<1>3. RowsAreClean'
  BY DEF RowsAreClean
<1>4. NoticesAreOfFailures'
  <2> SUFFICES ASSUME NEW s \in sends', s.kind = "failure"
               PROVE  awaitRow'[s.await].status = "failed" /\ awaitRow'[s.await].failure = "source"
    BY DEF NoticesAreOfFailures
  <2>1. CASE s \in sends
    <3>1. s.await \in Awaits /\ ~Untold(s.await)
      BY <2>1 DEF AwaitInv, AwaitTypes, SendCall, Account, NoSend
    <3>2. awaitRow'[s.await] = awaitRow[s.await]
      BY <3>1
    <3> QED BY <2>1, <3>2 DEF AwaitInv, NoticesAreOfFailures
  <2>2. CASE s \notin sends
    BY <2>2 DEF Send
  <2> QED BY <2>1, <2>2
<1> QED BY <1>1, <1>2, <1>3, <1>4 DEF StillAccounted

(* One row gets a delivery, or one row changes and gets none.              *)
LEMMA OneSendKeepsAccounts ==
    ASSUME AwaitInv, NEW a \in Awaits,
           NEW kind \in {"result", "failure"}, NEW by \in {"poller", "job", "request"},
           awaitRow' \in [Awaits -> AwaitRecord],
           sends' = sends \cup {Send(a, kind, by)},
           UNCHANGED <<woken, lostWakes>>,
           Untold(a), ~CanTrigger(awaitRow'[a]),
           kind = "failure" => awaitRow'[a].status = "failed" /\ awaitRow'[a].failure = "source",
           \A b \in Awaits \ {a} : awaitRow'[b] = awaitRow[b],
           \A b \in Awaits : awaitRow'[b].status = "triggered" => awaitRow'[b].failure = "none"
    PROVE  sends' \subseteq SendCall /\ StillAccounted'
<1> DEFINE F == {a}
<1>1. /\ F \in SUBSET Awaits
      /\ \A b \in F : Untold(b) /\ ~CanTrigger(awaitRow'[b])
      /\ \A b \in F : kind = "failure" =>
           awaitRow'[b].status = "failed" /\ awaitRow'[b].failure = "source"
      /\ \A b \in Awaits \ F : awaitRow'[b] = awaitRow[b]
  OBVIOUS
<1>2. sends' = sends \cup {Send(b, kind, by) : b \in F}
  OBVIOUS
<1> HIDE DEF F
<1> QED BY <1>1, <1>2, SendsKeepAccounts

LEMMA NoSendKeepsAccounts ==
    ASSUME AwaitInv, NEW a \in Awaits,
           awaitRow' \in [Awaits -> AwaitRecord],
           UNCHANGED <<sends, woken, lostWakes>>,
           Untold(a), awaitRow'[a].status # "triggered",
           \A b \in Awaits \ {a} : awaitRow'[b] = awaitRow[b],
           \A b \in Awaits : awaitRow'[b].status = "triggered" => awaitRow'[b].failure = "none"
    PROVE  sends' \subseteq SendCall /\ StillAccounted'
<1> DEFINE F == {}
<1>1. /\ F \in SUBSET Awaits
      /\ \A b \in F : Untold(b) /\ ~CanTrigger(awaitRow'[b])
      /\ \A b \in F : "result" = "failure" =>
           awaitRow'[b].status = "failed" /\ awaitRow'[b].failure = "source"
      /\ \A b \in Awaits \ F :
           awaitRow'[b] = awaitRow[b] \/ (Untold(b) /\ awaitRow'[b].status # "triggered")
  OBVIOUS
<1>2. sends' = sends \cup {Send(b, "result", "job") : b \in F}
  OBVIOUS
<1> HIDE DEF F
<1> QED BY <1>1, <1>2, SendsKeepAccounts

(* Rows are marked with fresh keys, keep theirs or have none.              *)
LEMMA KeysKept ==
    ASSUME KeysAreReported,
           \A a \in Awaits : awaitRow'[a].key # NoKey => Reported(awaitRow'[a]),
           \A a \in Inline : ~awaitRow'[a].rekeyed => ~awaitRow[a].rekeyed,
           NEW F \in SUBSET Inline,
           \A a \in Inline \ F : ~awaitRow'[a].rekeyed => awaitRow'[a].key = awaitRow[a].key,
           \A a \in F : awaitRow'[a].key # NoKey =>
              \A b \in Inline : b # a =>
                 awaitRow[b].key # awaitRow'[a].key /\ awaitRow'[b].key # awaitRow'[a].key
    PROVE  KeysAreReported'
<1> SUFFICES ASSUME NEW a \in Inline, NEW b \in Inline,
                    awaitRow'[a].key = awaitRow'[b].key, awaitRow'[a].key # NoKey, a # b,
                    ~awaitRow'[a].rekeyed, ~awaitRow'[b].rekeyed
             PROVE  FALSE
  BY DEF KeysAreReported
<1>1. a \notin F /\ b \notin F
  OBVIOUS
<1> QED BY <1>1 DEF KeysAreReported

LEMMA KeysStay ==
    ASSUME KeysAreReported,
           \A a \in Awaits : awaitRow'[a].key # NoKey => Reported(awaitRow'[a]),
           \A a \in Inline : ~awaitRow'[a].rekeyed =>
              ~awaitRow[a].rekeyed /\ awaitRow'[a].key = awaitRow[a].key
    PROVE  KeysAreReported'
BY DEF KeysAreReported

(* A key that may be used is nobody's.                                     *)
LEMMA FreshKey ==
    ASSUME KeysAreReported, NEW a, NEW key, MayTrigger(a, key), key # NoKey
    PROVE  \A b \in Inline : awaitRow[b].key # key
BY DEF KeysAreReported, MayTrigger, AlreadyReported, Reported, Awaits

(* A pending row has no key and nobody is woken for it.                    *)
LEMMA PendingRow ==
    ASSUME AwaitInv, NEW a \in Awaits, Pending(a)
    PROVE  Untold(a) /\ awaitRow[a].key = NoKey /\ awaitRow[a] \in AwaitRecord
BY DEF AwaitInv, AwaitTypes, Pending, Untold, CanTrigger, KeysAreReported, Reported, AwaitRecord

(* What marking and failing make of a row.                                 *)
LEMMA RowAfter ==
    ASSUME NEW row \in AwaitRecord, NEW key \in ResultKeys \cup {NoKey}
    PROVE  /\ Marked(row, key) \in AwaitRecord /\ ~CanTrigger(Marked(row, key))
           /\ Marked(row, key).key = key /\ Reported(Marked(row, key))
           /\ Marked(row, key).status = "triggered" /\ Marked(row, key).failure = "none"
           /\ Marked(row, key).rekeyed = row.rekeyed
           /\ Marked(row, key).errors = row.errors /\ Rekeyed(row, key).errors = row.errors
           /\ Rekeyed(row, key) \in AwaitRecord
           /\ Rekeyed(row, key).status = "triggered" /\ Rekeyed(row, key).failure = "none"
           /\ Rekeyed(row, key).key = key
           /\ Rekeyed(row, key).rekeyed = (row.rekeyed \/ key # row.key)
           /\ SourceFailed(row) \in AwaitRecord /\ ~CanTrigger(SourceFailed(row))
           /\ SourceFailed(row).key = row.key /\ SourceFailed(row).rekeyed = row.rekeyed
           /\ SourceFailed(row).status = "failed" /\ SourceFailed(row).failure = "source"
BY DEF AwaitRecord, Marked, Rekeyed, SourceFailed, CanTrigger, Reported

-----------------------------------------------------------------------------
(* Requests                                                                *)

LEMMA RegisterKeepsInv ==
    ASSUME AwaitInv, NEW a \in Awaits, Register(a) \/ CancelAwait(a)
    PROVE  AwaitInv'
<1>1. PICK st \in {"pending", "cancelled"} :
        /\ awaitRow' = [awaitRow EXCEPT ![a].status = st]
        /\ awaitRow[a].status \in {"absent", "pending"}
        /\ UNCHANGED <<sends, woken, lostWakes, poller>>
  BY DEF Register, CancelAwait, Pending
<1>2. awaitRow[a] \in AwaitRecord /\ Untold(a) /\ awaitRow[a].key = NoKey
  BY <1>1 DEF AwaitInv, AwaitTypes, Untold, CanTrigger, KeysAreReported, Reported, AwaitRecord
<1>3. /\ awaitRow' \in [Awaits -> AwaitRecord]
      /\ awaitRow'[a].status = st /\ awaitRow'[a].key = NoKey
      /\ \A b \in Awaits \ {a} : awaitRow'[b] = awaitRow[b]
  BY <1>1, <1>2 DEF AwaitInv, AwaitTypes, AwaitRecord
<1>4. \A b \in Awaits : awaitRow'[b].status = "triggered" => awaitRow'[b].failure = "none"
  BY <1>3 DEF AwaitInv, RowsAreClean
<1>6. StillAccounted' /\ sends' \subseteq SendCall
  BY <1>1, <1>2, <1>3, <1>4, NoSendKeepsAccounts
<1>7. KeysAreReported'
  <2>1. \A b \in Awaits : awaitRow'[b].key # NoKey => Reported(awaitRow'[b])
    BY <1>3 DEF AwaitInv, KeysAreReported
  <2>2. \A b \in Inline : /\ awaitRow'[b].key = awaitRow[b].key
                          /\ awaitRow'[b].rekeyed = awaitRow[b].rekeyed
    BY <1>1, <1>2, <1>3 DEF Awaits, AwaitInv, AwaitTypes, AwaitRecord
  <2> QED BY <2>1, <2>2, KeysStay DEF AwaitInv
<1> QED BY <1>1, <1>3, <1>6, <1>7 DEF AwaitInv, AwaitTypes, StillAccounted

(* One row is marked, and its delivery is started: with the key it had, a  *)
(* key that is nobody's, or one that replaces its own.                     *)
LEMMA MarkKeepsInv ==
    ASSUME AwaitInv, NEW a \in Awaits, NEW row \in AwaitRecord,
           NEW by \in {"poller", "job", "request"},
           Untold(a), row.status = "triggered", row.failure = "none",
           ~row.rekeyed => ~awaitRow[a].rekeyed,
           row.rekeyed \/ row.key = awaitRow[a].key \/ MayTrigger(a, row.key),
           awaitRow' = [awaitRow EXCEPT ![a] = row],
           Starts({Send(a, "result", by)}),
           UNCHANGED <<woken, lostWakes, poller>>
    PROVE  AwaitInv'
<1>1. ~CanTrigger(row) /\ Reported(row)
  BY DEF CanTrigger, Reported
<1>2. /\ awaitRow' \in [Awaits -> AwaitRecord]
      /\ awaitRow'[a] = row
      /\ \A b \in Awaits \ {a} : awaitRow'[b] = awaitRow[b]
  BY DEF AwaitInv, AwaitTypes
<1>3. sends' = sends \cup {Send(a, "result", by)}
  BY DEF Starts
<1>4. \A b \in Awaits : awaitRow'[b].status = "triggered" => awaitRow'[b].failure = "none"
  BY <1>2 DEF AwaitInv, RowsAreClean
<1>6. StillAccounted' /\ sends' \subseteq SendCall
  BY <1>1, <1>2, <1>3, <1>4, OneSendKeepsAccounts
<1>7. KeysAreReported'
  <2>1. \A b \in Awaits : awaitRow'[b].key # NoKey => Reported(awaitRow'[b])
    BY <1>1, <1>2 DEF AwaitInv, KeysAreReported
  <2>2. \A b \in Inline : b \in Awaits /\ (b # a => awaitRow'[b] = awaitRow[b])
    BY <1>2 DEF Awaits
  <2>3. CASE row.rekeyed \/ row.key = awaitRow[a].key
    BY <1>2, <2>1, <2>2, <2>3, KeysStay DEF AwaitInv
  <2>4. CASE MayTrigger(a, row.key)
    <3> DEFINE F == {a} \cap Inline
    <3>1. ASSUME NEW b \in Inline, b # a, row.key # NoKey PROVE awaitRow[b].key # row.key
      BY <2>4, <3>1, FreshKey DEF AwaitInv
    <3>2. \A b \in F : awaitRow'[b].key # NoKey =>
             \A c \in Inline : c # b =>
                awaitRow[c].key # awaitRow'[b].key /\ awaitRow'[c].key # awaitRow'[b].key
      BY <1>2, <2>2, <3>1
    <3>3. \A b \in Inline \ F : awaitRow'[b] = awaitRow[b]
      BY <2>2
    <3>4. \A b \in Inline : ~awaitRow'[b].rekeyed => ~awaitRow[b].rekeyed
      BY <1>2, <2>2
    <3>5. F \in SUBSET Inline
      OBVIOUS
    <3> HIDE DEF F
    <3> QED BY <2>1, <3>2, <3>3, <3>4, <3>5, KeysKept DEF AwaitInv
  <2> QED BY <2>3, <2>4
<1> QED BY <1>2, <1>6, <1>7 DEF AwaitInv, AwaitTypes, StillAccounted

LEMMA RequestsKeepInv ==
    ASSUME AwaitInv, NEW a \in Awaits, TriggerByRequest(a) \/ RetryDelivery(a)
    PROVE  AwaitInv'
<1>0. /\ awaitRow[a] \in AwaitRecord /\ KeysFor(a) \subseteq ResultKeys \cup {NoKey}
      /\ awaitRow[a].rekeyed \in BOOLEAN
  BY DEF AwaitInv, AwaitTypes, AwaitRecord, KeysFor
<1>1. CASE TriggerByRequest(a)
  <2>1. PICK key \in KeysFor(a) :
          /\ MayTrigger(a, key)
          /\ awaitRow' = [awaitRow EXCEPT ![a] = Marked(awaitRow[a], key)]
    BY <1>1 DEF TriggerByRequest
  <2>2. Untold(a)
    BY <2>1, PendingRow DEF MayTrigger
  <2>3. /\ Marked(awaitRow[a], key) \in AwaitRecord
        /\ Marked(awaitRow[a], key).status = "triggered"
        /\ Marked(awaitRow[a], key).failure = "none" /\ Marked(awaitRow[a], key).key = key
        /\ Marked(awaitRow[a], key).rekeyed = awaitRow[a].rekeyed
    BY <1>0, RowAfter
  <2>4. Starts({Send(a, "result", "request")}) /\ UNCHANGED <<woken, lostWakes, poller>>
    BY <1>1 DEF TriggerByRequest
  <2> QED BY <2>1, <2>2, <2>3, <2>4, MarkKeepsInv
<1>2. CASE RetryDelivery(a)
  <2>1. PICK key \in KeysFor(a) : awaitRow' = [awaitRow EXCEPT ![a] = Rekeyed(awaitRow[a], key)]
    BY <1>2 DEF RetryDelivery
  <2>2. Untold(a)
    BY <1>2 DEF RetryDelivery, Untold, CanTrigger
  <2>3. /\ Rekeyed(awaitRow[a], key) \in AwaitRecord
        /\ Rekeyed(awaitRow[a], key).status = "triggered"
        /\ Rekeyed(awaitRow[a], key).failure = "none" /\ Rekeyed(awaitRow[a], key).key = key
        /\ Rekeyed(awaitRow[a], key).rekeyed = (awaitRow[a].rekeyed \/ key # awaitRow[a].key)
    BY <1>0, RowAfter
  <2>4. Starts({Send(a, "result", "request")}) /\ UNCHANGED <<woken, lostWakes, poller>>
    BY <1>2 DEF RetryDelivery
  <2>5. /\ ~Rekeyed(awaitRow[a], key).rekeyed => ~awaitRow[a].rekeyed
        /\ Rekeyed(awaitRow[a], key).rekeyed \/ Rekeyed(awaitRow[a], key).key = awaitRow[a].key
    BY <2>3
  <2> QED BY <2>1, <2>2, <2>3, <2>4, <2>5, MarkKeepsInv
<1> QED BY <1>1, <1>2

-----------------------------------------------------------------------------
(* Deliveries return                                                       *)

(* The delivery of one await is over; nothing changes for the others.      *)
LEMMA SendOver ==
    ASSUME AwaitInv, NEW s \in sends, sends' = sends \ {s}
    PROVE  /\ s.await \in Awaits /\ woken[s.await] = 0 /\ ~Untold(s.await)
           /\ NoSend(s.await)'
           /\ \A a \in Awaits \ {s.await} : (NoSend(a)' <=> NoSend(a)) /\ (OneSend(a)' <=> OneSend(a))
<1>1. s.await \in Awaits
  BY DEF AwaitInv, AwaitTypes, SendCall
<1>2. woken[s.await] = 0 /\ OneSend(s.await) /\ ~Untold(s.await)
  BY <1>1 DEF AwaitInv, Account, NoSend
<1>3. NoSend(s.await)'
  BY <1>2 DEF OneSend, NoSend
<1>4. ASSUME NEW a \in Awaits \ {s.await} PROVE \A t : t.await = a => (t \in sends' <=> t \in sends)
  BY <1>4
<1> QED BY <1>1, <1>2, <1>3, <1>4 DEF NoSend, OneSend

LEMMA DeliveredKeepsInv == ASSUME AwaitInv, NEW s \in sends, Delivered(s) PROVE AwaitInv'
<1>1. /\ sends' = sends \ {s} /\ woken' = [woken EXCEPT ![s.await] = @ + 1]
      /\ UNCHANGED <<awaitRow, lostWakes, poller>>
  BY DEF Delivered
<1>2. /\ s.await \in Awaits /\ woken[s.await] = 0 /\ ~Untold(s.await) /\ NoSend(s.await)'
      /\ \A a \in Awaits \ {s.await} : (NoSend(a)' <=> NoSend(a)) /\ (OneSend(a)' <=> OneSend(a))
  BY <1>1, SendOver
<1>3. woken' \in [Awaits -> Nat] /\ woken'[s.await] = 1
      /\ \A a \in Awaits \ {s.await} : woken'[a] = woken[a]
  BY <1>1, <1>2 DEF AwaitInv, AwaitTypes
<1>4. ASSUME NEW a \in Awaits PROVE Account(a)'
  <2>1. Untold(a)' <=> Untold(a)
    BY <1>1 DEF Untold
  <2> QED BY <1>1, <1>2, <1>3, <2>1 DEF AwaitInv, Account
<1>5. AwaitTypes' /\ RowsAreClean' /\ NoticesAreOfFailures' /\ KeysAreReported'
  BY <1>1, <1>3 DEF AwaitInv, AwaitTypes, RowsAreClean, NoticesAreOfFailures, KeysAreReported
<1> QED BY <1>4, <1>5 DEF AwaitInv

LEMMA DeliveryFailedKeepsInv ==
    ASSUME AwaitInv, NEW s \in sends, DeliveryFailed(s) PROVE AwaitInv'
<1>1. sends' = sends \ {s} /\ UNCHANGED <<woken, lostWakes, poller>>
  BY DEF DeliveryFailed
<1>2. /\ s.await \in Awaits /\ woken[s.await] = 0 /\ ~Untold(s.await) /\ NoSend(s.await)'
      /\ \A a \in Awaits \ {s.await} : (NoSend(a)' <=> NoSend(a)) /\ (OneSend(a)' <=> OneSend(a))
  BY <1>1, SendOver
<1>3. CASE s.kind = "failure"
  <2>1. awaitRow' = awaitRow /\ awaitRow[s.await].status # "triggered"
    BY <1>3 DEF DeliveryFailed, AwaitInv, NoticesAreOfFailures
  <2>2. ASSUME NEW a \in Awaits PROVE Account(a)'
    <3>1. Untold(a)' <=> Untold(a)
      BY <2>1 DEF Untold
    <3> QED BY <1>1, <1>2, <2>1, <3>1 DEF AwaitInv, Account
  <2>3. AwaitTypes' /\ RowsAreClean' /\ NoticesAreOfFailures' /\ KeysAreReported'
    BY <1>1, <2>1 DEF AwaitInv, AwaitTypes, RowsAreClean, NoticesAreOfFailures, KeysAreReported
  <2> QED BY <2>2, <2>3 DEF AwaitInv
<1>4. CASE s.kind # "failure"
  <2>1. awaitRow' = [awaitRow EXCEPT ![s.await].status = "failed", ![s.await].failure = "delivery"]
    BY <1>4 DEF DeliveryFailed
  <2>2. /\ awaitRow' \in [Awaits -> AwaitRecord]
        /\ awaitRow'[s.await].status = "failed" /\ awaitRow'[s.await].failure = "delivery"
        /\ awaitRow'[s.await].key = awaitRow[s.await].key
        /\ awaitRow'[s.await].rekeyed = awaitRow[s.await].rekeyed
        /\ \A a \in Awaits \ {s.await} : awaitRow'[a] = awaitRow[a]
    BY <1>2, <2>1 DEF AwaitInv, AwaitTypes, AwaitRecord
  <2>3. ASSUME NEW a \in Awaits PROVE Account(a)'
    <3>1. CASE a = s.await
      BY <1>1, <1>2, <2>2, <3>1 DEF Account
    <3>2. CASE a # s.await
      <4>1. (Untold(a)' <=> Untold(a)) /\ awaitRow'[a] = awaitRow[a]
        BY <2>2, <3>2 DEF Untold
      <4> QED BY <1>1, <1>2, <3>2, <4>1 DEF AwaitInv, Account
    <3> QED BY <3>1, <3>2
  <2>4. AwaitTypes' /\ RowsAreClean'
    BY <1>1, <2>2 DEF AwaitInv, AwaitTypes, RowsAreClean
  <2>5. NoticesAreOfFailures'
    <3>1. \A t \in sends' : t \in sends /\ t.await # s.await /\ t.await \in Awaits
      BY <1>1, <1>2 DEF NoSend, AwaitInv, AwaitTypes, SendCall
    <3> QED BY <2>2, <3>1 DEF AwaitInv, NoticesAreOfFailures
  <2>6. KeysAreReported'
    <3>1. \A a \in Awaits : awaitRow'[a].key # NoKey => Reported(awaitRow'[a])
      BY <2>2 DEF AwaitInv, KeysAreReported, Reported
    <3>2. \A a \in Inline : /\ awaitRow'[a].key = awaitRow[a].key
                            /\ awaitRow'[a].rekeyed = awaitRow[a].rekeyed
      BY <2>2 DEF Awaits
    <3> QED BY <3>1, <3>2, KeysStay DEF AwaitInv
  <2> QED BY <2>3, <2>4, <2>5, <2>6 DEF AwaitInv
<1> QED BY <1>3, <1>4

-----------------------------------------------------------------------------
(* The poller and the jobs                                                 *)

LEMMA PollStartKeepsInv == ASSUME AwaitInv, PollStart PROVE AwaitInv'
<1> DEFINE open == {a \in Awaits : Pending(a)}
<1>1. PICK past \in SUBSET Awaits, due \in SUBSET Timers :
        /\ awaitRow' = [a \in Awaits |->
             IF a \in past \cap open THEN [awaitRow[a] EXCEPT !.status = "expired"]
             ELSE IF a \in (due \cap open) \ past THEN Marked(awaitRow[a], NoKey)
             ELSE awaitRow[a]]
        /\ Starts({Send(a, "result", "poller") : a \in (due \cap open) \ past})
  BY DEF PollStart
<1> DEFINE fire == (due \cap open) \ past
<1>2. UNCHANGED <<woken, lostWakes>> /\ poller'.rows = {}
  BY DEF PollStart, At
<1>3. \A a \in open : Untold(a) /\ awaitRow[a].key = NoKey /\ awaitRow[a] \in AwaitRecord
  BY PendingRow
<1>4. ASSUME NEW a \in Awaits
      PROVE  /\ awaitRow'[a] \in AwaitRecord
             /\ awaitRow'[a].key = awaitRow[a].key
             /\ awaitRow'[a].rekeyed = awaitRow[a].rekeyed
             /\ awaitRow'[a].key # NoKey => Reported(awaitRow'[a])
             /\ awaitRow'[a].status = "triggered" => awaitRow'[a].failure = "none"
             /\ a \in fire => ~CanTrigger(awaitRow'[a])
             /\ a \notin fire =>
                  awaitRow'[a] = awaitRow[a] \/ (Untold(a) /\ awaitRow'[a].status # "triggered")
  <2>1. CASE a \in past \cap open
    <3>1. awaitRow'[a] = [awaitRow[a] EXCEPT !.status = "expired"]
      BY <1>1, <2>1
    <3> QED BY <1>3, <2>1, <3>1 DEF AwaitRecord
  <2>2. CASE a \in fire
    <3>1. awaitRow'[a] = Marked(awaitRow[a], NoKey)
      BY <1>1, <2>2
    <3> QED BY <1>3, <2>2, <3>1, RowAfter
  <2>3. CASE a \notin past \cap open /\ a \notin fire
    <3>1. awaitRow'[a] = awaitRow[a]
      BY <1>1, <2>3
    <3> QED BY <2>3, <3>1 DEF AwaitInv, AwaitTypes, RowsAreClean, KeysAreReported
  <2> QED BY <2>1, <2>2, <2>3
<1>5. fire \in SUBSET Awaits /\ sends' = sends \cup {Send(a, "result", "poller") : a \in fire}
      /\ \A a \in fire : Untold(a)
  BY <1>1, <1>3 DEF Starts
<1>6. awaitRow' \in [Awaits -> AwaitRecord]
  BY <1>1, <1>4
<1> HIDE DEF open, fire
<1>7. StillAccounted' /\ sends' \subseteq SendCall
  BY <1>2, <1>4, <1>5, <1>6, SendsKeepAccounts
<1>8. KeysAreReported'
  <2>1. \A a \in Inline : /\ awaitRow'[a].key = awaitRow[a].key
                          /\ awaitRow'[a].rekeyed = awaitRow[a].rekeyed
    BY <1>4 DEF Awaits
  <2> QED BY <1>4, <2>1, KeysStay DEF AwaitInv
<1> QED BY <1>2, <1>6, <1>7, <1>8 DEF AwaitInv, AwaitTypes, StillAccounted

LEMMA PollResultsKeepsInv == ASSUME AwaitInv, PollResults PROVE AwaitInv'
<1>1. PICK outcome \in [poller.rows -> Outcomes],
           key \in [poller.rows -> ResultKeys \cup {NoKey}] :
        LET matched == {a \in poller.rows : outcome[a] = "match" /\ MayTrigger(a, key[a])}
            failed  == {a \in poller.rows : outcome[a] = "failure" /\ Pending(a)}
            fire    == {a \in matched : key[a] = NoKey
                                          \/ a = First({b \in matched : key[b] = key[a]})}
        IN  /\ awaitRow' = [a \in Awaits |->
                 IF a \in fire THEN Marked(awaitRow[a], key[a])
                 ELSE IF a \in failed THEN SourceFailed(awaitRow[a])
                 ELSE awaitRow[a]]
            /\ Starts({Send(a, "result", "poller") : a \in fire})
  BY DEF PollResults
<1> DEFINE matched == {a \in poller.rows : outcome[a] = "match" /\ MayTrigger(a, key[a])}
           failed  == {a \in poller.rows : outcome[a] = "failure" /\ Pending(a)}
           fire    == {a \in matched : key[a] = NoKey
                                         \/ a = First({b \in matched : key[b] = key[a]})}
<1>2. /\ awaitRow' = [a \in Awaits |->
                 IF a \in fire THEN Marked(awaitRow[a], key[a])
                 ELSE IF a \in failed THEN SourceFailed(awaitRow[a])
                 ELSE awaitRow[a]]
      /\ sends' = sends \cup {Send(a, "result", "poller") : a \in fire}
  BY <1>1 DEF Starts
<1>3. UNCHANGED <<woken, lostWakes>> /\ poller'.rows = {}
  BY DEF PollResults, At
<1>4. \A a \in poller.rows : a \in Inline /\ a \in Awaits
  BY DEF AwaitInv, AwaitTypes, Awaits
<1>5. /\ \A a \in matched : Pending(a) /\ MayTrigger(a, key[a]) /\ key[a] \in ResultKeys \cup {NoKey}
      /\ \A a \in matched \cup failed : Pending(a) /\ a \in Inline /\ a \in Awaits
  BY <1>4 DEF MayTrigger
<1>6. \A a, b \in fire : key[a] = key[b] /\ key[a] # NoKey => a = b
  <2> SUFFICES ASSUME NEW a \in fire, NEW b \in fire, key[a] = key[b], key[a] # NoKey PROVE a = b
    OBVIOUS
  <2>1. {c \in matched : key[c] = key[a]} = {c \in matched : key[c] = key[b]}
    OBVIOUS
  <2>2. a = First({c \in matched : key[c] = key[a]}) /\ b = First({c \in matched : key[c] = key[b]})
    OBVIOUS
  <2> HIDE DEF matched
  <2> QED BY <2>1, <2>2
<1>7. fire \subseteq matched
  OBVIOUS
<1> HIDE DEF matched, failed, fire
<1>8. \A a \in matched \cup failed : Untold(a) /\ awaitRow[a].key = NoKey /\ awaitRow[a] \in AwaitRecord
  BY <1>5, PendingRow
<1>9. ASSUME NEW a \in Awaits
      PROVE  /\ awaitRow'[a] \in AwaitRecord
             /\ a \in fire => awaitRow'[a].key = key[a]
             /\ a \notin fire => awaitRow'[a].key = awaitRow[a].key
             /\ awaitRow'[a].rekeyed = awaitRow[a].rekeyed
             /\ awaitRow'[a].key # NoKey => Reported(awaitRow'[a])
             /\ awaitRow'[a].status = "triggered" => awaitRow'[a].failure = "none"
             /\ a \in fire => ~CanTrigger(awaitRow'[a])
             /\ a \notin fire =>
                  awaitRow'[a] = awaitRow[a] \/ (Untold(a) /\ awaitRow'[a].status # "triggered")
  <2>1. CASE a \in fire
    <3>1. awaitRow'[a] = Marked(awaitRow[a], key[a])
      BY <1>2, <2>1
    <3> QED BY <1>5, <1>7, <1>8, <2>1, <3>1, RowAfter
  <2>2. CASE a \in failed /\ a \notin fire
    <3>1. awaitRow'[a] = SourceFailed(awaitRow[a])
      BY <1>2, <2>2
    <3> QED BY <1>8, <2>2, <3>1, RowAfter
  <2>3. CASE a \notin failed /\ a \notin fire
    <3>1. awaitRow'[a] = awaitRow[a]
      BY <1>2, <2>3
    <3> QED BY <2>3, <3>1 DEF AwaitInv, AwaitTypes, RowsAreClean, KeysAreReported
  <2> QED BY <2>1, <2>2, <2>3
<1>10. awaitRow' \in [Awaits -> AwaitRecord]
  BY <1>2, <1>9
<1>11. fire \in SUBSET Awaits /\ fire \in SUBSET Inline /\ \A a \in fire : Untold(a)
  BY <1>5, <1>7, <1>8
<1>12. StillAccounted' /\ sends' \subseteq SendCall
  BY <1>2, <1>3, <1>9, <1>10, <1>11, SendsKeepAccounts
<1>13. KeysAreReported'
  <2>1. /\ \A a \in Inline \ fire : awaitRow'[a].key = awaitRow[a].key
        /\ \A a \in Inline : awaitRow'[a].rekeyed = awaitRow[a].rekeyed
    BY <1>9 DEF Awaits
  <2>2. ASSUME NEW a \in fire, awaitRow'[a].key # NoKey, NEW b \in Inline, b # a
        PROVE  awaitRow[b].key # awaitRow'[a].key /\ awaitRow'[b].key # awaitRow'[a].key
    <3>1. awaitRow'[a].key = key[a] /\ MayTrigger(a, key[a])
      BY <1>5, <1>7, <1>9, <1>11
    <3>2. awaitRow[b].key # key[a]
      BY <2>2, <3>1, FreshKey DEF AwaitInv
    <3>3. CASE b \in fire
      BY <1>6, <1>9, <1>11, <2>2, <3>1, <3>2, <3>3
    <3>4. CASE b \notin fire
      BY <2>1, <2>2, <3>1, <3>2, <3>4
    <3> QED BY <3>1, <3>2, <3>3, <3>4
  <2> QED BY <1>9, <1>11, <2>1, <2>2, KeysKept DEF AwaitInv
<1> QED BY <1>3, <1>10, <1>12, <1>13 DEF AwaitInv, AwaitTypes, StillAccounted

(* A pending row is settled by a failure of its source, with a notice.     *)
LEMMA FailureKeepsInv ==
    ASSUME AwaitInv, NEW a \in Awaits, Pending(a), NEW e \in Nat,
           awaitRow' = [awaitRow EXCEPT ![a] = [SourceFailed(@) EXCEPT !.errors = e]],
           Starts({Send(a, "failure", "job")}),
           UNCHANGED <<woken, lostWakes, poller>>
    PROVE  AwaitInv'
<1>1. Untold(a) /\ awaitRow[a].key = NoKey /\ awaitRow[a] \in AwaitRecord
  BY PendingRow
<1>2. /\ awaitRow' \in [Awaits -> AwaitRecord]
      /\ awaitRow'[a].status = "failed" /\ awaitRow'[a].failure = "source"
      /\ awaitRow'[a].key = NoKey /\ awaitRow'[a].rekeyed = awaitRow[a].rekeyed
      /\ \A b \in Awaits \ {a} : awaitRow'[b] = awaitRow[b]
  BY <1>1 DEF AwaitInv, AwaitTypes, SourceFailed, AwaitRecord
<1>3. sends' = sends \cup {Send(a, "failure", "job")}
  BY DEF Starts
<1>4. \A b \in Awaits : awaitRow'[b].status = "triggered" => awaitRow'[b].failure = "none"
  BY <1>2 DEF AwaitInv, RowsAreClean
<1>5. ~CanTrigger(awaitRow'[a])
  BY <1>2 DEF CanTrigger
<1>6. StillAccounted' /\ sends' \subseteq SendCall
  BY <1>1, <1>2, <1>3, <1>4, <1>5, OneSendKeepsAccounts
<1>7. KeysAreReported'
  <2>1. \A b \in Awaits : awaitRow'[b].key # NoKey => Reported(awaitRow'[b])
    BY <1>2 DEF AwaitInv, KeysAreReported
  <2>2. \A b \in Inline : /\ awaitRow'[b].key = awaitRow[b].key
                          /\ awaitRow'[b].rekeyed = awaitRow[b].rekeyed
    BY <1>1, <1>2 DEF Awaits
  <2> QED BY <2>1, <2>2, KeysStay DEF AwaitInv
<1> QED BY <1>2, <1>6, <1>7 DEF AwaitInv, AwaitTypes, StillAccounted

(* Only the error count of a pending row changes.                          *)
LEMMA CountKeepsInv ==
    ASSUME AwaitInv, NEW a \in Awaits, Pending(a), NEW e \in Nat,
           awaitRow' = [awaitRow EXCEPT ![a].errors = e],
           UNCHANGED <<sends, woken, lostWakes, poller>>
    PROVE  AwaitInv'
<1>1. Untold(a) /\ awaitRow[a].key = NoKey /\ awaitRow[a] \in AwaitRecord /\ awaitRow[a].status = "pending"
  BY PendingRow DEF Pending
<1>2. /\ awaitRow' \in [Awaits -> AwaitRecord]
      /\ awaitRow'[a].status = "pending" /\ awaitRow'[a].key = NoKey
      /\ awaitRow'[a].rekeyed = awaitRow[a].rekeyed
      /\ \A b \in Awaits \ {a} : awaitRow'[b] = awaitRow[b]
  BY <1>1 DEF AwaitInv, AwaitTypes, AwaitRecord
<1>4. \A b \in Awaits : awaitRow'[b].status = "triggered" => awaitRow'[b].failure = "none"
  BY <1>2 DEF AwaitInv, RowsAreClean
<1>5. StillAccounted' /\ sends' \subseteq SendCall
  BY <1>1, <1>2, <1>4, NoSendKeepsAccounts
<1>6. KeysAreReported'
  <2>1. \A b \in Awaits : awaitRow'[b].key # NoKey => Reported(awaitRow'[b])
    BY <1>2 DEF AwaitInv, KeysAreReported
  <2>2. \A b \in Inline : /\ awaitRow'[b].key = awaitRow[b].key
                          /\ awaitRow'[b].rekeyed = awaitRow[b].rekeyed
    BY <1>1, <1>2 DEF Awaits
  <2> QED BY <2>1, <2>2, KeysStay DEF AwaitInv
<1> QED BY <1>2, <1>5, <1>6 DEF AwaitInv, AwaitTypes, StillAccounted

(* Steps that touch neither rows nor deliveries.                           *)
LEMMA OthersKeepInv ==
    ASSUME AwaitInv, UNCHANGED <<awaitRow, sends, woken, lostWakes>>, poller'.rows \subseteq Inline
    PROVE  AwaitInv'
BY DEF AwaitInv, AwaitTypes, Account, Untold, NoSend, OneSend, RowsAreClean,
       NoticesAreOfFailures, KeysAreReported

LEMMA JobResultKeepsInv == ASSUME AwaitInv, NEW a \in Scripts, JobResult(a) PROVE AwaitInv'
<1>0. a \in Awaits /\ awaitRow \in [Awaits -> AwaitRecord] /\ UNCHANGED <<woken, lostWakes, poller>>
  BY DEF Awaits, AwaitInv, AwaitTypes, JobResult
<1>e. awaitRow[a].errors \in Nat /\ awaitRow[a].errors + 1 \in Nat
  BY <1>0 DEF AwaitRecord
<1>1. CASE /\ MayTrigger(a, NoKey)
           /\ awaitRow' = [awaitRow EXCEPT ![a] = Marked(@, NoKey)]
           /\ Starts({Send(a, "result", "job")})
  <2>1. Untold(a)
    BY <1>0, <1>1, PendingRow DEF MayTrigger
  <2>2. /\ Marked(awaitRow[a], NoKey) \in AwaitRecord
        /\ Marked(awaitRow[a], NoKey).status = "triggered"
        /\ Marked(awaitRow[a], NoKey).failure = "none" /\ Marked(awaitRow[a], NoKey).key = NoKey
        /\ Marked(awaitRow[a], NoKey).rekeyed = awaitRow[a].rekeyed
    BY <1>0, RowAfter
  <2>3. awaitRow' = [awaitRow EXCEPT ![a] = Marked(awaitRow[a], NoKey)]
    BY <1>1
  <2> QED BY <1>0, <1>1, <2>1, <2>2, <2>3, MarkKeepsInv
<1>2. CASE /\ Pending(a)
           /\ awaitRow' = [awaitRow EXCEPT ![a] = SourceFailed(@)]
           /\ Starts({Send(a, "failure", "job")})
  <2>1. SourceFailed(awaitRow[a]) = [SourceFailed(awaitRow[a]) EXCEPT !.errors = awaitRow[a].errors]
    BY <1>0 DEF SourceFailed, AwaitRecord
  <2>2. awaitRow' = [awaitRow EXCEPT ![a] = [SourceFailed(@) EXCEPT !.errors = awaitRow[a].errors]]
    BY <1>2, <2>1
  <2> QED BY <1>0, <1>e, <1>2, <2>2, FailureKeepsInv
<1>3. CASE /\ Pending(a)
           /\ awaitRow' = [awaitRow EXCEPT ![a] = EvaluationFailed(@)]
           /\ Starts(IF LastError(awaitRow[a]) THEN {Send(a, "failure", "job")} ELSE {})
  <2>1. CASE LastError(awaitRow[a])
    <3>1. EvaluationFailed(awaitRow[a])
            = [SourceFailed(awaitRow[a]) EXCEPT !.errors = awaitRow[a].errors + 1]
      BY <1>0, <2>1 DEF EvaluationFailed, SourceFailed, AwaitRecord
    <3>2. awaitRow' = [awaitRow EXCEPT
                         ![a] = [SourceFailed(@) EXCEPT !.errors = awaitRow[a].errors + 1]]
      BY <1>3, <3>1
    <3> QED BY <1>0, <1>e, <1>3, <2>1, <3>2, FailureKeepsInv
  <2>2. CASE ~LastError(awaitRow[a])
    <3>1. awaitRow' = [awaitRow EXCEPT ![a].errors = awaitRow[a].errors + 1]
      BY <1>0, <1>3, <2>2 DEF EvaluationFailed
    <3>2. sends' = sends
      BY <1>3, <2>2 DEF Starts
    <3> QED BY <1>0, <1>e, <1>3, <3>1, <3>2, CountKeepsInv
  <2> QED BY <2>1, <2>2
<1>4. CASE /\ awaitRow' = IF Pending(a) THEN [awaitRow EXCEPT ![a].errors = 0] ELSE awaitRow
           /\ UNCHANGED <<sends, started>>
  <2>1. CASE Pending(a)
    BY <1>0, <1>4, <2>1, CountKeepsInv
  <2>2. CASE ~Pending(a)
    BY <1>0, <1>4, <2>2, OthersKeepInv DEF AwaitInv, AwaitTypes
  <2> QED BY <2>1, <2>2
<1> QED BY <1>1, <1>2, <1>3, <1>4 DEF JobResult

(* The process dies with its deliveries.                                   *)
LEMMA CrashKeepsInv == ASSUME AwaitInv, CrashAwaits PROVE AwaitInv'
<1>1. /\ sends' = {} /\ lostWakes' = lostWakes \cup {s.await : s \in sends}
      /\ UNCHANGED <<awaitRow, woken>> /\ poller'.rows = {}
  BY DEF CrashAwaits, At
<1>2. ASSUME NEW a \in Awaits PROVE Account(a)'
  <2>1. NoSend(a)' /\ (Untold(a)' <=> Untold(a)) /\ (OneSend(a) => a \in lostWakes')
    BY <1>1 DEF NoSend, OneSend, Untold
  <2> QED BY <1>1, <2>1 DEF AwaitInv, Account
<1>3. AwaitTypes' /\ RowsAreClean' /\ NoticesAreOfFailures' /\ KeysAreReported'
  BY <1>1 DEF AwaitInv, AwaitTypes, RowsAreClean, NoticesAreOfFailures, KeysAreReported
<1> QED BY <1>2, <1>3 DEF AwaitInv

LEMMA ListedRows == ASSUME NEW S, NEW limit PROVE Listed(S, limit) \in SUBSET S
BY DEF Listed

LEMMA NextAwaitInv == AwaitInv /\ [AwaitNext]_awaitVars => AwaitInv'
<1> SUFFICES ASSUME AwaitInv, [AwaitNext]_awaitVars PROVE AwaitInv'
  OBVIOUS
<1>1. CASE UNCHANGED awaitVars
  BY <1>1, OthersKeepInv DEF awaitVars, AwaitInv, AwaitTypes
<1>2. CASE PollInline \/ PollScripts \/ \E a \in Scripts : JobDone(a)
  <2>1. UNCHANGED <<awaitRow, sends, woken, lostWakes>> /\ poller'.rows \subseteq Inline
    BY <1>2, ListedRows DEF PollInline, PollScripts, JobDone, At, AwaitInv, AwaitTypes
  <2> QED BY <2>1, OthersKeepInv
<1> QED BY <1>1, <1>2, RegisterKeepsInv, RequestsKeepInv, DeliveredKeepsInv, DeliveryFailedKeepsInv,
           PollStartKeepsInv, PollResultsKeepsInv, JobResultKeepsInv, CrashKeepsInv DEF AwaitNext

-----------------------------------------------------------------------------
(* The wake-up of an await is delivered once at most, and a triggered row  *)
(* has its wake-up delivered, under way or lost with the process, for any  *)
(* interleaving of poller, jobs and requests (session-await/service.ts     *)
(* 302-429).                                                               *)
THEOREM WakeUpsAlways == AwaitSpec => []WakeUpsAreAccounted
<1>1. AwaitInv => WakeUpsAreAccounted
  <2> SUFFICES ASSUME AwaitInv, NEW a \in Awaits
               PROVE  /\ woken[a] + Cardinality(SendsOf(a)) <= 1
                      /\ awaitRow[a].status = "triggered"
                           => woken[a] + Cardinality(SendsOf(a)) = 1 \/ a \in lostWakes
                      /\ (awaitRow[a].status \in {"pending", "expired", "cancelled"}
                          \/ awaitRow[a].failure = "delivery")
                           => woken[a] = 0 /\ SendsOf(a) = {}
    BY DEF WakeUpsAreAccounted
  <2>1. NoSend(a) => SendsOf(a) = {} /\ Cardinality(SendsOf(a)) = 0
    BY FS_EmptySet DEF NoSend, SendsOf
  <2>2. OneSend(a) => Cardinality(SendsOf(a)) = 1
    <3> SUFFICES ASSUME OneSend(a) PROVE Cardinality(SendsOf(a)) = 1
      OBVIOUS
    <3>1. PICK s \in sends : s.await = a /\ \A t \in sends : t.await = a => t = s
      BY DEF OneSend
    <3>2. SendsOf(a) = {s}
      BY <3>1 DEF SendsOf
    <3> QED BY <3>2, FS_Singleton
  <2>3. awaitRow[a].status = "triggered" => ~Untold(a)
    BY DEF AwaitInv, RowsAreClean, Untold, CanTrigger
  <2> QED BY <2>1, <2>2, <2>3 DEF AwaitInv, Account, Untold, CanTrigger
<1> QED BY <1>1, InitAwaitInv, NextAwaitInv, PTL DEF AwaitSpec

(* One CI result wakes the session once, though any number of awaits match *)
(* it, deliveries fail and are retried with the payload they had, and      *)
(* retries of other awaits replace theirs (session-await/service.ts        *)
(* 317-328, 363-429).                                                      *)
THEOREM OneWakeAlways == AwaitSpec => []OneWakePerResult
<1>1. AwaitInv => OneWakePerResult
  BY DEF AwaitInv, KeysAreReported, OneWakePerResult
<1> QED BY <1>1, InitAwaitInv, NextAwaitInv, PTL DEF AwaitSpec

-----------------------------------------------------------------------------
(* The counters of the rows, the poller and the queue of heavy checks      *)

ErrorsBounded ==
    \A a \in Awaits :
      /\ awaitRow[a].errors <= MaxEvaluationErrors
      /\ awaitRow[a].status \in {"absent", "pending"} => awaitRow[a].errors < MaxEvaluationErrors

(* No more jobs are in flight than HeavyConcurrency, or the next ones      *)
(* would be taken from a place before the start of the queue.              *)
QueueTyped ==
    /\ heavyQueue \in Seq(Scripts)
    /\ inFlight \in [Scripts -> {"no", "checking", "delivering"}]
    /\ Cardinality(Flying(inFlight)) <= HeavyConcurrency

PollerTyped ==
    /\ poller \in [pc : {"idle", "timers", "checking", "delivering"}, rows : SUBSET Inline]
    /\ started \in 0..MaxSends /\ awaitCrashes \in 0..MaxCrashes
    /\ lostWakes \subseteq Awaits

AwaitBounds == ErrorsBounded /\ QueueTyped /\ PollerTyped

LEMMA FiniteAwaits ==
    /\ IsFiniteSet(Scripts) /\ IsFiniteSet(Inline) /\ IsFiniteSet(Timers)
    /\ MaxSends \in Nat /\ MaxCrashes \in Nat /\ HeavyConcurrency \in Nat \ {0}
    /\ MaxEvaluationErrors \in Nat \ {0}
<1>1. IsFiniteSet(Awaits)
  BY SessionAwaitAssumption
<1>2. Scripts \subseteq Awaits /\ Inline \subseteq Awaits /\ Timers \subseteq Awaits
  BY DEF Awaits
<1> QED BY <1>1, <1>2, FS_Subset, SessionAwaitAssumption

LEMMA FlyingFinite ==
    ASSUME NEW flight
    PROVE  IsFiniteSet(Flying(flight)) /\ Cardinality(Flying(flight)) \in Nat
<1>1. Flying(flight) \in SUBSET Scripts
  BY DEF Flying
<1> QED BY <1>1, FiniteAwaits, FS_Subset, FS_CardinalityType

(* pump fills the free places from the head of the queue.                  *)
LEMMA PumpedKeepsQueue ==
    ASSUME NEW queue \in Seq(Scripts),
           NEW flight \in [Scripts -> {"no", "checking", "delivering"}],
           Cardinality(Flying(flight)) <= HeavyConcurrency, Pumped(queue, flight)
    PROVE  QueueTyped'
<1> DEFINE free  == HeavyConcurrency - Cardinality(Flying(flight))
           n     == IF Len(queue) < free THEN Len(queue) ELSE free
           taken == {queue[i] : i \in 1..n}
<1>1. free \in Nat /\ n \in 0..Len(queue) /\ n <= free /\ n \in Nat
  BY FlyingFinite, FiniteAwaits
<1>2. /\ heavyQueue' = SubSeq(queue, n + 1, Len(queue))
      /\ inFlight' = [a \in Scripts |->
                        IF \E i \in 1..n : queue[i] = a THEN "checking" ELSE flight[a]]
  BY DEF Pumped
<1> HIDE DEF n
<1>3. heavyQueue' \in Seq(Scripts)
  BY <1>1, <1>2, SubSeqProperties
<1>4. inFlight' \in [Scripts -> {"no", "checking", "delivering"}]
  BY <1>2
<1>5. \A i \in 1..n : queue[i] \in Scripts
  BY <1>1
<1>6. Flying(inFlight') = Flying(flight) \cup taken
  <2>1. ASSUME NEW a \in Scripts
        PROVE  inFlight'[a] # "no" <=> flight[a] # "no" \/ a \in taken
    <3>1. inFlight'[a] = IF a \in taken THEN "checking" ELSE flight[a]
      BY <1>2
    <3> QED BY <3>1
  <2>2. taken \subseteq Scripts
    BY <1>5
  <2> HIDE DEF taken
  <2> QED BY <2>1, <2>2 DEF Flying
<1>7. IsFiniteSet(taken) /\ Cardinality(taken) <= n /\ Cardinality(taken) \in Nat
  <2> DEFINE f == [i \in 1..n |-> queue[i]]
  <2>1. f \in Surjection(1..n, taken)
    BY DEF Surjection
  <2>2. IsFiniteSet(1..n) /\ Cardinality(1..n) = n
    BY <1>1, FS_Interval
  <2> HIDE DEF f, taken
  <2>3. IsFiniteSet(taken) /\ Cardinality(taken) <= n
    BY <2>1, <2>2, FS_Surjection
  <2> QED BY <2>3, FS_CardinalityType
<1> HIDE DEF taken
<1>8. Cardinality(Flying(flight) \cup taken) <= Cardinality(Flying(flight)) + Cardinality(taken)
  <2>1. IsFiniteSet(Flying(flight) \cap taken)
    BY <1>7, FS_Subset
  <2>2. Cardinality(Flying(flight) \cap taken) \in Nat
    BY <2>1, FS_CardinalityType
  <2>3. Cardinality(Flying(flight) \cup taken)
          = Cardinality(Flying(flight)) + Cardinality(taken) - Cardinality(Flying(flight) \cap taken)
    BY <1>7, FlyingFinite, FS_Union
  <2> QED BY <1>7, <2>2, <2>3, FlyingFinite
<1>9. Cardinality(Flying(inFlight')) <= HeavyConcurrency
  <2>1. Cardinality(Flying(inFlight')) \in Nat /\ Cardinality(Flying(flight)) \in Nat
    BY FlyingFinite
  <2> QED BY <1>1, <1>6, <1>7, <1>8, <2>1, FiniteAwaits
<1> QED BY <1>3, <1>4, <1>9 DEF QueueTyped

LEMMA StartsBounded ==
    ASSUME started \in 0..MaxSends, NEW S, IsFiniteSet(S), Starts(S) PROVE started' \in 0..MaxSends
<1>1. Cardinality(S) \in Nat
  BY FS_CardinalityType
<1> QED BY <1>1, FiniteAwaits DEF Starts

LEMMA SendsOfSet ==
    ASSUME NEW F, IsFiniteSet(F), NEW kind, NEW by
    PROVE  IsFiniteSet({Send(a, kind, by) : a \in F})
<1> DEFINE T == {Send(a, kind, by) : a \in F}
           f == [a \in F |-> Send(a, kind, by)]
<1>1. f \in Surjection(F, T)
  BY DEF Surjection
<1> HIDE DEF f, T
<1>2. IsFiniteSet(T)
  BY <1>1, FS_Surjection
<1> QED BY <1>2 DEF T

(* Rows keep their count of errors, and none becomes pending again.        *)
LEMMA RowsStayBounded ==
    ASSUME ErrorsBounded,
           \A a \in Awaits :
             /\ awaitRow'[a].errors = awaitRow[a].errors
             /\ awaitRow'[a].status \in {"absent", "pending"}
                  => awaitRow[a].status \in {"absent", "pending"}
    PROVE  ErrorsBounded'
BY DEF ErrorsBounded

LEMMA RequestsKeepBounds ==
    ASSUME AwaitInv, AwaitBounds, NEW a \in Awaits,
           Register(a) \/ CancelAwait(a) \/ TriggerByRequest(a) \/ RetryDelivery(a)
    PROVE  AwaitBounds'
<1>1. UNCHANGED <<poller, heavyQueue, inFlight, awaitCrashes, lostWakes>>
  BY DEF Register, CancelAwait, TriggerByRequest, RetryDelivery
<1>2. QueueTyped'
  BY <1>1 DEF AwaitBounds, QueueTyped
<1>3. started' \in 0..MaxSends
  <2>1. started' = started \/ Starts({Send(a, "result", "request")})
    BY DEF Register, CancelAwait, TriggerByRequest, RetryDelivery
  <2> QED BY <2>1, StartsBounded, FS_Singleton DEF AwaitBounds, PollerTyped
<1>4. ErrorsBounded'
  <2>1. awaitRow \in [Awaits -> AwaitRecord]
    BY DEF AwaitInv, AwaitTypes
  <2>2. \A b \in Awaits :
             /\ awaitRow'[b].errors = awaitRow[b].errors
             /\ awaitRow'[b].status \in {"absent", "pending"}
                  => awaitRow[b].status \in {"absent", "pending"}
    <3>1. CASE Register(a) \/ CancelAwait(a)
      BY <2>1, <3>1 DEF Register, CancelAwait, AwaitRecord
    <3>2. CASE TriggerByRequest(a) \/ RetryDelivery(a)
      <4>1. PICK key \in ResultKeys \cup {NoKey} :
                       \/ awaitRow' = [awaitRow EXCEPT ![a] = Marked(awaitRow[a], key)]
                       \/ awaitRow' = [awaitRow EXCEPT ![a] = Rekeyed(awaitRow[a], key)]
        BY <3>2 DEF TriggerByRequest, RetryDelivery, KeysFor
      <4>2. PICK row : /\ awaitRow' = [awaitRow EXCEPT ![a] = row]
                       /\ row.errors = awaitRow[a].errors /\ row.status = "triggered"
        BY <2>1, <4>1, RowAfter
      <4> QED BY <2>1, <4>2
    <3> QED BY <3>1, <3>2
  <2> QED BY <2>2, RowsStayBounded DEF AwaitBounds
<1> QED BY <1>1, <1>2, <1>3, <1>4 DEF AwaitBounds, PollerTyped

LEMMA DeliveriesKeepBounds ==
    ASSUME AwaitInv, AwaitBounds, NEW s \in sends, Delivered(s) \/ DeliveryFailed(s)
    PROVE  AwaitBounds'
<1>1. UNCHANGED <<poller, heavyQueue, inFlight, started, awaitCrashes, lostWakes>>
  BY DEF Delivered, DeliveryFailed
<1>2. ErrorsBounded'
  <2>1. awaitRow \in [Awaits -> AwaitRecord]
    BY DEF AwaitInv, AwaitTypes
  <2>2. \A b \in Awaits :
             /\ awaitRow'[b].errors = awaitRow[b].errors
             /\ awaitRow'[b].status \in {"absent", "pending"}
                  => awaitRow[b].status \in {"absent", "pending"}
    BY <2>1 DEF Delivered, DeliveryFailed, AwaitRecord
  <2> QED BY <2>2, RowsStayBounded DEF AwaitBounds
<1> QED BY <1>1, <1>2 DEF AwaitBounds, QueueTyped, PollerTyped

LEMMA PollKeepsBounds ==
    ASSUME AwaitInv, AwaitBounds, PollStart \/ PollInline \/ PollResults PROVE AwaitBounds'
<1>0. awaitRow \in [Awaits -> AwaitRecord]
  BY DEF AwaitInv, AwaitTypes
<1>1. UNCHANGED <<heavyQueue, inFlight, awaitCrashes, lostWakes>>
  BY DEF PollStart, PollInline, PollResults
<1>2. poller' \in [pc : {"idle", "timers", "checking", "delivering"}, rows : SUBSET Inline]
  BY ListedRows DEF PollStart, PollInline, PollResults, At
<1>3. started' \in 0..MaxSends /\ ErrorsBounded'
  <2>1. CASE PollInline
    BY <2>1 DEF PollInline, AwaitBounds, PollerTyped, ErrorsBounded
  <2>2. CASE PollStart
    <3>1. PICK fire \in SUBSET Timers, past \in SUBSET Awaits :
            /\ awaitRow' = [a \in Awaits |->
                 IF a \in past THEN [awaitRow[a] EXCEPT !.status = "expired"]
                 ELSE IF a \in fire THEN Marked(awaitRow[a], NoKey)
                 ELSE awaitRow[a]]
            /\ Starts({Send(a, "result", "poller") : a \in fire})
      BY <2>2 DEF PollStart
    <3>2. IsFiniteSet({Send(a, "result", "poller") : a \in fire})
      BY FiniteAwaits, FS_Subset, SendsOfSet
    <3>3. \A b \in Awaits :
             /\ awaitRow'[b].errors = awaitRow[b].errors
             /\ awaitRow'[b].status \in {"absent", "pending"}
                  => awaitRow[b].status \in {"absent", "pending"}
      BY <1>0, <3>1 DEF Marked, AwaitRecord
    <3> QED BY <3>1, <3>2, <3>3, RowsStayBounded, StartsBounded DEF AwaitBounds, PollerTyped
  <2>3. CASE PollResults
    <3>1. PICK fire \in SUBSET poller.rows, failed \in SUBSET poller.rows,
               key \in [poller.rows -> ResultKeys \cup {NoKey}] :
            /\ awaitRow' = [a \in Awaits |->
                 IF a \in fire THEN Marked(awaitRow[a], key[a])
                 ELSE IF a \in failed THEN SourceFailed(awaitRow[a])
                 ELSE awaitRow[a]]
            /\ Starts({Send(a, "result", "poller") : a \in fire})
      BY <2>3 DEF PollResults
    <3>2. IsFiniteSet({Send(a, "result", "poller") : a \in fire})
      <4>1. fire \in SUBSET Inline
        BY DEF AwaitBounds, PollerTyped
      <4> QED BY <4>1, FiniteAwaits, FS_Subset, SendsOfSet
    <3>3. \A b \in Awaits :
             /\ awaitRow'[b].errors = awaitRow[b].errors
             /\ awaitRow'[b].status \in {"absent", "pending"}
                  => awaitRow[b].status \in {"absent", "pending"}
      BY <1>0, <3>1 DEF Marked, SourceFailed, AwaitRecord
    <3> QED BY <3>1, <3>2, <3>3, RowsStayBounded, StartsBounded DEF AwaitBounds, PollerTyped
  <2> QED BY <2>1, <2>2, <2>3
<1> QED BY <1>1, <1>2, <1>3 DEF AwaitBounds, QueueTyped, PollerTyped

LEMMA SequenceOfScripts ==
    ASSUME NEW S \in SUBSET Scripts, NEW rows \in InOrder(S) PROVE rows \in Seq(Scripts)
<1> DEFINE n == Cardinality(S)
<1>1. n \in Nat
  BY FiniteAwaits, FS_Subset, FS_CardinalityType
<1>2. rows \in [1..n -> Scripts]
  BY DEF InOrder
<1> HIDE DEF n
<1> QED BY <1>1, <1>2, SeqDef

LEMMA ScriptsKeepBounds ==
    ASSUME AwaitInv, AwaitBounds, PollScripts \/ \E a \in Scripts : JobDone(a)
    PROVE  AwaitBounds'
<1>1. UNCHANGED <<awaitRow, started, awaitCrashes, lostWakes>>
      /\ (poller' = poller \/ poller' = At("idle", {}))
  BY DEF PollScripts, JobDone
<1>2. ErrorsBounded' /\ PollerTyped'
  BY <1>1 DEF At, AwaitBounds, ErrorsBounded, PollerTyped
<1>3. QueueTyped'
  <2>1. CASE PollScripts
    <3>1. PICK new \in SUBSET Scripts : \E rows \in InOrder(new) : Pumped(heavyQueue \o rows, inFlight)
      BY <2>1 DEF PollScripts, Listed
    <3>3. PICK rows \in InOrder(new) : Pumped(heavyQueue \o rows, inFlight)
      BY <3>1
    <3>2. heavyQueue \o rows \in Seq(Scripts)
      BY SequenceOfScripts DEF AwaitBounds, QueueTyped
    <3> QED BY <3>2, <3>3, PumpedKeepsQueue DEF AwaitBounds, QueueTyped
  <2>2. ASSUME NEW a \in Scripts, JobDone(a) PROVE QueueTyped'
    <3>1. WithoutJob(a) \in [Scripts -> {"no", "checking", "delivering"}]
          /\ Pumped(heavyQueue, WithoutJob(a))
      BY <2>2 DEF JobDone, WithoutJob, AwaitBounds, QueueTyped
    <3>2. Flying(WithoutJob(a)) \in SUBSET Flying(inFlight)
      BY DEF Flying, WithoutJob, AwaitBounds, QueueTyped
    <3>3. Cardinality(Flying(WithoutJob(a))) <= Cardinality(Flying(inFlight))
      BY <3>2, FlyingFinite, FS_Subset
    <3>4. Cardinality(Flying(WithoutJob(a))) \in Nat /\ Cardinality(Flying(inFlight)) \in Nat
      BY FlyingFinite
    <3>5. Cardinality(Flying(WithoutJob(a))) <= HeavyConcurrency
      BY <3>3, <3>4, FiniteAwaits DEF AwaitBounds, QueueTyped
    <3> QED BY <3>1, <3>5, PumpedKeepsQueue DEF AwaitBounds, QueueTyped
  <2> QED BY <2>1, <2>2
<1> QED BY <1>2, <1>3 DEF AwaitBounds

LEMMA JobResultKeepsBounds ==
    ASSUME AwaitInv, AwaitBounds, NEW a \in Scripts, JobResult(a) PROVE AwaitBounds'
<1>0. awaitRow \in [Awaits -> AwaitRecord] /\ a \in Awaits
  BY DEF AwaitInv, AwaitTypes, Awaits
<1>1. UNCHANGED <<poller, heavyQueue, awaitCrashes, lostWakes>>
      /\ inFlight' = [inFlight EXCEPT ![a] = "delivering"] /\ inFlight[a] = "checking"
  BY DEF JobResult, JobGoesOn
<1>2. QueueTyped'
  <2>1. inFlight' \in [Scripts -> {"no", "checking", "delivering"}]
    BY <1>1 DEF AwaitBounds, QueueTyped
  <2>2. Flying(inFlight') = Flying(inFlight)
    BY <1>1 DEF Flying, AwaitBounds, QueueTyped
  <2> QED BY <1>1, <2>1, <2>2 DEF AwaitBounds, QueueTyped
<1>3. started' \in 0..MaxSends
  <2>1. started' = started \/ \E S : IsFiniteSet(S) /\ Starts(S)
    BY FS_Singleton, FS_EmptySet DEF JobResult
  <2> QED BY <2>1, StartsBounded DEF AwaitBounds, PollerTyped
<1>4. ErrorsBounded'
  <2>1. \/ awaitRow' = awaitRow
        \/ Pending(a) /\ \/ awaitRow' = [awaitRow EXCEPT ![a] = Marked(@, NoKey)]
                         \/ awaitRow' = [awaitRow EXCEPT ![a] = SourceFailed(@)]
                         \/ awaitRow' = [awaitRow EXCEPT ![a] = EvaluationFailed(@)]
                         \/ awaitRow' = [awaitRow EXCEPT ![a].errors = 0]
    BY DEF JobResult, MayTrigger
  <2>2. ASSUME NEW b \in Awaits, b # a
        PROVE  awaitRow'[b] = awaitRow[b]
    BY <1>0, <2>1, <2>2
  <2>3. /\ awaitRow[a].errors \in Nat
        /\ awaitRow[a].errors <= MaxEvaluationErrors
        /\ awaitRow[a].status = "pending" => awaitRow[a].errors < MaxEvaluationErrors
    BY <1>0 DEF AwaitRecord, AwaitBounds, ErrorsBounded
  <2>4. \/ awaitRow'[a] = awaitRow[a]
        \/ /\ awaitRow[a].status = "pending"
           /\ \/ awaitRow'[a].errors = awaitRow[a].errors
              \/ awaitRow'[a].errors = 0
              \/ /\ awaitRow'[a].errors = awaitRow[a].errors + 1
                 /\ \/ awaitRow'[a].status = "failed"
                    \/ ~LastError(awaitRow[a])
    <3>1. CASE awaitRow' = awaitRow
      BY <3>1
    <3>2. CASE /\ Pending(a)
               /\ \/ awaitRow' = [awaitRow EXCEPT ![a] = Marked(@, NoKey)]
                  \/ awaitRow' = [awaitRow EXCEPT ![a] = SourceFailed(@)]
                  \/ awaitRow' = [awaitRow EXCEPT ![a].errors = 0]
      BY <1>0, <3>2 DEF Pending, Marked, SourceFailed, AwaitRecord
    <3>3. CASE Pending(a) /\ awaitRow' = [awaitRow EXCEPT ![a] = EvaluationFailed(@)]
      <4>1. awaitRow'[a] = EvaluationFailed(awaitRow[a]) /\ awaitRow[a].status = "pending"
            /\ awaitRow[a] \in AwaitRecord
        BY <1>0, <3>3 DEF Pending
      <4>2. EvaluationFailed(awaitRow[a]).errors = awaitRow[a].errors + 1
        BY <4>1 DEF EvaluationFailed, SourceFailed, AwaitRecord
      <4>3. LastError(awaitRow[a]) => EvaluationFailed(awaitRow[a]).status = "failed"
        BY <4>1 DEF EvaluationFailed, SourceFailed, AwaitRecord
      <4> QED BY <4>1, <4>2, <4>3
    <3> QED BY <2>1, <3>1, <3>2, <3>3
  <2>5. /\ awaitRow'[a].errors <= MaxEvaluationErrors
        /\ awaitRow'[a].status \in {"absent", "pending"} => awaitRow'[a].errors < MaxEvaluationErrors
    <3>1. CASE awaitRow'[a] = awaitRow[a]
      BY <1>0, <3>1 DEF AwaitBounds, ErrorsBounded
    <3>2. CASE awaitRow'[a] # awaitRow[a]
      BY <2>3, <2>4, <3>2, FiniteAwaits DEF LastError
    <3> QED BY <3>1, <3>2
  <2> QED BY <2>2, <2>5 DEF ErrorsBounded, AwaitBounds
<1> QED BY <1>1, <1>2, <1>3, <1>4 DEF AwaitBounds, PollerTyped

LEMMA NextAwaitBounds ==
    ASSUME AwaitInv, AwaitBounds, [AwaitNext]_awaitVars PROVE AwaitBounds'
<1>1. CASE UNCHANGED awaitVars
  BY <1>1 DEF awaitVars, AwaitBounds, ErrorsBounded, QueueTyped, PollerTyped
<1>2. CASE CrashAwaits
  <2>1. /\ awaitCrashes' \in 0..MaxCrashes /\ UNCHANGED <<awaitRow, started>>
        /\ poller' = At("idle", {}) /\ heavyQueue' = <<>>
        /\ inFlight' = [a \in Scripts |-> "no"]
    BY <1>2, FiniteAwaits DEF CrashAwaits, AwaitBounds, PollerTyped
  <2>3. lostWakes' \subseteq Awaits
    BY <1>2 DEF CrashAwaits, AwaitBounds, PollerTyped, AwaitInv, AwaitTypes, SendCall
  <2>2. Cardinality(Flying(inFlight')) <= HeavyConcurrency
    <3>1. Flying(inFlight') = {}
      BY <2>1 DEF Flying
    <3> QED BY <3>1, FS_EmptySet, FiniteAwaits
  <2> QED BY <2>1, <2>2, <2>3 DEF At, AwaitBounds, ErrorsBounded, QueueTyped, PollerTyped
<1> QED BY <1>1, <1>2, RequestsKeepBounds, DeliveriesKeepBounds, PollKeepsBounds,
           ScriptsKeepBounds, JobResultKeepsBounds DEF AwaitNext

(* Every variable of the awaits keeps its type: a row that is still asked  *)
(* for has errors left, and no more scripts are checked at a time than     *)
(* HeavyConcurrency (session-await/service.ts 302-429,                     *)
(* heavy-check-queue.ts).                                                  *)
THEOREM AwaitTypesCorrect == AwaitSpec => []AwaitTypeOK
<1>1. AwaitInit => AwaitBounds
  <2> SUFFICES ASSUME AwaitInit PROVE AwaitBounds
    OBVIOUS
  <2>1. ErrorsBounded
    <3>1. \A a \in Awaits : awaitRow[a].errors = 0
      BY DEF AwaitInit, NotRegistered, EarlierRow
    <3> QED BY <3>1, FiniteAwaits DEF ErrorsBounded
  <2>2. Flying(inFlight) = {}
    BY DEF AwaitInit, Flying
  <2>3. QueueTyped
    <3>1. Cardinality(Flying(inFlight)) <= HeavyConcurrency
      BY <2>2, FS_EmptySet, FiniteAwaits
    <3> QED BY <3>1 DEF AwaitInit, QueueTyped
  <2>4. PollerTyped
    BY FiniteAwaits DEF AwaitInit, PollerTyped, At
  <2> QED BY <2>1, <2>3, <2>4 DEF AwaitBounds
<1>2. AwaitSpec => [](AwaitInv /\ AwaitBounds)
  BY <1>1, InitAwaitInv, NextAwaitInv, NextAwaitBounds, PTL DEF AwaitSpec
<1>3. AwaitInv /\ AwaitBounds => AwaitTypeOK
  <2> SUFFICES ASSUME AwaitInv, AwaitBounds PROVE AwaitTypeOK
    OBVIOUS
  <2>1. \A a \in Awaits : /\ awaitRow[a] \in AwaitRecord
                          /\ awaitRow[a].errors \in 0..MaxEvaluationErrors
    BY FiniteAwaits DEF AwaitInv, AwaitTypes, AwaitRecord, AwaitBounds, ErrorsBounded
  <2>2. awaitRow \in [Awaits -> [status : {"absent", "pending", "triggered", "expired",
                                          "cancelled", "failed"},
                                failure : {"none", "source", "delivery"},
                                errors : 0..MaxEvaluationErrors,
                                key : ResultKeys \cup {NoKey},
                                rekeyed : BOOLEAN]]
    BY <2>1 DEF AwaitInv, AwaitTypes, AwaitRecord
  <2>3. /\ \A a \in Awaits : awaitRow[a].status \in {"absent", "pending"}
                             => awaitRow[a].errors < MaxEvaluationErrors
        /\ Cardinality(Flying(inFlight)) <= HeavyConcurrency
    BY DEF AwaitBounds, ErrorsBounded, QueueTyped
  <2> QED BY <2>2, <2>3 DEF AwaitInv, AwaitTypes, SendCall, AwaitBounds, QueueTyped, PollerTyped,
                            AwaitTypeOK
<1> QED BY <1>2, <1>3, PTL

-----------------------------------------------------------------------------
(* Background jobs                                                         *)

Told(j) ==
    /\ jobRow[j].status \notin Terminal => shown[j] = {} /\ ~jobRow[j].projected
    /\ ~jobRow[j].projected => shown[j] \subseteq {jobRow[j].status}
    /\ \E s \in Terminal : shown[j] \subseteq {s}

CallTold(c) ==
    /\ call[c].pc # "idle" => call[c].job \in Jobs
    /\ call[c].pc = "projecting" => call[c].seen \in Terminal
    /\ call[c].pc = "cancelling" =>
         /\ call[c].seen = "cancelled"
         /\ shown[call[c].job] \subseteq {"cancelled"}
         /\ jobRow[call[c].job].status \in Terminal
         /\ ~jobRow[call[c].job].projected => jobRow[call[c].job].status = "cancelled"

JobInv ==
    /\ JobTypeOK
    /\ \A j \in Jobs : Told(j)
    /\ \A c \in Calls : CallTold(c)

(* projectTerminal with a row that agrees with what the owner was told     *)
(* keeps the two parts of the invariant that it touches.                   *)
LEMMA ProjectTerminalTypes ==
    ASSUME JobTypeOK, NEW c \in Calls, NEW j \in Jobs,
           NEW row \in [status : {"absent"} \cup Active \cup Terminal, projected : BOOLEAN],
           ProjectTerminal(c, j, row)
    PROVE  /\ call' \in [Calls -> [pc : {"idle", "reading", "cancelling", "projecting"},
                                   job : Jobs \cup {NoJob},
                                   seen : {"none"} \cup Active \cup Terminal]]
           /\ shown' \in [Jobs -> SUBSET Terminal]
           /\ \A d \in Calls \ {c} : call'[d] = call[d]
           /\ \A i \in Jobs \ {j} : shown'[i] = shown[i]
           /\ \/ /\ row.status \in Terminal /\ ~row.projected
                 /\ shown'[j] = shown[j] \cup {row.status}
                 /\ call'[c] = [pc |-> "projecting", job |-> j, seen |-> row.status]
              \/ /\ ~(row.status \in Terminal /\ ~row.projected)
                 /\ shown'[j] = shown[j]
                 /\ call'[c] = Returned
<1>1. CASE row.status \in Terminal /\ ~row.projected
  <2>1. /\ call' = [call EXCEPT ![c] = [pc |-> "projecting", job |-> j, seen |-> row.status]]
        /\ shown' = [shown EXCEPT ![j] = @ \cup {row.status}]
    BY <1>1 DEF ProjectTerminal, Suspend
  <2>2. [pc |-> "projecting", job |-> j, seen |-> row.status]
          \in [pc : {"idle", "reading", "cancelling", "projecting"},
               job : Jobs \cup {NoJob}, seen : {"none"} \cup Active \cup Terminal]
    BY <1>1
  <2>3. call \in [Calls -> [pc : {"idle", "reading", "cancelling", "projecting"},
               job : Jobs \cup {NoJob}, seen : {"none"} \cup Active \cup Terminal]]
        /\ shown \in [Jobs -> SUBSET Terminal]
    BY DEF JobTypeOK
  <2>4. /\ shown' \in [Jobs -> SUBSET Terminal]
        /\ \A i \in Jobs \ {j} : shown'[i] = shown[i]
        /\ shown'[j] = shown[j] \cup {row.status}
    BY <1>1, <2>1, <2>3
  <2> QED BY <1>1, <2>1, <2>2, <2>3, <2>4
<1>2. CASE ~(row.status \in Terminal /\ ~row.projected)
  <2>1. call' = [call EXCEPT ![c] = Returned] /\ shown' = shown
    BY <1>2 DEF ProjectTerminal, Return
  <2>2. Returned \in [pc : {"idle", "reading", "cancelling", "projecting"},
               job : Jobs \cup {NoJob}, seen : {"none"} \cup Active \cup Terminal]
    BY DEF Returned
  <2> QED BY <1>2, <2>1, <2>2 DEF JobTypeOK
<1> QED BY <1>1, <1>2

LEMMA InitJobInv == JobInit => JobInv
<1> SUFFICES ASSUME JobInit PROVE JobInv
  OBVIOUS
<1>1. JobTypeOK
  BY BackgroundJobsAssumption DEF JobInit, JobTypeOK, Returned
<1>2. ASSUME NEW j \in Jobs PROVE Told(j)
  BY DEF JobInit, Told, Terminal
<1>3. ASSUME NEW c \in Calls PROVE CallTold(c)
  BY DEF JobInit, CallTold, Returned
<1> QED BY <1>1, <1>2, <1>3 DEF JobInv

-----------------------------------------------------------------------------
JobRecord == [status : {"absent"} \cup Active \cup Terminal, projected : BOOLEAN]

(* The row at hand may be shown to the owner: nobody was told otherwise.   *)
MayShow(c, j, row) ==
    /\ jobRow'[j].status \notin Terminal => shown[j] = {} /\ ~jobRow'[j].projected
    /\ ~jobRow'[j].projected => shown[j] \subseteq {jobRow'[j].status}
    /\ row.status \in Terminal /\ ~row.projected =>
         /\ shown[j] \subseteq {row.status}
         /\ jobRow'[j].status \in Terminal
         /\ ~jobRow'[j].projected => jobRow'[j].status = row.status
    /\ \A d \in Calls \ {c} : call[d].pc = "cancelling" /\ call[d].job = j =>
         /\ jobRow'[j].status \in Terminal
         /\ ~jobRow'[j].projected => jobRow'[j].status = "cancelled"
         /\ row.status \in Terminal /\ ~row.projected => row.status = "cancelled"

LEMMA ProjectTerminalKeeps ==
    ASSUME JobInv, NEW c \in Calls, NEW j \in Jobs, NEW row \in JobRecord,
           ProjectTerminal(c, j, row), MayShow(c, j, row),
           jobRow' \in [Jobs -> JobRecord], \A i \in Jobs \ {j} : jobRow'[i] = jobRow[i]
    PROVE  /\ \A i \in Jobs : Told(i)'
           /\ \A d \in Calls : CallTold(d)'
<1>1. /\ \A d \in Calls \ {c} : call'[d] = call[d]
      /\ \A i \in Jobs \ {j} : shown'[i] = shown[i]
      /\ \/ /\ row.status \in Terminal /\ ~row.projected
            /\ shown'[j] = shown[j] \cup {row.status}
            /\ call'[c] = [pc |-> "projecting", job |-> j, seen |-> row.status]
         \/ /\ ~(row.status \in Terminal /\ ~row.projected)
            /\ shown'[j] = shown[j]
            /\ call'[c] = Returned
  BY ProjectTerminalTypes DEF JobRecord, JobInv
<1>2. ASSUME NEW i \in Jobs PROVE Told(i)'
  <2>1. CASE i # j
    <3>1. jobRow'[i] = jobRow[i] /\ shown'[i] = shown[i]
      BY <1>1, <2>1
    <3> QED BY <3>1 DEF JobInv, Told
  <2>2. CASE i = j
    <3>1. \E s \in Terminal : shown'[j] \subseteq {s}
      BY <1>1 DEF JobInv, Told, MayShow
    <3> QED BY <1>1, <2>2, <3>1 DEF Told, MayShow
  <2> QED BY <2>1, <2>2
<1>3. ASSUME NEW d \in Calls PROVE CallTold(d)'
  <2>1. CASE d = c
    BY <1>1, <2>1 DEF CallTold, Returned
  <2>2. CASE d # c
    <3>1. call'[d] = call[d] /\ CallTold(d)
      BY <1>1, <2>2 DEF JobInv
    <3>2. CASE call[d].pc = "cancelling" /\ call[d].job = j
      BY <1>1, <2>2, <3>1, <3>2 DEF CallTold, MayShow
    <3>3. CASE call[d].pc = "cancelling" /\ call[d].job # j
      <4>1. call[d].job \in Jobs \ {j}
        BY <3>1, <3>3 DEF CallTold
      <4>2. jobRow'[call[d].job] = jobRow[call[d].job] /\ shown'[call[d].job] = shown[call[d].job]
        BY <1>1, <4>1
      <4> QED BY <3>1, <4>2 DEF CallTold
    <3>4. CASE call[d].pc # "cancelling"
      BY <3>1, <3>4 DEF CallTold
    <3> QED BY <3>2, <3>3, <3>4
  <2> QED BY <2>1, <2>2
<1> QED BY <1>2, <1>3

(* A step that leaves the row, what was shown and all calls but one alone, *)
(* and sends that one back, keeps the invariant's last two parts.          *)
LEMMA ReturnKeeps ==
    ASSUME JobInv, NEW c \in Calls, Return(c), UNCHANGED <<jobRow, shown>>
    PROVE  /\ call' \in [Calls -> [pc : {"idle", "reading", "cancelling", "projecting"},
                                   job : Jobs \cup {NoJob},
                                   seen : {"none"} \cup Active \cup Terminal]]
           /\ \A i \in Jobs : Told(i)'
           /\ \A d \in Calls : CallTold(d)'
<1>1. /\ call' \in [Calls -> [pc : {"idle", "reading", "cancelling", "projecting"},
                             job : Jobs \cup {NoJob},
                             seen : {"none"} \cup Active \cup Terminal]]
      /\ call'[c] = Returned
      /\ \A d \in Calls \ {c} : call'[d] = call[d]
  BY DEF JobInv, JobTypeOK, Return, Returned
<1>2. \A i \in Jobs : Told(i)'
  BY DEF JobInv, Told
<1>3. ASSUME NEW d \in Calls PROVE CallTold(d)'
  <2>1. CASE d = c
    BY <1>1, <2>1 DEF CallTold, Returned
  <2>2. CASE d # c
    BY <1>1, <2>2 DEF JobInv, CallTold
  <2> QED BY <2>1, <2>2
<1> QED BY <1>1, <1>2, <1>3

(* reconcileOne keeps the types and the invariant's last two parts.        *)
LEMMA ReconcileKeeps ==
    ASSUME JobInv, NEW c \in Calls, NEW j \in Jobs, Reconcile(c, j)
    PROVE  /\ call' \in [Calls -> [pc : {"idle", "reading", "cancelling", "projecting"},
                                   job : Jobs \cup {NoJob},
                                   seen : {"none"} \cup Active \cup Terminal]]
           /\ shown' \in [Jobs -> SUBSET Terminal]
           /\ \A i \in Jobs : Told(i)'
           /\ \A d \in Calls : CallTold(d)'
<1>1. JobTypeOK /\ jobRow' = jobRow /\ jobRow[j] \in JobRecord
  BY DEF JobInv, JobTypeOK, Reconcile, JobRecord
<1>2. CASE jobRow[j].status \in Active
  <2>1. /\ call' = [call EXCEPT ![c] = [pc |-> "reading", job |-> j, seen |-> jobRow[j].status]]
        /\ shown' = shown
    BY <1>2 DEF Reconcile, Suspend
  <2>2. /\ call' \in [Calls -> [pc : {"idle", "reading", "cancelling", "projecting"},
                               job : Jobs \cup {NoJob},
                               seen : {"none"} \cup Active \cup Terminal]]
        /\ call'[c] = [pc |-> "reading", job |-> j, seen |-> jobRow[j].status]
        /\ \A d \in Calls \ {c} : call'[d] = call[d]
    BY <1>1, <1>2, <2>1 DEF JobTypeOK
  <2>3. \A i \in Jobs : Told(i)'
    BY <1>1, <2>1 DEF JobInv, Told
  <2>4. ASSUME NEW d \in Calls PROVE CallTold(d)'
    <3>1. CASE d = c
      BY <2>2, <3>1 DEF CallTold
    <3>2. CASE d # c
      BY <1>1, <2>1, <2>2, <3>2 DEF JobInv, CallTold
    <3> QED BY <3>1, <3>2
  <2> QED BY <1>1, <2>1, <2>2, <2>3, <2>4 DEF JobTypeOK
<1>3. CASE jobRow[j].status \notin Active
  <2>1. ProjectTerminal(c, j, jobRow[j])
    BY <1>3 DEF Reconcile
  <2>2. Told(j) /\ \A d \in Calls : CallTold(d)
    BY DEF JobInv
  <2>3. MayShow(c, j, jobRow[j])
    <3>1. ASSUME NEW d \in Calls, call[d].pc = "cancelling", call[d].job = j
          PROVE  /\ jobRow[j].status \in Terminal
                 /\ ~jobRow[j].projected => jobRow[j].status = "cancelled"
      BY <2>2, <3>1 DEF CallTold
    <3> QED BY <1>1, <2>2, <3>1 DEF MayShow, Told
  <2>4. jobRow' \in [Jobs -> JobRecord] /\ \A i \in Jobs \ {j} : jobRow'[i] = jobRow[i]
    BY <1>1 DEF JobTypeOK, JobRecord
  <2> QED BY <1>1, <2>1, <2>3, <2>4, ProjectTerminalTypes, ProjectTerminalKeeps DEF JobRecord
<1> QED BY <1>2, <1>3

CallType == [pc : {"idle", "reading", "cancelling", "projecting"},
             job : Jobs \cup {NoJob}, seen : {"none"} \cup Active \cup Terminal]

(* The part of the invariant that the steps preserve one by one.           *)
LEMMA StepsKeepJobInv ==
    ASSUME JobInv, jobRow' \in [Jobs -> JobRecord], source' \in [Jobs -> {"running"} \cup Terminal],
           call' \in [Calls -> CallType], shown' \in [Jobs -> SUBSET Terminal],
           requested' \in 0..MaxRequests, jobCrashes' \in 0..MaxJobCrashes,
           \A j \in Jobs : Told(j)', \A c \in Calls : CallTold(c)'
    PROVE  JobInv'
  BY DEF JobInv, JobTypeOK, JobRecord, CallType

(* A call that keeps the row of its job unsettled is not raced by a cancel *)
(* of the same job: that one would have settled it.                        *)
LEMMA ActiveNotCancelling ==
    ASSUME JobInv, NEW j \in Jobs, jobRow[j].status \notin Terminal,
           NEW d \in Calls, call[d].pc = "cancelling"
    PROVE  call[d].job \in Jobs \ {j}
  BY DEF JobInv, CallTold

LEMMA EnqueueKeepsInv ==
    ASSUME JobInv, NEW j \in Jobs, EnqueueJob(j) PROVE JobInv'
<1>1. PICK status \in Active : jobRow' = [jobRow EXCEPT ![j].status = status]
  BY DEF EnqueueJob
<1>2. /\ jobRow \in [Jobs -> JobRecord] /\ UNCHANGED <<source, call, shown, requested, jobCrashes>>
      /\ jobRow[j].status = "absent"
  BY DEF EnqueueJob, JobInv, JobTypeOK, JobRecord
<1>3. /\ jobRow' \in [Jobs -> JobRecord] /\ \A i \in Jobs \ {j} : jobRow'[i] = jobRow[i]
      /\ jobRow'[j].status = status /\ jobRow'[j].projected = jobRow[j].projected
  BY <1>1, <1>2 DEF JobRecord
<1>4. ASSUME NEW i \in Jobs PROVE Told(i)'
  <2>1. CASE i = j
    <3>1. shown[j] = {} /\ ~jobRow[j].projected
      BY <1>2 DEF JobInv, Told, Terminal
    <3> QED BY <1>2, <1>3, <2>1, <3>1 DEF Told, Terminal
  <2>2. CASE i # j
    BY <1>2, <1>3, <2>2 DEF JobInv, Told
  <2> QED BY <2>1, <2>2
<1>5. ASSUME NEW d \in Calls PROVE CallTold(d)'
  <2>1. call[d].pc = "cancelling" => call[d].job \in Jobs \ {j}
    BY <1>2, ActiveNotCancelling DEF Terminal
  <2>2. CallTold(d)
    BY DEF JobInv
  <2> QED BY <1>2, <1>3, <2>1, <2>2 DEF CallTold
<1> QED BY <1>2, <1>3, <1>4, <1>5, StepsKeepJobInv DEF JobInv, JobTypeOK, CallType

LEMMA SourceEndsKeepsInv ==
    ASSUME JobInv, NEW j \in Jobs, SourceEnds(j) PROVE JobInv'
<1>1. source' \in [Jobs -> {"running"} \cup Terminal]
  BY DEF SourceEnds, JobInv, JobTypeOK, Terminal
<1>2. UNCHANGED <<jobRow, call, shown, requested, jobCrashes>>
  BY DEF SourceEnds
<1>3. /\ \A i \in Jobs : Told(i)'
      /\ \A d \in Calls : CallTold(d)'
  BY <1>2 DEF JobInv, Told, CallTold
<1> QED BY <1>1, <1>2, <1>3, StepsKeepJobInv DEF JobInv, JobTypeOK, JobRecord, CallType

LEMMA ProjectedKeepsInv ==
    ASSUME JobInv, NEW c \in Calls, Projected(c) PROVE JobInv'
<1> DEFINE j == call[c].job
<1>1. /\ call[c].pc = "projecting" /\ Return(c)
      /\ UNCHANGED <<source, shown, requested, jobCrashes>>
  BY DEF Projected
<1>2. j \in Jobs /\ call[c].seen \in Terminal
  BY <1>1 DEF JobInv, CallTold
<1>3. PICK status \in {call[c].seen, "failed"} :
        jobRow' = IF jobRow[j].projected THEN jobRow
                  ELSE [jobRow EXCEPT ![j] = [status |-> status, projected |-> TRUE]]
  BY DEF Projected
<1>4. CASE jobRow[j].projected
  BY <1>1, <1>3, <1>4, ReturnKeeps, StepsKeepJobInv DEF JobInv, JobTypeOK, JobRecord, CallType
<1>5. CASE ~jobRow[j].projected
  <2>1. status \in Terminal
    BY <1>2 DEF Terminal
  <2>2. /\ jobRow' \in [Jobs -> JobRecord] /\ \A i \in Jobs \ {j} : jobRow'[i] = jobRow[i]
        /\ jobRow'[j].status = status /\ jobRow'[j].projected = TRUE
    BY <1>2, <1>3, <1>5, <2>1 DEF JobInv, JobTypeOK, JobRecord
  <2>3. /\ call' \in [Calls -> CallType] /\ call'[c] = Returned
        /\ \A d \in Calls \ {c} : call'[d] = call[d]
    BY <1>1 DEF JobInv, JobTypeOK, Return, Returned, CallType
  <2>4. ASSUME NEW i \in Jobs PROVE Told(i)'
    BY <1>1, <2>1, <2>2 DEF JobInv, Told
  <2>5. ASSUME NEW d \in Calls PROVE CallTold(d)'
    <3>1. CASE d = c
      BY <2>3, <3>1 DEF CallTold, Returned
    <3>2. CASE d # c
      <4>1. call'[d] = call[d] /\ CallTold(d)
        BY <2>3, <3>2 DEF JobInv
      <4> QED BY <1>1, <2>1, <2>2, <4>1 DEF CallTold
    <3> QED BY <3>1, <3>2
  <2> QED BY <1>1, <2>2, <2>3, <2>4, <2>5, StepsKeepJobInv DEF JobInv, JobTypeOK
<1> QED BY <1>4, <1>5

LEMMA SourceReadKeepsInv ==
    ASSUME JobInv, NEW c \in Calls, SourceRead(c) PROVE JobInv'
<1> DEFINE j == call[c].job
           row == IF MayObserve(j) THEN [status |-> source[j], projected |-> FALSE]
                  ELSE jobRow[j]
<1>1. /\ call[c].pc = "reading" /\ UNCHANGED <<source, requested, jobCrashes>>
      /\ j \in Jobs
  BY DEF SourceRead, JobInv, CallTold
<1>2. CASE Return(c) /\ UNCHANGED <<jobRow, shown>>
  BY <1>1, <1>2, ReturnKeeps, StepsKeepJobInv DEF SourceRead, JobInv, JobTypeOK, JobRecord, CallType
<1>3. CASE jobRow' = [jobRow EXCEPT ![j] = row] /\ ProjectTerminal(c, j, row)
  <2>1. /\ jobRow' = [jobRow EXCEPT ![j] = row]
        /\ ProjectTerminal(c, j, row)
    BY <1>3
  <2>2. jobRow[j] \in JobRecord /\ source[j] \in {"running"} \cup Terminal /\ jobRow \in [Jobs -> JobRecord]
    BY <1>1 DEF JobInv, JobTypeOK, JobRecord
  <2>3. row \in JobRecord
    BY <2>2 DEF JobRecord, Active
  <2>4. /\ jobRow' \in [Jobs -> JobRecord] /\ \A i \in Jobs \ {j} : jobRow'[i] = jobRow[i]
        /\ jobRow'[j] = row
    BY <1>1, <2>1, <2>2, <2>3
  <2>5. Told(j) /\ \A d \in Calls : CallTold(d)
    BY <1>1 DEF JobInv
  <2>6. MayShow(c, j, row)
    <3>1. CASE MayObserve(j)
      <4>1. row = [status |-> source[j], projected |-> FALSE] /\ jobRow[j].status \notin Terminal
        BY <3>1 DEF MayObserve, Active, Terminal
      <4>2. shown[j] = {}
        BY <2>5, <4>1 DEF Told
      <4>3. ASSUME NEW d \in Calls, call[d].pc = "cancelling" PROVE call[d].job # j
        BY <1>1, <4>1, <4>3, ActiveNotCancelling
      <4>4. row.status = source[j] /\ row.projected = FALSE
        BY <4>1
      <4> HIDE DEF row, j
      <4> QED BY <2>4, <4>2, <4>3, <4>4 DEF MayShow
    <3>2. CASE ~MayObserve(j)
      <4>1. row = jobRow[j] /\ jobRow'[j] = jobRow[j]
        BY <2>4, <3>2
      <4>2. ASSUME NEW d \in Calls, call[d].pc = "cancelling", call[d].job = j
            PROVE  /\ jobRow[j].status \in Terminal
                   /\ ~jobRow[j].projected => jobRow[j].status = "cancelled"
        BY <2>5, <4>2 DEF CallTold
      <4> HIDE DEF row, j
      <4> QED BY <2>5, <4>1, <4>2 DEF MayShow, Told
    <3> QED BY <3>1, <3>2
  <2>7. /\ \A i \in Jobs : Told(i)'
        /\ \A d \in Calls : CallTold(d)'
    <3> HIDE DEF row, j
    <3> QED BY <1>1, <2>1, <2>3, <2>4, <2>6, ProjectTerminalKeeps
  <2>8. call' \in [Calls -> CallType] /\ shown' \in [Jobs -> SUBSET Terminal]
    <3> HIDE DEF row, j
    <3>1. JobTypeOK
      BY DEF JobInv
    <3> QED BY <1>1, <2>1, <2>3, <3>1, ProjectTerminalTypes DEF CallType, JobRecord
  <2> QED BY <1>1, <2>4, <2>7, <2>8, StepsKeepJobInv DEF JobInv, JobTypeOK
<1> QED BY <1>2, <1>3 DEF SourceRead

LEMMA CancelKeepsInv ==
    ASSUME JobInv, NEW c \in Calls, NEW j \in Jobs, CancelJob(c, j) PROVE JobInv'
<1>1. /\ requested' \in 0..MaxRequests /\ UNCHANGED <<source, jobCrashes>>
      /\ jobRow \in [Jobs -> JobRecord] /\ jobRow[j] \in JobRecord
  BY BackgroundJobsAssumption DEF CancelJob, JobInv, JobTypeOK, JobRecord
<1>2. CASE jobRow[j].status \in Active
  <2>1. /\ jobRow' = [jobRow EXCEPT ![j] = [status |-> "cancelled", projected |-> FALSE]]
        /\ call' = [call EXCEPT ![c] = [pc |-> "cancelling", job |-> j, seen |-> "cancelled"]]
        /\ shown' = shown
    BY <1>2 DEF CancelJob, Suspend
  <2>2. /\ jobRow' \in [Jobs -> JobRecord] /\ \A i \in Jobs \ {j} : jobRow'[i] = jobRow[i]
        /\ jobRow'[j] = [status |-> "cancelled", projected |-> FALSE]
    BY <1>1, <2>1 DEF JobRecord, Terminal
  <2>3. /\ call' \in [Calls -> CallType]
        /\ call'[c] = [pc |-> "cancelling", job |-> j, seen |-> "cancelled"]
        /\ \A d \in Calls \ {c} : call'[d] = call[d]
    BY <2>1 DEF JobInv, JobTypeOK, CallType, Terminal
  <2>4. jobRow[j].status \notin Terminal /\ shown[j] = {}
    BY <1>2 DEF JobInv, Told, Active, Terminal
  <2>5. ASSUME NEW i \in Jobs PROVE Told(i)'
    <3>1. CASE i = j
      BY <2>1, <2>2, <2>4, <3>1 DEF Told, Terminal
    <3>2. CASE i # j
      BY <2>1, <2>2, <3>2 DEF JobInv, Told
    <3> QED BY <3>1, <3>2
  <2>6. ASSUME NEW d \in Calls PROVE CallTold(d)'
    <3>1. CASE d = c
      BY <2>1, <2>2, <2>3, <2>4, <3>1 DEF CallTold, Terminal
    <3>2. CASE d # c
      <4>1. call'[d] = call[d] /\ CallTold(d)
        BY <2>3, <3>2 DEF JobInv
      <4>2. call[d].pc = "cancelling" => call[d].job \in Jobs \ {j}
        BY <2>4, ActiveNotCancelling
      <4> QED BY <2>1, <2>2, <4>1, <4>2 DEF CallTold
    <3> QED BY <3>1, <3>2
  <2> QED BY <1>1, <2>1, <2>2, <2>3, <2>5, <2>6, StepsKeepJobInv DEF JobInv, JobTypeOK
<1>3. CASE jobRow[j].status \notin Active
  <2>1. Reconcile(c, j)
    BY <1>3 DEF CancelJob, Reconcile
  <2>2. jobRow' = jobRow
    BY <1>3 DEF CancelJob
  <2> QED BY <1>1, <2>1, <2>2, ReconcileKeeps, StepsKeepJobInv DEF JobInv, JobTypeOK, CallType
<1> QED BY <1>2, <1>3

LEMMA CancelledKeepsInv ==
    ASSUME JobInv, NEW c \in Calls, SourceCancelled(c) \/ SourceCancelFails(c) PROVE JobInv'
<1>1. PICK j \in Jobs : j = call[c].job
  BY DEF SourceCancelled, SourceCancelFails, JobInv, CallTold
<1>2. PICK row \in JobRecord :
         /\ ProjectTerminal(c, j, row)
         /\ row = jobRow[j] \/ row = [status |-> "cancelled", projected |-> FALSE]
  <2>1. CASE SourceCancelled(c)
    <3>1. call[c].seen = "cancelled"
      BY <2>1 DEF SourceCancelled, JobInv, CallTold
    <3>2. [status |-> "cancelled", projected |-> FALSE] \in JobRecord
      BY DEF JobRecord, Terminal
    <3>3. ProjectTerminal(c, j, [status |-> "cancelled", projected |-> FALSE])
      BY <1>1, <2>1, <3>1 DEF SourceCancelled
    <3> QED BY <3>2, <3>3
  <2>2. CASE SourceCancelFails(c)
    <3>1. jobRow[j] \in JobRecord
      BY DEF JobInv, JobTypeOK, JobRecord
    <3> QED BY <1>1, <2>2, <3>1 DEF SourceCancelFails
  <2> QED BY <2>1, <2>2
<1>3. /\ jobRow' = jobRow /\ requested' = requested /\ jobCrashes' = jobCrashes
      /\ source' \in [Jobs -> {"running"} \cup Terminal] /\ call[c].pc = "cancelling"
  BY DEF SourceCancelled, SourceCancelFails, JobInv, JobTypeOK, Terminal
<1>4. Told(j) /\ \A d \in Calls : CallTold(d)
  BY DEF JobInv
<1>5. ASSUME NEW d \in Calls, call[d].pc = "cancelling", call[d].job = j
      PROVE  /\ jobRow[j].status \in Terminal
             /\ ~jobRow[j].projected => jobRow[j].status = "cancelled"
  BY <1>4, <1>5 DEF CallTold
<1>6. MayShow(c, j, row)
  <2>1. shown[j] \subseteq {"cancelled"} /\ jobRow[j].status \in Terminal
        /\ (~jobRow[j].projected => jobRow[j].status = "cancelled")
    BY <1>1, <1>3, <1>4 DEF CallTold
  <2>2. row.status \in Terminal /\ ~row.projected => row.status = "cancelled"
    BY <1>2, <2>1
  <2> QED BY <1>3, <1>4, <1>5, <2>1, <2>2 DEF MayShow, Told
<1>7. /\ jobRow' \in [Jobs -> JobRecord] /\ \A i \in Jobs \ {j} : jobRow'[i] = jobRow[i]
      /\ JobTypeOK
  BY <1>3 DEF JobInv, JobTypeOK, JobRecord
<1>8. call' \in [Calls -> CallType] /\ shown' \in [Jobs -> SUBSET Terminal]
  BY <1>2, <1>7, ProjectTerminalTypes DEF CallType, JobRecord
<1>9. /\ \A i \in Jobs : Told(i)'
      /\ \A d \in Calls : CallTold(d)'
  BY <1>2, <1>6, <1>7, ProjectTerminalKeeps
<1> QED BY <1>3, <1>7, <1>8, <1>9, StepsKeepJobInv DEF JobTypeOK

LEMMA CrashKeepsJobInv == ASSUME JobInv, CrashJobs PROVE JobInv'
<1>1. /\ UNCHANGED <<jobRow, source, shown, requested>>
      /\ jobCrashes' \in 0..MaxJobCrashes
      /\ call' = [c \in Calls |-> Returned]
  BY BackgroundJobsAssumption DEF CrashJobs, JobInv, JobTypeOK
<1>2. call' \in [Calls -> CallType] /\ \A c \in Calls : CallTold(c)'
  BY <1>1 DEF CallType, CallTold, Returned
<1>3. \A j \in Jobs : Told(j)'
  BY <1>1 DEF JobInv, Told
<1> QED BY <1>1, <1>2, <1>3, StepsKeepJobInv DEF JobInv, JobTypeOK, JobRecord

LEMMA NextJobInv == JobInv /\ [JobNext]_jobVars => JobInv'
<1> SUFFICES ASSUME JobInv, [JobNext]_jobVars PROVE JobInv'
  OBVIOUS
<1>1. CASE UNCHANGED jobVars
  BY <1>1 DEF jobVars, JobInv, JobTypeOK, Told, CallTold
<1>2. ASSUME NEW j \in Jobs, EnqueueJob(j) \/ SourceEnds(j) PROVE JobInv'
  BY <1>2, EnqueueKeepsInv, SourceEndsKeepsInv
<1>3. ASSUME NEW c \in Calls, NEW j \in Jobs,
             (PollJob(j) /\ c = PollerCall) \/ RequestJob(c, j)
      PROVE  JobInv'
  <2>1. Reconcile(c, j) /\ requested' \in 0..MaxRequests
    BY <1>3, BackgroundJobsAssumption DEF PollJob, RequestJob, JobInv, JobTypeOK
  <2>2. UNCHANGED <<jobRow, source, jobCrashes>>
    BY <2>1 DEF Reconcile
  <2> QED BY <2>1, <2>2, ReconcileKeeps, StepsKeepJobInv DEF JobInv, JobTypeOK, JobRecord, CallType
<1>4. ASSUME NEW c \in Calls, ProjectionFails(c) \/ SourceReadFails(c) PROVE JobInv'
  <2>1. Return(c) /\ UNCHANGED <<jobRow, source, shown, requested, jobCrashes>>
    BY <1>4 DEF ProjectionFails, SourceReadFails
  <2> QED BY <2>1, ReturnKeeps, StepsKeepJobInv DEF JobInv, JobTypeOK, JobRecord, CallType
<1>5. PollerCall \in Calls /\ Requests \subseteq Calls
  BY DEF Calls
<1> QED BY <1>1, <1>2, <1>3, <1>4, <1>5, ProjectedKeepsInv, SourceReadKeepsInv, CancelKeepsInv,
           CancelledKeepsInv, CrashKeepsJobInv DEF JobNext

-----------------------------------------------------------------------------
(* The variables keep their types, whatever the number of jobs, of         *)
(* requests and of crashes (background-job/service.ts 204-422).            *)
THEOREM JobTypesCorrect == JobSpec => []JobTypeOK
<1>1. JobInv => JobTypeOK
  BY DEF JobInv
<1> QED BY <1>1, InitJobInv, NextJobInv, PTL DEF JobSpec

(* The owner of a job is told of one outcome only, however polls,          *)
(* requests, cancellations, failures and crashes interleave                *)
(* (background-job/service.ts 236-250, 275-301, 383-421).                  *)
THEOREM OneOutcomeAlways == JobSpec => []OwnersSeeOneOutcome
<1>1. JobInv => OwnersSeeOneOutcome
  <2> SUFFICES ASSUME JobInv, NEW j \in Jobs PROVE Cardinality(shown[j]) <= 1
    BY DEF OwnersSeeOneOutcome
  <2>1. PICK s \in Terminal : shown[j] \subseteq {s}
    BY DEF JobInv, Told
  <2>2. IsFiniteSet({s}) /\ Cardinality({s}) = 1
    BY FS_Singleton
  <2>3. IsFiniteSet(shown[j]) /\ Cardinality(shown[j]) <= Cardinality({s})
    BY <2>1, <2>2, FS_Subset
  <2> QED BY <2>2, <2>3
<1> QED BY <1>1, InitJobInv, NextJobInv, PTL DEF JobSpec

-----------------------------------------------------------------------------
(* The tail of a session's log                                           *)

Frame == [kind : {"event", "snapshot", "end"}, version : Nat]
Tails == [state : {"unopened", "none", "live", "ending", "ended"},
          last : Nat, wire : Seq(Frame)]

(* Versions of which the page knows, or will know after a refetch.         *)
Covered == {v \in Nat : page.refetch \/ v \in page.told \/ v \in overtaken}

(* The first frame to carry a cursor below u to u or beyond is at i.       *)
FirstToReach(u, wire, i) ==
    /\ wire[i].version >= u
    /\ \A k \in 1..(i - 1) : wire[k].version < u

(* No version that is not covered is skipped when the wire is read.        *)
Sound(t, cov) ==
    \A u \in Nat \ {0}, i \in 1..Len(t.wire) :
        u \notin cov /\ FirstToReach(u, t.wire, i)
        => t.wire[i].kind = "snapshot" \/ t.wire[i].version = u

OnWire(u, t) == \E i \in 1..Len(t.wire) : t.wire[i].version >= u

(* What was offered to a live subscription, U or up to its last, is on the *)
(* wire or covered.                                                        *)
Reach(t, U, cov) ==
    t.state = "live" => \A u \in Nat \ {0} : u \in U \/ u <= t.last
                                             => u \in cov \/ OnWire(u, t)

Logged(t, c) == t.last <= c /\ \A i \in 1..Len(t.wire) : t.wire[i].version <= c

Fits(t, c, U, cov) == t \in Tails /\ Logged(t, c) /\ Sound(t, cov) /\ Reach(t, U, cov)

LEMMA WireVersions ==
    ASSUME NEW wire \in Seq(Frame) PROVE \A i \in 1..Len(wire) : wire[i].version \in Nat
<1>1. \A i \in 1..Len(wire) : wire[i] \in Frame
  OBVIOUS
<1> QED BY <1>1 DEF Frame

LEMMA FitsMore ==
    ASSUME NEW t, NEW c \in Nat, NEW d \in Nat, NEW U, NEW V, NEW cov, NEW more,
           Fits(t, c, U, cov), U \subseteq 0..c, c <= d,
           cov \cap (0..c) \subseteq more, V \subseteq U \cup more
    PROVE  Fits(t, d, V, more)
<1>1. /\ t \in Tails /\ Logged(t, d) /\ t.last \in Nat /\ t.last <= c
      /\ \A i \in 1..Len(t.wire) : t.wire[i].version \in Nat /\ t.wire[i].version <= c
  <2>1. t \in Tails /\ t.last \in Nat /\ t.wire \in Seq(Frame)
    BY DEF Fits, Tails
  <2>2. t.last <= c /\ \A i \in 1..Len(t.wire) : t.wire[i].version <= c
    BY DEF Fits, Logged
  <2>3. \A i \in 1..Len(t.wire) : t.wire[i].version \in Nat
    BY <2>1, WireVersions
  <2> QED BY <2>1, <2>2, <2>3 DEF Logged
<1>2. Sound(t, more)
  <2> SUFFICES ASSUME NEW u \in Nat \ {0}, NEW i \in 1..Len(t.wire),
                      u \notin more, FirstToReach(u, t.wire, i)
               PROVE  t.wire[i].kind = "snapshot" \/ t.wire[i].version = u
    BY DEF Sound
  <2>1. u <= c
    BY <1>1 DEF FirstToReach
  <2>2. u \notin cov
    BY <2>1
  <2> QED BY <2>2 DEF Fits, Sound
<1>3. Reach(t, V, more)
  <2> SUFFICES ASSUME t.state = "live", NEW u \in Nat \ {0}, u \in V \/ u <= t.last, u \notin more
               PROVE  OnWire(u, t)
    BY DEF Reach
  <2>1. (u \in U \/ u <= t.last) => u \in cov \/ OnWire(u, t)
    BY DEF Fits, Reach
  <2>2. CASE u <= c
    BY <2>1, <2>2
  <2>3. CASE ~(u <= c)
    BY <1>1, <2>1, <2>3
  <2> QED BY <2>2, <2>3
<1> QED BY <1>1, <1>2, <1>3 DEF Fits

-----------------------------------------------------------------------------
(* A version is offered to a subscriber                                    *)

LEMMA OfferFits ==
    ASSUME NEW t, NEW c \in Nat, NEW v \in 1..c, NEW U, NEW cov, Fits(t, c, U, cov),
           \A u \in 1..(v - 1) : u \in U \/ u \in cov
    PROVE  Fits(Offer(t, v), c, U \cup {v}, cov)
<1> DEFINE n == Len(t.wire)
<1>1. /\ t \in Tails /\ n \in Nat /\ t.last \in Nat /\ t.last <= c
      /\ t.wire \in Seq(Frame) /\ t.state \in {"unopened", "none", "live", "ending", "ended"}
      /\ \A i \in 1..n : t.wire[i].version \in Nat /\ t.wire[i].version <= c
  <2>1. t \in Tails /\ t.last \in Nat /\ t.wire \in Seq(Frame)
        /\ t.state \in {"unopened", "none", "live", "ending", "ended"}
    BY DEF Fits, Tails
  <2>2. t.last <= c /\ \A i \in 1..n : t.wire[i].version <= c
    BY DEF Fits, Logged
  <2>3. \A i \in 1..n : t.wire[i].version \in Nat
    BY <2>1, WireVersions
  <2> QED BY <2>1, <2>2, <2>3
<1>n. n = Len(t.wire)
  OBVIOUS
<1> HIDE DEF n
<1>v. v \in Nat \ {0} /\ v <= c
  OBVIOUS
<1>2. CASE t.state # "live"
  <2>1. Offer(t, v) = t
    BY <1>2 DEF Offer, Enqueue, SendLive
  <2> QED BY <1>2, <2>1 DEF Fits, Reach
<1>3. CASE t.state = "live" /\ Offer(t, v) = Ending(v)
  <2> DEFINE e == Ending(v)
  <2>1. /\ e.state = "ending" /\ e.last = 0 /\ e.wire = <<SnapshotRequired(v)>>
        /\ SnapshotRequired(v) \in Frame /\ e \in Tails
    BY <1>v DEF Ending, SnapshotRequired, Frame, Tails
  <2>2. /\ Len(e.wire) = 1 /\ e.wire[1].kind = "snapshot" /\ e.wire[1].version = v
    BY <2>1 DEF SnapshotRequired
  <2> HIDE DEF e
  <2>3. Logged(e, c) /\ Sound(e, cov) /\ Reach(e, U \cup {v}, cov)
    BY <1>v, <2>1, <2>2 DEF Logged, Sound, Reach
  <2>4. Offer(t, v) = e
    BY <1>3 DEF e
  <2> QED BY <2>1, <2>3, <2>4 DEF Fits
<1>4. CASE t.state = "live" /\ Offer(t, v) = t /\ v <= t.last
  <2>1. Reach(t, U \cup {v}, cov)
    BY <1>1, <1>v, <1>4 DEF Fits, Reach
  <2> QED BY <1>4, <2>1 DEF Fits
<1>5. ASSUME t.state = "live", NEW w, w \in Tails, NEW e \in Frame, w.wire = Append(t.wire, e),
             w.last \in {t.last, v}, w.state \in {"live", "ended"},
             e = Event(v) \/ (e = TailEnd /\ w.state = "ended")
      PROVE  Fits(w, c, U \cup {v}, cov)
  <2>1. /\ Len(w.wire) = n + 1 /\ w.wire[n + 1] = e
        /\ \A i \in 1..n : w.wire[i] = t.wire[i]
    BY <1>1, <1>5, <1>n
  <2>2. e.version \in {0, v} /\ (w.state = "live" => e.version = v)
    BY <1>5 DEF Event, TailEnd
  <2>3. Logged(w, c)
    BY <1>1, <1>n, <1>v, <1>5, <2>1, <2>2 DEF Logged
  <2>4. Sound(w, cov)
    <3> SUFFICES ASSUME NEW u \in Nat \ {0}, NEW i \in 1..(n + 1),
                        u \notin cov, FirstToReach(u, w.wire, i)
                 PROVE  w.wire[i].kind = "snapshot" \/ w.wire[i].version = u
      BY <2>1 DEF Sound
    <3>1. CASE i \in 1..n
      <4>1. FirstToReach(u, t.wire, i)
        <5>1. /\ w.wire[i] = t.wire[i]
              /\ \A k \in 1..(i - 1) : k \in 1..n /\ w.wire[k] = t.wire[k]
          BY <1>1, <2>1, <3>1
        <5> QED BY <5>1 DEF FirstToReach
      <4> QED BY <1>n, <2>1, <3>1, <4>1 DEF Fits, Sound
    <3>2. CASE i = n + 1
      <4>1. e.version = v /\ u <= v
        BY <1>v, <2>1, <2>2, <3>2 DEF FirstToReach
      <4>2. ~OnWire(u, t)
        BY <1>1, <1>n, <2>1, <3>2 DEF FirstToReach, OnWire
      <4>3. u \notin U
        BY <1>5, <4>2 DEF Fits, Reach
      <4>4. u = v
        BY <1>v, <4>1, <4>3
      <4> QED BY <2>1, <3>2, <4>1, <4>4
    <3> QED BY <1>1, <3>1, <3>2
  <2>5. Reach(w, U \cup {v}, cov)
    <3> SUFFICES ASSUME w.state = "live", NEW u \in Nat \ {0},
                        u \in U \cup {v} \/ u <= w.last, u \notin cov
                 PROVE  OnWire(u, w)
      BY DEF Reach
    <3>1. CASE OnWire(u, t)
      <4>1. PICK i \in 1..n : t.wire[i].version >= u
        BY <1>n, <3>1 DEF OnWire
      <4>2. i \in 1..(n + 1) /\ w.wire[i].version >= u
        BY <1>1, <2>1, <4>1
      <4> QED BY <2>1, <4>2 DEF OnWire
    <3>2. CASE ~OnWire(u, t)
      <4>1. u \notin U /\ ~(u <= t.last)
        BY <1>5, <3>2 DEF Fits, Reach
      <4>2. u <= v
        BY <1>v, <1>5, <4>1
      <4> QED BY <1>1, <1>v, <2>1, <2>2, <4>2 DEF OnWire
    <3> QED BY <3>1, <3>2
  <2> QED BY <1>5, <2>3, <2>4, <2>5 DEF Fits
<1>6. Event(v) \in Frame /\ TailEnd \in Frame
  BY <1>v DEF Event, TailEnd, Frame
<1>7. CASE t.state = "live" /\ transport = "sse"
  <2>1. CASE Len(t.wire) + 1 > StreamLimit
    BY <1>3, <1>7, <2>1 DEF Offer, Enqueue
  <2>2. CASE ~(Len(t.wire) + 1 > StreamLimit)
    <3> DEFINE w == [t EXCEPT !.wire = Append(@, Event(v))]
    <3>0. Append(t.wire, Event(v)) \in Seq(Frame)
      BY <1>1, <1>6
    <3>1. /\ w \in Tails /\ w.wire = Append(t.wire, Event(v))
          /\ w.last = t.last /\ w.state = t.state
      BY <1>1, <3>0 DEF Tails
    <3>2. Offer(t, v) = w
      BY <1>7, <2>2 DEF Offer, Enqueue
    <3> HIDE DEF w
    <3> QED BY <1>5, <1>6, <1>7, <3>1, <3>2
  <2> QED BY <2>1, <2>2
<1>8. CASE t.state = "live" /\ transport # "sse"
  <2>1. CASE v <= t.last
    BY <1>4, <1>8, <2>1 DEF Offer, SendLive
  <2>2. CASE ~(v <= t.last) /\ v \in Oversized
    <3> DEFINE w == [state |-> "ended", last |-> v, wire |-> Append(t.wire, TailEnd)]
    <3>1. /\ w \in Tails /\ w.wire = Append(t.wire, TailEnd)
          /\ w.last = v /\ w.state = "ended"
      BY <1>1, <1>v, <1>6 DEF Tails
    <3>2. Offer(t, v) = w
      BY <1>8, <2>2 DEF Offer, SendLive
    <3> HIDE DEF w
    <3> QED BY <1>5, <1>6, <1>8, <3>1, <3>2
  <2>3. CASE ~(v <= t.last) /\ v \notin Oversized
    <3> DEFINE w == [state |-> "live", last |-> v, wire |-> Append(t.wire, Event(v))]
    <3>1. /\ w \in Tails /\ w.wire = Append(t.wire, Event(v))
          /\ w.last = v /\ w.state = "live"
      BY <1>1, <1>v, <1>6 DEF Tails
    <3>2. Offer(t, v) = w
      BY <1>8, <2>3 DEF Offer, SendLive
    <3> HIDE DEF w
    <3> QED BY <1>5, <1>6, <1>8, <3>1, <3>2
  <2> QED BY <2>1, <2>2, <2>3
<1> QED BY <1>2, <1>7, <1>8

(* A subscription remains one of Tails, whatever version it is offered.    *)
LEMMA OfferType == ASSUME NEW t \in Tails, NEW v \in Nat PROVE Offer(t, v) \in Tails
<1>1. Event(v) \in Frame /\ TailEnd \in Frame /\ SnapshotRequired(v) \in Frame
  BY DEF Event, TailEnd, SnapshotRequired, Frame
<1>2. /\ t.wire \in Seq(Frame) /\ Append(t.wire, Event(v)) \in Seq(Frame)
      /\ Append(t.wire, TailEnd) \in Seq(Frame) /\ <<SnapshotRequired(v)>> \in Seq(Frame)
  BY <1>1 DEF Tails
<1>3. Enqueue(t, v) \in Tails
  BY <1>2 DEF Enqueue, Ending, Tails
<1>4. SendLive(t, v) \in Tails
  BY <1>2 DEF SendLive, Tails
<1> QED BY <1>3, <1>4 DEF Offer

(* Consecutive versions are offered one after the other.                   *)
OneByOne(f, t, a, n, result) ==
    /\ f[0] = t /\ f[n] = result
    /\ \A k \in 1..n : f[k] = Offer(f[k - 1], a + k)

LEMMA OfferAllSteps ==
    ASSUME NEW t \in Tails, NEW a \in Nat, NEW n \in Nat,
           NEW versions, versions = [i \in 1..n |-> a + i]
    PROVE  \E f : OneByOne(f, t, a, n, OfferAll(t, versions))
<1> DEFINE step == [k \in 1..n |-> [s \in Tails |-> Offer(s, versions[k])]]
           Sent(f) == f = [k \in 0..Len(versions) |->
                             IF k = 0 THEN t ELSE Offer(f[k - 1], versions[k])]
<1>1. Len(versions) = n /\ \A k \in 1..n : versions[k] = a + k
  OBVIOUS
<1>3. step \in [1..n -> [Tails -> Tails]]
  <2>1. ASSUME NEW k \in 1..n, NEW s \in Tails PROVE Offer(s, versions[k]) \in Tails
    <3>1. versions[k] \in Nat
      BY <1>1
    <3> QED BY <3>1, OfferType
  <2> QED BY <2>1
<1>4. PICK g \in [0..n -> Tails] : g[0] = t /\ \A k \in 1..n : g[k] = step[k][g[k - 1]]
  <2> HIDE DEF step
  <2>1. HasRecursion(Tails, t, n, step)
    BY <1>3, RecursionExists
  <2> QED BY <2>1 DEF HasRecursion
<1>5. Sent(g)
  <2>1. ASSUME NEW k \in 1..n PROVE g[k] = Offer(g[k - 1], versions[k])
    <3>1. g[k - 1] \in Tails
      BY <1>4
    <3> QED BY <1>4, <3>1
  <2>2. g = [k \in 0..n |-> IF k = 0 THEN t ELSE Offer(g[k - 1], versions[k])]
    <3>1. \A k \in 0..n : g[k] = IF k = 0 THEN t ELSE Offer(g[k - 1], versions[k])
      BY <1>4, <2>1
    <3> QED BY <3>1
  <2> QED BY <1>1, <2>2
<1>6. PICK f : Sent(f) /\ OfferAll(t, versions) = f[n]
  <2>1. Sent(CHOOSE f : Sent(f))
    BY <1>5
  <2>2. OfferAll(t, versions) = (CHOOSE f : Sent(f))[n]
    BY <1>1 DEF OfferAll
  <2> QED BY <2>1, <2>2
<1>7. f[0] = t /\ \A k \in 1..n : f[k] = Offer(f[k - 1], a + k)
  <2>1. f = [k \in 0..n |-> IF k = 0 THEN t ELSE Offer(f[k - 1], versions[k])]
    BY <1>1, <1>6
  <2>2. \A k \in 0..n : f[k] = IF k = 0 THEN t ELSE Offer(f[k - 1], versions[k])
    BY <2>1
  <2>3. f[0] = t
    <3>1. 0 \in 0..n
      OBVIOUS
    <3>2. f[0] = IF 0 = 0 THEN t ELSE Offer(f[0 - 1], versions[0])
      BY <2>2, <3>1
    <3> QED BY <3>2
  <2>4. ASSUME NEW k \in 1..n PROVE f[k] = Offer(f[k - 1], a + k)
    <3>1. k \in 0..n /\ k # 0
      OBVIOUS
    <3>2. f[k] = Offer(f[k - 1], versions[k])
      BY <2>2, <3>1
    <3> QED BY <1>1, <3>2
  <2> QED BY <2>3, <2>4
<1> QED BY <1>6, <1>7 DEF OneByOne

LEMMA OfferAllFits ==
    ASSUME NEW t, NEW c \in Nat, NEW a \in Nat, NEW n \in Nat, a + n <= c,
           NEW versions, versions = [i \in 1..n |-> a + i],
           NEW U, NEW cov, Fits(t, c, U, cov),
           \A u \in 1..a : u \in U \/ u \in cov
    PROVE  Fits(OfferAll(t, versions), c, U \cup ((a + 1)..(a + n)), cov)
<1>6. t \in Tails
  BY DEF Fits
<1>a. PICK f : OneByOne(f, t, a, n, OfferAll(t, versions))
  BY <1>6, OfferAllSteps
<1>7. /\ f[0] = t /\ f[n] = OfferAll(t, versions)
      /\ \A k \in 1..n : f[k] = Offer(f[k - 1], a + k)
  BY <1>a DEF OneByOne
<1> DEFINE UpTo(k) == U \cup ((a + 1)..(a + k))
           T       == {k \in 0..n : Fits(f[k], c, UpTo(k), cov)}
<1>8. 0 \in T
  <2>1. UpTo(0) = U
    OBVIOUS
  <2> HIDE DEF UpTo
  <2>2. Fits(f[0], c, UpTo(0), cov)
    BY <1>7, <2>1
  <2> QED BY <2>2
<1>9. ASSUME NEW k \in 1..n, k - 1 \in T PROVE k \in T
  <2>1. Fits(f[k - 1], c, UpTo(k - 1), cov)
    BY <1>9
  <2>2. a + k \in 1..c /\ \A u \in 1..((a + k) - 1) : u \in UpTo(k - 1) \/ u \in cov
    OBVIOUS
  <2>3. UpTo(k - 1) \cup {a + k} = UpTo(k)
    <3>1. \A u : u \in (a + 1)..(a + k) <=> u \in (a + 1)..(a + (k - 1)) \/ u = a + k
      OBVIOUS
    <3> QED BY <3>1
  <2> HIDE DEF UpTo
  <2>4. Fits(Offer(f[k - 1], a + k), c, UpTo(k - 1) \cup {a + k}, cov)
    BY <2>1, <2>2, OfferFits
  <2>5. f[k] = Offer(f[k - 1], a + k)
    BY <1>7
  <2>6. Fits(f[k], c, UpTo(k), cov)
    BY <2>3, <2>4, <2>5
  <2> QED BY <2>6
<1>10. n \in T
  <2> HIDE DEF T
  <2>1. 0..n \subseteq T
    BY <1>8, <1>9, BoundedInduction
  <2> QED BY <2>1
<1> QED BY <1>7, <1>10

-----------------------------------------------------------------------------
(* The invariant of the session's tail                                     *)

Waiting(a, n) == [i \in 1..n |-> a + i]
Passed        == (1..committed) \ ToSet(unpublished)

TailTypes ==
    /\ committed \in Nat
    /\ \E a, n \in Nat : a + n <= committed /\ unpublished = Waiting(a, n)
    /\ page.first \in Nat /\ page.cursor \in Nat
    /\ page.first <= page.cursor /\ page.cursor <= committed
    /\ page = [first |-> page.first, cursor |-> page.cursor,
               told |-> page.told, refetch |-> page.refetch]

TailInv ==
    /\ TailTypes /\ NothingSkipped
    /\ Fits(tail, committed, Passed, Covered)

(* A page that wants a snapshot has nothing left to miss.                  *)
LEMMA CoveredFacts ==
    ASSUME TailTypes
    PROVE  /\ NothingSkipped <=> 1..page.cursor \subseteq Covered
           /\ Passed \subseteq 0..committed
<1>1. 1..page.cursor \subseteq Nat
  OBVIOUS
<1>2. NothingSkipped <=> 1..page.cursor \subseteq Covered
  BY <1>1 DEF NothingSkipped, Covered
<1>3. Passed \subseteq 0..committed
  BY DEF Passed, TailTypes
<1> QED BY <1>2, <1>3

(* A subscription that carries nothing fits, if it starts at a covered     *)
(* place.                                                                  *)
LEMMA SilentFits ==
    ASSUME NEW t \in Tails, NEW c \in Nat, NEW U, NEW cov, t.wire = <<>>, t.last <= c,
           t.state = "live" => \A u \in Nat \ {0} : u \in U \/ u <= t.last => u \in cov
    PROVE  Fits(t, c, U, cov)
BY DEF Fits, Logged, Sound, Reach

LEMMA SnapshotFits ==
    ASSUME NEW t \in Tails, NEW c \in Nat, NEW U, NEW cov, t.state # "live", t.last <= c,
           t.wire = <<SnapshotRequired(c)>> \/ t.wire = <<SnapshotRequired(c), TailEnd>>
    PROVE  Fits(t, c, U, cov)
<1>1. /\ Len(t.wire) \in {1, 2} /\ t.wire[1].kind = "snapshot" /\ t.wire[1].version = c
      /\ Len(t.wire) = 2 => t.wire[2].version = 0
  BY DEF SnapshotRequired, TailEnd
<1>2. Logged(t, c)
  BY <1>1 DEF Logged
<1>3. Sound(t, cov)
  BY <1>1 DEF Sound, FirstToReach
<1> QED BY <1>2, <1>3 DEF Fits, Reach

LEMMA InitTail == TailInit => TailInv
<1> SUFFICES ASSUME TailInit PROVE TailInv
  OBVIOUS
<1>1. /\ committed = 0 /\ unpublished = <<>>
      /\ page = [first |-> 0, cursor |-> 0, told |-> {}, refetch |-> FALSE]
      /\ tail = [state |-> "unopened", last |-> 0, wire |-> <<>>]
  BY DEF TailInit, Detached
<1>2. unpublished = Waiting(0, 0)
  BY <1>1 DEF Waiting
<1>3. TailTypes /\ NothingSkipped
  BY <1>1, <1>2 DEF TailTypes, NothingSkipped
<1>4. tail \in Tails /\ tail.wire = <<>> /\ tail.last = 0 /\ tail.state # "live"
  BY <1>1 DEF Tails
<1>5. Fits(tail, committed, Passed, Covered)
  BY <1>1, <1>4, SilentFits
<1> QED BY <1>3, <1>5 DEF TailInv

-----------------------------------------------------------------------------
(* The server commits and publishes                                        *)

LEMMA CommitInActorKeeps == ASSUME TailInv, CommitInActor PROVE TailInv'
<1>1. PICK n \in 1..2 : /\ committed' = committed + n
                        /\ unpublished' = [i \in 1..n |-> committed + i]
  BY DEF CommitInActor
<1>2. /\ unpublished = <<>> /\ committed \in Nat /\ committed' \in Nat /\ committed <= committed'
      /\ UNCHANGED <<overtaken, transport, tail, page>>
  BY <1>1 DEF CommitInActor, TailInv, TailTypes
<1>3. TailTypes' /\ NothingSkipped' /\ Covered' = Covered
  <2>1. unpublished' = Waiting(committed, n) /\ n \in Nat
    BY <1>1 DEF Waiting
  <2>2. page.cursor <= committed'
    BY <1>2 DEF TailInv, TailTypes
  <2>3. TailTypes'
    BY <1>1, <1>2, <2>1, <2>2 DEF TailInv, TailTypes
  <2> QED BY <1>2, <2>3 DEF TailInv, NothingSkipped, Covered
<1>4. ToSet(unpublished') = (committed + 1)..committed'
  <2>1. DOMAIN unpublished' = 1..n /\ \A i \in 1..n : unpublished'[i] = committed + i
    BY <1>1
  <2>2. ASSUME NEW u PROVE u \in ToSet(unpublished') <=> u \in (committed + 1)..committed'
    <3>1. ASSUME u \in ToSet(unpublished') PROVE u \in (committed + 1)..committed'
      BY <1>1, <1>2, <2>1, <3>1 DEF ToSet
    <3>2. ASSUME u \in (committed + 1)..committed' PROVE u \in ToSet(unpublished')
      <4>1. u - committed \in 1..n /\ committed + (u - committed) = u
        BY <1>1, <1>2, <3>2
      <4> QED BY <2>1, <4>1 DEF ToSet
    <3> QED BY <3>1, <3>2
  <2> QED BY <2>2
<1>5. Passed' \subseteq Passed
  <2>1. ToSet(unpublished) = {}
    BY <1>2 DEF ToSet
  <2> QED BY <1>2, <1>4, <2>1 DEF Passed
<1>6. Fits(tail, committed', Passed', Covered')
  BY <1>2, <1>3, <1>5, CoveredFacts, FitsMore DEF TailInv
<1> QED BY <1>2, <1>3, <1>6 DEF TailInv

LEMMA PublishKeeps == ASSUME TailInv, Publish PROVE TailInv'
<1>1. /\ tail' = OfferAll(tail, unpublished) /\ unpublished' = <<>>
      /\ UNCHANGED <<committed, overtaken, transport, page>>
  BY DEF Publish
<1>2. PICK a \in Nat, n \in Nat : a + n <= committed /\ unpublished = Waiting(a, n)
  BY DEF TailInv, TailTypes
<1>3. unpublished = [i \in 1..n |-> a + i]
  BY <1>2 DEF Waiting
<1>4. ToSet(unpublished) = (a + 1)..(a + n)
  <2>1. DOMAIN unpublished = 1..n /\ \A i \in 1..n : unpublished[i] = a + i
    BY <1>3
  <2>2. ASSUME NEW u PROVE u \in ToSet(unpublished) <=> u \in (a + 1)..(a + n)
    <3>1. ASSUME u \in ToSet(unpublished) PROVE u \in (a + 1)..(a + n)
      BY <2>1, <3>1 DEF ToSet
    <3>2. ASSUME u \in (a + 1)..(a + n) PROVE u \in ToSet(unpublished)
      <4>1. u - a \in 1..n /\ a + (u - a) = u
        BY <3>2
      <4> QED BY <2>1, <4>1 DEF ToSet
    <3> QED BY <3>1, <3>2
  <2> QED BY <2>2
<1>5. committed \in Nat /\ Passed \subseteq 0..committed
  BY CoveredFacts DEF TailInv, TailTypes
<1>6. \A u \in 1..a : u \in Passed
  BY <1>2, <1>4, <1>5 DEF Passed
<1>7. Fits(tail', committed, Passed \cup ((a + 1)..(a + n)), Covered)
  BY <1>1, <1>2, <1>3, <1>5, <1>6, OfferAllFits DEF TailInv
<1>8. TailTypes' /\ NothingSkipped' /\ Covered' = Covered
  <2>1. unpublished' = Waiting(0, 0)
    BY <1>1 DEF Waiting
  <2>2. TailTypes'
    <3>1. 0 \in Nat /\ 0 + 0 <= committed
      BY <1>5
    <3> QED BY <1>1, <1>5, <2>1, <3>1 DEF TailInv, TailTypes
  <2> QED BY <1>1, <2>2 DEF TailInv, NothingSkipped, Covered
<1>9. Passed' \subseteq Passed \cup ((a + 1)..(a + n))
  BY <1>1, <1>4 DEF Passed
<1>10. Fits(tail', committed', Passed', Covered')
  <2> DEFINE U == Passed \cup ((a + 1)..(a + n))
  <2>1. U \subseteq 0..committed
    BY <1>2, <1>5
  <2> HIDE DEF U
  <2>2. Passed' \subseteq U \cup Covered /\ Fits(tail', committed, U, Covered)
    BY <1>7, <1>9 DEF U
  <2>3. committed <= committed /\ Covered \cap (0..committed) \subseteq Covered
    BY <1>5
  <2>4. Fits(tail', committed, Passed', Covered)
    BY <1>5, <2>1, <2>2, <2>3, FitsMore
  <2> QED BY <1>1, <1>8, <2>4
<1> QED BY <1>8, <1>10 DEF TailInv

LEMMA CommitDirectlyKeeps == ASSUME TailInv, CommitDirectly PROVE TailInv'
<1>1. /\ committed' = committed + 1 /\ overtaken' = overtaken \cup ToSet(unpublished)
      /\ tail' = OfferAll(tail, <<committed + 1>>)
      /\ UNCHANGED <<unpublished, transport, page>>
  BY DEF CommitDirectly
<1>2. /\ committed \in Nat /\ committed' \in Nat /\ committed <= committed'
      /\ Passed \subseteq 0..committed
  BY <1>1, CoveredFacts DEF TailInv, TailTypes
<1>3. TailTypes'
  <2>1. PICK a \in Nat, n \in Nat : a + n <= committed /\ unpublished = Waiting(a, n)
    BY DEF TailInv, TailTypes
  <2>2. a + n <= committed' /\ page.cursor <= committed'
    BY <1>1, <1>2, <2>1 DEF TailInv, TailTypes
  <2> QED BY <1>1, <1>2, <2>1, <2>2 DEF TailInv, TailTypes
<1>4. Covered \subseteq Covered' /\ NothingSkipped' /\ ToSet(unpublished) \cap Nat \subseteq Covered'
  BY <1>1 DEF TailInv, NothingSkipped, Covered
<1>5. \A u \in 1..committed : u \in Passed \/ u \in Covered'
  BY <1>2, <1>4 DEF Passed
<1>6. Fits(tail, committed', Passed, Covered')
  <2>1. Covered \cap (0..committed) \subseteq Covered' /\ Passed \subseteq Passed \cup Covered'
    BY <1>4
  <2> QED BY <1>2, <2>1, FitsMore DEF TailInv
<1>7. Fits(tail', committed', Passed \cup ((committed + 1)..(committed + 1)), Covered')
  <2>1. <<committed + 1>> = [i \in 1..1 |-> committed + i]
    BY <1>2
  <2>2. 1 \in Nat /\ committed + 1 <= committed'
    BY <1>1, <1>2
  <2> QED BY <1>1, <1>2, <1>5, <1>6, <2>1, <2>2, OfferAllFits
<1>8. Fits(tail', committed', Passed', Covered')
  <2> DEFINE U == Passed \cup ((committed + 1)..(committed + 1))
  <2>1. U \subseteq 0..committed'
    BY <1>1, <1>2
  <2>2. Passed' \subseteq U
    BY <1>1, <1>2 DEF Passed
  <2> HIDE DEF U
  <2>3. Fits(tail', committed', U, Covered')
    BY <1>7 DEF U
  <2>4. Covered' \cap (0..committed') \subseteq Covered' /\ Passed' \subseteq U \cup Covered'
    BY <2>2
  <2>5. committed' <= committed'
    BY <1>2
  <2> QED BY <1>2, <2>1, <2>3, <2>4, <2>5, FitsMore
<1> QED BY <1>3, <1>4, <1>8 DEF TailInv

-----------------------------------------------------------------------------
(* The page connects                                                       *)

(* A subscription opened where everything is covered, with the rows of the *)
(* log behind it.                                                          *)
LEMMA ReplayFits ==
    ASSUME TailInv, NEW v \in Nat, v <= page.cursor, NEW last \in 0..v, ~TooFarBehind(v)
    PROVE  Fits(OfferAll(Subscribed(last), Rows(v)), committed, Passed, Covered)
<1> DEFINE n == committed - v
<1>1. /\ committed \in Nat /\ v <= committed /\ n \in Nat /\ v + n = committed
      /\ page.cursor \in Nat
  BY DEF TailInv, TailTypes
<1>2. Rows(v) = [i \in 1..n |-> v + i]
  <2>1. CASE n > TailLimit
    <3>1. Rows(v) = [i \in 1..(TailLimit + 1) |-> v + i]
      BY <2>1 DEF Rows
    <3>2. Len(Rows(v)) = TailLimit + 1 /\ TailLimit \in Nat
      BY <3>1, SessionTailAssumption
    <3> QED BY <3>2 DEF TooFarBehind
  <2>2. CASE ~(n > TailLimit)
    BY <2>2 DEF Rows
  <2> QED BY <2>1, <2>2
<1>3. \A u \in 1..v : u \in Covered
  BY <1>1, CoveredFacts DEF TailInv
<1>4. /\ Subscribed(last) \in Tails /\ Subscribed(last).wire = <<>>
      /\ Subscribed(last).last = last /\ last <= committed
  BY <1>1 DEF Subscribed, Tails
<1> HIDE DEF n
<1>5. Fits(Subscribed(last), committed, {}, Covered)
  <2>1. \A u \in Nat \ {0} : u \in {} \/ u <= last => u \in Covered
    <3> SUFFICES ASSUME NEW u \in Nat \ {0}, u <= last PROVE u \in Covered
      OBVIOUS
    <3>1. u \in 1..v
      BY <1>1
    <3> QED BY <3>1, <1>3
  <2> HIDE DEF Covered
  <2> DEFINE t == Subscribed(last)
  <2>2. t \in Tails /\ t.wire = <<>> /\ t.last = last
    BY <1>4
  <2> HIDE DEF t
  <2>3. /\ t.last <= committed
        /\ t.state = "live" => \A u \in Nat \ {0} : u \in {} \/ u <= t.last => u \in Covered
    BY <1>4, <2>1, <2>2
  <2>4. Fits(t, committed, {}, Covered)
    BY <1>1, <2>2, <2>3, SilentFits
  <2> QED BY <2>4 DEF t
<1>6. \A u \in 1..v : u \in {} \/ u \in Covered
  BY <1>3
<1>7. Fits(OfferAll(Subscribed(last), Rows(v)), committed, {} \cup ((v + 1)..(v + n)), Covered)
  BY <1>1, <1>2, <1>5, <1>6, OfferAllFits
<1> DEFINE U == {} \cup ((v + 1)..(v + n))
<1>8. U \subseteq 0..committed
  BY <1>1
<1>9. Passed \subseteq U \cup Covered
  BY <1>1, <1>3 DEF Passed
<1>10. committed <= committed /\ Covered \cap (0..committed) \subseteq Covered
  BY <1>1
<1> HIDE DEF U
<1>11. Fits(OfferAll(Subscribed(last), Rows(v)), committed, U, Covered)
  BY <1>7 DEF U
<1> QED BY <1>1, <1>8, <1>9, <1>10, <1>11, FitsMore

(* Steps that change nothing but the subscription.                         *)
LEMMA NewTail ==
    ASSUME TailInv, UNCHANGED <<committed, unpublished, overtaken, page>>,
           Fits(tail', committed, Passed, Covered)
    PROVE  TailInv'
BY DEF TailInv, TailTypes, NothingSkipped, Passed, Covered

LEMMA OpenKeeps == ASSUME TailInv, OpenStream \/ OpenSocket PROVE TailInv'
<1>1. UNCHANGED <<committed, unpublished, overtaken, page>>
  BY DEF OpenStream, OpenSocket
<1>2. /\ committed \in Nat /\ page.first \in Nat /\ page.first <= page.cursor
      /\ page.cursor \in Nat /\ page.cursor <= committed
  BY DEF TailInv, TailTypes
<1>f. SnapshotRequired(committed) \in Frame /\ TailEnd \in Frame
  BY <1>2 DEF SnapshotRequired, TailEnd, Frame
<1>3. Fits(Ending(committed), committed, Passed, Covered)
  <2>1. /\ Ending(committed) \in Tails /\ Ending(committed).state # "live"
        /\ Ending(committed).last <= committed
        /\ Ending(committed).wire = <<SnapshotRequired(committed)>>
    BY <1>2, <1>f DEF Ending, Tails
  <2> QED BY <1>2, <2>1, SnapshotFits
<1>4. CASE OpenStream
  <2> DEFINE backlog == OfferAll(Subscribed(0), Rows(page.first))
  <2>1. CASE tail' = Ending(committed)
    BY <1>1, <1>3, <2>1, NewTail
  <2>2. CASE tail' = backlog /\ ~TooFarBehind(page.first)
    <3>1. 0 \in 0..page.first
      BY <1>2
    <3>2. Fits(backlog, committed, Passed, Covered)
      BY <1>2, <2>2, <3>1, ReplayFits
    <3> QED BY <1>1, <2>2, <3>2, NewTail
  <2> QED BY <1>4, <2>1, <2>2 DEF OpenStream
<1>5. CASE OpenSocket
  <2>1. CASE TooFarBehind(page.cursor)
    <3> DEFINE t == [state |-> "ended", last |-> committed,
                     wire |-> <<SnapshotRequired(committed), TailEnd>>]
    <3>1. tail' = t
      BY <1>5, <2>1 DEF OpenSocket
    <3>2. /\ t \in Tails /\ t.state # "live" /\ t.last <= committed
          /\ t.wire = <<SnapshotRequired(committed), TailEnd>>
      BY <1>2, <1>f DEF Tails
    <3> HIDE DEF t
    <3>3. Fits(t, committed, Passed, Covered)
      BY <1>2, <3>2, SnapshotFits
    <3> QED BY <1>1, <3>1, <3>3, NewTail
  <2>2. CASE ~TooFarBehind(page.cursor)
    <3>1. tail' = OfferAll(Subscribed(page.cursor), Rows(page.cursor))
      BY <1>5, <2>2 DEF OpenSocket
    <3>2. page.cursor \in 0..page.cursor /\ page.cursor <= page.cursor
      BY <1>2
    <3>3. Fits(tail', committed, Passed, Covered)
      BY <1>2, <2>2, <3>1, <3>2, ReplayFits
    <3> QED BY <1>1, <3>3, NewTail
  <2> QED BY <2>1, <2>2
<1> QED BY <1>4, <1>5

LEMMA StartEngineKeeps == ASSUME TailInv, StartEngine PROVE TailInv'
<1>1. /\ UNCHANGED <<committed, unpublished, overtaken, transport>> /\ committed \in Nat
      /\ page' = [first |-> committed, cursor |-> committed,
                  told |-> 1..committed, refetch |-> FALSE]
      /\ tail' = [state |-> "none", last |-> 0, wire |-> <<>>]
  BY DEF StartEngine, Detached, TailInv, TailTypes
<1>2. TailTypes' /\ NothingSkipped'
  BY <1>1 DEF TailInv, TailTypes, NothingSkipped
<1>3. tail' \in Tails /\ tail'.wire = <<>> /\ tail'.last <= committed' /\ tail'.state # "live"
  BY <1>1 DEF Tails
<1>4. Fits(tail', committed', Passed', Covered')
  BY <1>1, <1>3, SilentFits
<1> QED BY <1>2, <1>4 DEF TailInv

-----------------------------------------------------------------------------
(* The page reads, loses its connection, and reads a snapshot              *)

(* Steps that give up the subscription; the page may want a snapshot.      *)
LEMMA DetachKeeps ==
    ASSUME TailInv, StreamEnds \/ Disconnect \/ StallReaped PROVE TailInv'
<1>1. /\ UNCHANGED <<committed, unpublished, overtaken, transport>> /\ committed \in Nat
      /\ tail' = [state |-> "none", last |-> 0, wire |-> <<>>]
  BY DEF StreamEnds, Disconnect, StallReaped, Detached, TailInv, TailTypes
<1>2. \E wanted : /\ page' = [page EXCEPT !.refetch = wanted]
                  /\ page.refetch => wanted
  BY DEF StreamEnds, Disconnect, StallReaped
<1>3. /\ page'.first = page.first /\ page'.cursor = page.cursor /\ page'.told = page.told
      /\ page.refetch => page'.refetch
      /\ page' = [first |-> page'.first, cursor |-> page'.cursor,
                  told |-> page'.told, refetch |-> page'.refetch]
  BY <1>2 DEF TailInv, TailTypes
<1>4. TailTypes' /\ NothingSkipped'
  BY <1>1, <1>3 DEF TailInv, TailTypes, NothingSkipped
<1>5. tail' \in Tails /\ tail'.wire = <<>> /\ tail'.last <= committed' /\ tail'.state # "live"
  BY <1>1 DEF Tails
<1>6. Fits(tail', committed', Passed', Covered')
  BY <1>1, <1>5, SilentFits
<1> QED BY <1>4, <1>6 DEF TailInv

LEMMA FetchSnapshotKeeps == ASSUME TailInv, FetchSnapshot PROVE TailInv'
<1>1. /\ UNCHANGED <<committed, unpublished, overtaken, tail>>
      /\ page' = [page EXCEPT !.told = @ \cup (1..committed), !.refetch = FALSE]
  BY DEF FetchSnapshot
<1>2. /\ page'.first = page.first /\ page'.cursor = page.cursor
      /\ page'.told = page.told \cup (1..committed) /\ page'.refetch = FALSE
      /\ page' = [first |-> page'.first, cursor |-> page'.cursor,
                  told |-> page'.told, refetch |-> page'.refetch]
      /\ committed \in Nat /\ page.cursor \in Nat /\ page.cursor <= committed
  BY <1>1 DEF TailInv, TailTypes
<1>3. TailTypes' /\ NothingSkipped' /\ Passed' = Passed
  BY <1>1, <1>2 DEF TailInv, TailTypes, NothingSkipped, Passed
<1>4. 1..committed \subseteq Covered'
  BY <1>2 DEF Covered
<1>5. Sound(tail, Covered') /\ Reach(tail, Passed, Covered') /\ Logged(tail, committed) /\ tail \in Tails
  <2>1. /\ tail \in Tails /\ Logged(tail, committed) /\ tail.last \in Nat
        /\ \A i \in 1..Len(tail.wire) : tail.wire[i].version \in Nat
    BY WireVersions DEF TailInv, Fits, Tails
  <2>2. Sound(tail, Covered')
    BY <1>2, <1>4, <2>1 DEF Sound, FirstToReach, Logged
  <2>3. Reach(tail, Passed, Covered')
    BY <1>2, <1>4, <2>1 DEF Reach, Passed, Logged
  <2> QED BY <2>1, <2>2, <2>3
<1>6. Fits(tail', committed', Passed', Covered')
  BY <1>1, <1>3, <1>5 DEF Fits
<1> QED BY <1>3, <1>6 DEF TailInv

LEMMA PageReadsKeeps == ASSUME TailInv, PageReads PROVE TailInv'
<1> DEFINE e    == Head(tail.wire)
           wire == tail.wire
           n    == Len(tail.wire)
<1>1. /\ UNCHANGED <<committed, unpublished, overtaken, transport>>
      /\ page' = Applied(page, e) /\ tail' = [tail EXCEPT !.wire = Tail(@)]
      /\ wire # <<>>
  BY DEF PageReads
<1>2. /\ tail \in Tails /\ wire \in Seq(Frame) /\ tail.last \in Nat
      /\ Logged(tail, committed) /\ committed \in Nat
      /\ page.cursor \in Nat /\ page.first \in Nat
      /\ page.first <= page.cursor /\ page.cursor <= committed
  BY DEF TailInv, TailTypes, Fits, Tails
<1>3. /\ n \in Nat \ {0} /\ e = wire[1] /\ e \in Frame
      /\ Tail(wire) \in Seq(Frame) /\ Len(Tail(wire)) = n - 1
      /\ \A i \in 1..(n - 1) : Tail(wire)[i] = wire[i + 1]
  BY <1>1, <1>2, EmptySeq
<1>4. e.version \in Nat /\ e.version <= committed /\ e.kind \in {"event", "snapshot", "end"}
  BY <1>2, <1>3 DEF Frame, Logged
<1>v. \A i \in 1..n : wire[i].version \in Nat /\ wire[i].version <= committed
  BY <1>2, WireVersions DEF Logged
<1>5. /\ tail'.wire = Tail(wire) /\ tail'.last = tail.last /\ tail'.state = tail.state
      /\ tail' \in Tails
  BY <1>1, <1>2, <1>3 DEF Tails
<1> HIDE DEF e, wire, n
<1>6. /\ page'.first = page.first
      /\ page'.cursor \in Nat /\ page.cursor <= page'.cursor /\ page'.cursor <= committed
      /\ page' = [first |-> page'.first, cursor |-> page'.cursor,
                  told |-> page'.told, refetch |-> page'.refetch]
      /\ Covered \subseteq Covered'
      /\ e.kind = "end" => page'.refetch
      /\ e.kind # "end" => e.version <= page'.cursor
      /\ page'.cursor # page.cursor => \/ page'.refetch
                                       \/ page'.cursor = e.version /\ e.version \in Covered'
                                          /\ e.kind = "event"
  <2>1. page = [first |-> page.first, cursor |-> page.cursor,
                told |-> page.told, refetch |-> page.refetch]
    BY DEF TailInv, TailTypes
  <2>2. CASE e.kind = "end"
    <3>1. page' = [first |-> page.first, cursor |-> page.cursor,
                   told |-> page.told, refetch |-> TRUE]
      BY <1>1, <2>1, <2>2 DEF Applied
    <3> QED BY <1>2, <2>2, <3>1 DEF Covered
  <2>3. CASE e.kind # "end" /\ e.version <= page.cursor
    <3>1. page' = page
      BY <1>1, <2>3 DEF Applied
    <3> QED BY <1>1, <1>2, <2>1, <2>3, <3>1 DEF Covered
  <2>4. CASE e.kind = "snapshot" /\ ~(e.version <= page.cursor)
    <3>1. page' = [first |-> page.first, cursor |-> e.version,
                   told |-> page.told, refetch |-> TRUE]
      BY <1>1, <2>1, <2>4 DEF Applied
    <3> QED BY <1>2, <1>4, <2>4, <3>1 DEF Covered
  <2>5. CASE e.kind = "event" /\ ~(e.version <= page.cursor)
    <3>1. page' = [first |-> page.first, cursor |-> e.version,
                   told |-> page.told \cup {e.version}, refetch |-> page.refetch]
      BY <1>1, <2>1, <2>5 DEF Applied
    <3>2. Covered \subseteq Covered' /\ e.version \in Covered'
      BY <1>1, <1>4, <3>1 DEF Covered
    <3> QED BY <1>2, <1>4, <2>5, <3>1, <3>2
  <2> QED BY <1>4, <2>2, <2>3, <2>4, <2>5
<1>7. TailTypes'
  BY <1>1, <1>2, <1>6 DEF TailInv, TailTypes
<1>8. NothingSkipped'
  <2> SUFFICES ASSUME NEW u \in 1..page'.cursor, u \notin Covered' PROVE FALSE
    BY <1>7, CoveredFacts DEF NothingSkipped, Covered
  <2>1. u \notin Covered /\ u > page.cursor /\ ~page'.refetch /\ u \in Nat \ {0}
    <3>1. 1..page.cursor \subseteq Covered
      BY CoveredFacts DEF TailInv
    <3> QED BY <1>2, <1>6, <3>1 DEF Covered
  <2>2. page'.cursor = e.version /\ e.version \in Covered' /\ e.kind = "event" /\ u <= e.version
    BY <1>2, <1>6, <2>1
  <2>3. FirstToReach(u, wire, 1)
    BY <1>3, <2>2 DEF FirstToReach
  <2>4. e.kind = "snapshot" \/ e.version = u
    BY <1>3, <2>1, <2>3 DEF TailInv, Fits, Sound, wire, n
  <2> QED BY <2>2, <2>4
<1>9. 1..page'.cursor \subseteq Covered'
  BY <1>8, <1>6 DEF NothingSkipped, Covered
<1>10. ASSUME NEW u \in Nat \ {0}, u \notin Covered' PROVE e.version < u
  BY <1>4, <1>6, <1>9, <1>10 DEF Covered
<1>11. Sound(tail', Covered')
  <2> SUFFICES ASSUME NEW u \in Nat \ {0}, NEW i \in 1..(n - 1),
                      u \notin Covered', FirstToReach(u, Tail(wire), i)
               PROVE  wire[i + 1].kind = "snapshot" \/ wire[i + 1].version = u
    BY <1>3, <1>5 DEF Sound
  <2>1. FirstToReach(u, wire, i + 1)
    <3>1. wire[i + 1].version >= u
      BY <1>3 DEF FirstToReach
    <3>2. ASSUME NEW k \in 1..((i + 1) - 1) PROVE wire[k].version < u
      <4>1. CASE k = 1
        BY <1>3, <1>10, <4>1
      <4>2. CASE k # 1
        <5>1. k - 1 \in 1..(i - 1) /\ k - 1 \in 1..(n - 1) /\ (k - 1) + 1 = k
          BY <1>3, <4>2
        <5>2. Tail(wire)[k - 1] = wire[k]
          BY <1>3, <5>1
        <5> QED BY <5>1, <5>2 DEF FirstToReach
      <4> QED BY <4>1, <4>2
    <3> QED BY <3>1, <3>2 DEF FirstToReach
  <2>2. i + 1 \in 1..n /\ u \notin Covered
    BY <1>3, <1>6
  <2> QED BY <2>1, <2>2 DEF TailInv, Fits, Sound, wire, n
<1>12. Reach(tail', Passed, Covered')
  <2> SUFFICES ASSUME tail.state = "live", NEW u \in Nat \ {0}, u \in Passed \/ u <= tail.last,
                      u \notin Covered'
               PROVE  OnWire(u, tail')
    BY <1>5 DEF Reach
  <2>1. PICK i \in 1..n : wire[i].version >= u
    BY <1>6 DEF TailInv, Fits, Reach, OnWire, wire, n
  <2>2. i # 1
    BY <1>3, <1>4, <1>10, <2>1
  <2>3. i - 1 \in 1..(n - 1) /\ (i - 1) + 1 = i
    BY <1>3, <2>1, <2>2
  <2>4. Tail(wire)[i - 1].version >= u
    BY <1>3, <2>1, <2>3
  <2> QED BY <1>3, <1>5, <2>3, <2>4 DEF OnWire
<1>13. Logged(tail', committed)
  BY <1>2, <1>3, <1>5, <1>v DEF Logged
<1>14. Fits(tail', committed', Passed', Covered')
  BY <1>1, <1>5, <1>11, <1>12, <1>13 DEF Fits, Passed
<1> QED BY <1>7, <1>8, <1>14 DEF TailInv

LEMMA NextTail == TailInv /\ [TailNext]_tailVars => TailInv'
<1> SUFFICES ASSUME TailInv, [TailNext]_tailVars PROVE TailInv'
  OBVIOUS
<1>1. CASE UNCHANGED tailVars \/ ReaderParks
  BY <1>1 DEF tailVars, ReaderParks, TailInv, TailTypes, NothingSkipped, Passed, Covered
<1> QED BY <1>1, CommitInActorKeeps, PublishKeeps, CommitDirectlyKeeps, StartEngineKeeps,
           OpenKeeps, PageReadsKeeps, DetachKeeps, FetchSnapshotKeeps DEF TailNext

-----------------------------------------------------------------------------
(* A page that moved its cursor past an event was told of it, or wants a   *)
(* snapshot, or a direct commit overtook its publication, for any limits   *)
(* of the replay and the backlog and any number of reconnections           *)
(* (event-tail.ts:95-139, 424-498; channels.ts:72-97;                      *)
(* session-sync-engine.ts:257-311).                                        *)
THEOREM NothingSkippedAlways == TailSpec => []NothingSkipped
<1>1. TailInv => NothingSkipped
  BY DEF TailInv
<1> QED BY <1>1, InitTail, NextTail, PTL DEF TailSpec

-----------------------------------------------------------------------------
(* The types of the tail's variables                                       *)

(* What the transport allows: only an SSE stream has a bounded backlog and *)
(* ends when it overflows, only the gateway drops a subscription.          *)
Carried(t) ==
    /\ t.state = "ending" => transport = "sse"
    /\ t.state = "ended" => transport = "sync"
    /\ transport = "sse" => Len(t.wire) <= StreamLimit

(* A reader that pulled in vain stays with the stream it pulled from.      *)
Unclosed(t)  == transport = "sse" /\ t.state \in {"live", "ending"}
ParkedReader == parked \in BOOLEAN /\ (parked => Unclosed(tail))

TailBounds ==
    /\ ParkedReader
    /\ committed <= MaxVersion
    /\ unpublished \in Seq(Versions) /\ Len(unpublished) <= 2
    /\ overtaken \subseteq Versions
    /\ transport \in {"sse", "sync"} /\ Carried(tail)
    /\ page.told \subseteq Versions /\ page.refetch \in BOOLEAN
    /\ drops \in 0..MaxDrops

LEMMA OfferCarries ==
    ASSUME NEW t \in Tails, NEW v \in Nat, transport \in {"sse", "sync"}, Carried(t)
    PROVE  /\ Carried(Offer(t, v)) /\ Offer(t, v) \in Tails
           /\ Unclosed(t) => Unclosed(Offer(t, v))
<1>1. Offer(t, v) \in Tails
  BY OfferType
<1>2. t.wire \in Seq(Frame) /\ StreamLimit \in Nat \ {0}
  BY SessionTailAssumption DEF Tails
<1>5. Unclosed(t) => Unclosed(Offer(t, v))
  BY DEF Unclosed, Offer, Enqueue, Ending, Tails
<1>3. CASE transport = "sse"
  <2>1. CASE t.state # "live"
    BY <1>3, <2>1 DEF Offer, Enqueue
  <2>2. CASE t.state = "live" /\ Len(t.wire) + 1 > StreamLimit
    <3>1. Offer(t, v) = Ending(v)
      BY <1>3, <2>2 DEF Offer, Enqueue
    <3>2. Len(Ending(v).wire) = 1 /\ Ending(v).state = "ending"
      BY DEF Ending
    <3> QED BY <1>1, <1>2, <1>3, <1>5, <3>1, <3>2 DEF Carried
  <2>3. CASE t.state = "live" /\ ~(Len(t.wire) + 1 > StreamLimit)
    <3>1. Offer(t, v) = [t EXCEPT !.wire = Append(@, Event(v))]
      BY <1>3, <2>3 DEF Offer, Enqueue
    <3>2. Event(v) \in Frame
      BY DEF Event, Frame
    <3>3. Offer(t, v).wire = Append(t.wire, Event(v)) /\ Offer(t, v).state = "live"
      BY <2>3, <3>1 DEF Tails
    <3>4. Len(Append(t.wire, Event(v))) = Len(t.wire) + 1
      BY <1>2, <3>2
    <3> QED BY <1>1, <1>2, <1>3, <1>5, <2>3, <3>3, <3>4 DEF Carried
  <2> QED BY <2>1, <2>2, <2>3
<1>4. CASE transport = "sync"
  <2>1. Offer(t, v) = SendLive(t, v) /\ t.state # "ending"
    BY <1>4 DEF Offer, Carried
  <2>2. SendLive(t, v).state \in {t.state, "ended", "live"}
    BY DEF SendLive
  <2> QED BY <1>1, <1>4, <1>5, <2>1, <2>2 DEF Carried
<1> QED BY <1>1, <1>3, <1>4, <1>5

LEMMA OfferAllCarries ==
    ASSUME NEW t \in Tails, NEW a \in Nat, NEW n \in Nat,
           NEW versions, versions = [i \in 1..n |-> a + i],
           transport \in {"sse", "sync"}, Carried(t)
    PROVE  /\ Carried(OfferAll(t, versions))
           /\ Unclosed(t) => Unclosed(OfferAll(t, versions))
<1>0. PICK f : OneByOne(f, t, a, n, OfferAll(t, versions))
  BY OfferAllSteps
<1>1. /\ f[0] = t /\ f[n] = OfferAll(t, versions)
      /\ \A k \in 1..n : f[k] = Offer(f[k - 1], a + k)
  BY <1>0 DEF OneByOne
<1> DEFINE T == {k \in 0..n : f[k] \in Tails /\ Carried(f[k]) /\ (Unclosed(t) => Unclosed(f[k]))}
<1>2. 0 \in T
  BY <1>1
<1>3. ASSUME NEW k \in 1..n, k - 1 \in T PROVE k \in T
  <2>1. /\ f[k - 1] \in Tails /\ Carried(f[k - 1]) /\ a + k \in Nat
        /\ Unclosed(t) => Unclosed(f[k - 1])
    BY <1>3
  <2>2. f[k] = Offer(f[k - 1], a + k)
    BY <1>1
  <2> QED BY <2>1, <2>2, OfferCarries
<1>4. n \in T
  <2> HIDE DEF T
  <2>1. 0..n \subseteq T
    BY <1>2, <1>3, BoundedInduction
  <2> QED BY <2>1
<1> QED BY <1>1, <1>4

LEMMA ServerKeepsBounds ==
    ASSUME TailInv, TailBounds, CommitInActor \/ Publish \/ CommitDirectly PROVE TailBounds'
<1>0. /\ committed \in Nat /\ tail \in Tails /\ MaxVersion \in Nat
      /\ UNCHANGED <<transport, page, drops, parked>>
  BY SessionTailAssumption DEF TailInv, TailTypes, Fits, CommitInActor, Publish, CommitDirectly
<1>1. CASE CommitInActor
  <2>1. PICK n \in 1..2 : /\ committed + n <= MaxVersion /\ committed' = committed + n
                          /\ unpublished' = [i \in 1..n |-> committed + i]
                          /\ UNCHANGED <<overtaken, tail>>
    BY <1>1 DEF CommitInActor
  <2>2. unpublished' \in Seq(Versions) /\ Len(unpublished') = n
    <3>1. \A i \in 1..n : committed + i \in Versions
      BY <1>0, <2>1 DEF Versions
    <3> QED BY <2>1, <3>1
  <2> QED BY <1>0, <2>1, <2>2 DEF TailBounds, Carried, ParkedReader, Unclosed
<1>2. CASE Publish
  <2>1. /\ tail' = OfferAll(tail, unpublished) /\ unpublished' = <<>>
        /\ UNCHANGED <<committed, overtaken>>
    BY <1>2 DEF Publish
  <2>2. PICK a \in Nat, n \in Nat : unpublished = [i \in 1..n |-> a + i]
    BY DEF TailInv, TailTypes, Waiting
  <2>3. /\ Carried(OfferAll(tail, unpublished))
        /\ Unclosed(tail) => Unclosed(OfferAll(tail, unpublished))
    BY <1>0, <2>2, OfferAllCarries DEF TailBounds
  <2>4. Carried(tail)' /\ ParkedReader'
    BY <1>0, <2>1, <2>3 DEF Carried, Unclosed, TailBounds, ParkedReader
  <2> QED BY <1>0, <2>1, <2>4 DEF TailBounds
<1>3. CASE CommitDirectly
  <2>1. /\ committed < MaxVersion /\ committed' = committed + 1
        /\ overtaken' = overtaken \cup ToSet(unpublished)
        /\ tail' = OfferAll(tail, <<committed + 1>>) /\ UNCHANGED unpublished
    BY <1>3 DEF CommitDirectly
  <2>2. <<committed + 1>> = [i \in 1..1 |-> committed + i]
    BY <1>0
  <2>3. /\ Carried(OfferAll(tail, <<committed + 1>>))
        /\ Unclosed(tail) => Unclosed(OfferAll(tail, <<committed + 1>>))
    BY <1>0, <2>2, OfferAllCarries DEF TailBounds
  <2>4. Carried(tail)' /\ ParkedReader'
    BY <1>0, <2>1, <2>3 DEF Carried, Unclosed, TailBounds, ParkedReader
  <2>5. ToSet(unpublished) \subseteq Versions
    BY DEF TailBounds, ToSet
  <2> QED BY <1>0, <2>1, <2>4, <2>5 DEF TailBounds
<1> QED BY <1>1, <1>2, <1>3

LEMMA OpenKeepsBounds ==
    ASSUME TailInv, TailBounds, OpenStream \/ OpenSocket PROVE TailBounds'
<1>0. /\ committed \in Nat /\ page.first \in Nat /\ page.cursor \in Nat
      /\ UNCHANGED <<committed, unpublished, overtaken, transport, page, drops>>
      /\ page.first <= page.cursor /\ page.cursor <= committed
  BY DEF TailInv, TailTypes, OpenStream, OpenSocket
<1>1. ASSUME NEW v \in Nat, v <= committed, NEW last \in Nat
      PROVE  Carried(OfferAll(Subscribed(last), Rows(v)))
  <2>1. Subscribed(last) \in Tails /\ Carried(Subscribed(last))
    BY SessionTailAssumption DEF Subscribed, Tails, Carried
  <2>2. \E n \in Nat : Rows(v) = [i \in 1..n |-> v + i]
    <3>1. committed - v \in Nat /\ TailLimit + 1 \in Nat
      BY <1>0, <1>1, SessionTailAssumption
    <3> QED BY <3>1 DEF Rows
  <2> QED BY <1>1, <2>1, <2>2, OfferAllCarries DEF TailBounds
<1>2. Carried(tail')
  <2>1. CASE OpenStream
    <3>1. \/ tail' = Ending(committed)
          \/ tail' = OfferAll(Subscribed(0), Rows(page.first))
      BY <2>1 DEF OpenStream
    <3>2. Carried(Ending(committed))
      BY <2>1, SessionTailAssumption DEF OpenStream, Ending, Carried
    <3> QED BY <1>0, <1>1, <3>1, <3>2
  <2>2. CASE OpenSocket
    <3>1. \/ tail' = [state |-> "ended", last |-> committed,
                      wire  |-> <<SnapshotRequired(committed), TailEnd>>]
          \/ tail' = OfferAll(Subscribed(page.cursor), Rows(page.cursor))
      BY <2>2 DEF OpenSocket
    <3>2. transport = "sync"
      BY <2>2 DEF OpenSocket
    <3> QED BY <1>0, <1>1, <3>1, <3>2 DEF Carried
  <2> QED BY <2>1, <2>2
<1>3. ParkedReader'
  BY DEF OpenStream, OpenSocket, TailBounds, ParkedReader, Unclosed
<1> QED BY <1>0, <1>2, <1>3 DEF TailBounds, Carried

LEMMA PageKeepsBounds ==
    ASSUME TailInv, TailBounds,
           \/ StartEngine \/ PageReads \/ ReaderParks \/ StallReaped
           \/ StreamEnds \/ Disconnect \/ FetchSnapshot
    PROVE  TailBounds'
<1>0. /\ committed \in Nat /\ MaxVersion \in Nat /\ MaxDrops \in Nat /\ StreamLimit \in Nat
      /\ UNCHANGED <<committed, unpublished, overtaken, transport>>
      /\ page = [first |-> page.first, cursor |-> page.cursor,
                 told |-> page.told, refetch |-> page.refetch]
      /\ 1..committed \subseteq Versions
  BY SessionTailAssumption
     DEF TailInv, TailTypes, TailBounds, Versions,
         StartEngine, PageReads, ReaderParks, StallReaped,
         StreamEnds, Disconnect, FetchSnapshot
<1>1. drops' \in 0..MaxDrops
  BY <1>0 DEF TailBounds, StartEngine, PageReads, ReaderParks, StallReaped,
              StreamEnds, Disconnect, FetchSnapshot
<1>2. Carried(tail')
  <2>1. CASE PageReads
    <3>1. tail \in Tails /\ tail.wire # <<>> /\ tail' = [tail EXCEPT !.wire = Tail(@)]
      BY <2>1 DEF PageReads, TailInv, Fits
    <3>2. tail.wire \in Seq(Frame)
      BY <3>1 DEF Tails
    <3>3. tail'.state = tail.state /\ tail'.wire = Tail(tail.wire)
      BY <3>1 DEF Tails
    <3>4. Len(Tail(tail.wire)) <= Len(tail.wire) /\ Len(tail.wire) \in Nat
          /\ Len(Tail(tail.wire)) \in Nat
      BY <3>1, <3>2, EmptySeq
    <3> QED BY <1>0, <3>3, <3>4 DEF TailBounds, Carried
  <2>2. CASE FetchSnapshot \/ ReaderParks
    BY <2>2 DEF FetchSnapshot, ReaderParks, TailBounds
  <2>3. CASE StartEngine \/ StreamEnds \/ Disconnect \/ StallReaped
    <3>1. tail' = [state |-> "none", last |-> 0, wire |-> <<>>]
      BY <2>3 DEF StartEngine, StreamEnds, Disconnect, StallReaped, Detached
    <3> QED BY <1>0, <3>1 DEF Carried
  <2> QED BY <2>1, <2>2, <2>3
<1>3. page'.told \subseteq Versions /\ page'.refetch \in BOOLEAN
  <2>1. CASE PageReads
    <3> DEFINE e == Head(tail.wire)
    <3>1. page' = Applied(page, e) /\ tail.wire # <<>>
      BY <2>1 DEF PageReads
    <3>2. tail.wire \in Seq(Frame) /\ \A i \in 1..Len(tail.wire) : tail.wire[i].version <= committed
      BY DEF TailInv, Fits, Tails, Logged
    <3>3. e = tail.wire[1] /\ 1 \in 1..Len(tail.wire)
      BY <3>1, <3>2, EmptySeq
    <3>4. e.version \in Nat /\ e.version <= committed
      BY <3>2, <3>3, WireVersions
    <3> HIDE DEF e
    <3>5. page.cursor \in Nat
      BY DEF TailInv, TailTypes
    <3>6. \/ page'.told = page.told
          \/ page'.told = page.told \cup {e.version} /\ e.version > page.cursor
      BY <1>0, <3>1, <3>4, <3>5 DEF Applied
    <3>7. page'.refetch = page.refetch \/ page'.refetch = TRUE
      BY <1>0, <3>1 DEF Applied
    <3>8. e.version > page.cursor => e.version \in Versions
      BY <1>0, <3>4, <3>5 DEF TailBounds, Versions
    <3> QED BY <3>6, <3>7, <3>8 DEF TailBounds
  <2>2. CASE FetchSnapshot
    <3>1. page' = [page EXCEPT !.told = @ \cup (1..committed), !.refetch = FALSE]
      BY <2>2 DEF FetchSnapshot
    <3>2. page'.told = page.told \cup (1..committed) /\ page'.refetch = FALSE
      BY <1>0, <3>1
    <3> QED BY <1>0, <3>2 DEF TailBounds
  <2>3. CASE StartEngine
    BY <1>0, <2>3 DEF StartEngine
  <2>5. CASE ReaderParks
    BY <2>5 DEF ReaderParks, TailBounds
  <2>4. CASE StreamEnds \/ Disconnect \/ StallReaped
    <3>1. PICK wanted \in BOOLEAN : page' = [page EXCEPT !.refetch = wanted]
      BY <2>4 DEF StreamEnds, Disconnect, StallReaped, TailBounds
    <3>2. page'.told = page.told /\ page'.refetch = wanted
      BY <1>0, <3>1
    <3> QED BY <3>2 DEF TailBounds
  <2> QED BY <2>1, <2>2, <2>3, <2>4, <2>5
<1>4. ParkedReader'
  <2>1. CASE PageReads
    <3>1. tail' = [tail EXCEPT !.wire = Tail(@)] /\ tail \in Tails
      BY <2>1 DEF PageReads, TailInv, Fits
    <3>2. tail'.state = tail.state
      BY <3>1 DEF Tails
    <3> QED BY <2>1, <3>2 DEF PageReads, TailBounds, ParkedReader, Unclosed
  <2>2. CASE StartEngine
    BY <2>2 DEF StartEngine, TailBounds, ParkedReader, Unclosed
  <2>3. CASE ReaderParks
    BY <2>3 DEF ReaderParks, ParkedReader, Unclosed
  <2>4. CASE StallReaped \/ StreamEnds \/ Disconnect
    BY <2>4 DEF StallReaped, StreamEnds, Disconnect, ParkedReader
  <2>5. CASE FetchSnapshot
    BY <2>5 DEF FetchSnapshot, TailBounds, ParkedReader, Unclosed
  <2> QED BY <2>1, <2>2, <2>3, <2>4, <2>5
<1> QED BY <1>0, <1>1, <1>2, <1>3, <1>4 DEF TailBounds, Carried

(* Every variable of the tail keeps its type: an SSE stream never holds    *)
(* more events than TAIL_STREAM_MAX_EVENTS, and ends when it would; the    *)
(* page's cursor never runs ahead of the log (event-tail.ts 424-498,       *)
(* session-sync-engine.ts 257-311).                                        *)
THEOREM TailTypesCorrect == TailSpec => []TailTypeOK
<1>1. TailInit => TailBounds
  <2>1. TailInit => ParkedReader
    BY DEF TailInit, ParkedReader
  <2> QED BY <2>1, SessionTailAssumption DEF TailInit, Detached, TailBounds, Carried
<1>2. TailInv /\ TailBounds /\ [TailNext]_tailVars => TailBounds'
  <2>1. CASE UNCHANGED tailVars
    BY <2>1 DEF tailVars, TailBounds, Carried, ParkedReader, Unclosed
  <2> QED BY <2>1, ServerKeepsBounds, OpenKeepsBounds, PageKeepsBounds DEF TailNext
<1>3. TailInv /\ TailBounds => TailTypeOK
  <2> SUFFICES ASSUME TailInv, TailBounds PROVE TailTypeOK
    OBVIOUS
  <2>1. /\ committed \in 0..MaxVersion /\ committed \in Nat
        /\ tail \in Tails /\ Logged(tail, committed)
        /\ page.first \in 0..page.cursor /\ page.cursor \in 0..committed
    BY SessionTailAssumption DEF TailInv, TailTypes, TailBounds, Fits
  <2>2. /\ tail.state \in {"unopened", "none", "live", "ending", "ended"}
        /\ tail.last \in 0..committed
        /\ \A i \in 1..Len(tail.wire) : tail.wire[i].version \in 0..committed
    BY <2>1, WireVersions DEF Tails, Logged
  <2> QED BY <2>1, <2>2 DEF TailBounds, Carried, ParkedReader, Unclosed, TailTypeOK
<1> QED BY <1>1, <1>2, <1>3, InitTail, NextTail, PTL DEF TailSpec

-----------------------------------------------------------------------------
(* The services side by side: each of them sees its own steps or none.     *)
LEMMA EachServiceSteps ==
    ASSUME [ServicesNext]_servicesVars
    PROVE  /\ [SchedNext]_schedVars /\ [HubNext]_hubVars /\ [AwaitNext]_awaitVars
           /\ [JobNext]_jobVars /\ [TailNext]_tailVars
<1>1. CASE UNCHANGED servicesVars
  BY <1>1 DEF servicesVars
<1>2. CASE SchedulerStep
  BY <1>2 DEF SchedulerStep
<1>3. CASE HubStep
  BY <1>3 DEF HubStep
<1>4. CASE AwaitStep
  BY <1>4 DEF AwaitStep
<1>5. CASE JobStep
  BY <1>5 DEF JobStep
<1>6. CASE TailStep
  BY <1>6 DEF TailStep
<1> QED BY <1>1, <1>2, <1>3, <1>4, <1>5, <1>6 DEF ServicesNext

LEMMA EachServiceRuns ==
    ServicesSpec => SchedSpec /\ HubSpec /\ AwaitSpec /\ JobSpec /\ TailSpec
<1>1. ServicesInit => SchedInit /\ HubInit /\ AwaitInit /\ JobInit /\ TailInit
  BY DEF ServicesInit
<1> QED BY <1>1, EachServiceSteps, PTL
        DEF ServicesSpec, SchedSpec, HubSpec, AwaitSpec, JobSpec, TailSpec

(* What is proved of a service alone holds of the services together: no    *)
(* variable of the relay, the awaits, the jobs or the tail leaves its      *)
(* range in a behaviour of the composed model.                             *)
THEOREM ServicesTypesCorrect == ServicesSpec => []ServicesTypeOK
BY EachServiceRuns, SchedTypesCorrect, HubTypesCorrect, AwaitTypesCorrect,
   JobTypesCorrect, TailTypesCorrect, PTL DEF ServicesTypeOK
=============================================================================
