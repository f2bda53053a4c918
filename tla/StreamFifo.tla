----------------------------- MODULE StreamFifo -----------------------------
(***************************************************************************)
(* What the outgoing queue of a relay connection promises a receiver: the  *)
(* frames of one stream leave in the order in which they were accepted,    *)
(* whatever their priority.  Streams are not ordered among each other.     *)
(***************************************************************************)
EXTENDS Sequences

CONSTANTS Lanes,        \* order domains: one per stream
          Frames,       \* what may be accepted
          LaneOf(_)     \* the order domain of a frame

VARIABLES pending,      \* per lane: accepted and not yet taken
          taken         \* the frame taken last

fifoVars == <<pending, taken>>

Accept(f) ==
    /\ pending' = [pending EXCEPT ![LaneOf(f)] = Append(@, f)]
    /\ UNCHANGED taken

Take(l) ==
    /\ pending[l] # <<>>
    /\ taken' = Head(pending[l])
    /\ pending' = [pending EXCEPT ![l] = Tail(@)]

\* The connection closes: what is pending is lost.
Discard ==
    /\ pending' = [l \in Lanes |-> <<>>]
    /\ UNCHANGED taken

FifoInit == pending = [l \in Lanes |-> <<>>]

(* Every step changes what is pending.                                     *)
FifoNext ==
    /\ pending' # pending
    /\ \/ \E l \in Lanes : Take(l)
       \/ Discard
       \/ \E f \in Frames : Accept(f)

FifoSpec == FifoInit /\ [][FifoNext]_fifoVars
=============================================================================
