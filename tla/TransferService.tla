--------------------------- MODULE TransferService ---------------------------
(***************************************************************************)
(* What a queued pipe of the USB host controller driver promises to the    *)
(* client drivers above it, whatever threads and locks implement it: the   *)
(* transfers accepted on a pipe finish in the order in which they were     *)
(* accepted, a transfer can be cancelled at any time before it finishes,   *)
(* every accepted transfer is notified exactly once, and a pipe is closed  *)
(* only when no transfer is pending on it.                                 *)
(***************************************************************************)
EXTENDS Naturals, Sequences, SequencesExt

CONSTANTS Pipes,      \* the pipes of the host controller
          Transfers   \* the identities of transfers

VARIABLES pending,    \* pending[p]: accepted and not yet finished, oldest first
          cancelled,  \* cancelled[p]: cancelled, the notification still to come
          notified,   \* transfers whose completion routine has run
          closed      \* pipes that have been closed

svars == <<pending, cancelled, notified, closed>>

Known == notified \cup UNION {ToSet(pending[p]) \cup cancelled[p] : p \in Pipes}

SInit == /\ pending = [p \in Pipes |-> << >>]
         /\ cancelled = [p \in Pipes |-> {}]
         /\ notified = {}
         /\ closed = {}

(* A new transfer goes to the end of the pipe's queue. *)
Accept(p, x) == /\ p \notin closed
                /\ x \notin Known
                /\ pending' = [pending EXCEPT ![p] = Append(@, x)]
                /\ UNCHANGED <<cancelled, notified, closed>>

(* The oldest transfer finishes and its completion routine runs. *)
Finish(p) == /\ pending[p] # << >>
             /\ notified' = notified \cup {Head(pending[p])}
             /\ pending' = [pending EXCEPT ![p] = Tail(@)]
             /\ UNCHANGED <<cancelled, closed>>

(* A pending transfer, wherever it is in the queue, is taken out of it. *)
Cancel(p, k) == /\ k \in DOMAIN pending[p]
                /\ pending' = [pending EXCEPT ![p] = RemoveAt(@, k)]
                /\ cancelled' = [cancelled EXCEPT ![p] = @ \cup {pending[p][k]}]
                /\ UNCHANGED <<notified, closed>>

(* The completion routine of a cancelled transfer runs. *)
NotifyCancelled(p, x) == /\ x \in cancelled[p]
                         /\ cancelled' = [cancelled EXCEPT ![p] = @ \ {x}]
                         /\ notified' = notified \cup {x}
                         /\ UNCHANGED <<pending, closed>>

(* Nothing is pending when a pipe closes. *)
Close(p) == /\ pending[p] = << >>
            /\ cancelled[p] = {}
            /\ closed' = closed \cup {p}
            /\ UNCHANGED <<pending, cancelled, notified>>

SNext == \E p \in Pipes : \/ Finish(p)
                          \/ Close(p)
                          \/ \E k \in DOMAIN pending[p] : Cancel(p, k)
                          \/ \E x \in Transfers : Accept(p, x) \/ NotifyCancelled(p, x)

ServiceSpec == SInit /\ [][SNext]_svars
=============================================================================
