------------------------------ MODULE Courier -------------------------------
(***************************************************************************)
(* What the gateway promises of a document.processed record, without the   *)
(* how: a record is accepted, which makes its event durable, or rejected,  *)
(* or both, when those who read it do not agree on its caller;             *)
(* it is acknowledged to Kafka only after that; an accepted event is       *)
(* delivered to its caller, and recorded as delivered only after that.     *)
(* Records of one event (redeliveries, other spellings of its id) stand    *)
(* for one delivery.                                                       *)
(***************************************************************************)
EXTENDS Naturals

CONSTANTS
    Partitions,   \* the partitions of the topic
    End,          \* End[p]: how many records partition p holds
    EventOf,      \* EventOf[p][o]: the event of a record, or NoEvent
    Refusable     \* Refusable[p]: the records that may be refused
CONSTANT NoEvent  \* a record that can never be routed

VARIABLES
    accepted,     \* events that are durable
    rejected,     \* records that were dead-lettered
    acked,        \* acked[p]: the offset acknowledged to Kafka
    delivered,    \* events in their caller's topic
    recorded      \* events known to be delivered

courierVars == <<accepted, rejected, acked, delivered, recorded>>

Handled(p, o) ==
    \/ EventOf[p][o] # NoEvent /\ EventOf[p][o] \in accepted
    \/ o \in Refusable[p] /\ <<p, o>> \in rejected

Accept(p, o) ==
    /\ EventOf[p][o] # NoEvent
    /\ accepted' = accepted \cup {EventOf[p][o]}
    /\ UNCHANGED <<rejected, acked, delivered, recorded>>

Reject(p, o) ==
    /\ o \in Refusable[p]
    /\ rejected' = rejected \cup {<<p, o>>}
    /\ UNCHANGED <<accepted, acked, delivered, recorded>>

\* Any offset below which everything is handled; it may also move back.
Acknowledge(p) ==
    /\ \E n \in 0..End[p] :
          /\ \A o \in 1..n : Handled(p, o)
          /\ acked' = [acked EXCEPT ![p] = n]
    /\ UNCHANGED <<accepted, rejected, delivered, recorded>>

Deliver ==
    /\ \E e \in accepted : delivered' = delivered \cup {e}
    /\ UNCHANGED <<accepted, rejected, acked, recorded>>

RecordDelivery ==
    /\ \E e \in delivered : recorded' = recorded \cup {e}
    /\ UNCHANGED <<accepted, rejected, acked, delivered>>

CourierInit ==
    /\ accepted = {} /\ rejected = {} /\ delivered = {} /\ recorded = {}
    /\ acked = [p \in Partitions |-> 0]

CourierNext ==
    \/ \E p \in Partitions :
          \/ \E o \in 1..End[p] : Accept(p, o) \/ Reject(p, o)
          \/ Acknowledge(p)
    \/ Deliver \/ RecordDelivery

CourierSafety == CourierInit /\ [][CourierNext]_courierVars
=============================================================================
