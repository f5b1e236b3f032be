-------------------------- MODULE ConnectionOrder --------------------------
(***************************************************************************)
(* What the work threads promise a connection, whatever their number: its  *)
(* packets are handled one by one in the order they were received; a       *)
(* packet can be lost only while it is the newest, when its queue is full. *)
(***************************************************************************)
EXTENDS Naturals

CONSTANTS Conns, MaxPackets

VARIABLES
  sent,      \* per connection: packets received so far, numbered from 1
  pending,   \* per connection: the packets not handled yet
  served     \* per connection: the packet handled last

vars == <<sent, pending, served>>

Init ==
  /\ sent    = [c \in Conns |-> 0]
  /\ pending = [c \in Conns |-> {}]
  /\ served  = [c \in Conns |-> 0]

Receive(c) ==
  /\ sent[c] < MaxPackets
  /\ sent'    = [sent EXCEPT ![c] = @ + 1]
  /\ pending' = [pending EXCEPT ![c] = @ \cup {sent[c] + 1}]
  /\ UNCHANGED served

Refuse(c) ==
  /\ sent[c] \in pending[c]
  /\ pending' = [pending EXCEPT ![c] = @ \ {sent[c]}]
  /\ UNCHANGED <<sent, served>>

\* The oldest packet, and never one older than what was handled before.
Handle(c) ==
  \E n \in pending[c] :
    /\ n > served[c]
    /\ \A k \in pending[c] : n <= k
    /\ served'  = [served EXCEPT ![c] = n]
    /\ pending' = [pending EXCEPT ![c] = @ \ {n}]
    /\ UNCHANGED sent

Next == \E c \in Conns : Receive(c) \/ Refuse(c) \/ Handle(c)

Spec == Init /\ [][Next]_vars
=============================================================================
