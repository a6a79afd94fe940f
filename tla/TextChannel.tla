---------------------------- MODULE TextChannel ----------------------------
(***************************************************************************)
(* What one chat connection promises to the two applications that use it,  *)
(* with nothing said of handshakes, frames or keys: a text that one side   *)
(* hands over is delivered at most once to the other side, unchanged and   *)
(* in the order of sending.  A connection may stop delivering at any       *)
(* moment (it breaks, or one side closes), so there is no fairness.        *)
(***************************************************************************)
EXTENDS Naturals, Sequences

CONSTANTS Side,     \* the two ends of the connection
          Text,     \* what an application may send
          Peer(_)   \* the other end

VARIABLES sent,       \* sent[e]: the texts side e was asked to send, in order
          delivered   \* delivered[e]: the texts handed to the application of e

vars == <<sent, delivered>>

Init == /\ sent = [e \in Side |-> <<>>]
        /\ delivered = [e \in Side |-> <<>>]

(* The application of e hands over t. *)
Send(e, t) == /\ sent' = [sent EXCEPT ![e] = Append(@, t)]
              /\ UNCHANGED delivered

(* The application of e is given the next text of the other side. *)
Deliver(e) ==
    LET n == Len(delivered[e]) + 1 IN
    /\ n \in 1..Len(sent[Peer(e)])
    /\ delivered' = [delivered EXCEPT ![e] = Append(@, sent[Peer(e)][n])]
    /\ UNCHANGED sent

Next == \E e \in Side : Deliver(e) \/ \E t \in Text : Send(e, t)

Spec == Init /\ [][Next]_vars
=============================================================================
