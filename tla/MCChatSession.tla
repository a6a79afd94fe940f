--------------------------- MODULE MCChatSession ---------------------------
(***************************************************************************)
(* Instances of ChatSession for TLC.  Two key pairs: a is the client's, b  *)
(* the server's.                                                           *)
(***************************************************************************)
EXTENDS ChatSession

CONSTANTS a, b

MCIdent == {a, b}

(* The configuration two users who exchanged their public keys have. *)
Matching == [pub    |-> [e \in Side |-> IF e = "cli" THEN a ELSE b],
             priv   |-> [e \in Side |-> IF e = "cli" THEN a ELSE b],
             expect |-> b, peers |-> {a}, weak |-> {}]

MatchingSetups == {Matching}

(* Everything that may be configured: a public key that is not the one of  *)
(* the private key, another peer's key or none given to doConnect, every   *)
(* peer list, and an ephemeral key X25519 refuses.                         *)
AllSetups ==
    {[pub    |-> Matching.pub,
      priv   |-> [e \in Side |-> IF e = "cli" THEN c ELSE s],
      expect |-> x, peers |-> ps, weak |-> w] :
        c \in MCIdent, s \in MCIdent, x \in MCIdent \cup {NoKey},
        ps \in SUBSET MCIdent, w \in {{}, {"cli"}, {"srv"}}}
=============================================================================
