--------------------------- MODULE PeerDirectory ---------------------------
(***************************************************************************)
(* What sess_map_ and sendTextMsg promise to the application, at the       *)
(* server and at the client alike, with nothing said of threads, locks,    *)
(* sockets and handshakes: an id leads to at most one session; only a      *)
(* session entitled to an id is entered under it, and only where there is  *)
(* no entry; an entry stays until it is removed; and a text for an id goes *)
(* to a session the id led to when the call began or when it ended.        *)
(***************************************************************************)
CONSTANTS Id,       \* what peers are called
          Owner,    \* sessions
          NoOwner   \* no session

VARIABLES entitled, \* entitled[o]: the ids o may be entered under
          owner,    \* owner[i]: the session i leads to, or NoOwner
          call,     \* the search under way: {} or one [id, found]
          carried   \* carried[o]: the ids whose texts o was given

vars == <<entitled, owner, call, carried>>

Init == /\ entitled \in [Owner -> SUBSET Id]
        /\ owner = [i \in Id |-> NoOwner]
        /\ call = {}
        /\ carried = [o \in Owner |-> {}]

(* Handshakes, peer lists and doConnect entitle; no title is ever lost.    *)
Entitle == /\ entitled' \in [Owner -> SUBSET Id]
           /\ \A o \in Owner : entitled[o] \subseteq entitled'[o]
           /\ UNCHANGED <<owner, call, carried>>

Enter(i, o) == /\ owner[i] = NoOwner /\ i \in entitled[o]
               /\ owner' = [owner EXCEPT ![i] = o]
               /\ UNCHANGED <<entitled, call, carried>>

(* One id is removed, or all of them.                                      *)
Remove == /\ \/ \E i \in Id : owner' = [owner EXCEPT ![i] = NoOwner]
             \/ owner' = [i \in Id |-> NoOwner]
          /\ UNCHANGED <<entitled, call, carried>>

BeginSend(i) == /\ call = {}
                /\ call' = {[id |-> i, found |-> owner[i]]}
                /\ UNCHANGED <<entitled, owner, carried>>

EndSend == \E c \in call :
              /\ call' = {}
              /\ \E o \in {c.found, owner[c.id]} :
                    carried' = IF o = NoOwner THEN carried
                               ELSE [carried EXCEPT ![o] = @ \cup {c.id}]
              /\ UNCHANGED <<entitled, owner>>

Next == \/ Entitle \/ Remove \/ EndSend
        \/ \E i \in Id : BeginSend(i) \/ \E o \in Owner : Enter(i, o)

Spec == Init /\ [][Next]_vars

-----------------------------------------------------------------------------
(* What the promise is worth to the application.  A module that implements *)
(* PeerDirectory inherits it.                                              *)

(* No session is given a text for somebody it is not entitled to be.       *)
CarriedIsEntitled == \A o \in Owner : carried[o] \subseteq entitled[o]

(* It is inductive only with what entries and searches say: both lead to a *)
(* session entitled to the id, or to none.                                 *)
TitledInv ==
    /\ entitled \in [Owner -> SUBSET Id]
    /\ carried \in [Owner -> SUBSET Id]
    /\ owner \in [Id -> Owner \cup {NoOwner}]
    /\ \A i \in Id : owner[i] # NoOwner => i \in entitled[owner[i]]
    /\ \A c \in call : /\ c.id \in Id /\ c.found \in Owner \cup {NoOwner}
                       /\ c.found # NoOwner => c.id \in entitled[c.found]
    /\ CarriedIsEntitled
=============================================================================
