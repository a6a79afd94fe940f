----------------------------- MODULE ChatClient -----------------------------
(***************************************************************************)
(* The ChatClient object: the application's thread, the one io thread, and *)
(* sess_map_, which both of them use without a mutex.                      *)
(*                                                                         *)
(* A session is reduced to the calls its handlers make into the client     *)
(* (module ChatSession is about the rest).  An access to the map is cut in *)
(* two, so that the other thread may run in the middle of it, and closing  *)
(* a session is three steps: onClose erases the entry, onClose emits       *)
(* sigClose, the session closes its socket.  What close of the client does *)
(* is undefined: its loop goes on from the node that onClose has just      *)
(* erased, so it may go to any other node, stop, or crash.                 *)
(***************************************************************************)
EXTENDS Naturals

CONSTANTS Session,       \* sessions doConnect may make
          Ident,         \* public keys of the peers
          NoKey,         \* an iterator or an id that names no entry
          NoSession      \* sess_map_.end()

ASSUME ClientAssumption ==
    /\ NoKey \notin Ident
    /\ NoSession \notin Session

VARIABLES
    sessMap,    \* sess_map_: a function from ids to sessions
    key,        \* key[s]: id_ and peer_static_pubkey_ of s
    st,         \* st[s]: how far the handlers of s have come
    sock,       \* sock[s]: the socket has not been closed
    ui,         \* what the application's thread is doing
    io,         \* what the io thread is doing
    routed,     \* routed[s]: the ids whose texts were written on s
    last,       \* last[k]: whether k was connected or reported closed last
    crossed,    \* crossed[k]: the latest doConnect of k came between the erase of
                \* an onClose of k and its sigClose
    cleared     \* close has returned at least once

mapVars == <<sessMap, last, crossed, cleared>>
sessVars == <<key, st, sock, routed>>
vars == <<mapVars, sessVars, ui, io>>

Ready == [pc |-> "ready", key |-> NoKey, sess |-> NoSession]
Idle == [pc |-> "idle", sess |-> NoSession]

(* Mutant: the search ends at the next entry when there is none of the id. *)
LookupNext(k) == IF k \in DOMAIN sessMap THEN sessMap[k]
                 ELSE IF DOMAIN sessMap = {} THEN NoSession
                 ELSE sessMap[CHOOSE j \in DOMAIN sessMap : TRUE]

Lookup(k) == IF k \in DOMAIN sessMap THEN sessMap[k] ELSE NoSession

(* Mutant: the entry of another peer may go. *)
WithoutAnother(m, k) == [j \in DOMAIN m \ {CHOOSE i \in Ident : i # k} |-> m[j]]

(* erase(id) *)
Without(m, k) == [j \in DOMAIN m \ {k} |-> m[j]]

(* Mutant: a new session takes the place of the old one. *)
InsertOrAssign(m, k, s) == [j \in DOMAIN m \cup {k} |-> IF j = k THEN s ELSE m[j]]

(* Mutant: the entry is made before the session is put into it. *)
InsertEmpty(m, k, s) ==
    [j \in DOMAIN m \cup {k} |-> IF j \in DOMAIN m THEN m[j] ELSE NoSession]

(* insert keeps an entry of the same id. *)
Insert(m, k, s) == [j \in DOMAIN m \cup {k} |-> IF j \in DOMAIN m THEN m[j] ELSE s]

Init ==
    /\ sessMap = [k \in {} |-> NoSession]
    /\ key = [s \in Session |-> NoKey]
    /\ st = [s \in Session |-> "none"]
    /\ sock = [s \in Session |-> TRUE]
    /\ ui = Ready /\ io = Idle
    /\ routed = [s \in Session |-> {}]
    /\ last = [k \in Ident |-> "none"]
    /\ crossed = [k \in Ident |-> FALSE]
    /\ cleared = FALSE

-----------------------------------------------------------------------------
(* The application's thread.                                               *)

(* doConnect makes a session, inserts it, and only then starts to connect. *)
BeginConnect(s) ==
    /\ ui = Ready /\ st[s] = "none"
    /\ \E k \in Ident : /\ ui' = [pc |-> "insert", key |-> k, sess |-> s]
                       /\ key' = [key EXCEPT ![s] = k]
    /\ UNCHANGED <<mapVars, st, sock, routed, io>>

(* The io thread has erased k, but its sigClose for k is still to come.    *)
IoSignalPending(k) == io.pc = "emit" /\ key[io.sess] = k

EndConnect ==
    /\ ui.pc = "insert"
    /\ ui' = Ready
    /\ sessMap' = Insert(sessMap, ui.key, ui.sess)
    /\ last' = [last EXCEPT ![ui.key] = "connect"]
    /\ crossed' = [crossed EXCEPT ![ui.key] = IoSignalPending(ui.key)]
    /\ st' = [st EXCEPT ![ui.sess] = "connecting"]
    /\ UNCHANGED <<cleared, key, sock, routed, io>>

(* sendTextMsg: the search sees the map as it was or as it has become.     *)
BeginFind ==
    /\ ui = Ready
    /\ \E k \in Ident : ui' = [pc |-> "find", key |-> k, sess |-> Lookup(k)]
    /\ UNCHANGED <<mapVars, sessVars, io>>

EndFind ==
    /\ ui.pc = "find"
    /\ ui' = Ready
    /\ \E s \in {ui.sess, Lookup(ui.key)} :
          routed' = IF s = NoSession THEN routed
                    ELSE [routed EXCEPT ![s] = @ \cup {ui.key}]
    /\ UNCHANGED <<mapVars, key, st, sock, io>>

(* close: the first entry, if there is one.                                *)
BeginClose ==
    /\ ui = Ready
    /\ IF DOMAIN sessMap = {}
       THEN ui' = ui /\ cleared' = TRUE
       ELSE /\ \E k \in DOMAIN sessMap : ui' = [Ready EXCEPT !.pc = "visit", !.key = k]
            /\ UNCHANGED cleared
    /\ UNCHANGED <<sessMap, last, crossed, sessVars, io>>

(* The session's close calls onClose, which erases the node the loop is on *)
Visit ==
    LET s == Lookup(ui.key) IN
    /\ ui.pc = "visit" /\ s # NoSession
    /\ ui' = [ui EXCEPT !.pc = "emit", !.sess = s]
    /\ sessMap' = Without(sessMap, key[s])
    /\ UNCHANGED <<last, crossed, cleared, sessVars, io>>

(* and then emits sigClose;                                                *)
VisitEmit ==
    /\ ui.pc = "emit"
    /\ ui' = [ui EXCEPT !.pc = "socket"]
    /\ last' = [last EXCEPT ![key[ui.sess]] = "closed"]
    /\ UNCHANGED <<sessMap, crossed, cleared, sessVars, io>>

(* last, the socket is closed.                                             *)
VisitSocket ==
    /\ ui.pc = "socket"
    /\ ui' = [ui EXCEPT !.pc = "advance"]
    /\ sock' = [sock EXCEPT ![ui.sess] = FALSE]
    /\ UNCHANGED <<mapVars, key, st, routed, io>>

(* ++ on the iterator of an erased node: another entry, the end, or a      *)
(* crash.  The loop is also lost when the io thread has erased its node.   *)
Lost == ui.pc = "advance" \/ (ui.pc = "visit" /\ Lookup(ui.key) = NoSession)

AdvanceToEntry ==
    /\ Lost
    /\ \E k \in DOMAIN sessMap : ui' = [Ready EXCEPT !.pc = "visit", !.key = k]
    /\ UNCHANGED <<mapVars, sessVars, io>>

AdvanceToEnd ==
    /\ Lost
    /\ ui' = Ready
    /\ sessMap' = [k \in {} |-> NoSession]
    /\ cleared' = TRUE
    /\ UNCHANGED <<last, crossed, sessVars, io>>

(* No handler holds the session any more: the erase has destroyed it, and  *)
(* its id_ and its socket are used after that.                             *)
Dangling == ui.pc \in {"emit", "socket"} /\ st[ui.sess] \in {"lost", "closed"}

Crash ==
    /\ Lost \/ Dangling
    /\ ui' = [Ready EXCEPT !.pc = "crashed"]
    /\ UNCHANGED <<mapVars, sessVars, io>>

(* ~ChatClient stops the io context and joins its thread.                  *)
Stop ==
    /\ ui = Ready
    /\ ui' = [Ready EXCEPT !.pc = "join"]
    /\ UNCHANGED <<mapVars, sessVars, io>>

(* Mutant: the context is not stopped, and runs as long as it has work. *)
JoinWithoutStop ==
    /\ ui.pc = "join" /\ io = Idle
    /\ \A s \in Session : st[s] \in {"none", "lost", "closed"}
    /\ ui' = [Ready EXCEPT !.pc = "destroyed"]
    /\ UNCHANGED <<mapVars, sessVars, io>>

Join ==
    /\ ui.pc = "join" /\ io = Idle
    /\ ui' = [Ready EXCEPT !.pc = "destroyed"]
    /\ UNCHANGED <<mapVars, sessVars, io>>

-----------------------------------------------------------------------------
(* The network: the connection is made or fails, the answer arrives or the *)
(* read fails.  A closed socket completes nothing but errors.              *)
Alive == ui.pc \notin {"crashed", "destroyed"}

Establish(s) == /\ Alive /\ st[s] = "connecting" /\ sock[s]
                /\ st' = [st EXCEPT ![s] = "established"]
                /\ UNCHANGED <<mapVars, key, sock, routed, ui, io>>

Answer(s) == /\ Alive /\ st[s] = "hello" /\ sock[s]
             /\ st' = [st EXCEPT ![s] = "answered"]
             /\ UNCHANGED <<mapVars, key, sock, routed, ui, io>>

-----------------------------------------------------------------------------
(* The io thread.                                                          *)
Runs == io = Idle /\ ui.pc \notin {"join", "destroyed", "crashed"}

(* sendHandshake(1), and sigConnected.                                     *)
OnConnect(s) ==
    /\ Runs /\ st[s] = "established"
    /\ st' = [st EXCEPT ![s] = "hello"]
    /\ UNCHANGED <<mapVars, key, sock, routed, ui, io>>

(* Errors are logged: the entry stays, and nothing is tried again.         *)
OnError(s) ==
    /\ Runs /\ st[s] \in {"connecting", "hello", "open"}
    /\ st' = [st EXCEPT ![s] = "lost"]
    /\ UNCHANGED <<mapVars, key, sock, routed, ui, io>>

(* onHandShake: the Hello verifies and sigHandshakeFinished is emitted,    *)
OnHandShakeGood(s) ==
    /\ Runs /\ st[s] = "answered"
    /\ st' = [st EXCEPT ![s] = "open"]
    /\ UNCHANGED <<mapVars, key, sock, routed, ui, io>>

(* or X25519 fails and that is all,                                        *)
OnHandShakeNoSecret(s) ==
    /\ Runs /\ st[s] = "answered"
    /\ st' = [st EXCEPT ![s] = "lost"]
    /\ UNCHANGED <<mapVars, key, sock, routed, ui, io>>

(* Mutant: close is not called. *)
CloseForgotten(s) == UNCHANGED io
StartsClose(s) == io' = [pc |-> "erase", sess |-> s]

(* or the signature does not verify, and close calls onClose,              *)
OnHandShakeBad(s) ==
    /\ Runs /\ st[s] = "answered"
    /\ st' = [st EXCEPT ![s] = "closing"]
    /\ StartsClose(s)
    /\ UNCHANGED <<mapVars, key, sock, routed, ui>>

(* which erases the entry                                                  *)
OnClose ==
    /\ io.pc = "erase" /\ ui.pc # "crashed"
    /\ sessMap' = Without(sessMap, key[io.sess])
    /\ io' = [io EXCEPT !.pc = "emit"]
    /\ UNCHANGED <<last, crossed, cleared, sessVars, ui>>

(* and then emits sigClose, whatever doConnect has inserted meanwhile;     *)
EmitClose ==
    /\ io.pc = "emit" /\ ui.pc # "crashed"
    /\ last' = [last EXCEPT ![key[io.sess]] = "closed"]
    /\ io' = [io EXCEPT !.pc = "socket"]
    /\ UNCHANGED <<sessMap, crossed, cleared, sessVars, ui>>

(* last, the socket is closed.                                             *)
CloseSocket ==
    /\ io.pc = "socket" /\ ui.pc # "crashed"
    /\ sock' = [sock EXCEPT ![io.sess] = FALSE]
    /\ st' = [st EXCEPT ![io.sess] = "closed"]
    /\ io' = Idle
    /\ UNCHANGED <<mapVars, key, routed, ui>>

-----------------------------------------------------------------------------
Answered(s) == OnHandShakeGood(s) \/ OnHandShakeNoSecret(s) \/ OnHandShakeBad(s)

Application ==
    \/ \E s \in Session : BeginConnect(s)
    \/ EndConnect \/ BeginFind \/ EndFind \/ Stop
    \/ BeginClose \/ Visit \/ VisitEmit \/ VisitSocket \/ AdvanceToEntry \/ AdvanceToEnd \/ Crash

Network(s) == Establish(s) \/ Answer(s)
IoThread(s) == OnConnect(s) \/ OnError(s) \/ Answered(s)

Closing == OnClose \/ EmitClose \/ CloseSocket

Next == \/ Application \/ Join \/ Closing
        \/ \E s \in Session : Network(s) \/ IoThread(s)

Spec == Init /\ [][Next]_vars

(* A thread runs what it has to run, a connection is made or refused or    *)
(* times out, a read on a closed socket fails, and the application         *)
(* finishes the call it is in.  A peer may stay silent for ever.           *)
Fairness ==
    /\ WF_vars(Closing) /\ WF_vars(Join)
    /\ WF_vars(EndConnect) /\ WF_vars(EndFind)
    /\ WF_vars(Visit \/ VisitEmit \/ VisitSocket)
    /\ WF_vars(AdvanceToEnd \/ Crash)
    /\ \A s \in Session :
          /\ WF_vars(Establish(s) \/ (st[s] = "connecting" /\ OnError(s)))
          /\ WF_vars(~sock[s] /\ OnError(s))
          /\ SF_vars(OnConnect(s)) /\ SF_vars(Answered(s))

FairSpec == Spec /\ Fairness

-----------------------------------------------------------------------------
(* Every variable has its type. *)
TypeOK ==
    /\ DOMAIN sessMap \in SUBSET Ident
    /\ \A k \in DOMAIN sessMap : sessMap[k] \in Session
    /\ key \in [Session -> Ident \cup {NoKey}]
    /\ st \in [Session -> {"none", "connecting", "established", "hello", "answered",
                           "open", "lost", "closing", "closed"}]
    /\ sock \in [Session -> BOOLEAN]
    /\ ui \in [pc : {"ready", "insert", "find", "visit", "emit", "socket", "advance", "crashed",
                      "join", "destroyed"},
               key : Ident \cup {NoKey}, sess : Session \cup {NoSession}]
    /\ io \in [pc : {"idle", "erase", "emit", "socket"}, sess : Session \cup {NoSession}]
    /\ routed \in [Session -> SUBSET Ident]
    /\ last \in [Ident -> {"none", "connect", "closed"}]
    /\ crossed \in [Ident -> BOOLEAN]
    /\ cleared \in BOOLEAN

(* The client implements the directory of peers: a session is entitled to  *)
(* the key that doConnect was called with.                                 *)
Directory == INSTANCE PeerDirectory WITH
    Id <- Ident, Owner <- Session, NoOwner <- NoSession,
    entitled <- [s \in Session |-> {key[s]} \cap Ident],
    owner <- [k \in Ident |-> Lookup(k)],
    call <- IF ui.pc = "find" THEN {[id |-> ui.key, found |-> ui.sess]} ELSE {},
    carried <- routed
DirectorySpec == Directory!Spec

(* The application can follow the map by the signals: an id in the map was *)
(* connected after it was last reported closed, and an id it connected is  *)
(* in the map until it is told otherwise or calls close.  There are two    *)
(* gaps.  While an onClose has erased and not yet emitted, the signal is   *)
(* still to come; and if doConnect gets in there on the other thread, the  *)
(* late sigClose of the old session is taken for one of the new, until k   *)
(* is connected again.  (When close crashes no signal follows.)            *)
SignalsMatchMap ==
    \A k \in Ident :
        /\ k \in DOMAIN sessMap => last[k] = "connect" \/ crossed[k]
        /\ last[k] = "connect" =>
              \/ k \in DOMAIN sessMap \/ cleared \/ IoSignalPending(k)
              \/ ui.pc = "emit" /\ key[ui.sess] = k
              \/ ui.pc = "crashed"

(* A session that shook hands can be found under its id, unless there is   *)
(* another session for the same peer (insert did not replace that one, or  *)
(* its onClose took this one's entry) or the application called close and  *)
(* has at least come to this session.                                      *)
BeingClosed(s) == ~sock[s] \/ (ui.pc \in {"emit", "socket"} /\ ui.sess = s)

OpenIsReachable ==
    \A s \in Session :
        st[s] = "open" =>
            \/ Lookup(key[s]) = s
            \/ \E t \in Session \ {s} : key[t] = key[s]
            \/ cleared \/ BeingClosed(s)

(* Every doConnect goes on: the Hello is sent or an error logged, and an   *)
(* answer to it, or a close while it is awaited, ends the handshake.  (No  *)
(* timer ends it when the peer stays silent.)                              *)
ConnectEnds ==
    \A s \in Session :
        LET over == st[s] \in {"open", "closed", "lost"} \/ ui.pc \in {"crashed", "destroyed"} IN
        /\ st[s] = "connecting" ~> (st[s] = "hello" \/ over)
        /\ st[s] = "answered" ~> over
        /\ (st[s] = "hello" /\ ~sock[s]) ~> over

(* close and the destructor return, or the process is gone.                *)
CallsReturn == ui # Ready ~> ui.pc \in {"ready", "destroyed", "crashed"}
=============================================================================
