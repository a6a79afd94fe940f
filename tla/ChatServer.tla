----------------------------- MODULE ChatServer -----------------------------
(***************************************************************************)
(* The ChatServer object: the acceptor thread, the io threads that run the *)
(* handlers of the sessions, the application thread, and what they share:  *)
(* sess_map_, peer_list_, the key pair and mutex_sessmap_.                 *)
(*                                                                         *)
(* A session is reduced to what the server sees of it (module ChatSession  *)
(* is about the rest): the key its Hello brings, whether the signature     *)
(* verifies, and the calls containsPeerPubkey, onHandShakeFinished and     *)
(* onClose its handlers make.  A handler is cut where it takes or releases *)
(* the mutex, so that other threads run in between.                        *)
(***************************************************************************)
EXTENDS Naturals

CONSTANTS Session,       \* sessions that may be accepted
          Ident,         \* public keys of the peers
          NoKey,         \* an empty QByteArray or QString
          NoSession,     \* sess_map_.end()
          Size,          \* the number of io contexts and of their threads; 0 when
                         \* hardware_concurrency() does not know
          PeerLists,     \* the lists updatePeerList is called with
          MaxSet,        \* the number of calls of setEcKey
          MayShutDown    \* TRUE: the application may destroy the server

Ctx == 0..(Size - 1)
None == Size + 1         \* no context: the acceptor is closed, nobody has the mutex
Failed == Size + 2       \* an async_accept has failed

ASSUME ServerAssumption ==
    /\ Size \in Nat
    /\ NoKey \notin Ident
    /\ NoSession \notin Session
    /\ PeerLists \subseteq SUBSET Ident
    /\ MaxSet \in Nat
    /\ MayShutDown \in BOOLEAN

VARIABLES
    ec,         \* static_prikey_ and static_pubkey_: which call of setEcKey
                \* they are from, 0 while they are empty
    peers,      \* peer_list_
    listed,     \* every key that has been in peer_list_
    sessMap,    \* sess_map_: a function from ids to sessions
    mutex,      \* the io context whose thread holds mutex_sessmap_, or None
    nextIo,     \* next_io_
    armed,      \* the context given to the latest async_accept, None or Failed
    making,     \* the session the acceptor thread is constructing, or NoSession
    io,         \* io[c]: what the thread of context c is doing
    ui,         \* what the application thread is doing
    stopped,    \* the io contexts have been stopped
    st,         \* st[s]: the state of the connection of s
    hello,      \* hello[s]: the key in the Hello, and whether its signature is
                \* good; NoKey while the client has sent none
    ctx,        \* ctx[s]: the context of the socket
    keys,       \* keys[s]: the key pair the constructor of s got
    overlap,    \* overlap[s]: setEcKey was under way while s was constructed
    id,         \* id[s]: id_
    routed,     \* routed[s]: the ids whose texts were written on s
    lastSig     \* lastSig[k]: the last signal about the peer k

shared == <<peers, listed, sessMap, mutex>>
accVars == <<nextIo, armed, making>>
keyVars == <<ec, keys, overlap>>
sessVars == <<st, hello, ctx, id>>
vars == <<keyVars, shared, accVars, io, ui, stopped, sessVars, routed, lastSig>>

Idle == [pc |-> "idle", sess |-> NoSession]
Run == [pc |-> "run", key |-> NoKey, found |-> NoSession]

Lookup(k) == IF k \in DOMAIN sessMap THEN sessMap[k] ELSE NoSession

-----------------------------------------------------------------------------
(* Mutant: the index goes round, but is checked after it was used. *)
NextIoAdvances(n) == IF n = Size THEN 0 ELSE n + 1

(* Mutant: the contexts are used in turn. *)
NextIoRoundRobin(n) == (n + 1) % Size

(* getIocontext: the context returned is the one at next_io_, and next_io_ *)
(* is only ever reset.                                                     *)
NextIo(n) == IF n = Size THEN 0 ELSE n

(* The constructor starts the threads and the first async_accept. *)
Init ==
    /\ ec = [pri |-> 0, pub |-> 0]
    /\ peers = {} /\ listed = {}
    /\ sessMap = [k \in {} |-> NoSession]
    /\ mutex = None
    /\ armed = 0 /\ nextIo = NextIo(0) /\ making = NoSession
    /\ io = [c \in Ctx |-> Idle]
    /\ ui = Run
    /\ stopped = FALSE
    /\ st = [s \in Session |-> "none"]
    /\ hello = [s \in Session |-> [key |-> NoKey, good |-> FALSE]]
    /\ ctx = [s \in Session |-> None]
    /\ keys = [s \in Session |-> [pri |-> 0, pub |-> 0]]
    /\ overlap = [s \in Session |-> FALSE]
    /\ id = [s \in Session |-> NoKey]
    /\ routed = [s \in Session |-> {}]
    /\ lastSig = [k \in Ident |-> "none"]

-----------------------------------------------------------------------------
(* The application thread.                                                 *)

(* setEcKey assigns the private and then the public key, at any time, as   *)
(* often as the application likes, and not synchronised with the acceptor. *)
SetPriKey == /\ ui = Run /\ ec.pri < MaxSet
             /\ ui' = [ui EXCEPT !.pc = "setEcKey"]
             /\ ec' = [ec EXCEPT !.pri = @ + 1]
             /\ overlap' = [s \in Session |-> overlap[s] \/ s = making]
             /\ UNCHANGED <<keys, shared, accVars, io, stopped, sessVars, routed, lastSig>>

(* Mutant: keys in use are not changed, which is found out too late. *)
PubUnlessServing == IF DOMAIN sessMap = {} THEN ec.pri ELSE ec.pub
(* Both keys are those of the call. *)
PubOfCall == ec.pri

SetPubKey == /\ ui.pc = "setEcKey"
             /\ ui' = Run
             /\ ec' = [ec EXCEPT !.pub = PubOfCall]
             /\ UNCHANGED <<keys, overlap, shared, accVars, io, stopped, sessVars, routed, lastSig>>

UpdatePeerList ==
    /\ ui = Run /\ mutex = None
    /\ peers' \in PeerLists
    /\ listed' = listed \cup peers'
    /\ UNCHANGED <<keyVars, sessMap, mutex, accVars, io, ui, stopped, sessVars, routed, lastSig>>

(* sendTextMsg looks the id up without the mutex, so the search may see    *)
(* the map as it was when it began or as it is when it ends.               *)
BeginFind == /\ ui = Run
             /\ \E k \in Ident : ui' = [pc |-> "find", key |-> k, found |-> Lookup(k)]
             /\ UNCHANGED <<keyVars, shared, accVars, io, stopped, sessVars, routed, lastSig>>

EndFind == /\ ui.pc = "find"
           /\ ui' = Run
           /\ \E s \in {ui.found, Lookup(ui.key)} :
                 routed' = IF s = NoSession THEN routed
                           ELSE [routed EXCEPT ![s] = @ \cup {ui.key}]
           /\ UNCHANGED <<keyVars, shared, accVars, io, stopped, sessVars, lastSig>>

(* ~ChatServer: close the acceptor and stop its context, join its thread,  *)
(* which may be in the middle of a handler, stop the io contexts, join     *)
(* their threads.                                                          *)
StopAcceptor == /\ MayShutDown /\ ui = Run
                /\ ui' = [ui EXCEPT !.pc = "stopAcceptor"]
                /\ armed' = None
                /\ UNCHANGED <<keyVars, shared, nextIo, making, io, stopped, sessVars, routed, lastSig>>


(* Mutant: only the work guards go, and the pending reads keep run() busy. *)
OnlyWorkGuards == FALSE

(* stop() ends run() whatever work is left. *)
StopsRun == TRUE

StopContexts == /\ ui.pc = "stopAcceptor" /\ making = NoSession
                /\ ui' = [ui EXCEPT !.pc = "join"]
                /\ stopped' = StopsRun
                /\ UNCHANGED <<keyVars, shared, accVars, io, sessVars, routed, lastSig>>

Join == /\ ui.pc = "join" /\ stopped /\ \A c \in Ctx : io[c] = Idle
        /\ ui' = [ui EXCEPT !.pc = "destroyed"]
        /\ UNCHANGED <<keyVars, shared, accVars, io, stopped, sessVars, routed, lastSig>>

-----------------------------------------------------------------------------
(* A client connects; a closed acceptor refuses it.  *)
Connect(s) ==
    /\ st[s] = "none" /\ armed # None
    /\ st' = [st EXCEPT ![s] = "queued"]
    /\ UNCHANGED <<keyVars, shared, accVars, io, ui, stopped, hello, ctx, id, routed, lastSig>>

Arrived(s) == hello[s].key # NoKey

(* Its Hello arrives in full, at once, later or never; a client whose two  *)
(* keys do not belong together signs it with the wrong one.  What arrives  *)
(* when the io contexts have stopped is not read and left out.             *)
SendHello(s) ==
    /\ st[s] \in {"queued", "reading"} /\ ~Arrived(s) /\ ~stopped
    /\ \E k \in Ident, good \in BOOLEAN :
          hello' = [hello EXCEPT ![s] = [key |-> k, good |-> good]]
    /\ UNCHANGED <<keyVars, shared, accVars, io, ui, stopped, st, ctx, id, routed, lastSig>>

(* An accept is outstanding.  After an index out of range the behaviour is *)
(* undefined, and nothing that would follow is modelled.                   *)
Accepting == armed \in Ctx /\ making = NoSession

(* The acceptor thread: the constructor of the new session copies the      *)
(* private key with getEcKey ...                                           *)
OnAccept(s) ==
    /\ Accepting /\ st[s] = "queued"
    /\ making' = s
    /\ ctx' = [ctx EXCEPT ![s] = armed]
    /\ keys' = [keys EXCEPT ![s].pri = ec.pri]
    /\ overlap' = [overlap EXCEPT ![s] = ui.pc = "setEcKey"]
    /\ UNCHANGED <<ec, shared, armed, nextIo, io, ui, stopped, st, hello, id, routed, lastSig>>

(* ... and the public key, the session waits for the Hello, and doAccept   *)
(* is called again; on an acceptor closed meanwhile that leads nowhere.    *)
EndAccept ==
    /\ making # NoSession
    /\ making' = NoSession
    /\ keys' = [keys EXCEPT ![making].pub = ec.pub]
    /\ st' = [st EXCEPT ![making] = "reading"]
    /\ armed' = IF armed = None THEN None ELSE nextIo
    /\ nextIo' = NextIo(nextIo)
    /\ UNCHANGED <<ec, overlap, shared, io, ui, stopped, hello, ctx, id, routed, lastSig>>

(* An error is logged and nothing is accepted any more. *)
AcceptError ==
    /\ Accepting
    /\ armed' = Failed
    /\ UNCHANGED <<keyVars, shared, nextIo, making, io, ui, stopped, sessVars, routed, lastSig>>

-----------------------------------------------------------------------------
(* The thread of io context c.  *)
Starts(c, s) == /\ ~stopped /\ io[c] = Idle /\ ctx[s] = c

(* Mutant: the signature is not checked. *)
AcceptsAnySignature(s) == hello[s].key \in peers

(* What makes onHandShake go on to onHandShakeFinished. *)
Accepts(s) == hello[s].key \in peers /\ hello[s].good

(* Mutant: id_ is never set. *)
AdoptsNothing(s) == NoKey

(* id_ is the key of the Hello as soon as the peer list has it. *)
Adopts(s) == IF hello[s].key \in peers THEN hello[s].key ELSE NoKey

(* onHandShake up to the signature: containsPeerPubkey takes the mutex.    *)
OnHandShake(c, s) ==
    /\ Starts(c, s) /\ st[s] = "reading" /\ Arrived(s)
    /\ mutex = None
    /\ st' = [st EXCEPT ![s] = "checked"]
    /\ id' = [id EXCEPT ![s] = Adopts(s)]
    /\ io' = [io EXCEPT ![c] = [pc |-> IF Accepts(s) THEN "finish" ELSE "close", sess |-> s]]
    /\ UNCHANGED <<keyVars, shared, accVars, ui, stopped, hello, ctx, routed, lastSig>>

(* X25519 fails: the handler logs it and returns.  It held the last        *)
(* pointer to the session, and ~ChatSession closes the socket; nobody is   *)
(* told.                                                                   *)
OnHandShakeNoSecret(c, s) ==
    /\ Starts(c, s) /\ st[s] = "reading" /\ Arrived(s) /\ Accepts(s)
    /\ mutex = None
    /\ st' = [st EXCEPT ![s] = "closed"]
    /\ id' = [id EXCEPT ![s] = Adopts(s)]
    /\ UNCHANGED <<keyVars, shared, accVars, io, ui, stopped, hello, ctx, routed, lastSig>>

(* A read fails: the handler logs it, and no handler of s follows.  Before *)
(* the announcement that destroys the session, as above; later the entry   *)
(* of the session stays in the map and keeps the socket open.              *)
OnReadError(c, s) ==
    /\ Starts(c, s) /\ st[s] \in {"reading", "open"}
    /\ st' = [st EXCEPT ![s] = IF @ = "reading" THEN "closed" ELSE "lost"]
    /\ UNCHANGED <<keyVars, shared, accVars, io, ui, stopped, hello, ctx, id, routed, lastSig>>

(* onClose and onHandShakeFinished take the mutex ...                      *)
Lock(c) ==
    /\ io[c].pc \in {"close", "finish"} /\ mutex = None
    /\ mutex' = c
    /\ io' = [io EXCEPT ![c].pc = IF @ = "close" THEN "erase" ELSE "insert"]
    /\ UNCHANGED <<keyVars, peers, listed, sessMap, accVars, ui, stopped, sessVars, routed, lastSig>>

(* Mutant: the mutex is not released. *)
KeepLock == UNCHANGED mutex

(* The lock_guard of a handler goes out of scope. *)
Unlock == mutex' = None

(* ... onClose erases the id, emits sigClose and releases the mutex; the   *)
(* socket is closed.                                                       *)
OnClose(c) ==
    LET s == io[c].sess IN
    /\ io[c].pc = "erase"
    /\ sessMap' = [k \in DOMAIN sessMap \ {id[s]} |-> sessMap[k]]
    /\ lastSig' = [k \in Ident |-> IF k = id[s] THEN "closed" ELSE lastSig[k]]
    /\ Unlock
    /\ st' = [st EXCEPT ![s] = "closed"]
    /\ io' = [io EXCEPT ![c] = Idle]
    /\ UNCHANGED <<keyVars, peers, listed, accVars, ui, stopped, hello, ctx, id, routed>>

(* std::map::insert keeps an entry of the same id. *)
Insert(m, k, s) == [j \in DOMAIN m \cup {k} |-> IF j \in DOMAIN m THEN m[j] ELSE s]

(* ... onHandShakeFinished inserts the session, releases the mutex,        *)
OnHandShakeFinished(c) ==
    LET s == io[c].sess IN
    /\ io[c].pc = "insert"
    /\ sessMap' = Insert(sessMap, id[s], s)
    /\ Unlock
    /\ io' = [io EXCEPT ![c].pc = "emit"]
    /\ UNCHANGED <<keyVars, peers, listed, accVars, ui, stopped, st, hello, ctx, id, routed, lastSig>>

(* and only then emits sigHandshakeFinished; the session reads on.         *)
EmitFinished(c) ==
    LET s == io[c].sess IN
    /\ io[c].pc = "emit"
    /\ lastSig' = [lastSig EXCEPT ![id[s]] = "finished"]
    /\ st' = [st EXCEPT ![s] = "open"]
    /\ io' = [io EXCEPT ![c] = Idle]
    /\ UNCHANGED <<keyVars, shared, accVars, ui, stopped, hello, ctx, id, routed>>

-----------------------------------------------------------------------------
Handler(c) == \/ Lock(c) \/ OnClose(c) \/ OnHandShakeFinished(c) \/ EmitFinished(c)
              \/ \E s \in Session : OnHandShake(c, s)

Destructor == StopContexts \/ Join

Application == SetPriKey \/ SetPubKey \/ UpdatePeerList \/ BeginFind \/ EndFind \/ StopAcceptor

Next == \/ Application \/ Destructor \/ AcceptError
        \/ EndAccept
        \/ \E s \in Session : Connect(s) \/ SendHello(s) \/ OnAccept(s)
        \/ \E s \in Session, c \in Ctx : OnReadError(c, s) \/ OnHandShakeNoSecret(c, s)
        \/ \E c \in Ctx : Handler(c)

Spec == Init /\ [][Next]_vars

(* The threads run what they have to run, and the application finishes the *)
(* call it is in.  A thread that waits for the mutex gets it in the end.   *)
(* Nothing obliges a client to connect or to send its Hello.               *)
Fairness == /\ \A c \in Ctx : SF_vars(Handler(c))
            /\ \A s \in Session : WF_vars(OnAccept(s))
            /\ WF_vars(EndAccept) /\ WF_vars(Destructor) /\ WF_vars(SetPubKey) /\ WF_vars(EndFind)

FairSpec == Spec /\ Fairness

-----------------------------------------------------------------------------
Destroying == ui.pc \in {"stopAcceptor", "join", "destroyed"}

(* Every variable has its type. *)
TypeOK ==
    /\ ec \in [pri : Nat, pub : Nat]
    /\ peers \in SUBSET Ident /\ listed \in SUBSET Ident
    /\ DOMAIN sessMap \in SUBSET Ident
    /\ \A k \in DOMAIN sessMap : sessMap[k] \in Session
    /\ mutex \in Ctx \cup {None}
    /\ nextIo \in Nat /\ armed \in Nat /\ making \in Session \cup {NoSession}
    /\ io \in [Ctx -> [pc : {"idle", "close", "finish", "erase", "insert", "emit"},
                       sess : Session \cup {NoSession}]]
    /\ ui \in [pc : {"run", "setEcKey", "find", "stopAcceptor", "join", "destroyed"},
               key : Ident \cup {NoKey}, found : Session \cup {NoSession}]
    /\ stopped \in BOOLEAN
    /\ st \in [Session -> {"none", "queued", "reading", "checked", "open", "closed", "lost"}]
    /\ hello \in [Session -> [key : Ident \cup {NoKey}, good : BOOLEAN]]
    /\ ctx \in [Session -> Nat]
    /\ keys \in [Session -> [pri : Nat, pub : Nat]]
    /\ overlap \in [Session -> BOOLEAN]
    /\ id \in [Session -> Ident \cup {NoKey}]
    /\ routed \in [Session -> SUBSET Ident]
    /\ lastSig \in [Ident -> {"none", "finished", "closed"}]

(* The server implements the directory of peers.  A session is entitled to *)
(* the key in its Hello when the signature is good and the key has been in *)
(* the peer list: so what sendTextMsg finds has proved who it is, however  *)
(* the io threads, a reconnect and the search interleave.                  *)
Directory == INSTANCE PeerDirectory WITH
    Id <- Ident, Owner <- Session, NoOwner <- NoSession,
    entitled <- [s \in Session |-> IF hello[s].good THEN {hello[s].key} \cap listed ELSE {}],
    owner <- [k \in Ident |-> Lookup(k)],
    call <- IF ui.pc = "find" THEN {[id |-> ui.key, found |-> ui.found]} ELSE {},
    carried <- routed
DirectorySpec == Directory!Spec

(* What the application was told last about an id is what the map says,    *)
(* except while the thread that inserted the session has not emitted yet.  *)
(* It holds because one thread runs all handlers.                          *)
SignalsMatchMap ==
    \A k \in Ident :
        (\A c \in Ctx : ~(io[c].pc = "emit" /\ id[io[c].sess] = k)) =>
            (lastSig[k] = "finished" <=> k \in DOMAIN sessMap)

(* The static_key a session puts in its Hello verifies its signature: its  *)
(* two keys are from one call of setEcKey, or both empty, however often    *)
(* and whenever setEcKey is called between the connections.  Only where a  *)
(* call overlaps the construction of the session may it get half a pair:   *)
(* nothing synchronises the two (OnAccept).                                *)
KeysBelongTogether ==
    \A s \in Session :
        st[s] \notin {"none", "queued"} /\ ~overlap[s] => keys[s].pri = keys[s].pub

(* Every accepted socket gets one of the io contexts: getIocontext never   *)
(* reads past client_io_ctxs_, although it compares after it has indexed.  *)
(* With no context at all the first call already does (ContextStaysInRange *)
(* in ChatServerProofs).                                                   *)
ContextInRange == armed \in Ctx \cup {None, Failed}

(* Every client whose Hello has arrived, while it is in the queue or later *)
(* is dealt with to the end: it is announced, or its socket is closed,     *)
(* although its handlers wait for the mutex.  Excepted are a server that   *)
(* is being destroyed, and a client still in the queue when an             *)
(* async_accept has failed: nothing arms the next one.  A client that      *)
(* stays silent is read for ever, for there is no timer.                   *)
ClientIsHandled ==
    \A s \in Session :
        (Arrived(s) /\ st[s] \in {"queued", "reading"})
            ~> (st[s] \in {"open", "closed"} \/ Destroying
                \/ (armed = Failed /\ st[s] = "queued"))

(* The destructor returns: no handler and no lock keeps join waiting.      *)
ShutdownCompletes == ui.pc = "stopAcceptor" ~> ui.pc = "destroyed"

(* sess_map_ is not searched while another thread changes it.              *)
NoMapRace ==
    ui.pc = "find" => \A c \in Ctx : io[c].pc \notin {"erase", "insert"}

(* Only a session that has authenticated as k acts on the entry of k.      *)
EvictsOnlyItself ==
    \A c \in Ctx : io[c].pc = "erase" =>
        \/ id[io[c].sess] \notin DOMAIN sessMap
        \/ sessMap[id[io[c].sess]] = io[c].sess

=============================================================================
