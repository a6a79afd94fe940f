-------------------------- MODULE ChatServerProofs --------------------------
(***************************************************************************)
(* What TLAPS proves of ChatServer for every set of sessions and keys and  *)
(* every number of io contexts.                                            *)
(***************************************************************************)
EXTENDS ChatServer, TLAPS

(***************************************************************************)
(* The inductive invariant.  Its parts say why the threads of a server     *)
(* cannot disturb each other's handlers.                                   *)
(***************************************************************************)

(* Only the first io context is ever used: next_io_ is only reset, so all  *)
(* sockets, and with them all handlers, belong to context 0.               *)
OneThread ==
    /\ nextIo = 0
    /\ armed \in {0, None, Failed}
    /\ \A s \in Session : ctx[s] \in {0, None}
    /\ \A c \in Ctx \ {0} : io[c] = Idle

(* A handler that waits for the mutex or holds it is about a session that  *)
(* has read its Hello and does nothing else; one that is on its way to     *)
(* announce a handshake has the peer's proof of the id it will enter.      *)
Proven(s) == hello[s].good /\ id[s] = hello[s].key /\ id[s] \in listed

HandlerInv ==
    \A c \in Ctx : io[c] # Idle =>
        /\ io[c].pc # "idle" /\ io[c].sess \in Session
        /\ st[io[c].sess] = "checked"
        /\ io[c].pc \in {"finish", "insert", "emit"} => Proven(io[c].sess)

(* A search is for the id of somebody; a client that has not sent a Hello  *)
(* has proved nothing; and whoever is in the peer list has been listed.    *)
CallInv ==
    /\ ui.pc = "find" => ui.key \in Ident
    /\ \A s \in Session : ~Arrived(s) => ~hello[s].good
    /\ peers \subseteq listed

(* The signals and the map, with the handler that is between the two.      *)
SignalInv ==
    /\ \A c \in Ctx : io[c].pc = "emit" => id[io[c].sess] \in DOMAIN sessMap
    /\ SignalsMatchMap

(* The two keys of the server belong together outside setEcKey.  A session *)
(* under construction that has met no setEcKey has the private half of     *)
(* what the server has, so the public half it gets next is the other one.  *)
KeysInv ==
    /\ ui.pc # "setEcKey" => ec.pri = ec.pub
    /\ making # NoSession =>
          /\ st[making] = "queued"
          /\ ~overlap[making] => ui.pc # "setEcKey" /\ keys[making].pri = ec.pri
    /\ KeysBelongTogether

IInv == OneThread /\ HandlerInv /\ CallInv /\ SignalInv /\ KeysInv

-----------------------------------------------------------------------------
LEMMA ContextFacts ==
    /\ Size \in Nat /\ None \notin Ctx /\ Failed \notin Ctx /\ None # 0 /\ Failed # 0
    /\ None # Failed /\ None \in Nat /\ Failed \in Nat /\ Ctx \in SUBSET Nat
    /\ NextIo(0) = 0 /\ (Size # 0 <=> 0 \in Ctx)
BY ServerAssumption DEF ServerAssumption, Ctx, None, Failed, NextIo

(* What a search finds is a session or the end of the map.                 *)
LEMMA LookupType ==
  ASSUME TypeOK
  PROVE  \A k : Lookup(k) \in Session \cup {NoSession}
BY DEF TypeOK, Lookup

(* A handler that runs is one of context 0, and there is no other.         *)
LEMMA OnlyHandler ==
  ASSUME OneThread, HandlerInv, NEW c \in Ctx, io[c].pc # "idle"
  PROVE  /\ c = 0 /\ io[c] # Idle /\ io[c].sess \in Session
         /\ st[io[c].sess] = "checked"
         /\ io[c].pc \in {"finish", "insert", "emit"} => Proven(io[c].sess)
BY DEF OneThread, HandlerInv, Idle

(* The initial state.                                                      *)
LEMMA Initially == Init => TypeOK /\ IInv
<1> SUFFICES ASSUME Init PROVE TypeOK /\ IInv
  OBVIOUS
<1>1. TypeOK
  BY ContextFacts, ServerAssumption DEF Init, TypeOK, Idle, Run
<1>2. OneThread /\ HandlerInv /\ CallInv
  BY ContextFacts DEF Init, OneThread, HandlerInv, CallInv, Arrived, Idle, Run
<1>3. SignalInv /\ KeysInv
  BY DEF Init, SignalInv, SignalsMatchMap, KeysInv, KeysBelongTogether, Idle, Run
<1> QED BY <1>1, <1>2, <1>3 DEF IInv

LEMMA TypeStep == TypeOK /\ IInv /\ [Next]_vars => TypeOK'
<1> SUFFICES ASSUME TypeOK, IInv, [Next]_vars PROVE TypeOK'
  OBVIOUS
<1> USE DEF keyVars, shared, accVars, sessVars, IInv
<1>1. CASE SetPriKey
  <2>1. overlap' \in [Session -> BOOLEAN]
    <3>1. \A s \in Session : (overlap[s] \/ s = making) \in BOOLEAN
      OBVIOUS
    <3> QED BY <1>1, <3>1 DEF SetPriKey
  <2>2. ec' \in [pri : Nat, pub : Nat]
    BY <1>1 DEF SetPriKey, TypeOK
  <2> QED BY <1>1, <2>1, <2>2 DEF SetPriKey, Run, TypeOK
<1>2. CASE SetPubKey
  BY <1>2 DEF SetPubKey, PubOfCall, Run, TypeOK
<1>3. CASE UpdatePeerList
  BY <1>3, ServerAssumption DEF UpdatePeerList, ServerAssumption, TypeOK
<1>4. CASE BeginFind
  BY <1>4, LookupType DEF BeginFind, TypeOK
<1>5. CASE EndFind
  <2>1. ui.key \in Ident /\ ui.found \in Session \cup {NoSession}
        /\ Lookup(ui.key) \in Session \cup {NoSession}
    BY <1>5, LookupType DEF EndFind, CallInv, TypeOK
  <2>2. routed' \in [Session -> SUBSET Ident]
    BY <1>5, <2>1 DEF EndFind, TypeOK
  <2> QED BY <1>5, <2>2 DEF EndFind, Run, TypeOK
<1>6. CASE StopAcceptor
  BY <1>6, ContextFacts DEF StopAcceptor, TypeOK
<1>7. CASE StopContexts
  BY <1>7 DEF StopContexts, StopsRun, TypeOK
<1>8. CASE Join
  BY <1>8 DEF Join, TypeOK
<1>9. CASE AcceptError
  BY <1>9, ContextFacts DEF AcceptError, TypeOK
<1>10. ASSUME NEW s \in Session, Connect(s) PROVE TypeOK'
  BY <1>10 DEF Connect, TypeOK
<1>11. ASSUME NEW s \in Session, OnAccept(s) PROVE TypeOK'
  BY <1>11, ContextFacts DEF OnAccept, TypeOK
<1>21. ASSUME NEW s \in Session, SendHello(s) PROVE TypeOK'
  BY <1>21 DEF SendHello, TypeOK
<1>22. CASE EndAccept
  <2>1. making \in Session
    BY <1>22 DEF EndAccept, TypeOK
  <2> QED BY <1>22, <2>1, ContextFacts DEF EndAccept, NextIo, TypeOK
<1>12. ASSUME NEW s \in Session, NEW c \in Ctx, OnReadError(c, s) PROVE TypeOK'
  BY <1>12 DEF OnReadError, TypeOK
<1>13. ASSUME NEW s \in Session PROVE TypeOK => Adopts(s) \in Ident \cup {NoKey}
  BY DEF Adopts, TypeOK
<1>14. ASSUME NEW s \in Session, NEW c \in Ctx, OnHandShakeNoSecret(c, s) PROVE TypeOK'
  BY <1>13, <1>14 DEF OnHandShakeNoSecret, TypeOK
<1>15. ASSUME NEW s \in Session, NEW c \in Ctx, OnHandShake(c, s) PROVE TypeOK'
  <2>1. [pc |-> IF Accepts(s) THEN "finish" ELSE "close", sess |-> s]
          \in [pc : {"idle", "close", "finish", "erase", "insert", "emit"},
               sess : Session \cup {NoSession}]
    OBVIOUS
  <2> QED BY <1>13, <1>15, <2>1 DEF OnHandShake, TypeOK
<1>16. ASSUME NEW c \in Ctx, Lock(c) PROVE TypeOK'
  <2>1. io' \in [Ctx -> [pc : {"idle", "close", "finish", "erase", "insert", "emit"},
                         sess : Session \cup {NoSession}]]
    <3> DEFINE PC == {"idle", "close", "finish", "erase", "insert", "emit"}
               S == Session \cup {NoSession}
               to == IF io[c].pc = "close" THEN "erase" ELSE "insert"
    <3>1. to \in PC /\ io \in [Ctx -> [pc : PC, sess : S]]
      BY DEF TypeOK
    <3>2. io' = [io EXCEPT ![c].pc = to]
      BY <1>16 DEF Lock
    <3> HIDE DEF PC, S, to
    <3>3. io' \in [Ctx -> [pc : PC, sess : S]]
      BY <3>1, <3>2
    <3> QED
      BY <3>3 DEF PC, S
  <2>2. mutex' \in Ctx
    BY <1>16 DEF Lock
  <2> QED
    BY <1>16, <2>1, <2>2 DEF Lock, TypeOK
<1>17. ASSUME NEW c \in Ctx, OnClose(c) PROVE TypeOK'
  <2>1. io[c].sess \in Session
    BY <1>17, OnlyHandler DEF OnClose
  <2> QED BY <1>17, <2>1 DEF OnClose, Unlock, Idle, TypeOK
<1>18. ASSUME NEW c \in Ctx, OnHandShakeFinished(c) PROVE TypeOK'
  <2> DEFINE s == io[c].sess
  <2>1. s \in Session /\ Proven(s)
    BY <1>18, OnlyHandler DEF OnHandShakeFinished
  <2>2. id[s] \in Ident
    BY <2>1 DEF Proven, TypeOK
  <2>3. DOMAIN sessMap' \in SUBSET Ident /\ \A k \in DOMAIN sessMap' : sessMap'[k] \in Session
    <3>1. sessMap' = Insert(sessMap, id[s], s)
      BY <1>18 DEF OnHandShakeFinished
    <3>2. DOMAIN sessMap' = DOMAIN sessMap \cup {id[s]}
      BY <3>1 DEF Insert
    <3> QED BY <2>1, <2>2, <3>1, <3>2 DEF Insert, TypeOK
  <2>4. io' \in [Ctx -> [pc : {"idle", "close", "finish", "erase", "insert", "emit"},
                        sess : Session \cup {NoSession}]]
    BY <1>18 DEF OnHandShakeFinished, TypeOK
  <2> QED BY <1>18, <2>3, <2>4 DEF OnHandShakeFinished, Unlock, TypeOK
<1>19. ASSUME NEW c \in Ctx, EmitFinished(c) PROVE TypeOK'
  <2>1. io[c].sess \in Session
    BY <1>19, OnlyHandler DEF EmitFinished
  <2> QED BY <1>19, <2>1 DEF EmitFinished, Idle, TypeOK
<1>20. CASE UNCHANGED vars
  BY <1>20 DEF vars, TypeOK
<1> QED BY <1>1, <1>2, <1>3, <1>4, <1>5, <1>6, <1>7, <1>8, <1>9, <1>10, <1>11, <1>12,
           <1>14, <1>15, <1>16, <1>17, <1>18, <1>19, <1>20, <1>21, <1>22
        DEF Next, Application, Destructor, Handler

LEMMA OneThreadStep == TypeOK /\ IInv /\ [Next]_vars => OneThread'
<1> SUFFICES ASSUME TypeOK, IInv, [Next]_vars PROVE OneThread'
  OBVIOUS
<1> USE DEF keyVars, shared, accVars, sessVars, IInv
<1>1. CASE UNCHANGED <<nextIo, armed, ctx, io>>
  BY <1>1 DEF OneThread
<1>2. CASE StopAcceptor \/ AcceptError
  BY <1>2 DEF StopAcceptor, AcceptError, OneThread
<1>3. ASSUME NEW s \in Session, OnAccept(s) PROVE OneThread'
  <2>1. armed = 0
    BY <1>3, ContextFacts DEF OnAccept, Accepting, OneThread
  <2>2. ctx' = [ctx EXCEPT ![s] = 0]
    BY <1>3, <2>1 DEF OnAccept
  <2>3. \A r \in Session : ctx'[r] \in {0, None}
    BY <2>2 DEF OneThread, TypeOK
  <2> QED BY <1>3, <2>3 DEF OnAccept, OneThread
<1>10. CASE EndAccept
  <2>1. nextIo' = 0 /\ armed' \in {0, None} /\ io' = io /\ ctx' = ctx
    BY <1>10, ContextFacts DEF EndAccept, OneThread
  <2> QED BY <2>1 DEF OneThread
<1>4. ASSUME NEW s \in Session, NEW c \in Ctx, OnHandShake(c, s) PROVE OneThread'
  <2>1. c = 0
    BY <1>4, ContextFacts DEF OnHandShake, Starts, OneThread
  <2> QED BY <1>4, <2>1 DEF OnHandShake, OneThread, TypeOK
<1>5. ASSUME NEW c \in Ctx, Lock(c) \/ OnClose(c) \/ OnHandShakeFinished(c) \/ EmitFinished(c)
      PROVE  OneThread'
  <2>1. c = 0
    BY <1>5, OnlyHandler DEF Lock, OnClose, OnHandShakeFinished, EmitFinished
  <2>2. UNCHANGED <<nextIo, armed, ctx>> /\ \A d \in Ctx \ {0} : io'[d] = io[d]
    BY <1>5, <2>1 DEF Lock, OnClose, OnHandShakeFinished, EmitFinished, TypeOK
  <2> QED BY <2>2 DEF OneThread
<1>6. CASE Application \/ Destructor
  BY <1>1, <1>2, <1>6 DEF Application, SetPriKey, SetPubKey, UpdatePeerList, BeginFind, EndFind,
                          Destructor, StopContexts, Join
<1>7. ASSUME NEW s \in Session, Connect(s) \/ SendHello(s) PROVE OneThread'
  BY <1>1, <1>7 DEF Connect, SendHello
<1>8. ASSUME NEW s \in Session, NEW c \in Ctx, OnReadError(c, s) \/ OnHandShakeNoSecret(c, s)
      PROVE  OneThread'
  BY <1>1, <1>8 DEF OnReadError, OnHandShakeNoSecret
<1>9. CASE UNCHANGED vars
  BY <1>1, <1>9 DEF vars
<1> QED BY <1>2, <1>3, <1>4, <1>5, <1>6, <1>7, <1>8, <1>9, <1>10 DEF Next, Handler

(* A session keeps its proof: the Hello of a session does not change once  *)
(* it was read, nor does its id while a handler of it runs.                *)
LEMMA HandlerStep == TypeOK /\ IInv /\ [Next]_vars => HandlerInv'
<1> SUFFICES ASSUME TypeOK, IInv, [Next]_vars PROVE HandlerInv'
  OBVIOUS
<1> USE DEF keyVars, shared, accVars, sessVars, IInv
<1>1. CASE UNCHANGED <<io, st, hello, id>> /\ listed \subseteq listed'
  BY <1>1 DEF HandlerInv, Proven
<1>2. CASE Application \/ Destructor \/ AcceptError \/ UNCHANGED vars
  BY <1>1, <1>2 DEF Application, SetPriKey, SetPubKey, UpdatePeerList, BeginFind, EndFind,
                    StopAcceptor, Destructor, StopContexts, Join, AcceptError, vars
<1>3. ASSUME NEW s \in Session, st[s] # "checked", UNCHANGED <<io, id, listed>>,
             \A r \in Session \ {s} : st'[r] = st[r] /\ hello'[r] = hello[r]
      PROVE  HandlerInv'
  <2> SUFFICES ASSUME NEW c \in Ctx, io'[c] # Idle
               PROVE  /\ io'[c].pc # "idle" /\ io'[c].sess \in Session
                      /\ st'[io'[c].sess] = "checked"
                      /\ io'[c].pc \in {"finish", "insert", "emit"} => Proven(io[c].sess)'
    BY <1>3 DEF HandlerInv
  <2>1. io[c].sess \in Session /\ st[io[c].sess] = "checked"
    BY <1>3 DEF HandlerInv
  <2>2. st'[io[c].sess] = st[io[c].sess] /\ hello'[io[c].sess] = hello[io[c].sess]
    BY <1>3, <2>1
  <2> QED BY <1>3, <2>1, <2>2 DEF HandlerInv, Proven
<1>9. ASSUME NEW s \in Session, Connect(s) \/ SendHello(s) \/ OnAccept(s) PROVE HandlerInv'
  <2>1. st[s] # "checked" /\ UNCHANGED <<io, id, listed>>
    BY <1>9 DEF Connect, SendHello, OnAccept
  <2>2. \A r \in Session \ {s} : st'[r] = st[r] /\ hello'[r] = hello[r]
    BY <1>9 DEF Connect, SendHello, OnAccept, TypeOK
  <2> QED BY <1>3, <2>1, <2>2
<1>10. CASE EndAccept
  <2>1. making \in Session /\ st[making] # "checked" /\ UNCHANGED <<io, id, listed>>
    BY <1>10 DEF EndAccept, KeysInv, TypeOK
  <2>2. \A r \in Session \ {making} : st'[r] = st[r] /\ hello'[r] = hello[r]
    BY <1>10 DEF EndAccept, TypeOK
  <2> QED BY <1>3, <2>1, <2>2
<1>4. ASSUME NEW s \in Session, NEW c \in Ctx, OnReadError(c, s) \/ OnHandShakeNoSecret(c, s)
      PROVE  HandlerInv'
  <2>1. c = 0
    BY <1>4, ContextFacts DEF OnReadError, OnHandShakeNoSecret, Starts, OneThread
  <2>2. \A d \in Ctx : io'[d] = Idle
    BY <1>4, <2>1 DEF OnReadError, OnHandShakeNoSecret, Starts, OneThread
  <2> QED BY <2>2 DEF HandlerInv
<1>5. ASSUME NEW s \in Session, NEW c \in Ctx, OnHandShake(c, s) PROVE HandlerInv'
  <2>1. c = 0 /\ \A d \in Ctx : io[d] = Idle
    BY <1>5, ContextFacts DEF OnHandShake, Starts, OneThread
  <2>2. io'[0] = [pc |-> IF Accepts(s) THEN "finish" ELSE "close", sess |-> s]
        /\ \A d \in Ctx \ {0} : io'[d] = Idle
    BY <1>5, <2>1, ContextFacts DEF OnHandShake, TypeOK
  <2>3. st'[s] = "checked" /\ id'[s] = Adopts(s) /\ hello' = hello /\ listed' = listed
    BY <1>5 DEF OnHandShake, TypeOK
  <2>4. Accepts(s) => Proven(s)'
    BY <2>3 DEF Accepts, Adopts, Proven, CallInv
  <2> QED BY <2>2, <2>3, <2>4 DEF HandlerInv
<1>6. ASSUME NEW c \in Ctx, Lock(c) PROVE HandlerInv'
  <2>1. c = 0 /\ io[c] # Idle /\ io[c].sess \in Session /\ st[io[c].sess] = "checked"
        /\ (io[c].pc = "finish" => Proven(io[c].sess)) /\ io[c].pc \in {"close", "finish"}
    BY <1>6, OnlyHandler DEF Lock
  <2>2. /\ io'[c].sess = io[c].sess
        /\ io'[c].pc = IF io[c].pc = "close" THEN "erase" ELSE "insert"
        /\ \A d \in Ctx \ {0} : io'[d] = Idle
    BY <1>6, <2>1 DEF Lock, OneThread, TypeOK
  <2>3. Proven(io[c].sess)' = Proven(io[c].sess) /\ st' = st
    BY <1>6, <2>2 DEF Lock, Proven
  <2> QED BY <2>1, <2>2, <2>3 DEF HandlerInv, Proven
<1>7. ASSUME NEW c \in Ctx, OnClose(c) \/ EmitFinished(c) PROVE HandlerInv'
  <2>1. \A d \in Ctx : io'[d] = Idle
    BY <1>7, OnlyHandler DEF OnClose, EmitFinished, OneThread, TypeOK
  <2> QED BY <2>1 DEF HandlerInv
<1>8. ASSUME NEW c \in Ctx, OnHandShakeFinished(c) PROVE HandlerInv'
  <2>1. c = 0 /\ io[c].sess \in Session /\ st[io[c].sess] = "checked" /\ Proven(io[c].sess)
    BY <1>8, OnlyHandler DEF OnHandShakeFinished
  <2>2. io'[c].sess = io[c].sess /\ io'[c].pc = "emit" /\ \A d \in Ctx \ {0} : io'[d] = Idle
    BY <1>8, <2>1 DEF OnHandShakeFinished, OneThread, TypeOK
  <2>3. UNCHANGED <<st, hello, id, listed>>
    BY <1>8 DEF OnHandShakeFinished
  <2> QED BY <2>1, <2>2, <2>3 DEF HandlerInv, Proven
<1> QED BY <1>2, <1>4, <1>5, <1>6, <1>7, <1>8, <1>9, <1>10 DEF Next, Handler

LEMMA CallStep == TypeOK /\ IInv /\ [Next]_vars => CallInv'
<1> SUFFICES ASSUME TypeOK, IInv, [Next]_vars PROVE CallInv'
  OBVIOUS
<1> USE DEF keyVars, shared, accVars, sessVars, IInv
<1>1. ui'.pc = "find" => ui'.key \in Ident
  <2>1. CASE ui' = ui \/ ui' = Run \/ BeginFind
    BY <2>1 DEF CallInv, Run, BeginFind
  <2>2. CASE SetPriKey \/ StopAcceptor \/ StopContexts \/ Join
    BY <2>2 DEF SetPriKey, StopAcceptor, StopContexts, Join, TypeOK
  <2> QED BY <2>1, <2>2
          DEF Next, Application, Destructor, Handler, vars, SetPubKey, UpdatePeerList, EndFind,
              AcceptError, Connect, SendHello, OnAccept, EndAccept, OnReadError,
              OnHandShakeNoSecret, Lock, OnClose, OnHandShakeFinished, EmitFinished, OnHandShake
<1>2. peers' \subseteq listed'
  <2>1. CASE UNCHANGED <<peers, listed>>
    BY <2>1 DEF CallInv
  <2>2. CASE UpdatePeerList
    BY <2>2 DEF UpdatePeerList
  <2> QED BY <2>1, <2>2
          DEF Next, Application, Destructor, Handler, vars, SetPriKey, SetPubKey, BeginFind, EndFind,
              StopAcceptor, StopContexts, Join, AcceptError, Connect, SendHello, OnAccept,
              EndAccept, OnReadError, OnHandShakeNoSecret, Lock, OnClose, OnHandShakeFinished, EmitFinished, OnHandShake
<1>3. \A s \in Session : ~Arrived(s)' => ~hello'[s].good
  <2>1. CASE hello' = hello
    BY <2>1 DEF CallInv, Arrived
  <2>2. ASSUME NEW s \in Session, SendHello(s)
        PROVE  \A r \in Session : ~Arrived(r)' => ~hello'[r].good
    <3>1. PICK k \in Ident, good \in BOOLEAN :
             hello' = [hello EXCEPT ![s] = [key |-> k, good |-> good]]
      BY <2>2 DEF SendHello
    <3>2. Arrived(s)'
      BY <3>1, ServerAssumption DEF ServerAssumption, Arrived, TypeOK
    <3> QED BY <3>1, <3>2 DEF CallInv, Arrived, TypeOK
  <2> QED BY <2>1, <2>2
          DEF Next, Application, Destructor, Handler, vars, SetPriKey, SetPubKey, UpdatePeerList,
              BeginFind, EndFind, StopAcceptor, StopContexts, Join, AcceptError, Connect, OnAccept,
              EndAccept, OnReadError, OnHandShakeNoSecret, Lock, OnClose, OnHandShakeFinished,
              EmitFinished, OnHandShake
<1> QED BY <1>1, <1>2, <1>3 DEF CallInv

(* Between the insert and its signal, and only there, the map is ahead of  *)
(* the application.                                                        *)
LEMMA SignalStep == TypeOK /\ IInv /\ [Next]_vars => SignalInv'
<1> SUFFICES ASSUME TypeOK, IInv, [Next]_vars PROVE SignalInv'
  OBVIOUS
<1> USE DEF keyVars, shared, accVars, sessVars, IInv
<1>1. CASE UNCHANGED <<io, id, sessMap, lastSig>>
  BY <1>1 DEF SignalInv, SignalsMatchMap
<1>2. CASE Application \/ Destructor \/ AcceptError \/ EndAccept \/ UNCHANGED vars
  BY <1>1, <1>2 DEF Application, SetPriKey, SetPubKey, UpdatePeerList, BeginFind, EndFind,
                    StopAcceptor, Destructor, StopContexts, Join, AcceptError, EndAccept, vars
<1>3. ASSUME NEW s \in Session, Connect(s) \/ SendHello(s) \/ OnAccept(s) PROVE SignalInv'
  BY <1>1, <1>3 DEF Connect, SendHello, OnAccept
<1>4. ASSUME NEW c \in Ctx, c = 0, io[c].pc # "emit", \A d \in Ctx : io'[d].pc # "emit",
             UNCHANGED <<sessMap, lastSig>>
      PROVE  SignalInv'
  <2>1. \A d \in Ctx : io[d].pc # "emit"
    BY <1>4 DEF OneThread, Idle
  <2> QED BY <1>4, <2>1 DEF SignalInv, SignalsMatchMap
<1>5. ASSUME NEW s \in Session, NEW c \in Ctx,
             OnReadError(c, s) \/ OnHandShakeNoSecret(c, s) \/ OnHandShake(c, s)
      PROVE  SignalInv'
  <2>1. c = 0 /\ io[c].pc = "idle"
    BY <1>5, ContextFacts DEF OnReadError, OnHandShakeNoSecret, OnHandShake, Starts, OneThread, Idle
  <2>2. \A d \in Ctx : io'[d].pc # "emit"
    BY <1>5, <2>1 DEF OnReadError, OnHandShakeNoSecret, OnHandShake, OneThread, Idle, TypeOK
  <2>3. UNCHANGED <<sessMap, lastSig>>
    BY <1>5 DEF OnReadError, OnHandShakeNoSecret, OnHandShake
  <2> QED BY <1>4, <2>1, <2>2, <2>3
<1>6. ASSUME NEW c \in Ctx, Lock(c) PROVE SignalInv'
  <2>1. c = 0 /\ io[c].pc # "emit" /\ UNCHANGED <<sessMap, lastSig>>
    BY <1>6, OnlyHandler DEF Lock
  <2>2. \A d \in Ctx : io'[d].pc # "emit"
    BY <1>6, <2>1 DEF Lock, OneThread, Idle, TypeOK
  <2> QED BY <1>4, <2>1, <2>2
<1>7. ASSUME NEW c \in Ctx, OnClose(c) PROVE SignalInv'
  <2> DEFINE s == io[c].sess
  <2>1. c = 0 /\ s \in Session /\ io[c].pc # "emit"
    BY <1>7, OnlyHandler DEF OnClose
  <2>2. \A d \in Ctx : io[d].pc # "emit" /\ io'[d].pc # "emit"
    BY <1>7, <2>1 DEF OnClose, OneThread, Idle, TypeOK
  <2>3. /\ DOMAIN sessMap' = DOMAIN sessMap \ {id[s]}
        /\ \A k \in Ident : lastSig'[k] = IF k = id[s] THEN "closed" ELSE lastSig[k]
    BY <1>7 DEF OnClose
  <2> QED BY <2>2, <2>3 DEF SignalInv, SignalsMatchMap
<1>8. ASSUME NEW c \in Ctx, OnHandShakeFinished(c) PROVE SignalInv'
  <2> DEFINE s == io[c].sess
  <2>1. c = 0 /\ io[c].pc # "emit"
    BY <1>8, OnlyHandler DEF OnHandShakeFinished
  <2>2. /\ io'[c].pc = "emit" /\ io'[c].sess = s
        /\ \A d \in Ctx \ {c} : io[d].pc # "emit" /\ io'[d].pc # "emit"
    BY <1>8, <2>1 DEF OnHandShakeFinished, OneThread, Idle, TypeOK
  <2>3. DOMAIN sessMap' = DOMAIN sessMap \cup {id[s]} /\ lastSig' = lastSig /\ id' = id
    BY <1>8 DEF OnHandShakeFinished, Insert
  <2> QED BY <2>1, <2>2, <2>3 DEF SignalInv, SignalsMatchMap
<1>9. ASSUME NEW c \in Ctx, EmitFinished(c) PROVE SignalInv'
  <2> DEFINE s == io[c].sess
  <2>1. c = 0 /\ s \in Session /\ io[c].pc = "emit"
    BY <1>9, OnlyHandler DEF EmitFinished
  <2>2. \A d \in Ctx : io'[d].pc # "emit" /\ (d # c => io[d].pc # "emit")
    BY <1>9, <2>1 DEF EmitFinished, OneThread, Idle, TypeOK
  <2>3. sessMap' = sessMap /\ id[s] \in DOMAIN sessMap
        /\ \A k \in Ident : lastSig'[k] = IF k = id[s] THEN "finished" ELSE lastSig[k]
    BY <1>9, <2>1 DEF EmitFinished, SignalInv, TypeOK
  <2> QED BY <2>1, <2>2, <2>3 DEF SignalInv, SignalsMatchMap
<1> QED BY <1>2, <1>3, <1>5, <1>6, <1>7, <1>8, <1>9 DEF Next, Handler

(* Whatever setEcKey does between two constructions, a session that is not *)
(* constructed during a call of it gets two halves of one pair.            *)
LEMMA KeysStep == TypeOK /\ IInv /\ [Next]_vars => KeysInv'
<1> SUFFICES ASSUME TypeOK, IInv, [Next]_vars PROVE KeysInv'
  OBVIOUS
<1> USE DEF keyVars, shared, accVars, sessVars, IInv
<1>1. ASSUME UNCHANGED <<keyVars, making>>, ui'.pc = "setEcKey" <=> ui.pc = "setEcKey", st' = st
      PROVE  KeysInv'
  BY <1>1 DEF KeysInv, KeysBelongTogether
<1>2. CASE SetPriKey
  <2>1. /\ ui'.pc = "setEcKey" /\ UNCHANGED <<keys, making, st>>
        /\ overlap' = [s \in Session |-> overlap[s] \/ s = making]
    BY <1>2 DEF SetPriKey, TypeOK
  <2>2. making # NoSession => overlap'[making]
    BY <2>1 DEF TypeOK
  <2>3. \A s \in Session : overlap[s] => overlap'[s]
    BY <2>1
  <2> QED BY <2>1, <2>2, <2>3 DEF KeysInv, KeysBelongTogether
<1>3. CASE SetPubKey
  <2>1. ui.pc = "setEcKey" /\ UNCHANGED <<keys, overlap, making, st>>
    BY <1>3 DEF SetPubKey
  <2>2. ec'.pri = ec'.pub
    BY <1>3 DEF SetPubKey, PubOfCall, TypeOK
  <2> QED BY <2>1, <2>2 DEF KeysInv, KeysBelongTogether
<1>4. CASE UpdatePeerList \/ AcceptError \/ UNCHANGED vars
  BY <1>1, <1>4 DEF UpdatePeerList, AcceptError, vars
<1>5. CASE BeginFind \/ EndFind \/ StopAcceptor \/ Destructor
  BY <1>1, <1>5 DEF BeginFind, EndFind, StopAcceptor, Destructor, StopContexts, Join, Run, TypeOK
<1>6. ASSUME NEW s \in Session, Connect(s) PROVE KeysInv'
  <2>1. st[s] = "none" /\ st' = [st EXCEPT ![s] = "queued"] /\ UNCHANGED <<keyVars, making, ui>>
    BY <1>6 DEF Connect
  <2>2. making # NoSession => making \in Session /\ st'[making] = "queued"
    BY <2>1 DEF KeysInv, TypeOK
  <2> QED BY <2>1, <2>2 DEF KeysInv, KeysBelongTogether, TypeOK
<1>7. ASSUME NEW s \in Session, SendHello(s) PROVE KeysInv'
  BY <1>1, <1>7 DEF SendHello
<1>8. ASSUME NEW s \in Session, OnAccept(s) PROVE KeysInv'
  <2>1. /\ st[s] = "queued" /\ making' = s /\ UNCHANGED <<ec, ui, st>>
        /\ keys'[s].pri = ec.pri /\ overlap'[s] = (ui.pc = "setEcKey")
        /\ \A r \in Session \ {s} : keys'[r] = keys[r] /\ overlap'[r] = overlap[r]
    BY <1>8 DEF OnAccept, TypeOK
  <2>2. KeysBelongTogether'
    BY <2>1 DEF KeysInv, KeysBelongTogether
  <2> QED BY <2>1, <2>2 DEF KeysInv
<1>9. CASE EndAccept
  <2>1. /\ making \in Session /\ making # NoSession /\ making' = NoSession
        /\ UNCHANGED <<ec, ui, overlap>>
    BY <1>9 DEF EndAccept, TypeOK
  <2>2. /\ keys'[making].pri = keys[making].pri /\ keys'[making].pub = ec.pub
        /\ \A r \in Session \ {making} : keys'[r] = keys[r] /\ st'[r] = st[r]
    BY <1>9, <2>1 DEF EndAccept, TypeOK
  <2>3. ~overlap[making] => keys'[making].pri = keys'[making].pub
    BY <2>1, <2>2 DEF KeysInv
  <2>4. KeysBelongTogether'
    BY <2>1, <2>2, <2>3 DEF KeysInv, KeysBelongTogether
  <2> QED BY <2>1, <2>4 DEF KeysInv
<1>10. ASSUME NEW s \in Session, st[s] \notin {"none", "queued"}, UNCHANGED <<keyVars, ui, making>>,
             NEW x \in {"checked", "lost", "closed", "open"}, st' = [st EXCEPT ![s] = x]
      PROVE  KeysInv'
  BY <1>10 DEF KeysInv, KeysBelongTogether, TypeOK
<1>11. ASSUME NEW s \in Session, NEW c \in Ctx,
              OnReadError(c, s) \/ OnHandShakeNoSecret(c, s) \/ OnHandShake(c, s)
       PROVE  KeysInv'
  BY <1>10, <1>11 DEF OnReadError, OnHandShakeNoSecret, OnHandShake
<1>12. ASSUME NEW c \in Ctx, Handler(c) PROVE KeysInv'
  <2>1. CASE Lock(c) \/ OnHandShakeFinished(c)
    BY <1>1, <2>1 DEF Lock, OnHandShakeFinished
  <2>2. CASE OnClose(c) \/ EmitFinished(c)
    BY <1>10, <2>2, OnlyHandler DEF OnClose, EmitFinished
  <2> QED BY <1>11, <1>12, <2>1, <2>2 DEF Handler
<1> QED BY <1>2, <1>3, <1>4, <1>5, <1>6, <1>7, <1>8, <1>9, <1>11, <1>12 DEF Next, Application

(* Every variable keeps its type, and the inductive invariant holds        *)
(* (TypeOK).                                                               *)
THEOREM InvariantHolds == Spec => [](TypeOK /\ IInv)
<1>1. TypeOK /\ IInv /\ [Next]_vars => (TypeOK /\ IInv)'
  BY TypeStep, OneThreadStep, HandlerStep, CallStep, SignalStep, KeysStep DEF IInv
<1> QED BY <1>1, Initially, PTL DEF Spec

(* getIocontext never reads past client_io_ctxs_, however many clients     *)
(* there are, exactly if there is a context: when the size is 0, which     *)
(* hardware_concurrency() may return, the constructor's own doAccept       *)
(* already does (ContextInRange).                                          *)
THEOREM ContextStaysInRange == Spec => (Size # 0 <=> []ContextInRange)
<1>1. ASSUME Size # 0 PROVE Spec => []ContextInRange
  <2>1. IInv => ContextInRange
    BY <1>1, ContextFacts DEF IInv, OneThread, ContextInRange
  <2> QED BY <2>1, InvariantHolds, PTL
<1>2. ASSUME Size = 0 PROVE Spec => ~[]ContextInRange
  <2>1. Init => ~ContextInRange
    BY <1>2, ContextFacts DEF Init, ContextInRange
  <2> QED BY <2>1, PTL DEF Spec
<1> QED BY <1>1, <1>2

(* What the application was told last about an id is what the map says,    *)
(* unless a thread has inserted it and not said so yet (SignalsMatchMap).  *)
THEOREM SignalsFollowMap == Spec => []SignalsMatchMap
<1>1. IInv => SignalsMatchMap
  BY DEF IInv, SignalInv
<1> QED BY <1>1, InvariantHolds, PTL

(* However often and whenever setEcKey is called, a session whose          *)
(* construction no call overlaps has a private and a public key from one   *)
(* call, or two empty ones (KeysBelongTogether).                           *)
THEOREM KeysTogether == Spec => []KeysBelongTogether
<1>1. IInv => KeysBelongTogether
  BY DEF IInv, KeysInv
<1> QED BY <1>1, InvariantHolds, PTL

-----------------------------------------------------------------------------
(* The refinement of the directory, step by step: what a step may change   *)
(* of entitled, owner, call and carried.                                   *)
Title == [s \in Session |-> IF hello[s].good THEN {hello[s].key} \cap listed ELSE {}]
Owned == [k \in Ident |-> Lookup(k)]
Call == IF ui.pc = "find" THEN {[id |-> ui.key, found |-> ui.found]} ELSE {}

LEMMA DirectoryInit == Init => Directory!Init
  BY DEF Init, Directory!Init, Lookup, Run

(* A Hello in the queue, or a new peer list, may give a title and takes    *)
(* none away.                                                              *)
LEMMA TitleGrows ==
  ASSUME TypeOK, UNCHANGED <<Owned, Call, routed>>,
         \A s \in Session : hello[s].good => hello'[s] = hello[s],
         listed \subseteq listed', listed' \subseteq Ident
  PROVE  Directory!Entitle
<1>1. Title' \in [Session -> SUBSET Ident]
  BY DEF Title
<1>2. \A s \in Session : Title[s] \subseteq Title'[s]
  BY DEF Title
<1> QED BY <1>1, <1>2 DEF Directory!Entitle, Title, Owned, Call

(* A step that leaves the map, the Hellos, the list and the application    *)
(* alone is one the directory does not see.                                *)
LEMMA DirectoryStutter ==
  ASSUME UNCHANGED <<Title, Owned, Call, routed>>
  PROVE  UNCHANGED Directory!vars
BY DEF Directory!vars, Title, Owned, Call

LEMMA DirectoryStep == TypeOK /\ IInv /\ [Next]_vars => [Directory!Next]_(Directory!vars)
<1> SUFFICES ASSUME TypeOK, IInv, [Next]_vars PROVE [Directory!Next]_(Directory!vars)
  OBVIOUS
<1> USE DEF keyVars, shared, accVars, sessVars, IInv
<1>1. ASSUME UNCHANGED <<hello, listed, sessMap, routed>>, Call' = Call
      PROVE  [Directory!Next]_(Directory!vars)
  BY <1>1, DirectoryStutter DEF Title, Owned, Lookup
<1>2. CASE SetPriKey \/ SetPubKey \/ StopAcceptor \/ StopContexts \/ Join
  BY <1>1, <1>2 DEF SetPriKey, SetPubKey, StopAcceptor, StopContexts, Join, Run, Call, TypeOK
<1>3. CASE UpdatePeerList
  <2>1. UNCHANGED <<Owned, Call, routed>> /\ hello' = hello
    BY <1>3 DEF UpdatePeerList, Owned, Lookup, Call
  <2>2. listed \subseteq listed' /\ listed' \subseteq Ident
    BY <1>3, ServerAssumption DEF UpdatePeerList, ServerAssumption, TypeOK
  <2> QED BY <2>1, <2>2, TitleGrows DEF Directory!Next
<1>4. CASE BeginFind
  <2>1. PICK k \in Ident : ui' = [pc |-> "find", key |-> k, found |-> Lookup(k)]
    BY <1>4 DEF BeginFind
  <2>2. Call = {} /\ Call' = {[id |-> k, found |-> Owned[k]]}
    BY <1>4, <2>1 DEF BeginFind, Run, Call, Owned
  <2>3. UNCHANGED <<Title, Owned, routed>>
    BY <1>4 DEF BeginFind, Title, Owned, Lookup
  <2>4. Directory!BeginSend(k)
    BY <2>2, <2>3 DEF Directory!BeginSend, Title, Owned, Call
  <2> QED BY <2>4 DEF Directory!Next
<1>5. CASE EndFind
  <2>1. Call = {[id |-> ui.key, found |-> ui.found]} /\ Call' = {}
    BY <1>5 DEF EndFind, Run, Call
  <2>2. UNCHANGED <<Title, Owned>>
    BY <1>5 DEF EndFind, Title, Owned, Lookup
  <2>3. PICK s \in {ui.found, Lookup(ui.key)} :
           routed' = IF s = NoSession THEN routed ELSE [routed EXCEPT ![s] = @ \cup {ui.key}]
    BY <1>5 DEF EndFind
  <2>4. Owned[ui.key] = Lookup(ui.key)
    BY <1>5 DEF EndFind, CallInv, Owned
  <2>5. Directory!EndSend
    BY <2>1, <2>2, <2>3, <2>4 DEF Directory!EndSend, Title, Owned, Call
  <2> QED BY <2>5 DEF Directory!Next
<1>6. ASSUME NEW s \in Session, SendHello(s) PROVE [Directory!Next]_(Directory!vars)
  <2>1. UNCHANGED <<Owned, Call, routed>> /\ listed' = listed
    BY <1>6 DEF SendHello, Owned, Lookup, Call
  <2>2. ~hello[s].good
    BY <1>6 DEF SendHello, CallInv
  <2>3. \A r \in Session : hello[r].good => hello'[r] = hello[r]
    BY <1>6, <2>2 DEF SendHello, TypeOK
  <2>4. listed' \subseteq Ident
    BY <2>1 DEF TypeOK
  <2> QED BY <2>1, <2>3, <2>4, TitleGrows DEF Directory!Next
<1>7. ASSUME NEW c \in Ctx, OnClose(c) PROVE [Directory!Next]_(Directory!vars)
  <2> DEFINE k == id[io[c].sess]
  <2>1. UNCHANGED <<Title, Call, routed>>
    BY <1>7 DEF OnClose, Title, Call
  <2>2. sessMap' = [j \in DOMAIN sessMap \ {k} |-> sessMap[j]]
    BY <1>7 DEF OnClose
  <2>3. \A j \in Ident : Lookup(j)' = IF j = k THEN NoSession ELSE Lookup(j)
    BY <2>2 DEF Lookup
  <2>4. CASE k \in Ident
    <3>1. Owned' = [Owned EXCEPT ![k] = NoSession]
      BY <2>3, <2>4 DEF Owned
    <3>2. Directory!Remove
      BY <2>1, <2>4, <3>1 DEF Directory!Remove, Title, Owned, Call
    <3> QED BY <3>2 DEF Directory!Next
  <2>5. CASE k \notin Ident
    <3>1. Owned' = Owned
      BY <2>3, <2>5 DEF Owned
    <3> QED BY <2>1, <3>1, DirectoryStutter
  <2> QED BY <2>4, <2>5
<1>8. ASSUME NEW c \in Ctx, OnHandShakeFinished(c) PROVE [Directory!Next]_(Directory!vars)
  <2> DEFINE s == io[c].sess
             k == id[s]
  <2>1. s \in Session /\ Proven(s)
    BY <1>8, OnlyHandler DEF OnHandShakeFinished
  <2>2. k \in Title[s] /\ k \in Ident
    BY <2>1 DEF Proven, Title, TypeOK
  <2>3. UNCHANGED <<Title, Call, routed>>
    BY <1>8 DEF OnHandShakeFinished, Title, Call
  <2>4. \A j \in Ident : Lookup(j)' = IF j = k /\ k \notin DOMAIN sessMap THEN s ELSE Lookup(j)
    <3>1. sessMap' = Insert(sessMap, k, s)
      BY <1>8 DEF OnHandShakeFinished
    <3> QED BY <3>1 DEF Insert, Lookup
  <2>5. CASE k \in DOMAIN sessMap
    <3>1. Owned' = Owned
      BY <2>4, <2>5 DEF Owned
    <3> QED BY <2>3, <3>1, DirectoryStutter
  <2>6. CASE k \notin DOMAIN sessMap
    <3>1. Owned' = [Owned EXCEPT ![k] = s] /\ Owned[k] = NoSession
      BY <2>2, <2>4, <2>6 DEF Owned, Lookup
    <3>2. Directory!Enter(k, s)
      BY <2>2, <2>3, <3>1 DEF Directory!Enter, Title, Owned, Call
    <3> QED BY <2>1, <2>2, <3>2 DEF Directory!Next
  <2> QED BY <2>5, <2>6
<1>9. CASE UNCHANGED vars \/ AcceptError \/ EndAccept
  BY <1>1, <1>9 DEF vars, AcceptError, EndAccept, Call
<1>10. ASSUME NEW s \in Session, Connect(s) \/ OnAccept(s)
       PROVE  [Directory!Next]_(Directory!vars)
  BY <1>1, <1>10 DEF Connect, OnAccept, Call
<1>11. ASSUME NEW s \in Session, NEW c \in Ctx,
              OnReadError(c, s) \/ OnHandShakeNoSecret(c, s) \/ OnHandShake(c, s)
       PROVE  [Directory!Next]_(Directory!vars)
  BY <1>1, <1>11 DEF OnReadError, OnHandShakeNoSecret, OnHandShake, Call
<1>12. ASSUME NEW c \in Ctx, Lock(c) \/ EmitFinished(c)
       PROVE  [Directory!Next]_(Directory!vars)
  BY <1>1, <1>12 DEF Lock, EmitFinished, Call
<1> QED BY <1>2, <1>3, <1>4, <1>5, <1>6, <1>7, <1>8, <1>9, <1>10, <1>11, <1>12
        DEF Next, Application, Destructor, Handler

(* The server is a directory of peers: only a session that has proved to   *)
(* be k is found under k, an entry is never replaced, and a text goes to a *)
(* session k led to when the search began or ended (DirectorySpec).        *)
THEOREM ImplementsDirectory == Spec => DirectorySpec
  BY DirectoryInit, DirectoryStep, InvariantHolds, PTL DEF Spec, DirectorySpec, Directory!Spec

(* The invariant of the directory, of which the promise is the last part.  *)
Titled ==
    /\ Title \in [Session -> SUBSET Ident]
    /\ routed \in [Session -> SUBSET Ident]
    /\ Owned \in [Ident -> Session \cup {NoSession}]
    /\ \A k \in Ident : Owned[k] # NoSession => k \in Title[Owned[k]]
    /\ \A c \in Call : /\ c.id \in Ident /\ c.found \in Session \cup {NoSession}
                       /\ c.found # NoSession => c.id \in Title[c.found]
    /\ \A s \in Session : routed[s] \subseteq Title[s]

LEMMA TitledIs == Titled <=> Directory!TitledInv
BY DEF Titled, Directory!TitledInv, Directory!CarriedIsEntitled, Title, Owned, Call

LEMMA TitledInit == Directory!Init => Titled
<1>1. Directory!Init => /\ Title \in [Session -> SUBSET Ident]
                        /\ Owned = [k \in Ident |-> NoSession]
                        /\ Call = {} /\ routed = [s \in Session |-> {}]
  BY DEF Directory!Init, Title, Owned, Call
<1> QED BY <1>1 DEF Titled

LEMMA TitledStep == Titled /\ [Directory!Next]_(Directory!vars) => Titled'
<1> SUFFICES ASSUME Titled, [Directory!Next]_(Directory!vars) PROVE Titled'
  OBVIOUS
<1>1. CASE Directory!Entitle
  <2>1. /\ Title' \in [Session -> SUBSET Ident]
        /\ \A s \in Session : Title[s] \subseteq Title'[s]
        /\ UNCHANGED <<Owned, Call, routed>>
    BY <1>1 DEF Directory!Entitle, Title, Owned, Call
  <2> QED BY <2>1 DEF Titled
<1>2. CASE Directory!Remove
  <2>1. /\ \/ \E k \in Ident : Owned' = [Owned EXCEPT ![k] = NoSession]
           \/ Owned' = [k \in Ident |-> NoSession]
        /\ UNCHANGED <<Title, Call, routed>>
    BY <1>2 DEF Directory!Remove, Title, Owned, Call
  <2> QED BY <2>1 DEF Titled
<1>3. CASE Directory!EndSend
  <2>1. PICK c \in Call :
           /\ Call' = {}
           /\ \E o \in {c.found, Owned[c.id]} :
                 routed' = IF o = NoSession THEN routed
                           ELSE [routed EXCEPT ![o] = @ \cup {c.id}]
           /\ UNCHANGED <<Title, Owned>>
    BY <1>3 DEF Directory!EndSend, Title, Owned, Call
  <2>2. PICK o \in {c.found, Owned[c.id]} :
           routed' = IF o = NoSession THEN routed ELSE [routed EXCEPT ![o] = @ \cup {c.id}]
    BY <2>1
  <2>3. o # NoSession => o \in Session /\ c.id \in Title[o]
    BY <2>2 DEF Titled
  <2>4. c.id \in Ident
    BY DEF Titled
  <2>5. routed' \in [Session -> SUBSET Ident] /\ \A s \in Session : routed'[s] \subseteq Title[s]
    BY <2>1, <2>2, <2>3, <2>4 DEF Titled
  <2> QED BY <2>1, <2>5 DEF Titled
<1>4. ASSUME NEW k \in Ident, Directory!BeginSend(k) PROVE Titled'
  <2>1. Call' = {[id |-> k, found |-> Owned[k]]} /\ UNCHANGED <<Title, Owned, routed>>
    BY <1>4 DEF Directory!BeginSend, Title, Owned, Call
  <2> QED BY <2>1 DEF Titled
<1>5. ASSUME NEW k \in Ident, NEW s \in Session, Directory!Enter(k, s) PROVE Titled'
  <2>1. /\ Owned[k] = NoSession /\ k \in Title[s] /\ Owned' = [Owned EXCEPT ![k] = s]
        /\ UNCHANGED <<Title, Call, routed>>
    BY <1>5 DEF Directory!Enter, Title, Owned, Call
  <2> QED BY <2>1 DEF Titled
<1>6. CASE UNCHANGED Directory!vars
  <2>1. UNCHANGED <<Title, Owned, Call, routed>>
    BY <1>6 DEF Directory!vars, Title, Owned, Call
  <2> QED BY <2>1 DEF Titled
<1> QED BY <1>1, <1>2, <1>3, <1>4, <1>5, <1>6 DEF Directory!Next

(* A text handed over by sendTextMsg goes to a session that was entitled   *)
(* to the id, although the entry may have been removed, and entered again  *)
(* for another session, since the search began.                            *)
THEOREM CarriesWhatItMay == DirectorySpec => []Directory!CarriedIsEntitled
<1>1. Titled => Directory!CarriedIsEntitled
  BY TitledIs DEF Directory!TitledInv
<1> QED BY <1>1, TitledInit, TitledStep, PTL DEF DirectorySpec, Directory!Spec

(* What a session must have shown before a text for k is written to it.    *)
OnlyToProven ==
    \A s \in Session : \A k \in routed[s] :
        hello[s].good /\ k = hello[s].key /\ k \in listed

(* A text for k is only ever written to a session whose client has signed  *)
(* its Hello with the private key of k, and only if k has been in the peer *)
(* list: whatever sessions come, go and take each other's entries.         *)
THEOREM TextsReachProven == Spec => []OnlyToProven
<1>1. Directory!CarriedIsEntitled => OnlyToProven
  BY DEF Directory!CarriedIsEntitled, OnlyToProven
<1> QED BY <1>1, ImplementsDirectory, CarriesWhatItMay, PTL
=============================================================================
