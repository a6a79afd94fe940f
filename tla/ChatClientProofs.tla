-------------------------- MODULE ChatClientProofs --------------------------
(***************************************************************************)
(* What TLAPS proves of ChatClient for every set of sessions and keys.     *)
(***************************************************************************)
EXTENDS ChatClient, TLAPS

(***************************************************************************)
(* The inductive invariant.  The two threads share the map without a lock, *)
(* so it has to say what each may rely on while the other one runs.        *)
(***************************************************************************)

(* A session gets its key when doConnect makes it, before it is inserted,  *)
(* and keeps it; until then no handler knows it.                           *)
KeyInv ==
    \A s \in Session :
        IF st[s] = "none" THEN key[s] # NoKey => ui.pc = "insert" /\ ui.sess = s
        ELSE key[s] \in Ident

(* An entry is under the key of its session, and the session has begun to  *)
(* connect.                                                                *)
MapInv == \A k \in DOMAIN sessMap : key[sessMap[k]] = k /\ st[sessMap[k]] # "none"

(* What the call of the application and the handler under way are about.   *)
CallInv ==
    /\ ui.pc \in {"insert", "find", "visit"} => ui.key \in Ident
    /\ ui.pc = "insert" => /\ ui.sess \in Session
                           /\ st[ui.sess] = "none" /\ key[ui.sess] = ui.key
    /\ ui.pc \in {"emit", "socket"} => ui.sess \in Session /\ st[ui.sess] # "none"
    /\ io.pc # "idle" => io.sess \in Session /\ st[io.sess] = "closing"
    /\ io.pc = "idle" => io = Idle

(* The two sigClose that may be under way.  The one of the application's   *)
(* thread is always about an id that is not in the map, for only that      *)
(* thread inserts; the one of the io thread need not be.                   *)
SignalInv ==
    /\ SignalsMatchMap
    /\ ui.pc = "emit" => key[ui.sess] \notin DOMAIN sessMap
    /\ io.pc = "emit" /\ key[io.sess] \in DOMAIN sessMap => crossed[key[io.sess]]

(* Not only an open session can be found under its id, but every one that  *)
(* has begun to connect and is neither closed nor given up.                *)
Trying(s) == st[s] \in {"connecting", "established", "hello", "answered", "open"}

Reachable(s) ==
    \/ Lookup(key[s]) = s
    \/ \E t \in Session \ {s} : key[t] = key[s]
    \/ cleared \/ BeingClosed(s)

ReachInv == \A s \in Session : Trying(s) => Reachable(s)

IInv == KeyInv /\ MapInv /\ CallInv

-----------------------------------------------------------------------------
(* What a search finds is a session or the end of the map.                 *)
LEMMA LookupType ==
  ASSUME TypeOK
  PROVE  \A k : Lookup(k) \in Session \cup {NoSession}
BY DEF TypeOK, Lookup

(* A session that is found is entered under the id it was found by.        *)
LEMMA FoundUnderItsKey ==
  ASSUME TypeOK, MapInv, NEW k, Lookup(k) # NoSession
  PROVE  /\ Lookup(k) \in Session /\ k \in DOMAIN sessMap /\ k \in Ident
         /\ key[Lookup(k)] = k /\ st[Lookup(k)] # "none"
BY DEF TypeOK, MapInv, Lookup

(* The handler that closes is about a session with a key.                  *)
LEMMA ClosingSession ==
  ASSUME TypeOK, IInv, io.pc # "idle"
  PROVE  io.sess \in Session /\ st[io.sess] = "closing" /\ key[io.sess] \in Ident
BY DEF IInv, CallInv, KeyInv

(* So is a visit of close.                                                 *)
LEMMA VisitedSession ==
  ASSUME TypeOK, IInv, ui.pc \in {"emit", "socket"}
  PROVE  ui.sess \in Session /\ st[ui.sess] # "none" /\ key[ui.sess] \in Ident
BY DEF IInv, CallInv, KeyInv

LEMMA Initially == Init => TypeOK /\ IInv /\ SignalInv /\ ReachInv
<1> SUFFICES ASSUME Init PROVE TypeOK /\ IInv /\ SignalInv /\ ReachInv
  OBVIOUS
<1>1. TypeOK
  BY DEF Init, TypeOK, Ready, Idle
<1>2. IInv
  BY DEF Init, IInv, KeyInv, MapInv, CallInv, Ready, Idle
<1>3. SignalInv /\ ReachInv
  BY DEF Init, SignalInv, SignalsMatchMap, ReachInv, Trying, Ready, Idle
<1> QED BY <1>1, <1>2, <1>3

LEMMA TypeStep == TypeOK /\ IInv /\ [Next]_vars => TypeOK'
<1> SUFFICES ASSUME TypeOK, IInv, [Next]_vars PROVE TypeOK'
  OBVIOUS
<1> USE DEF mapVars, sessVars, IInv
<1>1. ASSUME NEW s \in Session, BeginConnect(s) PROVE TypeOK'
  BY <1>1 DEF BeginConnect, TypeOK
<1>2. CASE EndConnect
  <2>1. ui.key \in Ident /\ ui.sess \in Session
    BY <1>2 DEF EndConnect, CallInv
  <2>2. DOMAIN sessMap' \in SUBSET Ident /\ \A k \in DOMAIN sessMap' : sessMap'[k] \in Session
    <3>1. sessMap' = Insert(sessMap, ui.key, ui.sess)
      BY <1>2 DEF EndConnect
    <3>2. DOMAIN sessMap' = DOMAIN sessMap \cup {ui.key}
      BY <3>1 DEF Insert
    <3> QED BY <2>1, <3>1, <3>2 DEF Insert, TypeOK
  <2>3. last' \in [Ident -> {"none", "connect", "closed"}]
    BY <1>2 DEF EndConnect, TypeOK
  <2>4. crossed' \in [Ident -> BOOLEAN]
    <3>1. IoSignalPending(ui.key) \in BOOLEAN
      BY DEF IoSignalPending
    <3> QED BY <1>2, <3>1 DEF EndConnect, TypeOK
  <2> QED BY <1>2, <2>2, <2>3, <2>4 DEF EndConnect, Ready, TypeOK
<1>3. CASE BeginFind
  BY <1>3, LookupType DEF BeginFind, TypeOK
<1>4. CASE EndFind
  <2>1. ui.key \in Ident /\ {ui.sess, Lookup(ui.key)} \subseteq Session \cup {NoSession}
    BY <1>4, LookupType DEF EndFind, CallInv, TypeOK
  <2>2. routed' \in [Session -> SUBSET Ident]
    BY <1>4, <2>1 DEF EndFind, TypeOK
  <2> QED BY <1>4, <2>2 DEF EndFind, Ready, TypeOK
<1>5. CASE BeginClose
  <2>1. CASE DOMAIN sessMap = {}
    BY <1>5, <2>1 DEF BeginClose, TypeOK
  <2>2. CASE DOMAIN sessMap # {}
    <3>1. PICK k \in DOMAIN sessMap : ui' = [Ready EXCEPT !.pc = "visit", !.key = k]
      BY <1>5, <2>2 DEF BeginClose
    <3>2. k \in Ident
      BY DEF TypeOK
    <3>3. ui' = [pc |-> "visit", key |-> k, sess |-> NoSession]
      BY <3>1 DEF Ready
    <3> QED BY <1>5, <2>2, <3>2, <3>3 DEF BeginClose, TypeOK
  <2> QED BY <2>1, <2>2
<1>6. CASE Visit
  <2>1. DOMAIN sessMap' \in SUBSET Ident /\ \A k \in DOMAIN sessMap' : sessMap'[k] \in Session
    BY <1>6 DEF Visit, Without, TypeOK
  <2> QED BY <1>6, <2>1, LookupType DEF Visit, TypeOK
<1>14. CASE VisitEmit \/ VisitSocket
  BY <1>14 DEF VisitEmit, VisitSocket, TypeOK
<1>7. CASE AdvanceToEntry
  BY <1>7 DEF AdvanceToEntry, Ready, TypeOK
<1>8. CASE AdvanceToEnd
  BY <1>8 DEF AdvanceToEnd, Ready, TypeOK
<1>9. CASE Crash \/ Stop \/ Join
  BY <1>9 DEF Crash, Stop, Join, Ready, TypeOK
<1>10. ASSUME NEW s \in Session, Network(s) \/ OnConnect(s) \/ OnError(s) \/ OnHandShakeGood(s)
                                 \/ OnHandShakeNoSecret(s)
       PROVE  TypeOK'
  BY <1>10 DEF Network, Establish, Answer, OnConnect, OnError, OnHandShakeGood,
               OnHandShakeNoSecret, TypeOK
<1>11. ASSUME NEW s \in Session, OnHandShakeBad(s) PROVE TypeOK'
  BY <1>11 DEF OnHandShakeBad, StartsClose, TypeOK
<1>12. CASE OnClose
  <2>1. DOMAIN sessMap' \in SUBSET Ident /\ \A k \in DOMAIN sessMap' : sessMap'[k] \in Session
    BY <1>12 DEF OnClose, Without, TypeOK
  <2> QED BY <1>12, <2>1 DEF OnClose, TypeOK
<1>15. CASE EmitClose
  BY <1>15 DEF EmitClose, TypeOK
<1>16. CASE CloseSocket
  BY <1>16 DEF CloseSocket, Idle, TypeOK
<1>13. CASE UNCHANGED vars
  BY <1>13 DEF vars, TypeOK
<1> QED BY <1>1, <1>2, <1>3, <1>4, <1>5, <1>6, <1>7, <1>8, <1>9, <1>10, <1>11, <1>12, <1>13,
           <1>14, <1>15, <1>16
        DEF Next, Application, Closing, IoThread, Answered

(* The steps of a session from one state to the next: they change nothing  *)
(* else, and no session gets back to where it had not begun to connect.    *)
LEMMA ProgressOfSession ==
  ASSUME TypeOK, IInv, NEW s \in Session, Network(s) \/ IoThread(s)
  PROVE  /\ UNCHANGED <<mapVars, key, sock, routed, ui>> /\ st[s] # "none"
         /\ \E x \in {"established", "hello", "answered", "open", "lost", "closing"} :
               st' = [st EXCEPT ![s] = x]
         /\ Trying(s)
         /\ io' = io \/ (io.pc = "idle" /\ io' = [pc |-> "erase", sess |-> s] /\ st'[s] = "closing")
BY DEF Network, IoThread, Answered, Establish, Answer, OnConnect, OnError, OnHandShakeGood,
       OnHandShakeNoSecret, OnHandShakeBad, StartsClose, Runs, Idle, Trying, TypeOK, mapVars

LEMMA KeyStep == TypeOK /\ IInv /\ [Next]_vars => KeyInv'
<1> SUFFICES ASSUME TypeOK, IInv, [Next]_vars PROVE KeyInv'
  OBVIOUS
<1> USE DEF mapVars, sessVars, IInv
<1>1. ASSUME NEW s \in Session, BeginConnect(s) PROVE KeyInv'
  BY <1>1 DEF BeginConnect, KeyInv, Ready, TypeOK
<1>2. CASE EndConnect
  <2>1. ui.sess \in Session /\ key[ui.sess] \in Ident
    BY <1>2 DEF EndConnect, CallInv
  <2> QED BY <1>2, <2>1 DEF EndConnect, KeyInv, TypeOK
<1>3. ASSUME UNCHANGED <<key, st>>, ui.pc # "insert" PROVE KeyInv'
  BY <1>3 DEF KeyInv
<1>4. CASE BeginFind \/ EndFind \/ BeginClose \/ Visit \/ VisitEmit \/ VisitSocket
           \/ AdvanceToEntry \/ AdvanceToEnd \/ Crash \/ Stop \/ Join
  <2>1. ui.pc # "insert"
    <3>1. CASE ui = Ready
      BY <3>1 DEF Ready
    <3>2. CASE ui.pc \in {"find", "visit", "emit", "socket", "advance", "join"}
      BY <3>2
    <3> QED BY <1>4, <3>1, <3>2 DEF BeginFind, EndFind, BeginClose, Visit, VisitEmit, VisitSocket,
                                    AdvanceToEntry, AdvanceToEnd, Lost, Dangling, Crash, Stop, Join
  <2>2. UNCHANGED <<key, st>>
    BY <1>4 DEF BeginFind, EndFind, BeginClose, Visit, VisitEmit, VisitSocket, AdvanceToEntry,
                AdvanceToEnd, Crash, Stop, Join
  <2> QED BY <1>3, <2>1, <2>2
<1>5. ASSUME NEW s \in Session, Network(s) \/ IoThread(s) PROVE KeyInv'
  BY <1>5, ProgressOfSession DEF KeyInv, TypeOK
<1>6. CASE OnClose \/ EmitClose \/ UNCHANGED vars
  BY <1>6 DEF OnClose, EmitClose, vars, KeyInv
<1>7. CASE CloseSocket
  <2>1. io.pc # "idle"
    BY <1>7 DEF CloseSocket
  <2> QED BY <1>7, <2>1, ClosingSession DEF CloseSocket, KeyInv, TypeOK
<1> QED BY <1>1, <1>2, <1>4, <1>5, <1>6, <1>7 DEF Next, Application, Closing

LEMMA MapStep == TypeOK /\ IInv /\ [Next]_vars => MapInv'
<1> SUFFICES ASSUME TypeOK, IInv, [Next]_vars PROVE MapInv'
  OBVIOUS
<1> USE DEF mapVars, sessVars, IInv
<1>1. ASSUME NEW s \in Session, BeginConnect(s) PROVE MapInv'
  <2>1. \A k \in DOMAIN sessMap : sessMap[k] # s
    BY <1>1 DEF BeginConnect, MapInv
  <2> QED BY <1>1, <2>1 DEF BeginConnect, MapInv, TypeOK
<1>2. CASE EndConnect
  <2>1. ui.sess \in Session /\ key[ui.sess] = ui.key /\ key' = key
    BY <1>2 DEF EndConnect, CallInv
  <2>2. sessMap' = Insert(sessMap, ui.key, ui.sess) /\ st' = [st EXCEPT ![ui.sess] = "connecting"]
    BY <1>2 DEF EndConnect
  <2> QED BY <2>1, <2>2 DEF Insert, MapInv, TypeOK
<1>3. ASSUME UNCHANGED key, DOMAIN sessMap' \subseteq DOMAIN sessMap,
             \A k \in DOMAIN sessMap' : sessMap'[k] = sessMap[k],
             \A s \in Session : st[s] # "none" => st'[s] # "none"
      PROVE  MapInv'
  BY <1>3 DEF MapInv, TypeOK
<1>4. CASE BeginFind \/ EndFind \/ BeginClose \/ VisitEmit \/ VisitSocket \/ AdvanceToEntry
           \/ Crash \/ Stop \/ Join \/ EmitClose \/ UNCHANGED vars
  BY <1>3, <1>4 DEF BeginFind, EndFind, BeginClose, VisitEmit, VisitSocket, AdvanceToEntry,
                    Crash, Stop, Join, EmitClose, vars
<1>5. CASE Visit \/ AdvanceToEnd
  BY <1>3, <1>5 DEF Visit, Without, AdvanceToEnd
<1>6. ASSUME NEW s \in Session, Network(s) \/ IoThread(s) PROVE MapInv'
  BY <1>3, <1>6, ProgressOfSession DEF TypeOK
<1>7. CASE OnClose
  BY <1>3, <1>7 DEF OnClose, Without
<1>8. CASE CloseSocket
  BY <1>3, <1>8 DEF CloseSocket, TypeOK
<1> QED BY <1>1, <1>2, <1>4, <1>5, <1>6, <1>7, <1>8 DEF Next, Application, Closing

LEMMA CallStep == TypeOK /\ IInv /\ [Next]_vars => CallInv'
<1> SUFFICES ASSUME TypeOK, IInv, [Next]_vars PROVE CallInv'
  OBVIOUS
<1> USE DEF mapVars, sessVars, IInv
<1>1. ASSUME NEW s \in Session, BeginConnect(s) PROVE CallInv'
  <2>1. /\ ui'.pc = "insert" /\ ui'.key \in Ident /\ ui'.sess = s /\ st' = st /\ io' = io
        /\ st[s] = "none" /\ key'[s] = ui'.key
    BY <1>1 DEF BeginConnect, TypeOK
  <2> QED BY <2>1 DEF CallInv
<1>2. ASSUME ui'.pc \in {"find", "visit"} => ui'.key \in Ident, ui'.pc # "insert", UNCHANGED io,
             ui'.pc \in {"emit", "socket"} => ui'.sess \in Session /\ st'[ui'.sess] # "none",
             \A s \in Session : st[s] = "closing" => st'[s] = "closing"
      PROVE  CallInv'
  BY <1>2 DEF CallInv
<1>3. CASE EndConnect
  <2>1. \A s \in Session : st[s] = "closing" => st'[s] = "closing"
    BY <1>3 DEF EndConnect, CallInv, TypeOK
  <2> QED BY <1>2, <1>3, <2>1 DEF EndConnect, Ready
<1>4. CASE BeginFind \/ EndFind \/ AdvanceToEnd \/ Crash \/ Stop \/ Join
  BY <1>2, <1>4 DEF BeginFind, EndFind, AdvanceToEnd, Crash, Stop, Join, Ready
<1>5. CASE BeginClose
  BY <1>2, <1>5 DEF BeginClose, Ready, TypeOK
<1>6. CASE Visit
  <2>1. ui'.pc = "emit" /\ ui'.sess = Lookup(ui.key) /\ UNCHANGED <<io, st>>
    BY <1>6 DEF Visit, TypeOK
  <2>2. Lookup(ui.key) \in Session /\ st[Lookup(ui.key)] # "none"
    BY <1>6, FoundUnderItsKey DEF Visit
  <2> QED BY <1>2, <2>1, <2>2
<1>11. CASE VisitEmit \/ VisitSocket
  <2>1. ui'.pc \in {"socket", "advance"} /\ ui'.sess = ui.sess /\ UNCHANGED <<io, st>>
    BY <1>11 DEF VisitEmit, VisitSocket, TypeOK
  <2>2. ui.sess \in Session /\ st[ui.sess] # "none"
    BY <1>11, VisitedSession DEF VisitEmit, VisitSocket
  <2> QED BY <1>2, <2>1, <2>2
<1>7. CASE AdvanceToEntry
  BY <1>2, <1>7 DEF AdvanceToEntry, Ready, TypeOK
<1>8. ASSUME NEW s \in Session, Network(s) \/ IoThread(s) PROVE CallInv'
  <2>1. /\ UNCHANGED <<key, ui>> /\ Trying(s)
        /\ \A r \in Session \ {s} : st'[r] = st[r]
        /\ st'[s] # "none"
    BY <1>8, ProgressOfSession DEF TypeOK
  <2>2. CASE io' = io
    BY <2>1, <2>2 DEF CallInv, Trying
  <2>3. CASE io' = [pc |-> "erase", sess |-> s] /\ st'[s] = "closing"
    BY <2>1, <2>3 DEF CallInv, Trying
  <2> QED BY <1>8, <2>2, <2>3, ProgressOfSession
<1>9. CASE OnClose \/ EmitClose
  <2>1. io'.pc \in {"emit", "socket"} /\ io'.sess = io.sess /\ UNCHANGED <<key, ui, st>>
    BY <1>9 DEF OnClose, EmitClose, TypeOK
  <2>2. io.pc # "idle"
    BY <1>9 DEF OnClose, EmitClose
  <2> QED BY <2>1, <2>2 DEF CallInv
<1>12. CASE CloseSocket
  <2>1. io' = Idle /\ UNCHANGED <<key, ui>> /\ st' = [st EXCEPT ![io.sess] = "closed"]
    BY <1>12 DEF CloseSocket
  <2>2. io.sess \in Session /\ st[io.sess] = "closing"
    BY <1>12, ClosingSession DEF CloseSocket
  <2> QED BY <2>1, <2>2 DEF CallInv, Idle, TypeOK
<1>10. CASE UNCHANGED vars
  BY <1>10 DEF vars, CallInv
<1> QED BY <1>1, <1>3, <1>4, <1>5, <1>6, <1>7, <1>8, <1>9, <1>10, <1>11, <1>12
        DEF Next, Application, Closing

-----------------------------------------------------------------------------
(* What a step leaves alone of the map, the signals and the closes under   *)
(* way.                                                                    *)
LEMMA SignalsKept ==
  ASSUME SignalInv, UNCHANGED <<sessMap, last, crossed>>, cleared => cleared',
         \A k \in Ident : IoSignalPending(k) => IoSignalPending(k)',
         io'.pc = "emit" => io.pc = "emit" /\ key'[io'.sess] = key[io.sess],
         ui'.pc # "emit", ui.pc = "emit" => ui'.pc = "crashed", ui.pc # "crashed"
  PROVE  SignalInv'
BY DEF SignalInv, SignalsMatchMap

LEMMA SignalStep == TypeOK /\ IInv /\ SignalInv /\ [Next]_vars => SignalInv'
<1> SUFFICES ASSUME TypeOK, IInv, SignalInv, [Next]_vars PROVE SignalInv'
  OBVIOUS
<1> USE DEF mapVars, sessVars
<1>1. CASE UNCHANGED <<sessMap, last, crossed, cleared, key, ui, io>>
  BY <1>1 DEF SignalInv, SignalsMatchMap, IoSignalPending
<1>2. ASSUME UNCHANGED <<sessMap, last, crossed, key, io>>, cleared => cleared',
             ui.pc \notin {"emit", "crashed"}, ui'.pc # "emit"
      PROVE  SignalInv'
  BY <1>2, SignalsKept DEF IoSignalPending
<1>3. ASSUME NEW s \in Session, BeginConnect(s) PROVE SignalInv'
  <2>1. /\ st[s] = "none" /\ key' = [key EXCEPT ![s] = key'[s]] /\ ui.pc = "ready"
        /\ ui'.pc = "insert" /\ UNCHANGED <<sessMap, last, crossed, cleared, io>>
    BY <1>3 DEF BeginConnect, Ready, TypeOK
  <2>2. io.pc = "emit" => key'[io.sess] = key[io.sess]
    <3>1. CASE io.pc = "emit"
      <4>1. io.sess \in Session /\ io.sess # s
        BY <2>1, <3>1, ClosingSession
      <4> QED BY <2>1, <4>1 DEF TypeOK
    <3> QED BY <3>1
  <2> QED BY <2>1, <2>2, SignalsKept DEF IoSignalPending
<1>4. CASE EndConnect
  <2>1. ui.key \in Ident /\ ui.pc = "insert" /\ ui'.pc = "ready" /\ UNCHANGED <<key, io, cleared>>
    BY <1>4 DEF EndConnect, IInv, CallInv, Ready
  <2>2. DOMAIN sessMap' = DOMAIN sessMap \cup {ui.key}
    BY <1>4 DEF EndConnect, Insert
  <2>3. \A k \in Ident : last'[k] = IF k = ui.key THEN "connect" ELSE last[k]
    BY <1>4, <2>1 DEF EndConnect, TypeOK
  <2>4. \A k \in Ident : crossed'[k] = IF k = ui.key THEN IoSignalPending(k) ELSE crossed[k]
    BY <1>4, <2>1 DEF EndConnect, TypeOK
  <2>5. io.pc = "emit" => key[io.sess] \in Ident
    BY ClosingSession
  <2>6. SignalsMatchMap'
    BY <2>1, <2>2, <2>3, <2>4 DEF SignalInv, SignalsMatchMap, IoSignalPending
  <2>7. ASSUME io'.pc = "emit", key'[io'.sess] \in DOMAIN sessMap' PROVE crossed'[key'[io'.sess]]
    BY <2>1, <2>2, <2>4, <2>5, <2>7 DEF SignalInv, IoSignalPending
  <2> QED BY <2>1, <2>6, <2>7 DEF SignalInv
<1>5. CASE Visit
  <2> DEFINE s == Lookup(ui.key)
  <2>1. s \in Session /\ key[s] = ui.key /\ ui.key \in Ident
    BY <1>5, FoundUnderItsKey DEF Visit, IInv
  <2>2. /\ ui.pc = "visit" /\ ui'.pc = "emit" /\ ui'.sess = s
        /\ UNCHANGED <<last, crossed, cleared, key, io>>
    BY <1>5 DEF Visit, TypeOK
  <2>3. DOMAIN sessMap' = DOMAIN sessMap \ {ui.key}
    BY <1>5, <2>1 DEF Visit, Without
  <2> QED BY <2>1, <2>2, <2>3 DEF SignalInv, SignalsMatchMap, IoSignalPending
<1>6. CASE VisitEmit
  <2> DEFINE k == key[ui.sess]
  <2>1. k \in Ident /\ ui.pc = "emit" /\ ui'.pc = "socket"
    BY <1>6, VisitedSession DEF VisitEmit, TypeOK
  <2>2. UNCHANGED <<sessMap, crossed, cleared, key, io>> /\ k \notin DOMAIN sessMap
    BY <1>6, <2>1 DEF VisitEmit, SignalInv
  <2>3. \A j \in Ident : last'[j] = IF j = k THEN "closed" ELSE last[j]
    BY <1>6, <2>1 DEF VisitEmit, TypeOK
  <2> QED BY <2>1, <2>2, <2>3 DEF SignalInv, SignalsMatchMap, IoSignalPending
<1>7. CASE OnClose
  <2> DEFINE k == key[io.sess]
  <2>1. k \in Ident /\ io.pc = "erase" /\ io'.pc = "emit" /\ io'.sess = io.sess
    BY <1>7, ClosingSession DEF OnClose, TypeOK
  <2>2. DOMAIN sessMap' = DOMAIN sessMap \ {k} /\ UNCHANGED <<last, crossed, cleared, key, ui>>
    BY <1>7 DEF OnClose, Without
  <2> QED BY <2>1, <2>2 DEF SignalInv, SignalsMatchMap, IoSignalPending
<1>8. CASE EmitClose
  <2> DEFINE k == key[io.sess]
  <2>1. k \in Ident /\ io.pc = "emit" /\ io'.pc = "socket"
    BY <1>8, ClosingSession DEF EmitClose, TypeOK
  <2>2. UNCHANGED <<sessMap, crossed, cleared, key, ui>> /\ (k \in DOMAIN sessMap => crossed[k])
    BY <1>8, <2>1 DEF EmitClose, SignalInv
  <2>3. \A j \in Ident : last'[j] = IF j = k THEN "closed" ELSE last[j]
    BY <1>8, <2>1 DEF EmitClose, TypeOK
  <2> QED BY <2>1, <2>2, <2>3 DEF SignalInv, SignalsMatchMap, IoSignalPending
<1>9. CASE CloseSocket
  <2>1. io.pc = "socket" /\ io'.pc = "idle" /\ UNCHANGED <<mapVars, key, ui>>
    BY <1>9 DEF CloseSocket, Idle
  <2> QED BY <2>1 DEF SignalInv, SignalsMatchMap, IoSignalPending
<1>10. CASE AdvanceToEnd
  <2>1. ui.pc \in {"advance", "visit"} /\ ui'.pc = "ready" /\ cleared' /\ DOMAIN sessMap' = {}
    BY <1>10 DEF AdvanceToEnd, Lost, Ready
  <2> QED BY <2>1 DEF SignalInv, SignalsMatchMap
<1>11. CASE BeginFind \/ EndFind \/ AdvanceToEntry \/ Stop \/ Join \/ VisitSocket \/ BeginClose
  <2>1. UNCHANGED <<sessMap, last, crossed, key, io>> /\ (cleared => cleared')
    BY <1>11 DEF BeginFind, EndFind, AdvanceToEntry, Stop, Join, VisitSocket, BeginClose
  <2>2. ui.pc \notin {"emit", "crashed"}
    <3>1. CASE ui = Ready
      BY <3>1 DEF Ready
    <3>2. CASE ui.pc \in {"find", "visit", "advance", "join", "socket"}
      BY <3>2
    <3> QED BY <1>11, <3>1, <3>2 DEF BeginFind, EndFind, AdvanceToEntry, Lost, Stop, Join,
                                     VisitSocket, BeginClose
  <2>3. ui'.pc # "emit"
    <3>1. CASE BeginFind \/ EndFind \/ Stop \/ Join
      BY <3>1 DEF BeginFind, EndFind, Stop, Join, Ready
    <3>2. CASE AdvanceToEntry
      BY <3>2 DEF AdvanceToEntry, Ready
    <3>3. CASE VisitSocket
      BY <3>3 DEF VisitSocket, TypeOK
    <3>4. CASE BeginClose
      BY <2>2, <3>4 DEF BeginClose, Ready
    <3> QED BY <1>11, <3>1, <3>2, <3>3, <3>4
  <2> QED BY <1>2, <2>1, <2>2, <2>3
<1>12. CASE Crash
  <2>1. /\ UNCHANGED <<mapVars, key, io>> /\ ui'.pc = "crashed"
        /\ ui.pc \in {"advance", "visit", "emit", "socket"}
    BY <1>12 DEF Crash, Lost, Dangling, Ready
  <2> QED BY <2>1, SignalsKept DEF IoSignalPending
<1>13. ASSUME NEW s \in Session, Network(s) \/ IoThread(s) PROVE SignalInv'
  <2>1. /\ UNCHANGED <<mapVars, key, ui>>
        /\ io' = io \/ (io.pc = "idle" /\ io'.pc = "erase")
    BY <1>13, ProgressOfSession
  <2> QED BY <2>1 DEF SignalInv, SignalsMatchMap, IoSignalPending
<1>14. CASE UNCHANGED vars
  BY <1>1, <1>14 DEF vars
<1> QED BY <1>3, <1>4, <1>5, <1>6, <1>7, <1>8, <1>9, <1>10, <1>11, <1>12, <1>13, <1>14
        DEF Next, Application, Closing

LEMMA ReachStep == TypeOK /\ IInv /\ ReachInv /\ [Next]_vars => ReachInv'
<1> SUFFICES ASSUME TypeOK, IInv, ReachInv, [Next]_vars PROVE ReachInv'
  OBVIOUS
<1> USE DEF mapVars, sessVars
<1>1. ASSUME UNCHANGED <<sessMap, key>>, cleared => cleared',
             \A s \in Session : Trying(s)' => Trying(s) /\ (BeingClosed(s) => BeingClosed(s)')
      PROVE  ReachInv'
  <2> SUFFICES ASSUME NEW s \in Session, Trying(s)' PROVE Reachable(s)'
    BY DEF ReachInv
  <2>1. Reachable(s) /\ (BeingClosed(s) => BeingClosed(s)')
    BY <1>1 DEF ReachInv
  <2> QED BY <1>1, <2>1 DEF Reachable, Lookup
<1>2. ASSUME NEW s \in Session, BeginConnect(s) PROVE ReachInv'
  <2>1. key[s] = NoKey /\ st' = st /\ \A t \in Session \ {s} : key'[t] = key[t]
    BY <1>2 DEF BeginConnect, IInv, KeyInv, Ready, TypeOK
  <2> SUFFICES ASSUME NEW r \in Session, Trying(r)' PROVE Reachable(r)'
    BY DEF ReachInv
  <2>2. Trying(r) /\ r # s /\ key[r] \in Ident /\ key[r] # key[s]
    BY <1>2, <2>1, ClientAssumption DEF ClientAssumption, BeginConnect, IInv, KeyInv, Trying
  <2>3. key'[r] = key[r] /\ \A t \in Session \ {r} : key[t] = key[r] => key'[t] = key[t]
    BY <2>1, <2>2
  <2>4. UNCHANGED <<sessMap, cleared, sock>> /\ (BeingClosed(r) => BeingClosed(r)')
    BY <1>2 DEF BeginConnect, Ready, BeingClosed
  <2>5. Reachable(r)
    BY <2>2 DEF ReachInv
  <2> QED BY <2>3, <2>4, <2>5 DEF Reachable, Lookup
<1>3. CASE EndConnect
  <2>0. PICK n \in Session : n = ui.sess
    BY <1>3 DEF EndConnect, IInv, CallInv
  <2>1. /\ st[n] = "none" /\ key[n] = ui.key /\ ui.key \in Ident
        /\ sessMap' = Insert(sessMap, ui.key, n)
        /\ key' = key /\ cleared' = cleared
        /\ \A r \in Session \ {n} : st'[r] = st[r]
    BY <1>3, <2>0 DEF EndConnect, IInv, CallInv, TypeOK
  <2>2. \A k \in DOMAIN sessMap : k \in DOMAIN sessMap' /\ sessMap'[k] = sessMap[k]
    BY <2>1 DEF Insert
  <2>3. ASSUME NEW r \in Session \ {n}, Trying(r) PROVE Reachable(r)'
    <3>1. Lookup(key[r]) = r => key[r] \in DOMAIN sessMap
      BY ClientAssumption DEF Lookup, ClientAssumption
    <3>2. BeingClosed(r) => BeingClosed(r)'
      BY <1>3 DEF EndConnect, BeingClosed
    <3>3. Reachable(r)
      BY <2>3 DEF ReachInv
    <3> QED BY <2>1, <2>2, <3>1, <3>2, <3>3 DEF Reachable, Lookup
  <2>4. Reachable(n)'
    <3>1. CASE ui.key \in DOMAIN sessMap
      <4>1. sessMap[ui.key] \in Session \ {n} /\ key[sessMap[ui.key]] = ui.key
        BY <2>1, <3>1 DEF IInv, MapInv, TypeOK
      <4> QED BY <2>1, <4>1 DEF Reachable
    <3>2. CASE ui.key \notin DOMAIN sessMap
      <4>1. ui.key \in DOMAIN sessMap' /\ sessMap'[ui.key] = n
        BY <2>1, <3>2 DEF Insert
      <4> QED BY <2>1, <4>1 DEF Reachable, Lookup
    <3> QED BY <3>1, <3>2
  <2>5. ASSUME NEW r \in Session \ {n}, Trying(r)' PROVE Trying(r)
    BY <2>1, <2>5 DEF Trying
  <2> QED BY <2>3, <2>4, <2>5 DEF ReachInv
<1>4. ASSUME NEW v \in Session, sessMap' = Without(sessMap, key[v]), UNCHANGED <<key, cleared, st>>,
             Trying(v) => BeingClosed(v)',
             \A r \in Session \ {v} : BeingClosed(r) => BeingClosed(r)'
      PROVE  ReachInv'
  <2> SUFFICES ASSUME NEW r \in Session, Trying(r)' PROVE Reachable(r)'
    BY DEF ReachInv
  <2>1. Trying(r) /\ Reachable(r)
    BY <1>4 DEF ReachInv, Trying
  <2>2. CASE r = v
    BY <1>4, <2>1, <2>2 DEF Reachable
  <2>3. CASE r # v
    <3>1. key[r] # key[v] => Lookup(key[r])' = Lookup(key[r])
      BY <1>4 DEF Without, Lookup
    <3> QED BY <1>4, <2>1, <2>3, <3>1 DEF Reachable
  <2> QED BY <2>2, <2>3
<1>5. CASE Visit
  <2>0. PICK v \in Session : v = Lookup(ui.key)
    BY <1>5, FoundUnderItsKey DEF Visit, IInv
  <2>1. UNCHANGED <<st, key, cleared, sock>> /\ sessMap' = Without(sessMap, key[v])
    BY <1>5, <2>0 DEF Visit
  <2>2. ui.pc = "visit" /\ ui'.pc = "emit" /\ ui'.sess = v
    BY <1>5, <2>0 DEF Visit, TypeOK
  <2>3. BeingClosed(v)'
    BY <2>2 DEF BeingClosed
  <2>4. \A r \in Session \ {v} : BeingClosed(r) => BeingClosed(r)'
    BY <2>1, <2>2 DEF BeingClosed
  <2> QED BY <1>4, <2>1, <2>3, <2>4
<1>6. CASE OnClose
  <2> DEFINE v == io.sess
  <2>1. /\ v \in Session /\ st[v] = "closing" /\ UNCHANGED <<key, cleared, st, sock, ui>>
        /\ sessMap' = Without(sessMap, key[v])
    BY <1>6, ClosingSession DEF OnClose
  <2>2. \A r \in Session \ {v} : BeingClosed(r) => BeingClosed(r)'
    BY <2>1 DEF BeingClosed
  <2> QED BY <1>4, <2>1, <2>2 DEF Trying
<1>7. CASE VisitEmit \/ VisitSocket
  <2>1. UNCHANGED <<sessMap, key, st, cleared>> /\ ui.sess \in Session
    BY <1>7, VisitedSession DEF VisitEmit, VisitSocket
  <2>2. \A r \in Session : BeingClosed(r) => BeingClosed(r)'
    BY <1>7, <2>1 DEF VisitEmit, VisitSocket, BeingClosed, TypeOK
  <2> QED BY <1>1, <2>1, <2>2 DEF Trying
<1>8. CASE EmitClose \/ CloseSocket
  <2>1. UNCHANGED <<sessMap, key, cleared, ui>> /\ io.sess \in Session
    BY <1>8, ClosingSession DEF EmitClose, CloseSocket
  <2>2. \A r \in Session : BeingClosed(r) => BeingClosed(r)'
    BY <1>8, <2>1 DEF EmitClose, CloseSocket, BeingClosed, TypeOK
  <2>3. \A r \in Session : Trying(r)' => Trying(r)
    BY <1>8, <2>1 DEF EmitClose, CloseSocket, Trying, TypeOK
  <2> QED BY <1>1, <2>1, <2>2, <2>3
<1>9. CASE AdvanceToEnd
  BY <1>9 DEF AdvanceToEnd, ReachInv, Reachable
<1>10. CASE BeginFind \/ EndFind \/ BeginClose \/ AdvanceToEntry \/ Stop \/ Join
  <2>1. UNCHANGED <<sessMap, key, st, sock>> /\ (cleared => cleared')
    <3>1. CASE BeginClose
      BY <3>1 DEF BeginClose
    <3>2. CASE BeginFind \/ EndFind
      BY <3>2 DEF BeginFind, EndFind
    <3>3. CASE AdvanceToEntry
      BY <3>3 DEF AdvanceToEntry
    <3>4. CASE Stop \/ Join
      BY <3>4 DEF Stop, Join
    <3> QED BY <1>10, <3>1, <3>2, <3>3, <3>4
  <2>2. ui.pc \notin {"emit", "socket"}
    <3>1. CASE ui = Ready
      BY <3>1 DEF Ready
    <3>2. CASE ui.pc \in {"find", "visit", "advance", "join"}
      BY <3>2
    <3> QED BY <1>10, <3>1, <3>2 DEF BeginFind, EndFind, BeginClose, AdvanceToEntry, Lost, Stop, Join
  <2>3. \A r \in Session : BeingClosed(r) => BeingClosed(r)'
    BY <2>1, <2>2 DEF BeingClosed
  <2> QED BY <1>1, <2>1, <2>3 DEF Trying
<1>11. CASE Crash
  <2>1. UNCHANGED <<sessMap, key, st, sock, cleared>> /\ (Lost \/ Dangling)
    BY <1>11 DEF Crash
  <2>2. \A r \in Session : Trying(r) => (BeingClosed(r) => BeingClosed(r)')
    BY <2>1 DEF BeingClosed, Trying, Lost, Dangling
  <2> QED BY <1>1, <2>1, <2>2 DEF Trying
<1>12. ASSUME NEW s \in Session, Network(s) \/ IoThread(s) PROVE ReachInv'
  <2>1. UNCHANGED <<sessMap, key, cleared, sock, ui>>
    BY <1>12, ProgressOfSession
  <2>2. \A r \in Session : Trying(r)' => Trying(r)
    BY <1>12, ProgressOfSession DEF Trying, TypeOK
  <2> QED BY <1>1, <2>1, <2>2 DEF BeingClosed
<1>13. CASE UNCHANGED vars
  BY <1>1, <1>13 DEF vars, Trying, BeingClosed
<1> QED BY <1>2, <1>3, <1>5, <1>6, <1>7, <1>8, <1>9, <1>10, <1>11, <1>12, <1>13
        DEF Next, Application, Closing

(* Every variable keeps its type, and the two threads leave each other     *)
(* what IInv says they may rely on (TypeOK).                               *)
THEOREM InvariantHolds == Spec => [](TypeOK /\ IInv)
<1>1. TypeOK /\ IInv /\ [Next]_vars => (TypeOK /\ IInv)'
  BY TypeStep, KeyStep, MapStep, CallStep DEF IInv
<1> QED BY <1>1, Initially, PTL DEF Spec

(* The application can follow the map by the signals, although two threads *)
(* change it without a lock, but for the gap between the erase of an       *)
(* onClose and its sigClose and what a doConnect in it leads to            *)
(* (SignalsMatchMap).                                                      *)
THEOREM SignalsFollowMap == Spec => []SignalsMatchMap
<1>1. SignalInv => SignalsMatchMap
  BY DEF SignalInv
<1> QED BY <1>1, Initially, SignalStep, InvariantHolds, PTL DEF Spec

(* A session that shook hands can be found under its id, unless another    *)
(* session is for the same peer or close was called (OpenIsReachable).     *)
THEOREM OpenStaysReachable == Spec => []OpenIsReachable
<1>1. ReachInv => OpenIsReachable
  BY DEF ReachInv, Trying, Reachable, OpenIsReachable
<1> QED BY <1>1, Initially, ReachStep, InvariantHolds, PTL DEF Spec

-----------------------------------------------------------------------------
(* The refinement of the directory, step by step: what a step may change   *)
(* of entitled, owner, call and carried.                                   *)
Title == [s \in Session |-> {key[s]} \cap Ident]
Owned == [k \in Ident |-> Lookup(k)]
Call == IF ui.pc = "find" THEN {[id |-> ui.key, found |-> ui.sess]} ELSE {}

LEMMA DirectoryInit == Init => Directory!Init
  BY ClientAssumption DEF ClientAssumption, Init, Directory!Init, Lookup, Ready

LEMMA DirectoryStutter ==
  ASSUME UNCHANGED <<Title, Owned, Call, routed>>
  PROVE  UNCHANGED Directory!vars
BY DEF Directory!vars, Title, Owned, Call

(* erase(id) removes what the id leads to, and nothing else.               *)
LEMMA DirectoryRemove ==
  ASSUME NEW k \in Ident, sessMap' = Without(sessMap, k), UNCHANGED <<Title, Call, routed>>
  PROVE  Directory!Remove
<1>1. \A j \in Ident : Lookup(j)' = IF j = k THEN NoSession ELSE Lookup(j)
  BY DEF Without, Lookup
<1>2. Owned' = [Owned EXCEPT ![k] = NoSession]
  BY <1>1 DEF Owned
<1> QED BY <1>2 DEF Directory!Remove, Title, Owned, Call

LEMMA DirectoryStep == TypeOK /\ IInv /\ [Next]_vars => [Directory!Next]_(Directory!vars)
<1> SUFFICES ASSUME TypeOK, IInv, [Next]_vars PROVE [Directory!Next]_(Directory!vars)
  OBVIOUS
<1> USE DEF mapVars, sessVars
<1>1. ASSUME UNCHANGED <<key, sessMap, routed>>, Call' = Call
      PROVE  [Directory!Next]_(Directory!vars)
  BY <1>1, DirectoryStutter DEF Title, Owned, Lookup
<1>2. CASE BeginClose
  <2>1. Call' = Call
    <3>1. CASE ui' = ui
      BY <3>1 DEF Call
    <3>2. CASE DOMAIN sessMap # {}
      <4>1. PICK k \in DOMAIN sessMap : ui' = [Ready EXCEPT !.pc = "visit", !.key = k]
        BY <1>2, <3>2 DEF BeginClose
      <4>2. ui.pc = "ready" /\ ui'.pc = "visit"
        BY <1>2, <4>1 DEF BeginClose, Ready
      <4> QED BY <4>2 DEF Call
    <3>3. CASE DOMAIN sessMap = {}
      BY <1>2, <3>1, <3>3 DEF BeginClose
    <3> QED BY <3>2, <3>3
  <2> QED BY <1>1, <1>2, <2>1 DEF BeginClose
<1>3. CASE AdvanceToEntry \/ Crash \/ Stop \/ Join
  <2>1. Call' = Call
    <3>1. ui.pc # "find"
      <4>1. CASE Lost \/ Dangling \/ Join
        BY <4>1 DEF Lost, Dangling, Join
      <4>2. CASE Stop
        BY <4>2 DEF Stop, Ready
      <4> QED BY <1>3, <4>1, <4>2 DEF AdvanceToEntry, Crash
    <3>2. CASE AdvanceToEntry
      <4>1. PICK k \in DOMAIN sessMap : ui' = [Ready EXCEPT !.pc = "visit", !.key = k]
        BY <3>2 DEF AdvanceToEntry
      <4> QED BY <3>1, <4>1 DEF Call, Ready
    <3>3. CASE Crash \/ Stop \/ Join
      BY <3>1, <3>3 DEF Crash, Stop, Join, Call, Ready
    <3> QED BY <1>3, <3>2, <3>3
  <2> QED BY <1>1, <1>3, <2>1 DEF AdvanceToEntry, Crash, Stop, Join
<1>4. ASSUME NEW s \in Session, BeginConnect(s) PROVE [Directory!Next]_(Directory!vars)
  <2>1. UNCHANGED <<Owned, Call, routed>>
    BY <1>4 DEF BeginConnect, Ready, Owned, Lookup, Call
  <2>2. key[s] = NoKey /\ \A r \in Session \ {s} : key'[r] = key[r]
    BY <1>4 DEF BeginConnect, IInv, KeyInv, Ready, TypeOK
  <2>3. Title' \in [Session -> SUBSET Ident] /\ \A r \in Session : Title[r] \subseteq Title'[r]
    BY <2>2, ClientAssumption DEF Title, ClientAssumption
  <2>4. Directory!Entitle
    BY <2>1, <2>3 DEF Directory!Entitle, Title, Owned, Call
  <2> QED BY <2>4 DEF Directory!Next
<1>5. CASE EndConnect
  <2>0. PICK s \in Session, k \in Ident : s = ui.sess /\ k = ui.key
    BY <1>5 DEF EndConnect, IInv, CallInv
  <2>1. sessMap' = Insert(sessMap, k, s) /\ key[s] = k
    BY <1>5, <2>0 DEF EndConnect, IInv, CallInv
  <2>2. UNCHANGED <<Title, Call, routed>>
    BY <1>5 DEF EndConnect, Ready, Title, Call
  <2>3. \A j \in Ident : Lookup(j)' = IF j = k /\ k \notin DOMAIN sessMap THEN s ELSE Lookup(j)
    BY <2>1 DEF Insert, Lookup
  <2>4. CASE k \in DOMAIN sessMap
    <3>1. Owned' = Owned
      BY <2>3, <2>4 DEF Owned
    <3> QED BY <2>2, <3>1, DirectoryStutter
  <2>5. CASE k \notin DOMAIN sessMap
    <3>1. Owned' = [Owned EXCEPT ![k] = s] /\ Owned[k] = NoSession /\ k \in Title[s]
      BY <2>1, <2>3, <2>5 DEF Owned, Lookup, Title
    <3>2. Directory!Enter(k, s)
      BY <2>2, <3>1 DEF Directory!Enter, Title, Owned, Call
    <3> QED BY <3>2 DEF Directory!Next
  <2> QED BY <2>4, <2>5
<1>6. CASE BeginFind
  <2>1. PICK k \in Ident : ui' = [pc |-> "find", key |-> k, sess |-> Lookup(k)]
    BY <1>6 DEF BeginFind
  <2>2. Call = {} /\ Call' = {[id |-> k, found |-> Owned[k]]}
    BY <1>6, <2>1 DEF BeginFind, Ready, Call, Owned
  <2>3. UNCHANGED <<Title, Owned, routed>>
    BY <1>6 DEF BeginFind, Title, Owned, Lookup
  <2>4. Directory!BeginSend(k)
    BY <2>2, <2>3 DEF Directory!BeginSend, Title, Owned, Call
  <2> QED BY <2>4 DEF Directory!Next
<1>7. CASE EndFind
  <2>1. Call = {[id |-> ui.key, found |-> ui.sess]} /\ Call' = {}
    BY <1>7 DEF EndFind, Ready, Call
  <2>2. UNCHANGED <<Title, Owned>>
    BY <1>7 DEF EndFind, Title, Owned, Lookup
  <2>3. PICK s \in {ui.sess, Lookup(ui.key)} :
           routed' = IF s = NoSession THEN routed ELSE [routed EXCEPT ![s] = @ \cup {ui.key}]
    BY <1>7 DEF EndFind
  <2>4. Owned[ui.key] = Lookup(ui.key)
    BY <1>7 DEF EndFind, IInv, CallInv, Owned
  <2>5. Directory!EndSend
    BY <2>1, <2>2, <2>3, <2>4 DEF Directory!EndSend, Title, Owned, Call
  <2> QED BY <2>5 DEF Directory!Next
<1>8. CASE Visit
  <2>1. key[Lookup(ui.key)] \in Ident
    BY <1>8, FoundUnderItsKey DEF Visit, IInv
  <2>2. UNCHANGED <<Title, Call, routed>>
    BY <1>8 DEF Visit, Title, Call, TypeOK
  <2>3. Directory!Remove
    BY <1>8, <2>1, <2>2, DirectoryRemove DEF Visit
  <2> QED BY <2>3 DEF Directory!Next
<1>9. CASE OnClose
  <2>1. UNCHANGED <<Title, Call, routed>>
    BY <1>9 DEF OnClose, Title, Call
  <2>2. key[io.sess] \in Ident
    BY <1>9, ClosingSession DEF OnClose
  <2>3. Directory!Remove
    BY <1>9, <2>1, <2>2, DirectoryRemove DEF OnClose
  <2> QED BY <2>3 DEF Directory!Next
<1>13. CASE VisitEmit \/ VisitSocket \/ EmitClose \/ CloseSocket
  <2>1. Call' = Call
    BY <1>13 DEF VisitEmit, VisitSocket, EmitClose, CloseSocket, Call, TypeOK
  <2> QED BY <1>1, <1>13, <2>1 DEF VisitEmit, VisitSocket, EmitClose, CloseSocket
<1>10. CASE AdvanceToEnd
  <2>1. UNCHANGED <<Title, Call, routed>>
    BY <1>10 DEF AdvanceToEnd, Lost, Ready, Title, Call
  <2>2. Owned' = [k \in Ident |-> NoSession]
    BY <1>10 DEF AdvanceToEnd, Owned, Lookup
  <2>3. Directory!Remove
    BY <2>1, <2>2 DEF Directory!Remove, Title, Owned, Call
  <2> QED BY <2>3 DEF Directory!Next
<1>11. ASSUME NEW s \in Session, Network(s) \/ IoThread(s)
       PROVE  [Directory!Next]_(Directory!vars)
  BY <1>1, <1>11, ProgressOfSession DEF Call
<1>12. CASE UNCHANGED vars
  BY <1>1, <1>12 DEF vars, Call
<1> QED BY <1>2, <1>3, <1>4, <1>5, <1>6, <1>7, <1>8, <1>9, <1>10, <1>11, <1>12, <1>13
        DEF Next, Application, Closing

(* The client is a directory of peers as well: an id leads to a session    *)
(* that doConnect made for it, an entry is never replaced, and a text goes *)
(* where the id led when the search began or ended (DirectorySpec).        *)
THEOREM ImplementsDirectory == Spec => DirectorySpec
BY DirectoryInit, DirectoryStep, InvariantHolds, PTL DEF Spec, DirectorySpec, Directory!Spec

(* The invariant of the directory, of which the promise is the last part.  *)
Titled ==
    /\ Title \in [Session -> SUBSET Ident]
    /\ routed \in [Session -> SUBSET Ident]
    /\ Owned \in [Ident -> Session \cup {NoSession}]
    /\ \A k \in Ident : Owned[k] # NoSession => k \in Title[Owned[k]]
    /\ \A c \in Call : /\ c.id \in Ident /\ c.found \in Session \cup {NoSession}
                       /\ c.found # NoSession => c.id \in Title[c.found]
    /\ \A s \in Session : routed[s] \subseteq Title[s]

LEMMA TitledIs == Titled <=> Directory!TitledInv
BY DEF Titled, Directory!TitledInv, Directory!CarriedIsEntitled, Title, Owned, Call

LEMMA TitledInit == Directory!Init => Titled
<1>1. Directory!Init => /\ Title \in [Session -> SUBSET Ident]
                        /\ Owned = [k \in Ident |-> NoSession]
                        /\ Call = {} /\ routed = [s \in Session |-> {}]
  BY DEF Directory!Init, Title, Owned, Call
<1> QED BY <1>1 DEF Titled

LEMMA TitledStep == Titled /\ [Directory!Next]_(Directory!vars) => Titled'
<1> SUFFICES ASSUME Titled, [Directory!Next]_(Directory!vars) PROVE Titled'
  OBVIOUS
<1>1. CASE Directory!Entitle
  <2>1. /\ Title' \in [Session -> SUBSET Ident]
        /\ \A s \in Session : Title[s] \subseteq Title'[s]
        /\ UNCHANGED <<Owned, Call, routed>>
    BY <1>1 DEF Directory!Entitle, Title, Owned, Call
  <2> QED BY <2>1 DEF Titled
<1>2. CASE Directory!Remove
  <2>1. /\ \/ \E k \in Ident : Owned' = [Owned EXCEPT ![k] = NoSession]
           \/ Owned' = [k \in Ident |-> NoSession]
        /\ UNCHANGED <<Title, Call, routed>>
    BY <1>2 DEF Directory!Remove, Title, Owned, Call
  <2> QED BY <2>1 DEF Titled
<1>3. CASE Directory!EndSend
  <2>1. PICK c \in Call :
           /\ Call' = {}
           /\ \E o \in {c.found, Owned[c.id]} :
                 routed' = IF o = NoSession THEN routed
                           ELSE [routed EXCEPT ![o] = @ \cup {c.id}]
           /\ UNCHANGED <<Title, Owned>>
    BY <1>3 DEF Directory!EndSend, Title, Owned, Call
  <2>2. PICK o \in {c.found, Owned[c.id]} :
           routed' = IF o = NoSession THEN routed ELSE [routed EXCEPT ![o] = @ \cup {c.id}]
    BY <2>1
  <2>3. o # NoSession => o \in Session /\ c.id \in Title[o]
    BY <2>2 DEF Titled
  <2>4. c.id \in Ident
    BY DEF Titled
  <2>5. routed' \in [Session -> SUBSET Ident] /\ \A s \in Session : routed'[s] \subseteq Title[s]
    BY <2>1, <2>2, <2>3, <2>4 DEF Titled
  <2> QED BY <2>1, <2>5 DEF Titled
<1>4. ASSUME NEW k \in Ident, Directory!BeginSend(k) PROVE Titled'
  <2>1. Call' = {[id |-> k, found |-> Owned[k]]} /\ UNCHANGED <<Title, Owned, routed>>
    BY <1>4 DEF Directory!BeginSend, Title, Owned, Call
  <2> QED BY <2>1 DEF Titled
<1>5. ASSUME NEW k \in Ident, NEW s \in Session, Directory!Enter(k, s) PROVE Titled'
  <2>1. /\ Owned[k] = NoSession /\ k \in Title[s] /\ Owned' = [Owned EXCEPT ![k] = s]
        /\ UNCHANGED <<Title, Call, routed>>
    BY <1>5 DEF Directory!Enter, Title, Owned, Call
  <2> QED BY <2>1 DEF Titled
<1>6. CASE UNCHANGED Directory!vars
  <2>1. UNCHANGED <<Title, Owned, Call, routed>>
    BY <1>6 DEF Directory!vars, Title, Owned, Call
  <2> QED BY <2>1 DEF Titled
<1> QED BY <1>1, <1>2, <1>3, <1>4, <1>5, <1>6 DEF Directory!Next

(* A text handed over by sendTextMsg goes to a session that was entitled   *)
(* to the id, although the entry may have been removed, and entered again  *)
(* for another session, since the search began.                            *)
THEOREM CarriesWhatItMay == DirectorySpec => []Directory!CarriedIsEntitled
<1>1. Titled => Directory!CarriedIsEntitled
  BY TitledIs DEF Directory!TitledInv
<1> QED BY <1>1, TitledInit, TitledStep, PTL DEF DirectorySpec, Directory!Spec

(* What is written to a session is for the peer it is a session with.      *)
OnlyToNamed == \A s \in Session : routed[s] \subseteq {key[s]}

(* A text for k is only ever written to a session that doConnect made for  *)
(* k, and whose Hello has to verify with k: also when the search runs      *)
(* while the io thread erases, and when close has gone astray.             *)
THEOREM TextsReachNamed == Spec => []OnlyToNamed
<1>1. Directory!CarriedIsEntitled => OnlyToNamed
  BY DEF Directory!CarriedIsEntitled, OnlyToNamed
<1> QED BY <1>1, ImplementsDirectory, CarriesWhatItMay, PTL
=============================================================================
