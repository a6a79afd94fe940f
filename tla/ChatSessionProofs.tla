------------------------- MODULE ChatSessionProofs -------------------------
(***************************************************************************)
(* What TLAPS proves of ChatSession for every set of keys and texts, every *)
(* configuration and any number of texts.                                  *)
(***************************************************************************)
EXTENDS ChatSession, SequenceTheorems, FiniteSetTheorems, TLAPS

(* What the code reads from the stream is an item of the right shape. *)
LEMMA NextItemType ==
  ASSUME TypeOK, NEW e \in Side, got[e] < Len(wire[e])
  PROVE  /\ NextItem(e) \in Item
         /\ AsHello(NextItem(e)).static_key \in Ident \cup {NoKey}
         /\ AsHello(NextItem(e)).ephemeral_key \in Side
<1>1. NextItem(e) \in Item
  <2>1. wire[e] \in Seq(Item) /\ got[e] \in Nat
    BY DEF TypeOK
  <2> QED BY <2>1 DEF NextItem
<1>2. CASE NextItem(e).kind = "hello"
  BY <1>1, <1>2 DEF AsHello, Item
<1>3. CASE NextItem(e).kind # "hello"
  BY <1>1, <1>3 DEF AsHello, AlienHello, Side
<1> QED BY <1>1, <1>2, <1>3

(* A handler of a session hands over a text or garbage. *)
LEMMA DecryptedType ==
  ASSUME NEW item \in Item, NEW ctx
  PROVE  Decrypted(ctx, item) \in Text \cup {Garbled}
<1>1. CASE item.kind = "frame"
  BY <1>1 DEF Decrypted, Item
<1>2. CASE item.kind # "frame"
  BY <1>2 DEF Decrypted
<1> QED BY <1>1, <1>2

LEMMA PeerType == \A e \in Side : Peer(e) \in Side /\ Peer(e) # e /\ Peer(Peer(e)) = e
BY DEF Side, Peer

(* Every item the code writes is an item. *)
LEMMA WriteType ==
  ASSUME TypeOK, NEW e \in Side, NEW item \in Item, Write(e, item)
  PROVE  wire' \in [Side -> Seq(Item)]
<1>1. wire \in [Side -> Seq(Item)] /\ Peer(e) \in Side
  BY PeerType DEF TypeOK
<1>2. Append(wire[Peer(e)], item) \in Seq(Item)
  BY <1>1
<1> QED BY <1>1, <1>2 DEF Write

(* What a write adds to the stream, if the connection takes it.            *)
LEMMA WriteEffect ==
  ASSUME TypeOK, NEW e \in Side, NEW item \in Item, Write(e, item)
  PROVE  /\ \A d \in Side \ {Peer(e)} : wire'[d] = wire[d]
         /\ ~CanWrite(e) => wire' = wire
         /\ CanWrite(e) => /\ wire'[Peer(e)] = Append(wire[Peer(e)], item)
                           /\ Len(wire'[Peer(e)]) = Len(wire[Peer(e)]) + 1
                           /\ wire'[Peer(e)] # <<>>
                           /\ wire'[Peer(e)][Len(wire[Peer(e)]) + 1] = item
                           /\ \A i \in 1..Len(wire[Peer(e)]) :
                                 wire'[Peer(e)][i] = wire[Peer(e)][i]
<1>1. wire \in [Side -> Seq(Item)] /\ Peer(e) \in Side
  BY PeerType DEF TypeOK
<1>2. CASE CanWrite(e)
  <2>1. wire' = [wire EXCEPT ![Peer(e)] = Append(@, item)]
    BY <1>2 DEF Write
  <2>2. wire'[Peer(e)] = Append(wire[Peer(e)], item) /\ wire[Peer(e)] \in Seq(Item)
    BY <1>1, <2>1
  <2> QED BY <1>1, <1>2, <2>1, <2>2
<1>3. CASE ~CanWrite(e)
  BY <1>3 DEF Write
<1> QED BY <1>2, <1>3

LEMMA HelloType ==
  ASSUME TypeOK, NEW e \in Side, NEW t \in {1, 2}
  PROVE  Hello(e, t) \in Item
<1>1. setup.pub[e] \in Ident /\ setup.priv[e] \in Ident
  BY ConstantsAssumption DEF ConstantsAssumption, TypeOK, SetupType
<1> QED BY <1>1 DEF Hello, Item

LEMMA FrameType ==
  ASSUME TypeOK, NEW e \in Side, NEW t \in Text
  PROVE  Frame(ectx[e], t) \in Item
<1>1. ectx[e] \in Context
  BY DEF TypeOK
<1> QED BY <1>1 DEF Frame, Item, Context

LEMMA ContextTypes ==
  /\ NoCtx \in Context
  /\ \A s \in SUBSET Side : InitChaCha20(s) \in Context
  /\ \A c \in Context : Advance(c) \in Context
BY DEF NoCtx, InitChaCha20, Advance, Context

(* The end of a handler closes the socket of its own session, or nothing.  *)
LEMMA ReturnsEffect ==
  ASSUME TypeOK, NEW e \in Side, Returns(e)
  PROVE  /\ sock' = sock \/ sock' = [sock EXCEPT ![e] = "closed"]
         /\ sock' \in [Side -> {"none", "open", "closed"}]
         /\ \A d \in Side \ {e} : sock'[d] = sock[d]
         /\ \A d \in Side : sock[d] = "closed" => sock'[d] = "closed"
BY DEF Returns, TypeOK

(* Every variable keeps its type (TypeOK).                                 *)
THEOREM TypeCorrect == Spec => []TypeOK
<1> USE DEF appVars, sigVars, keyVars, netVars, opVars
<1>1. Init => TypeOK
  <2> SUFFICES ASSUME Init PROVE TypeOK
    OBVIOUS
  <2>1. hsw \in [Side -> {0, 1, 2}] /\ got \in [Side -> Nat] /\ afterClose \in [Side -> Nat]
    BY DEF Init
  <2>2. wire \in [Side -> Seq(Item)] /\ sent \in [Side -> Seq(Text)]
        /\ delivered \in [Side -> Seq(Text \cup {Garbled})]
    BY DEF Init
  <2>3. ectx \in [Side -> Context] /\ dctx \in [Side -> Context]
    BY ContextTypes DEF Init
  <2>4. /\ late \in [Side -> BOOLEAN] /\ inMap \in [Side -> BOOLEAN]
        /\ fin \in [Side -> BOOLEAN] /\ closeSig \in [Side -> BOOLEAN]
        /\ connected \in BOOLEAN
    BY DEF Init
  <2> QED BY <2>1, <2>2, <2>3, <2>4 DEF Init, TypeOK
<1>2. TypeOK /\ [Next]_vars => TypeOK'
  <2> SUFFICES ASSUME TypeOK, [Next]_vars PROVE TypeOK'
    OBVIOUS
  <2>1. CASE DoConnect
    BY <2>1, ConstantsAssumption DEF DoConnect, TypeOK, ConstantsAssumption, SetupType
  <2>2. CASE Establish
    BY <2>2 DEF Establish, TypeOK
  <2>3. CASE ConnectFails
    BY <2>3 DEF ConnectFails, TypeOK
  <2>4. CASE OnConnect
    <3>1. wire' \in [Side -> Seq(Item)]
      BY <2>4, HelloType, WriteType DEF OnConnect, TypeOK, Side
    <3>2. hsw' \in [Side -> {0, 1, 2}]
      BY <2>4 DEF OnConnect, TypeOK, Side
    <3>3. connected' \in BOOLEAN
      BY <2>4 DEF OnConnect, TypeOK
    <3> QED BY <2>4, <3>1, <3>2, <3>3 DEF OnConnect, TypeOK
  <2>5. CASE OnAccept
    BY <2>5 DEF OnAccept, TypeOK, Side
  <2>6. ASSUME NEW e \in Side, Handler(e) PROVE TypeOK'
    <3> DEFINE h == AsHello(NextItem(e))
    <3> USE DEF ReadsHello, ReadsNext, Completes
    <3>1. CASE OnHelloWritten(e)
      <4>1. hsw' \in [Side -> {0, 1, 2}]
        BY <3>1 DEF OnHelloWritten, TypeOK
      <4>2. rd' \in [Side -> SUBSET {"hello", "head", "body"}]
        <5>1. WaitsAfter(hsw[e]) \in SUBSET {"hello", "head", "body"}
          BY DEF WaitsAfter
        <5>2. CASE rd' = rd
          BY <5>2 DEF TypeOK
        <5>3. CASE rd' = [rd EXCEPT ![e] = @ \cup WaitsAfter(hsw[e])]
          BY <5>1, <5>3 DEF TypeOK
        <5> QED BY <3>1, <5>2, <5>3 DEF OnHelloWritten
      <4>3. sock' \in [Side -> {"none", "open", "closed"}]
        BY <3>1, ReturnsEffect DEF OnHelloWritten
      <4> QED BY <3>1, <4>1, <4>2, <4>3 DEF OnHelloWritten, TypeOK
    <3>2. CASE OnHandShakeUnknownPeer(e)
      BY <3>2 DEF OnHandShakeUnknownPeer, Close, TypeOK
    <3>3. ASSUME ReadsHello(e), Adopts(e, h)
          PROVE  /\ peerKey' \in [Side -> Ident \cup {NoKey}]
                 /\ id' \in [Side -> Ident \cup {NoKey}]
      BY <3>3, NextItemType DEF Adopts, KeyToVerify, TypeOK
    <3>4. CASE OnHandShakeBadSignature(e)
      BY <3>3, <3>4 DEF OnHandShakeBadSignature, Close, TypeOK
    <3>5. CASE OnHandShakeNoSecret(e)
      <4>1. sock' \in [Side -> {"none", "open", "closed"}]
        BY <3>5, ReturnsEffect DEF OnHandShakeNoSecret
      <4>2. /\ rd' \in [Side -> SUBSET {"hello", "head", "body"}]
            /\ late' \in [Side -> BOOLEAN] /\ got' \in [Side -> Nat]
        BY <3>5 DEF OnHandShakeNoSecret, TypeOK
      <4>3. /\ UNCHANGED <<setup, conn, pend, hsw, ectx, dctx, wire, inMap, connected, fin,
                            closeSig, closing, sent, delivered, afterClose>>
            /\ ReadsHello(e) /\ Adopts(e, h)
        BY <3>5 DEF OnHandShakeNoSecret
      <4> HIDE DEF ReadsHello, ReadsNext, Completes
      <4> QED BY <3>3, <4>1, <4>2, <4>3 DEF TypeOK
    <3>6. CASE OnHandShake(e)
      <4>1. SharedSecret(e, h) \in SUBSET Side
        BY <3>6, NextItemType DEF OnHandShake, SharedSecret
      <4>2. dctx' \in [Side -> Context] /\ ectx' \in [Side -> Context]
        BY <3>6, <4>1, ContextTypes DEF OnHandShake, TypeOK
      <4>3. wire' \in [Side -> Seq(Item)]
        <5>1. Hello(e, 2) \in Item
          BY HelloType
        <5>2. CASE Write(e, Hello(e, 2))
          BY <5>1, <5>2, WriteType
        <5>3. CASE UNCHANGED wire
          BY <5>3 DEF TypeOK
        <5> QED BY <3>6, <5>2, <5>3 DEF OnHandShake
      <4>4. hsw' \in [Side -> {0, 1, 2}]
        BY <3>6 DEF OnHandShake, TypeOK
      <4>5. inMap' \in [Side -> BOOLEAN] /\ fin' \in [Side -> BOOLEAN]
        BY <3>6 DEF OnHandShake, TypeOK
      <4>6. got' \in [Side -> Nat]
        BY <3>6 DEF OnHandShake, TypeOK
      <4> QED BY <3>3, <3>6, <4>2, <4>3, <4>4, <4>5, <4>6 DEF OnHandShake, TypeOK
    <3>7. CASE OnReadHead(e)
      BY <3>7 DEF OnReadHead, TypeOK
    <3>8. CASE OnReadBody(e)
      <4>1. delivered' \in [Side -> Seq(Text \cup {Garbled})]
        BY <3>8, NextItemType, DecryptedType DEF OnReadBody, TypeOK
      <4>2. dctx' \in [Side -> Context]
        BY <3>8, ContextTypes DEF OnReadBody, TypeOK
      <4> QED BY <3>8, <4>1, <4>2 DEF OnReadBody, TypeOK
    <3>9. CASE OnReadError(e)
      <4>1. sock' \in [Side -> {"none", "open", "closed"}]
        BY <3>9, ReturnsEffect DEF OnReadError
      <4>2. /\ rd' \in [Side -> SUBSET {"hello", "head", "body"}]
            /\ late' \in [Side -> BOOLEAN]
        BY <3>9 DEF OnReadError, TypeOK
      <4>3. UNCHANGED <<setup, conn, pend, hsw, keyVars, wire, got, inMap, sigVars, closing, appVars>>
        BY <3>9 DEF OnReadError
      <4> QED BY <4>1, <4>2, <4>3 DEF TypeOK
    <3> QED BY <2>6, <3>1, <3>2, <3>4, <3>5, <3>6, <3>7, <3>8, <3>9 DEF Handler
  <2>7. CASE ClientClose \/ ClientSigClose \/ ClientCloseSocket
    BY <2>7 DEF ClientClose, ClientSigClose, ClientCloseSocket, TypeOK
  <2>8. ASSUME NEW e \in Side, NEW t \in Text, SendTextMsg(e, t) PROVE TypeOK'
    <3>1. wire' \in [Side -> Seq(Item)]
      BY <2>8, FrameType, WriteType DEF SendTextMsg
    <3>2. ectx' \in [Side -> Context]
      BY <2>8, ContextTypes DEF SendTextMsg, TypeOK
    <3> QED BY <2>8, <3>1, <3>2 DEF SendTextMsg, TypeOK
  <2>9. CASE NetFail
    BY <2>9 DEF NetFail, TypeOK
  <2>10. CASE UNCHANGED vars
    BY <2>10 DEF vars, TypeOK
  <2> QED BY <2>1, <2>2, <2>3, <2>4, <2>5, <2>6, <2>7, <2>8, <2>9, <2>10
          DEF Next, System, Application
<1> QED BY <1>1, <1>2, PTL DEF Spec

-----------------------------------------------------------------------------
(* A signature that verifies comes from the other end.                     *)
LEMMA VerifiedSigner ==
  ASSUME TypeOK, PeerKeyInv, SignerInv, NEW e \in Side,
         got[e] < Len(wire[e]),
         PeerIsKnown(e, AsHello(NextItem(e))), Verified(e, AsHello(NextItem(e)))
  PROVE  /\ KeyToVerify(e, AsHello(NextItem(e))) = setup.priv[Peer(e)]
         /\ KeyToVerify(e, AsHello(NextItem(e))) # NoKey
<1> DEFINE h == AsHello(NextItem(e))
<1>1. NoKey \notin setup.peers
  BY ConstantsAssumption DEF TypeOK, ConstantsAssumption, SetupType
<1>2. KeyToVerify(e, h) # NoKey
  BY <1>1 DEF PeerIsKnown, ContainsPeerPubkey, KeyToVerify
<1>3. NextItem(e).kind = "hello"
  <2>1. h.signer # NoKey
    BY <1>2 DEF Verified
  <2> QED BY <2>1 DEF AsHello, AlienHello
<1>4. NextItem(e).signer = setup.priv[Peer(e)]
  <2>1. got[e] + 1 \in 1..Len(wire[e])
    BY DEF TypeOK
  <2> QED BY <1>3, <2>1 DEF SignerInv, NextItem
<1> QED BY <1>2, <1>3, <1>4 DEF Verified, AsHello

LEMMA AdoptsPeerKey ==
  ASSUME TypeOK, PeerKeyInv, SignerInv, NEW e \in Side, setup' = setup,
         got[e] < Len(wire[e]), PeerIsKnown(e, AsHello(NextItem(e))),
         Adopts(e, AsHello(NextItem(e))),
         fin' = fin \/ (Verified(e, AsHello(NextItem(e))) /\ fin' = [fin EXCEPT ![e] = TRUE])
  PROVE  PeerKeyInv'
<1> DEFINE h == AsHello(NextItem(e))
<1>1. /\ peerKey' = [peerKey EXCEPT ![e] = KeyToVerify(e, h)]
      /\ id' = [id EXCEPT ![e] = IF peerKey[e] # NoKey THEN id[e] ELSE h.static_key]
      /\ peerKey \in [Side -> Ident \cup {NoKey}] /\ id \in [Side -> Ident \cup {NoKey}]
      /\ fin \in [Side -> BOOLEAN]
  BY DEF Adopts, TypeOK
<1>2. \A d \in Side : id'[d] = peerKey'[d]
  BY <1>1 DEF PeerKeyInv, KeyToVerify
<1>3. /\ peerKey'["cli"] \in {NoKey, setup.expect}
      /\ peerKey'["srv"] \in setup.peers \cup {NoKey}
  BY <1>1 DEF PeerKeyInv, KeyToVerify, PeerIsKnown, ContainsPeerPubkey, Side
<1>4. ASSUME NEW d \in Side, fin'[d]
      PROVE  peerKey'[d] # NoKey /\ peerKey'[d] = setup.priv[Peer(d)]
  <2>1. CASE d = e /\ Verified(e, h)
    BY <1>1, <2>1, VerifiedSigner
  <2>2. CASE fin[d]
    BY <1>1, <2>2 DEF PeerKeyInv, KeyToVerify
  <2> QED BY <1>1, <1>4, <2>1, <2>2
<1> QED BY <1>2, <1>3, <1>4 DEF PeerKeyInv

LEMMA WriteSigner ==
  ASSUME TypeOK, SignerInv, NEW e \in Side, NEW item \in Item, setup' = setup,
         item.kind = "hello" => item.signer = setup.priv[e], Write(e, item)
  PROVE  SignerInv'
<1>1. CASE CanWrite(e)
  <2>1. /\ wire' = [wire EXCEPT ![Peer(e)] = Append(@, item)] /\ Peer(e) \in Side
        /\ Peer(Peer(e)) = e /\ wire \in [Side -> Seq(Item)]
    BY <1>1, PeerType DEF Write, TypeOK
  <2> SUFFICES ASSUME NEW d \in Side, NEW i \in 1..Len(wire'[d]), wire'[d][i].kind = "hello"
               PROVE  wire'[d][i].signer = setup.priv[Peer(d)]
    BY DEF SignerInv
  <2>2. CASE d = Peer(e) /\ i = Len(wire[d]) + 1
    BY <2>1, <2>2
  <2>3. CASE ~(d = Peer(e) /\ i = Len(wire[d]) + 1)
    BY <2>1, <2>3 DEF SignerInv
  <2> QED BY <2>2, <2>3
<1>2. CASE ~CanWrite(e)
  BY <1>2 DEF Write, SignerInv
<1> QED BY <1>1, <1>2

(* Whatever the applications do and whatever keys the two ends have, a     *)
(* session that announced its handshake talks to the holder of the key it  *)
(* is named after (Authenticated).                                         *)
THEOREM HandshakeAuthenticates == Spec => []Authenticated
<1> DEFINE Inv == TypeOK /\ PeerKeyInv /\ SignerInv
<1>1. Init => PeerKeyInv /\ SignerInv
  BY DEF Init, PeerKeyInv, SignerInv, Side
<1>2. TypeOK /\ PeerKeyInv /\ SignerInv /\ [Next]_vars => PeerKeyInv' /\ SignerInv'
  <2> SUFFICES ASSUME TypeOK, PeerKeyInv, SignerInv, [Next]_vars PROVE PeerKeyInv' /\ SignerInv'
    OBVIOUS
  <2> USE DEF appVars, sigVars, keyVars, netVars, opVars
  <2>1. CASE UNCHANGED <<setup, peerKey, id, fin, wire>>
    BY <2>1 DEF PeerKeyInv, SignerInv
  <2>2. CASE DoConnect
    <3>1. SignerInv'
      BY <2>2 DEF DoConnect, SignerInv
    <3>2. PeerKeyInv'
      BY <2>2 DEF DoConnect, PeerKeyInv, TypeOK, Side
    <3> QED BY <3>1, <3>2
  <2>3. CASE OnConnect
    <3>1. PeerKeyInv'
      BY <2>3 DEF OnConnect, PeerKeyInv
    <3>2. CASE Write("cli", Hello("cli", 1))
      <4>1. Hello("cli", 1) \in Item
        BY HelloType DEF Side
      <4> QED BY <2>3, <3>1, <3>2, <4>1, WriteSigner DEF OnConnect, Hello, Side
    <3>3. CASE UNCHANGED wire
      BY <2>3, <3>1, <3>3 DEF OnConnect, SignerInv
    <3> QED BY <2>3, <3>2, <3>3 DEF OnConnect
  <2>4. ASSUME NEW e \in Side, OnHandShakeBadSignature(e) PROVE PeerKeyInv' /\ SignerInv'
    BY <2>4, AdoptsPeerKey DEF OnHandShakeBadSignature, ReadsHello, Completes, Close, SignerInv
  <2>5. ASSUME NEW e \in Side, OnHandShakeNoSecret(e) PROVE PeerKeyInv' /\ SignerInv'
    BY <2>5, AdoptsPeerKey DEF OnHandShakeNoSecret, ReadsHello, Completes, SignerInv
  <2>6. ASSUME NEW e \in Side, OnHandShake(e) PROVE PeerKeyInv' /\ SignerInv'
    <3>1. PeerKeyInv'
      BY <2>6, AdoptsPeerKey DEF OnHandShake, ReadsHello, Completes
    <3>2. CASE Write(e, Hello(e, 2))
      <4>1. Hello(e, 2) \in Item
        BY HelloType
      <4> QED BY <2>6, <3>1, <3>2, <4>1, WriteSigner DEF OnHandShake, ReadsHello, Hello
    <3>3. CASE UNCHANGED wire
      BY <2>6, <3>1, <3>3 DEF OnHandShake, ReadsHello, SignerInv
    <3> QED BY <2>6, <3>2, <3>3 DEF OnHandShake
  <2>7. ASSUME NEW e \in Side, NEW t \in Text, SendTextMsg(e, t) PROVE PeerKeyInv' /\ SignerInv'
    <3>1. PeerKeyInv'
      BY <2>7 DEF SendTextMsg, PeerKeyInv
    <3> QED BY <2>7, <3>1, FrameType, WriteSigner DEF SendTextMsg, Frame
  <2>8. ASSUME NEW e \in Side, Handler(e) PROVE PeerKeyInv' /\ SignerInv'
    <3>1. CASE OnHelloWritten(e) \/ OnHandShakeUnknownPeer(e) \/ OnReadHead(e)
               \/ OnReadBody(e) \/ OnReadError(e)
      BY <2>1, <3>1 DEF OnHelloWritten, OnHandShakeUnknownPeer, ReadsHello, OnReadHead,
                        OnReadBody, OnReadError
    <3> QED BY <2>4, <2>5, <2>6, <2>8, <3>1 DEF Handler
  <2>9. CASE Establish \/ ConnectFails \/ OnAccept \/ NetFail \/ UNCHANGED vars
             \/ ClientClose \/ ClientSigClose \/ ClientCloseSocket
    BY <2>1, <2>9 DEF Establish, ConnectFails, OnAccept, NetFail, vars,
                      ClientClose, ClientSigClose, ClientCloseSocket
  <2> QED BY <2>2, <2>3, <2>7, <2>8, <2>9 DEF Next, System, Application
<1>3. Inv => Authenticated
  BY PeerType DEF PeerKeyInv, Authenticated, Side, Peer
<1> QED BY <1>1, <1>2, <1>3, TypeCorrect, PTL DEF Spec

-----------------------------------------------------------------------------
(* The three parts of IInv, action by action.  sendTextMsg is only called  *)
(* once the handshake is announced.                                        *)
LEMMA SideCases == \A e \in Side : (e = "cli" /\ Peer(e) = "srv") \/ (e = "srv" /\ Peer(e) = "cli")
BY DEF Side, Peer

(* A session has no other read outstanding.                                *)
LEMMA OnlyRead ==
  ASSUME PhaseInv, NEW e \in Side, NEW r, r \in rd[e]
  PROVE  rd[e] = {r} /\ r \in {"hello", "head", "body"} /\ rd[e] \ {r} = {}
BY DEF PhaseInv

(* The Hello a session reads is the other end's, of the right type.        *)
LEMMA HelloExpected ==
  ASSUME TypeOK, IInv, NEW e \in Side, Completes(e, "hello")
  PROVE  /\ got[e] = 0 /\ ~fin[e] /\ conn = "up" /\ wire[e] # <<>>
         /\ NextItem(e) = Expected(e, 1)
         /\ AsHello(NextItem(e)).type = (IF e = "srv" THEN 1 ELSE 2)
         /\ SharedSecret(e, AsHello(NextItem(e))) = Side
<1>1. rd[e] = {"hello"} /\ got[e] = 0 /\ ~fin[e]
  BY OnlyRead DEF Completes, IInv, PhaseInv
<1>2. 1 \in 1..Len(wire[e]) /\ wire[e] # <<>> /\ conn = "up"
  BY <1>1 DEF Completes, TypeOK
<1>3. NextItem(e) = Expected(e, 1)
  <2>1. wire[e][1] = Expected(e, 1)
    BY <1>2 DEF IInv, StreamInv, StreamTo
  <2> QED BY <1>1, <2>1 DEF NextItem
<1>4. /\ Expected(e, 1).kind = "hello" /\ Expected(e, 1).ephemeral_key = Peer(e)
      /\ Expected(e, 1).type = (IF e = "srv" THEN 1 ELSE 2)
  BY DEF Expected
<1> QED BY <1>1, <1>2, <1>3, <1>4, SideCases DEF AsHello, SharedSecret, Side

(* The frame a session reads is the next text of the other end.            *)
LEMMA FrameExpected ==
  ASSUME TypeOK, IInv, NEW e \in Side, got[e] < Len(wire[e]), fin[e]
  PROVE  /\ got[e] \in 1..Len(sent[Peer(e)]) /\ Len(delivered[e]) = got[e] - 1
         /\ NextItem(e).kind = "frame"
         /\ Decrypted(dctx[e], NextItem(e)) = sent[Peer(e)][got[e]]
<1>1. got[e] >= 1 /\ dctx[e] = [key |-> Side, pos |-> got[e] - 1]
      /\ Len(delivered[e]) = got[e] - 1
  BY DEF IInv, DeliveredInv, DeliveredTo
<1>2. Len(wire[e]) <= Len(sent[Peer(e)]) + 1
  BY DEF IInv, StreamInv, StreamTo
<1>3. /\ got[e] \in Nat /\ Len(wire[e]) \in Nat /\ Len(sent[Peer(e)]) \in Nat
  BY PeerType DEF TypeOK
<1>4. got[e] \in 1..Len(sent[Peer(e)]) /\ got[e] + 1 \in 1..Len(wire[e]) /\ got[e] + 1 # 1
  BY <1>1, <1>2, <1>3
<1>5. NextItem(e) = Expected(e, got[e] + 1)
  BY <1>4 DEF NextItem, IInv, StreamInv, StreamTo
<1>6. /\ Expected(e, got[e] + 1).kind = "frame" /\ Expected(e, got[e] + 1).key = Side
      /\ Expected(e, got[e] + 1).pos = got[e] - 1
      /\ Expected(e, got[e] + 1).text = sent[Peer(e)][got[e]]
  BY <1>3, <1>4 DEF Expected
<1>7. dctx[e].key = Side /\ dctx[e].pos = got[e] - 1 /\ Side # {}
  BY <1>1 DEF Side
<1> QED BY <1>1, <1>4, <1>5, <1>6, <1>7 DEF Decrypted

LEMMA PhaseStep ==
  ASSUME TypeOK, IInv, ~EarlySend, [Next]_vars
  PROVE  PhaseInv'
<1> USE DEF appVars, sigVars, keyVars, netVars, opVars
<1>1. CASE DoConnect \/ ConnectFails \/ NetFail \/ UNCHANGED vars
           \/ ClientClose \/ ClientSigClose \/ ClientCloseSocket
  BY <1>1 DEF DoConnect, ConnectFails, NetFail, vars, ClientClose, ClientSigClose,
              ClientCloseSocket, IInv, PhaseInv
<1>2. CASE Establish
  <2>1. \A e \in Side : wire[e] = <<>> /\ rd[e] = {} /\ hsw[e] = 0 /\ ~fin[e] /\ got[e] = 0
    BY <1>2 DEF Establish, IInv, PhaseInv, DeliveredInv, DeliveredTo, TypeOK
  <2>2. /\ UNCHANGED <<wire, got, rd, hsw, fin, connected>> /\ conn' = "up"
        /\ "cli" \in Side /\ "srv" \in Side
    BY <1>2 DEF Establish, Side
  <2>3. \A e \in Side : rd'[e] = {} /\ hsw'[e] = 0 /\ ~fin'[e] /\ got'[e] = 0
    BY <2>1, <2>2
  <2>4. /\ wire'["srv"] = <<>> /\ hsw'["cli"] = 0 /\ hsw'["srv"] = 0
        /\ rd'["cli"] = {} /\ rd'["srv"] = {} /\ got'["cli"] = 0 /\ got'["srv"] = 0
        /\ ~fin'["cli"] /\ ~fin'["srv"]
    BY <2>1, <2>2, <2>3
  <2>5. \A e \in Side : rd'[e] # {"hello"} /\ rd'[e] \notin {{"head"}, {"body"}}
    BY <2>3
  <2> QED BY <2>2, <2>3, <2>4, <2>5 DEF PhaseInv
<1>3. CASE OnConnect
  <2>1. /\ rd["cli"] = {} /\ got["cli"] = 0 /\ ~fin["cli"] /\ hsw["cli"] = 0
        /\ conn \notin {"idle", "connecting"}
    BY <1>3 DEF OnConnect, IInv, PhaseInv
  <2>2. CASE UNCHANGED <<wire, hsw, connected>>
    BY <1>3, <2>2 DEF OnConnect, IInv, PhaseInv
  <2>3. CASE /\ Write("cli", Hello("cli", 1)) /\ connected' = TRUE
             /\ hsw' = [hsw EXCEPT !["cli"] = IF CanWrite("cli") THEN 1 ELSE 0]
    <3>1. CASE CanWrite("cli")
      <4>1. wire'["srv"] # <<>> /\ hsw'["cli"] = 1 /\ hsw'["srv"] = hsw["srv"]
            /\ wire'["cli"] = wire["cli"]
        BY <2>3, <3>1, HelloType, WriteEffect DEF Peer, TypeOK, Side
      <4> QED BY <1>3, <2>1, <2>3, <4>1 DEF OnConnect, IInv, PhaseInv
    <3>2. CASE ~CanWrite("cli")
      <4>1. wire' = wire /\ hsw'["cli"] = 0 /\ hsw'["srv"] = hsw["srv"]
        BY <2>3, <3>2 DEF Write, TypeOK, Side
      <4> QED BY <1>3, <2>1, <2>3, <4>1 DEF OnConnect, IInv, PhaseInv
    <3> QED BY <3>1, <3>2
  <2> QED BY <1>3, <2>2, <2>3 DEF OnConnect
<1>4. CASE OnAccept
  <2>1. rd'["srv"] = {"hello"} /\ rd'["cli"] = rd["cli"]
    BY <1>4 DEF OnAccept, IInv, PhaseInv, TypeOK, Side
  <2> QED BY <1>4, <2>1 DEF OnAccept, IInv, PhaseInv, Side
<1>5. ASSUME NEW e \in Side, OnHelloWritten(e) PROVE PhaseInv'
  <2>1. CASE e = "cli"
    <3>1. /\ hsw["cli"] = 1 /\ hsw'["cli"] = 0 /\ hsw'["srv"] = hsw["srv"]
          /\ rd'["cli"] \in {{}, {"hello"}} /\ rd'["srv"] = rd["srv"]
      BY <1>5, <2>1 DEF OnHelloWritten, WaitsAfter, IInv, PhaseInv, TypeOK, Side
    <3> QED BY <1>5, <3>1 DEF OnHelloWritten, IInv, PhaseInv, Side
  <2>2. CASE e = "srv"
    <3>1. hsw["srv"] = 2 /\ hsw'["srv"] = 0 /\ hsw'["cli"] = hsw["cli"]
      BY <1>5, <2>2 DEF OnHelloWritten, IInv, PhaseInv, TypeOK, Side
    <3>2. rd'["srv"] = rd["srv"] /\ rd'["cli"] = rd["cli"]
      BY <1>5, <2>2, <3>1 DEF OnHelloWritten, WaitsAfter, TypeOK, Side
    <3> QED BY <1>5, <3>1, <3>2 DEF OnHelloWritten, IInv, PhaseInv, Side
  <2> QED BY <2>1, <2>2 DEF Side
<1>6. ASSUME NEW e \in Side, 
             OnHandShakeUnknownPeer(e) \/ OnHandShakeBadSignature(e) \/ OnHandShakeNoSecret(e)
      PROVE  PhaseInv'
  <2>1. /\ Completes(e, "hello") /\ ReadsNext(e, "hello", {})
        /\ UNCHANGED <<conn, pend, wire, hsw, fin, connected>>
        /\ got' = [got EXCEPT ![e] = @ + 1]
    BY <1>6 DEF OnHandShakeUnknownPeer, OnHandShakeBadSignature, OnHandShakeNoSecret,
                ReadsHello, Close
  <2>2. rd[e] = {"hello"} /\ rd'[e] = {} /\ conn = "up"
        /\ \A d \in Side \ {e} : rd'[d] = rd[d] /\ got'[d] = got[d]
    BY <2>1, OnlyRead DEF ReadsNext, Completes, TypeOK, IInv
  <2> QED BY <2>1, <2>2 DEF IInv, PhaseInv, Side
<1>7. ASSUME NEW e \in Side, OnHandShake(e) PROVE PhaseInv'
  <2>1. /\ Completes(e, "hello") /\ ReadsNext(e, "hello", {"head"})
        /\ UNCHANGED <<conn, pend, connected>> /\ fin' = [fin EXCEPT ![e] = TRUE]
        /\ got' = [got EXCEPT ![e] = @ + 1]
    BY <1>7 DEF OnHandShake, ReadsHello
  <2>2. rd[e] = {"hello"} /\ rd'[e] = {"head"} /\ conn = "up"
        /\ \A d \in Side \ {e} : rd'[d] = rd[d] /\ got'[d] = got[d]
    BY <2>1, OnlyRead DEF ReadsNext, Completes, TypeOK, IInv
  <2>3. fin'[e] /\ \A d \in Side \ {e} : fin'[d] = fin[d]
    BY <2>1 DEF TypeOK
  <2>4. CASE e = "cli"
    <3>1. UNCHANGED <<wire, hsw>>
      BY <1>7, <2>1, <2>4, HelloExpected DEF OnHandShake
    <3> QED BY <2>1, <2>2, <2>3, <2>4, <3>1 DEF IInv, PhaseInv, Side
  <2>5. CASE e = "srv"
    <3>1. /\ Write("srv", Hello("srv", 2))
          /\ hsw' = [hsw EXCEPT !["srv"] = IF CanWrite("srv") THEN 2 ELSE 0]
      BY <1>7, <2>1, <2>5, HelloExpected DEF OnHandShake
    <3>2. wire'["srv"] = wire["srv"] /\ hsw'["cli"] = hsw["cli"] /\ hsw'["srv"] \in {0, 2}
      BY <3>1 DEF Write, Peer, TypeOK, Side
    <3>3. /\ rd'["srv"] = {"head"} /\ rd'["cli"] = rd["cli"] /\ fin'["srv"]
          /\ fin'["cli"] = fin["cli"] /\ got'["cli"] = got["cli"] /\ rd["srv"] = {"hello"}
      BY <2>2, <2>3, <2>5 DEF Side
    <3> QED BY <2>1, <2>2, <3>2, <3>3 DEF IInv, PhaseInv, Side
  <2> QED BY <2>4, <2>5 DEF Side
<1>8. ASSUME NEW e \in Side, OnReadHead(e) \/ OnReadBody(e) PROVE PhaseInv'
  <2>1. UNCHANGED <<conn, pend, wire, hsw, fin, connected>>
    BY <1>8 DEF OnReadHead, OnReadBody
  <2>2. \A d \in Side \ {e} : got'[d] = got[d]
    <3>1. CASE OnReadHead(e)
      BY <3>1 DEF OnReadHead
    <3>2. CASE OnReadBody(e)
      BY <3>2 DEF OnReadBody, TypeOK
    <3> QED BY <1>8, <3>1, <3>2
  <2>3. /\ rd[e] \in {{"head"}, {"body"}} /\ rd'[e] \in {{"head"}, {"body"}}
        /\ \A d \in Side \ {e} : rd'[d] = rd[d]
    <3>1. CASE OnReadHead(e)
      <4>1. rd[e] = {"head"} /\ rd' = [rd EXCEPT ![e] = (@ \ {"head"}) \cup {"body"}]
        BY <3>1, OnlyRead DEF OnReadHead, ReadsNext, Completes, IInv
      <4> QED BY <4>1 DEF TypeOK
    <3>2. CASE OnReadBody(e)
      <4>1. rd[e] = {"body"} /\ rd' = [rd EXCEPT ![e] = (@ \ {"body"}) \cup {"head"}]
        BY <3>2, OnlyRead DEF OnReadBody, ReadsNext, Completes, IInv
      <4> QED BY <4>1 DEF TypeOK
    <3> QED BY <1>8, <3>1, <3>2
  <2>4. fin[e]
    BY <2>3 DEF IInv, PhaseInv
  <2>5. conn = "up"
    BY <1>8 DEF OnReadHead, OnReadBody, Completes
  <2>6. hsw["cli"] \in {0, 1} /\ hsw["srv"] \in {0, 2} /\ (hsw["cli"] = 1 => e = "srv")
    BY <2>4 DEF IInv, PhaseInv, Side
  <2>7. CASE e = "cli"
    <3>1. "connect" \notin pend
      BY <2>4, <2>7 DEF IInv, PhaseInv
    <3> QED BY <2>1, <2>2, <2>3, <2>4, <2>5, <2>6, <2>7, <3>1 DEF IInv, PhaseInv, Side
  <2>8. CASE e = "srv"
    <3>1. "accept" \notin pend
      BY <2>4, <2>8 DEF IInv, PhaseInv
    <3> QED BY <2>1, <2>2, <2>3, <2>4, <2>5, <2>6, <2>8, <3>1 DEF IInv, PhaseInv, Side
  <2> QED BY <2>7, <2>8 DEF Side
<1>9. ASSUME NEW e \in Side, OnReadError(e) PROVE PhaseInv'
  <2>1. PICK r \in rd[e] : rd' = [rd EXCEPT ![e] = (@ \ {r}) \cup {}]
    BY <1>9 DEF OnReadError, ReadsNext
  <2>2. rd'[e] = {} /\ \A d \in Side \ {e} : rd'[d] = rd[d]
    BY <2>1, OnlyRead DEF TypeOK, IInv
  <2> QED BY <1>9, <2>2 DEF OnReadError, IInv, PhaseInv, Side
<1>10. ASSUME NEW e \in Side, NEW t \in Text, SendTextMsg(e, t) PROVE PhaseInv'
  <2>1. fin[e] /\ UNCHANGED <<conn, pend, hsw, rd, got, fin, connected>>
    BY <1>10, ~EarlySend DEF SendTextMsg
  <2>2. \A d \in Side : wire'[d] = wire[d] \/ (d = Peer(e) /\ wire'[d] # <<>>)
    BY <1>10, FrameType, WriteEffect DEF SendTextMsg
  <2> QED BY <2>1, <2>2, SideCases DEF IInv, PhaseInv, Side
<1> QED BY <1>1, <1>2, <1>3, <1>4, <1>5, <1>6, <1>7, <1>8, <1>9, <1>10
        DEF Next, System, Application, Handler

(* The stream towards e is not disturbed when nothing was written to it    *)
(* and its writer cannot write if it could not.                            *)
LEMMA StreamUnchanged ==
  ASSUME NEW e \in Side, StreamTo(e), setup' = setup, wire'[e] = wire[e],
         sent'[Peer(e)] = sent[Peer(e)], fin'[Peer(e)] = fin[Peer(e)],
         ectx'[Peer(e)] = ectx[Peer(e)],
         fin[Peer(e)] /\ CanWrite(Peer(e))' => CanWrite(Peer(e))
  PROVE  StreamTo(e)'
<1>1. \A i : Expected(e, i)' = Expected(e, i)
  BY DEF Expected
<1> QED BY <1>1 DEF StreamTo

LEMMA StreamOnConnect ==
  ASSUME TypeOK, IInv, OnConnect
  PROVE  StreamInv'
<1> USE DEF appVars, sigVars, keyVars, netVars, opVars
<1>1. "cli" \in Side /\ "srv" \in Side /\ Peer("cli") = "srv" /\ Peer("srv") = "cli"
  BY DEF Side, Peer
<1>2. wire["srv"] = <<>> /\ ~fin["cli"]
  BY DEF OnConnect, IInv, PhaseInv
<1>3. sent["cli"] = <<>>
  BY <1>1, <1>2 DEF IInv, StreamInv, StreamTo
<1>4. /\ UNCHANGED <<setup, sent, fin, ectx, conn, sock>>
      /\ \A d \in Side : CanWrite(d)' = CanWrite(d)
  BY DEF OnConnect, CanWrite
<1>5. CASE wire' = wire
  BY <1>4, <1>5, PeerType, StreamUnchanged DEF IInv, StreamInv
<1>6. CASE wire' # wire
  <2>1. Write("cli", Hello("cli", 1)) /\ CanWrite("cli") /\ Hello("cli", 1) \in Item
    BY <1>1, <1>6, HelloType DEF OnConnect, Write
  <2>2. /\ wire'["cli"] = wire["cli"] /\ Len(wire'["srv"]) = Len(wire["srv"]) + 1
        /\ wire'["srv"][Len(wire["srv"]) + 1] = Hello("cli", 1)
    BY <1>1, <2>1, WriteEffect
  <2>3. Len(wire'["srv"]) = 1 /\ wire'["srv"][1] = Hello("cli", 1)
    BY <1>2, <2>2
  <2>4. Hello("cli", 1) = Expected("srv", 1)'
    BY <1>1, <1>4 DEF Hello, Expected
  <2>5. StreamTo("srv")'
    BY <1>1, <1>2, <1>3, <1>4, <2>3, <2>4 DEF StreamTo
  <2>6. StreamTo("cli")'
    BY <1>1, <1>4, <2>2, StreamUnchanged DEF IInv, StreamInv
  <2> QED BY <2>5, <2>6 DEF StreamInv, Side
<1> QED BY <1>5, <1>6

LEMMA StreamOnHandShake ==
  ASSUME TypeOK, IInv, NEW e \in Side, OnHandShake(e)
  PROVE  StreamInv'
<1> USE DEF appVars, sigVars, keyVars, netVars, opVars
<1> DEFINE o == Peer(e)
<1>1. o \in Side /\ Peer(o) = e /\ o # e
  BY PeerType
<1>2. /\ Completes(e, "hello") /\ fin' = [fin EXCEPT ![e] = TRUE]
      /\ UNCHANGED <<setup, sent, conn, sock>>
      /\ ectx' = [ectx EXCEPT ![e] = [key |-> Side, pos |-> 0]]
  BY HelloExpected DEF OnHandShake, ReadsHello, InitChaCha20
<1>3. ~fin[e]
  BY <1>2, HelloExpected
<1>4. sent[e] = <<>> /\ (o = "cli" => wire[o] = <<>>) /\ Len(wire[o]) <= 1
  <2>1. StreamTo(o)
    BY <1>1 DEF IInv, StreamInv
  <2>2. sent[e] = <<>> /\ (o = "cli" => wire[o] = <<>>) /\ Len(wire[o]) <= Len(sent[e]) + 1
    BY <1>1, <1>3, <2>1 DEF StreamTo
  <2> QED BY <2>2
<1>5. /\ fin'[e] /\ ectx'[e] = [key |-> Side, pos |-> 0] /\ sent'[e] = <<>>
      /\ fin'[o] = fin[o] /\ ectx'[o] = ectx[o] /\ sent'[o] = sent[o]
  BY <1>1, <1>2, <1>4 DEF TypeOK
<1>6. \A d \in Side : CanWrite(d)' = CanWrite(d)
  BY <1>2 DEF CanWrite
<1>7. wire'[e] = wire[e]
      /\ (e = "cli" => wire' = wire)
      /\ (e = "srv" => Write(e, Hello(e, 2)))
  <2>1. CASE e = "cli"
    BY <1>2, <2>1, HelloExpected DEF OnHandShake
  <2>2. CASE e = "srv"
    <3>1. Write(e, Hello(e, 2)) /\ Hello(e, 2) \in Item
      BY <1>2, <2>2, HelloExpected, HelloType DEF OnHandShake
    <3> QED BY <1>1, <2>2, <3>1, WriteEffect
  <2> QED BY <2>1, <2>2 DEF Side
<1>8. StreamTo(e)'
  BY <1>1, <1>2, <1>5, <1>6, <1>7, StreamUnchanged DEF IInv, StreamInv
<1>9. StreamTo(o)'
  <2>1. \A i : Expected(o, i)' = Expected(o, i)
    BY <1>1, <1>2 DEF Expected
  <2>2. CASE e = "cli"
    <3>1. o = "srv" /\ wire' = wire
      BY <1>7, <2>2 DEF Peer
    <3>2. wire["srv"] # <<>>
      BY <1>2, <2>2 DEF IInv, PhaseInv, Completes
    <3>3. Len(wire[o]) = 1
      <4>1. wire[o] \in Seq(Item) /\ Len(wire[o]) \in Nat
        BY <1>1 DEF TypeOK
      <4>2. Len(wire[o]) # 0
        BY <3>1, <3>2, <4>1, EmptySeq
      <4>3. Len(wire[o]) <= 1
        BY <1>4
      <4>4. \A k \in Nat : k # 0 /\ k <= 1 => k = 1
        OBVIOUS
      <4> QED BY <4>1, <4>2, <4>3, <4>4
    <3>4. \A i \in 1..Len(wire[o]) : wire[o][i] = Expected(o, i)
      BY <1>1 DEF IInv, StreamInv, StreamTo
    <3> QED BY <1>1, <1>5, <1>6, <2>1, <3>1, <3>3, <3>4 DEF StreamTo
  <2>3. CASE e = "srv"
    <3>1. o = "cli" /\ wire[o] = <<>> /\ Write(e, Hello(e, 2)) /\ Hello(e, 2) \in Item
      BY <1>4, <1>7, <2>3, HelloType DEF Peer
    <3>2. CASE CanWrite(e)
      <4>1. /\ Len(wire'[o]) = Len(wire[o]) + 1
            /\ wire'[o][Len(wire[o]) + 1] = Hello(e, 2)
        BY <3>1, <3>2, WriteEffect
      <4>2. Len(wire'[o]) = 1 /\ wire'[o][1] = Hello(e, 2)
        BY <3>1, <4>1
      <4>3. Hello(e, 2) = Expected(o, 1)
        BY <1>1, <3>1 DEF Hello, Expected
      <4> QED BY <1>1, <1>5, <1>6, <2>1, <4>2, <4>3 DEF StreamTo
    <3>3. CASE ~CanWrite(e)
      <4>1. wire'[o] = <<>>
        BY <3>1, <3>3 DEF Write
      <4> QED BY <1>1, <1>5, <1>6, <3>3, <4>1 DEF StreamTo
    <3> QED BY <3>2, <3>3
  <2> QED BY <2>2, <2>3 DEF Side
<1> QED BY <1>1, <1>8, <1>9, SideCases DEF StreamInv

LEMMA StreamSendTextMsg ==
  ASSUME TypeOK, IInv, ~EarlySend, NEW e \in Side, NEW t \in Text, SendTextMsg(e, t)
  PROVE  StreamInv'
<1> USE DEF appVars, sigVars, keyVars, netVars, opVars
<1> DEFINE o == Peer(e)
           f == Frame(ectx[e], t)
           n == Len(wire[o])
<1>1. /\ fin[e] /\ UNCHANGED <<setup, fin, conn, sock>> /\ o \in Side /\ Peer(o) = e /\ o # e
      /\ sent' = [sent EXCEPT ![e] = Append(@, t)]
      /\ ectx' = [ectx EXCEPT ![e] = Advance(@)]
      /\ Write(e, f) /\ f \in Item
  BY PeerType, FrameType DEF SendTextMsg
<1>2. /\ ectx[e] = [key |-> Side, pos |-> Len(sent[e])] /\ n <= Len(sent[e]) + 1
      /\ CanWrite(e) => n = Len(sent[e]) + 1
      /\ \A i \in 1..n : wire[o][i] = Expected(o, i)
  BY <1>1 DEF IInv, StreamInv, StreamTo
<1>3. /\ sent[e] \in Seq(Text) /\ sent'[e] = Append(sent[e], t)
      /\ Len(sent[e]) \in Nat /\ n \in Nat
  BY <1>1 DEF TypeOK
<1>4. /\ Len(sent'[e]) = Len(sent[e]) + 1
      /\ sent'[e][Len(sent[e]) + 1] = t
      /\ \A i \in 1..Len(sent[e]) : sent'[e][i] = sent[e][i]
  BY <1>3
<1>5. sent'[o] = sent[o] /\ ectx'[o] = ectx[o] /\ wire'[e] = wire[e]
  BY <1>1, WriteEffect DEF TypeOK
<1>6. ectx'[e] = [key |-> Side, pos |-> Len(sent'[e])]
  BY <1>1, <1>2, <1>4 DEF Advance, TypeOK
<1>7. \A d \in Side : CanWrite(d)' = CanWrite(d)
  BY <1>1 DEF CanWrite
<1>8. ASSUME NEW i \in 1..n PROVE Expected(o, i)' = Expected(o, i)
  <2>1. i # 1 => i - 1 \in 1..Len(sent[e])
    BY <1>2, <1>3
  <2>2. i # 1 => sent'[e][i - 1] = sent[e][i - 1]
    BY <1>4, <2>1
  <2> QED BY <1>1, <2>2 DEF Expected
<1>9. StreamTo(e)'
  BY <1>1, <1>5, <1>7, StreamUnchanged DEF IInv, StreamInv
<1>10. /\ \A i \in 1..Len(wire'[o]) : wire'[o][i] = Expected(o, i)'
       /\ Len(wire'[o]) <= Len(sent'[e]) + 1
       /\ CanWrite(e) => Len(wire'[o]) = Len(sent'[e]) + 1
  <2>1. CASE CanWrite(e)
    <3>1. /\ Len(wire'[o]) = n + 1
          /\ wire'[o][n + 1] = f
          /\ \A i \in 1..n : wire'[o][i] = wire[o][i]
      BY <1>1, <2>1, WriteEffect
    <3>2. ASSUME NEW i, i = n + 1 PROVE Expected(o, i)' = f
      <4>1. i # 1 /\ i - 2 = Len(sent[e]) /\ i - 1 = Len(sent[e]) + 1
        BY <1>2, <1>3, <2>1, <3>2
      <4>2. Expected(o, i)' = [kind |-> "frame", key |-> Side, pos |-> i - 2,
                               text |-> sent'[e][i - 1]]
        BY <1>1, <4>1 DEF Expected
      <4> QED BY <1>2, <1>4, <4>1, <4>2 DEF Frame
    <3>3. ASSUME NEW i \in 1..Len(wire'[o]) PROVE wire'[o][i] = Expected(o, i)'
      <4>1. CASE i \in 1..n
        BY <1>2, <1>8, <3>1, <4>1
      <4>2. CASE i = n + 1
        BY <3>1, <3>2, <4>2
      <4> QED BY <1>3, <3>1, <4>1, <4>2
    <3>4. Len(wire'[o]) <= Len(sent'[e]) + 1 /\ Len(wire'[o]) = Len(sent'[e]) + 1
      <4>1. n = Len(sent[e]) + 1 /\ Len(wire'[o]) = n + 1 /\ Len(sent'[e]) = Len(sent[e]) + 1
        BY <1>2, <1>4, <2>1, <3>1
      <4>2. Len(sent[e]) \in Nat
        BY <1>3
      <4> QED BY <4>1, <4>2
    <3> QED BY <3>3, <3>4
  <2>2. CASE ~CanWrite(e)
    <3>1. wire' = wire
      BY <1>1, <2>2 DEF Write
    <3> QED BY <1>2, <1>3, <1>4, <1>8, <2>2, <3>1
  <2> QED BY <2>1, <2>2
<1>11. StreamTo(o)'
  BY <1>1, <1>6, <1>7, <1>10 DEF StreamTo
<1> QED BY <1>9, <1>11, SideCases DEF StreamInv

LEMMA StreamStep ==
  ASSUME TypeOK, IInv, ~EarlySend, [Next]_vars
  PROVE  StreamInv'
<1> USE DEF appVars, sigVars, keyVars, netVars, opVars
<1>1. ASSUME UNCHANGED <<setup, sent, fin, ectx, wire>>,
             \A e \in Side : fin[e] /\ CanWrite(e)' => CanWrite(e)
      PROVE  StreamInv'
  BY <1>1, PeerType, StreamUnchanged DEF IInv, StreamInv
<1>2. CASE DoConnect
  <2>1. \A e \in Side : ~CanWrite(e)'
    BY <1>2 DEF DoConnect, CanWrite
  <2> QED BY <1>1, <1>2, <2>1 DEF DoConnect
<1>3. CASE Establish
  <2>1. \A e \in Side : ~fin[e]
    BY <1>3 DEF Establish, IInv, PhaseInv
  <2> QED BY <1>1, <1>3, <2>1 DEF Establish
<1>4. CASE ConnectFails \/ NetFail \/ ClientClose \/ ClientSigClose \/ ClientCloseSocket
  <2>1. \A e \in Side : CanWrite(e)' => CanWrite(e)
    BY <1>4 DEF ConnectFails, NetFail, ClientClose, ClientSigClose, ClientCloseSocket, CanWrite,
                TypeOK, Side
  <2> QED BY <1>1, <1>4, <2>1 DEF ConnectFails, NetFail, ClientClose, ClientSigClose,
                                  ClientCloseSocket
<1>5. ASSUME NEW e \in Side,
             OnHandShakeUnknownPeer(e) \/ OnHandShakeBadSignature(e) \/ OnHandShakeNoSecret(e)
             \/ OnHelloWritten(e) \/ OnReadError(e)
      PROVE  StreamInv'
  <2>1. /\ UNCHANGED <<setup, sent, fin, ectx, wire>>
        /\ conn' = conn /\ (sock' = sock \/ sock' = [sock EXCEPT ![e] = "closed"])
    BY <1>5, ReturnsEffect
       DEF OnHandShakeUnknownPeer, OnHandShakeBadSignature, OnHandShakeNoSecret,
           OnHelloWritten, OnReadError, ReadsHello, Close
  <2>2. \A d \in Side : CanWrite(d)' => CanWrite(d)
    BY <2>1 DEF CanWrite, TypeOK
  <2> QED BY <1>1, <2>1, <2>2
<1>6. CASE \/ OnAccept \/ UNCHANGED vars
           \/ \E e \in Side : OnReadHead(e) \/ OnReadBody(e)
  <2>1. UNCHANGED <<setup, sent, fin, ectx, wire, conn, sock>>
    BY <1>6 DEF OnAccept, vars, OnReadHead, OnReadBody
  <2> QED BY <1>1, <2>1 DEF CanWrite
<1> QED BY <1>2, <1>3, <1>4, <1>5, <1>6, StreamOnConnect, StreamOnHandShake, StreamSendTextMsg
        DEF Next, System, Application, Handler

(* What e has read is not disturbed when it reads nothing; the stream and  *)
(* the texts of the other end may grow.                                    *)
LEMMA DeliveredUnchanged ==
  ASSUME TypeOK, TypeOK', NEW e \in Side, StreamTo(e), DeliveredTo(e),
         got'[e] = got[e], fin'[e] = fin[e], delivered'[e] = delivered[e], dctx'[e] = dctx[e],
         Len(wire'[e]) >= Len(wire[e]),
         \A i \in 1..Len(sent[Peer(e)]) : sent'[Peer(e)][i] = sent[Peer(e)][i]
  PROVE  DeliveredTo(e)'
<1>1. /\ got[e] \in Nat /\ Len(wire[e]) \in Nat /\ Len(wire'[e]) \in Nat
      /\ Len(sent[Peer(e)]) \in Nat /\ Len(delivered[e]) \in Nat
  BY PeerType DEF TypeOK
<1>2. got'[e] <= Len(wire'[e])
  BY <1>1 DEF DeliveredTo
<1>3. ASSUME fin[e], NEW i \in 1..Len(delivered[e]) PROVE delivered[e][i] = sent'[Peer(e)][i]
  <2>1. Len(delivered[e]) = got[e] - 1 /\ got[e] <= Len(wire[e])
    BY <1>3 DEF DeliveredTo
  <2>2. Len(wire[e]) <= Len(sent[Peer(e)]) + 1
    BY DEF StreamTo
  <2>3. i \in 1..Len(sent[Peer(e)])
    BY <1>1, <2>1, <2>2
  <2> QED BY <1>3, <2>3 DEF DeliveredTo
<1> QED BY <1>2, <1>3 DEF DeliveredTo

(* A stream only grows.                                                    *)
LEMMA WriteGrows ==
  ASSUME TypeOK, NEW e \in Side, NEW item \in Item, Write(e, item)
  PROVE  \A d \in Side : Len(wire'[d]) >= Len(wire[d])
<1> SUFFICES ASSUME NEW d \in Side PROVE Len(wire'[d]) >= Len(wire[d])
  OBVIOUS
<1>1. Len(wire[d]) \in Nat
  BY DEF TypeOK
<1>2. Len(wire'[d]) = Len(wire[d]) \/ Len(wire'[d]) = Len(wire[d]) + 1
  BY WriteEffect
<1> QED BY <1>1, <1>2

LEMMA DeliveredStep ==
  ASSUME TypeOK, TypeOK', IInv, ~EarlySend, [Next]_vars
  PROVE  DeliveredInv'
<1> USE DEF appVars, sigVars, keyVars, netVars, opVars
<1>1. ASSUME UNCHANGED <<got, fin, delivered, dctx>>,
             \A d \in Side : Len(wire'[d]) >= Len(wire[d]),
             \A d \in Side : \A i \in 1..Len(sent[d]) : sent'[d][i] = sent[d][i]
      PROVE  DeliveredInv'
  BY <1>1, PeerType, DeliveredUnchanged DEF IInv, StreamInv, DeliveredInv
<1>2. \A d \in Side : Len(wire[d]) \in Nat /\ Len(wire[d]) >= Len(wire[d])
  BY DEF TypeOK
<1>3. ASSUME UNCHANGED <<got, fin, delivered, dctx, wire, sent>> PROVE DeliveredInv'
  BY <1>1, <1>2, <1>3
<1>4. CASE OnConnect
  <2>1. CASE wire' = wire
    BY <1>3, <1>4, <2>1 DEF OnConnect
  <2>2. CASE wire' # wire
    <3>1. Write("cli", Hello("cli", 1)) /\ Hello("cli", 1) \in Item /\ "cli" \in Side
      BY <1>4, <2>2, HelloType DEF OnConnect, Side
    <3>2. \A d \in Side : Len(wire'[d]) >= Len(wire[d])
      BY <3>1, WriteGrows
    <3> QED BY <1>1, <1>4, <3>2 DEF OnConnect
  <2> QED BY <2>1, <2>2
<1>5. ASSUME NEW e \in Side,
             OnHandShakeUnknownPeer(e) \/ OnHandShakeBadSignature(e) \/ OnHandShakeNoSecret(e)
      PROVE  DeliveredInv'
  <2>1. /\ Completes(e, "hello") /\ got' = [got EXCEPT ![e] = @ + 1]
        /\ UNCHANGED <<fin, delivered, dctx, wire, sent>>
    BY <1>5 DEF OnHandShakeUnknownPeer, OnHandShakeBadSignature, OnHandShakeNoSecret, ReadsHello
  <2>2. ASSUME NEW d \in Side \ {e} PROVE DeliveredTo(d)'
    BY <1>2, <2>1, PeerType, DeliveredUnchanged DEF IInv, StreamInv, DeliveredInv, TypeOK
  <2>3. DeliveredTo(e)'
    <3>1. ~fin[e] /\ got[e] < Len(wire[e]) /\ got'[e] = got[e] + 1 /\ got[e] \in Nat
      BY <2>1, HelloExpected DEF Completes, TypeOK
    <3>2. delivered[e] = <<>>
      BY <3>1 DEF IInv, DeliveredInv, DeliveredTo
    <3>3. got'[e] <= Len(wire'[e])
      BY <1>2, <2>1, <3>1
    <3> QED BY <2>1, <3>1, <3>2, <3>3 DEF DeliveredTo
  <2> QED BY <2>2, <2>3 DEF DeliveredInv
<1>6. ASSUME NEW e \in Side, OnHandShake(e) PROVE DeliveredInv'
  <2>1. /\ Completes(e, "hello") /\ got' = [got EXCEPT ![e] = @ + 1]
        /\ fin' = [fin EXCEPT ![e] = TRUE] /\ UNCHANGED <<delivered, sent>>
        /\ dctx' = [dctx EXCEPT ![e] = [key |-> Side, pos |-> 0]]
    BY <1>6, HelloExpected DEF OnHandShake, ReadsHello, InitChaCha20
  <2>2. \A d \in Side : Len(wire'[d]) >= Len(wire[d])
    <3>1. CASE Write(e, Hello(e, 2))
      BY <3>1, HelloType, WriteGrows
    <3>2. CASE wire' = wire
      BY <1>2, <3>2
    <3> QED BY <1>6, <3>1, <3>2 DEF OnHandShake
  <2>3. ASSUME NEW d \in Side \ {e} PROVE DeliveredTo(d)'
    BY <2>1, <2>2, PeerType, DeliveredUnchanged DEF IInv, StreamInv, DeliveredInv, TypeOK
  <2>4. DeliveredTo(e)'
    <3>1. /\ ~fin[e] /\ got[e] = 0 /\ got[e] < Len(wire[e]) /\ got'[e] = 1 /\ fin'[e]
          /\ dctx'[e] = [key |-> Side, pos |-> 0]
      <4>1. ~fin[e] /\ got[e] = 0 /\ got[e] < Len(wire[e])
        BY <2>1, HelloExpected DEF Completes
      <4>2. got'[e] = got[e] + 1 /\ dctx'[e] = [key |-> Side, pos |-> 0]
        BY <2>1 DEF TypeOK
      <4>3. fin'[e]
        BY <2>1 DEF TypeOK
      <4> QED BY <4>1, <4>2, <4>3
    <3>2. delivered'[e] = <<>> /\ Len(delivered'[e]) = 0
      <4>1. delivered[e] = <<>>
        BY <3>1 DEF IInv, DeliveredInv, DeliveredTo
      <4> QED BY <2>1, <4>1
    <3>3. Len(wire'[e]) \in Nat /\ Len(wire[e]) \in Nat /\ Len(wire'[e]) >= Len(wire[e])
      BY <2>2 DEF TypeOK
    <3>4. got'[e] <= Len(wire'[e])
      BY <3>1, <3>3
    <3> QED BY <3>1, <3>2, <3>4 DEF DeliveredTo
  <2> QED BY <2>3, <2>4 DEF DeliveredInv
<1>7. ASSUME NEW e \in Side, OnReadBody(e) PROVE DeliveredInv'
  <2>1. /\ Completes(e, "body") /\ got' = [got EXCEPT ![e] = @ + 1]
        /\ UNCHANGED <<fin, wire, sent>>
        /\ delivered' = [delivered EXCEPT ![e] = Append(@, Decrypted(dctx[e], NextItem(e)))]
        /\ dctx' = [dctx EXCEPT ![e] = Advance(@)]
    BY <1>7 DEF OnReadBody
  <2>2. ASSUME NEW d \in Side \ {e} PROVE DeliveredTo(d)'
    BY <1>2, <2>1, PeerType, DeliveredUnchanged DEF IInv, StreamInv, DeliveredInv, TypeOK
  <2>3. DeliveredTo(e)'
    <3> DEFINE n == Len(delivered[e])
    <3>1. fin[e] /\ got[e] < Len(wire[e])
      BY <2>1, OnlyRead DEF IInv, PhaseInv, Completes
    <3>2. /\ got[e] >= 1 /\ n = got[e] - 1 /\ dctx[e] = [key |-> Side, pos |-> got[e] - 1]
          /\ \A i \in 1..n : delivered[e][i] = sent[Peer(e)][i]
      BY <3>1 DEF IInv, DeliveredInv, DeliveredTo
    <3>3. Decrypted(dctx[e], NextItem(e)) = sent[Peer(e)][got[e]]
      BY <3>1, FrameExpected
    <3>4. /\ got[e] \in Nat /\ Len(wire[e]) \in Nat /\ delivered[e] \in Seq(Text \cup {Garbled})
          /\ got'[e] = got[e] + 1 /\ dctx'[e] = Advance(dctx[e])
          /\ delivered'[e] = Append(delivered[e], sent[Peer(e)][got[e]])
      BY <2>1, <3>3 DEF TypeOK
    <3>5. /\ n \in Nat /\ Len(delivered'[e]) = n + 1
          /\ delivered'[e][n + 1] = sent[Peer(e)][got[e]]
          /\ \A i \in 1..n : delivered'[e][i] = delivered[e][i]
      BY <3>4
    <3>6. n + 1 = got[e] /\ got'[e] - 1 = got[e] /\ got'[e] >= 1
      BY <3>2, <3>4
    <3>7. dctx'[e] = [key |-> Side, pos |-> got'[e] - 1]
      BY <3>2, <3>4 DEF Advance
    <3>8. ASSUME NEW i \in 1..Len(delivered'[e]) PROVE delivered'[e][i] = sent[Peer(e)][i]
      <4>1. CASE i \in 1..n
        BY <3>2, <3>5, <4>1
      <4>2. CASE i = n + 1
        BY <3>5, <3>6, <4>2
      <4> QED BY <3>5, <4>1, <4>2
    <3>9. got'[e] <= Len(wire'[e])
      BY <2>1, <3>1, <3>4
    <3>10. Len(delivered'[e]) = got'[e] - 1
      BY <3>5, <3>6
    <3> QED BY <2>1, <3>1, <3>6, <3>7, <3>8, <3>9, <3>10 DEF DeliveredTo
  <2> QED BY <2>2, <2>3 DEF DeliveredInv
<1>8. ASSUME NEW e \in Side, NEW t \in Text, SendTextMsg(e, t) PROVE DeliveredInv'
  <2>1. \A d \in Side : Len(wire'[d]) >= Len(wire[d])
    BY <1>8, FrameType, WriteGrows DEF SendTextMsg
  <2>2. \A d \in Side : \A i \in 1..Len(sent[d]) : sent'[d][i] = sent[d][i]
    BY <1>8 DEF SendTextMsg, TypeOK
  <2> QED BY <1>1, <1>8, <2>1, <2>2 DEF SendTextMsg
<1>9. CASE \/ DoConnect \/ Establish \/ ConnectFails \/ OnAccept \/ NetFail
           \/ ClientClose \/ ClientSigClose \/ ClientCloseSocket \/ UNCHANGED vars
           \/ \E e \in Side : OnHelloWritten(e) \/ OnReadHead(e) \/ OnReadError(e)
  BY <1>3, <1>9 DEF DoConnect, Establish, ConnectFails, OnAccept, NetFail, vars,
                    ClientClose, ClientSigClose, ClientCloseSocket,
                    OnHelloWritten, OnReadHead, OnReadError
<1> QED BY <1>4, <1>5, <1>6, <1>7, <1>8, <1>9 DEF Next, System, Application, Handler

(* The inductive invariant of a connection whose client application waits  *)
(* for sigHandshakeFinished before it sends.                               *)
THEOREM InvariantHolds ==
  ASSUME ~EarlySend
  PROVE  Spec => []IInv
<1>1. Init => IInv
  <2> SUFFICES ASSUME Init PROVE IInv
    OBVIOUS
  <2>1. PhaseInv
    BY DEF Init, PhaseInv, Side
  <2>2. \A e \in Side : /\ sent[e] = <<>> /\ wire[e] = <<>> /\ delivered[e] = <<>>
                        /\ got[e] = 0 /\ ~fin[e] /\ Len(wire[e]) = 0 /\ Len(sent[e]) = 0
    BY DEF Init
  <2>3. StreamInv
    BY <2>2, PeerType DEF StreamInv, StreamTo
  <2>4. DeliveredInv
    BY <2>2 DEF DeliveredInv, DeliveredTo
  <2> QED BY <2>1, <2>3, <2>4 DEF IInv
<1>2. TypeOK /\ TypeOK' /\ IInv /\ [Next]_vars => IInv'
  BY PhaseStep, StreamStep, DeliveredStep DEF IInv
<1> QED BY <1>1, <1>2, TypeCorrect, PTL DEF Spec

(* The two ends of an announced session use the same key, read what the    *)
(* other end writes next, and decrypt it at the position it was encrypted  *)
(* at (SecretsAgree, FramingAgrees, KeystreamsAligned).                    *)
THEOREM StreamsInStep ==
  ASSUME ~EarlySend
  PROVE  Spec => [](SecretsAgree /\ FramingAgrees /\ KeystreamsAligned)
<1>1. TypeOK /\ IInv => SecretsAgree
  <2> SUFFICES ASSUME TypeOK, IInv, fin["cli"], fin["srv"], NEW e \in Side
               PROVE  ectx[e].key = dctx[Peer(e)].key /\ ectx[e].key # {}
    BY DEF SecretsAgree
  <2>1. Peer(e) \in Side /\ fin[e] /\ fin[Peer(e)] /\ Peer(Peer(e)) = e
    BY PeerType, SideCases
  <2>2. ectx[e].key = Side
    <3>1. StreamTo(Peer(e))
      BY <2>1 DEF IInv, StreamInv
    <3>2. ectx[e] = [key |-> Side, pos |-> Len(sent[e])]
      BY <2>1, <3>1 DEF StreamTo
    <3> QED BY <3>2
  <2>3. dctx[Peer(e)].key = Side
    <3>1. DeliveredTo(Peer(e))
      BY <2>1 DEF IInv, DeliveredInv
    <3>2. dctx[Peer(e)] = [key |-> Side, pos |-> got[Peer(e)] - 1]
      BY <2>1, <3>1 DEF DeliveredTo
    <3> QED BY <3>2
  <2> QED BY <2>2, <2>3 DEF Side
<1>2. TypeOK /\ IInv => FramingAgrees
  <2> SUFFICES ASSUME TypeOK, IInv, NEW e \in Side
               PROVE  /\ Cardinality(rd[e]) <= 1
                      /\ (rd[e] # {} /\ got[e] < Len(wire[e])) =>
                            (NextItem(e).kind = "hello" <=> "hello" \in rd[e])
    BY DEF FramingAgrees
  <2>1. rd[e] \in {{}, {"hello"}, {"head"}, {"body"}}
    BY DEF IInv, PhaseInv
  <2>2. Cardinality(rd[e]) <= 1
    <3>1. Cardinality({}) = 0 /\ \A r : Cardinality({r}) = 1
      BY FS_EmptySet, FS_Singleton
    <3>2. Cardinality(rd[e]) \in {0, 1}
      BY <2>1, <3>1
    <3> QED BY <3>2
  <2>3. CASE rd[e] = {"hello"} /\ got[e] < Len(wire[e])
    <3>1. got[e] = 0 /\ 1 \in 1..Len(wire[e])
      BY <2>3 DEF IInv, PhaseInv, TypeOK
    <3>2. wire[e][1] = Expected(e, 1)
      BY <3>1 DEF IInv, StreamInv, StreamTo
    <3> QED BY <2>2, <2>3, <3>1, <3>2 DEF NextItem, Expected
  <2>4. CASE rd[e] \in {{"head"}, {"body"}} /\ got[e] < Len(wire[e])
    <3>1. NextItem(e).kind = "frame"
      BY <2>4, FrameExpected DEF IInv, PhaseInv
    <3> QED BY <2>2, <2>4, <3>1
  <2> QED BY <2>1, <2>2, <2>3, <2>4
<1>3. TypeOK /\ IInv => KeystreamsAligned
  <2> SUFFICES ASSUME TypeOK, IInv, NEW e \in Side,
                      rd[e] \cap {"head", "body"} # {}, got[e] < Len(wire[e])
               PROVE  Decrypted(dctx[e], NextItem(e)) # Garbled
    BY DEF KeystreamsAligned
  <2>1. fin[e]
    BY DEF IInv, PhaseInv
  <2>2. /\ Decrypted(dctx[e], NextItem(e)) = sent[Peer(e)][got[e]]
        /\ got[e] \in 1..Len(sent[Peer(e)])
    BY <2>1, FrameExpected
  <2>3. sent[Peer(e)] \in Seq(Text)
    BY PeerType DEF TypeOK
  <2> QED BY <2>2, <2>3, ConstantsAssumption DEF ConstantsAssumption
<1> QED BY <1>1, <1>2, <1>3, TypeCorrect, InvariantHolds, PTL

(* A connection implements the text channel: the texts one application     *)
(* sends reach the other one unchanged, in order and at most once          *)
(* (ChannelSpec).                                                          *)
THEOREM ImplementsTextChannel ==
  ASSUME ~EarlySend
  PROVE  Spec => ChannelSpec
<1> USE DEF appVars, sigVars, keyVars, netVars, opVars
<1>1. Init => Channel!Init
  BY DEF Init, Channel!Init
<1>2. TypeOK /\ IInv /\ [Next]_vars => [Channel!Next]_(Channel!vars)
  <2> SUFFICES ASSUME TypeOK, IInv, [Next]_vars PROVE [Channel!Next]_(Channel!vars)
    OBVIOUS
  <2>1. CASE UNCHANGED <<sent, delivered>>
    BY <2>1 DEF Channel!vars
  <2>2. ASSUME NEW e \in Side, NEW t \in Text, SendTextMsg(e, t)
        PROVE  [Channel!Next]_(Channel!vars)
    BY <2>2 DEF SendTextMsg, Channel!Next, Channel!Send
  <2>3. ASSUME NEW e \in Side, OnReadBody(e)
        PROVE  [Channel!Next]_(Channel!vars)
    <3>1. Completes(e, "body") /\ UNCHANGED sent
          /\ delivered' = [delivered EXCEPT ![e] = Append(@, Decrypted(dctx[e], NextItem(e)))]
      BY <2>3 DEF OnReadBody
    <3>2. fin[e] /\ got[e] < Len(wire[e]) /\ got[e] \in Nat
      BY <3>1, OnlyRead DEF IInv, PhaseInv, Completes, TypeOK
    <3>3. /\ got[e] \in 1..Len(sent[Peer(e)]) /\ Len(delivered[e]) = got[e] - 1
          /\ Decrypted(dctx[e], NextItem(e)) = sent[Peer(e)][got[e]]
      BY <3>2, FrameExpected
    <3>4. Len(delivered[e]) + 1 = got[e]
      BY <3>2, <3>3
    <3>5. Channel!Deliver(e)
      BY <3>1, <3>3, <3>4 DEF Channel!Deliver
    <3> QED BY <3>5 DEF Channel!Next
  <2>4. CASE \/ DoConnect \/ Establish \/ ConnectFails \/ OnConnect \/ OnAccept \/ NetFail
             \/ ClientClose \/ ClientSigClose \/ ClientCloseSocket \/ UNCHANGED vars
             \/ \E e \in Side : \/ OnHelloWritten(e) \/ OnHandShakeUnknownPeer(e)
                                \/ OnHandShakeBadSignature(e) \/ OnHandShakeNoSecret(e)
                                \/ OnHandShake(e) \/ OnReadHead(e) \/ OnReadError(e)
    BY <2>1, <2>4 DEF DoConnect, Establish, ConnectFails, OnConnect, OnAccept, NetFail,
                      ClientClose, ClientSigClose, ClientCloseSocket,
                      vars, OnHelloWritten, OnHandShakeUnknownPeer, OnHandShakeBadSignature,
                      OnHandShakeNoSecret, OnHandShake, OnReadHead, OnReadError, ReadsHello
  <2> QED BY <2>2, <2>3, <2>4 DEF Next, System, Application, Handler
<1> QED BY <1>1, <1>2, TypeCorrect, InvariantHolds, PTL DEF Spec, ChannelSpec, Channel!Spec

-----------------------------------------------------------------------------
(* What a connection keeps whatever the applications do, a client that     *)
(* sends before the handshake included: nothing is said here of what is on *)
(* the stream.  A session has at most one read outstanding, for a Hello    *)
(* until its handshake is announced and for a frame from then on; only the *)
(* Hello of the client is followed by the wait for another one.            *)
ReadInv ==
    /\ conn \in {"idle", "connecting"} =>
          pend = {} /\ \A e \in Side : rd[e] = {} /\ hsw[e] = 0 /\ ~fin[e]
    /\ "accept" \in pend => rd["srv"] = {} /\ ~fin["srv"]
    /\ "connect" \in pend \/ hsw["cli"] = 1 => rd["cli"] = {} /\ ~fin["cli"]
    /\ hsw["srv"] # 1 /\ ("connect" \in pend => hsw["cli"] # 1)
    /\ \A e \in Side :
          /\ rd[e] \in {{}, {"hello"}, {"head"}, {"body"}}
          /\ rd[e] = {"hello"} => ~fin[e]
          /\ rd[e] \in {{"head"}, {"body"}} => fin[e]

(* A server's session is closed by its own handlers, before it announced   *)
(* anything, and never acts again.  The application closes a client's      *)
(* session once, while it is in the map; when that call has returned, only *)
(* the read that had completed by then can still be handled.               *)
CloseInv ==
    /\ closeSig["srv"] => "accept" \notin pend /\ rd["srv"] = {} /\ ~fin["srv"] /\ conn # "idle"
    /\ closeSig["srv"] => conn # "connecting"
    /\ afterClose["srv"] = 0
    /\ inMap["cli"] => closing = "no" /\ conn # "idle"
    /\ closing # "no" => conn # "idle"
    /\ closing = "closed" => sock["cli"] = "closed"
    /\ closing # "closed" => ~late["cli"] /\ afterClose["cli"] = 0
    /\ afterClose["cli"] \in {0, 1} /\ (late["cli"] => afterClose["cli"] = 0)

(* A handler of a Hello runs before the session has announced anything.    *)
LEMMA HelloBeforeFinished ==
  ASSUME ReadInv, NEW e \in Side, Completes(e, "hello")
  PROVE  rd[e] = {"hello"} /\ ~fin[e] /\ conn = "up" /\ hsw[e] # 1 /\ (e = "srv" => "accept" \notin pend)
         /\ (e = "cli" => "connect" \notin pend)
BY DEF ReadInv, Completes, Side

(* The Hello that is written, or not, in answer to another one.            *)
LEMMA ReadAfterHello ==
  ASSUME TypeOK, ReadInv, NEW e \in Side, ReadsHello(e),
         \/ rd' = [rd EXCEPT ![e] = {"head"}] /\ fin' = [fin EXCEPT ![e] = TRUE]
         \/ rd' = [rd EXCEPT ![e] = {}] /\ fin' = fin,
         \/ hsw' = hsw
         \/ \E x \in {0, 2} : hsw' = [hsw EXCEPT ![e] = x]
  PROVE  ReadInv'
<1>1. rd[e] = {"hello"} /\ ~fin[e] /\ conn = "up" /\ hsw[e] # 1
      /\ (e = "srv" => "accept" \notin pend) /\ (e = "cli" => "connect" \notin pend)
      /\ UNCHANGED <<conn, pend>>
  BY HelloBeforeFinished DEF ReadsHello
<1>2. \A d \in Side \ {e} : rd'[d] = rd[d] /\ fin'[d] = fin[d] /\ hsw'[d] = hsw[d]
  BY DEF TypeOK
<1>3. hsw'[e] # 1
  BY <1>1 DEF TypeOK
<1>4. (rd'[e] = {"head"} /\ fin'[e]) \/ (rd'[e] = {} /\ ~fin'[e])
  BY <1>1 DEF TypeOK
<1> QED BY <1>1, <1>2, <1>3, <1>4 DEF ReadInv, Side

LEMMA ReadStep == TypeOK /\ ReadInv /\ [Next]_vars => ReadInv'
<1> SUFFICES ASSUME TypeOK, ReadInv, [Next]_vars PROVE ReadInv'
  OBVIOUS
<1> USE DEF appVars, sigVars, keyVars, netVars, opVars
<1>1. ASSUME UNCHANGED <<pend, rd, hsw, fin>>,
             conn' \in {"idle", "connecting"} => conn \in {"idle", "connecting"}
      PROVE  ReadInv'
  BY <1>1 DEF ReadInv
<1>2. CASE DoConnect \/ ConnectFails \/ NetFail \/ UNCHANGED vars
           \/ ClientClose \/ ClientSigClose \/ ClientCloseSocket
           \/ \E e \in Side, t \in Text : SendTextMsg(e, t)
  BY <1>1, <1>2 DEF DoConnect, ConnectFails, ClientClose, ClientSigClose, ClientCloseSocket,
                    NetFail, SendTextMsg, vars
<1>3. CASE Establish
  BY <1>3 DEF Establish, ReadInv, Side
<1>4. CASE OnConnect
  <2>1. /\ conn \notin {"idle", "connecting"} /\ rd["cli"] = {} /\ ~fin["cli"]
        /\ UNCHANGED <<conn, rd, fin>> /\ pend' = pend \ {"connect"} /\ hsw'["srv"] = hsw["srv"]
    BY <1>4 DEF OnConnect, ReadInv, TypeOK, Side
  <2> QED BY <2>1 DEF ReadInv, Side
<1>5. CASE OnAccept
  <2>1. /\ conn \notin {"idle", "connecting"} /\ rd'["srv"] = {"hello"} /\ ~fin["srv"]
        /\ rd'["cli"] = rd["cli"] /\ UNCHANGED <<conn, hsw, fin>> /\ pend' = pend \ {"accept"}
    BY <1>5 DEF OnAccept, ReadInv, TypeOK, Side
  <2> QED BY <2>1 DEF ReadInv, Side
<1>6. ASSUME NEW e \in Side, OnHelloWritten(e) PROVE ReadInv'
  <2>1. /\ conn \notin {"idle", "connecting"} /\ hsw'[e] = 0 /\ UNCHANGED <<conn, pend, fin>>
        /\ \A d \in Side \ {e} : rd'[d] = rd[d] /\ hsw'[d] = hsw[d]
    BY <1>6 DEF OnHelloWritten, ReadInv, TypeOK
  <2>2. CASE hsw[e] = 1
    <3>1. e = "cli" /\ "connect" \notin pend /\ rd[e] = {} /\ ~fin[e]
      BY <2>2 DEF ReadInv, Side
    <3>2. rd'[e] \in {{}, {"hello"}}
      BY <1>6, <2>2, <3>1 DEF OnHelloWritten, WaitsAfter, TypeOK
    <3> QED BY <2>1, <3>1, <3>2 DEF ReadInv, Side
  <2>3. CASE hsw[e] # 1
    <3>1. rd'[e] = rd[e]
      <4>1. WaitsAfter(hsw[e]) = {}
        BY <2>3 DEF WaitsAfter
      <4>2. rd' = [rd EXCEPT ![e] = rd[e] \cup {}] \/ rd' = rd
        BY <1>6, <4>1 DEF OnHelloWritten
      <4> QED BY <4>2 DEF TypeOK
    <3> QED BY <2>1, <3>1 DEF ReadInv, Side
  <2> QED BY <2>2, <2>3
<1>7. ASSUME NEW e \in Side,
             OnHandShakeUnknownPeer(e) \/ OnHandShakeBadSignature(e) \/ OnHandShakeNoSecret(e)
      PROVE  ReadInv'
  <2>1. ReadsHello(e) /\ rd' = [rd EXCEPT ![e] = (@ \ {"hello"}) \cup {}] /\ UNCHANGED <<fin, hsw>>
    BY <1>7 DEF OnHandShakeUnknownPeer, OnHandShakeBadSignature, OnHandShakeNoSecret, ReadsNext
  <2>2. rd' = [rd EXCEPT ![e] = {}]
    BY <2>1, HelloBeforeFinished DEF ReadsHello
  <2> QED BY <2>1, <2>2, ReadAfterHello
<1>8. ASSUME NEW e \in Side, OnHandShake(e) PROVE ReadInv'
  <2>1. /\ ReadsHello(e) /\ rd' = [rd EXCEPT ![e] = (@ \ {"hello"}) \cup {"head"}]
        /\ fin' = [fin EXCEPT ![e] = TRUE]
    BY <1>8 DEF OnHandShake, ReadsNext
  <2>2. rd' = [rd EXCEPT ![e] = {"head"}]
    BY <2>1, HelloBeforeFinished DEF ReadsHello
  <2>3. hsw' = hsw \/ \E x \in {0, 2} : hsw' = [hsw EXCEPT ![e] = x]
    BY <1>8 DEF OnHandShake
  <2> QED BY <2>1, <2>2, <2>3, ReadAfterHello
<1>9. ASSUME NEW e \in Side, OnReadHead(e) \/ OnReadBody(e) \/ OnReadError(e) PROVE ReadInv'
  <2>1. /\ UNCHANGED <<conn, pend, hsw, fin>> /\ rd[e] # {}
        /\ \A d \in Side \ {e} : rd'[d] = rd[d]
    BY <1>9 DEF OnReadHead, OnReadBody, OnReadError, Completes, ReadsNext, TypeOK
  <2>2. CASE fin[e]
    <3>1. rd'[e] \in {{}, {"head"}, {"body"}}
      <4>1. rd[e] \in {{"head"}, {"body"}}
        BY <2>1, <2>2 DEF ReadInv
      <4>2. CASE OnReadHead(e)
        BY <4>1, <4>2 DEF OnReadHead, Completes, ReadsNext, TypeOK
      <4>3. CASE OnReadBody(e)
        BY <4>1, <4>3 DEF OnReadBody, Completes, ReadsNext, TypeOK
      <4>4. CASE OnReadError(e)
        BY <4>1, <4>4 DEF OnReadError, ReadsNext, TypeOK
      <4> QED BY <1>9, <4>2, <4>3, <4>4
    <3> QED BY <2>1, <2>2, <3>1 DEF ReadInv, Side
  <2>3. CASE ~fin[e]
    <3>1. rd[e] = {"hello"}
      BY <2>1, <2>3 DEF ReadInv
    <3>2. rd'[e] = {}
      BY <1>9, <3>1 DEF OnReadHead, OnReadBody, OnReadError, Completes, ReadsNext, TypeOK
    <3> QED BY <2>1, <2>3, <3>2 DEF ReadInv, Side
  <2> QED BY <2>2, <2>3
<1> QED BY <1>2, <1>3, <1>4, <1>5, <1>6, <1>7, <1>8, <1>9 DEF Next, System, Application, Handler

(* The steps by category, for what can close a session or touch one that   *)
(* has announced its handshake.                                            *)
LEMMA CloseStep == TypeOK /\ ReadInv /\ CloseInv /\ [Next]_vars => CloseInv'
<1> SUFFICES ASSUME TypeOK, ReadInv, CloseInv, [Next]_vars PROVE CloseInv'
  OBVIOUS
<1> USE DEF appVars, sigVars, keyVars, netVars, opVars
<1>1. ASSUME UNCHANGED <<closeSig, closing, afterClose, inMap, late, fin>>,
             sock["cli"] = "closed" => sock'["cli"] = "closed",
             pend' \subseteq pend, conn' # conn => conn' \in {"up", "down"},
             closeSig["srv"] => rd'["srv"] = {}
      PROVE  CloseInv'
  BY <1>1 DEF CloseInv
<1>2. CASE ConnectFails \/ NetFail \/ UNCHANGED vars \/ OnConnect
           \/ \E e \in Side, t \in Text : SendTextMsg(e, t)
  BY <1>1, <1>2 DEF ConnectFails, NetFail, OnConnect, SendTextMsg, vars, CloseInv
<1>3. CASE DoConnect
  <2>1. conn = "idle" /\ ~closeSig["srv"] /\ closing = "no"
    BY <1>3 DEF DoConnect, CloseInv
  <2>2. conn' = "connecting" /\ UNCHANGED <<closeSig, closing, afterClose, late>>
    BY <1>3 DEF DoConnect
  <2> QED BY <2>1, <2>2 DEF CloseInv
<1>4. CASE Establish
  <2>1. conn = "connecting" /\ ~closeSig["srv"] /\ closing # "closed"
    BY <1>4 DEF Establish, CloseInv
  <2>2. conn' = "up" /\ UNCHANGED <<closeSig, closing, inMap, afterClose, late>>
    BY <1>4 DEF Establish
  <2> QED BY <2>1, <2>2 DEF CloseInv
<1>5. CASE OnAccept
  <2>1. ~closeSig["srv"]
    BY <1>5 DEF OnAccept, CloseInv
  <2> QED BY <1>5, <2>1 DEF OnAccept, CloseInv
<1>6. CASE ClientClose \/ ClientSigClose \/ ClientCloseSocket
  <2>1. /\ closing # "closed" /\ conn # "idle" /\ afterClose["cli"] = 0
        /\ UNCHANGED <<conn, pend, rd, fin, afterClose>> /\ closing' # "no"
        /\ closeSig'["srv"] = closeSig["srv"]
    BY <1>6 DEF ClientClose, ClientSigClose, ClientCloseSocket, CloseInv, TypeOK, Side
  <2>2. ~inMap'["cli"]
    BY <1>6 DEF ClientClose, ClientSigClose, ClientCloseSocket, CloseInv, TypeOK, Side
  <2>3. CASE ClientClose \/ ClientSigClose
    <3>1. closing' # "closed" /\ late' = late
      BY <2>3 DEF ClientClose, ClientSigClose
    <3> QED BY <2>1, <2>2, <3>1 DEF CloseInv
  <2>4. CASE ClientCloseSocket
    <3>1. closing' = "closed" /\ sock'["cli"] = "closed"
      BY <2>4 DEF ClientCloseSocket, TypeOK, Side
    <3> QED BY <2>1, <2>2, <3>1 DEF CloseInv
  <2> QED BY <1>6, <2>3, <2>4
<1>7. ASSUME NEW e \in Side, OnHelloWritten(e) PROVE CloseInv'
  <2>1. closeSig["srv"] => rd'["srv"] = {}
    <3>1. hsw["srv"] # 1 /\ WaitsAfter(hsw["srv"]) = {}
      BY DEF ReadInv, WaitsAfter
    <3>2. CASE e = "srv"
      <4>1. rd' = [rd EXCEPT !["srv"] = rd["srv"] \cup {}] \/ rd' = rd
        BY <1>7, <3>1, <3>2 DEF OnHelloWritten
      <4> QED BY <4>1 DEF CloseInv, TypeOK
    <3>3. CASE e = "cli"
      <4>1. rd'["srv"] = rd["srv"]
        BY <1>7, <3>3 DEF OnHelloWritten, TypeOK, Side
      <4> QED BY <4>1 DEF CloseInv
    <3> QED BY <3>2, <3>3 DEF Side
  <2>2. sock["cli"] = "closed" => sock'["cli"] = "closed"
    BY <1>7, ReturnsEffect DEF OnHelloWritten, Side
  <2> QED BY <1>1, <1>7, <2>1, <2>2 DEF OnHelloWritten
<1>8. ASSUME NEW e \in Side,
             OnHandShakeUnknownPeer(e) \/ OnHandShakeBadSignature(e) \/ OnHandShakeNoSecret(e)
             \/ OnHandShake(e)
      PROVE  CloseInv'
  <2>1. /\ ReadsHello(e) /\ rd[e] = {"hello"} /\ ~fin[e] /\ conn = "up"
        /\ (e = "srv" => "accept" \notin pend) /\ UNCHANGED <<conn, pend, afterClose, closing>>
    BY <1>8, HelloBeforeFinished
       DEF OnHandShakeUnknownPeer, OnHandShakeBadSignature, OnHandShakeNoSecret, OnHandShake,
           ReadsHello
  <2>2. /\ ~late'[e] /\ \A d \in Side \ {e} : late'[d] = late[d] /\ rd'[d] = rd[d]
    BY <1>8 DEF OnHandShakeUnknownPeer, OnHandShakeBadSignature, OnHandShakeNoSecret, OnHandShake,
                ReadsNext, TypeOK
  <2>3. \A d \in Side \ {e} : /\ closeSig'[d] = closeSig[d] /\ sock'[d] = sock[d]
                              /\ inMap'[d] = inMap[d] /\ fin'[d] = fin[d]
    BY <1>8, ReturnsEffect
       DEF OnHandShakeUnknownPeer, OnHandShakeBadSignature, OnHandShakeNoSecret, OnHandShake,
           Close, TypeOK
  <2>4. CASE OnHandShakeUnknownPeer(e) \/ OnHandShakeBadSignature(e)
    <3>1. /\ closeSig'[e] /\ ~inMap'[e] /\ sock'[e] = "closed" /\ rd'[e] = {} /\ fin' = fin
      BY <2>1, <2>4 DEF OnHandShakeUnknownPeer, OnHandShakeBadSignature, Close, ReadsNext, TypeOK
    <3> QED BY <2>1, <2>2, <2>3, <3>1 DEF CloseInv, Side
  <2>5. CASE OnHandShakeNoSecret(e)
    <3>1. UNCHANGED <<closeSig, inMap, fin>> /\ rd'[e] = {}
      BY <2>1, <2>5 DEF OnHandShakeNoSecret, ReadsNext, TypeOK
    <3>2. sock["cli"] = "closed" => sock'["cli"] = "closed"
      BY <2>5, ReturnsEffect DEF OnHandShakeNoSecret, Side
    <3> QED BY <2>1, <2>2, <3>1, <3>2 DEF CloseInv, Side
  <2>6. CASE OnHandShake(e)
    <3>1. UNCHANGED <<closeSig, sock>> /\ (e = "cli" => inMap' = inMap)
      BY <2>6 DEF OnHandShake, TypeOK
    <3>2. e = "srv" => ~closeSig["srv"]
      BY <2>1 DEF CloseInv
    <3> QED BY <2>1, <2>2, <2>3, <3>1, <3>2 DEF CloseInv, Side
  <2> QED BY <1>8, <2>4, <2>5, <2>6
<1>9. ASSUME NEW e \in Side, OnReadHead(e) \/ OnReadError(e) PROVE CloseInv'
  <2>1. /\ UNCHANGED <<closeSig, closing, afterClose, inMap, fin, conn, pend>>
        /\ rd[e] # {} /\ ~late'[e] /\ \A d \in Side \ {e} : late'[d] = late[d] /\ rd'[d] = rd[d]
    <3>1. CASE OnReadHead(e)
      BY <3>1 DEF OnReadHead, Completes, ReadsNext, TypeOK
    <3>2. CASE OnReadError(e)
      <4>1. PICK r \in rd[e] : ReadsNext(e, r, {})
        BY <3>2 DEF OnReadError
      <4> QED BY <3>2, <4>1 DEF OnReadError, ReadsNext, TypeOK
    <3> QED BY <1>9, <3>1, <3>2
  <2>2. sock["cli"] = "closed" => sock'["cli"] = "closed"
    BY <1>9, ReturnsEffect DEF OnReadHead, OnReadError, Side
  <2> QED BY <2>1, <2>2 DEF CloseInv, Side
<1>10. ASSUME NEW e \in Side, OnReadBody(e) PROVE CloseInv'
  <2>1. /\ UNCHANGED <<closeSig, closing, inMap, sock, fin, conn, pend>>
        /\ rd[e] # {} /\ ~late'[e] /\ \A d \in Side \ {e} : late'[d] = late[d] /\ rd'[d] = rd[d]
        /\ sock[e] = "open" \/ late[e]
    BY <1>10 DEF OnReadBody, Completes, ReadsNext, TypeOK
  <2>2. /\ afterClose'[e] = afterClose[e] + (IF HasClosed(e) THEN 1 ELSE 0)
        /\ \A d \in Side \ {e} : afterClose'[d] = afterClose[d]
    BY <1>10 DEF OnReadBody, TypeOK
  <2>3. CASE e = "srv"
    <3>1. ~closeSig["srv"] /\ ~HasClosed("srv")
      BY <2>1, <2>3 DEF CloseInv, HasClosed
    <3>2. afterClose'["srv"] = 0
      BY <2>2, <2>3, <3>1 DEF CloseInv
    <3> QED BY <2>1, <2>2, <2>3, <3>1, <3>2 DEF CloseInv, Side
  <2>4. CASE e = "cli"
    <3>1. closing = "closed" => late["cli"] /\ afterClose["cli"] = 0
      BY <2>1, <2>4 DEF CloseInv
    <3>2. /\ afterClose'["cli"] \in {0, 1} /\ (closing # "closed" => afterClose'["cli"] = 0)
      BY <2>2, <2>4, <3>1 DEF CloseInv, HasClosed
    <3> QED BY <2>1, <2>2, <2>4, <3>2 DEF CloseInv, Side
  <2> QED BY <2>3, <2>4 DEF Side
<1> QED BY <1>2, <1>3, <1>4, <1>5, <1>6, <1>7, <1>8, <1>9, <1>10
        DEF Next, System, Application, Handler

LEMMA CloseInvHolds == Spec => [](ReadInv /\ CloseInv)
<1>1. Init => ReadInv /\ CloseInv
  BY DEF Init, ReadInv, CloseInv, Side
<1> QED BY <1>1, TypeCorrect, ReadStep, CloseStep, PTL DEF Spec

(* Once close() has returned, the application gets at most the one text    *)
(* whose read had completed before socket_.close(), and at the server none *)
(* follows: also when the client sends before the handshake                *)
(* (AfterCloseBounded).                                                    *)
THEOREM CloseIsFinal == Spec => []AfterCloseBounded
<1>1. CloseInv => AfterCloseBounded
  BY DEF CloseInv, AfterCloseBounded
<1> QED BY <1>1, CloseInvHolds, PTL

(* Nothing undoes an announced session: identity and key stay, no second   *)
(* Hello is processed, and the server does not close it (FinishedIsStable).*)
THEOREM FinishedStays == Spec => FinishedIsStable
<1> DEFINE Stable(e) == /\ fin'[e] /\ id'[e] = id[e] /\ peerKey'[e] = peerKey[e]
                        /\ ectx'[e].key = ectx[e].key
                        /\ e = "srv" => ~closeSig'[e]
<1> USE DEF appVars, sigVars, keyVars, netVars, opVars
<1>1. TypeOK /\ ReadInv /\ CloseInv /\ [Next]_vars => \A e \in Side : fin[e] => Stable(e)
  <2> SUFFICES ASSUME TypeOK, ReadInv, CloseInv, [Next]_vars, NEW e \in Side, fin[e]
               PROVE  Stable(e)
    OBVIOUS
  <2>1. conn \notin {"idle", "connecting"} /\ (e = "srv" => ~closeSig["srv"])
    BY DEF ReadInv, CloseInv
  <2>2. CASE UNCHANGED <<fin, id, peerKey, ectx, closeSig>>
    BY <2>1, <2>2
  <2>3. CASE DoConnect \/ Establish \/ ConnectFails \/ OnAccept \/ NetFail \/ UNCHANGED vars
             \/ \E d \in Side : OnHelloWritten(d) \/ OnReadHead(d) \/ OnReadBody(d) \/ OnReadError(d)
    BY <2>1, <2>2, <2>3 DEF DoConnect, Establish, ConnectFails, OnAccept, NetFail, vars,
                            OnHelloWritten, OnReadHead, OnReadBody, OnReadError
  <2>4. CASE OnConnect
    BY <2>2, <2>4 DEF OnConnect
  <2>5. CASE ClientClose \/ ClientSigClose \/ ClientCloseSocket
    BY <2>1, <2>5 DEF ClientClose, ClientSigClose, ClientCloseSocket, TypeOK, Side
  <2>6. ASSUME NEW d \in Side, NEW t \in Text, SendTextMsg(d, t) PROVE Stable(e)
    <3>1. ectx'[e].key = ectx[e].key
      BY <2>6 DEF SendTextMsg, Advance, TypeOK, Context
    <3> QED BY <2>1, <2>6, <3>1 DEF SendTextMsg
  <2>7. ASSUME NEW d \in Side,
               OnHandShakeUnknownPeer(d) \/ OnHandShakeBadSignature(d) \/ OnHandShakeNoSecret(d)
               \/ OnHandShake(d)
        PROVE  Stable(e)
    <3>1. d # e
      BY <2>7, HelloBeforeFinished
         DEF OnHandShakeUnknownPeer, OnHandShakeBadSignature, OnHandShakeNoSecret, OnHandShake,
             ReadsHello
    <3> QED BY <2>1, <2>7, <3>1
            DEF OnHandShakeUnknownPeer, OnHandShakeBadSignature, OnHandShakeNoSecret, OnHandShake,
                Adopts, Close, TypeOK
  <2> QED BY <2>3, <2>4, <2>5, <2>6, <2>7 DEF Next, System, Application, Handler
<1>2. TypeOK /\ ReadInv /\ CloseInv /\ [Next]_vars
      => [\A e \in Side : fin[e] =>
            /\ fin'[e] /\ id'[e] = id[e] /\ peerKey'[e] = peerKey[e]
            /\ ectx'[e].key = ectx[e].key
            /\ e = "srv" => ~closeSig'[e]]_vars
  BY <1>1
<1> QED BY <1>2, TypeCorrect, CloseInvHolds, PTL DEF Spec, FinishedIsStable
=============================================================================
