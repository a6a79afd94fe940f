---------------------------- MODULE ChatSession ----------------------------
(***************************************************************************)
(* One chat connection: the ChatSession<ChatClient> object at the end that *)
(* called doConnect ("cli"), the ChatSession<ChatServer> object at the end *)
(* that accepted ("srv"), and the TCP connection between them.  Each       *)
(* handler of chatsession.h is one action; the io thread of an end runs    *)
(* one handler at a time, the application thread calls sendTextMsg between *)
(* them.  ChatClient::close on the application thread takes no lock, so it *)
(* is three actions (erase from the map, emit sigClose, close the socket)  *)
(* and handlers run between them.                                          *)
(*                                                                         *)
(* Abstractions.  A key pair is a member of Ident: a signature verifies    *)
(* under the public half of the pair that made it.  An ephemeral key pair  *)
(* is the side that drew it, and the X25519 secret of two pairs is the set *)
(* of the two.  A cipher context is the secret and the number of frames it *)
(* has run over (module ChaCha20 is about the bytes): a frame decrypts to  *)
(* its text exactly when the two contexts agree on both.  One async_write  *)
(* of this code is one WSASend (a frame is far below the 64 KiB at which   *)
(* asio splits a write), so items reach the wire whole and in the order    *)
(* the writes were started.                                                *)
(***************************************************************************)
EXTENDS Naturals, Sequences, FiniteSets

CONSTANTS Ident,        \* Ed25519 key pairs
          NoKey,        \* an empty QByteArray or QString
          Text,         \* texts the applications send
          Garbled,      \* what a frame decrypts to under the wrong keystream
          Setups,       \* the configurations to start from (see SetupType)
          MaxSend,      \* bound: texts each application sends
          EarlySend,    \* TRUE: the client application may call sendTextMsg
                        \* before sigHandshakeFinished
          NetworkFails, \* TRUE: the connection may break
          ClientCloses  \* TRUE: the application may call ChatClient::close

Side == {"cli", "srv"}
Peer(e) == IF e = "cli" THEN "srv" ELSE "cli"

(* pub, priv: the keys given to setEcKey; expect: the peer_pubkey argument *)
(* of doConnect; peers: the server's peer_list_; weak: the sides whose     *)
(* ephemeral public key X25519 refuses.                                    *)
SetupType == [pub : [Side -> Ident], priv : [Side -> Ident],
              expect : Ident \cup {NoKey}, peers : SUBSET Ident,
              weak : SUBSET Side]

ASSUME ConstantsAssumption ==
    /\ NoKey \notin Ident
    /\ Garbled \notin Text
    /\ Setups \subseteq SetupType
    /\ MaxSend \in Nat
    /\ EarlySend \in BOOLEAN
    /\ NetworkFails \in BOOLEAN
    /\ ClientCloses \in BOOLEAN

VARIABLES
    setup,      \* the configuration, chosen once
    conn,       \* the TCP connection: "idle", "connecting", "up", "down"
    pend,       \* completed by the network, handler not yet run
    sock,       \* sock[e]: "none", "open", "closed"
    rd,         \* rd[e]: the outstanding async_read operations of e
    late,       \* late[e]: the outstanding read had completed when e was closed
    hsw,        \* hsw[e]: type of the Hello whose async_write is outstanding
    id,         \* id[e]: id_
    peerKey,    \* peerKey[e]: peer_static_pubkey_
    ectx,       \* ectx[e]: chacha_ectx_
    dctx,       \* dctx[e]: chacha_dctx_
    wire,       \* wire[e]: everything written towards e, in order
    got,        \* got[e]: how many items of wire[e] have been read
    inMap,      \* inMap[e]: the owner's sess_map_ holds this session
    connected,  \* sigConnected has been emitted (client)
    fin,        \* fin[e]: sigHandshakeFinished has been emitted
    closeSig,   \* closeSig[e]: sigClose has been emitted
    closing,    \* how far the application's ChatClient::close has come:
                \* "no", "erased", "signalled", "closed"
    sent,       \* sent[e]: texts sendTextMsg accepted (returned true)
    delivered,  \* delivered[e]: texts emitted by sigTextMsg
    afterClose  \* afterClose[e]: how many of them after close() returned

appVars  == <<sent, delivered, afterClose>>
sigVars  == <<connected, fin, closeSig>>
keyVars  == <<id, peerKey, ectx, dctx>>
netVars  == <<conn, pend, wire, got>>
opVars   == <<sock, rd, late, hsw>>
vars == <<setup, appVars, sigVars, keyVars, netVars, opVars, inMap, closing>>

-----------------------------------------------------------------------------
(* A context that mbedtls_chacha20_init has not touched has no key.        *)
NoCtx == [key |-> {}, pos |-> 0]
InitChaCha20(secret) == [key |-> secret, pos |-> 0]
Advance(ctx) == [ctx EXCEPT !.pos = @ + 1]

Hello(e, t) == [kind |-> "hello", type |-> t, static_key |-> setup.pub[e],
                signer |-> setup.priv[e], ephemeral_key |-> e]
(* Mutant: the context moves on before it encrypts. *)
FrameAfterAdvance(ctx, t) == [kind |-> "frame", key |-> ctx.key, pos |-> ctx.pos + 1, text |-> t]
Frame(ctx, t) == [kind |-> "frame", key |-> ctx.key, pos |-> ctx.pos, text |-> t]

(* 165 bytes that are not a Hello, read as one. *)
AlienHello == [kind |-> "hello", type |-> 0, static_key |-> NoKey,
               signer |-> NoKey, ephemeral_key |-> "srv"]
AsHello(item) == IF item.kind = "hello" THEN item ELSE AlienHello

(* Mutant: mbedtls_chacha20_update is not called, the bytes of the frame   *)
(* are passed on.                                                          *)
NotDecrypted(ctx, item) == item

(* handleReadMsg: what onTextMsg is given for this item. *)
Decrypted(ctx, item) ==
    IF item.kind = "frame" /\ item.key # {} /\ item.key = ctx.key /\ item.pos = ctx.pos
    THEN item.text ELSE Garbled

(* An async_write started by e reaches the wire. *)
CanWrite(e) == conn = "up" /\ sock[e] = "open"

Write(e, item) ==
    wire' = IF CanWrite(e) THEN [wire EXCEPT ![Peer(e)] = Append(@, item)] ELSE wire

(* The outstanding read r of e completes with data. *)
Completes(e, r) ==
    /\ r \in rd[e]
    /\ conn = "up" /\ got[e] < Len(wire[e])
    /\ sock[e] = "open" \/ late[e]

NextItem(e) == wire[e][got[e] + 1]

(* Mutant: no handler starts the next read. *)
ReadsNothing(e, r, n) == /\ rd' = [rd EXCEPT ![e] = @ \ {r}]
                         /\ late' = [late EXCEPT ![e] = FALSE]

(* The read r is over; n, if any, is the read its handler started. *)
ReadsNext(e, r, n) == /\ rd' = [rd EXCEPT ![e] = (@ \ {r}) \cup n]
                      /\ late' = [late EXCEPT ![e] = FALSE]

Init ==
    /\ setup \in Setups
    /\ conn = "idle" /\ pend = {}
    /\ sock = [e \in Side |-> "none"]
    /\ rd = [e \in Side |-> {}]
    /\ late = [e \in Side |-> FALSE]
    /\ hsw = [e \in Side |-> 0]
    /\ id = [e \in Side |-> NoKey]
    /\ peerKey = [e \in Side |-> NoKey]
    /\ ectx = [e \in Side |-> NoCtx] /\ dctx = [e \in Side |-> NoCtx]
    /\ wire = [e \in Side |-> <<>>] /\ got = [e \in Side |-> 0]
    /\ inMap = [e \in Side |-> FALSE]
    /\ connected = FALSE
    /\ fin = [e \in Side |-> FALSE]
    /\ closeSig = [e \in Side |-> FALSE] /\ closing = "no"
    /\ sent = [e \in Side |-> <<>>] /\ delivered = [e \in Side |-> <<>>]
    /\ afterClose = [e \in Side |-> 0]

-----------------------------------------------------------------------------
(* ChatClient::connect: the session enters sess_map_ before there is a     *)
(* connection.                                                             *)
DoConnect ==
    /\ conn = "idle"
    /\ conn' = "connecting"
    /\ id' = [id EXCEPT !["cli"] = setup.expect]
    /\ peerKey' = [peerKey EXCEPT !["cli"] = setup.expect]
    /\ inMap' = [inMap EXCEPT !["cli"] = TRUE]
    /\ UNCHANGED <<setup, appVars, sigVars, ectx, dctx, pend, wire, got, opVars, closing>>

(* The network answers the connection attempt.  On failure the completion  *)
(* handler only logs.                                                      *)
Establish ==
    /\ conn = "connecting" /\ sock["cli"] # "closed"
    /\ conn' = "up"
    /\ pend' = {"connect", "accept"}
    /\ sock' = [e \in Side |-> "open"]
    /\ UNCHANGED <<setup, appVars, sigVars, keyVars, wire, got, rd, late, hsw, inMap, closing>>

ConnectFails ==
    /\ conn = "connecting" /\ (NetworkFails \/ sock["cli"] = "closed")
    /\ conn' = "down"
    /\ UNCHANGED <<setup, appVars, sigVars, keyVars, pend, wire, got, opVars, inMap, closing>>

(* The completion handler of async_connect: sendHandshake(1), onConnected. *)
(* asio turns the success into an error when it finds the socket closed,   *)
(* and then the handler only logs; a close after asio has looked comes too *)
(* late for that.                                                          *)
OnConnect ==
    /\ "connect" \in pend
    /\ pend' = pend \ {"connect"}
    /\ \/ /\ Write("cli", Hello("cli", 1))
          /\ hsw' = [hsw EXCEPT !["cli"] = IF CanWrite("cli") THEN 1 ELSE 0]
          /\ connected' = TRUE
       \/ sock["cli"] = "closed" /\ UNCHANGED <<wire, hsw, connected>>
    /\ UNCHANGED <<setup, appVars, fin, closeSig, keyVars, conn, got, sock, rd, late, inMap, closing>>

(* The completion handler of async_accept: a new session, which starts to  *)
(* read the Hello.                                                         *)
OnAccept ==
    /\ "accept" \in pend
    /\ pend' = pend \ {"accept"}
    /\ rd' = [rd EXCEPT !["srv"] = @ \cup {"hello"}]
    /\ UNCHANGED <<setup, appVars, sigVars, keyVars, conn, wire, got, sock, late, hsw, inMap, closing>>

(* Mutants: a response is waited for after any Hello, or after none. *)
AlwaysWaits(type) == {"hello"}
NeverWaits(type) == {}

(* After a request, and only then, the session waits for the response.     *)
WaitsAfter(type) == IF type = 1 THEN {"hello"} ELSE {}

(* A handler returns.  The session lives as long as the owner's map, a     *)
(* read or the write of a Hello holds a pointer to it; ~ChatSession closes *)
(* the socket.                                                             *)
Returns(e) ==
    sock' = IF inMap[e] \/ rd'[e] # {} \/ hsw'[e] # 0 THEN sock
            ELSE [sock EXCEPT ![e] = "closed"]

(* The completion handler of sendHandshake; the write may also have failed.*)
OnHelloWritten(e) ==
    /\ hsw[e] # 0
    /\ hsw' = [hsw EXCEPT ![e] = 0]
    /\ \/ rd' = [rd EXCEPT ![e] = @ \cup WaitsAfter(hsw[e])]
       \/ (conn = "down" \/ sock[e] = "closed") /\ UNCHANGED rd
    /\ Returns(e)
    /\ UNCHANGED <<setup, appVars, sigVars, keyVars, netVars, late, inMap, closing>>

(* ChatSession::close, called by onHandShake: client_->onClose(id_), which *)
(* erases id_ from the owner's map and emits sigClose, then                *)
(* socket_.close().  One step: the io thread of e runs no other handler    *)
(* meanwhile, and its session has announced nothing the application could  *)
(* send with.                                                              *)
Close(e) == /\ inMap' = [inMap EXCEPT ![e] = FALSE]
            /\ closeSig' = [closeSig EXCEPT ![e] = TRUE]
            /\ sock' = [sock EXCEPT ![e] = "closed"]

ContainsPeerPubkey(e, pk) == e = "srv" /\ pk \in setup.peers
PeerIsKnown(e, h) == peerKey[e] # NoKey \/ ContainsPeerPubkey(e, h.static_key)
(* ed25519_sign and ed25519_verify hash the public key along with the      *)
(* message, so a Hello whose static_key is not the half of the key that    *)
(* signed it verifies under no key at all.                                 *)
(* Mutant: the signature is verified under the key the Hello brings. *)
KeyOfHello(e, h) == h.static_key
KeyToVerify(e, h) == IF peerKey[e] # NoKey THEN peerKey[e] ELSE h.static_key
Verified(e, h) == h.signer = KeyToVerify(e, h) /\ h.static_key = h.signer
X25519Ok(h) == h.ephemeral_key \notin setup.weak

SharedSecret(e, h) == {e, h.ephemeral_key}

ReadsHello(e) == /\ Completes(e, "hello")
                 /\ got' = [got EXCEPT ![e] = @ + 1]
                 /\ UNCHANGED <<setup, appVars, connected, conn, pend, closing>>

(* The session takes the identity of a Hello whose key is in the list.     *)
Adopts(e, h) ==
    /\ peerKey' = [peerKey EXCEPT ![e] = KeyToVerify(e, h)]
    /\ id' = [id EXCEPT ![e] = IF peerKey[e] # NoKey THEN @ ELSE h.static_key]

(* onHandShake, the sender's key is not in the peer list: close. *)
OnHandShakeUnknownPeer(e) ==
    LET h == AsHello(NextItem(e)) IN
    /\ ReadsHello(e)
    /\ ~PeerIsKnown(e, h)
    /\ Close(e)
    /\ ReadsNext(e, "hello", {})
    /\ UNCHANGED <<keyVars, wire, fin, hsw>>

(* onHandShake, ed25519_verify fails: close. *)
OnHandShakeBadSignature(e) ==
    LET h == AsHello(NextItem(e)) IN
    /\ ReadsHello(e)
    /\ PeerIsKnown(e, h) /\ ~Verified(e, h)
    /\ Adopts(e, h)
    /\ Close(e)
    /\ ReadsNext(e, "hello", {})
    /\ UNCHANGED <<ectx, dctx, wire, fin, hsw>>

(* onHandShake, X25519 fails: the handler returns and nothing is read any  *)
(* more.  At the server that drops the last pointer to the session; the    *)
(* client's stays in sess_map_ and its socket open.                        *)
OnHandShakeNoSecret(e) ==
    LET h == AsHello(NextItem(e)) IN
    /\ ReadsHello(e)
    /\ PeerIsKnown(e, h) /\ Verified(e, h) /\ ~X25519Ok(h)
    /\ Adopts(e, h)
    /\ ReadsNext(e, "hello", {})
    /\ UNCHANGED <<ectx, dctx, wire, fin, hsw, inMap, closeSig>>
    /\ Returns(e)

(* onHandShake, the good path: initChaCha20, the response to a request,    *)
(* onHandShakeFinished (the server inserts the session in its map), and    *)
(* the first read of a message head.                                       *)
OnHandShake(e) ==
    LET h == AsHello(NextItem(e))
        secret == SharedSecret(e, h) IN
    /\ ReadsHello(e)
    /\ PeerIsKnown(e, h) /\ Verified(e, h) /\ X25519Ok(h)
    /\ Adopts(e, h)
    /\ dctx' = [dctx EXCEPT ![e] = InitChaCha20(secret)]
    /\ ectx' = [ectx EXCEPT ![e] = InitChaCha20(secret)]
    /\ IF h.type = 1
       THEN /\ Write(e, Hello(e, 2))
            /\ hsw' = [hsw EXCEPT ![e] = IF CanWrite(e) THEN 2 ELSE 0]
       ELSE UNCHANGED <<wire, hsw>>
    /\ inMap' = [inMap EXCEPT ![e] = @ \/ e = "srv"]
    /\ fin' = [fin EXCEPT ![e] = TRUE]
    /\ ReadsNext(e, "hello", {"head"})
    /\ UNCHANGED <<sock, closeSig>>

(* handleReadMsgHead: the size is known, the rest of the frame is read.    *)
OnReadHead(e) ==
    /\ Completes(e, "head")
    /\ ReadsNext(e, "head", {"body"})
    /\ UNCHANGED <<setup, appVars, sigVars, keyVars, netVars, sock, hsw, inMap, closing>>

(* close() has returned, at the client the application's call of it. *)
HasClosed(e) == IF e = "cli" THEN closing = "closed" ELSE closeSig[e]

(* handleReadMsg: decrypt, onTextMsg, startRead.                           *)
OnReadBody(e) ==
    /\ Completes(e, "body")
    /\ got' = [got EXCEPT ![e] = @ + 1]
    /\ delivered' = [delivered EXCEPT ![e] = Append(@, Decrypted(dctx[e], NextItem(e)))]
    /\ afterClose' = [afterClose EXCEPT ![e] = @ + (IF HasClosed(e) THEN 1 ELSE 0)]
    /\ dctx' = [dctx EXCEPT ![e] = Advance(@)]
    /\ ReadsNext(e, "body", {"head"})
    /\ UNCHANGED <<setup, sent, sigVars, id, peerKey, ectx, conn, pend, wire, sock,
                   hsw, inMap, closing>>

(* A read completes with an error: the three handlers log it and return.   *)
OnReadError(e) ==
    /\ \/ conn = "down"
       \/ sock[e] = "closed"
       \/ sock[Peer(e)] = "closed" /\ got[e] = Len(wire[e])
    /\ \E r \in rd[e] : ReadsNext(e, r, {})
    /\ UNCHANGED <<setup, appVars, sigVars, keyVars, netVars, hsw, inMap, closing>>
    /\ Returns(e)

(* sendTextMsg and writeMsg on the application thread.  The context moves  *)
(* on and true is returned whether or not the write can succeed.           *)
SendTextMsg(e, t) ==
    /\ Len(sent[e]) < MaxSend
    /\ inMap[e]
    /\ EarlySend \/ fin[e]
    /\ sent' = [sent EXCEPT ![e] = Append(@, t)]
    /\ Write(e, Frame(ectx[e], t))
    /\ ectx' = [ectx EXCEPT ![e] = Advance(@)]
    /\ UNCHANGED <<setup, delivered, afterClose, sigVars, id, peerKey, dctx,
                   conn, pend, got, opVars, inMap, closing>>

(* ChatClient::close on the application thread, without a lock.  First     *)
(* onClose erases the id.  (When the map held the last pointer, the next   *)
(* two statements run on a destroyed session: module ChatClient.)          *)
ClientClose ==
    /\ ClientCloses /\ inMap["cli"]
    /\ inMap' = [inMap EXCEPT !["cli"] = FALSE]
    /\ closing' = "erased"
    /\ UNCHANGED <<setup, appVars, sigVars, keyVars, netVars, opVars>>

(* Then onClose emits sigClose; the io thread still reads. *)
ClientSigClose ==
    /\ closing = "erased"
    /\ closeSig' = [closeSig EXCEPT !["cli"] = TRUE]
    /\ closing' = "signalled"
    /\ UNCHANGED <<setup, appVars, connected, fin, keyVars, netVars, opVars, inMap>>

(* Mutant: the socket stays open. *)
ForgetsSocket ==
    /\ closing = "signalled"
    /\ closing' = "closed"
    /\ UNCHANGED <<setup, appVars, sigVars, keyVars, netVars, opVars, inMap>>

(* Last, socket_.close().  A read the io thread has already been handed    *)
(* still runs its handler with success.                                    *)
ClientCloseSocket ==
    /\ closing = "signalled"
    /\ closing' = "closed"
    /\ sock' = [sock EXCEPT !["cli"] = "closed"]
    /\ late' = [late EXCEPT !["cli"] =
                  conn = "up" /\ rd["cli"] # {} /\ got["cli"] < Len(wire["cli"])]
    /\ UNCHANGED <<setup, appVars, sigVars, keyVars, netVars, rd, hsw, inMap>>

NetFail ==
    /\ NetworkFails /\ conn = "up"
    /\ conn' = "down"
    /\ UNCHANGED <<setup, appVars, sigVars, keyVars, pend, wire, got, opVars, inMap, closing>>

-----------------------------------------------------------------------------
(* What an io thread or the network does by itself. *)
Handler(e) ==
    \/ OnHelloWritten(e)
    \/ OnHandShakeUnknownPeer(e) \/ OnHandShakeBadSignature(e)
    \/ OnHandShakeNoSecret(e) \/ OnHandShake(e)
    \/ OnReadHead(e) \/ OnReadBody(e) \/ OnReadError(e)

System == \/ Establish \/ ConnectFails \/ OnConnect \/ OnAccept
          \/ \E e \in Side : Handler(e)

Application == \/ DoConnect
               \/ ClientClose \/ ClientSigClose \/ ClientCloseSocket
               \/ \E e \in Side, t \in Text : SendTextMsg(e, t)

Next == System \/ Application \/ NetFail

Spec == Init /\ [][Next]_vars

(* Each io_context has a thread that runs its handlers, and TCP delivers   *)
(* while the connection is up: every handler that stays ready is run.  The *)
(* application owes nothing.                                               *)
Fairness == /\ WF_vars(Establish) /\ WF_vars(ConnectFails)
            /\ WF_vars(OnConnect) /\ WF_vars(OnAccept)
            /\ \A e \in Side : WF_vars(Handler(e))

FairSpec == Spec /\ Fairness

-----------------------------------------------------------------------------
Item == [kind : {"hello"}, type : {1, 2}, static_key : Ident, signer : Ident,
         ephemeral_key : Side]
        \cup [kind : {"frame"}, key : SUBSET Side, pos : Nat, text : Text]
Context == [key : SUBSET Side, pos : Nat]

(* Every variable has its type. *)
TypeOK ==
    /\ setup \in Setups
    /\ conn \in {"idle", "connecting", "up", "down"}
    /\ pend \in SUBSET {"connect", "accept"}
    /\ sock \in [Side -> {"none", "open", "closed"}]
    /\ rd \in [Side -> SUBSET {"hello", "head", "body"}]
    /\ late \in [Side -> BOOLEAN]
    /\ hsw \in [Side -> {0, 1, 2}]
    /\ id \in [Side -> Ident \cup {NoKey}]
    /\ peerKey \in [Side -> Ident \cup {NoKey}]
    /\ ectx \in [Side -> Context] /\ dctx \in [Side -> Context]
    /\ wire \in [Side -> Seq(Item)]
    /\ got \in [Side -> Nat]
    /\ inMap \in [Side -> BOOLEAN]
    /\ connected \in BOOLEAN
    /\ fin \in [Side -> BOOLEAN]
    /\ closeSig \in [Side -> BOOLEAN]
    /\ closing \in {"no", "erased", "signalled", "closed"}
    /\ sent \in [Side -> Seq(Text)]
    /\ delivered \in [Side -> Seq(Text \cup {Garbled})]
    /\ afterClose \in [Side -> Nat]

(* A session that announced its handshake talks to the holder of the key   *)
(* it asked for: the client to the key given to doConnect, the server to a *)
(* key of its peer list; and id_ names that key.                           *)
Authenticated ==
    /\ fin["cli"] => /\ setup.priv["srv"] = setup.expect
                     /\ id["cli"] = setup.expect
    /\ fin["srv"] => /\ setup.priv["cli"] \in setup.peers
                     /\ id["srv"] = setup.priv["cli"]

(* Once both sides announced the handshake, each decrypts with the key the *)
(* other encrypts with.                                                    *)
SecretsAgree ==
    (fin["cli"] /\ fin["srv"]) =>
        \A e \in Side : ectx[e].key = dctx[Peer(e)].key /\ ectx[e].key # {}

(* The reader and the writer agree on what comes next on the stream: the   *)
(* session that reads a Hello is about to get one, and so for a frame; and *)
(* no session ever has two reads outstanding on its socket.                *)
FramingAgrees ==
    \A e \in Side :
        /\ Cardinality(rd[e]) <= 1
        /\ (rd[e] # {} /\ got[e] < Len(wire[e])) =>
              (NextItem(e).kind = "hello" <=> "hello" \in rd[e])

(* The keystreams of the two ends never drift apart: the frame a session   *)
(* is about to read was encrypted at the very position its own context is  *)
(* at.                                                                     *)
KeystreamsAligned ==
    \A e \in Side :
        (rd[e] \cap {"head", "body"} # {} /\ got[e] < Len(wire[e])) =>
            Decrypted(dctx[e], NextItem(e)) # Garbled

(* After socket_.close() at most one more text arrives, the one whose read *)
(* had completed by then; at the server none does.  Between sigClose,      *)
(* which ChatClient::close emits first, and socket_.close() any number may *)
(* arrive.                                                                 *)
AfterCloseBounded == afterClose["cli"] <= 1 /\ afterClose["srv"] = 0

(* The connection implements the text channel. *)
Channel == INSTANCE TextChannel WITH
    Side <- Side, Text <- Text, Peer <- Peer, sent <- sent, delivered <- delivered
ChannelSpec == Channel!Spec

(* Once onHandShake has announced a session, nothing undoes it: its id_,   *)
(* peer key and encryption key stay, no second Hello is ever processed,    *)
(* and no handler of the server closes it.                                 *)
FinishedIsStable ==
    [][\A e \in Side : fin[e] =>
          /\ fin'[e] /\ id'[e] = id[e] /\ peerKey'[e] = peerKey[e]
          /\ ectx'[e].key = ectx[e].key
          /\ e = "srv" => ~closeSig'[e]]_vars

-----------------------------------------------------------------------------
(* The parts of the inductive invariant.                                   *)

(* Who is who: the client expects one key, the server has picked one of    *)
(* its list, and an announced session has verified the other end's.        *)
PeerKeyInv ==
    /\ peerKey["cli"] \in {NoKey, setup.expect}
    /\ peerKey["srv"] \in setup.peers \cup {NoKey}
    /\ \A e \in Side :
          /\ id[e] = peerKey[e]
          /\ fin[e] => peerKey[e] # NoKey /\ peerKey[e] = setup.priv[Peer(e)]

(* Every Hello on the stream is signed by the end it comes from.           *)
SignerInv ==
    \A e \in Side : \A i \in 1..Len(wire[e]) :
        wire[e][i].kind = "hello" => wire[e][i].signer = setup.priv[Peer(e)]

(* Where each end is in the handshake: at most one of its handlers can     *)
(* come next, it has read nothing before it reads the Hello, and the       *)
(* client reads no Hello before its own is on the way.                     *)
PhaseInv ==
    /\ conn \in {"idle", "connecting"} =>
          pend = {} /\ \A e \in Side : wire[e] = <<>> /\ rd[e] = {} /\ hsw[e] = 0 /\ ~fin[e]
    /\ "accept" \in pend => rd["srv"] = {} /\ got["srv"] = 0 /\ ~fin["srv"]
    /\ "connect" \in pend => wire["srv"] = <<>> /\ hsw["cli"] = 0 /\ rd["cli"] = {}
                               /\ got["cli"] = 0 /\ ~fin["cli"]
    /\ hsw["cli"] \in {0, 1} /\ hsw["srv"] \in {0, 2}
    /\ hsw["cli"] = 1 => rd["cli"] = {} /\ got["cli"] = 0 /\ ~fin["cli"]
    /\ hsw["cli"] = 1 \/ rd["cli"] # {} \/ fin["cli"] => wire["srv"] # <<>> /\ connected
    /\ \A e \in Side :
          /\ rd[e] \in {{}, {"hello"}, {"head"}, {"body"}}
          /\ rd[e] = {"hello"} => got[e] = 0 /\ ~fin[e]
          /\ rd[e] \in {{"head"}, {"body"}} => fin[e]

(* What the stream towards e holds: the Hello of the other end, then one   *)
(* frame for each text it sent, encrypted at successive positions; all of  *)
(* them, as long as the other end can write.                               *)
Expected(e, i) ==
    IF i = 1 THEN [kind |-> "hello", type |-> IF e = "srv" THEN 1 ELSE 2,
                   static_key |-> setup.pub[Peer(e)], signer |-> setup.priv[Peer(e)],
                   ephemeral_key |-> Peer(e)]
    ELSE [kind |-> "frame", key |-> Side, pos |-> i - 2, text |-> sent[Peer(e)][i - 1]]

StreamTo(e) ==
    /\ Len(wire[e]) <= Len(sent[Peer(e)]) + 1
    /\ \A i \in 1..Len(wire[e]) : wire[e][i] = Expected(e, i)
    /\ fin[Peer(e)] => /\ ectx[Peer(e)] = [key |-> Side, pos |-> Len(sent[Peer(e)])]
                       /\ CanWrite(Peer(e)) => Len(wire[e]) = Len(sent[Peer(e)]) + 1
    /\ ~fin[Peer(e)] => /\ sent[Peer(e)] = <<>>
                        /\ e = "cli" => wire[e] = <<>>

StreamInv == \A e \in Side : StreamTo(e)

(* What e has made of it: it delivered what it has read.                   *)
DeliveredTo(e) ==
    /\ got[e] <= Len(wire[e])
    /\ ~fin[e] => delivered[e] = <<>>
    /\ fin[e] => /\ got[e] >= 1 /\ Len(delivered[e]) = got[e] - 1
                 /\ dctx[e] = [key |-> Side, pos |-> got[e] - 1]
                 /\ \A i \in 1..Len(delivered[e]) : delivered[e][i] = sent[Peer(e)][i]

DeliveredInv == \A e \in Side : DeliveredTo(e)

IInv == PhaseInv /\ StreamInv /\ DeliveredInv

-----------------------------------------------------------------------------
(* The chacha20 contexts are used only after setkey and starts, as         *)
(* chacha20.h asks.                                                        *)
ContextReadyBeforeUse ==
    \A e \in Side : \A i \in 1..Len(wire[e]) :
        wire[e][i].kind = "frame" => wire[e][i].key # {}

(* chacha20.h: never the same nonce twice with the same key.  A position   *)
(* of a keystream then masks one frame, in one direction.                  *)
NonceUsedOnce ==
    \A i \in 1..Len(wire["cli"]) : \A j \in 1..Len(wire["srv"]) :
        LET f == wire["cli"][i]
            g == wire["srv"][j] IN
        f.kind = "frame" /\ g.kind = "frame" => <<f.key, f.pos>> # <<g.key, g.pos>>

Compatible ==
    /\ setup.expect # NoKey /\ setup.expect = setup.priv["srv"]
    /\ \A e \in Side : setup.pub[e] = setup.priv[e]
    /\ setup.pub["cli"] \in setup.peers
    /\ setup.weak = {}

(* The network or the application ended it: no refusal by a session. *)
Cut == conn = "down" \/ closing # "no"

(* Two sides whose keys match complete the handshake, unless the           *)
(* connection is cut.                                                      *)
HandshakeCompletes ==
    (conn = "connecting" /\ Compatible) ~> (Cut \/ (fin["cli"] /\ fin["srv"]))

(* A text accepted after the handshake reaches the other application,      *)
(* unless the connection is cut.  The keys have to match: an end that      *)
(* finds no secret neither reads on nor closes (OnHandShakeNoSecret).      *)
TextsArrive ==
    \A e \in Side : \A n \in 1..MaxSend :
        (Compatible /\ Len(sent[e]) >= n) ~> (Cut \/ Len(delivered[Peer(e)]) >= n)
=============================================================================
