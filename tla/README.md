# enchat: TLA+ models and proofs

enchat is a C++20 library for encrypted chat between two peers: Qt objects on
top, asio sockets and threads below, Ed25519 signatures and X25519 key exchange
for a handshake, and ChaCha20 for the texts. This directory holds TLA+ modules
that model its components, TLC configurations that check them on small
instances, and TLAPS proofs for every value of the constants.

    tlc -workers 2 -config Session.cfg MCChatSession    # any row of "Runs"
    tlapm ChatSessionProofs.tla                         # any *Proofs module

`PROJECT.json` lists components, runs, mutants, hazards and theorems, and maps
every definition to the lines it models.

## 1. The system

### Components

| component | state | operations | model |
|---|---|---|---|
| `ChatSession<CLIENT>` (`chatsession.h`) | socket, `id_`, static and ephemeral keys, `peer_static_pubkey_`, `chacha_ectx_`, `chacha_dctx_` | `sendHandshake`, `receiveHandshake`, `onHandShake`, `startRead`, `handleReadMsgHead`, `handleReadMsg`, `writeMsg`, `close` | `ChatSession`; the bytes of a frame: `Framing` |
| `ChatClient` (`chatclient.*`) | `sess_map_` (no mutex), one io context and its thread | `doConnect`, `sendTextMsg`, `close`, destructor, callbacks `onConnected`, `onHandShakeFinished`, `onTextMsg`, `onClose` | `ChatClient` |
| `ChatServer` (`chatserver.*`) | `sess_map_`, `peer_list_`, `mutex_sessmap_`, key pair, acceptor, io contexts, `next_io_` | `doAccept`, `sendTextMsg`, `updatePeerList`, `setEcKey`, destructor, the same callbacks and `containsPeerPubkey` | `ChatServer` |
| `Peer` (`Peer.h`) | name, key, address | JSON conversion | its key only |
| ChaCha20 (`crypto/chacha20.*`) | key, nonce, counter, one block of leftover keystream | `setkey`, `starts`, `update`, `init`, `free` | `ChaCha20` |
| ChaCha20-Poly1305 (`crypto/chachapoly.*`) | the two contexts, lengths, state, mode | `setkey`, `starts`, `update_aad`, `update`, `finish`, `encrypt_and_tag`, `auth_decrypt` | `ChaChaPoly` |
| Poly1305 (`crypto/poly1305.*`) | accumulator, queue of a partial block | `starts`, `update`, `finish` | `Poly1305`; its words: `Poly1305Limbs` |
| Ed25519 (`curve25519/orlp`) | none between calls | `ed25519_create_keypair`, `_sign`, `_verify`, `_add_scalar`, `_key_exchange` | `Ed25519`, `Ge`, `Fe`; limbs: `FeLimbs`, `ScalarLimbs` |
| SHA-512 (`orlp/sha512.c`) | buffer, length, state | `sha512_init`, `_update`, `_final` | `Sha512` |
| X25519 (`curve25519/boringssl`) | none between calls | `X25519_keypair`, `X25519` | `X25519`, `Fe` |
| everything else | | see `components` in `PROJECT.json` | not modelled |

### How they interact

`ChatClient::doConnect` makes a session, puts it into the client's map under the
peer's public key, and connects. When the connection is up the client's io
thread sends a Hello of type 1: a static key, an ephemeral key and a signature
over both. The server's session, made by `doAccept`, reads it, asks
`ChatServer::containsPeerPubkey`, verifies the signature, derives the secret,
answers with a Hello of type 2 and calls `ChatServer::onHandShakeFinished`,
which enters it into the server's map. The client's session verifies the answer
under the key `doConnect` was given. From then on `sendTextMsg` of either owner
looks the session up and calls `writeMsg`, which encrypts in the caller's
thread; at the other end three handlers in turn read the size, the body, and
decrypt. `ChatSession::close` calls the owner's `onClose`, which erases the
session's id from the map and emits `sigClose`, and then closes the socket: at
the server under the mutex up to the signal, at the client with no lock at all,
on either of two threads.

### What is hard about it

* Three kinds of threads (application, acceptor, io) share maps, one of them
  guarded only in part and the other not at all.
* A chain of completion handlers decides which read comes next. One handler too
  many or too few and the stream is out of frame, with no check to notice.
* Two independent cipher contexts at the two ends must stay in step, with no
  sequence number in the frame.
* Failures mostly log and return. The map entry, the socket or the acceptor
  stays as it was. There is no timer: a peer that stays silent is read for ever.
* The streaming code of the ciphers and of SHA-512 meets block boundaries that
  depend on the sizes of all calls so far.
* Sizes are cut to 16 bits, texts are copied into buffers of 4096 bytes and read
  up to a NUL.
* The curve code keeps numbers in limbs that overlap and are carried late, and
  recodes scalars with carries that must not be lost at the top.

`PROJECT.json` lists these as `hazards`, each at its line, with the properties
that watch it.

### What makes each component correct

* Session: an announced session talks to the holder of the expected key; texts
  arrive unchanged, in order, at most once; matching peers do get connected.
* Client and server: the map holds only sessions that belong to the id, a text
  goes to the peer it is for, the signals the application sees agree with the
  map (as far as the code makes them), calls and destructors return.
* Framing: frames keep apart whatever the sizes, and nobody reads past a buffer.
* Ciphers: the way a message is cut into calls does not matter; no keystream
  byte is used twice in a stream; only what was sealed opens.
* Curve code: a key pair stays one, a signature is accepted exactly when it
  solves the equation, both sides derive one secret; limbs are the number they
  stand for.

## 2. Modules

    TextChannel   <--implements-- ChatSession <-- MCChatSession, ChatSessionProofs
    PeerDirectory <--implements-- ChatServer <-- ChatServerProofs
    PeerDirectory <--implements-- ChatClient <-- ChatClientProofs
    Framing <-- MCFraming, FramingProofs
    ChaCha20 <-- MCChaCha20, ChaCha20Proofs
    Poly1305 <-- ChaChaPoly <-- MCChaChaPoly, ChaChaPolyProofs
    Fe <-- Ge <-- X25519 <-- Ed25519 <-- HelloCrypto <-- MCHelloCrypto,
                                                   HelloCryptoProofs
    MixedRadix <-- FeLimbs, ScalarLimbs
    FeLimbs, ScalarLimbs, Poly1305Limbs, Sha512 <-- Arithmetic <-- MCArithmetic,
                                                                   ArithmeticProofs

The modules are layers of abstraction over the same session. `ChatSession` has
every handler of one connection and reduces a map to "this session is in it".
`ChatServer` and `ChatClient` have the maps and the threads and reduce a session
to the calls it makes. `ChatSession` counts frames on a cipher context; what
one frame does to the bytes of the keystream is `ChaCha20`; why a frame may be
counted as one item is `Framing`. `ChatSession` takes a signature for the pair
that made it; `HelloCrypto` computes both Hellos on a small curve. `Ge` takes a
field element for a residue, a scalar for a number and SHA-512 for a function;
`Arithmetic` shows that the limbs and buffers of the C code are these.

**TextChannel** is the abstract specification: texts handed over at one end and
texts delivered at the other, in order, unchanged, at most once. It says
nothing of handshakes. `ChannelSpec` in `ChatSession` is its instance; `sent`
and `delivered` are the mapping.

**PeerDirectory** is what both owners promise of `sess_map_` and `sendTextMsg`:
an id leads to at most one session, a session is entered only under an id it is
entitled to and only where there is no entry, an entry stays until it is
removed, and a text goes to a session the id led to when the call began or when
it ended. `DirectorySpec` in `ChatServer` and in `ChatClient` is its instance.
It also states the one consequence that both inherit, and the invariant it needs.

**ChatSession** is both ends of one connection. Correspondence:

| model | code |
|---|---|
| `DoConnect`, `Establish`, `ConnectFails`, `OnConnect` | `ChatClient::connect` and the network's answer to it; `OnConnect` has a second outcome, an error when the socket was closed meanwhile |
| `OnAccept` | the handler in `ChatServer::doAccept` |
| `OnHelloWritten` | the completion handler in `sendHandshake`, which waits for the response after a request only |
| `OnHandShakeUnknownPeer`, `...BadSignature`, `...NoSecret`, `OnHandShake` | the four ways through `onHandShake` |
| `OnReadHead`, `OnReadBody`, `OnReadError` | `handleReadMsgHead`, `handleReadMsg`, and the error branch they share |
| `SendTextMsg` | `sendTextMsg` and `writeMsg` |
| `ClientClose`, `ClientSigClose`, `ClientCloseSocket` | `ChatClient::close` on the application thread: erase, emit `sigClose`, `socket_.close()`; the io thread runs in between |
| `Close` | `ChatSession::close` called by `onHandShake`, on the io thread itself: one step, as no other handler of that session runs meanwhile and nobody could send yet |
| `Returns` | the end of a handler that held the last pointer: `~ChatSession` closes the socket |
| `wire`, `got` | the TCP stream in each direction and how far it has been read |
| `rd` | the outstanding reads: what the next bytes will be taken for |
| `late` | a read already completed when the socket was closed; its handler still runs with success |

A key pair is one value, a signature is the pair that made it, a shared secret
is the set of the two ephemeral pairs. A cipher context is the secret and the
number of frames it has run over. The constant `Setups` chooses configurations:
which private key each end really has, what `doConnect` expects, the peer list,
and whose ephemeral key X25519 refuses.

**ChatServer** cuts a handler where it takes or releases the mutex. `io[c]` is
the program counter of the thread of io context `c`; `ui` that of the
application. A client connects (`Connect`), and its Hello arrives at any time
after that or never (`SendHello`). The acceptor's handler is two actions: the
constructor of the session copies the private key and then the public one
(`OnAccept`, `EndAccept`), and `setEcKey` (`SetPriKey`, `SetPubKey`), which the
application may call at any time and as often as it likes, may come between
them. `overlap` remembers of which sessions that is true. `sendTextMsg` searches the map without the mutex, so
the search is two steps (`BeginFind`, `EndFind`) and may see the map of either.
`nextIo` follows `getIocontext` to the letter: index, then compare, and never
increment. `Size`, the number of contexts, may be 0, which
`hardware_concurrency` is allowed to return: then the constructor's own
`doAccept` indexes out of range, and nothing after that is modelled.

**ChatClient** cuts every access to the map in two in the same way, and closing
a session in three: `OnClose`, `EmitClose`, `CloseSocket` on the io thread,
`Visit`, `VisitEmit`, `VisitSocket` on the application's. `doConnect` or a handler
may run between any two. `crossed` remembers the ids that `doConnect` entered
between an erase and its `sigClose`. When the map held the last pointer, the
erase of `Visit` destroys the session whose `id_` and `socket_` the next two
steps use (`Dangling`), and that may crash. The loop in
`ChatClient::close` calls `onClose`, which erases the node the loop stands on;
incrementing that iterator is undefined, so the loop may go on at any entry,
reach the end, or crash (`AdvanceToEntry`, `AdvanceToEnd`, `Crash`). The same
holds when the io thread has erased the node first.

**Framing** is one direction of an open session in bytes. `SendTextMsg` is
`sendTextMsg` and `writeMsg`: the size cut to a `uint16_t`, the copy into the
buffer, the encryption, an `async_write` that does not wait for the one before.
A write hands over at most `MaxIo` bytes at a time; the reader takes bytes as
they come and runs `handleReadMsgHead` and `handleReadMsg` when it has what it
asked for. A byte on the wire carries the place in the keystream it was
encrypted with, so that decrypting it at another place is visible. `sent`
remembers of each text the keystream used before it; `OnlyTextsTo(i)` says that no
frame of another protocol is among the first `i`.

**ChaCha20** is a context with the loops of `update` as steps. A keystream
block is the triple it is made from. `SetKey` leaves the leftover bytes alone
and `Free` zeroizes `keystream_bytes_used`, as the code does; `update` is called
on a stream that was started.

**Poly1305** has operators only: the accumulator is the sequence of blocks put
into it. **ChaChaPoly** is the context on top of it with all of its calls; a
byte is a name and the set of keystream bytes it is masked with, so masking
twice gives the byte back. `AuthDecrypt` is given messages as they were sealed,
and altered ones: a byte changed, lost or added, or moved across the boundary
between additional data and ciphertext. `Finish` also runs on a finished
context, where the code returns 0 and another tag (section 5); `again` counts
that, and `sealed` records every tag returned with 0.

**Fe**, **Ge**, **X25519**, **Ed25519** are the curve code as operators: the
formulas in extended coordinates, the tables, the signed digits of
`ge_scalarmult_base`, the sliding windows of `ge_double_scalarmult_vartime`,
decompression with the square root, both addition chains, the ladder. The curve
is given by constants. Tables are computed from the base point, which is what
`precomp_data.h` says they are. SHA-512 is a constant operator. A 32-byte
encoding is a number `y` and a sign, `y` not necessarily below the prime.

**HelloCrypto** drives them as the handshake does: static key pairs, possibly
moved by `ed25519_add_scalar`, a session at each end with an ephemeral pair,
`sendHandshake`, `onHandShake`, and Hellos made of arbitrary bytes
(`StrangeHello`). `ed25519_key_exchange`, which enchat does not call, is an
action too. The reference its properties use is the affine group law and
nothing else.

**FeLimbs** (`fe.c`), **ScalarLimbs** (`sc.c`), **Poly1305Limbs**
(`poly1305_process`, `poly1305_compute_mac`) and **Sha512** (`sha512.c`) have the
limbs, carries and buffers with their number and widths as constants: every
carry in the order of the code, every fold, the final subtraction, the padding.
**MixedRadix** says what limbs stand for.
**Arithmetic** is a behaviour over one of the four, beside the number or message
it stands for.

Operators introduced as "Mutant" are plausible bugs of the definition that
follows. No specification uses them. `PROJECT.json` pairs each with the
property that notices it.

## 3. Runs

Each property below holds in its run unless the run says "violated".

| run | configuration | states | shows |
|---|---|---|---|
| `session` | `Session.cfg` | 199k | all 144 configurations of two key pairs, up to 2 texts of 2 kinds per side, connection breaks, client closes: authentication, aligned keystreams, what may still be delivered after a close, `TextChannel`; under fairness matching peers complete the handshake and accepted texts arrive, unless the network fails or the application closes: a refusal by a session is no excuse |
| `session_early`, `session_nonce` | `SessionEarly.cfg`, `SessionNonce.cfg` | | violated, section 5 |
| `server` | `Server.cfg` | 454k | 2 sessions, 2 peers, 2 io contexts, Hellos that come late or never, `setEcKey`, `updatePeerList` and shutdown at any moment: `PeerDirectory`, signals, context index, key pairs; under fairness clients whose Hello has arrived are dealt with and the destructor returns |
| `server_race`, `server_evict` | `ServerRace.cfg`, `ServerEvict.cfg` | | violated, section 5 |
| `client` | `Client.cfg` | 93k | 2 sessions, 2 peers: `PeerDirectory` on two threads and through the loop of `close`, signals and their two gaps, open sessions stay reachable; under fairness connects and calls end |
| `framing` | `Framing.cfg` | 237k | texts of every length around the buffer and the 16 bits, with and without a NUL, two protocols, writes that overlap: frames keep apart, nobody reads out of bounds, a skipped frame shifts the rest by its length and no more; what is written arrives |
| `chacha20` | `ChaCha.cfg` | 0.8k | blocks of 3 bytes, a counter that wraps at 3, 13 bytes in updates of any size: keystream in order and used once |
| `aead` | `Aead.cfg` | 38k | blocks of 2 bytes, pieces of 0 to 3 bytes, a finished context finished again: what is authenticated is the padded layout whatever the pieces, the tag of a second `finish` is that of another layout, and only sealed messages with their first tag open |
| `hello_crypto` | `HelloCrypto.cfg` | 30k | a curve of 20 points: key pairs stay pairs, verification is the equation for 30 strange signatures under each of five kinds of key, both sides derive the product of the private keys |
| `arithmetic` | `Arithmetic.cfg` | 66k | chains of 4 field operations, 400 hashes and 1000 products of scalars with those at the order, 3 blocks of Poly1305 with the accumulator at the prime, 26 bytes hashed in pieces |

What a property leaves out, and why:

* `AfterCloseBounded` counts from the return of `close()`, that is from
  `socket_.close()`. Between `sigClose` and that the io thread may deliver any
  number of texts, so the code bounds nothing there.
* `HandshakeCompletes` and `TextsArrive` excuse a broken network and the
  application's `close` only, and ask that each end has both halves of one key
  pair: `ed25519_sign` hashes the public key it is given, so a Hello whose key
  is not the half of the key that signed it verifies nowhere.
* `KeysBelongTogether` exempts the sessions under construction while `setEcKey`
  ran. Those may hold the private key of one call and the public key of another:
  nothing synchronises the acceptor with `setEcKey`. With `overlap` taken out of
  the property TLC finds it violated by `SetPriKey`, `Connect`, `OnAccept`,
  `EndAccept`: a client accepted between the two assignments of `setEcKey`.
* `ClientIsHandled` is about clients whose Hello has arrived. A silent client is
  in the model and is read for ever. A server under destruction is exempted, and
  so are the clients in the queue when an `async_accept` has failed: the code
  does not accept again.
* `SignalsMatchMap` of the server holds because one context runs all handlers.
  That of the client names two gaps: an id erased whose `sigClose` is still to
  come, and an id that `doConnect` entered there (`crossed`): it is in the map and
  the last signal says closed. A `close` that crashes sends no signal.
* `OpenIsReachable` exempts a peer with two sessions, of which `insert` keeps the
  dead one; `DirectorySpec` has the kept entry as part of what is promised.
* `ConnectEnds` counts a session whose handler logged an error as over, and
  `CallsReturn` a crash as an end. Neither says that the application is told.
* The properties of `Framing` are of the states before a text has overrun its
  buffer, with texts cut at their first NUL; `UsedOnce` is of distances below the
  wrap of the counter; `OneSecret` of keys that `ed25519_add_scalar` has not moved.

### Bounds

* `MaxSend = 2` texts per side. Frames differ only in their position, which two
  tell apart. The proofs have no such bound.
* Two identities: one can be expected, listed or held while the other is
  presented. The signatures of a connection involve one key per side.
* Two sessions in `ChatServer` and `ChatClient`: enough for a reconnect (two
  sessions, one id), for two peers, and for one session's failure to meet the
  other's entry. Two io contexts are enough for two handlers to run at once, if
  the code used the second.
* `Framing`: a byte has 4 values, so that a size wraps at 16, and a buffer has 8
  bytes, so that there are texts that fit, that fill it, that overrun it and
  that are cut. Only ratios matter: `BufSize <= Wrap`, `MaxIo >= BufSize`.
* `HelloCrypto`: 13 is 5 modulo 8 as 2^255 - 19 is, so the square root is taken
  the same way; its exponents come out as they should modulo 12. -1 is a square
  and `D` is none, so the formulas are complete. The group is of order 4 * 5:
  keys of order 1, 2, 5 and 20 occur, and one that is no point. Scalars have 16
  bits: four digits of
  four bits, of which the highest bits are set and cleared as in 256.
* `Arithmetic`: four limbs of 7 and 6 bits have an odd and an even limb at both
  ends, and sums that meet the prime; 2^26 - 5 keeps numbers within TLC's 32 bits;
  `FieldIsRight` is about ten limbs of the code's widths. The order is 2^24 + 883 in
  limbs below 4 with signed `Top`, as the order of B is in limbs below 2^21;
  `ScalarsAreReduced` is about limbs of the code's width.
  Poly1305 has words of 7 bits (`Word = 128`), the largest for which four of them
  and two bits fit; `TagsAreRight` has no such bound. The widths are small, so a carry is large in proportion: what holds here holds
  with less slack than in the code. What the instance cannot show, how large
  ten limbs and the sums of their products get, is in the proofs.
* `PeerLists` has one list beside the empty one the server starts with, and
  `MaxSet = 1`: keys not set, half set and set. The proofs have no such bounds.
* `Size = 1` in the violated server runs keeps counterexamples short.
* `ChaCha20`: a block of 3 has a first, an inner and a last offset; 13 bytes
  are four blocks and one byte, so the counter wraps and the stream goes on.
* `ChaChaPoly`: a block of 2 has one partial fill; 3 bytes make a queue of one,
  a fill and a rest. One sealed message (`MaxSealed`) and two keys, so that it
  also meets the wrong key. `MaxAgain = 1`: `finish` is repeated once after the
  first, and once more in `TypeOK`'s bound; the proofs bound neither.
* `CHECK_DEADLOCK FALSE`: a connection that is closed, a server that was
  destroyed and a client that has crashed have nothing left to do; neither do two
  sides that have both keys, a hash that is final, or a run at its bound of
  texts or operations. `ChaCha.cfg` checks deadlock.

### Fairness, and why the code justifies it

* Session: weak fairness of each end's handlers and of the network steps. Each
  io context has a thread in `run()` and a work guard, so a completed operation
  has its handler run; TCP delivers while the connection is up. Nothing is
  assumed of the application, of `NetFail` or of the steps of a close.
* Server: strong fairness of each io thread, because the application's
  `updatePeerList` may take the mutex again and again; a waiting thread gets
  `std::mutex` in the end. Weak fairness of accepting and of the application's
  current call. Nothing is assumed of the arrival of clients and of their Hellos,
  or of errors.
* Client: weak fairness of the calls in progress and of the io thread's current
  handler. A connect succeeds, is refused or times out in the operating system;
  a read on a socket the client has closed fails. Nothing makes a peer answer a
  Hello: the code has no timer, so a silent peer leaves the session waiting, and
  `ConnectEnds` does not claim otherwise. Strong fairness of a ready handler,
  which the io thread interleaves with others.
* Framing: weak fairness of the reader and of the outstanding writes: the socket
  stays open in this module, and both io contexts run.
* The ciphers, `HelloCrypto` and `Arithmetic` state none: their properties are
  safety properties.

## 4. Proofs

`tlapm` checks 30,721 obligations in eight modules. All are for every value of
the constants, under the assumptions that the modules of the model state by
name and TLC evaluates on every run. Nothing else is assumed, but where a
theorem has a hypothesis it is named below.

**ChatSessionProofs** (1593 obligations)
* `TypeCorrect`: `Spec => []TypeOK`.
* `HandshakeAuthenticates`: `Spec => []Authenticated`, from `TypeOK`,
  `PeerKeyInv` (the peer key in use is the expected one or one of the list, and
  belongs to the real signer once the handshake is announced) and `SignerInv`
  (a Hello on the stream was signed by the end it comes from). There is no
  assumption on `EarlySend`: it also holds for applications that send before
  the handshake.
* `InvariantHolds`: `IInv` is inductive when the client application waits for
  `sigHandshakeFinished` (`~EarlySend`). The properties are not inductive by
  themselves: that a session reads what its peer wrote next depends on where
  both handshakes are. `PhaseInv` says which handler can come next at each
  end; `StreamInv` says what the whole stream is, one Hello and then the frames
  of `sent` at successive positions; `DeliveredInv` says the reader is at `got`
  and has delivered that many. One lemma per part, one step per action.
* `StreamsInStep`: `SecretsAgree`, `FramingAgrees`, `KeystreamsAligned`.
* `ImplementsTextChannel`: `Spec => ChannelSpec`. Initial states map to initial
  states; `SendTextMsg` maps to `Send`, `OnReadBody` to `Deliver`, every other
  action to a stutter.
* `CloseIsFinal`, `FinishedStays`: `AfterCloseBounded` and `FinishedIsStable`,
  with no assumption on `EarlySend`. The first needs `CloseInv`: which handlers
  a session can still have once `close()` has returned, and that a read which had
  completed by then is one.

**ChatServerProofs** (747)
* `InvariantHolds`: `TypeOK` and `IInv`. What the threads may do to each other's
  handlers hangs on `OneThread`: `next_io_` is only ever reset, so every socket
  belongs to context 0 and one thread runs all handlers. `HandlerInv` says that
  a handler at or inside the mutex is about a session that does nothing else,
  and that one on its way to announce has its peer's proof; `CallInv` and
  `SignalInv` relate the calls of the application and the signals to the map.
* `ContextStaysInRange`: `Spec => (Size # 0 <=> []ContextInRange)`, so the index
  stays in range for every number of contexts but 0, and with 0 it does not.
* `SignalsFollowMap`: `SignalsMatchMap`.
* `KeysTogether`: `KeysBelongTogether`, with no hypothesis about when clients come
  or `setEcKey` is called. `KeysInv` says what half of a pair the session under
  construction has, and that the keys are whole while no call is under way.
* `ImplementsDirectory`: `Spec => DirectorySpec`, although `sendTextMsg` searches
  without the mutex: the session found was in the map at one end of the search.
* `CarriesWhatItMay`: in the directory that the server is, no session is given a
  text for an id it is not entitled to; `Titled` is the directory's invariant.
* `TextsReachProven`: a text for `k` is only written to a session whose Hello
  carries `k`, verifies, and whose key has been in the peer list: it is
  `CarriesWhatItMay`, through the refinement.

**ChatClientProofs** (905)
* `InvariantHolds`: `TypeOK` and `IInv`: what each thread may rely on while the
  other runs. `KeyInv`: a session gets its key before it is inserted and keeps
  it; `MapInv`: an entry is under the key of its session; `CallInv`: what the call
  and the handler under way are about.
* `SignalsFollowMap`: `SignalsMatchMap`, with erase and `sigClose` as separate steps
  of either thread. `SignalInv` adds that only the io thread's pending `sigClose` can
  be about an id in the map, and that `crossed` is then set: the application's
  own thread does not insert while it closes.
* `OpenStaysReachable`: `OpenIsReachable`,
  from `ReachInv`, which says it of every session that is not closed; of open
  ones alone it is not inductive.
* `ImplementsDirectory`: `Spec => DirectorySpec`, also where `close` goes on from
  an erased node. `CarriesWhatItMay` as for the server, and from it
  `TextsReachNamed`: a text for `k` is only written to a session that `doConnect`
  made for `k`.

**FramingProofs** (1664)
* `InvariantHolds`: `IInv`. Until a text overruns its buffer no write waits for
  another, and the bytes received of the present frame and those on the wire
  are the frames not yet handed over, whole and in order (`Stream`), each
  encrypted where the frame before ended (`PlaceInv`); the frames taken before
  were handed over if they are texts, exactly up to the first one of another
  protocol (`Taken`). After an overrun only the types are left; `FramesKeptApart` and the rest are stated of
  the states before. Induction over the frames sent is by `WFMin`.
* `FramesStayApart`, `DriftStaysSkipped`, `ReaderStaysInBounds`, `OverReadIsRare`:
  the four invariants of the run, for every `Base`, `BufSize`, `MaxIo` and set of
  texts that `FramingAssumption` admits.

**ChaCha20Proofs** (410)
* `TypeCorrect`: `Spec => []TypeOK`, so `keystream8` is never indexed past its end.
* `PositionKept`, `PiecewiseIsOneStream`: `IInv` relates bytes used, counter and
  buffer: after `n` blocks the counter has advanced by `n` and the unused bytes
  of the last one are those in the buffer. `StreamInOrder` is a conjunct.
* `KeystreamUsedOnce`: `UsedOnce`, for distances below `B * M` bytes (2^38 in
  the code), by the lemma `KeystreamIsFresh` on quotients and remainders.

**ChaChaPolyProofs** (2793)
* `InvariantHolds`: `IInv`. `StreamInv`: the Poly1305 context is the one that the
  bytes given since `starts` determine, as full blocks and a rest below one;
  `MaskInv`: what encryption wrote is what it was given, masked from the second
  block of keystream on; `SealedInv`: every tag given out is that of
  the layout of its message, with the lengths repeated as often as `finish` was;
  `AgainInv` is what makes the next repetition inductive: a finished context still
  holds its last tag and the lengths that the next one adds (`OneMoreTag`). The
  other lemmas are about queues and padding: cutting a stream in two and
  putting the parts in one after the other gives the same blocks.
* `TypeCorrect`, `LayoutIsStreamed`, `TagsOfLayouts`: `TypeOK`,
  `StreamsTheLayout`, `TagOfLayout`.
* `OnlySealedOpens`: `OpensOnlySealed`, by the lemma that two messages with the
  same layout are the same: the lengths at the end tell where the padding is. The
  tag of a repeated `finish` is that of no message: its last block would name the
  lengths, so the layout would have to be longer than it is
  (`ReferenceTellsApart`).
  Tags are equal here when the blocks and the key are: a collision of Poly1305
  is not in the model.

**ArithmeticProofs** (11,356)
* `PadsOnce`: `PaddedOnce` for every block size, size of the length field and
  way to cut the message. `HashInv` says what `Holds` in a context that is not
  final (the blocks and the buffer are the message, the buffer is not full) and
  what a final one is.
* `TagsAreRight`: `TagMatches` for every `Word` that is a multiple of 16 and at
  least 128, so for 2^32, every key and all blocks. `MacInv` bounds the fifth
  word by 4 after a block; within one it is at most 6 after `acc += block`
  (`AddBlockIs`) and below `Word` after `acc *= r` (`TimesRIs`), where the clamped
  bits of `r` keep each sum of five products below `Word * Word`: `Wide` and `Lo`,
  the casts of the code, never cut anything but where they are meant to.
  `RippledIs` says what one run of carries is worth; `ProductFolds` is the
  identity behind the five quarters of `r`; `ComputeMacIs` says that acc + 5
  reaches 2^130 just when acc is not below the prime.
* `ScalarsAreReduced`: `ScalarsReduced` of `sc_reduce` and `sc_muladd` under
  `ScalarsFit`, which names the code's widths: limbs below a radix above
  132 * 15 * 256 (the code has 2^21), a hash whose top limb is up to 256 times the
  radix (29 bits), scalars whose top limb is up to 16 times it (25 bits). The order
  is any number the form `Radix^12 - TopNumber` admits with signed limbs of at most
  half the radix (`ScalarLimbsAssumption`; TLC evaluates it, and 666643 ... -683901
  satisfy it). The instance TLC runs has a smaller radix, where the property holds
  as well although the bounds below are not met; the theorem does not speak of it.
  The argument: `FoldDownIs` and `CarryByIs` say what one step does to the number,
  `DownRunIs`, `NearestRunIs` and `FoldRunIs` what a pass of them does. A pass of
  carries bounds the limbs it has passed by half the radix, and the next one by
  what it was plus what can be carried out (`PassedBounds`); so folding 24 limbs to
  18 and to 12 never makes a limb larger than the square of the radix times a
  constant (`FoldPass`, `Fits`). Once the limb above the
  twelfth is folded in, what is left lies strictly between minus and plus the
  twelfth power of the radix (`NearlyIs`); a pass of carries downwards leaves 0 or
  -1 above the twelfth limb, and the second fold turns that into the
  representative that is not negative (`LeftOverIs`). `ScMulAddIs`
  puts `ProductIs` in front: the sums of products of limbs are worth the product.

* `FieldIsRight`: `FieldMatches` under `FieldFits`: ten limbs, a width that the
  constants of the carries are small against, and loads that overlap a limb by at
  most seven bits. The code's values (2^25, 19, 121666, loads at bits 0, 32, 56, ...,
  232) satisfy it and `FeLimbsAssumption`; the four limbs TLC runs are narrower, and
  there only TLC speaks. Numbers are compared by `Same`, equal modulo the prime.
  What the operations compute: `TermIs` says that doubling for two
  short limbs and multiplying by 19 after the top limb is what the places
  require, `FieldProductIs` sums that over the columns, `FieldSquareIs` says
  that the halved sums of `fe_sq` are the same ones, `CarryIs` that a carry keeps
  the number, the one from the top limb back to the first included. What
  `fe_frombytes` loads is the number below 2^255, no bit lost or read twice
  (`FromBytesIs`). How large limbs get: `Loose(f, d)` says that no limb exceeds d
  times its width. A sum of ten products of limbs up to three times their
  width is at most 6840 * 2^50, below 2^63 (`FieldProductBound`); `ProductCarried` and
  `OddCarried` follow the 12 and the 10 carries in their order and end with
  `Loose(f, 1)`. `fe_tobytes` estimates from the rounded limbs how often the prime is
  contained; `QuotientIs` says that the estimate is exact while limbs are up to
  twice their width, and `ToBytesIs` that the result is the representative below
  the prime. `FieldInv`, which is inductive, has one conjunct for each thing an
  operation needs: the limbs stand for the number, and are as loose as `degree`
  says, the carried elements added up since the last product.

**HelloCryptoProofs** (11,253)
* `KeysStayPairs`: `KeysMatch`, for every prime, curve, base point, number of
  digits and hash that satisfy the assumptions of `Fe`, `Ge`, `X25519`, `Ed25519` and
  `HelloCrypto`. Those are facts of the constants alone: the chains of powers give
  inverses and roots, -1 has a root, the base point is on the curve, the
  denominators of the addition law are never zero and the law is associative,
  and the base point has the order that `sc.c` reduces by. They are known of
  2^255 - 19 and edwards25519, and TLC evaluates them on the curve of its run. The
  code is not assumed to do anything; what it does is what is proved:
  * The field (`OpsAre`): a residue stands for an integer modulo the prime (`Is`).
  * Coordinates: `StandsP3(p, a)` says that projective, extended coordinates `p`
    are those of the point `a`, with a `Z` that is not zero. `MaddIs`, `AddIs` and
    `DoubleIs`: `ge_madd`, `ge_add` and `ge_p2_dbl` give a completed point that
    stands for the sum, by `AddIdentity`; `ToBytesIs`: `ge_p3_tobytes` gives the
    encoding of the point, whatever the `Z`.
  * Multiples: `G(n)` is the base point times the integer `n`, and `GAdds` its
    addition. `BaseTableIs`: each of the entries of the table is the multiple that
    its place says; `SelectIs`: `select` finds that of a digit of either sign.
  * Digits: `RestExists` and `CarriedNext` follow the carries upwards, and
    `SignedDigitsAre` says that digits between -8 and 8 remain and nothing is
    left above the last one if the scalar is `Short`, its top bit clear.
    `PartialSums` puts the odd digits, times 16, and the even ones together;
    `ScalarMultBaseIs` is the result: `ge_scalarmult_base` multiplies.
  * Decoding: `RootFound` says that one of the two candidates of
    `ge_frombytes_negate_vartime` is the root, also for x = 0, where the power is
    of zero; `SignsDiffer` that the sign tells it from its negation; `DecodeIs` that
    the point comes out negated.
  * The scalars that occur are `Short`: `ClampIsShort`, `TopBitIsShort`,
    `ReducedIsShort`. So `KeysInv` is inductive: a scalar is short, the public key
    is the encoding of its multiple, and the other side knows that key.
* `VerifyDecides`: `VerifyIsEquation`, under the same assumptions and one hypothesis,
  `HashesAreNumbers`: SHA-512 of a message is a pair of numbers. It ranges over
  all messages, so TLC could not evaluate it as an assumption; the model's
  `Sha512` satisfies it.
  * Windows: the steps of `slide` (`SlideAtIs`) keep the value of the digits
    (`Value`, `Slid`), and `SlideIs` says that they end odd or zero and at most 15
    and add up to the scalar. What a carry moves upwards always finds a zero,
    because the scalar is `Short`: nothing is lost above the top digit.
  * `DoubleScalarMultIs`: the loop of `ge_double_scalarmult_vartime` holds the sum
    of two multiples (`Both`), doubles it and adds or subtracts an entry of the
    tables, and the tables are the odd multiples.
  * Accepting: `DecodingIs` says what decoding accepts, strange encodings
    included (y not below the prime, x = 0 with the sign bit set); `EncodingIs`
    that the encoding of a point tells it from the others, so comparing the bytes
    of R compares the points. `SessionsInv` carries the packets and what was made
    of them.
* `SecretIsShared`: `OneSecret`, under the assumptions of `VerifyDecides` and its
  hypothesis. Two sides that follow the protocol accept each other's Hello, and
  what each computes from the other's public half is the u of the product of the
  two scalars times the base point.
  * What the ladder holds: `StandsU(X, Z, q)`, the point q in the coordinate the
    ladder uses: y is (X - Z) / (X + Z), and X + Z is not zero. `LadderDoubleIs` and
    `LadderAddIs` say that its doubling and its addition of two points with a known
    difference are those of the Edwards curve. They rest on identities of polynomials
    (`DoubleRing`, `SumRing`, `SumSquares`, `AddsCore`) that are proved over the
    integers and read modulo the prime.
  * Rounds: in `LadderAt` the two pairs stand for the multiples by m and m + 1, m the
    bits read so far, and the swap bit says which is which; `LadderRoundIs` keeps
    that and `LadderRuns` follows it to the last bit. A point with u = 0 has no
    difference to divide by and is followed apart (`Flat`, `FlatRuns`): the
    inversion of the code makes 0 of 0, which is the u of such a point (`FlatU`,
    `UZeroIsFlat`). `LadderIs` is both.
  * Keys: `PublicU` says that `X25519_public_from_private`, which goes by the Edwards
    table, gives the u of the same multiple, and `ExchangeIs` that the ladder on
    it multiplies by the other scalar, in either order (`ProductIs`). A scalar is
    clamped when it is made and again when it is used (`ClampTwice`); one that
    `ed25519_add_scalar` has moved is not clamped when made, which is why
    `OneSecret` leaves static keys that were moved out.
  * Signatures: `SignedIsAccepted` and `SignedVerifies`, s B - h A = r B for what
    `ed25519_sign` makes, with `VerifyIs` of the theorem before.
  * `SecretsInv`, inductive together with `KeysInv` and `SessionsInv`, says from
    which scalar and which public half each outcome and each secret was made.

A recursive function is reasoned about by `SetInduction`, induction stated of a
set of numbers, which follows from `WFMin` and needs no operator as a parameter.
TLC finds every inductive invariant to hold on the instance of its module's run,
with quantifiers over all sequences rephrased where it cannot enumerate them.

Only model-checked:

* That the group law is associative and its denominators are never zero are
  assumptions of `Ge` (`CurveAssumption`), evaluated by TLC and out of the provers'
  reach: associativity is an identity between fractions of polynomials in six
  variables, reduced by the equation of the curve.
* All liveness (`HandshakeCompletes`, `TextsArrive`, `ClientIsHandled`,
  `ShutdownCompletes`, `ConnectEnds`, `CallsReturn`, `EverythingArrives`):
  fairness and `ENABLED` are outside what the prover handles.

## 5. Disagreements between the code and what it says

Each is a run that TLC refutes, and a `findings` entry with the quoted line.

* `session_early` (`ContextReadyBeforeUse`): `ChatClient::connect` puts the
  session into the map before the handshake, and `sendTextMsg` does not ask
  whether it is over. A text sent then uses a context without `setkey` and
  `starts`, which `chacha20.h` asks for, and goes in front of the Hello or
  between Hello and frames.
* `session_nonce` (`NonceUsedOnce`): both ends start both contexts with the same
  key, nonce and counter, so the first text in one direction and the first in
  the other are masked with the same bytes; `chacha20.h` forbids it.
* `server_race` (`NoMapRace`): `ChatServer::sendTextMsg` searches `sess_map_`
  without the mutex that guards it everywhere else.
* `server_evict` (`EvictsOnlyItself`): a second connection with the key of a
  peer and a bad signature is closed, and its `onClose` erases the live
  session's entry.

One more needs no run of its own:

* `mbedtls_chachapoly_finish` refuses a context that was never started, and no
  other. `chachapoly.h:248-250` says that it also refuses one that has been
  finished. The run `aead` calls it again: it returns 0, and the tag is of
  a layout with the lengths repeated (`TagOfLayout`), which `auth_decrypt` refuses (`OpensOnlySealed`).

## 6. What is not modelled

* The rounds of ChaCha20 and of `sha512_compress`: functions of their inputs.
  That a signature cannot be forged and a secret not be computed is assumed in
  `ChatSession`, where a signature is the pair that made it.
* The generated field arithmetic of BoringSSL (`curve25519_32.h`,
  `curve25519_64*.h`), proved by its generator; module `Fe` stands for its
  contract. The constants of `precomp_data.h` and `curve25519_tables.h`, digit by
  digit.
* The `ED25519_*` functions in BoringSSL's `curve25519.c`: nothing calls them,
  and as adapted here they take arrays of 32 bytes for arrays of 64
  (`az + 32`, `x25519_sc_reduce` on a 32-byte hash), so that they have no
  behaviour to model. `x25519_ge_scalarmult_small_precomp`: compiled under
  `OPENSSL_SMALL` only.
* Memory corruption that follows from a data race or from the loop in
  `ChatClient::close`, other than a crash of the caller: maps stay maps.
* Several application threads that call `writeMsg` of one session at once: they
  race on the cipher context itself. The models have one application thread per
  owner; `Framing` has the overlapping `async_write` operations that one starts.
* The reference counts inside a `QByteArray` that `getEcKey` copies while `setEcKey`
  assigns it: a session gets the old key or the new one, whole, for each of the two.
* What a server without an io context does after its constructor.
* Exceptions (resolver errors in `doConnect`, `socket_.close()`).
* Slots connected to the signals. A direct slot of `sigClose` that calls back
  into the server would find the mutex taken.
* `main.cpp` (parses a file and returns), `ChatCallBack` and `SocketSession` (no
  users), `curve25519/agl` and `curve25519/floodyberry` with their test and fuzz
  copies of the reference code (no target builds them), mbedTLS configuration,
  error and platform files. Together with tables and generated code these are
  more than four fifths of the lines of the repository, which is why the map
  covers a small share of it.

## 7. Plan

Modelled: everything of section 2. Proved: every safety property of the passing
runs. What is left is what section 4 lists as only model-checked: the liveness
properties, and the facts of the curve that the theorems of `HelloCryptoProofs`
assume. Both stay with TLC.
