# TLA+ models of the tgclient MTProto client

This directory holds TLA+ models of the concurrent core of `src/mtproto.go`, the
TLC configurations that check them, and `PROJECT.json`. `PROJECT.json` lists the
components, the runs, the mutants, the source lines behind every definition
("map"), the findings and the hazards.

## The system

`MTProto` multiplexes application requests over one TCP connection to a
Telegram data center. Its parts interact as follows.

- **Callers**: `Send`/`SendSync` put a `packetToSend` with a response channel on
  `extSendQueue` (capacity 64) and block while it is full.
- **queueTransferRoutine**: moves packets from `extSendQueue` to `sendQueue`
  (capacity 1024) while `len(sendQueue) < cap(extSendQueue)`. It tests the
  length *before* it blocks in a `select`.
- **pingRoutine**: pushes a ping, which has no response channel, every 60 s.
- **sendRoutine**: takes packets from `sendQueue`.
  - `send()` keeps a packet's msg id, or assigns a new one. It records the
    packet in `msgsByID` under `m.mutex` and then writes it.
  - A write error on a closed connection is ignored.
  - Any other write error starts `go reconnectLogged()`, and the routine
    exits.
- **readRoutine**: polls the stop channel, reads a frame and runs `process()`.
  A read error behaves like a write error in sendRoutine.
- **process()**: the dispatcher. Depending on the object it:
  - replaces the salt and saves the session;
  - resends every pending packet (`resendPendingPackets`: pop `msgsByID`,
    then push everything back *while holding the mutex*);
  - completes a waiter (`clearPacketData`);
  - drops acknowledged fire-and-forget packets;
  - pushes a pong or an ack;
  - or starts the event handler.

  Every odd-seqNo message is acknowledged.
- **reconnectLogged / reconnectToDc / Connect**: the reconnect path.
  - reconnectLogged takes the reconnect semaphore, or gives up if it is busy.
    It then retries reconnectToDc every 5 s.
  - reconnectToDc pushes 4 stop tokens, closes the connection, waits for the
    WaitGroup and drains leftover tokens. It snapshots the ids in `msgsByID`
    and calls Connect.
  - Connect dials, starts the send and read workers, and sends the config
    request through `sendQueue` with no timeout. It then starts the transfer
    and ping workers.
  - Finally, reconnectToDc takes the mutex and pushes back the snapshot packets
    that are still in `msgsByID`.
  - On the session side, reconnectToDc to a new DC clears `encryptionReady`,
    looks the DC up in `m.dcOptions` with DCAddr (first match), and sets DcID
    and Addr. Connect then makes an auth key and saves the session when the
    key is not ready. It takes DcID from the config and appends the config's
    dcOptions to `m.dcOptions`.
- **Auth**: sends `auth.sendCode` through `SendSync`. On a 303 whose message
  parses as `PHONE_MIGRATE_n`/`NETWORK_MIGRATE_n` it calls `reconnectToDc(n)`
  directly, without the semaphore, and sends again. Then it sends
  `auth.signIn`; on `SESSION_PASSWORD_NEEDED` it sends `account.getPassword`
  and `auth.checkPassword`. It succeeds on an `auth.authorization`.
- **DecodeBuf**: decodes TL values (longs, padded byte strings, vectors,
  objects).
- **Session store**: `SessFileStore.Save` truncates the session file and
  writes the auth key, its hash, the salt and the address; `Load` reads up to
  4096 bytes and decodes them with DecodeBuf. `InitSession` loads the file
  when the client has no session: no file starts fresh (default address,
  encryption not ready), a loaded file makes encryption ready, any other
  error is returned.

`send()`, `read()`, `makeAuthKey` and the msg-id generator are not under `src/`.
Where the models need them, they follow `spec.md`. They are marked
`spec_modelled` in the map.

## Modules

| Module | Models | Notes |
|---|---|---|
| `Dispatch` | `process()` (753-809) | `Process(msgId, seqNo, data, mayPass)` is the sequence of effects process() performs, in order. It is RECURSIVE over containers and rpc_result. `ProcessBranch` is the type switch; `AckOdd` is the trailing acknowledgement. |
| `MCDispatch` | checks `Process` | A reference reading of the dispatch table over every frame built from small constructor sets, containers of one or two items included. `MCDecodeBuf` instantiates it, so the checks run in the `decode` run. |
| `MTProto` | the queues, workers, pending table, mutex, reconnect and semaphore | See below. |
| `DecodeBuf` | `DecodeBuf` (824-1244) | Each method is an operator from a decoder `[buf, off, size, err]` to `[v, d]`, the value and the decoder after the call. The sticky `m.err` is `err`, a Go panic is `err = "panic"`, and nil is the model value `NIL`. int32 values are kept as TLC integers; a 64-bit value is a pair of 32-bit words. |
| `SessionStore` | `SessFileStore` (42-92), `InitSession` (205-224) | Pure operators: `SaveBytes` (the bytes Save writes; EncodeBuf is spec-modelled), `SaveOutcomes` (the files a Save can leave: the old one, or any prefix of the new encoding once os.Create truncated it), `Load` (through DecodeBuf over the zero-filled 4096-byte read buffer, fields assigned even on error) and `InitSession` (its three outcomes). |
| `Auth` | `Auth` (471-546), `SendSync` (430-434) | A pure operator `Auth(perr, ans, rec)`: given the provider steps that fail, the answers `SendSync` returns in order and the outcomes of the reconnects, it gives the calls Auth makes (`sendCode`, `reconnect` with its DC, `signIn`, `getPassword`, `checkPassword`) and its result: ok, error, or blocked when `SendSync` would wait for an answer the inputs do not give. The reconnect itself is the caller reconnector of `MTProto`. |
| `DcSwitch` | `Connect` (258-320), `DCAddr` (245-252), `reconnectToDc` (386-398), `InitSessAndConnect` (195-215), Auth's `reconnectToDc` call (504-506) | The session side of connecting, as pure operators from a client state `[dcID, addr, ready, key, saved, opts, keys]` to `[c, err]`. An outcome record says which step of Connect fails: the dial, makeAuthKey, Save or the config request. An address is `[dc]`, and a key is `[dc, n]`, made by the n-th makeAuthKey. `makeAuthKey` is spec-modelled. `AuthOnClient` composes `Auth` with it: each reconnect of the dialogue is `ReconnectToDc` from the state the previous one left, and its error is the reconnect result Auth sees. |
| `MCDecodeBuf` | checks `DecodeBuf`, `Dispatch`, `SessionStore`, `Auth` and `DcSwitch` | The wire layer. Reference encoders written from the wire format, and bounded inputs: each state is one input (a string, vector, object, raw buffer, frame, session, session file, Auth dialogue, or migration dialogue on a started client). |
| `RequestChannel` | what the client promises its callers (spec.md) | An abstract specification: each call with a response slot is executed by the server at most once, and its slot receives exactly once the value of that execution. |
| `MCMTProto` | the instance for TLC | Scales the queue capacities down to `ExtCap = 1`, `IntCap = 8`, or 2 in the deadlock run. |

### MTProto: state

- `pkts` is every `packetToSend` created. Each entry records its kind, its
  `msgID` (0 until it is first sent), and `resp`:
  - `"open"`: a waiter is blocked on the channel;
  - `"done"`: the value was written and the channel closed;
  - `"nil"`: the packet has no channel.
- `extQ` and `sendQ` are the two channels, as sequences.
- `table` is `msgsByID`.
- `mutex` names the holder during a blocking section (`"read"`, or a
  reconnector).
- `stopQ` is the number of tokens in `routinesStop`.
- `wg` is the WaitGroup counter.
- `spawned` counts `go reconnectLogged()` calls that have not yet reached the
  semaphore, and `sem` says whether the semaphore is held.
- `sendW`, `readW`, `transW`, `pingW` and `recon` are the program counters and
  locals of the goroutines. `recon` has one entry per reconnector:
  - `"logged"` is the workers' `reconnectLogged`: it holds the semaphore and
    retries a failed reconnectToDc;
  - `"caller"` is the application's `Reconnect()` (345), and Auth's migrate
    path (504) makes the same call: no semaphore, no retry, and the error is
    returned to the caller.
- `salt` is `session.ServerSalt`, and `savedSalt` is the stored session.
- The environment:
  - `conn` is the connection: `"up"`, `"broken"` by the network, or `"closed"`
    by us;
  - `toSrv` and `toCli` are the bytes and frames in flight;
  - the server's accepted salt;
  - `srvDone` is the server's answer cache by msg id;
  - `srvAck` is the set of ids the server still has to acknowledge.

### MTProto: actions

Each channel operation or mutex section of the code is one action.

- The transfer worker is `TransferCheck`, `TransferStop`, `TransferTake` and
  `TransferPush`. The length test and the blocking push are separate steps, as
  in the code.
- The ping worker is `PingStop`, `PingTick` and `PingPush`.
- The send worker is `SendStop`, `SendTake` and `SendPacket`. SendPacket
  assigns the id, records the packet and writes it, with four outcomes:
  written; lost in a broken socket; closed-connection error; other error.
- The read worker is `ReadCheck`, `ReadFrame` and `ReadError`. ReadFrame
  computes `Process(..)` for the frame, and the worker then carries out one
  effect per step:
  - `ApplySetSalt`;
  - `ApplyResend`, `ResendPush` and `ResendUnlock`: lock, pop, push each
    packet, unlock;
  - `ApplyClear`;
  - `ApplyAcks`;
  - `ApplyPush`;
  - `ApplyEvent`.
- The reconnect starts with `ReconnectStart` (semaphore) or
  `CallerReconnect` (the application calls `Reconnect()`, within
  `MaxCallerReconnects`). Each reconnector `r` then takes `RcStopToken(r)` ×4,
  `RcClose(r)`, `RcWait(r)` (Wait, drain and snapshot), `RcDial(r)`,
  `RcConfigPush(r)`, `RcConfigWait(r)`, `RcLock(r)`, `RcPush(r)` and
  `RcUnlock(r)`. A failed dial or config request is `Failed(r)`: the logged
  reconnector starts again, the caller's returns.
- The environment is `Send`, `PingTick`, `SrvReceive`, `SrvAck`, `SrvEvent`,
  `SrvRotateSalt` and `NetFail`. Each is bounded by a named budget constant.
  - The server rejects a stale salt with `bad_server_salt`.
  - It executes a request once per msg id. A repeated id gets the cached
    answer again.
  - It may answer with an `rpc_error` (within `MaxRpcErrors`), send a ping, an
    update or `new_session_created`, and acknowledge content messages.
- `Quiescent` is a stuttering step. It is allowed only when every worker waits
  on an empty channel and no reconnect runs. So TLC still reports any other
  state with no successor as a deadlock.

## Properties and runs

| Run | cfg | Expect | Properties | What it shows |
|---|---|---|---|---|
| reconnect | `MCMTProto_reconnect.cfg` | pass | TypeOK, NoLostRequest, ReconnectCompletes, RequestsAnswered, RefinesRequestChannel | One broken connection and one failed dial: no open request is ever out of every queue and the table, the client always becomes healthy again, every request is answered, and the client implements `RequestChannel`. |
| caller | `MCMTProto_caller.cfg` | pass | NoLostRequest, RequestsAnswered, RefinesRequestChannel | The application calls `Reconnect()` while a request is in flight: no request is lost, and the request is answered once. |
| cfgerror | `MCMTProto_cfgerror.cfg` | pass | ReconnectCompletes | An rpc_error for Connect's config request is retried until the client is healthy. |
| salt | `MCMTProto_salt.cfg` | pass | NoLostRequest, RequestsAnswered, RefinesRequestChannel | A salt rotation, and the resends it triggers, never makes the server execute a request twice (msg ids are kept) nor loses one. |
| traffic | `MCMTProto_traffic.cfg` | pass | RequestsAnswered, RefinesRequestChannel | With pings, server pings, updates, `new_session_created` and rpc_errors, each waiter receives exactly the server's answer for its own msg id. |
| decode | `MCDecodeBuf.cfg` | pass | StringRoundTrip, VectorRoundTrip, ShortInputFails, StickyError, ObjectRoundTrip, AckPerOddMessage, RoutedAsSpecified, SessionRoundTrip, AuthFollowsProtocol, MigrationRedoesKeyExchange | The readers return what the reference encoder wrote: strings of lengths 0-4 and 253-256 (across the 254 marker), int/long/string vectors with values at the sign boundary, and booleans, rpc_results, containers of up to two items and gzip_packed objects. Every proper prefix of a string or vector encoding sets the error, and no reader changes a decoder whose error is set. process() acks each odd-seq message once (never an rpc_result's object), completes each request once with the right value, routes only non-service objects to the handler, and answers each ping with a pong naming its msg id (AckPerOddMessage, RoutedAsSpecified). A file written by a complete Save, with a short or a 256-byte auth key, starts a fresh client with encryption ready and the saved fields; DcID is not saved and is 0 (SessionRoundTrip). Auth follows the sign-in dialogue: a failed PhoneNumber() makes no call, each migrate answer to sendCode is followed by a reconnect to its DC and nothing else reconnects, signIn comes only after sentCode, getPassword only after SESSION_PASSWORD_NEEDED, and Auth succeeds exactly when its last call was answered with an authorization (AuthFollowsProtocol). On a started client, every migration of Auth that succeeds leaves the client on the named DC, at its address, with encryption ready on a saved key made with that DC. A new key is made exactly when the DC changed, so a migration to the current DC keeps the authorized key (MigrationRedoesKeyExchange, the spec's scenario 3). |
| decodegzip | `MCDecodeBuf_gzip.cfg` | violation | DecodeErrorsReported | See finding 4. |
| abandon | `MCMTProto_abandon.cfg` | violation | ReconnectCompletes | See finding 1. |
| deadlock | `MCMTProto_deadlock.cfg` | violation | RequestsAnswered | See finding 2. |
| hang | `MCMTProto_hang.cfg` | violation | ReconnectCompletes | See finding 3. |
| twice | `MCMTProto_twice.cfg` | violation | NoDuplicateWorkers | See finding 5. |
| torn | `MCDecodeBuf_torn.cfg` | violation | LoadRejectsTornFile | See finding 6. |

**Refinement.** `RefinesRequestChannel` is `RC!Spec`, where `RC` instantiates
`RequestChannel` with a mapping of MTProto's state: call `p` is `pkts[p]`, its
`runs` is the number of executions the server's cache `srvDone` records for
`p` (under any msg id), `ans` the answer of that execution and `got` the value
written to the channel. A second execution of a request (for instance a resend
under a new msg id), a slot written twice or with another request's answer, is
a step `RequestChannel` does not allow.

The passing MTProto runs finish in under 30 s each, and every one of their
properties has a mutant in `PROJECT.json` that breaks it. Each mutant is a
plausible slip in the code, for example:

- an id counter that is not advanced;
- a new msg id given to a resent packet;
- recording the packet only after a successful write;
- no drain of leftover stop tokens;
- a re-push that finds nothing;
- a resend that iterates over the emptied map;
- a salt that is saved but not used;
- an rpc_error routed to the event handler;
- the whole rpc_result delivered instead of its object.

## Findings

1. **A failed application reconnect is abandoned** (`abandon`, spec/code
   divergence, `mtproto.go:312`, returned at `345`). The application calls
   `Reconnect()` with a request in flight, and the config request of its
   Connect gets an rpc_error:
   - Connect returns the error after starting sendRoutine and readRoutine,
     but before queueTransferRoutine and pingRoutine;
   - `Reconnect()` returns it to the application, and nothing retries;
   - the request stays in `msgsByID`, and the external queue is never moved
     to `sendQueue`, so the client never becomes healthy and the request is
     never answered.

   The reconnectLogged path retries after 5 s (the `cfgerror` run shows it
   recovers). The spec (4.H) says of the reconnect procedure: on any failure,
   log and retry after 5 s, never abandon. The cfg turns the deadlock check
   off because the client really stops there: no goroutine has a step left.
2. **Deadlock: mutex held across a blocking push** (`deadlock`, code bug,
   `mtproto.go:578`, also `416`).
   - resendPendingPackets blocks on a full `sendQueue` while holding
     `m.mutex`.
   - sendRoutine, the queue's only consumer, blocks in `send()` on the same
     mutex.
   - The comment at line 115 calls the internal queue "unlimited" and the
     resend lock-free, but the queue has capacity 1024.
   - `spec.md` says the mutex is held only for short non-I/O sections.
   - `msgsByID` keeps every msgs_ack packet the client sent, because the
     server never acknowledges a msgs_ack. So over a long session a resend
     can exceed the free space.
3. **Reconnect hangs** (`hang`, code bug, `mtproto.go:292`).
   - Connect waits for the config answer with `sendSyncInternal`, which has no
     timeout.
   - If the network fails at that moment, both workers exit and call
     reconnectLogged. Both return at once, because the semaphore is held by
     the reconnect that is waiting.
   - The client stays disconnected for ever.

4. **The gzip_packed branch drops its errors** (`decodegzip`, code bug,
   `mtproto.go:1218`). `DecodeErrorsReported` says Object never panics and
   never returns nil without setting the error.
   - Object drops the error of `gzip.NewReader`. When the string is truncated
     or is not gzip, `gz` is nil and `gz.Read` panics in readRoutine. TLC's
     input is the gzip_packed constructor alone, with no string after it.
   - The content is decoded by a new `DecodeBuf` (1225), and its error is
     never copied to `m.err`: an undecodable content returns nil with no
     error, and the caller dispatches a nil object. TLC reports the panic
     first; this second half is read off the same lines.

   The spec says an undecodable message is an error that leads to a reconnect.
5. **Two reconnects at once** (`twice`, code bug, `mtproto.go:345`, also
   `504`). The spec says a binary guard lets only one reconnect run at a time,
   but `Reconnect()` and Auth's migrate path call reconnectToDc without the
   semaphore. In the 23-step trace a network failure starts the workers'
   reconnectLogged while the application calls `Reconnect()`:
   - both push stop tokens, close the connection and pass Wait;
   - the logged reconnect dials and starts new send and read workers;
   - the caller then dials with those workers running (`wg = 2`): two
     generations of send and read workers on one client, both using
     `m.conn`, which now names the caller's connection; the connection the
     logged reconnect dialled is never closed.

   With deadlock checking on, the same configuration also deadlocks: the
   `routinesStop` channel (capacity 4) is full, no worker is left to take a
   token, and both reconnectors block pushing the next one. The cfg turns the
   deadlock check off so that TLC reports the duplicate workers.
6. **A torn session file loads as a session** (`torn`, code bug,
   `mtproto.go:83`, cause at `48`). Save truncates the file with `os.Create`
   and then writes; a failed write or a crash in between leaves a prefix of
   the encoding. Load decodes from the whole zero-filled 4096-byte buffer, not
   the bytes `f.Read` returned, so no prefix but the empty one is a short
   input. TLC's input is a one-byte file, `<<3>>` (the first byte of a
   3-byte key): InitSession returns no error, marks encryption ready, and
   the session has a zeroed key, an empty hash and no address. An empty file
   instead fails every start with io.EOF. `spec.md` says load populates the
   fields or signals NoSessionData.

## Bounds

- One or two application requests, one ping, one network failure, one failed
  dial, one salt rotation and one server event.
- `ExtCap = 1` and `IntCap = 8` keep the code's order, 64 < 1024: the
  transfer worker stops feeding at `ExtCap`, and the other producers can go
  beyond it.
- Each run enables only the environment events its question needs:
  - failures in `reconnect`;
  - salt in `salt`;
  - pings and events in `traffic`.

  Combining them multiplies the interleavings of the four workers past what
  TLC explores in minutes.
- Even so, each run has several packets and all four workers interleaving, and
  the reconnect runs explore every point at which the network can fail
  relative to the workers' steps.
- `MaxCallerReconnects = 1` in `caller` and `twice`, 0 elsewhere. The caller
  run has no network failure, so its reconnect runs alone; with one failure
  (`twice`) the race of finding 5 appears.
- `FailDuringReconnect = FALSE` in the passing runs. It keeps failures away
  from the window that finding 3 shows to hang.

- The session inputs are 12 sessions (a 3-byte and a 256-byte long-form
  key, salts at the sign boundary, addresses of 0, 3 and 7 bytes) and, for
  the torn run, every file their Save can leave: each prefix of each
  encoding, the empty file and no file.
- The Auth inputs are every sequence of up to four answers from ten
  (sentCode, account.password, authorization, an unexpected type, the three
  migrate errors with a DC, PHONE_MIGRATE without a number,
  SESSION_PASSWORD_NEEDED and a FLOOD_WAIT), three reconnect outcome lists
  and four sets of failing provider steps. Four answers reach a migrate,
  a second sendCode, signIn and the password branch in one dialogue.
- The migration inputs are every sequence of up to four answers from five
  (sentCode, authorization, PHONE_MIGRATE_4, NETWORK_MIGRATE_2 to the
  current DC, and PHONE_MIGRATE_5 to a DC the config does not list). They
  run on three started clients (a fresh one, and ones with a key saved on
  DC 2 or DC 4), with every pair of reconnect outcomes: success, or a
  failure at the dial, makeAuthKey, Save or the config request. Two
  migrations in one dialogue reach a second reconnect from the state the
  first one left.
- The decoder inputs are about 900 well-formed encodings and their prefixes,
  plus about 30,000 raw buffers for the violation runs. The raw buffers are
  every sequence of up to four words drawn from the constructors, 0, 1, -1
  and a gzip string header, with the last word cut short by 0 to 3 bytes.
- gzip is modelled as stored content: the two magic bytes, then the payload.
  Deflate itself is out of scope. The findings depend only on whether
  `gzip.NewReader` accepts the bytes.
- `ObjectGenerated` is generated code, not under `src/`. The model knows only
  boolTrue and boolFalse; any other constructor is an "unknown constructor"
  error.

## Fairness

- **Weak fairness on every goroutine step.** Go's scheduler runs every
  runnable goroutine eventually, and a blocked channel operation that stays
  enabled completes.
- **Weak fairness on the server's receive and acknowledge steps.** The server
  answers what it receives.
- **No fairness for the rest.** The application's calls (`Send` and
  `Reconnect()`), the ping timer,
  unsolicited server messages, salt rotations and network failures may or may
  not happen.

## Not modelled, and the plan

- **Auth**: the password hash (sha256 of salt, password, salt) and the
  `Signed in` print are left out; the answers are abstract. Auth is not a
  process of `MTProto`: its `SendSync` calls are the caller's requests, and its
  migrate reconnect is the caller reconnector of `MTProto`, to the same DC;
  the change of DC is `DcSwitch`'s, which has no workers. The `auth.User.(TL_user)` assertion (543) would panic on
  another User type; the inputs always give a TL_user. The sendCode loop has
  no bound on migrations (a hazard with no property).
- **A caller's failed reconnect**: the passing caller run gives its config
  request no rpc_error, because the client then never becomes healthy; the
  `abandon` run checks that case (finding 1).
- **DecodeBuf**: the Flagged readers are modelled but not checked by a
  property. `Double` is read as its bit pattern.
- **msg-id generator** (spec-modelled): monotonic ids whose low two bits are
  zero, computed modulo 2^64. A later module.
- **Session**: `SessNoopStore`, `CopySession` and the random session id
  are left out. `InitSessAndConnect` is not a step of MTProto: the model
  starts connected (`DcSwitch` models it without Load errors). A retried `InitSession` after a failed Load skips Load
  and uses the partly decoded session (a hazard with no property yet).
- **Other parts left out**:
  - the DH exchange of `makeAuthKey`; `DcSwitch` has its outcome only;
  - `conn.Close` errors;
  - a config that moves a DC to a new address. DCAddr returns the first
    matching option, and `m.dcOptions` keeps the options of every config, so
    after such a config a migration would dial the old address (a hazard
    with no property). The list also grows on every Connect;
  - the order in which reconnectToDc clears `encryptionReady` before DCAddr
    can fail with a wrong DC. The spec prescribes it (4.H step 6), but the
    next reconnect to the old DC then makes a new auth key over the
    authorized one (a hazard with no property);
  - `needAck`, which nothing reads;
  - `debugRoutine` and logging;
  - `GetContacts`;
  - encryption.
- **Server behaviour is an assumption**: the model's server re-sends the
  cached answer for a repeated msg id. The comment at line 406 says Telegram
  *ignores* doubles. With such a server, a request whose answer was lost with
  the connection would never be answered.
