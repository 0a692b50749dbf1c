# TLA+ models of the gobgp peer session core

This directory holds TLA+ models of the per-peer BGP session code of this
repository (`src/server/fsm.go`, `src/table/path.go`, `src/unnamed/part_001`,
`src/unnamed/part_000`). It also holds the TLC configurations that check them.
`PROJECT.json` lists the components, the runs, the mutants, the map from every
modelled definition to its source lines, the findings and the hazards.

Run a check from this directory with `tlc -workers 2 -config <run>.cfg <module>`.
The module and the cfg of each run are listed in `PROJECT.json`.

## 1. The system

One BGP peer is served by several goroutines that talk through channels.

| Part | Code | State it owns | Talks to |
|---|---|---|---|
| FSM driver | `FSMHandler.loop` | `fsm.reason`, the handler's tomb `h.t` | runs one state handler, waits for its goroutines (`h.t.Wait`, with a 120 s `log.Fatal` guard), then sends a state-change envelope on `stateCh` |
| State handlers | `idle`, `active`, `opensent`, `openconfirm`, `established` | `fsm.conn`, `fsm.adminState`, negotiated timers | select over `connCh`, `adminStateCh`, `errorCh`, `holdTimerResetCh`, the handler's own `msgCh`, timers, `h.t.Dying()` |
| Receive goroutine | `recvMessageWithError`, run once (`recvMessage`) in OPENSENT/OPENCONFIRM and in a loop (`recvMessageloop`) in ESTABLISHED | none | unbuffered `msgCh` to the handler in the handshake; `incoming` to the server in ESTABLISHED; `errorCh`; `holdTimerResetCh` |
| Send goroutine | `sendMessageloop` (ESTABLISHED) | none | `outgoing` from the server, a keepalive ticker, `h.t.Dying()`; puts `WRITE_FAILED`/`NOTIFICATION_SENT` on `errorCh` |
| Connect loop | `FSM.connectLoop` (one per FSM, for its lifetime) | retry ticker | `getActiveCh` (unbuffered) from `StateChange(ACTIVE)`; pushes dialled connections on `connCh` (capacity 1) |
| Owner | the server's main loop (not in `src/`) | the peer's `outgoing` | receives the envelope, calls `FSM.StateChange`, starts the next `FSMHandler`; deletes a neighbor by killing `fsm.t` and `h.t`, and drops the envelopes of neighbors it no longer has |
| Negotiation | `opensent` lines 695-714, `keepaliveTicker` | `NegotiatedHoldTime`, `KeepaliveInterval`, `rfMap` | timers read by `openconfirm`, `established` and `sendMessageloop`; `rfMap` read by the receiver's `ValidateUpdateMsg` |
| Capabilities and OPEN | `capabilitiesFromConfig`, `buildopen`, `open2Cap` | none (`fsm.capMap`, `fsm.rfMap` are set from `open2Cap`) | `opensent` writes `buildopen`'s OPEN and calls `open2Cap` on the received one |
| AS path reconciliation | `UpdatePathAttrs4ByteAs`, `UpdatePathAttrs2ByteAs` | none | called by the receiver on every valid UPDATE |
| UPDATE batcher | `CreateUpdateMsgFromPaths` | none | called by the server for outbound paths |
| Path value | `table.Path`: a parent chain of attribute layers with `dels` | per path: `pathAttrs`, `dels`, `parent`; `info` at the root | created by the receiver or locally; cloned and rewritten by egress processing (`UpdatePathAttrs`) and by policy actions (`PrependAsn`, `SetNexthop`, `SetCommunities`, `RemoveCommunities`, `SetMed`), callers outside `src/` |
| Config watcher | `WatchEtcd` | none | etcd and the file system (pure I/O) |

### Behaviours that are hard to test

- **Blocking channel operations between goroutines.**
  - `getActiveCh` is unbuffered.
  - `connCh` has one slot, and the connect loop's push blocks.
  - In the handshake states `msgCh` is unbuffered.
  - `errorCh` has two slots.

  A blocked send on any of these stops the goroutine that makes it for good.
- **Deletion is a cancellation that not every goroutine hears.** The handlers and the connect loop select on their tomb's `Dying()`. The ESTABLISHED receiver, the handler's blocking puts on `outgoing` and the connect loop's push on `connCh` do not.
- **Teardown is a join.** The envelope reaches the owner only after every goroutine started on `h.t` has returned. A goroutine that never returns stops the peer, and after 120 s the `log.Fatal` ends the process.
- **The connect loop reads `fsm.state` without synchronisation**, before a dial that can take seconds. It pushes the connection afterwards, whatever the state is by then.
- **Administrative requests race the idle hold timer.** An accepted UP in ACTIVE, OPENSENT or OPENCONFIRM panics.
- **Timer arithmetic on float64 seconds and `time.Duration`.** A hold time of 0 is a special case, and so is a zero-length ticker.
- **Attribute-list index arithmetic in the AS path reconciler.** It removes an element from the slice and then writes back at an index it computed before the removal.
- **Go map iteration order and fnv key collisions in the batcher.** A path sent with another path's attributes after a hash collision would only show with real fnv collisions.
- **Copy-on-write paths.** A lookup walks the parent chain and stops at the first `dels` entry. Slices are shared, so an `append` can write into an array another slice still uses (`PrependAsn`).

## 2. Modules

| Module | Models | Kind |
|---|---|---|
| `Negotiation` | the hold-time and keepalive arithmetic, and the capabilities of `capabilitiesFromConfig`, `buildopen` and `open2Cap`, as operators | pure operators |
| `PeerFSM` | one peer: driver, handlers, receiver, sender, connect loop, owner; administrator, remote speaker and route processor as environment | state machine, `EXTENDS Negotiation` |
| `MCPeerFSM` | the instance for TLC: deletion on or off (`Deletable`), 2 connections, outgoing capacity 1, hold 90 s, keepalive 30 s, remote hold times {30} or {0, 30} | MC module |
| `AsPath` | `UpdatePathAttrs2ByteAs` and `UpdatePathAttrs4ByteAs` (part_001 lines 25-199), as operators over attribute lists | pure operators, `RECURSIVE` loop |
| `MCAsPath` | an UPDATE sent by a NEW speaker through OLD (2-octet) speakers to a NEW receiver; the rebuilt path compared with the 4-octet one | MC module with a four-step machine |
| `AbsPath` | what a `Path` promises: every handle has its own attribute map and origin; a clone copies them; a call changes only its own handle's map, by its edits | abstract state machine |
| `PathAttrs` | `table.Path` (path.go): the parent chain with `pathAttrs` and `dels`, the lookups, `NewPath`, `Clone` and every call that rewrites attributes | state machine, `EXTENDS AsPath` for the segment kinds and `SegMax` |
| `Batcher` | `createUpdateMsgFromPath` and `CreateUpdateMsgFromPaths` (part_001 lines 201-369), as operators over the paths of `PathAttrs` | pure operators, `EXTENDS PathAttrs` |
| `MCPathAttrs` | up to three paths made from three roots (local IPv4; iBGP-learned IPv6 with MP_REACH; eBGP-learned IPv4 with a full leading sequence), announce and withdraw clones, every peer kind and policy action; the refinement `Abs == INSTANCE AbsPath WITH ...`; the batcher applied to all paths in every state | MC module, `EXTENDS Batcher` |
| `MCNegotiation` | every combination of configured and received timer values run through `opensent` and `keepaliveTicker`, with the spec's P1/P2 as reference definitions; beside it, from separate initial states, two speakers exchanging `buildopen`'s OPEN (b may instead send no capabilities) and negotiating timers and route families with it | MC module with its own two-step machines |

### How `PeerFSM` corresponds to the code

- **Goroutine program counters.** Each goroutine is a program-counter variable:
  - `dpc`: the handler and `loop`. Values: `init`, `run`, `putHold`/`putCease` (blocked on `h.outgoing <-`), `wait` (`h.t.Wait`), `report`, `gone`, `panic`.
  - `rpc`: the receiver. Values: `read`, `deliver` (blocked on `msgCh`), `errloop`/`errexit` (blocked on `errorCh`), `none`.
  - `spc`: the sender.
  - `cl`: the connect loop. Values: `select`, `sleep`, `dial`, `push`.
  - `opc`: the owner. Values: `ready`, or `activating` (blocked on `getActiveCh`).
- **Channels** are their contents:
  - `connCh` and `adminCh` are sequences of length at most 1.
  - `errCh` and `holdReset` are counts up to 2; their values only name a reason, which no property needs.
  - No property bounds `holdReset` below its capacity. The receive goroutine is its only producer and sends only when it is empty (fsm.go:586); the handler only drains it. So at most one pending reset follows from that one guard under any interleaving.
  - `outgoing` is a sequence of at most `OutCap` messages.
  - The unbuffered `msgCh` is `rpc = "deliver"` together with `rmsg`.
- **Connections** are the numbers `1..MaxConns`. For each, the model knows whether this side closed it (`closed`) and whether the remote did (`rclosed`). For the current `fsm.conn` only, it records which handshake messages were read from it (`rcvd`) and written on it (`sent`). `ActiveConnected` empties both when a new connection becomes `fsm.conn`. Every handshake read and write goes to `fsm.conn`, and no property looks at the handshake of an earlier connection, so keeping that history would only multiply states.

  `conn` is `fsm.conn`. `hconn` is `h.conn`, the connection the current handler's goroutines use. `rloop` says whether the receiver runs `recvMessageloop`.
- **Actions.** There is one action per select case of each handler, named for the case:
  - `IdleHoldTimerExpired`, `ActiveConnected`, `OpenSentAcceptOpen`, `EstablishedHoldTimerExpired`, and so on.
  - A handler's preamble is `Start<State>`.
  - A blocking put that follows a case is its own action (`EstablishedPutHold`, `EstablishedPutCease`), because the handler can be stuck between the two.
  - The same select cases of `opensent` and `openconfirm` are one action each where the code is the same (`HandshakeError`, `HandshakeHoldTimerExpired`, `HandshakeAdminChange`, which also covers `active`).
- **Timers** are untimed: an armed timer may fire at any step.
  - The ESTABLISHED hold timer is armed whenever the negotiated hold time is not 0.
  - A reset is the `EstablishedHoldTimerReset` action.
- **Owner.** `OwnerStateChange` translates `FSM.StateChange` and the envelope side of `loop`. It also replaces the peer's `outgoing` channel when a session leaves ESTABLISHED. That last part is the server's job (not in `src/`) and is taken from the specification, which says stale outbound messages of a session are not sent on the next one.
- **Deletion.** `Deconfigure` is the server deleting the neighbor. It is taken from the specification, because the server is not in `src/`. It kills both tombs (`killed`, `deleted`), and it happens between two `StateChange` calls of the server's loop, never inside one. Afterwards the server sends the neighbor no administrative request and no UPDATE, and `OwnerDropsEnvelope` discards its envelope. `HandlerDying` is the `h.t.Dying()` case of every handler: it returns the sentinel `DYING` (`bgp.FSMState(-1)`), after closing `h.conn` in OPENSENT and OPENCONFIRM. `HandlerJoin` then ends the loop without an envelope (fsm.go:1071). `ConnectStop` is the connect loop's `fsm.t.Dying()` case. The constant `Deletable` turns deletion on; it is on only in `fsm_safety`, so the violation runs keep the traces their findings describe.
- **`ended`** records the connections whose session end was reported to the owner. `stale` becomes TRUE when the receiver sends a message read on one of those connections on to the incoming channel. `Consumed` names the messages the ESTABLISHED receiver keeps to itself (KEEPALIVE, NOTIFICATION).

### How `AsPath` corresponds to the code

- **Data.** An attribute is a record `[code, segs]`. `segs` is the list of segments of an AS_PATH or AS4_PATH, and `<<>>` for any other attribute. A segment is a record `[type, as]`. The 2- and 4-octet parameter kinds of the packet library become one record: the widening at line 87 keeps every value.
- **Loops.**
  - The attribute loops become index operators: `FirstAsPathIndex` (first AS_PATH, with `break`) and `LastIndexOf` (the loop at 80-101 keeps overwriting its index).
  - The keep loop (161-175) is the `RECURSIVE` operator `KeepPrefix`. It processes the first segment even when `keepNum` is 0, as the Go loop does.
  - The merge loop (177-190) is a `FoldLeft` of `MergeAs4`.
- **Slices and aliasing.** The rebuilt AS_PATH is stored at `asAttrPos`, the index found before AS4_PATH was removed. The kept segments are the same `*As4PathParam` objects as the old AS_PATH's. When the old AS_PATH survives (a stale index), it shows their changed contents.
- **Panics.** An index out of range (line 180 or 197) is the outcome `[panic |-> TRUE]`.
- **The 255-AS limit** is the constant `SegMax`.
- **`ASLen`** belongs to the packet library, which is not in this repository. A sequence counts its ASes, a set counts 1 and a confederation segment 0, as the specification's "non-confed length" says.
- **`MCAsPath` is the environment.** The OLD speakers are not code of this repository. They follow RFC 4271 5.1.2 (or RFC 5065 5.3 inside a confederation) when they prepend. They pass AS4_PATH on unchanged and may emit the attributes in any order. `truth` applies the same prepends to the 4-octet path.

### How `PathAttrs` corresponds to the code

- **State.** Nodes are the numbers in `Nodes`, and `count` says how many exist. `NewPath` makes a root from one of `Roots` (attributes, source and NLRI of a received or local route); `Clone(n, isWithdraw)` makes a child with the `IsWithdraw` flag, kept in `withdraw`. `pathAttrs[n]`, `dels[n]` and `parent[n]` (0 for the root) are the fields of the same names. `info` holds the origin of the root only, as `root()`/`OriginInfo()` read it; `IsLocal` is "the source has no address".
- **Attributes** are records `[type, val]`. The value is what the rules read: a next hop is an address name, an AS_PATH the segment list of `AsPath`, COMMUNITIES and CLUSTER_LIST a sequence, MED and LOCAL_PREF a number. MED is a uint32 whose range is `MedMod`.
- **Lookups.** `getPathAttr` is a `RECURSIVE` walk that checks the node's `dels` before its own `pathAttrs`, as lines 360-369 do. `GetPathAttrs` is the `Walk` with a `seen` set for the 256-bit bitmap: it flags the node's dels first, then lists each unflagged attribute and flags it. The AS-path readers `GetAsPath`, `GetAsPathLen` and `getAsListofSpecificType` (with `GetAsList`) read the AS_PATH the way loop detection and best-path selection do: a 0 in the list for every segment of a kind not asked for. P6 is stated with them.
- **Calls.** Each call (`UpdatePathAttrs`, `PrependAsn`, `SetNexthop`, `SetCommunities`, `RemoveCommunities`, `SetMed`) is an operator that returns the list of `setPathAttr`/`delPathAttr` edits it makes, in code order, given the attributes the path shows before the call. The calls read and write different types, so no read sees a write of the same call. `ApplyToNode` applies the edits with `setPathAttr` (replace the same type in place, else append) and `delPathAttr` (append to `dels`).
- **`PrependAsn`** keeps the slice semantics. `asns` is made with capacity `repeat`, and `append(asns[:repeat], fst.AS...)` writes in place when the result fits. `repeat` is a uint8, and its largest value 255 is the segment limit, so both are `SegMax`.
- **Callers.** The code that clones and rewrites paths (policy, egress processing) is not in `src/`. `Operate` follows the specification instead ("clones replace mutation"): it changes a node that is not the root and has no clone of its own. `MayApply` is the assumption made about the callers: a clone gets either one `UpdatePathAttrs` or the actions of one policy statement, at most one per attribute family. `CallerDiscipline = FALSE` drops it.
- **Refinement.** `MCPathAttrs` maps every handle's map to `View(h)` (the `getPathAttr` of every type), its origin to `info[Root(h)]`, and its calls to `applied`. `AbsPath`'s `EditsOf` is `Edits`, so the abstract step applies the edits of the very call the code made.

### How `Batcher` corresponds to the code

- **Messages** are records `[withdrawn, attrs, nlri, mp]`: the IPv4 withdrawn routes, the path attributes, the IPv4 NLRI and the prefixes in MP_REACH_NLRI or MP_UNREACH_NLRI. The value of a path's MP_REACH_NLRI is taken to list the path's own prefix.
- **`createUpdateMsgFromPath(n)`** is the `msg == nil` call: its four cases (IPv4 or other family, withdraw or announce) build the message of one path. An MP withdrawal replaces the first MP_REACH/MP_UNREACH attribute of `GetPathAttrs` by an MP_UNREACH of the prefix. `MergePath` is the `msg != nil` call for an IPv4 announcement, the only kind the batcher merges.
- **Buckets.** The serialized attribute bytes are the attribute list itself. `Key` stands for the fnv32 hash and is deliberately coarse (the list's length), so different lists share a key and the byte comparison of line 311 matters. `AddPath` finds the bucket with the same key and bytes, else appends a new one. Buckets are emitted in the order their keys were first met: Go's map order is unspecified, and `UpdatesCarryPaths` is a statement about the bag of messages, which no order changes.
- **Length.** `AttrLen` is the packet library's `Len` (3-octet header plus the value); `Estimate` is the `msgLen` closure and `EmitBucket` splits a bucket where `msgLen + 32 > MaxMsgLen`.

### Abstractions

- A BGP message is one of `OPEN` (with a hold time), `OPEN_BAD` (an OPEN that `ValidateOpenMsg` rejects), `KEEPALIVE`, `UPDATE`, `NOTIFICATION` and `MALFORMED` (a header or body that fails to parse). An UPDATE that fails `ValidateUpdateMsg` behaves exactly like a good one in the receiver, because the `err` of that check shadows the outer one (fsm.go:557). So it is the `UPDATE` case.
- Path processing, policy and counters are left out. The properties do not depend on them.
- A write on a connection closed by the remote may still be buffered by the kernel, so it may succeed or fail. A write on a connection this side closed, or past its deadline, fails.

## 3. Runs

| Run | Expect | Checks | Shows |
|---|---|---|---|
| `fsm_safety` | pass | `TypeOK`, `NoAdminLogicPanic`, `EstablishedAfterHandshake`, `NoStaleDelivery`, `StateTransitionsEnumerated`, `EnabledPeerLeavesIdle` | The interleavings include a remote that closes connections at any time and a server that deletes the peer at any point. In all of them the panic is unreachable, ESTABLISHED needs a full two-way handshake on `fsm.conn`, and messages of a reported session never reach the owner. Every state change reported to the owner is one of the transitions of spec 4.1 (P7), and the -1 of a dying handler is never reported. Under the fairness below, a peer in IDLE whose administrative state is UP always reaches ACTIVE, unless the administrator takes it DOWN or the server deletes it first. This holds through any sequence of administrative requests, including an idle hold timer that fired while the peer was DOWN. About 2.2M distinct states in about 2.5 min. |
| `fsm_activate_deadlock` | violation | `ActivationCompletes` | The owner and the connect loop deadlock (finding 1). |
| `fsm_wait_hang` | violation | `HandlerTerminates` | A receiver left blocked on `msgCh` stops `h.t.Wait` for good (finding 2). |
| `fsm_recv_stops` | violation | `ReceiverRunsWhileEstablished` | One unparsable message leaves an ESTABLISHED session that never reads again (finding 3). |
| `fsm_hold_zero_write` | violation | `NoWriteFailureOnOpenConn` | A negotiated hold time of 0 makes every write fail (finding 4). |
| `aspath_reconcile` | pass | `PathReconstructed`, `AttributesPreserved` | Paths start with a sequence and have no full segment. Up to two OLD speakers outside the confederation keep the attribute order. The receiver then rebuilds the 4-octet path with the prepended ASes and keeps the other attributes in place. |
| `aspath_old_speakers` | violation | `PathReconstructed` | Every first-segment kind and length, prepends inside and outside the confederation, and reordering. TLC's shortest trace is finding 9; findings 6-8 are reached with the constants listed under Bounds. |
| `negotiation` | pass | `HoldIsMinimum`, `KeepaliveNotSlowerThanSpecified`, `SessionTimersCompatible`, `FamiliesAgree` | P1 holds. The armed ticker is never slower than P2's interval; truncation only shortens it. Between two speakers configured as RFC 4271 allows, each one's ticker fires at least three times per period of the other's hold timer, although `uint16(HoldTime)` in `buildopen` and the `time.Duration` of the hold timer both truncate, and a fractional hold time makes the two sides negotiate different values (3.5 s on one side, 3 s on the other). Both ends compute the same `rfMap` with `open2Cap`: the configured families both announce, or IPv4 unicast alone when one end sends no capabilities; so no UPDATE one sends fails the other's `ValidateUpdateMsg`. |
| `negotiation_subsecond` | violation | `KeepaliveNeverSubSecond` | A configured keepalive below 1 s arms a 1 ns ticker (finding 5). |
| `pathattrs_refine` | pass | `AttrListAgrees`, `UpdatesCarryPaths`, `AbsSpec`, `EbgpEgressRewrites`, `PrependRepeats` | Under the callers' rule the parent chain implements a private attribute map per path handle (the refinement of `AbsPath`). The wire list agrees with `getPathAttr`. eBGP egress satisfies P6, and the path length `GetAsPathLen` grows by exactly one, also when the leading sequence is full. Prepending with a repeat below the uint8 maximum is right. `CreateUpdateMsgFromPaths` over all paths says the same of every prefix, as often, as one message per path would, through key collisions and bucket splits. About 125k states in 1-2 min. |
| `pathattrs_prepend_full` | violation | `PrependRepeats` | `PrependAsn` with repeat 255 on a full leading sequence duplicates it and adds no AS (finding 10). |
| `pathattrs_ibgp_local_pref` | violation | `IbgpLocalPrefKept` | iBGP egress replaces a learned LOCAL_PREF with 100 (finding 11). |

### Findings

1. **Deadlock between the owner and the connect loop** (fsm.go:226 with 316). The trace:
   - ACTIVE picks an administrative DOWN over a connection waiting in `connCh`, and returns IDLE.
   - The administrator re-enables the peer, and IDLE's hold timer fires before IDLE drains `connCh`.
   - `StateChange(ACTIVE)` sets the state and blocks on `getActiveCh`.
   - The connect loop, woken by its ticker, sees ACTIVE, dials and blocks pushing onto the full `connCh`.
   - No handler runs, so the peer, and the owner's loop with it, stop for good.
2. **`h.t.Wait()` never returns** (fsm.go:606). The trace:
   - In OPENSENT the receiver reads a message and blocks on the unbuffered `msgCh`.
   - At the same moment the handler takes an administrative DOWN and returns.
   - The receiver never ends, and after 120 s `log.Fatal` kills the process.

   ESTABLISHED hold expiry has the same effect with a silent peer: it neither closes the connection nor kills the tomb (fsm.go:997).
3. **A parse error in ESTABLISHED ends the receive loop silently** (fsm.go:607, 951). The session stays ESTABLISHED without a reader. With a negotiated hold time of 0, nothing ever ends it.
4. **Negotiated hold time 0** makes every ESTABLISHED write fail with `WRITE_FAILED` (fsm.go:880). The specification says 0 means no keepalives and no hold expiry.
5. **`keepaliveTicker` clamps a zero period to 1 ns instead of 1 s** (fsm.go:771). A zero period comes from a configured keepalive interval below one second.

6. **Confederation ASes counted twice in `keepNum`** (part_001:158). `keepNum` adds `asConfedLen`, but the keep loop subtracts `ASLen`, which is 0 for a confederation segment. After an OLD member of the receiver's confederation prepends, one AS_TRANS too many is kept. Example: CONFED_SEQ[20] SEQ[23456] with AS4_PATH SEQ[70000] becomes CONFED_SEQ[20] SEQ[23456, 70000].
7. **ASes duplicated at the 255 split** (part_001:182). `param.AS[255-len(lastParam.AS):]` is evaluated after `lastParam` was filled to 255, so the whole segment follows. Example with SegMax 3: SEQ[20] SEQ[10, 10, 23456] with AS4_PATH SEQ[10, 10, 70000] becomes SEQ[20, 10, 10] SEQ[10, 10, 70000].
8. **An empty AS_SET** (part_001:167). With `keepNum` 0 the first segment is still cut to `AS[:0]`. A leading AS_SET, which an OLD iBGP speaker passes on without a prepend, becomes an empty AS_SET. The comment says only sequences reach that branch.
9. **Stale `asAttrPos`** (part_001:104, 197). When AS4_PATH precedes AS_PATH, the rebuilt AS_PATH overwrites the next attribute and the old one stays. If AS_PATH was last, the receive goroutine panics. RFC 4271 requires receivers to accept attributes in any order.

10. **`PrependAsn(asn, 255)` aliases `asns`** (path.go:540). `asns` has length and capacity `repeat`. When the first segment is a sequence and `repeat` is 255, the clamped count plus the segment's length is 255. `append(asns[:repeat], fst.AS...)` then writes the old ASes into `asns` itself, and the new leading segment `asns[repeat:]` holds them instead of `asn`. Example with SegMax 2: SEQ[1, 2] prepended with 7 twice becomes SEQ[1, 2] SEQ[1, 2]. A policy AS-prepend action with repeat 255 reaches it.
11. **iBGP LOCAL_PREF** (path.go:147). The condition `pref == nil || !path.IsLocal()` replaces the LOCAL_PREF of every learned path with 100. The specification keeps the LOCAL_PREF of a non-local source that carries one.

Not checked by a run, but found while modelling:
- `setPathAttr` never clears `dels` (path.go:360-383). After `RemoveCommunities` deletes COMMUNITIES on a clone, a later `SetCommunities` on the same clone is invisible to `getPathAttr` and `GetPathAttrs`. With `CallerDiscipline = FALSE` and `Operations <- MCPolicyOperations` in `pathattrs_refine.cfg`, TLC finds `AbsSpec` violated by that sequence. The callers are not in this repository, so whether one of them makes that sequence is not known here; it is listed as a hazard, not a finding.
- `UpdatePathAttrs` towards an eBGP peer keeps confederation segments in the AS_PATH (path.go:114). The glossary of the specification says they are stripped externally; its `update_for_peer` and P6 do not ask for it. Listed as a hazard.
- `sendNotificatonFromErrorMsg` counts a NOTIFICATION as sent only when the write *fails* (fsm.go:259).

### Mutants

Each property of a passing run is broken by a plausible bug in a mapped definition. The mutants are listed in `PROJECT.json`:

| Mutant | Breaks |
|---|---|
| An unbounded `errorCh` | `TypeOK` |
| The idle hold timer ignoring the administrative state | `NoAdminLogicPanic` |
| OPENCONFIRM accepting any message | `EstablishedAfterHandshake` |
| `loop` reporting without waiting for the receiver | `NoStaleDelivery` |
| `loop` sending the envelope without the `nextState >= IDLE` check, so the -1 of a dying handler is reported | `StateTransitionsEnumerated` |
| `idle` stopping its hold timer on ADMIN_STATE_DOWN but not restarting it on ADMIN_STATE_UP | `EnabledPeerLeavesIdle` |
| The keep loop cutting one AS too many (`AS[:keepNum+1]`) | `PathReconstructed` |
| `idx` in `UpdatePathAttrs2ByteAs` never assigned (stays 0) | `AttributesPreserved` |
| `getPathAttr` honouring only the node's own `dels` | `AbsSpec` |
| `GetPathAttrs` not flagging a listed type | `AttrListAgrees` |
| `SetNexthop` leaving MP_REACH_NLRI alone | `EbgpEgressRewrites` |
| `PrependAsn` putting the ASes behind the leading sequence's | `PrependRepeats` |
| A path joining the first bucket of its fnv key without comparing bytes | `UpdatesCarryPaths` |
| The hold-time minimum with its branches swapped | `HoldIsMinimum` |
| `<=` instead of `<` in the keepalive rule | `KeepaliveNotSlowerThanSpecified` |
| The keepalive interval always the configured one | `SessionTimersCompatible` |
| `open2Cap` keeping the configured families whatever the peer announced | `FamiliesAgree` |

### Bounds

- **Two connections** are enough for every interaction between a stale and a current connection:
  - a connection that lingers in `connCh`;
  - a second dial that blocks;
  - a session on connection 2 after one on connection 1.

  The dial stops succeeding once both are used, and the model then stops growing.
- **An outgoing capacity of 1** is enough to block the hold-expiry and Cease puts.
- **Remote hold times.** 30 s is below the configured 90 s, which exercises the third-of-hold keepalive rule. 0 exercises the no-hold-timer case; `fsm_safety` includes it.
- **`MCNegotiation`** covers:
  - configured hold times of 0, 3, 3.5, 5.9 (pass run) and 90 s;
  - keepalives of 1, 1.9 (pass run) and 30 s (0.5 s in the violation run);
  - for the two speakers, every pair of those configurations with a hold time of 0 or at least 3 s and a keepalive of at most a third of it, each with IPv4, IPv6 or both unicast families configured (overlapping, equal and disjoint sets), or b a speaker without capabilities;
  - OPEN hold times of 0, 3, 4, 5 and 90 s and the uint16 maximum.

  This includes both branches of every comparison and the truncation of a third of 4 and 5 s. In `MCNegotiation`, times are counted in 1/30 s. In that unit, configured values with one decimal, whole peer seconds and a third of them are whole numbers, so the code's float64 values are exact.

- **`MCAsPath`** uses:
  - `SegMax` 3 in place of 255;
  - AS numbers 10 (2-octet) and 70000, 70001 (4-octet), and the OLD speakers' AS 20;
  - original paths of one or two segments, with segments of 1 or 2 ASes (also 3 in `aspath_old_speakers`);
  - up to two prepends.

  The violation run `aspath_old_speakers` widens every input at once. The passing run's constants with one change isolate each finding: `PrependKinds = {"confed"}` (finding 6), `SegLens = {1, 2, 3}` (finding 7), `FirstTypes = {"AS_SET"}` (finding 8), `Reorder = TRUE` (finding 9).

  Segments of 3 make the full-segment case reachable, and two prepends cover a prepend into the leading sequence followed by a new segment. Two 4-octet ASes tell a duplicated AS from a correct one. All 24 attribute orders are tried in `aspath_old_speakers`. The passing run stays on the inputs the code handles correctly.

- **`MCPathAttrs`** uses three nodes: a root, a clone and a clone of the clone, two siblings, or two or three roots. That is enough for a `dels` entry to hide a root attribute from a grandchild and for siblings to be independent. Each clone takes up to 2 calls. There are three roots, five peer kinds (eBGP, eBGP in the confederation, iBGP, iBGP route-reflector client, route-server client) and 9 policy actions; those inputs reach every branch of the calls. For the batcher, `MaxMsgLen` is 90 in place of 4096: the local root's 21 octets of attributes let a second NLRI join its message (estimate 54 + 32) and make a third start a new one (59 + 32 > 90), and a root with a clone and a clone of the clone gives that bucket of three. A clone that replaces COMMUNITIES of the local root has a different list of the same length, so two buckets share a key. `SegMax` is 2, which makes a leading sequence full in the eBGP root. `MedMod` is 4, so the additive `SetMed` overflows and a negative replace wraps. Repeats are 0 and 1 in the passing run and 2 (the uint8 maximum, scaled) in `pathattrs_prepend_full`.

### Fairness

- **Weak fairness** applies to every step a goroutine of this process can take on its own: the handlers, the receiver's read failure and error puts, the sender's outgoing, Dying and error steps, the connect loop, and the owner's `StateChange`. The Go scheduler runs runnable goroutines, and a read of a closed socket returns. The fairness is per select case, not per goroutine. Go's `select` picks uniformly among the ready cases, so a case that stays ready is eventually taken, even while another case (for example a stream of redundant administrative requests) is ready again and again. The OpenSent and OpenConfirm timers are never reset, so they fire. The idle hold timer is reset only when an ADMIN_STATE_UP is accepted, which happens at most once per DOWN, so it fires too.
- **Strong fairness** applies to `OwnerActivated`, the connect loop taking the `getActiveCh` token. Go's `select` chooses uniformly among ready cases, so a token offered again and again is eventually taken.
- **No fairness** applies to the remote speaker (reads, closes), the administrator, the server's deletion, the route processor, the ESTABLISHED hold timer (every KEEPALIVE resets it) or the keepalive tickers.
- **`fsm_safety` uses `IdleSpec`.** Its fairness is four of the conditions above: the idle handler's start, its timer, the join and the owner's `StateChange`. These are enough for `EnabledPeerLeavesIdle`. `IdleSpec` assumes less than `Spec`, so a property it satisfies `Spec` satisfies too. Checking the 2.2M states under all forty conditions takes more than 10 minutes; under these four it takes about 2.5. The safety properties of the run do not depend on fairness. The violation runs use `Spec`, with every condition, so that their counterexamples are fair behaviours of the code.

`CHECK_DEADLOCK FALSE` is set in the `PeerFSM` runs because the code really can stop for good (findings 1 and 2), in `MCNegotiation` because the computation ends once the ticker is armed, in `MCAsPath` because the UPDATE's journey ends at the receiver, and in `MCPathAttrs` because a path stops changing once its clones and calls are made. Only `PeerFSM` has liveness properties. `EnabledPeerLeavesIdle` holds in `fsm_safety`. `HandlerTerminates` and `ActivationCompletes` are violated, and each is checked in its own violation run.

## 4. Not modelled, and why

- **Passive peers' accepted connections.** The server pushes them on `connCh`, outside `src/`.
- **Liveness after deletion.** The spec says that cancelling a peer's scope stops every activity promptly (section 5). The code does not always do so; see the deletion hazards in `PROJECT.json`. Two things do not stop: the connect loop blocked on `connCh` (the line of finding 1), and an ESTABLISHED receiver that reads until the remote closes. A liveness property "deleted leads to stopped" would fail at once on the first of these, the same blocking send `fsm_activate_deadlock` already shows. So no run checks it.
- **Message counters** (`bgpMessageStateUpdate`). They are per-type increments that nothing in `src/` reads back; counting them would add unbounded variables to `PeerFSM`, whose safety run already takes about 3 minutes with its liveness check. The one doubtful line, `sendNotificatonFromErrorMsg` counting a sent NOTIFICATION only when the write fails (line 259), is a one-call check a unit test reaches.
- **The AS numbers of the OPEN and the capability map.** `buildopen`'s AS field (AS_TRANS above 65535), the FourOctetASNumber value and `fsm.capMap` are left out of the capability model: nothing in `src/` reads them, and the peer-AS check is in the packet library.
- **A neighbor with no AFI/SAFI configured.** Its empty `rfMap` would disagree with its peer's IPv4 fallback, but whether the configuration defaults allow it is decided by the config package, outside `src/`.
- **`WatchEtcd`** (part_000). It is I/O only.
- **The rest of `table.Path`.** `SetExtCommunities` has the shape of `SetCommunities` and no rule reads it. The validation, zebra, UUID, filter and timestamp setters are plain field stores. `String`, `GetAsString`, `ToApiStruct` and the other getters only format or read.

## 5. Plan for the next sittings

In order of importance:

1. **Batcher order.** A per-prefix order property (withdrawals are emitted before the buckets, so an announce followed by a withdraw of one prefix in one list would reach the peer reversed) needs the callers that build the path list, which are not in `src/`.
2. **`PeerFSM` extensions:**
   - passive mode (accepted connections);
   - an abstract session specification (IDLE → ESTABLISHED → IDLE with one connection per session) that `PeerFSM` refines.
3. **`AsPath` input from the wire:** AS4_PATH longer than AS_PATH (the ignore branch of line 153), and the `newParams` panic at line 180 that an empty AS_PATH with empty AS4_PATH segments triggers.
4. **`PathAttrs` with the policy statement's order** of actions, once the policy code is in the repository, in place of the `MayApply` assumption.
