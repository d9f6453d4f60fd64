# tun2socks: TLA+ models and proofs

tun2socks reads packets from a TUN device, terminates their TCP and UDP flows in
a user-space network stack (gVisor) and relays every flow through a proxy. This
directory models the program's components, checks the models with TLC and proves
their main safety properties with TLAPS.

## The system

| part | state | operations | talks to |
|---|---|---|---|
| device, link endpoint (`core/device`) | file descriptor, outbound queue, two loops | Attach, Close, Wait | stack |
| stack (`core/stack.go`, `nic.go`, `route.go`, `icmp.go`, `option`) | gVisor stack, NIC, settings | CreateStack and its options, ICMP replies | device, forwarders |
| forwarders (`core/tcp.go`, `core/udp.go`) | slots of the TCP forwarder; the dispatch goroutine | accept a flow, hand it over, complete | tunnel |
| tunnel (`tunnel/tunnel.go`, `global.go`) | two unbuffered queues, process loop, proxy, UDP timeout | HandleTCP, HandleUDP, ProcessAsync, Close, SetProxy, SetUDPTimeout | forwarders, sessions, engine |
| TCP session (`tunnel/tcp.go`) | two connections, two copy goroutines, deadlines | dial, join, copy, half-close, close | proxy, manager, buffers |
| UDP session (`tunnel/udp.go`) | two packet connections, two copies, deadlines | dial, join, copy, extend, close | proxy, manager, buffers |
| statistics (`tunnel/statistic`) | live trackers, byte counters, rates | Join, Leave, Push, handle, ResetStatistic, Snapshot | sessions, REST |
| REST API (`restapi`) | requests and their tickers, the statistics function | authenticate, stream, close one, close all, netstats | manager, engine |
| buffers (`buffer`, `internal/pool`) | 17 pools of slices | Get, Put | sessions, transports |
| proxies (`proxy`) | handshakes, associations, deferred requests | DialContext, DialUDP, Read, Write | transports, dialer |
| transports (`transport`) | records, keystreams, obfuscation, packet formats | Read, Write, ReadFrom, WriteTo | proxies |
| dialer (`dialer`) | list of socket options | RegisterSockOpt, Reset, dial | proxies, engine |
| engine (`engine`, `main.go`) | key, device, proxy, stack, one mutex | Insert, SetICMPHandler, Start, Stop | all |

What makes it hard: connections are shared between a handler, two copies and REST
requests; the end of a session is decided by half-closes, absolute deadlines and
closes that race each other; the queues are unbuffered, so whoever hands a
connection over waits for the loop; counters are atomic one by one but not
together; buffers are recycled between goroutines; handshakes read from the same
stream as the data behind them; the engine is reconfigured under running sessions
and waits for them with its mutex held.

What correctness means here: a session, a dial, an association, a REST request and
an engine leave nothing behind however they end; no FIN overtakes data; deadlines
cut only what is finished or idle; what ought to end ends; sessions do not hold
each other up; a stream comes out as it went in, whatever wraps it; a buffer fits
what is read into it; one configuration is in force at a time.

## Modules

| module | models |
|---|---|
| `RelaySession` | abstract: the life cycle every session promises (connections, manager entry) |
| `TcpRelay` | one TCP session with its tracker, its peers and REST clients; implements `RelaySession` |
| `UdpRelay` | one UDP session likewise; implements `RelaySession` |
| `Tunnel` | forwarders, queues, process loop, several sessions, REST "close all"; each session is a `RelaySession` |
| `Statistic` | the byte counters of the manager, one direction |
| `Allocator` | the size-classed buffer pools |
| `ByteStream` | abstract: what a wrapped connection promises its reader |
| `AeadStream` | shadowsocks' AEAD records: salt, nonces, leftovers; implements `ByteStream` |
| `CipherStream` | shadowsocks' stream ciphers: IV and keystream positions; implements `ByteStream` |
| `ObfsReader` | reading side of simple-obfs, TLS and HTTP; implements `ByteStream` |
| `ObfsWriter` | writing side of simple-obfs TLS over the process-wide pool of buffers |
| `ProxyDial` | setting up a connection through every proxy but relay, the server included; the watcher of a SOCKS5 association |
| `RelayConn` | the gost relay: deferred request and response, streams and datagrams |
| `PacketCodec` | the datagram formats of SOCKS5 and shadowsocks, byte for byte |
| `LinkEndpoint` | the loops between device and stack, their queue, Attach and Wait |
| `NetStack` | CreateStack step by step with packets arriving meanwhile; TCP, UDP and ICMP handlers |
| `Engine` | Insert, Start, Stop, statistics and dials around the engine's mutex |
| `RestApi` | authentication and the streaming handlers of the REST server |
| `Shared` | `ObfsWriter` beside `Statistic` and `Allocator`: what all connections share |
| `Stack` | `LinkEndpoint` beside `NetStack`: the two halves of the stack |
| `GostRelay`, `Datagrams` | `RelayConn` and `PacketCodec` under names of their own, to stand beside other components |
| `MC*` | instances for TLC |
| `*Proofs` | proofs for TLAPS |

`PROJECT.json` maps every definition to the lines it models. Operators named in a
"Mutant" comment are deliberately wrong variants of the definition after them;
no specification uses them. Replacing the definition by its mutant makes TLC
report the property the mutant is listed for, which shows the property can fail.

**TcpRelay.** `hpc` is the program counter of `handleTCPConn`, `pc[d]` that of the
two `unidirectionalStream`s ("up" is origin to remote). A stream is four
counters: bytes sent by the peer, read by the copy, accepted by the destination,
read by the far peer. `Read` may return any number of bytes, the last ones with
EOF; the error is looked at after the write, as `io.CopyBuffer` does; a `Write`
blocks on a full window and may fail half way. `CloseRead`, `CloseWrite` and
`SetReadDeadline` are steps of their own, because a REST request can come between
them. The remote connection has a kind, since what a half-close or a deadline does
depends on the proxy: `tcp` has both, `wrapped` (obfuscated, encrypted or relayed
streams embedding `net.Conn`) only deadlines, `ssh` neither, `reject` answers EOF
to every read and an error to every write.

**UdpRelay.** `copyPacketData` arms its own deadline, reads, writes, extends the
deadline of the other side. Datagrams are numbered; `Foreign` ones come from
other senders and are dropped by the symmetric NAT filter. Any read or write may
fail once, which ends the direction. `SetUDPTimeout` may be called at any time;
a session keeps the value it started with.

**Tunnel.** A connection goes through `new`, `handshake`, `offered` (blocked in
HandleTCP or HandleUDP), `start`, and the phases of its session. The TCP forwarder
serves each request in a goroutine and holds a slot until HandleTCP returns; the
UDP forwarder runs on the dispatch goroutine, which HandleUDP therefore blocks.
Dials through a proxy outside `Responsive` may hang.

**Statistic.** Every Load, Store and Add is a step; pushes, the once-a-second
`handle` and `ResetStatistic` interleave freely. **Allocator.** `msb` wraps as the
`uint16` it is; `sync.Pool` is external and may drop anything. A user puts a buffer
once and does not use it afterwards: that the callers of `Put` keep to this is not
shown, except where `ObfsWriter` models them.

**AeadStream, CipherStream, ObfsReader.** Bytes are numbered, so `got` shows what
a reader was handed. A sealed piece carries its kind, nonce and size and opens
only under the nonce it was sealed with; nonces wrap at `NonceSpace`, as the
little-endian counter does. A stream cipher's byte is readable only at the
keystream position it was enciphered at. Reads and writes take any length of
`Lens`, in both styles (`Read`/`WriteTo`, `Write`/`ReadFrom`); the connection may
be cut, or time out, at any point.

**ObfsWriter.** A buffer is taken from the pool, filled and given back as the code
does it: for records after the write, for the hello before it.

**ProxyDial.** `in` is what the server has sent and the client has not read, as
units with the field they belong to; `out` the message the server has not read.
The server may answer with any code, and close at any point. Early data may follow
the answer at once. **RelayConn** splits `Write` into its writes to the
connection, and `Read` into the response, the length and the body.

**PacketCodec** works on sequences of bytes over a small alphabet in which address
types, lengths and data overlap.

**LinkEndpoint, NetStack.** Both loops with their selects, the bounded queue that
drops when full, the context's cancellation and the wait group; the options of
CreateStack in their order, and a packet may arrive as soon as the NIC exists.
`withMulticastGroups` is two steps, the permanent addresses and the groups, since its
`JoinGroup` may fail when the addresses are there already. `HandlePacket` asks the
custom handler first, answers IPv4 echo requests if there is a route back and the
write succeeds, and leaves everything else, IPv6 included, unhandled. Once the stack
is created, UDP and IPv4 echo requests to unicast addresses are served, and those to
groups if groups are configured; nothing is claimed of broadcasts, of IPv6 packets
for the ICMP handler or of an endpoint that gVisor refuses for other reasons than
a missing route.

**Engine.** `pc[c]` is where a caller is inside Start or Stop: one step per
function of `start`, each with its error. The mutex is free again before
`log.Fatalf` ends the process. `phase` follows whether the calls alternate as in
`main.go`; two stops or two starts in a row are modelled, and `StopShutsDown` and
`KeyInForce` promise nothing of them (a second Stop closes the same descriptor again,
a second Start leaves the first device open). A start that fails inside CreateStack
leaves `_defaultStack` nil, its device open and perhaps a dispatch goroutine reading.
`restAPI` sets the statistics function in one step and starts the server in the next;
on a restart, servers of earlier starts may call the old function or the new one,
which do the same. The dispatch goroutine of a device may be in HandleUDP when Stop
comes.
**RestApi.** The authenticator, the upgrade, the ticker and its loop.

### Instances that hold several components

`MCShared`, `MCStreams`, `MCProxies`, `MCStack` and `MCEngine` put components that
do not share state, or that only read each other's, into one state space: a
variable `part`, fixed at the start, says which of them moves. Nothing is
interleaved that the code interleaves only through the modelled interface: where
components do interact, one module models both (sessions and the manager in
`Tunnel`, dialer and statistics function in `Engine`, buffers and connections in
`ObfsWriter`). An instance extends one component and instantiates the others, and
assumes the others' assumptions by name. `Shared`, `Stack`, `GostRelay` and
`Datagrams` hold these instances, so that a run and a proof speak of the same ones.

## Runs

| run | question | instance | states |
|---|---|---|---|
| `tcp_relay` | Does a session leak, cut a stream short, or break its life cycle? Does a half-closed, or REST-closed, session end? | two bytes up, one down, window 1, timeout 1, all kinds, a REST client | 699,820 |
| `tcp_ssh` | ... and over SSH? **Violated** | kind `ssh` | |
| `udp_relay` | Is a session cut while in use, are datagrams reordered or let through, does a silent one end though foreign datagrams keep coming? | two datagrams each way, queue 2, timeouts 1 and 2, a REST client | 375,130 |
| `tunnel_live` | Do life cycles hold for the composition? Do hand-overs return, are connections served, does Close stop the intake, does "close all" end all it listed? | one TCP, one UDP connection, a good and a hanging proxy, two calls of ProcessAsync | 53,592 |
| `tunnel_close` | Does Close release waiting connections? **Violated** | one TCP, one UDP connection | |
| `shared_state` | Do obfuscated connections send their own bytes, do the counters agree, do pooled slices fit their pools and buffers the sizes asked for? | two connections, two buffers, six bytes in chunks of two; two trackers, two ticks, a reset; four pools, all sizes and capacities up to one beyond the largest (the code's 17 pools are the subject of the proofs) | 519,606 |
| `obfs_hello` | ... the hello too? **Violated** | two connections, two buffers | |
| `streams` | Do all three wrappers deliver the stream, all of it, under any sizes of calls? | five bytes, records of at most two, nonces modulo five | 58,884 |
| `proxies` | Do failed dials clean up, does success mean granted, is data swallowed, does an association end as a whole, do relayed replies and datagrams survive? | all proxies with and without credentials, two units of early data; two writes and replies of lengths 0..3; two packets of each format | 250,422 |
| `socks5_short` | ... those cut short in their header, over SOCKS5? **Violated** | two packets of that format | |
| `stack` | Is the stack configured before packets arrive, is it serving when it is created, are attempts counted, packets ordered, and do the loops end? | queue 2, three packets out, two in, sizes around the MTU; valid and invalid options; packets of every protocol to unicast, group and broadcast addresses | 264,780 |
| `engine` | Is one configuration in force, does Stop shut down, are statistics there when asked for, do calls return, do REST handlers end? | two callers, seven keys, three calls that alternate or two that do not; all kinds of requests | 352,017 |

Why the bounds suffice: a window of one and two bytes make a `Write` block in the
middle of a chunk and a `Read` return part of what is there; timeouts of one and two
ticks let events fall before, between and at expiry; one REST client closes the
tracker before, between and after the handler's own closes (two clients against one
another are covered by the proofs); a TCP and a UDP session meet in the loop, the
manager and the REST request (more of them, and more than one for a slot, are covered
by the proofs of `TunnelProofs`). Lengths below, at and above the record size leave rests and make several
records; nonces wrap within five bytes; every code and every prefix of every answer
occurs; the two keys of the engine share no setting and the others fail Start at
each of its checks; three calls are start, stop and restart. Runs whose system may
rest (all requests answered, tunnel or engine closed, bounds used up) are checked
without deadlock detection.

### The four violations

* `tcp_ssh`: "tcpWaitTimeout implements a TCP half-close timeout"
  (`src/tunnel/tunnel.go:18`), but the connection of the SSH proxy refuses
  `SetReadDeadline`, the relay ignores the error (`src/tunnel/tcp.go:72`), and
  there is no `CloseWrite`. After the origin's FIN nothing tells the remote side,
  and the session stays as long as the server keeps the channel.
* `tunnel_close`: "Close closes the Tunnel and releases its resources"
  (`src/tunnel/tunnel.go:96`), but it only stops the loop. A connection waiting
  in a hand-over, or handed over later, waits for ever with its slot or, for UDP,
  with the dispatch goroutine.
* `obfs_hello`: `makeClientHelloMsg` returns the bytes of a buffer its deferred
  `Put` has already given back (`src/transport/simple-obfs/tls.go:128`). Another
  connection may fill the buffer before the hello is sent.
* `socks5_short`: "insufficient length of packet" and "socks5 UDP addr is nil"
  (`src/transport/socks5/socks5.go:372`, `404`) are the errors of a datagram that ends
  inside its header. `ReadFrom` of the SOCKS5 packet connection hands the decoder the
  whole buffer and not the bytes received (`src/proxy/socks5/socks5.go:177`), so such
  a datagram is completed from what the buffer held before, accepted, and returned
  with a negative length, by which the relay slices its buffer
  (`src/tunnel/udp.go:83`).

Five more departures met while modelling are modelled as they are and stated as the
exception of a property rather than by a run of their own:

* The HTTP proxy parses the CONNECT response with a `bufio.Reader` it then drops,
  with what the reader held of the data behind (`NothingSwallowed` excepts HTTP).
* `Read` of HTTP obfuscation looks for the end of the response header in its first
  read only, and takes a header split over two reads for the end of the stream
  (`src/transport/simple-obfs/http.go:46`): `ImplementsByteStream` and
  `EverythingArrives` treat the connection as cut there.
* `ReadFrom` of the AEAD writer seals an empty record at EOF, which its reader
  answers with `ErrZeroChunk` instead of EOF (`EverythingArrives` ends there).
* `DialUDP` of the shadowsocks proxy leaves its packet connection open if the name
  of the server does not resolve (`FailureLeavesNothing` excepts it).
* `copyPacketData` forwards a datagram and extends the opposite deadline afterwards
  (`src/tunnel/udp.go:83`, `86`): a deadline that expires in between cuts a session
  that was just used (`CutOnlyWhenIdle` counts a direction as used when its deadline
  has been extended).

### Fairness

Weak fairness on what the Go scheduler and the clock do: runnable goroutines run,
timers advance. Nothing is assumed about peers sending, finishing or answering a
dial, except where named here.

* `TcpRelay`: `PeersRead` (peers read what they are sent) for the two liveness
  properties; the relay sets no write deadline, so without it a `Write` may block a
  session for ever.
* `Tunnel`: each offered connection is treated fairly, since a channel queues its
  blocked senders in order and `select` picks at random; a handshake ends by
  gVisor's retransmission limit; dials return only for `Responsive` proxies;
  sessions end only once their remote connection is closed, which is what the
  session runs establish; `ProcessAsync` is called, by the package's `init`.
* `UdpRelay`: unexpected I/O errors may happen but need not.
* Streams: a reading caller keeps reading, the network delivers what it accepted.
* `ProxyDial`, `RelayConn`: a server answers or closes; the copy loop keeps reading.
* `LinkEndpoint`: strong fairness for the end of the outbound loop, as its `select`
  chooses at random between the cancelled context and a packet.
* `Engine`: the tunnel's loop takes a connection offered to it. Weak fairness is
  enough for the mutex because the number of calls is bounded.
* `RestApi`: strong fairness for a failing write to a client that has left, since
  the first writes may still be buffered.

## Proofs

For every value of the constants (any number of clients, connections, callers,
keys, buffers, packets, bytes, datagrams, lengths and timeouts), from the named
`ASSUME` of each module only. Every safety property a run checks is proved, with
the exceptions at the end of this section.

* `TcpProofs`, on `TcpRelay`: `TypeCorrect`, `RelayNoLeak`, `RelayListedIsOpen`,
  `RelayFinAfterAllBytes`, `RelayHalfCloseGrace`, `RelayDeadlineFixed`,
  `RelayImplementsSession`. The invariant is `TypeOK` with `PhaseInv` (the
  handler's position determines what the copies and connections can be),
  `ListInv` (a client about to close has already unlisted, needed for the order
  unlist-then-close), `GraceInv` (FIN before deadline) and `StreamInv` (where the
  bytes are when a copy ends: EOF is acted on only with nothing unwritten).
* `TcpProofs`, on `RelayConn`: `RelayStreamParses` from `WriteInv` (what has been
  written fits the writes so far, the request is pending exactly as long as nothing
  has been written, and a body is only to come directly behind its length) and
  `RelayRepliesInOrder` from `ReadInv`. The latter numbers the units of the server's
  stream: `Consumed` of them have been read, and `Lined` says that what is unread
  is the same stream from there on. Without the count nothing says that a
  `Read` in the middle of a datagram finds that datagram's body next.
* `UdpProofs`, on `UdpRelay`: `TypeCorrect`, `SessionNoLeak`,
  `SessionCutOnlyWhenIdle`, `SessionForwardInOrder`, `UdpImplementsSession`. Besides
  `PhaseInv` and `ListInv`: `IdleInv` (a deadline plus the quiet time is at least
  the timeout, unless its reader is about to re-arm it) and `OrderInv` (forwarded,
  read and queued datagrams are increasing).
* `UdpProofs`, on `PacketCodec`: `CodecDatagramsSurvive`, the round trips of whole
  datagrams in the three formats for all byte sequences, and the refusal of short ones
  in the two shadowsocks formats. The invariant is only that the buffer keeps
  its length (`BufferInv`): the lemmas show that the decoders look at no more of the
  buffer than the datagram put there. They assume that a name is shorter than what
  its length byte can say, as DNS names are, and that a datagram fits the
  buffer where the property says so.
* `TunnelProofs`: `TypeCorrect`, `TunnelHeldBack`, `TunnelSessions`, the last
  saying that every session of the tunnel refines `RelaySession`. `LifeInv` ties
  `listed`, `shut` and the REST request's sets to a session's phase, `SlotInv`
  says a connection in its handshake holds a slot.
* `AeadStreamProofs`: `TypeCorrect`, `NoncesInStep`, `AeadImplementsByteStream`.
  The pieces on the wire form a chain (`WireInv`): the first is the one the reader
  expects, each `Follows` the one before, and the piece the writer seals next
  continues it (`LastInv`). Kind, nonce, size and position of a piece are tied
  together there, so neither the nonces nor the bytes could be proved alone.
* `SharedProofs`, on `ObfsWriter`: `TypeCorrect`, `WriterRecordsInOrder`. `OwnInv`: a
  record's buffer is out of the pool, in one connection's hands and holds its chunk.
  The same does not hold of a hello's buffer, which is the violation above.
* `SharedProofs`, on `Allocator`: `BuffersFitPools` and the action property
  `BuffersAppropriate`, for up to 17 pools and any sizes. `BuffersInv` adds to
  `PooledCapacity` that a buffer is in one place, that what is held or pooled exists,
  and the capacities it can have; that `Get` picks the least sufficient class
  rests on what `msb` computes, powers of two and `bits.Len32`.
* `SharedProofs`, on `Statistic`: `CountersAccountForBytes`. `CountersInv` compares
  the counters with two sums over the trackers, of the bytes moved and of the bytes
  added to the total (`TotalInv`), and with what `handle` has loaded and not yet
  published (`RateInv`). A step changes one summand; that the sum changes
  by as much is a lemma about sums over finite sets.
* `ProxyDialProofs`: `DialLeavesNothing` from `SocketInv` (who is responsible for
  an open socket), `DialOnlyIfGranted` from `HandInv` (at every point of a
  handshake, what the client reads next answers what it sent last and carries the
  server's decision; needed because client and server move independently) and
  `DialNothingSwallowed` from `AnswerInv` (how much of the answer lies before the
  early data, wherever the client is in it).
* `StackProofs`, on `LinkEndpoint`: `TypeCorrect`, `LinkQuietAfterWait`,
  `LinkOutboundOrdered`. `LoopInv` counts the loops, `LineInv` orders the packets
  written, in the loop's hands and in the queue.
* `StackProofs`, on `NetStack`: `StackConfiguredFirst`, `StackAttemptsCounted`.
  `SetInv`: every setting has the value of the options applied
  so far, which locates the NIC behind handlers and buffer sizes; `RequestInv`: what
  that means for a request that has arrived; `CountInv`: the forwarder's counter is
  the cardinality of the set of attempts under way.
* `EngineProofs`: `DialsOneConfiguration`, `StatisticsAreReady`,
  `StopLeavesNothing`, `StartPutsKeyInForce`. `MutexInv`: one caller is inside start
  or stop, and the key it reads does not change. `OptsInv`: the options in force are
  a prefix of one key's, so any dial in between sees one. `StatsInv`: the statistics
  function is set wherever a server is about to start or has started. `ShutInv`: as long as calls
  alternate, one caller at a time is not idle and the engine's device is the only one
  that may not be over; without it nothing says that the device Stop closes is the
  open one. `ForceInv`: what each place of start has put in force for the next ones
  to rely on, and how many post-up commands have been executed.

Sums, powers and sequences of any length need induction. The induction theorems of
the library take the induction hypothesis as an operator, which the provers do not
instantiate; the proofs use its first-order theorem that a well-founded relation has
minimal elements (`WFMin`) instead, on the set of counterexamples.

The proofs found places where the models left the meaning of a step open: overlapping
`CASE` arms in `RelayConn!Write` and in the address encoding of `PacketCodec`, which
TLC resolves by taking the first. They are written as the code's `if` and `else` now.

The type invariants, and the auxiliary invariants `ListedIsOpen`, `DeadlineFixed`,
`HeldBack`, `QuietAfterWait` and the UDP session's `NoLeak`,
are proved and have no run.

Only model-checked: liveness (it needs fairness and `ENABLED`, which this prover does
not handle), which is all that the runs check of `RestApi`; and the refinements of
`ByteStream` by `CipherStream` and `ObfsReader`, proved for `AeadStream` only.

## Not modelled

* DNS resolver: an `init` that points `net.DefaultResolver` to the dialer.
* Metadata, logging, version information, the JSON of the REST answers, its hello,
  version and pprof endpoints: output without behaviour.
* Ciphers and the tables that choose them, gVisor, gost's encoding of requests,
  SSH: external, modelled by how this code uses them.
* Opening a device and setting its MTU, setting a socket option, resolving a name:
  system calls, which appear as steps that succeed or fail.
* `HTTPObfs.Write`, which prints one request in front of the first data.
* `ReplaceGlobal`, which nothing outside of the package's `init` calls.
* Flags, YAML and the container's entry script: keys enter the engine parsed.
