------------------------------- MODULE Engine -------------------------------
(***************************************************************************)
(* The engine: Insert, SetICMPHandler, Start and Stop under _engineMu, and *)
(* what they configure: the dialer's socket options, the tunnel's proxy    *)
(* and UDP timeout, the statistics function and REST server, the device    *)
(* and the stack.  Sessions dial and the REST server asks for statistics   *)
(* meanwhile.  A failed Start ends the process, but only after the mutex   *)
(* is free again.  The device, the stack and the sessions are external.    *)
(***************************************************************************)
EXTENDS Naturals, Sequences, SequencesExt

CONSTANTS
    Nil,           \* nil
    Callers,       \* goroutines that call the engine
    Keys,          \* the Keys they insert
    Protocols,     \* names of the registered proxy protocols
    Multicast,     \* the multicast addresses
    Second,        \* time.Second, in the unit of a Key's UDPTimeout
    DefaultTimeout,\* udpSessionTimeout
    MaxCalls,      \* bound: calls of Start and Stop, as long as they alternate,
    MaxOverlapping,\* and once they do not
    MaxDials       \* bound: dials of sessions

ASSUME EngineAssumption ==
    /\ Second \in Nat \ {0} /\ DefaultTimeout \in Nat
    /\ MaxCalls \in Nat /\ MaxOverlapping \in 0 .. MaxCalls /\ MaxDials \in Nat
    /\ Keys # {} /\ Nil \notin Callers \cup Keys

VARIABLES
    mu,          \* _engineMu: its owner, or Nil
    pc,          \* pc[c]: where caller c is
    calls,       \* calls of Start and Stop so far
    phase,       \* "stopped", "running" or "busy" while Starts and Stops alternate, the next
                 \* after the return of the last, as in main.go; else "overlapping" from then on
    exited,      \* the process has ended
    key,         \* _defaultKey
    icmp,        \* _icmpHandler
    device,      \* _defaultDevice: index into devices, or 0
    stack,       \* _defaultStack: index into stacks, or 0
    opts,        \* the dialer's socket options
    timeout, proxy,     \* of the tunnel
    statsFunc,   \* _stackStatsFunc is set
    servers,     \* states of the REST servers started so far
    posts,       \* post-up commands executed
    devices,     \* devices opened: driver, open or closed, state of the dispatch goroutine
    stacks,      \* stacks created: their key, handler and groups
    dials, dial, \* dials so far; the last one: the options applied
    stats        \* a request for statistics: "none", "waiting", "answered" or "refused"

ctl  == <<mu, pc, calls, phase, exited>>
eng  == <<key, icmp, device, stack>>
conf == <<opts, timeout, proxy, statsFunc, servers, posts>>
objs == <<devices, stacks>>
obs  == <<dials, dial, stats>>
vars == <<ctl, eng, conf, objs, obs>>

Init ==
    /\ mu = Nil /\ pc = [c \in Callers |-> "idle"] /\ calls = 0
    /\ phase = "stopped" /\ exited = FALSE
    /\ key = Nil /\ icmp = Nil /\ device = 0 /\ stack = 0
    /\ opts = <<>> /\ timeout = DefaultTimeout /\ proxy = "reject"
    /\ statsFunc = FALSE /\ servers = <<>> /\ posts = 0
    /\ devices = <<>> /\ stacks = <<>> /\ dials = 0 /\ dial = <<>> /\ stats = "none"

-----------------------------------------------------------------------------
\* Parsing.  A URL may not be given, may have no scheme, and is accepted or not.
Scheme(u, default) == IF u.scheme = "" THEN default ELSE u.scheme

ParseRestAPI(u) == u.ok /\ Scheme(u, "http") = "http"
ParseDevice(u) == u.ok /\ Scheme(u, "tun") \in {"tun", "fd"}

\* proxy.Parse picks the protocol from the registered ones.
ParseProxy(u) == u.ok /\ Scheme(u, "socks5") \in Protocols

\* Blank entries are skipped.
Groups(k) == k.groups \ {""}
ParseMulticastGroups(k) == Groups(k) \subseteq Multicast

\* The socket options a key asks for, in the order of their registration.
Bind(k) == IF k.iface = "" THEN <<>> ELSE <<<<"bind", k.iface>>>>
Mark(k) == IF k.mark = 0 THEN <<>> ELSE <<<<"mark", k.mark>>>>
SockOpts(k) == Bind(k) \o Mark(k)

-----------------------------------------------------------------------------
\* Mutant: the key is replaced without the mutex.
InsertUnlocked(c, k) ==
    /\ ~exited /\ pc[c] = "idle" /\ key # k /\ key' = k
    /\ UNCHANGED <<ctl, icmp, device, stack, conf, objs, obs>>

Insert(c, k) ==
    /\ ~exited /\ pc[c] = "idle" /\ mu = Nil /\ key # k /\ key' = k
    /\ UNCHANGED <<ctl, icmp, device, stack, conf, objs, obs>>

SetICMPHandler(c) ==
    /\ ~exited /\ pc[c] = "idle" /\ mu = Nil /\ icmp = Nil /\ icmp' = "handler"
    /\ UNCHANGED <<ctl, key, device, stack, conf, objs, obs>>

At(c, place) == ~exited /\ pc[c] = place
Go(c, place) == pc' = [pc EXCEPT ![c] = place]
Step(c, from, to) == At(c, from) /\ Go(c, to) /\ UNCHANGED <<mu, calls, phase, exited>>

Call(c, first, before) ==
    /\ At(c, "idle") /\ calls' = calls + 1
    /\ calls < (IF phase = before THEN MaxCalls ELSE MaxOverlapping)
    /\ phase' = (IF phase = before THEN "busy" ELSE "overlapping") /\ Go(c, first)
    /\ UNCHANGED <<mu, exited, eng, conf, objs, obs>>

Start(c) == Call(c, "start", "stopped")
Stop(c)  == Call(c, "stop", "running")

Lock(c, from, to) ==
    /\ At(c, from) /\ mu = Nil /\ mu' = c /\ Go(c, to)
    /\ UNCHANGED <<calls, phase, exited, eng, conf, objs, obs>>

\* start() returns an error: the mutex is unlocked, and log.Fatalf comes next.
Fail(c) ==
    /\ Go(c, "fatal") /\ mu' = Nil
    /\ UNCHANGED <<calls, phase, exited>>

Fatal(c) ==
    /\ At(c, "fatal") /\ exited' = TRUE
    /\ UNCHANGED <<mu, pc, calls, phase, eng, conf, objs, obs>>

\* general: an unknown log level is an error; then dialer.Reset().
EmptyKeyOrLevel(c) ==
    /\ At(c, "general") /\ (key # Nil => ~key.level) /\ Fail(c)
    /\ UNCHANGED <<eng, conf, objs, obs>>

\* Mutant: the options of the last start are kept.
ResetKeeps(c) ==
    /\ Step(c, "general", "bind") /\ key # Nil /\ key.level
    /\ UNCHANGED <<eng, conf, objs, obs>>

Reset(c) ==
    /\ Step(c, "general", "bind") /\ key # Nil /\ key.level
    /\ opts' = <<>>
    /\ UNCHANGED <<eng, timeout, proxy, statsFunc, servers, posts, objs, obs>>

BindInterface(c) ==
    /\ \/ /\ Step(c, "bind", "mark") /\ key.iface # "missing"
          /\ opts' = opts \o Bind(key)
       \/ /\ At(c, "bind") /\ key.iface = "missing" /\ Fail(c) /\ UNCHANGED opts
    /\ UNCHANGED <<eng, timeout, proxy, statsFunc, servers, posts, objs, obs>>

RoutingMark(c) ==
    /\ Step(c, "mark", "timeout") /\ opts' = opts \o Mark(key)
    /\ UNCHANGED <<eng, timeout, proxy, statsFunc, servers, posts, objs, obs>>

\* A timeout of zero leaves the tunnel's as it is, the one of an earlier start included.
SetUDPTimeout(c) ==
    /\ \/ /\ Step(c, "timeout", "rest")
          /\ key.timeout = 0 \/ key.timeout >= Second
          /\ timeout' = IF key.timeout > 0 THEN key.timeout ELSE timeout
       \/ /\ At(c, "timeout") /\ key.timeout > 0 /\ key.timeout < Second
          /\ Fail(c) /\ UNCHANGED timeout
    /\ UNCHANGED <<eng, opts, proxy, statsFunc, servers, posts, objs, obs>>

-----------------------------------------------------------------------------

\* Mutant: the server is started before the statistics function is set.
RestAPIServesFirst(c) ==
    /\ \/ Step(c, "rest", "netstack") /\ ~key.rest.given /\ UNCHANGED <<statsFunc, servers>>
       \/ /\ Step(c, "rest", "serve") /\ key.rest.given /\ ParseRestAPI(key.rest)
          /\ servers' = Append(servers, "starting") /\ UNCHANGED statsFunc
       \/ Step(c, "serve", "netstack") /\ statsFunc' = TRUE /\ UNCHANGED servers
       \/ /\ At(c, "rest") /\ key.rest.given /\ ~ParseRestAPI(key.rest) /\ Fail(c)
          /\ UNCHANGED <<statsFunc, servers>>
    /\ UNCHANGED <<eng, opts, timeout, proxy, posts, objs, obs>>

\* SetStatsFunc, and then the server is started in a goroutine.  The servers of earlier
\* starts read the variable meanwhile, without a lock: a word, the old function or the
\* new one, and both do what StatsFunc does.
RestAPI(c) ==
    /\ \/ Step(c, "rest", "netstack") /\ ~key.rest.given /\ UNCHANGED <<statsFunc, servers>>
       \/ /\ Step(c, "rest", "serve") /\ key.rest.given /\ ParseRestAPI(key.rest)
          /\ statsFunc' = TRUE /\ UNCHANGED servers
       \/ Step(c, "serve", "netstack") /\ servers' = Append(servers, "starting") /\ UNCHANGED statsFunc
       \/ /\ At(c, "rest") /\ key.rest.given /\ ~ParseRestAPI(key.rest) /\ Fail(c)
          /\ UNCHANGED <<statsFunc, servers>>
    /\ UNCHANGED <<eng, opts, timeout, proxy, posts, objs, obs>>

\* netstack: the first checks.  The pre-up command's outcome is only logged.
Netstack(c) ==
    /\ At(c, "netstack")
    /\ IF key.proxy.given /\ key.device.given /\ ParseMulticastGroups(key)
       THEN Step(c, "netstack", "proxy") ELSE Fail(c)
    /\ UNCHANGED <<eng, conf, objs, obs>>

SetProxy(c) ==
    /\ \/ /\ Step(c, "proxy", "device") /\ ParseProxy(key.proxy)
          /\ proxy' = Scheme(key.proxy, "socks5")
       \/ At(c, "proxy") /\ ~ParseProxy(key.proxy) /\ Fail(c) /\ UNCHANGED proxy
    /\ UNCHANGED <<eng, opts, timeout, statsFunc, servers, posts, objs, obs>>

\* parseDevice: opening the device may fail, too.
OpenDevice(c) ==
    /\ \/ /\ Step(c, "device", "stack") /\ ParseDevice(key.device)
          /\ devices' = Append(devices, [driver |-> Scheme(key.device, "tun"), open |-> TRUE,
                                         closes |-> 0, dispatch |-> "none"])
          /\ device' = Len(devices) + 1
       \/ At(c, "device") /\ Fail(c) /\ device' = 0 /\ UNCHANGED devices
    /\ UNCHANGED <<key, icmp, stack, conf, stacks, obs>>

\* CreateStack starts the device's dispatch goroutine with the NIC.  A buffer size
\* that does not parse ends the start before, and an option that fails before or
\* after there is a NIC, whose goroutine then goes on reading.
CreateStack(c) ==
    /\ \/ /\ Step(c, "stack", "post") /\ key.sizes
          /\ stacks' = Append(stacks, [key |-> key, icmp |-> icmp, groups |-> Groups(key),
                                       device |-> device, open |-> TRUE])
          /\ stack' = Len(stacks) + 1
          /\ devices' = [devices EXCEPT ![device].dispatch = "reading"]
       \/ At(c, "stack") /\ ~key.sizes /\ Fail(c) /\ UNCHANGED <<stack, objs>>
       \/ /\ At(c, "stack") /\ key.sizes /\ Fail(c) /\ stack' = 0 /\ UNCHANGED stacks
          /\ devices' \in {devices, [devices EXCEPT ![device].dispatch = "reading"]}
    /\ UNCHANGED <<key, icmp, device, conf, obs>>

Return(c, from, to) ==
    /\ At(c, from) /\ Go(c, "idle") /\ mu' = Nil
    /\ phase' = (IF phase = "busy" THEN to ELSE phase)
    /\ UNCHANGED <<calls, exited>>

\* The deferred post-up command runs when netstack succeeds; then start returns.
PostUp(c) ==
    /\ Return(c, "post", "running")
    /\ posts' = IF key.postUp THEN posts + 1 ELSE posts
    /\ UNCHANGED <<eng, opts, timeout, proxy, statsFunc, servers, objs, obs>>

-----------------------------------------------------------------------------
\* Mutant: the stack is closed with the device left open.
CloseDeviceSkipped(c) ==
    /\ Step(c, "stopping", "stack.Close")
    /\ UNCHANGED <<eng, conf, objs, obs>>

\* Device.Close: the descriptor is closed each time, unless the driver is fd.
CloseDevice(c) ==
    /\ Step(c, "stopping", "stack.Close")
    /\ devices' = IF device = 0 THEN devices
                  ELSE [devices EXCEPT ![device].open = FALSE,
                            ![device].closes = IF @ > 0 /\ devices[device].driver = "fd"
                                               THEN @ ELSE @ + 1]
    /\ UNCHANGED <<eng, conf, stacks, obs>>

CloseStack(c) ==
    /\ Step(c, "stack.Close", "stack.Wait")
    /\ stacks' = IF stack = 0 THEN stacks ELSE [stacks EXCEPT ![stack].open = FALSE]
    /\ UNCHANGED <<eng, conf, devices, obs>>

\* Mutant: stop does not wait for the stack.
WaitStackNot(c) ==
    /\ Return(c, "stack.Wait", "stopped")
    /\ UNCHANGED <<eng, conf, objs, obs>>

\* Wait returns when the dispatch goroutine of the stack's device is over.
WaitStack(c) ==
    /\ stack # 0 => devices[stacks[stack].device].dispatch = "ended"
    /\ Return(c, "stack.Wait", "stopped")
    /\ UNCHANGED <<eng, conf, objs, obs>>

-----------------------------------------------------------------------------
Dispatch(d, from, to) ==
    /\ ~exited /\ devices[d].dispatch = from
    /\ devices' = [devices EXCEPT ![d].dispatch = to]
    /\ UNCHANGED <<ctl, eng, conf, stacks, obs>>

\* The dispatch goroutine hands a connection to the tunnel, waits until the
\* tunnel's loop takes it, and ends once its device is closed.  (That it also ends
\* when a read of an open device fails is LinkEndpoint's subject.)
HandOver(d)     == devices[d].open /\ Dispatch(d, "reading", "HandleUDP")
TunnelTakes(d)  == Dispatch(d, "HandleUDP", "reading")
DispatchEnds(d) == ~devices[d].open /\ Dispatch(d, "reading", "ended")

\* A session, perhaps one a closed stack has left behind, dials a global or
\* wildcard address ("remote") or a loopback or link-local one ("local").
Dial(class) ==
    /\ ~exited /\ stacks # <<>> /\ dials < MaxDials /\ dials' = dials + 1
    /\ \E i \in 0 .. Len(opts) :   \* an option that fails ends the dial
           dial' = IF class = "local" THEN <<>> ELSE SubSeq(opts, 1, i)
    /\ UNCHANGED <<ctl, eng, conf, objs, stats>>

\* restapi.Start: a listen error is logged and ends the goroutine.
Listen(s) ==
    /\ ~exited /\ servers[s] = "starting"
    /\ \E state \in {"serving", "failed"} : servers' = [servers EXCEPT ![s] = state]
    /\ UNCHANGED <<ctl, eng, opts, timeout, proxy, statsFunc, posts, objs, obs>>

\* getNetStats calls the statistics function, which takes the engine's mutex, or
\* answers ErrUninitialized without one.
GetNetStats ==
    /\ ~exited /\ stats = "none" /\ "serving" \in Range(servers)
    /\ stats' = IF statsFunc THEN "waiting" ELSE "refused"
    /\ UNCHANGED <<ctl, eng, conf, objs, dials, dial>>

StatsFunc ==
    /\ ~exited /\ stats = "waiting" /\ mu = Nil /\ stats' = "answered"
    /\ UNCHANGED <<ctl, eng, conf, objs, dials, dial>>

StartRuns(c) ==
    \/ Lock(c, "start", "general") \/ EmptyKeyOrLevel(c) \/ Reset(c) \/ BindInterface(c)
    \/ RoutingMark(c) \/ SetUDPTimeout(c) \/ RestAPI(c) \/ Netstack(c) \/ SetProxy(c)
    \/ OpenDevice(c) \/ CreateStack(c) \/ PostUp(c) \/ Fatal(c)

StopRuns(c) == Lock(c, "stop", "stopping") \/ CloseDevice(c) \/ CloseStack(c) \/ WaitStack(c)

Next ==
    \/ \E c \in Callers : \/ \E k \in Keys : Insert(c, k)
                          \/ SetICMPHandler(c) \/ Start(c) \/ Stop(c)
                          \/ StartRuns(c) \/ StopRuns(c)
    \/ \E d \in DOMAIN devices : HandOver(d) \/ TunnelTakes(d) \/ DispatchEnds(d)
    \/ \E class \in {"remote", "local"} : Dial(class)
    \/ \E s \in DOMAIN servers : Listen(s)
    \/ GetNetStats \/ StatsFunc

Spec == Init /\ [][Next]_vars

-----------------------------------------------------------------------------
\* However starts, stops and insertions interleave, and whatever session dials
\* in between, the options a dial applies are those of one key, from the first
\* on: never two configurations mixed (dialer.go:59, engine.go:125).
OneConfiguration == \E k \in Keys : IsPrefix(dial, SockOpts(k))

\* A start that returns has put all of one key in force, the one inserted last
\* before it took the mutex: options, UDP timeout if there is one, proxy,
\* device and groups, for as long as the engine runs; its post-up command has
\* been executed, and none for a start that failed.
KeyInForce ==
    phase = "running" =>
        LET s == stacks[stack] IN
        /\ stack # 0 /\ device = s.device /\ s.open /\ devices[device].open
        /\ opts = SockOpts(s.key) /\ proxy = Scheme(s.key.proxy, "socks5")
        /\ devices[device].driver = Scheme(s.key.device, "tun")
        /\ s.groups \subseteq Multicast /\ s.key.groups \ {""} = s.groups
        /\ s.key.timeout > 0 => timeout = s.key.timeout
        /\ posts = Cardinality({ i \in DOMAIN stacks : stacks[i].key.postUp })

\* engine.go:52 "Stop shuts the default engine down": when a Stop has returned,
\* in the order main.go calls it, no device is open and no dispatch goroutine
\* left, and every descriptor has been closed once.
StopShutsDown ==
    /\ phase = "stopped" => \A d \in DOMAIN devices :
                                ~devices[d].open /\ devices[d].dispatch = "ended"
    /\ phase # "overlapping" => \A d \in DOMAIN devices : devices[d].closes <= 1

\* engine.go:159 and 170: a request for statistics never finds the function unset and
\* is turned away with ErrUninitialized, whichever start its server is of and however
\* the goroutine that serves it runs against the start.
StatsReady == stats # "refused"

\* Somebody is in Start or Stop, or waits for statistics.
Waiting == (\E c \in Callers : pc[c] # "idle") \/ stats = "waiting"

\* Whoever needs the engine's mutex is served: every Start and Stop returns, unless
\* the process ends, even with the mutex held while the stack winds up and its
\* dispatch goroutine waits for the tunnel; and statistics are answered.
CallsReturn == Waiting ~> (~Waiting \/ exited)
=============================================================================
