---------------------------- MODULE EngineProofs ----------------------------
(***************************************************************************)
(* Proofs about Engine for any number of callers, keys, starts, stops and  *)
(* dials.  MutexInv says that one caller at a time is inside start or stop,*)
(* which the key it reads and the options it registers rest on (OptsInv);  *)
(* ShutInv how far a start or a stop has got with the devices, and         *)
(* ForceInv how much of its key a start has put in force so far, as long   *)
(* as starts and stops alternate.                                          *)
(***************************************************************************)
EXTENDS Engine, TLAPS

\* Where a caller is inside the mutex.
BeforeDevice == {"general", "bind", "mark", "timeout", "rest", "serve", "netstack", "proxy", "device"}
Configuring == (BeforeDevice \ {"general"}) \cup {"stack", "post"}
Stopping == {"stopping", "stack.Close", "stack.Wait"}
Critical == BeforeDevice \cup Configuring \cup Stopping
Places == Critical \cup {"idle", "start", "stop", "fatal"}

MutexInv ==
    /\ pc \in [Callers -> Places] /\ key \in Keys \cup {Nil}
    /\ \A c \in Callers : pc[c] \in Critical => mu = c
    /\ \A c \in Callers : pc[c] \in Configuring => key \in Keys

\* Who holds the mutex is alone behind it.
LEMMA Alone ==
    ASSUME MutexInv, NEW c \in Callers, NEW d \in Callers, pc[c] \in Critical, pc[d] \in Critical
    PROVE  c = d
  BY DEF MutexInv

LEMMA InitMutex == Init => MutexInv
  BY DEF Init, MutexInv, Places, Critical, BeforeDevice, Configuring, Stopping

\* A caller that holds the mutex moves on, or gives it back.
LEMMA MoveMutex ==
    ASSUME MutexInv, NEW c \in Callers, NEW to \in Places, pc[c] \in Critical, Go(c, to), key' = key,
           \/ mu' = mu /\ to \in Critical
           \/ mu' = Nil /\ to \notin Critical,
           to \in Configuring => key \in Keys
    PROVE  MutexInv'
  <1>1. \A d \in Callers : pc'[d] = IF d = c THEN to ELSE pc[d]
    BY DEF Go, MutexInv
  <1>2. \A d \in Callers : d # c => pc[d] \notin Critical
    BY DEF MutexInv
  <1>3. pc' \in [Callers -> Places]
    BY DEF Go, MutexInv
  <1>4. Configuring \subseteq Critical
    BY DEF Critical
  <1> QED
    BY <1>1, <1>2, <1>3, <1>4 DEF MutexInv

LEMMA StepMutex == MutexInv /\ [Next]_vars => MutexInv'
  <1> SUFFICES ASSUME MutexInv, [Next]_vars PROVE MutexInv'
    OBVIOUS
  <1>1. ASSUME NEW c \in Callers, NEW k \in Keys, Insert(c, k) PROVE MutexInv'
    <2>1. \A d \in Callers : pc[d] \notin Critical
      BY <1>1, EngineAssumption DEF Insert, MutexInv
    <2> QED
      BY <1>1, <2>1 DEF Insert, MutexInv, ctl, Critical
  <1>2. ASSUME NEW c \in Callers, SetICMPHandler(c) PROVE MutexInv'
    BY <1>2 DEF SetICMPHandler, MutexInv, ctl
  <1>3. ASSUME NEW c \in Callers, NEW first \in {"start", "stop"}, NEW before, Call(c, first, before)
        PROVE  MutexInv'
    <2>1. \A d \in Callers : pc'[d] = IF d = c THEN first ELSE pc[d]
      BY <1>3 DEF Call, Go, MutexInv
    <2>2. pc' \in [Callers -> Places]
      BY <1>3 DEF Call, Go, MutexInv, Places
    <2>3. first \notin Critical /\ Configuring \subseteq Critical
      BY DEF Critical, BeforeDevice, Configuring, Stopping
    <2>4. mu' = mu /\ key' = key
      BY <1>3 DEF Call, eng
    <2> QED
      BY <2>1, <2>2, <2>3, <2>4 DEF MutexInv
  <1>4. ASSUME NEW c \in Callers, NEW from, NEW to \in {"general", "stopping"}, Lock(c, from, to)
        PROVE  MutexInv'
    <2>1. \A d \in Callers : pc'[d] = IF d = c THEN to ELSE pc[d]
      BY <1>4 DEF Lock, Go, MutexInv
    <2>2. pc' \in [Callers -> Places]
      BY <1>4 DEF Lock, Go, MutexInv, Places, Critical, BeforeDevice, Stopping
    <2>3. \A d \in Callers : pc[d] \notin Critical
      BY <1>4, EngineAssumption DEF Lock, MutexInv
    <2>4. mu' = c /\ key' = key /\ to \notin Configuring /\ Configuring \subseteq Critical
      BY <1>4 DEF Lock, eng, Configuring, BeforeDevice, Critical
    <2> QED
      BY <2>1, <2>2, <2>3, <2>4 DEF MutexInv
  <1>5. ASSUME NEW c \in Callers, NEW from \in BeforeDevice, NEW to \in Configuring,
               Step(c, from, to), key' = key, key \in Keys
        PROVE  MutexInv'
    BY <1>5, MoveMutex DEF Step, At, Critical, Places
  <1>6. ASSUME NEW c \in Callers, pc[c] \in Critical, Fail(c), key' = key PROVE MutexInv'
    <2>1. "fatal" \in Places /\ "fatal" \notin Critical /\ "fatal" \notin Configuring
      BY DEF Places, Critical, BeforeDevice, Configuring, Stopping
    <2> QED
      BY <1>6, <2>1, MoveMutex DEF Fail
  <1>7. ASSUME NEW c \in Callers, NEW from \in Critical, NEW to, Return(c, from, to), key' = key
        PROVE  MutexInv'
    <2>1. "idle" \in Places /\ "idle" \notin Critical /\ "idle" \notin Configuring
      BY DEF Places, Critical, BeforeDevice, Configuring, Stopping
    <2> QED
      BY <1>7, <2>1, MoveMutex DEF Return, At
  <1>8. ASSUME NEW c \in Callers, StartRuns(c) PROVE MutexInv'
    <2> USE DEF Critical, BeforeDevice, Configuring
    <2>1. ASSUME pc[c] \in Configuring PROVE key \in Keys
      BY <2>1 DEF MutexInv
    <2>2. CASE EmptyKeyOrLevel(c)
      BY <1>6, <2>2 DEF EmptyKeyOrLevel, At, eng
    <2>3. CASE Reset(c)
      <3>1. key \in Keys /\ key' = key /\ Step(c, "general", "bind")
        BY <2>3 DEF Reset, eng, MutexInv
      <3> QED
        BY <1>5, <3>1
    <2>4. CASE BindInterface(c)
      <3>1. key \in Keys /\ key' = key /\ (Step(c, "bind", "mark") \/ (At(c, "bind") /\ Fail(c)))
        BY <2>1, <2>4 DEF BindInterface, eng, Step, At
      <3> QED
        BY <1>5, <1>6, <3>1 DEF At
    <2>5. CASE RoutingMark(c)
      <3>1. key \in Keys /\ key' = key /\ Step(c, "mark", "timeout")
        BY <2>1, <2>5 DEF RoutingMark, eng, Step, At
      <3> QED
        BY <1>5, <3>1
    <2>6. CASE SetUDPTimeout(c)
      <3>1. key \in Keys /\ key' = key /\ (Step(c, "timeout", "rest") \/ (At(c, "timeout") /\ Fail(c)))
        BY <2>1, <2>6 DEF SetUDPTimeout, eng, Step, At
      <3> QED
        BY <1>5, <1>6, <3>1 DEF At
    <2>7. CASE RestAPI(c)
      <3>1. /\ key \in Keys /\ key' = key
            /\ \/ Step(c, "rest", "netstack") \/ Step(c, "rest", "serve") \/ Step(c, "serve", "netstack")
               \/ At(c, "rest") /\ Fail(c)
        BY <2>1, <2>7 DEF RestAPI, eng, Step, At
      <3> QED
        BY <1>5, <1>6, <3>1 DEF At
    <2>8. CASE Netstack(c)
      <3>1. key \in Keys /\ key' = key /\ (Step(c, "netstack", "proxy") \/ (At(c, "netstack") /\ Fail(c)))
        BY <2>1, <2>8 DEF Netstack, eng, Step, At
      <3> QED
        BY <1>5, <1>6, <3>1 DEF At
    <2>9. CASE SetProxy(c)
      <3>1. key \in Keys /\ key' = key /\ (Step(c, "proxy", "device") \/ (At(c, "proxy") /\ Fail(c)))
        BY <2>1, <2>9 DEF SetProxy, eng, Step, At
      <3> QED
        BY <1>5, <1>6, <3>1 DEF At
    <2>10. CASE OpenDevice(c)
      <3>1. key \in Keys /\ key' = key /\ (Step(c, "device", "stack") \/ (At(c, "device") /\ Fail(c)))
        BY <2>1, <2>10 DEF OpenDevice, Step, At
      <3> QED
        BY <1>5, <1>6, <3>1 DEF At
    <2>11. CASE CreateStack(c)
      <3>1. key \in Keys /\ key' = key /\ (Step(c, "stack", "post") \/ (At(c, "stack") /\ Fail(c)))
        BY <2>1, <2>11 DEF CreateStack, Step, At
      <3> QED
        BY <1>6, <3>1, MoveMutex DEF At, Step, Places
    <2>12. CASE PostUp(c)
      BY <1>7, <2>12 DEF PostUp, eng
    <2>13. CASE Fatal(c)
      BY <2>13 DEF Fatal, MutexInv, eng
    <2>14. CASE Lock(c, "start", "general")
      BY <1>4, <2>14
    <2> QED
      BY <1>8, <2>2, <2>3, <2>4, <2>5, <2>6, <2>7, <2>8, <2>9, <2>10, <2>11, <2>12, <2>13, <2>14
      DEF StartRuns
  <1>9. ASSUME NEW c \in Callers, StopRuns(c) PROVE MutexInv'
    <2> USE DEF Critical, Stopping
    <2>1. CASE Lock(c, "stop", "stopping")
      BY <1>4, <2>1
    <2>2. CASE CloseDevice(c)
      BY <2>2, MoveMutex DEF CloseDevice, Step, At, eng, Places, Configuring, BeforeDevice
    <2>3. CASE CloseStack(c)
      BY <2>3, MoveMutex DEF CloseStack, Step, At, eng, Places, Configuring, BeforeDevice
    <2>4. CASE WaitStack(c)
      BY <1>7, <2>4 DEF WaitStack, eng
    <2> QED
      BY <1>9, <2>1, <2>2, <2>3, <2>4 DEF StopRuns
  <1>10. CASE UNCHANGED <<mu, pc, key>>
    BY <1>10 DEF MutexInv
  <1>11. ASSUME \/ \E d \in DOMAIN devices : HandOver(d) \/ TunnelTakes(d) \/ DispatchEnds(d)
                \/ \E class \in {"remote", "local"} : Dial(class)
                \/ \E s \in DOMAIN servers : Listen(s)
                \/ GetNetStats \/ StatsFunc \/ UNCHANGED vars
         PROVE  UNCHANGED <<mu, pc, key>>
    BY <1>11 DEF HandOver, TunnelTakes, DispatchEnds, Dispatch, Dial, Listen, GetNetStats, StatsFunc,
                 vars, ctl, eng
  <1> QED
    BY <1>1, <1>2, <1>3, <1>8, <1>9, <1>10, <1>11 DEF Next, Start, Stop

-----------------------------------------------------------------------------
\* The socket options keys ask for.
Options == { <<"bind", k.iface>> : k \in Keys } \cup { <<"mark", k.mark>> : k \in Keys }

LEMMA OptionFacts ==
    ASSUME NEW k \in Keys
    PROVE  /\ Bind(k) \in Seq(Options) /\ Mark(k) \in Seq(Options) /\ SockOpts(k) \in Seq(Options)
           /\ <<>> \o Bind(k) = Bind(k)
  <1>1. <<"bind", k.iface>> \in Options /\ <<"mark", k.mark>> \in Options
    BY DEF Options
  <1>e. <<>> \in Seq(Options) /\ \A o \in Options : <<o>> \in Seq(Options)
    OBVIOUS
  <1>2. Bind(k) \in Seq(Options)
    BY <1>1, <1>e, Zenon DEF Bind
  <1>3. Mark(k) \in Seq(Options)
    BY <1>1, <1>e DEF Mark
  <1>4. SockOpts(k) \in Seq(Options)
    BY <1>2, <1>3 DEF SockOpts
  <1>5. <<>> \o Bind(k) = Bind(k)
    BY <1>2
  <1> QED
    BY <1>2, <1>3, <1>4, <1>5

\* Part of a sequence from its first element on is a prefix of every longer part.
LEMMA PrefixFacts ==
    ASSUME NEW S, NEW s \in Seq(S), NEW u \in Seq(S), NEW i \in 0 .. Len(s)
    PROVE  IsPrefix(SubSeq(s, 1, i), s \o u) /\ IsPrefix(SubSeq(s, 1, i), s)
  <1> DEFINE p == SubSeq(s, 1, i)
  <1>1. p \in Seq(S) /\ Len(p) = i /\ (\A j \in 1 .. i : p[j] = s[j]) /\ i \in Nat /\ Len(s) \in Nat
    OBVIOUS
  <1> DEFINE t == s \o u
  <1>2. t \in Seq(S) /\ Len(t) >= Len(s) /\ (\A j \in 1 .. Len(s) : t[j] = s[j]) /\ Len(t) \in Nat
    OBVIOUS
  <1> HIDE DEF p, t
  <1>3. SubSeq(p, 1, Len(p)) = SubSeq(t, 1, Len(p)) /\ Len(p) <= Len(t)
    BY <1>1, <1>2
  <1>4. SubSeq(p, 1, Len(p)) = SubSeq(s, 1, Len(p)) /\ Len(p) <= Len(s)
    BY <1>1
  <1> QED
    BY <1>3, <1>4 DEF IsPrefix, p, t

LEMMA EmptyPrefix == ASSUME NEW S, NEW s \in Seq(S) PROVE IsPrefix(<<>>, s)
  BY DEF IsPrefix

\* The options registered are all of one key's, or its first ones while a start
\* is at it or after it has failed.
OptsInv ==
    /\ \E k \in Keys : opts = <<>> \/ opts = Bind(k) \/ opts = SockOpts(k)
    /\ \A c \in Callers : /\ pc[c] = "bind" => opts = <<>>
                          /\ pc[c] = "mark" => opts = Bind(key)
    /\ OneConfiguration

LEMMA InitOpts == Init => OptsInv
  <1> SUFFICES ASSUME Init PROVE OptsInv
    OBVIOUS
  <1>1. PICK k \in Keys : TRUE
    BY EngineAssumption
  <1>2. IsPrefix(<<>>, SockOpts(k))
    BY OptionFacts, EmptyPrefix
  <1> QED
    BY <1>1, <1>2 DEF Init, OptsInv, OneConfiguration

\* A step that leaves key, options and dial alone, and brings nobody to where
\* the options are registered.
LEMMA KeepOpts ==
    ASSUME OptsInv, UNCHANGED <<key, opts, dial>>,
           \A c \in Callers : pc'[c] \in {"bind", "mark"} => pc[c] = pc'[c]
    PROVE  OptsInv'
  BY DEF OptsInv, OneConfiguration

\* Steps of Start and Stop that concern neither the options nor the statistics.
LEMMA OtherRuns ==
    ASSUME NEW c \in Callers, StartRuns(c) \/ StopRuns(c) \/ Start(c) \/ Stop(c),
           ~Reset(c), ~BindInterface(c), ~RoutingMark(c), ~RestAPI(c)
    PROVE  /\ UNCHANGED <<key, opts, dial, statsFunc, servers, stats>>
           /\ pc' = pc \/ \E to \in Places \ {"bind", "mark", "serve"} : Go(c, to)
  <1> DEFINE Others == Places \ {"bind", "mark", "serve"}
             Moves == pc' = pc \/ \E to \in Others : Go(c, to)
             Kept == UNCHANGED <<key, opts, dial, statsFunc, servers, stats>>
  <1>1. {"general", "rest", "proxy", "device", "stack", "post", "stopping", "stack.Close", "stack.Wait",
         "idle", "start", "stop", "fatal"} \subseteq Others
    BY DEF Places, Critical, BeforeDevice, Configuring, Stopping
  <1> HIDE DEF Others
  <1>2. ASSUME Lock(c, "start", "general") \/ Lock(c, "stop", "stopping") PROVE Kept /\ Moves
    BY <1>1, <1>2 DEF Lock, eng, conf, obs
  <1>3. ASSUME EmptyKeyOrLevel(c) \/ Netstack(c) PROVE Kept /\ Moves
    BY <1>1, <1>3 DEF EmptyKeyOrLevel, Netstack, Fail, Step, eng, conf, obs
  <1>4. ASSUME SetUDPTimeout(c) \/ SetProxy(c) PROVE Kept /\ Moves
    BY <1>1, <1>4 DEF SetUDPTimeout, SetProxy, Fail, Step, eng, obs
  <1>5. ASSUME OpenDevice(c) PROVE Kept /\ Moves
    BY <1>1, <1>5 DEF OpenDevice, Fail, Step, conf, obs
  <1>6. ASSUME CreateStack(c) PROVE Kept /\ Moves
    BY <1>1, <1>6 DEF CreateStack, Fail, Step, conf, obs
  <1>7. ASSUME PostUp(c) \/ Fatal(c) PROVE Kept /\ Moves
    BY <1>1, <1>7 DEF PostUp, Fatal, Return, eng, conf, obs
  <1>8. ASSUME CloseDevice(c) \/ CloseStack(c) \/ WaitStack(c) PROVE Kept /\ Moves
    BY <1>1, <1>8 DEF CloseDevice, CloseStack, WaitStack, Step, Return, eng, conf, obs
  <1>9. ASSUME Start(c) \/ Stop(c) PROVE Kept /\ Moves
    BY <1>1, <1>9 DEF Start, Stop, Call, eng, conf, obs
  <1>10. Kept /\ Moves
    BY <1>2, <1>3, <1>4, <1>5, <1>6, <1>7, <1>8, <1>9 DEF StartRuns, StopRuns
  <1> QED
    BY <1>10 DEF Others

LEMMA StepOpts == MutexInv /\ OptsInv /\ [Next]_vars => OptsInv'
  <1> SUFFICES ASSUME MutexInv, OptsInv, [Next]_vars PROVE OptsInv'
    OBVIOUS
  <1>m. ASSUME NEW c \in Callers, NEW to, Go(c, to)
        PROVE  \A d \in Callers : pc'[d] = IF d = c THEN to ELSE pc[d]
    BY <1>m DEF Go, MutexInv
  <1>1. ASSUME NEW c \in Callers, NEW k \in Keys, Insert(c, k) PROVE OptsInv'
    <2>1. \A d \in Callers : pc[d] # "mark"
      BY <1>1, EngineAssumption DEF Insert, MutexInv, Critical, BeforeDevice
    <2> QED
      BY <1>1, <2>1 DEF Insert, OptsInv, OneConfiguration, ctl, conf, obs
  <1>2. ASSUME NEW c \in Callers, NEW to, to \notin {"bind", "mark"}, Go(c, to),
               UNCHANGED <<key, opts, dial>>
        PROVE  OptsInv'
    BY <1>2, <1>m, KeepOpts
  <1>3. ASSUME NEW c \in Callers, Reset(c) PROVE OptsInv'
    <2>1. /\ Go(c, "bind") /\ opts' = <<>> /\ key' = key /\ dial' = dial /\ pc[c] = "general"
      BY <1>3 DEF Reset, Step, At, eng, obs
    <2>2. \A d \in Callers : d # c => pc[d] # "mark"
      BY <2>1, Alone DEF Critical, BeforeDevice
    <2> QED
      BY <1>m, <2>1, <2>2 DEF OptsInv, OneConfiguration
  <1>4. ASSUME NEW c \in Callers, BindInterface(c) PROVE OptsInv'
    <2>1. key' = key /\ dial' = dial /\ pc[c] = "bind" /\ opts = <<>>
      BY <1>4 DEF BindInterface, Step, At, eng, obs, OptsInv
    <2>2. CASE Fail(c) /\ opts' = opts
      BY <1>2, <2>1, <2>2 DEF Fail
    <2>3. CASE Go(c, "mark") /\ opts' = opts \o Bind(key)
      <3>1. key \in Keys
        BY <2>1 DEF MutexInv, Configuring, BeforeDevice
      <3>2. opts' = Bind(key)
        BY <2>1, <2>3, <3>1, OptionFacts
      <3>3. \A d \in Callers : d # c => pc[d] # "bind"
        BY <2>1, Alone DEF Critical, BeforeDevice
      <3> QED
        BY <1>m, <2>1, <2>3, <3>1, <3>2, <3>3 DEF OptsInv, OneConfiguration
    <2> QED
      BY <1>4, <2>2, <2>3 DEF BindInterface, Step
  <1>5. ASSUME NEW c \in Callers, RoutingMark(c) PROVE OptsInv'
    <2>1. /\ key' = key /\ dial' = dial /\ pc[c] = "mark" /\ opts = Bind(key) /\ Go(c, "timeout")
          /\ opts' = opts \o Mark(key)
      BY <1>5 DEF RoutingMark, Step, At, eng, obs, OptsInv
    <2>2. key \in Keys /\ opts' = SockOpts(key)
      BY <2>1 DEF MutexInv, Configuring, BeforeDevice, SockOpts
    <2>3. \A d \in Callers : d # c => pc[d] \notin {"bind", "mark"}
      BY <2>1, Alone DEF Critical, BeforeDevice
    <2> QED
      BY <1>m, <2>1, <2>2, <2>3 DEF OptsInv, OneConfiguration
  <1>6. ASSUME NEW class \in {"remote", "local"}, Dial(class) PROVE OptsInv'
    <2>1. PICK k \in Keys : opts = <<>> \/ opts = Bind(k) \/ opts = SockOpts(k)
      BY DEF OptsInv
    <2>2. PICK i \in 0 .. Len(opts) : dial' = IF class = "local" THEN <<>> ELSE SubSeq(opts, 1, i)
      BY <1>6 DEF Dial
    <2>3. /\ Bind(k) \in Seq(Options) /\ Mark(k) \in Seq(Options) /\ SockOpts(k) \in Seq(Options)
          /\ SockOpts(k) = Bind(k) \o Mark(k)
      BY OptionFacts DEF SockOpts
    <2>4. IsPrefix(<<>>, SockOpts(k))
      BY <2>3, EmptyPrefix, Zenon
    <2>5. IsPrefix(SubSeq(opts, 1, i), SockOpts(k))
      <3>1. CASE opts = <<>>
        <4>1. SubSeq(opts, 1, i) = <<>>
          BY <2>2, <3>1
        <4> QED
          BY <2>4, <4>1, Zenon
      <3>2. CASE opts = Bind(k)
        BY <2>2, <2>3, <3>2, PrefixFacts
      <3>3. CASE opts = SockOpts(k)
        BY <2>2, <2>3, <3>3, PrefixFacts, ZenonT(30)
      <3> QED
        BY <2>1, <3>1, <3>2, <3>3
    <2>6. OneConfiguration'
      BY <2>2, <2>4, <2>5, ZenonT(30) DEF OneConfiguration, SockOpts, Bind, Mark
    <2> QED
      BY <1>6, <2>6 DEF Dial, OptsInv, ctl, eng, conf
  <1>7. ASSUME NEW c \in Callers, StartRuns(c) \/ StopRuns(c) \/ Start(c) \/ Stop(c),
               ~Reset(c), ~BindInterface(c), ~RoutingMark(c)
        PROVE  OptsInv'
    <2>1. CASE ~RestAPI(c)
      <3>1. UNCHANGED <<key, opts, dial>> /\ (pc' = pc \/ \E to \in Places \ {"bind", "mark"} : Go(c, to))
        BY <1>7, <2>1, OtherRuns
      <3> QED
        BY <1>2, <3>1, KeepOpts
    <2>2. CASE RestAPI(c)
      <3>1. {"serve", "netstack", "fatal"} \subseteq Places \ {"bind", "mark"}
        BY DEF Places, Critical, BeforeDevice, Configuring, Stopping
      <3>2. UNCHANGED <<key, opts, dial>> /\ \E to \in Places \ {"bind", "mark"} : Go(c, to)
        BY <2>2, <3>1 DEF RestAPI, Step, Fail, eng, obs
      <3> QED
        BY <1>2, <3>2, KeepOpts
    <2> QED
      BY <2>1, <2>2
  <1>8. ASSUME \/ \E c \in Callers : SetICMPHandler(c)
               \/ \E d \in DOMAIN devices : HandOver(d) \/ TunnelTakes(d) \/ DispatchEnds(d)
               \/ \E s \in DOMAIN servers : Listen(s)
               \/ GetNetStats \/ StatsFunc \/ UNCHANGED vars
        PROVE  OptsInv'
    <2>1. UNCHANGED <<key, opts, dial, pc>>
      BY <1>8 DEF SetICMPHandler, HandOver, TunnelTakes, DispatchEnds, Dispatch, Listen, GetNetStats,
                  StatsFunc, vars, ctl, eng, conf, obs
    <2> QED
      BY <2>1, KeepOpts
  <1> QED
    BY <1>1, <1>3, <1>4, <1>5, <1>6, <1>7, <1>8 DEF Next

\* However Start, Stop, Insert and the sessions' dials interleave, a dial never
\* applies options of two keys: Reset and the registrations are behind _engineMu.
THEOREM DialsOneConfiguration == Spec => []OneConfiguration
  <1>1. MutexInv /\ OptsInv => OneConfiguration
    BY DEF OptsInv
  <1> QED
    BY <1>1, InitMutex, InitOpts, StepMutex, StepOpts, PTL DEF Spec

\* The statistics function is set before a server is started, and stays set.
StatsInv ==
    /\ StatsReady /\ statsFunc \in BOOLEAN
    /\ servers # <<>> => statsFunc = TRUE
    /\ \A c \in Callers : pc[c] = "serve" => statsFunc = TRUE

LEMMA StepStats == MutexInv /\ StatsInv /\ [Next]_vars => StatsInv'
  <1> SUFFICES ASSUME MutexInv, StatsInv, [Next]_vars PROVE StatsInv'
    OBVIOUS
  <1>m. ASSUME NEW c \in Callers, NEW to, Go(c, to)
        PROVE  \A d \in Callers : pc'[d] = IF d = c THEN to ELSE pc[d]
    BY <1>m DEF Go, MutexInv
  <1>1. ASSUME UNCHANGED <<statsFunc, servers, stats>>,
               \A c \in Callers : pc'[c] = "serve" => pc[c] = "serve"
        PROVE  StatsInv'
    BY <1>1 DEF StatsInv, StatsReady
  <1>2. ASSUME NEW c \in Callers, RestAPI(c) PROVE StatsInv'
    <2>1. stats' = stats
      BY <1>2 DEF RestAPI, obs
    <2>2. CASE Step(c, "rest", "serve") /\ statsFunc' = TRUE /\ UNCHANGED servers
      BY <2>1, <2>2 DEF StatsInv, StatsReady
    <2>3. CASE Step(c, "serve", "netstack") /\ UNCHANGED statsFunc
      <3>1. statsFunc = TRUE
        BY <2>3 DEF Step, At, StatsInv
      <3> QED
        BY <2>1, <2>3, <3>1 DEF StatsInv, StatsReady
    <2>4. CASE (Go(c, "netstack") \/ Go(c, "fatal")) /\ UNCHANGED <<statsFunc, servers>>
      BY <1>1, <1>m, <2>1, <2>4
    <2> QED
      BY <1>2, <2>2, <2>3, <2>4 DEF RestAPI, Step, Fail
  <1>3. ASSUME NEW c \in Callers, StartRuns(c) \/ StopRuns(c) \/ Start(c) \/ Stop(c), ~RestAPI(c)
        PROVE  StatsInv'
    <2>1. CASE Reset(c) \/ BindInterface(c) \/ RoutingMark(c)
      <3>1. /\ UNCHANGED <<statsFunc, servers, stats>>
            /\ \E to \in {"bind", "mark", "timeout", "fatal"} : Go(c, to)
        BY <2>1 DEF Reset, BindInterface, RoutingMark, Step, Fail, obs
      <3> QED
        BY <1>1, <1>m, <3>1
    <2>2. CASE ~(Reset(c) \/ BindInterface(c) \/ RoutingMark(c))
      <3>1. /\ UNCHANGED <<statsFunc, servers, stats>>
            /\ pc' = pc \/ \E to \in Places \ {"serve"} : Go(c, to)
        BY <1>3, <2>2, OtherRuns
      <3> QED
        BY <1>1, <1>m, <3>1
    <2> QED
      BY <2>1, <2>2
  <1>4. CASE GetNetStats
    <2>1. "serving" \in Range(servers) => servers # <<>>
      BY DEF Range
    <2> QED
      BY <1>4, <2>1 DEF GetNetStats, StatsInv, StatsReady, ctl, conf
  <1>5. ASSUME NEW i \in DOMAIN servers, Listen(i) PROVE StatsInv'
    <2>1. servers # <<>>
      OBVIOUS
    <2> QED
      BY <1>5, <2>1 DEF Listen, StatsInv, StatsReady, ctl, obs
  <1>6. CASE StatsFunc
    BY <1>6 DEF StatsFunc, StatsInv, StatsReady, ctl, conf
  <1>7. ASSUME \/ \E c \in Callers : SetICMPHandler(c) \/ \E k \in Keys : Insert(c, k)
               \/ \E d \in DOMAIN devices : HandOver(d) \/ TunnelTakes(d) \/ DispatchEnds(d)
               \/ \E class \in {"remote", "local"} : Dial(class)
               \/ UNCHANGED vars
        PROVE  StatsInv'
    <2>1. UNCHANGED <<statsFunc, servers, stats, pc>>
      BY <1>7 DEF SetICMPHandler, Insert, HandOver, TunnelTakes, DispatchEnds, Dispatch, Dial,
             vars, ctl, conf, obs
    <2> QED
      BY <1>1, <2>1
  <1> QED
    BY <1>2, <1>3, <1>4, <1>5, <1>6, <1>7 DEF Next

\* engine.go:159 before 170: restAPI sets the statistics function in a step of its own
\* before it starts the server's goroutine, and no later start clears it, so for any
\* number of callers and restarts getNetStats never answers ErrUninitialized.
THEOREM StatisticsAreReady == Spec => []StatsReady
  <1>1. Init => StatsInv
    BY DEF Init, StatsInv, StatsReady
  <1>2. StatsInv => StatsReady
    BY DEF StatsInv
  <1> QED
    BY <1>1, <1>2, InitMutex, StepMutex, StepStats, PTL DEF Spec

-----------------------------------------------------------------------------
DeviceSet == [driver : { Scheme(k.device, "tun") : k \in Keys }, open : BOOLEAN, closes : Nat,
              dispatch : {"none", "reading", "HandleUDP", "ended"}]
StackSet == [key : Keys, icmp : {Nil, "handler"}, groups : { Groups(k) : k \in Keys }, device : Nat,
             open : BOOLEAN]

ObjInv ==
    /\ devices \in Seq(DeviceSet) /\ stacks \in Seq(StackSet)
    /\ device \in 0 .. Len(devices) /\ stack \in 0 .. Len(stacks) /\ icmp \in {Nil, "handler"}

Over(d) == ~devices[d].open /\ devices[d].dispatch = "ended"
AllOver == \A d \in 1 .. Len(devices) : Over(d)

\* The engine's device is the last one opened, and the others are over.
OnlyLast ==
    /\ device = Len(devices) /\ device > 0
    /\ \A d \in 1 .. Len(devices) : d # device => Over(d)

Serving == stack > 0 /\ stacks[stack].device = device

Opened == OnlyLast /\ devices[device].open /\ devices[device].closes = 0
Up     == Opened /\ Serving /\ devices[device].dispatch \in {"reading", "HandleUDP"}
Closing == OnlyLast /\ Serving /\ ~devices[device].open

Orderly ==
    /\ \A c, d \in Callers : pc[c] # "idle" /\ pc[d] # "idle" => c = d
    /\ phase # "busy" => \A c \in Callers : pc[c] = "idle"
    /\ \A d \in 1 .. Len(devices) : devices[d].closes <= 1
    /\ phase = "stopped" => AllOver
    /\ phase = "running" => Up
    /\ \A c \in Callers :
          /\ pc[c] \in BeforeDevice \cup {"start"} => AllOver
          /\ pc[c] = "stack" => Opened
          /\ pc[c] \in {"post", "stop", "stopping"} => Up
          /\ pc[c] \in {"stack.Close", "stack.Wait"} => Closing

\* As long as starts and stops alternate.
ShutInv == phase # "overlapping" => Orderly

\* A sequence with one element replaced, if there is one.
LEMMA UpdateFacts ==
    ASSUME NEW S, NEW s \in Seq(S), NEW i, NEW x, i \in 1 .. Len(s) => x \in S
    PROVE  /\ [s EXCEPT ![i] = x] \in Seq(S) /\ Len([s EXCEPT ![i] = x]) = Len(s)
           /\ \A j \in 1 .. Len(s) : [s EXCEPT ![i] = x][j] = IF j = i THEN x ELSE s[j]
  <1>1. Len(s) \in Nat /\ s \in [1 .. Len(s) -> S]
    OBVIOUS
  <1> DEFINE t == [s EXCEPT ![i] = x]
  <1>2. t \in [1 .. Len(s) -> S] /\ \A j \in 1 .. Len(s) : t[j] = IF j = i THEN x ELSE s[j]
    BY <1>1, Zenon
  <1>3. Len(t) = Len(s)
    OBVIOUS
  <1> HIDE DEF t
  <1>4. t \in Seq(S)
    BY <1>1, <1>2
  <1> QED
    BY <1>2, <1>3, <1>4 DEF t

LEMMA AppendFacts ==
    ASSUME NEW S, NEW s \in Seq(S), NEW x \in S
    PROVE  /\ Append(s, x) \in Seq(S) /\ Len(Append(s, x)) = Len(s) + 1 /\ Len(s) \in Nat
           /\ \A i \in 1 .. Len(s) : Append(s, x)[i] = s[i]
           /\ Append(s, x)[Len(s) + 1] = x
  OBVIOUS

LEMMA InitShut == Init => ObjInv /\ ShutInv
  <1> SUFFICES ASSUME Init PROVE ObjInv /\ ShutInv
    OBVIOUS
  <1>1. devices \in Seq(DeviceSet) /\ stacks \in Seq(StackSet) /\ Len(devices) = 0 /\ Len(stacks) = 0
    BY DEF Init
  <1>2. ObjInv
    BY <1>1 DEF Init, ObjInv
  <1>3. ShutInv
    BY <1>1 DEF Init, ShutInv, Orderly, AllOver, BeforeDevice
  <1> QED
    BY <1>2, <1>3

\* A step that leaves the devices and stacks alone.
LEMMA KeepObj == ASSUME ObjInv, UNCHANGED <<objs, device, stack, icmp>> PROVE ObjInv'
  BY DEF ObjInv, objs

LEMMA KeepShut == ASSUME ShutInv, UNCHANGED <<pc, phase, objs, device, stack>> PROVE ShutInv'
  <1>1. /\ AllOver' = AllOver /\ Up' = Up /\ Opened' = Opened /\ Closing' = Closing
        /\ devices' = devices
    BY DEF AllOver, Up, Opened, Closing, Serving, OnlyLast, Over, objs
  <1> QED
    BY <1>1, SMTT(30) DEF ShutInv, Orderly

\* Inside start or stop, from one place to another of the same kind.
LEMMA MoveShut ==
    ASSUME MutexInv, ShutInv, NEW c \in Callers, NEW to \in Places, Go(c, to), pc[c] # "idle", to # "idle",
           UNCHANGED <<phase, objs, device, stack>>,
           \/ pc[c] \in BeforeDevice \cup {"start"} /\ to \in BeforeDevice
           \/ pc[c] = "stop" /\ to = "stopping"
    PROVE  ShutInv'
  <1>1. \A d \in Callers : pc'[d] = IF d = c THEN to ELSE pc[d]
    BY DEF Go, MutexInv
  <1>2. /\ AllOver' = AllOver /\ Up' = Up /\ Opened' = Opened /\ Closing' = Closing
        /\ devices' = devices
    BY SMTT(30) DEF AllOver, Up, Opened, Closing, Serving, OnlyLast, Over, objs
  <1> HIDE DEF AllOver
  <1> QED
    BY <1>1, <1>2 DEF ShutInv, Orderly, BeforeDevice

\* A start that fails.
LEMMA FailShut ==
    ASSUME MutexInv, ShutInv, NEW c \in Callers, pc[c] # "idle", Fail(c),
           (\A d \in 1 .. Len(devices) : devices[d].closes <= 1) =>
               \A d \in 1 .. Len(devices') : devices'[d].closes <= 1
    PROVE  ShutInv'
  <1>1. \A d \in Callers : pc'[d] = IF d = c THEN "fatal" ELSE pc[d]
    BY DEF Fail, Go, MutexInv
  <1> QED
    BY <1>1 DEF Fail, ShutInv, Orderly, BeforeDevice

LEMMA StartShut ==
    ASSUME MutexInv, ObjInv, ShutInv, NEW c \in Callers, StartRuns(c),
           ~OpenDevice(c), ~CreateStack(c), ~PostUp(c)
    PROVE  ObjInv' /\ ShutInv'
  <1>1. UNCHANGED <<objs, device, stack, icmp>>
    BY DEF StartRuns, Lock, EmptyKeyOrLevel, Reset, BindInterface, RoutingMark, SetUDPTimeout, RestAPI,
           Netstack, SetProxy, Fatal, eng, objs
  <1>2. \/ pc[c] \in BeforeDevice /\ Fail(c)
        \/ /\ phase' = phase
           /\ \E to \in BeforeDevice : pc[c] \in BeforeDevice \cup {"start"} /\ Go(c, to)
        \/ Fatal(c)
    BY ZenonT(30) DEF StartRuns, Lock, EmptyKeyOrLevel, Reset, BindInterface, RoutingMark, SetUDPTimeout, RestAPI,
           Netstack, SetProxy, Step, At, BeforeDevice
  <1>3. ObjInv'
    BY <1>1, KeepObj
  <1>4. CASE pc[c] \in BeforeDevice /\ Fail(c)
    <2>1. pc[c] # "idle" /\ UNCHANGED devices
      BY <1>1, <1>4 DEF BeforeDevice, objs
    <2> QED
      BY <1>3, <1>4, <2>1, FailShut
  <1>5. ASSUME phase' = phase, NEW to \in BeforeDevice, pc[c] \in BeforeDevice \cup {"start"}, Go(c, to)
        PROVE  ShutInv'
    <2>1. to \in Places /\ to # "idle" /\ pc[c] # "idle"
      BY <1>5 DEF Places, Critical, BeforeDevice
    <2> QED
      BY <1>1, <1>5, <2>1, MoveShut
  <1>6. CASE Fatal(c)
    <2>1. UNCHANGED <<pc, phase, objs, device, stack>>
      BY <1>1, <1>6 DEF Fatal
    <2> QED
      BY <1>3, <2>1, KeepShut
  <1> QED
    BY <1>2, <1>3, <1>4, <1>5, <1>6, SMTT(30)

\* The new device is the engine's, and the only one that is not over.
LEMMA OpenShut ==
    ASSUME MutexInv, ObjInv, ShutInv, NEW c \in Callers, OpenDevice(c)
    PROVE  ObjInv' /\ ShutInv'
  <1> DEFINE new == [driver |-> Scheme(key.device, "tun"), open |-> TRUE, closes |-> 0, dispatch |-> "none"]
  <1>1. CASE Fail(c) /\ UNCHANGED devices /\ device' = 0
    <2>1. pc[c] # "idle"
      BY DEF OpenDevice, Step, At
    <2>2. ObjInv'
      BY <1>1, SMTT(30) DEF OpenDevice, ObjInv
    <2> QED
      BY <1>1, <2>1, <2>2, FailShut
  <1>2. CASE /\ Step(c, "device", "stack") /\ devices' = Append(devices, new) /\ device' = Len(devices) + 1
    <2>1. key \in Keys /\ pc[c] = "device"
      BY <1>2 DEF MutexInv, Step, At, Configuring, BeforeDevice
    <2>2. new \in DeviceSet /\ devices \in Seq(DeviceSet)
      BY <2>1 DEF DeviceSet, ObjInv
    <2>3. /\ devices' \in Seq(DeviceSet) /\ Len(devices') = Len(devices) + 1 /\ Len(devices) \in Nat
          /\ \A i \in 1 .. Len(devices) : devices'[i] = devices[i]
          /\ devices'[Len(devices) + 1] = new
      BY <1>2, <2>2, AppendFacts
    <2>4. ObjInv'
      <3>1. device' = Len(devices) + 1 /\ UNCHANGED <<stacks, stack, icmp>>
        BY <1>2 DEF OpenDevice
      <3>2. device' \in 0 .. Len(devices')
        BY <2>3, <3>1
      <3> QED
        BY <2>3, <3>1, <3>2 DEF ObjInv
    <2>5. SUFFICES ASSUME phase # "overlapping" PROVE ShutInv'
      BY <1>2, <2>4 DEF ShutInv, Step
    <2>6. AllOver /\ \A d \in Callers : d # c => pc[d] = "idle"
      BY <2>1, <2>5 DEF ShutInv, Orderly, BeforeDevice
    <2>7. \A d \in Callers : pc'[d] = IF d = c THEN "stack" ELSE "idle"
      BY <1>2, <2>6 DEF Step, Go, MutexInv
    <2>8. Opened'
      BY <1>2, <2>3, <2>6 DEF AllOver, Opened, OnlyLast, Over
    <2>9. \A d \in 1 .. Len(devices') : devices'[d].closes <= 1
      BY <2>3, <2>5 DEF ShutInv, Orderly
    <2>10. phase' = phase /\ phase = "busy"
      <3>1. phase' = phase
        BY <1>2 DEF Step
      <3> QED
        BY <2>1, <2>5, <3>1 DEF ShutInv, Orderly
    <2> QED
      <3>1. \A a, b \in Callers : pc'[a] # "idle" /\ pc'[b] # "idle" => a = b
        BY <2>7
      <3>2. \A d \in Callers : pc'[d] \in {"idle", "stack"}
        BY <2>7
      <3> QED
        BY <2>8, <2>9, <2>10, <3>1, <3>2 DEF ShutInv, Orderly, BeforeDevice
  <1> QED
    BY <1>1, <1>2 DEF OpenDevice

\* The stack is the engine's, on its device.
LEMMA StackShut ==
    ASSUME MutexInv, ObjInv, ShutInv, NEW c \in Callers, CreateStack(c)
    PROVE  ObjInv' /\ ShutInv'
  <1> DEFINE new == [key |-> key, icmp |-> icmp, groups |-> Groups(key), device |-> device, open |-> TRUE]
             x == [devices[device] EXCEPT !.dispatch = "reading"]
  <1>0. UNCHANGED <<device, icmp>>
    BY DEF CreateStack
  <1>1. CASE Fail(c) /\ UNCHANGED stacks /\ stack' \in {0, stack}
             /\ devices' \in {devices, [devices EXCEPT ![device] = x]}
    <2>1. pc[c] # "idle"
      BY DEF CreateStack, Step, At
    <2>2. /\ devices \in Seq(DeviceSet) /\ stacks \in Seq(StackSet) /\ device \in 0 .. Len(devices)
          /\ stack \in 0 .. Len(stacks) /\ icmp \in {Nil, "handler"} /\ Len(stacks) \in Nat
          /\ Len(devices) \in Nat /\ device \in Nat
      BY SMTT(30) DEF ObjInv
    <2>3. device \in 1 .. Len(devices) =>
             x \in DeviceSet /\ devices[device] \in DeviceSet /\ x.closes = devices[device].closes
      <3>1. device \in 1 .. Len(devices) => devices[device] \in DeviceSet
        BY <2>2
      <3> QED
        BY <3>1 DEF DeviceSet
    <2> HIDE DEF x, new
    <2>4. /\ devices' \in Seq(DeviceSet) /\ Len(devices') = Len(devices)
          /\ \A j \in 1 .. Len(devices) : devices'[j] = devices[j] \/ (j = device /\ devices'[j] = x)
      <3>1. CASE devices' = devices
        BY <2>2, <3>1
      <3>2. CASE devices' = [devices EXCEPT ![device] = x]
        <4>1. /\ devices' \in Seq(DeviceSet) /\ Len(devices') = Len(devices)
              /\ \A j \in 1 .. Len(devices) : devices'[j] = IF j = device THEN x ELSE devices[j]
          BY <2>2, <2>3, <3>2, UpdateFacts
        <4> QED
          BY <4>1, Zenon
      <3> QED
        BY <1>1, <3>1, <3>2
    <2>5. ObjInv'
      BY <1>0, <1>1, <2>2, <2>4, SMTT(30) DEF ObjInv
    <2>6. \A j \in 1 .. Len(devices) : devices'[j].closes = devices[j].closes
      BY <2>3, <2>4, Zenon
    <2> QED
      BY <1>1, <2>1, <2>4, <2>5, <2>6, FailShut
  <1>2. CASE /\ Step(c, "stack", "post") /\ stacks' = Append(stacks, new) /\ stack' = Len(stacks) + 1
             /\ devices' = [devices EXCEPT ![device] = x]
    <2>1. key \in Keys /\ pc[c] = "stack"
      BY <1>2 DEF MutexInv, Step, At, Configuring
    <2>2. devices \in Seq(DeviceSet) /\ stacks \in Seq(StackSet) /\ device \in 0 .. Len(devices)
          /\ icmp \in {Nil, "handler"} /\ Len(devices) \in Nat /\ device \in Nat
      BY SMTT(30) DEF ObjInv
    <2>3. new \in StackSet
      BY <2>1, <2>2, Zenon DEF StackSet
    <2>4. device \in 1 .. Len(devices) => x \in DeviceSet /\ devices[device] \in DeviceSet
      <3>1. device \in 1 .. Len(devices) => devices[device] \in DeviceSet
        BY <2>2
      <3> QED
        BY <3>1 DEF DeviceSet
    <2>5. /\ stacks' \in Seq(StackSet) /\ Len(stacks') = Len(stacks) + 1 /\ Len(stacks) \in Nat
          /\ stacks'[Len(stacks) + 1] = new
      BY <1>2, <2>2, <2>3, AppendFacts
    <2> HIDE DEF x, new
    <2>6. /\ devices' \in Seq(DeviceSet) /\ Len(devices') = Len(devices)
          /\ \A j \in 1 .. Len(devices) : devices'[j] = IF j = device THEN x ELSE devices[j]
      BY <1>2, <2>2, <2>4, UpdateFacts
    <2>7. ObjInv'
      BY <1>0, <1>2, <2>2, <2>5, <2>6, SMTT(30) DEF ObjInv
    <2>8. SUFFICES ASSUME phase # "overlapping" PROVE ShutInv'
      BY <1>2, <2>7 DEF ShutInv, Step
    <2>9. Opened /\ \A d \in Callers : d # c => pc[d] = "idle"
      BY <2>1, <2>8 DEF ShutInv, Orderly
    <2>10. \A d \in Callers : pc'[d] = IF d = c THEN "post" ELSE "idle"
      BY <1>2, <2>9 DEF Step, Go, MutexInv
    <2>11. device \in 1 .. Len(devices)
      BY <2>2, <2>9 DEF Opened, OnlyLast
    <2>12. x.open = devices[device].open /\ x.closes = devices[device].closes /\ x.dispatch = "reading"
      BY <2>4, <2>11 DEF x, DeviceSet
    <2>13. Up'
      <3>1. Opened'
        BY <1>0, <2>6, <2>9, <2>11, <2>12, ZenonT(30) DEF Opened, OnlyLast, Over
      <3>2. Serving'
        BY <1>0, <1>2, <2>5 DEF Serving, new
      <3> QED
        BY <1>0, <3>1, <3>2, <2>6, <2>11, <2>12 DEF Up
    <2>14. \A d \in 1 .. Len(devices') : devices'[d].closes <= 1
      BY <2>6, <2>8, <2>12 DEF ShutInv, Orderly
    <2>15. phase' = phase /\ phase = "busy"
      <3>1. phase' = phase
        BY <1>2, SMTT(30) DEF Step
      <3> QED
        BY <2>1, <2>8, <3>1 DEF ShutInv, Orderly
    <2> QED
      <3>1. \A a, b \in Callers : pc'[a] # "idle" /\ pc'[b] # "idle" => a = b
        BY <2>10
      <3>2. \A d \in Callers : pc'[d] \in {"idle", "post"}
        BY <2>10
      <3> QED
        BY <2>13, <2>14, <2>15, <3>1, <3>2 DEF ShutInv, Orderly, BeforeDevice
  <1> QED
    BY <1>1, <1>2 DEF CreateStack, objs

LEMMA OneCaller ==
    ASSUME MutexInv, ShutInv, NEW c \in Callers, NEW to, Go(c, to), phase # "overlapping", pc[c] # "idle"
    PROVE  /\ phase = "busy" /\ \A d \in Callers : pc'[d] \in {"idle", to}
           /\ \A a, b \in Callers : pc'[a] # "idle" /\ pc'[b] # "idle" => a = b
  <1>1. phase = "busy" /\ \A d \in Callers : d # c => pc[d] = "idle"
    BY DEF ShutInv, Orderly
  <1>2. \A d \in Callers : pc'[d] = IF d = c THEN to ELSE "idle"
    BY <1>1, SMTT(30) DEF Go, MutexInv
  <1> QED
    BY <1>1, <1>2

\* Start and Stop are called.
LEMMA CallShut ==
    ASSUME MutexInv, ObjInv, ShutInv, NEW c \in Callers, NEW first, NEW before, Call(c, first, before),
           <<first, before>> \in {<<"start", "stopped">>, <<"stop", "running">>}
    PROVE  ObjInv' /\ ShutInv'
  <1>1. UNCHANGED <<objs, device, stack, icmp>> /\ devices' = devices
    BY DEF Call, eng, objs
  <1>2. ObjInv'
    BY <1>1, KeepObj, SMTT(30)
  <1>3. SUFFICES ASSUME phase = before PROVE ShutInv'
    BY <1>2 DEF Call, ShutInv
  <1>o. Orderly /\ phase \in {"stopped", "running"}
    BY <1>3 DEF ShutInv
  <1>4. \/ first = "start" /\ AllOver
        \/ first = "stop" /\ Up
    <2>1. \/ first = "start" /\ before = "stopped"
          \/ first = "stop" /\ before = "running"
      OBVIOUS
    <2>2. (phase = "stopped" => AllOver) /\ (phase = "running" => Up)
      BY <1>o, Zenon DEF Orderly
    <2> QED
      BY <1>3, <2>1, <2>2, Zenon
  <1>5. /\ phase' = "busy" /\ \A d \in Callers : pc[d] = "idle"
        /\ \A d \in 1 .. Len(devices) : devices[d].closes <= 1
    BY <1>3, <1>o, SMTT(30) DEF Orderly, Call
  <1>6. \A d \in Callers : pc'[d] = IF d = c THEN first ELSE "idle"
    BY <1>5, ZenonT(30) DEF Call, Go, MutexInv
  <1>7. AllOver' = AllOver /\ Up' = Up
    BY <1>1 DEF AllOver, Up, Opened, Serving, OnlyLast, Over, objs
  <1>8. \A a, b \in Callers : pc'[a] # "idle" /\ pc'[b] # "idle" => a = b
    BY <1>6
  <1>9. \A d \in Callers : pc'[d] \in {"idle", first}
    BY <1>6, SMTT(30)
  <1> QED
    BY <1>1, <1>4, <1>5, <1>7, <1>8, <1>9 DEF ShutInv, Orderly, BeforeDevice

\* Start and Stop return.
LEMMA ReturnShut ==
    ASSUME MutexInv, ObjInv, ShutInv, NEW c \in Callers, NEW from, NEW to, Return(c, from, to), from # "idle",
           UNCHANGED <<objs, device, stack, icmp>>,
           \/ to = "running" /\ (phase # "overlapping" => Up)
           \/ to = "stopped" /\ (phase # "overlapping" => AllOver)
    PROVE  ObjInv' /\ ShutInv'
  <1>1. ObjInv'
    BY KeepObj, SMTT(30)
  <1>2. SUFFICES ASSUME phase # "overlapping" PROVE ShutInv'
    BY <1>1 DEF Return, ShutInv
  <1>3. /\ phase = "busy" /\ \A d \in Callers : pc'[d] \in {"idle", "idle"}
    BY <1>2, OneCaller, SMTT(30) DEF Return, At
  <1>4. AllOver' = AllOver /\ Up' = Up
    <2>1. UNCHANGED <<devices, stacks, device, stack>>
      BY DEF objs
    <2>2. AllOver' = AllOver
      BY <2>1 DEF AllOver, Over
    <2>3. OnlyLast' = OnlyLast /\ Serving' = Serving
      BY <2>1 DEF OnlyLast, Over, Serving
    <2>4. Opened' = Opened
      BY <2>1, <2>3 DEF Opened
    <2> QED
      BY <2>1, <2>2, <2>3, <2>4 DEF Up
  <1>5. phase' = to
    BY <1>3 DEF Return
  <1>6. devices' = devices /\ \A d \in 1 .. Len(devices) : devices[d].closes <= 1
    BY <1>2 DEF ShutInv, Orderly, objs
  <1>7. \A d \in Callers : pc'[d] = "idle"
    BY <1>3, SMTT(30)
  <1> QED
    BY <1>2, <1>4, <1>5, <1>6, <1>7 DEF ShutInv, Orderly, BeforeDevice

LEMMA CloseShut ==
    ASSUME MutexInv, ObjInv, ShutInv, NEW c \in Callers, CloseDevice(c)
    PROVE  ObjInv' /\ ShutInv'
  <1> DEFINE n == devices[device].closes
             x == [devices[device] EXCEPT !.open = FALSE,
                       !.closes = IF @ > 0 /\ devices[device].driver = "fd" THEN @ ELSE @ + 1]
  <1>1. UNCHANGED <<device, stack, icmp, stacks>>
    BY DEF CloseDevice, eng
  <1>2. /\ devices \in Seq(DeviceSet) /\ device \in 0 .. Len(devices) /\ Len(devices) \in Nat /\ device \in Nat
    BY DEF ObjInv
  <1>3. device \in 1 .. Len(devices) => devices[device] \in DeviceSet
    BY <1>2
  <1>4. device \in 1 .. Len(devices) =>
            x \in DeviceSet /\ ~x.open /\ x.dispatch = devices[device].dispatch
            /\ (n = 0 => x.closes = 1)
    <2> SUFFICES ASSUME device \in 1 .. Len(devices)
                 PROVE  x \in DeviceSet /\ ~x.open /\ x.dispatch = devices[device].dispatch
                        /\ (n = 0 => x.closes = 1)
      OBVIOUS
    <2>1. n \in Nat /\ devices[device] \in DeviceSet
      BY <1>3 DEF DeviceSet
    <2> DEFINE m == IF n > 0 /\ devices[device].driver = "fd" THEN n ELSE n + 1
    <2>2. m \in Nat /\ (n = 0 => m = 1)
      BY <2>1
    <2>3. x = [devices[device] EXCEPT !.open = FALSE, !.closes = m]
      BY <2>1 DEF DeviceSet
    <2> HIDE DEF m, x
    <2> QED
      BY <2>1, <2>2, <2>3, Zenon DEF DeviceSet
  <1>5. device # 0 => devices' = [devices EXCEPT ![device] = x]
    <2>1. ASSUME device # 0 PROVE device \in DOMAIN devices
      BY <1>2, <2>1
    <2> QED
      BY <2>1, Zenon DEF CloseDevice
  <1> HIDE DEF x
  <1>6. device # 0 =>
            /\ devices' \in Seq(DeviceSet) /\ Len(devices') = Len(devices)
            /\ \A j \in 1 .. Len(devices) : devices'[j] = IF j = device THEN x ELSE devices[j]
    <2>0. devices \in Seq(DeviceSet) /\ (device \in 1 .. Len(devices) => x \in DeviceSet)
      BY <1>2, <1>4
    <2>1. /\ [devices EXCEPT ![device] = x] \in Seq(DeviceSet)
          /\ Len([devices EXCEPT ![device] = x]) = Len(devices)
          /\ \A j \in 1 .. Len(devices) :
                 [devices EXCEPT ![device] = x][j] = IF j = device THEN x ELSE devices[j]
      BY <2>0, UpdateFacts
    <2> QED
      BY <1>5, <2>1, Zenon
  <1>7. ObjInv'
    <2>1. CASE device = 0
      BY <1>1, <2>1 DEF ObjInv, CloseDevice
    <2>2. CASE device # 0
      BY <1>1, <1>2, <1>6, <2>2 DEF ObjInv
    <2> QED
      BY <2>1, <2>2
  <1>8. phase' = phase /\ pc[c] = "stopping" /\ Go(c, "stack.Close")
    BY SMTT(30) DEF CloseDevice, Step, At
  <1>9. SUFFICES ASSUME phase # "overlapping" PROVE ShutInv'
    BY <1>7, <1>8 DEF ShutInv
  <1>10. Up
    BY <1>8, <1>9 DEF ShutInv, Orderly
  <1>11. device # 0 /\ device \in 1 .. Len(devices) /\ n = 0
    BY <1>2, <1>10, SMTT(30) DEF Up, Opened, OnlyLast
  <1>12. Closing'
    <2>1. OnlyLast'
      BY <1>1, <1>2, <1>6, <1>10, <1>11 DEF Up, Opened, OnlyLast, Over
    <2>2. Serving'
      BY <1>1, <1>10 DEF Up, Serving
    <2> QED
      BY <1>1, <1>4, <1>6, <1>11, <2>1, <2>2 DEF Closing
  <1>13. \A d \in 1 .. Len(devices') : devices'[d].closes <= 1
    BY <1>4, <1>6, <1>9, <1>11 DEF ShutInv, Orderly
  <1>14. /\ phase = "busy" /\ \A d \in Callers : pc'[d] \in {"idle", "stack.Close"}
         /\ \A a, b \in Callers : pc'[a] # "idle" /\ pc'[b] # "idle" => a = b
    BY <1>8, <1>9, OneCaller, SMTT(30)
  <1> QED
    BY <1>8, <1>12, <1>13, <1>14 DEF ShutInv, Orderly, BeforeDevice

LEMMA CloseStackShut ==
    ASSUME MutexInv, ObjInv, ShutInv, NEW c \in Callers, CloseStack(c)
    PROVE  ObjInv' /\ ShutInv'
  <1> DEFINE x == [stacks[stack] EXCEPT !.open = FALSE]
  <1>1. UNCHANGED <<device, stack, icmp, devices>>
    BY DEF CloseStack, eng
  <1>2. stacks \in Seq(StackSet) /\ stack \in 0 .. Len(stacks) /\ Len(stacks) \in Nat /\ stack \in Nat
    BY DEF ObjInv
  <1>3. stack \in 1 .. Len(stacks) => stacks[stack] \in StackSet
    BY <1>2
  <1>4. stack \in 1 .. Len(stacks) => x \in StackSet /\ x.device = stacks[stack].device
    BY <1>3, ZenonT(30) DEF StackSet
  <1>5. stack # 0 => stacks' = [stacks EXCEPT ![stack] = x]
    BY DEF CloseStack
  <1> HIDE DEF x
  <1>6. stack # 0 =>
            /\ stacks' \in Seq(StackSet) /\ Len(stacks') = Len(stacks)
            /\ \A j \in 1 .. Len(stacks) : stacks'[j] = IF j = stack THEN x ELSE stacks[j]
    <2>0. stacks \in Seq(StackSet) /\ (stack \in 1 .. Len(stacks) => x \in StackSet)
      BY <1>2, <1>4
    <2>1. /\ [stacks EXCEPT ![stack] = x] \in Seq(StackSet)
          /\ Len([stacks EXCEPT ![stack] = x]) = Len(stacks)
          /\ \A j \in 1 .. Len(stacks) : [stacks EXCEPT ![stack] = x][j] = IF j = stack THEN x ELSE stacks[j]
      BY <2>0, UpdateFacts
    <2> QED
      BY <1>5, <2>1, Zenon
  <1>7. ObjInv'
    <2>1. CASE stack = 0
      BY <1>1, <2>1 DEF ObjInv, CloseStack
    <2>2. CASE stack # 0
      BY <1>1, <1>2, <1>6, <2>2 DEF ObjInv
    <2> QED
      BY <2>1, <2>2
  <1>8. phase' = phase /\ pc[c] = "stack.Close" /\ Go(c, "stack.Wait")
    BY SMTT(30) DEF CloseStack, Step, At
  <1>9. SUFFICES ASSUME phase # "overlapping" PROVE ShutInv'
    BY <1>7, <1>8 DEF ShutInv
  <1>10. Closing /\ \A d \in 1 .. Len(devices) : devices[d].closes <= 1
    BY <1>8, <1>9 DEF ShutInv, Orderly
  <1>11. Closing'
    <2>1. OnlyLast' /\ ~devices'[device'].open
      BY <1>1, <1>10, SMTT(30) DEF Closing, OnlyLast, Over
    <2>2. Serving'
      <3>1. stack # 0 /\ stack \in 1 .. Len(stacks) /\ stacks[stack].device = device
        BY <1>2, <1>10 DEF Closing, Serving
      <3>2. stacks'[stack] = x /\ x.device = stacks[stack].device
        BY <1>4, <1>6, <3>1
      <3> QED
        BY <1>1, <1>2, <3>1, <3>2 DEF Serving
    <2> QED
      BY <2>1, <2>2, SMTT(30) DEF Closing
  <1>12. /\ phase = "busy" /\ \A d \in Callers : pc'[d] \in {"idle", "stack.Wait"}
         /\ \A a, b \in Callers : pc'[a] # "idle" /\ pc'[b] # "idle" => a = b
    BY <1>8, <1>9, OneCaller
  <1> QED
    BY <1>1, <1>8, <1>10, <1>11, <1>12 DEF ShutInv, Orderly, BeforeDevice

\* A dispatch goroutine moves: that of the engine's device, if calls alternate.
LEMMA DispatchShut ==
    ASSUME MutexInv, ObjInv, ShutInv, NEW d \in DOMAIN devices, HandOver(d) \/ TunnelTakes(d) \/ DispatchEnds(d)
    PROVE  ObjInv' /\ ShutInv'
  <1>1. PICK to \in {"reading", "HandleUDP", "ended"} :
            /\ devices' = [devices EXCEPT ![d].dispatch = to] /\ devices[d].dispatch # "ended"
            /\ UNCHANGED <<pc, phase, device, stack, icmp, stacks>>
            /\ devices[d].open => to # "ended"
    BY DEF HandOver, TunnelTakes, DispatchEnds, Dispatch, ctl, eng
  <1> DEFINE x == [devices[d] EXCEPT !.dispatch = to]
  <1>2. /\ devices \in Seq(DeviceSet) /\ d \in 1 .. Len(devices) /\ Len(devices) \in Nat
    BY DEF ObjInv
  <1>3. devices[d] \in DeviceSet
    BY <1>2
  <1>4. x \in DeviceSet /\ x.open = devices[d].open /\ x.closes = devices[d].closes /\ x.dispatch = to
    BY <1>1, <1>3 DEF DeviceSet
  <1>5. devices' = [devices EXCEPT ![d] = x]
    BY <1>1
  <1> HIDE DEF x
  <1>6. /\ devices' \in Seq(DeviceSet) /\ Len(devices') = Len(devices)
        /\ \A j \in 1 .. Len(devices) : devices'[j] = IF j = d THEN x ELSE devices[j]
    BY <1>2, <1>4, <1>5, UpdateFacts
  <1>7. ObjInv'
    BY <1>1, <1>6 DEF ObjInv
  <1>8. ~AllOver
    BY <1>1, <1>2 DEF AllOver, Over
  <1>9. OnlyLast => d = device
    BY <1>1, <1>2 DEF OnlyLast, Over
  <1>10. OnlyLast => OnlyLast'
    BY <1>1, <1>2, <1>6, <1>9 DEF OnlyLast, Over
  <1>11. Serving' = Serving
    BY <1>1 DEF Serving
  <1>12. Opened => Opened'
    BY <1>1, <1>2, <1>4, <1>6, <1>9, <1>10 DEF Opened
  <1>13. Up => Up'
    BY <1>1, <1>2, <1>4, <1>6, <1>9, <1>11, <1>12 DEF Up, Opened
  <1>14. Closing => Closing'
    BY <1>1, <1>2, <1>4, <1>6, <1>9, <1>10, <1>11 DEF Closing
  <1>15. (\A j \in 1 .. Len(devices) : devices[j].closes <= 1) =>
             \A j \in 1 .. Len(devices') : devices'[j].closes <= 1
    <2>1. \A j \in 1 .. Len(devices) : devices'[j].closes = devices[j].closes
      BY <1>4, <1>6, Zenon
    <2> QED
      BY <1>6, <2>1
  <1>16. ShutInv'
    <2>1. phase' = phase /\ pc' = pc
      BY <1>1
    <2> QED
      BY <2>1, <1>8, <1>12, <1>13, <1>14, <1>15 DEF ShutInv, Orderly
  <1> QED
    BY <1>7, <1>16

LEMMA StepShut == MutexInv /\ ObjInv /\ ShutInv /\ [Next]_vars => ObjInv' /\ ShutInv'
  <1> SUFFICES ASSUME MutexInv, ObjInv, ShutInv, [Next]_vars PROVE ObjInv' /\ ShutInv'
    OBVIOUS
  <1>1. ASSUME UNCHANGED <<pc, phase, objs, device, stack>>, icmp' \in {icmp, "handler"}
        PROVE  ObjInv' /\ ShutInv'
    <2>1. ObjInv'
      BY <1>1 DEF ObjInv, objs
    <2> QED
      BY <1>1, <2>1, KeepShut
  <1>2. ASSUME NEW c \in Callers, NEW k \in Keys, Insert(c, k) PROVE ObjInv' /\ ShutInv'
    BY <1>1, <1>2 DEF Insert, ctl
  <1>3. ASSUME NEW c \in Callers, SetICMPHandler(c) PROVE ObjInv' /\ ShutInv'
    BY <1>1, <1>3 DEF SetICMPHandler, ctl
  <1>4. ASSUME NEW c \in Callers, Start(c) \/ Stop(c) PROVE ObjInv' /\ ShutInv'
    BY <1>4, CallShut DEF Start, Stop
  <1>5. ASSUME NEW c \in Callers, PostUp(c) PROVE ObjInv' /\ ShutInv'
    <2>1. Return(c, "post", "running") /\ UNCHANGED <<objs, device, stack, icmp>>
      BY <1>5 DEF PostUp, eng
    <2>2. phase # "overlapping" => Up
      BY <2>1 DEF ShutInv, Orderly, Return, At
    <2> QED
      BY <2>1, <2>2, ReturnShut
  <1>6. ASSUME NEW c \in Callers, StartRuns(c) PROVE ObjInv' /\ ShutInv'
    BY <1>5, <1>6, OpenShut, StackShut, StartShut
  <1>7. ASSUME NEW c \in Callers, Lock(c, "stop", "stopping") PROVE ObjInv' /\ ShutInv'
    <2>1. /\ UNCHANGED <<objs, device, stack, icmp>> /\ UNCHANGED <<phase, objs, device, stack>>
          /\ Go(c, "stopping") /\ pc[c] = "stop"
      BY <1>7 DEF Lock, At, eng
    <2>2. "stopping" \in Places
      BY DEF Places, Critical, Stopping
    <2>3. ObjInv'
      BY <2>1, KeepObj
    <2> QED
      BY <2>1, <2>2, <2>3, MoveShut
  <1>8. ASSUME NEW c \in Callers, WaitStack(c) PROVE ObjInv' /\ ShutInv'
    <2>1. Return(c, "stack.Wait", "stopped") /\ UNCHANGED <<objs, device, stack, icmp>>
      BY <1>8 DEF WaitStack, eng
    <2>2. phase # "overlapping" => Closing
      BY <2>1 DEF ShutInv, Orderly, Return, At
    <2>3. Closing => devices[device].dispatch = "ended"
      BY <1>8 DEF WaitStack, Closing, Serving, ObjInv
    <2>4. phase # "overlapping" => AllOver
      BY <2>2, <2>3 DEF Closing, OnlyLast, AllOver, Over
    <2> QED
      BY <2>1, <2>4, ReturnShut
  <1>9. ASSUME NEW c \in Callers, StopRuns(c) PROVE ObjInv' /\ ShutInv'
    BY <1>7, <1>8, <1>9, CloseShut, CloseStackShut DEF StopRuns
  <1>10. ASSUME NEW class \in {"remote", "local"}, Dial(class) PROVE ObjInv' /\ ShutInv'
    BY <1>1, <1>10 DEF Dial, ctl, eng
  <1>11. ASSUME \/ \E s \in DOMAIN servers : Listen(s)
                \/ GetNetStats \/ StatsFunc \/ UNCHANGED vars
         PROVE  ObjInv' /\ ShutInv'
    BY <1>1, <1>11 DEF Listen, GetNetStats, StatsFunc, vars, ctl, eng
  <1> QED
    BY <1>2, <1>3, <1>4, <1>6, <1>9, <1>10, <1>11, DispatchShut DEF Next

\* engine.go:52 "Stop shuts the default engine down", for any number of keys and
\* of starts and stops, as long as they alternate: what stop finds is the one
\* device that is not over, closed once, and Wait outlasts its dispatch goroutine.
THEOREM StopLeavesNothing == Spec => []StopShutsDown
  <1>1. ObjInv /\ ShutInv => StopShutsDown
    <2> SUFFICES ASSUME ObjInv, ShutInv PROVE StopShutsDown
      OBVIOUS
    <2>1. DOMAIN devices = 1 .. Len(devices)
      BY DEF ObjInv
    <2> QED
      BY <2>1 DEF ShutInv, Orderly, AllOver, Over, StopShutsDown
  <1> QED
    BY <1>1, InitMutex, InitShut, StepMutex, StepShut, PTL DEF Spec

-----------------------------------------------------------------------------
INSTANCE FiniteSetTheorems

\* The first n stacks of s whose keys have a post-up command.
Ups(s, n) == { i \in 1 .. n : s[i].key.postUp }

\* One more stack.
LEMMA UpsAdd ==
    ASSUME NEW s, NEW n \in Nat
    PROVE  /\ Cardinality(Ups(s, n)) \in Nat
           /\ Cardinality(Ups(s, n + 1)) = IF s[n + 1].key.postUp THEN Cardinality(Ups(s, n)) + 1
                                           ELSE Cardinality(Ups(s, n))
  <1>1. IsFiniteSet(1 .. n)
    BY FS_Interval
  <1>2. IsFiniteSet(Ups(s, n))
    BY <1>1, FS_Subset DEF Ups
  <1>3. Cardinality(Ups(s, n)) \in Nat
    BY <1>2, FS_CardinalityType
  <1>4. n + 1 \notin Ups(s, n)
    BY DEF Ups
  <1>5. Cardinality(Ups(s, n) \cup {n + 1}) = Cardinality(Ups(s, n)) + 1
    BY <1>2, <1>4, FS_AddElement
  <1>6. CASE s[n + 1].key.postUp
    <2>1. 1 .. n + 1 = (1 .. n) \cup {n + 1}
      OBVIOUS
    <2>2. Ups(s, n + 1) = Ups(s, n) \cup {n + 1}
      BY <1>6, <2>1, Zenon DEF Ups
    <2> QED
      BY <1>3, <1>5, <1>6, <2>2, Zenon
  <1>7. CASE ~s[n + 1].key.postUp
    <2>1. Ups(s, n + 1) = Ups(s, n)
      BY <1>7 DEF Ups
    <2> QED
      BY <1>3, <1>7, <2>1
  <1> QED
    BY <1>6, <1>7

\* Only the keys of the stacks count.
LEMMA UpsSame ==
    ASSUME NEW s, NEW t, NEW n \in Nat, \A i \in 1 .. n : s[i].key = t[i].key
    PROVE  Ups(s, n) = Ups(t, n)
  BY DEF Ups

\* What a start that has got to a place has put in force of the key.
Ready(place) ==
    /\ place \in {"timeout", "rest", "serve", "netstack", "proxy", "device", "stack", "post"} => opts = SockOpts(key)
    /\ place \in {"rest", "serve", "netstack", "proxy", "device", "stack", "post"} =>
           (key.timeout > 0 => timeout = key.timeout)
    /\ place \in {"proxy", "device", "stack", "post"} => Groups(key) \subseteq Multicast
    /\ place \in {"device", "stack", "post"} => proxy = Scheme(key.proxy, "socks5")
    /\ place \in {"stack", "post"} => devices[device].driver = Scheme(key.device, "tun")
    /\ place = "post" => /\ stack = Len(stacks) /\ stack # 0 /\ stacks[stack].open
                         /\ stacks[stack].key = key /\ stacks[stack].groups = Groups(key)

\* The stack that runs has its key in force, whatever has been inserted since.
InForce ==
    LET s == stacks[stack] IN
    /\ stack # 0 /\ s.open /\ opts = SockOpts(s.key) /\ proxy = Scheme(s.key.proxy, "socks5")
    /\ devices[device].driver = Scheme(s.key.device, "tun")
    /\ s.groups \subseteq Multicast /\ s.groups = Groups(s.key)
    /\ s.key.timeout > 0 => timeout = s.key.timeout

\* The post-up commands of the first n stacks have been executed.
Posted(n) == posts = Cardinality(Ups(stacks, n))

\* As long as starts and stops alternate.
ForceInv ==
    phase # "overlapping" =>
        /\ \A c \in Callers : Ready(pc[c]) /\ (pc[c] = "post" => Posted(Len(stacks) - 1))
        /\ (\A c \in Callers : pc[c] # "post") => Posted(Len(stacks))
        /\ phase = "running" => InForce

LEMMA InitForce == Init => ForceInv
  <1> SUFFICES ASSUME Init PROVE ForceInv
    OBVIOUS
  <1>1. Len(stacks) = 0 /\ posts = 0
    BY DEF Init
  <1>2. Ups(stacks, 0) = {}
    BY DEF Ups
  <1>3. Posted(Len(stacks))
    BY <1>1, <1>2, FS_EmptySet DEF Posted
  <1> QED
    BY <1>3 DEF Init, ForceInv, Ready

\* One who is inside Start or Stop moves, and nobody else is.
LEMMA MoveForce ==
    ASSUME MutexInv, ShutInv, NEW c \in Callers, NEW to, Go(c, to), phase # "overlapping", pc[c] # "idle",
           Ready(to)', to = "post" => Posted(Len(stacks) - 1)', to # "post" => Posted(Len(stacks))',
           phase' = "running" => InForce'
    PROVE  ForceInv'
  <1>1. \A d \in Callers : pc'[d] \in {"idle", to}
    BY OneCaller
  <1>2. pc'[c] = to
    BY DEF Go, MutexInv
  <1>3. Ready("idle")'
    BY DEF Ready
  <1>4. \A d \in Callers : Ready(pc[d])'
    <2> SUFFICES ASSUME NEW d \in Callers PROVE Ready(pc[d])'
      OBVIOUS
    <2>1. CASE pc'[d] = to
      BY <2>1 DEF Ready
    <2>2. CASE pc'[d] = "idle"
      BY <2>2 DEF Ready
    <2> QED
      BY <1>1, <2>1, <2>2
  <1> QED
    BY <1>1, <1>2, <1>4, Zenon DEF ForceInv

\* Nobody in Start or Stop moves.
LEMMA StillForce ==
    ASSUME ShutInv, ForceInv, UNCHANGED <<pc, phase, key, opts, timeout, proxy, posts, stacks, stack, device>>,
           device # 0 => devices'[device].driver = devices[device].driver
    PROVE  ForceInv'
  <1> SUFFICES ASSUME phase # "overlapping" PROVE ForceInv'
    BY DEF ForceInv
  <1>1. /\ \A c \in Callers : pc[c] \in {"stack", "post"} => device # 0
        /\ phase = "running" => device # 0
    <2>1. Orderly
      BY DEF ShutInv
    <2>2. Opened => device # 0
      BY DEF Opened, OnlyLast
    <2> QED
      BY <2>1, <2>2 DEF Orderly, Up
  <1>2. ASSUME NEW c \in Callers PROVE Ready(pc[c])'
    <2>1. Ready(pc[c])
      BY DEF ForceInv
    <2>2. CASE pc[c] \in {"stack", "post"}
      BY <1>1, <2>1, <2>2 DEF Ready
    <2>3. CASE pc[c] \notin {"stack", "post"}
      BY <2>1, <2>3, ZenonT(30) DEF Ready
    <2> QED
      BY <2>2, <2>3
  <1>3. phase = "running" => InForce'
    BY <1>1 DEF ForceInv, InForce
  <1>4. \A n : Posted(n)' <=> Posted(n)
    BY DEF Posted
  <1> QED
    BY <1>2, <1>3, <1>4, ZenonT(30) DEF ForceInv, Posted

\* A step of start, before the device is opened.
LEMMA StartForce ==
    ASSUME MutexInv, OptsInv, ObjInv, ShutInv, ForceInv, phase # "overlapping", NEW c \in Callers, StartRuns(c),
           ~OpenDevice(c), ~CreateStack(c), ~PostUp(c)
    PROVE  ForceInv'
  <1>1. /\ UNCHANGED <<key, objs, device, stack, posts>> /\ phase' = phase
        /\ pc[c] \in BeforeDevice \cup {"start", "fatal"}
    BY ZenonT(30) DEF StartRuns, Lock, EmptyKeyOrLevel, Reset, BindInterface, RoutingMark, SetUDPTimeout, RestAPI,
           Netstack, SetProxy, Fatal, Fail, Step, At, eng, conf, objs, BeforeDevice
  <1>2. pc[c] # "idle" /\ phase = "busy" /\ \A d \in Callers : pc[d] # "post"
    BY <1>1, ZenonT(30) DEF ShutInv, Orderly, BeforeDevice
  <1>3. Posted(Len(stacks))'
    BY <1>1, <1>2 DEF ForceInv, Posted, objs
  <1>4. Ready(pc[c]) /\ (pc[c] = "mark" => opts = Bind(key))
    BY DEF ForceInv, OptsInv
  <1>5. ASSUME NEW to, Go(c, to), to # "post", Ready(to)' PROVE ForceInv'
    BY <1>1, <1>2, <1>3, <1>5, MoveForce
  <1>6. CASE Fail(c)
    <2>1. Ready("fatal")'
      BY DEF Ready
    <2> QED
      BY <1>5, <1>6, <2>1 DEF Fail
  <1>7. CASE Lock(c, "start", "general")
    <2>1. Ready("general")'
      BY DEF Ready
    <2> QED
      BY <1>5, <1>7, <2>1 DEF Lock
  <1>8. CASE Step(c, "general", "bind")
    <2>1. Ready("bind")'
      BY DEF Ready
    <2> QED
      BY <1>5, <1>8, <2>1 DEF Step
  <1>9. CASE Step(c, "bind", "mark")
    <2>1. Ready("mark")'
      BY DEF Ready
    <2> QED
      BY <1>5, <1>9, <2>1 DEF Step
  <1>10. CASE RoutingMark(c)
    <2>1. Ready("timeout")'
      BY <1>1, <1>4, <1>10, ZenonT(30) DEF RoutingMark, Step, At, SockOpts, Ready
    <2> QED
      BY <1>5, <1>10, <2>1 DEF RoutingMark, Step
  <1>11. CASE /\ Step(c, "timeout", "rest") /\ UNCHANGED opts
              /\ timeout' = IF key.timeout > 0 THEN key.timeout ELSE timeout
    <2>1. Ready("rest")'
      BY <1>1, <1>4, <1>11, ZenonT(30) DEF Step, At, Ready
    <2> QED
      BY <1>5, <1>11, <2>1 DEF Step
  <1>s. CASE Step(c, "rest", "serve") /\ RestAPI(c)
    <2>1. Ready("serve")'
      BY <1>1, <1>4, <1>s, ZenonT(30) DEF RestAPI, Step, At, Ready
    <2> QED
      BY <1>5, <1>s, <2>1 DEF Step
  <1>12. CASE (Step(c, "rest", "netstack") \/ Step(c, "serve", "netstack")) /\ RestAPI(c)
    <2>1. Ready("netstack")'
      BY <1>1, <1>4, <1>12, ZenonT(30) DEF RestAPI, Step, At, Ready
    <2> QED
      BY <1>5, <1>12, <2>1 DEF Step
  <1>13. CASE Step(c, "netstack", "proxy") /\ Netstack(c) /\ ParseMulticastGroups(key)
    <2>1. Ready("proxy")'
      BY <1>1, <1>4, <1>13, ZenonT(30) DEF Netstack, Step, At, Ready, ParseMulticastGroups, conf
    <2> QED
      BY <1>5, <1>13, <2>1 DEF Step
  <1>14. CASE Step(c, "proxy", "device") /\ SetProxy(c) /\ proxy' = Scheme(key.proxy, "socks5")
    <2>1. Ready("device")'
      BY <1>1, <1>4, <1>14, ZenonT(30) DEF SetProxy, Step, At, Ready
    <2> QED
      BY <1>5, <1>14, <2>1 DEF Step
  <1>15. CASE Fatal(c)
    <2>1. /\ UNCHANGED <<pc, phase, key, opts, timeout, proxy, posts, stacks, stack, device>>
          /\ devices' = devices
      BY <1>15 DEF Fatal, eng, conf, objs
    <2> QED
      BY <2>1, StillForce
  <1> QED
    BY <1>6, <1>7, <1>8, <1>9, <1>10, <1>11, <1>12, <1>13, <1>14, <1>15, <1>s, ZenonT(30)
    DEF StartRuns, EmptyKeyOrLevel, Reset, BindInterface, SetUDPTimeout, RestAPI, Netstack, SetProxy

LEMMA OpenForce ==
    ASSUME MutexInv, ObjInv, ShutInv, ForceInv, phase # "overlapping", NEW c \in Callers, OpenDevice(c)
    PROVE  ForceInv'
  <1>1. /\ UNCHANGED <<key, stacks, stack, posts, opts, timeout, proxy>> /\ phase' = phase /\ pc[c] = "device"
    BY DEF OpenDevice, Step, At, Fail, conf
  <1>2. phase = "busy" /\ \A d \in Callers : pc[d] # "post"
    BY <1>1, ZenonT(30) DEF ShutInv, Orderly
  <1>3. Posted(Len(stacks))'
    BY <1>1, <1>2 DEF ForceInv, Posted
  <1>4. CASE Fail(c)
    <2>1. Ready("fatal")' /\ Go(c, "fatal")
      BY <1>4 DEF Ready, Fail
    <2> QED
      BY <1>1, <1>2, <1>3, <2>1, MoveForce
  <1>5. CASE /\ Step(c, "device", "stack") /\ device' = Len(devices) + 1
             /\ devices' = Append(devices, [driver |-> Scheme(key.device, "tun"), open |-> TRUE,
                                            closes |-> 0, dispatch |-> "none"])
    <2>1. devices'[device'].driver = Scheme(key.device, "tun")
      BY <1>5 DEF ObjInv
    <2>2. Ready("device")
      BY <1>1 DEF ForceInv
    <2>3. Ready("stack")' /\ Go(c, "stack")
      BY <1>1, <1>5, <2>1, <2>2, ZenonT(30) DEF Ready, Step
    <2> QED
      BY <1>1, <1>2, <1>3, <2>3, MoveForce
  <1> QED
    BY <1>4, <1>5 DEF OpenDevice

LEMMA StackForce ==
    ASSUME MutexInv, ObjInv, ShutInv, ForceInv, phase # "overlapping", NEW c \in Callers, CreateStack(c)
    PROVE  ForceInv'
  <1>1. /\ UNCHANGED <<key, device, posts, opts, timeout, proxy>> /\ phase' = phase /\ pc[c] = "stack"
    BY DEF CreateStack, Step, At, Fail, conf
  <1>2. phase = "busy" /\ \A d \in Callers : pc[d] # "post"
    BY <1>1 DEF ShutInv, Orderly
  <1>3. Posted(Len(stacks)) /\ Ready("stack")
    BY <1>1, <1>2 DEF ForceInv
  <1>4. CASE Fail(c) /\ UNCHANGED stacks
    <2>1. Ready("fatal")' /\ Go(c, "fatal") /\ Posted(Len(stacks))'
      BY <1>1, <1>3, <1>4 DEF Ready, Fail, Posted
    <2> QED
      BY <1>1, <1>2, <2>1, MoveForce
  <1> DEFINE new == [key |-> key, icmp |-> icmp, groups |-> Groups(key), device |-> device, open |-> TRUE]
  <1>5. CASE /\ Step(c, "stack", "post") /\ stacks' = Append(stacks, new) /\ stack' = Len(stacks) + 1
             /\ devices' = [devices EXCEPT ![device].dispatch = "reading"]
    <2>1. key \in Keys /\ icmp \in {Nil, "handler"} /\ device \in Nat /\ devices \in Seq(DeviceSet)
          /\ stacks \in Seq(StackSet)
      BY <1>1 DEF MutexInv, Configuring, ObjInv
    <2>2. new \in StackSet
      BY <2>1 DEF StackSet
    <2> HIDE DEF new
    <2>3. /\ Len(stacks') = Len(stacks) + 1 /\ Len(stacks) \in Nat /\ stacks'[Len(stacks) + 1] = new
          /\ \A i \in 1 .. Len(stacks) : stacks'[i] = stacks[i]
      BY <1>5, <2>1, <2>2, AppendFacts
    <2>4. device \in 1 .. Len(devices)
      <3>1. Orderly /\ pc[c] = "stack"
        BY <1>1 DEF ShutInv
      <3>2. Opened
        BY <3>1 DEF Orderly
      <3> QED
        BY <2>1, <3>2 DEF Opened, OnlyLast
    <2>5. devices[device] \in DeviceSet
      BY <2>1, <2>4
    <2>6. devices'[device].driver = devices[device].driver
      BY <1>5, <2>1, <2>4, <2>5 DEF DeviceSet
    <2>7. Ready("post")'
      BY <1>1, <1>3, <1>5, <2>3, <2>6 DEF Ready, new
    <2>8. Ups(stacks', Len(stacks)) = Ups(stacks, Len(stacks))
      BY <2>3, UpsSame
    <2>9. Posted(Len(stacks) - 1)'
      <3>1. Len(stacks') - 1 = Len(stacks)
        BY <2>3
      <3> QED
        BY <1>1, <1>3, <2>8, <3>1 DEF Posted
    <2>10. Go(c, "post")
      BY <1>5 DEF Step
    <2> QED
      BY <1>1, <1>2, <2>7, <2>9, <2>10, MoveForce
  <1> QED
    BY <1>4, <1>5 DEF CreateStack, objs

\* Start returns: the command is executed, and what start has done is in force.
LEMMA PostForce ==
    ASSUME MutexInv, ObjInv, ShutInv, ForceInv, phase # "overlapping", NEW c \in Callers, PostUp(c)
    PROVE  ForceInv'
  <1>1. /\ UNCHANGED <<key, device, stack, devices, stacks, opts, timeout, proxy>> /\ pc[c] = "post" /\ Go(c, "idle")
        /\ posts' = IF key.postUp THEN posts + 1 ELSE posts
    BY DEF PostUp, Return, At, eng, objs
  <1>2. Ready("post") /\ Posted(Len(stacks) - 1)
    BY <1>1 DEF ForceInv
  <1>3. Ready("idle")'
    BY DEF Ready
  <1>4. InForce'
    BY <1>1, <1>2 DEF Ready, InForce
  <1>5. Posted(Len(stacks))'
    <2>1. PICK n : n = Len(stacks) - 1
      OBVIOUS
    <2>2. n \in Nat /\ Len(stacks) = n + 1 /\ stacks[n + 1].key = key
      BY <1>2, <2>1 DEF Ready, ObjInv
    <2>3. Cardinality(Ups(stacks, n + 1)) =
              IF stacks[n + 1].key.postUp THEN Cardinality(Ups(stacks, n)) + 1
              ELSE Cardinality(Ups(stacks, n))
      BY <2>2, UpsAdd, Zenon
    <2>4. posts = Cardinality(Ups(stacks, n)) /\ Len(stacks') = n + 1 /\ stacks' = stacks
      BY <1>1, <1>2, <2>1, <2>2 DEF Posted
    <2> QED
      BY <1>1, <2>2, <2>3, <2>4, Zenon DEF Posted
  <1> QED
    BY <1>1, <1>3, <1>4, <1>5, MoveForce

\* A step of stop: the device and the stack are closed, and the count is kept.
LEMMA StopForce ==
    ASSUME MutexInv, ObjInv, ShutInv, ForceInv, phase # "overlapping", NEW c \in Callers, StopRuns(c)
    PROVE  ForceInv'
  <1>1. PICK to \in {"stopping", "stack.Close", "stack.Wait", "idle"} :
            Go(c, to) /\ pc[c] \in {"stop", "stopping", "stack.Close", "stack.Wait"}
            /\ phase' \in {phase, "stopped"} /\ posts' = posts
            /\ stacks' \in {stacks, [stacks EXCEPT ![stack].open = FALSE]} /\ (stack = 0 => stacks' = stacks)
    BY DEF StopRuns, Lock, CloseDevice, CloseStack, WaitStack, Return, Step, At, conf, objs
  <1>2. phase = "busy" /\ \A d \in Callers : pc[d] # "post"
    BY <1>1 DEF ShutInv, Orderly
  <1>3. Posted(Len(stacks))
    BY <1>2 DEF ForceInv
  <1>4. Posted(Len(stacks))'
    <2>1. CASE stacks' = stacks
      BY <1>1, <1>3, <2>1 DEF Posted
    <2>2. CASE stack # 0 /\ stacks' = [stacks EXCEPT ![stack].open = FALSE]
      <3>1. stacks \in Seq(StackSet) /\ Len(stacks) \in Nat /\ stack \in 1 .. Len(stacks)
        BY <2>2 DEF ObjInv
      <3>2. stacks[stack] \in StackSet
        BY <3>1
      <3>3. Len(stacks') = Len(stacks) /\ \A i \in 1 .. Len(stacks) : stacks'[i].key = stacks[i].key
        BY <2>2, <3>1, <3>2 DEF StackSet
      <3>4. Ups(stacks', Len(stacks)) = Ups(stacks, Len(stacks))
        BY <3>1, <3>3, UpsSame
      <3> QED
        BY <1>1, <1>3, <3>3, <3>4 DEF Posted
    <2> QED
      BY <1>1, <2>1, <2>2
  <1>5. Ready(to)' /\ to # "post" /\ phase' # "running"
    BY <1>1, <1>2 DEF Ready
  <1> QED
    BY <1>1, <1>4, <1>5, MoveForce

LEMMA StepForce == MutexInv /\ OptsInv /\ ObjInv /\ ShutInv /\ ForceInv /\ [Next]_vars => ForceInv'
  <1> SUFFICES ASSUME MutexInv, OptsInv, ObjInv, ShutInv, ForceInv, [Next]_vars, phase # "overlapping",
                      phase' # "overlapping"
               PROVE  ForceInv'
    <2>1. ASSUME [Next]_vars, phase = "overlapping" PROVE phase' = "overlapping"
      <3>1. ASSUME NEW c \in Callers, StartRuns(c) PROVE phase' = phase
        BY <2>1, <3>1 DEF StartRuns, Lock, EmptyKeyOrLevel, Reset, BindInterface, RoutingMark, SetUDPTimeout,
               RestAPI, Netstack, SetProxy, OpenDevice, CreateStack, PostUp, Return, Fatal, Fail, Step
      <3>2. ASSUME NEW c \in Callers, StopRuns(c) PROVE phase' = phase
        BY <2>1, <3>2 DEF StopRuns, Lock, CloseDevice, CloseStack, WaitStack, Return, Step
      <3>3. ASSUME NEW c \in Callers, Start(c) \/ Stop(c) PROVE phase' = "overlapping"
        BY <2>1, <3>3 DEF Start, Stop, Call
      <3>4. ASSUME UNCHANGED ctl PROVE phase' = phase
        BY <3>4 DEF ctl
      <3> QED
        BY <2>1, <3>1, <3>2, <3>3, <3>4, ZenonT(30)
        DEF Next, vars, Insert, SetICMPHandler, HandOver, TunnelTakes, DispatchEnds, Dispatch, Dial, Listen,
            GetNetStats, StatsFunc
    <2> QED
      BY <2>1 DEF ForceInv
  <1>1. ASSUME NEW c \in Callers, NEW k \in Keys, Insert(c, k) PROVE ForceInv'
    <2>1. /\ UNCHANGED <<pc, phase, devices, device, opts, timeout, proxy, posts, stacks, stack>>
          /\ \A d \in Callers : pc[d] \notin Critical
      BY <1>1, EngineAssumption DEF Insert, ctl, conf, objs, MutexInv
    <2>2. \A d \in Callers : Ready(pc[d])' /\ pc[d] # "post"
      BY <2>1 DEF Ready, Critical, BeforeDevice, Configuring
    <2>3. InForce' = InForce /\ Posted(Len(stacks))' = Posted(Len(stacks))
      BY <2>1, ZenonT(30) DEF InForce, Posted
    <2> QED
      BY <2>1, <2>2, <2>3 DEF ForceInv
  <1>2. ASSUME NEW c \in Callers, Start(c) \/ Stop(c) PROVE ForceInv'
    <2>1. PICK to \in {"start", "stop"} : Go(c, to) /\ phase # "busy" /\ phase' = "busy"
                                          /\ UNCHANGED <<posts, stacks>>
      BY <1>2 DEF Start, Stop, Call, conf, objs
    <2>2. \A d \in Callers : pc[d] = "idle"
      BY <2>1 DEF ShutInv, Orderly
    <2>3. \A d \in Callers : pc'[d] \in {"idle", "start", "stop"}
      BY <2>1, <2>2 DEF Go, MutexInv
    <2>4. \A d \in Callers : Ready(pc[d])'
      BY <2>3 DEF Ready
    <2>5. Posted(Len(stacks))'
      BY <2>1, <2>2 DEF ForceInv, Posted
    <2> QED
      BY <2>1, <2>3, <2>4, <2>5 DEF ForceInv
  <1>3. ASSUME NEW c \in Callers, StartRuns(c) PROVE ForceInv'
    BY <1>3, StartForce, OpenForce, StackForce, PostForce
  <1>4. ASSUME NEW c \in Callers, StopRuns(c) PROVE ForceInv'
    BY <1>4, StopForce
  <1>5. ASSUME NEW d \in DOMAIN devices, HandOver(d) \/ TunnelTakes(d) \/ DispatchEnds(d) PROVE ForceInv'
    <2>1. /\ UNCHANGED <<pc, phase, key, opts, timeout, proxy, posts, stacks, stack, device>>
          /\ \E to : devices' = [devices EXCEPT ![d].dispatch = to]
      BY <1>5 DEF HandOver, TunnelTakes, DispatchEnds, Dispatch, ctl, eng, conf
    <2>2. devices \in Seq(DeviceSet) /\ device \in 0 .. Len(devices) /\ Len(devices) \in Nat
      BY DEF ObjInv
    <2>3. ASSUME device # 0 PROVE devices'[device].driver = devices[device].driver
      <3>1. device \in 1 .. Len(devices)
        BY <2>2, <2>3
      <3>2. devices[device] \in DeviceSet
        BY <2>2, <3>1
      <3> QED
        BY <2>1, <2>2, <3>1, <3>2 DEF DeviceSet
    <2> QED
      BY <2>1, <2>3, StillForce
  <1>6. ASSUME \/ \E c \in Callers : SetICMPHandler(c)
               \/ \E class \in {"remote", "local"} : Dial(class)
               \/ \E s \in DOMAIN servers : Listen(s)
               \/ GetNetStats \/ StatsFunc \/ UNCHANGED vars
        PROVE  ForceInv'
    <2>1. UNCHANGED <<pc, phase, key, opts, timeout, proxy, posts, stacks, stack, device>> /\ devices' = devices
      BY <1>6 DEF SetICMPHandler, Dial, Listen, GetNetStats, StatsFunc, vars, ctl, eng, conf, objs
    <2> QED
      BY <2>1, StillForce
  <1> QED
    BY <1>1, <1>2, <1>3, <1>4, <1>5, <1>6, ZenonT(30) DEF Next

\* A start that returns has put its key in force for as long as the engine runs,
\* whoever inserts another or dials meanwhile (engine.go:125 and what follows), for
\* any keys, callers and restarts: every place of start adds what the next relies
\* on (Ready), the mutex keeps the key, and until the next Stop nobody is inside.
\* posts counts the stacks of keys with a post-up command, failed starts adding none.
THEOREM StartPutsKeyInForce == Spec => []KeyInForce
  <1>1. ObjInv /\ ShutInv /\ ForceInv => KeyInForce
    <2> SUFFICES ASSUME ObjInv, ShutInv, ForceInv, phase = "running" PROVE KeyInForce
      BY Zenon DEF KeyInForce
    <2>1. Up /\ InForce /\ \A c \in Callers : pc[c] # "post"
      BY DEF ShutInv, Orderly, ForceInv
    <2>2. Posted(Len(stacks)) /\ DOMAIN stacks = 1 .. Len(stacks)
      BY <2>1 DEF ForceInv, ObjInv
    <2>3. posts = Cardinality({ i \in DOMAIN stacks : stacks[i].key.postUp })
      BY <2>2 DEF Posted, Ups
    <2> QED
      BY <2>1, <2>3, Zenon DEF KeyInForce, Up, Opened, Serving, InForce, Groups
  <1> QED
    BY <1>1, InitMutex, InitOpts, InitShut, InitForce, StepMutex, StepOpts, StepShut, StepForce, PTL DEF Spec
=============================================================================
