------------------------------ MODULE MCEngine ------------------------------
(***************************************************************************)
(* The engine and the REST server it starts, for TLC.  The handlers of the *)
(* server (RestApi) only read the engine's state, so a behaviour moves the *)
(* engine or serves requests, `part'; where the two meet, the statistics   *)
(* of the stack under the engine's mutex, is in Engine.                    *)
(***************************************************************************)
EXTENDS Engine

CONSTANT Clients    \* clients of the REST server

VARIABLES part, req, serving, gone, buf, msg

rest == <<req, serving, gone, buf, msg>>
all  == <<part, vars, rest>>

URL(scheme, ok) == [given |-> TRUE, scheme |-> scheme, ok |-> ok]
NoURL == [given |-> FALSE, scheme |-> "", ok |-> FALSE]

\* Two keys that share no setting, the second without a timeout and a server.
KeyA == [level |-> TRUE, iface |-> "eth0", mark |-> 1, timeout |-> 4, rest |-> URL("", TRUE),
         proxy |-> URL("", TRUE), device |-> URL("", TRUE), groups |-> {"", "224.0.0.1"},
         sizes |-> TRUE, postUp |-> TRUE]
KeyB == [KeyA EXCEPT !.iface = "eth1", !.mark = 2, !.timeout = 0, !.rest = NoURL,
                     !.proxy = URL("http", TRUE), !.device = URL("fd", TRUE), !.groups = {}]

\* A key for every place where Start rejects one; no key at all is the first.
BadKeys ==
    { [KeyB EXCEPT !.iface = "missing"], [KeyB EXCEPT !.timeout = 1],
      [KeyB EXCEPT !.rest = URL("https", TRUE)], [KeyB EXCEPT !.groups = {"10.0.0.1"}],
      [KeyB EXCEPT !.proxy = URL("gopher", TRUE), !.sizes = FALSE] }

MCKeys == {KeyA, KeyB} \cup BadKeys
MCMulticast == {"224.0.0.1"}

MCRequests ==
    { r \in [path : {"traffic", "netstats", "connections"}, ws : BOOLEAN,
             query : {"", "t", "u"}, scheme : {"Bearer", "Basic"}, token : {"", "t"},
             interval : {"", "zero", "invalid"}] :
        r.interval # "" => r.path = "connections" /\ r.ws }

Rest == INSTANCE RestApi WITH Token <- "t", Requests <- MCRequests, pc <- serving

ASSUME PartAssumption == Rest!RestAssumption

AnyRequest == CHOOSE r \in MCRequests : TRUE

MCInit ==
    /\ part \in {"engine", "rest"} /\ Init /\ Rest!Init
    /\ part # "rest" => \A c \in Clients : req[c] = AnyRequest

InEngine == part = "engine" /\ UNCHANGED <<part, rest>>
InRest   == part = "rest" /\ UNCHANGED <<part, vars>>

MCNext ==
    \/ InEngine /\ Next
    \/ InRest /\ Rest!Next

\* Goroutines run on, the tunnel's loop takes connections, and writes to a client
\* that has left fail in the end.  Weak fairness is enough for the mutex: there are
\* MaxCalls calls, so it is free for good in the end.
MCFairness ==
    /\ \A c \in Callers : WF_all(InEngine /\ (StartRuns(c) \/ StopRuns(c)))
    /\ \A d \in 1 .. MaxCalls :
           WF_all(InEngine /\ d \in DOMAIN devices /\ (TunnelTakes(d) \/ DispatchEnds(d)))
    /\ WF_all(InEngine /\ StatsFunc)
    /\ \A c \in Clients : WF_all(InRest /\ Rest!Serve(c)) /\ SF_all(InRest /\ Rest!WriteError(c))

MCSpec == MCInit /\ [][MCNext]_all /\ MCFairness

-----------------------------------------------------------------------------
(* The properties of RestApi. *)

\* No handler, and no ticker of one, outlives its client.
HandlersEnd == Rest!HandlersEnd
=============================================================================
