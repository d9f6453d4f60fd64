------------------------------- MODULE RestApi ------------------------------
(***************************************************************************)
(* The REST server: the authenticator in front of every handler, and the   *)
(* handlers that stream: traffic, getNetStats and getConnections, each in  *)
(* the goroutine of its request with a buffer and a ticker of its own.     *)
(* What they report is the subject of Statistic and Engine; a message here *)
(* is the number of snapshots it holds.  The HTTP and websocket libraries  *)
(* and the clients are external.                                           *)
(***************************************************************************)
EXTENDS Naturals

CONSTANTS
    Token,       \* the server's token, perhaps ""
    Clients,     \* one request each
    Requests     \* requests: path, websocket or not, query token, header, interval

RestAssumption == \A r \in Requests : r.ws \in BOOLEAN

VARIABLES
    req,         \* req[c]: the request of c
    pc,          \* pc[c]: where the goroutine that serves c is
    gone,        \* gone[c]: the client has closed its connection
    buf,         \* buf[c]: snapshots in the handler's buffer
    msg          \* msg[c]: snapshots in the last message written to c

vars == <<req, pc, gone, buf, msg>>

Init ==
    /\ req \in [Clients -> Requests] /\ pc = [c \in Clients |-> "none"]
    /\ gone = [c \in Clients |-> FALSE]
    /\ buf = [c \in Clients |-> 0] /\ msg = [c \in Clients |-> 0]

Go(c, from, to) == pc[c] = from /\ pc' = [pc EXCEPT ![c] = to]

Arrive(c) == Go(c, "none", "auth") /\ UNCHANGED <<req, gone, buf, msg>>

Leave(c) ==
    /\ pc[c] # "none" /\ ~gone[c] /\ gone' = [gone EXCEPT ![c] = TRUE]
    /\ UNCHANGED <<req, pc, buf, msg>>

-----------------------------------------------------------------------------

\* authenticator: a websocket request may carry the token in its query, and then
\* its header does not count.
Allowed(r) ==
    \/ Token = ""
    \/ r.ws /\ r.query # "" /\ r.query = Token
    \/ ~(r.ws /\ r.query # "") /\ r.scheme = "Bearer" /\ r.token = Token

Authenticate(c) ==
    /\ \/ Allowed(req[c]) /\ Go(c, "auth", "handler")
       \/ ~Allowed(req[c]) /\ Go(c, "auth", "refused")
    /\ UNCHANGED <<req, gone, buf, msg>>

\* The three handlers up to their first snapshot.
Handle(c) ==
    LET r == req[c] IN
    /\ \/ ~r.ws /\ r.path # "traffic" /\ Go(c, "handler", "once")
       \/ ~r.ws /\ r.path = "traffic" /\ Go(c, "handler", "tick")
       \/ r.ws /\ r.path # "connections" /\ Go(c, "handler", "tick")
       \/ r.ws /\ r.path = "connections" /\ r.interval # "invalid" /\ Go(c, "handler", "first")
       \/ r.ws /\ r.path = "connections" /\ r.interval = "invalid" /\ Go(c, "handler", "done")
       \/ r.ws /\ Go(c, "handler", "done")         \* Upgrade fails
       \/ r.path = "netstats" /\ Go(c, "handler", "done")   \* no statistics function
    /\ UNCHANGED <<req, gone, buf, msg>>

\* time.NewTicker panics when the interval is not positive; the HTTP server
\* recovers, and the goroutine is over.
NewTicker(r) == IF r.interval = "zero" THEN "panicked" ELSE "tick"

Tick(c) == Go(c, "tick", "send") /\ UNCHANGED <<req, gone, buf, msg>>

Sending(c) == pc[c] \in {"once", "first", "send"}

\* buf.Reset(), and a snapshot is encoded.
Snapshot(c) == buf' = [buf EXCEPT ![c] = 1]

\* The write succeeds, perhaps even after the client has left.
Write(c) ==
    /\ Sending(c) /\ Snapshot(c) /\ msg' = [msg EXCEPT ![c] = buf'[c]]
    /\ \/ Go(c, "once", "done")
       \/ Go(c, "first", NewTicker(req[c]))
       \/ Go(c, "send", "tick")
    /\ UNCHANGED <<req, gone>>

\* Mutant: the loop goes on after an error.
WriteErrorIgnored(c) ==
    /\ Sending(c) /\ gone[c] /\ Snapshot(c)
    /\ pc' = [pc EXCEPT ![c] = "tick"]
    /\ UNCHANGED <<req, gone, msg>>

\* The write fails: return, or break out of the loop and stop the ticker.
WriteError(c) ==
    /\ Sending(c) /\ gone[c] /\ Snapshot(c)
    /\ pc' = [pc EXCEPT ![c] = "done"]
    /\ UNCHANGED <<req, gone, msg>>

Serve(c) == Authenticate(c) \/ Handle(c) \/ Tick(c) \/ Write(c) \/ WriteError(c)

Next == \E c \in Clients : Arrive(c) \/ Leave(c) \/ Serve(c)

Spec == Init /\ [][Next]_vars

-----------------------------------------------------------------------------
Over == {"refused", "done", "panicked"}

\* No handler, and no ticker of one, outlives its client.
HandlersEnd == \A c \in Clients : gone[c] ~> pc[c] \in Over
=============================================================================
