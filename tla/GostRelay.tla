----------------------------- MODULE GostRelay ------------------------------
(***************************************************************************)
(* RelayConn under names of its own, so that it can stand beside the other *)
(* components: the connection through a gost relay.                        *)
(***************************************************************************)
CONSTANTS Modes, MaxLength, RelayLens, MaxWrites, MaxReplies

VARIABLES
    mode, phase, pending, wpc, lens, written, carries, status, replies, unread,
    once, reads, room, dlen, fault, returned

relay == <<mode, phase, pending, wpc, lens, written, carries, status, replies, unread,
           once, reads, room, dlen, fault, returned>>

Relay == INSTANCE RelayConn
             WITH Lens <- RelayLens, out <- written, up <- carries, in <- unread,
                  rpc <- reads, rerr <- fault, got <- returned

ASSUME GostAssumption == Relay!RelayConnAssumption

\* The relay's server can parse what relayConn.Write sends.
StreamParses == Relay!StreamParses

\* relayConn.Read returns the server's replies in order, and nothing else.
RepliesInOrder == Relay!RepliesInOrder

\* A reply reaches the reader, unless the connection ends or is refused.
RepliesArrive == Relay!RepliesArrive
=============================================================================
