----------------------------- MODULE MCStreams ------------------------------
(***************************************************************************)
(* The wrappers a proxy connection may have, for TLC: AeadStream,          *)
(* CipherStream and ObfsReader, which share the variables of the same      *)
(* meaning.  A behaviour is that of one of them, `part'; the variables the *)
(* others need besides are 0.                                              *)
(***************************************************************************)
EXTENDS AeadStream

VARIABLES
    part,
    wpos, rpos,                                                     \* CipherStream
    kind, first, out, firstResponse, remain, pc, skip, length       \* ObfsReader

cipherOnly == <<wpos, rpos>>
obfsOnly   == <<kind, first, out, firstResponse, remain, pc, skip, length>>
all        == <<part, vars, cipherOnly, obfsOnly>>

Cipher == INSTANCE CipherStream
              WITH BufSize <- 2, IVSize <- 2, Lens <- {0, 1, 3}, MaxBytes <- 5

Obfs == INSTANCE ObfsReader
              WITH Kinds <- {"tls", "http"}, FirstSkip <- 3, Skip <- 1, HeaderLen <- 2,
                   Sizes <- {0, 1, 3}, Lens <- {1, 2}, MaxBytes <- 5, MaxWire <- 2

ASSUME PartAssumptions == Cipher!CipherAssumption /\ Obfs!ObfsAssumption

MCInit ==
    \/ part = "aead" /\ Init
       /\ wpos = 0 /\ rpos = 0
       /\ kind = 0 /\ first = 0 /\ out = 0 /\ firstResponse = 0 /\ remain = 0
       /\ pc = 0 /\ skip = 0 /\ length = 0
    \/ part = "cipher" /\ Cipher!Init
       /\ wnonce = 0 /\ rpc = 0 /\ rnonce = 0 /\ size = 0 /\ buf = 0
       /\ kind = 0 /\ first = 0 /\ out = 0 /\ firstResponse = 0 /\ remain = 0
       /\ pc = 0 /\ skip = 0 /\ length = 0
    \/ part = "obfs" /\ Obfs!Init
       /\ wready = 0 /\ wop = 0 /\ left = 0 /\ wnonce = 0 /\ wstop = 0
       /\ rready = 0 /\ rpc = 0 /\ rop = 0 /\ rnonce = 0 /\ size = 0
       /\ wpos = 0 /\ rpos = 0

InAead   == part = "aead" /\ UNCHANGED <<part, cipherOnly, obfsOnly>>
InCipher == part = "cipher" /\ UNCHANGED <<part, wnonce, rpc, rnonce, size, buf, obfsOnly>>
InObfs   == part = "obfs"
            /\ UNCHANGED <<part, wready, wop, left, wnonce, wstop,
                           rready, rpc, rop, rnonce, size, cipherOnly>>

MCNext ==
    \/ InAead /\ Next
    \/ InCipher /\ Cipher!Next
    \/ InObfs /\ Obfs!Next

\* Callers go on with what they are in; a reading caller keeps reading, not only
\* into an empty buffer, and the connection delivers.
MCFairness ==
    /\ WF_all(InAead /\ (InitWriter \/ WriteChunk \/ WriteEmpty))
    /\ WF_all(InAead /\ Reads)
    /\ WF_all(InCipher /\ Cipher!Writes)
    /\ SF_all(InCipher /\ Cipher!Calls)
    /\ WF_all(InCipher /\ Cipher!Reads)
    /\ WF_all(InObfs /\ Obfs!Reads)
    /\ WF_all(InObfs /\ Obfs!Deliver)

MCSpec == MCInit /\ [][MCNext]_all /\ MCFairness

-----------------------------------------------------------------------------
(* ImplementsByteStream, NoOpenFailure and EverythingArrives are those of  *)
(* AeadStream and speak of variables all three have.                       *)
=============================================================================
