------------------------ MODULE CompressedTransport ------------------------
(***************************************************************************)
(* The receiving side of a zlib-stream connection: WebSocketTransport      *)
(* (packages/ws/src/transport.ts) over ZlibStreamDecoder (decoder.ts) over *)
(* an inflater that works off the main thread.                             *)
(*                                                                         *)
(* A message is a pair <<c, i>>, the i-th message that arrived on socket   *)
(* c.  Its push() is an asynchronous call with a phase; a frame is the     *)
(* sequence of the messages whose inflated bytes it is made of.  Sockets   *)
(* are numbered as connect() creates them, and a generation is current     *)
(* exactly while its socket is the one the transport holds.                *)
(***************************************************************************)
EXTENDS Naturals, Sequences, FiniteSets

CONSTANTS
    MaxDials,     \* bound: sockets connect() creates
    MaxMessages,  \* bound: messages that arrive on all sockets together
    Kinds,        \* what a message may be: subset of AllKinds
    Late          \* a closed inflater may call back after the next message

\* A message that ends a payload or not, one zlib refuses, and one that
\* inflates past maxFrameBytes.
AllKinds == {"whole", "part", "corrupt", "large"}

ASSUME CompressedAssumption ==
    /\ MaxDials \in Nat \ {0} /\ MaxMessages \in Nat \ {0}
    /\ Kinds \subseteq AllKinds /\ Late \in BOOLEAN

VARIABLES
    current,    \* the transport's #socket, 0 for undefined
    dialled,    \* sockets created so far
    closing,    \* the decoder's failure has closed the current socket
    stream,     \* stream[c]: kinds of the messages that arrived on socket c
    phase,      \* phase[m]: how far the push() of message m has got
    result,     \* result[m]: the frame that push() resolved with
    ops,        \* the inflater's queue of writes and flushes
    orphans,    \* operations that were in flight when their inflater was closed
    chunks,     \* messages inflated since the last frame was taken
    failure,    \* the inflater has failed
    waiter,     \* the push() whose rejector #pendingReject is, if any
    queue,      \* queue[c]: pushes of socket c whose delivery is chained
    delivered   \* delivered[c]: frames handed on while c was current

inflater == <<ops, orphans, chunks, failure, waiter>>
transportVars ==
    <<current, dialled, closing, stream, phase, result, inflater, queue, delivered>>

TransportSockets == 1..MaxDials
Messages == TransportSockets \X (1..MaxMessages)
None == <<0, 0>>
Phases == {"none", "write", "flush", "resolved", "rejected"}
Operations == Messages \X {"write", "flush"}

TransportTypeOK ==
    /\ current \in 0..MaxDials /\ dialled \in 0..MaxDials
    /\ closing \in BOOLEAN
    /\ stream \in [TransportSockets -> Seq(Kinds)]
    /\ phase \in [Messages -> Phases]
    /\ result \in [Messages -> Seq(Messages)]
    /\ ops \in Seq(Operations) /\ orphans \in SUBSET Operations
    /\ chunks \in Seq(Messages)
    /\ failure \in BOOLEAN /\ waiter \in Messages \cup {None}
    /\ queue \in [TransportSockets -> Seq(Messages)]
    /\ delivered \in [TransportSockets -> Seq(Seq(Messages))]

KindOf(m) == stream[m[1]][m[2]]

\* The messages that have arrived, on any socket.
Arrived == {m \in Messages : m[2] <= Len(stream[m[1]])}

\* The generation of socket c is the current one.
OwnsGeneration(c) == c = current

\* Mutant: a reset keeps the bytes inflated so far.
ResetKeepsChunks ==
    /\ ops' = <<>>
    /\ orphans' = orphans \cup {Head(o) : o \in {ops} \ {<<>>}}
    /\ failure' = FALSE /\ waiter' = None
    /\ UNCHANGED chunks

\* The decoder's reset(): the inflater is closed with what is queued in it;
\* only the operation in flight may still call back.
Reset ==
    /\ ops' = <<>>
    /\ orphans' = orphans \cup {Head(o) : o \in {ops} \ {<<>>}}
    /\ failure' = FALSE /\ waiter' = None
    /\ chunks' = <<>>

-----------------------------------------------------------------------------

\* connect(): the predecessor is discarded, the decoder reset, and delivery
\* starts a chain of its own.
ConnectTransport ==
    /\ dialled < MaxDials
    /\ dialled' = dialled + 1
    /\ current' = dialled + 1
    /\ closing' = FALSE
    /\ Reset
    /\ UNCHANGED <<stream, phase, result, queue, delivered>>

\* The close event of the current socket, or destroy(): both reset the decoder.
SocketEnds ==
    /\ current # 0
    /\ current' = 0
    /\ closing' = FALSE
    /\ Reset
    /\ UNCHANGED <<dialled, stream, phase, result, queue, delivered>>

\* A message arrives: its push() starts at once, whatever earlier pushes are
\* doing, and its delivery is chained behind theirs.  A decoder that has
\* failed refuses it; otherwise the bytes are queued for the inflater, and
\* this push() is the one an error would reject.
Message(kind) ==
    LET m == <<current, Len(stream[current]) + 1>>
    IN  /\ current # 0
        /\ Cardinality(Arrived) < MaxMessages
        /\ stream' = [stream EXCEPT ![current] = Append(@, kind)]
        /\ queue' = [queue EXCEPT ![current] = Append(@, m)]
        /\ IF failure
           THEN /\ phase' = [phase EXCEPT ![m] = "rejected"]
                /\ UNCHANGED <<ops, waiter>>
           ELSE /\ phase' = [phase EXCEPT ![m] = "write"]
                /\ ops' = Append(ops, <<m, "write">>)
                /\ waiter' = m
        /\ UNCHANGED <<current, dialled, closing, result, orphans, chunks,
                       failure, delivered>>

\* What the error handler makes of the phases: the push() that waits, if any.
Rejected == IF waiter = None THEN phase ELSE [phase EXCEPT ![waiter] = "rejected"]

\* Mutant: an error of zlib's own is not remembered.
FailureForgotten(kind) == failure \/ kind = "large"

\* Whether the decoder has failed once a message of this kind was inflated.
FailureAfter(kind) == failure \/ kind \in {"corrupt", "large"}

\* zlib refuses the bytes: the error rejects the push() that waits, and the
\* callbacks of everything queued are abandoned.
InflateCorrupt ==
    /\ ops # <<>> /\ Head(ops)[2] = "write" /\ KindOf(Head(ops)[1]) = "corrupt"
    /\ ops' = <<>>
    /\ failure' = FailureAfter("corrupt")
    /\ phase' = Rejected
    /\ waiter' = None
    /\ UNCHANGED <<current, dialled, closing, stream, result, orphans, chunks,
                   queue, delivered>>

\* A write is done.  Past maxFrameBytes the decoder fails itself and rejects
\* the push() that waits, but zlib goes on and calls back.  The callback ends
\* the push() of a fragment, and queues the flush of a complete payload.
Inflate ==
    LET m == Head(ops)[1]
        large == KindOf(m) = "large" /\ ~failure
        told == IF large THEN Rejected ELSE phase
    IN  /\ ops # <<>> /\ Head(ops)[2] = "write" /\ KindOf(m) # "corrupt"
        /\ failure' = FailureAfter(KindOf(m))
        /\ chunks' = IF large THEN <<>>
                     ELSE IF failure THEN chunks ELSE Append(chunks, m)
        /\ IF failure' \/ KindOf(m) = "part"
           THEN /\ phase' = [told EXCEPT ![m] = IF failure' THEN "rejected"
                                                ELSE "resolved"]
                /\ ops' = Tail(ops) /\ waiter' = None
           ELSE /\ phase' = [phase EXCEPT ![m] = "flush"]
                /\ ops' = Append(Tail(ops), <<m, "flush">>) /\ waiter' = m
        /\ UNCHANGED <<current, dialled, closing, stream, result, orphans,
                       queue, delivered>>

\* A flush is done: the push() resolves with everything inflated so far.
Flush ==
    LET m == Head(ops)[1]
    IN  /\ ops # <<>> /\ Head(ops)[2] = "flush"
        /\ ops' = Tail(ops)
        /\ waiter' = None
        /\ IF failure
           THEN /\ phase' = [phase EXCEPT ![m] = "rejected"]
                /\ UNCHANGED <<result, chunks>>
           ELSE /\ phase' = [phase EXCEPT ![m] = "resolved"]
                /\ result' = [result EXCEPT ![m] = chunks]
                /\ chunks' = <<>>
        /\ UNCHANGED <<current, dialled, closing, stream, orphans, failure,
                       queue, delivered>>

\* The operation in flight when its inflater was closed calls back: the
\* push() it belongs to goes on in the decoder as it is by now.
OrphanReturns ==
    \E o \in orphans :
        LET m == o[1]
            takes == ~failure /\ (o[2] = "flush" \/ KindOf(m) # "part")
        IN  /\ current # 0 /\ ~Late => stream[current] = <<>>
            /\ orphans' = orphans \ {o}
            /\ waiter' = None
            /\ phase' = [phase EXCEPT ![m] = IF failure THEN "rejected"
                                             ELSE "resolved"]
            /\ result' = [result EXCEPT ![m] = IF takes THEN chunks ELSE @]
            /\ chunks' = IF takes THEN <<>> ELSE chunks
            /\ UNCHANGED <<current, dialled, closing, stream, ops, failure,
                           queue, delivered>>

\* The head of a chain is settled: its frame is handed on, or its failure
\* closes the socket, unless the socket is no longer the transport's.
HandOn(c) ==
    LET m == Head(queue[c])
    IN  /\ queue[c] # <<>> /\ phase[m] \in {"resolved", "rejected"}
        /\ queue' = [queue EXCEPT ![c] = Tail(@)]
        /\ IF phase[m] = "rejected"
           THEN /\ closing' = (closing \/ OwnsGeneration(c))
                /\ UNCHANGED delivered
           ELSE /\ delivered' = IF OwnsGeneration(c) /\ result[m] # <<>>
                                THEN [delivered EXCEPT ![current] = Append(@, result[m])]
                                ELSE delivered
                /\ UNCHANGED closing
        /\ UNCHANGED <<current, dialled, stream, phase, result, inflater>>

TransportInit ==
    /\ current = 0 /\ dialled = 0 /\ closing = FALSE
    /\ stream = [c \in TransportSockets |-> <<>>]
    /\ phase = [m \in Messages |-> "none"]
    /\ result = [m \in Messages |-> <<>>]
    /\ ops = <<>> /\ orphans = {} /\ chunks = <<>>
    /\ failure = FALSE /\ waiter = None
    /\ queue = [c \in TransportSockets |-> <<>>]
    /\ delivered = [c \in TransportSockets |-> <<>>]

TransportNext ==
    \/ ConnectTransport \/ SocketEnds
    \/ \E kind \in Kinds : Message(kind)
    \/ InflateCorrupt \/ Inflate \/ Flush \/ OrphanReturns
    \/ \E c \in TransportSockets : HandOn(c)

TransportSpec == TransportInit /\ [][TransportNext]_transportVars

-----------------------------------------------------------------------------
(***************************************************************************)
(* Properties                                                              *)
(***************************************************************************)

\* The number of the last message of a frame.
LastOf(frame) == frame[Len(frame)][2]

\* The bytes handed on while a socket is current are those that arrived on
\* it, in order, none twice and none left out: neither a push() that outlives
\* its socket nor a fragment left in the decoder reaches another connection.
BytesInOrder ==
    \A c \in TransportSockets : \A k \in DOMAIN delivered[c] :
        LET frame == delivered[c][k]
            before == IF k = 1 THEN 0 ELSE LastOf(delivered[c][k - 1])
        IN  frame # <<>> /\ \A i \in DOMAIN frame : frame[i] = <<c, before + i>>

\* A decoder that failed is not trusted again: once its failure has closed
\* the socket, no frame of that socket is handed on.
FailureIsFinal == [][closing /\ closing' => delivered' = delivered]_transportVars

\* Every frame handed on is exactly one payload: the decoder's assumption
\* that pushes do not interleave, which the transport is said to guarantee
\* (decoder.ts:62, transport.ts:59).
WholeFrames ==
    \A c \in TransportSockets : \A k \in DOMAIN delivered[c] :
        LET frame == delivered[c][k]
        IN  \A i \in DOMAIN frame :
                KindOf(frame[i]) = IF i = Len(frame) THEN "whole" ELSE "part"

\* The state is well typed and what was handed on is what arrived.
TransportInv == TransportTypeOK /\ BytesInOrder

=============================================================================
