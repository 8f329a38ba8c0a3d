------------------------------- MODULE Codec --------------------------------
(***************************************************************************)
(* A peer's frames on their way into the message callback: encode and      *)
(* decode of base/gp_codec.c, the input buffer (Buffer), the read handlers *)
(* of base/gp_conn.c and base/gp_ssl_server.c, and on_message of           *)
(* base/gp_ipc_server.c, which handle_ssl_msg repeats line by line.        *)
(*                                                                         *)
(* TCP keeps the order of the bytes and cuts them anywhere.  A byte is its *)
(* place in a frame, [frame, at]: the peer's frames are numbered from 1.   *)
(* A frame is a message a peer built on this library packs with encode, or *)
(* a byte string of another origin (encode_errcode's reply is one).        *)
(*                                                                         *)
(* decode sees bytes and not frames: when it has thrown bytes away it goes *)
(* on wherever the next read begins.  What it makes of the bytes there is  *)
(* their Fields: the places of a frame where the magic number stands, with *)
(* the two lengths that follow it, whether the name behind them is one of  *)
(* pb_map's and whether the rest can be unpacked.                          *)
(*                                                                         *)
(* A TLS connection is seen from the end of its handshake on, reading.     *)
(***************************************************************************)
EXTENDS Buffer, FiniteSets

CONSTANTS
    Messages,           \* the messages peers pack
    NameLen, BodyLen,   \* bytes of the name (with its NUL) and of the packed message
    Registered,         \* messages in pb_map: those the server has a descriptor for
    Strays, StrayLen,   \* byte strings of another origin, and their lengths
    Looks,              \* where else a frame's bytes look like a header
    H,                  \* k_header (4)
    MaxLen,             \* the largest `len' decode accepts (65536)
    MaxFrames           \* bound: frames the peer sends

Kinds == Messages \union Strays

(* encode: magic, len, name_len, name, protobuf-msg.  The name is copied    *)
(* with one byte more than name_len (76): the message is packed over it, or *)
(* it is behind the frame's last byte if the message is empty, and not sent.*)
LenField(k) == H + NameLen[k] + BodyLen[k]
FrameLen(k) == IF k \in Messages THEN 2 * H + LenField(k) ELSE StrayLen[k]

encode(f, k) == [i \in 1..FrameLen(k) |-> [frame |-> f, at |-> i - 1]]

encoded(k) ==
    [len |-> LenField(k), name_len |-> NameLen[k], known |-> k \in Registered, valid |-> TRUE]

Fields(k) ==
    IF k \in Messages
    THEN [at \in {0} \union DOMAIN Looks[k] |-> IF at = 0 THEN encoded(k) ELSE Looks[k][at]]
    ELSE Looks[k]

ASSUME CodecAssumption ==
    /\ H \in Nat \ {0} /\ MaxLen \in Nat /\ MaxFrames \in Nat /\ Initial > 1
    /\ NameLen \in [Messages -> Nat] /\ BodyLen \in [Messages -> Nat]
    /\ Registered \subseteq Messages
    /\ \A k \in Strays : StrayLen[k] \in Nat \ {0}
    /\ \A k \in Kinds : \A at \in DOMAIN Looks[k] :
           Looks[k][at] \in [len : Int, name_len : Int, known : BOOLEAN, valid : BOOLEAN]
    /\ \A k \in Kinds : [frame : 1..MaxFrames, at : 0..(FrameLen(k) - 1)] \subseteq Bytes

VARIABLES
    tls,        \* the server is a TLS server; fixed at the start
    sent,       \* the kinds of the frames sent so far
    wire,       \* their bytes
    arrived,    \* how many of them the server has read
    input,      \* conn->input_buffer
    delivered,  \* where the messages began that the callback was called with
    aborted,    \* abort() was called
    extra       \* history: complete frames that reads brought in too many at once

vars == <<tls, sent, wire, arrived, input, delivered, aborted, extra>>

Frames == 1..Len(sent)

Init ==
    /\ tls \in BOOLEAN
    /\ sent = <<>> /\ wire = <<>> /\ arrived = 0
    /\ input = init_gp_buffer
    /\ delivered = <<>> /\ aborted = FALSE /\ extra = 0

(***************************************************************************)
(* The peer.                                                               *)
(***************************************************************************)
Send(k) ==
    /\ Len(sent) < MaxFrames
    /\ sent' = Append(sent, k)
    /\ wire' = wire \o encode(Len(sent) + 1, k)
    /\ UNCHANGED <<tls, arrived, input, delivered, aborted, extra>>

(***************************************************************************)
(* decode: what it leaves in the buffer, what it hands out (the place of   *)
(* the message's first byte, or nothing), and whether one of the reads     *)
(* inside it aborts; the buffer of a process that is gone is as it was.    *)
(***************************************************************************)
Nothing(b) == [left |-> b, got |-> <<>>, abort |-> FALSE]
Abort(b) == [left |-> b, got |-> <<>>, abort |-> TRUE]

IsHead(x) == x.at \in DOMAIN Fields(sent[x.frame])     \* the magic number stands at x
HeadAt(x) == Fields(sent[x.frame])[x.at]

Small(h) == 0 <= h.len /\ h.len <= MaxLen

(* The fields are read, each after a check that it is there.  The message   *)
(* that does not unpack is retrieved all the same.                          *)
TakeFrame(b, x) ==
    LET h == HeadAt(x)
        body == h.len - H - h.name_len
        b1 == retrieve(b, 2 * H)
        b2 == ReadPast(b1, H)               \* read_int32: name_len
        b3 == ReadPast(b2, h.name_len)      \* read_str: name
    IN  IF ~Peekable(b1, H) \/ ~Peekable(b2, h.name_len)
        THEN Abort(b)
        ELSE IF ~h.known
        THEN Nothing(retrieve_all(b3))
        ELSE IF ~Peekable(b3, body)
        THEN Abort(b)
        ELSE [left |-> ReadPast(b3, body),  \* read_pb_msg
              got |-> IF h.valid THEN <<x>> ELSE <<>>, abort |-> FALSE]

CompleteBare(b, h) ==   \* mutant: `len' is taken for the length of the whole frame
    readable_bytes(b) >= h.len

CompleteLate(b, h) ==   \* mutant: a frame that ends with the buffer is kept waiting
    readable_bytes(b) > h.len + 2 * H

Complete(b, h) == readable_bytes(b) >= h.len + 2 * H

decodeKeeps(b) ==   \* mutant: the header of a frame that is not there yet is retrieved
    LET x == Contents(b)[1]
    IN  IF ~IsHead(x) \/ ~Small(HeadAt(x))
        THEN Nothing(retrieve_all(b))
        ELSE IF Complete(b, HeadAt(x))
        THEN TakeFrame(b, x)
        ELSE Nothing(retrieve(b, 2 * H))

decode(b) ==
    LET x == Contents(b)[1]
    IN  IF ~IsHead(x) \/ ~Small(HeadAt(x))
        THEN Nothing(retrieve_all(b))
        ELSE IF Complete(b, HeadAt(x))
        THEN TakeFrame(b, x)
        ELSE Nothing(b)

(* on_message: at most one frame per call, whatever else is in the buffer.  *)
on_message(b) ==
    LET d == IF readable_bytes(b) >= 2 * H THEN decode(b) ELSE Nothing(b)
    IN  /\ input' = d.left
        /\ aborted' = d.abort
        /\ delivered' = delivered \o d.got

(***************************************************************************)
(* The read handlers.                                                      *)
(***************************************************************************)
Arriving(n) == SubSeq(wire, arrived + 1, arrived + n)

(* Frames whose last byte is among the next n.                              *)
Completed(n) ==
    {f \in Frames : \E i \in 1..n : Arriving(n)[i] = [frame |-> f, at |-> FrameLen(sent[f]) - 1]}

(* The number of frames left waiting when C are completed and one call of   *)
(* on_message takes one.                                                    *)
LessOne(C) == IF extra + Cardinality(C) = 0 THEN 0 ELSE extra + Cardinality(C) - 1

Received(n) ==
    /\ arrived' = arrived + n
    /\ extra' = LessOne(Completed(n))

connection_handler_read(n) ==
    /\ ~tls /\ ~aborted
    /\ n <= ReadLimit(input) /\ n <= Len(wire) - arrived
    /\ Received(n)
    /\ on_message(buffer_read_fd(input, Arriving(n)))
    /\ UNCHANGED <<tls, sent, wire>>

(* read fails: -1 in a size_t is positive, so the callback is called.       *)
ReadFails ==
    /\ ~tls /\ ~aborted
    /\ on_message(input)
    /\ extra' = LessOne({})
    /\ UNCHANGED <<tls, sent, wire, arrived>>

SslStoredFull(b, s) ==  \* mutant: a full block stays full
    Store(b, s)

(* SSL_read into the free space; the block gets half its length more when   *)
(* it is full.                                                              *)
SslStored(b, s) ==
    IF Len(s) < writable_bytes(b)
    THEN Store(b, s)
    ELSE ensure_writable_bytes(Store(b, s), b.len \div 2)

ssl_handler_read(n) ==
    /\ tls /\ ~aborted
    /\ n <= writable_bytes(input) /\ n <= Len(wire) - arrived
    /\ Received(n)
    /\ on_message(SslStored(input, Arriving(n)))
    /\ UNCHANGED <<tls, sent, wire>>

Next ==
    \/ \E k \in Kinds : Send(k)
    \/ \E n \in 1..(Len(wire) - arrived) : connection_handler_read(n)
    \/ \E n \in 1..(Len(wire) - arrived) : ssl_handler_read(n)
    \/ ReadFails

Spec == Init /\ [][Next]_vars

(***************************************************************************)
(* Properties.                                                             *)
(***************************************************************************)
gone == arrived - readable_bytes(input)

(* Whatever make_space, retrieve and the two read handlers do to the block, *)
(* the input buffer holds, unchanged and in order, the last bytes that came *)
(* from the peer: none is lost, repeated or taken from unwritten memory, no *)
(* index leaves the block, and the prepend space is never used up.          *)
InputExact ==
    /\ IsBuffer(input)
    /\ gone \in Nat
    /\ Contents(input) = SubSeq(wire, gone + 1, arrived)

(* What decode goes by: the lengths of a header agree with each other.      *)
Fits(h) == 0 <= h.name_len /\ h.name_len <= h.len - H

(* A message of this library that decode should hand out.                   *)
Good(f) == sent[f] \in Registered /\ LenField(sent[f]) <= MaxLen

Gone(f) == \A i \in (gone + 1)..Len(wire) : wire[i].frame # f

Untouched(f) == \A i \in 1..gone : wire[i].frame # f

Delivered(f) == \E i \in 1..Len(delivered) : delivered[i] = [frame |-> f, at |-> 0]

Sound(x) ==
    /\ x.frame \in Frames /\ IsHead(x)
    /\ LET h == HeadAt(x) IN Small(h) /\ Fits(h) /\ h.known /\ h.valid

Earlier(x, y) == x.frame < y.frame \/ (x.frame = y.frame /\ x.at < y.at)

(* What decode hands out begins with a magic number and lengths that agree, *)
(* names a registered message, and comes in the order of the stream, once.  *)
(* Until the first frame of another sort, that is the frames and nothing    *)
(* else: a frame has been delivered exactly when its last byte has left the *)
(* buffer, it leaves it as a whole, and none of its bytes inside is taken   *)
(* for a header.                                                            *)
FramesExact ==
    /\ \A i \in 1..Len(delivered) : Sound(delivered[i])
    /\ \A i, j \in 1..Len(delivered) : i < j => Earlier(delivered[i], delivered[j])
    /\ \A f \in Frames : (\A e \in 1..f : Good(e)) =>
           /\ IF Delivered(f) THEN Gone(f) ELSE Untouched(f)
           /\ \A i \in 1..Len(delivered) : delivered[i].frame = f => delivered[i].at = 0

(* The abort() of a peek function is reached only from a header whose       *)
(* lengths do not agree, and only behind a frame that is not a message      *)
(* decode hands out: `len' bytes behind the header are enough for the       *)
(* fields of every other frame, however the stream is cut.  It is reached:  *)
(* of a message it does not handle (88, 97, 108) decode drops what has come *)
(* so far and reads the rest as if it began a new one, and line 96 lets     *)
(* pass a `len' that is too small for the fields.                           *)
AbortsOnMisfit ==
    aborted => LET x == Contents(input)[1]
               IN  ~Fits(HeadAt(x)) /\ \E e \in 1..x.frame : ~Good(e)

(* on_message decodes once per read, so a read that completes several       *)
(* frames leaves all but one behind.  Nothing else does: every later call   *)
(* takes one of them, and never do more wait than that leaves.              *)
InBuffer(f) == Untouched(f) /\ \A i \in (arrived + 1)..Len(wire) : wire[i].frame # f

LeftBehind ==
    (\A f \in Frames : Good(f)) => Cardinality({f \in Frames : InBuffer(f)}) <= extra

(* A TLS connection can always read: SSL_read is never called for 0 bytes,  *)
(* which returns 0 and would leave the socket readable for ever.            *)
RoomToRead == tls => writable_bytes(input) > 0
=============================================================================
