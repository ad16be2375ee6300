------------------------------ MODULE Streams -------------------------------
(***************************************************************************)
(* A ByteArray in use: its owner writes and reads bytes, integers and      *)
(* strings, moves the position, clears it, and hands it to a SocketStream  *)
(* that receives into it or sends from it, or to a ZlibStream.             *)
(* read_fixed_size() and write_fixed_size() are a step per system call,    *)
(* encode() and decode() one per call of zlib, which is external: it       *)
(* counts the bytes it has yet to deliver.                                 *)
(***************************************************************************)
EXTENDS ByteArray

CONSTANTS
    Inputs,      \* byte sequences the owner writes
    Items,       \* typed values: [type, value]
    Message,     \* the bytes the peer sends
    BuffSize,    \* m_buff_size of the ZlibStream
    MaxMade,     \* bound: bytes zlib makes of one input buffer
    NoVal,       \* no value
    MaxOps       \* bound: operations of the owner

VARIABLES
    ba,          \* the byte array
    out,         \* the bytes moved by the last operation
    val,         \* the value the last typed read returned
    expected,    \* history: the value that was stored there, if one was
    items,       \* history: the values stored and not overwritten since
    left,        \* what a stream operation has still to do
    got,         \* how much of Message has been received
    m_buffers,   \* iov_len of the buffers of the ZlibStream
    pending,     \* bytes that zlib holds back
    made,        \* history: all the bytes that zlib has made
    zfinish,     \* "none": no stream, "no", Z_FINISH "asked" for, "ended"
    pc, ops

zvars == <<m_buffers, pending, made, zfinish>>
vars == <<ba, out, val, expected, items, left, got, zvars, pc, ops>>

Op == pc = "user" /\ ops < MaxOps /\ ops' = ops + 1
Owner == Op /\ UNCHANGED <<left, got, pc, zvars>>
Forget == val' = NoVal /\ expected' = NoVal

(* History: the values that are not touched by n bytes written at p. *)
Kept(p, n) == {t \in items : t.at + t.len <= p \/ t.at >= p + n}

-----------------------------------------------------------------------------
(* The owner's operations *)

DoWrite(bytes) ==
    /\ Owner /\ Forget
    /\ ba' = Write(ba, bytes)
    /\ out' = bytes
    /\ items' = Kept(ba.position, Len(bytes))

(* read() throws out_of_range before it moves a byte. *)
DoRead(n) ==
    /\ Owner /\ Forget
    /\ IF n > Readable(ba)
       THEN out' = <<>> /\ UNCHANGED ba
       ELSE out' = Read(ba, n) /\ ba' = Skip(ba, n)
    /\ UNCHANGED items

(* read(buf, n, p), to_string(), write_to_file() and the iovecs of         *)
(* get_enable_read_buffers() leave the array alone.                        *)
DoReadAt(n, p) ==
    /\ p <= ba.size /\ n <= ba.size - p /\ n > 0
    /\ Owner /\ Forget
    /\ out' = ReadAt(ba, n, p)
    /\ UNCHANGED <<ba, items>>
DoToFile ==
    /\ Owner /\ Forget
    /\ out' = Read(ba, Readable(ba))
    /\ UNCHANGED <<ba, items>>

(* read_from_file(): a write() for each Base bytes of the file. *)
Chunks(s) == [k \in 1 .. Len(s) \div Base + 1 |-> SubSeq(s, (k - 1) * Base + 1, Min({k * Base, Len(s)}))]
DoFromFile(bytes) ==
    /\ Owner /\ Forget
    /\ ba' = FoldLeft(Write, ba, Chunks(bytes))
    /\ out' = bytes
    /\ items' = Kept(ba.position, Len(bytes))

(* set_position() throws beyond m_capacity. *)
DoSetPosition(v) ==
    /\ Owner /\ Forget
    /\ v <= ba.capacity
    /\ ba' = SetPosition(ba, v)
    /\ out' = <<>>
    /\ UNCHANGED items

DoClear ==
    /\ Owner /\ Forget
    /\ ba' = Clear(ba) /\ out' = <<>> /\ items' = {}

DoSetEndian(v) ==
    /\ Owner /\ Forget
    /\ ba' = [ba EXCEPT !.little = v] /\ out' = <<>>
    /\ UNCHANGED items

-----------------------------------------------------------------------------
(* Integers and strings: what is written, and how it is read back *)

Encode(b, t) ==
    CASE t.type = "fixed" -> EncodeFixed(b, t.value, 2)
      [] t.type = "var" -> EncodeVar[t.value]
      [] t.type = "zigzag" -> EncodeVar[EncodeZigzag(t.value)]
      [] t.type = "str" -> EncodeFixed(b, Len(t.value), 2) \o t.value

WriteItem(t) ==
    LET bytes == Encode(ba, t)
    IN  /\ Owner /\ Forget
        /\ ba' = IF t.type = "str"
                 THEN Write(Write(ba, SubSeq(bytes, 1, 2)), t.value)
                 ELSE Write(ba, bytes)
        /\ out' = bytes
        /\ items' = Kept(ba.position, Len(bytes)) \cup
               {[at |-> ba.position, len |-> Len(bytes), little |-> ba.little, item |-> t]}

(* The bytes a typed read takes from the bytes s behind the position; it   *)
(* throws when they are too few.                                           *)
Taken(b, type, s) ==
    CASE type = "fixed" -> 2
      [] type \in {"var", "zigzag"} -> VarLen(s)
      [] type = "str" -> 2 + (IF Len(s) < 2 THEN 0 ELSE DecodeFixed(b, SubSeq(s, 1, 2)))
Decode(b, type, s) ==
    CASE type = "fixed" -> DecodeFixed(b, s)
      [] type = "var" -> DecodeVar(s)
      [] type = "zigzag" -> DecodeZigzag(DecodeVar(s))
      [] type = "str" -> SubSeq(s, 3, Len(s))

ReadItem(type) ==
    LET s == Read(ba, Readable(ba))
        n == Taken(ba, type, s)
    IN  /\ Owner
        /\ \A k \in DOMAIN s : s[k] # Junk
        /\ n <= Len(s)
        /\ ba' = Skip(ba, n)
        /\ out' = SubSeq(s, 1, n)
        /\ val' = Decode(ba, type, SubSeq(s, 1, n))
        /\ expected' = IF \E t \in items : t.at = ba.position /\ t.item.type = type /\ t.little = ba.little
                       THEN (CHOOSE t \in items : t.at = ba.position /\ t.item.type = type).item.value
                       ELSE NoVal
        /\ UNCHANGED items

-----------------------------------------------------------------------------
(* SocketStream: read_fixed_size(ba, n) and write_fixed_size(ba, n) *)

StreamBegin(l, n) ==
    /\ Op /\ pc' = l /\ left' = n
    /\ Forget /\ out' = <<>>
    /\ UNCHANGED <<ba, items, got, zvars>>

Return == pc' = "user" /\ left' = 0

(* get_enable_write_buffers(n): room for n bytes, and the cells of its     *)
(* iovecs.                                                                 *)
WriteBuffers(b, n) ==
    LET r == AddFreeCapacityTo(b, n)
    IN  [array |-> r, cells |-> FromCursor(r, n)]

(* Socket::recv(iovecs) fills the first cells, Socket::send(iovecs) takes  *)
(* the bytes of the first n.                                               *)
Scatter(w, bytes) == [w.array EXCEPT !.nodes = Store(w.array, SubSeq(w.cells, 1, Len(bytes)), bytes)]
Gather(b, n) == Read(b, n)

(* read(ba, left): room for all that is missing, recv() fills part of it,  *)
(* set_position() behind it.  0 and -1 end the loop.                       *)
Recv ==
    LET w == WriteBuffers(ba, left)
    IN  /\ pc = "recv"
        /\ \/ ba' = w.array /\ out' = <<>> /\ Return /\ UNCHANGED <<got, items>>
           \/ \E n \in 1 .. Min({left, Len(Message) - got}) :
                LET bytes == SubSeq(Message, got + 1, got + n)
                IN  /\ ba' = SetPosition(Scatter(w, bytes), w.array.position + n)
                    /\ out' = bytes /\ got' = got + n
                    /\ items' = Kept(ba.position, n)
                    /\ IF n = left THEN Return ELSE left' = left - n /\ UNCHANGED pc
        /\ UNCHANGED <<val, expected, ops, zvars>>

(* write(ba, left): send() takes part of what is there.  The loop tests    *)
(* its argument instead of the result: 0 and -1 do not end it.             *)
Send ==
    /\ pc = "send"
    /\ \/ out' = <<>> /\ left' \in {left, Min({left + 1, MaxOps})} /\ UNCHANGED <<ba, pc>>
       \/ \E n \in 1 .. Min({left, Readable(ba)}) :
             /\ out' = Gather(ba, n)
             /\ ba' = SetPosition(ba, ba.position + n)
             /\ IF n = left THEN Return ELSE left' = left - n /\ UNCHANGED pc
    /\ UNCHANGED <<val, expected, items, got, ops, zvars>>

-----------------------------------------------------------------------------
(* ZlibStream: write(ba, n) and flush() run encode() or decode(), which    *)
(* have the same loops *)

(* The iovecs of get_enable_read_buffers(n). *)
Iovecs(b, n) == {c[1] : c \in Range(FromCursor(b, Min({n, Readable(b)})))}

(* A buffer with room: the last one, or a new one. *)
Current(bufs) == IF bufs # <<>> /\ Last(bufs) # BuffSize THEN bufs ELSE Append(bufs, 0)

(* init(): deflateInit2() or inflateInit2(), which may fail; then Create() *)
(* returns no stream.                                                      *)
ZlibInit == zfinish' \in {"no", "none"}
ZlibCreate ==
    /\ Op /\ Forget /\ out' = <<>>
    /\ zfinish = "none" /\ ZlibInit
    /\ UNCHANGED <<ba, items, left, got, m_buffers, pending, made, pc>>

(* The destructor frees the buffers, and what zlib holds back is lost. *)
ZlibDestroy ==
    /\ Op /\ Forget /\ out' = <<>>
    /\ zfinish # "none"
    /\ m_buffers' = <<>> /\ pending' = 0 /\ made' = 0 /\ zfinish' = "none"
    /\ UNCHANGED <<ba, items, left, got, pc>>

ZlibBegin(k, finish) ==
    /\ Op /\ Forget /\ out' = <<>>
    /\ k > 0 /\ zfinish = "no"
    /\ pc' = "input" /\ left' = k
    /\ zfinish' = IF finish THEN "asked" ELSE "no"
    /\ UNCHANGED <<ba, items, got, m_buffers, pending, made>>
ZlibWrite(n) == ZlibBegin(Cardinality(Iovecs(ba, n)), FALSE)
ZlibFlush == ZlibBegin(1, TRUE)

(* After deflateEnd() zlib answers Z_STREAM_ERROR; a buffer has been made. *)
ZlibEnded ==
    /\ Op /\ Forget /\ out' = <<>>
    /\ zfinish = "ended"
    /\ m_buffers' = Current(m_buffers)
    /\ UNCHANGED <<ba, items, left, got, pending, made, zfinish, pc>>

(* zlib takes an input buffer, and makes some bytes of it or, to finish,   *)
(* at least one. *)
ZlibInput ==
    /\ pc = "input"
    /\ \E n \in 0 .. MaxMade :
          /\ zfinish = "asked" => n > 0
          /\ pending' = pending + n /\ made' = made + n
    /\ pc' = "deflate"
    /\ UNCHANGED <<ba, out, val, expected, items, left, got, m_buffers, zfinish, ops>>

(* Mutant of AvailAgain: the loop is left with output held back. *)
AvailAgainNever(avail_out) == FALSE

(* do { ... } while (avail_out == 0) *)
AvailAgain(avail_out) == avail_out = 0

(* One call of deflate() or inflate(): it may hold back bytes unless it is *)
(* to finish.                                                              *)
ZlibCall ==
    LET bufs == Current(m_buffers)
        avail == BuffSize - Last(bufs)
        most == Min({avail, pending})
    IN  /\ pc = "deflate"
        /\ \E n \in IF zfinish = "asked" THEN {most} ELSE 0 .. most :
              /\ m_buffers' = [bufs EXCEPT ![Len(bufs)] = @ + n]
              /\ pending' = pending - n
              /\ IF AvailAgain(avail - n)
                 THEN UNCHANGED <<pc, left, zfinish>>
                 ELSE /\ left' = left - 1
                      /\ pc' = IF left = 1 THEN "user" ELSE "input"
                      /\ zfinish' = IF left = 1 /\ zfinish = "asked" THEN "ended" ELSE zfinish
        /\ UNCHANGED <<ba, out, val, expected, items, got, made, ops>>

-----------------------------------------------------------------------------
Init ==
    /\ ba = NewArray /\ out = <<>> /\ val = NoVal /\ expected = NoVal
    /\ items = {} /\ left = 0 /\ got = 0 /\ pc = "user" /\ ops = 0
    /\ m_buffers = <<>> /\ pending = 0 /\ made = 0 /\ zfinish = "none"

MaxLen == Max({Len(s) : s \in Inputs})

Next ==
    \/ \E s \in Inputs : DoWrite(s) \/ DoFromFile(s)
    \/ \E n \in 1 .. MaxLen : DoRead(n) \/ StreamBegin("recv", n) \/ StreamBegin("send", n)
    \/ \E n \in 1 .. MaxLen, p \in 0 .. ba.size : DoReadAt(n, p)
    \/ \E v \in {0, Base, ba.position + 1, ba.size, ba.capacity} : DoSetPosition(v)
    \/ DoToFile \/ DoClear \/ \E v \in BOOLEAN : DoSetEndian(v)
    \/ \E t \in Items : WriteItem(t) \/ ReadItem(t.type)
    \/ Recv \/ Send
    \/ ZlibCreate \/ ZlibDestroy
    \/ ZlibWrite(MaxLen) \/ ZlibFlush \/ ZlibEnded \/ ZlibInput \/ ZlibCall

Spec == Init /\ [][Next]_vars

-----------------------------------------------------------------------------
(* The variables have their types, and every loop over the blocks stays    *)
(* inside them: position and size never pass the blocks there are.         *)
TypeOK ==
    /\ ba.nodes \in Seq([1 .. Base -> Bytes \cup {Junk}]) /\ ba.little \in BOOLEAN
    /\ ba.cur \in DOMAIN ba.nodes
    /\ ba.position \in 0 .. ba.size
    /\ ba.position <= ba.capacity /\ ba.size <= ba.capacity /\ ba.capacity <= Len(ba.nodes) * Base
    /\ pc \in {"user", "recv", "send", "input", "deflate"} /\ got \in 0 .. Len(Message)

(* The cursor is on the block that holds the position. *)
CursorRight == ba.cur = ba.position \div Base + 1

(* What the blocks hold is a sequence of bytes with a position: writes,    *)
(* reads, seeks and transfers that cross block boundaries behave as on one *)
(* sequence, as long as the cursor is right.                               *)
Bytestore == INSTANCE ByteStore WITH
                data <- ReadAt(ba, ba.size, 0), pos <- ba.position, out <- out
BehavesAsStore == [][CursorRight => Bytestore!Next]_<<ba.nodes, ba.position, ba.size, out>>

(* The cursor is lost in one way only: the position is at the end of the   *)
(* last block, with no block behind it (after clear(), when m_capacity     *)
(* counts every block).                                                    *)
CursorLostAtEnd == [][CursorRight => CursorRight' \/ ba'.position = Len(ba'.nodes) * Base]_ba

(* A value that was stored and not overwritten since is read back, however *)
(* it lies across the blocks and whatever was written, moved or received   *)
(* in between.                                                             *)
RoundTrip == expected # NoVal /\ CursorRight => val = expected

VarEncodingsInvert ==
    /\ \A v \in 0 .. 2 ^ VarBits - 1 :
          /\ Len(EncodeVar[v]) <= MaxGroups /\ VarLen(EncodeVar[v]) = Len(EncodeVar[v])
          /\ DecodeVar(EncodeVar[v]) = v
    /\ \A v \in -2 ^ (VarBits - 1) .. 2 ^ (VarBits - 1) - 1 :
          EncodeZigzag(v) \in 0 .. 2 ^ VarBits - 1 /\ DecodeZigzag(EncodeZigzag(v)) = v

FixedEncodingsInvert ==
    [little \in BOOLEAN |->
        LET b == [NewArray EXCEPT !.little = little]
        IN  \A v \in 0 .. 2 ^ (2 * ByteBits) - 1 : DecodeFixed(b, EncodeFixed(b, v, 2)) = v]

(* Every value survives its encoding: variable-length integers, the zigzag *)
(* form of the signed ones down to the smallest, and fixed-size integers   *)
(* in the byte order that the array has at the time; no encoding is longer *)
(* than the buffer of write_uint32() or write_uint64().                    *)
EncodingsInvert ==
    /\ VarEncodingsInvert
    /\ FixedEncodingsInvert[ba.little]

(* Nothing that zlib makes is lost: get_result() has all of it once        *)
(* flush() has returned, and before, what is missing is still in zlib;     *)
(* only the last buffer has room.                                          *)
ZlibDelivers ==
    /\ FoldLeft(+, 0, m_buffers) + pending = made
    /\ zfinish = "ended" => pending = 0
    /\ \A k \in DOMAIN m_buffers : m_buffers[k] = BuffSize \/ (k = Len(m_buffers) /\ m_buffers[k] < BuffSize)
====
