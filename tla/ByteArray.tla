----------------------------- MODULE ByteArray ------------------------------
(***************************************************************************)
(* tiger::ByteArray: a list of blocks of m_base_size bytes with a cursor,  *)
(* and the integers and strings it stores.                                 *)
(*                                                                         *)
(* The array is a record, an operation maps it to the record it leaves:    *)
(* the typed operations of the class are sequences of write() and read().  *)
(* Bytes have ByteBits bits and the variable-length integers VarBits bits  *)
(* (8, and 32 or 64, in the code), so that all values can be tried.        *)
(***************************************************************************)
EXTENDS Integers, SequencesExt

CONSTANTS
    Base,        \* m_base_size
    ByteBits,    \* bits of a byte
    VarBits,     \* bits of write_uint32() or write_uint64()
    HostLittle   \* __TIGER_BYTE_ORDER

ASSUME ByteArrayAssumption ==
    /\ {Base, ByteBits, VarBits} \subseteq Nat \ {0} /\ ByteBits > 1
    /\ HostLittle \in BOOLEAN

Bytes == 0 .. 2 ^ ByteBits - 1
Junk == -1       \* a byte nobody wrote: it may have any value
NewBlock == [i \in 1 .. Base |-> Junk]

(* A new array: m_capacity does not count the first block. *)
NewArray ==
    [nodes |-> <<NewBlock>>, cur |-> 1, position |-> 0, capacity |-> 0, size |-> 0, little |-> FALSE]

-----------------------------------------------------------------------------
(* The loops over the blocks *)

(* Mutant of Past: a block that was filled is not left. *)
PastStay(b, cur, npos, n) == cur + (npos + n - 1) \div Base

(* The cells that a loop visits which starts npos bytes into block cur and *)
(* covers n bytes; Past: the block the cursor is left on.                  *)
Cells(cur, npos, n) == [k \in 1 .. n |-> <<cur + (npos + k - 1) \div Base, ((npos + k - 1) % Base) + 1>>]
Past(b, cur, npos, n) ==
    LET last == cur + (npos + n - 1) \div Base
    IN  IF (npos + n) % Base = 0 /\ last < Len(b.nodes) THEN last + 1 ELSE last

Load(b, cells) == [k \in DOMAIN cells |-> b.nodes[cells[k][1]][cells[k][2]]]
Store(b, cells, bytes) ==
    [i \in DOMAIN b.nodes |-> [j \in 1 .. Base |->
        IF \E k \in DOMAIN cells : cells[k] = <<i, j>>
        THEN bytes[CHOOSE k \in DOMAIN cells : cells[k] = <<i, j>>]
        ELSE b.nodes[i][j]]]

FromCursor(b, n) == Cells(b.cur, b.position % Base, n)
FromStart(position, n) == Cells(position \div Base + 1, position % Base, n)
Readable(b) == b.size - b.position

(* Mutant of AddFreeCapacityTo: the blocks are counted rounding down, and  *)
(* none is added on top.                                                   *)
AddFreeCapacityToFloor(b, size) ==
    LET free == b.capacity - b.position
        cnt == (size - free) \div Base
    IN  IF free > size
        THEN b
        ELSE [b EXCEPT !.nodes = @ \o [i \in 1 .. cnt |-> NewBlock], !.capacity = @ + cnt * Base]

(* add_free_capacity_to(): the last test of the function never holds, cnt  *)
(* is 0 behind its loop.                                                   *)
AddFreeCapacityTo(b, size) ==
    LET free == b.capacity - b.position
        cnt == (size - free + Base - 1) \div Base + 1
    IN  IF free > size
        THEN b
        ELSE [b EXCEPT !.nodes = @ \o [i \in 1 .. cnt |-> NewBlock], !.capacity = @ + cnt * Base]

Write(b, bytes) ==
    LET r == AddFreeCapacityTo(b, Len(bytes))
        cells == FromCursor(r, Len(bytes))
    IN  IF bytes = <<>>
        THEN b
        ELSE [r EXCEPT !.nodes = Store(r, cells, bytes),
                       !.cur = Past(r, r.cur, r.position % Base, Len(bytes)),
                       !.position = @ + Len(bytes),
                       !.size = IF r.position + Len(bytes) > @ THEN r.position + Len(bytes) ELSE @]

(* read(buf, size), for a size that does not throw *)
Skip(b, n) ==
    IF n = 0 THEN b
    ELSE [b EXCEPT !.cur = Past(b, b.cur, b.position % Base, n), !.position = @ + n]
Read(b, n) == Load(b, FromCursor(b, n))

(* read(buf, size, position) and get_enable_read_buffers(..., position) *)
ReadAt(b, n, position) == Load(b, FromStart(position, n))

(* Mutant of SetPosition: a block whose end is the position is not left. *)
SetPositionStay(b, v) ==
    [b EXCEPT !.position = v,
              !.size = IF v > @ THEN v ELSE @,
              !.cur = IF v = 0 THEN 1 ELSE (v - 1) \div Base + 1]

SetPosition(b, v) ==
    LET walked == IF v = 0 THEN 1 ELSE (v - 1) \div Base + 1
        full == v = walked * Base
    IN  [b EXCEPT !.position = v,
                  !.size = IF v > @ THEN v ELSE @,
                  !.cur = IF full /\ walked < Len(b.nodes) THEN walked + 1 ELSE walked]

(* clear() keeps the first block, and now counts it. *)
Clear(b) ==
    [b EXCEPT !.nodes = <<Head(@)>>, !.cur = 1, !.position = 0, !.size = 0, !.capacity = Base]

-----------------------------------------------------------------------------
(* Integers *)

(* Little-endian digits of v, as memory holds an integer of n bytes. *)
Digits(v, n) == [i \in 1 .. n |-> (v \div 2 ^ (ByteBits * (i - 1))) % 2 ^ ByteBits]
Number(s) == FoldRight(LAMBDA d, acc : d + 2 ^ ByteBits * acc, s, 0)

(* An integer in the host's memory and the array's order: byteswap() when  *)
(* they differ, on the way in and on the way out.                          *)
InMemory(v, n) == IF HostLittle THEN Digits(v, n) ELSE Reverse(Digits(v, n))
Swapped(b, s) == IF b.little = HostLittle THEN s ELSE Reverse(s)
FromMemory(s) == IF HostLittle THEN Number(s) ELSE Number(Reverse(s))

(* Mutant of DecodeFixed: the order of the array is not looked at. *)
DecodeFixedHost(b, s) == FromMemory(s)

EncodeFixed(b, v, n) == Swapped(b, InMemory(v, n))
DecodeFixed(b, s) == FromMemory(Swapped(b, s))

(* write_uint32(), write_uint64(): groups of ByteBits - 1 bits, the top    *)
(* bit of a byte says that another one follows.                            *)
Group == ByteBits - 1
EncodeVar[v \in 0 .. 2 ^ VarBits - 1] ==
    IF v >= 2 ^ Group THEN <<(v % 2 ^ Group) + 2 ^ Group>> \o EncodeVar[v \div 2 ^ Group] ELSE <<v>>

(* read_uint32(), read_uint64(): the bytes they take of the bytes s, and   *)
(* the value; what does not fit in VarBits bits is shifted out.            *)
MaxGroups == (VarBits + Group - 1) \div Group
VarLen(s) == Min({MaxGroups} \cup {i \in DOMAIN s : s[i] < 2 ^ Group})
DecodeVar(s) ==
    FoldRight(LAMBDA d, acc : (d % 2 ^ Group) + 2 ^ Group * acc, s, 0) % 2 ^ VarBits

(* Mutant of EncodeZigzag: -1 is not subtracted. *)
EncodeZigzagEven(v) == (IF v < 0 THEN 2 * (-v) ELSE 2 * v) % 2 ^ VarBits

(* Encode_Zigzag and Decode_Zigzag on VarBits bits; v >> 1 ^ -(v & 1)      *)
(* complements the bits of an odd v, and reads as a signed number.         *)
EncodeZigzag(v) == (IF v < 0 THEN 2 * (-v) - 1 ELSE 2 * v) % 2 ^ VarBits
DecodeZigzag(v) ==
    LET bits == IF v % 2 = 0 THEN v \div 2 ELSE 2 ^ VarBits - 1 - v \div 2
    IN  IF bits >= 2 ^ (VarBits - 1) THEN bits - 2 ^ VarBits ELSE bits
====
