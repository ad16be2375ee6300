----------------------------- MODULE ByteStore ------------------------------
(***************************************************************************)
(* What a ByteArray promises: a sequence of bytes with a position.         *)
(* Writing replaces the bytes behind the position and extends the          *)
(* sequence, reading returns them, and out holds the bytes that the last   *)
(* operation moved.                                                        *)
(***************************************************************************)
EXTENDS Integers, SequencesExt

VARIABLES data, pos, out

(* The first n of the bytes data with bytes written behind pos. *)
Overwrite(bytes) ==
    [i \in 1 .. Max({Len(data), pos + Len(bytes)}) |->
        IF i > pos /\ i <= pos + Len(bytes) THEN bytes[i - pos] ELSE data[i]]

Put == /\ data' = Overwrite(out')
       /\ pos' = pos + Len(out')

Get == /\ pos' \in pos .. Len(data)
       /\ out' = SubSeq(data, pos + 1, pos')
       /\ UNCHANGED data

(* Bytes are looked at and the position stays. *)
Peek == /\ \E p \in 0 .. Len(data) : Len(out') <= Len(data) - p /\ out' = SubSeq(data, p + 1, p + Len(out'))
        /\ UNCHANGED <<data, pos>>

(* Behind the end there are bytes of any value. *)
Seek == /\ pos' \in Nat
        /\ Len(data') = Max({Len(data), pos'}) /\ SubSeq(data', 1, Len(data)) = data
        /\ out' = <<>>

Erase == data' = <<>> /\ pos' = 0 /\ out' = <<>>

Init == data = <<>> /\ pos = 0 /\ out = <<>>
Next == Put \/ Get \/ Peek \/ Seek \/ Erase
Spec == Init /\ [][Next]_<<data, pos, out>>
====
