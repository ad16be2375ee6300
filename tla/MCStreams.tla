----------------------------- MODULE MCStreams ------------------------------
(* Streams for TLC: blocks of two bytes, bytes of three bits. *)
EXTENDS Streams

MCInputs == {<<1>>, <<2, 1>>, <<1, 2, 3>>}
MCItems == {[type |-> "fixed", value |-> 11], [type |-> "var", value |-> 27],
            [type |-> "zigzag", value |-> -16], [type |-> "str", value |-> <<5>>]}
MCMessage == <<4, 5, 6>>
====
