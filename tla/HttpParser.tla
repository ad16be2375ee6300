----------------------------- MODULE HttpParser -----------------------------
(***************************************************************************)
(* The head of an HTTP message as the receivers of this library see it:    *)
(* bytes that arrive in reads of any size, and the generated parsers of    *)
(* src/src/servers/http/http_request_parser.rl and http_response_parser.rl *)
(* that are called once per read.                                          *)
(*                                                                         *)
(* Byte k of message n is <<n, k>>: bytes 1 .. HeadLen are the head (start *)
(* line and fields), those behind them the body.                           *)
(***************************************************************************)
EXTENDS Naturals, Sequences, FiniteSetsExt

CONSTANT HeadLen   \* length of a message's head

ASSUME HeadLenAssumption == HeadLen \in Nat \ {0}

Bytes(n, size) == [k \in 1..size |-> <<n, k>>]

\* http_*_parser_init: `cs` counts the bytes of the head seen, `of` names the
\* message they belong to, nread is the running count of parsed bytes.
ParserInit == [cs |-> 0, of |-> 0, nread |-> 0, error |-> FALSE]

\* How many bytes of data the machine accepts: they must continue the head,
\* and the machine stops behind its last byte.
Accepted(p, data) ==
  LET of == IF p.cs = 0 /\ data # <<>> THEN data[1][1] ELSE p.of
  IN  Max({n \in 0..Len(data) :
             \A i \in 1..n : /\ p.cs + i <= HeadLen
                             /\ data[i] = <<of, p.cs + i>>})

\* http_*_parser_execute on a buffer that holds data, and the memmove its
\* caller does by the returned nread: the parser, whether the assertion
\* "nread longer than length" fails, and what is left in the buffer.  nread
\* counts from the first call on, the buffer from the last read.
Execute(p, data) ==
  LET n  == Accepted(p, data)
      cs == p.cs + n
      nread == p.nread + n
  IN  [parser |-> [cs |-> cs, nread |-> nread,
                   of |-> IF p.cs = 0 /\ n > 0 THEN data[1][1] ELSE p.of,
                   error |-> n < Len(data) /\ cs < HeadLen],
       abort  |-> nread > Len(data),
       rest   |-> SubSeq(data, nread + 1, Len(data))]

\* is_finished()
Finished(p) == ~p.error /\ p.cs = HeadLen
=============================================================================
