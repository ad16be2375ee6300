------------------------------ MODULE WebSocket ------------------------------
(***************************************************************************)
(* A WebSocket connection between WSConnection (the client) and WSServer   *)
(* with WSSession (src/src/servers/http/ws_*.cc): the upgrade handshake,   *)
(* the servlet's callbacks, and messages that cross in both directions as  *)
(* frames, with masks, fragments, pings and the three length formats.      *)
(*                                                                         *)
(* The unit of the wire is a field of a frame: its two-byte head, a digit  *)
(* of an extended length, the mask, a byte of the payload.  Digits and     *)
(* payload bytes are bits, and the limits 126, 65536 and msgMaxSize are    *)
(* the small constants Len16, Len64 and MaxSize.                           *)
(*                                                                         *)
(* A frame is written with several calls of write_fixed_size by one        *)
(* coroutine.  Its reader blocks for each field, so only how much of the   *)
(* frame was written before a failure matters, and Send is one step.       *)
(***************************************************************************)
EXTENDS Naturals, SequencesExt

CONSTANTS Datas,    \* payloads: sequences of bits
          Masks,    \* values of the mask, sequences of bits of one length
          Len16,    \* sizes from here on have a 16-bit length (126)
          Len64,    \* sizes from here on have a 64-bit length (65536)
          Width16,  \* digits of a 16-bit length
          Width64,  \* digits of a 64-bit length
          MaxSize,  \* g_websocket_message_max_size
          MaxSends  \* bound: frames and pings the two applications send

ASSUME SizeAssumption ==
  /\ Len16 <= Len64 /\ Len64 <= 2 ^ Width16 /\ MaxSize <= 2 ^ (Width64 \div 2)
  /\ Datas \subseteq Seq({0, 1})

Ends == {"client", "server"}
Other(e) == IF e = "client" THEN "server" ELSE "client"

VARIABLES
  pc,         \* where each end is
  closed,     \* the ends whose socket is closed
  wire,       \* fields under way to each end
  rx,         \* recv_message's variables: [opcode, data, length, mask]
  tx,         \* the message an end has sent fragments of: [opcode, data]
  sent,       \* history: the messages each end sent, whole
  got,        \* history: the messages recv_message returned to each end
  sends,      \* frames and pings sent by the applications (bound)
  swallowed,  \* history: the client's handshake read more than the response
  servlet     \* history: the callbacks, "none", "connected" or "closed"

vars == <<pc, closed, wire, rx, tx, sent, got, sends, swallowed, servlet>>

NoMsg == [opcode |-> "CONTINUE", data |-> <<>>]
NewRx == [opcode |-> "CONTINUE", data |-> <<>>, length |-> 0, mask |-> FALSE,
          fin |-> FALSE]

Init ==
  /\ pc = [client |-> "create", server |-> "shake"]
  /\ closed = {}
  /\ wire = [e \in Ends |-> <<>>]
  /\ rx = [e \in Ends |-> NewRx] /\ tx = [e \in Ends |-> NoMsg]
  /\ sent = [e \in Ends |-> <<>>] /\ got = [e \in Ends |-> <<>>]
  /\ sends = 0
  /\ swallowed = FALSE /\ servlet = "none"

-----------------------------------------------------------------------------
(* Frames                                                                    *)

Field(t, v) == <<[t |-> t, v |-> v]>>
Fields(t, s) == [i \in DOMAIN s |-> [t |-> t, v |-> s[i]]]
Values(s) == [i \in DOMAIN s |-> s[i].v]

\* An integer of w digits in the memory of a little-endian host, and back.
Memory(n, w) == [i \in 1..w |-> (n \div 2 ^ (i - 1)) % 2]
Number(ds) == CHOOSE n \in 0..(2 ^ Len(ds) - 1) : Memory(n, Len(ds)) = ds

\* data[i] ^= mask[i % 4]
Xor(data, mask) ==
  [i \in DOMAIN data |-> (data[i] + mask[((i - 1) % Len(mask)) + 1]) % 2]

\* ws_head.payload: the size, or the format of the length behind the head.
Format(size) ==
  CASE size < Len16 -> "short" [] size < Len64 -> "16" [] OTHER -> "64"

\* The length field: the 16-bit one is swapped to network order, the 64-bit
\* one is not (bswap_on_big_endian does nothing on this host).
LengthField(size) ==
  CASE Format(size) = "short" -> <<>>
    [] Format(size) = "16" -> Reverse(Memory(size, Width16))
    [] Format(size) = "64" -> Memory(size, Width64)

FrameHead(opcode, fin, mask, size) ==
  Field("head", [opcode |-> opcode, fin |-> fin, mask |-> mask,
                 size |-> IF Format(size) = "short" THEN size ELSE 0,
                 format |-> Format(size)])

\* What WSSession::send_message writes, and WSConnection::send_message, which
\* masks.
SessionFrame(msg, fin) ==
  FrameHead(msg.opcode, fin, FALSE, Len(msg.data))
    \o Fields("len", LengthField(Len(msg.data)))
    \o Fields("data", msg.data)

ConnectionFrame(msg, fin, mask) ==
  FrameHead(msg.opcode, fin, TRUE, Len(msg.data))
    \o Fields("len", LengthField(Len(msg.data)))
    \o Field("mask", mask)
    \o Fields("data", Xor(msg.data, mask))

Control(opcode) == FrameHead(opcode, TRUE, FALSE, 0)

-----------------------------------------------------------------------------
(* The socket                                                                *)

\* The first k fields of s are written; a peer that has closed gets none.
Write(e, s, k) ==
  wire' = [wire EXCEPT ![Other(e)] =
             IF Other(e) \in closed THEN @ ELSE @ \o SubSeq(s, 1, k)]

Skip(e, n) == wire' = [wire EXCEPT ![e] = SubSeq(@, n + 1, Len(@))]

\* SocketStream::close
Close(e) == closed' = closed \cup {e}

\* Whether read_fixed_size of n fields may fail: the data is not there and the
\* time-out passes or the stream ends, or the connection was reset.
CanFail(e, n) == Len(wire[e]) < n \/ closed # {}
CanRead(e, n) == Len(wire[e]) >= n /\ e \notin closed

Goto(e, at) == pc' = [pc EXCEPT ![e] = at]

-----------------------------------------------------------------------------
(* The handshake                                                             *)

\* WSConnection::Create: connect() and send_request(); the headers given by
\* the application may spoil the upgrade (its Connection header is kept).
CreateSend(valid) ==
  /\ pc["client"] = "create"
  /\ wire' = [wire EXCEPT !["server"] = Field("request", valid)]
  /\ Goto("client", "response")
  /\ UNCHANGED <<closed, rx, tx, sent, got, sends, swallowed, servlet>>

\* Create fails: connect or send_request, recv_response, or its status.
CreateFail ==
  /\ \/ pc["client"] = "create"
     \/ pc["client"] = "response" /\ CanFail("client", 1)
  /\ Close("client")
  /\ Goto("client", "end")
  /\ UNCHANGED <<wire, rx, tx, sent, got, sends, swallowed, servlet>>

\* recv_response: its read also takes fields behind the response that have
\* arrived, and drops them with its buffer.
CreateReceive(extra) ==
  /\ pc["client"] = "response" /\ CanRead("client", 1 + extra)
  /\ Skip("client", 1 + extra)
  /\ swallowed' = (extra > 0)
  /\ Goto("client", "app")
  /\ UNCHANGED <<closed, rx, tx, sent, got, sends, servlet>>

\* WSSession::handle_shake; the result of send_response is not looked at.
HandleShake ==
  /\ pc["server"] = "shake" /\ CanRead("server", 1)
  /\ IF wire["server"][1].v
     THEN \E k \in {0, 1} :
            wire' = [wire EXCEPT
                       !["server"] = Tail(@),
                       !["client"] = IF "client" \in closed THEN @
                                     ELSE SubSeq(Field("response", 101), 1, k)]
     ELSE Skip("server", 1)
  /\ Goto("server", IF wire["server"][1].v THEN "servlet" ELSE "finish")
  /\ UNCHANGED <<closed, rx, tx, sent, got, sends, swallowed, servlet>>

\* recv_request fails; at the end of the stream it spins (module HttpServer).
HandleShakeFail ==
  /\ pc["server"] = "shake" /\ wire["server"] = <<>>
  /\ Goto("server", IF "client" \in closed THEN "spin" ELSE "finish")
  /\ UNCHANGED <<closed, wire, rx, tx, sent, got, sends, swallowed, servlet>>

-----------------------------------------------------------------------------
(* WSServer::handle_client                                                   *)

\* get_ws_servlet(path), which may find none.
GetServlet(found) ==
  /\ pc["server"] = "servlet"
  /\ Goto("server", IF found THEN "connect" ELSE "finish")
  /\ UNCHANGED <<closed, wire, rx, tx, sent, got, sends, swallowed, servlet>>

(* Mutant of ConnectReturn: the test of on_connect's result is inverted. *)
ConnectReturnInverted(rt) ==
  /\ pc["server"] = "connect"
  /\ servlet' = IF rt = 0 THEN "connected" ELSE servlet
  /\ Goto("server", IF rt = 0 THEN "finish" ELSE "recv")
  /\ UNCHANGED <<closed, wire, rx, tx, sent, got, sends, swallowed>>

\* on_connect returns; it may have sent messages (Send).
ConnectReturn(rt) ==
  /\ pc["server"] = "connect"
  /\ servlet' = IF rt = 0 THEN "connected" ELSE servlet
  /\ Goto("server", IF rt = 0 THEN "recv" ELSE "finish")
  /\ UNCHANGED <<closed, wire, rx, tx, sent, got, sends, swallowed>>

\* handle() returns: the next message, or the end.
HandleReturn(rt) ==
  /\ pc["server"] = "app"
  /\ Goto("server", IF rt = 0 THEN "recv" ELSE "onclose")
  /\ UNCHANGED <<closed, wire, rx, tx, sent, got, sends, swallowed, servlet>>

OnClose ==
  /\ pc["server"] = "onclose"
  /\ servlet' = "closed"
  /\ Goto("server", "finish")
  /\ UNCHANGED <<closed, wire, rx, tx, sent, got, sends, swallowed>>

\* session->close() at the end of handle_client.
Finish ==
  /\ pc["server"] = "finish"
  /\ Close("server")
  /\ Goto("server", "end")
  /\ UNCHANGED <<wire, rx, tx, sent, got, sends, swallowed, servlet>>

-----------------------------------------------------------------------------
(* send_message, ping                                                        *)

\* The application runs: in the servlet's callbacks, or the client's between
\* two calls.
Sending(e) ==
  /\ pc[e] \in {"app", "connect", "onclose"}
  /\ sends < MaxSends
  /\ sends' = sends + 1

\* The application sends a message in one frame or in fragments, of which all
\* but the first are CONTINUE frames.
Fragment(e, opcode, data) ==
  [opcode |-> IF tx[e].data = <<>> THEN opcode ELSE "CONTINUE", data |-> data]

Sent(e, msg, fin) ==
  LET opcode == IF tx[e].data = <<>> THEN msg.opcode ELSE tx[e].opcode
      whole  == [opcode |-> opcode, data |-> tx[e].data \o msg.data]
  IN  /\ sent' = IF fin THEN [sent EXCEPT ![e] = Append(@, whole)] ELSE sent
      /\ tx' = [tx EXCEPT ![e] = IF fin THEN NoMsg ELSE whole]

\* Every write of the frame succeeds.  An empty payload counts as a failure.
SendAll(e, frame, msg) ==
  /\ e \notin closed /\ msg.data # <<>>
  /\ Write(e, frame, Len(frame))
  /\ UNCHANGED closed

\* How much of a frame is written when a write fails: nothing, the head, all
\* but the end of the payload (every cut between makes the reader wait for a
\* field as these do).  All of it when there is no payload.
Cuts(frame, msg) ==
  {0, 1, IF msg.data = <<>> THEN Len(frame) ELSE Len(frame) - 1}

\* One of them fails, and the session is closed.
SendPart(e, frame, msg) ==
  /\ \E k \in Cuts(frame, msg) : Write(e, frame, IF e \in closed THEN 0 ELSE k)
  /\ Close(e)

SendFrame(e, frame, msg, fin) ==
  /\ Sending(e)
  /\ Sent(e, msg, fin)
  /\ SendAll(e, frame, msg) \/ SendPart(e, frame, msg)
  /\ UNCHANGED <<pc, rx, got, swallowed, servlet>>

\* WSSession::send_message
SessionSend(opcode, data, fin) ==
  LET msg == Fragment("server", opcode, data)
  IN  SendFrame("server", SessionFrame(msg, fin), msg, fin)

\* WSConnection::send_message, with a mask taken from rand()
ConnectionSend(opcode, data, fin, mask) ==
  LET msg == Fragment("client", opcode, data)
  IN  SendFrame("client", ConnectionFrame(msg, fin, mask), msg, fin)

\* ping() of either end: a failure closes.
Ping(e) ==
  /\ Sending(e)
  /\ \/ e \notin closed /\ Write(e, Control("PING"), 1) /\ UNCHANGED closed
     \/ Write(e, <<>>, 0) /\ Close(e)
  /\ UNCHANGED <<pc, rx, tx, sent, got, swallowed, servlet>>

SessionPing == Ping("server")
ConnectionPing == Ping("client")

\* The client's application: call recv_message, or close the connection.
ClientRecv ==
  /\ pc["client"] = "app"
  /\ Goto("client", "recv")
  /\ UNCHANGED <<closed, wire, rx, tx, sent, got, sends, swallowed, servlet>>

ClientClose ==
  /\ pc["client"] = "app"
  /\ Close("client") /\ Goto("client", "end")
  /\ UNCHANGED <<wire, rx, tx, sent, got, sends, swallowed, servlet>>

-----------------------------------------------------------------------------
(* recv_message: WSSession's demands a mask, WSConnection's does not.        *)

After(e, at) ==
  /\ Goto(e, at)
  /\ UNCHANGED <<closed, tx, sent, got, sends, swallowed, servlet>>

\* `break`: close() and return nullptr.
Break(e) ==
  /\ Close(e)
  /\ Goto(e, IF e = "server" THEN "onclose" ELSE "end")
  /\ rx' = [rx EXCEPT ![e] = NewRx]
  /\ UNCHANGED <<tx, sent, got, sends, swallowed, servlet>>

\* The head of a data frame; a length that is not in the head follows.
TooBig(e, length) == Len(rx[e].data) + length >= MaxSize

DataHead(e, head) ==
  /\ Skip(e, 1)
  /\ IF \/ e = "server" /\ ~head.mask
        \/ head.format = "short" /\ TooBig(e, head.size)
     THEN Break(e)
     ELSE /\ rx' = [rx EXCEPT ![e] =
                 [@ EXCEPT !.length = head.size, !.mask = head.mask,
                           !.fin = head.fin,
                           !.opcode = IF @ = "CONTINUE" THEN head.opcode
                                      ELSE @]]
          /\ After(e, CASE head.format = "short" -> "payload"
                        [] head.format = "16" -> "len16"
                        [] head.format = "64" -> "len64")

\* pong() in answer to the ping at the head of the wire
Pong(e) ==
  wire' = [wire EXCEPT ![e] = Tail(@),
                       ![Other(e)] = IF Other(e) \in closed THEN @
                                     ELSE @ \o Control("PONG")]

\* A ping is answered, a pong ignored, a CLOSE frame ends the session.  Fields
\* read out of step (behind swallowed ones) are garbage: nothing is said of
\* what is read from then on.
RecvHead(e) ==
  /\ pc[e] = "recv" /\ CanRead(e, 1)
  /\ LET f == wire[e][1]
         head == f.v
     IN  CASE f.t # "head" -> Skip(e, 1) /\ After(e, "garbage") /\ UNCHANGED rx
           [] f.t = "head" /\ head.opcode = "PING" ->
                \/ Pong(e) /\ After(e, "recv") /\ UNCHANGED rx
                \/ Skip(e, 1) /\ Break(e)
           [] f.t = "head" /\ head.opcode = "PONG" ->
                Skip(e, 1) /\ After(e, "recv") /\ UNCHANGED rx
           [] f.t = "head" /\ head.opcode = "CLOSE" -> Skip(e, 1) /\ Break(e)
           [] OTHER -> DataHead(e, head)

\* The extended length is swapped from network order.
RecvLength(e) ==
  LET w == IF pc[e] = "len16" THEN Width16 ELSE Width64
      length == Number(Reverse(Values(SubSeq(wire[e], 1, w))))
  IN  /\ pc[e] \in {"len16", "len64"} /\ CanRead(e, w)
      /\ Skip(e, w)
      /\ IF TooBig(e, length)
         THEN Break(e)
         ELSE /\ rx' = [rx EXCEPT ![e].length = length]
              /\ After(e, "payload")

\* How many fields mask and payload take.
PayloadFields(e) == rx[e].length + (IF rx[e].mask THEN 1 ELSE 0)

(* Mutant of Unmask: the bytes of the mask are taken in the wrong order. *)
UnmaskLate(e) ==
  LET s == SubSeq(wire[e], 1, PayloadFields(e))
  IN  IF rx[e].mask THEN Xor(Values(Tail(s)), Reverse(s[1].v)) ELSE Values(s)

Unmask(e) ==
  LET s == SubSeq(wire[e], 1, PayloadFields(e))
  IN  IF rx[e].mask THEN Xor(Values(Tail(s)), s[1].v) ELSE Values(s)

\* The payload, unmasked, is added to the message; the last frame returns it.
\* read_fixed_size of no bytes returns 0, which is taken for a failure.
RecvPayload(e) ==
  /\ pc[e] = "payload" /\ CanRead(e, PayloadFields(e))
  /\ Skip(e, PayloadFields(e))
  /\ IF rx[e].length = 0
     THEN Break(e)
     ELSE LET msg == [opcode |-> rx[e].opcode, data |-> rx[e].data \o Unmask(e)]
          IN  IF rx[e].fin
              THEN /\ got' = [got EXCEPT ![e] = Append(@, msg)]
                   /\ rx' = [rx EXCEPT ![e] = NewRx]
                   /\ Goto(e, "app")
                   /\ UNCHANGED <<closed, tx, sent, sends, swallowed, servlet>>
              ELSE /\ rx' = [rx EXCEPT ![e].data = msg.data]
                   /\ After(e, "recv")

\* A read fails.
RecvFail(e) ==
  /\ \/ pc[e] = "recv" /\ CanFail(e, 1)
     \/ pc[e] = "len16" /\ CanFail(e, Width16)
     \/ pc[e] = "len64" /\ CanFail(e, Width64)
     \/ pc[e] = "payload" /\ CanFail(e, PayloadFields(e))
     \/ pc[e] = "garbage"
  /\ Break(e)
  /\ UNCHANGED wire

Recv(e) == RecvHead(e) \/ RecvLength(e) \/ RecvPayload(e) \/ RecvFail(e)

\* WSSession::recv_message and WSConnection::recv_message
SessionRecv == Recv("server")
ConnectionRecv == Recv("client")

-----------------------------------------------------------------------------
Opcodes == {"TEXT", "CLOSE"}

Client ==
  \/ \E valid \in BOOLEAN : CreateSend(valid)
  \/ CreateFail
  \/ \E extra \in 0..Len(wire["client"]) : CreateReceive(extra)
  \/ \E opcode \in Opcodes, data \in Datas, fin \in BOOLEAN, mask \in Masks :
       ConnectionSend(opcode, data, fin, mask)
  \/ ConnectionPing \/ ClientRecv \/ ClientClose
  \/ ConnectionRecv

Server ==
  \/ HandleShake \/ HandleShakeFail
  \/ \E found \in BOOLEAN : GetServlet(found)
  \/ \E rt \in {0, 1} : ConnectReturn(rt) \/ HandleReturn(rt)
  \/ \E opcode \in Opcodes, data \in Datas, fin \in BOOLEAN :
       SessionSend(opcode, data, fin)
  \/ SessionPing \/ OnClose \/ Finish
  \/ SessionRecv

Next == Client \/ Server

\* The handler's coroutine runs on: its reads end at the latest with the
\* receive time-out the accept loop set, and its callbacks return.
Spec == Init /\ [][Next]_vars /\ WF_vars(Server)

-----------------------------------------------------------------------------
(* Every message recv_message returns is one the other end sent, whole, with *)
(* its opcode and its bytes, in the order they were sent and with none left  *)
(* out, whatever the masks, fragments, pings and length formats; except on a *)
(* client whose handshake swallowed the start of the first frames.           *)
Delivery ==
  \A e \in Ends :
    IsPrefix(got[e], sent[Other(e)]) \/ (e = "client" /\ swallowed)

(* A servlet whose on_connect returned 0 gets on_close, however the session  *)
(* ends: an error of handle(), a failed send, a reset, a silent or a         *)
(* misbehaving client.                                                       *)
ConnectedThenClosed == servlet = "connected" ~> servlet = "closed"
=============================================================================
