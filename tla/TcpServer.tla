----------------------------- MODULE TcpServer -----------------------------
(***************************************************************************)
(* TCPServer (src/src/servers/tcp_server.cc) over Socket and SSLSocket     *)
(* (src/src/socket.cc): bind, start, stop and the accept loops.            *)
(*                                                                         *)
(* One application coroutine calls bind(), start() and stop().  start()    *)
(* schedules one accept loop per listening socket, stop() schedules a task *)
(* that closes them; loops and task run on other threads, so every         *)
(* interleaving with the caller is possible.  A client that is accepted is *)
(* handed to handle_client, which a module that extends this one models.   *)
(***************************************************************************)
EXTENDS Naturals, FiniteSets

CONSTANTS Addrs,     \* the addresses the application may bind, each once
          TlsAddrs,  \* those it binds with is_ssl
          Clients,   \* the peers that may connect
          Loops,     \* names for the accept loops: numbers
          MaxCalls   \* bound: calls of bind, start and stop

None == "none"

ASSUME TcpAssumption ==
  /\ TlsAddrs \subseteq Addrs /\ None \notin Addrs
  /\ Loops \subseteq Nat /\ MaxCalls \in Nat

VARIABLES
  m_is_stop,  \* TCPServer::m_is_stop
  m_sockets,  \* the addresses of the sockets in TCPServer::m_sockets
  open,       \* the addresses whose listening socket has a descriptor
  starting,   \* sockets the loop in start() has still to schedule
  stopTasks,  \* tasks of stop() that are scheduled and have not run
  loop,       \* the accept loops: [at, sock, peer]
  client,     \* where each client's connection is
  where,      \* the address a waiting client connected to
  calls,      \* calls made so far (bound)
  life,       \* history: stop() was called, and start() after it
  bound,      \* history: the addresses bind() was called with
  torn        \* history: m_sockets was cleared while start() walked it

tcpVars == <<m_is_stop, m_sockets, open, starting, stopTasks, loop,
             client, where, calls, life, bound, torn>>

Idle == [at |-> "free", sock |-> None, peer |-> None]

TcpInit ==
  /\ m_is_stop = TRUE
  /\ m_sockets = {} /\ open = {} /\ starting = {} /\ stopTasks = 0
  /\ loop = [i \in Loops |-> Idle]
  /\ client = [c \in Clients |-> "away"]
  /\ where = [c \in Clients |-> None]
  /\ calls = 0 /\ life = "new" /\ bound = {} /\ torn = FALSE

-----------------------------------------------------------------------------
(* Socket objects are shared_ptrs: m_sockets and the accept loops hold them. *)

Held(sockets, loops) ==
  sockets \cup {loops[i].sock : i \in Loops}

(* Mutant of Destroy: the destructor does not close. *)
DestroyOpen(sockets, loops) == open

\* ~Socket closes the descriptor of a socket nobody holds any more, and the
\* kernel then resets the connections that still wait for accept().
Destroy(sockets, loops) == open \cap Held(sockets, loops)

\* Socket::bind() and listen() give the socket a descriptor that listens.
Listen(a) == open \cup {a}

\* Socket::close() of each of the sockets, which nobody but the loops holds.
CloseAll(sockets) == Destroy({}, loop) \ sockets

\* What becomes of the clients when only the sockets in `left` still listen.
Reset(left) ==
  [c \in Clients |-> IF client[c] = "pending" /\ where[c] \notin left
                     THEN "refused" ELSE client[c]]

Call == /\ calls < MaxCalls
        /\ starting = {}
        /\ calls' = calls + 1

\* bind(): a new socket is bound and listens, or the call fails.
BindOk(a) ==
  /\ Call
  /\ a \notin bound /\ bound' = bound \cup {a}
  /\ open' = Listen(a)
  /\ m_sockets' = m_sockets \cup {a}
  /\ UNCHANGED <<m_is_stop, starting, stopTasks, loop, client, where, life,
                 torn>>

\* A failure clears the whole vector, earlier sockets included.
BindFail(a) ==
  /\ Call
  /\ a \notin bound /\ bound' = bound \cup {a}
  /\ m_sockets' = {}
  /\ open' = Destroy({}, loop)
  /\ client' = Reset(open')
  /\ UNCHANGED <<m_is_stop, starting, stopTasks, loop, where, life, torn>>

Start ==
  /\ Call
  /\ IF m_is_stop
     THEN /\ m_is_stop' = FALSE
          /\ starting' = m_sockets
          /\ life' = IF life = "new" THEN "new" ELSE "restarted"
     ELSE UNCHANGED <<m_is_stop, starting, life>>
  /\ UNCHANGED <<m_sockets, open, stopTasks, loop, client, where, bound,
                 torn>>

\* One turn of the loop in start(), which does not hold m_lock.
StartNext(a, i) ==
  /\ a \in starting
  /\ loop[i].at = "free" /\ \A j \in Loops : loop[j].at = "free" => i <= j
  /\ starting' = starting \ {a}
  /\ loop' = [loop EXCEPT ![i] = [at |-> "begin", sock |-> a, peer |-> None]]
  /\ UNCHANGED <<m_is_stop, m_sockets, open, stopTasks, client, where,
                 calls, life, bound, torn>>

Stop ==
  /\ Call
  /\ m_is_stop' = TRUE
  /\ stopTasks' = stopTasks + 1
  /\ life' = IF life = "new" THEN "stopped" ELSE life
  /\ UNCHANGED <<m_sockets, open, starting, loop, client, where, bound,
                 torn>>

(* Mutant of StopTask: the closed sockets stay in m_sockets. *)
StopTaskKeep ==
  /\ stopTasks > 0
  /\ stopTasks' = stopTasks - 1
  /\ open' = CloseAll(m_sockets)
  /\ client' = Reset(open')
  /\ UNCHANGED <<m_is_stop, m_sockets, starting, loop, where, calls, life,
                 bound, torn>>

\* The scheduled task: cancel_all() wakes the loops, close() closes.  A
\* start() that is walking the vector is left with destroyed elements.
StopTask ==
  /\ stopTasks > 0
  /\ stopTasks' = stopTasks - 1
  /\ open' = CloseAll(m_sockets)
  /\ m_sockets' = {}
  /\ torn' = (torn \/ starting # {})
  /\ starting' = {}
  /\ client' = Reset(open')
  /\ UNCHANGED <<m_is_stop, loop, where, calls, life, bound>>

-----------------------------------------------------------------------------
(* start_accept(): the accept loop.                                          *)

(* Mutant of LoopTest: m_is_stop is tested before the first turn only. *)
LoopTestOnce(i) ==
  /\ loop[i].at \in {"begin", "test"}
  /\ IF m_is_stop /\ loop[i].at = "begin"
     THEN /\ loop' = [loop EXCEPT ![i] = Idle]
          /\ open' = Destroy(m_sockets, loop')
          /\ client' = Reset(open')
     ELSE /\ loop' = [loop EXCEPT ![i].at = "accept"]
          /\ UNCHANGED <<open, client>>
  /\ UNCHANGED <<m_is_stop, m_sockets, starting, stopTasks, where, calls, life,
                 bound, torn>>

\* `while (!m_is_stop)`: the flag is read without m_lock.
LoopTest(i) ==
  /\ loop[i].at \in {"begin", "test"}
  /\ IF m_is_stop
     THEN /\ loop' = [loop EXCEPT ![i] = Idle]
          /\ open' = Destroy(m_sockets, loop')
          /\ client' = Reset(open')
     ELSE /\ loop' = [loop EXCEPT ![i].at = "accept"]
          /\ UNCHANGED <<open, client>>
  /\ UNCHANGED <<m_is_stop, m_sockets, starting, stopTasks, where,
                 calls, life, bound, torn>>

\* Socket::accept() has a client to return.
CanAccept(i, c) ==
  /\ loop[i].sock \in open
  /\ client[c] = "pending" /\ where[c] = loop[i].sock

\* SSLSocket::accept() runs the TLS handshake, in the accept loop itself.
AcceptTls(i, c) ==
  /\ loop' = [loop EXCEPT ![i].at = "handshake", ![i].peer = c]
  /\ client' = [client EXCEPT ![c] = "handshake"]

\* A client of a plain socket is scheduled at once.
AcceptClient(i, c) ==
  /\ loop[i].at = "accept" /\ CanAccept(i, c)
  /\ IF loop[i].sock \in TlsAddrs
     THEN AcceptTls(i, c)
     ELSE /\ loop' = [loop EXCEPT ![i].at = "test"]
          /\ client' = [client EXCEPT ![c] = "scheduled"]
  /\ UNCHANGED <<m_is_stop, m_sockets, open, starting, stopTasks, where,
                 calls, life, bound, torn>>

\* SSLSocket::init(): SSL_accept succeeds, or the new socket is destroyed.
Handshake(i, ok) ==
  /\ loop[i].at = "handshake"
  /\ client' = [client EXCEPT ![loop[i].peer] =
                  IF ok THEN "scheduled" ELSE "closed"]
  /\ loop' = [loop EXCEPT ![i].at = "test", ![i].peer = None]
  /\ UNCHANGED <<m_is_stop, m_sockets, open, starting, stopTasks, where,
                 calls, life, bound, torn>>

\* accept() returns nullptr: the receive time-out of the listening socket,
\* cancel_all(), or a socket that is closed.
AcceptNothing(i) ==
  /\ loop[i].at = "accept"
  /\ loop' = [loop EXCEPT ![i].at = "test"]
  /\ UNCHANGED <<m_is_stop, m_sockets, open, starting, stopTasks, client,
                 where, calls, life, bound, torn>>

\* A peer connects to a listening socket.
Connect(c, a) ==
  /\ client[c] = "away" /\ a \in open
  /\ client' = [client EXCEPT ![c] = "pending"]
  /\ where' = [where EXCEPT ![c] = a]
  /\ UNCHANGED <<m_is_stop, m_sockets, open, starting, stopTasks, loop,
                 calls, life, bound, torn>>

TcpApplication ==
  \/ \E a \in Addrs : BindOk(a) \/ BindFail(a)
  \/ Start \/ Stop
  \/ \E a \in Addrs, i \in Loops : StartNext(a, i)

AcceptLoop(i) ==
  \/ LoopTest(i)
  \/ \E c \in Clients : AcceptClient(i, c)
  \/ \E ok \in BOOLEAN : Handshake(i, ok)
  \/ AcceptNothing(i)

TcpNext ==
  \/ TcpApplication
  \/ StopTask
  \/ \E i \in Loops : AcceptLoop(i)
  \/ \E c \in Clients, a \in Addrs : Connect(c, a)
-----------------------------------------------------------------------------
Walking(i) == loop[i].at # "free"

(* Type invariant of the server object, its accept loops and its clients. *)
TcpTypeOK ==
  /\ m_is_stop \in BOOLEAN /\ torn \in BOOLEAN
  /\ m_sockets \subseteq open /\ starting \subseteq m_sockets
  /\ open \subseteq bound /\ bound \subseteq Addrs
  /\ stopTasks \in 0..MaxCalls /\ calls \in 0..MaxCalls
  /\ life \in {"new", "stopped", "restarted"}
  /\ loop \in [Loops -> [at : {"free", "begin", "test", "accept", "handshake"},
                         sock : Addrs \cup {None}, peer : Clients \cup {None}]]
  /\ where \in [Clients -> Addrs \cup {None}]

(* Listening sockets are neither leaked nor lost: a descriptor is open only  *)
(* while m_sockets or an accept loop holds its Socket, whatever bind(),      *)
(* start() and stop() interleave with; and a loop keeps calling accept() on  *)
(* a closed socket (start_accept then spins) only if m_is_stop will end it   *)
(* or the application called start() after stop().                           *)
ListenersHeld ==
  /\ open \subseteq Held(m_sockets, loop)
  /\ \A i \in Loops : Walking(i) /\ loop[i].sock \notin open
                        => m_is_stop \/ life = "restarted"
=============================================================================
