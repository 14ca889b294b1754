# wsnet: TLA+ models, checks and proofs

wsnet lets Python code that runs in a browser (pyodide) use the network of
another machine. The browser opens one WebSocket to an *agent* and sends
commands over it; the agent opens sockets and files for it. Commands that
belong together carry the same *token*, 16 random bytes.

## 1. Inventory

| Part | Source (`src/wsnet/`) | State | Operations |
|---|---|---|---|
| Command codec | `protocol/` | none | `to_bytes`, `from_bytes` of every command |
| Agent core | `agent/agent.py`, `server/wsserver.py` | `__process_queues`, `__running_tasks`, `file_queues`, `__servers`, `server_queues`, `server_tcp_connections` | `process_incoming`, `terminate`, the `send_*` family |
| Agent: TCP client tunnel | `agent.py:410-432, 602-621` | one `socket_connect` and one `__socket_data_in_handle` task per token, a queue | connect, read loop, write loop |
| Agent: TCP server | `agent.py:102-167, 457-474, 744-781` | one server task per token, a table of connections, an event per connection | accept, `run`, `handle_write`, `stop`, close of the server |
| Agent: UDP client and servers | `agent.py:80-99, 228-288, 433-455, 476-591` | a queue per direction | bind, send, receive |
| Agent: files | `agent.py:623-742` | `file_queues`, a Python file per token | open, read, write, stat, close, list, copy, move, remove |
| Browser: WebSocket interface | `pyodide/interface.py` | `dispatch_table` | `registerConnection`, `deregister`, `onData`, `sendCmd`, `sendSocketData`, `terminate` |
| Browser: TCP client | `pyodide/client.py:17-93` | `in_q`, `out_q`, two events, `last_error` | `run`, `terminate`, `onDataReceived`, `__handle_out` |
| Browser: UDP client and server | `pyodide/client.py:96-229`, `pyodide/udpserver.py` | queues, two tasks, a WebSocket per token | `run`, `sendto`, `terminate` |
| Browser: TCP server | `pyodide/tcpserver.py` | a queue, a reader and a writer per connection | `handle_new_msg`, `read`, `readexactly`, `readuntil`, `write`, `close` |
| Browser: asyncio transport, TLS | `pyodide/asyncio_helper.py` | three tasks, a reader gate, TLS memory buffers | the `asyncio.Transport` interface |
| Browser: files | `pyodide/fileops.py` | a session per file or operation: queue, offset, size | `open`, `read`, `write`, `seek`, `close`, `ls`, `walk`, operations on paths |
| Router | `router/router.py` | agents, operators, `data_lookop`, four queues | connect, disconnect, relay, list |
| SMB pipe transport | `server/pipesocks.py`, `server/wsserversmbpipe.py` | a pipe | frame, relay |
| Authentication | `agent/direct/auth.py`, `pyodide/clientauth.py`, `operator/sspiproxy.py` | one security context per token | start, continue, session key |

Everything in one process runs on one event loop: a step of a model is the code
between two awaits that can suspend. Browser, agent, router and peers run
concurrently and share nothing but WebSockets and sockets.

What is hard, by component, and what makes each correct:

- *TCP client tunnel*: two tasks per tunnel that end each other, a queue that
  must exist before the browser may use it, a 10 s timeout that races the
  answer, a WebSocket that breaks anywhere. Correct when every socket has an
  owner that closes it, nothing arrives early, both directions are ordered
  streams and ends are noticed.
- *TCP server*: an end of a connection is announced from three places, `stop()`
  may run twice at once, the close of a server awaits between connections.
  Correct when the application is called once per connection, no end is silent,
  the table of connections is emptied and both directions are ordered streams.
- *asyncio transport*: three kinds of task and a lock on one event loop, whose
  results depend on the order in which tasks become ready. Correct when close
  flushes, pause holds, resume resumes and the agent is always told.
- *Router*: two loops that await while they iterate over a dictionary, signals
  and data in different queues. Correct when its two tables agree, a listing
  is complete unless its table was rebuilt, and streams have no gaps.
- *Command codec*: lengths of encoded texts, and a router that cuts fields out
  of commands it does not parse. Correct when every class reads what it writes
  and keeps its token where the router looks.
- *TLS records*: the stream arrives in pieces that end anywhere, and changes hands
  in the middle. Correct when the TLS object is given whole records in order and
  what is complete does not wait.
- *Reader of a server connection*: several tasks share one buffer, any of them
  may be cancelled. Correct when no byte is lost, repeated or given to the wrong
  call and the end of the connection ends the call whose turn it is.
- *Files*: every answer races a timer, writes are acknowledged before they reach
  the disk, close is acknowledged by nobody. Correct when what was acknowledged
  is written, reads back, results are true and calls come back.
- *UDP*: a server ends by an empty datagram only, an endpoint reports errors
  between datagrams. Correct when datagrams keep their order, the end of a server
  takes all of it and an error does not silence a client.

## 2. Modules

| Module | Models | State and actions |
|---|---|---|
| `WsLink` | the WebSocket between browser and agent | `c2a`, `a2c`: FIFO channels of commands; `wsUp`. `AgentSend`, `BrowserSend` (silently dropped when closed), `WsLost` (each side keeps a prefix) |
| `AgentTunnel` | agent half of TCP client tunnels | one record of task states per token (`conn`, `handler`), `process_queues`, the socket; an action per step between two awaits of `socket_connect`, `__socket_data_in_handle`, `process_incoming`, `terminate` |
| `BrowserTunnel` | browser half | `dispatch_table`, `client`, `established`, `last_error`, `in_q`, `out_q`; `run` and its outcomes, `onData`, `__handle_out`, both `terminate`s |
| `TcpTunnel` | both halves composed | specification, fairness, properties |
| `OrderedStream` | abstract specification of one direction of a set of streams | `Accept`, `Deliver`, `SignalEnd`; instantiated with a refinement mapping by `TcpTunnel`, `TcpServer`, `Udp`, `AsyncTransport` and `Router` |
| `ServerLink`, `AgentServer`, `BrowserServer`, `TcpServer` | the same for a TCP server and its connections | `table` is `server_tcp_connections`, `disp` says where `process_incoming` is suspended, `run` where the task of a connection is, `"raised"` when `run()` failed before it announced it |
| `AsyncTransport` | `WSNETTransport` and `WSNETConnection` without TLS | an explicit event loop (`ready`, `cur`), `read_lock` with its waiters, the tasks; `WsLost` sets `disconnected_evt`, which wakes nobody |
| `Router` | `WSNETRouter` and `OPServer` | `clients`, `agents`, `operators`, `data_lookop`, the queues; dictionaries with CPython's rules for changes during iteration and for rebuilding a table that is full |
| `FileLink`, `AgentFiles`, `BrowserFiles`, `Files` | file operations of both sides, over one path that all sessions open | `disk`, `file_queues` with Python's write buffer, `listing` where `process_incoming` is suspended in a listing, `ListUnread` a directory that `os.walk` cannot read; `sess` says which call a session is in and at what offset, `told` is what applications were told is written |
| `UdpLink`, `AgentUdp`, `BrowserUdp`, `Udp` | UDP client tunnels and servers of both sides | `conn`, `handler`, `writer`: the tasks of a token; `transport`: its endpoint, whose close is a later callback; `in_queue` with the errors and ends that share it; `socket` tells whether CONTINUE was queued before `run` was woken |
| `TlsRecords` | handshake and reading side of TLS in `WSNETConnection` | `pc`: where the task is, `buffer`: bytes not yet given to the TLS object, which is external |
| `ServerReader` | `WSNetworkServerTCPReader` | `in_queue`, `buffer`, `bufferlock` with its waiters, the call each task is in |
| `Wire`, `Commands`, `Codec` | `wsnet.protocol` | a command written by `to_bytes`, perhaps wrapped and unwrapped for the router, and read by `CMD.from_bytes`; one definition per class |
| `MCTcpTunnel`, `MCTcpServer`, `MCRouter`, `MCFiles`, `MCUdp`, `MCTlsRecords`, `MCCodec` | model values and bounds for TLC | |
| `StreamLemmas` | lemmas that several proofs need: induction over a set of naturals, sequences cut into messages, lanes of a channel, removal from a list |
| `TcpTunnelProofs`, `TcpServerProofs`, `AsyncTransportProofs`, `RouterProofs`, `FilesProofs`, `ServerReaderProofs`, `TlsRecordsProofs` | theorems and proofs about the module of that name |

A step is atomic between two awaits that can suspend. `await queue.put` on an
unbounded queue and `await` of a coroutine that does not suspend are not such
points. Chunks and messages are represented by their position in their stream:
what the properties tell apart is whether one is missing, repeated or out of
order. Operators whose comment begins with "Mutant of" are not part of the
specification: each is the named action with a plausible bug, and shows that a
property notices it.

## 3. Runs

| Run | Instance | What it shows |
|---|---|---|
| `tunnel` | one token, at most 2 chunks a direction and 3 together, fair, 226,295 states | ownership of the socket, order of events, both streams; ends are noticed, an abandoned tunnel is taken down, the agent releases everything |
| `tcp_server` | one connection with 2 chunks one way or 1 each way, or two without data over a WebSocket that holds, fair, 337,299 states | bookkeeping, announcements, both streams, ends are noticed, also when `run()` raises; closing a server while its connections end in every order |
| `tcp_server_close` | violation | a connection can survive the close of its server |
| `transport` | 3 chunks in, 2 out, 2 pause tasks, the WebSocket lost at any moment, fair, 172,630 states | flush, flow control, order, everyone is told of the end |
| `transport_resume` | violation | a resume can be undone by the pause before it |
| `router` | 2 agents and 2 operators (one reverse) without messages, or 3 agents and 1 operator that lists them, or 1 agent, the reverse operator, 2 commands, 2 replies, tables of 4 slots, fair, 231,392 states | tables and loops while agents and operators come and go, and while a table is rebuilt; messages through the queues while either end leaves |
| `files` | two sessions, 5 calls, one fault, files of up to 2 chunks, directories of 2 entries, fair, 260,125 states | acknowledged data is written and reads back, results are true, calls come back |
| `udp` | one token, client or server, 2 datagrams each way, 1 error, fair, 20,900 states | order, the end of a server, errors of a client |
| `tls` | records of 7, 6, 6, 6 bytes, 2 messages queued, 9,573 states | whole records in order, nothing complete waits |
| `tls_record` | violation | a handshake record that arrives in pieces fails the handshake |
| `reader` | 2 tasks, 3 bytes, 3 calls, a separator in the middle, fair, 99,918 states | bytes in order, the end ends the call whose turn it is |
| `codec` | every class of command, at most two fields that are not plain, 6,280 states | commands arrive as they were sent, the router finds agent and token |

Why the bounds suffice. Tunnels of different tokens share only the FIFO
channels and the agent's dispatcher, and every property of `TcpTunnel` speaks of
one token; a larger instance with two tokens (about 9 million states) gave the
same result, and the proofs cover any set of tokens. Two chunks are the fewest
that can be reordered or leave a gap; `ThreeChunks` (in `MCTcpTunnel`) lets
one direction carry two while the other carries one, and the directions share
nothing but the ends of the tunnel. In `tcp_server` two
chunks go in one direction, under every end and loss, or one in each over a
WebSocket that holds (`FewChunks` in `MCTcpServer`), so that answers to late
data meet data, and two connections matter only for the loop that closes a
server, for which `OneOrTwo` needs neither data nor a broken WebSocket; a larger
instance, with two chunks in each direction at once, gave the same result for
`StreamsInOrder` (1,585,723 states, without fairness). In the transport at most two pause tasks exist at a time (a pause
needs a resume before it, and a resume wakes the older task), and three chunks
let one arrive before, during and after a pause. In the router messages of different streams
meet only in FIFO queues, and operators that come and go have nothing to do with
a listing but that one may be in it: `MCRouter` takes `Crowd`, `Listings` or
`Exchange`; agents are alike, and come in the order of their names. `MinSlots`
is 8 in CPython; with 4 a table is full after two entries. Three agents are then enough
for a listing that is suspended after it has sent one of two, that one leaves,
the third comes, the table is rebuilt and the loop ends without an error and
without the second; a larger instance, with four agents and one operator (529,965
states up to symmetry, without fairness), gave the same result for listings. In `files` two sessions
are one that writes and one that reads, or a file and an operation; five calls
let a file be opened, written, closed, opened and read; `OneFault` (in
`MCFiles`) takes a full disk, a broken WebSocket or a timeout, each at any
moment. Files hold two chunks, so that a read or write of more than
one request happens and a chunk can be at a wrong offset; directories hold two
entries, so that a listing can fail or be suspended half way. In `tls` the records
are the shortest there are with one that is longer, because what counts is
where a message ends relative to headers and ends of records, and all cuts are
tried. In `reader` a call can wait behind one that waits, and a third be made.
Fields of a command influence each
other only through where one ends and the next begins, for which two at a time
are enough; texts are empty, ASCII, not ASCII, or mixed.

`CHECK_DEADLOCK FALSE` everywhere: applications and peers may stop, and a
bounded instance comes to rest when the bounds are used up.

Fairness. An asyncio event loop runs every callback and every task whose await
is over: weak fairness of each task's steps, or in `TcpServer`, where a process has
only so much to run within the bounds, of the steps of its loop. A `drain` is assumed to end (the
peer reads, or is given up by TCP). A send of the router is assumed to end
likewise. Nothing is assumed of applications, peers, timers, operators, agents,
or the WebSocket. In particular no timer of a file session has to fire: calls
come back because they are answered. In `AsyncTransport` the loop is one fair action, because its
queue already decides who runs.

### Where code and comment disagree

- `agent.py:747` says "this is closing the server thus all connections will be
  closed". A connection that was accepted but whose task has not run is not in
  the table yet and stays open (`tcp_server_close`).
- `asyncio_helper.py:561` says that after `resume_reading` data is delivered
  again. `pause_reading` creates a task that clears the event later, so that a
  resume which comes first is undone (`transport_resume`).
- `asyncio_helper.py:288` says that `__ssl_recv_one` receives exactly one TLS
  record. It returns nothing when more than five bytes but less than a record
  are there, which the handshake takes for the end (`tls_record`).

Observed while modelling and part of the models, but stated by no comment: an OK
for a server that comes before `agent.py:472` is ignored; the loop at
`agent.py:749` fails with `KeyError` when a connection ends meanwhile, and the
server then goes on; a tunnel whose CONTINUE cannot be sent leaves its socket
open; `WSNConnect`, `WSNErr` and `WSNLog` count characters where the reader
counts bytes, so that one with text outside ASCII is misread or dropped;
a notification of the router is given up half way when operators come or
go, and an operator whose LISTAGENTS meets a change of the table is thrown out.
CPython rebuilds the table of a dictionary when an insertion finds it full,
deleted entries included (the sixth insertion into a table of 8 slots), and an
iterator keeps its position: a LISTAGENTS that is suspended while one agent
leaves and another comes may therefore end without an error and send OK before
agents it has not reached. `ListingComplete` excepts listings during which that
happened, because nothing says that a listing is complete; `ListedOnce` holds of
all. `os.walk` swallows the error of a directory that is missing or
cannot be read: the agent sends OK at once, and the browser takes it for an
empty directory. `ResultTrue` says what is left: a listing has every entry of the
directory, or none because it was not read, and never a part.

A fourth comment, at `agent.py:143` and again at `agent.py:464`, says of `run()`
"if this returns the connection will be closed". When the address of the peer is
no pair (IPv6, or a peer that is gone already) line 148 raises, lines 164 and 166
raise again over `clientip`, which is unbound, and `stop()` is not reached: the
connection is neither announced nor closed. From Python 3.12 on asyncio closes the
socket of a callback that raised, before that nobody does; `AnnounceRaises`
allows both. The properties of `TcpServer` name the exception (`"raised"`)
where they need it. The entry of such a connection stays in the table until the
server is closed, and the `stop()` of that moment sends an empty message, which
the browser takes for a new connection (`CalledOnce` holds: it is called once).

A UDP tunnel that is terminated between CONTINUE and the wake-up of `run` is
reported as open and has no WebSocket (`"void"` in `BrowserUdp`). A transport whose WebSocket is lost while
its reader waits in `get()` is told nothing until it is closed.

The comment "this should not happen" at `interface.py:74` is about a case of
ordinary use: a message for a token that `run()` gave up after 10 seconds, or
that the application terminated, while the agent answered; `AbandonedTornDown`
rests on what the code does then.
In `connection_handler_in_ssl` a message that ends inside a record makes the loop
over records go round for ever without an await, and after a close_notify the
loop over `tls_obj.read` does; the model has no step there, so `tls` speaks of
everything before. A handshake that fails closes the connection, yet `connect`
goes on. A file whose close fails on a full disk loses data that was
acknowledged, and nobody is told; a late answer to a read that timed out is taken
for the answer to the next one, which is why `AckedWritten` and `ReadBack` speak
of handles none of whose calls timed out and of a disk with room. A UDP client
tunnel has no branch for the browser's OK, and its failed connect is only
printed; a UDP server closed while it is connecting stays at the agent.
`readexactly` and `readuntil` wait for ever after the peer's end of file, and so
does a task that waits for `bufferlock` behind the reader that got the error.
`WSNetworkServerTCPServer.terminate` awaits the result of `write`, which is
None; it is reached only through an OK or ERR that the agent never sends to a
serving server.

## 4. Proofs

Every theorem holds for all values of the constants that satisfy the named
assumptions of the module. Each proof has the same shape: an inductive invariant
(checked with TLC on an instance before it was proved), one lemma per component
or action that shows a step keeps it, and a last temporal step. A property that
a run checks is never inductive here by itself; what follows says what has to be
added to each, and why.

| Module | Proved properties | Inductive invariant |
|---|---|---|
| `TcpTunnelProofs` | `TypeOK`, `SocketOwned`, `DataNotEarly`, `OpenMeansConnected`, `OkIsLast`, `StreamsInOrder` | `Inv`, and `Flow` relative to it |
| `TcpServerProofs` | `TypeOK`, `EntryOwned`, `CalledOnce`, `EndAnnounced`, `StreamsInOrder` | `Inv` |
| `AsyncTransportProofs` | `TypeOK`, `FlushedBeforeLost`, `PauseHolds`, `DeliveredInOrder` | `Inv` |
| `RouterProofs` | `TypeOK`, `AgentsMirror`, `OperatorKept`, `ReplyRoutable`, `StreamsInOrder`, `ListingTrue` (`ListingComplete` and `ListedOnce`) | `Inductive`, and `Streaming`, `Listed` and `Once` relative to it |
| `FilesProofs` | `TypeOK`, `ResultTrue`, `AckedWritten`, `ReadBack` | `IInv`, and `Ordered` and `Content` relative to it |
| `ServerReaderProofs` | `TypeOK`, `BytesInOrder` | `Inv` |
| `TlsRecordsProofs` | `TypeOK`, `RecordsWhole`, `NothingHeldBack` | `Inv` |

**Tunnels.** That an open socket has a handler depends on when the handler was
created, and that data does not come early depends on what the browser believes
and what is still on the wire. The invariant is

    Inv == TypeOK /\ Owned /\ ConnectOnce /\ Handshake

`Owned` ties the agent's tasks, queue and socket of a token together.
`ConnectOnce` says that a token starts one tunnel: there is at most one CONNECT
for it, and none after the first. `Handshake` says that CONTINUE or data on the
wire, an established browser tunnel and data on its way back presuppose that
the agent has created the handler. `OkIsLast` has its own step lemma, since
it speaks of the order of commands on the wire.

**Streams.** A channel is shared by all tokens and by commands of all kinds. The
chunks of one stream are its *lane*: an injective map from positions to
commands. `InOrder(ch, lane, got, n)` says that whatever chunk of the lane is in
the channel `ch` is at most the `n`th, has not arrived (is not in `got`), and
each chunk before it has arrived or is ahead of it; `Whole` says that
each of the first `n` chunks has arrived or is there. `StreamLemmas` proves once what
becomes of both when a chunk or something else is added, is taken, is dropped,
or a suffix of the channel is lost. `InOrder` survives everything;
`Whole`, which the next chunk needs in order to be in order, holds as long as
the WebSocket does, after which nothing is added. The refinement follows: the
chunk at the head of a lane is the next one, which is `Deliver` of
`OrderedStream`, and every other step is `Accept`, `SignalEnd` or a stutter.

For tunnels the second invariant is

    Flow == Registered /\ Mine /\ InFlow /\ OutFlow /\ NextInHand

Towards the browser the lane lies in `a2c`, from what the agent has read to what
is in `in_q`, until the application leaves (`Registered`: after that nothing of
the token is delivered any more). Towards the agent the lane lies in the queue of
the token *followed by* `c2a`: dispatching moves the border and leaves the
concatenation as it is (`Mine`: a queue holds commands of its token only).
Before it, `out_q` holds what the application sent after the first `k` chunks, behind it the
handler may hold one chunk (`NextInHand`), and all of that is claimed until the
handler is done.

In `TcpServer` the same lanes are part of one invariant,
`TypeOK /\ Owned /\ Calls /\ Once /\ Announced /\ InFlow /\ OutFlow`.
`Owned`: the task of who has an entry in the table has begun, an entry whose event
is set is about to be removed by a `stop()`, and a socket is closed only after
its event is set or `run()` raised; `EntryOwned` needs in
addition that entries are unique. `Calls`: data presupposes an announcement, and the
browser's table and the count of callbacks agree. `Once`: there is one CONNECT
and its answer precedes all data. `Announced`: while the WebSocket holds, the
browser has heard or will hear of each connection and of each end, *in that
order*, because an end that comes first would be dropped; this is claimed of the
connections whose `run()` did not raise (`Spoken`).

**Transport.** `Inv == TypeOK /\ Turns /\ Lock /\ Writer /\ Flow` of
`AsyncTransportProofs` is about the event loop's queue. `Turns`: a task is ready
at most once and not while it runs. `Lock`: the holder of `read_lock` and its
waiters are where their own state says, and a woken waiter finds the lock free
and is first in line, which is what makes `PauseHolds` true when several pauses
wait and some are cancelled. `Writer`: while nothing has ended the connection,
unsent data implies that the writing task runs or is ready *ahead of* the task
of `close()`; that is the order on which `FlushedBeforeLost` rests. `Flow`: the queue
continues what was delivered, and the agent's end is its last element.

**Router.** The invariant is

    Inductive == TypeOK /\ Finite /\ Mirror /\ Kept /\ Routing

`Finite`: only finitely many agents and operators have connected, which the
sizes that the loops compare depend on. `Mirror` adds to `AgentsMirror` what the
queued signals of one agent look like: its departure comes after its arrival,
and only when it has left; without this the step that handles an
arrival could resurrect an agent. `Kept` adds to `OperatorKept` that a
notification that failed before it began to wait failed because the operator is
closed, and for this that the table holds no operator that has not connected.
`Routing` adds to `ReplyRoutable` where replies come from: the commands on their
way to an agent, and those it has received, belong to streams that have their
entry or whose operator is closed. `WebSocketsMoveOn` and `RoutedStays` are the
facts about time that all of this rests on: a closed WebSocket stays closed, and
a stream that is routed stays routed.

For the two refinements of `OrderedStream` it is `Streaming`: a command is
accepted only for an agent that is in the table or has left (`Introduced`, and
for that only such agents may be in what operators were told), and until the
agent closes its WebSocket every accepted command that has not reached it is in
`out_q`, in its place (`Outgoing`, with the lanes of `StreamLemmas`). Replies are
the same with `in_q` until the operator closes (`Incoming`). A message that is
dropped is therefore one whose receiver takes no other after it.
For `ListingComplete` it is `Listed`: an agent describes itself once, so the
table's keys are inserted once and one that was deleted does not come back
(`Fresh`), and the loop over the table has yielded the key of every entry that
its position has passed and that is still there (`Passed`). One that is inserted
meanwhile is behind the position, so that a loop that ends has yielded them all.
A rebuilt table ends that, and the number of rebuilds only grows (`Going`). For
`ListedOnce` it is `Once`, which holds in any case: entries are
of different agents, what a loop has yielded is not ahead of its position
(`Ahead`), since an entry that is in use only moves towards the beginning, and it
was in the table before (`Met`), so that it is not inserted again.

**Files.** A session waits for an answer by its type alone, and answers of
calls that timed out are still on their way when the next one is made. That a
result is nevertheless true rests on which answers can be there at all:

    IInv == Types /\ AskedOnce /\ \A t \in Tokens : Tracked(t)

`Types` adds to `TypeOK` what the messages on the wire are and what each state
of a session implies. `AskedOnce`: a session requests one operation or one
listing, once. `Tracked` follows that request for one token: while it is on
its way nothing has been done (`Requested`), while the agent lists nobody but that
session waits for it (`Listed`), an OK on its way means that it was done and an
ERR to a waiting operation that it was not (`Replied`), and the session knows no more
than that (`Reported`). `Tallied` counts: the entries a session has got, those of
its token in the channel, whatever lies between them, and those the agent has
still to send are the directory's, or there are none of a directory that was not
read (`Total`). When the OK is taken, only what is ahead of
it counts, and nothing of the token is. `CountLess`, that taking a message out
of the middle of a channel takes one from the count, is proved with a
bijection.

What is in the file needs two more, each relative to the one before. `Ordered` is
about who may touch the file when, and speaks of no data:

- a file that is open for writing is open once (`Exclusive`), and at most one
  handle has data in its buffer (`OneDirty`);
- a session asks for nothing else before its FILEOPEN is answered, nor after its
  OK (`Opening`, `Ended`), and one none of whose calls timed out has one request
  on its way or the reply to it (`Alone`);
- data that has not reached the disk is of a session that has the file open for
  writing or whose OK is on its way (`Writer`), and what another session asks of
  the file is behind that OK (`InTurn`): this is why a reader may rely on a
  close that nobody acknowledges;
- from the moment the agent has answered the FILEOPEN of a session, nobody else
  changes it or has data in its buffer (`Undisturbed`), and the agent has it
  open (`OpenAt`).

`Content` is about the data: no request on its way changes the file where
something is known of it, and what is known is in the file, on the disk or in the
one buffer that holds data (`Lasting`). A reply on its way to a session none of
whose calls timed out is true: an acknowledged write was done, a size leaves
room for all that is known, and a chunk read is the one that is known
(`Truthful`). What a reader has got agrees with that (`Reads`). A timeout breaks
`Alone`, after which a late reply may answer another request than its own; a
full disk breaks `Lasting`. So both properties except them.

A step of the browser is summarised once (`Move`: what it does to its session
and which request it sends) and so is a step of the agent (`Served`: it takes the
first request and replies), and `Ordered` is shown for the summaries.

**Pieces of a stream.** `ServerReader` and `TlsRecords` cut one stream of bytes
into messages, buffers and results. `Piece(a, b)` is the stream between two positions
and `Holds(q, a, b)` says that the messages of `q` are its consecutive pieces;
lemmas say what taking, adding, cutting and flattening do. `Bytes` of
`ServerReaderProofs` is then that what was returned and the buffer are the
stream up to some position, from which the queue goes on. `Queue` there says that
the lock, its waiters and the calls agree and that calls wait in the order in
which they were made, so that the results are in that order too. `Given` and
`Kept` of `TlsRecordsProofs` say that what the TLS object has ends with a record
and the buffer and the queue continue it, and `EndIsLast` that nothing follows
the agent's end. Where a record ends is a sum over `Sizes`, a recursive function
of which the proof first shows that it exists.

**Induction.** Facts about all positions (the ends of the records, the flattening
of a queue, the least chunk that did not arrive) need induction, which
`StreamLemmas` derives for *sets* of naturals: `SetInduction` and `LeastNumber`
follow from the theorem that the order of the naturals is well founded and take
no operator as a parameter.

**Assumptions.** That bounds are natural numbers; that the token of the server is
a token, and reverse operators are operators; that the ids of readers and pause tasks are not
the names the modules use for "nobody" and for the other tasks
(`ReadersAreNamed`, `PausesAreNamed`); that no token is the name for the absence of
one (`NoneAssumption`); and that a record is longer than its header
(`RecordAssumption`).

Only model-checked: all liveness, because fairness and ENABLED are outside the
prover's reach; the codec, whose writers and readers are folds over the fields
of a class; and the properties of `Udp`.

## 5. Not modelled, and the plan

Not modelled:

- logging, versions and build files, the JavaScript side of the WebSocket, and
  name resolution and client information (one request, one reply, no shared
  state);
- the SMB pipe transport and the authentication clients: what they do at their
  edges depends on aiosmb, on the agent at the other end of the pipe and on the
  Windows SSPI, none of which is in the repository;
- the operator's network proxy, a variant of the TCP client without the table of
  tokens;
- of TLS, the writing side, `connect` and the name tables of
  `asyncio_helper.py`; of UDP, addresses and datagrams above the limit of a
  WebSocket message.

What is left is proof:

1. `DatagramsInOrder` of `Udp`, with lanes as in `TcpTunnelProofs`, where errors
   and ends share the queue with datagrams.
2. A codec written with recursive functions instead of folds over fields, about
   which it could be shown that each class reads what it writes.
