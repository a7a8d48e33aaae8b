# prime_server in TLA+

prime_server is a small C++ library for web services built from ZeroMQ sockets:
a server that speaks HTTP or netstring to its clients, a pipeline of stages in
which a proxy balances the load over workers, and a client. This directory holds
TLA+ models of its loops, protocols and tables, the TLC runs that check them and
the TLAPS proofs of what matters most. Source paths are relative to the directory
that holds the repository as `src/`, so `src/src/prime_server.cpp` is the
library's main file.

## The system and its parts

| part | state | operations | interacts through |
|---|---|---|---|
| `server_t` | `sessions`, `requests`, `request_history`, `request_id` | `serve`: poll, one result (`dequeue`), one client message (`handle_request`, `enqueue`), `handle_timeouts` | STREAM socket to clients, DEALER to the first proxy, PULL loopback of results, PUB of interrupts |
| `proxy_t` | `fifo`, `workers`, `heart_beats` | `forward`: poll, one heartbeat, one job | ROUTER upstream (jobs), ROUTER downstream (heartbeats in, jobs out) |
| `worker_t` | `job`, `heart_beat`, `interrupts`, `interrupt_history` | `work`: advertise, poll, receive, `handle_interrupt`, work function, culling | DEALER to its proxy, DEALER to the next proxy, PUSH to the loopback, SUB to the interrupts |
| `client_t` | counters of the current batch, the response parser | `batch`: request a batch, receive a batch | STREAM socket to the server |
| netstring protocol | `body`, `body_length` | `from_stream`, `to_string` | called by `enqueue` and `stream_responses` |
| HTTP protocol | parser state, headers, body | `from_stream`, `stream_responses`, `to_string` | same |
| `beacon_t` | `services`, `punch_card`, `clique` | `update` (`join_clique`, `purge_clique`) | czmq's beacon actor |
| `quiesce` | the static instance, the signal mask, `draining`, `shutting_down` | a thread waits for SIGTERM, drains, sets the flag | read by every loop |
| a daemon (`prime_filed`) | its threads | `main`: quiesce, start the loops, join them | inproc sockets between its own loops |

Every loop is one thread and shares nothing but sockets and the two flags, so the
hard behaviours are those of message passing: a result, a timeout and a
disconnect that race for one request; a heartbeat that crosses a job; an
interrupt that arrives before its job or after it; a peer that goes away between
two sends; `shutting_down` set between two reads of it; a stream that is cut
anywhere. The hazards in `PROJECT.json` list them at their lines.

What makes each part correct: the server answers a request once, finds it on
every path that could settle it and never tells workers to abandon one that is
wanted; the proxy loses and duplicates nothing and its containers stay
consistent; a worker honours interrupts and always comes back; the parser gives
the same requests however the stream was cut; the client collects what it asked
for, and cuts the responses apart where they end; the beacon's members are those
heard of lately; a whole daemon answers what it accepts and stops when told to.

## Modules

| module | models | checked by |
|---|---|---|
| `Server` | `server_t` with the visible states of its STREAM connections | `MCServer`, `ServerProofs` |
| `Proxy` | `proxy_t::forward` with its list nodes and hash tables | itself, `ProxyProofs` |
| `LoadBalancer` | what a proxy promises: the abstract specification `Proxy` implements | through `BalancesLoad`, `ProxyProofs` |
| `Worker` | `worker_t::work` and `handle_interrupt`, any number of workers | itself, `WorkerProofs` |
| `Quiesce` | `quiescable` and the life of a process that uses it | through `Daemon`, `DaemonProofs` |
| `Daemon` | `prime_filed`: `Server`, `Proxy`, `Worker` (`INSTANCE` of each) and `Quiesce` in one process | `MCDaemon`, `DaemonProofs` |
| `Netstring` | `netstring_entity_t::from_stream`, one action per branch of its loop | itself, `NetstringProofs` |
| `Http` | `consume_until` with the request's and the response's `from_stream`; `split_path_query`, `to_string`, `generic` | `MCHttp`, `HttpProofs` |
| `HttpClient` | `http_client_t::stream_responses`, one action per way through its loop | `MCHttpClient`, `ClientProofs` |
| `Client` | `client_t::batch` with the counting of `stream_responses` | itself, `ClientProofs` |
| `Beacon` | `beacon_t::update` | `MCBeacon`, `BeaconProofs` |

An operator whose comment begins with "Faulty variant" is a plausible mistake in the
definition that follows it; no specification uses it. Each property is known to
fail for one of them.

### Server

`pc` walks through an iteration of `serve()`: `poll`, `result`, `client`
(`enqueue`, `health`, `reject` inside it), `timeouts`. Each stage is an action,
so that clients, the backend, the clock and the connections move between any two.
`sessions`, `enqueued`, `requests` and `request_history` are the code's tables; a
request is its id and its keep-alive bit. The connection states follow libzmq's
STREAM socket as the code uses it: `up` accepts frames, `draining` and `closing`
answer EAGAIN, which `socket_t::send` reports as `false`, and `gone` is
EHOSTUNREACH, which it throws. The state may change between two frames of one
`dequeue` (`Reach`). A read of `sessions.end()` or of an erased session is the
stage `undefined`, an exception that leaves `serve()` the stage `terminated`. A caller's
`health_check_matcher` may throw (`MatcherThrows`, if `MatcherFails`): the rest of the
message is dropped, and what was enqueued before stays enqueued. The one of
`prime_filed` does not.
`Init` is the constructor; `sent`, `issuer` and `replies` are history variables.

### Proxy, LoadBalancer

A node of `fifo` is memory that is freed and handed out again, `workers` maps an
address to a node and `heart_beats` a node to an address, so the properties are
about the pointers the code follows. A daemon may pass no `choose_function`, which
the initial states leave open; one that is passed may return nothing, any node, or
throw. The abstract balancer has a queue of idle workers and a queue of
jobs; the refinement mapping reads the idle queue off `fifo` through
`heart_beats`.

### Worker

A job is the id and time stamp of its request; `age` is the age of that stamp,
saturating past the cutoff. `signaled` keeps what poll reported, since the code
acts on it after the work. The work function may call `interrupt()` any number of
times (`Bail`), return a final, blank, intermediate or missing result (`Finish`)
or throw.

### Quiesce, Daemon

`Quiesce` follows `main` (`start`, `quiesced`, `running` and how the process ended)
and the detached thread that waits for SIGTERM. A thread inherits the mask of the
one that starts it, so the order of `quiesce` and the first `std::thread` decides
whether a signal is taken or kills; `pthread_sigmask` and `sigwait` may fail.

`Daemon` joins the components where their sockets meet: the request `Server` puts
in `proxy` arrives at `Proxy`, what `Proxy` sends is what `Worker` receives, the
worker's result is what appears on the server's loopback, an id the server published
is what reaches a worker, late, repeatedly or never, and one flag stops all loops.
Each thread moves only while `main` is `running`. The components are threads of one
process, so none crashes by itself, and their inproc sockets lose nothing. What is
new is that a loop that returned has closed its sockets: `Server`'s send to the
proxy is then refused, and a worker's send, which waits for a peer, blocks for ever
(`Block`, `stuck`). The timeout is `prime_filed`'s default, infinite.

`EachAsAlone` is the assume/guarantee argument: the behaviours of the composition,
seen from one component, are behaviours of that component's own specification. What
the runs `Server`, `Proxy` and `Worker` and the proofs show of each component alone
is therefore true of it in the composition. TLC checks it on a small daemon and
`DaemonProofs` proves it of any.

### Netstring

`Receive` starts a call with a chunk, the loop's branches consume it, `Return` or a
throw ends the call. `Contents` is what a whole stream contains, read at once and
without a buffer: a recursive function over the stream, with which the parser is
compared after every call and every throw. Formatting
and parsing of the length are modelled digit by digit, with an upper limit for
`std::stoul`.

### Http

Requests and responses share `consume_until`, so one module has both parsers:
`kind` says which, `Receive` starts a call, `StartPiece` enters the loop and counts
a body, `Match` looks at one symbol, `Found` marks the return of `true` and each
case of the two switches is an action; `RanOut` ends the call. What a step depends
on is separators, digits and the names of two headers, so a stream is a sequence
of such symbols, with one symbol for a whole method, version or header name. The
sum compared with `max_size` has the width of `size_t`; the history variable `began`
says where in the stream the current entity began, from which `RefusesTooLarge`
counts. `Contents(m)` is what the first `m` symbols of the stream contain: a reader
that has them all in front of it takes one piece after the other (`Read`), each up to
the first place where it may end, without a buffer, a delimiter that is half matched
or a place to resume. The parser is compared with it after every call and every throw:
the entities, where the next one begins, and whether the stream is malformed. The
words of a request's first line are the one place where it matters how much has
arrived: reader and parser give up on a method or a version that gets too long
(`GivenUp`). One oddity of the code is part of the
reference: `consume_until` starts over at a character it did not expect without
looking at that character again, so a line ends at a LF behind an odd number of CRs
(`OddReturns`).

A request line's path is split into path and query as `split_path_query` does it:
without a `?`, `find` returns `npos` and `npos + 1` is 0, so the whole path is
searched for parameters. The server writes the request again (`to_string`) for its
workers, with the parameters in the order its hash table has them in and encoded by
`url_encode`, and with all the headers it has (`FieldLines`); `Content-Length` is added
only if there is a body and no such header (`MissingLength`). `RoundTrip` is an
equivalence: a worker reads the request the server has read exactly if the query is
not empty and the headers announce the body that is there. The first exception is
`/p?`, which comes out as `/p` (`test/http.cpp:216-219` has it so). The second is a
disagreement with `src/README.md:209`, by which a work function may take what the
server sends it for valid HTTP: `to_string` keeps `Transfer-Encoding: chunked` and
writes no chunks. With a body, the added length is what is read; without one, the
worker waits for a chunk and `from_string` throws "Incomplete http request". The same
goes for a `Content-Length` that came in a chunked request's trailer and is more than
the body; one that is less cuts the body short. `generic` always writes the length of
the body, so a response comes back as it was written (`LengthHeader`).

### HttpClient

`stream_responses` has a scanner of its own, which looks only for the header
`Content-Length` and for the end of the headers. A symbol is CR, LF, a digit, one half
of the header's name or any other text; `begin`, `current` and `end` are places in
the stream. The two delimiters are iterators kept over calls, and at their end they
point to the NUL of the string, which a response could hold (`AtReturn`). `length` has
the width of `size_t`. When `collect_function` throws, `reset()` and `buffer.clear()`
are skipped: the next response is appended to the one that was refused, and if that
one had a body the length is counted below 0 and the scanner finds no end again. The
model has both; the properties say what holds until then. `stream` is what the server
sends and `ends` where its responses end; `WellFormed` says of the two that each
response has headers, an end of them and a body of the length they give, which is
what `WholeResponses` asks of the server. `BodyNeverWraps` asks nothing of it.

### Client, Beacon

The client's request function makes `Total` requests and its collect function
wants `Total` responses, as in the tests. A read completes any number of responses
that have arrived, or none when it brings only a piece of the next. Callbacks may
throw, sends fail and the server hang up; the properties that need it say `Failed`.
The responses are well formed: what `stream_responses` of the netstring client throws
of one that is not is no `std::exception`, and would leave `batch()`.
The beacon's list nodes are named like the proxy's, and the wall clock may be set
back; `heard`, `uuid`, `known`, `checked` and `jumped` are history variables. An update
asks for the time twice (once to join and once to purge), which is one value here.

## Runs

All passing runs finish within three minutes on two workers, most of them in
seconds.

| run | shows | bounds |
|---|---|---|
| `Server` | one reply at most, sessions of writable requests, awaited requests tracked, interrupts only for the unwanted; nobody waits for ever and no entry stays behind when a timeout is set | 1 client, 2 requests, kept alive or not, pipelined, behind a health check, refused by the proxy, with blank results, with a matcher that throws; timeout of 1 |
| `Proxy` | containers inverse, chooser sees the last heartbeat, job has a taker, jobs conserved; implements `LoadBalancer`; heartbeats do not starve jobs | 2 workers, 2 jobs, 2 nodes, 2 payloads, with and without a choice function |
| `Worker` | interrupts are read, remembered, honoured and culled; a worker reports back | 1 worker, 2 jobs, 2 publications, cutoff 0 |
| `Daemon` | a request is always in one place, each component behaves as alone, SIGTERM never kills once it is blocked, whoever waits is answered, SIGTERM ends the process but for three named failures | 1 client, 1 request of either kind, 1 worker, 1 interrupt, 1 second of draining |
| `Netstring` | chunking does not matter, throws only on malformed streams, round trip, buffer bounded, calls end | 5 characters, streams to 7, chunks to 3 |
| `Http` | the same, for requests and responses; a delimiter is cut off exactly, a request is refused as too large only if it is, server and worker agree on a request exactly if its headers announce its body and its query is not empty | requests to 5 paths and responses, with sized, empty, chunked and missing bodies, a right and a wrong length in a trailer, headers in either order; 5 pipelined streams with any one symbol replaced by one of 5; chunks to 3, `max_size` 24 |
| `HttpClient` | each response is collected once, whole and by itself; the length is never counted below 0 | pairs of 5 responses, a triple and a pair with a length that is none, cut into messages in every way |
| `Client` | batch bound, no idle blocking, completeness but for split responses, termination | 10 requests in batches of 4 |
| `Beacon` | members recent; tables cross referenced, reports replay, last uuid | 3 endpoints, max age 2, times to 3 |

The bounds are chosen so that the interesting races occur: two requests of one
connection with either kept alive or not, two workers that heartbeat twice so that
either can be chosen and nodes are reused, two jobs so that order matters, an
interrupt and a SIGTERM at every moment of a request's way through the daemon, two
netstrings in one stream, bodies that look like headers, three rounds of a batch with
a short last one. Connections share nothing in `Server` but the order of messages and
ids. Every safety property of a passing run, apart from `Http`'s `RoundTrip`, is also
proved: for any number of clients, workers, jobs, requests and endpoints, and for any
stream, chunking and limit. Deadlock is not checked in the models that may come to
rest: a loop or a process that returned, workers that all crashed, a parser that was
given the whole stream, a client whose server hung up.

The modules' type invariants are not among the runs' properties; those of `Server`,
`Netstring`, `Http`, `Proxy`, `Worker`, `Client` and `Beacon` are proved.

### Disagreements

Three runs are expected to be violated; each states what a comment or the README of
the repository says and shows a behaviour of the code that differs (`findings` in
`PROJECT.json`).

| run | shows |
|---|---|
| `Server_ends` | a timeout of a request whose connection is gone throws in `dequeue`, and `handle_timeouts` is the caller without a handler, so `serve()` ends |
| `Daemon_exits` | the loops notice `shutting_down` at different moments; a worker that then sends a result (prime_server.cpp:564) or a heartbeat (prime_server.cpp:615) to a loop that has returned blocks for ever, and `main` never gets past its `join` |
| `Daemon_available` | the heartbeat of a poll timeout crosses a job, and the proxy sends the busy worker another; 2 requests |

Seen while modelling, part of the models, and without a run of their own:

- a chunked request without a body is sent on to the workers as no request at all
  (http_protocol.cpp:331, prime_server.cpp:351), see `RoundTrip` above;
- a close by the server leaves the session's other requests in `requests`
  (prime_server.cpp:389); only the disconnect path erases them;
- the disconnect notice of a connection the server closed itself opens a session
  that nothing erases (prime_server.cpp:284-289);
- a health check that is not kept alive erases the session `enqueue` still holds
  references to, and a further request in the same message uses them
  (prime_server.cpp:359-365);
- `handle_interrupt` at prime_server.cpp:597 is outside any handler, and throws
  `interrupt_t` out of `work()` when `shutting_down` is set just before it, which
  ends the process by `std::terminate`: one of the outcomes `StopsInTheEnd` names, and
  like the blocked worker against what `ExitsNaturally` quotes;
- a job that crossed a heartbeat waits on the busy worker's socket until the current
  one is done, so the request is delayed and not lost (`OneHolder`);
- `recv_all` (zmq_helpers.cpp:158) reads one message, so a job can start although
  its interrupt was delivered behind another;
- `to_string` of an empty netstring is rejected by `from_stream`
  (netstring_protocol.cpp:61), which is why `RoundTrip` excludes it;
- a round of `batch()` whose first read brings only a piece of a response ends it
  with responses under way, as `more` is reset before every round
  (prime_server.cpp:160), which is why `CollectsUnlessSplit` excludes that read;
- `consumed` gains only what the last call read of a piece
  (http_protocol.cpp:219-227), and the sum with a huge `Content-Length` can wrap
  (http_protocol.cpp:411), so a request may be larger than `max_size`;
- after an exception of `collect_function` `http_client_t` is out of step with the
  stream (http_protocol.cpp:149-152), and so it is after `std::stoul` threw;
- a throw of the netstring parser drops the requests it found earlier in the same
  chunk (netstring_protocol.cpp:105), so `ChunksDoNotMatter` says after a throw only
  that what was delivered is a beginning of what the stream contains;
- `request_history` is only ever popped by `handle_timeouts`, so with an infinite
  timeout it grows with every request (prime_server.cpp:361); `LeavesNoTrace` is
  about a server with a timeout;
- `consume_until` misses the end of a line behind two CRs (http_protocol.cpp:211);
- a request that threw or was not sent still counts in the client's batch, and
  `batch()` then blocks for a response nobody will send (prime_server.cpp:153);
- a client whose request function has no request at all makes a round of nothing and
  blocks in `recv` all the same (prime_server.cpp:153): the proof of
  `WaitsForSomething` fails for `Total = 0`, which the property therefore excludes.

### Fairness

Weak fairness is assumed of the threads (`serve`, `forward`, `work`, `batch`, the
parsers' loops): they poll with a timeout of a second and run until told to stop.
`Server` adds that time passes, `Client` that the server answers, `Worker`
that the proxy reads heartbeats, and work functions are assumed to
return. `Daemon` assumes it of each thread and of the process (the thread that waits
for SIGTERM, `main`), of nothing else: not of clients, of interrupts or of whoever
sends the signal. Nothing is assumed of the backend in `Server`, either.

## Proofs

`ServerProofs` proves, for any set of clients, any chunks and any bounds,
`TypeOK`, `AtMostOneReply`, `WritableHasSession`, `AwaitedIsTracked` and
`InterruptedNotAwaited`. None is inductive alone. The inductive invariant `IInv`
adds: ids at or above `request_id` are unused everywhere (`Fresh`); a table entry
belongs to the client that issued it (`Owned`, `Known`); at most the first and the
last message of a connection are blank (`OneBlank`), which is what tells a connect
from a disconnect; what each stage may rely on (`Stages`: whose session `cur` is);
a reply and an entry in `requests` exclude each other while the connection is
writable (`Answered`); an entry is found through its session (`Findable`) and its
history (`Remembered`). The step lemma has one case per action; `dequeue` has
lemmas of its own, as five actions use it.

`NetstringProofs` proves the three invariants of the `Netstring` run, for every
alphabet, limit and chunking. `BufferBounded` needs only `AtStart`: while a body is
looked for, the index is at the start of the chunk. `ChunksDoNotMatter` is about
`Contents`, a recursive function over the stream. That it satisfies its equation is
proved, not assumed (`Recursion`, from a rank that decreases); the library's induction
theorems are out of the provers' reach, so each induction is an argument about a least
counterexample (`Least`). The invariant `Accounted` says that the stream is what was
parsed, followed by what is buffered or left of the chunk (`Standing`), and of what
was parsed that it contains what was returned whatever follows it (`Parsed`); that
relation is extended by one netstring at a time, so the step lemmas need no
induction. `RoundTrip` follows from it with `DecimalDenotes`: `std::stoul` undoes
`std::to_string`.

`HttpProofs` proves `CutsDelimiterOnly` for every stream, limit and chunking: the
matched part of a delimiter is the end of what was seen of the piece, over all the
calls it was spread over, so `partial_buffer.resize` takes off the delimiter and
nothing else, and never more than there is. Its invariant adds `AtStart` (nothing
of a chunk is looked at between pieces) and `BodyFirst` (while a body is counted
nothing is matched, and all of the chunk belongs to it). The lemmas are about the
buffer and the beginning of the chunk as one sequence; `RanOut` moves the border
between the two and `Match` adds a symbol at the end. `RefusesTooLarge` and `TypeOK`
need `Within`: what is counted as consumed, what is buffered and what is left of the
chunk are together no more than what arrived since the entity began. The sum that is
compared may have wrapped, but wrapping makes it smaller.

`HttpProofs` also proves `ChunksDoNotMatter`. The invariant `Follows` puts the
reader next to the parser: after some number `n` of pieces the reader is where the
parser's current piece begins (`Comes`), with the same line, headers, body, entities
and `need` symbols known to come. It says so of the readers of every longer stream at
once, since more may arrive; that makes `Receive` a step that only drops readers, and
no induction over the stream is needed. While the parser is within a piece, `Needs`
says how much of a counted body is left and `Sought` what it has found of the
delimiter: one symbol exactly behind an odd number of CRs, two exactly at the end of a
line, and no earlier end (`NextReturn` is the step of that parity). So a piece the
parser finds is the reader's next piece (`PieceRead`), and each case of the two
switches is compared with what the reader makes of it (`Took`). `n` is at most twice
the place in the stream, because only an empty body is a piece without a symbol and no
two of those follow each other: `2 * m + 1` pieces are enough for the reader to stop.
`AtRest` adds that between calls the piece is not complete and not given up.

`ProxyProofs` proves the four invariants of the `Proxy` run and the refinement.
`Bidirectional` and `ChooserSeesLatest` are inductive with the types; `JobHasTaker`
needs `Reported`: what poll saw of the upstream socket, a job and someone to take it,
is still there at the job stage, because the only stage between adds workers and
removes none. `JobsConserved` counts places, and `Apart` says the same without
counting: no job is twice in a queue or in two queues, none comes back, each that
came is somewhere. `OnePlace` turns it into a set of one element. The refinement has
one lemma for the environment's steps and one for those of `forward`; both are about
the queue of idle workers read off `fifo` through `heart_beats`, to which appending
and erasing a node must be appending and removing a worker (`IdleList`), which is
where `Bidirectional` is used.

`WorkerProofs` proves the three invariants of the `Worker` run, which hold together:
a worker begins or goes on only when its job is not among the ids it remembers, and
what it remembers is every young id it ever read. The culling loop is a prefix of the
history of old ids (`Cull`); an old id stays old. `HasItsJob` adds that poll's word
about a job is still true when it is received.

`ClientProofs` proves the three invariants of the `Client` run for any number of
requests and any batch size. `current_batch` counts requests up in one loop and
responses up in the next; `Counted` relates it to the requests under way in both and
holds whatever fails, `Exact` sharpens it to an equality while nothing has.

It also proves the two invariants of the `HttpClient` run, for any stream and any
messages: it extends `Client` and `HttpClient`, whose names are kept apart for that
(`StreamSpec` and `stream_vars` are `HttpClient`'s). `LengthsNeverWrap` needs only that a
body is eaten while `length` is at least 1. `ResponsesAreWhole` names the stage the
scanner is in within a response: it seeks the header, counts the digits behind it,
skips the rest of the headers or eats the body (`Seeks`, `Counts`, `Skips`, `Eats`).
Where an iterator is in use it is a function of the two symbols before `current`
(`ReturnAt`, `HeaderAt`), so whether a message ended there makes no difference.

`BeaconProofs` proves the three invariants of the `Beacon` run. `Linked` says of a
record of the three containers that they hold the same members and point at each
other; erasing the last check-in, checking in and purging each keep it, so their
composition, an update, does, whatever the clock does. `Steady` says that until the
clock is set back the list is in the order of the check-ins' times: erasing and
cutting leave the order (`Thinned`), and a new check-in goes to the end with the
latest time. With it, dropping up to the first young one drops exactly the old
(`OnlyTheOld`). That the caller itself is never dropped by its own update needs
`max_age > 0`.

`DaemonProofs` is about the composition, for any clients, requests and workers. It
reads the component's proofs with the daemon's variables (`SP`, `PP`, `WP`).
`ServerAsAlone` needs nothing: each step of the daemon is one of `Server` or leaves it
alone. `ProxyAsAlone` needs `Numbered`: a request that arrives at the proxy has not
been there before, because the server hands ids out in order. From it the proxy's
proved invariant holds in the daemon, and with that `Located` is inductive: a worker
has the job it took and nobody else has it, and a request is somewhere between the
loops exactly while the server is without a result of it. `WorkerAsAlone` and
`OneHolder` follow from that. `EachAsAlone` is the three together, and
`ServerKeepsItsWord`, `ProxyKeepsItsWord` and `WorkerKeepsItsWord` draw the
conclusion: every invariant proved of a component alone holds of it in the daemon.
`NeverKilled` is about the process: threads inherit the mask of the one that starts
them (`Inherited`).

The assumptions are those named in the modules (`ServerAssumption`,
`ProxyAssumption`, `WorkerAssumption`, `ClientAssumption`, `BeaconAssumption`,
`NetstringAssumption`, `HttpAssumption`, `HttpClientAssumption`, `QuiesceAssumption`,
and `DaemonAssumption`, which is what the components assume of the constants they
share): constants have their types, `None` and `NoJob` are none of the things they
stand next to, streams are sequences of symbols, `batch_size` and `max_age` are not
0, and there is a heartbeat to send. TLC evaluates them in every run.

Only model-checked: liveness (fairness and `ENABLED` are out of the prover's reach),
and `Http`'s `RoundTrip`. The latter is about the paths, headers, orders and bodies that
`MCHttp` names; for all of them it would take what `PathAndQuery`, a recursive
definition, and `split_path_query` compute for every path.

## Not modelled

- The wording of responses, logging, and what the user's work functions do.
- `http_util`: it maps a path to a file and a MIME type; it has no state.
- The other command line daemons: they read arguments and start some of the same
  loops. `Daemon` is `prime_filed`, which has all three in one process. A pipeline of
  two stages has a second proxy and worker between the same kinds of socket; joined
  to the first it is past what TLC can exhaust, and `EachAsAlone` is why one stage is
  enough for what a component relies on.
- The console handler of the Windows build of `quiescable`.
- The beacon's commands to czmq's actor, and the rehash of the table its list keeps
  iterators into: the builds in use keep them valid.
- `request_id` wrapping: two live requests share an id only after 2^32 requests within
  one timeout.
- HTTP headers that do not say how long a body is, beyond their place in the stream.
- What a parser makes of further data after it threw, which it only gets when the
  disconnect could not be sent either (prime_server.cpp:309-310): in `Http` and
  `Netstring` a throw is the end of the stream.
- A call of `shutting_down()` or `draining()` before `quiesce()`, which would make the
  static instance one that waits for nothing; the daemons call `quiesce()` first.

## Plan

What could come next is `Http`'s `RoundTrip` for every path and body, by way of
`Chunking` and a proof that `split_path_query` undoes `PathAndQuery`; and a pipeline of
two stages, for which `EachAsAlone` would be the starting point.
