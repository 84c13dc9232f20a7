# A verification of Distray

Distray runs a command-line program (a renderer) once per frame on a set of
machines. This directory holds TLA+ models of it, the TLC runs that check them
on small instances, and theorems that TLAPS proves for every instance. Source
paths below are relative to `src/src/`.

## The system

| part | source | state it keeps | operations |
|---|---|---|---|
| Controller | `controller.cpp` | the deque `frames`, the vector `remote_workers`, the `pollfd` entries of the current turn | connect to proxies, poll, serve the entries backward (read, write, hang up), accept, hand out frames, end |
| RemoteWorker | `RemoteWorker.hpp/.cpp` | `m_state`, `m_state_index`, `m_frame`, `m_proxy_index`, two buffers | `start`, `receive`, `send`, `run_frame`, `dispatch` |
| Worker | `worker.cpp` | nothing but the files below its directory | receive a request, handle it, answer |
| Message buffers | `IncomingBuffer.hpp`, `OutgoingBuffer.hpp`, `util.cpp` | a size, a count of bytes, a buffer | `receive`, `send`, `set_message`, `reset` |
| Proxy | `proxy.cpp` | the vector of connections, two byte buffers each, the descriptors closed in the current turn | poll, accept and pair, receive, send, close both ends |
| Frame ranges | `Frames.hpp/.cpp` | first, last, step | `parse`, `get_all` |
| Command line | `Parameters.*`, `util.cpp` | the arguments left, the parameters | read the command, a flag, the rest; substitute `%d`, test and split names |
| Sockets | `util.cpp` | none | name lookup, `bind`, `listen`, `connect` |

A worker connects to the controller, or to a proxy that joins its connection
with one that the controller has opened. From then on the controller sends one
request at a time (welcome, copy in, execute, copy out) and the worker answers
it. The controller is a single thread around `poll()`; every worker is a
process of its own; what links them is TCP.

What makes it hard: a worker may end, or a connection break, between any two
steps; what `poll()` reported may be stale when it is used, because an earlier
entry of the same turn changed the vector; the frame of a dead worker must be
done again by another one, from its first request on; and nobody acknowledges
that a frame is finished, the state machine has to know.

## Modules

| module | what it models |
|---|---|
| `Drp` | the requests and responses, the `--in` and `--out` copies, the names of files. A pathname is <direction, index of the copy, substituted frame>, a content is the frame it was made for, or `Damaged` |
| `RemoteWorker` | the state machine of one worker as seen by the controller: an object is a record, each method an operator that returns the record it leaves |
| `Worker` | the four handlers of a worker: from a request, the files and what the operating system does, to a response and the files |
| `Controller` | the main loop, one action per branch, composed with the sockets and the workers |
| `ControllerProperties` | the properties, the parts of the inductive invariant, and what comments and README say that does not hold |
| `WorkQueue` | abstract: a batch of work that waits, is held by one holder at a time, is given back or done |
| `MCController` | the instances for TLC |
| `Exchange` | abstract: a request is asked, heard, answered and learned, as a whole and in this order |
| `Framing` | the bytes of messages on one connection, which may break: `OutgoingBuffer` and `IncomingBuffer` at one end, `send_message()` and `receive_message()` at the other, and a bounded stream each way |
| `FramingProperties`, `MCFraming` | the properties of the framing, the mapping that shows it to implement `Exchange`, and its instance for TLC |
| `Strtol` | how both readers of numbers read one: clamped to a long, cut to an int |
| `Frames`, `MCFrames` | `parse()` over a text of tokens and the loop of `get_all()`, with the properties of frame ranges |
| `Pipes` | abstract: workers and controllers are joined in pairs, each pair with a pipe each way |
| `Proxy` | the loop of the proxy, one action per branch, composed with its peers and the kernel |
| `ProxyProperties` | the properties of the proxy, and the mapping that shows it to implement `Pipes` |
| `Relay` | the proxy between a controller that is one process and workers that answer requests |
| `MCProxy` | the instances of the two for TLC |
| `Text` | frame parameters, local pathnames, integers and end points, over sequences of characters |
| `Parameters`, `ParametersProperties`, `MCParameters` | `parse_arguments()`, one action per turn of its loop over the flags; its properties and its command lines |
| `DataLemmas` | lemmas about `Min`, `RemoveAt`, `FlattenSeq`, `Prefixes`, sequences used as queues and recursive functions |
| `ControllerProofs` | what the operators of `RemoteWorker` return; types, entries and proxies of the controller; no frame is lost or held twice, all are saved, the controller implements `WorkQueue` |
| `ConversationProofs` | controller and worker keep in step, and the files are those of the frame |
| `FramingProofs` | messages come out whole, and the framing implements `Exchange` |
| `FrameRangeProofs` | the grammar and the lists of frame ranges |
| `ProxyProofs` | types, events, descriptors and waiting peers of the proxy |
| `PipesProofs` | the proxy implements `Pipes` |
| `ParametersProofs` | what the functions of `Text` do with any text, and how any command line is read |

The modules cover each other's abstractions. `Controller` lets a request travel as
a whole and a response in two parts; `Framing` shows that messages in pieces of
any length amount to that (`CarriesMessages`). `Drp` assumes that no frame
occurs twice in `AllFrames`; `Frames` shows it for every list with a step other
than 0 (`NoFrameTwice`). `Drp` reduces a name to the frame put into it;
`FramesHaveNames` shows that the texts of two frames differ exactly if the name has a
parameter. The handlers of `Worker` do not refuse a name; `RemoteStaysLocal` shows that
no name that passes the command line is refused, whatever the frame. `Controller` takes a proxy
for a connection that may end at any time; `ActsAsPipes` shows that two processes joined
by one see each other's bytes as on one connection, but for the time at which it ends.

### How `Controller` corresponds to the code

`pc` says where `start_controller()` is: `top` (the loop test), `connect` (the
proxies), `poll`, `read` / `write` / `hangup` (the three `if`s for the entry
`poll_index`), `handout`. It ends as `returned` (`return 0`), `failed`
(`return -1`, `exit(-1)`, or killed by SIGPIPE), `assertion` (one of the
`exit(1)` checks of `receive_response()`, `dispatch()` and `run_frame()`) or `undefined`.

| code | actions |
|---|---|
| `controller.cpp:79` | `LoopTest` |
| `controller.cpp:80-108` | `ConnectProxy` (one per turn of the inner loop), `ProxiesConnected` |
| `controller.cpp:110-128` | `Poll`, `PollFails` |
| `controller.cpp:135-162`, `IncomingBuffer::receive` | `NothingToRead`, `ReceiveSize`, `ReceiveMessage`, `ReceiveEnd`, `ReceiveReset`, `ReceiveError`, `Accept`, `NothingToAccept` |
| `controller.cpp:164-174`, `OutgoingBuffer::send` | `NothingToWrite`, `Send`, `SendFails` |
| `controller.cpp:175-180` | `Hangup` |
| `controller.cpp:183-189` | `HandOut`, `HandedOut` |
| `worker.cpp:133-198`, `util.cpp:18-82` | `WorkerConnects`, `WorkerReceives`, `WorkerHandles`, `WorkerReplies` |
| the kernel and the network (external) | `PeerCloses`, `ResetArrives`, `NetworkLost` |

Conventions:

* Indices count from 1. The entry of the listening socket is number 0, as in
  the code, and is served last.
* The loop of `dispatch()` through the `SEND_...` states happens within one
  call, so `dispatch`, `run_frame` and `new_remote_worker` go on to the next
  state in which the object waits. The copies that `copy_file_in()` and
  `copy_file_out()` step over are skipped by `CopiesLeft`.
* A response arrives in two parts, the size and the message, because the
  controller treats the end of the connection differently before and after
  the size. A request leaves as a whole: the sockets are blocking.
* TCP is the one of Linux. An orderly close reports POLLIN, and `recv()`
  returns 0. A reset reports POLLIN, POLLERR and POLLHUP, and `recv()` fails
  with ECONNRESET after the queued data. Sending to a closed peer succeeds and
  is answered by a reset; from then on `recv()` returns 0 and `send()` raises
  SIGPIPE. A process that ends with unread data resets its connection. A
  connection that is "lost" yields an error other than ECONNRESET.
* After `kill_worker()` the same index may be past the end of the vector.
  Reading there, or erasing `end()`, is undefined; the model ends the process
  (`undefined`), which is what a checking allocator does. No property relies on
  the controller going on from there.
* `accept()` that fails takes the connection out of the backlog (an aborted
  connection). A controller that is out of descriptors is not modelled.
* The controller never closes a descriptor, so descriptors are not reused and
  a connection stands for one `RemoteWorker` object.

### How `Framing` and `Frames` correspond to the code

A byte is <message, position>; a header is made of the first `SizeBytes` bytes
of its message, so decoding it gives the size and decoding a body gives the message if
the bytes are exactly its own, in order, and `Nothing` (the "Can't decode" exits)
otherwise. `incoming` is the record of the fields of `IncomingBuffer` with the bytes
that `m_received` counts; `outgoing` is what lies after `m_sent`. `Ask` is
`send_request()`, `Send(n)` and `Receive(n)` are `send()` and `receive()` when the
socket takes or gives `n` bytes, and `Receive` goes on to `receive_response()` when the
message is complete. At the worker `recv()` with MSG_WAITALL is several
`WorkerReceives(n)` and `send()` several `WorkerSends(n)`. `WireSize` bounds what a
stream holds, so that writers have to wait. `Breaks` is the connection being cut (`broken`), by a
proxy that ends or closes the pair, or by the network; the ends come to see it as an end of the
stream (`ReceiveEnd`, `WorkerReceivesEnd`) or an error (`ConnectionFails`), after what is
still on the way or instead of it.

In `Frames` a token is a number (everything that `strtol()` takes in one call, blanks
and sign included), a comma or something else. `parse_int` reads it, clamped to a long
and cut to an int; `NextNumber` and `AllRead` are what follows a number in `parse()`;
`ListFrame` and `AllListed` are the loop. The overflow of `frame += m_step` is
undefined and ends in `undefined`.

### How `Proxy` corresponds to the code

`pc` is `poll` or `serve`, or how `start_proxy()` ended: `failed` (`return -1`, or
SIGPIPE) or `fatal` (an `exit(-1)` marked "Programmer error"). `events` holds the
bits that `poll()` reported, in the order in which the loop looks at them: POLLIN of the two
listening sockets, then POLLIN, POLLOUT and POLLHUP (with POLLERR) of each side of
each connection. Serving an event takes the first one off.

| code | actions |
|---|---|
| `proxy.cpp:281-310` | `Poll`, `PollFails` |
| `proxy.cpp:317-321`, `skip_rest` | `Skip` |
| `proxy.cpp:325-366` | `Accept`, with `AddWorker` and `AddController` |
| `proxy.cpp:367-387`, `Buffer::receive` | `Receive`, `ReceiveEnd`, `ReceiveFails` |
| `proxy.cpp:390-408`, `Buffer::send` | `Send`, `SendEnds` |
| `proxy.cpp:410-422` | `Hangup` |
| the end of the `for` | `EndOfTurn` |
| the peers: `create_client_socket()`, `OutgoingBuffer::send`, `IncomingBuffer::receive` | `Connects`, `Writes`, `Reads` |
| the end of a peer, kernel, network (external) | `Closes`, `ResetArrives`, `NetworkLost` |

* A chunk, <who wrote it, its number>, is what one `recv()` returns. A blocking `send()`
  hands the socket one chunk after the other, as there is room, and is over when the
  buffer is empty or the connection ended; in between the peers move.
* Descriptors are numbers and `accept()` returns the lowest free one, as the kernel
  does. A peer stands for one connection and connects once.
* The kernel is that of `Controller`. Closing a socket with unread data, at either
  end, resets the connection, and the reset may overtake what was sent (`Cuts`).
* In `Relay` the peers in `Controllers` are the connections of one controller. While it is in
  `send()` on one of them (`Sending`) it cannot read the others.

### How `Parameters` and `Text` correspond to the code

An argument is one of the program's own words (a flag, a command) or a text, a sequence of
characters; the words have no slash, dots or parameters, so the tests on texts do not tell them
apart. `pc` is `command`, `flags` (the loop test), `rest` or `done`; `args` is what is
left. The frames are FIRST[,LAST[,STEP]], where each number may have blanks and a sign in front
(`IsRange`), what `Frames` shows that `parse()` accepts; what begins with a dash is a flag by then.
The loops of `util.cpp` are recursive functions of the position they are at (`from` in
`find_parameter`, `substituted` in `substitute_parameter`, `value` in `Number`), so a text of
any length has a value and a proof can speak of it. `parse_integer` clamps and cuts a port as
`strtol()` and the int do; the widths of parameters are ints, since a larger one is an
overflow in `find_parameter()` and would need as much memory.

### The environment

`Faults` chooses what may go wrong: `close` (a worker or a proxy ends), `lost`,
`accept`, `connect`, `poll` (the calls fail), `read_file` and `write_file` (the
controller's own files cannot be opened), `oversize` (a response above 10 MB), `error` (a worker's
file cannot be opened, its name is refused, or the program fails). Three more go unnoticed:

* `partial`: a file is opened, and reading or writing it breaks off. `read_file()` and
  `write_file()` test the open only, so the call counts as done and the file is `Damaged` from then
  on. What the controller reads shows in the file that the worker makes of it; a program whose
  output breaks off damages all the files it writes for the frame.
* `signal`: the program is killed before it wrote its output, and `WEXITSTATUS` of that is 0.
* `fork`: `fork()` returns -1 and nothing is run. `wait4()` then fails and `status` is read
  without having been written; if it reads as 0 the program counts as run, otherwise this
  is an `error`.

A worker starts with none of the files in its directory.

## Runs

| run | shows |
|---|---|
| `direct` | two workers that may end at any time, two frames, a scene file, a per-frame file, a log and an output file, and every fault but those that go unnoticed: types, frames, files, lockstep, entries; a return of 0 means that the files are there and whole, since no read or write breaks off here (`FilesComplete`) |
| `unnoticed` | one worker, two frames, and reads, writes, programs and `fork()` that fail without a notice: what is saved for a frame is never the output of another one, at most it is cut short; conversation and inputs stay in step (`TalkInv`, which implies `InputsReady`) |
| `proxied` | two proxies, three descriptors for connections to them: one waiting connection per proxy, and the invariant `IndInv` |
| `liveness` | two workers that may end: if none does, the controller returns 0; a worker that reset its connection is erased; the controller implements `WorkQueue` |
| `framing` | three exchanges over streams that cut messages anywhere, either end may stop and the connection break: no message is garbled or, but for that, cut short, the bytes on the way are always one message, the buffer is never overrun, the two ends implement `Exchange` |
| `frames` | every text of up to five tokens: accepted exactly if it has the form FIRST[,LAST[,STEP]], the list is the arithmetic range, without repetition, and it ends |
| `proxy` | a worker and two controllers that come, go and are lost at a proxy, with reused descriptors: no "Programmer error", nobody waits in vain, the invariant they follow from, pairs are pipes, what is written arrives and who left is noticed as long as the peers read |
| `command_line` | short command lines of all kinds, also with values that look like flags, and names of up to five characters: read as `usage()` says, all names local and distinct for every frame |
| `wrong_worker_killed` | violation: one reset erases two workers |
| `closed_worker_stays` | violation: an orderly close between two messages is never noticed |
| `killed_program` | violation: a program killed by a signal counts as run, and the previous frame's file is saved for the next one |
| `blocked_send` | violation: a controller in `send()` to a proxy that is in `send()` to the same controller waits for ever |

The violations are listed with their sources under `findings` in `PROJECT.json`.

Bounds. Two direct workers are enough for every pair of roles that the loop
distinguishes: the worker whose entry is served and its neighbour in the vector,
the one that dies and the one that gets its frame. Two frames let one wait in the
deque while another is worked on, and let a worker do a second one (resets of
`m_state_index`, files of the frame before). Two `--in` copies and two `--out`
copies, with and without a frame number in either name, reach each branch of
`copy_file_in()` and `copy_file_out()`. `Proxied` bounds the connections to
proxies: when none is left `connect()` fails, as it does for want of descriptors.
Names of different copies are distinct files. The faults that go unnoticed have a run with one
worker, since what they do to a file does not depend on another worker; with two there would be
tens of millions of states. `CHECK_DEADLOCK` is off because
the program ends.

The framing has headers of two bytes, requests and responses shorter than, as long as
and longer than what a stream holds, and responses of the largest size accepted and of
one more; three exchanges reuse the buffer after a shorter and after a longer message.
The frame ranges have ints of four bits and longs of six, numbers around zero, at the
limits of int and beyond those of both, and lists of up to 17 frames, one more than
there are ints: a list that is longer repeats a frame.

The proxy has one worker for two controllers, one of them silent: each of them can come
first, wait, go while it waits, be joined, be closed with its partner, and leave its descriptor to
another within the same turn. The worker writes two chunks and a socket holds one, so buffers fill
and `send()` has to wait. The relay needs two pairs, one for each `send()`, and messages
larger than what the sockets and buffers on their way hold.

The command lines are all sequences of up to four of six kinds of arguments after
`controller`, of up to four groups of a flag with its values, up to three arguments of any
kind after every command, and each text over two alphabets as a name, an argument of
the program and an end point. Frame ranges are texts of up to four of "7", comma, dash and blank, and of
up to seven of "7" and comma, which have all the forms with one, two and three numbers. Frame numbers have one to three digits, widths up to 11, and with
ints of eight bits and longs of fourteen a port may be an int, be cut to another one or to a
negative one, or be clamped.

Fairness. `ControllerStep` is weakly fair: the controller is one thread that the
operating system schedules, and which blocks only in `poll()`. So are the steps of
each worker, a loop around blocking calls, and the delivery of a reset. A worker is
started once (`WorkerConnects`) if it is a direct one; nothing obliges a worker
to come to a proxy, so the first request on such a connection may lie there for
ever (`Served`). No fault is fair. In `Framing` the reads and writes of both ends are
fair while the connection is not broken, since `poll()` reports a socket that has room or bytes and
the blocking calls of the worker return when there are; in `Frames` one thread computes without waiting. The
proxy is one thread as well (`ProxyStep`; that `poll()` fails is not part of it). Nothing obliges
its peers to connect, to write, to read or to leave: a controller in `send()` does not read,
so `Delivered` and `Reaped` say what holds if everyone goes on reading (`EveryoneReads`), which
`blocked_send` shows not to be the case of a controller with two connections.
A peer that vanishes without a reset is noticed by nobody, as no socket has
keepalive; `NetworkLost` is a loss that is reported.
In `Relay` all processes run and connect, and the controller reads and sends whenever it
is not in a `send()`.

## Theorems

Each theorem is about the `Spec` of its component, for every value of the constants
that satisfies the assumptions named in the modules. TLC checked every invariant
below on the instance of a run before it was proved.

### The controller

For every set of workers and proxies, all copies and frames and any faults: the copies
and frames are sequences, no frame occurs twice, the markers `NoFile` and `Damaged` are not
frames, direct and proxied connections differ, and a `fork()` that may fail may also leave the
status of a failure (`FaultsAssumption`). The argument has two inductive invariants.

`IndInv` is about the controller's own data:

* `LoopInv`, closed by itself (`LoopInit`, `LoopStep`): `TypeOK`; `EntriesAligned`,
  which says for every entry still to be served that the vector has its worker at
  the entry's index; `LiveConnected`, that a worker in the vector has a connection,
  so that a new connection is never in the vector. `EntriesAligned` is needed for
  the types already: `kill_worker(index)` is a vector operation only because the
  index is within the vector. It gives `TypeCorrect` and `EntriesStayAligned`.
* `FrameHeldOnce`. `StepKinds` sorts the steps by what they do to deque, vector
  and `m_frame` (nothing, add a worker, kill one, hand out a frame); each kind keeps
  `Distinct`, the invariant index by index.
* `FrameProgress`, which says how far an object is with its frame: the copies before
  `m_state_index` are saved, and all of them when it is idle. It is what makes
  `NoFrameLost` inductive, since handing out the next frame forgets the last one.
* `NothingLeft` and `NoFrameLost`; together with `FrameProgress` they give
  `AllFramesSaved`.

`OnePendingPerProxy` has two parts, at most one waiting connection per proxy at any time
(`AtMostOnePending`) and one when the controller polls (`PendingWhenPolling`; between a kill
and the next turn there may be none). It is inductive over `LoopInv`: outside `connect` each proxy has one
connection in state UNCONNECTED, within it the proxies already passed have; no method makes
an object UNCONNECTED or changes `m_proxy_index`, and a killed one is made up for before the
next `poll()`.

`ControllerIsWorkQueue` follows from `IndInv` and `StepKinds`: a worker that is added changes
nothing that the queue has, a killed one gives its frame back, a frame that is handed out is
taken (`FrameProgress` says that what the worker held before is saved), and `NothingLeft`
with `FrameProgress` allow the end. `SavedQueue` shows that a step that saves a
file saves it for the frame of one worker; for that the local name of every `--out` copy made
after each frame must have a parameter (`NamesDiffer`), or one file counts for all frames.

`TalkInv` is about one conversation, between the object, its socket and its worker.
`Lockstep` counts messages, and is not inductive: a worker that answers does
not know what the controller waits for. `InStep` therefore says at which of a few points a
conversation is (`AtPoint`: at rest, the request unsent, sent, being handled, being answered, or
lost), each with everything that holds there, among it that the response has the type
that `m_state` insists on; `Fresh` is the case before there is a connection. `FilesInStep`
adds what the worker's files are: the inputs copied so far are those of the frame
(`CopiedIn`), files named for a frame hold nothing else (`NamedForFrame`), and a
response that reports success has brought about what was asked for (`Promised`), all that up to
files cut short where reads and writes may break off (`Partial`). Each
method of `RemoteWorker` and handler of `Worker` has a lemma (`DispatchTalks`,
`HandleTalks`), each step moves one conversation (`OneMoves`), and the others are as
before (`SameTalks`). It gives `Lockstep`, `InputsReady` and `NoAssertion`, and with
`SavedMatches` `OutputsMatchFrame`. The last one has a hypothesis, `StaleOutputTold`: no
program is killed by a signal and no `fork()` fails, or the remote name of each output has a
parameter if the local one does. Without it the property is false, as `killed_program` shows.
With it and without reads and writes that break off, `OutputsMatchFrame` and `AllFramesSaved` say
that every file is whole (`FilesCompleteAtReturn`); where they do, a return of 0 may come with files cut short.

### The framing

For all messages of any sizes, headers of at least one byte, any limit and any bound
of the streams; `Nothing` is not a message. `StaysWithinBuffer` needs, besides the types of
all buffers and streams, that `recv()` is asked for no more than `bytes_left` and that
the size is compared with the limit before the buffer is replaced (`ReceivedWithin`); the
size is any number, as a peer may send.

`WholeMessages` is the invariant of the rest. What the receiver has, what the
stream carries and what the sender has left, put together, is one message, or what follows its
size once that has been read (`RequestWhole`, `ResponseWhole`); and bytes of a request,
the request in the hands of the worker and bytes of its response follow upon each other
(`Turns`). Moving bytes from one part to the next keeps the whole (`Moved`, by
associativity); when the size or the message is complete, the first part is all of it
(`SizeComplete`, `MessageComplete`), so what is decoded is the message that was sent. A
controller that refuses a response for its size throws bytes away, and is exempt from
then on. `NothingGarbled` follows, and `ShortOnlyIfCutOff`: a
worker that finds the end of the stream within a request has lost the rest of it, which was on
its way or unsent when the controller ended or the connection broke. So does the implementation of
`Exchange` (`StepCarries`): every step of an end or a stream is one of the four
steps of the exchange, its end, or a stutter.

### Frame ranges

For texts of any length, ints and longs of any width with every int a long, and all numbers. `ReadSoFar` says
that the tokens before the place of `parse()` are numbers and commas by turns, and which
fields they gave; at the end that is the grammar (`AcceptsGrammar`). `ListedSoFar`
says that the list is the first frame and every step-th one after it, none beyond
the last, and that `frame` is the next one. For `RangeListed` three more facts are
needed: a number that an int holds is kept by clamping and cutting (`IntsKept`), so the
loop runs over the range that the text means; and as many multiples of the step fit between first
and last as the division says (`Steps`). `ListsNoFrameTwice` rests on `Ordered`: the
frames listed rise, or fall, and the next one is beyond all of them; it needs no bound on
the numbers, only that the step is not 0.

### The proxy

For all workers and controllers, any capacity of sockets and any number of chunks.
`NoProgrammerError` says that an entry that is served belongs to a connection, and the
entries may be as old as the turn. `ProxyInv` therefore says of the entries left that
each is of a listening socket, of an open descriptor or of one in `deleted_fds`
(`EventsKnown`), none twice (`EventsOnce`). Three things keep that true:

* The listening sockets come first (`ServersFirst`), so nothing is accepted in a turn after
  something was closed; a number in `deleted_fds` is not used again (`DeletedStayClosed`).
* Every open descriptor is a side of one connection and every side is open
  (`DescriptorsMatch`, `SidesDiffer`, `OpenIsSide`).
* A POLLOUT event is served at most once for a descriptor, and its buffer only grows before
  (`SomethingToSend`); a `send()` of nothing would be taken for the end.

`NobodyWaitsInVain` is not inductive by itself: a failed `accept()` leaves a connection
without any side, which a later peer would fill although another one waits for it.
`BlankLast` says that such connections come after all those that wait, so `find()` comes
to the one that waits first.

`PipesInv` adds what is known of the peers behind the descriptors. `OneSocket`: a peer is
accepted once, so what it said is in the buffer of one connection, and after `close()` in none.
`BuffersOwned`: a connection without its controller has nothing for its worker and the other
way round, so a peer that takes a seat starts with an empty buffer. `Unheard`: nothing has been
sent to a peer that was never joined. `HangupsTrue`: a POLLHUP that is served late is still true,
because a connection that hung up does not come back; so `close_connection()` is called for a
peer that has left.

From it follows `Piping`, that the proxy implements `Pipes`. The proof takes the vector and
the descriptors out of sight first: a row has the worker and the controller of a connection and its
two buffers (`Rows`), and what the mapping makes of the state is a function of the rows
and the sockets (`RowsMapped`). `accept()` replaces one row (`WorkerSeats`,
`ControllerSeats`), `close()` removes one (`CloseEffect`). Then each step is one of `Pipes`: what
a peer writes goes to the end of its outbox, or of its partner's inbox behind all that is in the
socket of the partner, in the buffer and in the peer's own socket (`WriteMapped`); `recv()` and `send()` move a
chunk within that sequence, which stays the same (`ReceiveMapped`, `SendMapped`); an `accept()` that
finds a partner joins the two (`JoinMapped`), one that fails is a peer that leaves, or is
forgotten; a `close()` parts a pair (`PartMapped`) or forgets a peer that was alone.

`poll()` reports the entries of all connections as a `FlattenSeq`, which the library
defines by recursion. Its recursion equation is proved from its definition, and what is used
of it by `SetInduction`, which takes a set and its least element (`Min`) in place of a predicate.

### The command line

For all sets of command lines whose arguments are words or texts, never both
(`CommandLinesAssumption`), and all frame numbers from 0 on. There is no bound on the number of
arguments or on the length of a text.

First come the functions on texts. Each is a recursive function of a position, and TLA+ defines
such a function by CHOOSE: that it satisfies its own equation has to be proved. `Recursion` does it
once, for every function that at a place either stops or goes on from a place of lower
rank, by taking the union of its approximations; it is stated for sets, as no theorem can take an
operator. Facts about all positions are then shown from the least counterexample.

* `FindParameter`: what `find_parameter()` returns is the first parameter of the text, and it
  returns nothing only if there is none. A failed match that has consumed digits cannot have
  stepped over the `%` of another parameter.
* `Substitution`: the parts before, in place of and after the first parameter; the rest is
  substituted by itself, and no parameter begins in front of the seam and ends behind it
  (`FindInRest`). Flattened piece by piece that is `Replaced` (`ReplacedAtOnce`, over `Pieces`
  and `FlattenPlain`).
* `NamesOfFrames`: numbers differ, so their digits do (`NumbersDiffer`), and padding only adds
  zeros in front. What follows cannot make up for it: no part of the later frame's text is
  shorter (`LaterFrame`), so texts that are equally long have first numbers that are, and those
  differ at some digit.
* `SubstitutedLocal`: digits are neither a slash nor a dot, and never fewer than one, so no two
  dots and no first slash appear.
* `ParseEndpoint`: a text has at most one of the meanings, and `parse_endpoint()` finds it or
  refuses, unless the port is no int (`PortTooLarge`).

Then the parsing. `ParsingInv` says that what is left is the end of what was given (`Left`),
that the names set so far are local, and that a program has what was left. It gives
`ProgramGetsRest`, and with the lemmas above the properties of names, arguments and end points.

`ReadsUsage` compares the loop, which decides flag by flag, with readings of the whole command line at
once (`Readings`): sets of positions of flags with their values between them, which cover all
up to the end. `ReadingInv` says that while the loop runs the flags it has taken are the
beginning of every reading (`Reads`), and that the copies are theirs (`CopiesAt`). If the next argument
fits (`FitsAt`), every reading has it as its next flag (`ReadingGoesOn`): a reading cannot end
at something that looks like a flag (`FlagGoesOn`), and cannot pass over it, since then it
would be the value of an earlier one. If it does not fit, there is no
reading but the one that ends here (`NoFlagEnds`), and the rest decides (`EndDecided`). So
there is never more than one reading, although usage() does not say so. That one more flag adds
its copy at the end, in whatever order the flags are looked at, is `OneMoreCopy`. TLC checked
`ParsingInv` and `ReadingInv` on the command lines of `command_line` with texts of up to three
characters before they were proved.

### The theorems

| theorem | states |
|---|---|
| `ControllerProofs!TypeCorrect` | `Spec => []TypeOK` |
| `EntriesStayAligned` | `Spec => []ServedFdAligned` |
| `AlwaysOnePending` | `Spec => []OnePendingPerProxy` |
| `FramesHeldOnce` | `Spec => []FrameHeldOnce` |
| `IndInvHolds` | `Spec => []IndInv` |
| `FramesNotLost` | `Spec => []NoFrameLost` |
| `AllSavedAtReturn` | `Spec => []AllFramesSaved` |
| `ControllerIsWorkQueue` | `Spec => ActsAsWorkQueue`, if the output files have the frame in their names |
| `ConversationInvariant` | `Spec => []TalkInv` |
| `AlwaysLockstep` | `Spec => []Lockstep` |
| `InputsAlwaysReady` | `Spec => []InputsReady` |
| `NeverAnAssertion` | `Spec => []NoAssertion` |
| `OutputsAlwaysMatch` | `Spec => []OutputsMatchFrame`, if an old output does not pass for a new one (`StaleOutputTold`) |
| `FilesCompleteAtReturn` | `Spec => []FilesComplete`, if `StaleOutputTold` and no read or write breaks off |
| `FramingProofs!TypeCorrect` | `Spec => []TypeOK` of `Framing` |
| `StaysWithinBuffer` | `Spec => []WithinBuffer` |
| `AlwaysWholeMessages` | `Spec => []WholeMessages` |
| `NeverGarbled` | `Spec => []NothingGarbled` |
| `ShortOnlyWhenCutOff` | `Spec => []ShortOnlyIfCutOff` |
| `FramingCarriesMessages` | `Spec => CarriesMessages`, the implementation of `Exchange` |
| `AlwaysAcceptsGrammar` | `Spec => []AcceptsGrammar` |
| `AlwaysRangeListed` | `Spec => []RangeListed` |
| `ListsNoFrameTwice` | `Spec => []NoFrameTwice` |
| `ProxyProofs!TypeCorrect` | `Spec => []TypeOK` of `Proxy` |
| `ProxyInvariant` | `Spec => []ProxyInv` |
| `NeverProgrammerError` | `Spec => []NoProgrammerError` |
| `DescriptorsAlwaysMatch` | `Spec => []DescriptorsMatch` |
| `NobodyEverWaitsInVain` | `Spec => []NobodyWaitsInVain` |
| `DeletedAlwaysStayClosed` | `Spec => []DeletedStayClosed` |
| `PipesInvariant` | `Spec => []PipesInv` |
| `Piping` | `Spec => ActsAsPipes`, the implementation of `Pipes` |
| `Parsing` | `Spec => []ParsingInv` |
| `UsageRead` | `Spec => []ReadsUsage` |
| `RestOfCommandLine` | `Spec => []ProgramGetsRest` |
| `NamesStayLocal` | `Spec => []RemoteStaysLocal` |
| `FramesNamed` | `Spec => []FramesHaveNames` |
| `ArgumentsReplaced` | `Spec => []ReplacesParameters` |
| `EndpointsRead` | `Spec => []EndpointForms` |

Only model-checked: `Termination`, `ResetWorkerReaped`, `RequestsAnswered`, `GetAllReturns`,
`Delivered` and `Reaped`. They are liveness, and everything about ENABLED is out of the
prover's reach. `ProgramGetsRest` is proved and has no run.

## Known divergences that no run shows

They follow from a line or two of code, so a model would only repeat it.

* `m_frame` stays set when a frame is finished (`RemoteWorker.hpp:59` says "-1 for
  none"). An idle worker that dies therefore puts a finished frame back, which is then
  rendered again; `FrameHeldOnce` and `NoFrameLost` hold nevertheless.
* With a proxy the loop never ends: the connection that waits for the next worker is not
  idle, so `any_worker_working()` stays true when there is neither a frame to be done nor a worker
  working on one (`controller.cpp:78`).
* A read or write that breaks off after the open counts as done (`util.cpp:172` and `183`), at the
  worker and at the controller, so a return of 0 may come with files cut short, although
  `RemoteWorker.cpp:194` means to end the batch. `unnoticed` has the fault and shows that no file is
  that of another frame; `FilesComplete` is about runs without it.
* `--out` copies without a frame number are never made: `RemoteWorker.cpp:110` has the
  states but nothing enters them, while `README.md:105` of the repository promises them.
* `%0d` and `%00d` count as parameters of the width 0 (`util.cpp:107`), although `N` is to be "a
  positive integer" (`util.cpp:84`, `README.md:94` of the repository). `IsParameter` is what the code takes
  for one, so `ReplacesParameters` passes over the difference.
* A failed `accept()` goes unnoticed in the controller too (`controller.cpp:142`): the
  `RemoteWorker` on descriptor -1 is never idle, so the loop never ends. `direct` has the
  fault and shows that no frame is lost with it.
* A worker that leaves while it waits at a proxy and a controller that is then joined with it
  are closed together; the controller, whose connection ends before a response, does not
  notice (`closed_worker_stays`).
* A peer of the proxy that is gone when the proxy sends to it ends the proxy
  (`proxy.cpp:402`, or SIGPIPE), with all other pairs.
* Frames that begin with a negative number are taken for a flag (`Parameters.cpp:47`), although
  `Frames` accepts them.
* The message for `--controller-listen` names the other flag (`Parameters.cpp:190`).
* Negative frames are not substituted (`util.cpp:132`) and count as "no frame"
  (`RemoteWorker.cpp:138`), so their files are not copied.
* A step of 0 never ends, and a number that an int does not hold becomes another one.
* "Shouldn't happen, we specify MSG_WAITALL" (`util.cpp:48`) happens whenever the other
  end closes, or the connection breaks, in the middle of a message; `ShortOnlyIfCutOff` says
  that nothing else makes it happen.
* A controller without free descriptors is told of the waiting connection again by
  every `poll()`, and a proxy buffers without a limit what its other end does not take.

## What is left

Every part of the program that keeps state is modelled, and every safety property and both
kinds of refinement that the runs check are proved. What could follow:

* Liveness for all instances: `Termination`, `RequestsAnswered`, `GetAllReturns`, `Delivered`
  and `Reaped` need ENABLED, `ResetWorkerReaped` fairness.
* `Relay` adds to `Proxy` what a controller does; that its steps are steps of `Proxy` is
  not a theorem.
* `Framing` and `Controller` meet in `Exchange` and in the README only: that the two parts in
  which `Controller` receives a response are what `Exchange` promises is not a theorem.

## Not modelled

* Name lookup and the setting up of sockets: they run once, before the first connection, and
  either succeed or end the program. The text of `usage()` and the dispatch in `main()`.
* Controllers and workers with their full protocol behind a proxy: `Controller` has the
  proxy as part of a connection, `Proxy` has peers that write what they like, and the two meet in
  the byte streams of `Pipes`.
* Contents of files, wording of messages, the progress report on the terminal.
* The test for executable files in the worker: a refusal is one of the outcomes of the handlers
  (`error`). Texts with a zero byte, and parameters whose width an int does not hold.
* Threads: there are none; the only concurrency is between processes.
