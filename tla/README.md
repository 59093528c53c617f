# Twebs in TLA+

TLA+ specifications of the two web servers of this repository, TLC configurations
that check them on small instances, and proofs for TLAPS that the core invariants hold for
every value of the constants. All paths below are relative to the repository's root (`src/`).

The repository has two independent programs:

* **twebs** (`http_main.c`, `wrap.c`, ...): one process accepts, one child process per
  connection reads a request and answers it with a file, a directory listing or the output
  of a CGI program;
* **ss** (`ss/`): an event loop on `epoll` reads requests, a pool of threads parses them,
  the event loop writes the responses.

## 1. Inventory

| Component | Source | State | Operations | Module |
|---|---|---|---|---|
| ss: thread pool | `ss/thread_pool.hpp`, `ss/locker.hpp` | the queue, its mutex and semaphore, `stop_`, each thread's position | constructor, `Append`, `Run`, destructor | `ThreadPool`, `TaskQueue` |
| ss: connection | `ss/http_conn.cpp` | `read_buf_` and its three indices, `write_buf_`, the registration in epoll | `Init`, `Read`, `Process` (`ParseLine`, `ProcessRead`, `ProcessWrite`), `Write`, `CloseConn` | `HttpConn`, `Connection` |
| ss: event loop | `ss/main.cpp` | `users[]`, `user_count_`, the batch of events, epoll's registrations, the backlog | `epoll_wait`, accept, hang-up, input, output | `EpollServer`, `Connection` |
| ss: process pool (a second server) | `ss/ww/process_pool.hpp`, `ss/ww/cgi_server.cpp` | `sub_process_`, `stop_`, the round-robin counter, the signal pipe, the children | constructor, `SetupSigPipe`, `SigHandler`, `ProcessNewConnInParent`, `ProcessSigInParent`, `RunParent` | `ProcessPool` |
| twebs: accept loop | `http_main.c` 24-83, `secure_access.c`, `parse_config.c` | children, zombies, SIGCHLD, descriptors | `Accept`, `access_ornot`, the refusal, `Fork`, `Close`, `sig_chld_handler` | `Twebs` |
| twebs: requests | `http_main.c` 88-409 | one request of one child, its helper process, pipe and CGI program | `doit`, `parse_uri`, `get_requesthdrs`, `post_requesthdrs`, `serve_static`, `serve_dir`, `get_dynamic`, `post_dynamic`, `client_error` | `Doit` |
| twebs: Rio | `wrap.c` 454-646 | `rio_t`: descriptor, buffer, count, position | `rio_writen`, `rio_read`, `rio_readnb`, `rio_readlineb` | `Rio`, `ByteReader` |
| twebs: access control | `secure_access.c` | none; reads `config.ini` | `access_ornot`, `ipadd_to_longlong` | `Control`; its outcome and its open files in `Twebs` |
| twebs: start, configuration, options, pid file | `http_main.c` 24-60, 411-423, `parse_option.c`, `parse_config.c`, `wrap.c` | `config.ini`, `pid.file`, the port, the processes | `parse_option`, `Getconfig`, `initlog`, `Daemon`, `write_pid`, `Open_listenfd` | `Control` |
| twebs: control script | `webserver.sh` | none of its own | start, stop, restart | `Control` |

Interactions of twebs. The accept loop and its children share nothing but descriptors: the
connection is open in both until the server closes its copy. Children report with SIGCHLD, which
interrupts the loop anywhere. Inside a child, all input goes through one `rio_t`; for a POST the
process that reads the body is forked with a copy of it and hands the body over through a pipe.

Starts and scripts meet only in what all can see: the list of processes, the port, `pid.file` and
`config.ini`, which a running server reads again for every connection. Nothing locks any of them.

Interactions of the process pool. The parent tells a child of a connection by a message on
the child's pipe and learns of the child's end by SIGCHLD, whose handler writes a byte to
the parent's own signal pipe, which its epoll reports on the next turn.

Interactions of ss. The event loop owns a connection from `epoll_wait` until it hands the
pointer to the pool (`Append`, a FIFO of `HttpConn*` behind a mutex and a semaphore); a worker owns
it from `Run` until `Process` has called `ModFD`, which gives it back to epoll
(`EPOLLONESHOT`). Nothing else protects an `HttpConn`. `users[]` is indexed by descriptor, so
its entries are reused whenever the kernel reuses a number.

What is hard to test in it, each at its line, is listed under "hazards" in `PROJECT.json`.

## 2. Modules

**`TaskQueue`** is the abstract pool: a FIFO of at most `Limit` requests and workers that
take, run and finish them. It is what the rest of ss needs to know of the pool.

**`ThreadPool`** has one action per statement that another thread can tell apart: lock,
test, push, unlock, post in `Append`; test, wait, lock, take, unlock, `Process` in `Run`; a turn
of the constructor's loop; the destructor. `mainPc` and `workerPc` are the program counters.
`CreateMayFail` lets `pthread_create` or `pthread_detach` fail at any turn.
`ImplementsTaskQueue` is the refinement (`queue <- workQueue`, `running <- current`).

**`HttpConn`** is one connection with its peer. Bytes are symbols: CR, LF, NUL, blank and words
that stand for the texts the parser compares with. The peer sends a stream cut anywhere, leaves or
resets; `recv` and `writev` return short counts and EAGAIN. `phase` tells who has the
connection: epoll, `Read`, the worker before and after its parse, `Write`. `ParseLine` is the scan
from `checked_idx_`; `ParseRequestLine` returns the code's result, including the comparison
of a null `version_`, which ends the process. `check_state_` never leaves
`CHECK_STATE_REQUESTLINE` (no statement of the source assigns `CHECK_STATE_HEADER`), so
`ParseHeaders`, `ParseContent`, `DoRequest` and the answers they lead to are unreachable and are
not modelled.

**`Connection`** is the life of a connection as the event loop and the object agree on it: who has
it (`place`) and whether the bytes read so far hold a complete line (`line`). The worker answers
exactly when one is complete and is the only one that may not close; a closed place starts empty.
Both `HttpConn`, byte by byte, and each descriptor of `EpollServer` implement it
(`ImplementsConnection` in both). That is what lets `EpollServer` take whole handlers as steps and lines as
segments: what it assumes of an object, the object does.

**`EpollServer`** composes the event loop, all connections and the pool (an instance of
`TaskQueue`, which `ThreadPool` implements). One action per branch of the loop in
`main.cpp` 91-135. A connection is reduced to what the composition depends on: how many of its
segments were read and whether they hold a complete line; the buffer has room for `ReadLimit` segments. `EpollWait` takes a batch (`pending`,
`listening`) that is then handled in any order, which covers every order of the `events[]` array.

**`ByteReader`** is what the callers of Rio rely on: a stream of which every call takes the
next line or the next `n` bytes in one step. **`Rio`** is the code: one action per system call and
one per byte that `rio_readlineb` copies, with `rio_cnt`, `rio_bufptr` and `rio_buf`
(`rioCnt`, `rioPtr`, `rioBuf`), reads and writes cut short, interrupted, failing, or at the end of
the stream. `rioCnt` is -1 after an interrupted read, as in the code. `ImplementsByteReader` is
the refinement; a call of Rio is a stutter of `ByteReader` until it returns. The odd results of the
code (a value one larger than what was stored, a caller's buffer left alone at the end of the
stream) are in both: `doit` depends on the second.

**`Twebs`** is the server process with all its connections: `pc` is the place in the loop of `main`,
`held` the connections whose descriptor the server has open, `configs` the files that `Getconfig`
has opened. `rule` is what `access_ornot` finds in `config.ini`, which may be edited at any time: a text that is
missing, has no `mask` or a mask that it cannot take apart ends the server at its next connection. `cause` is
the failed call that ended the server. Signals are a bit (`pending`): those of children that end together merge, as standard
signals do. A child is reduced to when it ends; `Doit` shows both ways.

**`Doit`** is one child. `pc` names the place in `doit` and the functions it calls;
`helper` and `grand` are its children; `pipe` and `writers` the pipe and who has its writing end
open. A request is a sequence of items (request line, header, Content-Length, empty line, cut line,
byte of the body) that arrives in any portions; `st` is what `lstat` found, and `FileChange`
replaces, cuts, creates, removes or chmods the file afterwards. The owner's bits that the code reads from `st` decide
where the code goes, not what `open`, `mmap` and `execve` do: these may fail whatever `lstat` found. `write` may send a
part of a mapped file that was cut and then fail (`Partly`). `why` is the reason of the child's end. What uninitialized buffers
(`uri`, `method`, `temp_cwd`) hold is a free choice.

**`ProcessPool`** is the parent of `ss/ww` with its children. A batch of epoll events is handled in any
order, and the bytes of the signal pipe in theirs; between any two steps of the parent children
end, signals are delivered, merged or, before `SetupSigPipe` has installed the handlers, discarded, and clients
connect. `Reap` and `AllReaped` are the turns and the end of the `waitpid` loop. A child is
reduced to when it ends, since its loop `while (stop_)` is never entered and none of its handlers
runs. `given` counts notices and `strays` what `kill` was called for: they are there for
the properties only.

**`Control`** is everything around a running server. `pc` is the place of each process: in `main`
up to the loop, serving, in a child or CGI program, or over; `holds` the port whose listening socket the process has open, which children and CGI
programs inherit. Opening the pid file, forking, binding and serving may fail at any time. `Text`s of `config.ini`
are sequences of key and value, of which the first line with the key counts; command lines are
sequences of options, of which the last value counts; addresses are packed into one number
as in the code. `webserver.sh` looks (`ps`), and then acts: `CheckStart`
and `ScriptLaunch`, `CheckStop` and `Skill`, and each signal of `skill`, are separate steps between which
anything may happen. `is_daemon`, which `main` never initializes, is a free choice without `-d`;
so is the mode of `pid.file`, which `open` creates without one. `heard` is for a property only.

Composition. `Control` takes a connection in one step, which `Twebs` details, and its children
are those of `Doit`. `Twebs` uses of a child what `Doit` shows (`Ends`, and the loop of `spin`); `Doit`
uses of Rio what `ByteReader` promises: a line or a byte in one step, nothing at the end of the
stream.

`MC*` modules give the constants that are sets of sequences; `*Proofs` modules hold the
theorems. Definitions whose comment starts with `[mutant]` are wrong versions of the definition
next to them: they show that each property can fail (see `PROJECT.json`, "mutants").

## 3. Runs

| Run | Instance | What it shows |
|---|---|---|
| `pool` | 2 threads, bound 2, 3 requests, thread creation may fail | semaphore and queue agree, refinement of the bounded FIFO, `Append` returns, accepted requests run |
| `conn` | read buffer of 8 symbols, 349 streams | the parse depends only on the bytes and not on how they were cut; a peer that waits is hung up on only with a reason; a peer whose line was read gets at least half of an answer, unless its bytes fill the buffer, and never waits for ever; a peer that left is closed; the refinement of `Connection` |
| `server_safety` | 3 clients, 1 worker, 3 descriptors, queue of 2 (`max_requests` 1), backlog of 1, lines in two parts that fill the buffer | one owner per connection, no stale descriptor, none lost but those the queue refused, exact count; each descriptor refines `Connection`, for which an entry of `users[]` must be fresh |
| `server_live` | 2 clients, 2 descriptors, backlog of 2, lines in parts, more segments than the buffer takes, the line that ends the process | clients that left are closed, lines are served, the backlog is served while clients keep connecting |
| `rio` | `rio_buf` of 2 bytes, 17 streams of up to 5, line buffers of 1, 3 and 4 bytes, counts of 0 and 3, writes of up to 3 bytes | the stream is handed on without loss, doubling or reordering; buffers are kept; the refinement of `ByteReader`; calls end when the connection does |
| `twebs` | 3 connections, 4 descriptors above those in use, 2 processes, backlog of 2 | every run of the handler finds a child; what the server has open; what it can end of; served clients see their connection closed; the backlog is served |
| `doit` | 3 URIs, 2 methods, 9 shapes of requests (and two without a URI), 7 file systems, one change of the file | one answer, as long as announced or cut short with a file that was cut; the body reaches the program; a reason for each end, which the answer shows; no process waits for ever |
| `procpool` | 3 children, 4 connections, 1 SIGTERM or SIGINT, failing asserts | the table of children agrees with the kernel; no end is forgotten; notices are spread evenly; kill reaches own children only; the parent stops last, and does stop |
| `control` | 4 processes, 2 command lines and one script, 2 texts of `config.ini` and one edit, octets of 2 bits | the pid file names a process that goes on; the access rule means what its comment says; stop reaches every server that listened; one server at a time on a port, and none beside what an older one left running |
| `conn_write_doc` | one correct request line | expected violation |
| `server_overrun_doc` | `MaxFd` 7, descriptors from 5 | expected violation |
| `control_pid_doc` | as `control` | expected violation |

Why the bounds are enough. *pool*: with 2 threads and 3 requests the queue overflows its bound,
both threads contend for the mutex, and a token can be in flight while another is posted; more
threads add only symmetric copies, and the proofs cover every number. *conn*: 8 symbols let a line
end before, at and after the end of the buffer, be cut between CR and LF, and be followed by
a second line; the streams are all sequences of up to 4 of the symbols that the
parser tells apart and longer ones for the remaining paths. *server*: three clients
and a queue that refuses the third show reuse of a descriptor while an old
worker is still returning and a refused request; `server_live` has two arrivals behind one report of
`listenfd`, and a third segment for buffers of two.
*rio*: a buffer of 2 is filled, emptied and refilled inside one line, and lines end before, at and after the end of both
buffers. *twebs*: with 4 descriptors left, served and refused clients use them up in every
order; 2 processes let zombies, which merged signals leave behind, reach the limit. *doit*:
bodies that are shorter than, as long as and longer than Content-Length (2), headers cut in every
place, and one change to the file at every point; a second change only repeats the first, and the
proofs cover any number. *procpool*: three slots let the first, the middle and the last be freed before,
at and behind the round-robin counter, and two SIGCHLDs merge while a third child lives;
four notices go once round and on; the second SIGTERM repeats the first. `CHECK_DEADLOCK` is off:
the parent ends, or waits for ever for children that ended before it had its handler.
*control*: four processes are two starts that both leave a launcher behind, or a server
with a child and its CGI program and a start against them; the script meets each of them in
every step. One text has two lines for one key and a rule of three octets; the other lacks a key, and its rule
ends the server. One script: a second one adds only another killer, and `StopReachesServer` is
proved for any number. `CHECK_DEADLOCK` is off: everybody may have ended. In `control` process
numbers are used up, so a start is made only if each process on the way finds one.

Fairness. Every thread that can run is run (weak fairness per thread). A worker's lock gets
strong fairness, because the main thread can take and release the mutex for ever. `Write` gets
strong fairness of its completing branch: a client that reads does not keep the socket full for
ever; the clients in `HttpConn` drain their buffer. Nothing is assumed about clients sending or
leaving. `BacklogIsServed` alone assumes clients that keep connecting, as an antecedent: the loop
accepts one connection per edge of `listenfd`, so the last of a burst waits for the
next arrival; without that assumption it may wait for ever. *Rio*: a caller that is in a
call goes on, and an interrupted system call is not interrupted for ever. *Twebs*: the loop, signal
delivery, the handler and the children run; a child whose client has sent its request ends. *Doit*:
the three processes run, and CGI programs end. *ProcessPool*: the parent and the handlers run and
every child ends, as a child does that never enters its loop. *Control* has no liveness property and
needs no fairness: a start may always fail. In all of them nothing is assumed about what clients
send or when they leave; a client takes what is written to it.

## 4. Proofs

The theorems hold for every value of the constants that satisfies the named assumptions
(`ConstantsAssumption`, `SizesAssumption`, `ResponseFits`, `ServerAssumption`, `RioAssumption`,
`TwebsAssumption`, `DoitAssumption`, `PoolAssumption`, `ControlAssumption`, `AddressAssumption`; TLC evaluates each). In each module `IInv` is the inductive
invariant and `Invariance` is `Spec => []IInv`; the others follow from it. The conjuncts of
`IInv` that the runs do not name only serve the induction.

* `ThreadPoolProofs`: `SemMatchesQueue` (queue length = semaphore + tokens held by workers + a
  push not yet posted) is the heart: it needs the program counters and `MutexOwner`. From it, no worker
  finds the queue empty. `Refinement` maps every step to a step of `TaskQueue` or a stutter.
* `HttpConnProofs`: `UnscannedIntact` (what lies between `checked_idx_` and `read_idx_` is what the
  peer sent) and `LineBounds` (nothing before `checked_idx_` is an end of line still to be
  found) support each other; `HangUpHasReason` needs `ResponseFits`. `SegmentationIndependence` needs
  `IInv` and `Unparsed` (while no line was taken, the buffer holds the bytes that came). The
  argument is two lemmas: `LineIs`, that the incremental scan from `checked_idx_` and the reference's scan
  of the whole prefix stop at the same byte, and `CodeIs`, that `ParseRequestLine` finds no line good, for any line:
  what it compares with `HTTP/1.1` begins with the blank it stopped at. From the same follows
  `NoRequestAccepted`, an action property: a worker that takes a complete line answers 400 or does not
  come back. `LivesConnection` is the refinement: `PlaceIs` and `PlaceWillBe` give the place before and
  after each action, `VerdictIsFinal` (more bytes do not change what a complete line is) the line.
* `EpollServerProofs`: `Exclusive` is inductive only together with `NoneStaleNoneLost` (to be
  in a place is to be open), `ClientsMatch` and `InHand`. `EveryConnectionLives` shows for each descriptor that a
  step of any client, worker or the loop is a step of its `Connection` or leaves it alone
  (`StaysPut`); it needs that scripts stay (`Scripted`) and that the first complete segment is the
  first of every longer prefix (`LeastSegment`, `LineInIsFinal`). `OnlyLinesAreAnswered` is
  proved from it: in `Connection`, only `Process` of a complete line leads to EPOLLOUT. `RefusedIsLost` is an action property: the price of
  the ignored answer of `Append` (`main.cpp` 120) is the connection, its descriptor and its count, for good.
* `RioProofs`: `StreamIntact` ties the three places a byte can be in (caller, `rio_buf`, socket) to
  one position in the stream and is inductive with the types; `CallInBounds` says in addition
  that the part of a line that was copied has no end of line, which is what `Refinement` needs to map the
  last byte of a call to `ReturnLine` or `ReturnPart`.
* `TwebsProofs`: `DescriptorAccount` counts descriptors per connection, with `Fresh` (a connection
  is in one place only); `SignalMeansZombie` bounds signals by zombies. `Lifetime` follows from the
  account: the descriptors in use at the start, plus one per served and two per refused client,
  never exceed `NoFile`, so the server's life is bounded by its limit on descriptors. `EndHasCause` follows
  with it: an end for want of descriptors needs that many served and refused clients. `NoFile` and `MaxProc` are the limits of
  this process; that the system's own tables and memory suffice is an assumption of the model.
* `DoitProofs`: three strengthenings, one for each concern. `Progress` says how much of
  the answer was written at each place (for `OneAnswer`, and for `AnswerFits`, the part of `EndHasReason` that ties
  what the client got to the reason of the end), `Scan` what the header loops
  have passed (for the end without an empty line, and for where the body starts), `Handover` how far the body is on
  its way through helper and pipe (for `BodyIntact`). Each is shown to be kept action by action.

* `ProcessPoolProofs`: `SlotMatchesChild` makes `Reap` free exactly the slot of the child it
  reaped. `Told` and `Reported` follow an end from the signal through the pipe to the batch, which gives
  `NoChildForgotten`. `Balanced` needs what the search for a live slot returns (`Search`, by the
  well-founded order of the slots): no live slot is between the counter and it.
* `ControlProofs`: `Made` (pids are used in order, and only what was made is killed) gives that a
  new process is no one known before. `Kept` is what no step of a process undoes; with it `Reached`,
  what has become of the servers a script heard, is kept by all others while the script
  goes through its steps. `OneServer` needs `Holding`: exactly servers, children and CGI programs have a listening socket
  open, so a process that comes to `Bind` has none; with pids in order an heir is younger than its server. `AccessIsByNetwork` needs no state but a proof that `&` on the packed addresses is
  `&` on each octet. `And` is a recursive function, which is defined by a CHOOSE: `AndIs` first shows that there is
  a function that obeys the definition, by approximations, which exist for every `n` since a
  least `n` without one (`LeastNatural`) cannot be. Then `BlockDoubles` carries "`&` of `O * a + x` and `O * b + y` is
  that of the parts" from `O` to `2 * O`, hence to 256; `JoinIsOneToOne` says that the sum of
  `ipadd_to_longlong` does not mix octets; `BitsOfAnd` and `OctetIsItsBits` translate to the bits of the
  comment. `AddressAssumption` is that an octet is some whole bits, at most 8, that clients have four, and
  that `config.ini` has no other numbers in its rule.

Types (`TypeOK`) are proved in every module and need no run; so are `LineBounds`, `UnscannedIntact`, `NoForeignData`, `BoundedQueue` (for
`QueueBound`), `NoEmptyTake` (`TokenMeansRequest`) and `AcceptFindsConnection` (`EdgeMeansConnection`).

Every invariant and refinement that the runs check is proved. Only model-checked is liveness
(`AppendReturns`, `AcceptedRuns`, `LineIsAnswered`, `GonePeerIsClosed`, `GoneIsClosed`, `LineIsServed`,
both `BacklogIsServed`, `CallReturns`, `ServedIsClosed`, `Ends`, `ParentEnds`), which is
outside the prover's reach, as ENABLED is. Induction with the library's theorems, which take an operator,
is out of its reach too: where `And` needs it, a least counterexample takes its place.

## 5. Not modelled

* `ParseHeaders`, `ParseContent`, `DoRequest` and the answers 200, 403, 404 and 500 of ss: unreachable,
  as no statement sets `CHECK_STATE_HEADER`.
* `CondLocker` (`ss/locker.hpp`) and `rio_readn`: called by nothing.
* Formatting: pages, heads, log lines, and header lines longer than their buffers. In `Doit`, a Content-Length above
  `MAXLINE` or below 0, with which `Rio_readnb` writes beyond `data` (`http_main.c` 278): what follows is undefined.
* What CGI programs print; that they end is assumed in `FairSpec` of `Doit`.
* The children of the process pool: `ProcessNewConnInChild`, `ProcessSigInChild`, `CoreRunChild` and
  `CgiConn` (`ss/ww/cgi_server.cpp`, of which `ss/cgi-bin/cgi_server.cpp` is a copy): unreachable, as
  `RunChild` enters its loop only when `stop_` is set.
* The log (`writetime`, `writelog`): output that nothing reads back. `init_daemon`: called by nothing.
* In `Control`: the characters of `config.ini`; a rule without a slash or without text,
  which `access_ornot` reads past its end; a missing `config.ini` (the same end as a missing key);
  files changed by hand; the `status` of `webserver.sh`, which changes nothing.
* `ss/wrap.cpp`: linked into no program. `https_main` and `doc/dir/*.c`: older sources, with TLS,
  that no Makefile builds.

## 6. Where the code and its documents disagree

Each run whose name ends in `_doc` checks one property that a document, comment or usage text states,
and TLC finds it violated; quotations are in `PROJECT.json`, "findings".

* `conn_write_doc`: a response is taken for sent once half of it is.
* `server_overrun_doc`: `users[connfd]` is reached with `connfd = max_fd`: the check counts users.
* `control_pid_doc`: `pid.file` names another process while a server runs, since a start writes its pid before it
  knows whether it gets the port.

Found while modelling, and shown by the exact form of a property that holds: every request line is BAD_REQUEST, because
the version is compared from the blank before it (`SegmentationIndependence`, and the theorem `NoRequestAccepted`); the queue admits
`max_requests + 1` (`TaskQueue`, `QueueBound`); `Read` gives up when the buffer is full (`HangUpHasReason`);
error pages are cut to the length of their head (`Doit`, `ErrorBody`); every connection leaves a
`config.ini` open (`DescriptorAccount`); a stream that ends inside the headers leaves a child that
loops for ever (`EndHasReason`, `Ends`); a child that ends before the parent of the process pool has its
handler is not noticed by itself (`missed` in `NoChildForgotten`, the antecedent of `ParentEnds`);
`pid.file` keeps the pid of a process that is gone (`PidIsFinal`); an edit of `config.ini` that takes its
`mask` away ends the server at its next connection (`EndHasCause`).

Found while modelling, and part of the models as the code is: `main.cpp` builds its pool with the
default of 0 threads, which the constructor refuses; programs in `cgi-bin` are looked up as files,
since the code looks for the text `cig-bin`; a child of the process pool never enters its loop, so that nothing
accepts; `-s` and `-e` are unknown options, since `-DHTTPS` is given to the link only; a mask
with fewer than four parts, which the code means to fill up, ends the server at its next connection
(`Crashes`); `webserver.sh` says that twebs is running whatever its start did.

## 7. Plan

Done: 1. pool, connection, event loop of ss and their proofs; 2. Rio, the accept loop and the
children of twebs and their proofs; 3. the process pool; 4. starts, configuration, access rule and
control script, with their proofs; 5. the life of a connection (`Connection`) with its two refinements, and the proof of the
access rule.

Left, for proofs rather than models: `Twebs`'s child as an abstraction of `Doit`, as `Connection` is one of
`HttpConn`.
