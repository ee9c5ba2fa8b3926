# xping (async-ping): specifications, model checking and proofs

xping is an HTTP server that pings. A client posts a JSON object with a list of
servers to `/net/ping`; the server sends one ICMP echo request to each of them
from a raw socket and, when every ping has ended with a reply, a timeout or a
send error, answers with one verdict per server. This directory holds TLA+
modules that model the program in `src/src`, TLC runs that check them on small
instances, and TLAPS proofs for every value of the constants.

## The system

Three threads, each a libevent loop, and nothing shared but queues, pipes and
the memory of `Task` objects that travel through the queues by address:

    clients --HTTP--> HTTP thread --taskQueue + pipe--> task worker --ICMP--> hosts
                           ^                                 |
                           +------ responseQueue + pipe -----+
                (both) --logQueue + pipe--> logger thread --> xping.log

| component | source | state | operations |
|---|---|---|---|
| HTTP thread | `HttpServer`, `HttpHandler`, `HttpResponse` | `doingRequest` (task to request), `responseQueue`, its pipe | `handlePingReq`, `sendToWorker`, `notify`, `tryRespEventHandler` |
| Task worker | `TaskWorker` | `taskQueue`, its pipe, `doingMap` (timestamp to task), `doingCount` | `notifyEventHandler`, `doTask`, `onComplete`, `sendToMaster`, `socketReadHandler`, `onReceive` |
| Tasks and pings | `Task`, `Ping` | counts, timestamp, error, status and timer of each ping | constructors, `isComplete`, `Ping::start`, `Ping::handleTimeout`, `buildResponse` |
| Queues | `common/CommonList.h` | a doubly linked list under a spin lock | `pushHead`, `popTail` |
| Logger | `Log` | `logQueue`, its pipe, the file | `log`, `logEventHandler` |
| Thread wrapper, start-up | `ThreadWorker`, `Main.cpp`, the `init` functions | `end`, `threadInst`, pipes, event bases | `runIt`, `join`, destructors, the order of `main` |
| ICMP packets | `IcmpPacket.h`, `Ping::start`, `socketReadHandler` | a buffer | constructors, `calcCheckSum`, the casts of the receiver |
| JSON | `JsonValue`, vendored `depend/json` | a tree of values; the reader's stack of pointers and its comments | `parse`, `toString`, `toFormatString`, `operator<<`, the conversions |

What is hard here: a task is named by its address, which `new` reuses, and by a
wall clock timestamp, which may repeat; a ping has four possible ends that race
one another; the worker may complete a task, and so give it away, in the middle
of the loop that starts its pings; a queue and the pipe that announces it are
changed in two steps by two producers; a full pipe would stop both threads; the
threads are started, joined and deleted without being told of each other's
failures; and the JSON reader keeps raw pointers into a tree that it rebuilds.
`PROJECT.json` lists these hazards with their lines.

What makes each component correct:

* HTTP thread: each request is answered at most once, with its own task's
  result; neither "impossible" branch of the code is taken.
* Task worker: each ping is counted once, each task completes once, `doingMap`
  and `doingCount` are exactly the tasks in its hands, no timer outlives its task,
  a reply reaches the task and the ping it answers.
* Request parsing: each request becomes a task with its first fault's code, or
  one with all its pings set up, and the handler comes to an end.
* Queues and pipes: as many bytes as tasks; a thread that waits in `write` gets on,
  or is in a cycle of waits that is known; the linked list is an atomic queue to
  its users and neither leaks nor reuses a node.
* Logger: lines are written once, in order, and no thread waits for ever.
* Start-up: no thread works on an object that is gone; a worker takes all tasks but
  those that were announced before it had a pipe; where the code's behaviour is
  undefined, no request has been taken yet.
* ICMP packets: hosts accept the checksum; the receiver reads what was sent.
* JSON: no dangling pointer, no forgotten error, every call returns, the
  conversions throw exactly when they say, and a written value reads back, as far
  as ten decimals and a buffer of 32 characters can hold it.
* Together: they implement `PingService`, and every request that names a
  server is answered in the end.

## The modules

| module | models | extends |
|---|---|---|
| `Task` | `Task`, `Ping` objects as records; counting, completion, the answer | |
| `Shared` | the heap of tasks and the two queues with their pipes | `Task` |
| `TaskWorker` | the worker thread, one action per callback or step | `Shared` |
| `HttpServer` | the HTTP thread | `Shared` |
| `XPing` | both threads together, fairness, the properties | both |
| `PingService` | the abstract service: the life of each request | `Task` |
| `XPingProofs` | the safety theorems; that `XPing` implements `PingService` | `XPing` |
| `PingRequest` | the checks of `handlePingReq` and `Task::Task(JsonValue &)` and the loop over the servers; its theorems | `Task` |
| `ConcurrentDequeue` | `pushHead` and `popTail`, write by write | |
| `Fifo` | the abstract queue | |
| `ConcurrentDequeueProofs` | its theorems, the refinement among them | `ConcurrentDequeue` |
| `Logger` | `log` on any thread and the logger thread | |
| `LoggerProofs` | its theorems | `Logger` |
| `StartUp` | `main`, the thread wrapper, and how each thread sets itself up | |
| `StartUpProofs` | its theorems | `StartUp` |
| `IcmpPacket` | the packet that is sent, its checksum, and how a reply is read | |
| `IcmpPacketProofs` | its theorems | `IcmpPacket` |
| `Value` | `Json::Value`: the operations the server uses, on trees | |
| `Lexemes` | the tokens of a text; numbers and strings to text and back | `Value` |
| `Reader` | `Json::Reader`, a step per token | `Lexemes` |
| `ReaderProofs` | its theorems | `Reader` |
| `FastWriter` | `Json::FastWriter` | `Lexemes` |
| `Writer` | `StyledWriter`, `StyledStreamWriter` | `FastWriter` |
| `Copy` | `parse`, `toString` and `parse` of the result | `Reader`, `FastWriter` |
| `CopyProofs` | the theorems about trees, writing, and the round trip | `Copy`, `ReaderProofs` |
| `Json` | what the server does with them: request, task, answer, copies | `Copy`, `Writer` |
| `MCXPing`, `MCPingRequest`, `MCConcurrentDequeue`, `MCLogger`, `MCStartUp`, `MCIcmpPacket`, `MCJson` | model values for TLC | |

`XPing` composes the two threads at the level of callbacks. The other components
are modelled on their own and connected to it by what it assumes: that `new Task`
returns `NewTask(n, code, r)` (`PingRequest`, property `MadeRight`) and that a
queue is atomic (`ConcurrentDequeue`, property `ImplementsFifo`). The logger's
threads are those of `XPing`, which leaves logging out: its only effect on them is
to make them wait, and `EveryLineWritten` says that the wait ends. `StartUp` is what
happens before and after `XPing`: in it a task is a number in a queue, and `XPing`
begins once all threads loop. `PingRequest` has the constructor's steps for a
request given by what its checks see; `Json` has the same checks see a real
value, and says which values make them throw.

### How state and actions correspond to the code

`task[a]` is the memory at address `a`; `live` the addresses `new Task` has
returned and `delete` has not taken back. `delete` leaves `task[a]` as it is:
glibc's `free` overwrites the first bytes of a block only, and the fields that
`doTask` still reads lie behind them. The history field `req` of a task names the
request it was created for; no action reads it except to state properties.

A callback of an event loop runs to its end before the next, so it is one
action, but for the points where the other thread can see a half-done change:

* a push to a queue and the write of the byte that announces it are two actions
  (`wpc`/`hpc` = `notify...`), because the consumer may run in between;
* each iteration of `doTask` is one action, since a failed send can complete the
  task inside the loop and the HTTP thread may then delete it;
* `DoTaskReturns` is the last loop test, which reads the memory again.

Replies are a set: delivering one leaves it in `net`, so a reply may come late,
twice, out of order or never. `OtherPackets` are what a raw socket also
receives; the filter in `socketReadHandler` is `Accepts`. Timers are counters per
ping: an armed timer may fire at any time. `currentTime()` is an ordinal;
`ClockAdvances` says whether two tasks can get the same one. `Reuse` says
whether the allocator may return the address `doTask` still works on. Both are
switches because the code relies on them without ensuring them, and the runs
show what breaks. A write to a pipe waits for room (`PipeCap`); nothing else limits
the tasks under way. `XPing` takes a lock of a queue as granted, as glibc's
`pthread_spin_lock` does; what a queue does when it is refused is in
`ConcurrentDequeue`.

In `ConcurrentDequeue` each write that another thread could see is an action, so
the spin lock is needed for what it does. `order` is a history variable: the nodes
in the list as the writes to `head->next` and `tail->prev->next` make it. A
deleted node's fields are lost, and `new` may return its address at once. Both
operations test what `pthread_spin_lock` returns: `PushFails` deletes the node and
`PopFails` returns as from an empty queue, and in `Fifo` either call may be refused.

In `PingRequest` a request is a record of what the checks look at. A member of the
wrong JSON type makes jsoncpp throw; no one catches, so `"thrown"` is the end of
the process. `IndexMod` is the number of values of the loop counter's type. The
module allows any limit up to that number; the source has them equal, and so have
the runs.

In `StartUp` a thread's set-up is a sequence of stages (`thr`), each of which
succeeds or ends the thread. `usleep` returns at any time, wherever the workers
are by then. A worker without a pipe is notified through a descriptor that was
never set: the byte is lost, or lands in the pipe of another worker; the history
variable `missed` counts these bytes. A handle that a failed `pthread_create` has not
filled (`inst` is `"garbage"`) may name any thread or none, and `pthread_join` on it is
undefined: it fails, joins a thread that has ended (and so takes it from the
handle that names it), never returns, or ends the process (`AfterJoin`,
`JoinUndefined`). The module also shows, without a property of its own, that a
server that fails leaves the process in the joins of the workers for ever: their
loops have no end. Only
`WORKER_NUM` of `Common.h` limits the turn of `sendToWorker`; `Main.cpp` has a
definition of its own, and `ServerModulus` and `WorkerNum` keep the two apart.

In `IcmpPacket` a byte has `B` values, a word `B * B`, an unsigned int the square of
that, so small instances have the overflows of the real widths. `Junk` is what
fresh memory holds where the checksum goes.

In `Value` a tree is a function from paths to nodes. The containers are
`std::map`s, whose elements do not move, so a path stands for an address, and a
path that is not in the tree for a dangling pointer. `Assign` is `operator=`: copy
and swap, with the comments staying where they are. `Reader` is the recursive
descent with its calls as frames; every step reads one lexeme, chosen freely, so a
behaviour is the parsing of an arbitrary text. `FastWriter` and `Writer` give
texts as lexemes with the line breaks and spaces that a reader or a writer looks
at. `Copy` parses any text, writes the tree and reads that text with the steps of
`Reader`; `Json` takes these steps over and adds the other writers, so its
behaviours up to `toString` and the second `parse` are behaviours of `CopySpec`.
The texts of comments matter by their kind only: on one line, with a line break,
or ended by one.

A real is a number of quarters, which are the least that tell apart what `%.10f`
does to a fraction: 0 and 1/2 stand for those that ten decimals write, 1/4 for
one that they round away, 3/4 for one that they round up to the next whole number
(`Rounded`). Numbers beyond `MaxExact` are even only (`Stored`), one step for the many
in which doubles grow coarse, and beyond `MaxDouble` infinite, like any number with
an exponent that no double has. An infinite double is written as `inf` or `-inf`
(`InfiniteText`), which the reader refuses. Sign, digits, point and ten decimals go to
a buffer of `BufferSize` characters; when they are more (`Overruns`; from 1e20 on in
the source) `sprintf` writes past its end. `Overrun` is that the process then ends; it
may also go on, and nothing is said of the text. `toString` and `toFormatString`, which
alone could meet such a double, have no caller in the server: what it
writes itself are `lossRate` and `avgRtt`.

Some behaviour of the vendored reader and writers that the models keep, because
it decides what round-trips: what follows the first value is ignored; a comment
between members stands for the comma, and the next token is dropped; a comment
after an array element, or in an empty array, is an error; `{"":1,}` is accepted;
of two members with one name the last wins and the comments of the first stay; a
second comment on a value's line replaces the first; the comments in an array on
one line are lost, for `isMultiLine && hasCommentForValue` in `isMultineArray` cannot
become true (`json/writer.h:61` and `:117` say that comments are written); a number
near the limits becomes a double though it would fit; `isConvertibleTo(stringValue)`
holds for numbers, for which `asString` throws; a body of `null` counts as an object.

Out of the data model: host names, texts, times of flight, and the timeout
values (all timers are independent anyway). `evhttp` is external: a request
arrives once and stays valid until it is answered (libevent drops the answer to
a client that has gone).

## Runs

| run | question | bounds |
|---|---|---|
| `core` | all safety invariants, what a step may never do, and where the threads can come to rest | 3 requests, up to 2 servers, 2 slots, pipes of 2 bytes |
| `service` | `XPing` implements `PingService`; every request that names a server is answered | 2 requests, 0 to 2 servers, 1 slot, `FairSpec` |
| `collide` | what can break when timestamps repeat, for tasks of different sizes | 3 requests of 1 or 2 servers, 2 slots |
| `reuse`, `empty` | statements of the source that the code violates | 2 requests |
| `fifo` | the linked list's invariants after every write; it implements `Fifo` | 3 threads, 3 nodes, 2 values |
| `request` | each request becomes the right task; which requests never do | arrays of up to 5, limit 4, counter of 4 values |
| `full` | the handler ends also at the capacity the source states | the same |
| `lines` | no line is lost, repeated or reordered; a thread that waits for the pipe gets on | 2 threads, 3 lines each, a pipe of 1 byte, `FairSpec` |
| `startup` | no thread outlives its object; what a late pipe and an unfilled handle can cost | 2 workers, 4 requests, each step may fail, `FairSpec` |
| `packet` | checksum and offsets | bytes of 4 values, timestamps of 2 bytes, contents of up to 15 bytes |
| `json` | pointers, errors and conversions of the reader; what is written reads back; every call returns | ints of 8 bits, doubles of up to 6 digits and a buffer for 4, texts of cost 6, `FairSpec` |

Three requests with two slots are the least where two tasks are in the worker's hands
while a third is dropped; two servers per task the least where one ping ends and
another stays open. Two requests are enough for the refinement, where one task is in
the worker's hands and another in a queue. Three nodes let the list hold none, one and
more than one node while another is being pushed or deleted; arrays of up to 5 servers
are below, at and above the limit and the counter's range; a pipe of one byte is full
as often as it can be. Pipes of two bytes are full when a third task is announced, in
`core` to either thread, and hold more than one byte before that. Two workers are the
least where one fails and the other serves, and where the turn goes round; four
requests give each worker a second one. In `packet` 15 bytes of threes are more than a
word holds, so that the sum carries, and lengths are odd and even. In `json` the first
lexemes that nest, and those that the server looks up, cost 1, comments and line
breaks 2, numbers at the limits, escapes and words 4, and what only separates or
closes nothing (`MCCost`): 6 admits three levels of nesting with a syntax error at any
place, an object with a repeated name and a comment, or a number at a limit inside an
array beside another value. `RightMargin` is 14, so arrays are written on one line or
several. Requests and addresses are symmetric, and so are threads, nodes and values;
the symmetry is used in runs without liveness properties only.

`Quiescent` is a stutter: both loops wait and nothing will come. A state where
no action is possible otherwise is a deadlock, and TLC reports it, except in `core`,
where a full pipe can stop the threads: `RestsSettledOrCaught` takes the place of
that check and says more. The runs `service` and `collide`, with room in the pipes
for every task, have no deadlock; nor has `lines`, whose pipe is full all the time.
`request` and `full` end, for their handler returns, and so does `json`, where the
text has been read. In `StartUp` the process waits for ever (`Waiting`) in a join or
has ended, and in `IcmpPacket` the reply has been read (`Done`).

### What the violated runs show

* `reuse`: `doTask` tests `i < task->totalCount` after `start` of the last ping
  failed and completed the task. If the HTTP thread has deleted the task and
  created the next one in its place, the loop carries on over the new task's
  pings: a ping of it ends before its own `doTask` starts it again, and it is
  counted twice.
* `empty`: only the end of a ping completes a task, so a request with an empty
  list of servers holds its slot for ever and is never answered.
* `full`: the loop `for (unsigned short i = 0; i < size; i ++)` has no end when
  `size` is 65536, which `MAX_PING_PER_TASK` admits; the HTTP thread serves no one
  after such a request. `EndsUnlessEndless` is what is true instead: every other
  request comes to its end, and such a one never does.

More disagreements can be seen in the same models with other constants or
properties:

* `doingMap` has one entry per timestamp, so of two tasks accepted within one
  microsecond, or after the clock is set back, only one is found on completion,
  which `TaskWorker.cpp:234` calls impossible (`DoingMapFinds` with the constants of
  `collide`).
* `index > totalCount` (`TaskWorker.cpp:327`) lets `index = totalCount` pass. Within one
  task no reply has that index, but with two tasks of one timestamp and different
  sizes a reply to the longer one is read past the pings of the shorter
  (`ReplyIndexInBounds` with the constants of `collide`). `OnlyPastEndBreaks` is what is
  true instead: however timestamps repeat, this read is the only step that breaks
  the worker's bookkeeping.
* A worker whose set-up fails writes "exit program" to the log
  (`TaskWorker.cpp:166`), and only its thread ends. The HTTP thread goes on handing
  it tasks, which is why `Served` excepts such a worker.
* A reply that follows its own timeout is logged as a bug (`TaskWorker.cpp:335`)
  though it is an ordinary late reply and changes nothing.

The source says nothing of full pipes. `WaitCycle` names the two ways in which they
stop the process: the HTTP thread waits for room in its own pipe, when it answers
a request that goes to no worker; or it waits for room in the worker's pipe while
the worker waits for room in the HTTP thread's. A pipe of Linux holds 65536 bytes,
so the first takes that many tasks under way, and the second twice as many. In
`core` the first occurs; the second needs six requests there.

### Fairness

`FairSpec` assumes weak fairness of: the worker's event loop (one ready callback
or the next step of the one under way), each armed timer, the HTTP thread's
writes, and its reading of responses. libevent calls back every ready event and
expires every armed timer; a write to a pipe with room returns. Nothing is assumed
of requests, replies or the success of a send. In `PingRequest` the handler is one
sequential call, so it takes its next step if it has one. In `Logger` the logger
thread's loop runs, and each thread's write returns when there is room; weak
fairness is enough, because there are finitely many lines, so no writer can be
overtaken for ever. In `StartUp` every thread that can run does: `main`, the steps of
a set-up, the write of a byte, the taking of a task. Nothing makes the answering of
a task happen. In `Json` a call of `parse` goes
on, and a request's body ends some time; nothing is assumed of what it says.

## Proofs

Each theorem holds for all values of the constants that satisfy the modules'
assumptions and the hypotheses it names. Those of `XPing` that are not always
met are three:

* `~Reuse`: the allocator does not return the address of a deleted task while
  `doTask` still reads it. The run `reuse` shows what happens if it does.
* `FreshStamps \/ EqualSizes`: whenever the worker takes a task, the timestamp it gives
  it is that of no other task in its hands and of no reply that may still come; or
  all requests name equally many servers. The first is a condition on the
  behaviour, not on a constant: it allows a clock that stands still between two
  tasks or is set back, if the earlier one has left no trace. A clock that always
  advances meets it (`AdvancingIsFresh`). The code ensures neither; without both,
  a reply can index the pings of another task past their end.
* `0 \notin Sizes`: every request names a server. Without it the run `empty` shows that
  requests are turned away for ever.

`XPingProofs` begins with what needs none of them: type correctness
(`TypeCorrect`), one byte per queued task (`Balanced`), and the exactness of
`doingRequest` (`Tracked`). Each invariant is inductive together with `TypeOK`.

None of the other safety invariants is inductive alone. `CoreInv` adds to those
that do not depend on the clock: a queued task is fresh (`QueuedFresh`); `doTask`
starts its pings in order and those of every other task have been started
(`StartedInOrder`), which is why a completed task has nothing left for the loop
(`DoTaskStops`). Every step but a reply that is read past the end of a `pingArray`
keeps it, with no assumption on the clock or on sizes: that is the theorem
`BreaksOnlyPastEnd`. There are two ways to rule such a reply out. If timestamps are
fresh when they are given, `ClockInv`: none in use lies in the clock's future
(`StampsPast`), a new entry of `doingMap` is at a free key and no old reply leads to
it, and a reply that leads to a task names one of its pings (`RepliesKnown`). `IndInv`
is the two together (`Inductive`). If sizes are equal, `FitInv`: no index of a reply is
beyond them. `CoreInductive` joins the two ways. The step proof has a lemma per
action; `EndPingStep` is shared by the four places that end a ping. From
`CoreInductive` follow `Owned`, `CountedOnce`, `SlotsCounted`, `TimersSafe`, `MapLive`,
`IndexSafe` and `HandedBack`; from `Inductive`, with `FreshStamps`, `MapExact` and
`RepliesSafe`.

`XPingProofs` also proves `Implements` (`KeepsItsPromise`): the initial states map
to the initial state of `PingService`, and every step to a step or a stutter. A
request is `new` until it arrives, then what its task shows of it (`Seen`), and
`closed` with its answer. Three facts make the mapping work, and
`ServiceInductive` proves them with `CoreInv`: a result in a task is one that its
ping may have (`Outcomes`), one request has one task at a time (`OneTaskEach`),
and an answer is given for a task that is complete. Then each action is one of
four kinds: it submits or turns away a request (`NewSubmits`, `DropsTurnsAway`),
decides one ping (`ReportIs`, `FaultIs`), answers (`RespAnswers`), or leaves all
lives as they are (`LifeSame`, for instance when the worker only moves a task, or
a reply finds its ping decided). `DropsJustified` is an action property from the
same invariant: when a request is dropped, each of the `Capacity` slots is a task
that the worker holds and that has a ping under way.

`PingRequest` ends with its proofs, for every limit up to the number of values of
the counter, the source's own limit included: `MadeRight`, `Advances`
(`WrapsOnlyWhenFull`), and that an endless request stays in the constructor
(`EndlessStays`), which is one half of `EndsUnlessEndless`. The invariant
(`Passed`) says what each check knows of those before it, and that the loop has
set up exactly the pings below its counter, or, in a request of as many servers as
the counter has values, all of them.

`ConcurrentDequeueProofs` proves the list for any number of threads, nodes and
values. `IndInv` is the conjunction of the run's invariants, `TypeOK` and
`Progress`, what the thread inside the critical section knows of its own node;
without it the write `node->next->prev = node` could go anywhere. There is
one lemma per action, and `Exclusive` makes the links that are still to be written
(`Unwritten`) those of one thread. `Refines` is the refinement: a push takes
effect when `head->next` is written (`PushPublish`), a pop when the node is
unlinked (`PopUnlink`) or when the list is found empty (`PopTest`), and every other step
leaves the abstract queue alone.

`LoggerProofs` proves `Accounted`, `WakeUps` and `ProgramOrder`. The first two are
inductive with `TypeOK`: `WakeUps` is what makes `popTail` find a line for every
byte. `ProgramOrder` needs `Numbered`, the same order on all lines pushed so far,
of which the file is a prefix by `Accounted`.

`StartUpProofs` proves `ObjectsOutlive` and `MasterThere` for any number of
workers and any failures. They are inductive together with where `main` is
(`Position`), the order of `HttpServer::workers` (`Registered`), what each handle
says of its thread (`Handles`), that a pipe comes first (`PipeFirst`), and that
the server loops once it has taken a request (`Serving`): that is why `main`,
which deletes the server first, does not reach that line while a worker holds a
task. `Handles` says that a thread that runs is named by its own handle, so that a
join on an unfilled one can only take threads that have ended; and `Serving`, that
`main` is in the join of the server once a request has been taken, so nothing
undefined happens after that (`NothingLost`). `Lag` is that a worker's queue is
ahead of its pipe by at most the bytes that were sent before there was a pipe.
Nothing is assumed of the sleep.

`IcmpPacketProofs` has three theorems, for every width of a byte and of a timestamp.
The accumulator never wraps (`NoWrap`), by the bound that the loop keeps (`Summing`).
A reply is read as it was written (`ReadAsWritten`): `Layout` says where the parts of
a packet are, from lemmas about concatenation (`ThreeParts`, `PacketBytes`), and no
step after the first writes anything but the checksum's place (`BufferFrame`). And
every packet passes its receiver's check (`ChecksOut`). For that, `Adding` says
that the accumulator is the sum of the words read so far but the checksum's
(`BareSums`), and of an odd end that it is zero; the stored word is then the
complement of the folded sum. Word by word, the receiver's sum differs from that one
by the checksum and a multiple of `W - 1`, and is not 0, because the type in the
first byte is not (`ReceiverAdds`); so it ends as all ones (`StoredVerifies`).
`FoldsToOnes` is the same for a receiver that folds at the end.

Sums over the words are recursive functions, and the library's theorems on
induction and on recursive definitions take an operator, which the provers cannot
instantiate. `SetInduction` takes the set of the numbers that a fact holds for
instead, and `Recursion` takes the rule as a function; both are proved from the
well-foundedness of `<`, where they are used.

`ReaderProofs` proves `NodesLive` and `ErrorsTold` for every text. `NodesLive` is
not inductive. `LiveInv` adds how deep the stack is in each state (`Depth`), that
it is a chain from the root (`Chain`), that the containers that are open are not
null (`Holds`), so that `operator[]` does not replace them, and `LastNear`:
`lastValue_` is at most a child of the innermost open container when a value is
assigned, so the values that the assignment destroys are never it. `ErrorsTold`
needs that an error is on record in every recovery and in no other state
(`ErrInv`). `DecodeNoWrap` is the arithmetic of a round of `decodeNumber` for
every width, and `DecodesExactly`, by induction on the digits, what it makes of
any number of them. With it, `ConvertsAsTold` proves `NumbersConvert`: every
number in the tree is in the range of its type, and an unsigned one is greater
than `maxInt` (`GoodNodes`), where `asInt` and `isConvertibleTo` agree. It needs
that a `Value` in which a key is looked up is not null, which is part of
`LiveInv`. The theorems are about `ReaderSpec`, where any text comes in; `Json`
checks the same properties also while its own texts are read.

`CopyProofs` proves `RoundTrip` for `toString`: of every text that can be parsed, nested
however deep and with names that come twice, what `FastWriter` writes of the tree is
accepted and read back as the same tree, but for comments, the types of equal
numbers and what ten decimals round off (`SameValue`). That is on condition that every
double in the tree is finite and fits into the writer's buffer (`Writable`); of other
trees nothing is claimed, and TLC shows why: `inf` is refused. The argument has
four parts.

* Values without children (`ScalarsReadBack`): the digits written of a number are
  read as that number, rounded, by `decodeNumber` or by `decodeDouble`, for a rounded
  double is a double again (`StoredIs`, `RoundedIs`), and `decodeString` gives back the
  characters of a quoted string.
* Trees (`TreesWellFormed`): what is parsed is always `WellFormed`. Every element or
  member lies in a container of its kind, and no element is missing, which is
  not inductive: `Grown` adds that each open call of `readArray` counts the elements of
  its array, and `CallKind` that a call of `readObject` is in an object's states.
  A name that comes twice makes `operator=` destroy a whole subtree, and the calls
  that are open are never inside it.
* Writing (`ChildrenAre`, `FastValueIs`): the loops go through each child once, and the
  recursion is well founded, so the text of a container is its bracket, then child
  by child a comma, the name, the child's text, and the closing bracket.
* Reading: `Copies` is the simulation. For every open call, `idx` says how many children
  of its container have begun and `u` what text follows them; the text that
  is left is that of the innermost call (`Left`), and every Value of the original tree is
  read already and equal (`ReadIn`), or belongs to a child that no call has begun
  (`Later`), or lies at or below the one being read. There is one lemma for each place
  where the reader can be (`CopiesScalar`, `CopiesBegin`, `CopiesMember`, `CopiesColon`,
  `CopiesComma`, `CopiesFirst`, `CopiesSeparator`, `CopiesEnd`). They show that no
  error is possible and no text is left over. When `parse` returns no call is open, so
  every Value has been read.

The proofs of `ScalarsReadBack` and `WellFormed` need that the strings of the text
are of characters of the alphabet (`CopyAssumption`); the characters stand for all
there are. Nothing bounds their number, the depth of the tree or the length of the
text.

Model-checked only: `RoundTrip` for the two styled writers, which are RECURSIVE
operators, put line breaks and comments between lexemes and look back at what is
already written; the liveness properties (`EventuallyAnswered`,
`EveryLineWritten`, `Served`, `Finishes`, `EndsUnlessEndless`), for fairness is
defined with ENABLED, which is out of the prover's reach; and
`RestsSettledOrCaught`, which is stated with it.

## Plan

1. Done: the core (`Task`, `Shared`, `TaskWorker`, `HttpServer`, `XPing`,
   `PingService`), its runs and its safety theorems.
2. Done: `ConcurrentDequeue`, its run, its invariants and its refinement of
   `Fifo`.
3. Done: `PingRequest`, its runs and theorems.
4. Done: `Logger`, its run and theorems.
5. Done: `StartUp`, its run and theorems.
6. Done: `IcmpPacket`, its run and theorems.
7. Done: `Value`, `Lexemes`, `Reader`, `Writer`, `Json`, their run, and the theorems
   about the reader.
8. Done: proofs that `XPing` implements `PingService`, of `DropsOnlyWhileWorking`, of
   what holds with any clock, of `Verifies` and `ReadsBack` for the whole packet,
   and of `NumbersConvert`.
9. Open: several workers in `XPing`: `WORKER_NUM` is 1, but `sendToWorker` is written
   for more, and `Accepts` tells the replies of their threads apart. `StartUp` has any
   number of them already.
10. Done: `Copy` and `FastWriter`, and the proofs of the round trip through `toString`.
11. Open: the round trip through the styled writers as a theorem. `Copies` would have
    to let comments and line breaks come between two lexemes.

The properties of a component share one run; a run of its own has what needs other
constants, or what the source says and the code does not do.

## Not modelled

* libevent and the kernel: atomic callbacks and the fairness above stand for them.
* The stand-alone prototype, the template demo, the singleton, `common::List`, and
  functions that nothing calls (`endThread`, `closePipe`, the try variants of the
  queue, the copying constructor of `IcmpPacket`).
* Of jsoncpp: `json_internalmap.inl`, `json_internalarray.inl` and the batch
  allocator, which the build does not compile in (`JSON_VALUE_USE_INTERNAL_MAP`
  is not defined); comparison, `resize`, `clear`, `append`, `removeMember`, iterators
  and `Path`, which the server never calls; places and wording of errors;
  `collectComments = false` and YAML compatibility, which nobody sets.
* The characters inside a token: their number (`decodeDouble` terminates a number of
  exactly `bufferSize` characters one past its buffer), NUL characters, Unicode, and
  line breaks in strings.
* Of doubles, binary fractions and their many steps of coarseness, the sign of
  zero, and exponents but for those that lead out of range; of a text that is
  longer than the writer's buffer, what it would say.
* Wording of answers and log lines, HTTP headers, measured times.
