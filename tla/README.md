# OS_EX6 in TLA+

A TLA+ development of this repository: two servers (one built of active
objects, one of a reactor), the client both are used with, the queue the active
objects stand on, the guard and the singleton, and the test framework that runs
the tests. Modules are checked with TLC on small instances; the main invariants
are also proved with TLAPS, for every value of the constants.

- [The system](#the-system)
- [The modules and the code](#the-modules-and-the-code)
- [The abstract specifications](#the-abstract-specifications)
- [The runs](#the-runs)
- [Fairness](#fairness)
- [The proofs](#the-proofs)
- [Where the code and what is said of it
  differ](#where-the-code-and-what-is-said-of-it-differ)
- [What is not modelled](#what-is-not-modelled)
- [Plan](#plan)

## The system

| Component | Files | State it keeps | Operations |
|---|---|---|---|
| queue | `queue.cpp/hpp` | `head`, `size`, the `Node`s, one mutex, one condition variable | `enQ`, `deQ`, `private_deQ`, `top`, `Size`, `destroyQ` |
| active object | `ActiveObject.cpp/hpp` | the thread, its queue and functions; a `capsula` per message | `new_AO`, `new_listenAO`, `ao_func`, `listenAO`, `insert_to_queue`, `destroy_AO` |
| conversions | `ActiveObject.cpp` | a capsule's buffer, in place | `convert_opposite_case_letters`, `caesar_cipher_1` |
| active-object server | `Server.cpp` | per connection three threads and two queues | the accept loop of `main`, `send_message` |
| reactor | `Reactor.cpp/hpp` | `fds`, `handlers`, `highest_fd` | `newReactor`, `InstallHandler`, `RemoveHandler` |
| reactor server | `selectserver.cpp` | the reactor, `read_fds`, `buf` | `main`'s select loop, `accept_connection`, `handle_client_data` |
| client | `selectclient.cpp` | one socket | prompt, `send`, `recv`, print, again |
| guard | `Guard.cpp/hpp` | one static mutex | constructor locks, destructor unlocks |
| singleton | `Singleton.hpp` | a global `instance` pointer | `Instance`, `get_object`, `Destroy` |
| tests | `test*.cpp`, `TestRunner.cpp` | a few globals | test cases, some with threads; a `main` that adds a reporter |
| doctest | `doctest.h` | the options, `ContextState` with its counters and subcase fields, the reporters' state | option parsing, filters, `Context::run`, subcases, assertions, contexts, signal handling, reporters |

**How they interact.** For each connection, `main` of `Server.cpp` creates
queues q2 and q3 and starts three threads. *listen* turns what `recv` returns
into capsules (buffer, socket, and the queue the capsule goes to later) and puts
them on q2. *convert* takes from q2, swaps the case of the letters and, in its
after function, puts the capsule on q3. *cipher* takes from q3, moves each letter
by one and sends the string to the client. The threads share nothing but
capsules, which move from hand to hand through the queues.

`selectserver.cpp` is one thread. It selects over the reactor's `fds`, walks a
snapshot of the ready descriptors and calls the handler of each. The handlers
change the reactor (accept installs, hang-up clears) while the walk goes on.

The client sends a text with its NUL, waits for one `recv`, prints what it got as
a C string, and prompts again.

The test program is doctest's `Context::run` under the options of its command
line and of `TestRunner.cpp`. It selects and sorts the registered test cases,
calls each test function again until every path of its subcases has been taken,
and tells the reporters. Test functions start threads that make assertions of
their own: they share the atomic counters and the reporters' mutexes with the main
thread. A signal handler reports and ends what it interrupts.

**What is hard here, and what makes each component correct.**

- *queue*: any number of threads in `enQ` and `deQ`; sleepers woken all at once
  for one member; `size`, which never goes down, in the test a consumer waits on.
  Correct: first-in first-out, no wakeup lost, no dereference of an empty list,
  every member eventually taken.
- *active-object server*: three threads per connection in any order, started one
  after the other while bytes already flow; TCP that splits and joins messages;
  buffers completed by memory nobody wrote; `recv` returning 0 treated as a
  message; SIGPIPE. Correct: replies in order, each the answer to its request;
  no capsule in two hands; nobody left waiting; the server dies of nothing else
  than a client that left.
- *reactor server*: a snapshot that ages while it is walked, descriptors closed and
  reused, the only thread blocked in a `send`. Correct: reactor and kernel agree
  about descriptors, no handler blocks in `recv` or `accept`, all clients see one
  order.
- *guard, singleton*: threads that race for a scope, or between the check and the
  store of `Instance`; use after `Destroy`. Correct: one thread in the scope; one
  object while calls do not race.
- *doctest*: test functions run in passes whose only memory is a set of paths and
  four fields; failures counted by several threads; exceptions that unwind through
  subcases and contexts; decorators that combine; a signal at any point. Correct:
  each path once, exactly the selected test cases, an exit code and reports that
  say what happened, and an end.

`PROJECT.json` lists these as hazards, each at its line with the properties that
cover it.

## The modules and the code

| Module | What it is | Source |
|---|---|---|
| `FifoQueue` | abstract: a blocking first-in first-out queue | |
| `Queue` | `ex6::queue` at the grain of locks and shared accesses | `queue.cpp`, `queue.hpp` |
| `Ciphers` | the two conversions | `ActiveObject.cpp` |
| `SelectClient` | clients and their connections; extended by both servers | `selectclient.cpp` |
| `EchoService` | abstract: request, answer, in order; departures and breakdown | |
| `AOServer` | the active-object server composed with its clients | `Server.cpp`, `ActiveObject.cpp` |
| `ChatRoom` | abstract: one total order of what is said, heard by all | |
| `SelectServer` | the reactor server composed with its clients | `selectserver.cpp`, `Reactor.cpp` |
| `Guard` | the guard, in the threads of its test | `Guard.cpp`, `testGuard.cpp` |
| `Singleton` | `Instance` and `Destroy` by any number of threads | `Singleton.hpp` |
| `CommandLine` | how options are parsed | `doctest.h` |
| `Wildcards` | the masks of filters | `doctest.h` |
| `ConsoleReporter`, `XmlReporter` | what the reporters keep and write | `doctest.h` |
| `DoctestRun` | `Context::run` with test functions, threads and signals; extends the four above | `doctest.h`, `TestRunner.cpp` |
| `QueueProofs`, `SelectClientProofs`, `AOServerProofs`, `SelectServerProofs`, `GuardProofs`, `SingletonProofs`, `DoctestRunProofs` | theorems about the module of that name (`AOServerProofs` also about `Ciphers`) | |
| `DoctestPassProofs` | theorems about `DoctestRun` that need its whole test functions or all its test cases, and about `Wildcards` | |
| `MCQueue`, `MCAOServer`, `MCSelectServer`, `MCDoctestRun` | instances for TLC | |

Operators whose comment begins with "mutant:" are the wrong versions of the
definition they stand beside. No specification uses them; substituting one shows
that a property depends on that piece of code.

**Queue.** `nodes` is the heap of `Node`s in the order of their allocation; a
pointer is an index, `Null` is 0, and a popped node stays, since `private_deQ`
frees nothing. `pc` says where a thread is between two accesses to shared
state: `EnQ` is the call, `Acquire` the mutex (for `enQ`, for `deQ`, and for the
return from `pthread_cond_wait`), `Count` the increment of `size` and the test of
`head`, `InsertFirst` the first branch, `Walk` and `InsertLast` the second,
`Broadcast` the broadcast that ends either, `Unlock` the release; `DeQ` is the
call, `Wait` and `Proceed` the two outcomes of the `while` condition, `PrivateDeQ`
the removal. `SpuriousWakeup` is there because POSIX allows it. `size` is
unbounded in the model, as it cannot wrap within `MaxCalls`.

**Ciphers.** Bytes are numbers, a buffer is a sequence of bytes that holds a NUL,
and the loop over its `strlen` characters is one function of the buffer. `Caesar`
keeps the shape of the code: a test of small letters, then, with no `else`, one of
big ones, with a `continue` at each wrap.

**SelectClient.** `link` is the state of a connection (`none`, `up`, `fin` and
`rst` once the client left, `closed` once the server closed too), `up` and `down`
are the bytes in flight. A `recv` returns any non-empty prefix of them that fits
the buffer; `Whole` restricts it to the longest. `HangUp` ends the client's process:
its kernel sends a FIN, or an RST if there was something unread. `ServerSends` is
a server's `send`: after a FIN it may be answered by an RST, and after an RST it
fails or raises SIGPIPE, which ends the server (`alive`); neither server changes
what SIGPIPE does. Each server says of every client action that it leaves the
server's variables alone.

**AOServer.** `main` is what `main` will start next, `thread` where each thread is
and the capsule it holds, `queue` the contents of q2 and q3 of each connection,
`heap` the capsules allocated. Three abstractions, and why they are sound:

- `enQ` and `deQ` are one step each. `Queue` implements `FifoQueue` (proved), so
  each takes effect in one step, in order; and `ImplementsFairFifo` (checked)
  gives the progress.
- A conversion is one step although it is a loop over the buffer. No other thread
  can see the buffer meanwhile: that is `ExclusiveCapsules`, proved of the same
  model.
- `send` is one step and never blocks: a client of this server reads after each
  text it sends, and what it has not read is bounded by the few bytes of its own
  texts, even when TCP splits a text and the pieces are answered one by one. (In
  the reactor server a client that never reads is sent what all the others type,
  and `send` does block there.)

A fresh `char[1024]` is not initialised. When the received bytes hold no NUL, what
is behind them is chosen from `Residue`: what memory held before its first NUL, any
bytes, letters included. In the theorems `Residue` is any set of strings, in the runs
nothing or one letter. What goes on behind that NUL matters to nobody; the buffer is
assumed to hold, or be followed by, a NUL somewhere. What the code then does is what
the model does: the old letters are converted, ciphered and sent. `received` is
history: how much of a capsule's buffer came from the client.

**SelectServer.** One step per system call of the one thread, `at` being the point
it is at; the clients move between any two. `fds`, `handlers` and `highest_fd`
are the reactor's; `conn` is what the kernel knows, the client behind each
descriptor; `ready` is what is left of `read_fds`, `targets` what is left of the
send loop. `highest_fd` starts as 0 or too large, because `newReactor` leaves it
uninitialised; `main` overwrites it before the loop. `SendToNext` waits while the
connection has no room for the message (`Window`). `log` is a history of what was
received.

**Guard.** `lock` is the static mutex, `Construct` and `Destruct` the two methods;
`ReadGlobVar` to `WriteGlobVar` are the body of `myfunc`, `CreateThread` to
`JoinThreads` the test case, for `N` threads instead of two. The busy loops over
`gettimeofday` are `spin` and `wait`: `Tick` moves the clock of every loop that
waits, and a loop may end any time after its seconds. Nothing bounds how long any
other step takes, which is what makes the test's timing a hazard.

**Singleton.** `CheckInstance`, `NewObject`, `StoreInstance` and `ReturnInstance`
are the four accesses of `Instance`; `ReturnInstance` reads the global again.
`CallDestroy` and `DeleteObject` are `Destroy`, which does not reset `instance`. A
freed address may be allocated again, so a stale pointer may look valid, as it
may in the program.

**CommandLine.** An argument is a record of its dashes, its prefix, its name and
what follows. `Chosen` is the precedence among repetitions (the last one; the
unprefixed form before `dt-`), `ParseBool`, `ParseInt` and `ParseFilter` are the
macros of `parseArgs`: an integer 0 leaves the option as it was, and filters are
appended to. `first` and `last` are unsigned and are assigned the `int` that was read
(`ParseUnsigned`); `subcase-filter-levels` stays an `int` and is compared as a
`size_t` (`SizeT`). So a negative `first` skips everything, a negative `last` limits
nothing, and with negative levels all levels are filtered. `setOption` and `addFilter` parse one such argument over the options
there are.

**Wildcards.** Each of `wildcmp`'s loops compares up to the end of the name, a `*` or
a mismatch: `Agreeing` is how far. What the second loop goes back to is `mp` and
`cp`, so it is a function of these two positions, `scan`; only the last `*` is
remembered. `Glob` is what a mask means: from the end of the mask to its beginning, the
positions of the name from which the rest can be stood for. The properties of the run are
stated with `Glob` only, so they also judge `wildcmp`; that the two agree on every name
and mask is proved (`MasksAreRight`).

**ConsoleReporter, XmlReporter.** Operators from a reporter's state and an event to
its next state. The console keeps the header it printed last, which is what a
reader takes for the place of the lines below it, and the contexts it quoted last.
The XML writer keeps the stack of open elements and whether a start tag is open;
`wrong` collects what would make the document malformed.

**DoctestRun.** A test function is a sequence of statements: assertions of every
kind, messages, INFO contexts, exceptions, subcases (an `open` knows where its
block ends) and the creation and joining of threads. `phase` is the point of
`Context::run`, `ip` the statement, `exception` what is being thrown; `sub` holds
the fields of `ContextState` about subcases and contexts, `cur` the atomic
counters and the failure flags of the current test case, `stats` the totals. The
steps are those that another thread or a signal can come between: a subcase's
change of the stack and the report of it, an assertion's count, its report under
the mutex, the release of the mutex, the count of its failure, its reaction.
`asserting` has that point for each thread, `holder` the holder of each reporter's
mutex. `Interrupt` is a signal to the main thread while a test function runs,
`Terminate` the abort of a thread that an exception leaves; `Fatal...` are the
handler, on the thread the signal came to. Where main tells the reporters of a subcase
(`EnteredSubcase`, `LeftSubcase`) or of the exception that leaves one
(`AnnounceException`), `LockReporters` first takes the mutexes that the reporters'
methods lock for that event, and a signal may come before the report releases them.
`run` itself tells the reporters of the run and its test cases in one step: there no
signal is caught (`isSet`) and no other thread is at work (proved, `PointsInv`). `hist` is history: what was entered,
how many assertions failed, the verdicts.

## The abstract specifications

- `FifoQueue`: calls, effects and returns of a blocking queue. `Queue` maps
  `items` to the members of the list from `head` on and each `pc` to idle, called
  or done.
- `EchoService`: the k-th reply is the answer to the k-th request. Clients may
  leave; the service may break down, but only once somebody left, and then who
  waits may be answered with silence. `AOServer` maps `requests` to what clients
  sent, `replies` to what they printed, `gone` to the clients that were ended. This
  holds while messages arrive whole; what survives without that is stated by
  `LettersInOrder`, `NobodyForgotten` and `DiesOfDeparture`.
  `ImplementsEcho` is the safety part (`Spec`, proved), `ImplementsFairEcho` adds that
  whoever waits is answered, hears the end or leaves (`FairSpec`, checked).
- `ChatRoom`: members, a log, and how far each member has heard it; a member may
  leave, and the room closes early only after that. `SelectServer` maps a member
  to an accepted descriptor whose peer is there, and its cursor to the log's end,
  less the entry that is yet to be sent to it. Again `ImplementsRoom` is the safety
  part (proved) and `ImplementsFairRoom` adds that a member hears all (checked).

For doctest the abstract side is not a machine but what each property computes from
the test functions themselves: `Leaves` (the paths a test function has), `Selected`
(the test cases the options name), `Unexpected` (how a test case should be judged),
`InScope` (the contexts a statement is in). The code is compared with them when a
test case, an assertion or the run ends.

## The runs

| Run | Question | Instance | Result |
|---|---|---|---|
| `queue` | Are list, waiters and order sound under every interleaving? Is it a blocking FIFO queue, with its progress? Is every member taken? | 2 producers calling twice, 2 consumers | holds |
| `queue_size` | Does `Size()` return the size? | 1 producer, 1 consumer | violated |
| `ao_echo` | Is each request answered, by its own answer, in order, also when one client is ended? Are capsules exclusive? | 2 clients, 2 texts each, whole messages, 1 may leave | holds |
| `ao_split` | What holds when TCP splits and joins, with letters in unwritten memory? What can kill the server? Does a `recv` wait for ever? | 1 client that may leave, 2 texts of 2 letters, buffers of 3 | holds |
| `ao_survives` | Does the server outlive its clients? | 2 clients, 1 may leave | violated |
| `ao_limit` | Is a reply of full size received at once? | 1 client, a text that fills the buffer | violated |
| `select_room` | Do all hear one order, and everything? Do reactor and kernel agree through close and reuse? Does a handler block? | 3 clients, 2 descriptors, texts longer than the server's buffer, 1 may leave | holds |
| `select_everyone` | Does a message reach everyone when someone does not read? | 2 clients, room for 3 unread bytes | violated |
| `doctest_run` | Do the right test cases run, once per path? Do exit code, console and XML tell what happened? Does the run end? | 5 programs, 19 sets of options, 2 threads, signals | holds |
| `test_guard` | Does the guard exclude, is one thread first, does the test end? | the test with 3 threads | holds |
| `guard_checks` | Does a failing `CHECK` of the test show a bad guard? | the test with 2 threads | violated |
| `singleton` | What is left of one object under races and `Destroy`? | 2 threads, 3 calls each, 3 addresses | holds |

**The bounds, and why they are enough.**

- `MaxCalls = 2` with two producers: lists of up to four nodes, so that `Walk`
  takes more than one step; a list that empties and fills again; two calls of one
  producer with another's between. Two consumers: one may take the member between
  the broadcast and the other's return from the wait.
- `MaxRequests = 2`: a reply may overtake or be overtaken by the next one. A
  client waits between texts, so longer runs repeat the same states of the server.
- `MaxCapsules` is 2 where messages are whole: a client that uses all its requests
  has them answered, and one that leaves earlier still has the end of its stream
  made into capsules, which is what kills the server. Where messages are split it
  is 5. Two texts of three bytes, each received in two pieces, make four, and the end
  of the stream one more, which is what kills the server. The bound cuts the endless
  capsules that `listenAO` makes at the end of a stream, and the sixth piece of two
  texts that are received byte by byte (one text byte by byte and the other in two
  pieces is there). `LettersInOrder`, `NobodyForgotten` and `DiesOfDeparture`
  are proved for every `MaxCapsules`.
- `BufferSize` and `ClientBuffer` stand for 1024 (256 in `selectserver.cpp`). They
  are 3 or 4 in the first server so that texts of two letters and a NUL just fit,
  just do not, and join; `BufferSize` is 1 in `select_room`, so that every text is
  broadcast in two pieces.
- `MaxFd = 5` with the listener at 3 leaves descriptors 4 and 5 to clients: three
  clients exhaust them, and closing one has it reused.
- `Window = 100` exceeds everything ever sent, so no `send` blocks;
  `select_everyone` sets it to 3, one message and not two.
- The letters are those at the edges ('a', 'z', 'Z') and one ordinary each. The
  conversions are proved for all 256 bytes.
- The guard's seconds are those of the test (5 and 2); three threads instead of
  two, so that one may wait for the lock while another overtakes it.
- The singleton's two arguments tell objects apart; three addresses are one more
  than two threads can fill, and three calls allow `Instance`, `Destroy`, and
  either after it.
- doctest's test functions: subcases nested two deep, two of one name at different
  lines, the same one twice as in a loop, one left by an exception in the second
  of two passes that throw; every kind of assertion, some failing; two threads,
  with none and with one failing. Each decorator occurs; `should_fail`, `may_fail` and
  `expected_failures` with outcomes they allow and outcomes they do not. The options:
  each filter, each order, a range, `abort-after` from two places, the queries for
  help, a count and both lists, the console, the grader, XML and no reporter; and
  negative values: `first` alone, `last` with `subcase-filter-levels`.
- `INT_MAX` is 49 in the run: an `unsigned` has 100 values and a `size_t` 10000, more
  than there are test cases or levels of subcases, so a negative value converts to
  one that exceeds all of them, as in the program.

The server configurations say `CHECK_DEADLOCK FALSE`: users may stop typing, and
then nothing happens any more. So do those of the guard's test, the singleton
and doctest, which end (the last may also be stuck, see `RunEnds`). The queue's
runs check deadlock.

## Fairness

*Queue.* A running thread keeps running (weak fairness of its steps), and a
consumer calls `deQ` again and again, which is what `ao_func` does. A free mutex
is given to *some* contender: weak fairness of `\E t : Acquire(t)`, never of a
particular thread, since a default pthread mutex promises no more. Nothing
promises a spurious wakeup, so no liveness rests on one. Producers need not call, and
each calls at most `MaxCalls` times: that producers which never stop could keep the
mutex from a consumer for ever, as such a mutex allows, is outside the model.
`EveryMemberTaken` and `ImplementsFairFifo` say that nothing else does: no lost
wakeup, and no contention among consumers.

*Servers.* The one thread of the reactor server, and each thread of the other, keep
running; `main` accepts a pending connection; a client blocked in `recv` runs
when there is something to receive. No user need connect, type or leave.

*Guard.* Threads that can run do, and time passes. The lock is not fair: each
thread takes it once, so weak fairness of its steps suffices.

*doctest.* The main thread, each thread a test function starts, and the handler
run when they can; a signal need never come. A waiter for a reporter's mutex is
only weakly fair; every thread makes finitely many assertions.

## The proofs

All for arbitrary constants: any sets of threads, clients, descriptors, programs
and options, any buffer. The assumptions on the constants are named in the
modules (`QueueAssumption`, `AOServerAssumption`, `SelectServerAssumption`,
`GuardAssumption`, `SingletonAssumption`, `WidthAssumption`,
`DoctestAssumption`, `ProgramsAssumption`, and the clients'): special values are
not ordinary ones, sizes are natural numbers, text is made of bytes, and test
functions are what the macros and the language make them (see `DoctestRunProofs`).
Every invariant `IInv` below is also checked by TLC.

Assumed beyond constants: `RefinesEcho` has a hypothesis, `MessagesWhole`. No other
theorem about a specification has one.

**`QueueProofs`**

| Theorem | Says |
|---|---|
| `Invariance` | `Spec => []IInv` |
| `TypeCorrect` | the variables are well typed |
| `NoWakeupLost` | a consumer sleeps beside a member only until the broadcast of the `enQ` that linked it |
| `PopIsValid` | `private_deQ` finds a node under `head` |
| `WalkIsValid` | `enQ` walks nodes that are in the list |
| `TakenInProducerOrder` | members of one producer are taken once, in the order of its calls |
| `WritesGuarded` | head, size and list change only in a step of the mutex's owner |
| `Refinement` | `Spec => ImplementsFifo`: every execution is one of `FifoQueue` |

None of these is inductive alone. `NoLostWakeup`, for one, needs to know that the
thread that links a node owns the mutex, and that `size` is positive whenever a
node is linked, for otherwise `Empty` could send a consumer to sleep beside one.
`IInv` is the conjunction that closes under every step:

- `MutualExclusion`: the mutex's owner is the thread in the critical section;
- `Chain`: from `head` on, each node links to the next one allocated, and the last
  to none. So a list is the interval `head .. Len(nodes)`, and the proofs need no
  induction over pointers;
- `Prefix`: what was taken is what precedes `head`;
- `SizeCountsInsertions`: `size` counts every insertion, the one under way included.
  With `Chain` it makes `size = 0 \/ head = nullptr` equivalent to an empty list,
  although `size` is no longer the list's size;
- `BranchValid`: the branch `enQ` took on its test of `head` is still right when
  it acts on it;
- `PopFindsNode`, `NoLostWakeup`: as above;
- `LinkOrder`: nodes of one producer are linked in the order of its calls.

`NextIInv` has one lemma per action, with a step per conjunct the action disturbs.
The refinement takes `IInv` in both states: `InsertFirst` and `InsertLast` map to
`DoEnQ`, `PrivateDeQ` to `DoDeQ`, the calls and returns to theirs, and every other
step to a stutter.

**`AOServerProofs`, the conversions**: `ConversionsAreInjective` (no two bytes are converted, or
ciphered, to the same one, so a reply determines its request) and
`PipelineAnswers` (converting and then ciphering a buffer in place makes its
string the answer to it, whatever follows the string; in particular the first
conversion never creates or destroys a NUL that the second's `strlen` relies on).

**`AOServerProofs`, the server**. `IInv` has four parts, each proved on those before it:

| Part | Says | Theorems from it |
|---|---|---|
| `PlacesInv` | where capsules, threads and waiting clients are | `TypeCorrect`, `CapsulesAreExclusive`, `NobodyIsForgotten` |
| `OrderInv` | capsules of a connection pass in the order of their numbers | `DeathIsOfDeparture` |
| `LettersInv` | what their letters are, wherever they are | `LettersKeepOrder` |
| `RequestInv` | where the request of a waiting client is, when messages arrive whole | `RefinesEcho` |

- A capsule is exclusive because a fresh one is nowhere yet (`AllocatedOnly`: what
  is held or queued was allocated before) and each step moves one capsule from
  one place to one other. A client in `recv` has something on the way because
  `encapsulate` makes a capsule of whatever `recv` took, every capsule ends in a
  reply, and a reply is never empty: it ends with the NUL that each buffer holds
  (`BuffersEnd`), which the conversions keep. `StartedOnce`
  keeps `main` from restarting a thread that holds a capsule; `Connected` says a
  waiting client's socket still takes the reply.
- `Orderly` gives each capsule of a connection its number from where it is: those
  answered, the one being ciphered, those on q3, the one being converted, those on
  q2, the one being listened to. So the server can die only in the `send` for a
  connection whose client left without reading a reply to each capsule:
  `DiesOfDeparture` is part of the invariant.
- `LettersInv` says what a buffer will be sent as, whatever has been done to it so
  far (`Reply`, by the place that `InTurn` gives it), and which part of that comes from
  bytes that were received (`OwnPart`). In the order of the capsules these parts, and
  behind them what has not been received yet, have the letters of the client's texts,
  each at most once and in order; what was sent to the client has those of the whole
  replies that were made. Both hold for every way of splitting and joining, and for
  whatever unwritten memory holds, since memory only adds to a reply behind the
  client's own part. A client whose capsules met nothing in memory is sent its
  own letters only.
- `RefinesEcho` assumes `MessagesWhole`: every text fits both buffers with its NUL,
  and TCP does not split it. That is what `Server.cpp` and `selectclient.cpp` count
  on; the runs `ao_limit` and `ao_split` show what is left without it. A waiting
  client then has one request or one reply somewhere (`OneRequest`); its `send` and
  its `recv`, a departure and the death of the server map to steps of
  `EchoService`, and every other step to a stutter.

**`SelectServerProofs`**. `IInv` is `ReactorInv /\ RoomInv`. From the first:
`TypeCorrect`, `ReactorStaysConsistent` and `NoStaleReadiness`. The snapshot is safe
because a handler closes only its own descriptor, which the walk has left behind;
a descriptor stays readable as nobody else reads from its client (`OneFdEach`: a
client has one descriptor), and the listener, because `accept` is called only once
per walk. Sets that a loop walks are empty outside it, and an open descriptor's
peer is connected or has left. From both: `RefinesRoom`, `Spec => ImplementsRoom`,
every execution is one of `ChatRoom`. The send loop sends the log's last entry, to
connections that had all before it, so a client has heard the log from its
joining on up to the entry being sent; and whoever is no longer connected has left,
or the server has died.

`SelectClientProofs` has the lemmas about clients and sockets that both use.

**`GuardProofs`**: `Inductive`, `TypeCorrect`, `GuardExcludes`, `OneThreadIsFirst` and
`ChecksTell` (`ChecksTellOrder`: a `CHECK` fails only when a thread was overtaken on its
way to the lock, and then the first one's does). The holder of the lock is the thread in the scope, a thread in the
first branch has `glob_var = 0`, and whoever is through has left it set
(`LockInv`). The first to get the lock is therefore the one that takes the first
branch, all others take the second, and a `CHECK` fails exactly for a thread in
the branch of another (`OrderInv`). The seconds play no part: the theorems hold
for any.

**`SingletonProofs`**: `Inductive`, `AtMostOneObjectEach`, `UnracedCallsShare` and
`PointersAreValid`. Whoever has built an object, or was given one, has seen
`instance` set, and nothing makes it null again, not even `Destroy`: so a thread
makes no second object, and `Destroy`'s `throw` is dead code (`PointersInv`). Until
a `Destroy` every address that is held is an object's (`ObjectsInv`). As long as no
two calls met between check and store, at most one thread is building, and
whoever holds a pointer holds the instance (`UnracedInv`).

**`DoctestRunProofs`**. `CoreInv` (`CoreInductive`) has twelve parts, and a lemma
`...Steps` for each says that every step keeps it, given those before it:

| Part | Says | Theorems from it |
|---|---|---|
| `SkipInv` | what a pass skips | `SkipInductive`, `SkippedIsRunLater` |
| `TypeOK`, `PointsInv` | where main, the threads and the handler are | `PlacesInductive`, `TypeCorrect` |
| `CountsInv` | the counters lag behind what failed by what is under way | |
| `PromptInv` | a run goes on from no point where enough has failed | `AbortsInTime` |
| `VerdictsInv` | flags, verdicts and the count of failed test cases agree | `ExitStatusIsRight` |
| `MutexInv` | who logs has every reporter's mutex; no other thread has one but main when it tells of a subcase | |
| `InfosInv`, `CalmInv` | the contexts; a crash that nobody disturbs | |
| `DepthInv` | the stack is as deep as the blocks main is in | |
| `HeaderInv` | the console's own stack follows the run's | `HeadersAreCurrent` |
| `XmlInv` | the open elements follow the run | `DocumentsAreWellFormed` |

- Subcases are found by running again, so what a pass skips must be left for
  another. After a skip the stack is shorter than the deepest level entered
  (`AboveDeepest`): so every later constructor finds the level entered and skips
  too, and no destructor marks a path as passed. The flag lives on past the last
  pass only when the run is being aborted (`LastTest`).
- Threads other than main work only between a `pthread_create` and its
  `pthread_join` (`Confined`), so that `run` itself is alone: the counters are read
  when nothing is left to count (`Uncounted`, `HalfCounted`), and the reporters are
  told of the course of the run when nobody logs.
- A reporter's own stack and the run's differ by one entry between the change of the
  one and the report to the other, `phase` says in which direction. The XML
  document's open elements are determined by `phase` and the depth of the stack
  (`OpenElements`), one more while a thread logs; each operator of `XmlReporter` is
  a lemma about that number.
- `CalmInv` is what makes the handler's end of the document right: of a crash that
  comes while no other thread makes an assertion, and not between a change of the
  stack and its report.

**`DoctestPassProofs`**. What compares a run with a whole test function, or with all the
test cases, needs to know what has been done so far. Three more parts, each inductive
with `CoreInv` (`LeavesInv` also with `SelectionInv`, for the options' types), make it `IInv` (`Inductive`):

| Part | Says | Theorem from it |
|---|---|---|
| `SelectionInv` | what was counted, listed and run is what the masks and the range select of the test cases so far | `SelectionIsRun` |
| `ContextsInv` | main's contexts are the INFOs around its statement, less those it is just leaving; what an exception has destroyed is kept as text, in reverse | `ContextsAreCurrent` |
| `LeavesInv` | the stack is the path of the blocks main is in; a leaf was entered once if it is passed or being run, and not at all otherwise; what is passed has no path in it that is not | `EachLeafIsEnteredOnce` |

- The reference definitions (`Covering`, `Path`, `SelectedUpTo`) all collect positions in
  order. `InOrder` does it by a recursive function over positions, so facts about it
  are inductions over a number, done with the least counterexample: there is one
  (`LeastNatural`), and the step excludes it. `InOrderNext`, `InOrderSame` and
  `InOrderGap` are those the other lemmas use.
- Blocks nest (`BlocksNest`), so the blocks around a statement, and the INFOs in whose
  scope it is, change by one at an `open`, a `close` or an `INFO`, and not elsewhere
  (`PathBlock`, `PathSame`, `CoveringSkip`, `CoveringClose`). A skipped block leaves both
  as they were at its `open`.
- `MasksAreRight`: `wildcmp` gives up all but the last `*`. That is right because a match
  that an earlier `*` could begin later, the later one can begin later as well:
  `scan` at `(s, w)` is true exactly when the rest of the mask from `w` can stand for the
  rest of the name from `s` or from some later position (`ScansIs`). The hypothesis,
  `NameAndMask`, says that a name has no NUL in it.
- `LeavesInv` follows a pass. Each path entered in a pass extends those entered before it, and
  the stack stays a prefix of it (`maxLevel`, `Trail`), so a path is marked as passed at
  the end of its block unless something was skipped; and after a pass that skipped
  nothing every admitted path is passed. What is passed is closed under the paths in
  it, so a leaf entered once is never entered again.
- That a leaf is entered *at least* once needs `Uniform`: a SUBCASE that main comes by
  again, in a loop, has the same SUBCASEs in it. Otherwise it can be marked as passed
  before what it contains the second time was ever reached, and doctest, which knows a
  subcase by its name and line, does not see the difference. TLC's program with a loop
  is uniform; that no leaf is run twice holds of the others too.

`ProgramsAssumption` says what a program is: finitely many test cases, whose names,
suites and files are C strings, so without a NUL, as are the names of subcases; a
subcase's block ends after it began and is nested in the one around it, as C++ scopes
are; and between a `pthread_create` and its `pthread_join` main itself makes no more than
assertions that cannot throw. The last is so in every test of the repository that
starts threads (`testQueue.cpp:104-112`, `testGuard.cpp:42-58`: main joins at once).
Without it main could leave the test function with threads at work, whose
assertions would then count for the next test case. `DoctestAssumption` says that
the threads are finitely many, distinct from main, that `first` and `last` have values of an
`unsigned` and `abort-after` and `subcase-filter-levels` of an `int`, and that the masks
are strings; `WidthAssumption`, that `INT_MAX`, from which the widths are made, is positive.

**Only model-checked:**

- The violated properties, and all liveness (`ImplementsFairFifo`,
  `EveryMemberTaken`, `ImplementsFairEcho`, `EveryRecvReturns`, `ImplementsFairRoom`,
  `AcceptedRecvReturns`, `TestEnds`, `RunEnds`), which under fairness is beyond the
  prover.

Every invariant and every action property of the passing runs, and the safety part of each
refinement, is proved.
A leaf that names its prover (`SMTT(30)`, `ZenonT(40)`) is one that comes near the prover's
usual time limit.

## Where the code and what is said of it differ

| Run | What is said | What the code does |
|---|---|---|
| `queue_size` | `queue.hpp:74`: `Size` "returns the size of the queue" | `private_deQ` never decrements `size` |
| `ao_survives` | `Readme.md:9`: any number of clients beside each other | ending one makes `listenAO` send it replies until SIGPIPE ends the server under the rest |
| `ao_limit` | `selectclient.cpp:21`: 1024 is what can be received at once | the client receives 1023; a reply of 1024 is one byte off from then on |
| `guard_checks` | `testGuard.cpp:39`: "if this test case wouldn't have worked then our guard functionallity is bad" | the second thread may overtake the first on its way to the lock; a `CHECK` then fails with a guard that excludes |
| `select_everyone` | `selectserver.cpp:77`: "send to everyone!" | a client that does not read blocks the only thread |

Some properties that hold say in what the code falls short of what one might expect,
where nothing in the repository claims otherwise, save a comment on the third:

- `SameSingleton` holds only of calls that did not meet between check and store, and
  `ValidUntilDestroyed` only until `Destroy`.
- `RunEnds` excepts a signal that comes while the main thread holds a reporter's mutex,
  in the report of an assertion, a message, a subcase or an exception that leaves a
  subcase: the handler then waits for the mutex its own thread holds.
- `ImplementsRoom` has a client hear its own messages as all others do, where a comment
  (`selectserver.cpp:79`) says "except the listener and ourselves": the send loop leaves
  out only the listener. The client relies on it, since it waits for a reply to each
  text (`AcceptedRecvReturns`, which the mutant `TargetsButSelf` breaks).
- `LettersInOrder` lets a client be sent letters it never typed, which memory held
  behind a text that TCP had split.
- `XmlWellFormed` excepts a crash report made beside other threads' assertions, or
  between a change of the subcase stack and the report of it.
- `EachLeafOnce` promises no more than at most one entry where a SUBCASE in a loop has
  others in it the second time.
- `AbortIsPrompt` excepts messages and threads: `FAIL_CHECK` does not look at
  `abort-after`.

## What is not modelled

- `destroy_AO`, `destroyQ` and `~queue`, `RemoveHandler`: nothing in the program
  calls them.
- `top`, which reads the head without waiting; only tests call it.
- Setting up sockets, name resolution, the SIGCHLD handler (there are no
  children), printing.
- Failing allocation, failing `pthread_create`; `handlers` beyond its 64 entries
  (`SelectServer` assumes `MaxFd < 64`).
- Lines of 1024 characters and more, and end of input, in the client.
- Nested guards: the repository has none.
- doctest's `String`, stringification of values, `Approx`, exception translators
  (an exception is one the assertion asked for or another), INFO contexts inside
  asserted expressions, template test cases, listeners, colour, wording and layout
  of the output, XML escaping, the Windows branches and the debugger's. These
  transform text or are alternatives to what is modelled; none changes which test
  cases run, what is counted or who waits for whom.
- The straight-line test cases of `testQueue.cpp` and `testAO.cpp`, and
  `testSingleton.cpp`'s mapping of a file. (`testAO.cpp` passes the conversions a
  `char *`; the cast to a capsule they begin with is outside what `Ciphers` says.)

## Plan

Done: the queue, the conversions, both servers with their clients, the guard, the
singleton and doctest's run are modelled and checked, and the invariants and
refinements listed above proved.

What is left, the most important first:

1. `AOLifecycle`: `destroy_AO` and `destroyQ` beside threads in `enQ` and `deQ`, with
   cancellation at the points POSIX names; a reuse of `Queue`'s actions.
2. A composition of `Queue` with the threads of one connection, to check on one
   instance the replacement of `enQ` and `deQ` by single steps that `AOServer` makes.
3. `RemoveHandler` in `SelectServer`, as an operation any handler may call.
