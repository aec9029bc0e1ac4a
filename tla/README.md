# Verification of the service framework

TLA+ models of the agent in `src/soaagent` and of the provider side in
`src/soaregister`, TLC runs that check them on small
instances, and TLAPS proofs of the main safety properties for every instance.
`PROJECT.json` lists the runs, maps each definition to the lines it models, and
holds the hazards and findings that this text refers to.

## The system

A provider process (PHP, extension `soaregister`) registers an ephemeral node
`/<group>/providers/<description>` in ZooKeeper; the node's name is the URL-encoded
JSON of its host, port and services. On each consumer machine an *agent*
(`soaagent`, C, multithreaded) learns of the providers of the services its
`declares.json` names, keeps a pool of connections to each of them, and forwards the
requests that local PHP processes (extension `soaprotobuf`) send it over a Unix
socket (the shipped configuration has a TCP address there, and the code supports no
other).

| Component | State | Operations | Used by |
|---|---|---|---|
| Connection pool, `conn_pool.c` | idle and used list, sockets, last use | init, require, release, reconnect, check, destroy | workers, checker thread, destroying thread |
| Node and service tables, `resource_mgt.c`, `str_array.c` | node key to pool; service key to node keys | `resource_add`, `resource_delete`, look-ups | discovery (under the modify lock), workers (table locks only) |
| Invocation, `invoke_stub.c`, `protocol.c` | identifier counter, call in progress | `invoke_service` | server workers |
| Discovery, `invoke_stub.c`, `service_conf.c`, `zk_handle.c` | filters, mapping of each group, watches, file time | `watch_declared_services`, `my_zk_watcher_marshal`, `children_change_func_impl` | main thread, signal thread, ZooKeeper completion threads |
| Bytes of a call, `util.c`, `protocol.c` | what of a part is transferred, the timeout | `socket_send`, `socket_receive`, `receive_message` | `invoke_service` |
| Proxy server, `server.c`, `proxy_message.c` | client connections, their buffers, the round-robin counter | accept, hand over, read, error | main thread, workers |
| Start-up and signals, `main.c` | stage of the process, pid file | SIGUSR1 status, SIGUSR2 refresh | operator |
| Control script, `agent.sh` | - (the pid file is all it knows) | start, stop, restart, monitor, clear | operator, cron |
| Configuration, `conf.c`, `iniparser.c`, `dictionary.c` | slots of keys and values | load, look up, set, unset, dump | all, read-only after start-up |
| Provider registration, `soaregister/service_mgt.c`, `zk_handle.c`, `scp.c` | session, ephemeral node, the library's log stream | register, register again, end of the module | PHP thread, ZooKeeper completion threads |
| Log of the PHP extension, `soaregister/log.c` | file handle, its name and inode | open, write with the switch of the file, close | the same threads |
| Descriptions, `url_encode.c`, `cJSON.c` | - | encode, decode, parse | provider and agent |

Calls go down the table: a server worker calls `invoke_service`, which looks up a
service, a node and a connection. Discovery calls `resource_add` and
`resource_delete`, which create pools and start the threads that destroy them.

What is hard to test in it:

* bare pointers carried from one critical section to the next (service, key, node,
  connection) while other threads free what they point to;
* `conn_reconnect` outside the pool's lock, with descriptor numbers handed out again;
* responses that arrive after their call gave up, on a connection somebody else gets;
* one-shot watches, sessions that expire, and reads applied in another order than they
  were made, by up to three threads;
* a provider that stops in the middle of a response, and requests that arrive together;
* completion threads that replace the handle everybody uses, and the end of the module
  meanwhile; a log file that is switched under a lock that does not cover the write;
* a description that is cut on its way, at any byte;
* a script that knows a pid and nothing else;
* a clock that is set back, a key that does not fit its field, a file that is edited
  while it is loaded.

## Modules

### ConnPool (`conn_pool.c`, `pool_destroy_thd_func`)

One pool. Each `pool_*` operation is one step because it holds `pool->lock`
throughout; `conn_reconnect` is two steps (`ReconnectClose`, `ReconnectOpen` or
`ReconnectFails`) because it holds none. `unused` is the sequence
`unused_conn_list`, `used` the set of the used ones, `open` the descriptors of the
process: a failed `connect()` leaves its descriptor there, as the code does. `phase`
follows the pool from `pool_init` over its life in the table to the destroying thread,
which succeeds or gives up. `pool_destroy` counts the used connections, empties the pool and
unlocks it (`conn_pool.c:221`) in one step, `Destroy`; the mutex and the node, of which the
pool is a part, go in a later one (`FreePool`, `resource_mgt.c:94`). Workers that looked the
pool up before it was taken out of the table may come to it in every phase before
"destroyed", also in "emptied", when they waited for the lock that `pool_destroy` held: they
open a new connection there and work with it while the pool is freed. `setBack` is history.

### ResourceMgt (`resource_mgt.c`, `str_array.c`, the look-ups of `invoke_service`)

The two tables, with one step per section under `nodes_pool_lock` or `service_pool_lock`.
Writers apply one change at a time under the modify lock. Workers go from section to section
with bare pointers; an object is an address that `malloc` may return again, and `dangling` holds
the workers whose pointer is to freed memory. A worker that follows such a pointer stops in the
place "undefined". `string_array_next` may return any element of the array, which covers every
value of its counter; which one it returns is in StrArray. `pthread_create` may fail, which
leaks the node. As in ConnPool, the pool of a node is emptied (`DestroyPool`) some time before
the node is freed (`FreeNode`); `late` holds the workers that took a connection in between.

### StrArray (`str_array.c`)

The array of one service with its unsigned counter, which goes on when nodes are added or
erased and starts over at the end of its range. Each function is one step, because
`resource_mgt.c` calls it under its lock. How often each string was returned since the array
changed is history.

### InvokeStub (`invoke_service`, `protocol.c`, `next_identifier`)

The calls over one pool, which is an instance of ConnPool, and the two ends of each
socket: what the provider was asked and has not answered, and what the agent has not
read. `++counter` on the volatile is a load and a store. A response may be half read,
fail the check sum, come late, or never come; the provider may close. A message carries the
call and the attempt it belongs to, which the code cannot see, so that what the first attempt of a
call left can be told from what belongs to its second. The pool's
checker and destroyer are left out here: they touch idle connections only
(`ExclusiveUse`), and closing one can only discard what is unread.

### Discovery (`watch_declared_services` and the watcher; `service_conf.c`)

Thread 0 starts the agent and later refreshes on SIGUSR2. Thread k is the completion
thread of the k-th ZooKeeper session. The thread that handles an expired session
replaces the handle and declares all services again itself, while the completion thread
of the new session already runs. ZooKeeper is external: a read returns the children and
sets a one-shot watch; a change queues one event per context with a watch; the end of a
session takes the watches and queues one event for the handle and one for each watch, because
the client library calls the watcher of each and they are all one function. The first of these
calls opens a new session; each of the others closes it, with its watches and what is in its
queue (`CloseSession`), and opens another. Applying a list takes the modify lock,
diffs against the mapping, notifies one entry at a time (deletions first), and replaces
the mapping. Assumptions about the environment are CONSTANTS, so that each run says
what it needs: `MayOverlap`, `ReadsMayFail`, `ReinitMayFail`, `FreshGroups`,
`LongGroups`, `MayEditInRefresh`.

### Server over SocketIO (`server.c`; `util.c`, `protocol.c`)

SocketIO is the bytes of an attempt: `send()` and `recv()` transfer any part, `select()` guards
the first byte of the header and of the body, and `recv()` is repeated without a limit after it
(`Stalled`). Server extends it with the main thread, which starts the workers, accepts and
writes the descriptor into a worker's socket pair, and with the callbacks of the workers. A
stream is a sequence of pieces, a header or a body, so that a cut anywhere is between two
pieces; a worker handles no event while `invoke_service` runs. A call that failed for good puts
its connection back as it is (`invoke_stub.c:410-417`): from then on (`spoiled`) any call may
start on a connection that first brings some bytes of earlier answers (`before`), and reads them
as its header; a reconnect removes them. libevent, clients and providers are external.

### Provider over LogFile (`soaregister`)

LogFile has one step for each part of `log_write`: the decision in `prepare_log` under
the lock, `fopen`, reading the handle for `fwrite`, and the write itself, which are
outside of it. A FILE is a number, and closing and writing record what was wrong with
it. Provider extends it with the functions of `service_mgt.c` and `zk_handle.c` in
the PHP thread and in the completion threads, one step per request to the registry. A
handle is named like its session. `zookeeper_close` waits for the completion thread
unless that is the caller. A crash loses the memory and leaves the session to the
registry, so that a restarted provider meets the old node.

### Settings over Dictionary, and KeyMap (`iniparser.c`, `dictionary.c`, `conf.c`)

Dictionary has the arrays with their free slots, doubling, and the search for a slot
from `n` on. KeyMap is the abstract specification, a map of which one step changes one
entry, and Dictionary refines it (`Contents`). Settings loads a file line by line into
it. A line is a sequence of tokens and whether it is continued; a token is a name in
brackets, a name with the equals sign, other text, a comment sign, a quote of either kind, or a
backslash. A value in quotes keeps its comment signs and loses its quotes, is dumped without them,
and a dumped line has no limit of its own (`DumpSection`), while the loader refuses one longer
than its buffer: a dump may mean something else than what was dumped. `Meaning` defines
what a file means without reading it in order, as the reference for the loader, and
`DumpIni` is read back through it.

### ConfigItem (`get_config_item`, `substitute` of `util.c`)

A value on its way into the caller's buffer: with `AGENT_HOME` in the environment each
"${AGENT_HOME}" is replaced, one step each, and the rest is copied as far as it fits. The
reference (`Expanded`) says byte by byte what becomes of the value, without a place in it.

### UrlCodec, NodeNames, Json and Description (`url_encode.c`, `cJSON.c`, `register_services`, `children_change_func_impl`)

Operators on sequences of bytes. NodeNames is the way of a text through the encoding, the
buffer of the path, which may cut it, and the decoding; Description adds what the parser
makes of it. The parser returns `Undefined` where the C code reads behind the terminator or
writes more than it allocated. Only the text is state, and grows by pieces, so that TLC goes
through all texts up to the bound. cJSON and `url_encode.c` are the same in both directories.
Json is written with RECURSIVE operators, as the parser is, and with Description for TLC
only. The printers are called by nothing in the repository; they are modelled as the other
half of the round trip.

### AgentControl (`agent.sh`, the order of `main`)

Each invocation of the script goes from look to kill to confirm, or from launch to
verify; each agent process goes through the stages of `main`. The sleeps are not
modelled: an agent may be slower or quicker. `write_pid` is two steps, because `fopen`
empties the file. A pid is used again, also by processes that are no agent. `SamePidFile` says
whether `server:pid_file` of `core.conf` names the script's pid file. As shipped it does not, and
`write_pid` writes a file the script never looks into (`astray` remembers such agents).

How they fit: Discovery's `routes` is what ResourceMgt's tables hold between changes,
with `NotifyAdd` and `NotifyDelete` for the sections of `resource_add` and
`resource_delete`; ResourceMgt's `users` is what ConnPool's `used` is for one node;
InvokeStub instantiates ConnPool; SocketIO is one attempt of InvokeStub in detail, on a
connection of its own; what Provider lists is what Discovery's registry holds, and
Description is what one entry of it says.

## Runs

| Run | Shows |
|---|---|
| `pool` | `ExclusiveUse`, `SizeBound`, `DescriptorsExclusive`, `EmptiesUnused`, `ClosesOnlyLongIdle`, with failing connects, workers that come after the pool was emptied and a clock that is set back; `OldestFirst` until it is; `RetirementEnds` |
| `tables` | `ListedHavePools`, `ServicesNonEmpty`, `NoOrphanPools`, `UniqueEntries`, `NodesInUseAlive`; `Balanced`: calls are spread evenly over the nodes of a service while nodes come and go |
| `key_copy` | violated: the node key is copied after it may have been freed |
| `call` | `RetryOnCleanWire`: a retry never meets what earlier calls, or its own first attempt, left; `OwnAnswerIfIdsDiffer`: a call gets its own answer as long as identifiers differ |
| `discovery` | `RoutesFollowMapping` with every failure allowed |
| `discovery_converges` | `WatchKept` and `Convergence` when reads succeed and do not overlap with changes |
| `server` | `WholeMessage` and `FailsBetweenParts`: what a call takes off the stream however it is cut, with connections that failed calls have put back; `AnsweredInOrder`; `Served` for clients that wait for each answer |
| `provider` | `HandleSafe`, `Listed`, `Relisted`: the registry's handle and entry across expiries, failures, the end of the module and restarts; `SwitchIsAtomic`, `WritesToOpenFile`, `EndsQuietly`: the log file |
| `settings` | `LoadMatchesFile`, `DumpReloads`, and `RefinesMap`; `ReplacesAll` and `StaysInBuffer`: a value that fits has every name replaced, and one that does not is cut inside the buffer; `NamesDecode`: what an agent decodes of a name that is cut anywhere, and that it fits its buffer |
| `formats` | `ReadsBack`: JSON stays in its text and survives printing; `LearnsAllOrNothing`: a description cut anywhere is learnt whole or refused |
| `control` | with `core.conf` corrected to name the script's pid file, `StopReports`: when the report of `stop` is true |
| `control_shipped` | violated (`StopSucceeds`): with the files as shipped `stop` finds no agent, reports success and leaves it running |

`tables` and `settings` check parts that share no variable (MCTables, MCSettings): one of them is at
work while the others are as at the start. Steps of different parts commute, so that their
interleavings would show no other state of a part. The runs `call`, `discovery` and `settings`
also check `TypeOK`, where it relates variables; the other type invariants are proved only.

`key_copy` and `control_shipped` are violated runs; `findings` in `PROJECT.json` quotes, for
each, what the repository says otherwise.

Further configurations show what an assumption of a passing run excludes. TLC finds each
of them violated:

| Configuration | Counterexample |
|---|---|
| `MCInvokeStubIds.cfg` (`AnswerIsOwn`) | two workers draw one identifier from the unsynchronised counter (`util.c:458`), and one gets the late response to the other; `protocol.h:5` says the identifier of a response is that of its request |
| `MCInvokeStubNote.cfg` (`IdleWireClean`) | after the last failed attempt the connection is put back as it is (`invoke_stub.c:410`), against the note at `conn_pool.c:228` |
| `MCDiscoveryOverlap.cfg` (`Convergence`) | a list of children read before a change is applied after the newer one (`invoke_stub.c:72`) |
| `MCDiscoveryFresh.cfg` (`Convergence`) | an agent started before the first provider of a group sets no watch and never finds it (`invoke_stub.c:165`) |
| `MCConnPoolFreed.cfg` (`FreedPoolUnused`) | a worker waits for `pool->lock` while `pool_destroy` empties the pool, takes a connection after the unlock (`conn_pool.c:221`), and has it when the pool is freed (`resource_mgt.c:94`) |
| `MCResourceMgtFreed.cfg` (`NodeOutlivesUse`) | the same seen from the tables: the node is freed under a worker that is in a call with it |
| `MCServerLeft.cfg` (`AlwaysBetweenParts`) | the first attempt on a connection that a failed call put back (`invoke_stub.c:410`) reads the rest of an earlier answer as its header, and gives up in the middle of a message |
| `MCSettingsDump.cfg` (`DumpReloadsAny`) | a value that was in quotes is dumped without them (`iniparser.c:249`), and ends at its comment sign when it is read back |

Several properties state an exception the code has, and hold with it only. `NodesInUseAlive`:
a connection taken between the unlock of the emptied pool and the free of its node.
`OldestFirst`: a clock that was set back. `FailsBetweenParts`: the first attempt on a connection
with bytes of earlier answers to come. `DumpReloads`: values with a comment sign, with a quote in
front or a backslash at the end, and lines that do not fit. `Served`: a
provider that stalls, and requests sent together. `HandleSafe`: a failed
re-initialisation, two threads at a time. `EndsQuietly`: two threads at a time, an end
without a registration. `Listed`: two threads at a time, in its second half. `ReadsBack` and
`LearnsAllOrNothing`: an escape that is cut off. `LoadMatchesFile`: an error that a later
section or value resets. `StopReports`: a second agent, a cleared directory, a pid that went into
another file than the script's. `StaysInBuffer`:
replacements that fill the buffer to its last byte, after which the rest is copied with a
length of -1. `NamesDecode`: a name without any escape, whose decoding has no room for its
terminator. `Balanced`: a counter that starts over, when the number of nodes does not divide
its range.

`ClosesOnlyLongIdle`: when the clock
stands before the last use, the unsigned difference wraps and the connection counts as
long idle. `RoutesFollowMapping`: the key of a group of 49 characters is truncated when
it is stored, so its providers are never deleted.

Every property of a passing run has a mutant: a plausible wrong version of one
definition, kept above it in the module, with which TLC finds the property violated.

### Bounds

* Pool: three workers, one more than the pool has connections, as many connections and
  descriptors as let the pool reach its limit and a freed descriptor be taken by another
  connection; a clock that passes the idle limit and may be set back. The properties relate at
  most two workers, two connections and two descriptors.
* Tables: two of each: two services that share a node, two nodes, two writers, two
  workers, and addresses that are used again after `free`. The destroying thread may
  leak addresses until none is left, so deadlock is not checked.
* Calls: two workers, two connections, up to four calls, one retry as in the code: a
  late response needs one call that gave up and one that comes after it.
* Discovery: two groups, three providers (one of them with two services), two changes, one
  refresh, three sessions, three contents of the file. The overlap of two reads needs one change
  and two threads. An expiry with one watch set takes two more sessions; a session does not
  expire when the calls of the watcher would take more than there are. The run
  `discovery_converges` has one provider per group, two in all. Every behaviour ends when these
  are used up, so deadlock is not checked; `Convergence` says that it ends in the right place.

* Server: two clients, one that sends its requests together, two workers and three
  connections, so that the counter starts over and a worker gets a second connection; one
  worker forwards, which is where bytes and callbacks interleave. Headers of two bytes and
  bodies of up to one: a part is transferred in pieces, and a message has no body. Up to three
  bytes are left by earlier answers: a whole message, or a part of one.
* Provider: three sessions, three events, two openings of the log. A second expiry while
  the watcher of the first is at work, and a restart that meets the old node, both fit.
* Settings: four lines of thirteen kinds, a line that holds five tokens, two changes, an initial
  size of one slot instead of 128, so that the arrays double twice.
* Round robin: up to four nodes and a counter of eight values instead of 2^32, so that the
  number of nodes divides its range, or not; nine picks of one node, in which the counter
  starts over more than once.
* Values of the configuration: values of six bytes, a name of two bytes, so that three names
  fit, homes with a part of the name and with the name in them, buffers from one byte on.
* Names: four bytes of ten kinds, and every cut.
* Formats: five pieces of thirteen kinds, which reach a nested and a repeated name, an
  escape at the end and a surrogate pair.
* Control: two invocations at a time, four commands, two mishaps, three pids. With the files as
  shipped, one invocation, two commands, two pids and no mishap are enough.
* In the runs of this second list every behaviour ends when the bounds are used up or the function
  returns, so deadlock is not checked.

### Fairness

* `ConnPool!FairSpec`: the destroying thread's loop goes on. Nothing is assumed of the
  workers, which may hold connections forever.
* `Discovery!FairSpec`: each thread goes on when it can (weak fairness of its next
  step). Each lock is a mutex that its holder leaves after finitely many steps. Nothing
  is assumed of the registry, the sessions or the operator.

* `Server!FairSpec`: start-up, accept, and each worker's loop go on. Nothing is assumed of
  clients and providers, or about the order in which libevent hands out events.
* `Provider!FairSpec`: the PHP thread and each completion thread go on in the functions
  modelled. Nothing is assumed of the registry or the operator.

## Proofs

Eight modules hold the proofs. They are for all values of the constants, from the named
assumptions of the modules (`PoolConfig`, `NullValues`, `NilIsNoAddress`, `DiscoveryConfig`,
`CallConfig`, `PoolValues`, `TransferConfig`, `ServerConfig`, `LogConfig`, `ProviderConfig`,
`DictionaryConfig`, `SettingsConfig`, `NodeNamesConfig`, `ConfigItemConfig`, `StrArrayConfig`,
`ControlConfig`). TLC evaluates these on the runs.

| Module | Proves | Further hypotheses |
|---|---|---|
| `ConnPool_proofs` | `TypeOK`, every invariant of `pool`, and its action properties `EmptiesUnused` and `ClosesOnlyLongIdle` | none |
| `ResourceMgt_proofs` | `TypeOK` and every invariant of `tables`, `Balanced` among them | none |
| `Discovery_proofs` | `TypeOK`, `RoutesFollowMapping`, `WatchKept` | `WatchKept`: `RegistryAnswers` |
| `InvokeStub_proofs` | `TypeOK`, `RetryOnCleanWire`, `OwnAnswerIfIdsDiffer`, and that InvokeStub refines ConnPool (`UsesPool`) | none; `OwnAnswerIfIdsDiffer` has its premise in the formula |
| `Server_proofs` | `TypeOK`, `WholeMessage`, `FailsBetweenParts`, `AnsweredInOrder` | none |
| `Provider_proofs` | `TypeOK`, `SwitchIsAtomic`, `WritesToOpenFile`, `HandleSafe`, `Listed`, `EndsQuietly` | none |
| `Formats_proofs` | `TypeOK`, the refinement of KeyMap (`RefinesMap`), `LoadMatchesFile`, `DumpReloads`; `ReplacesAll`, `StaysInBuffer`; `NamesDecode` | for the first four `Vocabulary`, and for `DumpReloads` also `Settable` |
| `AgentControl_proofs` | `StopReports`, whatever files are named; `ScriptIsBlind`: with the files as shipped no invocation ever kills an agent or reports one started | `ScriptIsBlind`: that `SamePidFile` is false |

The further hypotheses are about constants, and passing runs satisfy them. `RegistryAnswers`: no
read and no re-initialisation fails, every group has a node, and no content of the file is
malformed; `MayOverlap` and `MayEditInRefresh` are free. With one of them false a group can lose
its watch, which the runs with failures allow for. `Vocabulary`: a line is a sequence of tokens
and whether it is continued, a key is the name of a section and such a sequence, and a value is
such a sequence. `Settable`: a key that `iniparser_set` is given could stand in a file, which is
that it ends with its only equals sign and does not begin with a comment sign. What values and
lines must be like for a dump to be read back is in `DumpReloads` itself (`Dumpable`).

ConnPool's properties are inductive only together: that no two connections share a
descriptor needs that a connection is on one list only, and that the used ones are those
some worker holds (`ExclusiveUse`), with what holds between the two steps of a reconnect.
The bound on the size needs the cardinality of `used`, which is finite because each
step adds one connection. The order of the idle list is proved from the invariant and
from last uses that are not later than the clock until it is set back. `EmptiesUnused` is about
the step under the lock: the used connections are those that workers have, so that the count that
`pool_destroy` makes tells it that no worker has one. Of the time between that step and the free
it says nothing, and nothing holds then (`MCConnPoolFreed.cfg`).

ResourceMgt's invariant says for each place of the writer what is already true of the
tables: when a node key is about to be listed its node is in the table; when a node is
about to be deleted no service lists its key; the object a writer points to is not in a
table yet, or still is, according to its place; and only the holder of the modify lock
is outside "idle". `NodesInUseAlive` needs that `users` of a node are the workers that
work with it, and that those of an emptied node are all in `late`.

StrArray's `Balanced` bounds a difference, and a bound alone is not inductive: one more pick
could exceed it. The invariant (`Spread`) says where the surplus is. Since the last turn that was
left out every node had the same number of rounds, and those in the arc from where the turns began
to the turn that is next had one more. A pick moves the end of the arc by one, around the end of
the array too. When the counter starts over and the turns jump, the arc begins anew and the bound
grows by one; when the number of nodes divides the range they do not jump (`NextRemainder`). That
no string is in the array twice (`Once`) makes a pick count for one place only.

Discovery's `RoutesFollowMapping` speaks of moments with no change in hand. The invariant
adds how far the thread in the modify lock has come on its group (`HalfWay`): what it has
not notified yet is the difference between the tables and the list it is going to put.
That another group is not disturbed needs that the children read and the entries kept
belong to their group (`InTheirGroup`). That `session` stays within its bound follows from the
guards alone.

`WatchKept` says that each declared group has a watch or a read to come. It is inductive with
two facts: when the session has ended, one of its events is still in a queue or a thread is about
to open a new session (`Renewal`), which declares every group again; and a thread that starts a
refresh has nothing left on its list, so that the new list loses no group.

`ClosesOnlyLongIdle` is about a step. Only `pool_check` takes an idle connection away before
the pool is destroyed, and the unsigned difference of two clock values exceeds the limit only
when the difference does or when it wraps (`DifferenceIsBounded`).

InvokeStub composes the calls with the pool. Each of its steps is a step of ConnPool or leaves
the pool alone (`PoolStep`), so the invariant proved there is available (`PoolInvariant`): a
worker's connection is its own, and no other worker has its descriptor. The invariant of the
calls follows what is on its way on each socket (`Traffic`): every request and response
carries the identifier its call has drawn, and a closed socket carries nothing (`WireOK`). The
retry is clean, also of the call's own first attempt, because `conn_reconnect` closes the socket
first. A response with the
worker's identifier was sent for the worker's call, because no two calls drew that
identifier. For this the counter must not wrap, and it is at most the number of identifiers
drawn (`CounterOK`). The counter itself is read and stored in two steps, as in the code.

Server's `AnsweredInOrder` speaks of what a client has received. The invariant follows the
stream from there to the client's last message: what is unread and unsent is a sequence of
messages without a gap (`StreamOK`), every good message before it is answered or being served,
and the answers in the buffer continue those received (`AnswersOK`). That a worker has one
request at a time and that no other worker serves the same client is `ServingOK`. The transfers
have an invariant of their own (`Progress`): what a part still needs and what was read make up
the message, and a receiver that is not past `select()` has read nothing of the part. This is
what makes a failure fall between two parts. It counts from the first byte of the attempt's own
answer, and so holds where `before` is 0, which it is unless a failed call has put a connection
back, and again after every reconnect.

Provider's invariant has two parts. For the log (`LogInv`): with the lock, a handle without an
open FILE is seen by other threads only as a decision to open one, and a line that passed
`prepare_log` keeps an open FILE until another thread replaces or closes it. For the registration
(`StubInv`): of the sessions of the process only the one in `zk_h` is not closed, because whoever
replaces the handle closed it before (`OneSession`); and unless a re-initialisation failed or two
threads met, the handle is good wherever it is about to be used (`GoodWhereUsed`). `EndsQuietly`
needs both: after `zookeeper_close` no completion thread is left that could be in a line.

Settings: `n` is the number of used slots and keys are unique, so that the first slot found is
the only one, and a free slot exists whenever the search for one starts (`SearchEnds`).
`FreeSlot` and `First` choose a least number; that there is one comes from the well-foundedness
of the naturals (`Least`). With the effect of `dictionary_set`, with and without growing, and
of `dictionary_unset` on the arrays (`SetEffect`, `UnsetEffect`), each step is one of KeyMap.

`LoadMatchesFile` compares the contents after loading with `Meaning`, which looks at the whole
file. The invariant `LoadInv` says what is so in the middle: what is pending is the lines since the
last one that was not continued, the section is that of the last heading, the contents are the
meaning of the lines read, and an error is remembered as the code does, including its reset. Each
line then extends the meaning by one assignment (`ReadOn`, `ReadEnd`, `LastWinsNext`). For
`DumpReloads` the invariant is that every key could stand in a file (`LegibleInv`), and
`DumpHolds` goes through the dump line by line: behind each section the meaning of the lines so far
is the map restricted to the sections written.

These are inductions over data. They are done with one lemma on sets of numbers (`Induct`): a set
that holds 0 and with each number the next holds all. Recursive functions (`FlattenSeq`,
`DecodeFrom`) are reasoned about through their equation: that it has a solution up to each number,
and one only (`Solvable`, `SameSolution`, `Decodable`).

`NamesDecode`: the encoding of a byte decodes to that byte whatever stands behind it (`OneByte`,
`DecodedStep`), so that the encoding of a text decodes prefix by prefix (`AllDecoded`). A cut falls
between two bytes or inside an escape (`NameIs`), and what is left of an escape stays as it is
(`RemainsStay`).

ConfigItem: what is written is the expansion of what was read, and `nLeft` is the rest of the
buffer (`LoopInv`). The search from behind one name finds the next name of the whole text because
two names do not overlap (`Apart`), which follows from the first byte of the name being in it once;
`ConfigItemConfig` says this of the name, and "${AGENT_HOME}" satisfies it.

AgentControl: an agent that nothing disturbed is the only one, and once it has written its pid
the script's file has it or it is in `astray` (`UndisturbedIsKnown`); the history variables
never speak of a process whose pid was given again (`HistoryIsOfLiving`).

Only model-checked: liveness (`RetirementEnds`, `Convergence`, `Served`, `Relisted`), which the
prover does not handle; `ReadsBack` and `LearnsAllOrNothing`, which rest on the mutually recursive
operators of Json, where the prover loses its SMT backend.

## Not modelled, and the plan

Not modelled at all: vendored containers, generated protobuf code, the request encoder of the
PHP extension, which wraps it, the demo, and the agent's logging macros. Of the modelled parts:
the status reports, functions that nothing calls (`invoke_stub_destroy`, the two checker
threads of `invoke_stub.c`, `node_require_connection`, `conn_test_its_validation`), the
contents of memory after it was freed, the conversions of configuration values to numbers,
fractions in JSON; of the end of a session, two threads that close the one handle at the same
time, and a new session whose first directory cannot be made.

Next: an abstract routing table that ResourceMgt and Discovery implement, with StrArray for its
choice, and Provider composed with Discovery over one registry.
