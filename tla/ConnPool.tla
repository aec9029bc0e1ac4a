------------------------------ MODULE ConnPool ------------------------------
(***************************************************************************)
(* soaagent/conn_pool.c: the pool of connections to one provider node, used *)
(* by the agent's worker threads, by the thread that closes idle            *)
(* connections and by the thread that destroys the pool of a node that has  *)
(* left.                                                                    *)
(*                                                                          *)
(* Every pool_ operation holds pool->lock from its first to its last access *)
(* to the lists (the connect of pool_require_connection included), so each  *)
(* one is a single step.  conn_reconnect is called by the worker that holds *)
(* the connection and takes no lock: its close and its socket/connect are   *)
(* two steps, and the descriptor may be handed out to another connection in *)
(* between.                                                                 *)
(*                                                                          *)
(* The order of used_conn_list is never observed (it is counted, appended   *)
(* to, and deleted from by address): it is the set `used'.  The order of    *)
(* unused_conn_list decides which connection is handed out and which one is *)
(* closed: it is the sequence `unused'.                                     *)
(***************************************************************************)
EXTENDS Integers, Sequences, FiniteSets

CONSTANTS
    Workers,          \* threads that run invoke_service
    Conns,            \* addresses malloc can return for a conn_obj
    Fds,              \* the process's descriptors
    NoConn, NoFd,     \* NULL, and the -1 of a failed socket()
    InitConns,        \* init_conn_num
    MinConns,         \* min_conn_num
    MaxConns,         \* max_conn_num
    IdleLimit,        \* max_idle_secs * 2, in ticks of the clock
    UIntMod,          \* 2^32: the range of the unsigned time difference
    MaxClock,         \* bound: readings of gettimeofday are 0..MaxClock
    ClockMayStepBack, \* the wall clock may be set back
    DestroyTries      \* attempts of pool_destroy_thd_func (10 * 5)

ASSUME PoolConfig ==
    /\ InitConns \in Nat /\ MinConns \in Nat /\ MaxConns \in Nat
    /\ IdleLimit \in Nat /\ DestroyTries \in Nat /\ MaxClock \in Nat
    /\ UIntMod \in Nat /\ UIntMod > MaxClock
    /\ ClockMayStepBack \in BOOLEAN

ASSUME NullValues == NoConn \notin Conns /\ NoFd \notin Fds

VARIABLES
    phase,      \* of the pool: see Phases
    left,       \* iterations left of pool_init's loop, or of the destroy thread's
    unused,     \* unused_conn_list
    used,       \* used_conn_list
    sock_fd,    \* conn->sock_fd of each allocated connection
    last_used,  \* conn->last_used_time
    open,       \* descriptors that socket() returned and nobody closed
    step,       \* what a worker does: "out", "work" or "reopen"
    holds,      \* the connection a worker got from pool_require_connection
    now,        \* the wall clock
    setBack     \* history: the clock was set back

pool == <<phase, left, unused, used>>
socks == <<sock_fd, last_used, open>>
work == <<step, holds>>
vars ==
    <<phase, left, unused, used, sock_fd, last_used, open, step, holds, now, setBack>>

\* In pool_init; in the table; with the destroying thread; emptied by pool_destroy, which
\* has unlocked it; freed with its node; given up by the destroying thread.
Phases == {"init", "live", "retiring", "emptied", "destroyed", "abandoned"}

Idle == {unused[i] : i \in 1..Len(unused)}
Allocated == Idle \cup used
PoolSize == Len(unused) + Cardinality(used)

-----------------------------------------------------------------------------
(***************************************************************************)
(* Connections.                                                             *)
(***************************************************************************)

\* conn_connect gets descriptor fd and connect() succeeds.
Connects(c, fd) ==
    /\ fd \in Fds \ open
    /\ open' = open \cup {fd}
    /\ sock_fd' = [sock_fd EXCEPT ![c] = fd]
    /\ last_used' = [last_used EXCEPT ![c] = now]

\* The descriptor conn_connect is left with when connect() fails: the one socket()
\* returned, which nobody closes, or -1 when the process has none left.
FailedSocket(fd) ==
    \/ fd \in Fds \ open /\ open' = open \cup {fd}
    \/ fd = NoFd /\ open = Fds /\ UNCHANGED open

\* get_time_difference: end_time - begin_time as an unsigned int.
TimeDifference(begin, end) == (end - begin) % UIntMod

\* Mutant: the limit is reached, not passed.
IsIdleTimeoutEarly(c) == TimeDifference(last_used[c], now) >= IdleLimit

IsIdleTimeout(c) == TimeDifference(last_used[c], now) > IdleLimit

\* LL_DELETE of the i-th element.
DeleteAt(s, i) == [j \in 1..(Len(s) - 1) |-> IF j < i THEN s[j] ELSE s[j + 1]]

-----------------------------------------------------------------------------
(***************************************************************************)
(* pool_init: init_conn_num attempts; a connection that cannot be made is   *)
(* freed and its descriptor forgotten.  No other thread knows the pool yet. *)
(***************************************************************************)
InitConnect(c, fd) ==
    /\ phase = "init" /\ left > 0
    /\ c \in Conns \ Allocated
    /\ Connects(c, fd)
    /\ unused' = Append(unused, c)
    /\ left' = left - 1
    /\ UNCHANGED <<phase, used, step, holds, now, setBack>>

InitConnectFails(fd) ==
    /\ phase = "init" /\ left > 0
    /\ FailedSocket(fd)
    /\ left' = left - 1
    /\ UNCHANGED <<phase, unused, used, sock_fd, last_used, step, holds, now, setBack>>

InitDone ==
    /\ phase = "init" /\ left = 0
    /\ phase' = "live"
    /\ UNCHANGED <<left, unused, used, socks, work, now, setBack>>

(***************************************************************************)
(* pool_require_connection: the first idle connection, else a new one, else *)
(* NULL.  A worker that looked the pool up before it was taken out of the   *)
(* table may still come here afterwards, also when pool_destroy, for whose  *)
(* lock it waited, has emptied the pool and is about to return.  After that *)
(* the lock itself is destroyed and freed: the pool has no behaviour any    *)
(* more, and neither this operation nor the release is modelled there       *)
(* (ResourceMgt counts who gets that far).                                  *)
(***************************************************************************)
CanRequire(w) ==
    /\ phase \in {"live", "retiring", "emptied", "abandoned"}
    /\ step[w] = "out"

Granted(w, c) ==
    /\ used' = used \cup {c}
    /\ holds' = [holds EXCEPT ![w] = c]
    /\ step' = [step EXCEPT ![w] = "work"]
    /\ UNCHANGED <<phase, left, now, setBack>>

\* Mutant: without the LL_DELETE from unused_conn_list.
RequireIdleKeepsListed(w) ==
    /\ CanRequire(w)
    /\ unused # <<>>
    /\ Granted(w, Head(unused))
    /\ UNCHANGED <<unused, socks>>

RequireIdle(w) ==
    /\ CanRequire(w)
    /\ unused # <<>>
    /\ Granted(w, Head(unused))
    /\ unused' = Tail(unused)
    /\ UNCHANGED socks

\* Mutant: total_count <= max_conn_num.
RequireNewOverLimit(w, c, fd) ==
    /\ CanRequire(w)
    /\ unused = <<>> /\ PoolSize <= MaxConns
    /\ c \in Conns \ Allocated
    /\ Connects(c, fd)
    /\ Granted(w, c)
    /\ UNCHANGED unused

RequireNew(w, c, fd) ==
    /\ CanRequire(w)
    /\ unused = <<>> /\ PoolSize < MaxConns
    /\ c \in Conns \ Allocated
    /\ Connects(c, fd)
    /\ Granted(w, c)
    /\ UNCHANGED unused

RequireNewFails(w, fd) ==
    /\ CanRequire(w)
    /\ unused = <<>> /\ PoolSize < MaxConns
    /\ FailedSocket(fd)
    /\ UNCHANGED <<pool, sock_fd, last_used, work, now, setBack>>

RequireExceedsMax(w) ==
    /\ CanRequire(w)
    /\ unused = <<>> /\ PoolSize >= MaxConns
    /\ UNCHANGED vars

(***************************************************************************)
(* pool_release_connection(pool, conn, 1), the one call in the agent.       *)
(***************************************************************************)
\* Mutant: the connection goes back to the front of the list.
ReleaseToFront(w) ==
    /\ step[w] = "work" /\ phase # "destroyed"
    /\ used' = used \ {holds[w]}
    /\ unused' = <<holds[w]>> \o unused
    /\ last_used' = [last_used EXCEPT ![holds[w]] = now]
    /\ holds' = [holds EXCEPT ![w] = NoConn]
    /\ step' = [step EXCEPT ![w] = "out"]
    /\ UNCHANGED <<phase, left, sock_fd, open, now, setBack>>

Release(w) ==
    /\ step[w] = "work" /\ phase # "destroyed"
    /\ used' = used \ {holds[w]}
    /\ unused' = Append(unused, holds[w])
    /\ last_used' = [last_used EXCEPT ![holds[w]] = now]
    /\ holds' = [holds EXCEPT ![w] = NoConn]
    /\ step' = [step EXCEPT ![w] = "out"]
    /\ UNCHANGED <<phase, left, sock_fd, open, now, setBack>>

(***************************************************************************)
(* conn_reconnect by the worker that holds the connection: conn_disconnect, *)
(* which leaves the closed descriptor in conn->sock_fd, then conn_connect.  *)
(***************************************************************************)
ReconnectClose(w) ==
    /\ step[w] = "work"
    /\ open' = open \ {sock_fd[holds[w]]}
    /\ step' = [step EXCEPT ![w] = "reopen"]
    /\ UNCHANGED <<pool, sock_fd, last_used, holds, now, setBack>>

ReconnectOpen(w, fd) ==
    /\ step[w] = "reopen"
    /\ Connects(holds[w], fd)
    /\ step' = [step EXCEPT ![w] = "work"]
    /\ UNCHANGED <<pool, holds, now, setBack>>

ReconnectFails(w, fd) ==
    /\ step[w] = "reopen"
    /\ FailedSocket(fd)
    /\ sock_fd' = [sock_fd EXCEPT ![holds[w]] = fd]
    /\ step' = [step EXCEPT ![w] = "work"]
    /\ UNCHANGED <<pool, last_used, holds, now, setBack>>

(***************************************************************************)
(* pool_check, by conn_check_thd_func, on a pool that is in the table: when *)
(* no connection is used, the first idle one past the limit is closed.      *)
(***************************************************************************)
FirstIdleTimeout(i) ==
    /\ i \in 1..Len(unused) /\ IsIdleTimeout(unused[i])
    /\ \A j \in 1..(i - 1) : ~IsIdleTimeout(unused[j])

\* Mutant: the closed connection stays on the list.
PoolCheckKeepsClosed ==
    /\ phase = "live"
    /\ used = {} /\ Len(unused) - MinConns > 0
    /\ \E i \in 1..Len(unused) :
         /\ FirstIdleTimeout(i)
         /\ open' = open \ {sock_fd[unused[i]]}
    /\ UNCHANGED <<pool, sock_fd, last_used, work, now, setBack>>

PoolCheck ==
    /\ phase = "live"
    /\ used = {} /\ Len(unused) - MinConns > 0
    /\ \E i \in 1..Len(unused) :
         /\ FirstIdleTimeout(i)
         /\ open' = open \ {sock_fd[unused[i]]}
         /\ sock_fd' = [sock_fd EXCEPT ![unused[i]] = NoFd]
         /\ unused' = DeleteAt(unused, i)
         /\ last_used' = [last_used EXCEPT ![unused[i]] = 0]
    /\ UNCHANGED <<phase, left, used, work, now, setBack>>

(***************************************************************************)
(* node_resource_delete takes the node out of the table and starts          *)
(* pool_destroy_thd_func, which calls pool_destroy until it succeeds or the *)
(* attempts run out; then nobody closes the pool's connections any more.    *)
(* pool_destroy unlocks the pool when it has emptied it; the mutex and the  *)
(* node, of which the pool is a part, go in a step of their own.            *)
(***************************************************************************)
Retire ==
    /\ phase = "live"
    /\ phase' = "retiring" /\ left' = DestroyTries
    /\ UNCHANGED <<unused, used, socks, work, now, setBack>>

\* Mutant: the loop does not count.
DestroyFailsForever ==
    /\ phase = "retiring" /\ left > 0
    /\ used # {}
    /\ UNCHANGED vars

DestroyFails ==
    /\ phase = "retiring" /\ left > 0
    /\ used # {}
    /\ left' = left - 1
    /\ UNCHANGED <<phase, unused, used, socks, work, now, setBack>>

\* Mutant: the used connections are not counted first.
DestroyUncounted ==
    /\ phase = "retiring" /\ left > 0
    /\ phase' = "emptied" /\ unused' = <<>>
    /\ open' = open \ {sock_fd[c] : c \in Idle}
    /\ sock_fd' = [c \in Conns |-> IF c \in Idle THEN NoFd ELSE sock_fd[c]]
    /\ UNCHANGED <<left, used, last_used, work, now, setBack>>

Destroy ==
    /\ phase = "retiring" /\ left > 0
    /\ used = {}
    /\ phase' = "emptied" /\ unused' = <<>>
    /\ open' = open \ {sock_fd[c] : c \in Idle}
    /\ sock_fd' = [c \in Conns |-> IF c \in Idle THEN NoFd ELSE sock_fd[c]]
    /\ last_used' = [c \in Conns |-> IF c \in Idle THEN 0 ELSE last_used[c]]
    /\ UNCHANGED <<left, used, work, now, setBack>>

\* pthread_mutex_destroy, the return to the destroying thread and its free(node).
FreePool ==
    /\ phase = "emptied"
    /\ phase' = "destroyed"
    /\ UNCHANGED <<left, unused, used, socks, work, now, setBack>>

DestroyGivesUp ==
    /\ phase = "retiring" /\ left = 0
    /\ phase' = "abandoned"
    /\ UNCHANGED <<left, unused, used, socks, work, now, setBack>>

(***************************************************************************)
(* gettimeofday: the time of day, which an administrator or NTP may set     *)
(* back.                                                                    *)
(***************************************************************************)
Tick ==
    /\ now < MaxClock
    /\ now' = now + 1
    /\ UNCHANGED <<pool, socks, work, setBack>>

ClockSetBack ==
    /\ ClockMayStepBack /\ now > 0
    /\ now' = now - 1
    /\ setBack' = TRUE
    /\ UNCHANGED <<pool, socks, work>>

-----------------------------------------------------------------------------
Init ==
    /\ phase = "init" /\ left = InitConns
    /\ unused = <<>> /\ used = {}
    /\ sock_fd = [c \in Conns |-> NoFd]
    /\ last_used = [c \in Conns |-> 0]
    /\ open = {}
    /\ step = [w \in Workers |-> "out"]
    /\ holds = [w \in Workers |-> NoConn]
    /\ now = 0 /\ setBack = FALSE

WorkerNext(w) ==
    \/ RequireIdle(w)
    \/ \E c \in Conns, fd \in Fds : RequireNew(w, c, fd)
    \/ \E fd \in Fds \cup {NoFd} : RequireNewFails(w, fd)
    \/ RequireExceedsMax(w)
    \/ Release(w)
    \/ ReconnectClose(w)
    \/ \E fd \in Fds : ReconnectOpen(w, fd)
    \/ \E fd \in Fds \cup {NoFd} : ReconnectFails(w, fd)

DestroyerNext == DestroyFails \/ Destroy \/ FreePool \/ DestroyGivesUp

PoolInit ==
    \/ \E c \in Conns, fd \in Fds : InitConnect(c, fd)
    \/ \E fd \in Fds \cup {NoFd} : InitConnectFails(fd)
    \/ InitDone

Next ==
    \/ PoolInit
    \/ \E w \in Workers : WorkerNext(w)
    \/ PoolCheck
    \/ Retire
    \/ DestroyerNext
    \/ Tick
    \/ ClockSetBack

Spec == Init /\ [][Next]_vars

-----------------------------------------------------------------------------
(***************************************************************************)
(* Properties.                                                              *)
(***************************************************************************)

\* Every variable has its type.
TypeOK ==
    /\ phase \in Phases
    /\ left \in Nat
    /\ unused \in Seq(Conns)
    /\ used \in SUBSET Conns
    /\ sock_fd \in [Conns -> Fds \cup {NoFd}]
    /\ last_used \in [Conns -> Nat]
    /\ open \in SUBSET Fds
    /\ step \in [Workers -> {"out", "work", "reopen"}]
    /\ holds \in [Workers -> Conns \cup {NoConn}]
    /\ now \in Nat /\ setBack \in BOOLEAN

\* Exclusive use: no connection is on both lists or twice on the idle list, the used
\* connections are exactly the ones some worker holds, and no two workers hold the same one.
\* A connection shared by two invoke_service calls would interleave their bytes.
ExclusiveUse ==
    /\ \A i, j \in 1..Len(unused) : unused[i] = unused[j] => i = j
    /\ Idle \cap used = {}
    /\ used = {holds[w] : w \in {x \in Workers : step[x] # "out"}}
    /\ \A v, w \in Workers : holds[v] = holds[w] /\ holds[v] # NoConn => v = w

\* The pool never holds more connections than configured.
SizeBound == PoolSize <= IF InitConns > MaxConns THEN InitConns ELSE MaxConns

\* A descriptor some connection of the pool would use is open and belongs to that
\* connection alone, although conn_reconnect frees its number for other connections while
\* conn->sock_fd still names it.
Reopening(c) == \E w \in Workers : step[w] = "reopen" /\ holds[w] = c
OwnsDescriptor(c) == c \in Allocated /\ ~Reopening(c) /\ sock_fd[c] # NoFd

DescriptorsExclusive ==
    /\ \A c \in Conns : OwnsDescriptor(c) => sock_fd[c] \in open
    /\ \A c, d \in Conns :
         OwnsDescriptor(c) /\ OwnsDescriptor(d) /\ sock_fd[c] = sock_fd[d] => c = d

\* pool_destroy takes the connections of the pool away only in a step in which no worker
\* has one: a worker that has a connection of an emptied or a freed pool got it after the
\* pool was emptied.  It takes all of them away.
PoolEmptied == phase = "retiring" /\ phase' = "emptied"

EmptiesUnused ==
    [][PoolEmptied => Allocated' = {} /\ \A w \in Workers : step[w] = "out"]_vars

\* Unless the clock was ever set back, the idle list is ordered from the longest idle to the
\* latest used, so taking the first for work and closing the first past the limit are
\* what their names say.
OldestFirst ==
    ~setBack => \A i, j \in 1..Len(unused) :
                  i < j => last_used[unused[i]] <= last_used[unused[j]]

\* Only pool_check takes an idle connection out of the pool before pool_destroy empties it,
\* and it closes only connections that have been idle for longer than the limit, as far as
\* the clock can tell: when the clock stands before the last use, the unsigned difference
\* wraps and the connection counts as idle for very long.
ClosesOnlyLongIdle ==
    [][\A c \in Idle : c \notin Allocated' /\ ~PoolEmptied
          => now - last_used[c] > IdleLimit \/ now < last_used[c]]_vars

-----------------------------------------------------------------------------
(***************************************************************************)
(* The thread that destroys a pool never stops before its loop ends.        *)
(***************************************************************************)
FairSpec == Spec /\ WF_vars(DestroyerNext)

\* The pool of a node that left is freed or given up, whatever the workers do.
RetirementEnds == phase = "retiring" ~> phase \in {"destroyed", "abandoned"}
=============================================================================
