----------------------------- MODULE InvokeStub -----------------------------
(***************************************************************************)
(* invoke_service (soaagent/invoke_stub.c) over one node's pool: the        *)
(* identifier, the send and the receive, the retry on a reconnected socket, *)
(* and the release; with soaagent/protocol.c and the provider at the other  *)
(* end of each socket.                                                      *)
(*                                                                          *)
(* The pool and its sockets are those of ConnPool.  The thread that closes  *)
(* idle connections and the one that destroys the pool are left out: they   *)
(* only touch connections that nobody uses (ConnPool!ExclusiveUse), and     *)
(* closing an idle one can only discard what is unread on it.               *)
(*                                                                          *)
(* A call is one execution of invoke_service.  A message is its identifier  *)
(* and the call it belongs to, which stands for the body, with the attempt  *)
(* of the call (the retries left in it) that it answers; the call is what   *)
(* the caller cares about, and nothing in the code can see it or the        *)
(* attempt.                                                                 *)
(***************************************************************************)
EXTENDS Integers, Sequences, FiniteSets

CONSTANTS
    Workers, Conns, Fds, NoConn, NoFd,
    InitConns, MaxConns,
    RetryTimes,    \* RETRY_TIMES
    IdMod,         \* 2^32: identifiers are uint32_t
    MaxCalls       \* bound: executions of invoke_service

ASSUME CallConfig ==
    /\ RetryTimes \in Nat /\ MaxCalls \in Nat
    /\ IdMod \in Nat /\ IdMod > MaxCalls

\* Of the pool, as in ConnPool.
ASSUME PoolValues ==
    /\ InitConns \in Nat /\ MaxConns \in Nat
    /\ NoConn \notin Conns /\ NoFd \notin Fds

VARIABLES
    phase, left, unused, used, sock_fd, last_used, open, step, holds, now, setBack,  \* ConnPool
    counter,     \* the static counter of next_identifier
    place,       \* where a worker is in invoke_service
    register,    \* the counter as a worker read it
    identifier,  \* identifier of a worker's call
    retry,       \* the retries it has left
    call,        \* its call
    answer,      \* the call whose response it returns, 0 for none
    calls,       \* calls so far
    drawn,       \* history: the identifier each call got, 0 before it has one
    linked,      \* sockets whose connection is up
    asked,       \* requests that the provider has not answered, per socket
    inbox        \* responses the agent has not read, per socket

P == INSTANCE ConnPool WITH MinConns <- 0, IdleLimit <- 0, UIntMod <- 1, MaxClock <- 0,
                            ClockMayStepBack <- FALSE, DestroyTries <- 0

poolVars ==
    <<phase, left, unused, used, sock_fd, last_used, open, step, holds, now, setBack>>
callVars == <<counter, register, identifier, retry, call, answer, calls, drawn>>
wire == <<linked, asked, inbox>>
vars == <<poolVars, callVars, place, wire>>

Fd(w) == sock_fd[holds[w]]
Goto(w, p) == place' = [place EXCEPT ![w] = p]

\* A socket that was just connected: nothing is on its way in either direction.
Plug(fd) ==
    /\ linked' = linked \cup {fd}
    /\ UNCHANGED <<asked, inbox>>

\* A closed socket: what was on its way is lost.
Unplug(fd) ==
    /\ linked' = linked \ {fd}
    /\ asked' = [f \in Fds |-> IF f = fd THEN {} ELSE asked[f]]
    /\ inbox' = [f \in Fds |-> IF f = fd THEN <<>> ELSE inbox[f]]

-----------------------------------------------------------------------------
(***************************************************************************)
(* pool_init, before the workers know the pool.                             *)
(***************************************************************************)
PoolInit ==
    \/ /\ \E c \in Conns, fd \in Fds : P!InitConnect(c, fd) /\ Plug(fd)
       /\ UNCHANGED <<callVars, place>>
    \/ /\ (\E fd \in Fds \cup {NoFd} : P!InitConnectFails(fd)) \/ P!InitDone
       /\ UNCHANGED <<callVars, place, wire>>

(***************************************************************************)
(* The connection; invoke_service fails at once when there is none.         *)
(***************************************************************************)
Begin(w) ==
    /\ calls < MaxCalls
    /\ calls' = calls + 1
    /\ call' = [call EXCEPT ![w] = calls + 1]
    /\ answer' = [answer EXCEPT ![w] = 0]
    /\ Goto(w, "identify")
    /\ UNCHANGED <<counter, register, identifier, retry, drawn>>

GetConnection(w) ==
    /\ place[w] = "out"
    /\ \/ P!RequireIdle(w) /\ UNCHANGED wire
       \/ \E c \in Conns, fd \in Fds : P!RequireNew(w, c, fd) /\ Plug(fd)
    /\ Begin(w)

NoConnection(w) ==
    /\ place[w] = "out"
    /\ (\E fd \in Fds \cup {NoFd} : P!RequireNewFails(w, fd)) \/ P!RequireExceedsMax(w)
    /\ UNCHANGED <<callVars, place, wire>>

(***************************************************************************)
(* next_identifier: ++counter on a volatile, which is a load, an addition   *)
(* in a register and a store.                                               *)
(***************************************************************************)
LoadCounter(w) ==
    /\ place[w] = "identify"
    /\ register' = [register EXCEPT ![w] = counter]
    /\ Goto(w, "store")
    /\ UNCHANGED <<poolVars, wire, counter, identifier, retry, call, answer, calls, drawn>>

StoreCounter(w) ==
    /\ place[w] = "store"
    /\ counter' = (register[w] + 1) % IdMod
    /\ identifier' = [identifier EXCEPT ![w] = (register[w] + 1) % IdMod]
    /\ drawn' = [drawn EXCEPT ![call[w]] = (register[w] + 1) % IdMod]
    /\ retry' = [retry EXCEPT ![w] = RetryTimes + 1]
    /\ Goto(w, "send")
    /\ UNCHANGED <<poolVars, wire, register, call, answer, calls>>

(***************************************************************************)
(* send_message: it reaches the provider only over a connected socket, and  *)
(* may fail there too.                                                      *)
(***************************************************************************)
Send(w) ==
    /\ place[w] = "send"
    /\ retry' = [retry EXCEPT ![w] = @ - 1]
    /\ \/ /\ Fd(w) \in linked
          /\ asked' = [asked EXCEPT ![Fd(w)] =
                         @ \cup {[id |-> identifier[w], call |-> call[w], try |-> retry[w] - 1]}]
          /\ Goto(w, "receive")
       \/ Goto(w, "failed") /\ UNCHANGED asked
    /\ UNCHANGED <<poolVars, linked, inbox, counter, register, identifier, call, answer, calls,
                   drawn>>

(***************************************************************************)
(* receive_message and the checks of its identifier and type.               *)
(***************************************************************************)
Matches(m, w) == m.good /\ m.id = identifier[w]

\* Mutant: the identifier is not compared.
ReceiveAny(w) ==
    /\ place[w] = "receive"
    /\ inbox[Fd(w)] # <<>>
    /\ answer' = [answer EXCEPT ![w] = Head(inbox[Fd(w)]).call]
    /\ inbox' = [inbox EXCEPT ![Fd(w)] = Tail(@)]
    /\ Goto(w, "release")
    /\ UNCHANGED <<poolVars, linked, asked, counter, register, identifier, retry, call, calls,
                   drawn>>

Receive(w) ==
    /\ place[w] = "receive"
    /\ inbox[Fd(w)] # <<>>
    /\ LET m == Head(inbox[Fd(w)]) IN
         \/ /\ Matches(m, w)
            /\ answer' = [answer EXCEPT ![w] = m.call]
            /\ Goto(w, "release")
         \/ /\ ~Matches(m, w)
            /\ Goto(w, "failed")
            /\ UNCHANGED answer
    /\ inbox' = [inbox EXCEPT ![Fd(w)] = Tail(@)]
    /\ UNCHANGED <<poolVars, linked, asked, counter, register, identifier, retry, call, calls,
                   drawn>>

\* The header came and the body did not come in time: the body stays in the stream, where
\* it is taken for a header by whoever reads next.
ReceiveHalf(w) ==
    /\ place[w] = "receive"
    /\ inbox[Fd(w)] # <<>>
    /\ inbox' = [inbox EXCEPT ![Fd(w)] = <<[Head(@) EXCEPT !.good = FALSE]>> \o Tail(@)]
    /\ Goto(w, "failed")
    /\ UNCHANGED <<poolVars, linked, asked, callVars>>

\* Nothing came within three seconds, or the provider closed the connection.
ReceiveFails(w) ==
    /\ place[w] = "receive"
    /\ inbox[Fd(w)] = <<>>
    /\ Goto(w, "failed")
    /\ UNCHANGED <<poolVars, wire, callVars>>

(***************************************************************************)
(* After a failure: reconnect and try again, or give up and keep the        *)
(* connection as it is.                                                     *)
(***************************************************************************)

\* Mutant: the second attempt uses the same socket.
ReconnectSkipped(w) ==
    /\ place[w] = "failed" /\ retry[w] > 0
    /\ Goto(w, "send")
    /\ UNCHANGED <<poolVars, callVars, wire>>

Reconnect(w) ==
    /\ place[w] = "failed" /\ retry[w] > 0
    /\ P!ReconnectClose(w)
    /\ Unplug(Fd(w))
    /\ Goto(w, "reconnect")
    /\ UNCHANGED callVars

Reconnected(w) ==
    /\ place[w] = "reconnect"
    /\ \/ \E fd \in Fds : P!ReconnectOpen(w, fd) /\ Plug(fd)
       \/ \E fd \in Fds \cup {NoFd} : P!ReconnectFails(w, fd) /\ UNCHANGED wire
    /\ Goto(w, "send")
    /\ UNCHANGED callVars

\* Mutant: an early return that forgets the connection.
GiveUpKeepsConnection(w) ==
    /\ place[w] = "failed" /\ retry[w] = 0
    /\ Goto(w, "out")
    /\ UNCHANGED <<poolVars, callVars, wire>>

GiveUp(w) ==
    /\ place[w] = "failed" /\ retry[w] = 0
    /\ Goto(w, "release")
    /\ UNCHANGED <<poolVars, callVars, wire>>

Return(w) ==
    /\ place[w] = "release"
    /\ P!Release(w)
    /\ Goto(w, "out")
    /\ UNCHANGED <<callVars, wire>>

(***************************************************************************)
(* The provider answers what it was asked, sometimes with a message that    *)
(* fails the checks, or closes the connection.                              *)
(***************************************************************************)
Answer(fd) ==
    \E m \in asked[fd], good \in BOOLEAN :
      /\ asked' = [asked EXCEPT ![fd] = @ \ {m}]
      /\ inbox' = [inbox EXCEPT ![fd] =
                     Append(@, [id |-> m.id, call |-> m.call, try |-> m.try, good |-> good])]
      /\ UNCHANGED <<poolVars, callVars, place, linked>>

ProviderCloses(fd) ==
    /\ fd \in linked
    /\ linked' = linked \ {fd}
    /\ asked' = [asked EXCEPT ![fd] = {}]
    /\ UNCHANGED <<poolVars, callVars, place, inbox>>

-----------------------------------------------------------------------------
Init ==
    /\ P!Init
    /\ counter = 0 /\ calls = 0 /\ drawn = [n \in 1..MaxCalls |-> 0]
    /\ place = [w \in Workers |-> "out"]
    /\ register = [w \in Workers |-> 0] /\ identifier = [w \in Workers |-> 0]
    /\ retry = [w \in Workers |-> 0]
    /\ call = [w \in Workers |-> 0] /\ answer = [w \in Workers |-> 0]
    /\ linked = {} /\ asked = [f \in Fds |-> {}] /\ inbox = [f \in Fds |-> <<>>]

WorkerNext(w) ==
    \/ GetConnection(w) \/ NoConnection(w)
    \/ LoadCounter(w) \/ StoreCounter(w)
    \/ Send(w) \/ Receive(w) \/ ReceiveHalf(w) \/ ReceiveFails(w)
    \/ Reconnect(w) \/ Reconnected(w) \/ GiveUp(w) \/ Return(w)

Next ==
    \/ PoolInit
    \/ \E w \in Workers : WorkerNext(w)
    \/ \E fd \in Fds : Answer(fd) \/ ProviderCloses(fd)

Spec == Init /\ [][Next]_vars

-----------------------------------------------------------------------------
(***************************************************************************)
(* Properties.                                                              *)
(***************************************************************************)
Places == {"out", "identify", "store", "send", "receive", "failed", "reconnect", "release"}
Messages == [id : 0..(IdMod - 1), call : 1..MaxCalls, try : 0..RetryTimes]
Responses == [id : 0..(IdMod - 1), call : 1..MaxCalls, try : 0..RetryTimes, good : BOOLEAN]

\* Every variable has its type, and a worker has a connection whenever it uses one.
TypeOK ==
    /\ P!TypeOK
    /\ counter \in 0..(IdMod - 1) /\ calls \in 0..MaxCalls
    /\ place \in [Workers -> Places]
    /\ register \in [Workers -> 0..(IdMod - 1)]
    /\ identifier \in [Workers -> 0..(IdMod - 1)]
    /\ retry \in [Workers -> 0..(RetryTimes + 1)]
    /\ drawn \in [1..MaxCalls -> 0..(IdMod - 1)]
    /\ call \in [Workers -> 0..MaxCalls] /\ answer \in [Workers -> 0..MaxCalls]
    /\ linked \subseteq open
    /\ asked \in [Fds -> SUBSET Messages] /\ inbox \in [Fds -> Seq(Responses)]
    /\ \A w \in Workers : place[w] # "out" <=> holds[w] # NoConn

\* A call that succeeds returns the response to its own request, never one that an earlier
\* call left unread on the connection.
AnswerIsOwn == \A w \in Workers : answer[w] # 0 => answer[w] = call[w]

\* The identifier tells responses apart as long as it does its duty: a call that succeeds
\* returns the response to its own request, whatever was left on the connection and whatever
\* happened to it, unless two calls were given the same identifier.
OwnAnswerIfIdsDiffer ==
    (\A m, n \in 1..MaxCalls : drawn[m] = drawn[n] /\ drawn[m] # 0 => m = n) => AnswerIsOwn

\* On the wire of a retried request there is nothing but that request and what answers it:
\* whatever an earlier call or an earlier attempt of the same call left behind went with the
\* old socket.  A stale response therefore costs one attempt and cannot be taken for the
\* answer of the retry.
Attempt(w) == <<call[w], IF place[w] = "send" THEN retry[w] - 1 ELSE retry[w]>>

Foreign(w, fd) ==
    \/ \E m \in asked[fd] : <<m.call, m.try>> # Attempt(w)
    \/ \E i \in 1..Len(inbox[fd]) : <<inbox[fd][i].call, inbox[fd][i].try>> # Attempt(w)

Retrying(w) ==
    \/ place[w] = "send" /\ retry[w] <= RetryTimes
    \/ place[w] \in {"receive", "failed"} /\ retry[w] < RetryTimes

RetryOnCleanWire ==
    \A w \in Workers : Retrying(w) /\ Fd(w) # NoFd => ~Foreign(w, Fd(w))

\* A connection that failed is reconnected before anybody else gets it: nothing of an earlier
\* call is outstanding on an idle connection.
IdleWireClean ==
    \A i \in 1..Len(unused) :
      LET fd == sock_fd[unused[i]]
      IN fd # NoFd => asked[fd] = {} /\ inbox[fd] = <<>>
=============================================================================
