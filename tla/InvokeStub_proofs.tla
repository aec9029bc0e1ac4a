-------------------------- MODULE InvokeStub_proofs --------------------------
(***************************************************************************)
(* Safety of invoke_service, for any number of workers, connections, calls  *)
(* and retries.  What the pool guarantees is taken from ConnPool_proofs:    *)
(* the calls only do to the pool what ConnPool allows.                      *)
(***************************************************************************)
EXTENDS InvokeStub, FiniteSetTheorems, TLAPS

PP == INSTANCE ConnPool_proofs WITH MinConns <- 0, IdleLimit <- 0, UIntMod <- 1, MaxClock <- 0,
                                    ClockMayStepBack <- FALSE, DestroyTries <- 0

-----------------------------------------------------------------------------
(***************************************************************************)
(* The inductive invariant.                                                 *)
(***************************************************************************)

\* Where a worker is tells what it does in the pool.
StepOf(p) == IF p = "out" THEN "out" ELSE IF p = "reconnect" THEN "reopen" ELSE "work"

Drawing == {"identify", "store"}
Called == {"send", "receive", "failed", "reconnect", "release"}

\* Every call in progress is a call of its own; it has an identifier once it is past
\* next_identifier and none before.
CallsOK ==
    /\ \A w \in Workers : place[w] # "out" => call[w] \in 1..calls
    /\ \A v, w \in Workers :
         place[v] # "out" /\ place[w] # "out" /\ call[v] = call[w] => v = w
    /\ \A w \in Workers : place[w] \in Drawing => drawn[call[w]] = 0
    /\ \A w \in Workers : place[w] \in Called =>
         drawn[call[w]] = identifier[w] /\ identifier[w] # 0
    /\ \A k \in 1..MaxCalls : k > calls => drawn[k] = 0

\* The counter, and every value of it that was read, is at most the number of identifiers
\* drawn: it does not wrap in MaxCalls calls.
Drawn == {k \in 1..MaxCalls : drawn[k] # 0}

CounterOK ==
    /\ counter <= Cardinality(Drawn)
    /\ \A w \in Workers : place[w] = "store" => register[w] <= Cardinality(Drawn)

\* What is on its way on a socket, in either direction, as triples of an identifier, a
\* call and an attempt:
\* it carries the identifier of its call, and there is nothing on a closed socket.
Traffic(fd) ==
    {<<m.id, m.call, m.try>> : m \in asked[fd]} \cup
    {<<inbox[fd][i].id, inbox[fd][i].call, inbox[fd][i].try>> : i \in 1..Len(inbox[fd])}

WireOK ==
    /\ linked \subseteq open
    /\ \A fd \in Fds : \A t \in Traffic(fd) :
         t[2] \in 1..MaxCalls /\ t[1] = drawn[t[2]] /\ t[1] # 0
    /\ \A fd \in Fds \ open : Traffic(fd) = {}

Types ==
    /\ counter \in 0..(IdMod - 1) /\ calls \in 0..MaxCalls
    /\ place \in [Workers -> Places]
    /\ register \in [Workers -> 0..(IdMod - 1)]
    /\ identifier \in [Workers -> 0..(IdMod - 1)]
    /\ retry \in [Workers -> 0..(RetryTimes + 1)]
    /\ drawn \in [1..MaxCalls -> 0..(IdMod - 1)]
    /\ call \in [Workers -> 0..MaxCalls] /\ answer \in [Workers -> 0..MaxCalls]
    /\ linked \in SUBSET Fds
    /\ asked \in [Fds -> SUBSET Messages] /\ inbox \in [Fds -> Seq(Responses)]

PlacesOK ==
    /\ \A w \in Workers : step[w] = StepOf(place[w])
    /\ \A w \in Workers : place[w] \in {"send", "reconnect"} => retry[w] >= 1
    /\ \A w \in Workers : place[w] = "receive" => Fd(w) \in Fds

IInv ==
    /\ Types /\ PlacesOK /\ CallsOK /\ CounterOK /\ WireOK
    /\ RetryOnCleanWire /\ OwnAnswerIfIdsDiffer
-----------------------------------------------------------------------------
(***************************************************************************)
(* The pool.                                                                *)
(***************************************************************************)

\* The two instances of ConnPool are the same, as far as invoke_service uses them.
LEMMA SameHelpers ==
    /\ P!Allocated = PP!Allocated /\ P!PoolSize = PP!PoolSize
    /\ \A w \in Workers : P!CanRequire(w) <=> PP!CanRequire(w)
    /\ \A w \in Workers, c \in Conns : P!Granted(w, c) <=> PP!Granted(w, c)
    /\ \A c, fd : P!Connects(c, fd) <=> PP!Connects(c, fd)
    /\ \A fd : P!FailedSocket(fd) <=> PP!FailedSocket(fd)
<1>1. P!Cardinality(used) = PP!Cardinality(used)
  BY DEF P!Cardinality, PP!Cardinality
<1>2. P!Allocated = PP!Allocated /\ P!PoolSize = PP!PoolSize
  BY <1>1 DEF P!Allocated, PP!Allocated, P!Idle, PP!Idle, P!PoolSize, PP!PoolSize
<1>3. /\ \A w \in Workers : P!CanRequire(w) <=> PP!CanRequire(w)
      /\ \A w \in Workers, c \in Conns : P!Granted(w, c) <=> PP!Granted(w, c)
  BY DEF P!CanRequire, PP!CanRequire, P!Granted, PP!Granted
<1>4. /\ \A c, fd : P!Connects(c, fd) <=> PP!Connects(c, fd)
      /\ \A fd : P!FailedSocket(fd) <=> PP!FailedSocket(fd)
  BY DEF P!Connects, PP!Connects, P!FailedSocket, PP!FailedSocket
<1> QED
  BY <1>2, <1>3, <1>4

\* So are the steps that fill the pool,
LEMMA SameInit ==
    /\ \A c \in Conns, fd \in Fds : P!InitConnect(c, fd) => PP!InitConnect(c, fd)
    /\ \A fd : P!InitConnectFails(fd) => PP!InitConnectFails(fd)
    /\ P!InitDone => PP!InitDone
BY SameHelpers DEF P!InitConnect, PP!InitConnect, P!InitConnectFails, PP!InitConnectFails,
   P!InitDone, PP!InitDone, P!socks, PP!socks, P!work, PP!work

\* and the steps of a worker.
LEMMA SameWorker ==
    ASSUME NEW w \in Workers
    PROVE  /\ P!RequireIdle(w) => PP!RequireIdle(w)
           /\ \A c \in Conns, fd \in Fds : P!RequireNew(w, c, fd) => PP!RequireNew(w, c, fd)
           /\ \A fd : P!RequireNewFails(w, fd) => PP!RequireNewFails(w, fd)
           /\ P!RequireExceedsMax(w) => PP!RequireExceedsMax(w)
           /\ P!Release(w) => PP!Release(w)
           /\ P!ReconnectClose(w) => PP!ReconnectClose(w)
           /\ \A fd : P!ReconnectOpen(w, fd) => PP!ReconnectOpen(w, fd)
           /\ \A fd : P!ReconnectFails(w, fd) => PP!ReconnectFails(w, fd)
<1> USE DEF P!socks, PP!socks, P!work, PP!work, P!pool, PP!pool, P!vars, PP!vars
<1>1. P!RequireIdle(w) => PP!RequireIdle(w)
  BY DEF P!RequireIdle, PP!RequireIdle, P!CanRequire, PP!CanRequire, P!Granted, PP!Granted
<1>2. \A c \in Conns, fd \in Fds : P!RequireNew(w, c, fd) => PP!RequireNew(w, c, fd)
  BY SameHelpers DEF P!RequireNew, PP!RequireNew
<1>3. /\ \A fd : P!RequireNewFails(w, fd) => PP!RequireNewFails(w, fd)
      /\ P!RequireExceedsMax(w) => PP!RequireExceedsMax(w)
  BY SameHelpers DEF P!RequireNewFails, PP!RequireNewFails,
     P!RequireExceedsMax, PP!RequireExceedsMax
<1>4. /\ P!Release(w) => PP!Release(w)
      /\ P!ReconnectClose(w) => PP!ReconnectClose(w)
  BY DEF P!Release, PP!Release, P!ReconnectClose, PP!ReconnectClose
<1>5. /\ \A fd : P!ReconnectOpen(w, fd) => PP!ReconnectOpen(w, fd)
      /\ \A fd : P!ReconnectFails(w, fd) => PP!ReconnectFails(w, fd)
  BY SameHelpers DEF P!ReconnectOpen, PP!ReconnectOpen, P!ReconnectFails, PP!ReconnectFails
<1> QED
  BY <1>1, <1>2, <1>3, <1>4, <1>5

\* Every step does to the pool what one of its operations does, or nothing.
LEMMA PoolStep == [Next]_vars => [PP!Next]_PP!vars
<1> SUFFICES ASSUME [Next]_vars PROVE PP!Next \/ UNCHANGED PP!vars
  OBVIOUS
<1>a. UNCHANGED poolVars => UNCHANGED PP!vars
  BY DEF poolVars, PP!vars
<1>1. CASE PoolInit
  <2>1. PP!PoolInit
    BY <1>1, SameInit DEF PoolInit, PP!PoolInit
  <2> QED
    BY <2>1 DEF PP!Next
<1>2. ASSUME NEW w \in Workers, WorkerNext(w) PROVE PP!Next \/ UNCHANGED PP!vars
  <2>1. CASE LoadCounter(w) \/ StoreCounter(w) \/ Send(w) \/ Receive(w) \/ ReceiveHalf(w)
             \/ ReceiveFails(w) \/ GiveUp(w)
    BY <1>a, <2>1 DEF LoadCounter, StoreCounter, Send, Receive, ReceiveHalf, ReceiveFails, GiveUp
  <2>2. CASE GetConnection(w) \/ NoConnection(w)
    <3>1. PP!WorkerNext(w)
      BY <2>2, SameWorker DEF GetConnection, NoConnection, PP!WorkerNext
    <3> QED
      BY <3>1 DEF PP!Next
  <2>3. CASE Reconnect(w) \/ Reconnected(w) \/ Return(w)
    <3>1. PP!WorkerNext(w)
      BY <2>3, SameWorker DEF Reconnect, Reconnected, Return, PP!WorkerNext
    <3> QED
      BY <3>1 DEF PP!Next
  <2> QED
    BY <1>2, <2>1, <2>2, <2>3 DEF WorkerNext
<1>3. ASSUME NEW fd \in Fds, Answer(fd) \/ ProviderCloses(fd) PROVE UNCHANGED PP!vars
  BY <1>a, <1>3 DEF Answer, ProviderCloses
<1>4. CASE UNCHANGED vars
  BY <1>a, <1>4 DEF vars
<1> QED
  BY <1>1, <1>2, <1>3, <1>4 DEF Next

\* Hence what ConnPool_proofs shows of the pool holds here.
LEMMA PoolInvariant == Spec => []PP!IInv
<1>1. PP!PoolConfig /\ PP!NullValues
  BY PoolValues DEF PP!PoolConfig, PP!NullValues
<1>2. Init => PP!Init
  BY DEF Init, P!Init, PP!Init
<1>3. Spec => PP!Spec
  BY <1>2, PoolStep, PTL DEF Spec, PP!Spec
<1> QED
  BY <1>1, <1>3, PP!Invariance, PTL

\* What the calls need of it.
PoolOK ==
    /\ unused \in Seq(Conns) /\ used \in SUBSET Conns
    /\ sock_fd \in [Conns -> Fds \cup {NoFd}] /\ open \in SUBSET Fds
    /\ step \in [Workers -> {"out", "work", "reopen"}]
    /\ holds \in [Workers -> Conns \cup {NoConn}]
    /\ \A w \in Workers : holds[w] = NoConn <=> step[w] = "out"
    /\ \A w \in Workers : step[w] # "out" => holds[w] \in used /\ holds[w] \in Conns
    /\ \A v, w \in Workers : holds[v] = holds[w] /\ holds[v] # NoConn => v = w
    /\ \A w \in Workers : step[w] = "work" /\ Fd(w) # NoFd => Fd(w) \in open
    /\ \A v, w \in Workers :
         step[v] = "work" /\ step[w] = "work" /\ Fd(v) = Fd(w) /\ Fd(v) # NoFd => v = w
    /\ \A i \in 1..Len(unused) : unused[i] \notin used

\* The part of it that the calls rely on.
LEMMA PoolFacts == PP!IInv => PoolOK
<1> SUFFICES ASSUME PP!IInv PROVE PoolOK
  OBVIOUS
<1>1. PP!TypeOK /\ PP!HandsMatchLists /\ PP!ListsDisjoint /\ PP!DescriptorsExclusive
  BY DEF PP!IInv, PP!Ownership
<1>2. /\ unused \in Seq(Conns) /\ used \in SUBSET Conns
      /\ sock_fd \in [Conns -> Fds \cup {NoFd}] /\ open \in SUBSET Fds
      /\ step \in [Workers -> {"out", "work", "reopen"}]
      /\ holds \in [Workers -> Conns \cup {NoConn}]
  BY <1>1 DEF PP!TypeOK
<1>3. /\ \A w \in Workers : holds[w] = NoConn <=> step[w] = "out"
      /\ \A w \in Workers : step[w] # "out" => holds[w] \in used
      /\ \A v, w \in Workers : holds[v] = holds[w] /\ holds[v] # NoConn => v = w
  BY <1>1 DEF PP!HandsMatchLists
<1>4. \A i \in 1..Len(unused) : unused[i] \notin used
  BY <1>1 DEF PP!ListsDisjoint
<1>5. ASSUME NEW w \in Workers, step[w] = "work", Fd(w) # NoFd
      PROVE  holds[w] \in Conns /\ PP!OwnsDescriptor(holds[w])
  <2>1. holds[w] \in used /\ holds[w] \in Conns /\ holds[w] # NoConn
    BY <1>2, <1>3, <1>5
  <2>2. ~PP!Reopening(holds[w])
    BY <1>3, <1>5, <2>1 DEF PP!Reopening
  <2> QED
    BY <1>5, <2>1, <2>2 DEF PP!OwnsDescriptor, PP!Allocated, Fd
<1>6. \A w \in Workers : step[w] = "work" /\ Fd(w) # NoFd => Fd(w) \in open
  BY <1>1, <1>5 DEF PP!DescriptorsExclusive, Fd
<1>7. ASSUME NEW v \in Workers, NEW w \in Workers, step[v] = "work", step[w] = "work",
             Fd(v) = Fd(w), Fd(v) # NoFd
      PROVE  v = w
  <2>1. holds[v] = holds[w]
    BY <1>1, <1>5, <1>7 DEF PP!DescriptorsExclusive, Fd
  <2> QED
    BY <1>3, <1>7, <2>1
<1> QED
  BY <1>2, <1>3, <1>4, <1>6, <1>7 DEF PoolOK

-----------------------------------------------------------------------------
(***************************************************************************)
(* What a step leaves alone.                                                *)
(***************************************************************************)
Inv == IInv /\ PoolOK

\* The variables of a call that belong to one worker.
SameCall(v) ==
    /\ place'[v] = place[v] /\ register'[v] = register[v] /\ identifier'[v] = identifier[v]
    /\ retry'[v] = retry[v] /\ call'[v] = call[v] /\ answer'[v] = answer[v]
    /\ step'[v] = step[v] /\ holds'[v] = holds[v]
    /\ step[v] # "out" => Fd(v)' = Fd(v)

\* A worker leaves the calls of the others alone.
LEMMA OtherWorkers ==
    ASSUME Types, PoolOK, NEW w \in Workers, WorkerNext(w), NEW v \in Workers \ {w}
    PROVE  SameCall(v)
<1> USE DEF Types
<1>1. CASE LoadCounter(w) \/ StoreCounter(w) \/ Send(w) \/ Receive(w) \/ ReceiveHalf(w)
           \/ ReceiveFails(w) \/ GiveUp(w)
  BY <1>1 DEF LoadCounter, StoreCounter, Send, Receive, ReceiveHalf, ReceiveFails, GiveUp,
     Goto, poolVars, callVars, SameCall, Fd
<1>2. CASE GetConnection(w)
  <2>0. /\ UNCHANGED <<register, identifier, retry>> /\ call' = [call EXCEPT ![w] = calls + 1]
        /\ answer' = [answer EXCEPT ![w] = 0] /\ place' = [place EXCEPT ![w] = "identify"]
    BY <1>2 DEF GetConnection, Begin, Goto
  <2>1. CASE P!RequireIdle(w)
    BY <2>0, <2>1 DEF P!RequireIdle, P!Granted, P!socks, SameCall, Fd, PoolOK
  <2>2. ASSUME NEW c \in Conns, NEW fd \in Fds, P!RequireNew(w, c, fd) PROVE SameCall(v)
    <3>1. c \notin used
      BY <2>2 DEF P!RequireNew, P!Allocated
    <3> QED
      BY <2>0, <2>2, <3>1 DEF P!RequireNew, P!Granted, P!Connects, SameCall, Fd, PoolOK
  <2> QED
    BY <1>2, <2>1, <2>2 DEF GetConnection
<1>3. CASE NoConnection(w)
  BY <1>3 DEF NoConnection, P!RequireNewFails, P!RequireExceedsMax, P!vars, P!pool, P!work,
     callVars, SameCall, Fd
<1>4. CASE Reconnect(w)
  BY <1>4 DEF Reconnect, P!ReconnectClose, P!pool, Goto, callVars, SameCall, Fd, PoolOK
<1>5. CASE Reconnected(w)
  <2>0. place' = [place EXCEPT ![w] = "send"] /\ UNCHANGED callVars
    BY <1>5 DEF Reconnected, Goto
  <2>1. ASSUME NEW fd, P!ReconnectOpen(w, fd) \/ P!ReconnectFails(w, fd) PROVE SameCall(v)
    BY <2>0, <2>1 DEF P!ReconnectOpen, P!ReconnectFails, P!Connects, P!pool, callVars, SameCall,
       Fd, PoolOK
  <2> QED
    BY <1>5, <2>1 DEF Reconnected
<1>6. CASE Return(w)
  BY <1>6 DEF Return, P!Release, Goto, callVars, SameCall, Fd, PoolOK
<1> QED
  BY <1>1, <1>2, <1>3, <1>4, <1>5, <1>6 DEF WorkerNext

\* pool_init and the provider concern no call.
LEMMA NoWorker ==
    ASSUME Types, PoolOK, PoolInit \/ (\E fd \in Fds : Answer(fd) \/ ProviderCloses(fd)),
           NEW v \in Workers
    PROVE  SameCall(v) /\ UNCHANGED <<counter, calls, drawn>>
<1>1. CASE \E fd \in Fds : Answer(fd) \/ ProviderCloses(fd)
  BY <1>1 DEF Answer, ProviderCloses, poolVars, callVars, SameCall, Fd
<1>2. CASE PoolInit
  <2>0. UNCHANGED <<callVars, place>>
    BY <1>2 DEF PoolInit
  <2>1. ASSUME NEW c \in Conns, NEW fd \in Fds, P!InitConnect(c, fd) PROVE SameCall(v)
    <3>1. c \notin used
      BY <2>1 DEF P!InitConnect, P!Allocated
    <3> QED
      BY <2>0, <2>1, <3>1 DEF P!InitConnect, P!Connects, callVars, SameCall, Fd, PoolOK
  <2>2. ASSUME NEW fd, P!InitConnectFails(fd) PROVE SameCall(v)
    BY <2>0, <2>2 DEF P!InitConnectFails, callVars, SameCall, Fd
  <2>3. CASE P!InitDone
    BY <2>0, <2>3 DEF P!InitDone, P!socks, P!work, callVars, SameCall, Fd
  <2> QED
    BY <1>2, <2>0, <2>1, <2>2, <2>3 DEF PoolInit, callVars
<1> QED
  BY <1>1, <1>2

\* Descriptors are closed by Reconnect only.
LEMMA OpenGrows ==
    ASSUME PoolInit \/ (\E w \in Workers : WorkerNext(w) /\ ~Reconnect(w))
                    \/ (\E fd \in Fds : Answer(fd) \/ ProviderCloses(fd))
    PROVE  open \subseteq open'
<1>1. CASE PoolInit
  BY <1>1 DEF PoolInit, P!InitConnect, P!InitConnectFails, P!InitDone, P!Connects,
     P!FailedSocket, P!socks
<1>2. ASSUME NEW w \in Workers, WorkerNext(w), ~Reconnect(w) PROVE open \subseteq open'
  <2>1. CASE LoadCounter(w) \/ StoreCounter(w) \/ Send(w) \/ Receive(w) \/ ReceiveHalf(w)
             \/ ReceiveFails(w) \/ GiveUp(w)
    BY <2>1 DEF LoadCounter, StoreCounter, Send, Receive, ReceiveHalf, ReceiveFails, GiveUp,
       poolVars
  <2>2. CASE GetConnection(w) \/ NoConnection(w)
    BY <2>2 DEF GetConnection, NoConnection, P!RequireIdle, P!RequireNew, P!RequireNewFails,
       P!RequireExceedsMax, P!Connects, P!FailedSocket, P!socks, P!vars
  <2>3. CASE Reconnected(w) \/ Return(w)
    BY <2>3 DEF Reconnected, Return, P!ReconnectOpen, P!ReconnectFails, P!Release, P!Connects,
       P!FailedSocket
  <2> QED
    BY <1>2, <2>1, <2>2, <2>3 DEF WorkerNext
<1>3. CASE \E fd \in Fds : Answer(fd) \/ ProviderCloses(fd)
  BY <1>3 DEF Answer, ProviderCloses, poolVars
<1> QED
  BY <1>1, <1>2, <1>3

-----------------------------------------------------------------------------
(***************************************************************************)
(* Types and places.                                                        *)
(***************************************************************************)
\* The response that recv() meets first.
LEMMA HeadOfInbox ==
    ASSUME Inv, NEW w \in Workers, place[w] = "receive", inbox[Fd(w)] # <<>>
    PROVE  /\ Fd(w) \in Fds /\ inbox[Fd(w)] \in Seq(Responses) /\ Len(inbox[Fd(w)]) \in Nat \ {0}
           /\ Head(inbox[Fd(w)]) \in Responses /\ Head(inbox[Fd(w)]) = inbox[Fd(w)][1]
           /\ Tail(inbox[Fd(w)]) \in Seq(Responses)
<1>1. Fd(w) \in Fds
  BY DEF Inv, IInv, PlacesOK
<1>2. inbox[Fd(w)] \in Seq(Responses)
  BY <1>1 DEF Inv, IInv, Types
<1> HIDE DEF Responses
<1> QED
  BY <1>1, <1>2

\* Each step keeps the types,
LEMMA TypesStep ==
    ASSUME Inv, Next
    PROVE  Types'
<1>0. Types /\ PlacesOK /\ PoolOK /\ CallsOK
  BY DEF Inv, IInv
<1>1. CASE PoolInit
  BY <1>0, <1>1 DEF PoolInit, Plug, wire, callVars, Types
<1>2. ASSUME NEW w \in Workers, WorkerNext(w) PROVE Types'
  <2>1. CASE GetConnection(w) \/ NoConnection(w)
    <3>1. linked' \in SUBSET Fds /\ UNCHANGED <<asked, inbox>>
      BY <1>0, <2>1 DEF GetConnection, NoConnection, Plug, wire, Types
    <3>2. CASE NoConnection(w)
      BY <1>0, <3>1, <3>2 DEF NoConnection, callVars, Types
    <3>3. CASE GetConnection(w)
      <4>1. /\ calls < MaxCalls /\ calls' = calls + 1
            /\ call' = [call EXCEPT ![w] = calls + 1] /\ answer' = [answer EXCEPT ![w] = 0]
            /\ place' = [place EXCEPT ![w] = "identify"]
            /\ UNCHANGED <<counter, register, identifier, retry, drawn>>
        BY <3>3 DEF GetConnection, Begin, Goto
      <4>2. calls + 1 \in 0..MaxCalls /\ 0 \in 0..MaxCalls
        BY <1>0, <4>1, CallConfig DEF Types
      <4>3. "identify" \in Places
        BY DEF Places
      <4> HIDE DEF Places
      <4> QED
        BY <1>0, <3>1, <4>1, <4>2, <4>3 DEF Types
    <3> QED
      BY <2>1, <3>2, <3>3
  <2>2. CASE LoadCounter(w)
    BY <1>0, <2>2 DEF LoadCounter, Goto, wire, Types, Places
  <2>3. CASE StoreCounter(w)
    <3>1. (register[w] + 1) % IdMod \in 0..(IdMod - 1)
      BY <1>0, CallConfig, SMTT(30) DEF Types
    <3>2. RetryTimes + 1 \in 0..(RetryTimes + 1)
      BY CallConfig
    <3> QED
      BY <1>0, <2>3, <3>1, <3>2 DEF StoreCounter, Goto, wire, Types, Places
  <2>4. CASE Send(w)
    <3>1. retry' \in [Workers -> 0..(RetryTimes + 1)]
      BY <1>0, <2>4, CallConfig DEF Send, PlacesOK, Types
    <3>2. [id |-> identifier[w], call |-> call[w], try |-> retry[w] - 1] \in Messages
      <4>1. retry[w] - 1 \in 0..RetryTimes
        BY <1>0, <2>4, CallConfig DEF Send, PlacesOK, Types
      <4>2. identifier[w] \in 0..(IdMod - 1) /\ call[w] \in 1..MaxCalls
        BY <1>0, <2>4 DEF Send, CallsOK, Called, Types
      <4> QED
        BY <4>1, <4>2 DEF Messages
    <3>3. asked' \in [Fds -> SUBSET Messages]
      <4> DEFINE m == [id |-> identifier[w], call |-> call[w], try |-> retry[w] - 1]
      <4> HIDE DEF m
      <4>1. \/ UNCHANGED asked
            \/ Fd(w) \in Fds /\ asked' = [asked EXCEPT ![Fd(w)] = asked[Fd(w)] \cup {m}]
        BY <1>0, <2>4 DEF Send, Types, m
      <4>2. m \in Messages
        BY <3>2 DEF m
      <4> QED
        <5>1. asked[Fd(w)] \cup {m} \in SUBSET Messages \/ Fd(w) \notin Fds
          BY <1>0, <4>2 DEF Types
        <5> QED
          BY <1>0, <4>1, <5>1 DEF Types
    <3> QED
      BY <1>0, <2>4, <3>1, <3>3 DEF Send, Goto, Types, Places
  <2>5. CASE Receive(w)
    <3>1. Head(inbox[Fd(w)]).call \in 0..MaxCalls /\ Tail(inbox[Fd(w)]) \in Seq(Responses)
      <4>1. Head(inbox[Fd(w)]) \in Responses /\ Tail(inbox[Fd(w)]) \in Seq(Responses)
        BY <2>5, HeadOfInbox DEF Receive
      <4> QED
        BY <4>1, CallConfig DEF Responses
    <3>2. answer' \in [Workers -> 0..MaxCalls] /\ place' \in [Workers -> Places]
      BY <1>0, <2>5, <3>1 DEF Receive, Goto, Types, Places
    <3>3. inbox' \in [Fds -> Seq(Responses)]
      BY <1>0, <2>5, <3>1 DEF Receive, Types
    <3> QED
      BY <1>0, <2>5, <3>2, <3>3 DEF Receive, Types
  <2>6. CASE ReceiveHalf(w)
    <3> DEFINE m == Head(inbox[Fd(w)])
               r == [m EXCEPT !.good = FALSE]
    <3>1. m \in Responses /\ Tail(inbox[Fd(w)]) \in Seq(Responses)
      BY <2>6, HeadOfInbox DEF ReceiveHalf
    <3>2. r \in Responses
      BY <3>1 DEF Responses
    <3> HIDE DEF r
    <3>3. <<r>> \o Tail(inbox[Fd(w)]) \in Seq(Responses)
      BY <3>1, <3>2
    <3>4. inbox' = [inbox EXCEPT ![Fd(w)] = <<r>> \o Tail(inbox[Fd(w)])]
      BY <2>6 DEF ReceiveHalf, r
    <3>5. inbox' \in [Fds -> Seq(Responses)]
      BY <1>0, <3>3, <3>4 DEF Types
    <3> QED
      BY <1>0, <2>6, <3>5 DEF ReceiveHalf, Goto, callVars, Types, Places
  <2>7. CASE ReceiveFails(w) \/ GiveUp(w)
    BY <1>0, <2>7 DEF ReceiveFails, GiveUp, Goto, callVars, wire, Types, Places
  <2>8. CASE Reconnect(w)
    BY <1>0, <2>8 DEF Reconnect, Unplug, Goto, callVars, Types, Places
  <2>9. CASE Reconnected(w)
    BY <1>0, <2>9 DEF Reconnected, Plug, wire, Goto, callVars, Types, Places
  <2>10. CASE Return(w)
    BY <1>0, <2>10 DEF Return, Goto, callVars, wire, Types, Places
  <2> QED
    BY <1>2, <2>1, <2>2, <2>3, <2>4, <2>5, <2>6, <2>7, <2>8, <2>9, <2>10 DEF WorkerNext
<1>3. ASSUME NEW fd \in Fds, Answer(fd) PROVE Types'
  <2>1. PICK m \in asked[fd], good \in BOOLEAN :
          /\ asked' = [asked EXCEPT ![fd] = asked[fd] \ {m}]
          /\ inbox' = [inbox EXCEPT ![fd] =
                         Append(inbox[fd], [id |-> m.id, call |-> m.call, try |-> m.try, good |-> good])]
          /\ UNCHANGED <<callVars, place, linked>>
    BY <1>3 DEF Answer
  <2>2. [id |-> m.id, call |-> m.call, try |-> m.try, good |-> good] \in Responses
    BY <1>0 DEF Types, Messages, Responses
  <2>3. inbox' \in [Fds -> Seq(Responses)] /\ asked' \in [Fds -> SUBSET Messages]
    BY <1>0, <2>1, <2>2 DEF Types
  <2> QED
    BY <1>0, <2>1, <2>3 DEF callVars, Types
<1>4. ASSUME NEW fd \in Fds, ProviderCloses(fd) PROVE Types'
  BY <1>0, <1>4 DEF ProviderCloses, callVars, Types
<1> QED
  BY <1>1, <1>2, <1>3, <1>4 DEF Next

\* The steps on one worker's connection and what they leave.
LEMMA OwnStep ==
    ASSUME Inv, NEW w \in Workers, WorkerNext(w)
    PROVE  step'[w] = StepOf(place'[w])
<1>0. Types /\ PlacesOK /\ PoolOK
  BY DEF Inv, IInv
<1> USE <1>0 DEF Types, StepOf
<1>1. CASE LoadCounter(w) \/ StoreCounter(w) \/ Send(w) \/ Receive(w) \/ ReceiveHalf(w)
           \/ ReceiveFails(w) \/ GiveUp(w)
  <2>1. step' = step /\ \E p \in Places \ {"out", "reconnect"} : place' = [place EXCEPT ![w] = p]
    BY <1>1 DEF LoadCounter, StoreCounter, Send, Receive, ReceiveHalf, ReceiveFails, GiveUp, Goto,
       poolVars, Places
  <2>2. place[w] \notin {"out", "reconnect"}
    BY <1>1 DEF LoadCounter, StoreCounter, Send, Receive, ReceiveHalf, ReceiveFails, GiveUp
  <2> QED
    BY <2>1, <2>2 DEF PlacesOK
<1>2. CASE GetConnection(w)
  <2>1. step' = [step EXCEPT ![w] = "work"]
    BY <1>2 DEF GetConnection, P!RequireIdle, P!RequireNew, P!Granted
  <2> QED
    BY <1>2, <2>1 DEF GetConnection, Begin, Goto, PoolOK
<1>3. CASE NoConnection(w)
  BY <1>3 DEF NoConnection, P!RequireNewFails, P!RequireExceedsMax, P!vars, P!work, PlacesOK
<1>4. CASE Reconnect(w)
  BY <1>4 DEF Reconnect, P!ReconnectClose, Goto, PoolOK
<1>5. CASE Reconnected(w)
  BY <1>5 DEF Reconnected, P!ReconnectOpen, P!ReconnectFails, Goto, PoolOK
<1>6. CASE Return(w)
  BY <1>6 DEF Return, P!Release, Goto, PoolOK
<1> QED
  BY <1>1, <1>2, <1>3, <1>4, <1>5, <1>6 DEF WorkerNext

\* the place of a worker in step with its place in the pool,
LEMMA PlacesStep ==
    ASSUME Inv, Next, Types'
    PROVE  PlacesOK'
<1>0. Types /\ PlacesOK /\ PoolOK /\ WireOK
  BY DEF Inv, IInv
<1>1. ASSUME NEW v \in Workers, SameCall(v)
      PROVE  /\ step'[v] = StepOf(place'[v])
             /\ place'[v] \in {"send", "reconnect"} => retry'[v] >= 1
             /\ place'[v] = "receive" => Fd(v)' \in Fds
  BY <1>0, <1>1 DEF PlacesOK, SameCall, StepOf
<1>2. CASE PoolInit \/ (\E fd \in Fds : Answer(fd) \/ ProviderCloses(fd))
  BY <1>0, <1>1, <1>2, NoWorker DEF PlacesOK
<1>3. ASSUME NEW w \in Workers, WorkerNext(w) PROVE PlacesOK'
  <2>1. \A v \in Workers \ {w} : SameCall(v)
    BY <1>0, <1>3, OtherWorkers
  <2>2. step'[w] = StepOf(place'[w])
    BY <1>3, OwnStep
  <2>3. place'[w] \in {"send", "reconnect"} => retry'[w] >= 1
    <3>1. CASE StoreCounter(w)
      BY <1>0, <3>1, CallConfig DEF StoreCounter, Types
    <3>2. CASE Reconnect(w) \/ Reconnected(w)
      BY <1>0, <3>2 DEF Reconnect, Reconnected, callVars, PlacesOK, Types
    <3>3. CASE NoConnection(w)
      BY <1>0, <3>3 DEF NoConnection, callVars, PlacesOK
    <3>4. CASE GetConnection(w) \/ LoadCounter(w) \/ Send(w) \/ Receive(w) \/ ReceiveHalf(w)
               \/ ReceiveFails(w) \/ GiveUp(w) \/ Return(w)
      BY <1>0, <3>4 DEF GetConnection, Begin, LoadCounter, Send, Receive, ReceiveHalf,
         ReceiveFails, GiveUp, Return, Goto, Types
    <3> QED
      BY <1>3, <3>1, <3>2, <3>3, <3>4 DEF WorkerNext
  <2>4. place'[w] = "receive" => Fd(w)' \in Fds
    <3>1. CASE Send(w)
      BY <1>0, <3>1 DEF Send, Goto, poolVars, Fd, Types
    <3>2. CASE NoConnection(w)
      BY <1>0, <3>2 DEF NoConnection, P!RequireNewFails, P!RequireExceedsMax, P!vars, P!work, Fd,
         callVars, PlacesOK
    <3>3. CASE ~Send(w) /\ ~NoConnection(w)
      BY <1>0, <1>3, <3>3 DEF WorkerNext, GetConnection, Begin, LoadCounter, StoreCounter, Receive,
         ReceiveHalf, ReceiveFails, GiveUp, Return, Reconnect, Reconnected, Goto, Types
    <3> QED
      BY <3>1, <3>2, <3>3
  <2> QED
    BY <1>1, <2>1, <2>2, <2>3, <2>4 DEF PlacesOK
<1> QED
  BY <1>2, <1>3 DEF Next

-----------------------------------------------------------------------------
(***************************************************************************)
(* Calls and identifiers.                                                   *)
(***************************************************************************)

\* next_identifier when nothing wraps: there are fewer identifiers drawn than calls begun.
LEMMA Fresh ==
    ASSUME Inv, NEW w \in Workers, StoreCounter(w)
    PROVE  /\ (register[w] + 1) % IdMod = register[w] + 1
           /\ register[w] + 1 \in 1..(IdMod - 1)
           /\ drawn' = [drawn EXCEPT ![call[w]] = register[w] + 1]
           /\ call[w] \in 1..MaxCalls /\ drawn[call[w]] = 0
           /\ Drawn' = Drawn \cup {call[w]}
           /\ Cardinality(Drawn)' = Cardinality(Drawn) + 1 /\ Cardinality(Drawn) \in Nat
<1>0. Types /\ CallsOK /\ CounterOK /\ place[w] = "store"
  BY DEF Inv, IInv, StoreCounter
<1>1. call[w] \in 1..calls /\ drawn[call[w]] = 0 /\ calls \in 0..MaxCalls
  BY <1>0 DEF CallsOK, Drawing, Types
<1>2. IsFiniteSet(1..calls) /\ Cardinality(1..calls) = calls
  BY <1>1, CallConfig, FS_Interval
<1>3. Drawn \subseteq (1..calls) \ {call[w]}
  BY <1>0, <1>1, CallConfig DEF CallsOK, Drawn
<1>4. /\ IsFiniteSet((1..calls) \ {call[w]}) /\ Cardinality((1..calls) \ {call[w]}) = calls - 1
  BY <1>1, <1>2, FS_RemoveElement
<1>5. /\ IsFiniteSet(Drawn) /\ Cardinality(Drawn) \in Nat /\ Cardinality(Drawn) <= calls - 1
  <2> DEFINE S == (1..calls) \ {call[w]}
  <2>1. Drawn \subseteq S /\ IsFiniteSet(S) /\ Cardinality(S) = calls - 1
    BY <1>3, <1>4
  <2> HIDE DEF S
  <2>2. IsFiniteSet(Drawn) /\ Cardinality(Drawn) <= Cardinality(S)
    BY <2>1, FS_Subset
  <2> QED
    BY <2>1, <2>2, FS_CardinalityType
<1>6. register[w] \in Nat /\ register[w] <= Cardinality(Drawn)
  BY <1>0 DEF CounterOK, Types
<1>7. register[w] + 1 \in 1..(IdMod - 1)
  BY <1>1, <1>5, <1>6, CallConfig
<1>8. (register[w] + 1) % IdMod = register[w] + 1
  BY <1>7, CallConfig
<1>9. drawn' = [drawn EXCEPT ![call[w]] = register[w] + 1] /\ call[w] \in 1..MaxCalls
  <2>1. drawn' = [drawn EXCEPT ![call[w]] = (register[w] + 1) % IdMod]
    BY DEF StoreCounter
  <2>2. call[w] \in 1..MaxCalls
    BY <1>1, CallConfig
  <2> QED
    BY <1>8, <2>1, <2>2, Zenon
<1>10. Drawn' = Drawn \cup {call[w]} /\ call[w] \notin Drawn
  BY <1>0, <1>1, <1>7, <1>9 DEF Drawn, Types
<1>11. Cardinality(Drawn)' = Cardinality(Drawn) + 1
  BY <1>5, <1>10, FS_AddElement
<1> QED
  BY <1>1, <1>5, <1>7, <1>8, <1>9, <1>10, <1>11

\* Only StoreCounter draws, and it touches the entry of its own call.
LEMMA DrawnOnce ==
    ASSUME Inv, Next
    PROVE  /\ \A k \in 1..MaxCalls : drawn[k] # 0 => drawn'[k] = drawn[k]
           /\ drawn' = drawn \/ \E w \in Workers : StoreCounter(w)
<1>1. CASE PoolInit \/ (\E fd \in Fds : Answer(fd) \/ ProviderCloses(fd))
  BY <1>1 DEF PoolInit, Answer, ProviderCloses, callVars
<1>2. ASSUME NEW w \in Workers, StoreCounter(w)
      PROVE  \A k \in 1..MaxCalls : drawn[k] # 0 => drawn'[k] = drawn[k]
  BY <1>2, Fresh DEF Inv, IInv, Types
<1>3. ASSUME NEW w \in Workers, WorkerNext(w), ~StoreCounter(w) PROVE drawn' = drawn
  BY <1>3 DEF WorkerNext, GetConnection, Begin, NoConnection, LoadCounter, Send, Receive,
     ReceiveHalf, ReceiveFails, Reconnect, Reconnected, GiveUp, Return, callVars
<1> QED
  BY <1>1, <1>2, <1>3 DEF Next

\* the calls apart and each with its identifier,
LEMMA CallsStep ==
    ASSUME Inv, Next, Types'
    PROVE  CallsOK'
<1>0. Types /\ CallsOK /\ PoolOK
  BY DEF Inv, IInv
<1>1. CASE PoolInit \/ (\E fd \in Fds : Answer(fd) \/ ProviderCloses(fd))
  <2>1. UNCHANGED <<calls, drawn, place, call, identifier>>
    BY <1>1 DEF PoolInit, Answer, ProviderCloses, callVars
  <2> QED
    BY <1>0, <2>1 DEF CallsOK
<1>2. ASSUME NEW w \in Workers, WorkerNext(w) PROVE CallsOK'
  <2>1. \A v \in Workers \ {w} :
          place'[v] = place[v] /\ call'[v] = call[v] /\ identifier'[v] = identifier[v]
    BY <1>0, <1>2, OtherWorkers DEF SameCall
  <2>2. CASE GetConnection(w)
    <3>1. /\ calls' = calls + 1 /\ calls + 1 <= MaxCalls /\ call'[w] = calls + 1
          /\ place'[w] = "identify" /\ drawn' = drawn
      BY <1>0, <2>2, CallConfig DEF GetConnection, Begin, Goto, Types
    <3>2. calls \in Nat /\ calls + 1 \in 1..MaxCalls /\ drawn[calls + 1] = 0
      BY <1>0, <3>1, CallConfig DEF CallsOK, Types
    <3>3. \A v \in Workers : place'[v] # "out" => call'[v] \in 1..calls'
      BY <1>0, <2>1, <3>1, <3>2 DEF CallsOK
    <3>4. \A u, v \in Workers :
            place'[u] # "out" /\ place'[v] # "out" /\ call'[u] = call'[v] => u = v
      <4>1. \A v \in Workers \ {w} : place'[v] # "out" => call'[v] # calls + 1
        BY <1>0, <2>1, <3>2 DEF CallsOK
      <4> QED
        BY <1>0, <2>1, <3>1, <4>1 DEF CallsOK
    <3>5. \A v \in Workers :
            /\ place'[v] \in Drawing => drawn'[call'[v]] = 0
            /\ place'[v] \in Called => drawn'[call'[v]] = identifier'[v] /\ identifier'[v] # 0
      BY <1>0, <2>1, <3>1, <3>2 DEF CallsOK, Called
    <3>6. \A k \in 1..MaxCalls : k > calls' => drawn'[k] = 0
      BY <1>0, <3>1, <3>2 DEF CallsOK
    <3> QED
      BY <3>3, <3>4, <3>5, <3>6 DEF CallsOK
  <2>3. CASE StoreCounter(w)
    <3>1. /\ drawn' = [drawn EXCEPT ![call[w]] = register[w] + 1] /\ call[w] \in 1..MaxCalls
          /\ (register[w] + 1) % IdMod = register[w] + 1 /\ register[w] + 1 # 0
      BY <2>3, Fresh
    <3>2. /\ calls' = calls /\ call' = call /\ place[w] = "store" /\ place'[w] = "send"
      BY <1>0, <2>3 DEF StoreCounter, Goto, Types
    <3>3. drawn'[call[w]] = identifier'[w] /\ identifier'[w] # 0
      <4>1. identifier'[w] = (register[w] + 1) % IdMod
        BY <1>0, <2>3 DEF StoreCounter, Types
      <4> QED
        BY <1>0, <3>1, <4>1 DEF Types
    <3>4. \A k \in 1..MaxCalls : k # call[w] => drawn'[k] = drawn[k]
      BY <1>0, <3>1 DEF Types
    <3>5. \A v \in Workers \ {w} : place[v] # "out" => call[v] # call[w] /\ call[v] \in 1..MaxCalls
      BY <1>0, <3>2, CallConfig DEF CallsOK, Types
    <3>6. call[w] \in 1..calls /\ calls \in Nat
      BY <1>0, <3>2 DEF CallsOK, Types
    <3>7. \A v \in Workers : place'[v] # "out" <=> place[v] # "out"
      BY <2>1, <3>2
    <3>8. \A v \in Workers :
            /\ place'[v] \in Drawing => drawn'[call'[v]] = 0
            /\ place'[v] \in Called => drawn'[call'[v]] = identifier'[v] /\ identifier'[v] # 0
      <4> TAKE v \in Workers
      <4>1. CASE v = w
        BY <3>2, <3>3, <4>1 DEF Drawing
      <4>2. CASE v # w /\ place[v] # "out"
        BY <1>0, <2>1, <3>2, <3>4, <3>5, <4>2 DEF CallsOK
      <4>3. CASE v # w /\ place[v] = "out"
        BY <2>1, <4>3 DEF Drawing, Called
      <4> QED
        BY <4>1, <4>2, <4>3
    <3>9. \A k \in 1..MaxCalls : k > calls' => drawn'[k] = 0
      BY <1>0, <3>2, <3>4, <3>6 DEF CallsOK
    <3> QED
      BY <1>0, <3>2, <3>7, <3>8, <3>9 DEF CallsOK
  <2>4. CASE ~GetConnection(w) /\ ~StoreCounter(w)
    <3>1. UNCHANGED <<calls, drawn, call, identifier>>
      BY <1>2, <2>4 DEF WorkerNext, NoConnection, LoadCounter, Send, Receive, ReceiveHalf,
         ReceiveFails, Reconnect, Reconnected, GiveUp, Return, callVars
    <3>2. \/ place'[w] = place[w] \/ place'[w] = "out"
          \/ place[w] \in Drawing /\ place'[w] \in Drawing
          \/ place[w] \in Called /\ place'[w] \in Called
      <4>1. CASE NoConnection(w) \/ LoadCounter(w)
        BY <1>0, <4>1 DEF NoConnection, LoadCounter, Goto, Drawing, Types
      <4>2. CASE Send(w) \/ Receive(w) \/ ReceiveHalf(w) \/ ReceiveFails(w)
        BY <1>0, <4>2 DEF Send, Receive, ReceiveHalf, ReceiveFails, Goto, Called, Types
      <4>3. CASE Reconnect(w) \/ Reconnected(w) \/ GiveUp(w) \/ Return(w)
        BY <1>0, <4>3 DEF Reconnect, Reconnected, GiveUp, Return, Goto, Called, Types
      <4> QED
        BY <1>2, <2>4, <4>1, <4>2, <4>3 DEF WorkerNext
    <3>3. "out" \notin Drawing /\ "out" \notin Called /\ Drawing \cap Called = {}
      BY DEF Drawing, Called
    <3>4. \A v \in Workers :
            /\ place'[v] # "out" => place[v] # "out"
            /\ place'[v] \in Drawing => place[v] \in Drawing
            /\ place'[v] \in Called => place[v] \in Called
      BY <2>1, <3>2, <3>3
    <3> QED
      BY <1>0, <3>1, <3>4 DEF CallsOK
  <2> QED
    BY <2>2, <2>3, <2>4
<1> QED
  BY <1>1, <1>2 DEF Next

\* and the counter below the number of identifiers drawn.
LEMMA CounterStep ==
    ASSUME Inv, Next, Types'
    PROVE  CounterOK'
<1>0. Types /\ CallsOK /\ CounterOK /\ PoolOK
  BY DEF Inv, IInv
<1>1. CASE PoolInit \/ (\E fd \in Fds : Answer(fd) \/ ProviderCloses(fd))
  <2>1. UNCHANGED <<counter, drawn, place, register>>
    BY <1>1 DEF PoolInit, Answer, ProviderCloses, callVars
  <2>2. Drawn' = Drawn
    BY <2>1 DEF Drawn
  <2> QED
    BY <1>0, <2>1, <2>2 DEF CounterOK
<1>2. ASSUME NEW w \in Workers, WorkerNext(w) PROVE CounterOK'
  <2>1. \A v \in Workers \ {w} : place'[v] = place[v] /\ register'[v] = register[v]
    BY <1>0, <1>2, OtherWorkers DEF SameCall
  <2>2. CASE StoreCounter(w)
    <3>1. /\ counter' = register[w] + 1 /\ place'[w] = "send" /\ place[w] = "store"
          /\ Cardinality(Drawn)' = Cardinality(Drawn) + 1 /\ Cardinality(Drawn) \in Nat
      BY <1>0, <2>2, Fresh DEF StoreCounter, Goto, Types
    <3>2. \A v \in Workers : register[v] \in Nat
      BY <1>0 DEF Types
    <3> QED
      BY <1>0, <2>1, <3>1, <3>2 DEF CounterOK
  <2>3. CASE ~StoreCounter(w)
    <3>1. drawn' = drawn /\ counter' = counter
      BY <1>2, <2>3 DEF WorkerNext, GetConnection, Begin, NoConnection, LoadCounter, Send, Receive,
         ReceiveHalf, ReceiveFails, Reconnect, Reconnected, GiveUp, Return, callVars
    <3>2. Drawn' = Drawn
      BY <3>1 DEF Drawn
    <3>3. place'[w] = "store" => register'[w] = counter
      BY <1>0, <1>2, <2>3 DEF WorkerNext, GetConnection, Begin, NoConnection, LoadCounter, Send,
         Receive, ReceiveHalf, ReceiveFails, Reconnect, Reconnected, GiveUp, Return, Goto, Types
    <3> QED
      BY <1>0, <2>1, <3>1, <3>2, <3>3 DEF CounterOK
  <2> QED
    BY <2>2, <2>3
<1> QED
  BY <1>1, <1>2 DEF Next

-----------------------------------------------------------------------------
(***************************************************************************)
(* The wire.                                                                *)
(***************************************************************************)
\* A socket that a step does not touch has the same traffic.
LEMMA SameTraffic ==
    ASSUME NEW fd \in Fds, asked'[fd] = asked[fd], inbox'[fd] = inbox[fd]
    PROVE  Traffic(fd)' = Traffic(fd)
BY DEF Traffic

\* A step leaves what is on its way, takes some of it away, or sends the worker's own request.
LEMMA TrafficStep ==
    ASSUME Inv, Next, NEW fd \in Fds, NEW t \in Traffic(fd)'
    PROVE  \/ t \in Traffic(fd)
           \/ \E w \in Workers : /\ Send(w) /\ Fd(w) = fd /\ fd \in linked
                                 /\ t = <<identifier[w], call[w], retry[w] - 1>>
<1>0. Types
  BY DEF Inv, IInv
<1>1. CASE PoolInit
  BY <1>1, SameTraffic DEF PoolInit, Plug, wire
<1>2. ASSUME NEW w \in Workers, WorkerNext(w),
             t \notin Traffic(fd)
      PROVE  Send(w) /\ Fd(w) = fd /\ fd \in linked /\ t = <<identifier[w], call[w], retry[w] - 1>>
  <2>1. CASE GetConnection(w) \/ NoConnection(w) \/ LoadCounter(w) \/ StoreCounter(w)
             \/ ReceiveFails(w) \/ GiveUp(w) \/ Reconnected(w) \/ Return(w)
    <3>1. asked' = asked /\ inbox' = inbox
      BY <2>1 DEF GetConnection, NoConnection, LoadCounter, StoreCounter, ReceiveFails, GiveUp,
         Reconnected, Return, Plug, wire
    <3> QED
      BY <1>2, <3>1, SameTraffic
  <2>2. CASE Send(w)
    <3>1. inbox' = inbox
      BY <2>2 DEF Send
    <3>2. PICK m \in asked'[fd] : t = <<m.id, m.call, m.try>> /\ m \notin asked[fd]
      BY <1>2, <3>1 DEF Traffic
    <3>3. /\ Fd(w) \in linked
          /\ asked' = [asked EXCEPT ![Fd(w)] =
                         asked[Fd(w)] \cup {[id |-> identifier[w], call |-> call[w], try |-> retry[w] - 1]}]
      BY <2>2, <3>2 DEF Send
    <3>4. Fd(w) = fd /\ m = [id |-> identifier[w], call |-> call[w], try |-> retry[w] - 1]
      BY <1>0, <3>2, <3>3 DEF Types
    <3> QED
      BY <2>2, <3>2, <3>3, <3>4
  <2>3. CASE Receive(w) \/ ReceiveHalf(w)
    <3> DEFINE s == inbox[Fd(w)]
               h == [Head(s) EXCEPT !.good = FALSE]
    <3>1. /\ asked' = asked /\ s # <<>> /\ place[w] = "receive"
          /\ \/ inbox' = [inbox EXCEPT ![Fd(w)] = Tail(s)]
             \/ inbox' = [inbox EXCEPT ![Fd(w)] = <<h>> \o Tail(s)]
      BY <2>3 DEF Receive, ReceiveHalf
    <3>2. /\ Fd(w) \in Fds /\ s \in Seq(Responses) /\ Len(s) \in Nat \ {0}
          /\ Head(s) \in Responses /\ Head(s) = s[1] /\ Tail(s) \in Seq(Responses)
      BY <3>1, HeadOfInbox
    <3>3. h.id = s[1].id /\ h.call = s[1].call /\ h.try = s[1].try
      BY <3>2 DEF Responses
    <3> HIDE DEF h
    <3>4. PICK i \in 1..Len(inbox'[fd]) : t = <<inbox'[fd][i].id, inbox'[fd][i].call, inbox'[fd][i].try>>
      BY <1>2, <3>1 DEF Traffic
    <3>5. fd = Fd(w)
      BY <1>0, <1>2, <3>1, SameTraffic DEF Types
    <3>6. \E j \in 1..Len(s) : t = <<s[j].id, s[j].call, s[j].try>>
      <4>1. CASE inbox' = [inbox EXCEPT ![Fd(w)] = Tail(s)]
        <5>1. inbox'[fd] = Tail(s)
          BY <1>0, <3>5, <4>1 DEF Types
        <5>2. i + 1 \in 1..Len(s) /\ inbox'[fd][i] = s[i + 1]
          BY <3>2, <3>4, <5>1
        <5> QED
          BY <3>4, <5>2
      <4>2. CASE inbox' = [inbox EXCEPT ![Fd(w)] = <<h>> \o Tail(s)]
        <5>1. inbox'[fd] = <<h>> \o Tail(s)
          BY <1>0, <3>5, <4>2 DEF Types
        <5>2. i \in 1..Len(s)
          BY <3>2, <3>4, <5>1
        <5>3. inbox'[fd][i] = IF i = 1 THEN h ELSE s[i]
          BY <3>2, <3>4, <5>1, <5>2
        <5> QED
          BY <3>3, <3>4, <5>2, <5>3
      <4> QED
        BY <3>1, <4>1, <4>2
    <3> QED
      BY <1>2, <3>5, <3>6 DEF Traffic
  <2>4. CASE Reconnect(w)
    BY <1>2, <2>4 DEF Reconnect, Unplug, Traffic
  <2> QED
    BY <1>2, <2>1, <2>2, <2>3, <2>4 DEF WorkerNext
<1>3. ASSUME NEW f \in Fds, Answer(f) PROVE t \in Traffic(fd)
  <2>1. PICK m \in asked[f], good \in BOOLEAN :
          /\ asked' = [asked EXCEPT ![f] = asked[f] \ {m}]
          /\ inbox' = [inbox EXCEPT ![f] =
                         Append(inbox[f], [id |-> m.id, call |-> m.call, try |-> m.try, good |-> good])]
    BY <1>3 DEF Answer
  <2> DEFINE r == [id |-> m.id, call |-> m.call, try |-> m.try, good |-> good]
  <2>2. r \in Responses /\ r.id = m.id /\ r.call = m.call /\ r.try = m.try
    BY <1>0 DEF Types, Messages, Responses
  <2> HIDE DEF r
  <2>3. CASE f # fd
    BY <1>0, <2>1, <2>3, SameTraffic DEF Types
  <2>4. CASE f = fd
    <3>1. asked'[fd] = asked[fd] \ {m} /\ inbox'[fd] = Append(inbox[fd], r)
      BY <1>0, <2>1, <2>4 DEF Types, r
    <3>2. inbox[fd] \in Seq(Responses)
      BY <1>0 DEF Types
    <3>3. ASSUME NEW i \in 1..Len(inbox'[fd]), t = <<inbox'[fd][i].id, inbox'[fd][i].call, inbox'[fd][i].try>>
          PROVE  t \in Traffic(fd)
      <4>1. CASE i \in 1..Len(inbox[fd])
        <5>1. inbox'[fd][i] = inbox[fd][i]
          BY <3>1, <3>2, <2>2, <4>1
        <5> QED
          BY <3>3, <4>1, <5>1 DEF Traffic
      <4>2. CASE i \notin 1..Len(inbox[fd])
        <5>1. inbox'[fd][i] = r
          BY <3>1, <3>2, <3>3, <2>2, <4>2
        <5> QED
          BY <2>1, <2>2, <2>4, <3>3, <5>1 DEF Traffic
      <4> QED
        BY <4>1, <4>2
    <3> QED
      BY <3>1, <3>3 DEF Traffic
  <2> QED
    BY <2>3, <2>4
<1>4. ASSUME NEW f \in Fds, ProviderCloses(f) PROVE t \in Traffic(fd)
  BY <1>0, <1>4 DEF ProviderCloses, Traffic, Types
<1> QED
  BY <1>1, <1>2, <1>3, <1>4 DEF Next
\* conn_connect closes what it found: nothing is left on its way on that descriptor.
LEMMA Cleared ==
    ASSUME NEW w \in Workers, Reconnect(w), NEW fd \in Fds, fd = Fd(w)
    PROVE  Traffic(fd)' = {}
BY DEF Reconnect, Unplug, Traffic

\* A connection is up only on an open socket.
LEMMA LinkedStep ==
    ASSUME Inv, Next
    PROVE  (linked \subseteq open)'
<1>0. linked \subseteq open
  BY DEF Inv, IInv, WireOK
<1>1. CASE PoolInit
  <2>1. open \subseteq open'
    BY <1>1, OpenGrows
  <2> QED
    BY <1>0, <1>1, <2>1 DEF PoolInit, Plug, wire, P!InitConnect, P!Connects
<1>2. ASSUME NEW w \in Workers, WorkerNext(w) PROVE (linked \subseteq open)'
  <2>1. CASE Reconnect(w)
    BY <1>0, <2>1 DEF Reconnect, Unplug, P!ReconnectClose, Fd
  <2>2. CASE ~Reconnect(w)
    <3>1. open \subseteq open'
      BY <1>2, <2>2, OpenGrows
    <3>2. CASE GetConnection(w) \/ NoConnection(w)
      BY <1>0, <3>1, <3>2 DEF GetConnection, NoConnection, Plug, wire, P!RequireNew, P!Connects
    <3>3. CASE Reconnected(w)
      BY <1>0, <3>1, <3>3 DEF Reconnected, Plug, wire, P!ReconnectOpen, P!Connects
    <3>4. CASE LoadCounter(w) \/ StoreCounter(w) \/ Send(w) \/ Receive(w) \/ ReceiveHalf(w)
               \/ ReceiveFails(w) \/ GiveUp(w) \/ Return(w)
      <4>1. linked' = linked
        BY <3>4 DEF LoadCounter, StoreCounter, Send, Receive, ReceiveHalf, ReceiveFails, GiveUp,
           Return, wire
      <4> QED
        BY <1>0, <3>1, <4>1
    <3> QED
      BY <1>2, <2>2, <3>2, <3>3, <3>4 DEF WorkerNext
  <2> QED
    BY <2>1, <2>2
<1>3. CASE \E fd \in Fds : Answer(fd) \/ ProviderCloses(fd)
  <2>1. open \subseteq open'
    BY <1>3, OpenGrows
  <2> QED
    BY <1>0, <1>3, <2>1 DEF Answer, ProviderCloses
<1> QED
  BY <1>1, <1>2, <1>3 DEF Next

\* What travels on a socket keeps the identifier of its call, and closing empties it.
LEMMA WireStep ==
    ASSUME Inv, Next
    PROVE  WireOK'
<1>0. Types /\ CallsOK /\ WireOK /\ PoolOK
  BY DEF Inv, IInv
<1>1. (linked \subseteq open)'
  BY LinkedStep
<1>2. ASSUME NEW fd \in Fds, NEW t \in Traffic(fd)'
      PROVE  t[2] \in 1..MaxCalls /\ t[1] = drawn'[t[2]] /\ t[1] # 0
  <2>1. t[2] \in 1..MaxCalls /\ t[1] = drawn[t[2]] /\ t[1] # 0
    <3>1. CASE t \in Traffic(fd)
      BY <1>0, <3>1 DEF WireOK
    <3>2. ASSUME NEW w \in Workers, Send(w), t = <<identifier[w], call[w], retry[w] - 1>>
          PROVE  t[2] \in 1..MaxCalls /\ t[1] = drawn[t[2]] /\ t[1] # 0
      <4>1. call[w] \in 1..calls /\ drawn[call[w]] = identifier[w] /\ identifier[w] # 0
        BY <1>0, <3>2 DEF Send, CallsOK, Called
      <4> QED
        BY <1>0, <3>2, <4>1, CallConfig DEF Types
    <3> QED
      BY <3>1, <3>2, TrafficStep
  <2> QED
    BY <2>1, DrawnOnce
<1>3. ASSUME NEW fd \in Fds, fd \notin open' PROVE Traffic(fd)' = {}
  <2>1. CASE fd \notin open
    <3>1. Traffic(fd) = {} /\ fd \notin linked
      BY <1>0, <2>1 DEF WireOK
    <3> QED
      BY <3>1, TrafficStep
  <2>2. CASE fd \in open
    <3>1. PICK w \in Workers : Reconnect(w)
      BY <1>3, <2>2, OpenGrows DEF Next
    <3>2. fd = Fd(w)
      BY <1>3, <2>2, <3>1 DEF Reconnect, P!ReconnectClose, Fd
    <3> QED
      BY <3>1, <3>2, Cleared
  <2> QED
    BY <2>1, <2>2
<1> QED
  BY <1>1, <1>2, <1>3 DEF WireOK

-----------------------------------------------------------------------------
(***************************************************************************)
(* The retry.                                                               *)
(***************************************************************************)
\* A message of another call or attempt, in terms of the traffic.
LEMMA ForeignIs ==
    ASSUME NEW w \in Workers, NEW fd \in Fds
    PROVE  Foreign(w, fd) <=> \E t \in Traffic(fd) : <<t[2], t[3]>> # Attempt(w)
<1>1. ASSUME NEW m \in asked[fd], <<m.call, m.try>> # Attempt(w) PROVE \E t \in Traffic(fd) : <<t[2], t[3]>> # Attempt(w)
  <2> DEFINE t == <<m.id, m.call, m.try>>
  <2>1. t \in Traffic(fd) /\ <<t[2], t[3]>> # Attempt(w)
    BY <1>1 DEF Traffic
  <2> QED
    BY <2>1
<1>2. ASSUME NEW i \in 1..Len(inbox[fd]), <<inbox[fd][i].call, inbox[fd][i].try>> # Attempt(w)
      PROVE  \E t \in Traffic(fd) : <<t[2], t[3]>> # Attempt(w)
  <2> DEFINE t == <<inbox[fd][i].id, inbox[fd][i].call, inbox[fd][i].try>>
  <2>1. t \in Traffic(fd) /\ <<t[2], t[3]>> # Attempt(w)
    BY <1>2 DEF Traffic
  <2> QED
    BY <2>1
<1>3. ASSUME NEW t \in Traffic(fd), <<t[2], t[3]>> # Attempt(w) PROVE Foreign(w, fd)
  <2>1. CASE \E m \in asked[fd] : t = <<m.id, m.call, m.try>>
    BY <1>3, <2>1 DEF Foreign
  <2>2. CASE \E i \in 1..Len(inbox[fd]) : t = <<inbox[fd][i].id, inbox[fd][i].call, inbox[fd][i].try>>
    BY <1>3, <2>2 DEF Foreign
  <2> QED
    BY <2>1, <2>2 DEF Traffic
<1> QED
  BY <1>1, <1>2, <1>3 DEF Foreign

\* Traffic of the worker's own attempt only is not foreign.
LEMMA ForeignNext ==
    ASSUME NEW w \in Workers, NEW fd \in Fds, \A t \in Traffic(fd)' : <<t[2], t[3]>> = Attempt(w)'
    PROVE  ~Foreign(w, fd)'
<1>1. ASSUME NEW m \in asked'[fd] PROVE <<m.call, m.try>> = Attempt(w)'
  <2>1. <<m.id, m.call, m.try>> \in Traffic(fd)'
    BY <1>1 DEF Traffic
  <2> QED
    BY <2>1
<1>2. ASSUME NEW i \in 1..Len(inbox'[fd]) PROVE <<inbox'[fd][i].call, inbox'[fd][i].try>> = Attempt(w)'
  <2>1. <<inbox'[fd][i].id, inbox'[fd][i].call, inbox'[fd][i].try>> \in Traffic(fd)'
    BY <1>2 DEF Traffic
  <2> QED
    BY <2>1
<1> QED
  BY <1>1, <1>2 DEF Foreign

\* The socket of a retry carries nothing of another call or attempt: it was opened for the retry.
LEMMA CleanStep ==
    ASSUME Inv, Next, Types', PlacesOK'
    PROVE  RetryOnCleanWire'
<1>0. Types /\ PlacesOK /\ CallsOK /\ WireOK /\ PoolOK /\ RetryOnCleanWire
  BY DEF Inv, IInv
<1>1. ASSUME NEW v \in Workers, Retrying(v)', Fd(v)' # NoFd
      PROVE  step'[v] = "work" /\ place'[v] \in {"send", "receive", "failed"}
  BY <1>1 DEF Retrying, PlacesOK, StepOf
\* A worker that was retrying, on a socket it keeps: only its own request is added.
<1>2. ASSUME NEW v \in Workers, Retrying(v), Fd(v) # NoFd, Fd(v)' = Fd(v), Attempt(v)' = Attempt(v)
      PROVE  ~Foreign(v, Fd(v))'
  <2>1. step[v] = "work" /\ holds[v] \in Conns
    BY <1>0, <1>2 DEF Retrying, PlacesOK, StepOf, PoolOK
  <2>2. Fd(v) \in Fds
    BY <1>0, <1>2, <2>1 DEF PoolOK, Fd
  <2>3. \A t \in Traffic(Fd(v)) : <<t[2], t[3]>> = Attempt(v)
    BY <1>0, <1>2, <2>2, ForeignIs DEF RetryOnCleanWire
  <2>f. PICK f \in Fds : f = Fd(v)
    BY <2>2
  <2>4. ASSUME NEW t \in Traffic(f)' PROVE <<t[2], t[3]>> = Attempt(v)
    <3>1. ASSUME NEW w \in Workers, Send(w), Fd(w) = f, t = <<identifier[w], call[w], retry[w] - 1>>
          PROVE  <<t[2], t[3]>> = Attempt(v)
      <4>1. step[w] = "work"
        BY <1>0, <3>1 DEF Send, PlacesOK, StepOf
      <4>2. w = v
        BY <1>0, <1>2, <2>1, <2>f, <3>1, <4>1 DEF PoolOK
      <4> QED
        BY <3>1, <4>2 DEF Send, Attempt
    <3>2. \/ t \in Traffic(f)
          \/ \E w \in Workers : Send(w) /\ Fd(w) = f /\ t = <<identifier[w], call[w], retry[w] - 1>>
      BY <2>4, TrafficStep
    <3> QED
      BY <2>3, <2>f, <3>1, <3>2
  <2>5. Fd(v)' = f
    BY <1>2, <2>f
  <2>6. ~Foreign(v, f)'
    BY <1>2, <2>4, ForeignNext
  <2> QED
    BY <2>5, <2>6 DEF Foreign
<1>3. ASSUME NEW v \in Workers, SameCall(v), Retrying(v)', Fd(v)' # NoFd
      PROVE  ~Foreign(v, Fd(v))'
  <2>1. Retrying(v) /\ step[v] # "out"
    BY <1>1, <1>3 DEF Retrying, SameCall
  <2> QED
    BY <1>2, <1>3, <2>1 DEF SameCall, Attempt
<1>4. CASE PoolInit \/ (\E fd \in Fds : Answer(fd) \/ ProviderCloses(fd))
  BY <1>0, <1>3, <1>4, NoWorker DEF RetryOnCleanWire
<1>5. ASSUME NEW w \in Workers, WorkerNext(w) PROVE RetryOnCleanWire'
  <2>1. \A v \in Workers \ {w} : SameCall(v)
    BY <1>0, <1>5, OtherWorkers
  <2> SUFFICES ASSUME Retrying(w)', Fd(w)' # NoFd PROVE ~Foreign(w, Fd(w))'
    BY <1>3, <2>1 DEF RetryOnCleanWire
  <2>2. place'[w] \in {"send", "receive", "failed"}
    BY <1>1
  <2>3. CASE Send(w) \/ Receive(w) \/ ReceiveHalf(w) \/ ReceiveFails(w)
    <3>1. Fd(w)' = Fd(w) /\ Attempt(w)' = Attempt(w)
      BY <1>0, <2>2, <2>3 DEF Attempt, Goto, Types, Send, Receive, ReceiveHalf, ReceiveFails, poolVars, callVars, Fd
    <3>2. Retrying(w)
      <4>1. CASE Send(w)
        BY <1>0, <4>1, CallConfig DEF Send, Retrying, Goto, Types
      <4>2. CASE Receive(w) \/ ReceiveHalf(w) \/ ReceiveFails(w)
        BY <1>0, <4>2 DEF Receive, ReceiveHalf, ReceiveFails, Retrying, Goto, callVars, Types
      <4> QED
        BY <2>3, <4>1, <4>2
    <3> QED
      BY <1>2, <3>1, <3>2
  <2>4. CASE StoreCounter(w)
    BY <1>0, <2>4, CallConfig DEF StoreCounter, Retrying, Goto, Types
  <2>5. CASE Reconnected(w)
    <3>1. Fd(w)' \in Fds \ open /\ asked' = asked /\ inbox' = inbox
      <4>1. holds[w] \in Conns /\ holds' = holds
        BY <1>0, <2>5 DEF Reconnected, PlacesOK, StepOf, PoolOK, P!ReconnectOpen,
           P!ReconnectFails
      <4>2. asked' = asked /\ inbox' = inbox
        BY <2>5 DEF Reconnected, Plug, wire
      <4>3. PICK fd : P!ReconnectOpen(w, fd) \/ P!ReconnectFails(w, fd)
        BY <2>5 DEF Reconnected
      <4>4. sock_fd' = [sock_fd EXCEPT ![holds[w]] = fd]
            /\ (fd \in Fds \ open \/ fd = NoFd)
        BY <4>3 DEF P!ReconnectOpen, P!ReconnectFails, P!Connects, P!FailedSocket
      <4>5. Fd(w)' = fd
        BY <1>0, <4>1, <4>4 DEF PoolOK, Fd
      <4> QED
        BY <4>2, <4>4, <4>5
    <3>2. Traffic(Fd(w)') = {}
      BY <1>0, <3>1 DEF WireOK
    <3> QED
      BY <3>1, <3>2 DEF Foreign, Traffic
  <2>6. CASE GetConnection(w) \/ NoConnection(w) \/ LoadCounter(w) \/ GiveUp(w) \/ Reconnect(w)
             \/ Return(w)
    BY <1>0, <2>2, <2>6 DEF GetConnection, NoConnection, Begin, LoadCounter, GiveUp, Reconnect,
       Return, Goto, callVars, Types
  <2> QED
    BY <1>5, <2>3, <2>4, <2>5, <2>6 DEF WorkerNext
<1> QED
  BY <1>4, <1>5 DEF Next
-----------------------------------------------------------------------------
(***************************************************************************)
(* The answer.                                                              *)
(***************************************************************************)
IdsDiffer == \A m, n \in 1..MaxCalls : drawn[m] = drawn[n] /\ drawn[m] # 0 => m = n

\* A response that passes the checks carries the identifier of the call that reads it, and is
\* that call's when no other call has it.
LEMMA ReceivesOwn ==
    ASSUME Inv, IdsDiffer, NEW w \in Workers, Receive(w), Matches(Head(inbox[Fd(w)]), w)
    PROVE  Head(inbox[Fd(w)]).call = call[w]
<1>0. Types /\ CallsOK /\ WireOK
  BY DEF Inv, IInv
<1> DEFINE m == Head(inbox[Fd(w)])
<1>1. place[w] = "receive" /\ inbox[Fd(w)] # <<>>
  BY DEF Receive
<1>2. Fd(w) \in Fds /\ Len(inbox[Fd(w)]) \in Nat \ {0} /\ m = inbox[Fd(w)][1]
  BY <1>1, HeadOfInbox
<1>3. <<m.id, m.call, m.try>> \in Traffic(Fd(w))
  BY <1>2 DEF Traffic
<1>4. m.call \in 1..MaxCalls /\ m.id = drawn[m.call] /\ m.id # 0
  BY <1>0, <1>2, <1>3 DEF WireOK
<1>5. m.id = identifier[w] /\ identifier[w] = drawn[call[w]] /\ call[w] \in 1..calls
  BY <1>0, <1>1 DEF Matches, CallsOK, Called
<1>6. call[w] \in 1..MaxCalls
  BY <1>0, <1>5, CallConfig DEF Types
<1> QED
  BY <1>4, <1>5, <1>6 DEF IdsDiffer

\* The answer a call ends with is its own, as long as identifiers differ.
LEMMA OwnAnswerStep ==
    ASSUME Inv, Next
    PROVE  OwnAnswerIfIdsDiffer'
<1>0. Types /\ PoolOK /\ OwnAnswerIfIdsDiffer
  BY DEF Inv, IInv
<1> SUFFICES ASSUME IdsDiffer' PROVE AnswerIsOwn'
  BY DEF OwnAnswerIfIdsDiffer, IdsDiffer
<1>1. IdsDiffer
  BY DrawnOnce DEF IdsDiffer
<1>2. AnswerIsOwn
  BY <1>0, <1>1 DEF OwnAnswerIfIdsDiffer, IdsDiffer
<1>3. ASSUME NEW v \in Workers, SameCall(v) PROVE answer'[v] # 0 => answer'[v] = call'[v]
  BY <1>2, <1>3 DEF SameCall, AnswerIsOwn
<1>4. CASE PoolInit \/ (\E fd \in Fds : Answer(fd) \/ ProviderCloses(fd))
  BY <1>0, <1>3, <1>4, NoWorker DEF AnswerIsOwn
<1>5. ASSUME NEW w \in Workers, WorkerNext(w) PROVE AnswerIsOwn'
  <2>1. \A v \in Workers \ {w} : SameCall(v)
    BY <1>0, <1>5, OtherWorkers
  <2>2. answer'[w] # 0 => answer'[w] = call'[w]
    <3>1. CASE GetConnection(w)
      BY <1>0, <3>1 DEF GetConnection, Begin, Types
    <3>2. CASE Receive(w) /\ Matches(Head(inbox[Fd(w)]), w)
      <4>1. Head(inbox[Fd(w)]).call = call[w]
        BY <1>1, <3>2, ReceivesOwn
      <4>2. call' = call /\ answer' = [answer EXCEPT ![w] = Head(inbox[Fd(w)]).call]
        BY <3>2 DEF Receive
      <4> QED
        BY <1>0, <4>1, <4>2 DEF Types
    <3>3. CASE Receive(w) /\ ~Matches(Head(inbox[Fd(w)]), w)
      BY <1>2, <3>3 DEF Receive, AnswerIsOwn
    <3>4. CASE NoConnection(w) \/ LoadCounter(w) \/ StoreCounter(w) \/ Send(w) \/ ReceiveHalf(w)
               \/ ReceiveFails(w) \/ Reconnect(w) \/ Reconnected(w) \/ GiveUp(w) \/ Return(w)
      <4>1. answer' = answer /\ call' = call
        BY <3>4 DEF NoConnection, LoadCounter, StoreCounter, Send, ReceiveHalf, ReceiveFails,
           Reconnect, Reconnected, GiveUp, Return, callVars
      <4> QED
        BY <1>2, <4>1 DEF AnswerIsOwn
    <3> QED
      BY <1>5, <3>1, <3>2, <3>3, <3>4 DEF WorkerNext
  <2> QED
    BY <1>3, <2>1, <2>2 DEF AnswerIsOwn
<1> QED
  BY <1>4, <1>5 DEF Next

-----------------------------------------------------------------------------
(***************************************************************************)
(* The invariant, and what follows from it.                                 *)
(***************************************************************************)
\* The invariant holds in the beginning,
LEMMA InitInv == Init => IInv
<1> SUFFICES ASSUME Init PROVE IInv
  OBVIOUS
<1> USE DEF Init
<1>1. Types
  BY CallConfig DEF Types, Places
<1>2. \A w \in Workers : place[w] = "out" /\ step[w] = "out"
  BY DEF P!Init
<1>3. PlacesOK
  BY <1>2 DEF PlacesOK, StepOf
<1>4. CallsOK
  BY <1>2 DEF CallsOK, Drawing, Called
<1>5. CounterOK
  <2>1. Drawn = {}
    BY DEF Drawn
  <2> QED
    BY <1>2, <2>1, FS_EmptySet DEF CounterOK
<1>6. \A fd \in Fds : Traffic(fd) = {}
  BY DEF Traffic
<1>7. WireOK
  BY <1>6 DEF WireOK
<1>8. RetryOnCleanWire
  BY <1>2 DEF RetryOnCleanWire, Retrying
<1>9. OwnAnswerIfIdsDiffer
  BY DEF OwnAnswerIfIdsDiffer, AnswerIsOwn
<1> QED
  BY <1>1, <1>3, <1>4, <1>5, <1>7, <1>8, <1>9 DEF IInv

\* is kept by each step, given what the pool guarantees,
LEMMA InductiveStep == Inv /\ [Next]_vars => IInv'
<1> SUFFICES ASSUME Inv, [Next]_vars PROVE IInv'
  OBVIOUS
<1>1. CASE Next
  <2>1. Types'
    BY <1>1, TypesStep
  <2>2. PlacesOK'
    BY <1>1, <2>1, PlacesStep
  <2>3. CallsOK' /\ CounterOK'
    BY <1>1, <2>1, CallsStep, CounterStep
  <2>4. WireOK'
    BY <1>1, WireStep
  <2>5. RetryOnCleanWire'
    BY <1>1, <2>1, <2>2, CleanStep
  <2>6. OwnAnswerIfIdsDiffer'
    BY <1>1, OwnAnswerStep
  <2> QED
    BY <2>1, <2>2, <2>3, <2>4, <2>5, <2>6 DEF IInv
<1>2. CASE UNCHANGED vars
  <2> USE <1>2 DEF vars, poolVars, callVars, wire
  <2>1. Types /\ PlacesOK /\ CallsOK /\ CounterOK /\ WireOK
    BY DEF Inv, IInv
  <2>2. Types'
    BY <2>1 DEF Types
  <2>3. PlacesOK'
    BY <2>1 DEF PlacesOK, Fd
  <2>4. CallsOK'
    BY <2>1 DEF CallsOK
  <2>5. CounterOK'
    BY <2>1 DEF CounterOK, Drawn
  <2>6. WireOK'
    BY <2>1 DEF WireOK, Traffic
  <2>7. RetryOnCleanWire' /\ OwnAnswerIfIdsDiffer'
    BY DEF Inv, IInv, RetryOnCleanWire, Retrying, Foreign, Attempt, Fd,
       OwnAnswerIfIdsDiffer, AnswerIsOwn
  <2> QED
    BY <2>2, <2>3, <2>4, <2>5, <2>6, <2>7 DEF IInv
<1> QED
  BY <1>1, <1>2

\* and so holds together with the invariant of the pool.
LEMMA Invariance == Spec => [](IInv /\ PP!IInv)
<1>1. Init => IInv
  BY InitInv
<1>2. IInv /\ PP!IInv /\ [Next]_vars => IInv'
  BY InductiveStep, PoolFacts DEF Inv
<1> QED
  BY <1>1, <1>2, PoolInvariant, PTL DEF Spec

\* Every variable has its type in every reachable state, for any number of workers,
\* connections, descriptors, retries and calls: a connection is in the worker's hands exactly
\* between pool_require_connection and pool_release_connection of invoke_service, and a socket
\* whose connection is up is an open descriptor of the process.
THEOREM TypeCorrect == Spec => []TypeOK
<1>1. IInv /\ PP!IInv => TypeOK
  <2> SUFFICES ASSUME IInv, PP!IInv PROVE TypeOK
    OBVIOUS
  <2>1. PP!TypeOK /\ PoolOK /\ Types /\ PlacesOK /\ WireOK
    BY PoolFacts DEF IInv, PP!IInv, PP!Ownership
  <2>2. P!TypeOK
    BY <2>1 DEF P!TypeOK, PP!TypeOK, P!Phases, PP!Phases
  <2>3. \A w \in Workers : place[w] # "out" <=> holds[w] # NoConn
    BY <2>1 DEF PoolOK, PlacesOK, StepOf
  <2> QED
    BY <2>1, <2>2, <2>3 DEF TypeOK, Types, WireOK
<1> QED
  BY <1>1, Invariance, PTL

\* conn_reconnect closes the socket before it opens another: in the second attempt of
\* invoke_service nothing that an earlier call or the first attempt left behind can arrive,
\* however many workers share the pool and whatever the provider does.
THEOREM RetryIsClean == Spec => []RetryOnCleanWire
<1>1. IInv => RetryOnCleanWire
  BY DEF IInv
<1> QED
  BY <1>1, Invariance, PTL

\* As long as next_identifier gives no identifier twice, invoke_service returns the response
\* to its own request, over connections on which late and broken responses of earlier calls
\* are left unread.
THEOREM ReturnsOwnAnswer == Spec => []OwnAnswerIfIdsDiffer
<1>1. IInv => OwnAnswerIfIdsDiffer
  BY DEF IInv
<1> QED
  BY <1>1, Invariance, PTL

\* invoke_service drives the pool as ConnPool allows and in no other way: its exclusive
\* connections, its limits and its descriptors are those proved of the pool alone.
THEOREM UsesPool == Spec => PP!Spec
<1>1. Init => PP!Init
  BY DEF Init, P!Init, PP!Init
<1> QED
  BY <1>1, PoolStep, PTL DEF Spec, PP!Spec

=============================================================================
