--------------------------- MODULE Server_proofs ---------------------------
(***************************************************************************)
(* Safety of the proxy server and of the transfers under it, for any number *)
(* of clients, workers and bytes, any messages and any cut of the streams.  *)
(***************************************************************************)
EXTENDS Server, SequenceTheorems, TLAPS

-----------------------------------------------------------------------------
(***************************************************************************)
(* The inductive invariant, of the server.                                  *)
(***************************************************************************)

\* Descriptors: each is in one socket pair, the one of its owner, and once.
PipesOK ==
    /\ \A w \in Workers : \A i \in 1..Len(pipe[w]) :
         /\ conn[pipe[w][i]] = "notify" /\ owner[pipe[w][i]] = w
         /\ \A j \in 1..(i - 1) : pipe[w][j] # pipe[w][i]
    /\ \A c \in Clients : conn[c] = "notify" =>
         \E i \in 1..Len(pipe[owner[c]]) : pipe[owner[c]][i] = c

\* A worker serves an open connection of its own.
ServingOK ==
    /\ serving \in [Workers -> (Clients \X Nat) \cup {<<>>}]
    /\ \A w \in Workers : serving[w] # <<>> <=> w \in Sockets /\ at[w] # "idle"
    /\ \A w \in Workers : serving[w] # <<>> =>
         conn[serving[w][1]] = "open" /\ owner[serving[w][1]] = w

\* What of a client's messages is not handled yet: it begins and ends with a message, each
\* head is followed by its body if there is one, and each message by the next.
Stream(c) == input[c] \o wire[c]

Follows(ks, p, q) ==
    IF p[2] = "head" /\ ks[p[1]] # "empty" THEN q = <<p[1], "body">>
    ELSE q = <<p[1] + 1, "head">>

InSequence(ks, s) ==
    /\ \A i \in 1..Len(s) : s[i][1] \in 1..Len(ks)
    /\ \A i \in 1..(Len(s) - 1) : Follows(ks, s[i], s[i + 1])
    /\ s # <<>> => s[1][2] = "head" /\ s[Len(s)][1] = Len(ks)

StreamOK == \A c \in Clients : InSequence(kinds[c], Stream(c))

\* The first message that is not handled.
NextOf(ks, s) == IF s = <<>> THEN Len(ks) + 1 ELSE s[1][1]

\* The good messages up to there are answered, in their order; the last of them may be the
\* one that is being served.
Answers(all, next, good, served) ==
    /\ \A i \in 1..Len(all) :
         /\ all[i].msg \in good /\ all[i].msg < next
         /\ \A j \in 1..(i - 1) : all[j].msg < all[i].msg
    /\ \A k \in good : k < next => k \in served \/ \E i \in 1..Len(all) : all[i].msg = k
    /\ \A k \in served : k \in good /\ k < next /\ \A i \in 1..Len(all) : all[i].msg < k

All(c) == got[c] \o output[c]
ServedOf(c) == {k \in Nat : \E w \in Workers : serving[w] = <<c, k>>}

AnswersOK == \A c \in Clients :
    Answers(All(c), NextOf(kinds[c], Stream(c)), Good(c), ServedOf(c))

ServerInv == TypeOKServer /\ PipesOK /\ ServingOK /\ StreamOK /\ AnswersOK

-----------------------------------------------------------------------------
(***************************************************************************)
(* The transfers of SocketIO.                                               *)
(***************************************************************************)

\* How far the call on socket s has come: what a part still needs and what was read of the
\* response make up the message, unless earlier answers come first, and only a receiver that
\* waits for the first byte of a part is in select().
Progress(s) ==
    /\ at[s] = "idle" => need[s] = 0 /\ ~ready[s]
    /\ at[s] = "send" =>
         /\ need[s] \in 1..RequestSize /\ arrived[s] = RequestSize - need[s] /\ ~ready[s]
         /\ before[s] = 0 => written[s] = 0 /\ unread[s] = 0 /\ length[s] = 0
    /\ at[s] = "header" =>
         /\ need[s] \in 1..HeaderSize
         /\ before[s] = 0 => written[s] - unread[s] = HeaderSize - need[s]
         /\ ~ready[s] => need[s] = HeaderSize
    /\ at[s] = "body" =>
         /\ need[s] \in Nat \ {0}
         /\ before[s] = 0 =>
              /\ need[s] <= length[s]
              /\ written[s] - unread[s] = HeaderSize + length[s] - need[s]
              /\ ~ready[s] => need[s] = length[s]
    /\ at[s] = "done" =>
         before[s] = 0 /\ ~ready[s] /\ written[s] - unread[s] = HeaderSize + length[s]
    /\ at[s] = "failed" =>
         /\ ~ready[s]
         /\ ~shut[s] /\ before[s] = 0 =>
              written[s] - unread[s] \in {0, HeaderSize, HeaderSize + length[s]}

IOInv == TypeOKIO /\ \A s \in Sockets : Progress(s)

USE TransferConfig

\* A step on one socket leaves the others alone.
LEMMA OtherSockets ==
    ASSUME IOInv, NEW s \in Sockets,
           \A r \in Sockets \ {s} :
             /\ at'[r] = at[r] /\ ready'[r] = ready[r] /\ need'[r] = need[r]
             /\ arrived'[r] = arrived[r] /\ length'[r] = length[r] /\ written'[r] = written[r]
             /\ unread'[r] = unread[r] /\ shut'[r] = shut[r] /\ before'[r] = before[r],
           TypeOKIO', Progress(s)'
    PROVE  IOInv'
BY DEF IOInv, Progress

\* What the type says of one socket.
LEMMA Scalars ==
    ASSUME IOInv, NEW s \in Sockets
    PROVE  /\ TypeOKIO /\ Progress(s)
           /\ need[s] \in Nat /\ written[s] \in Nat /\ unread[s] \in Nat /\ length[s] \in Nat
           /\ arrived[s] \in Nat /\ before[s] \in Nat
           /\ ready[s] \in BOOLEAN /\ shut[s] \in BOOLEAN
<1>1. TypeOKIO /\ Progress(s)
  BY DEF IOInv
<1>2. length[s] \in BodySizes \cup {0} /\ arrived[s] \in 0..RequestSize
      /\ before[s] \in 0..MaxLeft
  BY <1>1 DEF TypeOKIO
<1>3. length[s] \in Nat /\ arrived[s] \in Nat /\ before[s] \in Nat
  <2>1. /\ BodySizes \cup {0} \subseteq Nat /\ 0..RequestSize \subseteq Nat
        /\ 0..MaxLeft \subseteq Nat
    OBVIOUS
  <2> QED
    BY <1>2, <2>1
<1>4. /\ need[s] \in Nat /\ written[s] \in Nat /\ unread[s] \in Nat
      /\ ready[s] \in BOOLEAN /\ shut[s] \in BOOLEAN
  BY <1>1 DEF TypeOKIO
<1> QED
  BY <1>1, <1>3, <1>4

\* The call begins, begins again, and ends.
LEMMA WireKeeps ==
    ASSUME IOInv, NEW s \in Sockets, NEW earlier \in 0..MaxLeft, NEW down \in BOOLEAN,
           Wire(s, earlier, down), spoiled' \in BOOLEAN,
           NEW a \in {"idle", "send"}, at' = [at EXCEPT ![s] = a], at[s] \notin {"header", "body"},
           need' = [need EXCEPT ![s] = IF a = "send" THEN RequestSize ELSE 0],
           retry' \in [Sockets -> 0..RetryTimes], UNCHANGED ready
    PROVE  IOInv'
<1> USE DEF Wire, IOInv, TypeOKIO
<1>1. /\ at' \in [Sockets -> {"idle", "send", "header", "body", "done", "failed"}]
      /\ ready' \in [Sockets -> BOOLEAN] /\ shut' \in [Sockets -> BOOLEAN]
  OBVIOUS
<1>2. /\ need' \in [Sockets -> Nat] /\ arrived' \in [Sockets -> 0..RequestSize]
      /\ written' \in [Sockets -> Nat] /\ unread' \in [Sockets -> Nat]
      /\ length' \in [Sockets -> BodySizes \cup {0}] /\ before' \in [Sockets -> 0..MaxLeft]
  OBVIOUS
<1>3. TypeOKIO'
  BY <1>1, <1>2
<1>4. Progress(s)'
  BY DEF Progress
<1> QED
  BY <1>3, <1>4, OtherSockets

\* A call starts, is tried again, or ends.
LEMMA StartCallKeeps ==
    ASSUME IOInv, NEW s \in Sockets, StartCall(s) \/ Again(s) \/ EndCall(s)
    PROVE  IOInv'
<1>0. /\ retry \in [Sockets -> 0..RetryTimes] /\ spoiled \in BOOLEAN
      /\ at \in [Sockets -> {"idle", "send", "header", "body", "done", "failed"}]
  BY DEF IOInv, TypeOKIO
<1>1. CASE StartCall(s)
  <2>0. (IF spoiled THEN 0..MaxLeft ELSE {0}) \subseteq 0..MaxLeft
    OBVIOUS
  <2>1. PICK earlier \in 0..MaxLeft : Wire(s, earlier, FALSE)
    BY <1>1, <2>0 DEF StartCall
  <2>2. retry' \in [Sockets -> 0..RetryTimes] /\ spoiled' \in BOOLEAN
    BY <1>0, <1>1 DEF StartCall
  <2> QED
    BY <1>1, <2>1, <2>2, WireKeeps DEF StartCall
<1>2. CASE Again(s)
  <2>1. PICK down \in BOOLEAN : Wire(s, 0, down)
    BY <1>2 DEF Again
  <2>2. retry' \in [Sockets -> 0..RetryTimes] /\ spoiled' \in BOOLEAN /\ 0 \in 0..MaxLeft
    BY <1>0, <1>2 DEF Again
  <2> QED
    BY <1>2, <2>1, <2>2, WireKeeps DEF Again
<1>3. CASE EndCall(s)
  <2>1. retry' \in [Sockets -> 0..RetryTimes] /\ spoiled' \in BOOLEAN /\ 0 \in 0..MaxLeft
    BY <1>0, <1>3 DEF EndCall
  <2> QED
    BY <1>3, <2>1, WireKeeps DEF EndCall
<1> QED
  BY <1>1, <1>2, <1>3

\* send().
LEMMA SendKeeps ==
    ASSUME IOInv, NEW s \in Sockets, Send(s) \/ SendFails(s)
    PROVE  IOInv'
<1>0. /\ TypeOKIO /\ Progress(s)
      /\ need[s] \in Nat /\ written[s] \in Nat /\ unread[s] \in Nat /\ length[s] \in Nat
      /\ arrived[s] \in Nat /\ before[s] \in Nat
      /\ ready[s] \in BOOLEAN /\ shut[s] \in BOOLEAN
  BY Scalars
<1> USE <1>0 DEF TypeOKIO
<1>1. CASE SendFails(s)
  <2>1. TypeOKIO' /\ Progress(s)'
    BY <1>1 DEF SendFails, Progress
  <2> QED
    BY <1>1, <2>1, OtherSockets DEF SendFails
<1>2. CASE Send(s)
  <2>1. PICK n \in 1..need[s] :
          /\ arrived' = [arrived EXCEPT ![s] = arrived[s] + n]
          /\ IF n = need[s]
             THEN at' = [at EXCEPT ![s] = "header"] /\ need' = [need EXCEPT ![s] = HeaderSize]
             ELSE need' = [need EXCEPT ![s] = need[s] - n] /\ UNCHANGED at
    BY <1>2 DEF Send
  <2>2. /\ at[s] = "send" /\ need[s] \in 1..RequestSize /\ arrived[s] = RequestSize - need[s]
        /\ UNCHANGED <<ready, retry, before, length, written, unread, shut, spoiled>>
    BY <1>2 DEF Send, Progress
  <2>3. at' \in [Sockets -> {"idle", "send", "header", "body", "done", "failed"}]
        /\ need' \in [Sockets -> Nat]
    <3>1. n \in Nat /\ n <= need[s] /\ need[s] - n \in Nat
      BY <2>1
    <3>2. CASE n = need[s]
      BY <2>1, <3>2
    <3>3. CASE n # need[s]
      BY <2>1, <3>1, <3>3
    <3> QED
      BY <3>2, <3>3
  <2>4. arrived' \in [Sockets -> 0..RequestSize]
    <3>1. arrived[s] + n \in 0..RequestSize
      BY <2>1, <2>2
    <3> QED
      BY <2>1, <3>1
  <2>5. TypeOKIO'
    BY <2>2, <2>3, <2>4
  <2>6. Progress(s)'
    <3>1. /\ ~ready[s]
          /\ before[s] = 0 => written[s] = 0 /\ unread[s] = 0 /\ length[s] = 0
      BY <2>2 DEF Progress
    <3>2. CASE n = need[s]
      <4>1. /\ at'[s] = "header" /\ need'[s] = HeaderSize /\ ~ready'[s]
            /\ before'[s] = 0 => written'[s] = 0 /\ unread'[s] = 0
        BY <2>1, <2>2, <3>1, <3>2
      <4> QED
        BY <4>1 DEF Progress
    <3>3. CASE n # need[s]
      <4>1. /\ at'[s] = "send" /\ need'[s] = need[s] - n /\ arrived'[s] = arrived[s] + n
            /\ ~ready'[s]
            /\ before'[s] = 0 => written'[s] = 0 /\ unread'[s] = 0 /\ length'[s] = 0
        BY <2>1, <2>2, <3>1, <3>3
      <4>2. need'[s] \in 1..RequestSize /\ arrived'[s] = RequestSize - need'[s]
        BY <2>2, <3>3, <4>1
      <4> QED
        BY <4>1, <4>2 DEF Progress
    <3> QED
      BY <3>2, <3>3
  <2> QED
    BY <2>1, <2>2, <2>5, <2>6, OtherSockets
<1> QED
  BY <1>1, <1>2

\* select(), its timeout, and the end of the stream.
LEMMA SelectKeeps ==
    ASSUME IOInv, NEW s \in Sockets, Select(s) \/ Timeout(s) \/ RecvShut(s)
    PROVE  IOInv'
<1> USE DEF Select, Timeout, RecvShut, Receiving
<1>1. TypeOKIO'
  BY Scalars DEF TypeOKIO
<1>2. Progress(s)'
  BY Scalars DEF TypeOKIO, Progress
<1> QED
  BY <1>1, <1>2, OtherSockets, Scalars DEF TypeOKIO

\* recv(), which may complete the header or the body.
LEMMA RecvKeeps ==
    ASSUME IOInv, NEW s \in Sockets, Recv(s)
    PROVE  IOInv'
<1>0. /\ TypeOKIO /\ Progress(s)
      /\ need[s] \in Nat /\ written[s] \in Nat /\ unread[s] \in Nat /\ length[s] \in Nat
      /\ arrived[s] \in Nat /\ before[s] \in Nat
      /\ ready[s] \in BOOLEAN /\ shut[s] \in BOOLEAN
  BY Scalars
<1> USE <1>0 DEF TypeOKIO
<1>1. PICK n \in 1..need[s] :
        /\ n <= unread[s] /\ unread' = [unread EXCEPT ![s] = unread[s] - n]
        /\ IF n = need[s] THEN PartDone(s)
           ELSE need' = [need EXCEPT ![s] = need[s] - n] /\ UNCHANGED <<at, ready>>
  BY DEF Recv
<1>2. /\ at[s] \in {"header", "body"} /\ ready[s]
      /\ UNCHANGED <<retry, arrived, before, length, written, shut, spoiled>>
  BY DEF Recv, Receiving
<1>3. unread' \in [Sockets -> Nat] /\ length[s] \in Nat
  BY <1>1
<1>4. unread'[s] = unread[s] - n /\ written'[s] = written[s] /\ length'[s] = length[s]
      /\ before'[s] = before[s]
  BY <1>1, <1>2
<1>5. /\ at[s] = "header" =>
           /\ need[s] \in 1..HeaderSize
           /\ before[s] = 0 => written[s] - unread[s] = HeaderSize - need[s]
      /\ at[s] = "body" =>
           /\ need[s] \in Nat \ {0}
           /\ before[s] = 0 =>
                need[s] <= length[s] /\ written[s] - unread[s] = HeaderSize + length[s] - need[s]
  BY DEF Progress
<1>6. CASE n # need[s]
  <2>1. /\ need' = [need EXCEPT ![s] = need[s] - n] /\ UNCHANGED <<at, ready>>
        /\ need[s] - n \in Nat \ {0} /\ need[s] - n <= need[s]
    BY <1>1, <1>6
  <2>2. TypeOKIO'
    BY <1>2, <1>3, <2>1
  <2>3. need'[s] = need[s] - n /\ at'[s] = at[s] /\ ready'[s]
    BY <1>2, <2>1
  <2>4. Progress(s)'
    BY <1>2, <1>3, <1>4, <1>5, <2>1, <2>3 DEF Progress
  <2> QED
    BY <1>1, <1>2, <2>1, <2>2, <2>4, OtherSockets
<1>7. ASSUME n = need[s], at[s] = "header", NEW size \in Announced(s) \ {0},
             ready' = [ready EXCEPT ![s] = FALSE], at' = [at EXCEPT ![s] = "body"],
             need' = [need EXCEPT ![s] = size]
      PROVE  IOInv'
  <2>1. size \in Nat \ {0} /\ (before[s] = 0 => size = length[s])
    <3>1. BodySizes \cup {0} \subseteq Nat
      OBVIOUS
    <3> QED
      BY <1>3, <1>7, <3>1 DEF Announced
  <2>2. TypeOKIO'
    BY <1>2, <1>3, <1>7, <2>1
  <2>3. need'[s] = size /\ at'[s] = "body" /\ ~ready'[s]
    BY <1>7
  <2>4. Progress(s)'
    BY <1>3, <1>4, <1>5, <1>7, <2>1, <2>3 DEF Progress
  <2> QED
    BY <1>1, <1>2, <1>7, <2>2, <2>4, OtherSockets
<1>8. ASSUME n = need[s], at[s] = "header" => 0 \in Announced(s),
             NEW result \in Results(s), at' = [at EXCEPT ![s] = result],
             ready' = [ready EXCEPT ![s] = FALSE], need' = [need EXCEPT ![s] = 0]
      PROVE  IOInv'
  <2>1. /\ result \in {"done", "failed"}
        /\ result = "done" => before[s] = 0
    BY <1>8 DEF Results
  <2>2. TypeOKIO'
    BY <1>2, <1>3, <1>8, <2>1
  <2>3. before[s] = 0 /\ at[s] = "header" => length[s] = 0
    BY <1>8 DEF Announced
  <2>4. before'[s] = 0 => written'[s] - unread'[s] = HeaderSize + length'[s]
    BY <1>2, <1>3, <1>4, <1>5, <1>8, <2>3
  <2>5. at'[s] = result /\ ~ready'[s]
    BY <1>8, <2>1
  <2>6. Progress(s)'
    BY <1>4, <2>1, <2>4, <2>5 DEF Progress
  <2> QED
    BY <1>1, <1>2, <1>8, <2>2, <2>6, OtherSockets
<1> QED
  <2>1. CASE n = need[s]
    <3>1. PartDone(s)
      BY <1>1, <2>1
    <3> QED
      BY <1>7, <1>8, <2>1, <3>1 DEF PartDone
  <2> QED
    BY <1>6, <2>1

\* The provider writes a byte, or closes.
LEMMA ProviderKeeps ==
    ASSUME IOInv, NEW s \in Sockets, ProviderNext(s)
    PROVE  IOInv'
<1>0. /\ TypeOKIO /\ Progress(s)
      /\ need[s] \in Nat /\ written[s] \in Nat /\ unread[s] \in Nat /\ length[s] \in Nat
      /\ arrived[s] \in Nat /\ before[s] \in Nat
      /\ ready[s] \in BOOLEAN /\ shut[s] \in BOOLEAN
  BY Scalars
<1> USE <1>0 DEF TypeOKIO, InCall
<1>1. CASE Close(s)
  <2>1. TypeOKIO' /\ Progress(s)'
    BY <1>1 DEF Close, Progress
  <2> QED
    BY <1>1, <2>1, OtherSockets DEF Close
<1>2. CASE Respond(s)
  <2>1. /\ written' = [written EXCEPT ![s] = written[s] + 1]
        /\ unread' = [unread EXCEPT ![s] = unread[s] + 1]
        /\ at[s] \in {"send", "header", "body"} /\ arrived[s] = RequestSize
        /\ UNCHANGED <<at, ready, need, retry, arrived, before, shut, spoiled>>
    BY <1>2 DEF Respond, Writes
  <2>2. \E n \in BodySizes : length' = [length EXCEPT ![s] = n] \/ UNCHANGED length
    BY <1>2 DEF Respond
  <2>3. length' \in [Sockets -> BodySizes \cup {0}]
        /\ \A r \in Sockets \ {s} : length'[r] = length[r]
    BY <2>2
  <2>4. TypeOKIO'
    <3>1. written' \in [Sockets -> Nat] /\ unread' \in [Sockets -> Nat]
      BY <2>1
    <3> QED
      BY <2>1, <2>3, <3>1
  <2>5. at[s] # "send"
    BY <2>1 DEF Progress
  <2>6. at[s] = "body" /\ before[s] = 0 => length'[s] = length[s]
    <3>1. at[s] = "body" /\ before[s] = 0 => written[s] # 0
      BY DEF Progress
    <3> QED
      BY <1>2, <3>1 DEF Respond
  <2>7. Progress(s)'
    BY <2>1, <2>3, <2>5, <2>6 DEF Progress
  <2> QED
    BY <2>1, <2>3, <2>4, <2>7, OtherSockets
<1>3. CASE RespondLate(s)
  <2>1. /\ written' = [written EXCEPT ![s] = written[s] + 1]
        /\ unread' = [unread EXCEPT ![s] = unread[s] + 1]
        /\ before[s] # 0
        /\ UNCHANGED <<at, ready, need, retry, arrived, before, length, shut, spoiled>>
    BY <1>3 DEF RespondLate, Writes
  <2>2. TypeOKIO'
    <3>1. written' \in [Sockets -> Nat] /\ unread' \in [Sockets -> Nat]
      BY <2>1
    <3> QED
      BY <2>1, <3>1
  <2>3. Progress(s)'
    BY <2>1 DEF Progress
  <2> QED
    BY <2>1, <2>2, <2>3, OtherSockets
<1> QED
  BY <1>1, <1>2, <1>3 DEF ProviderNext

-----------------------------------------------------------------------------
(***************************************************************************)
(* Streams.                                                                 *)
(***************************************************************************)

\* Sequence t is s without its first d elements.
Dropped(s, t, d) ==
    /\ Len(t) = Len(s) - d
    /\ \A i \in 1..Len(t) : t[i] = s[i + d]

\* Concatenation and the rest of a sequence, element by element.
LEMMA Concatenated ==
    ASSUME NEW P, NEW a \in Seq(P), NEW b \in Seq(P)
    PROVE  /\ a \o b \in Seq(P) /\ Len(a) \in Nat /\ Len(b) \in Nat
           /\ Len(a \o b) = Len(a) + Len(b)
           /\ \A i \in 1..(Len(a) + Len(b)) :
                (a \o b)[i] = IF i <= Len(a) THEN a[i] ELSE b[i - Len(a)]
BY ConcatProperties

\* What is left of a sequence after its first m elements.
LEMMA RestOf ==
    ASSUME NEW P, NEW b \in Seq(P), NEW m \in 0..Len(b)
    PROVE  /\ SubSeq(b, m + 1, Len(b)) \in Seq(P) /\ Len(b) \in Nat
           /\ Len(SubSeq(b, m + 1, Len(b))) = Len(b) - m
           /\ \A i \in 1..(Len(b) - m) : SubSeq(b, m + 1, Len(b))[i] = b[i + m]
<1>1. Len(b) \in Nat /\ \A i \in (m + 1)..Len(b) : b[i] \in P
  OBVIOUS
<1>2. /\ SubSeq(b, m + 1, Len(b)) \in Seq(P)
      /\ Len(SubSeq(b, m + 1, Len(b))) =
           IF m + 1 <= Len(b) THEN Len(b) - (m + 1) + 1 ELSE 0
      /\ \A i \in 1..(Len(b) - (m + 1) + 1) :
           SubSeq(b, m + 1, Len(b))[i] = b[(m + 1) + i - 1]
  BY <1>1, SubSeqProperties
<1> QED
  BY <1>1, <1>2

\* libevent moves n pieces to the buffer, and d of them are handled.
LEMMA Moved ==
    ASSUME NEW P, NEW a \in Seq(P), NEW b \in Seq(P), NEW n \in 1..Len(b),
           NEW d \in 0..Len(a \o SubSeq(b, 1, n)), NEW keep \in Seq(P),
           Dropped(a \o SubSeq(b, 1, n), keep, d)
    PROVE  /\ SubSeq(b, n + 1, Len(b)) \in Seq(P)
           /\ Len(a \o SubSeq(b, 1, n)) \in Nat \ {0} /\ Len(a \o b) \in Nat
           /\ Len(a \o SubSeq(b, 1, n)) <= Len(a \o b)
           /\ \A i \in 1..Len(a \o SubSeq(b, 1, n)) : (a \o SubSeq(b, 1, n))[i] = (a \o b)[i]
           /\ keep \o SubSeq(b, n + 1, Len(b)) \in Seq(P)
           /\ Dropped(a \o b, keep \o SubSeq(b, n + 1, Len(b)), d)
<1> DEFINE pre == SubSeq(b, 1, n)
           buf == a \o pre
           rest == SubSeq(b, n + 1, Len(b))
           s == a \o b
           t == keep \o rest
<1>0. Len(a) \in Nat /\ Len(b) \in Nat
  OBVIOUS
<1>1. pre \in Seq(P) /\ Len(pre) = n /\ \A i \in 1..n : pre[i] = b[i]
  <2>1. \A i \in 1..n : b[i] \in P
    BY <1>0
  <2>2. /\ pre \in Seq(P) /\ Len(pre) = IF 1 <= n THEN n - 1 + 1 ELSE 0
        /\ \A i \in 1..(n - 1 + 1) : pre[i] = b[1 + i - 1]
    BY <1>0, <2>1, SubSeqProperties
  <2> QED
    BY <1>0, <2>2
<1>2. /\ rest \in Seq(P) /\ Len(rest) = Len(b) - n
      /\ \A i \in 1..(Len(b) - n) : rest[i] = b[i + n]
  BY RestOf
<1>3. /\ Len(buf) = Len(a) + n
      /\ \A i \in 1..(Len(a) + n) : buf[i] = IF i <= Len(a) THEN a[i] ELSE b[i - Len(a)]
  <2>1. /\ Len(buf) = Len(a) + Len(pre)
        /\ \A i \in 1..(Len(a) + Len(pre)) :
             buf[i] = IF i <= Len(a) THEN a[i] ELSE pre[i - Len(a)]
    BY <1>1, Concatenated
  <2> HIDE DEF pre
  <2> QED
    BY <1>0, <1>1, <2>1
<1>4. /\ Len(s) = Len(a) + Len(b)
      /\ \A i \in 1..(Len(a) + Len(b)) : s[i] = IF i <= Len(a) THEN a[i] ELSE b[i - Len(a)]
  BY Concatenated
<1>5. Len(keep) = Len(a) + n - d /\ \A i \in 1..(Len(a) + n - d) : keep[i] = buf[i + d]
  <2>1. Len(keep) = Len(buf) - d /\ \A i \in 1..Len(keep) : keep[i] = buf[i + d]
    BY DEF Dropped
  <2>2. Len(buf) - d = Len(a) + n - d
    BY <1>3
  <2> QED
    BY <2>1, <2>2
<1> HIDE DEF rest
<1>6. /\ t \in Seq(P) /\ Len(t) = Len(keep) + Len(rest)
      /\ \A i \in 1..(Len(keep) + Len(rest)) :
           t[i] = IF i <= Len(keep) THEN keep[i] ELSE rest[i - Len(keep)]
  BY <1>2, Concatenated
<1> HIDE DEF s, t, buf
<1>7. Len(keep) + Len(rest) = Len(a) + Len(b) - d
  BY <1>0, <1>2, <1>3, <1>5
<1>8. \A i \in 1..(Len(a) + Len(b) - d) :
        t[i] = IF i <= Len(a) + n - d THEN keep[i] ELSE rest[i - (Len(a) + n - d)]
  BY <1>5, <1>6, <1>7
<1>9. d \in 0..(Len(a) + n)
  BY <1>3
<1>10. /\ \A i \in 1..(Len(a) + n) : buf[i] = s[i]
       /\ \A i \in 1..(Len(a) + Len(b) - d) : t[i] = s[i + d]
  <2> DEFINE la == Len(a)
             lb == Len(b)
  <2>1. la \in Nat /\ lb \in Nat /\ n \in 1..lb /\ d \in 0..(la + n)
    BY <1>0, <1>9
  <2>2. /\ \A i \in 1..(la + lb) : s[i] = IF i <= la THEN a[i] ELSE b[i - la]
        /\ \A i \in 1..(la + n) : buf[i] = IF i <= la THEN a[i] ELSE b[i - la]
        /\ \A i \in 1..(lb - n) : rest[i] = b[i + n]
        /\ \A i \in 1..(la + n - d) : keep[i] = buf[i + d]
        /\ \A i \in 1..(la + lb - d) :
             t[i] = IF i <= la + n - d THEN keep[i] ELSE rest[i - (la + n - d)]
    BY <1>2, <1>3, <1>4, <1>5, <1>8
  <2> HIDE DEF la, lb
  <2>3. ASSUME NEW i \in 1..(la + n) PROVE buf[i] = s[i]
    BY <2>1, <2>2
  <2>4. ASSUME NEW i \in 1..(la + lb - d) PROVE t[i] = s[i + d]
    <3>1. CASE i <= la + n - d
      <4>1. t[i] = buf[i + d] /\ i + d \in 1..(la + n)
        BY <2>1, <2>2, <3>1
      <4> QED
        BY <2>3, <4>1
    <3>2. CASE i > la + n - d
      <4>1. i - (la + n - d) \in 1..(lb - n) /\ i - (la + n - d) + n = i + d - la
        BY <2>1, <3>2
      <4>2. t[i] = rest[i - (la + n - d)]
        BY <2>1, <2>2, <3>2
      <4>3. t[i] = b[i + d - la]
        BY <2>2, <4>1, <4>2
      <4>4. i + d \in 1..(la + lb) /\ ~(i + d <= la)
        BY <2>1, <3>2
      <4>5. \A k \in 1..(la + lb) : s[k] = IF k <= la THEN a[k] ELSE b[k - la]
        BY <2>2
      <4>6. s[i + d] = b[i + d - la]
        BY <2>1, <4>4, <4>5, SMTT(30)
      <4> QED
        BY <4>3, <4>6
    <3> QED
      BY <2>1, <3>1, <3>2
  <2> QED
    BY <2>3, <2>4 DEF la, lb
<1>11. Dropped(s, t, d)
  BY <1>4, <1>6, <1>7, <1>10 DEF Dropped
<1>12. Len(buf) \in Nat \ {0} /\ Len(buf) <= Len(s) /\ Len(s) \in Nat
  BY <1>0, <1>3, <1>4
<1> QED
  BY <1>2, <1>3, <1>6, <1>10, <1>11, <1>12 DEF s, t, rest, buf, pre

\* A stream of which a whole message is handled goes on with the next one.
LEMMA NextMessage ==
    ASSUME NEW ks, NEW s \in Seq(Pieces), NEW t \in Seq(Pieces), NEW d \in 1..2,
           InSequence(ks, s), Dropped(s, t, d), Len(s) >= d, Len(ks) \in Nat,
           d = IF ks[s[1][1]] = "empty" THEN 1 ELSE 2
    PROVE  InSequence(ks, t) /\ NextOf(ks, t) = s[1][1] + 1
<1> Len(s) \in Nat /\ Len(t) \in Nat
  OBVIOUS
<1>a. /\ Len(t) = Len(s) - d
      /\ \A i \in 1..Len(t) : t[i] = s[i + d] /\ i + d \in 1..Len(s)
  BY DEF Dropped
<1>0. /\ s # <<>> /\ s[1][2] = "head" /\ s[1][1] \in Nat /\ s[Len(s)][1] = Len(ks)
      /\ \A i \in 1..Len(s) : s[i][1] \in 1..Len(ks)
      /\ \A i \in 1..(Len(s) - 1) : Follows(ks, s[i], s[i + 1])
  BY DEF InSequence
<1>1. d = 2 => s[2] = <<s[1][1], "body">>
  BY <1>0 DEF Follows
<1>2. s[d][1] = s[1][1]
  BY <1>1
<1>3. Len(s) > d => s[d + 1] = <<s[1][1] + 1, "head">>
  <2>1. CASE d = 1
    BY <1>0, <2>1 DEF Follows
  <2>2. CASE d = 2
    BY <1>0, <1>1, <2>2 DEF Follows
  <2> QED
    BY <2>1, <2>2
<1>4. \A i \in 1..(Len(t) - 1) : Follows(ks, t[i], t[i + 1])
  <2>1. \A i \in 1..(Len(t) - 1) : /\ t[i] = s[i + d] /\ t[i + 1] = s[(i + d) + 1]
                                   /\ i + d \in 1..(Len(s) - 1)
    <3> TAKE i \in 1..(Len(t) - 1)
    <3>1. i \in 1..Len(t) /\ i + 1 \in 1..Len(t) /\ i + 1 + d = (i + d) + 1
      OBVIOUS
    <3>2. t[i] = s[i + d] /\ t[i + 1] = s[i + 1 + d]
      BY <1>a, <3>1
    <3>3. i + d \in 1..(Len(s) - 1)
      BY <1>a
    <3> QED
      BY <3>1, <3>2, <3>3
  <2> QED
    BY <1>0, <2>1
<1>5. t # <<>> => t[1] = s[d + 1] /\ t[Len(t)] = s[Len(s)] /\ Len(s) > d
  BY <1>a, SMTT(30)
<1>6. InSequence(ks, t)
  <2>1. \A i \in 1..Len(t) : t[i][1] \in 1..Len(ks)
    BY <1>0, <1>a
  <2>2. t # <<>> => t[1][2] = "head" /\ t[Len(t)][1] = Len(ks)
    BY <1>0, <1>3, <1>5
  <2> QED
    BY <1>4, <2>1, <2>2 DEF InSequence
<1>7. t = <<>> => Len(s) = d
  BY <1>a
<1> QED
  BY <1>0, <1>2, <1>3, <1>5, <1>6, <1>7 DEF NextOf

-----------------------------------------------------------------------------
(***************************************************************************)
(* The server: what a step leaves alone.                                    *)
(***************************************************************************)
ClientOK(c) ==
    /\ InSequence(kinds[c], Stream(c))
    /\ Answers(All(c), NextOf(kinds[c], Stream(c)), Good(c), ServedOf(c))

\* A client of which nothing was read, answered or written is where it was.
LEMMA OtherClient ==
    ASSUME NEW c, ClientOK(c),
           input'[c] = input[c], wire'[c] = wire[c], kinds'[c] = kinds[c],
           output'[c] = output[c], got'[c] = got[c],
           \A w \in Workers, k \in Nat : serving'[w] = <<c, k>> <=> serving[w] = <<c, k>>
    PROVE  ClientOK(c)'
<1>1. Stream(c)' = Stream(c) /\ All(c)' = All(c) /\ Good(c)' = Good(c)
  BY DEF Stream, All, Good
<1>2. ServedOf(c)' = ServedOf(c)
  BY DEF ServedOf
<1> QED
  BY <1>1, <1>2 DEF ClientOK

\* Nothing is left of a client whose connection is freed.
LEMMA NoClient ==
    ASSUME NEW c, input'[c] = <<>>, wire'[c] = <<>>, kinds'[c] = <<>>,
           output'[c] = <<>>, got'[c] = <<>>,
           \A w \in Workers, k \in Nat : serving'[w] # <<c, k>>
    PROVE  ClientOK(c)'
<1>1. Stream(c)' = <<>> /\ All(c)' = <<>> /\ Good(c)' = {} /\ ServedOf(c)' = {}
  BY DEF Stream, All, Good, ServedOf
<1> QED
  BY <1>1 DEF ClientOK, InSequence, Answers

\* The invariant of the streams and the answers, one client at a time.
LEMMA Clientwise == StreamOK /\ AnswersOK <=> \A c \in Clients : ClientOK(c)
BY DEF StreamOK, AnswersOK, ClientOK

\* Workers are numbered from zero, and the round robin of do_accept stays among them.
LEMMA WorkerSet ==
    /\ Workers \subseteq Nat /\ 0 \in Workers /\ Sockets \subseteq Workers
    /\ \A n \in Nat : n % WorkerNum \in Workers
BY ServerConfig DEF Workers

\* A worker with nothing to do serves none of its connections, and no other worker does.
LEMMA NotServed ==
    ASSUME ServerInv, NEW c \in Clients,
           conn[c] # "open" \/ serving[owner[c]] = <<>>
    PROVE  \A w \in Workers, k \in Nat : serving[w] # <<c, k>>
BY DEF ServerInv, ServingOK

-----------------------------------------------------------------------------
(***************************************************************************)
(* The actions, one after the other.                                        *)
(***************************************************************************)
\* Start-up, and its failures.
LEMMA StartupKeeps ==
    ASSUME ServerInv, Startup \/ StartupFails
    PROVE  ServerInv'
<1>1. UNCHANGED <<accepts, counter, conn, owner, pipe, kinds, wire, left, input, output, got,
                  serving, ioVars>>
  BY DEF Startup, StartupFails
<1>2. TypeOKServer'
  <2>1. made' \in Workers
    BY ServerConfig DEF ServerInv, TypeOKServer, Startup, StartupFails, Workers
  <2>2. phase' \in {"prepare", "launch", "running", "exited"}
    BY DEF Startup, StartupFails
  <2> QED
    BY <1>1, <2>1, <2>2 DEF ServerInv, TypeOKServer
<1>3. PipesOK' /\ ServingOK'
  BY <1>1 DEF ServerInv, PipesOK, ServingOK, ioVars
<1>4. \A c \in Clients : ClientOK(c)'
  BY <1>1, OtherClient, Clientwise DEF ServerInv
<1>5. StreamOK' /\ AnswersOK'
  BY <1>4 DEF StreamOK, AnswersOK, ClientOK
<1> QED
  BY <1>2, <1>3, <1>5 DEF ServerInv

\* do_accept puts the descriptor into the socket pair of the next worker.
LEMMA AcceptKeeps ==
    ASSUME ServerInv, NEW c \in Clients, Accept(c)
    PROVE  ServerInv'
<1> DEFINE n == NextWorker
<1>0. TypeOKServer /\ PipesOK /\ ServingOK /\ \A b \in Clients : ClientOK(b)
  BY Clientwise DEF ServerInv
<1>1. n \in Workers
  <2>1. counter \in Nat
    BY <1>0, ServerConfig DEF TypeOKServer
  <2> QED
    BY <2>1, WorkerSet DEF NextWorker
<1>2. /\ conn[c] = "backlog" /\ conn' = [conn EXCEPT ![c] = "notify"]
      /\ owner' = [owner EXCEPT ![c] = n] /\ pipe' = [pipe EXCEPT ![n] = Append(pipe[n], c)]
      /\ counter' = IF counter + 1 > CycleMax THEN 0 ELSE counter + 1
      /\ UNCHANGED <<phase, made, kinds, wire, left, input, output, got, serving, ioVars>>
  BY DEF Accept, AdvanceCounter
<1> HIDE DEF n
<1>3. TypeOKServer'
  <2>1. counter' \in 0..CycleMax
    BY <1>0, <1>2, ServerConfig DEF TypeOKServer
  <2>2. pipe' \in [Workers -> Seq(Clients)]
    <3>1. Append(pipe[n], c) \in Seq(Clients)
      BY <1>0, <1>1, AppendProperties DEF TypeOKServer
    <3> QED
      BY <1>0, <1>2, <3>1 DEF TypeOKServer
  <2>3. /\ conn' \in [Clients -> {"none", "backlog", "notify", "open"}]
        /\ owner' \in [Clients -> Workers]
    BY <1>0, <1>1, <1>2 DEF TypeOKServer
  <2> QED
    BY <1>0, <1>2, <2>1, <2>2, <2>3 DEF TypeOKServer
<1>4. PipesOK'
  <2>0. /\ pipe \in [Workers -> Seq(Clients)] /\ Len(pipe[n]) \in Nat
        /\ conn \in [Clients -> {"none", "backlog", "notify", "open"}]
        /\ owner \in [Clients -> Workers]
    BY <1>0, <1>1 DEF TypeOKServer
  <2>1. /\ pipe'[n] = Append(pipe[n], c) /\ Len(pipe'[n]) = Len(pipe[n]) + 1
        /\ pipe'[n][Len(pipe[n]) + 1] = c
        /\ \A i \in 1..Len(pipe[n]) : pipe'[n][i] = pipe[n][i]
        /\ \A w \in Workers \ {n} : pipe'[w] = pipe[w]
    BY <1>1, <1>2, <2>0
  <2>2. \A w \in Workers : \A i \in 1..Len(pipe[w]) : pipe[w][i] \in Clients \ {c}
    BY <1>0, <1>2, <2>0 DEF PipesOK
  <2>3. ASSUME NEW w \in Workers, NEW i \in 1..Len(pipe'[w])
        PROVE  /\ conn'[pipe'[w][i]] = "notify" /\ owner'[pipe'[w][i]] = w
               /\ \A j \in 1..(i - 1) : pipe'[w][j] # pipe'[w][i]
    <3>1. CASE w # n
      BY <1>0, <1>2, <2>0, <2>1, <2>2, <3>1 DEF PipesOK
    <3>2. CASE w = n /\ i \in 1..Len(pipe[n])
      BY <1>0, <1>2, <2>0, <2>1, <2>2, <3>2 DEF PipesOK
    <3>3. CASE w = n /\ i = Len(pipe[n]) + 1
      BY <1>2, <2>0, <2>1, <2>2, <3>3
    <3>4. w = n => i \in 1..Len(pipe[n]) \/ i = Len(pipe[n]) + 1
      BY <2>0, <2>1
    <3> QED
      BY <3>1, <3>2, <3>3, <3>4
  <2>4. ASSUME NEW b \in Clients, conn'[b] = "notify"
        PROVE  \E i \in 1..Len(pipe'[owner'[b]]) : pipe'[owner'[b]][i] = b
    <3>1. CASE b = c
      <4>1. owner'[b] = n
        BY <1>2, <2>0, <3>1
      <4>2. Len(pipe[n]) + 1 \in 1..Len(pipe'[n]) /\ pipe'[n][Len(pipe[n]) + 1] = b
        BY <2>0, <2>1, <3>1
      <4> QED
        BY <4>1, <4>2
    <3>2. CASE b # c
      <4>1. conn[b] = "notify" /\ owner'[b] = owner[b] /\ owner[b] \in Workers
        BY <1>2, <2>0, <2>4, <3>2
      <4>2. PICK i \in 1..Len(pipe[owner[b]]) : pipe[owner[b]][i] = b
        BY <1>0, <4>1 DEF PipesOK
      <4>3. i \in 1..Len(pipe'[owner[b]]) /\ pipe'[owner[b]][i] = b
        <5>1. CASE owner[b] = n
          <6>1. i \in 1..Len(pipe[n]) /\ pipe[n][i] = b
            BY <4>2, <5>1
          <6>2. i \in 1..Len(pipe'[n]) /\ pipe'[n][i] = b
            BY <2>0, <2>1, <6>1
          <6> QED
            BY <5>1, <6>2
        <5>2. CASE owner[b] # n
          BY <2>1, <4>1, <4>2, <5>2
        <5> QED
          BY <5>1, <5>2
      <4> QED
        BY <4>1, <4>3
    <3> QED
      BY <3>1, <3>2
  <2> QED
    BY <2>3, <2>4 DEF PipesOK
<1>5. ServingOK'
  <2>1. \A w \in Workers : serving[w] # <<>> => serving[w][1] \in Clients \ {c}
    BY <1>0, <1>2 DEF ServingOK
  <2>2. \A b \in Clients \ {c} : conn'[b] = conn[b] /\ owner'[b] = owner[b]
    BY <1>0, <1>2 DEF TypeOKServer
  <2> QED
    BY <1>0, <1>2, <2>1, <2>2 DEF ServingOK, ioVars
<1>6. \A b \in Clients : ClientOK(b)'
  BY <1>0, <1>2, OtherClient
<1>7. StreamOK' /\ AnswersOK'
  BY <1>6 DEF StreamOK, AnswersOK, ClientOK
<1> QED
  BY <1>3, <1>4, <1>5, <1>7 DEF ServerInv

\* A connection is freed from the backlog or by the worker that has it.
LEMMA FreeKeeps ==
    ASSUME ServerInv, NEW c \in Clients, FreeConnection(c), conn[c] # "notify",
           conn[c] # "open" \/ serving[owner[c]] = <<>>,
           UNCHANGED <<mainVars, pipe, serving, ioVars>>
    PROVE  ServerInv'
<1>0. TypeOKServer /\ PipesOK /\ ServingOK /\ \A b \in Clients : ClientOK(b)
  BY Clientwise DEF ServerInv
<1>1. /\ conn' = [conn EXCEPT ![c] = "none"] /\ owner' = [owner EXCEPT ![c] = 0]
      /\ input' = [input EXCEPT ![c] = <<>>] /\ output' = [output EXCEPT ![c] = <<>>]
      /\ wire' = [wire EXCEPT ![c] = <<>>] /\ left' = [left EXCEPT ![c] = FALSE]
      /\ kinds' = [kinds EXCEPT ![c] = <<>>] /\ got' = [got EXCEPT ![c] = <<>>]
      /\ UNCHANGED <<phase, made, counter, pipe, serving, at>>
  BY DEF FreeConnection, mainVars, ioVars
<1>2. TypeOKServer'
  BY <1>0, <1>1, WorkerSet DEF TypeOKServer
<1>3. PipesOK'
  <2>1. \A w \in Workers : \A i \in 1..Len(pipe[w]) : pipe[w][i] \in Clients \ {c}
    <3>1. \A w \in Workers : \A i \in 1..Len(pipe[w]) : pipe[w][i] \in Clients
      BY <1>0 DEF TypeOKServer
    <3>2. \A w \in Workers : \A i \in 1..Len(pipe[w]) : conn[pipe[w][i]] = "notify"
      BY <1>0 DEF PipesOK
    <3> QED
      BY <3>1, <3>2
  <2>2. \A b \in Clients \ {c} : conn'[b] = conn[b] /\ owner'[b] = owner[b]
    BY <1>0, <1>1 DEF TypeOKServer
  <2>3. conn'[c] = "none"
    BY <1>0, <1>1 DEF TypeOKServer
  <2> QED
    BY <1>0, <1>1, <2>1, <2>2, <2>3 DEF PipesOK
<1>4. \A w \in Workers, k \in Nat : serving'[w] # <<c, k>>
  BY <1>1, NotServed
<1>5. ServingOK'
  <2>1. \A w \in Workers : serving[w] # <<>> => serving[w][1] \in Clients \ {c}
    BY <1>0 DEF ServingOK
  <2>2. \A b \in Clients \ {c} : conn'[b] = conn[b] /\ owner'[b] = owner[b]
    BY <1>0, <1>1 DEF TypeOKServer
  <2> QED
    BY <1>0, <1>1, <2>1, <2>2 DEF ServingOK
<1>6. ASSUME NEW b \in Clients PROVE ClientOK(b)'
  <2>1. CASE b = c
    <3>1. input'[b] = <<>> /\ wire'[b] = <<>> /\ kinds'[b] = <<>> /\ output'[b] = <<>> /\ got'[b] = <<>>
      BY <1>0, <1>1, <2>1 DEF TypeOKServer
    <3> QED
      BY <1>4, <2>1, <3>1, NoClient
  <2>2. CASE b # c
    <3>1. /\ input'[b] = input[b] /\ wire'[b] = wire[b] /\ kinds'[b] = kinds[b]
          /\ output'[b] = output[b] /\ got'[b] = got[b]
      BY <1>0, <1>1, <2>2 DEF TypeOKServer
    <3> QED
      BY <1>0, <1>1, <3>1, OtherClient
  <2> QED
    BY <2>1, <2>2
<1>7. StreamOK' /\ AnswersOK'
  BY <1>6 DEF StreamOK, AnswersOK, ClientOK
<1> QED
  BY <1>2, <1>3, <1>5, <1>7 DEF ServerInv

\* A descriptor that is refused, and a connection that is ended with its buffers.
LEMMA FreesKeep ==
    ASSUME ServerInv, NEW w \in Workers, NEW c \in Clients,
           AcceptRefused(c) \/ ReadUndecodable(w, c) \/ Error(w, c)
    PROVE  ServerInv'
BY FreeKeeps DEF AcceptRefused, ReadUndecodable, Error, Serves, Free

\* handle_notify takes the first descriptor of the worker's socket pair.
LEMMA NotifyKeeps ==
    ASSUME ServerInv, NEW w \in Workers, HandleNotify(w)
    PROVE  ServerInv'
<1> DEFINE h == Head(pipe[w])
<1>0. TypeOKServer /\ PipesOK /\ ServingOK /\ \A b \in Clients : ClientOK(b)
  BY Clientwise DEF ServerInv
<1>1. /\ pipe[w] # <<>> /\ conn' = [conn EXCEPT ![h] = "open"]
      /\ pipe' = [pipe EXCEPT ![w] = Tail(pipe[w])]
      /\ UNCHANGED <<mainVars, owner, kinds, wire, left, input, output, got, serving, ioVars>>
  BY DEF HandleNotify
<1>2. /\ pipe[w] \in Seq(Clients) /\ Len(pipe[w]) \in Nat \ {0} /\ h = pipe[w][1] /\ h \in Clients
      /\ Tail(pipe[w]) \in Seq(Clients) /\ Len(Tail(pipe[w])) = Len(pipe[w]) - 1
      /\ \A i \in 1..(Len(pipe[w]) - 1) : Tail(pipe[w])[i] = pipe[w][i + 1]
  <2>1. pipe[w] \in Seq(Clients)
    BY <1>0 DEF TypeOKServer
  <2> QED
    BY <1>1, <2>1, EmptySeq, HeadTailProperties
<1> HIDE DEF h
<1>3. TypeOKServer'
  BY <1>0, <1>1, <1>2 DEF TypeOKServer, mainVars
<1>a. /\ \A v \in Workers \ {w} : pipe'[v] = pipe[v]
      /\ pipe'[w] = Tail(pipe[w])
      /\ conn'[h] = "open" /\ \A b \in Clients \ {h} : conn'[b] = conn[b]
      /\ UNCHANGED owner
  BY <1>0, <1>1, <1>2 DEF TypeOKServer
<1>b. \A v \in Workers : \A i \in 1..Len(pipe[v]) :
        /\ pipe[v][i] \in Clients /\ conn[pipe[v][i]] = "notify" /\ owner[pipe[v][i]] = v
        /\ \A j \in 1..(i - 1) : pipe[v][j] # pipe[v][i]
  BY <1>0 DEF TypeOKServer, PipesOK
<1>4. PipesOK'
  <2>1. ASSUME NEW v \in Workers, NEW i \in 1..Len(pipe'[v])
        PROVE  /\ conn'[pipe'[v][i]] = "notify" /\ owner'[pipe'[v][i]] = v
               /\ \A j \in 1..(i - 1) : pipe'[v][j] # pipe'[v][i]
    <3>1. CASE v # w
      <4>1. pipe'[v] = pipe[v]
        BY <1>a, <3>1
      <4>2. 1 \in 1..Len(pipe[w]) /\ owner[h] = w
        BY <1>2, <1>b
      <4>3. pipe[v][i] # h
        BY <1>b, <3>1, <4>1, <4>2
      <4> QED
        BY <1>a, <1>b, <4>1, <4>3
    <3>2. CASE v = w
      <4>1. i \in 1..(Len(pipe[w]) - 1) /\ pipe'[w] = Tail(pipe[w])
        BY <1>2, <1>a, <3>2
      <4>2. pipe'[w][i] = pipe[w][i + 1] /\ i + 1 \in 1..Len(pipe[w]) /\ 1 \in 1..(i + 1 - 1)
        BY <1>2, <4>1
      <4>3. pipe[w][i + 1] # h /\ pipe[w][i + 1] \in Clients
        BY <1>2, <1>b, <4>2
      <4>4. ASSUME NEW j \in 1..(i - 1) PROVE pipe'[w][j] # pipe'[w][i]
        <5>1. pipe'[w][j] = pipe[w][j + 1] /\ j + 1 \in 1..(i + 1 - 1)
          BY <1>2, <4>1
        <5> QED
          BY <1>b, <4>2, <5>1
      <4>5. conn[pipe[w][i + 1]] = "notify" /\ owner[pipe[w][i + 1]] = w
        BY <1>b, <4>2
      <4>6. conn'[pipe'[w][i]] = "notify" /\ owner'[pipe'[w][i]] = w
        BY <1>a, <4>2, <4>3, <4>5
      <4> QED
        BY <3>2, <4>4, <4>6
    <3> QED
      BY <3>1, <3>2
  <2>2. ASSUME NEW b \in Clients, conn'[b] = "notify"
        PROVE  \E i \in 1..Len(pipe'[owner'[b]]) : pipe'[owner'[b]][i] = b
    <3>1. b # h /\ conn[b] = "notify" /\ owner[b] \in Workers
      BY <1>0, <1>a, <2>2 DEF TypeOKServer
    <3>2. PICK i \in 1..Len(pipe[owner[b]]) : pipe[owner[b]][i] = b
      BY <1>0, <3>1 DEF PipesOK
    <3>3. CASE owner[b] # w
      BY <1>a, <3>1, <3>2, <3>3
    <3>4. CASE owner[b] = w
      <4>1. i # 1 /\ i \in 1..Len(pipe[w]) /\ pipe[w][i] = b
        BY <1>2, <3>1, <3>2, <3>4
      <4>2. i - 1 \in 1..Len(pipe'[w]) /\ pipe'[w][i - 1] = b
        <5>1. i - 1 \in 1..(Len(pipe[w]) - 1) /\ (i - 1) + 1 = i
          BY <1>2, <4>1
        <5>2. Tail(pipe[w])[i - 1] = pipe[w][i]
          BY <1>2, <5>1
        <5> QED
          BY <1>2, <1>a, <4>1, <5>1, <5>2
      <4> QED
        BY <1>a, <3>4, <4>2
    <3> QED
      BY <3>3, <3>4
  <2> QED
    BY <2>1, <2>2 DEF PipesOK
<1>5. ServingOK'
  <2>1. \A v \in Workers : serving[v] # <<>> => serving[v][1] \in Clients
    BY <1>0 DEF ServingOK
  <2>2. \A b \in Clients : conn[b] = "open" => conn'[b] = "open"
    BY <1>a
  <2> QED
    BY <1>0, <1>1, <2>1, <2>2 DEF ServingOK, ioVars
<1>6. \A b \in Clients : ClientOK(b)'
  BY <1>0, <1>1, OtherClient
<1>7. StreamOK' /\ AnswersOK'
  BY <1>6 DEF StreamOK, AnswersOK, ClientOK
<1> QED
  BY <1>3, <1>4, <1>5, <1>7 DEF ServerInv

\* A client that connects, or closes its end.
LEMMA ConnectKeeps ==
    ASSUME ServerInv, NEW c \in Clients, Connect(c) \/ Leave(c)
    PROVE  ServerInv'
<1>0. TypeOKServer /\ PipesOK /\ ServingOK /\ \A b \in Clients : ClientOK(b)
  BY Clientwise DEF ServerInv
<1>1. UNCHANGED <<phase, made, counter, owner, pipe, kinds, wire, input, output, got, serving, at>>
  BY DEF Connect, Leave, mainVars, ioVars
<1>2. /\ conn' \in [Clients -> {"none", "backlog", "notify", "open"}]
      /\ left' \in [Clients -> BOOLEAN]
      /\ \A b \in Clients : conn'[b] = conn[b] \/ (conn[b] = "none" /\ conn'[b] = "backlog")
  BY <1>0 DEF TypeOKServer, Connect, Leave
<1>3. TypeOKServer'
  BY <1>0, <1>1, <1>2 DEF TypeOKServer
<1>4. PipesOK'
  <2>1. \A w \in Workers : \A i \in 1..Len(pipe[w]) : pipe[w][i] \in Clients
    BY <1>0 DEF TypeOKServer
  <2>2. \A b \in Clients : conn'[b] = "notify" <=> conn[b] = "notify"
    BY <1>2
  <2> QED
    BY <1>0, <1>1, <2>1, <2>2 DEF PipesOK
<1>5. ServingOK'
  <2>1. \A w \in Workers : serving[w] # <<>> => serving[w][1] \in Clients
    BY <1>0 DEF ServingOK
  <2> QED
    BY <1>0, <1>1, <1>2, <2>1 DEF ServingOK
<1>6. \A b \in Clients : ClientOK(b)'
  BY <1>0, <1>1, OtherClient
<1>7. StreamOK' /\ AnswersOK'
  BY <1>6 DEF StreamOK, AnswersOK, ClientOK
<1> QED
  BY <1>3, <1>4, <1>5, <1>7 DEF ServerInv

\* The transfer goes on, at either end.
LEMMA InvokeKeeps ==
    ASSUME ServerInv, IOInv, NEW w \in Sockets, Invoke(w) \/ ProviderStep(w)
    PROVE  ServerInv'
<1>0. TypeOKServer /\ PipesOK /\ ServingOK /\ \A b \in Clients : ClientOK(b)
  BY Clientwise DEF ServerInv
<1>1. UNCHANGED <<phase, made, counter, conn, owner, pipe, kinds, wire, left, input, output, got,
                  serving>>
  BY DEF Invoke, ProviderStep, serverVars, mainVars
<1>2. \A v \in Sockets : at'[v] = "idle" <=> at[v] = "idle"
  <2>0. at \in [Sockets -> {"idle", "send", "header", "body", "done", "failed"}]
    BY DEF IOInv, TypeOKIO
  <2>1. CASE ProviderStep(w)
    BY <2>1 DEF ProviderStep, ProviderNext, RespondLate, Respond, Writes, Close
  <2>2. CASE Invoke(w)
    <3>1. CASE Recv(w)
      <4>1. at[w] # "idle"
        BY <3>1 DEF Recv, Receiving
      <4>2. UNCHANGED at \/ \E a \in {"body", "done", "failed"} : at' = [at EXCEPT ![w] = a]
        <5>1. UNCHANGED at \/ PartDone(w)
          BY <3>1 DEF Recv
        <5>2. Results(w) \subseteq {"done", "failed"}
          BY DEF Results
        <5> QED
          BY <5>1, <5>2 DEF PartDone
      <4> QED
        BY <2>0, <4>1, <4>2
    <3>2. CASE Send(w)
      BY <2>0, <3>2 DEF Send
    <3>3. CASE SendFails(w) \/ Select(w) \/ Timeout(w) \/ RecvShut(w) \/ Again(w)
      BY <2>0, <3>3 DEF SendFails, Select, Timeout, RecvShut, Again, Receiving
    <3> QED
      BY <2>2, <3>1, <3>2, <3>3 DEF Invoke, CallNext
  <2> QED
    BY <2>1, <2>2
<1>3. TypeOKServer' /\ PipesOK'
  BY <1>0, <1>1 DEF TypeOKServer, PipesOK
<1>4. ServingOK'
  BY <1>0, <1>1, <1>2 DEF ServingOK
<1>6. \A b \in Clients : ClientOK(b)'
  BY <1>0, <1>1, OtherClient
<1>7. StreamOK' /\ AnswersOK'
  BY <1>6 DEF StreamOK, AnswersOK, ClientOK
<1> QED
  BY <1>3, <1>4, <1>7 DEF ServerInv

-----------------------------------------------------------------------------
(***************************************************************************)
(* Answers.                                                                 *)
(***************************************************************************)

\* Sequence t is s with e after it.
Extended(s, t, e) ==
    /\ Len(t) = Len(s) + 1 /\ t[Len(s) + 1] = e
    /\ \A i \in 1..Len(s) : t[i] = s[i]

\* Something is written at the end of the second of two sequences.
LEMMA AppendedTo ==
    ASSUME NEW P, NEW a \in Seq(P), NEW b \in Seq(P), NEW e \in P
    PROVE  /\ Append(b, e) \in Seq(P) /\ a \o b \in Seq(P) /\ a \o Append(b, e) \in Seq(P)
           /\ Len(a \o b) \in Nat /\ Extended(a \o b, a \o Append(b, e), e)
<1> DEFINE s == a \o b
           be == Append(b, e)
           t == a \o be
<1>1. /\ s \in Seq(P) /\ Len(a) \in Nat /\ Len(b) \in Nat /\ Len(s) = Len(a) + Len(b)
      /\ \A i \in 1..(Len(a) + Len(b)) : s[i] = IF i <= Len(a) THEN a[i] ELSE b[i - Len(a)]
  BY Concatenated
<1>2. /\ be \in Seq(P) /\ Len(be) = Len(b) + 1 /\ be[Len(b) + 1] = e
      /\ \A i \in 1..Len(b) : be[i] = b[i]
  BY AppendProperties
<1> HIDE DEF s, be
<1>3. /\ t \in Seq(P) /\ Len(t) = Len(a) + Len(be)
      /\ \A i \in 1..(Len(a) + Len(be)) : t[i] = IF i <= Len(a) THEN a[i] ELSE be[i - Len(a)]
  BY <1>2, Concatenated
<1> HIDE DEF t
<1>4. Len(t) = Len(s) + 1 /\ t[Len(s) + 1] = e
  <2>1. Len(s) + 1 \in 1..(Len(a) + Len(be)) /\ ~(Len(s) + 1 <= Len(a))
        /\ Len(s) + 1 - Len(a) = Len(b) + 1
    BY <1>1, <1>2
  <2>2. t[Len(s) + 1] = be[Len(s) + 1 - Len(a)]
    BY <1>1, <1>3, <2>1
  <2> QED
    BY <1>1, <1>2, <1>3, <2>1, <2>2
<1>5. ASSUME NEW i \in 1..Len(s) PROVE t[i] = s[i]
  <2>1. i \in 1..(Len(a) + Len(b)) /\ i \in 1..(Len(a) + Len(be))
    BY <1>1, <1>2
  <2>2. CASE i <= Len(a)
    BY <1>1, <1>3, <2>1, <2>2
  <2>3. CASE ~(i <= Len(a))
    <3>1. i - Len(a) \in 1..Len(b)
      BY <1>1, <2>1, <2>3
    <3>2. t[i] = be[i - Len(a)] /\ s[i] = b[i - Len(a)]
      BY <1>1, <1>3, <2>1, <2>3
    <3> QED
      BY <1>2, <3>1, <3>2
  <2> QED
    BY <2>2, <2>3
<1> QED
  BY <1>1, <1>2, <1>3, <1>4, <1>5 DEF s, t, be, Extended

\* The head of the second of two sequences is moved to the end of the first.
LEMMA MovedOver ==
    ASSUME NEW P, NEW a \in Seq(P), NEW b \in Seq(P), b # <<>>
    PROVE  /\ Append(a, Head(b)) \in Seq(P) /\ Tail(b) \in Seq(P)
           /\ Append(a, Head(b)) \o Tail(b) = a \o b
<1> DEFINE ah == Append(a, Head(b))
           tb == Tail(b)
           s == a \o b
           t == ah \o tb
<1>1. /\ s \in Seq(P) /\ Len(a) \in Nat /\ Len(b) \in Nat /\ Len(s) = Len(a) + Len(b)
      /\ \A i \in 1..(Len(a) + Len(b)) : s[i] = IF i <= Len(a) THEN a[i] ELSE b[i - Len(a)]
  BY Concatenated
<1>2. /\ tb \in Seq(P) /\ Len(b) \in Nat \ {0} /\ Len(tb) = Len(b) - 1 /\ Head(b) \in P
      /\ Head(b) = b[1] /\ \A i \in 1..(Len(b) - 1) : tb[i] = b[i + 1]
  BY <1>1, EmptySeq, HeadTailProperties
<1>3. /\ ah \in Seq(P) /\ Len(ah) = Len(a) + 1 /\ ah[Len(a) + 1] = b[1]
      /\ \A i \in 1..Len(a) : ah[i] = a[i]
  BY <1>2, AppendProperties
<1> HIDE DEF s, ah, tb
<1>4. /\ t \in Seq(P) /\ Len(t) = Len(ah) + Len(tb)
      /\ \A i \in 1..(Len(ah) + Len(tb)) : t[i] = IF i <= Len(ah) THEN ah[i] ELSE tb[i - Len(ah)]
  BY <1>2, <1>3, Concatenated
<1> HIDE DEF t
<1>5. Len(ah) + Len(tb) = Len(s) /\ Len(t) = Len(s)
  BY <1>1, <1>2, <1>3, <1>4
<1>6. ASSUME NEW i \in 1..Len(s) PROVE t[i] = s[i]
  <2>1. i \in 1..(Len(a) + Len(b)) /\ i \in 1..(Len(ah) + Len(tb))
    BY <1>1, <1>5
  <2>2. CASE i <= Len(a)
    BY <1>1, <1>3, <1>4, <2>1, <2>2
  <2>3. CASE i = Len(a) + 1
    BY <1>1, <1>3, <1>4, <2>1, <2>3
  <2>4. CASE i > Len(a) + 1
    <3>1. i - Len(ah) \in 1..(Len(b) - 1) /\ (i - Len(ah)) + 1 = i - Len(a)
      BY <1>1, <1>3, <2>1, <2>4
    <3>2. t[i] = tb[i - Len(ah)] /\ s[i] = b[i - Len(a)]
      BY <1>1, <1>3, <1>4, <2>1, <2>4
    <3>3. tb[i - Len(ah)] = b[(i - Len(ah)) + 1]
      BY <1>2, <3>1
    <3> QED
      BY <3>1, <3>2, <3>3
  <2> QED
    BY <1>1, <2>1, <2>2, <2>3, <2>4
<1>7. t = s
  BY <1>1, <1>4, <1>5, <1>6, SeqEqual
<1> QED
  BY <1>2, <1>3, <1>7 DEF s, t, ah, tb

\* One message more is answered, the one that was served or the next one.
LEMMA OneMoreAnswer ==
    ASSUME NEW good \in SUBSET Nat, NEW served, NEW next \in Nat, NEW next2 \in Nat,
           NEW all \in Seq(Responses), NEW all2 \in Seq(Responses), NEW e \in Responses,
           Extended(all, all2, e), Answers(all, next, good, served),
           e.msg \in good, e.msg < next2, next <= next2,
           \A i \in 1..Len(all) : all[i].msg < e.msg,
           \A k \in good : k < next2 /\ k # e.msg => k < next,
           served \subseteq {e.msg}
    PROVE  Answers(all2, next2, good, {})
<1>0. /\ Len(all) \in Nat /\ Len(all2) = Len(all) + 1 /\ all2[Len(all) + 1] = e
      /\ \A i \in 1..Len(all) : all2[i] = all[i]
      /\ \A i \in 1..Len(all) : all[i].msg \in Nat
  <2>1. Len(all) \in Nat
    OBVIOUS
  <2>2. /\ Len(all2) = Len(all) + 1 /\ all2[Len(all) + 1] = e
        /\ \A i \in 1..Len(all) : all2[i] = all[i]
    BY DEF Extended
  <2>3. \A i \in 1..Len(all) : all[i].msg \in good
    BY DEF Answers
  <2> QED
    BY <2>1, <2>2, <2>3
<1>1. ASSUME NEW i \in 1..Len(all2)
      PROVE  /\ all2[i].msg \in good /\ all2[i].msg < next2
             /\ \A j \in 1..(i - 1) : all2[j].msg < all2[i].msg
  <2>1. CASE i \in 1..Len(all)
    <3>1. /\ all[i].msg \in good /\ all[i].msg < next /\ all[i].msg \in Nat
          /\ \A j \in 1..(i - 1) : all[j].msg < all[i].msg
      BY <2>1, <1>0 DEF Answers
    <3>2. all2[i] = all[i] /\ \A j \in 1..(i - 1) : all2[j] = all[j]
      BY <1>0, <2>1
    <3> QED
      BY <3>1, <3>2, SMTT(30)
  <2>2. CASE i = Len(all) + 1
    BY <1>0, <2>2
  <2> QED
    BY <1>0, <2>1, <2>2
<1>2. ASSUME NEW k \in good, k < next2
      PROVE  \E i \in 1..Len(all2) : all2[i].msg = k
  <2>1. CASE k = e.msg
    BY <1>0, <2>1
  <2>2. CASE k # e.msg
    <3>1. PICK i \in 1..Len(all) : all[i].msg = k
      BY <1>2, <2>2 DEF Answers
    <3> QED
      BY <1>0, <3>1
  <2> QED
    BY <2>1, <2>2
<1> QED
  BY <1>1, <1>2 DEF Answers

\* The next message is taken: it is served, or skipped because it is not good.
LEMMA NextTaken ==
    ASSUME NEW good \in SUBSET Nat, NEW served, NEW next \in Nat, NEW all \in Seq(Responses),
           Answers(all, next, good, {}), served = IF next \in good THEN {next} ELSE {}
    PROVE  Answers(all, next + 1, good, served)
<1>0. \A i \in 1..Len(all) : all[i].msg \in Nat /\ all[i].msg < next
  BY DEF Answers
<1>1. \A k \in good : k < next + 1 => k < next \/ k \in served
  OBVIOUS
<1> QED
  BY <1>0, <1>1 DEF Answers

\* A step that concerns one client only.
LEMMA OneClient ==
    ASSUME ServerInv, NEW c \in Clients, ClientOK(c)',
           \A b \in Clients \ {c} :
             /\ input'[b] = input[b] /\ wire'[b] = wire[b] /\ kinds'[b] = kinds[b]
             /\ output'[b] = output[b] /\ got'[b] = got[b]
             /\ \A w \in Workers, k \in Nat : serving'[w] = <<b, k>> <=> serving[w] = <<b, k>>
    PROVE  StreamOK' /\ AnswersOK'
<1>1. \A b \in Clients : ClientOK(b)
  BY Clientwise DEF ServerInv
<1>2. \A b \in Clients : ClientOK(b)'
  BY <1>1, OtherClient
<1> QED
  BY <1>2 DEF StreamOK, AnswersOK, ClientOK

\* No descriptor moves, and every worker goes on with what it does.
LEMMA SameConnections ==
    ASSUME ServerInv, UNCHANGED <<conn, owner, pipe>>
    PROVE  PipesOK' /\ (UNCHANGED <<serving, at>> => ServingOK')
BY DEF ServerInv, PipesOK, ServingOK

\* What the invariant says of one client.
LEMMA ClientTypes ==
    ASSUME ServerInv, NEW c \in Clients
    PROVE  /\ TypeOKServer /\ PipesOK /\ ServingOK /\ ClientOK(c)
           /\ kinds[c] \in Seq(Kinds) /\ wire[c] \in Seq(Pieces) /\ input[c] \in Seq(Pieces)
           /\ output[c] \in Seq(Responses) /\ got[c] \in Seq(Responses)
           /\ Stream(c) \in Seq(Pieces) /\ Len(Stream(c)) \in Nat
           /\ All(c) \in Seq(Responses) /\ Len(kinds[c]) \in Nat
           /\ Good(c) \in SUBSET Nat /\ NextOf(kinds[c], Stream(c)) \in Nat
<1>1. /\ TypeOKServer /\ PipesOK /\ ServingOK /\ ClientOK(c)
      /\ kinds[c] \in Seq(Kinds) /\ wire[c] \in Seq(Pieces) /\ input[c] \in Seq(Pieces)
      /\ output[c] \in Seq(Responses) /\ got[c] \in Seq(Responses)
  BY Clientwise DEF ServerInv, TypeOKServer
<1>2. /\ Stream(c) \in Seq(Pieces) /\ Len(Stream(c)) \in Nat
      /\ All(c) \in Seq(Responses) /\ Len(kinds[c]) \in Nat /\ Good(c) \in SUBSET Nat
  <2>1. Stream(c) \in Seq(Pieces) /\ All(c) \in Seq(Responses)
    BY <1>1, Concatenated DEF Stream, All
  <2>2. Len(kinds[c]) \in Nat
    BY <1>1
  <2>3. Good(c) \in SUBSET Nat
    BY <2>2 DEF Good
  <2>4. Len(Stream(c)) \in Nat
    BY <2>1
  <2> QED
    BY <2>1, <2>2, <2>3, <2>4
<1>3. Stream(c) # <<>> => Stream(c)[1] \in Pieces
  BY <1>2
<1>4. NextOf(kinds[c], Stream(c)) \in Nat
  BY <1>2, <1>3 DEF NextOf, Pieces
<1> QED
  BY <1>1, <1>2, <1>4

\* Responses that are written go to the client in their order.
LEMMA FlushKeeps ==
    ASSUME ServerInv, NEW w \in Workers, NEW c \in Clients, Flush(w, c)
    PROVE  ServerInv'
<1>0. /\ TypeOKServer /\ ClientOK(c)
      /\ output[c] \in Seq(Responses) /\ got[c] \in Seq(Responses)
  BY ClientTypes
<1>1. /\ output[c] # <<>> /\ got' = [got EXCEPT ![c] = Append(got[c], Head(output[c]))]
      /\ output' = [output EXCEPT ![c] = Tail(output[c])]
      /\ UNCHANGED <<phase, made, counter, conn, owner, pipe, kinds, wire, left, input, serving, at>>
  BY DEF Flush, mainVars, ioVars
<1>2. /\ Append(got[c], Head(output[c])) \in Seq(Responses) /\ Tail(output[c]) \in Seq(Responses)
      /\ Append(got[c], Head(output[c])) \o Tail(output[c]) = got[c] \o output[c]
  BY <1>0, <1>1, MovedOver
<1>3. TypeOKServer'
  BY <1>0, <1>1, <1>2 DEF TypeOKServer
<1>4. ClientOK(c)'
  <2>1. got'[c] = Append(got[c], Head(output[c])) /\ output'[c] = Tail(output[c])
    BY <1>0, <1>1 DEF TypeOKServer
  <2>2. All(c)' = All(c)
    BY <1>2, <2>1 DEF All
  <2>3. Stream(c)' = Stream(c) /\ Good(c)' = Good(c) /\ ServedOf(c)' = ServedOf(c) /\ kinds' = kinds
    BY <1>1 DEF Stream, Good, ServedOf
  <2> QED
    BY <1>0, <2>2, <2>3 DEF ClientOK
<1>5. StreamOK' /\ AnswersOK'
  BY <1>0, <1>1, <1>4, OneClient DEF TypeOKServer
<1> QED
  BY <1>1, <1>3, <1>5, SameConnections DEF ServerInv

\* The call of a worker ends, and its result is written.
LEMMA ReplyKeeps ==
    ASSUME ServerInv, IOInv, NEW w \in Sockets, Reply(w)
    PROVE  ServerInv'
<1>0. TypeOKServer /\ ServingOK /\ w \in Workers
  BY WorkerSet DEF ServerInv
<1>1. PICK c \in Clients, k \in Nat : serving[w] = <<c, k>>
  BY <1>0 DEF Reply, ServingOK
<1>2. PICK e \in Responses : e.msg = k /\ output' = [output EXCEPT ![c] = Append(output[c], e)]
  <2>1. [msg |-> k, ok |-> (at[w] = "done")] \in Responses
    BY DEF Responses
  <2>2. output' = [output EXCEPT ![c] = Append(output[c], [msg |-> k, ok |-> (at[w] = "done")])]
    BY <1>1 DEF Reply, Answer
  <2> QED
    BY <2>1, <2>2
<1>3. /\ serving' = [serving EXCEPT ![w] = <<>>] /\ at' = [at EXCEPT ![w] = "idle"]
      /\ UNCHANGED <<phase, made, counter, conn, owner, pipe, kinds, wire, left, input, got>>
  BY DEF Reply, EndCall, mainVars
<1>4. /\ ClientOK(c) /\ output[c] \in Seq(Responses) /\ got[c] \in Seq(Responses)
      /\ All(c) \in Seq(Responses) /\ Good(c) \in SUBSET Nat /\ NextOf(kinds[c], Stream(c)) \in Nat
  BY ClientTypes
<1>5. /\ Append(output[c], e) \in Seq(Responses) /\ got[c] \o Append(output[c], e) \in Seq(Responses)
      /\ Extended(got[c] \o output[c], got[c] \o Append(output[c], e), e)
  BY <1>4, AppendedTo
<1>6. TypeOKServer'
  BY <1>0, <1>2, <1>3, <1>5 DEF TypeOKServer
<1>7. ServingOK'
  <2>1. at \in [Sockets -> {"idle", "send", "header", "body", "done", "failed"}]
    BY DEF IOInv, TypeOKIO
  <2> QED
    BY <1>0, <1>3, <2>1 DEF ServingOK
<1>8. conn[c] = "open" /\ owner[c] = w
  BY <1>0, <1>1 DEF ServingOK
<1>9. ServedOf(c) = {k} /\ ServedOf(c)' = {}
  BY <1>0, <1>1, <1>3, <1>8 DEF ServingOK, ServedOf
<1>10. ClientOK(c)'
  <2> DEFINE all == All(c)
             all2 == All(c)'
             next == NextOf(kinds[c], Stream(c))
             good == Good(c)
  <2>1. all2 \in Seq(Responses) /\ Extended(all, all2, e)
    BY <1>0, <1>2, <1>3, <1>5 DEF All, TypeOKServer
  <2>2. Answers(all, next, good, {k})
    BY <1>4, <1>9 DEF ClientOK
  <2>3. k \in good /\ k < next /\ \A i \in 1..Len(all) : all[i].msg < k
    BY <2>2 DEF Answers
  <2>4. all \in Seq(Responses) /\ next \in Nat /\ good \in SUBSET Nat
    BY <1>4
  <2> HIDE DEF all, all2, next, good
  <2>5. Answers(all2, next, good, {})
    BY <1>2, <2>1, <2>2, <2>3, <2>4, OneMoreAnswer
  <2>6. Stream(c)' = Stream(c) /\ Good(c)' = Good(c) /\ kinds' = kinds
    BY <1>3 DEF Stream, Good
  <2> QED
    BY <1>4, <1>9, <2>5, <2>6 DEF ClientOK, all2, next, good
<1>11. StreamOK' /\ AnswersOK'
  <2>1. \A b \in Clients \ {c} : output'[b] = output[b]
    BY <1>0, <1>2 DEF TypeOKServer
  <2>2. \A b \in Clients \ {c}, v \in Workers, g \in Nat :
          serving'[v] = <<b, g>> <=> serving[v] = <<b, g>>
    BY <1>0, <1>1, <1>3 DEF ServingOK
  <2> QED
    BY <1>3, <1>10, <2>1, <2>2, OneClient
<1> QED
  BY <1>3, <1>6, <1>7, <1>11, SameConnections DEF ServerInv

-----------------------------------------------------------------------------
(***************************************************************************)
(* readcb.                                                                  *)
(***************************************************************************)

\* What handle_buffer takes off the buffer: nothing, an empty message, or a whole one.
LEMMA Taken ==
    ASSUME NEW P, NEW buf \in Seq(P), Len(buf) > 0
    PROVE  /\ Dropped(buf, buf, 0)
           /\ Head(buf) = buf[1] /\ Tail(buf) \in Seq(P) /\ Dropped(buf, Tail(buf), 1)
           /\ Len(buf) >= 2 => /\ SubSeq(buf, 3, Len(buf)) \in Seq(P)
                               /\ Dropped(buf, SubSeq(buf, 3, Len(buf)), 2)
<1>1. Len(buf) \in Nat /\ buf # <<>>
  OBVIOUS
<1>2. Dropped(buf, buf, 0)
  BY <1>1 DEF Dropped
<1>3. /\ Tail(buf) \in Seq(P) /\ Head(buf) = buf[1] /\ Len(Tail(buf)) = Len(buf) - 1
      /\ \A i \in 1..Len(Tail(buf)) : Tail(buf)[i] = buf[i + 1]
  BY <1>1, HeadTailProperties
<1>4. Dropped(buf, Tail(buf), 1)
  BY <1>3 DEF Dropped
<1>5. ASSUME Len(buf) >= 2
      PROVE  /\ SubSeq(buf, 3, Len(buf)) \in Seq(P)
             /\ Dropped(buf, SubSeq(buf, 3, Len(buf)), 2)
  <2>1. 2 \in 0..Len(buf) /\ 2 + 1 = 3
    BY <1>1, <1>5
  <2>2. /\ SubSeq(buf, 2 + 1, Len(buf)) \in Seq(P)
        /\ Len(SubSeq(buf, 2 + 1, Len(buf))) = Len(buf) - 2
        /\ \A i \in 1..(Len(buf) - 2) : SubSeq(buf, 2 + 1, Len(buf))[i] = buf[i + 2]
    BY <2>1, RestOf
  <2> QED
    BY <2>1, <2>2 DEF Dropped
<1> QED
  BY <1>2, <1>3, <1>4, <1>5

\* The stream of the client after readcb: a whole message shorter, or the same.
LEMMA ReadStream ==
    ASSUME ServerInv, NEW w \in Workers, NEW c \in Clients, NEW n \in 1..Len(wire[c]),
           wire' = [wire EXCEPT ![c] = SubSeq(wire[c], n + 1, Len(wire[c]))],
           HandleBuffer(w, c, input[c] \o SubSeq(wire[c], 1, n)), UNCHANGED kinds
    PROVE  /\ wire'[c] \in Seq(Pieces) /\ input'[c] \in Seq(Pieces)
           /\ Stream(c)' \in Seq(Pieces)
           /\ \/ Stream(c)' = Stream(c) /\ ~CanRead(c, input[c] \o SubSeq(wire[c], 1, n))
              \/ /\ CanRead(c, input[c] \o SubSeq(wire[c], 1, n)) /\ Stream(c) # <<>>
                 /\ Head(input[c] \o SubSeq(wire[c], 1, n)) = Stream(c)[1]
                 /\ InSequence(kinds[c], Stream(c)')
                 /\ NextOf(kinds[c], Stream(c)') = NextOf(kinds[c], Stream(c)) + 1
<1> DEFINE buf == input[c] \o SubSeq(wire[c], 1, n)
           s == Stream(c)
           t == Stream(c)'
           keep == input'[c]
<1>0. /\ TypeOKServer /\ ClientOK(c) /\ kinds[c] \in Seq(Kinds) /\ Len(kinds[c]) \in Nat
      /\ wire[c] \in Seq(Pieces) /\ input[c] \in Seq(Pieces)
      /\ s \in Seq(Pieces) /\ Len(s) \in Nat
  BY ClientTypes
<1>1. s = input[c] \o wire[c] /\ t = keep \o SubSeq(wire[c], n + 1, Len(wire[c]))
  BY <1>0 DEF Stream, TypeOKServer
<1>2. buf \in Seq(Pieces) /\ Len(buf) \in Nat \ {0}
  <2>1. SubSeq(wire[c], 1, n) \in Seq(Pieces) /\ Len(SubSeq(wire[c], 1, n)) = n
    <3>1. Len(wire[c]) \in Nat /\ \A i \in 1..n : wire[c][i] \in Pieces
      BY <1>0
    <3> QED
      BY <1>0, <3>1, SubSeqProperties
  <2> QED
    BY <1>0, <2>1, Concatenated
<1>3. ASSUME NEW d \in 0..Len(buf), keep \in Seq(Pieces), Dropped(buf, keep, d)
      PROVE  /\ SubSeq(wire[c], n + 1, Len(wire[c])) \in Seq(Pieces)
             /\ Len(buf) <= Len(s) /\ \A i \in 1..Len(buf) : buf[i] = s[i]
             /\ t \in Seq(Pieces) /\ Dropped(s, t, d)
  <2> HIDE DEF keep, s, t
  <2> DEFINE rest == SubSeq(wire[c], n + 1, Len(wire[c]))
             both == input[c] \o wire[c]
             a == input[c]
             b == wire[c]
  <2>0. a \in Seq(Pieces) /\ b \in Seq(Pieces) /\ n \in 1..Len(b)
        /\ d \in 0..Len(a \o SubSeq(b, 1, n)) /\ keep \in Seq(Pieces)
        /\ Dropped(a \o SubSeq(b, 1, n), keep, d)
    BY <1>0, <1>3
  <2>a. /\ buf = a \o SubSeq(b, 1, n) /\ rest = SubSeq(b, n + 1, Len(b)) /\ both = a \o b
    OBVIOUS
  <2> HIDE DEF a, b, buf, rest, both
  <2>b. /\ SubSeq(b, n + 1, Len(b)) \in Seq(Pieces)
        /\ Len(a \o SubSeq(b, 1, n)) <= Len(a \o b)
        /\ \A i \in 1..Len(a \o SubSeq(b, 1, n)) : (a \o SubSeq(b, 1, n))[i] = (a \o b)[i]
        /\ keep \o SubSeq(b, n + 1, Len(b)) \in Seq(Pieces)
        /\ Dropped(a \o b, keep \o SubSeq(b, n + 1, Len(b)), d)
    BY <2>0, Moved
  <2>1. /\ rest \in Seq(Pieces)
        /\ Len(buf) <= Len(both) /\ \A i \in 1..Len(buf) : buf[i] = both[i]
        /\ keep \o rest \in Seq(Pieces) /\ Dropped(both, keep \o rest, d)
    BY <2>a, <2>b
  <2> HIDE DEF buf, rest, both
  <2>2. s = both /\ t = keep \o rest
    BY <1>1 DEF both, rest
  <2> QED
    BY <2>1, <2>2 DEF rest
<1>c. HandleBuffer(w, c, buf)
  OBVIOUS
<1> HIDE DEF buf
<1>4. wire'[c] = SubSeq(wire[c], n + 1, Len(wire[c]))
  BY <1>0 DEF TypeOKServer
<1>5. /\ Head(buf) = buf[1] /\ Tail(buf) \in Seq(Pieces)
      /\ Dropped(buf, buf, 0) /\ Dropped(buf, Tail(buf), 1)
      /\ Len(buf) >= 2 => /\ SubSeq(buf, 3, Len(buf)) \in Seq(Pieces)
                          /\ Dropped(buf, SubSeq(buf, 3, Len(buf)), 2)
  BY <1>2, Taken
<1>6. CASE ~CanRead(c, buf)
  <2>1. keep = buf
    BY <1>0, <1>c, <1>6 DEF HandleBuffer, TypeOKServer
  <2>2. t \in Seq(Pieces) /\ Dropped(s, t, 0) /\ SubSeq(wire[c], n + 1, Len(wire[c])) \in Seq(Pieces)
    BY <1>2, <1>3, <1>5, <2>1
  <2> HIDE DEF s, t
  <2>3. t = s
    BY <1>0, <2>2, SeqEqual DEF Dropped
  <2> QED
    BY <1>2, <1>4, <1>6, <2>1, <2>2, <2>3 DEF s, t, buf
<1>7. CASE CanRead(c, buf)
  <2> DEFINE d == IF kinds[c][Head(buf)[1]] = "empty" THEN 1 ELSE 2
  <2>1. d \in 0..Len(buf) /\ d \in 1..2
    BY <1>2, <1>7 DEF CanRead, Kind
  <2>2. keep \in Seq(Pieces) /\ Dropped(buf, keep, d)
    <3>1. CASE kinds[c][Head(buf)[1]] = "empty"
      <4>1. keep = Tail(buf)
        BY <1>0, <1>c, <1>7, <3>1 DEF HandleBuffer, TypeOKServer
      <4> QED
        BY <1>5, <3>1, <4>1
    <3>2. CASE kinds[c][Head(buf)[1]] # "empty"
      <4>1. keep = SubSeq(buf, 3, Len(buf)) /\ Len(buf) >= 2
        BY <1>0, <1>c, <1>7, <3>2 DEF HandleBuffer, TypeOKServer, CanRead, Kind
      <4> QED
        BY <1>5, <3>2, <4>1
    <3> QED
      BY <3>1, <3>2
  <2> HIDE DEF d, keep
  <2>3. /\ SubSeq(wire[c], n + 1, Len(wire[c])) \in Seq(Pieces)
        /\ Len(buf) <= Len(s) /\ buf[1] = s[1] /\ t \in Seq(Pieces) /\ Dropped(s, t, d)
    BY <1>2, <1>3, <2>1, <2>2
  <2>4. s # <<>> /\ Len(s) >= d /\ Head(buf) = s[1]
    BY <1>0, <1>2, <1>5, <2>1, <2>3
  <2>5. d = IF kinds[c][s[1][1]] = "empty" THEN 1 ELSE 2
    BY <2>4 DEF d
  <2>6. InSequence(kinds[c], s)
    BY <1>0 DEF ClientOK
  <2> HIDE DEF s, t
  <2>7. InSequence(kinds[c], t) /\ NextOf(kinds[c], t) = s[1][1] + 1
    BY <1>0, <2>1, <2>3, <2>4, <2>5, <2>6, NextMessage
  <2>8. NextOf(kinds[c], s) = s[1][1]
    BY <2>4 DEF NextOf
  <2> QED
    BY <1>4, <1>7, <2>2, <2>3, <2>4, <2>7, <2>8 DEF s, t, keep, buf
<1> QED
  BY <1>6, <1>7 DEF buf

\* readcb handles one message of the stream, or waits for more of it.
LEMMA ReadKeeps ==
    ASSUME ServerInv, IOInv, NEW w \in Workers, NEW c \in Clients, Read(w, c)
    PROVE  ServerInv'
<1> DEFINE s == Stream(c)
           t == Stream(c)'
           next == NextOf(kinds[c], s)
<1>0. /\ TypeOKServer /\ ServingOK /\ ClientOK(c) /\ kinds[c] \in Seq(Kinds)
      /\ Len(kinds[c]) \in Nat /\ s \in Seq(Pieces) /\ All(c) \in Seq(Responses)
      /\ output[c] \in Seq(Responses) /\ got[c] \in Seq(Responses)
      /\ Good(c) \in SUBSET Nat /\ next \in Nat
  BY ClientTypes
<1>1. /\ phase = "running" /\ serving[w] = <<>> /\ conn[c] = "open" /\ owner[c] = w
      /\ UNCHANGED <<phase, made, counter, owner, pipe, kinds, left, got>>
  BY DEF Read, Serves, Free, mainVars
<1>2. PICK n \in 1..Len(wire[c]) :
        /\ wire' = [wire EXCEPT ![c] = SubSeq(wire[c], n + 1, Len(wire[c]))]
        /\ HandleBuffer(w, c, input[c] \o SubSeq(wire[c], 1, n))
  BY DEF Read
<1> DEFINE buf == input[c] \o SubSeq(wire[c], 1, n)
<1>3. /\ wire'[c] \in Seq(Pieces) /\ input'[c] \in Seq(Pieces)
      /\ \/ t = s /\ ~CanRead(c, buf)
         \/ /\ CanRead(c, buf) /\ s # <<>> /\ Head(buf) = s[1]
            /\ InSequence(kinds[c], t) /\ NextOf(kinds[c], t) = next + 1
  BY <1>1, <1>2, ReadStream
<1>4. ServedOf(c) = {} /\ Good(c)' = Good(c)
  BY <1>1, NotServed DEF ServedOf, Good
<1> HIDE DEF buf
<1>5. HandleBuffer(w, c, buf)
  BY <1>2 DEF buf
<1>6. \E r \in Seq(Pieces) : input' = [input EXCEPT ![c] = r]
  <2>1. \E r : input' = [input EXCEPT ![c] = r]
    BY <1>5 DEF HandleBuffer
  <2> QED
    BY <1>0, <1>3, <2>1 DEF TypeOKServer
<1>7. input' \in [Clients -> Seq(Pieces)] /\ wire' \in [Clients -> Seq(Pieces)] /\ conn' = conn
  BY <1>0, <1>2, <1>3, <1>5, <1>6 DEF TypeOKServer, HandleBuffer
<1>8. \A b \in Clients \ {c} : input'[b] = input[b] /\ wire'[b] = wire[b]
  BY <1>0, <1>2, <1>6 DEF TypeOKServer
<1>9. CASE output' = output /\ serving' = serving /\ at' = at
           /\ (CanRead(c, buf) => next \notin Good(c))
  <2>1. TypeOKServer'
    BY <1>0, <1>1, <1>7, <1>9 DEF TypeOKServer
  <2>2. All(c)' = All(c) /\ ServedOf(c)' = {}
    BY <1>1, <1>4, <1>9 DEF All, ServedOf
  <2>3. ClientOK(c)'
    <3>1. CASE t = s
      BY <1>0, <1>1, <1>4, <2>2, <3>1 DEF ClientOK
    <3>2. CASE CanRead(c, buf) /\ InSequence(kinds[c], t) /\ NextOf(kinds[c], t) = next + 1
      <4>1. Answers(All(c), next, Good(c), {})
        BY <1>0, <1>4 DEF ClientOK
      <4> HIDE DEF next, t
      <4>2. Answers(All(c), next + 1, Good(c), {})
        BY <1>0, <1>9, <3>2, <4>1, NextTaken
      <4> QED
        BY <1>1, <1>4, <2>2, <3>2, <4>2 DEF ClientOK, t
    <3> QED
      BY <1>3, <3>1, <3>2
  <2>4. StreamOK' /\ AnswersOK'
    BY <1>1, <1>8, <1>9, <2>3, OneClient
  <2> QED
    BY <1>1, <1>7, <1>9, <2>1, <2>4, SameConnections DEF ServerInv
<1>10. CASE CanRead(c, buf) /\ kinds[c][Head(buf)[1]] = "good"
  <2>1. s # <<>> /\ next = Head(buf)[1]
    BY <1>3, <1>10 DEF NextOf
  <2>2. next \in Good(c)
    <3>1. next \in 1..Len(kinds[c])
      <4>1. InSequence(kinds[c], s) /\ 1 \in 1..Len(s)
        BY <1>0, <2>1 DEF ClientOK
      <4> QED
        BY <2>1, <4>1 DEF InSequence, NextOf
    <3> QED
      BY <1>10, <2>1, <3>1 DEF Good
  <2>3. Answers(All(c), next, Good(c), {}) /\ InSequence(kinds[c], t) /\ NextOf(kinds[c], t) = next + 1
    BY <1>0, <1>3, <1>4, <1>10 DEF ClientOK
  <2> HIDE DEF next, t
  <2>4. CASE /\ w \in Sockets /\ StartCall(w) /\ serving' = [serving EXCEPT ![w] = <<c, next>>]
             /\ UNCHANGED output
    <3>1. TypeOKServer'
      BY <1>0, <1>1, <1>7, <2>4 DEF TypeOKServer
    <3>2. ServingOK'
      <4>1. at \in [Sockets -> {"idle", "send", "header", "body", "done", "failed"}]
        BY DEF IOInv, TypeOKIO
      <4>2. at' = [at EXCEPT ![w] = "send"]
        BY <2>4 DEF StartCall
      <4>3. <<c, next>> \in Clients \X Nat /\ <<c, next>> # <<>> /\ <<c, next>>[1] = c
        BY <1>0
      <4>4. serving' \in [Workers -> (Clients \X Nat) \cup {<<>>}]
        BY <1>0, <2>4, <4>3 DEF ServingOK
      <4>5. /\ serving'[w] = <<c, next>> /\ at'[w] = "send"
            /\ \A v \in Workers \ {w} : serving'[v] = serving[v]
            /\ \A v \in Sockets \ {w} : at'[v] = at[v]
        BY <1>0, <2>4, <4>1, <4>2 DEF ServingOK
      <4>6. \A v \in Workers : serving'[v] # <<>> <=> v \in Sockets /\ at'[v] # "idle"
        BY <1>0, <2>4, <4>3, <4>5 DEF ServingOK
      <4>7. \A v \in Workers : serving'[v] # <<>> =>
              conn'[serving'[v][1]] = "open" /\ owner'[serving'[v][1]] = v
        <5>1. \A v \in Workers : serving[v] # <<>> =>
                conn[serving[v][1]] = "open" /\ owner[serving[v][1]] = v
          BY <1>0 DEF ServingOK
        <5>2. conn' = conn /\ owner' = owner
          BY <1>1, <1>7
        <5>3. ASSUME NEW v \in Workers, serving'[v] # <<>>
              PROVE  conn'[serving'[v][1]] = "open" /\ owner'[serving'[v][1]] = v
          <6>1. CASE v = w
            BY <1>1, <4>5, <5>2, <6>1
          <6>2. CASE v # w
            BY <4>5, <5>1, <5>2, <5>3, <6>2
          <6> QED
            BY <6>1, <6>2
        <5> QED
          BY <5>3
      <4> QED
        BY <4>4, <4>6, <4>7 DEF ServingOK
    <3>3. ServedOf(c)' = {next}
      <4>1. \A v \in Workers, k \in Nat : serving[v] # <<c, k>>
        BY <1>1, NotServed
      <4> QED
        BY <1>0, <2>4, <4>1 DEF ServedOf, ServingOK
    <3>4. Answers(All(c), next + 1, Good(c), {next})
      BY <1>0, <2>2, <2>3, NextTaken
    <3>5. ClientOK(c)'
      <4>1. All(c)' = All(c)
        BY <1>1, <2>4 DEF All
      <4> QED
        BY <1>1, <1>4, <2>3, <3>3, <3>4, <4>1 DEF ClientOK, t
    <3>6. \A b \in Clients \ {c}, v \in Workers, k \in Nat :
            serving'[v] = <<b, k>> <=> serving[v] = <<b, k>>
      BY <1>0, <1>1, <2>4 DEF ServingOK
    <3>7. StreamOK' /\ AnswersOK'
      BY <1>1, <1>8, <2>4, <3>5, <3>6, OneClient
    <3> QED
      BY <1>1, <1>7, <3>1, <3>2, <3>7, SameConnections DEF ServerInv
  <2>5. CASE Answer(c, next, FALSE) /\ UNCHANGED <<serving, ioVars>>
    <3> DEFINE e == [msg |-> next, ok |-> FALSE]
               all == All(c)
               all2 == All(c)'
    <3>1. /\ e \in Responses /\ e.msg = next /\ output' = [output EXCEPT ![c] = Append(output[c], e)]
          /\ serving' = serving /\ at' = at
      BY <1>0, <2>5 DEF Responses, Answer, ioVars
    <3> HIDE DEF e
    <3>2. /\ Append(output[c], e) \in Seq(Responses)
          /\ got[c] \o Append(output[c], e) \in Seq(Responses)
          /\ Extended(got[c] \o output[c], got[c] \o Append(output[c], e), e)
      BY <1>0, <3>1, AppendedTo
    <3>3. TypeOKServer'
      BY <1>0, <1>1, <1>7, <3>1, <3>2 DEF TypeOKServer
    <3>4. all2 \in Seq(Responses) /\ Extended(all, all2, e) /\ all \in Seq(Responses)
      BY <1>0, <1>1, <3>1, <3>2 DEF All, TypeOKServer
    <3>5. \A i \in 1..Len(all) : all[i].msg < next
      BY <2>3 DEF Answers
    <3>6. Answers(all, next, Good(c), {}) /\ next + 1 \in Nat /\ next <= next + 1 /\ next < next + 1
      BY <1>0, <2>3
    <3>a. \A k \in Good(c) : k < next + 1 /\ k # next => k < next
      BY <1>0
    <3> HIDE DEF all, all2
    <3>7. Answers(all2, next + 1, Good(c), {})
      BY <1>0, <2>2, <3>1, <3>4, <3>5, <3>6, <3>a, OneMoreAnswer
    <3>8. ServedOf(c)' = {}
      BY <1>4, <3>1 DEF ServedOf
    <3>9. ClientOK(c)'
      BY <1>1, <1>4, <2>3, <3>7, <3>8 DEF ClientOK, t, all2
    <3>10. \A b \in Clients \ {c} : output'[b] = output[b]
      BY <1>0, <3>1 DEF TypeOKServer
    <3>11. StreamOK' /\ AnswersOK'
      BY <1>1, <1>8, <3>1, <3>9, <3>10, OneClient
    <3> QED
      BY <1>1, <1>7, <3>1, <3>3, <3>11, SameConnections DEF ServerInv
  <2> QED
    BY <1>5, <1>10, <2>1, <2>4, <2>5 DEF HandleBuffer
<1>11. CASE ~CanRead(c, buf)
  BY <1>5, <1>9, <1>11 DEF HandleBuffer, ioVars
<1>12. CASE CanRead(c, buf) /\ kinds[c][Head(buf)[1]] = "empty"
  <2>1. next \notin Good(c)
    BY <1>3, <1>12 DEF NextOf, Good
  <2> HIDE DEF next
  <2> QED
    BY <1>5, <1>9, <1>12, <2>1 DEF HandleBuffer, ioVars
<1> QED
  BY <1>5, <1>10, <1>11, <1>12 DEF HandleBuffer

-----------------------------------------------------------------------------
(***************************************************************************)
(* The client writes.                                                       *)
(***************************************************************************)

\* A piece is in the input or on the wire if it is in the stream.
LEMMA InStream ==
    ASSUME ServerInv, NEW c \in Clients, NEW p
    PROVE  p \in {input[c][i] : i \in 1..Len(input[c])} \cup {wire[c][i] : i \in 1..Len(wire[c])}
             <=> \E i \in 1..Len(Stream(c)) : Stream(c)[i] = p
<1> DEFINE a == input[c]
           b == wire[c]
           s == Stream(c)
<1>1. /\ a \in Seq(Pieces) /\ b \in Seq(Pieces) /\ s = a \o b
  BY ClientTypes DEF Stream
<1> HIDE DEF a, b, s
<1>2. /\ Len(a) \in Nat /\ Len(b) \in Nat /\ Len(s) = Len(a) + Len(b)
      /\ \A i \in 1..(Len(a) + Len(b)) : s[i] = IF i <= Len(a) THEN a[i] ELSE b[i - Len(a)]
  BY <1>1, Concatenated
<1>3. ASSUME NEW i \in 1..Len(a) PROVE i \in 1..Len(s) /\ s[i] = a[i]
  BY <1>2
<1>4. ASSUME NEW i \in 1..Len(b) PROVE i + Len(a) \in 1..Len(s) /\ s[i + Len(a)] = b[i]
  <2>1. i + Len(a) \in 1..(Len(a) + Len(b)) /\ ~(i + Len(a) <= Len(a)) /\ i + Len(a) - Len(a) = i
    BY <1>2
  <2> QED
    BY <1>2, <2>1
<1>5. ASSUME NEW i \in 1..Len(s)
      PROVE  (\E j \in 1..Len(a) : s[i] = a[j]) \/ (\E j \in 1..Len(b) : s[i] = b[j])
  <2>1. CASE i <= Len(a)
    BY <1>2, <2>1
  <2>2. CASE ~(i <= Len(a))
    <3>1. i - Len(a) \in 1..Len(b) /\ s[i] = b[i - Len(a)]
      BY <1>2, <2>2
    <3> QED
      BY <3>1
  <2> QED
    BY <2>1, <2>2
<1>6. p \in {a[i] : i \in 1..Len(a)} \cup {b[i] : i \in 1..Len(b)}
        <=> \E i \in 1..Len(s) : s[i] = p
  <2>1. ASSUME NEW i \in 1..Len(a), p = a[i] PROVE \E j \in 1..Len(s) : s[j] = p
    BY <1>3, <2>1
  <2>2. ASSUME NEW i \in 1..Len(b), p = b[i] PROVE \E j \in 1..Len(s) : s[j] = p
    BY <1>4, <2>2
  <2>3. ASSUME NEW i \in 1..Len(s), s[i] = p
        PROVE  (\E j \in 1..Len(a) : p = a[j]) \/ (\E j \in 1..Len(b) : p = b[j])
    BY <1>5, <2>3
  <2> QED
    BY <2>1, <2>2, <2>3
<1> QED
  BY <1>6 DEF a, b, s

\* The last piece of the stream is a head without its body when the client is in the middle
\* of a message, and only then.
LEMMA LastPiece ==
    ASSUME ServerInv, NEW c \in Clients
    PROVE  LET s == Stream(c)
               L == Len(kinds[c])
           IN Unfinished(c) <=> s # <<>> /\ s[Len(s)] = <<L, "head">> /\ kinds[c][L] # "empty"
<1> DEFINE s == Stream(c)
           L == Len(kinds[c])
           ks == kinds[c]
<1>0. /\ s \in Seq(Pieces) /\ Len(s) \in Nat /\ L \in Nat /\ InSequence(ks, s) /\ ks \in Seq(Kinds)
  BY ClientTypes DEF ClientOK
<1>1. Unfinished(c) <=> /\ ks # <<>> /\ ks[L] # "empty"
                        /\ \E i \in 1..Len(s) : s[i] = <<L, "head">>
                        /\ ~\E i \in 1..Len(s) : s[i] = <<L, "body">>
  BY InStream DEF Unfinished
<1> L = Len(ks)
  OBVIOUS
<1> HIDE DEF s, L, ks
<1>a. /\ \A i \in 1..Len(s) : s[i][1] \in 1..L
      /\ \A i \in 1..(Len(s) - 1) : Follows(ks, s[i], s[i + 1])
  BY <1>0 DEF InSequence
<1>2. ASSUME Unfinished(c) PROVE s # <<>> /\ s[Len(s)] = <<L, "head">> /\ ks[L] # "empty"
  <2>1. PICK i \in 1..Len(s) : s[i] = <<L, "head">>
    BY <1>1, <1>2
  <2>2. i = Len(s)
    <3> SUFFICES ASSUME i # Len(s) PROVE FALSE
      OBVIOUS
    <3>1. i \in 1..(Len(s) - 1) /\ i + 1 \in 1..Len(s)
      BY <1>0
    <3>2. Follows(ks, s[i], s[i + 1])
      BY <1>a, <3>1
    <3>3. s[i + 1] = <<L, "body">>
      BY <1>1, <1>2, <2>1, <3>2 DEF Follows
    <3> QED
      BY <1>1, <1>2, <3>1, <3>3
  <2> QED
    BY <1>0, <1>1, <1>2, <2>1, <2>2
<1>3. ASSUME s # <<>>, s[Len(s)] = <<L, "head">>, ks[L] # "empty" PROVE Unfinished(c)
  <2>1. Len(s) \in 1..Len(s) /\ L \in 1..L
    BY <1>0, <1>a, <1>3
  <2>2. ASSUME NEW i \in 1..Len(s), s[i] = <<L, "body">> PROVE FALSE
    <3>1. i # Len(s)
      BY <1>3, <2>2
    <3>2. i \in 1..(Len(s) - 1) /\ i + 1 \in 1..Len(s)
      BY <1>0, <3>1
    <3>3. s[i + 1] = <<L + 1, "head">>
      BY <1>a, <2>2, <3>2 DEF Follows
    <3>4. s[i + 1][1] \in 1..L
      BY <1>a, <3>2
    <3> QED
      BY <1>0, <3>3, <3>4
  <2>3. ks # <<>>
    BY <1>0, <2>1
  <2> QED
    BY <1>1, <1>3, <2>1, <2>2, <2>3
<1> QED
  BY <1>2, <1>3 DEF s, L, ks

\* A client sends the body of its last message,
LEMMA SendBodyKeeps ==
    ASSUME ServerInv, NEW c \in Clients, SendBody(c)
    PROVE  ServerInv'
<1> DEFINE s == Stream(c)
           t == Stream(c)'
           L == Len(kinds[c])
           ks == kinds[c]
           e == <<L, "body">>
<1>0. /\ TypeOKServer /\ ClientOK(c) /\ s \in Seq(Pieces) /\ Len(s) \in Nat /\ L \in Nat
      /\ wire[c] \in Seq(Pieces) /\ input[c] \in Seq(Pieces) /\ InSequence(ks, s)
  BY ClientTypes DEF ClientOK
<1>1. /\ Unfinished(c) /\ wire' = [wire EXCEPT ![c] = Append(wire[c], e)]
      /\ UNCHANGED <<phase, made, counter, conn, owner, pipe, kinds, left, input, output, got,
                     serving, at>>
  BY DEF SendBody, mainVars, ioVars
<1>2. s # <<>> /\ s[Len(s)] = <<L, "head">> /\ ks[L] # "empty"
  BY <1>1, LastPiece
<1>3. e \in Pieces
  BY <1>0 DEF Pieces
<1>4. /\ Append(wire[c], e) \in Seq(Pieces) /\ input[c] \o Append(wire[c], e) \in Seq(Pieces)
      /\ Extended(input[c] \o wire[c], input[c] \o Append(wire[c], e), e)
  <2> HIDE DEF e
  <2> QED
    BY <1>0, <1>3, AppendedTo
<1>5. t \in Seq(Pieces) /\ Extended(s, t, e)
  BY <1>0, <1>1, <1>4 DEF Stream, TypeOKServer
<1>6. TypeOKServer'
  BY <1>0, <1>1, <1>4 DEF TypeOKServer
<1>7. InSequence(ks, t) /\ t # <<>> /\ t[1] = s[1]
  <2> HIDE DEF s, t, ks
  <2> L = Len(ks)
    BY DEF ks
  <2> HIDE DEF L
  <2>0. /\ Len(t) = Len(s) + 1 /\ t[Len(s) + 1] = e /\ \A i \in 1..Len(s) : t[i] = s[i]
    BY <1>5 DEF Extended
  <2>1. /\ \A i \in 1..Len(s) : s[i][1] \in 1..L
        /\ \A i \in 1..(Len(s) - 1) : Follows(ks, s[i], s[i + 1])
        /\ s[1][2] = "head" /\ Len(s) \in 1..Len(s) /\ 1 \in 1..Len(s)
    BY <1>0, <1>2 DEF InSequence
  <2>2. ASSUME NEW i \in 1..Len(t) PROVE t[i][1] \in 1..L
    <3>1. L \in 1..L
      BY <1>0, <1>2, <2>1
    <3>2. CASE i \in 1..Len(s)
      BY <2>0, <2>1, <3>2
    <3>3. CASE i = Len(s) + 1
      BY <2>0, <3>1, <3>3
    <3> QED
      BY <1>0, <2>0, <3>2, <3>3
  <2>3. ASSUME NEW i \in 1..(Len(t) - 1) PROVE Follows(ks, t[i], t[i + 1])
    <3>1. CASE i \in 1..(Len(s) - 1)
      <4>1. i \in 1..Len(s) /\ i + 1 \in 1..Len(s)
        BY <1>0, <3>1
      <4> QED
        BY <2>0, <2>1, <3>1, <4>1
    <3>2. CASE i = Len(s)
      <4>1. t[i] = <<L, "head">> /\ t[i + 1] = <<L, "body">>
        BY <1>2, <2>0, <2>1, <3>2
      <4> QED
        BY <1>2, <4>1 DEF Follows
    <3> QED
      BY <1>0, <2>0, <3>1, <3>2
  <2>4. t # <<>> /\ t[1] = s[1] /\ t[Len(t)][1] = L
    BY <1>0, <1>5, <2>0, <2>1
  <2> QED
    BY <2>1, <2>2, <2>3, <2>4 DEF InSequence
<1>8. ClientOK(c)'
  <2>1. NextOf(ks, t) = NextOf(ks, s)
    BY <1>2, <1>7 DEF NextOf
  <2>2. All(c)' = All(c) /\ Good(c)' = Good(c) /\ ServedOf(c)' = ServedOf(c) /\ kinds' = kinds
    BY <1>1 DEF All, Good, ServedOf
  <2> QED
    BY <1>0, <1>7, <2>1, <2>2 DEF ClientOK
<1>9. StreamOK' /\ AnswersOK'
  BY <1>0, <1>1, <1>8, OneClient DEF TypeOKServer
<1> QED
  BY <1>1, <1>6, <1>9, SameConnections DEF ServerInv

\* or the head of a new one.
LEMMA SendHeadKeeps ==
    ASSUME ServerInv, NEW c \in Clients, NEW kind \in Kinds, SendHead(c, kind)
    PROVE  ServerInv'
<1> DEFINE s == Stream(c)
           t == Stream(c)'
           L == Len(kinds[c])
           ks == kinds[c]
           ls == Append(ks, kind)
           e == <<L + 1, "head">>
<1>0. /\ TypeOKServer /\ ClientOK(c) /\ s \in Seq(Pieces) /\ Len(s) \in Nat /\ L \in Nat
      /\ wire[c] \in Seq(Pieces) /\ input[c] \in Seq(Pieces) /\ InSequence(ks, s)
      /\ ks \in Seq(Kinds)
  BY ClientTypes DEF ClientOK
<1>a. /\ ls \in Seq(Kinds) /\ Len(ls) = L + 1 /\ \A k \in 1..L : ls[k] = ks[k]
  BY <1>0, AppendProperties
<1>b. kinds' = [kinds EXCEPT ![c] = ls] /\ kinds'[c] = ls
  BY <1>0 DEF SendHead, TypeOKServer
<1>1. /\ ~Unfinished(c) /\ wire' = [wire EXCEPT ![c] = Append(wire[c], e)]
      /\ UNCHANGED <<phase, made, counter, conn, owner, pipe, left, input, output, got, serving, at>>
  <2>1. wire' = [wire EXCEPT ![c] = Append(wire[c], <<Len(kinds'[c]), "head">>)]
    BY DEF SendHead
  <2>2. Len(kinds'[c]) = L + 1
    BY <1>a, <1>b
  <2> QED
    BY <2>1, <2>2 DEF SendHead, mainVars, ioVars
<1>2. ~(s # <<>> /\ s[Len(s)] = <<L, "head">> /\ ks[L] # "empty")
  BY <1>1, LastPiece
<1>3. e \in Pieces
  BY <1>0 DEF Pieces
<1>4. /\ Append(wire[c], e) \in Seq(Pieces) /\ input[c] \o Append(wire[c], e) \in Seq(Pieces)
      /\ Extended(input[c] \o wire[c], input[c] \o Append(wire[c], e), e)
  <2> HIDE DEF e
  <2> QED
    BY <1>0, <1>3, AppendedTo
<1>5. t \in Seq(Pieces) /\ Extended(s, t, e)
  BY <1>0, <1>1, <1>4 DEF Stream, TypeOKServer
<1>6. TypeOKServer'
  BY <1>0, <1>1, <1>4, <1>a, <1>b DEF TypeOKServer
<1> HIDE DEF ls
<1>7. /\ InSequence(ls, t) /\ t # <<>> /\ (s = <<>> => t[1][1] = L + 1) /\ (s # <<>> => t[1] = s[1])
  <2> L = Len(ks)
    OBVIOUS
  <2> HIDE DEF s, t, ks, L
  <2>0. /\ Len(t) = Len(s) + 1 /\ t[Len(s) + 1] = e /\ \A i \in 1..Len(s) : t[i] = s[i]
    BY <1>5 DEF Extended
  <2>1. /\ \A i \in 1..Len(s) : s[i][1] \in 1..L
        /\ \A i \in 1..(Len(s) - 1) : Follows(ks, s[i], s[i + 1])
        /\ s # <<>> => /\ s[1][2] = "head" /\ s[Len(s)][1] = L
                       /\ Len(s) \in 1..Len(s) /\ 1 \in 1..Len(s)
    BY <1>0 DEF InSequence
  <2>2. ASSUME NEW i \in 1..Len(t) PROVE t[i][1] \in 1..Len(ls)
    <3>2. CASE i \in 1..Len(s)
      BY <1>0, <1>a, <2>0, <2>1, <3>2
    <3>3. CASE i = Len(s) + 1
      BY <1>0, <1>a, <2>0, <3>3
    <3> QED
      BY <1>0, <2>0, <3>2, <3>3
  <2>3. ASSUME NEW i \in 1..(Len(t) - 1) PROVE Follows(ls, t[i], t[i + 1])
    <3>1. CASE i \in 1..(Len(s) - 1)
      <4>1. i \in 1..Len(s) /\ i + 1 \in 1..Len(s)
        BY <1>0, <3>1
      <4>2. Follows(ks, s[i], s[i + 1]) /\ ls[s[i][1]] = ks[s[i][1]]
        BY <1>a, <2>1, <3>1, <4>1
      <4>3. Follows(ls, s[i], s[i + 1])
        BY <4>2 DEF Follows
      <4> QED
        BY <2>0, <4>1, <4>3
    <3>2. CASE i = Len(s)
      <4>1. s # <<>> /\ t[i] = s[i] /\ t[i + 1] = <<L + 1, "head">>
        BY <1>0, <2>0, <3>2
      <4>2. s[i][1] = L /\ L \in 1..L /\ ls[L] = ks[L]
        BY <1>a, <2>1, <3>2, <4>1
      <4>3. s[i] \in Pieces
        BY <1>0, <2>1, <3>2, <4>1
      <4>4. ~(s[i][2] = "head" /\ ks[L] # "empty")
        BY <1>2, <3>2, <4>1, <4>2, <4>3 DEF Pieces
      <4> QED
        BY <4>1, <4>2, <4>4 DEF Follows
    <3> QED
      BY <1>0, <2>0, <3>1, <3>2
  <2>4. t # <<>> /\ t[Len(t)][1] = L + 1
    BY <1>0, <1>5, <2>0
  <2>5. s = <<>> => t[1] = e
    BY <2>0
  <2>6. s # <<>> => t[1] = s[1]
    BY <2>0, <2>1
  <2>7. t[1][2] = "head"
    BY <2>1, <2>5, <2>6
  <2>8. InSequence(ls, t)
    BY <1>a, <2>2, <2>3, <2>4, <2>7 DEF InSequence
  <2> QED
    BY <2>4, <2>5, <2>6, <2>8
<1>8. ClientOK(c)'
  <2> DEFINE next == NextOf(ks, s)
  <2>1. NextOf(ls, t) = next
    BY <1>7 DEF NextOf
  <2>2. next \in Nat /\ next <= L + 1
    <3>1. s # <<>> => s[1][1] \in 1..L
      BY <1>0 DEF InSequence
    <3> QED
      BY <1>0, <3>1 DEF NextOf
  <2>3. /\ Good(c) = {k \in 1..L : ks[k] = "good"}
        /\ Good(c)' = {k \in 1..(L + 1) : ls[k] = "good"}
    BY <1>a, <1>b DEF Good
  <2>4. Good(c) \subseteq Good(c)' /\ \A k \in Good(c)' : k < next => k \in Good(c)
    <3> HIDE DEF next, ks, L
    <3> QED
      BY <1>0, <1>a, <2>2, <2>3
  <2>5. All(c)' = All(c) /\ ServedOf(c)' = ServedOf(c)
    BY <1>1 DEF All, ServedOf
  <2>6. Answers(All(c), next, Good(c)', ServedOf(c))
    <3>1. Answers(All(c), next, Good(c), ServedOf(c))
      BY <1>0 DEF ClientOK
    <3> HIDE DEF next
    <3> QED
      BY <2>4, <3>1 DEF Answers
  <2> QED
    BY <1>7, <1>b, <2>1, <2>5, <2>6 DEF ClientOK
<1>9. StreamOK' /\ AnswersOK'
  BY <1>0, <1>1, <1>8, <1>b, OneClient DEF TypeOKServer
<1> QED
  BY <1>1, <1>6, <1>9, SameConnections DEF ServerInv

-----------------------------------------------------------------------------
(***************************************************************************)
(* The theorems.                                                            *)
(***************************************************************************)
IInv == ServerInv /\ IOInv

\* The transfers are as they were.
LEMMA IOSame ==
    ASSUME IOInv, UNCHANGED ioVars
    PROVE  IOInv'
BY DEF IOInv, TypeOKIO, Progress, ioVars

\* The invariant holds in the beginning,
LEMMA InitHolds == ASSUME Init PROVE IInv
<1> USE DEF Init
<1>1. TypeOKServer
  BY WorkerSet, ServerConfig DEF TypeOKServer
<1>2. PipesOK
  BY DEF PipesOK
<1>3. ServingOK
  BY WorkerSet DEF ServingOK, InitIO
<1>4. \A c \in Clients : ClientOK(c)
  <2> TAKE c \in Clients
  <2>1. Stream(c) = <<>> /\ All(c) = <<>> /\ Good(c) = {} /\ ServedOf(c) = {}
    BY DEF Stream, All, Good, ServedOf
  <2> QED
    BY <2>1 DEF ClientOK, InSequence, Answers
<1>5. IOInv
  <2>1. TypeOKIO
    <3>1. 0 \in 0..RetryTimes /\ 0 \in 0..RequestSize /\ 0 \in 0..MaxLeft
      OBVIOUS
    <3> QED
      BY <3>1 DEF InitIO, TypeOKIO
  <2>2. \A s \in Sockets : Progress(s)
    BY DEF InitIO, Progress
  <2> QED
    BY <2>1, <2>2 DEF IOInv
<1> QED
  BY <1>1, <1>2, <1>3, <1>4, <1>5, Clientwise DEF IInv, ServerInv

\* A worker's step.
LEMMA WorkerKeeps ==
    ASSUME IInv, NEW w \in Workers, WorkerNext(w)
    PROVE  IInv'
<1> USE DEF IInv
<1>1. CASE HandleNotify(w)
  BY <1>1, NotifyKeeps, IOSame DEF HandleNotify
<1>2. CASE w \in Sockets /\ Invoke(w)
  <2>1. CallNext(w)
    BY <1>2 DEF Invoke
  <2>2. IOInv'
    BY <1>2, <2>1, SendKeeps, SelectKeeps, RecvKeeps, StartCallKeeps DEF CallNext
  <2> QED
    BY <1>2, <2>2, InvokeKeeps
<1>3. CASE w \in Sockets /\ Reply(w)
  BY <1>3, ReplyKeeps, StartCallKeeps DEF Reply
<1>4. ASSUME NEW c \in Clients, Read(w, c) PROVE IInv'
  <2>1. PICK n \in 1..Len(wire[c]) : HandleBuffer(w, c, input[c] \o SubSeq(wire[c], 1, n))
    BY <1>4 DEF Read
  <2>2. UNCHANGED ioVars \/ (w \in Sockets /\ StartCall(w))
    BY <2>1 DEF HandleBuffer
  <2> QED
    BY <1>4, <2>2, ReadKeeps, IOSame, StartCallKeeps
<1>5. ASSUME NEW c \in Clients, ReadUndecodable(w, c) \/ Error(w, c) PROVE IInv'
  BY <1>5, FreesKeep, IOSame DEF ReadUndecodable, Error
<1>6. ASSUME NEW c \in Clients, Flush(w, c) PROVE IInv'
  BY <1>6, FlushKeeps, IOSame DEF Flush
<1> QED
  BY <1>1, <1>2, <1>3, <1>4, <1>5, <1>6 DEF WorkerNext

\* is kept by each step,
LEMMA NextKeeps == IInv /\ [Next]_vars => IInv'
<1> SUFFICES ASSUME IInv, [Next]_vars PROVE IInv'
  OBVIOUS
<1> USE DEF IInv
<1>1. CASE MainNext
  <2>1. CASE Startup \/ StartupFails
    BY <2>1, StartupKeeps, IOSame DEF Startup, StartupFails
  <2>2. ASSUME NEW c \in Clients, Accept(c) PROVE IInv'
    BY <2>2, AcceptKeeps, IOSame DEF Accept
  <2>3. ASSUME NEW c \in Clients, AcceptRefused(c) PROVE IInv'
    BY <2>3, FreesKeep, IOSame, WorkerSet DEF AcceptRefused
  <2> QED
    BY <1>1, <2>1, <2>2, <2>3 DEF MainNext
<1>2. ASSUME NEW w \in Workers, WorkerNext(w) PROVE IInv'
  BY <1>2, WorkerKeeps
<1>3. ASSUME NEW w \in Sockets, ProviderStep(w) PROVE IInv'
  BY <1>3, InvokeKeeps, ProviderKeeps DEF ProviderStep
<1>4. ASSUME NEW c \in Clients, ClientNext(c) PROVE IInv'
  <2>1. CASE Connect(c) \/ Leave(c)
    BY <2>1, ConnectKeeps, IOSame DEF Connect, Leave
  <2>2. CASE SendBody(c)
    BY <2>2, SendBodyKeeps, IOSame DEF SendBody
  <2>3. ASSUME NEW kind \in Kinds, SendHead(c, kind) PROVE IInv'
    BY <2>3, SendHeadKeeps, IOSame DEF SendHead
  <2> QED
    BY <1>4, <2>1, <2>2, <2>3 DEF ClientNext
<1>5. CASE UNCHANGED vars
  <2>1. UNCHANGED ioVars /\ UNCHANGED serverVars
    BY <1>5 DEF vars
  <2>2. IOInv'
    BY <2>1, IOSame
  <2>3. TypeOKServer' /\ PipesOK' /\ ServingOK'
    BY <2>1 DEF ServerInv, TypeOKServer, PipesOK, ServingOK, serverVars, mainVars, ioVars
  <2>4. \A c \in Clients : ClientOK(c)'
    BY <2>1, OtherClient, Clientwise DEF ServerInv, serverVars
  <2> QED
    BY <2>2, <2>3, <2>4 DEF ServerInv, StreamOK, AnswersOK, ClientOK
<1> QED
  BY <1>1, <1>2, <1>3, <1>4, <1>5 DEF Next

\* and so always holds.
LEMMA Invariant == Spec => []IInv
<1>1. Init => IInv
  BY InitHolds
<1> QED
  BY <1>1, NextKeeps, PTL DEF Spec

\* do_accept, handle_notify, readcb and invoke_service keep every variable in its type; a
\* worker with a request is in a call, and a descriptor is in the socket pair of its owner,
\* and only there, from the moment it is accepted to the moment it is taken.
THEOREM TypeCorrect == Spec => []TypeOK
<1>1. IInv => TypeOK
  <2> SUFFICES ASSUME IInv PROVE TypeOK
    OBVIOUS
  <2>1. TypeOKIO /\ TypeOKServer /\ PipesOK /\ ServingOK
    BY DEF IInv, IOInv, ServerInv
  <2>2. ASSUME NEW c \in Clients
        PROVE  conn[c] = "notify" <=> \E i \in 1..Len(pipe[owner[c]]) : pipe[owner[c]][i] = c
    <3>1. owner[c] \in Workers
      BY <2>1 DEF TypeOKServer
    <3> QED
      BY <2>1, <3>1 DEF PipesOK
  <2> QED
    BY <2>1, <2>2 DEF TypeOK, ServingOK
<1> QED
  BY <1>1, Invariant, PTL

\* A call that receive_message ends with success has read exactly one message.
THEOREM ReadsWholeMessage == Spec => []WholeMessage
<1>1. IInv => WholeMessage
  BY DEF IInv, IOInv, Progress, WholeMessage
<1> QED
  BY <1>1, Invariant, PTL

\* A call that gives up on an open connection does so between the parts of a message, because
\* the select() of socket_receive is before the first byte of each; the first attempt on a
\* connection on which a failed call left bytes to come is excepted.
THEOREM GivesUpBetweenParts == Spec => []FailsBetweenParts
<1>1. IInv => FailsBetweenParts
  BY DEF IInv, IOInv, Progress, FailsBetweenParts
<1> QED
  BY <1>1, Invariant, PTL

\* The responses a client receives are those of its good requests, in the order of the
\* requests, without a gap: handle_buffer takes the messages off the stream one after the
\* other, and a worker starts none of a client before it has written the last answer.
THEOREM InOrder == Spec => []AnsweredInOrder
<1>1. IInv => AnsweredInOrder
  <2> SUFFICES ASSUME IInv, NEW c \in Clients, NEW i \in 1..Len(All(c))
               PROVE  /\ All(c)[i].msg \in Good(c)
                      /\ \A j \in 1..(i - 1) : All(c)[j].msg < All(c)[i].msg
                      /\ \A k \in Good(c) : k < All(c)[i].msg =>
                           \E j \in 1..(i - 1) : All(c)[j].msg = k
    BY DEF AnsweredInOrder, All
  <2> DEFINE all == All(c)
             next == NextOf(kinds[c], Stream(c))
             good == Good(c)
             served == ServedOf(c)
  <2>1. Answers(all, next, good, served) /\ all \in Seq(Responses) /\ good \in SUBSET Nat
        /\ next \in Nat /\ i \in 1..Len(all)
    BY ClientTypes DEF IInv, ClientOK
  <2> HIDE DEF all, next, good, served
  <2>2. Len(all) \in Nat /\ \A j \in 1..Len(all) : all[j].msg \in good /\ all[j].msg \in Nat
    <3>1. Len(all) \in Nat
      BY <2>1
    <3>2. \A j \in 1..Len(all) : all[j].msg \in good
      BY <2>1 DEF Answers
    <3> QED
      BY <2>1, <3>1, <3>2
  <2>3. all[i].msg \in good /\ \A j \in 1..(i - 1) : all[j].msg < all[i].msg
    BY <2>1 DEF Answers
  <2>4. ASSUME NEW k \in good, k < all[i].msg PROVE \E j \in 1..(i - 1) : all[j].msg = k
    <3>1. k \notin served /\ k < next
      BY <2>1, <2>2, <2>4 DEF Answers
    <3>2. PICK j \in 1..Len(all) : all[j].msg = k
      BY <2>1, <3>1 DEF Answers
    <3>3. j # i /\ ~(i \in 1..(j - 1))
      BY <2>1, <2>2, <2>4, <3>2 DEF Answers
    <3> QED
      BY <2>2, <3>2, <3>3
  <2> QED
    BY <2>3, <2>4 DEF all, good
<1> QED
  BY <1>1, Invariant, PTL
=============================================================================
