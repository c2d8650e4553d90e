--------------------------- MODULE ConnectTheorems --------------------------
(***************************************************************************)
(* What is proved of Connect for every number of attempts, of streams and  *)
(* of datagrams in flight: the inductive invariant, and the two safety     *)
(* properties that follow from it.                                         *)
(***************************************************************************)
EXTENDS Connect, TLAPS

StreamType ==
  [ addr : Addrs, est : Addrs, err : BOOLEAN,
    owner : {"listener", "queue", "app", "none"}, accept : {"unsent", "sent", "none"} ]

\* The queue of accept has streams that nobody else has, each once.
QueueInv ==
  /\ \A i \in DOMAIN to_accept : streams[to_accept[i]].owner = "queue"
  /\ \A i, j \in DOMAIN to_accept : to_accept[i] = to_accept[j] => i = j

\* A stream that is about to be registered is the newest, and nobody is at
\* its address.
NewInv ==
  new # 0 =>
    /\ new = Len(streams)
    /\ streams[new].owner = "listener" /\ ~ Known(streams[new].addr)

\* The entry of an address, if it has one, is its newest stream.
TableInv ==
  \A s \in DOMAIN streams :
    s # new /\ connections[streams[s].addr] # 0 => s <= connections[streams[s].addr]

ServerInv == QueueInv /\ NewInv /\ TableInv /\ Reachable

\* The numbers that datagrams and streams carry belong to their addresses.
NumberInv ==
  /\ \A s \in DOMAIN streams : streams[s].est = streams[s].addr
  /\ \A m \in toServer : m.kind = "Establish" => m.num = m.addr
  /\ \A m \in toClient :
       m.kind = "Accept" => m.num \in DOMAIN streams /\ streams[m.num].addr = m.addr

\* The open socket is that of the current attempt, and only gets what was
\* sent to its address.
ClientInv ==
  /\ client.at = "trying" => client.attempt < MaxAttempts
  /\ client.at = "waiting" \/ Streaming =>
       /\ client.attempt \in Addrs /\ open = client.attempt
       /\ \A m \in toClient : m.addr = open
  /\ Streaming => client.acc \in DOMAIN streams /\ streams[client.acc].addr = open

IInv == TypeOK /\ ServerInv /\ NumberInv /\ ClientInv

-----------------------------------------------------------------------------
(* The kinds of steps the server takes                                      *)

FailStep(s) ==
  /\ s \in DOMAIN streams /\ s # new
  /\ Fail(s) /\ UNCHANGED << to_accept, new >>

AcceptFieldStep(s) ==
  /\ s \in DOMAIN streams
  /\ \E x \in {"unsent", "sent", "none"} : streams' = [streams EXCEPT ![s].accept = x]
  /\ UNCHANGED << connections, to_accept, new >>

DropStep(s) ==
  /\ s \in DOMAIN streams /\ streams[s].owner = "app"
  /\ streams' = [streams EXCEPT ![s].owner = "none"]
  /\ UNCHANGED << connections, to_accept, new >>

EstablishStep(m) ==
  /\ m \in toServer /\ new = 0
  /\ RecvEstablish(m) /\ UNCHANGED to_accept

ServerStep ==
  \/ \E s \in DOMAIN streams : FailStep(s) \/ AcceptFieldStep(s) \/ DropStep(s)
  \/ \E m \in toServer : EstablishStep(m)
  \/ Insert \/ Accept \/ Crash
  \/ UNCHANGED serverVars

\* What a step of the server does to its variables.
LEMMA ServerSteps ==
  ASSUME TypeOK, QueueInv, NewInv, Next
  PROVE  ServerStep
<1>1. /\ streams \in Seq(StreamType) /\ connections \in [Addrs -> 0 .. Len(streams)]
      /\ new \in 0 .. Len(streams)
  BY DEF TypeOK, StreamType
<1>2. new # 0 => streams[new].owner = "listener"
  BY DEF NewInv
<1>15. \A s \in DOMAIN streams : streams[s] \in StreamType
  BY <1>1
<1>3. ASSUME NEW m \in toServer, Recv(m) PROVE ServerStep
  <2>1. new = 0 /\ UNCHANGED to_accept
    BY <1>3 DEF Recv
  <2>2. CASE RecvKnown(m)
    <3> DEFINE s == connections[m.addr]
    <3>1. m.addr \in Addrs
      BY DEF TypeOK
    <3>2. s \in DOMAIN streams /\ s # new
      BY <1>1, <2>1, <2>2, <3>1 DEF RecvKnown, Known
    <3>3. UNCHANGED new
      BY <2>2 DEF RecvKnown
    <3>4. CASE Fail(s)
      BY <2>1, <3>2, <3>3, <3>4 DEF FailStep, ServerStep
    <3>5. CASE UNCHANGED connections /\ streams' \in Settled(s)
      <4>1. streams[s].accept \in {"unsent", "sent", "none"}
        BY <1>15, <3>2 DEF StreamType
      <4>2. CASE streams' = streams
        BY <2>1, <3>3, <3>5, <4>2 DEF ServerStep, serverVars
      <4>3. CASE streams' = [streams EXCEPT ![s].accept = IF @ = "sent" THEN "none" ELSE @]
        <5>1. \E x \in {"unsent", "sent", "none"} : streams' = [streams EXCEPT ![s].accept = x]
          BY <4>1, <4>3
        <5>2. QED
          BY <2>1, <3>2, <3>3, <3>5, <5>1 DEF AcceptFieldStep, ServerStep
      <4>4. QED
        BY <3>5, <4>2, <4>3 DEF Settled
    <3>6. QED
      BY <2>2, <3>4, <3>5 DEF RecvKnown, FailAndReset
  <2>3. CASE RecvEstablish(m)
    BY <2>1, <2>3 DEF EstablishStep, ServerStep
  <2>4. CASE RecvUnknown(m)
    BY <2>1, <2>4 DEF RecvUnknown, ServerStep, serverVars
  <2>5. QED
    BY <1>3, <2>2, <2>3, <2>4 DEF Recv
<1>4. ASSUME NEW s \in DOMAIN streams, NEW kind \in {"Accept", "Other"}, WorkerSend(s, kind)
      PROVE  ServerStep
  <2>1. streams[s].accept \in {"unsent", "sent", "none"}
    BY <1>15 DEF StreamType
  <2>2. \E x \in {"unsent", "sent", "none"} : streams' = [streams EXCEPT ![s].accept = x]
    BY <1>4, <2>1 DEF WorkerSend
  <2>3. QED
    BY <1>4, <2>2 DEF WorkerSend, AcceptFieldStep, ServerStep
<1>5. ASSUME NEW s \in DOMAIN streams, AppReset(s) \/ Drop(s) PROVE ServerStep
  <2>1. s # new
    <3>1. s # 0
      BY <1>1
    <3>2. streams[s].owner # "listener"
      BY <1>5 DEF AppReset, Drop, Live
    <3>3. QED
      BY <1>2, <3>1, <3>2
  <2>2. QED
    BY <1>5, <2>1 DEF AppReset, Drop, FailAndReset, FailStep, ServerStep
<1>6. ASSUME NEW s \in DOMAIN streams, AppDrop(s) PROVE ServerStep
  BY <1>6 DEF AppDrop, DropStep, ServerStep
<1>7. CASE Fails
  BY <1>7 DEF Fails, ServerStep, serverVars
<1>8. CASE \E m \in toServer : Refuse(m)
  BY <1>8 DEF Refuse, ServerStep, serverVars
<1>9. CASE Insert \/ Accept \/ Crash
  BY <1>9 DEF ServerStep
<1>10. CASE ServerNext
  BY <1>3, <1>4, <1>5, <1>6, <1>7, <1>8, <1>9, <1>10 DEF ServerNext
<1>11. CASE Try \/ TryFails \/ TimedOut \/ StartThread \/ StartThreadFails \/ AddConnection
  BY <1>11 DEF Try, TryFails, TimedOut, StartThread, StartThreadFails, AddConnection,
               ServerStep, serverVars
<1>16. CASE ClientSend \/ ClientEnds
  BY <1>16 DEF ClientSend, ClientEnds, ServerStep, serverVars
<1>12. CASE Lose
  BY <1>12 DEF Lose, ServerStep, serverVars
<1>13. ASSUME NEW m \in toClient,
              WaitRecv(m) \/ ClientRecv(m) \/ ClientListenerFails(m) \/ ClientSendFails(m)
       PROVE  ServerStep
  BY <1>13 DEF WaitRecv, ClientRecv, ClientListenerFails, ClientSendFails,
               ServerStep, serverVars
<1>14. QED
  BY <1>10, <1>11, <1>12, <1>13, <1>16 DEF Next

-----------------------------------------------------------------------------
(* The types                                                                *)

\* A field of a stream that is assigned leaves the others as they are.
LEMMA StreamUpdate ==
  ASSUME NEW q \in Seq(StreamType), NEW s \in DOMAIN q, NEW e \in StreamType
  PROVE  /\ [q EXCEPT ![s] = e] \in Seq(StreamType)
         /\ Len([q EXCEPT ![s] = e]) = Len(q)
         /\ DOMAIN [q EXCEPT ![s] = e] = DOMAIN q
         /\ [q EXCEPT ![s] = e][s] = e
         /\ \A i \in DOMAIN q : i # s => [q EXCEPT ![s] = e][i] = q[i]
OBVIOUS

\* The types of the server's variables, which only its own steps touch; the
\* streams stay where they are and keep their handshakes.
LEMMA ServerTypes ==
  ASSUME TypeOK, NumberInv, ServerStep
  PROVE  /\ streams' \in Seq(StreamType)
         /\ connections' \in [Addrs -> 0 .. Len(streams')]
         /\ to_accept' \in Seq(DOMAIN streams') /\ new' \in 0 .. Len(streams')
         /\ Len(streams) <= Len(streams')
         /\ \A s \in DOMAIN streams :
              streams'[s].addr = streams[s].addr /\ streams'[s].est = streams[s].est
<1>1. /\ streams \in Seq(StreamType) /\ connections \in [Addrs -> 0 .. Len(streams)]
      /\ to_accept \in Seq(DOMAIN streams) /\ new \in 0 .. Len(streams)
  BY DEF TypeOK, StreamType
<1>2. \A s \in DOMAIN streams : streams[s] \in StreamType
  BY <1>1
<1>3. ASSUME NEW s \in DOMAIN streams, NEW e \in StreamType,
             streams' = [streams EXCEPT ![s] = e],
             e.addr = streams[s].addr, e.est = streams[s].est
      PROVE  /\ streams' \in Seq(StreamType) /\ Len(streams') = Len(streams)
             /\ DOMAIN streams' = DOMAIN streams
             /\ \A i \in DOMAIN streams :
                  streams'[i].addr = streams[i].addr /\ streams'[i].est = streams[i].est
  BY <1>1, <1>3, StreamUpdate
<1>4. ASSUME NEW s \in DOMAIN streams, FailStep(s)
      PROVE  /\ streams' \in Seq(StreamType) /\ Len(streams') = Len(streams)
             /\ DOMAIN streams' = DOMAIN streams
             /\ \A i \in DOMAIN streams :
                  streams'[i].addr = streams[i].addr /\ streams'[i].est = streams[i].est
             /\ connections' \in [Addrs -> 0 .. Len(streams)]
  <2> DEFINE e == [streams[s] EXCEPT !.err = TRUE, !.accept = "none"]
  <2>1. streams' = [streams EXCEPT ![s] = e]
    BY <1>2, <1>4 DEF FailStep, Fail, StreamType
  <2>2. e \in StreamType /\ e.addr = streams[s].addr /\ e.est = streams[s].est
    BY <1>2 DEF StreamType
  <2>3. connections' \in [Addrs -> 0 .. Len(streams)]
    <3>1. connections' = [connections EXCEPT ![streams[s].addr] = 0]
      BY <1>4 DEF FailStep, Fail
    <3>2. 0 \in 0 .. Len(streams)
      BY <1>1
    <3>3. QED
      BY <1>1, <3>1, <3>2
  <2> HIDE DEF e
  <2>4. QED
    BY <1>3, <2>1, <2>2, <2>3
<1>5. CASE \E s \in DOMAIN streams : FailStep(s)
  BY <1>1, <1>4, <1>5 DEF FailStep
<1>6. CASE \E s \in DOMAIN streams : AcceptFieldStep(s)
  <2>1. PICK s \in DOMAIN streams : AcceptFieldStep(s)
    BY <1>6
  <2>2. PICK x \in {"unsent", "sent", "none"} : streams' = [streams EXCEPT ![s].accept = x]
    BY <2>1 DEF AcceptFieldStep
  <2> DEFINE e == [streams[s] EXCEPT !.accept = x]
  <2>3. e \in StreamType /\ e.addr = streams[s].addr /\ e.est = streams[s].est
    BY <1>2 DEF StreamType
  <2>4. streams' = [streams EXCEPT ![s] = e]
    BY <2>2
  <2>5. UNCHANGED << connections, to_accept, new >>
    BY <2>1 DEF AcceptFieldStep
  <2> HIDE DEF e
  <2>6. /\ streams' \in Seq(StreamType) /\ Len(streams') = Len(streams)
        /\ DOMAIN streams' = DOMAIN streams
        /\ \A i \in DOMAIN streams :
             streams'[i].addr = streams[i].addr /\ streams'[i].est = streams[i].est
    BY <1>3, <2>3, <2>4
  <2>7. QED
    BY <1>1, <2>5, <2>6
<1>7. CASE \E s \in DOMAIN streams : DropStep(s)
  <2>1. PICK s \in DOMAIN streams : DropStep(s)
    BY <1>7
  <2> DEFINE e == [streams[s] EXCEPT !.owner = "none"]
  <2>2. e \in StreamType /\ e.addr = streams[s].addr /\ e.est = streams[s].est
    BY <1>2 DEF StreamType
  <2>3. streams' = [streams EXCEPT ![s] = e]
    BY <2>1 DEF DropStep
  <2>4. UNCHANGED << connections, to_accept, new >>
    BY <2>1 DEF DropStep
  <2> HIDE DEF e
  <2>5. /\ streams' \in Seq(StreamType) /\ Len(streams') = Len(streams)
        /\ DOMAIN streams' = DOMAIN streams
        /\ \A i \in DOMAIN streams :
             streams'[i].addr = streams[i].addr /\ streams'[i].est = streams[i].est
    BY <1>3, <2>2, <2>3
  <2>6. QED
    BY <1>1, <2>4, <2>5
<1>8. CASE \E m \in toServer : EstablishStep(m)
  <2>1. PICK m \in toServer : EstablishStep(m)
    BY <1>8
  <2> DEFINE e == [ addr |-> m.addr, est |-> m.num, err |-> FALSE,
                    owner |-> "listener", accept |-> "unsent" ]
  <2>2. e \in StreamType
    BY <2>1 DEF StreamType, TypeOK, NumberInv, EstablishStep, RecvEstablish
  <2>3. streams' = Append(streams, e)
    BY <2>1 DEF EstablishStep, RecvEstablish
  <2>4. new' = Len(streams) + 1 /\ UNCHANGED << connections, to_accept >>
    BY <2>1 DEF EstablishStep, RecvEstablish
  <2> HIDE DEF e
  <2>5. /\ streams' \in Seq(StreamType) /\ Len(streams') = Len(streams) + 1
        /\ \A i \in DOMAIN streams : streams'[i] = streams[i]
    BY <1>1, <2>2, <2>3
  <2>6. 0 .. Len(streams) \subseteq 0 .. Len(streams') /\ new' \in 0 .. Len(streams')
        /\ DOMAIN streams \subseteq DOMAIN streams' /\ Len(streams) <= Len(streams')
    BY <1>1, <2>4, <2>5
  <2>7. connections' \in [Addrs -> 0 .. Len(streams')] /\ to_accept' \in Seq(DOMAIN streams')
    BY <1>1, <2>4, <2>6
  <2>8. QED
    BY <2>5, <2>6, <2>7
<1>9. CASE Insert
  <2> DEFINE e == [streams[new] EXCEPT !.owner = "queue"]
  <2>1. new \in DOMAIN streams
    BY <1>1, <1>9 DEF Insert
  <2>2. e \in StreamType /\ e.addr = streams[new].addr /\ e.est = streams[new].est
    BY <1>2, <2>1 DEF StreamType
  <2>3. /\ streams' = [streams EXCEPT ![new] = e] /\ new' = 0
        /\ connections' = [connections EXCEPT ![streams[new].addr] = new]
        /\ to_accept' = Append(to_accept, new)
    BY <1>9 DEF Insert
  <2> HIDE DEF e
  <2>4. new \in 0 .. Len(streams) /\ 0 \in 0 .. Len(streams)
    BY <1>1
  <2>7. connections' \in [Addrs -> 0 .. Len(streams)]
    BY <1>1, <2>3, <2>4
  <2>8. to_accept' \in Seq(DOMAIN streams)
    BY <1>1, <2>1, <2>3
  <2>5. QED
    BY <1>1, <1>3, <2>1, <2>2, <2>3, <2>4, <2>7, <2>8
<1>10. CASE Accept
  <2> DEFINE s == Head(to_accept)
             e == [streams[s] EXCEPT !.owner = IF streams[s].err THEN "none" ELSE "app"]
  <2>1. s \in DOMAIN streams /\ Tail(to_accept) \in Seq(DOMAIN streams)
    BY <1>1, <1>10 DEF Accept
  <2>2. e \in StreamType /\ e.addr = streams[s].addr /\ e.est = streams[s].est
    BY <1>2, <2>1 DEF StreamType
  <2>3. /\ streams' = [streams EXCEPT ![s] = e] /\ to_accept' = Tail(to_accept)
        /\ UNCHANGED << connections, new >>
    BY <1>10 DEF Accept
  <2> HIDE DEF e, s
  <2>4. QED
    BY <1>1, <1>3, <2>1, <2>2, <2>3
<1>11. CASE Crash
  <2>1. /\ streams' = [s \in DOMAIN streams |->
              [streams[s] EXCEPT !.err = TRUE, !.owner = "none", !.accept = "none"]]
        /\ connections' = [a \in Addrs |-> 0] /\ to_accept' = << >> /\ new' = 0
    BY <1>11 DEF Crash
  <2>2. \A s \in DOMAIN streams :
          /\ streams'[s] \in StreamType
          /\ streams'[s].addr = streams[s].addr /\ streams'[s].est = streams[s].est
    BY <1>2, <2>1 DEF StreamType
  <2>3. DOMAIN streams = 1 .. Len(streams) /\ Len(streams) \in Nat
    BY <1>1
  <2>4. streams' \in [1 .. Len(streams) -> StreamType]
    BY <1>1, <2>1, <2>2, <2>3
  <2>5. streams' \in Seq(StreamType) /\ Len(streams') = Len(streams)
    BY <2>3, <2>4
  <2>6. 0 \in 0 .. Len(streams)
    BY <2>3
  <2>7. connections' \in [Addrs -> 0 .. Len(streams)]
    BY <2>1, <2>6
  <2>8. ASSUME NEW T PROVE << >> \in Seq(T)
    OBVIOUS
  <2>9. to_accept' \in Seq(DOMAIN streams')
    BY <2>1, <2>8
  <2>10. new' \in 0 .. Len(streams') /\ Len(streams) <= Len(streams')
    <3>1. new' = 0
      BY <2>1
    <3>2. QED
      BY <2>3, <2>5, <3>1
  <2>11. connections' \in [Addrs -> 0 .. Len(streams')]
    BY <2>5, <2>7
  <2>12. QED
    BY <2>2, <2>5, <2>9, <2>10, <2>11
<1>12. CASE UNCHANGED serverVars
  BY <1>1, <1>12 DEF serverVars
<1>13. QED
  BY <1>5, <1>6, <1>7, <1>8, <1>9, <1>10, <1>11, <1>12 DEF ServerStep

-----------------------------------------------------------------------------
(* The streams of the server and their table                                *)

\* What the lemmas below need of the types.
LEMMA ServerTyping ==
  ASSUME TypeOK
  PROVE  /\ streams \in Seq(StreamType) /\ Len(streams) \in Nat
         /\ DOMAIN streams = 1 .. Len(streams)
         /\ \A s \in DOMAIN streams :
              s \in Nat \ {0} /\ streams[s] \in StreamType /\ streams[s].addr \in Addrs
         /\ connections \in [Addrs -> 0 .. Len(streams)]
         /\ \A a \in Addrs : connections[a] # 0 => connections[a] \in DOMAIN streams
         /\ to_accept \in Seq(DOMAIN streams)
         /\ \A i \in DOMAIN to_accept : to_accept[i] \in DOMAIN streams
         /\ new \in 0 .. Len(streams) /\ (new # 0 => new \in DOMAIN streams)
<1>1. /\ streams \in Seq(StreamType) /\ connections \in [Addrs -> 0 .. Len(streams)]
      /\ to_accept \in Seq(DOMAIN streams) /\ new \in 0 .. Len(streams)
  BY DEF TypeOK, StreamType
<1>2. \A s \in DOMAIN streams : streams[s] \in StreamType
  BY <1>1
<1>3. \A s \in DOMAIN streams : streams[s].addr \in Addrs
  BY <1>2 DEF StreamType
<1>4. Len(streams) \in Nat /\ DOMAIN streams = 1 .. Len(streams)
  BY <1>1
<1>5. \A s \in DOMAIN streams : s \in Nat \ {0}
  BY <1>4
<1>6. \A a \in Addrs : connections[a] # 0 => connections[a] \in DOMAIN streams
  BY <1>1, <1>4
<1>7. \A i \in DOMAIN to_accept : to_accept[i] \in DOMAIN streams
  BY <1>1
<1>8. QED
  BY <1>1, <1>2, <1>3, <1>4, <1>5, <1>6, <1>7

\* A step that leaves table and queue alone, and at most takes a stream from
\* the application, keeps the invariant.
LEMMA QuietStep ==
  ASSUME TypeOK, ServerInv,
         UNCHANGED << connections, to_accept, new >>,
         DOMAIN streams' = DOMAIN streams, Len(streams') = Len(streams),
         \A s \in DOMAIN streams :
           /\ streams'[s].addr = streams[s].addr /\ streams'[s].err = streams[s].err
           /\ \/ streams'[s].owner = streams[s].owner
              \/ streams[s].owner = "app" /\ streams'[s].owner = "none"
  PROVE  ServerInv'
<1>1. QueueInv'
  <2>1. \A i \in DOMAIN to_accept : streams'[to_accept[i]].owner = "queue"
    BY ServerTyping DEF ServerInv, QueueInv
  <2>2. QED
    BY <2>1 DEF ServerInv, QueueInv
<1>2. \A s \in DOMAIN streams : Live(s)' => Live(s)
  BY DEF Live
<1>3. NewInv'
  <2>1. CASE new # 0
    <3>1. new \in DOMAIN streams /\ streams[new].addr \in Addrs
      BY <2>1, ServerTyping
    <3>2. ~ Known(streams[new].addr)'
      BY <1>2, <2>1, <3>1, ServerTyping DEF ServerInv, NewInv, Known
    <3>3. QED
      BY <2>1, <3>1, <3>2 DEF ServerInv, NewInv
  <2>2. QED
    BY <2>1 DEF NewInv
<1>4. TableInv'
  BY DEF ServerInv, TableInv
<1>5. Reachable'
  <2>1. SUFFICES ASSUME NEW s \in DOMAIN streams, Ok(s)', new # s
                 PROVE  \/ connections[streams[s].addr] = s
                        \/ \E older \in 1 .. s - 1 :
                             streams'[older].addr = streams[s].addr /\ streams'[older].err
    BY DEF Reachable
  <2>2. Ok(s)
    BY <1>2, <2>1 DEF Ok
  <2>3. \A older \in 1 .. s - 1 : older \in DOMAIN streams
    BY ServerTyping
  <2>4. QED
    BY <2>1, <2>2, <2>3 DEF ServerInv, Reachable
<1>6. QED
  BY <1>1, <1>3, <1>4, <1>5 DEF ServerInv

\* error() of a stream takes away the entry of its address: the streams that
\* lose it with that are newer than the one that has failed.
LEMMA FailKeeps ==
  ASSUME TypeOK, ServerInv, NEW s \in DOMAIN streams, FailStep(s)
  PROVE  ServerInv'
<1>1. /\ s # new /\ to_accept' = to_accept /\ new' = new
      /\ streams' = [streams EXCEPT ![s] = [streams[s] EXCEPT !.err = TRUE, !.accept = "none"]]
      /\ connections' = [connections EXCEPT ![streams[s].addr] = 0]
  BY ServerTyping DEF FailStep, Fail, StreamType
<1>2. /\ DOMAIN streams' = DOMAIN streams /\ Len(streams') = Len(streams)
      /\ \A i \in DOMAIN streams : i # s => streams'[i] = streams[i]
      /\ streams'[s] = [streams[s] EXCEPT !.err = TRUE, !.accept = "none"]
  BY <1>1, ServerTyping
<1>3. streams[s] \in StreamType
  BY ServerTyping
<1>4. /\ streams'[s].err /\ streams'[s].addr = streams[s].addr
      /\ streams'[s].owner = streams[s].owner
  BY <1>2, <1>3 DEF StreamType
<1>5. /\ \A i \in DOMAIN streams :
           /\ streams'[i].addr = streams[i].addr /\ streams'[i].owner = streams[i].owner
           /\ streams[i].err => streams'[i].err
      /\ \A i \in DOMAIN streams : Live(i)' <=> Live(i)
  BY <1>2, <1>4 DEF Live
<1>6. \A a \in Addrs : connections'[a] = 0 \/ connections'[a] = connections[a]
  BY <1>1, ServerTyping
<1>7. QueueInv'
  <2>1. \A i \in DOMAIN to_accept : streams'[to_accept[i]].owner = "queue"
    BY <1>5, ServerTyping DEF ServerInv, QueueInv
  <2>2. QED
    BY <1>1, <2>1 DEF ServerInv, QueueInv
<1>8. NewInv'
  <2>1. CASE new # 0
    <3>1. new \in DOMAIN streams /\ streams[new].addr \in Addrs
      BY <2>1, ServerTyping
    <3>2. ~ Known(streams[new].addr)'
      BY <1>1, <1>5, <1>6, <2>1, <3>1, ServerTyping DEF ServerInv, NewInv, Known
    <3>3. QED
      BY <1>1, <1>2, <1>5, <2>1, <3>1, <3>2 DEF ServerInv, NewInv
  <2>2. QED
    BY <1>1, <2>1 DEF NewInv
<1>9. TableInv'
  BY <1>1, <1>2, <1>5, <1>6, ServerTyping DEF ServerInv, TableInv
<1>10. Reachable'
  <2>1. SUFFICES ASSUME NEW t \in DOMAIN streams, Ok(t)', new # t
                 PROVE  \/ connections'[streams[t].addr] = t
                        \/ \E older \in 1 .. t - 1 :
                             streams'[older].addr = streams[t].addr /\ streams'[older].err
    BY <1>1, <1>2, <1>5 DEF Reachable
  <2>2. t # s
    BY <1>4, <2>1 DEF Ok
  <2>3. Ok(t)
    BY <1>2, <1>5, <2>1, <2>2 DEF Ok
  <2>4. s \in Nat /\ t \in Nat /\ streams[t].addr \in Addrs
        /\ \A older \in 1 .. t - 1 : older \in DOMAIN streams
    BY ServerTyping
  <2>5. CASE \E older \in 1 .. t - 1 :
               streams[older].addr = streams[t].addr /\ streams[older].err
    BY <1>5, <2>4, <2>5
  <2>6. CASE connections[streams[t].addr] = t /\ streams[t].addr # streams[s].addr
    BY <1>1, <2>4, <2>6, ServerTyping
  <2>7. CASE connections[streams[t].addr] = t /\ streams[t].addr = streams[s].addr
    <3>1. t # 0
      BY ServerTyping
    <3>2. s <= t
      BY <1>1, <2>7, <3>1 DEF ServerInv, TableInv
    <3>3. s \in 1 .. t - 1
      BY <2>2, <2>4, <3>2, ServerTyping
    <3>4. QED
      BY <1>4, <2>7, <3>3
  <2>8. QED
    BY <2>1, <2>3, <2>5, <2>6, <2>7 DEF ServerInv, Reachable
<1>11. QED
  BY <1>7, <1>8, <1>9, <1>10 DEF ServerInv

\* A new stream starts at an address where nobody is.
LEMMA EstablishKeeps ==
  ASSUME TypeOK, ServerInv, NumberInv, NEW m \in toServer, EstablishStep(m)
  PROVE  ServerInv'
<1> DEFINE s == Len(streams) + 1
           e == [ addr |-> m.addr, est |-> m.num, err |-> FALSE,
                  owner |-> "listener", accept |-> "unsent" ]
<1>1. /\ new = 0 /\ ~ Known(m.addr) /\ m.addr \in Addrs
      /\ streams' = Append(streams, e) /\ new' = s
      /\ connections' = connections /\ to_accept' = to_accept
  BY DEF EstablishStep, RecvEstablish, TypeOK
<1>2. /\ DOMAIN streams' = 1 .. s /\ Len(streams') = s /\ s \notin DOMAIN streams
      /\ \A i \in DOMAIN streams : i \in DOMAIN streams' /\ streams'[i] = streams[i]
      /\ streams'[s] = e
  BY <1>1, ServerTyping
<1>3. e.addr = m.addr /\ e.owner = "listener"
  OBVIOUS
<1> HIDE DEF e
<1>4. \A a \in Addrs : connections[a] # s /\ connections[a] \in Nat
  BY <1>2, ServerTyping
<1>5. QueueInv'
  <2>1. \A i \in DOMAIN to_accept : streams'[to_accept[i]].owner = "queue"
    BY <1>2, ServerTyping DEF ServerInv, QueueInv
  <2>2. QED
    BY <1>1, <2>1 DEF ServerInv, QueueInv
<1>6. NewInv'
  <2>1. ~ (connections[m.addr] # 0 /\ Live(connections[m.addr])')
    BY <1>1, <1>2, ServerTyping DEF Known, Live
  <2>2. ~ Known(streams[new].addr)'
    BY <1>1, <1>2, <1>3, <2>1 DEF Known
  <2>3. QED
    BY <1>1, <1>2, <1>3, <2>2 DEF NewInv
<1>7. TableInv'
  BY <1>1, <1>2, ServerTyping DEF ServerInv, TableInv
<1>8. Reachable'
  <2>1. SUFFICES ASSUME NEW t \in DOMAIN streams', Ok(t)', s # t
                 PROVE  \/ connections[streams'[t].addr] = t
                        \/ \E older \in 1 .. t - 1 :
                             streams'[older].addr = streams'[t].addr /\ streams'[older].err
    BY <1>1 DEF Reachable
  <2>2. t \in DOMAIN streams /\ t # new
    BY <1>1, <1>2, <2>1, ServerTyping
  <2>3. streams'[t] = streams[t] /\ Ok(t)
    BY <1>2, <2>1, <2>2 DEF Ok, Live
  <2>4. \A older \in 1 .. t - 1 : older \in DOMAIN streams
    BY <2>2, ServerTyping
  <2>5. QED
    BY <1>2, <2>2, <2>3, <2>4 DEF ServerInv, Reachable
<1>9. QED
  BY <1>5, <1>6, <1>7, <1>8 DEF ServerInv

\* When it is registered, it takes the place of streams that have lost theirs
\* or are dropped.
LEMMA InsertKeeps ==
  ASSUME TypeOK, ServerInv, Insert
  PROVE  ServerInv'
<1> DEFINE e == [streams[new] EXCEPT !.owner = "queue"]
<1>1. /\ new # 0 /\ new' = 0
      /\ streams' = [streams EXCEPT ![new] = e]
      /\ connections' = [connections EXCEPT ![streams[new].addr] = new]
      /\ to_accept' = Append(to_accept, new)
  BY DEF Insert
<1>2. new \in DOMAIN streams /\ streams[new] \in StreamType /\ streams[new].addr \in Addrs
  BY <1>1, ServerTyping
<1>3. e.owner = "queue" /\ e.addr = streams[new].addr /\ e.err = streams[new].err
  BY <1>2 DEF StreamType
<1> HIDE DEF e
<1>4. /\ DOMAIN streams' = DOMAIN streams /\ Len(streams') = Len(streams)
      /\ streams'[new] = e
      /\ \A i \in DOMAIN streams : i # new => streams'[i] = streams[i]
  BY <1>1, <1>2, ServerTyping
<1>5. /\ new = Len(streams) /\ streams[new].owner = "listener"
      /\ ~ Known(streams[new].addr)
  BY <1>1 DEF ServerInv, NewInv
<1>6. \A i \in DOMAIN streams : streams'[i].addr = streams[i].addr
  BY <1>3, <1>4
<1>7. QueueInv'
  <2>1. \A i \in DOMAIN to_accept : to_accept[i] # new
    BY <1>5, ServerTyping DEF ServerInv, QueueInv
  <2>2. \A i \in DOMAIN to_accept : streams'[to_accept[i]].owner = "queue"
    BY <1>4, <2>1, ServerTyping DEF ServerInv, QueueInv
  <2>3. /\ DOMAIN to_accept' = 1 .. Len(to_accept) + 1 /\ Len(to_accept) \in Nat
        /\ \A i \in DOMAIN to_accept : to_accept'[i] = to_accept[i]
        /\ to_accept'[Len(to_accept) + 1] = new
        /\ DOMAIN to_accept = 1 .. Len(to_accept)
    BY <1>1, <1>2, ServerTyping
  <2>4. \A i \in DOMAIN to_accept' : i \in DOMAIN to_accept \/ i = Len(to_accept) + 1
    BY <2>3
  <2>5. \A i \in DOMAIN to_accept' : streams'[to_accept'[i]].owner = "queue"
    BY <1>3, <1>4, <2>2, <2>3, <2>4
  <2>6. \A i, j \in DOMAIN to_accept' : to_accept'[i] = to_accept'[j] => i = j
    BY <2>1, <2>3, <2>4 DEF ServerInv, QueueInv
  <2>7. QED
    BY <2>5, <2>6 DEF QueueInv
<1>8. NewInv'
  BY <1>1 DEF NewInv
<1>9. TableInv'
  <2>1. SUFFICES ASSUME NEW t \in DOMAIN streams, connections'[streams[t].addr] # 0
                 PROVE  t <= connections'[streams[t].addr]
    BY <1>4, <1>6 DEF TableInv
  <2>2. CASE streams[t].addr = streams[new].addr
    BY <1>1, <1>2, <1>5, <2>2, ServerTyping
  <2>3. CASE streams[t].addr # streams[new].addr
    BY <1>1, <1>2, <2>1, <2>3, ServerTyping DEF ServerInv, TableInv
  <2>4. QED
    BY <2>2, <2>3
<1>10. Reachable'
  <2>1. SUFFICES ASSUME NEW t \in DOMAIN streams, Ok(t)'
                 PROVE  \/ connections'[streams[t].addr] = t
                        \/ \E older \in 1 .. t - 1 :
                             streams'[older].addr = streams[t].addr /\ streams'[older].err
    BY <1>4, <1>6 DEF Reachable
  <2>2. CASE t = new
    BY <1>1, <1>2, <2>2, ServerTyping
  <2>3. CASE t # new
    <3>1. Ok(t) /\ Live(t)
      BY <1>4, <2>1, <2>3 DEF Ok, Live
    <3>2. \A older \in 1 .. t - 1 : older \in DOMAIN streams
      BY ServerTyping
    <3>3. CASE connections[streams[t].addr] = t
      <4>1. streams[t].addr # streams[new].addr
        BY <1>5, <3>1, <3>3, ServerTyping DEF Known
      <4>2. QED
        BY <1>1, <3>3, <4>1, ServerTyping
    <3>4. CASE \E older \in 1 .. t - 1 :
                 streams[older].addr = streams[t].addr /\ streams[older].err
      BY <1>3, <1>4, <1>6, <3>2, <3>4
    <3>5. QED
      BY <2>3, <3>1, <3>3, <3>4 DEF ServerInv, Reachable
  <2>4. QED
    BY <2>2, <2>3
<1>11. QED
  BY <1>7, <1>8, <1>9, <1>10 DEF ServerInv

\* accept takes the front of the queue, which nobody else has.
LEMMA AcceptKeeps ==
  ASSUME TypeOK, ServerInv, Accept
  PROVE  ServerInv'
<1> DEFINE s == Head(to_accept)
           e == [streams[s] EXCEPT !.owner = IF streams[s].err THEN "none" ELSE "app"]
<1>1. /\ to_accept # << >> /\ to_accept' = Tail(to_accept)
      /\ streams' = [streams EXCEPT ![s] = e]
      /\ connections' = connections /\ new' = new
  BY DEF Accept
<1>2. /\ Len(to_accept) \in Nat \ {0} /\ DOMAIN to_accept = 1 .. Len(to_accept)
      /\ DOMAIN to_accept' = 1 .. Len(to_accept) - 1
      /\ \A i \in DOMAIN to_accept' : to_accept'[i] = to_accept[i + 1]
      /\ s = to_accept[1]
  BY <1>1, ServerTyping
<1>3. s \in DOMAIN streams /\ streams[s] \in StreamType /\ streams[s].owner = "queue"
  BY <1>2, ServerTyping DEF ServerInv, QueueInv
<1>4. /\ e.owner \in {"none", "app"} /\ (e.owner = "app" => ~ streams[s].err)
      /\ e.addr = streams[s].addr /\ e.err = streams[s].err
  BY <1>3 DEF StreamType
<1>5. s # new
  BY <1>3, ServerTyping DEF ServerInv, NewInv
<1> HIDE DEF e, s
<1>6. /\ DOMAIN streams' = DOMAIN streams /\ Len(streams') = Len(streams)
      /\ streams'[s] = e
      /\ \A i \in DOMAIN streams : i # s => streams'[i] = streams[i]
  BY <1>1, <1>3, ServerTyping
<1>7. /\ \A i \in DOMAIN streams :
           streams'[i].addr = streams[i].addr /\ streams'[i].err = streams[i].err
      /\ \A i \in DOMAIN streams : Live(i)' => Live(i)
  BY <1>3, <1>4, <1>6 DEF Live
<1>8. QueueInv'
  <2>1. \A i \in DOMAIN to_accept' : i + 1 \in DOMAIN to_accept /\ i \in Nat \ {0}
    BY <1>2
  <2>2. \A i \in DOMAIN to_accept' : to_accept'[i] \in DOMAIN streams /\ to_accept'[i] # s
    <3>1. TAKE i \in DOMAIN to_accept'
    <3>2. i + 1 \in DOMAIN to_accept /\ 1 \in DOMAIN to_accept /\ i + 1 # 1
      BY <1>2, <2>1
    <3>3. to_accept[i + 1] # to_accept[1]
      BY <3>2 DEF ServerInv, QueueInv
    <3>4. QED
      BY <1>2, <3>2, <3>3, ServerTyping
  <2>3. \A i \in DOMAIN to_accept' : streams'[to_accept'[i]].owner = "queue"
    BY <1>2, <1>6, <2>1, <2>2 DEF ServerInv, QueueInv
  <2>4. \A i, j \in DOMAIN to_accept' : to_accept'[i] = to_accept'[j] => i = j
    BY <1>2, <2>1 DEF ServerInv, QueueInv
  <2>5. QED
    BY <2>3, <2>4 DEF QueueInv
<1>9. NewInv'
  <2>1. CASE new # 0
    <3>1. new \in DOMAIN streams /\ streams[new].addr \in Addrs
      BY <2>1, ServerTyping
    <3>2. ~ Known(streams[new].addr)'
      BY <1>1, <1>7, <2>1, <3>1, ServerTyping DEF ServerInv, NewInv, Known
    <3>3. QED
      BY <1>1, <1>5, <1>6, <2>1, <3>1, <3>2 DEF ServerInv, NewInv
  <2>2. QED
    BY <1>1, <2>1 DEF NewInv
<1>10. TableInv'
  BY <1>1, <1>6, <1>7 DEF ServerInv, TableInv
<1>11. Reachable'
  <2>1. SUFFICES ASSUME NEW t \in DOMAIN streams, Ok(t)', new # t
                 PROVE  \/ connections[streams[t].addr] = t
                        \/ \E older \in 1 .. t - 1 :
                             streams'[older].addr = streams[t].addr /\ streams'[older].err
    BY <1>1, <1>6, <1>7 DEF Reachable
  <2>2. Ok(t)
    BY <1>7, <2>1 DEF Ok
  <2>3. \A older \in 1 .. t - 1 : older \in DOMAIN streams
    BY ServerTyping
  <2>4. QED
    BY <1>7, <2>1, <2>2, <2>3 DEF ServerInv, Reachable
<1>12. QED
  BY <1>8, <1>9, <1>10, <1>11 DEF ServerInv

\* With the process everything goes.
LEMMA CrashKeeps ==
  ASSUME TypeOK, ServerInv, Crash
  PROVE  ServerInv'
<1>1. /\ streams' = [s \in DOMAIN streams |->
            [streams[s] EXCEPT !.err = TRUE, !.owner = "none", !.accept = "none"]]
      /\ connections' = [a \in Addrs |-> 0] /\ to_accept' = << >> /\ new' = 0
  BY DEF Crash
<1>2. /\ DOMAIN streams' = DOMAIN streams
      /\ \A s \in DOMAIN streams :
           streams'[s] = [streams[s] EXCEPT !.err = TRUE, !.owner = "none", !.accept = "none"]
  BY <1>1
<1>3. \A s \in DOMAIN streams : streams'[s].addr \in Addrs /\ streams'[s].owner = "none"
  BY <1>2, ServerTyping DEF StreamType
<1>4. QueueInv'
  <2>1. DOMAIN << >> = {}
    OBVIOUS
  <2>2. QED
    BY <1>1, <2>1 DEF QueueInv
<1>5. NewInv'
  BY <1>1 DEF NewInv
<1>6. TableInv'
  BY <1>1, <1>2, <1>3 DEF TableInv
<1>7. Reachable'
  BY <1>2, <1>3 DEF Reachable, Ok, Live
<1>8. QED
  BY <1>4, <1>5, <1>6, <1>7 DEF ServerInv

\* Every step of the server keeps its invariant.
LEMMA ServerInvariant ==
  ASSUME TypeOK, ServerInv, NumberInv, ServerStep
  PROVE  ServerInv'
<1>1. CASE \E s \in DOMAIN streams : FailStep(s)
  BY <1>1, FailKeeps
<1>2. CASE \E s \in DOMAIN streams : AcceptFieldStep(s)
  <2>1. PICK s \in DOMAIN streams : AcceptFieldStep(s)
    BY <1>2
  <2>2. PICK x \in {"unsent", "sent", "none"} :
          streams' = [streams EXCEPT ![s] = [streams[s] EXCEPT !.accept = x]]
    BY <2>1 DEF AcceptFieldStep
  <2> DEFINE e == [streams[s] EXCEPT !.accept = x]
  <2>3. e.addr = streams[s].addr /\ e.err = streams[s].err /\ e.owner = streams[s].owner
    BY ServerTyping DEF StreamType
  <2>4. streams' = [streams EXCEPT ![s] = e]
    BY <2>2
  <2> HIDE DEF e
  <2>5. /\ DOMAIN streams' = DOMAIN streams /\ Len(streams') = Len(streams)
        /\ \A i \in DOMAIN streams :
             /\ streams'[i].addr = streams[i].addr /\ streams'[i].err = streams[i].err
             /\ streams'[i].owner = streams[i].owner
    BY <2>3, <2>4, ServerTyping
  <2>6. UNCHANGED << connections, to_accept, new >>
    BY <2>1 DEF AcceptFieldStep
  <2>7. QED
    BY <2>5, <2>6, QuietStep
<1>3. CASE \E s \in DOMAIN streams : DropStep(s)
  <2>1. PICK s \in DOMAIN streams : DropStep(s)
    BY <1>3
  <2> DEFINE e == [streams[s] EXCEPT !.owner = "none"]
  <2>2. e.addr = streams[s].addr /\ e.err = streams[s].err /\ e.owner = "none"
    BY ServerTyping DEF StreamType
  <2>3. streams' = [streams EXCEPT ![s] = e] /\ streams[s].owner = "app"
    BY <2>1 DEF DropStep
  <2> HIDE DEF e
  <2>4. /\ DOMAIN streams' = DOMAIN streams /\ Len(streams') = Len(streams)
        /\ \A i \in DOMAIN streams :
             /\ streams'[i].addr = streams[i].addr /\ streams'[i].err = streams[i].err
             /\ \/ streams'[i].owner = streams[i].owner
                \/ streams[i].owner = "app" /\ streams'[i].owner = "none"
    BY <2>2, <2>3, ServerTyping
  <2>5. UNCHANGED << connections, to_accept, new >>
    BY <2>1 DEF DropStep
  <2>6. QED
    BY <2>4, <2>5, QuietStep
<1>4. CASE \E m \in toServer : EstablishStep(m)
  BY <1>4, EstablishKeeps
<1>5. CASE UNCHANGED serverVars
  BY <1>5, QuietStep DEF serverVars
<1>6. QED
  BY <1>1, <1>2, <1>3, <1>4, <1>5, InsertKeeps, AcceptKeeps, CrashKeeps DEF ServerStep

-----------------------------------------------------------------------------
(* The network and the client                                               *)

\* What is in flight after a datagram was sent.
LEMMA SentOrThere ==
  ASSUME NEW net, NEW m
  PROVE  InFlight(net, m) \subseteq net \cup {m}
BY DEF InFlight

ToServer(m) ==
  /\ m \in [kind : {"Establish", "Other", "Reset"}, addr : Addrs, num : Nat]
  /\ m.kind = "Establish" => m.num = m.addr

ToClient(m) ==
  /\ m \in [kind : {"Accept", "Other", "Reset", "Refused"}, addr : Addrs, num : Nat]
  /\ m.kind = "Accept" => m.num \in DOMAIN streams /\ streams[m.num].addr = m.addr

\* What the server sends is addressed to the open socket.
LEMMA SendToClientAdds ==
  ASSUME NEW kind \in {"Accept", "Other", "Reset", "Refused"},
         NEW addr \in Addrs, NEW num \in Nat,
         SendToClient(Datagram(kind, addr, num)),
         kind = "Accept" => num \in DOMAIN streams /\ streams[num].addr = addr
  PROVE  \A d \in toClient' : d \in toClient \/ (ToClient(d) /\ d.addr = open)
<1> DEFINE m == Datagram(kind, addr, num)
<1>1. toClient' \subseteq toClient \cup (IF m.addr = open THEN {m} ELSE {})
  BY SentOrThere DEF SendToClient
<1>2. ToClient(m)
  BY DEF ToClient, Datagram
<1> HIDE DEF m
<1>3. \A d \in toClient' : d \in toClient \/ (d = m /\ m.addr = open)
  BY <1>1
<1>4. QED
  BY <1>2, <1>3

\* A step of the server and what it sends.
LEMMA ServerSends ==
  ASSUME TypeOK, ServerNext
  PROVE  /\ UNCHANGED << toServer, open >> /\ up' \in {"running", "failed", "gone"}
         /\ \A d \in toClient' : d \in toClient \/ (ToClient(d) /\ d.addr = open)
<1>1. up \in {"running", "failed", "gone"}
  BY DEF TypeOK
<1>2. ASSUME NEW m \in toServer, Recv(m) \/ Refuse(m)
      PROVE  /\ UNCHANGED << toServer, open >> /\ up' = up
             /\ \A d \in toClient' : d \in toClient \/ (ToClient(d) /\ d.addr = open)
  <2>1. m.addr \in Addrs
    BY DEF TypeOK
  <2>2. UNCHANGED << toServer, open >> /\ up' = up
    BY <1>2 DEF Recv, Refuse
  <2>3. m.addr \in Addrs /\ 0 \in Nat
    BY <2>1
  <2>4. CASE SendToClient(Datagram("Reset", m.addr, 0))
             \/ SendToClient(Datagram("Refused", m.addr, 0))
    BY <2>2, <2>3, <2>4, SendToClientAdds
  <2>5. CASE UNCHANGED toClient
    BY <2>2, <2>5
  <2>6. CASE Known(m.addr) /\ FailAndReset(connections[m.addr])
    <3>1. streams[connections[m.addr]].addr \in Addrs
      BY <2>1, <2>6, ServerTyping DEF Known
    <3>2. SendToClient(Datagram("Reset", streams[connections[m.addr]].addr, 0))
      BY <2>6 DEF FailAndReset
    <3>3. QED
      BY <2>2, <2>3, <3>1, <3>2, SendToClientAdds
  <2>7. CASE RecvKnown(m)
    BY <2>5, <2>6, <2>7 DEF RecvKnown
  <2>8. CASE RecvEstablish(m)
    BY <2>5, <2>8 DEF RecvEstablish
  <2>9. CASE RecvUnknown(m) \/ Refuse(m)
    BY <2>4, <2>9 DEF RecvUnknown, Refuse
  <2>10. QED
    BY <1>2, <2>7, <2>8, <2>9 DEF Recv
<1>3. CASE Insert \/ Accept \/ Fails \/ Crash
  <2>1. UNCHANGED << toServer, toClient, open >>
    BY <1>3 DEF Insert, Accept, Fails, Crash
  <2>2. up' \in {up, "failed", "gone"}
    BY <1>3 DEF Insert, Accept, Fails, Crash
  <2>3. QED
    BY <1>1, <2>1, <2>2
<1>4. ASSUME NEW s \in DOMAIN streams,
             \/ AppReset(s) \/ AppDrop(s) \/ Drop(s)
             \/ \E kind \in {"Accept", "Other"} : WorkerSend(s, kind)
      PROVE  /\ UNCHANGED << toServer, open >> /\ up' = up
             /\ \A d \in toClient' : d \in toClient \/ (ToClient(d) /\ d.addr = open)
  <2>1. streams[s].addr \in Addrs /\ s \in Nat /\ 0 \in Nat
    BY ServerTyping
  <2>2. UNCHANGED << toServer, open >> /\ up' = up
    BY <1>4 DEF AppReset, AppDrop, Drop, WorkerSend
  <2>3. CASE AppReset(s) \/ Drop(s)
    <3>1. SendToClient(Datagram("Reset", streams[s].addr, 0))
      BY <2>3 DEF AppReset, Drop, FailAndReset
    <3>2. QED
      BY <2>1, <2>2, <3>1, SendToClientAdds
  <2>4. CASE AppDrop(s)
    BY <2>2, <2>4 DEF AppDrop
  <2>5. ASSUME NEW kind \in {"Accept", "Other"}, WorkerSend(s, kind)
        PROVE  \A d \in toClient' : d \in toClient \/ (ToClient(d) /\ d.addr = open)
    <3> DEFINE num == IF kind = "Accept" THEN s ELSE 0
    <3>1. SendToClient(Datagram(kind, streams[s].addr, num)) /\ num \in Nat
      BY <2>1, <2>5 DEF WorkerSend
    <3>2. kind = "Accept" => num \in DOMAIN streams /\ streams[num].addr = streams[s].addr
      OBVIOUS
    <3> HIDE DEF num
    <3>3. QED
      BY <2>1, <3>1, <3>2, SendToClientAdds
  <2>6. \A d \in toClient' : d \in toClient \/ (ToClient(d) /\ d.addr = open)
    BY <1>4, <2>3, <2>4, <2>5
  <2>7. QED
    BY <2>2, <2>6
<1>5. QED
  BY <1>1, <1>2, <1>3, <1>4 DEF ServerNext

\* What is true of the networks and the client, apart from the server's
\* variables.
NetworkInv ==
  /\ \A m \in toServer : ToServer(m)
  /\ \A m \in toClient : ToClient(m)

ClientType ==
  [ at : {"trying", "waiting", "built", "started", "connected", "failed"},
    attempt : 0 .. MaxAttempts, acc : 0 .. Len(streams),
    err : BOOLEAN, registered : BOOLEAN, listener : {"off", "running", "failed"} ]

ClientTyping == client \in ClientType /\ open \in Addrs \cup {0}

LEMMA NetworkTyping ==
  ASSUME TypeOK, NumberInv
  PROVE  NetworkInv /\ ClientTyping
BY DEF TypeOK, NumberInv, NetworkInv, ToServer, ToClient, ClientTyping, ClientType

\* What is sent from the open socket.
LEMMA SendToServerAdds ==
  ASSUME NEW kind \in {"Other", "Reset"}, NEW num \in Nat, open \in Addrs,
         SendToServer(kind, num), NetworkInv
  PROVE  \A m \in toServer' : ToServer(m)
<1> DEFINE d == Datagram(kind, open, num)
<1>1. toServer' \subseteq toServer \cup {d}
  BY SentOrThere DEF SendToServer
<1>2. ToServer(d)
  BY DEF ToServer, Datagram
<1> HIDE DEF d
<1>3. QED
  BY <1>1, <1>2 DEF NetworkInv

\* A step of the client in which it keeps its stream.
LEMMA StreamingStep ==
  ASSUME NetworkInv, ClientTyping, ClientInv, Streaming,
         client' \in ClientType, client'.at \in {"built", "started", "connected"},
         client'.attempt = client.attempt, client'.acc = client.acc,
         open' = open, toClient' \subseteq toClient, UNCHANGED streams
  PROVE  /\ ClientTyping' /\ ClientInv'
         /\ \A m \in toClient' : ToClient(m)
<1>1. ClientTyping'
  BY DEF ClientTyping, ClientType
<1>2. Streaming' /\ ~ client'.at = "trying"
  BY DEF Streaming
<1>3. /\ client.attempt \in Addrs /\ open = client.attempt
      /\ \A m \in toClient : m.addr = open
      /\ client.acc \in DOMAIN streams /\ streams[client.acc].addr = open
  BY DEF ClientInv
<1>4. ClientInv'
  BY <1>2, <1>3 DEF ClientInv
<1>5. QED
  BY <1>1, <1>4 DEF NetworkInv

\* A step of the client in which the attempt fails.
LEMMA AttemptFailsStep ==
  ASSUME streams \in Seq(StreamType), NetworkInv, ClientTyping, NEW attempt \in Addrs,
         AttemptFails(attempt), UNCHANGED << streams, toClient >>
  PROVE  /\ ClientTyping' /\ ClientInv'
         /\ \A m \in toClient' : ToClient(m)
<1>1. /\ client' \in ClientType /\ open' = 0
      /\ client'.at = IF attempt = MaxAttempts THEN "failed" ELSE "trying"
      /\ client'.attempt = attempt
  <2>1. Len(streams) \in Nat /\ streams' = streams
    OBVIOUS
  <2>2. 0 \in 0 .. Len(streams) /\ attempt \in 0 .. MaxAttempts
    BY <2>1, ConnectAssumption
  <2>3. QED
    BY <2>1, <2>2 DEF AttemptFails, NoStream, ClientTyping, ClientType
<1>2. attempt \in 1 .. MaxAttempts /\ MaxAttempts \in Nat
  BY ConnectAssumption
<1>3. ClientTyping'
  BY <1>1 DEF ClientTyping, ClientType
<1>4. ~ Streaming' /\ client'.at # "waiting"
  BY <1>1 DEF Streaming
<1>5. client'.at = "trying" => client'.attempt < MaxAttempts
  BY <1>1, <1>2
<1>6. QED
  BY <1>3, <1>4, <1>5 DEF ClientInv, NetworkInv

\* A step of the client, or of the network.
ClientNext ==
  \/ Try \/ TryFails \/ TimedOut \/ StartThread \/ StartThreadFails \/ AddConnection
  \/ ClientSend \/ ClientEnds
  \/ \E m \in toClient :
       WaitRecv(m) \/ ClientRecv(m) \/ ClientListenerFails(m) \/ ClientSendFails(m)
  \/ Lose

LEMMA ClientSteps ==
  ASSUME streams \in Seq(StreamType), NetworkInv, ClientTyping, ClientInv, ClientNext
  PROVE  /\ UNCHANGED << serverVars, up >>
         /\ ClientTyping' /\ ClientInv'
         /\ \A m \in toClient' : ToClient(m)
         /\ \A m \in toServer' : ToServer(m)
<1> DEFINE Kept == /\ UNCHANGED << serverVars, up >>
                   /\ ClientTyping' /\ ClientInv'
                   /\ \A m \in toClient' : ToClient(m)
                   /\ \A m \in toServer' : ToServer(m)
<1>1. /\ client \in ClientType /\ open \in Addrs \cup {0}
      /\ Addrs = 1 .. MaxAttempts /\ MaxAttempts \in Nat \ {0}
  BY ConnectAssumption DEF ClientTyping
<1>2. Streaming \/ client.at = "waiting" => open \in Addrs /\ client.attempt \in Addrs
  BY DEF ClientInv
<1>3. Streaming => client.acc \in Nat /\ client.at \in {"built", "started", "connected"}
  BY <1>1 DEF Streaming, ClientType
<1>4. /\ \A m \in toServer : ToServer(m)
      /\ \A m \in toClient : ToClient(m)
  BY DEF NetworkInv
<1>5. CASE Try
  <2> DEFINE n == client.attempt + 1
             d == Datagram("Establish", n, n)
  <2>1. client.at = "trying" /\ n \in Addrs /\ n \in Nat
    BY <1>1, <1>5 DEF Try, ClientInv, ClientType
  <2>2. /\ UNCHANGED << serverVars, up >> /\ open' = n
        /\ client' = [client EXCEPT !.at = "waiting", !.attempt = n]
        /\ toServer' = InFlight(toServer, d)
        /\ toClient' = {m \in toClient : m.addr = n}
    BY <1>5 DEF Try, AddrOf
  <2>3. ToServer(d)
    BY <2>1 DEF ToServer, Datagram
  <2> HIDE DEF d
  <2>4. \A m \in toServer' : ToServer(m)
    BY <1>4, <2>2, <2>3, SentOrThere
  <2> HIDE DEF n
  <2>5. client' \in ClientType /\ client'.at = "waiting" /\ client'.attempt = n
    <3>1. n \in 0 .. MaxAttempts
      BY <1>1, <2>1
    <3>2. client' = [client EXCEPT !.at = "waiting", !.attempt = n] /\ streams' = streams
      BY <2>2 DEF serverVars
    <3>3. QED
      BY <1>1, <3>1, <3>2 DEF ClientType
  <2>6. ~ Streaming' /\ UNCHANGED streams
    BY <2>2, <2>5 DEF Streaming, serverVars
  <2>7. ClientTyping' /\ ClientInv'
    BY <2>1, <2>2, <2>5, <2>6 DEF ClientTyping, ClientType, ClientInv
  <2>8. QED
    BY <1>4, <2>2, <2>4, <2>7
<1>6. CASE TimedOut
  <2>1. /\ client.at = "waiting" /\ AttemptFails(client.attempt)
        /\ UNCHANGED << serverVars, up, toServer, toClient >>
    BY <1>6 DEF TimedOut
  <2>2. UNCHANGED << streams, toClient >> /\ toServer' = toServer
    BY <2>1 DEF serverVars
  <2>3. QED
    BY <1>2, <1>4, <2>1, <2>2, AttemptFailsStep
<1>19. CASE TryFails
  <2>1. /\ client.at = "trying" /\ AttemptFails(client.attempt + 1)
        /\ UNCHANGED << serverVars, up, toServer, toClient >>
    BY <1>19 DEF TryFails
  <2>2. client.attempt + 1 \in Addrs
    BY <1>1, <2>1 DEF ClientInv, ClientType
  <2>3. UNCHANGED << streams, toClient >> /\ toServer' = toServer
    BY <2>1 DEF serverVars
  <2>4. QED
    BY <1>4, <2>1, <2>2, <2>3, AttemptFailsStep
<1>20. CASE StartThreadFails
  <2>1. /\ Streaming /\ AttemptFails(client.attempt)
        /\ toServer' = toServer \/ SendToServer("Reset", 0)
        /\ UNCHANGED << serverVars, up, toClient >> /\ UNCHANGED streams
    BY <1>20 DEF StartThreadFails, Streaming, serverVars
  <2>2. \A d \in toServer' : ToServer(d)
    BY <1>2, <1>4, <2>1, SendToServerAdds
  <2>3. QED
    BY <1>2, <2>1, <2>2, AttemptFailsStep
<1>7. ASSUME NEW m \in toClient, WaitRecv(m) PROVE Kept
  <2>1. client.at = "waiting" /\ UNCHANGED << serverVars, up, toClient >> /\ UNCHANGED streams
    BY <1>7 DEF WaitRecv, serverVars
  <2>2. CASE AttemptFails(client.attempt) /\ (UNCHANGED toServer \/ SendToServer("Reset", 0))
    <3>1. \A d \in toServer' : ToServer(d)
      BY <1>2, <1>4, <2>1, <2>2, SendToServerAdds
    <3>2. QED
      BY <1>2, <2>1, <2>2, <3>1, AttemptFailsStep
  <2>3. CASE /\ m.kind = "Accept" /\ UNCHANGED << open, toServer >>
             /\ client' = [client EXCEPT !.at = "built", !.acc = m.num]
    <3>1. m.num \in DOMAIN streams /\ streams[m.num].addr = m.addr /\ m.addr = open
      BY <1>4, <2>1, <2>3 DEF ToClient, ClientInv
    <3>2. m.num \in 0 .. Len(streams)
      BY <3>1
    <3>3. client' \in ClientType /\ client'.at = "built" /\ client'.acc = m.num
          /\ client'.attempt = client.attempt
      BY <1>1, <2>3, <3>2 DEF ClientType
    <3>4. ClientTyping'
      BY <1>1, <2>1, <2>3, <3>3 DEF ClientTyping, ClientType
    <3>5. ClientInv'
      BY <2>1, <2>3, <3>1, <3>3 DEF ClientInv, Streaming
    <3>6. QED
      BY <1>4, <2>1, <2>3, <3>4, <3>5
  <2>4. QED
    BY <1>7, <2>2, <2>3 DEF WaitRecv
<1>8. ASSUME Streaming,
             client' \in ClientType, client'.at \in {"built", "started", "connected"},
             client'.attempt = client.attempt, client'.acc = client.acc,
             open' = open, toClient' \subseteq toClient, UNCHANGED << serverVars, up >>,
             \/ toServer' = toServer \/ SendToServer("Reset", 0)
             \/ SendToServer("Other", client.acc)
      PROVE  Kept
  <2>1. \A d \in toServer' : ToServer(d)
    BY <1>2, <1>3, <1>4, <1>8, SendToServerAdds
  <2>2. UNCHANGED streams
    BY <1>8 DEF serverVars
  <2>3. ClientTyping' /\ ClientInv' /\ \A d \in toClient' : ToClient(d)
    BY <1>8, <2>2, StreamingStep
  <2>4. QED
    BY <1>8, <2>1, <2>3
<1>9. CASE StartThread
  BY <1>1, <1>8, <1>9 DEF StartThread, Streaming, ClientType
<1>10. CASE AddConnection
  BY <1>1, <1>8, <1>10 DEF AddConnection, Streaming, ClientType
<1>11. CASE ClientSend
  BY <1>1, <1>3, <1>8, <1>11 DEF ClientSend
<1>12. ASSUME ClientError
       PROVE  /\ client' \in ClientType /\ client'.at = client.at
              /\ client'.attempt = client.attempt /\ client'.acc = client.acc
  BY <1>1, <1>12 DEF ClientError, ClientType
<1>13. CASE ClientEnds
  BY <1>3, <1>8, <1>12, <1>13 DEF ClientEnds, Streaming
<1>14. ASSUME NEW m \in toClient, ClientRecv(m) PROVE Kept
  <2>1. Streaming /\ UNCHANGED << serverVars, up, toClient, open >>
    BY <1>14 DEF ClientRecv
  <2>2. UNCHANGED client \/ ClientError
    BY <1>14 DEF ClientRecv
  <2>3. toServer' = toServer \/ SendToServer("Reset", 0)
    BY <1>14 DEF ClientRecv
  <2>4. QED
    BY <1>1, <1>3, <1>8, <1>12, <2>1, <2>2, <2>3
<1>15. ASSUME NEW m \in toClient, ClientListenerFails(m) PROVE Kept
  BY <1>1, <1>3, <1>8, <1>15 DEF ClientListenerFails, ClientType
<1>16. ASSUME NEW m \in toClient, ClientSendFails(m) PROVE Kept
  BY <1>3, <1>8, <1>12, <1>16 DEF ClientSendFails
<1>17. CASE Lose
  <2>1. /\ UNCHANGED << serverVars, up >> /\ UNCHANGED << streams, client, open >>
        /\ toServer' \subseteq toServer /\ toClient' \subseteq toClient
    BY <1>17 DEF Lose, serverVars
  <2>2. ClientTyping' /\ ClientInv'
    BY <2>1 DEF ClientTyping, ClientType, ClientInv, Streaming
  <2>3. QED
    BY <1>4, <2>1, <2>2
<1>18. QED
  BY <1>5, <1>6, <1>7, <1>9, <1>10, <1>11, <1>13, <1>14, <1>15, <1>16, <1>17,
     <1>19, <1>20 DEF ClientNext

-----------------------------------------------------------------------------
(* IInv is inductive *)

LEMMA InitInvariant ==
  ASSUME Init
  PROVE  IInv
<1>1. /\ streams = << >> /\ connections = [a \in Addrs |-> 0]
      /\ to_accept = << >> /\ new = 0 /\ up = "running"
      /\ toServer = {} /\ toClient = {} /\ open = 0
      /\ client = [ at |-> "trying", attempt |-> 0, acc |-> 0, err |-> FALSE,
                    registered |-> FALSE, listener |-> "off" ]
  BY DEF Init, InitListener, NoStream
<1>2. MaxAttempts \in Nat \ {0}
  BY ConnectAssumption
<1>3. Len(<< >>) = 0 /\ DOMAIN << >> = {}
  OBVIOUS
<1>4. ASSUME NEW T PROVE << >> \in Seq(T)
  OBVIOUS
<1>5. TypeOK
  BY <1>1, <1>2, <1>3, <1>4 DEF TypeOK
<1>6. QueueInv /\ NewInv /\ TableInv /\ Reachable
  BY <1>1, <1>3 DEF QueueInv, NewInv, TableInv, Reachable
<1>7. NumberInv /\ ClientInv
  BY <1>1, <1>2, <1>3 DEF NumberInv, ClientInv, Streaming
<1>8. QED
  BY <1>5, <1>6, <1>7 DEF IInv, ServerInv

LEMMA NextInvariant ==
  ASSUME IInv, [Next]_vars
  PROVE  IInv'
<1>1. TypeOK /\ ServerInv /\ NumberInv /\ ClientInv
  BY DEF IInv
<1>2. NetworkInv /\ ClientTyping /\ streams \in Seq(StreamType)
  BY <1>1, NetworkTyping, ServerTyping
<1>3. CASE Next
  <2>1. ServerStep
    BY <1>1, <1>3, ServerSteps DEF ServerInv
  <2>2. /\ streams' \in Seq(StreamType)
        /\ connections' \in [Addrs -> 0 .. Len(streams')]
        /\ to_accept' \in Seq(DOMAIN streams') /\ new' \in 0 .. Len(streams')
        /\ Len(streams) <= Len(streams')
        /\ \A s \in DOMAIN streams :
             streams'[s].addr = streams[s].addr /\ streams'[s].est = streams[s].est
    BY <1>1, <2>1, ServerTypes
  <2>3. ServerInv'
    BY <1>1, <2>1, ServerInvariant
  <2>4. DOMAIN streams \subseteq DOMAIN streams' /\ Len(streams') \in Nat
        /\ 0 .. Len(streams) \subseteq 0 .. Len(streams')
    BY <1>2, <2>2
  <2>5. /\ client' \in ClientType /\ open' \in Addrs \cup {0} /\ ClientInv'
        /\ \A m \in toClient' : ToClient(m)
        /\ \A m \in toServer' : ToServer(m)
        /\ up' \in {"running", "failed", "gone"}
    <3>1. CASE ClientNext
      <4>1. UNCHANGED << streams, up >>
        BY <1>1, <1>2, <3>1, ClientSteps DEF serverVars
      <4>2. QED
        BY <1>1, <1>2, <3>1, <4>1, ClientSteps DEF ClientTyping, ClientType, TypeOK
    <3>2. CASE ServerNext /\ UNCHANGED client
      <4>1. /\ UNCHANGED << toServer, open >> /\ up' \in {"running", "failed", "gone"}
            /\ \A d \in toClient' : d \in toClient \/ (ToClient(d) /\ d.addr = open)
        BY <1>1, <3>2, ServerSends
      <4>2. client' \in ClientType /\ open' \in Addrs \cup {0}
        BY <1>2, <3>2, <4>1 DEF ClientTyping
      <4>3. ClientInv'
        <5>1. client' = client /\ open' = open /\ (Streaming' <=> Streaming)
          BY <3>2, <4>1 DEF Streaming
        <5>2. (client.at = "waiting" \/ Streaming) => \A d \in toClient' : d.addr = open
          BY <1>1, <4>1 DEF ClientInv
        <5>3. Streaming => client.acc \in DOMAIN streams' /\ streams'[client.acc].addr = open
          BY <1>1, <2>2, <2>4 DEF ClientInv
        <5>4. QED
          BY <1>1, <5>1, <5>2, <5>3 DEF ClientInv
      <4>4. \A m \in toClient' : ToClient(m)
        BY <1>2, <4>1 DEF NetworkInv
      <4>5. \A m \in toServer' : ToServer(m)
        BY <1>2, <4>1 DEF NetworkInv
      <4>6. QED
        BY <4>1, <4>2, <4>3, <4>4, <4>5
    <3>3. QED
      BY <1>3, <3>1, <3>2 DEF Next, ClientNext
  <2>6. client' \in [ at : {"trying", "waiting", "built", "started", "connected", "failed"},
                      attempt : 0 .. MaxAttempts, acc : 0 .. Len(streams'),
                      err : BOOLEAN, registered : BOOLEAN,
                      listener : {"off", "running", "failed"} ]
    BY <2>4, <2>5 DEF ClientType
  <2>7. TypeOK'
    BY <2>2, <2>5, <2>6 DEF TypeOK, StreamType, ToServer, ToClient
  <2>8. NumberInv'
    <3>1. \A s \in DOMAIN streams' : streams'[s].est = streams'[s].addr
      <4>1. CASE \E m \in toServer : EstablishStep(m)
        <5>1. PICK m \in toServer : EstablishStep(m)
          BY <4>1
        <5>2. m.num = m.addr
          BY <1>1, <5>1 DEF NumberInv, EstablishStep, RecvEstablish
        <5> DEFINE e == [ addr |-> m.addr, est |-> m.num, err |-> FALSE,
                          owner |-> "listener", accept |-> "unsent" ]
        <5>3. streams' = Append(streams, e)
          BY <5>1 DEF EstablishStep, RecvEstablish
        <5>4. e.est = e.addr
          BY <5>2
        <5> HIDE DEF e
        <5>5. \A s \in DOMAIN streams' : s \in DOMAIN streams \/ streams'[s] = e
          BY <1>2, <5>3
        <5>6. QED
          BY <1>1, <2>2, <5>4, <5>5 DEF NumberInv
      <4>2. CASE DOMAIN streams' = DOMAIN streams
        BY <1>1, <2>2, <4>2 DEF NumberInv
      <4>3. QED
        BY <2>1, <1>2, <4>1, <4>2 DEF ServerStep, FailStep, Fail, AcceptFieldStep, DropStep,
           Insert, Accept, Crash, serverVars
    <3>2. \A m \in toServer' : m.kind = "Establish" => m.num = m.addr
      BY <2>5 DEF ToServer
    <3>3. \A m \in toClient' :
            m.kind = "Accept" => m.num \in DOMAIN streams' /\ streams'[m.num].addr = m.addr
      BY <2>2, <2>4, <2>5 DEF ToClient
    <3>4. QED
      BY <3>1, <3>2, <3>3 DEF NumberInv
  <2>9. QED
    BY <2>3, <2>5, <2>7, <2>8 DEF IInv
<1>4. CASE UNCHANGED vars
  BY <1>1, <1>4 DEF vars, serverVars, IInv, TypeOK, ServerInv, QueueInv, NewInv, TableInv,
     Reachable, NumberInv, ClientInv, Known, Live, Ok, Streaming
<1>5. QED
  BY <1>3, <1>4

\* The strengthened invariant holds in every reachable state.
THEOREM ConnectInvariance == Spec => []IInv
<1>1. Init => IInv
  BY InitInvariant
<1>2. IInv /\ [Next]_vars => IInv'
  BY NextInvariant
<1>3. QED
  BY <1>1, <1>2, PTL DEF Spec

\* The variables of the listener and of connect_to have their types.
THEOREM ConnectTypeCorrect == Spec => []TypeOK
<1>1. IInv => TypeOK
  BY DEF IInv
<1>2. QED
  BY <1>1, ConnectInvariance, PTL

\* A client that has a stream and the server's stream it got the ACCEPT of
\* are two ends of the same connection.
THEOREM SameConnection == Spec => []ConnectedAgree
<1>1. IInv => ConnectedAgree
  BY DEF IInv, ClientInv, NumberInv, ConnectedAgree
<1>2. QED
  BY <1>1, ConnectInvariance, PTL

\* The table of a listener leads to every stream that is not in error, but
\* for those whose entry an older one of the address has taken with it.
THEOREM TableLeadsToStreams == Spec => []Reachable
<1>1. IInv => Reachable
  BY DEF IInv, ServerInv
<1>2. QED
  BY <1>1, ConnectInvariance, PTL
=============================================================================
