------------------------------ MODULE Listener ------------------------------
(***************************************************************************)
(* The listener of a server, src/src/listener/inner.rs: its thread, which  *)
(* finds or makes the stream of every datagram, the table of connections,  *)
(* the queue of accept, and of the streams what the listener knows: the    *)
(* handshake's numbers, who has the Arc, whether it is in error, and what  *)
(* has become of the ACCEPT.                                               *)
(*                                                                         *)
(* A stream is its position in the order of creation, which also stands    *)
(* for the random number of its ACCEPT.  ACKNOWLEDGE and DATA are both     *)
(* "Other": a handshake does not tell them apart.  What goes on inside a   *)
(* stream between two of its locks is in StreamInner; here error() and a   *)
(* turn of the stream's thread are single steps.                           *)
(***************************************************************************)
EXTENDS Naturals, Sequences, FiniteSets

CONSTANTS
  Addrs,        (* The addresses datagrams come from.                      *)
  MaxStreams,   (* Bound on the streams the listener makes.                *)
  MaxInFlight   (* Bound on the datagrams in flight, in each direction;    *)
                (* the network loses what exceeds it.                      *)

ASSUME ListenerAssumption ==
  MaxStreams \in Nat \ {0} /\ MaxInFlight \in Nat \ {0}

VARIABLES
  streams,      (* the streams made so far, in order                       *)
  connections,  (* the stream registered for an address, 0 for none        *)
  to_accept,    (* the queue of accept                                     *)
  new,          (* the stream that `__recv` is about to register, or 0     *)
  up,           (* the listener is "running", has "failed", or is "gone"   *)
                (* with its process                                        *)
  toServer,     (* datagrams on their way to the server                    *)
  toClient,     (* datagrams on their way to the open socket of the client *)
  open          (* the address of that socket, or 0                        *)

serverVars == << streams, connections, to_accept, new >>

Streams == 1 .. MaxStreams
Datagram(kind, addr, num) == [kind |-> kind, addr |-> addr, num |-> num]

InitListener ==
  /\ streams = << >> /\ connections = [a \in Addrs |-> 0]
  /\ to_accept = << >> /\ new = 0 /\ up = "running"

\* The network with a datagram that is sent.  It is there until it is lost and
\* may be delivered any number of times until then.
\* A refusal takes no room in the socket's buffer.
InFlight(net, m) ==
  IF Cardinality(net \cup {m}) <= MaxInFlight \/ m.kind = "Refused"
    THEN net \cup {m} ELSE net

\* `_send_to`.  A datagram to a socket that is closed is gone.
SendToClient(m) ==
  toClient' = IF m.addr = open THEN InFlight(toClient, m) ELSE toClient

-----------------------------------------------------------------------------
(* The streams                                                              *)

Live(s) == streams[s].owner # "none"
Ok(s) == Live(s) /\ ~ streams[s].err

\* error(): the entry of the address goes, whosever it is.
Fail(s) ==
  /\ streams' = [streams EXCEPT ![s].err = TRUE, ![s].accept = "none"]
  /\ connections' = [connections EXCEPT ![streams[s].addr] = 0]

FailAndReset(s) ==
  Fail(s) /\ SendToClient(Datagram("Reset", streams[s].addr, 0))

\* A faulty thread that sends ACCEPT only once.
WorkerSendBug(s, kind) ==
  /\ Ok(s)
  /\ kind = IF streams[s].accept = "unsent" THEN "Accept" ELSE "Other"
  /\ SendToClient(Datagram(kind, streams[s].addr, IF kind = "Accept" THEN s ELSE 0))
  /\ streams' = [streams EXCEPT ![s].accept = IF @ = "unsent" THEN "sent" ELSE @]
  /\ UNCHANGED << connections, to_accept, new, up, toServer, open >>

\* The thread of a stream sends what is due: an acknowledgement or data, but
\* not in its first turn, and the ACCEPT until it is acknowledged.
WorkerSend(s, kind) ==
  /\ Ok(s)
  /\ IF streams[s].accept = "unsent" THEN kind = "Accept"
     ELSE kind = "Accept" => streams[s].accept = "sent"
  /\ SendToClient(Datagram(kind, streams[s].addr, IF kind = "Accept" THEN s ELSE 0))
  /\ streams' = [streams EXCEPT ![s].accept = IF @ = "unsent" THEN "sent" ELSE @]
  /\ UNCHANGED << connections, to_accept, new, up, toServer, open >>

\* reset() by the server's application.
AppReset(s) ==
  /\ streams[s].owner = "app" /\ ~ streams[s].err
  /\ FailAndReset(s)
  /\ UNCHANGED << to_accept, new, up, toServer, open >>

\* The application lets the stream go: its Weak upgrades no more.
AppDrop(s) ==
  /\ streams[s].owner = "app"
  /\ streams' = [streams EXCEPT ![s].owner = "none"]
  /\ UNCHANGED << connections, to_accept, new, up, toServer, toClient, open >>

\* Drop of a stream that is not in error, after that.
Drop(s) ==
  /\ ~ Live(s) /\ ~ streams[s].err
  /\ FailAndReset(s)
  /\ UNCHANGED << to_accept, new, up, toServer, open >>

-----------------------------------------------------------------------------
(* The listener's thread: `__recv`                                          *)

\* A faulty lookup that misses a stream nobody has accepted yet.
KnownBug(addr) ==
  connections[addr] # 0 /\ streams[connections[addr]].owner = "app"

\* The Weak registered for the address upgrades.
Known(addr) == connections[addr] # 0 /\ Live(connections[addr])

\* What a segment that is no error may do to the ACCEPT: an acknowledgement
\* takes it off queue_sent, or is of an earlier number; DATA does not touch it.
Settled(s) ==
  {streams, [streams EXCEPT ![s].accept = IF @ = "sent" THEN "none" ELSE @]}

\* recv_segment of the stream.  A number of another handshake is out of
\* range, or happens to be in it.
RecvKnown(m) ==
  LET s == connections[m.addr]
      foreign == m.kind = "Other" /\ m.num # s
  IN /\ Known(m.addr)
     /\ \/ /\ m.kind = "Reset" /\ ~ streams[s].err
           /\ Fail(s) /\ UNCHANGED toClient
        \/ /\ m.kind = "Establish" \/ foreign
           /\ ~ streams[s].err
           /\ FailAndReset(s)
        \/ /\ m.kind = "Other" \/ streams[s].err
           /\ streams' \in Settled(s)
           /\ UNCHANGED << connections, toClient >>
     /\ UNCHANGED new

\* The new stream's own thread is started before it is registered.
RecvEstablish(m) ==
  /\ ~ Known(m.addr) /\ m.kind = "Establish" /\ Len(streams) < MaxStreams
  /\ streams' = Append(streams, [ addr |-> m.addr, est |-> m.num, err |-> FALSE,
                                  owner |-> "listener", accept |-> "unsent" ])
  /\ new' = Len(streams) + 1
  /\ UNCHANGED << connections, toClient >>

RecvUnknown(m) ==
  /\ ~ Known(m.addr) /\ m.kind # "Establish"
  /\ SendToClient(Datagram("Reset", m.addr, 0))
  /\ UNCHANGED << streams, connections, new >>

Recv(m) ==
  /\ up = "running" /\ new = 0
  /\ RecvKnown(m) \/ RecvEstablish(m) \/ RecvUnknown(m)
  /\ UNCHANGED << to_accept, up, toServer, open >>

\* The rest of `__recv` for a new stream: it is registered and queued.
Insert ==
  /\ new # 0 /\ new' = 0
  /\ connections' = [connections EXCEPT ![streams[new].addr] = new]
  /\ to_accept' = Append(to_accept, new)
  /\ streams' = [streams EXCEPT ![new].owner = "queue"]
  /\ UNCHANGED << up, toServer, toClient, open >>

-----------------------------------------------------------------------------
(* The server's application                                                 *)

\* A faulty accept_nonblocking that leaves a failed connection at the front.
AcceptBug ==
  /\ up = "running" /\ to_accept # << >> /\ ~ streams[Head(to_accept)].err
  /\ to_accept' = Tail(to_accept)
  /\ streams' = [streams EXCEPT ![Head(to_accept)].owner = "app"]
  /\ UNCHANGED << connections, new, up, toServer, toClient, open >>

\* accept_nonblocking on a queue that is not empty.  If the connection at the
\* front has failed meanwhile, it is dropped and the call returns its error.
Accept ==
  /\ up = "running" /\ to_accept # << >>
  /\ to_accept' = Tail(to_accept)
  /\ streams' = [streams EXCEPT ![Head(to_accept)].owner =
                   IF streams[Head(to_accept)].err THEN "none" ELSE "app"]
  /\ UNCHANGED << connections, new, up, toServer, toClient, open >>

-----------------------------------------------------------------------------
\* An error of the socket: the thread ends and accept returns the error from
\* now on.  The streams are not told.
Fails ==
  /\ up = "running" /\ new = 0
  /\ up' = "failed"
  /\ UNCHANGED << serverVars, toServer, toClient, open >>

\* The server's process ends.  The numbers of its streams are kept as history.
Crash ==
  /\ up # "gone" /\ up' = "gone"
  /\ streams' = [s \in DOMAIN streams |->
                   [streams[s] EXCEPT !.err = TRUE, !.owner = "none", !.accept = "none"]]
  /\ connections' = [a \in Addrs |-> 0] /\ to_accept' = << >> /\ new' = 0
  /\ UNCHANGED << toServer, toClient, open >>

\* A datagram to a port that nobody has is refused.
Refuse(m) ==
  /\ up = "gone"
  /\ SendToClient(Datagram("Refused", m.addr, 0))
  /\ UNCHANGED << serverVars, up, toServer, open >>

ServerNext ==
  \/ \E m \in toServer : Recv(m) \/ Refuse(m)
  \/ Insert \/ Accept \/ Fails \/ Crash
  \/ \E s \in DOMAIN streams :
       \/ AppReset(s) \/ AppDrop(s) \/ Drop(s)
       \/ \E kind \in {"Accept", "Other"} : WorkerSend(s, kind)
=============================================================================
