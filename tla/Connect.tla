------------------------------- MODULE Connect ------------------------------
(***************************************************************************)
(* connect_to (src/src/stream/inner.rs) against a Listener: up to three    *)
(* attempts, each with a socket and an ESTABLISH of its own, and the       *)
(* client's stream with its two threads once an ACCEPT has come.           *)
(*                                                                         *)
(* Attempt i is made from address i: the system does not give a port away  *)
(* again while datagrams for it are about.  i is also the random number of *)
(* its ESTABLISH.  The network loses, repeats and reorders.  A datagram to *)
(* a process that is gone comes back as a refusal to a connected socket,   *)
(* which the next operation on the socket returns as its error.            *)
(***************************************************************************)
EXTENDS Listener

CONSTANT MaxAttempts   (* attept_count; 3 in the code. *)

ASSUME ConnectAssumption ==
  MaxAttempts \in Nat \ {0} /\ Addrs = 1 .. MaxAttempts

VARIABLE client   (* where connect_to is; the attempt; the stream it has    *)
                  (* made, with the number in the ACCEPT; and its listener  *)

vars == << serverVars, up, toServer, toClient, open, client >>

\* Before an attempt there is neither a stream nor a listener.
NoStream == [ at |-> "trying", attempt |-> 0, acc |-> 0, err |-> FALSE,
              registered |-> FALSE, listener |-> "off" ]

Init ==
  /\ InitListener
  /\ toServer = {} /\ toClient = {} /\ open = 0
  /\ client = NoStream

SendToServer(kind, num) ==
  toServer' = InFlight(toServer, Datagram(kind, open, num))

-----------------------------------------------------------------------------
(* connect_to                                                               *)

\* A faulty connect_to that uses one socket for all its attempts.
AddrOfBug(attempt) == 1

\* `_new_for_single`: a socket of its own for each attempt.
AddrOf(attempt) == attempt

\* A faulty count that makes one attempt too many.
AttemptFailsBug(attempt) ==
  /\ client' = [NoStream EXCEPT
                  !.at = IF attempt > MaxAttempts THEN "failed" ELSE "trying",
                  !.attempt = attempt]
  /\ open' = 0

\* The attempt returns an error, its socket is closed, and connect_to goes on
\* with the next one or returns the error.
AttemptFails(attempt) ==
  /\ client' = [NoStream EXCEPT
                  !.at = IF attempt = MaxAttempts THEN "failed" ELSE "trying",
                  !.attempt = attempt]
  /\ open' = 0

\* A new socket, and the ESTABLISH on it.
Try ==
  /\ client.at = "trying"
  /\ LET attempt == client.attempt + 1 IN
     /\ client' = [client EXCEPT !.at = "waiting", !.attempt = attempt]
     /\ open' = AddrOf(attempt)
     /\ toServer' = InFlight(toServer, Datagram("Establish", AddrOf(attempt), attempt))
     /\ toClient' = {m \in toClient : m.addr = AddrOf(attempt)}
  /\ UNCHANGED << serverVars, up >>

\* The system has no socket for the attempt, or does not take the ESTABLISH.
TryFails ==
  /\ client.at = "trying"
  /\ AttemptFails(client.attempt + 1)
  /\ UNCHANGED << serverVars, up, toServer, toClient >>

\* The loop of an attempt, which waits in `_try_recv`.
WaitRecv(m) ==
  /\ client.at = "waiting"
  /\ \/ /\ m.kind = "Accept"
        /\ client' = [client EXCEPT !.at = "built", !.acc = m.num]
        /\ UNCHANGED << open, toServer >>
     \/ /\ m.kind \in {"Reset", "Refused"}
        /\ AttemptFails(client.attempt) /\ UNCHANGED toServer
     \/ /\ m.kind = "Other"
        /\ AttemptFails(client.attempt)
        /\ SendToServer("Reset", 0)
  /\ UNCHANGED << serverVars, up, toClient >>

\* The socket blocks: `start.elapsed()` is only looked at again when a signal
\* interrupts it, or a datagram without contents arrives.
TimedOut ==
  /\ client.at = "waiting"
  /\ AttemptFails(client.attempt)
  /\ UNCHANGED << serverVars, up, toServer, toClient >>

\* new_by_local has started the stream's thread; the listener's follows.
StartThread ==
  /\ client.at = "built"
  /\ client' = [client EXCEPT !.at = "started", !.listener = "running"]
  /\ UNCHANGED << serverVars, up, toServer, toClient, open >>

\* The socket does not become blocking: the attempt returns the error before
\* the listener's thread is there, and the stream, which nobody else has, is
\* dropped.
StartThreadFails ==
  /\ client.at = "built"
  /\ AttemptFails(client.attempt)
  /\ IF client.err THEN UNCHANGED toServer ELSE SendToServer("Reset", 0)
  /\ UNCHANGED << serverVars, up, toClient >>

AddConnection ==
  /\ client.at = "started"
  /\ client' = [client EXCEPT !.at = "connected", !.registered = TRUE]
  /\ UNCHANGED << serverVars, up, toServer, toClient, open >>

-----------------------------------------------------------------------------
(* The client's stream                                                      *)

Streaming == client.at \in {"built", "started", "connected"}

ClientError == client' = [client EXCEPT !.err = TRUE, !.registered = FALSE]

\* The client's listener.  A number of another handshake is out of range, or
\* happens to be in it.
ClientRecv(m) ==
  /\ Streaming /\ client.listener = "running" /\ m.kind # "Refused"
  /\ \/ /\ ~ client.registered
        /\ SendToServer("Reset", 0) /\ UNCHANGED client
     \/ /\ client.registered /\ m.kind = "Reset"
        /\ IF client.err THEN UNCHANGED client ELSE ClientError
        /\ UNCHANGED toServer
     \/ /\ client.registered /\ m.kind \in {"Accept", "Other"}
        /\ UNCHANGED << client, toServer >>
     \/ /\ client.registered /\ ~ client.err
        /\ m.kind = "Accept" /\ m.num # client.acc
        /\ ClientError /\ SendToServer("Reset", 0)
  /\ UNCHANGED << serverVars, up, toClient, open >>

\* A faulty listener's thread that goes on after an error of the socket.
ClientListenerFailsBug(m) ==
  /\ Streaming /\ client.listener = "running" /\ m.kind = "Refused"
  /\ toClient' = toClient \ {m}
  /\ UNCHANGED << serverVars, up, toServer, open, client >>

\* The socket returns the refusal to the listener's thread, which notes it in
\* the listener, where no stream looks, and ends.
ClientListenerFails(m) ==
  /\ Streaming /\ client.listener = "running" /\ m.kind = "Refused"
  /\ toClient' = toClient \ {m}
  /\ client' = [client EXCEPT !.listener = "failed"]
  /\ UNCHANGED << serverVars, up, toServer, open >>

\* A turn of the client's __thread: an acknowledgement or data.
ClientSend ==
  /\ Streaming /\ ~ client.err
  /\ SendToServer("Other", client.acc)
  /\ UNCHANGED << serverVars, up, toClient, open, client >>

\* The socket returns the refusal to the stream's thread instead.
ClientSendFails(m) ==
  /\ Streaming /\ ~ client.err /\ m.kind = "Refused"
  /\ toClient' = toClient \ {m}
  /\ ClientError /\ SendToServer("Reset", 0)
  /\ UNCHANGED << serverVars, up, open >>

\* reset(), or the drop of the stream.
ClientEnds ==
  /\ client.at = "connected" /\ ~ client.err
  /\ ClientError /\ SendToServer("Reset", 0)
  /\ UNCHANGED << serverVars, up, toClient, open >>

-----------------------------------------------------------------------------
Lose ==
  /\ \/ \E m \in toServer : toServer' = toServer \ {m} /\ UNCHANGED toClient
     \/ \E m \in toClient : toClient' = toClient \ {m} /\ UNCHANGED toServer
  /\ UNCHANGED << serverVars, up, open, client >>

\* The network does not repeat a datagram of a closed socket for ever.
Expire ==
  /\ \E m \in toServer : m.addr # open /\ toServer' = toServer \ {m}
  /\ UNCHANGED << serverVars, up, toClient, open, client >>

Next ==
  \/ ServerNext /\ UNCHANGED client
  \/ Try \/ TryFails \/ TimedOut \/ StartThread \/ StartThreadFails \/ AddConnection
  \/ ClientSend \/ ClientEnds
  \/ \E m \in toClient :
       WaitRecv(m) \/ ClientRecv(m) \/ ClientListenerFails(m) \/ ClientSendFails(m)
  \/ Lose

Spec == Init /\ [][Next]_vars

\* Threads run, timers go off again and again, the server's application goes
\* on accepting, connect_to goes on, and a datagram that is sent over and
\* over arrives at some time.  A refusal wakes the listener's thread, which
\* waits in the socket; the stream's thread is only certain to get one when
\* the other has ended.
Fairness ==
  /\ WF_vars((Insert \/ Accept) /\ UNCHANGED client)
  /\ \A s \in Streams : WF_vars(s \in DOMAIN streams /\ WorkerSend(s, "Accept") /\ UNCHANGED client)
  /\ WF_vars(Try \/ StartThread \/ AddConnection) /\ WF_vars(ClientSend)
  /\ SF_vars(\E m \in toClient : WaitRecv(m))
  /\ SF_vars(\E m \in toServer : Refuse(m) /\ UNCHANGED client)
  /\ SF_vars(\E m \in toClient : ClientListenerFails(m))
  /\ SF_vars(client.listener = "failed" /\ \E m \in toClient : ClientSendFails(m))
  /\ WF_vars(Expire)

FairSpec == Spec /\ Fairness

-----------------------------------------------------------------------------
TypeOK ==
  /\ streams \in Seq([ addr : Addrs, est : Addrs, err : BOOLEAN,
                       owner : {"listener", "queue", "app", "none"},
                       accept : {"unsent", "sent", "none"} ])
  /\ connections \in [Addrs -> 0 .. Len(streams)]
  /\ to_accept \in Seq(DOMAIN streams) /\ new \in 0 .. Len(streams)
  /\ client \in [ at : {"trying", "waiting", "built", "started", "connected", "failed"},
                  attempt : 0 .. MaxAttempts, acc : 0 .. Len(streams),
                  err : BOOLEAN, registered : BOOLEAN,
                  listener : {"off", "running", "failed"} ]
  /\ up \in {"running", "failed", "gone"} /\ open \in Addrs \cup {0}
  /\ toServer \subseteq [kind : {"Establish", "Other", "Reset"}, addr : Addrs, num : Nat]
  /\ toClient \subseteq [kind : {"Accept", "Other", "Reset", "Refused"}, addr : Addrs, num : Nat]

\* When connect_to has a stream, the server has made one of the same address
\* and the same two numbers: an attempt never takes the answer to an earlier
\* one for its own.
ConnectedAgree ==
  Streaming =>
    /\ client.acc \in DOMAIN streams
    /\ streams[client.acc].addr = open
    /\ streams[client.acc].est = client.attempt

\* A stream of the server that is not in error is the one its address leads
\* to, once it is registered, unless an older stream of the address has
\* failed: a repeated ESTABLISH does not put another stream in its place.
Reachable ==
  \A s \in DOMAIN streams :
    Ok(s) /\ new # s =>
      \/ connections[streams[s].addr] = s
      \/ \E older \in 1 .. s - 1 :
           streams[older].addr = streams[s].addr /\ streams[older].err

\* A stream of the server goes on answering the attempt in progress.
Answered ==
  /\ client.at = "waiting"
  /\ \E s \in DOMAIN streams : streams[s].addr = open /\ Ok(s)

\* An attempt that the server answers comes to an end, although ACCEPT may
\* be lost any number of times, or the server's stream fails.
AttemptEnds == Answered ~> ~ Answered

\* A connection for which the client has a stream reaches the server's
\* application (which may have let it go since), if that goes on accepting, and
\* neither the server's stream, the listener nor the client's attempt fails first.
ConnectedIsAccepted ==
  Streaming ~> \/ up # "running" \/ ~ Streaming
               \/ \E s \in DOMAIN streams :
                    /\ s = client.acc
                    /\ streams[s].err \/ streams[s].owner \in {"app", "none"}

\* A client that has a stream and keeps sending notices that the server's
\* process is gone, or does not keep the stream.
CrashIsNoticed == up = "gone" /\ Streaming ~> client.err \/ ~ Streaming

\* An attempt ends.
ConnectReturns == client.at = "waiting" ~> client.at # "waiting"
=============================================================================
