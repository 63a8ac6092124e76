----------------------------- MODULE NitroService -----------------------------
(***************************************************************************)
(* The path of one RPC of the Nitro experiment: NitroRemote._call, the     *)
(* bounded relay in front of the enclave, and the service that handles one *)
(* connection at a time.  A socket is a sequence of pieces: a header, a    *)
(* body, and for a response also its last few bytes, no more than an error *)
(* frame is long.  A deadline or a timeout may pass at any moment, and a   *)
(* peer may fall silent.  AttestedSession has what is inside the frames.   *)
(***************************************************************************)
EXTENDS Integers, Sequences, FiniteSets

CONSTANTS Calls,     \* connections an owner, or a stranger, opens
          Places,    \* BoundedSemaphore(4), as many as worker threads
          Backlog,   \* listen(4) of the enclave
          None

ASSUME ServiceAssumption ==
  /\ IsFiniteSet(Calls) /\ None \notin Calls \cup {"value", "mixed"}
  /\ Places \in Nat \ {0} /\ Backlog \in Nat \ {0}

\* attest and search need a server alike
Kinds == {"register", "search"}
\* What a header may ask for.
Requests == Kinds \cup {"other"}
Header == "header"
Body == "body"
LastBytes == "tail"
ErrorFrame == "error"

VARIABLES
  client,    \* [pc, request, got, result] of each call
  up, down,  \* pieces on their way to the enclave, and back, on both sockets
  link,      \* the relay's worker: "none", "waiting", "on", "ended"
  places,    \* value of the admission semaphore
  relayUp,   \* the relay's main loop runs
  backlog,   \* connections the enclave has not accepted
  enclave,   \* "none", "queued", "served", "closed"
  step,      \* what the service does with the connection it serves
  server,    \* the call that registered, or None
  did        \* history: the calls whose operation the service has done

clientVars == <<client>>
relayVars == <<link, places, relayUp>>
enclaveVars == <<backlog, enclave, step, server, did>>
pieces == <<up, down>>
vars == <<clientVars, relayVars, enclaveVars, pieces>>

NewCall(pc, request) == [pc |-> pc, request |-> request, got |-> <<>>, result |-> None]

ServiceInit ==
  /\ client = [c \in Calls |-> NewCall("idle", None)]
  /\ up = [c \in Calls |-> <<>>] /\ down = [c \in Calls |-> <<>>]
  /\ link = [c \in Calls |-> "none"]
  /\ places = Places /\ relayUp = TRUE
  /\ backlog = <<>>
  /\ enclave = [c \in Calls |-> "none"]
  /\ step = "accept"
  /\ server = None /\ did = {}

Gone(c) == link[c] = "ended"

----------------------------------------------------------------------------
(* NitroRemote._call, or a peer that sends a frame of its own *)

\* A new connection, when nothing is left of the last one of this name.
Open(c, request) ==
  /\ \/ client[c].pc = "idle"
     \/ client[c].pc \in {"done", "silent"} /\ Gone(c) /\ enclave[c] \in {"none", "closed"}
  /\ relayUp
  /\ server # c
  /\ client' = [client EXCEPT ![c] = NewCall("header", request)]
  /\ up' = [up EXCEPT ![c] = <<>>] /\ down' = [down EXCEPT ![c] = <<>>]
  /\ link' = [link EXCEPT ![c] = "none"]
  /\ enclave' = [enclave EXCEPT ![c] = "none"]
  /\ did' = did \ {c}
  /\ UNCHANGED <<places, relayUp, backlog, step, server>>

\* send_frame: the header and then the payload.
Send(c) ==
  /\ client[c].pc \in {"header", "body"} /\ ~Gone(c)
  /\ up' = [up EXCEPT ![c] = Append(@, client[c].pc)]
  /\ client' = [client EXCEPT ![c].pc = IF @ = "header" THEN "body" ELSE "receive"]
  /\ UNCHANGED <<down, relayVars, enclaveVars>>

\* A peer that sends no more and does not close its end.
FallSilent(c) ==
  /\ client[c].pc \in {"header", "body", "receive"}
  /\ client' = [client EXCEPT ![c].pc = "silent"]
  /\ UNCHANGED <<relayVars, enclaveVars, pieces>>

Finish(c, result) ==
  client' = [client EXCEPT ![c] = [NewCall("done", client[c].request) EXCEPT !.result = result]]

\* The frame is complete: an error frame, or a header and as many bytes as it
\* announces, of whatever frame they are.  A result with bytes of two frames
\* is a mixed one.
Receive(c) ==
  /\ client[c].pc = "receive" /\ down[c] # <<>>
  /\ LET got == Append(client[c].got, Head(down[c]))
     IN  IF Head(got) = ErrorFrame THEN Finish(c, "refused")
         ELSE IF Len(got) = 3 THEN Finish(c, IF got[3] = LastBytes THEN "value" ELSE "mixed")
         ELSE client' = [client EXCEPT ![c].got = got]
  /\ down' = [down EXCEPT ![c] = IF client'[c].pc = "done" THEN <<>> ELSE Tail(@)]
  /\ UNCHANGED <<up, relayVars, enclaveVars>>

\* A deadline, a truncated frame, a broken pipe.
Fail(c) ==
  /\ client[c].pc \in {"header", "body", "receive"}
  /\ Finish(c, "failed")
  /\ down' = [down EXCEPT ![c] = <<>>]
  /\ UNCHANGED <<up, relayVars, enclaveVars>>

----------------------------------------------------------------------------
(* The relay *)
Waiting(c) == client[c].pc \notin {"idle"} /\ link[c] = "none"

\* The main loop admits a connection or closes it.
Admit(c) ==
  /\ relayUp /\ Waiting(c)
  /\ IF places > 0
     THEN link' = [link EXCEPT ![c] = "waiting"] /\ places' = places - 1
     ELSE link' = [link EXCEPT ![c] = "ended"] /\ UNCHANGED places
  /\ UNCHANGED <<clientVars, relayUp, enclaveVars, pieces>>

\* submit fails, for want of a thread: the main loop ends, running relays end
\* by themselves, the listener closes what it has not accepted.
SubmitFails(c) ==
  /\ relayUp /\ Waiting(c) /\ places > 0
  /\ places' = places - 1
  /\ relayUp' = FALSE
  /\ link' = [d \in Calls |-> IF link[d] = "none" THEN "ended" ELSE link[d]]
  /\ UNCHANGED <<clientVars, enclaveVars, pieces>>

\* The executor waits for its workers, then the process may be started again.
RestartRelay ==
  /\ ~relayUp /\ \A c \in Calls : link[c] \notin {"waiting", "on"}
  /\ relayUp' = TRUE /\ places' = Places
  /\ UNCHANGED <<clientVars, link, enclaveVars, pieces>>

Connect(c) ==
  /\ link[c] = "waiting" /\ Len(backlog) < Backlog
  /\ link' = [link EXCEPT ![c] = "on"]
  /\ backlog' = Append(backlog, c)
  /\ enclave' = [enclave EXCEPT ![c] = "queued"]
  /\ UNCHANGED <<clientVars, places, relayUp, step, server, did, pieces>>

\* What the relay has not forwarded when it closes both sockets.
Cut(s) == {SubSeq(s, 1, n) : n \in 0..Len(s)}
Lost(c) ==
  /\ \E s \in Cut(up[c]) : up' = [up EXCEPT ![c] = IF link[c] = "on" THEN s ELSE <<>>]
  /\ \E s \in Cut(down[c]) : down' = [down EXCEPT ![c] = s]

\* Mutant: the place is given back only after a connection to the enclave.
EndRelayMutant(c) ==
  /\ link[c] \in {"waiting", "on"}
  /\ link' = [link EXCEPT ![c] = "ended"]
  /\ places' = IF link[c] = "on" THEN places + 1 ELSE places
  /\ Lost(c)
  /\ UNCHANGED <<clientVars, relayUp, enclaveVars>>

\* Mutant: a connection that is not accepted by the enclave is waited for.
EndRelayMutant2(c) ==
  /\ link[c] = "on"
  /\ link' = [link EXCEPT ![c] = "ended"]
  /\ places' = places + 1
  /\ Lost(c)
  /\ UNCHANGED <<clientVars, relayUp, enclaveVars>>

\* The end of a side, an error, 60 seconds of silence or the end of the
\* connection's lifetime: both ends are closed.
EndRelay(c) ==
  /\ link[c] \in {"waiting", "on"}
  /\ link' = [link EXCEPT ![c] = "ended"]
  /\ places' = places + 1
  /\ Lost(c)
  /\ UNCHANGED <<clientVars, relayUp, enclaveVars>>

----------------------------------------------------------------------------
(* The service: the connection at the head is the one it serves *)
Serving == {c \in Calls : enclave[c] = "served"}
UpEnded(c) == up[c] = <<>> /\ Gone(c)

Accept ==
  /\ step = "accept" /\ backlog # <<>>
  /\ enclave' = [enclave EXCEPT ![Head(backlog)] = "served"]
  /\ backlog' = Tail(backlog)
  /\ step' = "header"
  /\ UNCHANGED <<clientVars, relayVars, server, did, pieces>>

\* Mutant: a registration is accepted at any time.
RightStateMutant(kind) == kind = "register" \/ server # None
RightState(kind) == (kind = "register") = (server = None)

\* receive_header and the checks before the body is read.
ReadHeader(c) ==
  /\ step = "header" /\ c \in Serving /\ up[c] # <<>>
  /\ up' = [up EXCEPT ![c] = Tail(@)]
  /\ step' = IF client[c].request \in Kinds /\ RightState(client[c].request)
             THEN "body" ELSE "reject"
  /\ UNCHANGED <<down, clientVars, relayVars, backlog, enclave, server, did>>

ReadBody(c) ==
  /\ step = "body" /\ c \in Serving /\ up[c] # <<>>
  /\ up' = [up EXCEPT ![c] = Tail(@)]
  /\ step' = "work"
  /\ UNCHANGED <<down, clientVars, relayVars, backlog, enclave, server, did>>

\* Mutant: only the header is read under a deadline.
ReadFailsMutant(c) ==
  /\ c \in Serving
  /\ step = "header" \/ (step = "body" /\ UpEnded(c))
  /\ step' = "reject"
  /\ UNCHANGED <<clientVars, relayVars, backlog, enclave, server, did, pieces>>

\* The one deadline of header and body, a truncated frame or a wrong header.
ReadFails(c) ==
  /\ c \in Serving /\ step \in {"header", "body"}
  /\ step' = "reject"
  /\ UNCHANGED <<clientVars, relayVars, backlog, enclave, server, did, pieces>>

\* from_registration, attest or search; what it refuses changes nothing here.
Work(c) ==
  /\ step = "work" /\ c \in Serving
  /\ \/ /\ step' = "respond"
        /\ server' = IF client[c].request = "register" THEN c ELSE server
        /\ did' = did \cup {c}
     \/ step' = "reject" /\ UNCHANGED <<server, did>>
  /\ UNCHANGED <<clientVars, relayVars, backlog, enclave, pieces>>

NextPiece(s) == IF s = "respond" THEN Header ELSE IF s = "sent1" THEN Body ELSE LastBytes

\* send_frame of the result, which may time out between any two pieces.
Respond(c) ==
  /\ step \in {"respond", "sent1", "sent2"} /\ c \in Serving /\ ~Gone(c)
  /\ down' = [down EXCEPT ![c] = Append(@, NextPiece(step))]
  /\ step' = IF step = "respond" THEN "sent1" ELSE IF step = "sent1" THEN "sent2" ELSE "close"
  /\ UNCHANGED <<up, clientVars, relayVars, backlog, enclave, server, did>>

RespondFails(c) ==
  /\ step \in {"respond", "sent1", "sent2"} /\ c \in Serving
  /\ step' = "reject"
  /\ UNCHANGED <<clientVars, relayVars, backlog, enclave, server, did, pieces>>

\* The error frame goes out whatever was sent before it, unless that fails too.
Reject(c) ==
  /\ step = "reject" /\ c \in Serving
  /\ \/ down' = down
     \/ ~Gone(c) /\ down' = [down EXCEPT ![c] = Append(@, ErrorFrame)]
  /\ step' = "close"
  /\ UNCHANGED <<up, clientVars, relayVars, backlog, enclave, server, did>>

Close(c) ==
  /\ step = "close" /\ c \in Serving
  /\ enclave' = [enclave EXCEPT ![c] = "closed"]
  /\ step' = "accept"
  /\ up' = [up EXCEPT ![c] = <<>>]
  /\ UNCHANGED <<clientVars, relayVars, backlog, server, did, down>>

----------------------------------------------------------------------------
CallStep(c) ==
  \/ \E r \in Requests : Open(c, r)
  \/ Send(c) \/ FallSilent(c) \/ Receive(c) \/ Fail(c)

RelayStep(c) ==
  Admit(c) \/ SubmitFails(c) \/ Connect(c) \/ EndRelay(c)

Serve(c) ==
  ReadHeader(c) \/ ReadBody(c) \/ ReadFails(c) \/ Work(c) \/ Respond(c) \/ RespondFails(c)
    \/ Reject(c) \/ Close(c)

ServiceNext == Accept \/ RestartRelay \/ \E c \in Calls : CallStep(c) \/ RelayStep(c) \/ Serve(c)

ServiceSpec == ServiceInit /\ [][ServiceNext]_vars

\* The enclave's main loop runs and each read and write of it has its timeout,
\* so that ReadFails or RespondFails comes if nothing else does.
EnclaveRuns == WF_vars(Accept) /\ \A c \in Calls : WF_vars(Serve(c))

\* The relay accepts, and every connection of it has timeouts.
RelayRuns == \A c \in Calls : WF_vars(Admit(c)) /\ WF_vars(EndRelay(c))

----------------------------------------------------------------------------
\* Every place of the relay is free or held by a connection in work, however
\* connections end (admission.release in the finally block); the enclave
\* serves one connection and no other, and its backlog holds those it was
\* handed and has not accepted, once.
PlacesAccounted ==
  /\ relayUp => places + Cardinality({c \in Calls : link[c] \in {"waiting", "on"}}) = Places
  /\ Cardinality(Serving) = (IF step = "accept" THEN 0 ELSE 1)
  /\ {c \in Calls : enclave[c] = "queued"} = {backlog[i] : i \in DOMAIN backlog}
  /\ Len(backlog) = Cardinality({c \in Calls : enclave[c] = "queued"})

\* A value that reached the caller stands for an operation the service did on
\* this request, and an acknowledged registration is the one in force, no
\* matter how many others tried to register before or after it.
ValueMeansDone ==
  \A c \in Calls : client[c].result \in {"value", "mixed"} =>
    c \in did /\ (client[c].request = "register" => server = c)

\* A connection the relay was offered always ends, whatever the enclave and
\* the peers do, and gives its place back.
RelaysEnd == RelayRuns => \A c \in Calls : Waiting(c) ~> link[c] = "ended"

\* No peer and no relay holds up the others: whoever is in the backlog is
\* served and closed, though relay and peers do nothing more.
QueuedAreServed == EnclaveRuns => \A c \in Calls : enclave[c] = "queued" ~> enclave[c] = "closed"
=============================================================================
