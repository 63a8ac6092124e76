------------------------- MODULE NitroServiceProofs -------------------------
(***************************************************************************)
(* The relay and the enclave service of NitroService, for any number of    *)
(* connections and any bounds of the relay and the backlog.                *)
(***************************************************************************)
EXTENDS NitroService, FiniteSetTheorems, TLAPS

Pieces == {Header, Body, LastBytes, ErrorFrame}

Call == [pc : {"idle", "header", "body", "receive", "silent", "done"},
         request : Requests \cup {None}, got : Seq(Pieces),
         result : {None, "refused", "value", "mixed", "failed"}]

ServiceTypeOK ==
  /\ client \in [Calls -> Call]
  /\ up \in [Calls -> Seq({"header", "body"})] /\ down \in [Calls -> Seq(Pieces)]
  /\ link \in [Calls -> {"none", "waiting", "on", "ended"}]
  /\ places \in Int /\ relayUp \in BOOLEAN
  /\ backlog \in Seq(Calls)
  /\ enclave \in [Calls -> {"none", "queued", "served", "closed"}]
  /\ step \in {"accept", "header", "body", "work", "respond", "sent1", "sent2", "reject", "close"}
  /\ server \in Calls \cup {None} /\ did \subseteq Calls

InWork == {c \in Calls : link[c] \in {"waiting", "on"}}

Queued == {c \in Calls : enclave[c] = "queued"}

(* Nothing is known of a connection that was never opened, and the enclave  *)
(* knows only those that the relay has handed to it.                       *)
LinkInv == \A c \in Calls :
  /\ client[c].pc = "idle" => link[c] \in {"none", "ended"} /\ enclave[c] = "none"
  /\ link[c] \in {"none", "waiting"} => enclave[c] = "none"

PlacesInv == relayUp => places + Cardinality(InWork) = Places

ServedInv ==
  /\ step = "accept" => Serving = {}
  /\ step # "accept" => \E c \in Calls : Serving = {c}

BacklogInv ==
  /\ Queued = {backlog[i] : i \in 1 .. Len(backlog)}
  /\ \A i, j \in 1 .. Len(backlog) : backlog[i] = backlog[j] => i = j
  /\ Len(backlog) = Cardinality(Queued)

(* Only a service that has done what was asked sends something other than  *)
(* an error frame, and only one registration is ever done.                 *)
DoneInv ==
  /\ \A c \in Calls :
       /\ (\E i \in 1 .. Len(down[c]) : down[c][i] # ErrorFrame) => c \in did
       /\ client[c].got # <<>> => c \in did
       /\ client[c].result \in {"value", "mixed"} => c \in did
  /\ \A c \in Serving :
       /\ step \in {"respond", "sent1", "sent2"} => c \in did
       /\ step \in {"body", "work"} /\ client[c].request = "register" => server = None
  /\ \A c \in did : client[c].request = "register" => server = c

ServiceInv ==
  ServiceTypeOK /\ LinkInv /\ PlacesInv /\ ServedInv /\ BacklogInv /\ DoneInv

-----------------------------------------------------------------------------

LEMMA CallFields ==
  ASSUME ServiceTypeOK, NEW c \in Calls
  PROVE  /\ client[c] \in Call /\ client[c].got \in Seq(Pieces)
         /\ client[c].pc \in {"idle", "header", "body", "receive", "silent", "done"}
         /\ client[c].request \in Requests \cup {None}
         /\ client[c].result \in {None, "refused", "value", "mixed", "failed"}
  BY DEF ServiceTypeOK, Call

(* The connections are finitely many, whatever is asked of them.           *)
LEMMA CountsFinite == IsFiniteSet(InWork) /\ IsFiniteSet(Queued) /\ IsFiniteSet(Serving)
  BY ServiceAssumption, FS_Subset DEF InWork, Queued, Serving

LEMMA ServiceInitial == ServiceInit => ServiceInv
<1> SUFFICES ASSUME ServiceInit PROVE ServiceInv
  OBVIOUS
<1>1. NewCall("idle", None) \in Call /\ <<>> \in Seq({"header", "body"}) /\ <<>> \in Seq(Pieces)
  BY DEF NewCall, Call
<1>2. ServiceTypeOK
  BY <1>1, ServiceAssumption DEF ServiceInit, ServiceTypeOK
<1>3. LinkInv
  BY DEF ServiceInit, LinkInv
<1>4. InWork = {} /\ Queued = {} /\ Serving = {}
  BY DEF ServiceInit, InWork, Queued, Serving
<1>5. PlacesInv /\ ServedInv
  BY <1>4, FS_EmptySet, ServiceAssumption DEF ServiceInit, PlacesInv, ServedInv
<1>6. BacklogInv
  BY <1>4, FS_EmptySet DEF ServiceInit, BacklogInv
<1>7. DoneInv
  BY <1>4, ServiceAssumption DEF ServiceInit, DoneInv, NewCall
<1>8. QED
  BY <1>2, <1>3, <1>5, <1>6, <1>7 DEF ServiceInv

-----------------------------------------------------------------------------

(* The peers.                                                              *)

LEMMA OpenStep ==
  ASSUME ServiceInv, NEW c \in Calls, NEW r \in Requests, Open(c, r) PROVE ServiceInv'
<1> DEFINE new == NewCall("header", r)
<1>1. new \in Call /\ new.pc = "header" /\ new.got = <<>> /\ new.result = None
  BY DEF NewCall, Call
<1>2. /\ server # c /\ link[c] \in {"none", "ended"} /\ enclave[c] \in {"none", "closed"}
      /\ client' = [client EXCEPT ![c] = new] /\ did' = did \ {c}
      /\ up' = [up EXCEPT ![c] = <<>>] /\ down' = [down EXCEPT ![c] = <<>>]
      /\ link' = [link EXCEPT ![c] = "none"] /\ enclave' = [enclave EXCEPT ![c] = "none"]
      /\ UNCHANGED <<places, relayUp, backlog, step, server>>
  BY DEF Open, ServiceInv, LinkInv, Gone
<1> HIDE DEF new
<1>3. ServiceTypeOK'
  BY <1>1, <1>2 DEF ServiceInv, ServiceTypeOK
<1>4. LinkInv'
  BY <1>1, <1>2 DEF ServiceInv, ServiceTypeOK, LinkInv
<1>5. InWork' = InWork /\ Queued' = Queued /\ Serving' = Serving
  BY <1>2 DEF ServiceInv, ServiceTypeOK, InWork, Queued, Serving
<1>6. PlacesInv' /\ ServedInv' /\ BacklogInv'
  BY <1>2, <1>5 DEF ServiceInv, PlacesInv, ServedInv, BacklogInv
<1>7. DoneInv'
  <2>1. c \notin Serving
    BY <1>2 DEF Serving
  <2>2. /\ client'[c] = new /\ \A d \in Calls \ {c} : client'[d] = client[d]
        /\ down'[c] = <<>> /\ \A d \in Calls \ {c} : down'[d] = down[d]
    BY <1>2 DEF ServiceInv, ServiceTypeOK
  <2>3. QED
    BY <1>1, <1>2, <1>5, <2>1, <2>2, ServiceAssumption DEF ServiceInv, DoneInv, Serving
<1>8. QED
  BY <1>3, <1>4, <1>6, <1>7 DEF ServiceInv

(* Frames other than error frames come from a service that did the work.   *)
Answers(s) == \E i \in 1 .. Len(s) : s[i] # ErrorFrame

LEMMA AnswersTail ==
  ASSUME NEW s \in Seq(Pieces), s # <<>>, Answers(Tail(s)) PROVE Answers(s)
<1>1. PICK i \in 1 .. Len(Tail(s)) : Tail(s)[i] # ErrorFrame
  BY DEF Answers
<1>2. i + 1 \in 1 .. Len(s) /\ Tail(s)[i] = s[i + 1]
  BY <1>1
<1>3. QED
  BY <1>1, <1>2 DEF Answers

LEMMA AnswersCut ==
  ASSUME NEW s \in Seq(Pieces), NEW r \in Cut(s)
  PROVE  r \in Seq(Pieces) /\ (Answers(r) => Answers(s))
<1>1. PICK n \in 0 .. Len(s) : r = SubSeq(s, 1, n)
  BY DEF Cut
<1>2. r \in Seq(Pieces) /\ Len(r) = n /\ \A i \in 1 .. n : r[i] = s[i]
  BY <1>1
<1>3. QED
  BY <1>2 DEF Answers

LEMMA AnswersAppend ==
  ASSUME NEW s \in Seq(Pieces), NEW x \in Pieces, Answers(Append(s, x))
  PROVE  Answers(s) \/ x # ErrorFrame
<1>1. PICK i \in 1 .. Len(s) + 1 : Append(s, x)[i] # ErrorFrame
  BY DEF Answers
<1>2. CASE i \in 1 .. Len(s)
  BY <1>1, <1>2 DEF Answers
<1>3. CASE i = Len(s) + 1
  BY <1>1, <1>3
<1>4. QED
  BY <1>2, <1>3

(* A step of a peer on a connection that is open.                          *)
LEMMA PeerMoves ==
  ASSUME ServiceInv, NEW c \in Calls, NEW s \in Call,
         client[c].pc # "idle", s.pc # "idle", s.request = client[c].request,
         s.got # <<>> \/ s.result \in {"value", "mixed"} => c \in did,
         client' = [client EXCEPT ![c] = s],
         up' \in [Calls -> Seq({"header", "body"})],
         NEW t \in Seq(Pieces), down' = [down EXCEPT ![c] = t], Answers(t) => c \in did,
         UNCHANGED <<link, places, relayUp, backlog, enclave, step, server, did>>
  PROVE  ServiceInv'
<1>1. /\ client'[c] = s /\ \A d \in Calls \ {c} : client'[d] = client[d]
      /\ down'[c] = t /\ \A d \in Calls \ {c} : down'[d] = down[d]
  BY DEF ServiceInv, ServiceTypeOK
<1>2. ServiceTypeOK'
  BY DEF ServiceInv, ServiceTypeOK
<1>3. InWork' = InWork /\ Queued' = Queued /\ Serving' = Serving
  BY DEF InWork, Queued, Serving
<1>4. PlacesInv' /\ ServedInv' /\ BacklogInv'
  BY <1>3 DEF ServiceInv, PlacesInv, ServedInv, BacklogInv
<1>5. LinkInv'
  BY <1>1 DEF ServiceInv, LinkInv
<1>6. DoneInv'
  BY <1>1, <1>3 DEF ServiceInv, DoneInv, Answers, Serving
<1>7. QED
  BY <1>2, <1>4, <1>5, <1>6 DEF ServiceInv

LEMMA SendStep == ASSUME ServiceInv, NEW c \in Calls, Send(c) PROVE ServiceInv'
<1> DEFINE next == IF client[c].pc = "header" THEN "body" ELSE "receive"
<1> DEFINE s == [pc |-> next, request |-> client[c].request, got |-> client[c].got,
                 result |-> client[c].result]
<1>1. client[c] \in Call /\ client[c].pc \in {"header", "body"}
  BY CallFields DEF Send, ServiceInv
<1>2. s \in Call /\ s.pc # "idle"
  BY <1>1 DEF Call
<1>3. client' = [client EXCEPT ![c] = s]
  <2>1. [client[c] EXCEPT !.pc = next] = s
    BY <1>1 DEF Call
  <2>2. QED
    BY <2>1 DEF Send
<1>4. s.request = client[c].request /\ s.got = client[c].got /\ s.result = client[c].result
  OBVIOUS
<1> HIDE DEF s
<1>5. s.got # <<>> \/ s.result \in {"value", "mixed"} => c \in did
  BY <1>4 DEF ServiceInv, DoneInv
<1>6. up' \in [Calls -> Seq({"header", "body"})]
  BY <1>1 DEF Send, ServiceInv, ServiceTypeOK
<1>7. down[c] \in Seq(Pieces) /\ down' = [down EXCEPT ![c] = down[c]]
      /\ (Answers(down[c]) => c \in did)
  BY DEF Send, ServiceInv, ServiceTypeOK, DoneInv, Answers
<1>8. UNCHANGED <<link, places, relayUp, backlog, enclave, step, server, did>>
  BY DEF Send, relayVars, enclaveVars
<1>9. QED
  BY <1>1, <1>2, <1>3, <1>4, <1>5, <1>6, <1>7, <1>8, PeerMoves

LEMMA FallSilentStep == ASSUME ServiceInv, NEW c \in Calls, FallSilent(c) PROVE ServiceInv'
<1> DEFINE s == [pc |-> "silent", request |-> client[c].request, got |-> client[c].got,
                 result |-> client[c].result]
<1>1. client[c] \in Call /\ client[c].pc \in {"header", "body", "receive"}
  BY CallFields DEF FallSilent, ServiceInv
<1>2. s \in Call /\ s.pc # "idle"
  BY <1>1 DEF Call
<1>3. client' = [client EXCEPT ![c] = s]
  <2>1. [client[c] EXCEPT !.pc = "silent"] = s
    BY <1>1 DEF Call
  <2>2. QED
    BY <2>1 DEF FallSilent
<1>4. s.request = client[c].request /\ s.got = client[c].got /\ s.result = client[c].result
  OBVIOUS
<1> HIDE DEF s
<1>5. s.got # <<>> \/ s.result \in {"value", "mixed"} => c \in did
  BY <1>4 DEF ServiceInv, DoneInv
<1>6. up' \in [Calls -> Seq({"header", "body"})]
  BY DEF FallSilent, pieces, ServiceInv, ServiceTypeOK
<1>7. down[c] \in Seq(Pieces) /\ down' = [down EXCEPT ![c] = down[c]]
      /\ (Answers(down[c]) => c \in did)
  BY DEF FallSilent, pieces, ServiceInv, ServiceTypeOK, DoneInv, Answers
<1>8. UNCHANGED <<link, places, relayUp, backlog, enclave, step, server, did>>
  BY DEF FallSilent, relayVars, enclaveVars
<1>9. QED
  BY <1>1, <1>2, <1>3, <1>4, <1>5, <1>6, <1>7, <1>8, PeerMoves

(* The end of a call, with a value only from a service that did the work.  *)
LEMMA FinishMoves ==
  ASSUME ServiceInv, NEW c \in Calls, client[c].pc # "idle",
         NEW result \in {"refused", "value", "mixed", "failed"}, Finish(c, result),
         result \in {"value", "mixed"} => c \in did,
         down' = [down EXCEPT ![c] = <<>>],
         UNCHANGED <<up, relayVars, enclaveVars>>
  PROVE  ServiceInv'
<1> DEFINE s == [pc |-> "done", request |-> client[c].request, got |-> <<>>, result |-> result]
<1>1. client[c] \in Call
  BY CallFields DEF ServiceInv
<1>2. s \in Call /\ s.pc # "idle" /\ s.request = client[c].request /\ s.got = <<>>
      /\ s.result = result
  BY <1>1 DEF Call
<1>3. client' = [client EXCEPT ![c] = s]
  <2>1. [NewCall("done", client[c].request) EXCEPT !.result = result] = s
    BY DEF NewCall
  <2>2. QED
    BY <2>1 DEF Finish
<1> HIDE DEF s
<1>4. <<>> \in Seq(Pieces) /\ ~ Answers(<<>>)
  BY DEF Answers
<1>5. up' \in [Calls -> Seq({"header", "body"})]
  BY DEF ServiceInv, ServiceTypeOK
<1>6. UNCHANGED <<link, places, relayUp, backlog, enclave, step, server, did>>
  BY DEF relayVars, enclaveVars
<1>7. QED
  BY <1>2, <1>3, <1>4, <1>5, <1>6, PeerMoves

LEMMA FailStep == ASSUME ServiceInv, NEW c \in Calls, Fail(c) PROVE ServiceInv'
  BY FinishMoves DEF Fail

LEMMA GotReplaced ==
  ASSUME NEW r \in Call, NEW got
  PROVE  [r EXCEPT !.got = got] =
           [pc |-> r.pc, request |-> r.request, got |-> got, result |-> r.result]
  BY DEF Call

(* The first piece that is not of an error frame settles that the work is  *)
(* done; what follows cannot change that.                                  *)
LEMMA ReceiveStep == ASSUME ServiceInv, NEW c \in Calls, Receive(c) PROVE ServiceInv'
<1> DEFINE got == Append(client[c].got, Head(down[c]))
<1>1. /\ client[c] \in Call /\ client[c].pc = "receive" /\ client[c].got \in Seq(Pieces)
      /\ down \in [Calls -> Seq(Pieces)] /\ down[c] \in Seq(Pieces) /\ down[c] # <<>>
      /\ client \in [Calls -> Call]
  BY CallFields DEF Receive, ServiceInv, ServiceTypeOK
<1>2. /\ Head(down[c]) \in Pieces /\ Tail(down[c]) \in Seq(Pieces)
      /\ got \in Seq(Pieces) /\ got # <<>>
  <2>1. Head(down[c]) \in Pieces /\ Tail(down[c]) \in Seq(Pieces)
    BY <1>1
  <2>2. got \in Seq(Pieces)
    BY <1>1, <2>1
  <2>3. Len(got) = Len(client[c].got) + 1
    BY <1>1, <2>1
  <2>4. Len(client[c].got) \in Nat /\ Len(<<>>) = 0
    BY <1>1
  <2> HIDE DEF got
  <2>5. got # <<>>
    BY <2>3, <2>4
  <2>6. QED
    BY <2>1, <2>2, <2>5
<1>3. Head(got) # ErrorFrame => c \in did
  <2>1. CASE client[c].got = <<>>
    <3>1. Head(got) = down[c][1] /\ 1 \in 1 .. Len(down[c])
      BY <1>1, <2>1
    <3>2. QED
      BY <3>1 DEF ServiceInv, DoneInv
  <2>2. CASE client[c].got # <<>>
    BY <2>2 DEF ServiceInv, DoneInv
  <2>3. QED
    BY <2>1, <2>2
<1>4. UNCHANGED <<up, relayVars, enclaveVars>>
  BY DEF Receive
<1>5. ASSUME NEW result \in {"refused", "value", "mixed", "failed"}, Finish(c, result),
             result \in {"value", "mixed"} => c \in did
      PROVE  ServiceInv'
  <2>1. client'[c].pc = "done"
    BY <1>1, <1>5 DEF Finish, NewCall
  <2>2. down' = [down EXCEPT ![c] = <<>>]
    BY <2>1 DEF Receive
  <2>3. QED
    BY <1>1, <1>4, <1>5, <2>2, FinishMoves
<1>6. ASSUME client' = [client EXCEPT ![c].got = got], Head(got) # ErrorFrame
      PROVE  ServiceInv'
  <2> DEFINE s == [pc |-> client[c].pc, request |-> client[c].request, got |-> got,
                   result |-> client[c].result]
  <2>1. s \in Call /\ s.pc # "idle" /\ s.request = client[c].request
    BY <1>1, <1>2 DEF Call
  <2>2. client' = [client EXCEPT ![c] = s] /\ client'[c].pc # "done"
    <3>1. [client[c] EXCEPT !.got = got] = s
      BY <1>1, GotReplaced
    <3>2. client' = [client EXCEPT ![c] = s]
      BY <1>6, <3>1
    <3>3. QED
      BY <1>1, <3>2
  <2> HIDE DEF s
  <2>3. down' = [down EXCEPT ![c] = Tail(down[c])]
    BY <2>2 DEF Receive
  <2>4. c \in did
    BY <1>3, <1>6
  <2>5. up' \in [Calls -> Seq({"header", "body"})]
    BY <1>4 DEF ServiceInv, ServiceTypeOK
  <2>6. UNCHANGED <<link, places, relayUp, backlog, enclave, step, server, did>>
    BY <1>4 DEF relayVars, enclaveVars
  <2>7. QED
    BY <1>1, <1>2, <2>1, <2>2, <2>3, <2>4, <2>5, <2>6, PeerMoves
<1>7. QED
  BY <1>3, <1>5, <1>6 DEF Receive

-----------------------------------------------------------------------------

(* The relay.                                                              *)

(* A step that moves only the links and the places.                        *)
LEMMA RelayMoves ==
  ASSUME ServiceInv, ServiceTypeOK', LinkInv', PlacesInv',
         UNCHANGED <<client, backlog, enclave, step, server, did, up, down>>
  PROVE  ServiceInv'
<1>1. Serving' = Serving /\ Queued' = Queued
  BY DEF Serving, Queued
<1>2. ServedInv' /\ BacklogInv'
  BY <1>1 DEF ServiceInv, ServedInv, BacklogInv
<1>3. DoneInv'
  BY <1>1 DEF ServiceInv, DoneInv
<1>4. QED
  BY <1>2, <1>3 DEF ServiceInv

LEMMA AdmitStep == ASSUME ServiceInv, NEW c \in Calls, Admit(c) PROVE ServiceInv'
<1>1. /\ relayUp /\ client[c].pc # "idle" /\ link[c] = "none"
      /\ UNCHANGED <<client, relayUp, backlog, enclave, step, server, did, up, down>>
  BY DEF Admit, Waiting, clientVars, enclaveVars, pieces
<1>2. CASE places > 0 /\ link' = [link EXCEPT ![c] = "waiting"] /\ places' = places - 1
  <2>1. ServiceTypeOK'
    BY <1>1, <1>2 DEF ServiceInv, ServiceTypeOK
  <2>2. LinkInv'
    BY <1>1, <1>2 DEF ServiceInv, ServiceTypeOK, LinkInv
  <2>3. InWork' = InWork \cup {c} /\ c \notin InWork
    BY <1>1, <1>2 DEF ServiceInv, ServiceTypeOK, InWork
  <2>4. Cardinality(InWork') = Cardinality(InWork) + 1 /\ Cardinality(InWork) \in Nat
    BY <2>3, CountsFinite, FS_AddElement, FS_CardinalityType
  <2>5. PlacesInv'
    BY <1>1, <1>2, <2>4 DEF ServiceInv, ServiceTypeOK, PlacesInv
  <2>6. QED
    BY <1>1, <2>1, <2>2, <2>5, RelayMoves
<1>3. CASE link' = [link EXCEPT ![c] = "ended"] /\ UNCHANGED places
  <2>1. ServiceTypeOK'
    BY <1>1, <1>3 DEF ServiceInv, ServiceTypeOK
  <2>2. LinkInv'
    BY <1>1, <1>3 DEF ServiceInv, ServiceTypeOK, LinkInv
  <2>3. InWork' = InWork
    BY <1>1, <1>3 DEF ServiceInv, ServiceTypeOK, InWork
  <2>4. PlacesInv'
    BY <1>1, <1>3, <2>3 DEF ServiceInv, PlacesInv
  <2>5. QED
    BY <1>1, <2>1, <2>2, <2>4, RelayMoves
<1>4. QED
  BY <1>2, <1>3 DEF Admit

LEMMA SubmitFailsStep == ASSUME ServiceInv, NEW c \in Calls, SubmitFails(c) PROVE ServiceInv'
<1>1. /\ relayUp' = FALSE /\ places' = places - 1
      /\ link' = [d \in Calls |-> IF link[d] = "none" THEN "ended" ELSE link[d]]
      /\ UNCHANGED <<client, backlog, enclave, step, server, did, up, down>>
  BY DEF SubmitFails, clientVars, enclaveVars, pieces
<1>2. ServiceTypeOK'
  <2>1. link' \in [Calls -> {"none", "waiting", "on", "ended"}] /\ places' \in Int
    BY <1>1 DEF ServiceInv, ServiceTypeOK
  <2>2. QED
    BY <1>1, <2>1 DEF ServiceInv, ServiceTypeOK
<1>3. LinkInv' /\ PlacesInv'
  BY <1>1 DEF ServiceInv, ServiceTypeOK, LinkInv, PlacesInv
<1>4. QED
  BY <1>1, <1>2, <1>3, RelayMoves

LEMMA RestartRelayStep == ServiceInv /\ RestartRelay => ServiceInv'
<1> SUFFICES ASSUME ServiceInv, RestartRelay PROVE ServiceInv'
  OBVIOUS
<1>1. /\ relayUp' = TRUE /\ places' = Places
      /\ UNCHANGED <<client, link, backlog, enclave, step, server, did, up, down>>
  BY DEF RestartRelay, clientVars, enclaveVars, pieces
<1>2. ServiceTypeOK'
  BY <1>1, ServiceAssumption DEF ServiceInv, ServiceTypeOK
<1>3. InWork' = {}
  BY <1>1 DEF RestartRelay, InWork
<1>4. PlacesInv'
  BY <1>1, <1>3, FS_EmptySet, ServiceAssumption DEF PlacesInv
<1>5. LinkInv'
  BY <1>1 DEF ServiceInv, LinkInv
<1>6. QED
  BY <1>1, <1>2, <1>4, <1>5, RelayMoves

(* The new connection is in nobody's queue, and is queued once.            *)
LEMMA ConnectStep == ASSUME ServiceInv, NEW c \in Calls, Connect(c) PROVE ServiceInv'
<1>1. /\ link[c] = "waiting" /\ link' = [link EXCEPT ![c] = "on"]
      /\ backlog' = Append(backlog, c) /\ enclave' = [enclave EXCEPT ![c] = "queued"]
      /\ enclave[c] = "none"
      /\ UNCHANGED <<client, places, relayUp, step, server, did, up, down>>
  BY DEF Connect, clientVars, pieces, ServiceInv, LinkInv
<1>2. ServiceTypeOK'
  BY <1>1 DEF ServiceInv, ServiceTypeOK
<1>3. LinkInv'
  BY <1>1 DEF ServiceInv, ServiceTypeOK, LinkInv
<1>4. InWork' = InWork /\ Serving' = Serving
  BY <1>1 DEF ServiceInv, ServiceTypeOK, InWork, Serving
<1>5. PlacesInv' /\ ServedInv' /\ DoneInv'
  BY <1>1, <1>4 DEF ServiceInv, PlacesInv, ServedInv, DoneInv
<1>6. Queued' = Queued \cup {c} /\ c \notin Queued
  BY <1>1 DEF ServiceInv, ServiceTypeOK, Queued
<1>7. BacklogInv'
  <2>1. /\ backlog \in Seq(Calls) /\ Len(backlog') = Len(backlog) + 1
        /\ backlog'[Len(backlog) + 1] = c
        /\ \A i \in 1 .. Len(backlog) : backlog'[i] = backlog[i]
    BY <1>1 DEF ServiceInv, ServiceTypeOK
  <2>2. Len(backlog) \in Nat
    BY <2>1
  <2>3. \A i \in 1 .. Len(backlog) : backlog[i] # c
    BY <1>6 DEF ServiceInv, BacklogInv
  <2>4. Len(backlog') = Cardinality(Queued')
    <3>1. Cardinality(Queued') = Cardinality(Queued) + 1
      BY <1>6, CountsFinite, FS_AddElement
    <3>2. QED
      BY <2>1, <3>1 DEF ServiceInv, BacklogInv
  <2>5. Queued' = {backlog'[i] : i \in 1 .. Len(backlog')}
    <3>1. Queued = {backlog[i] : i \in 1 .. Len(backlog)}
      BY DEF ServiceInv, BacklogInv
    <3>2. ASSUME NEW x PROVE x \in Queued' <=> \E i \in 1 .. Len(backlog') : x = backlog'[i]
      BY <1>6, <2>1, <2>2, <3>1
    <3>3. QED
      BY <3>2
  <2>6. ASSUME NEW i \in 1 .. Len(backlog'), NEW j \in 1 .. Len(backlog'),
               backlog'[i] = backlog'[j]
        PROVE  i = j
    BY <2>1, <2>2, <2>3, <2>6 DEF ServiceInv, BacklogInv
  <2>7. QED
    BY <2>4, <2>5, <2>6 DEF BacklogInv
<1>8. QED
  BY <1>2, <1>3, <1>5, <1>7 DEF ServiceInv

LEMMA EndRelayStep == ASSUME ServiceInv, NEW c \in Calls, EndRelay(c) PROVE ServiceInv'
<1>1. /\ link[c] \in {"waiting", "on"} /\ link' = [link EXCEPT ![c] = "ended"]
      /\ places' = places + 1
      /\ UNCHANGED <<client, relayUp, backlog, enclave, step, server, did>>
  BY DEF EndRelay, clientVars, enclaveVars
<1>2. PICK t \in Cut(down[c]) : down' = [down EXCEPT ![c] = t]
  BY DEF EndRelay, Lost
<1>3. t \in Seq(Pieces) /\ (Answers(t) => Answers(down[c]))
  BY AnswersCut DEF ServiceInv, ServiceTypeOK
<1>4. PICK s \in Cut(up[c]) : up' = [up EXCEPT ![c] = IF link[c] = "on" THEN s ELSE <<>>]
  BY DEF EndRelay, Lost
<1>5. s \in Seq({"header", "body"}) /\ <<>> \in Seq({"header", "body"})
  <2>1. up[c] \in Seq({"header", "body"})
    BY DEF ServiceInv, ServiceTypeOK
  <2>2. PICK n \in 0 .. Len(up[c]) : s = SubSeq(up[c], 1, n)
    BY DEF Cut
  <2>3. QED
    BY <2>1, <2>2
<1>6. ServiceTypeOK'
  BY <1>1, <1>2, <1>3, <1>4, <1>5 DEF ServiceInv, ServiceTypeOK
<1>7. LinkInv'
  BY <1>1 DEF ServiceInv, ServiceTypeOK, LinkInv
<1>8. InWork' = InWork \ {c} /\ c \in InWork
  BY <1>1 DEF ServiceInv, ServiceTypeOK, InWork
<1>9. Cardinality(InWork') = Cardinality(InWork) - 1 /\ Cardinality(InWork) \in Nat
  BY <1>8, CountsFinite, FS_RemoveElement, FS_CardinalityType
<1>10. PlacesInv'
  BY <1>1, <1>9 DEF ServiceInv, ServiceTypeOK, PlacesInv
<1>11. Serving' = Serving /\ Queued' = Queued
  BY <1>1 DEF Serving, Queued
<1>12. \A d \in Calls : Answers(down'[d]) => Answers(down[d])
  BY <1>2, <1>3 DEF ServiceInv, ServiceTypeOK
<1>13. ServedInv' /\ BacklogInv'
  BY <1>1, <1>11 DEF ServiceInv, ServedInv, BacklogInv
<1>14. DoneInv'
  BY <1>1, <1>11, <1>12 DEF ServiceInv, DoneInv, Answers
<1>15. QED
  BY <1>6, <1>7, <1>10, <1>13, <1>14 DEF ServiceInv

-----------------------------------------------------------------------------

(* The service.                                                            *)

(* It serves the connection that it has accepted, and no other.            *)
LEMMA ServesOne ==
  ASSUME ServiceInv, NEW c \in Serving PROVE c \in Calls /\ Serving = {c} /\ step # "accept"
<1>1. c \in Calls
  BY DEF Serving
<1>2. step # "accept"
  BY DEF ServiceInv, ServedInv
<1>3. QED
  BY <1>1, <1>2 DEF ServiceInv, ServedInv

LEMMA AcceptStep == ServiceInv /\ Accept => ServiceInv'
<1> SUFFICES ASSUME ServiceInv, Accept PROVE ServiceInv'
  OBVIOUS
<1> DEFINE c == Head(backlog)
<1>1. /\ step = "accept" /\ step' = "header" /\ backlog # <<>> /\ backlog' = Tail(backlog)
      /\ enclave' = [enclave EXCEPT ![c] = "served"]
      /\ UNCHANGED <<client, link, places, relayUp, server, did, up, down>>
  BY DEF Accept, clientVars, relayVars, pieces
<1>2. backlog \in Seq(Calls)
  BY DEF ServiceInv, ServiceTypeOK
<1>3. /\ Len(backlog) \in Nat \ {0} /\ c = backlog[1] /\ c \in Calls
      /\ backlog' \in Seq(Calls) /\ Len(backlog') = Len(backlog) - 1
      /\ \A i \in 1 .. Len(backlog) - 1 : backlog'[i] = backlog[i + 1]
  BY <1>1, <1>2
<1> HIDE DEF c
<1>4. c \in Queued /\ enclave[c] = "queued"
  <2>1. 1 \in 1 .. Len(backlog)
    BY <1>3
  <2>2. c \in Queued
    BY <1>3, <2>1 DEF ServiceInv, BacklogInv
  <2>3. QED
    BY <2>2 DEF Queued
<1>5. ServiceTypeOK'
  BY <1>1, <1>3 DEF ServiceInv, ServiceTypeOK
<1>6. LinkInv'
  BY <1>1, <1>3, <1>4 DEF ServiceInv, ServiceTypeOK, LinkInv
<1>7. PlacesInv'
  BY <1>1 DEF ServiceInv, PlacesInv, InWork
<1>8. Serving' = {c}
  BY <1>1, <1>3 DEF ServiceInv, ServiceTypeOK, ServedInv, Serving
<1>9. ServedInv' /\ DoneInv'
  BY <1>1, <1>3, <1>8 DEF ServiceInv, ServedInv, DoneInv
<1>10. Queued' = Queued \ {c}
  BY <1>1, <1>3 DEF ServiceInv, ServiceTypeOK, Queued
<1>11. BacklogInv'
  <2>1. Len(backlog') = Cardinality(Queued')
    <3>1. Cardinality(Queued') = Cardinality(Queued) - 1
      BY <1>4, <1>10, CountsFinite, FS_RemoveElement
    <3>2. QED
      BY <1>3, <3>1 DEF ServiceInv, BacklogInv
  <2>2. ASSUME NEW i \in 1 .. Len(backlog'), NEW j \in 1 .. Len(backlog'),
               backlog'[i] = backlog'[j]
        PROVE  i = j
    <3>1. i + 1 \in 1 .. Len(backlog) /\ j + 1 \in 1 .. Len(backlog)
          /\ backlog[i + 1] = backlog[j + 1]
      BY <1>3, <2>2
    <3>2. i + 1 = j + 1
      BY <3>1 DEF ServiceInv, BacklogInv
    <3>3. QED
      BY <3>2
  <2>3. Queued' = {backlog'[i] : i \in 1 .. Len(backlog')}
    <3>1. ASSUME NEW i \in 1 .. Len(backlog') PROVE backlog'[i] \in Queued'
      <4>1. i + 1 \in 1 .. Len(backlog) /\ backlog'[i] = backlog[i + 1] /\ i + 1 # 1
        BY <1>3
      <4>2. backlog[i + 1] \in Queued
        BY <4>1 DEF ServiceInv, BacklogInv
      <4>3. 1 \in 1 .. Len(backlog)
        BY <1>3
      <4>4. backlog[i + 1] # c
        BY <1>3, <4>1, <4>3 DEF ServiceInv, BacklogInv
      <4>5. QED
        BY <1>10, <4>1, <4>2, <4>4
    <3>2. ASSUME NEW d \in Queued' PROVE \E i \in 1 .. Len(backlog') : d = backlog'[i]
      <4>1. PICK i \in 1 .. Len(backlog) : d = backlog[i]
        BY <1>10 DEF ServiceInv, BacklogInv
      <4>2. i # 1
        BY <1>3, <1>10, <4>1
      <4>3. i - 1 \in 1 .. Len(backlog') /\ d = backlog'[i - 1]
        BY <1>3, <4>1, <4>2
      <4>4. QED
        BY <4>3
    <3>3. QED
      BY <3>1, <3>2
  <2>4. QED
    BY <2>1, <2>2, <2>3 DEF BacklogInv
<1>12. QED
  BY <1>5, <1>6, <1>7, <1>9, <1>11 DEF ServiceInv

(* A step on the connection that is served, which answers only what is     *)
(* done.                                                                   *)
LEMMA ServiceMoves ==
  ASSUME ServiceInv, NEW c \in Serving,
         step' \in {"header", "body", "work", "respond", "sent1", "sent2", "reject", "close"},
         step' \in {"respond", "sent1", "sent2"} => c \in did,
         step' \in {"body", "work"} /\ client[c].request = "register" => server = None,
         up' \in [Calls -> Seq({"header", "body"})],
         NEW t \in Seq(Pieces), down' = [down EXCEPT ![c] = t], Answers(t) => c \in did,
         UNCHANGED <<client, link, places, relayUp, backlog, enclave, server, did>>
  PROVE  ServiceInv'
<1>1. c \in Calls /\ Serving = {c} /\ Serving' = Serving /\ step # "accept"
  BY ServesOne DEF Serving
<1>2. ServiceTypeOK'
  BY DEF ServiceInv, ServiceTypeOK
<1>3. LinkInv' /\ PlacesInv' /\ BacklogInv'
  <2>1. InWork' = InWork /\ Queued' = Queued
    BY DEF InWork, Queued
  <2>2. LinkInv'
    BY DEF ServiceInv, LinkInv
  <2>3. PlacesInv' /\ BacklogInv'
    BY <2>1 DEF ServiceInv, PlacesInv, BacklogInv
  <2>4. QED
    BY <2>2, <2>3
<1>4. ServedInv'
  BY <1>1 DEF ServedInv
<1>5. \A d \in Calls : Answers(down'[d]) => d \in did
  BY <1>1 DEF ServiceInv, ServiceTypeOK, DoneInv, Answers
<1>6. DoneInv'
  BY <1>1, <1>5 DEF ServiceInv, DoneInv, Answers
<1>7. QED
  BY <1>2, <1>3, <1>4, <1>6 DEF ServiceInv

(* Nothing is sent in most steps.                                          *)
LEMMA Silent ==
  ASSUME ServiceInv, NEW c \in Calls, UNCHANGED down
  PROVE  down[c] \in Seq(Pieces) /\ down' = [down EXCEPT ![c] = down[c]]
         /\ (Answers(down[c]) => c \in did)
  BY DEF ServiceInv, ServiceTypeOK, DoneInv, Answers

LEMMA Taken ==
  ASSUME ServiceInv, NEW c \in Calls, up[c] # <<>>, up' = [up EXCEPT ![c] = Tail(up[c])]
  PROVE  up' \in [Calls -> Seq({"header", "body"})]
<1>1. up[c] \in Seq({"header", "body"})
  BY DEF ServiceInv, ServiceTypeOK
<1>2. Tail(up[c]) \in Seq({"header", "body"})
  BY <1>1
<1>3. QED
  BY <1>2 DEF ServiceInv, ServiceTypeOK

LEMMA ReadHeaderStep == ASSUME ServiceInv, NEW c \in Calls, ReadHeader(c) PROVE ServiceInv'
<1>1. /\ c \in Serving /\ up[c] # <<>> /\ up' = [up EXCEPT ![c] = Tail(up[c])]
      /\ step' \in {"body", "reject"}
      /\ step' = "body" => client[c].request \in Kinds /\ RightState(client[c].request)
      /\ UNCHANGED <<down, client, link, places, relayUp, backlog, enclave, server, did>>
  BY DEF ReadHeader, clientVars, relayVars
<1>2. step' \in {"body", "work"} /\ client[c].request = "register" => server = None
  BY <1>1 DEF RightState
<1>3. QED
  BY <1>1, <1>2, Silent, Taken, ServiceMoves

LEMMA ReadBodyStep == ASSUME ServiceInv, NEW c \in Calls, ReadBody(c) PROVE ServiceInv'
<1>1. /\ c \in Serving /\ up[c] # <<>> /\ up' = [up EXCEPT ![c] = Tail(up[c])]
      /\ step = "body" /\ step' = "work"
      /\ UNCHANGED <<down, client, link, places, relayUp, backlog, enclave, server, did>>
  BY DEF ReadBody, clientVars, relayVars
<1>2. client[c].request = "register" => server = None
  BY <1>1 DEF ServiceInv, DoneInv
<1>3. QED
  BY <1>1, <1>2, Silent, Taken, ServiceMoves

LEMMA ReadFailsStep == ASSUME ServiceInv, NEW c \in Calls, ReadFails(c) PROVE ServiceInv'
<1>1. /\ c \in Serving /\ step' = "reject"
      /\ UNCHANGED <<up, down, client, link, places, relayUp, backlog, enclave, server, did>>
  BY DEF ReadFails, clientVars, relayVars, pieces
<1>2. up' \in [Calls -> Seq({"header", "body"})]
  BY <1>1 DEF ServiceInv, ServiceTypeOK
<1>3. QED
  BY <1>1, <1>2, Silent, ServiceMoves

(* The work is a registration only while there is none.                    *)
LEMMA WorkStep == ASSUME ServiceInv, NEW c \in Calls, Work(c) PROVE ServiceInv'
<1>1. /\ c \in Serving /\ step = "work"
      /\ UNCHANGED <<up, down, client, link, places, relayUp, backlog, enclave>>
  BY DEF Work, clientVars, relayVars, pieces
<1>2. CASE step' = "reject" /\ UNCHANGED <<server, did>>
  <2>1. up' \in [Calls -> Seq({"header", "body"})]
    BY <1>1 DEF ServiceInv, ServiceTypeOK
  <2>2. QED
    BY <1>1, <1>2, <2>1, Silent, ServiceMoves
<1>3. CASE /\ step' = "respond" /\ did' = did \cup {c}
           /\ server' = IF client[c].request = "register" THEN c ELSE server
  <2>1. Serving = {c} /\ Serving' = Serving
    BY <1>1, ServesOne DEF Serving
  <2>2. ServiceTypeOK'
    BY <1>1, <1>3 DEF ServiceInv, ServiceTypeOK
  <2>3. LinkInv' /\ PlacesInv' /\ BacklogInv' /\ ServedInv'
    <3>1. InWork' = InWork /\ Queued' = Queued
      BY <1>1 DEF InWork, Queued
    <3>2. LinkInv'
      BY <1>1 DEF ServiceInv, LinkInv
    <3>3. PlacesInv' /\ BacklogInv'
      BY <1>1, <3>1 DEF ServiceInv, PlacesInv, BacklogInv
    <3>4. ServedInv'
      BY <1>3, <2>1 DEF ServedInv
    <3>5. QED
      BY <3>2, <3>3, <3>4
  <2>4. client[c].request = "register" => server = None
    BY <1>1 DEF ServiceInv, DoneInv
  <2>5. \A d \in did' : client[d].request = "register" => server' = d
    BY <1>3, <2>4, ServiceAssumption DEF ServiceInv, ServiceTypeOK, DoneInv
  <2>6. DoneInv'
    BY <1>1, <1>3, <2>1, <2>5 DEF ServiceInv, DoneInv
  <2>7. QED
    BY <2>2, <2>3, <2>6 DEF ServiceInv
<1>4. QED
  BY <1>2, <1>3 DEF Work

LEMMA RespondStep == ASSUME ServiceInv, NEW c \in Calls, Respond(c) PROVE ServiceInv'
<1> DEFINE t == Append(down[c], NextPiece(step))
<1>1. /\ c \in Serving /\ step \in {"respond", "sent1", "sent2"}
      /\ down' = [down EXCEPT ![c] = t] /\ step' \in {"sent1", "sent2", "close"}
      /\ UNCHANGED <<up, client, link, places, relayUp, backlog, enclave, server, did>>
  BY DEF Respond, clientVars, relayVars
<1>2. c \in did
  BY <1>1 DEF ServiceInv, DoneInv
<1>3. t \in Seq(Pieces)
  <2>1. NextPiece(step) \in Pieces
    BY DEF NextPiece, Pieces
  <2>2. QED
    BY <2>1 DEF ServiceInv, ServiceTypeOK
<1>4. up' \in [Calls -> Seq({"header", "body"})]
  BY <1>1 DEF ServiceInv, ServiceTypeOK
<1> HIDE DEF t
<1>5. QED
  BY <1>1, <1>2, <1>3, <1>4, ServiceMoves

LEMMA RespondFailsStep == ASSUME ServiceInv, NEW c \in Calls, RespondFails(c) PROVE ServiceInv'
<1>1. /\ c \in Serving /\ step' = "reject"
      /\ UNCHANGED <<up, down, client, link, places, relayUp, backlog, enclave, server, did>>
  BY DEF RespondFails, clientVars, relayVars, pieces
<1>2. up' \in [Calls -> Seq({"header", "body"})]
  BY <1>1 DEF ServiceInv, ServiceTypeOK
<1>3. QED
  BY <1>1, <1>2, Silent, ServiceMoves

LEMMA RejectStep == ASSUME ServiceInv, NEW c \in Calls, Reject(c) PROVE ServiceInv'
<1>1. /\ c \in Serving /\ step' = "close"
      /\ UNCHANGED <<up, client, link, places, relayUp, backlog, enclave, server, did>>
  BY DEF Reject, clientVars, relayVars
<1>2. up' \in [Calls -> Seq({"header", "body"})]
  BY <1>1 DEF ServiceInv, ServiceTypeOK
<1>3. CASE down' = down
  BY <1>1, <1>2, <1>3, Silent, ServiceMoves
<1>4. CASE down' = [down EXCEPT ![c] = Append(down[c], ErrorFrame)]
  <2> DEFINE t == Append(down[c], ErrorFrame)
  <2>1. ErrorFrame \in Pieces /\ down[c] \in Seq(Pieces)
    BY DEF Pieces, ServiceInv, ServiceTypeOK
  <2>2. t \in Seq(Pieces)
    BY <2>1
  <2>3. Answers(t) => c \in did
    BY <2>1, AnswersAppend DEF ServiceInv, DoneInv, Answers
  <2> HIDE DEF t
  <2>4. down' = [down EXCEPT ![c] = t]
    BY <1>4 DEF t
  <2>5. QED
    BY <1>1, <1>2, <2>2, <2>3, <2>4, ServiceMoves
<1>5. QED
  BY <1>3, <1>4 DEF Reject

LEMMA CloseStep == ASSUME ServiceInv, NEW c \in Calls, Close(c) PROVE ServiceInv'
<1>1. /\ c \in Serving /\ step' = "accept" /\ enclave' = [enclave EXCEPT ![c] = "closed"]
      /\ up' = [up EXCEPT ![c] = <<>>]
      /\ UNCHANGED <<client, link, places, relayUp, backlog, server, did, down>>
  BY DEF Close, clientVars, relayVars
<1>2. enclave[c] = "served" /\ Serving = {c}
  BY <1>1, ServesOne DEF Serving
<1>3. ServiceTypeOK'
  <2>1. <<>> \in Seq({"header", "body"})
    OBVIOUS
  <2>2. QED
    BY <1>1, <2>1 DEF ServiceInv, ServiceTypeOK
<1>4. LinkInv' /\ PlacesInv'
  BY <1>1, <1>2 DEF ServiceInv, ServiceTypeOK, LinkInv, PlacesInv, InWork
<1>5. Serving' = {} /\ Queued' = Queued
  BY <1>1, <1>2 DEF ServiceInv, ServiceTypeOK, Serving, Queued
<1>6. ServedInv' /\ BacklogInv' /\ DoneInv'
  BY <1>1, <1>5 DEF ServiceInv, ServedInv, BacklogInv, DoneInv
<1>7. QED
  BY <1>3, <1>4, <1>6 DEF ServiceInv

-----------------------------------------------------------------------------

LEMMA ServiceInductive == ServiceSpec => []ServiceInv
<1>1. ServiceInv /\ [ServiceNext]_vars => ServiceInv'
  <2> SUFFICES ASSUME ServiceInv, [ServiceNext]_vars PROVE ServiceInv'
    OBVIOUS
  <2>1. CASE UNCHANGED vars
    <3>1. UNCHANGED <<client, link, places, relayUp, backlog, enclave, step, server, did, up, down>>
      BY <2>1 DEF vars, clientVars, relayVars, enclaveVars, pieces
    <3>2. ServiceTypeOK' /\ LinkInv' /\ PlacesInv'
      BY <3>1 DEF ServiceInv, ServiceTypeOK, LinkInv, PlacesInv, InWork
    <3>3. QED
      BY <3>1, <3>2, RelayMoves
  <2>2. CASE Accept \/ RestartRelay
    BY <2>2, AcceptStep, RestartRelayStep
  <2>3. ASSUME NEW c \in Calls, CallStep(c) PROVE ServiceInv'
    BY <2>3, OpenStep, SendStep, FallSilentStep, ReceiveStep, FailStep DEF CallStep
  <2>4. ASSUME NEW c \in Calls, RelayStep(c) PROVE ServiceInv'
    BY <2>4, AdmitStep, SubmitFailsStep, ConnectStep, EndRelayStep DEF RelayStep
  <2>5. ASSUME NEW c \in Calls, Serve(c) PROVE ServiceInv'
    BY <2>5, ReadHeaderStep, ReadBodyStep, ReadFailsStep, WorkStep, RespondStep,
      RespondFailsStep, RejectStep, CloseStep DEF Serve
  <2>6. QED
    BY <2>1, <2>2, <2>3, <2>4, <2>5 DEF ServiceNext
<1>2. QED
  BY ServiceInitial, <1>1, PTL DEF ServiceSpec

(* The variables of the path keep their types.                             *)
THEOREM ServiceTypeCorrect == ServiceSpec => []ServiceTypeOK
<1>1. ServiceInv => ServiceTypeOK
  BY DEF ServiceInv
<1>2. QED
  BY ServiceInductive, <1>1, PTL

(* The places of the relay, the connection in service and the backlog      *)
(* stay accounted for, however connections end and the relay restarts.     *)
THEOREM EveryPlaceAccounted == ServiceSpec => []PlacesAccounted
<1>1. ServiceInv => PlacesAccounted
  <2> SUFFICES ASSUME ServiceInv PROVE PlacesAccounted
    OBVIOUS
  <2>1. relayUp => places + Cardinality({c \in Calls : link[c] \in {"waiting", "on"}}) = Places
    BY DEF ServiceInv, PlacesInv, InWork
  <2>2. Cardinality(Serving) = (IF step = "accept" THEN 0 ELSE 1)
    BY FS_EmptySet, FS_Singleton DEF ServiceInv, ServedInv
  <2>3. DOMAIN backlog = 1 .. Len(backlog)
    BY DEF ServiceInv, ServiceTypeOK
  <2>4. QED
    BY <2>1, <2>2, <2>3 DEF PlacesAccounted, ServiceInv, BacklogInv, Queued
<1>2. QED
  BY ServiceInductive, <1>1, PTL

(* Whatever connections were cut, timed out or came before, a value that a *)
(* caller reads was produced for its request, and an acknowledged          *)
(* registration is the one in force.                                       *)
THEOREM ValuesMeanDone == ServiceSpec => []ValueMeansDone
<1>1. ServiceInv => ValueMeansDone
  BY DEF ServiceInv, DoneInv, ValueMeansDone
<1>2. QED
  BY ServiceInductive, <1>1, PTL
=============================================================================
