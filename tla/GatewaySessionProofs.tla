------------------------ MODULE GatewaySessionProofs ------------------------
(***************************************************************************)
(* Proofs about GatewaySession, for any clients, limit and settings.       *)
(*                                                                         *)
(* UpstreamWithinLimit is not inductive: it needs that a connection to the *)
(* database belongs to a running handler, that the handlers running are    *)
(* the slots taken, and that no more slots than the limit are.             *)
(***************************************************************************)
EXTENDS GatewaySession, FiniteSetTheorems, TLAPS

-----------------------------------------------------------------------------
(* The inductive invariant.                                                *)

Idle == {"away", "accepted"}
Past == {"connecting", "cancelling", "authenticating", "attributing", "relaying"}

\* What is true of one connection.
Good(r) ==
    /\ r.phase = "away" => r = Nobody
    /\ r.phase = "accepted" => r.line # "none" /\ ~r.encrypted /\ r.upstream = "none"
    /\ RequireTLS /\ r.phase \in Past => r.encrypted \/ r.cancel

SlotsInv ==
    stage # "stopped" =>
        /\ sessions = Handled
        /\ MaxConnections > 0 => Cardinality(sessions) <= MaxConnections

\* Where wait_closed() waits, stop() leaves nobody behind.
StopInv ==
    WaitsForClients =>
        /\ stage \in {"cancelling", "stopped"} =>
              \A c \in Clients : conn[c].phase # "accepted"
        /\ stage = "cancelling" => awaited = sessions
        /\ stage = "stopped" => Handled = {}

IInv == TypeOK /\ (\A c \in Clients : Good(conn[c])) /\ SlotsInv /\ StopInv

-----------------------------------------------------------------------------
(* How a handler's step keeps it: by going on, or by ending.               *)

LEMMA NobodyIsGood == Nobody \in Connections /\ Good(Nobody)
BY DEF Nobody, Connections, Phases, Packets, Messages, Good, Past

LEMMA GoesKeeps ==
  ASSUME IInv, NEW c \in Clients, NEW r \in Connections, Good(r), Goes(c, r),
         r.phase \in Idle <=> conn[c].phase \in Idle,
         r.phase = "accepted" => conn[c].phase = "accepted" \/ stage = "serving"
  PROVE  IInv'
<1>1. TypeOK'
  BY DEF IInv, TypeOK, Goes
<1>2. \A d \in Clients : conn'[d] = IF d = c THEN r ELSE conn[d]
  BY DEF IInv, TypeOK, Goes
<1>3. \A d \in Clients : Good(conn[d])'
  BY <1>2 DEF IInv, Good
<1>4. Handled' = Handled
  BY <1>2 DEF Handled, Idle
<1>5. SlotsInv'
  BY <1>4 DEF IInv, SlotsInv, Goes
<1>6. StopInv'
  BY <1>2, <1>4 DEF IInv, StopInv, Goes
<1>7. QED
  BY <1>1, <1>3, <1>5, <1>6 DEF IInv

LEMMA FewerFit ==
  ASSUME IInv, NEW c, MaxConnections > 0, Cardinality(sessions) <= MaxConnections
  PROVE  Cardinality(sessions \ {c}) <= MaxConnections
<1>1. IsFiniteSet(sessions)
  BY ClientsAssumption, FS_Subset DEF IInv, TypeOK
<1>2. Cardinality(sessions \ {c}) <= Cardinality(sessions)
  BY <1>1, FS_Subset
<1>3. Cardinality(sessions \ {c}) \in Nat /\ Cardinality(sessions) \in Nat
  BY <1>1, FS_Subset, FS_CardinalityType
<1>4. QED
  BY <1>2, <1>3, LimitAssumption

LEMMA EndsKeeps ==
  ASSUME IInv, NEW c \in Clients, Ends(c)
  PROVE  IInv'
<1>1. TypeOK'
  BY NobodyIsGood DEF IInv, TypeOK, Ends
<1>2. \A d \in Clients : conn'[d] = IF d = c THEN Nobody ELSE conn[d]
  BY DEF IInv, TypeOK, Ends
<1>3. \A d \in Clients : Good(conn[d])'
  BY <1>2, NobodyIsGood DEF IInv, Good
<1>4. Handled' = Handled \ {c}
  BY <1>2 DEF Handled, Nobody
<1>5. SlotsInv'
  BY <1>4, FewerFit DEF IInv, SlotsInv, Ends
<1>6. StopInv'
  BY <1>2, <1>4 DEF IInv, StopInv, Ends, Nobody
<1>7. QED
  BY <1>1, <1>3, <1>5, <1>6 DEF IInv

-----------------------------------------------------------------------------
(* The steps that do more than that.                                       *)

LEMMA HandleKeeps ==
  ASSUME IInv, NEW c \in Clients, Handle(c)
  PROVE  IInv'
<1>1. CASE ~HasRoom(sessions \cup {c})
  BY <1>1, EndsKeeps DEF Handle
<1>2. CASE HasRoom(sessions \cup {c})
  <2> DEFINE r == [conn[c] EXCEPT !.phase = "negotiating"]
  <2>1. /\ conn[c].phase = "accepted"
        /\ conn' = [conn EXCEPT ![c] = r]
        /\ sessions' = sessions \cup {c}
        /\ stage' = stage /\ awaited' = awaited
    BY <1>2 DEF Handle, IInv, TypeOK
  <2>2. r \in Connections /\ r.phase = "negotiating" /\ Good(r)
    BY DEF IInv, TypeOK, Connections, Phases, Good, Past
  <2> HIDE DEF r
  <2>3. \A d \in Clients : conn'[d] = IF d = c THEN r ELSE conn[d]
    BY <2>1 DEF IInv, TypeOK
  <2>4. TypeOK'
    BY <2>1, <2>2 DEF IInv, TypeOK
  <2>5. \A d \in Clients : Good(conn[d])'
    BY <2>2, <2>3 DEF IInv, Good
  <2>6. Handled' = Handled \cup {c}
    BY <2>2, <2>3 DEF Handled
  <2>7. SlotsInv'
    BY <1>2, <2>1, <2>6 DEF IInv, SlotsInv, HasRoom
  <2>8. StopInv'
    <3>1. WaitsForClients => stage \notin {"cancelling", "stopped"}
      BY <2>1 DEF IInv, StopInv
    <3>2. QED
      BY <3>1, <2>1 DEF StopInv
  <2>9. QED
    BY <2>4, <2>5, <2>7, <2>8 DEF IInv
<1>3. QED
  BY <1>1, <1>2

LEMMA StopKeeps ==
  ASSUME IInv, StopListening \/ StopCancels \/ StopReturns
  PROVE  IInv'
<1>1. conn' = conn /\ Handled' = Handled
  BY DEF StopListening, StopCancels, StopReturns, Handled
<1>2. TypeOK' /\ \A c \in Clients : Good(conn[c])'
  BY <1>1 DEF IInv, TypeOK, Good, StopListening, StopCancels, StopReturns
<1>3. SlotsInv'
  BY <1>1 DEF IInv, SlotsInv, StopListening, StopCancels, StopReturns
<1>4. StopInv'
  <2>1. CASE StopListening
    BY <2>1 DEF StopInv, StopListening
  <2>2. CASE StopCancels
    <3>1. ASSUME WaitsForClients PROVE \A c \in Clients : conn[c].phase # "accepted"
      <4>1. \A c \in Clients : conn[c].line \in {"none", "open", "left"}
        BY DEF IInv, TypeOK, Connections
      <4>2. QED
        BY <2>2, <3>1, <4>1 DEF StopCancels, Attached, IInv, Good
    <3>2. stage # "stopped" /\ sessions = Handled
      BY <2>2 DEF StopCancels, IInv, SlotsInv
    <3>3. QED
      BY <1>1, <2>2, <3>1, <3>2 DEF StopInv, StopCancels
  <2>3. CASE StopReturns
    BY <1>1, <2>3 DEF IInv, SlotsInv, StopInv, StopReturns
  <2>4. QED
    BY <2>1, <2>2, <2>3
<1>5. QED
  BY <1>2, <1>3, <1>4 DEF IInv

-----------------------------------------------------------------------------
(* Every step.                                                             *)

LEMMA BusyKeeps ==
  ASSUME IInv, NEW c \in Clients, NEW r \in Connections, Goes(c, r),
         conn[c].phase \notin Idle, r.phase \notin Idle,
         r.phase \in Past =>
            /\ conn[c].phase \in Past
            /\ r.encrypted = conn[c].encrypted /\ r.cancel = conn[c].cancel
  PROVE  IInv'
<1>1. Good(r)
  BY DEF IInv, Good, Idle
<1>2. QED
  BY <1>1, GoesKeeps DEF Idle

LEMMA ClientsKeep ==
  ASSUME IInv, NEW c \in Clients,
         Connect(c) \/ SendStartup(c) \/ Ask(c) \/ Terminate(c) \/ Vanish(c)
  PROVE  IInv'
<1>0. conn[c] \in Connections /\ Good(conn[c])
  BY DEF IInv, TypeOK
<1>1. CASE Connect(c)
  <2> DEFINE r == [Nobody EXCEPT !.phase = "accepted", !.line = "open"]
  <2>1. r \in Connections /\ r.phase = "accepted" /\ Good(r)
    BY NobodyIsGood DEF Nobody, Connections, Phases, Good, Past
  <2>2. Goes(c, r) /\ stage = "serving" /\ conn[c].phase = "away"
    BY <1>1 DEF Connect
  <2> HIDE DEF r
  <2>3. QED
    BY <2>1, <2>2, GoesKeeps DEF Idle
<1>2. CASE SendStartup(c)
  <2>1. PICK p \in Packets : Goes(c, [conn[c] EXCEPT !.inbox = p])
    BY <1>2 DEF SendStartup
  <2> DEFINE r == [conn[c] EXCEPT !.inbox = p]
  <2>2. r \in Connections /\ r.phase = conn[c].phase
    BY <1>0 DEF Connections
  <2>3. Good(r)
    BY <1>0, <1>2 DEF SendStartup, Connections, Good, Past
  <2> HIDE DEF r
  <2>4. QED
    BY <2>1, <2>2, <2>3, GoesKeeps DEF r
<1>3. CASE Ask(c)
  <2>1. PICK m \in {"query", "parse", "sync", "malformed"}, w \in {"no", "batch", "yes"} :
          Goes(c, [conn[c] EXCEPT !.inbox = m, !.asked = w])
    <3>1. conn[c].asked \in {"no", "batch", "yes"}
          /\ [conn[c] EXCEPT !.inbox = "malformed"]
               = [conn[c] EXCEPT !.inbox = "malformed", !.asked = conn[c].asked]
      BY <1>0 DEF Connections
    <3>2. QED
      BY <1>3, <3>1 DEF Ask
  <2> DEFINE r == [conn[c] EXCEPT !.inbox = m, !.asked = w]
  <2>2. /\ r \in Connections /\ r.phase = "relaying" /\ conn[c].phase = "relaying"
        /\ r.encrypted = conn[c].encrypted /\ r.cancel = conn[c].cancel
    BY <1>0, <1>3 DEF Ask, CanSend, Connections, Messages
  <2>3. Goes(c, r)
    BY <2>1
  <2> HIDE DEF r
  <2>4. QED
    BY <2>2, <2>3, BusyKeeps DEF Idle, Past
<1>4. CASE Terminate(c)
  <2> DEFINE r == [conn[c] EXCEPT !.inbox = "terminate", !.line = "left"]
  <2>1. /\ r \in Connections /\ r.phase = "relaying" /\ conn[c].phase = "relaying"
        /\ r.encrypted = conn[c].encrypted /\ r.cancel = conn[c].cancel
    BY <1>0, <1>4 DEF Terminate, CanSend, Connections, Messages
  <2>2. Goes(c, r)
    BY <1>4 DEF Terminate
  <2> HIDE DEF r
  <2>3. QED
    BY <2>1, <2>2, BusyKeeps DEF Idle, Past
<1>5. CASE Vanish(c)
  <2> DEFINE r == [conn[c] EXCEPT !.line = "left"]
  <2>1. r \in Connections /\ r.phase = conn[c].phase
    BY <1>0 DEF Connections
  <2>2. Good(r)
    BY <1>0, <1>5 DEF Vanish, Connections, Good, Past, Nobody
  <2>3. Goes(c, r)
    BY <1>5 DEF Vanish
  <2> HIDE DEF r
  <2>4. QED
    BY <2>1, <2>2, <2>3, GoesKeeps
<1>6. QED
  BY <1>1, <1>2, <1>3, <1>4, <1>5

LEMMA HandshakesKeep ==
  ASSUME IInv, NEW c \in Clients,
         \/ Negotiates(c) \/ ConnectUpstream(c) \/ ConnectFails(c) \/ CancelSent(c)
         \/ ServerReady(c) \/ AuthenticationFails(c) \/ InjectAttribution(c)
         \/ HandshakeTimeout(c)
  PROVE  IInv'
<1>0. conn[c] \in Connections /\ Good(conn[c])
  BY DEF IInv, TypeOK
<1>1. CASE DeclineEncryption(c)
  <2> DEFINE r == [conn[c] EXCEPT !.inbox = "none"]
  <2>1. r \in Connections /\ r.phase = "negotiating" /\ conn[c].phase = "negotiating"
    BY <1>0, <1>1 DEF DeclineEncryption, Reads, Connections
  <2>2. Goes(c, r)
    BY <1>1 DEF DeclineEncryption
  <2> HIDE DEF r
  <2>3. QED
    BY <2>1, <2>2, BusyKeeps DEF Idle, Past
<1>2. CASE AcceptTLS(c)
  <2> DEFINE r == [conn[c] EXCEPT !.inbox = "none", !.encrypted = TRUE]
  <2>1. r \in Connections /\ r.phase = "negotiating" /\ conn[c].phase = "negotiating"
    BY <1>0, <1>2 DEF AcceptTLS, Reads, Connections
  <2>2. Goes(c, r)
    BY <1>2 DEF AcceptTLS
  <2> HIDE DEF r
  <2>3. QED
    BY <2>1, <2>2, BusyKeeps DEF Idle, Past
<1>3. CASE ReadStartup(c)
  <2> DEFINE r == [conn[c] EXCEPT !.phase = "connecting", !.inbox = "none",
                                  !.cancel = (conn[c].inbox = "cancel")]
  <2>1. /\ r \in Connections /\ r.phase = "connecting"
        /\ conn[c].phase = "negotiating"
        /\ r.encrypted = conn[c].encrypted /\ r.cancel = (conn[c].inbox = "cancel")
    BY <1>0, <1>3 DEF ReadStartup, Reads, Connections, Phases
  <2>2. RequireTLS => conn[c].encrypted \/ conn[c].inbox = "cancel"
    BY <1>3 DEF ReadStartup, Reads
  <2>3. Goes(c, r)
    BY <1>3 DEF ReadStartup
  <2> HIDE DEF r
  <2>4. Good(r)
    BY <2>1, <2>2 DEF Good
  <2>5. QED
    BY <2>1, <2>3, <2>4, GoesKeeps DEF Idle
<1>4. CASE ConnectUpstream(c)
  <2> DEFINE r == [conn[c] EXCEPT
                     !.upstream = "open",
                     !.phase = IF conn[c].cancel THEN "cancelling"
                                                 ELSE "authenticating"]
  <2>1. /\ r \in Connections /\ r.phase \in {"cancelling", "authenticating"}
        /\ conn[c].phase = "connecting"
        /\ r.encrypted = conn[c].encrypted /\ r.cancel = conn[c].cancel
    BY <1>0, <1>4 DEF ConnectUpstream, Connections, Phases
  <2>2. Goes(c, r)
    BY <1>4 DEF ConnectUpstream
  <2> HIDE DEF r
  <2>3. QED
    BY <2>1, <2>2, BusyKeeps DEF Idle, Past
<1>5. CASE ServerReady(c)
  <2> DEFINE r == [conn[c] EXCEPT !.phase = "attributing"]
  <2>1. /\ r \in Connections /\ r.phase = "attributing"
        /\ conn[c].phase = "authenticating"
        /\ r.encrypted = conn[c].encrypted /\ r.cancel = conn[c].cancel
    BY <1>0, <1>5 DEF ServerReady, Connections, Phases
  <2>2. Goes(c, r)
    BY <1>5 DEF ServerReady
  <2> HIDE DEF r
  <2>3. QED
    BY <2>1, <2>2, BusyKeeps DEF Idle, Past
<1>6. CASE InjectAttribution(c)
  <2> DEFINE r == [conn[c] EXCEPT !.phase = "relaying", !.pumps = {"c2s", "s2c"}]
  <2>1. /\ r \in Connections /\ r.phase = "relaying"
        /\ conn[c].phase = "attributing"
        /\ r.encrypted = conn[c].encrypted /\ r.cancel = conn[c].cancel
    BY <1>0, <1>6 DEF InjectAttribution, Connections, Phases
  <2>2. Goes(c, r) \/ Ends(c)
    BY <1>6 DEF InjectAttribution
  <2> HIDE DEF r
  <2>3. QED
    BY <2>1, <2>2, BusyKeeps, EndsKeeps DEF Idle, Past
<1>7. CASE \/ NegotiationFails(c) \/ ConnectFails(c) \/ CancelSent(c)
           \/ AuthenticationFails(c) \/ HandshakeTimeout(c)
  BY <1>7, EndsKeeps
  DEF NegotiationFails, ConnectFails, CancelSent, AuthenticationFails, HandshakeTimeout
<1>8. QED
  BY <1>1, <1>2, <1>3, <1>4, <1>5, <1>6, <1>7 DEF Negotiates

\* A step that leaves the phase alone, of a connection that is there.
LEMMA StayKeeps ==
  ASSUME IInv, NEW c \in Clients, NEW r \in Connections, Goes(c, r),
         conn[c] # Nobody,
         r.phase = conn[c].phase, r.line = conn[c].line,
         r.encrypted = conn[c].encrypted, r.cancel = conn[c].cancel,
         r.upstream # "none" => conn[c].upstream # "none"
  PROVE  IInv'
<1>1. Good(r)
  BY DEF IInv, Good, Connections
<1>2. QED
  BY <1>1, GoesKeeps

LEMMA RelaysKeep ==
  ASSUME IInv, NEW c \in Clients, Relays(c)
  PROVE  IInv'
<1>0. conn[c] \in Connections
  BY DEF IInv, TypeOK
<1>1. conn[c] # Nobody
  <2>1. "c2s" \in conn[c].pumps \/ "s2c" \in conn[c].pumps
    BY Zenon DEF Relays, Forward, Refuse, SkipUntilSync, ReadsClient,
       ClientPumpFails, ClientPumpEnds, RelayAnswer, ServerPumpEnds
  <2>2. QED
    BY <2>1 DEF Nobody
<1>2. \A pump, gone : After(conn[c].pumps, pump, gone) \subseteq SUBSET {"c2s", "s2c"}
  BY <1>0 DEF After, Connections
<1>3. CASE Forward(c)
  <2>1. PICK p \in After(conn[c].pumps, "c2s", conn[c].upstream = "lost"), fails \in BOOLEAN :
          Goes(c, [conn[c] EXCEPT
                     !.inbox = "none", !.pumps = p,
                     !.skipping = (conn[c].inbox # "sync" /\ (@ \/ fails)),
                     !.todo = IF conn[c].upstream = "open"
                              THEN @ \cup Requests(conn[c]) ELSE @])
    BY <1>3 DEF Forward
  <2> DEFINE skips == conn[c].inbox # "sync" /\ (conn[c].skipping \/ fails)
             r     == [conn[c] EXCEPT
                     !.inbox = "none", !.pumps = p, !.skipping = skips,
                     !.todo = IF conn[c].upstream = "open"
                              THEN @ \cup Requests(conn[c]) ELSE @]
  <2>2. Requests(conn[c]) \subseteq {"answer", "quit"} /\ p \subseteq {"c2s", "s2c"}
    BY <1>2 DEF Requests
  <2>3. Goes(c, r)
    BY <2>1
  <2>4. skips \in BOOLEAN
    OBVIOUS
  <2> HIDE DEF skips
  <2>5. /\ r \in Connections /\ r.phase = conn[c].phase /\ r.line = conn[c].line
        /\ r.encrypted = conn[c].encrypted /\ r.cancel = conn[c].cancel
        /\ r.upstream = conn[c].upstream
    BY <1>0, <2>2, <2>4 DEF Connections
  <2> HIDE DEF r
  <2>6. QED
    BY <1>1, <2>3, <2>5, StayKeeps
<1>4. CASE Refuse(c)
  <2>1. PICK p \in After(conn[c].pumps, "c2s", conn[c].line = "left") :
          Goes(c, [conn[c] EXCEPT
                     !.inbox = "none", !.pumps = p,
                     !.asked = IF conn[c].inbox = "query" THEN "no" ELSE @,
                     !.inError = (conn[c].inbox = "parse")])
    BY <1>4 DEF Refuse
  <2> DEFINE r == [conn[c] EXCEPT
                     !.inbox = "none", !.pumps = p,
                     !.asked = IF conn[c].inbox = "query" THEN "no" ELSE @,
                     !.inError = (conn[c].inbox = "parse")]
  <2>2. p \subseteq {"c2s", "s2c"}
    BY <1>2
  <2>3. /\ r \in Connections /\ r.phase = conn[c].phase /\ r.line = conn[c].line
        /\ r.encrypted = conn[c].encrypted /\ r.cancel = conn[c].cancel
        /\ r.upstream = conn[c].upstream
    BY <1>0, <2>2 DEF Connections
  <2>4. Goes(c, r)
    BY <2>1
  <2> HIDE DEF r
  <2>5. QED
    BY <1>1, <2>3, <2>4, StayKeeps
<1>5. CASE SkipUntilSync(c)
  <2>1. PICK p \in After(conn[c].pumps, "c2s",
                         conn[c].line = "left" /\ conn[c].inbox = "sync") :
          Goes(c, [conn[c] EXCEPT
                     !.inbox = "none", !.pumps = p,
                     !.asked = IF conn[c].inbox = "sync" THEN "no" ELSE @,
                     !.inError = (conn[c].inbox # "sync")])
    BY <1>5 DEF SkipUntilSync
  <2> DEFINE r == [conn[c] EXCEPT
                     !.inbox = "none", !.pumps = p,
                     !.asked = IF conn[c].inbox = "sync" THEN "no" ELSE @,
                     !.inError = (conn[c].inbox # "sync")]
  <2>2. p \subseteq {"c2s", "s2c"}
    BY <1>2
  <2>3. /\ r \in Connections /\ r.phase = conn[c].phase /\ r.line = conn[c].line
        /\ r.encrypted = conn[c].encrypted /\ r.cancel = conn[c].cancel
        /\ r.upstream = conn[c].upstream
    BY <1>0, <2>2 DEF Connections
  <2>4. Goes(c, r)
    BY <2>1
  <2> HIDE DEF r
  <2>5. QED
    BY <1>1, <2>3, <2>4, StayKeeps
<1>6. CASE ClientPumpFails(c)
  <2> DEFINE r == [conn[c] EXCEPT !.inbox = "none", !.pumps = @ \ {"c2s"}]
  <2>1. /\ r \in Connections /\ r.phase = conn[c].phase /\ r.line = conn[c].line
        /\ r.encrypted = conn[c].encrypted /\ r.cancel = conn[c].cancel
        /\ r.upstream = conn[c].upstream
    BY <1>0 DEF Connections
  <2>2. Goes(c, r)
    BY <1>6 DEF ClientPumpFails
  <2> HIDE DEF r
  <2>3. QED
    BY <1>1, <2>1, <2>2, StayKeeps
<1>7. CASE ClientPumpEnds(c) \/ ServerPumpEnds(c)
  <2>1. PICK pump \in {"c2s", "s2c"} : Goes(c, [conn[c] EXCEPT !.pumps = @ \ {pump}])
    BY <1>7 DEF ClientPumpEnds, ServerPumpEnds
  <2> DEFINE r == [conn[c] EXCEPT !.pumps = @ \ {pump}]
  <2>2. /\ r \in Connections /\ r.phase = conn[c].phase /\ r.line = conn[c].line
        /\ r.encrypted = conn[c].encrypted /\ r.cancel = conn[c].cancel
        /\ r.upstream = conn[c].upstream
    BY <1>0 DEF Connections
  <2>3. Goes(c, r)
    BY <2>1
  <2> HIDE DEF r
  <2>4. QED
    BY <1>1, <2>2, <2>3, StayKeeps
<1>8. CASE RelayAnswer(c)
  <2>1. PICK p \in After(conn[c].pumps, "s2c", conn[c].line = "left") :
          Goes(c, [conn[c] EXCEPT !.reply = FALSE, !.asked = "no", !.pumps = p])
    BY <1>8 DEF RelayAnswer
  <2> DEFINE r == [conn[c] EXCEPT !.reply = FALSE, !.asked = "no", !.pumps = p]
  <2>2. p \subseteq {"c2s", "s2c"}
    BY <1>2
  <2>3. /\ r \in Connections /\ r.phase = conn[c].phase /\ r.line = conn[c].line
        /\ r.encrypted = conn[c].encrypted /\ r.cancel = conn[c].cancel
        /\ r.upstream = conn[c].upstream
    BY <1>0, <2>2 DEF Connections
  <2>4. Goes(c, r)
    BY <2>1
  <2> HIDE DEF r
  <2>5. QED
    BY <1>1, <2>3, <2>4, StayKeeps
<1>9. QED
  BY <1>3, <1>4, <1>5, <1>6, <1>7, <1>8 DEF Relays

LEMMA ServersKeep ==
  ASSUME IInv, NEW c \in Clients, ServerAnswers(c) \/ ServerCloses(c)
  PROVE  IInv'
<1>0. conn[c] \in Connections
  BY DEF IInv, TypeOK
<1>1. conn[c].upstream = "open" /\ conn[c] # Nobody
  BY DEF ServerAnswers, ServerCloses, Nobody
<1>2. CASE ServerAnswers(c)
  <2> DEFINE r == [conn[c] EXCEPT !.todo = @ \ {"answer"}, !.reply = TRUE]
  <2>1. /\ r \in Connections /\ r.phase = conn[c].phase /\ r.line = conn[c].line
        /\ r.encrypted = conn[c].encrypted /\ r.cancel = conn[c].cancel
        /\ r.upstream = conn[c].upstream
    BY <1>0 DEF Connections
  <2>2. Goes(c, r)
    BY <1>2 DEF ServerAnswers
  <2> HIDE DEF r
  <2>3. QED
    BY <1>1, <2>1, <2>2, StayKeeps
<1>3. CASE ServerCloses(c)
  <2> DEFINE r == [conn[c] EXCEPT !.upstream = "lost", !.todo = {}]
  <2>1. /\ r \in Connections /\ r.phase = conn[c].phase /\ r.line = conn[c].line
        /\ r.encrypted = conn[c].encrypted /\ r.cancel = conn[c].cancel
    BY <1>0 DEF Connections
  <2>2. Goes(c, r)
    BY <1>3 DEF ServerCloses
  <2> HIDE DEF r
  <2>3. QED
    BY <1>1, <2>1, <2>2, StayKeeps
<1>4. QED
  BY <1>2, <1>3

-----------------------------------------------------------------------------
(* The theorems.                                                           *)

LEMMA InvariantHolds == Spec => []IInv
<1>1. Init => IInv
  <2> SUFFICES ASSUME Init PROVE IInv
    OBVIOUS
  <2>1. \A c \in Clients : conn[c] = Nobody
    BY DEF Init
  <2>2. Handled = {}
    BY <2>1 DEF Handled, Nobody
  <2>3. Cardinality({}) = 0
    BY FS_EmptySet
  <2>4. QED
    BY <2>1, <2>2, <2>3, NobodyIsGood, LimitAssumption
    DEF Init, IInv, TypeOK, SlotsInv, StopInv
<1>2. IInv /\ [Next]_vars => IInv'
  <2> SUFFICES ASSUME IInv, [Next]_vars PROVE IInv'
    OBVIOUS
  <2>1. ASSUME NEW c \in Clients,
               SessionOver(c) \/ Cancelled(c)
        PROVE  IInv'
    BY <2>1, EndsKeeps DEF SessionOver, Cancelled
  <2>2. CASE UNCHANGED vars
    BY <2>2 DEF vars, IInv, TypeOK, Good, SlotsInv, StopInv, Handled
  <2>3. QED
    BY <2>1, <2>2, ClientsKeep, HandleKeeps, HandshakesKeep, RelaysKeep,
       ServersKeep, StopKeeps DEF Next
<1>3. QED
  BY <1>1, <1>2, PTL DEF Spec

\* Connections, slots and the progress of stop() keep their shapes, for any
\* clients and limit (Gateway.stop and _handle, server.py:293-352).
THEOREM Typed == Spec => []TypeOK
<1>1. IInv => TypeOK
  BY DEF IInv
<1>2. QED
  BY <1>1, InvariantHolds, PTL

LEMMA UpstreamsAreHandled ==
  ASSUME IInv
  PROVE  Upstreams \subseteq Handled
BY DEF IInv, Good, Upstreams, Handled, Nobody

\* The gateway never holds more connections to the database than its limit,
\* for any number of clients, any limit and whatever they do (_admit before
\* _connect_upstream, server.py:332-352).
THEOREM WithinLimit == Spec => []UpstreamWithinLimit
<1>1. IInv => UpstreamWithinLimit
  <2> SUFFICES ASSUME IInv, stage # "stopped", MaxConnections > 0
               PROVE  Cardinality(Upstreams) <= MaxConnections
    BY DEF UpstreamWithinLimit
  <2>1. Upstreams \subseteq sessions /\ Cardinality(sessions) <= MaxConnections
    BY UpstreamsAreHandled DEF IInv, SlotsInv
  <2>2. IsFiniteSet(sessions)
    BY ClientsAssumption, FS_Subset DEF IInv, TypeOK
  <2>3. Cardinality(Upstreams) <= Cardinality(sessions)
    BY <2>1, <2>2, FS_Subset
  <2>4. Cardinality(sessions) \in Nat /\ Cardinality(Upstreams) \in Nat
    BY <2>1, <2>2, FS_Subset, FS_CardinalityType
  <2>5. QED
    BY <2>1, <2>3, <2>4, LimitAssumption
<1>2. QED
  BY <1>1, InvariantHolds, PTL

\* However a session ends, its slot and its connection to the database go with
\* it, and no running handler is without its slot (_handle's and _session's
\* finally clauses, server.py:311-321 and 394-396).
THEOREM NoSlotIsLost == Spec => []SlotsAreHandlers
<1>1. IInv => SlotsAreHandlers
  BY UpstreamsAreHandled DEF IInv, SlotsInv, SlotsAreHandlers
<1>2. QED
  BY <1>1, InvariantHolds, PTL

\* When stop() returns nobody is being served any more, where wait_closed()
\* waits for the clients (stop, server.py:292-307).
THEOREM StopLeavesNobody == WaitsForClients => (Spec => []StoppedMeansStopped)
<1> SUFFICES ASSUME WaitsForClients PROVE Spec => []StoppedMeansStopped
  OBVIOUS
<1>1. IInv => StoppedMeansStopped
  <2> SUFFICES ASSUME IInv, stage = "stopped", NEW c \in Clients
               PROVE  conn[c] = Nobody
    BY DEF StoppedMeansStopped
  <2>1. conn[c].phase \in Phases /\ Good(conn[c])
    BY DEF IInv, TypeOK, Connections
  <2>2. conn[c].phase # "accepted" /\ Handled = {}
    BY DEF IInv, StopInv
  <2>3. conn[c].phase = "away"
    BY <2>2 DEF Handled
  <2>4. QED
    BY <2>1, <2>3 DEF Good
<1>2. QED
  BY <1>1, InvariantHolds, PTL

\* Where TLS is required, a session reaches the database only over TLS
\* (_negotiate, server.py:478-527).
THEOREM NoPlaintext == Spec => []PlaintextStaysOut
<1>1. IInv => PlaintextStaysOut
  BY DEF IInv, Good, Past, PlaintextStaysOut
<1>2. QED
  BY <1>1, InvariantHolds, PTL
=============================================================================
