--------------------------- MODULE GatewaySession ---------------------------
(***************************************************************************)
(* The life of the gateway's client sessions (gateway/server.py): the slot *)
(* a connection takes, the startup negotiation and authentication and the  *)
(* timeouts round them, the connection each session opens to the database, *)
(* the two pumps that relay it, and Gateway.stop().                        *)
(*                                                                         *)
(* The gateway is one asyncio loop: a handler runs alone between two       *)
(* awaits, so an action is what happens from one await to the next.  A     *)
(* client and the database act at any time; either may simply go away.     *)
(* What the messages say, and the order they are relayed in, is the        *)
(* subject of GatewayRelay; here a client has one message on the wire.     *)
(***************************************************************************)
EXTENDS Naturals, FiniteSets

CONSTANTS
    Clients,          \* the clients, each connecting any number of times
    MaxConnections,   \* --max-connections; 0 means no limit
    HasTLS,           \* a certificate is configured
    RequireTLS,       \* --require-tls
    WaitsForClients   \* asyncio's wait_closed() waits for open connections
                      \* (Python 3.12.1 on) or returns at once (before it)

ASSUME LimitAssumption == MaxConnections \in Nat
ASSUME ClientsAssumption == IsFiniteSet(Clients)
ASSUME TLSAssumption ==   \* Gateway.__init__ refuses --require-tls alone
    HasTLS \in BOOLEAN /\ RequireTLS \in BOOLEAN /\ (RequireTLS => HasTLS)
ASSUME WaitsAssumption == WaitsForClients \in BOOLEAN

VARIABLES
    conn,       \* what there is of each client's connection and handler
    sessions,   \* Gateway._sessions: the handlers that hold a slot
    stage,      \* how far Gateway.stop() has come
    awaited     \* the handlers stop() has cancelled and waits for

vars == <<conn, sessions, stage, awaited>>

Phases == {"away", "accepted", "negotiating", "connecting", "cancelling",
           "authenticating", "attributing", "relaying"}

Packets == {"gss", "ssl", "cancel", "startup", "garbage"}   \* before the session
Messages == {"query", "parse", "sync", "terminate", "malformed"}  \* within it

Connections == [
    phase     : Phases,                       \* where the handler stands
    line      : {"none", "open", "left"},     \* "left": the client's end is closed
    encrypted : BOOLEAN,
    inbox     : {"none"} \cup Packets \cup Messages,  \* sent and not yet read
    cancel    : BOOLEAN,                      \* it is a CancelRequest
    upstream  : {"none", "open", "lost"},     \* "lost": the database's end is closed
    pumps     : SUBSET {"c2s", "s2c"},        \* the pumps still running
    asked     : {"no", "batch", "yes"},       \* does the client wait for an answer?
    todo      : SUBSET {"answer", "quit"},    \* what the database has been sent
    reply     : BOOLEAN,                      \* an answer is on its way back
    skipping  : BOOLEAN,                      \* the database ignores all until a Sync
    inError   : BOOLEAN ]                     \* in_error_state

Nobody == [phase |-> "away", line |-> "none", encrypted |-> FALSE,
           inbox |-> "none", cancel |-> FALSE, upstream |-> "none",
           pumps |-> {}, asked |-> "no", todo |-> {}, reply |-> FALSE,
           skipping |-> FALSE, inError |-> FALSE]

TypeOK ==
    /\ conn \in [Clients -> Connections]
    /\ sessions \subseteq Clients
    /\ stage \in {"serving", "closing", "cancelling", "stopped"}
    /\ awaited \subseteq Clients

Init ==
    /\ conn = [c \in Clients |-> Nobody]
    /\ sessions = {}
    /\ stage = "serving"
    /\ awaited = {}

-----------------------------------------------------------------------------
(* The handler of c goes on with its connection in state r, or is over: the *)
(* finally clauses of _session and _handle close both sockets and give the  *)
(* slot back, with no await between them.                                   *)

Goes(c, r) ==
    /\ conn' = [conn EXCEPT ![c] = r]
    /\ UNCHANGED <<sessions, stage, awaited>>

Ends(c) ==
    /\ conn' = [conn EXCEPT ![c] = Nobody]
    /\ sessions' = sessions \ {c}
    /\ awaited' = awaited \ {c}
    /\ UNCHANGED stage

-----------------------------------------------------------------------------
(* The clients.                                                            *)

Connect(c) ==
    /\ stage = "serving"
    /\ conn[c].phase = "away"
    /\ Goes(c, [Nobody EXCEPT !.phase = "accepted", !.line = "open"])

\* One packet of the startup: it may never come, and need not be the last.
SendStartup(c) ==
    /\ conn[c].phase \in {"accepted", "negotiating"}
    /\ conn[c].line = "open"
    /\ conn[c].inbox = "none"
    /\ \E p \in Packets : Goes(c, [conn[c] EXCEPT !.inbox = p])

CanSend(c) ==
    conn[c].phase = "relaying" /\ conn[c].line = "open" /\ conn[c].inbox = "none"

\* A simple query, or the Sync that ends a batch: the client waits for its
\* ReadyForQuery.  A batch is any number of statements, each begun by a Parse,
\* which alone is not answered.  What makes no sense may come at any time.
Ask(c) ==
    /\ CanSend(c)
    /\ \/ /\ conn[c].asked = "no"
          /\ Goes(c, [conn[c] EXCEPT !.inbox = "query", !.asked = "yes"])
       \/ /\ conn[c].asked \in {"no", "batch"}
          /\ Goes(c, [conn[c] EXCEPT !.inbox = "parse", !.asked = "batch"])
       \/ /\ conn[c].asked = "batch"
          /\ Goes(c, [conn[c] EXCEPT !.inbox = "sync", !.asked = "yes"])
       \/ Goes(c, [conn[c] EXCEPT !.inbox = "malformed"])

Terminate(c) ==
    /\ CanSend(c)
    /\ Goes(c, [conn[c] EXCEPT !.inbox = "terminate", !.line = "left"])

Vanish(c) ==
    /\ conn[c].line = "open"
    /\ Goes(c, [conn[c] EXCEPT !.line = "left"])

-----------------------------------------------------------------------------
(* _handle and _admit: the slot is taken, and given back at once when there *)
(* are more slots taken than the limit allows.                              *)

\* A mutant of HasRoom: the handler that asks is not counted.
HasRoomForOneMore(taken) ==
    MaxConnections = 0 \/ Cardinality(taken) <= MaxConnections + 1

HasRoom(taken) == MaxConnections = 0 \/ Cardinality(taken) <= MaxConnections

Handle(c) ==
    /\ conn[c].phase = "accepted"
    /\ IF HasRoom(sessions \cup {c})
       THEN /\ conn' = [conn EXCEPT ![c].phase = "negotiating"]
            /\ sessions' = sessions \cup {c}
            /\ UNCHANGED <<stage, awaited>>
       ELSE Ends(c)

-----------------------------------------------------------------------------
(* _negotiate: SSLRequest and GSSENCRequest are answered and another packet *)
(* is read; anything else ends the loop.                                    *)

Reads(c, p) == conn[c].phase = "negotiating" /\ conn[c].inbox = p

DeclineEncryption(c) ==
    /\ Reads(c, "gss") \/ (Reads(c, "ssl") /\ ~HasTLS)
    /\ Goes(c, [conn[c] EXCEPT !.inbox = "none"])

AcceptTLS(c) ==
    /\ Reads(c, "ssl") /\ HasTLS
    /\ Goes(c, [conn[c] EXCEPT !.inbox = "none", !.encrypted = TRUE])

ReadStartup(c) ==
    /\ \/ Reads(c, "cancel")
       \/ Reads(c, "startup") /\ (RequireTLS => conn[c].encrypted)
    /\ Goes(c, [conn[c] EXCEPT !.phase = "connecting", !.inbox = "none",
                               !.cancel = (conn[c].inbox = "cancel")])

\* End of file, a packet that makes no sense, a TLS handshake that fails, and
\* plaintext where TLS is required: the connection is closed.
NegotiationFails(c) ==
    /\ \/ Reads(c, "none") /\ conn[c].line = "left"
       \/ Reads(c, "garbage")
       \/ Reads(c, "ssl") /\ HasTLS
       \/ Reads(c, "startup") /\ RequireTLS /\ ~conn[c].encrypted
    /\ Ends(c)

-----------------------------------------------------------------------------
(* _connect_upstream, bounded by no timeout of the gateway's, then           *)
(* _relay_authentication and _inject_attribution, bounded by one.            *)

ConnectUpstream(c) ==
    /\ conn[c].phase = "connecting"
    /\ Goes(c, [conn[c] EXCEPT
                  !.upstream = "open",
                  !.phase = IF conn[c].cancel THEN "cancelling" ELSE "authenticating"])

ConnectFails(c) ==
    /\ conn[c].phase = "connecting"
    /\ Ends(c)

\* A CancelRequest is written, and gets no reply.
CancelSent(c) ==
    /\ conn[c].phase = "cancelling"
    /\ Ends(c)

\* The database says ReadyForQuery; it is held back while the attribution is
\* set.
ServerReady(c) ==
    /\ conn[c].phase = "authenticating"
    /\ conn[c].upstream = "open"
    /\ Goes(c, [conn[c] EXCEPT !.phase = "attributing"])

\* Either side's end of file while they authenticate ends the session.
AuthenticationFails(c) ==
    /\ conn[c].phase = "authenticating"
    /\ conn[c].line = "left" \/ conn[c].upstream = "lost"
    /\ Ends(c)

\* The settings are answered, or the database is gone -- which is no error
\* here: the client is told it is ready and the pumps start.  Telling a client
\* that has left may raise.
InjectAttribution(c) ==
    /\ conn[c].phase = "attributing"
    /\ \/ Goes(c, [conn[c] EXCEPT !.phase = "relaying",
                                  !.pumps = {"c2s", "s2c"}])
       \/ conn[c].line = "left" /\ Ends(c)

\* A mutant of HandshakeTimeout: only the negotiation is bounded.
NegotiationTimeout(c) ==
    /\ conn[c].phase = "negotiating"
    /\ Ends(c)

HandshakeTimeout(c) ==
    /\ conn[c].phase \in {"negotiating", "authenticating", "attributing"}
    /\ Ends(c)

-----------------------------------------------------------------------------
(* _pump_client_to_server.  A write to a peer that has gone may raise, which *)
(* ends the pump, or be lost in silence.                                     *)

ReadsClient(c) == "c2s" \in conn[c].pumps /\ conn[c].inbox \notin {"none", "malformed"}

After(running, pump, gone) == {running} \cup IF gone THEN {running \ {pump}} ELSE {}

\* What a message forwarded has the database do.  Once a statement of a batch
\* has failed it reads only a Sync or a Terminate.
Requests(r) ==
    CASE r.inbox = "sync"      -> {"answer"}
      [] r.inbox = "query"     -> IF r.skipping THEN {} ELSE {"answer"}
      [] r.inbox = "terminate" -> {"quit"}
      [] OTHER                 -> {}

\* A mutant of Forward: the pump returns on a Terminate and does not pass it on.
ForwardUntilGoodbye(c) ==
    /\ ReadsClient(c) /\ ~conn[c].inError
    /\ Goes(c, [conn[c] EXCEPT
                  !.inbox = "none",
                  !.pumps = IF conn[c].inbox = "terminate" THEN @ \ {"c2s"} ELSE @,
                  !.todo = IF conn[c].inbox # "terminate" /\ conn[c].upstream = "open"
                           THEN @ \cup Requests(conn[c]) ELSE @])

\* The statement of a Parse may fail in the database.
Forward(c) ==
    /\ ReadsClient(c) /\ ~conn[c].inError
    /\ \E p \in After(conn[c].pumps, "c2s", conn[c].upstream = "lost"),
          fails \in IF conn[c].inbox = "parse" THEN BOOLEAN ELSE {FALSE} :
          Goes(c, [conn[c] EXCEPT
                     !.inbox = "none", !.pumps = p,
                     !.skipping = (conn[c].inbox # "sync" /\ (@ \/ fails)),
                     !.todo = IF conn[c].upstream = "open"
                              THEN @ \cup Requests(conn[c]) ELSE @])

\* A refused query is answered here; a refused Parse leaves the session in
\* error until the client's Sync, which the database then never sees.
Refuse(c) ==
    /\ ReadsClient(c) /\ ~conn[c].inError
    /\ conn[c].inbox \in {"query", "parse"}
    /\ \E p \in After(conn[c].pumps, "c2s", conn[c].line = "left") :
          Goes(c, [conn[c] EXCEPT
                     !.inbox = "none", !.pumps = p,
                     !.asked = IF conn[c].inbox = "query" THEN "no" ELSE @,
                     !.inError = (conn[c].inbox = "parse")])

\* In error every message is dropped, and a Sync is answered here.
SkipUntilSync(c) ==
    /\ ReadsClient(c) /\ conn[c].inError
    /\ \E p \in After(conn[c].pumps, "c2s",
                      conn[c].line = "left" /\ conn[c].inbox = "sync") :
          Goes(c, [conn[c] EXCEPT
                     !.inbox = "none", !.pumps = p,
                     !.asked = IF conn[c].inbox = "sync" THEN "no" ELSE @,
                     !.inError = (conn[c].inbox # "sync")])

\* A message that makes no sense raises in the reader; gather goes on waiting for
\* the other pump, and nobody reads what the client sends from here on.
ClientPumpFails(c) ==
    /\ "c2s" \in conn[c].pumps /\ conn[c].inbox = "malformed"
    /\ Goes(c, [conn[c] EXCEPT !.inbox = "none", !.pumps = @ \ {"c2s"}])

ClientPumpEnds(c) ==
    /\ "c2s" \in conn[c].pumps
    /\ conn[c].inbox = "none" /\ conn[c].line = "left"
    /\ Goes(c, [conn[c] EXCEPT !.pumps = @ \ {"c2s"}])

-----------------------------------------------------------------------------
(* The database, and _pump_server_to_client.                               *)

ServerAnswers(c) ==
    /\ conn[c].upstream = "open" /\ "answer" \in conn[c].todo
    /\ Goes(c, [conn[c] EXCEPT !.todo = @ \ {"answer"}, !.reply = TRUE])

ServerCloses(c) ==
    /\ conn[c].upstream = "open"
    /\ Goes(c, [conn[c] EXCEPT !.upstream = "lost", !.todo = {}])

\* A Terminate, read after the queries sent before it.
ServerQuits(c) == conn[c].todo = {"quit"} /\ ServerCloses(c)

RelayAnswer(c) ==
    /\ "s2c" \in conn[c].pumps /\ conn[c].reply
    /\ \E p \in After(conn[c].pumps, "s2c", conn[c].line = "left") :
          Goes(c, [conn[c] EXCEPT !.reply = FALSE, !.asked = "no", !.pumps = p])

ServerPumpEnds(c) ==
    /\ "s2c" \in conn[c].pumps
    /\ ~conn[c].reply /\ conn[c].upstream = "lost"
    /\ Goes(c, [conn[c] EXCEPT !.pumps = @ \ {"s2c"}])

\* asyncio.gather waits for both pumps.
SessionOver(c) ==
    /\ conn[c].phase = "relaying" /\ conn[c].pumps = {}
    /\ Ends(c)

-----------------------------------------------------------------------------
(* Gateway.stop().                                                         *)

StopListening ==
    /\ stage = "serving"
    /\ stage' = "closing"
    /\ UNCHANGED <<conn, sessions, awaited>>

\* asyncio counts a connection until its transport is lost.  Over TLS there
\* is no half-close (_no_half_close): a client that leaves ends the transport.
Attached(c) == conn[c].line = "open" \/ (conn[c].line = "left" /\ ~conn[c].encrypted)

\* A mutant of StopCancels: what is in flight is not cancelled.
StopAbandons ==
    /\ stage = "closing"
    /\ WaitsForClients => \A c \in Clients : ~Attached(c)
    /\ stage' = "stopped"
    /\ UNCHANGED <<conn, sessions, awaited>>

StopCancels ==
    /\ stage = "closing"
    /\ WaitsForClients => \A c \in Clients : ~Attached(c)
    /\ stage' = IF sessions = {} THEN "stopped" ELSE "cancelling"
    /\ awaited' = sessions
    /\ UNCHANGED <<conn, sessions>>

\* CancelledError reaches the handler at its await; gather cancels the pumps.
Cancelled(c) ==
    /\ c \in awaited
    /\ Ends(c)

StopReturns ==
    /\ stage = "cancelling"
    /\ awaited = {}
    /\ stage' = "stopped"
    /\ sessions' = {}
    /\ UNCHANGED <<conn, awaited>>

-----------------------------------------------------------------------------
Negotiates(c) ==
    \/ DeclineEncryption(c) \/ AcceptTLS(c) \/ ReadStartup(c) \/ NegotiationFails(c)

Relays(c) ==
    \/ Forward(c) \/ Refuse(c) \/ SkipUntilSync(c) \/ ClientPumpFails(c) \/ ClientPumpEnds(c)
    \/ RelayAnswer(c) \/ ServerPumpEnds(c)

Next ==
    \/ \E c \in Clients :
          \/ Connect(c) \/ SendStartup(c) \/ Ask(c) \/ Terminate(c) \/ Vanish(c)
          \/ Handle(c) \/ Negotiates(c)
          \/ ConnectUpstream(c) \/ ConnectFails(c) \/ CancelSent(c)
          \/ ServerReady(c) \/ AuthenticationFails(c) \/ InjectAttribution(c)
          \/ HandshakeTimeout(c)
          \/ Relays(c)
          \/ ServerAnswers(c) \/ ServerCloses(c)
          \/ SessionOver(c) \/ Cancelled(c)
    \/ StopListening \/ StopCancels \/ StopReturns

Spec == Init /\ [][Next]_vars

(* What the loop schedules and what the database owes: a handler that can   *)
(* run runs, an armed timeout goes off, opening a connection succeeds or    *)
(* fails, and a database that is up answers what it does not skip and hangs *)
(* up on a Terminate.  A client owes nothing, and nothing makes the database *)
(* close a connection of its own accord.                                    *)
Fairness ==
    /\ \A c \in Clients :
          /\ WF_vars(Handle(c)) /\ WF_vars(HandshakeTimeout(c))
          /\ WF_vars(ConnectUpstream(c) \/ ConnectFails(c)) /\ WF_vars(CancelSent(c))
          /\ WF_vars(Forward(c) \/ Refuse(c) \/ SkipUntilSync(c) \/ ClientPumpFails(c))
          /\ WF_vars(ClientPumpEnds(c))
          /\ WF_vars(RelayAnswer(c)) /\ WF_vars(ServerPumpEnds(c))
          /\ WF_vars(SessionOver(c)) /\ WF_vars(Cancelled(c))
          /\ WF_vars(ServerAnswers(c)) /\ WF_vars(ServerQuits(c))
    /\ WF_vars(StopCancels) /\ WF_vars(StopReturns)

FairSpec == Spec /\ Fairness

-----------------------------------------------------------------------------
(* What it promises.                                                       *)

Upstreams == {c \in Clients : conn[c].upstream # "none"}
Handled == {c \in Clients : conn[c].phase \notin {"away", "accepted"}}

\* The gateway never holds more connections to the database than the limit,
\* whatever clients do: the slot is taken before the connection is opened and
\* kept until it is closed (_handle, _admit, _session).
UpstreamWithinLimit ==
    stage # "stopped" /\ MaxConnections > 0
        => Cardinality(Upstreams) <= MaxConnections

\* A slot is held exactly as long as its handler runs: however a session ends
\* -- refused, timed out, failed, cancelled, over -- its slot is given back,
\* once, and with it goes the connection to the database.
SlotsAreHandlers ==
    /\ stage # "stopped" => sessions = Handled
    /\ Upstreams \subseteq Handled

\* When stop() has returned no client is still being served and no connection
\* to the database is left open -- where asyncio's wait_closed() waits for the
\* connections that were accepted and not yet handled.
StoppedMeansStopped ==
    stage = "stopped" => \A c \in Clients : conn[c] = Nobody

\* Without TLS nothing of a client's but a CancelRequest reaches the database
\* where TLS is required, in whatever order it asks and is declined.
PlaintextStaysOut ==
    RequireTLS => \A c \in Clients :
        conn[c].phase \in {"connecting", "cancelling", "authenticating", "attributing", "relaying"}
            => conn[c].encrypted \/ conn[c].cancel

\* A client that never finishes its startup or its authentication does not
\* hold its slot for ever (handshake_timeout).
HandshakesEnd ==
    \A c \in Clients :
        conn[c].phase \in {"negotiating", "authenticating", "attributing"}
            ~> conn[c].phase \notin {"negotiating", "authenticating", "attributing"}

\* A client that says goodbye gives its slot back, even where it gave up waiting
\* for an answer: the Terminate reaches the database, whose end of file ends the
\* other pump.  Not while its messages are dropped or no longer read.
GoodbyeEndsSession ==
    \A c \in Clients :
        (conn[c].inbox = "terminate" /\ ~conn[c].inError /\ "c2s" \in conn[c].pumps)
            ~> conn[c].phase = "away"

\* "When one side of a proxied session goes away, the session is over": it is
\* not, for gather waits for the pump of the other side.
DepartureEndsSession ==
    \A c \in Clients :
        (conn[c].phase = "relaying" /\ (conn[c].line = "left" \/ conn[c].upstream = "lost"))
            ~> conn[c].phase = "away"

\* stop() "ends sessions still in flight".
StopEnds == stage = "closing" ~> stage = "stopped"
=============================================================================
