---------------------------- MODULE GatewayRelay ----------------------------
(***************************************************************************)
(* What one gateway session relays (gateway/server.py, interceptor.py):    *)
(* the authentication dialogue, the attribution slipped in behind the held *)
(* ReadyForQuery, and the two pumps, of which the one that reads the       *)
(* client judges each statement and answers a refused one itself.          *)
(*                                                                         *)
(* The two pumps write to the same client.  The stream each reads keeps    *)
(* its order; how what they write is interleaved is up to the loop.  When  *)
(* sessions start, fail and end is the subject of GatewaySession.          *)
(***************************************************************************)
EXTENDS Naturals, Sequences, FiniteSets

CONSTANTS
    Statements,     \* what a client may send: see Judged and Outcomes
    MaxExchanges,   \* bounds what a client asks, in queries and batches
    MaxBatch,       \* bounds the statements of a batch
    Pipelines       \* the client asks on before it has been answered

ASSUME RelayAssumption ==
    /\ Statements \subseteq {"begin", "end", "work"}
    /\ MaxExchanges \in Nat /\ MaxBatch \in Nat
    /\ Pipelines \in BOOLEAN

VARIABLES
    phase,        \* the handler authenticates, attributes or relays
    toGateway,    \* the client's messages, not yet read
    toServer,     \* the gateway's, to the database
    fromServer,   \* the database's
    toClient,     \* the gateway's, to the client
    inError,      \* in_error_state
    server,       \* the database's end of the connection
    client        \* what the client has asked, and what it has got

vars == <<phase, toGateway, toServer, fromServer, toClient, inError, server, client>>
wires == <<toGateway, toServer, fromServer, toClient>>

\* A statement carries its exchange and its place in it; so does its answer.
Message(tag, exchange, place, sql) ==
    [tag |-> tag, id |-> <<exchange, place>>, sql |-> sql]

Reply(tag, id) == [tag |-> tag, id |-> id, txn |-> "I"]
Ready(txn) == [tag |-> "ready", id |-> <<0, 0>>, txn |-> txn]

Init ==
    /\ phase = "authenticating"
    /\ toGateway = <<>> /\ toServer = <<>> /\ toClient = <<>>
    /\ fromServer = <<Reply("challenge", <<0, 0>>)>>
    /\ inError = FALSE
    /\ server = [txn |-> "I", ignoring |-> FALSE, open |-> FALSE, held |-> <<>>,
                 ran |-> {}, actor |-> "unset"]
    /\ client = [asked |-> 0, got |-> <<>>]

Readies(replies) ==
    Cardinality({i \in DOMAIN replies : replies[i].tag = "ready"})

Places == 0 .. MaxBatch + 1
Ids == (0 .. MaxExchanges) \X Places

TypeOK ==
    LET Messages == [tag : {"password", "settings", "query", "parse", "execute", "sync"},
                     id : Ids, sql : Statements \cup {"none"}]
        Replies == [tag : {"challenge", "ok", "answer", "error", "ready"},
                    id : Ids, txn : {"I", "T", "E"}]
    IN  /\ phase \in {"authenticating", "attributing", "relaying"}
        /\ toGateway \in Seq(Messages) /\ toServer \in Seq(Messages)
        /\ fromServer \in Seq(Replies) /\ toClient \in Seq(Replies)
        /\ inError \in BOOLEAN
        /\ server \in [txn : {"I", "T", "E"}, ignoring : BOOLEAN, open : BOOLEAN,
                       held : Seq(Replies), ran : SUBSET Ids,
                       actor : {"unset", "set", "refused"}]
        /\ client \in [asked : 0 .. MaxExchanges, got : Seq(Replies)]

-----------------------------------------------------------------------------
(* The client.                                                             *)

\* It answers a challenge, and keeps what answers it.
ClientReads ==
    /\ toClient # <<>>
    /\ toClient' = Tail(toClient)
    /\ LET r == Head(toClient)
       IN  /\ client' = IF r.tag \in {"challenge", "ok"} THEN client
                        ELSE [client EXCEPT !.got = Append(@, r)]
           /\ toGateway' = IF r.tag = "challenge"
                           THEN Append(toGateway, Message("password", 0, 0, "none"))
                           ELSE toGateway
    /\ UNCHANGED <<phase, toServer, fromServer, inError, server>>

Quiet == Readies(client.got) = client.asked + 1

MayAsk ==
    /\ client.asked < MaxExchanges
    /\ Quiet \/ (Pipelines /\ Readies(client.got) > 0)

Asks(messages) ==
    /\ client' = [client EXCEPT !.asked = @ + 1]
    /\ toGateway' = toGateway \o messages
    /\ UNCHANGED <<phase, toServer, fromServer, toClient, inError, server>>

AskQuery ==
    /\ MayAsk
    /\ \E s \in Statements : Asks(<<Message("query", client.asked + 1, 1, s)>>)

\* Parse and Execute for each statement, and a Sync.
AskBatch ==
    /\ MayAsk
    /\ \E n \in 1 .. MaxBatch : \E batch \in [1 .. n -> Statements] :
          LET x == client.asked + 1
              steps == [i \in 1 .. 2 * n |->
                          Message(IF i % 2 = 1 THEN "parse" ELSE "execute",
                                  x, (i + 1) \div 2, batch[(i + 1) \div 2])]
          IN  Asks(steps \o <<Message("sync", x, n + 1, "none")>>)

-----------------------------------------------------------------------------
(* The database, as PostgreSQL keeps a connection: after an error in a batch *)
(* it ignores everything up to the Sync, which ends what the batch has left  *)
(* open; what it has to say waits for a Sync, an error or the end of a query. *)

\* What a statement may do to the transaction it meets.
Outcomes(sql, txn) ==
    IF txn = "E" /\ sql # "end" THEN {[txn |-> "E", ok |-> FALSE]}
    ELSE CASE sql = "begin" -> {[txn |-> "T", ok |-> TRUE]}
           [] sql = "end"   -> {[txn |-> "I", ok |-> TRUE]}
           [] OTHER         -> {[txn |-> txn, ok |-> TRUE],
                                [txn |-> IF txn = "T" THEN "E" ELSE txn, ok |-> FALSE]}

\* The answer to m with outcome o, and what running it does to the database.
Answer(m, o) == Reply(IF o.ok THEN "answer" ELSE "error", m.id)
Run(m, o) == IF o.ok THEN server.ran \cup {m.id} ELSE server.ran

ServerReads(m) ==
    \/ /\ m.tag = "password"
       /\ fromServer' = fromServer \o <<Reply("ok", m.id), Ready("I")>>
       /\ server' = server
    \/ /\ m.tag = "settings"
       /\ \E done \in {"set", "refused"} :
             /\ fromServer' = fromServer \o
                   <<Reply(IF done = "set" THEN "answer" ELSE "error", m.id), Ready("I")>>
             /\ server' = [server EXCEPT !.actor = done]
    \/ /\ m.tag = "sync"
       /\ fromServer' = fromServer \o server.held \o <<Ready(server.txn)>>
       /\ server' = [server EXCEPT !.held = <<>>, !.open = FALSE, !.ignoring = FALSE]
    \/ /\ m.tag = "query" /\ ~server.ignoring
       /\ \E o \in Outcomes(m.sql, server.txn) :
             /\ fromServer' = fromServer \o server.held \o <<Answer(m, o), Ready(o.txn)>>
             /\ server' = [server EXCEPT !.txn = o.txn, !.ran = Run(m, o),
                                         !.held = <<>>, !.open = FALSE]
    \/ /\ m.tag = "execute" /\ ~server.ignoring
       /\ \E o \in Outcomes(m.sql, server.txn) :
             LET said == Append(server.held, Answer(m, o))
             IN  /\ fromServer' = IF o.ok THEN fromServer ELSE fromServer \o said
                 /\ server' = [server EXCEPT !.txn = o.txn, !.ran = Run(m, o),
                                             !.held = IF o.ok THEN said ELSE <<>>,
                                             !.open = TRUE, !.ignoring = ~o.ok]
    \/ /\ m.tag = "parse" \/ (m.tag \in {"query", "execute"} /\ server.ignoring)
       /\ UNCHANGED <<fromServer, server>>

Server ==
    /\ toServer # <<>>
    /\ ServerReads(Head(toServer))
    /\ toServer' = Tail(toServer)
    /\ UNCHANGED <<phase, toGateway, toClient, inError, client>>

-----------------------------------------------------------------------------
(* _relay_authentication and _inject_attribution.                          *)

RelayPassword ==
    /\ phase = "authenticating" /\ toGateway # <<>>
    /\ toServer' = Append(toServer, Head(toGateway))
    /\ toGateway' = Tail(toGateway)
    /\ UNCHANGED <<phase, fromServer, toClient, inError, server, client>>

RelayChallenge ==
    /\ phase = "authenticating" /\ fromServer # <<>>
    /\ Head(fromServer).tag # "ready"
    /\ toClient' = Append(toClient, Head(fromServer))
    /\ fromServer' = Tail(fromServer)
    /\ UNCHANGED <<phase, toGateway, toServer, inError, server, client>>

FirstReady ==
    /\ phase = "authenticating" /\ fromServer # <<>>
    /\ Head(fromServer).tag = "ready"
    /\ fromServer' = Tail(fromServer)
    /\ UNCHANGED <<toGateway, inError, server, client>>

Settings == Message("settings", 0, 0, "none")

\* The first ReadyForQuery is held back, and the settings are sent.
HoldReady ==
    /\ FirstReady
    /\ phase' = "attributing"
    /\ toServer' = Append(toServer, Settings)
    /\ UNCHANGED toClient

\* A mutant of SwallowAnswer: the ReadyForQuery of the settings is relayed too.
ReleaseBoth ==
    /\ phase = "attributing" /\ fromServer # <<>>
    /\ fromServer' = Tail(fromServer)
    /\ IF Head(fromServer).tag = "ready"
       THEN phase' = "relaying" /\ toClient' = toClient \o <<Ready("I"), Head(fromServer)>>
       ELSE UNCHANGED <<phase, toClient>>
    /\ UNCHANGED <<toGateway, toServer, inError, server, client>>

\* What the settings are answered is swallowed, up to its ReadyForQuery; the
\* one that was held is released in its place.
SwallowAnswer ==
    /\ phase = "attributing" /\ fromServer # <<>>
    /\ fromServer' = Tail(fromServer)
    /\ IF Head(fromServer).tag = "ready"
       THEN phase' = "relaying" /\ toClient' = Append(toClient, Ready("I"))
       ELSE UNCHANGED <<phase, toClient>>
    /\ UNCHANGED <<toGateway, toServer, inError, server, client>>

-----------------------------------------------------------------------------
(* _pump_client_to_server.  Only a Query and a Parse carry a statement, and  *)
(* an evaluation that fails lets it through: of a statement the rules are    *)
(* about, both verdicts are possible.                                        *)

Reads(tags) ==
    phase = "relaying" /\ toGateway # <<>> /\ Head(toGateway).tag \in tags

Judged == {"work"}

Forward ==
    /\ Reads({"query", "parse", "execute", "sync"}) /\ ~inError
    /\ toServer' = Append(toServer, Head(toGateway))
    /\ toGateway' = Tail(toGateway)
    /\ UNCHANGED <<phase, fromServer, toClient, inError, server, client>>

Refused(tag, replies) ==
    /\ Reads({tag}) /\ ~inError
    /\ Head(toGateway).sql \in Judged
    /\ toClient' = toClient \o replies
    /\ toGateway' = Tail(toGateway)

Refusal == Reply("error", Head(toGateway).id)

\* Mutants of RefuseQuery: the statement is sent on all the same; the client
\* gets its own message back.
RefuseAndForward ==
    /\ Refused("query", <<Refusal, Ready("I")>>)
    /\ toServer' = Append(toServer, Head(toGateway))
    /\ UNCHANGED <<phase, fromServer, inError, server, client>>
RefuseWithItself ==
    /\ Refused("query", <<Head(toGateway), Ready("I")>>)
    /\ UNCHANGED <<phase, toServer, fromServer, inError, server, client>>

RefuseQuery ==
    /\ Refused("query", <<Refusal, Ready("I")>>)
    /\ UNCHANGED <<phase, toServer, fromServer, inError, server, client>>

\* A mutant of RefuseParse: it ends the exchange, as a refused query does.
RefuseParseOutright ==
    /\ Refused("parse", <<Refusal, Ready("I")>>)
    /\ inError' = TRUE
    /\ UNCHANGED <<phase, toServer, fromServer, server, client>>

RefuseParse ==
    /\ Refused("parse", <<Refusal>>)
    /\ inError' = TRUE
    /\ UNCHANGED <<phase, toServer, fromServer, server, client>>

\* A mutant of SkipUntilSync: the Sync that ends the error is not answered.
SkipSync ==
    /\ Reads({"query", "parse", "execute", "sync"}) /\ inError
    /\ toGateway' = Tail(toGateway)
    /\ inError' = (Head(toGateway).tag # "sync")
    /\ UNCHANGED <<phase, toServer, fromServer, toClient, server, client>>

SkipUntilSync ==
    /\ Reads({"query", "parse", "execute", "sync"}) /\ inError
    /\ toGateway' = Tail(toGateway)
    /\ inError' = (Head(toGateway).tag # "sync")
    /\ toClient' = IF inError' THEN toClient ELSE Append(toClient, Ready("I"))
    /\ UNCHANGED <<phase, toServer, fromServer, server, client>>

(* _pump_server_to_client: byte for byte.                                  *)
RelayReply ==
    /\ phase = "relaying" /\ fromServer # <<>>
    /\ toClient' = Append(toClient, Head(fromServer))
    /\ fromServer' = Tail(fromServer)
    /\ UNCHANGED <<phase, toGateway, toServer, inError, server, client>>

-----------------------------------------------------------------------------
Authenticates == RelayPassword \/ RelayChallenge \/ HoldReady \/ SwallowAnswer
PumpsClient == Forward \/ RefuseQuery \/ RefuseParse \/ SkipUntilSync

Next ==
    \/ ClientReads \/ AskQuery \/ AskBatch
    \/ Server
    \/ Authenticates \/ PumpsClient \/ RelayReply

Spec == Init /\ [][Next]_vars

(* Whoever has something to read reads it; a client need not ask.          *)
Fairness ==
    /\ WF_vars(ClientReads) /\ WF_vars(Server)
    /\ WF_vars(Authenticates) /\ WF_vars(PumpsClient) /\ WF_vars(RelayReply)

FairSpec == Spec /\ Fairness

-----------------------------------------------------------------------------
(* What it promises.                                                       *)

\* Gateway and database together end no exchange twice, however the client
\* batches and pipelines: one that counts its ReadyForQuery is never told that
\* something is over which it has not asked (_inject_attribution's held
\* ReadyForQuery, the refusals, and the Sync after one; server.py:604-733).
NoneTooMany == Readies(client.got) <= client.asked + 1

\* The answers come in the order of what they answer, and each before the
\* ReadyForQuery that ends its exchange.  This holds of a client that asks one
\* statement at a time and waits; if it pipelines, a refusal overtakes what the
\* database has yet to say (server.py:733), so that no run states it.
AnswersInOrder ==
    \A i \in DOMAIN client.got :
        client.got[i].tag \in {"answer", "error"} =>
            client.got[i].id[1] = Readies(SubSeq(client.got, 1, i))

\* An answer is true, whoever gave it: what it says was done has run in the
\* database, and what it says was refused or has failed has not.
AnswersAreTrue ==
    \A i \in DOMAIN client.got :
        /\ client.got[i].tag = "answer" => client.got[i].id \in server.ran
        /\ client.got[i].tag = "error" => client.got[i].id \notin server.ran

\* No statement runs before the database has been told who the client is, or
\* has declined to know (_relay_authentication, _inject_attribution).
AttributedFirst == server.ran # {} => server.actor # "unset"

\* When the client has all its answers nothing of the exchange is left behind:
\* no message on its way, no answer held back, no batch open in the database
\* and no error state in the gateway.
QuietMeansDone ==
    Quiet =>
        /\ wires = <<<<>>, <<>>, <<>>, <<>>>>
        /\ server.held = <<>> /\ ~server.open /\ ~server.ignoring /\ ~inError

\* What the client is told of its transaction is how the database has it.
StatusIsTrue ==
    Quiet => client.got[Len(client.got)].txn = server.txn

\* Everything the client asks comes to its ReadyForQuery, refused or not.
ExchangesEnd ==
    \A n \in 1 .. MaxExchanges :
        client.asked >= n ~> Readies(client.got) > n
=============================================================================
