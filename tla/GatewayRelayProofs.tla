------------------------- MODULE GatewayRelayProofs -------------------------
(***************************************************************************)
(* Proofs about GatewayRelay.                                              *)
(*                                                                         *)
(* Until the session relays, exactly one message or answer of the startup  *)
(* is on its way, and the client has been told nothing that lets it ask.   *)
(* Each place that message can be in is a case of the invariant; from the  *)
(* last the session relays, and the actor is settled.  That much, and the  *)
(* shapes of what is on its way, hold of any client.                       *)
(*                                                                         *)
(* Of a client that waits for its answer before it asks on, and asks one   *)
(* statement at a time (OneByOne), the invariant goes on in the same way:  *)
(* the exchange is at one of seven stages, each of which says where its    *)
(* messages and its answer are, and what the database and the gateway have *)
(* made of it.  Its answers are then in order and true, and nothing is     *)
(* left behind.                                                            *)
(*                                                                         *)
(* That no exchange is ended twice holds of any client again.  Each end is *)
(* counted from the message that asks for it to the ReadyForQuery the      *)
(* client gets; wherever it is, it is there once.                          *)
(***************************************************************************)
EXTENDS GatewayRelay, FunctionTheorems, SequenceTheorems, FiniteSetTheorems, TLAPS

Fields == {"txn", "ignoring", "open", "held", "ran", "actor"}

Challenge == Reply("challenge", <<0, 0>>)
Ok == Reply("ok", <<0, 0>>)
Password == Message("password", 0, 0, "none")

OnWires(up, out, in, down) ==
    toGateway = up /\ toServer = out /\ fromServer = in /\ toClient = down

Authenticating ==
    /\ phase = "authenticating" /\ server.actor = "unset"
    /\ \/ OnWires(<<>>, <<>>, <<Challenge>>, <<>>)
       \/ OnWires(<<>>, <<>>, <<>>, <<Challenge>>)
       \/ OnWires(<<Password>>, <<>>, <<>>, <<>>)
       \/ OnWires(<<>>, <<Password>>, <<>>, <<>>)
       \/ OnWires(<<>>, <<>>, <<Ok, Ready("I")>>, <<>>)
       \/ OnWires(<<>>, <<>>, <<Ready("I")>>, <<Ok>>)
       \/ OnWires(<<>>, <<>>, <<Ready("I")>>, <<>>)

Attributing ==
    /\ phase = "attributing"
    /\ toGateway = <<>> /\ toClient \in {<<>>, <<Ok>>}
    /\ \/ /\ toServer = <<Settings>> /\ fromServer = <<>>
          /\ server.actor = "unset"
       \/ /\ toServer = <<>> /\ server.actor # "unset"
          /\ \/ fromServer = <<Ready("I")>>
             \/ \E tag \in {"answer", "error"} :
                   fromServer = <<Reply(tag, <<0, 0>>), Ready("I")>>

Starting ==
    /\ client.asked = 0 /\ client.got = <<>>
    /\ server.ran = {}
    /\ Authenticating \/ Attributing

Relaying == phase = "relaying" /\ server.actor # "unset"

IInv == DOMAIN server = Fields /\ (Starting \/ Relaying)

-----------------------------------------------------------------------------
LEMMA Wires ==
  /\ \A x : /\ <<x>> # <<>> /\ Head(<<x>>) = x /\ Tail(<<x>>) = <<>>
            /\ Append(<<>>, x) = <<x>>
  /\ \A x, y : /\ <<x, y>> # <<>> /\ Head(<<x, y>>) = x /\ Tail(<<x, y>>) = <<y>>
               /\ <<>> \o <<x, y>> = <<x, y>>
<1>1. ASSUME NEW x PROVE /\ <<x>> # <<>> /\ Head(<<x>>) = x /\ Tail(<<x>>) = <<>>
                         /\ Append(<<>>, x) = <<x>>
  OBVIOUS
<1>2. ASSUME NEW x, NEW y
      PROVE  /\ <<x, y>> # <<>> /\ Head(<<x, y>>) = x /\ Tail(<<x, y>>) = <<y>>
             /\ <<>> \o <<x, y>> = <<x, y>>
  <2>1. <<x, y>> \in Seq({x, y})
    OBVIOUS
  <2>2. <<>> \o <<x, y>> = <<x, y>>
    BY <2>1, ConcatEmptySeq
  <2>3. QED
    BY <2>2
<1>3. QED
  BY <1>1, <1>2

LEMMA Tags ==
  /\ Challenge.tag = "challenge" /\ Ok.tag = "ok"
  /\ \A txn : Ready(txn).tag = "ready"
  /\ \A tag, id : Reply(tag, id).tag = tag
  /\ Password.tag = "password" /\ Settings.tag = "settings"
  /\ Password.id = <<0, 0>> /\ Settings.id = <<0, 0>>
BY DEF Challenge, Ok, Ready, Reply, Password, Settings, Message

LEMMA NobodyAsksYet ==
  ASSUME Starting
  PROVE  ~MayAsk
<1>1. Readies(client.got) = 0
  <2>1. {i \in DOMAIN client.got : client.got[i].tag = "ready"} = {}
    BY DEF Starting
  <2>2. QED
    BY <2>1, FS_EmptySet DEF Readies
<1>2. QED
  BY <1>1 DEF Starting, MayAsk, Quiet

-----------------------------------------------------------------------------
(* The startup, one step at a time.                                        *)

LEMMA ClientStarts ==
  ASSUME Starting, ClientReads
  PROVE  Starting'
<1>1. UNCHANGED <<phase, toServer, fromServer, server>> /\ toClient # <<>>
  BY DEF ClientReads
<1>2. CASE toClient = <<Challenge>>
  <2>1. toClient' = <<>> /\ client' = client
    BY <1>2, Wires, Tags DEF ClientReads
  <2>2. toGateway' = Append(toGateway, Password)
    BY <1>2, Wires, Tags DEF ClientReads, Password
  <2>3. Authenticating /\ toGateway = <<>> /\ toServer = <<>> /\ fromServer = <<>>
    BY <1>2, Tags, Wires DEF Starting, Authenticating, Attributing, OnWires
  <2>4. QED
    BY <1>1, <2>1, <2>2, <2>3, Wires DEF Starting, Authenticating, OnWires
<1>3. CASE toClient = <<Ok>>
  <2>1. toClient' = <<>> /\ client' = client /\ toGateway' = toGateway
    BY <1>3, Wires, Tags DEF ClientReads
  <2>2. CASE Authenticating
    BY <1>1, <1>3, <2>1, <2>2, Wires, Tags DEF Starting, Authenticating, OnWires
  <2>3. CASE Attributing
    BY <1>1, <2>1, <2>3 DEF Starting, Attributing
  <2>4. QED
    BY <2>2, <2>3 DEF Starting
<1>4. QED
  BY <1>1, <1>2, <1>3 DEF Starting, Authenticating, Attributing, OnWires

LEMMA GatewayStarts ==
  ASSUME Starting, RelayPassword \/ RelayChallenge \/ HoldReady
  PROVE  Starting'
<1>1. client' = client /\ server' = server
  BY DEF RelayPassword, RelayChallenge, HoldReady, FirstReady
<1>2. Authenticating
  BY DEF RelayPassword, RelayChallenge, HoldReady, FirstReady, Starting, Attributing
<1>3. CASE RelayPassword
  <2>1. toGateway = <<Password>> /\ toServer = <<>> /\ fromServer = <<>> /\ toClient = <<>>
    BY <1>2, <1>3 DEF RelayPassword, Authenticating, OnWires
  <2>2. toServer' = <<Password>> /\ toGateway' = <<>>
    BY <1>3, <2>1, Wires DEF RelayPassword
  <2>3. QED
    BY <1>1, <1>2, <1>3, <2>1, <2>2 DEF RelayPassword, Starting, Authenticating, OnWires
<1>4. CASE RelayChallenge
  <2>1. CASE fromServer = <<Challenge>>
    <3>1. toGateway = <<>> /\ toServer = <<>> /\ toClient = <<>>
      BY <1>2, <2>1, Wires, Tags DEF Authenticating, OnWires
    <3>2. toClient' = <<Challenge>> /\ fromServer' = <<>>
      BY <1>4, <2>1, <3>1, Wires DEF RelayChallenge
    <3>3. QED
      BY <1>1, <1>2, <1>4, <3>1, <3>2 DEF RelayChallenge, Starting, Authenticating, OnWires
  <2>2. CASE fromServer = <<Ok, Ready("I")>>
    <3>1. toGateway = <<>> /\ toServer = <<>> /\ toClient = <<>>
      BY <1>2, <2>2, Wires, Tags DEF Authenticating, OnWires
    <3>2. toClient' = <<Ok>> /\ fromServer' = <<Ready("I")>>
      BY <1>4, <2>2, <3>1, Wires DEF RelayChallenge
    <3>3. QED
      BY <1>1, <1>2, <1>4, <3>1, <3>2 DEF RelayChallenge, Starting, Authenticating, OnWires
  <2>3. QED
    BY <1>2, <1>4, <2>1, <2>2, Wires, Tags DEF RelayChallenge, Authenticating, OnWires
<1>5. CASE HoldReady
  <2>1. fromServer = <<Ready("I")>>
    BY <1>2, <1>5, Wires, Tags DEF HoldReady, FirstReady, Authenticating, OnWires
  <2>2. toGateway = <<>> /\ toServer = <<>> /\ toClient \in {<<>>, <<Ok>>}
    BY <1>2, <2>1, Wires, Tags DEF Authenticating, OnWires
  <2>3. fromServer' = <<>> /\ toServer' = <<Settings>>
    BY <1>5, <2>1, <2>2, Wires DEF HoldReady, FirstReady, Settings
  <2>4. QED
    BY <1>1, <1>2, <1>5, <2>2, <2>3
    DEF HoldReady, FirstReady, Starting, Authenticating, Attributing
<1>6. QED
  BY <1>3, <1>4, <1>5

LEMMA AttributionEnds ==
  ASSUME Starting, SwallowAnswer
  PROVE  Starting' \/ Relaying'
<1>1. /\ Attributing /\ client' = client /\ server' = server
      /\ toGateway' = toGateway /\ toServer' = toServer
  BY DEF SwallowAnswer, Starting, Authenticating
<1>2. toServer = <<>> /\ server.actor # "unset"
  BY <1>1, Wires DEF Attributing, SwallowAnswer
<1>3. CASE fromServer = <<Ready("I")>>
  BY <1>1, <1>2, <1>3, Wires, Tags DEF SwallowAnswer, Relaying
<1>4. ASSUME NEW tag \in {"answer", "error"},
             fromServer = <<Reply(tag, <<0, 0>>), Ready("I")>>
      PROVE  Starting'
  <2>1. fromServer' = <<Ready("I")>> /\ phase' = phase /\ toClient' = toClient
    BY <1>4, Wires, Tags DEF SwallowAnswer
  <2>2. QED
    BY <1>1, <1>2, <2>1 DEF Starting, Attributing
<1>5. QED
  BY <1>1, <1>2, <1>3, <1>4, Wires DEF Attributing

LEMMA ServerStarts ==
  ASSUME Starting, DOMAIN server = Fields, Server
  PROVE  Starting' /\ DOMAIN server' = Fields
<1>1. UNCHANGED <<phase, toGateway, toClient, client>>
  BY DEF Server
<1>2. CASE Authenticating
  <2>1. /\ toServer = <<Password>> /\ toGateway = <<>>
        /\ fromServer = <<>> /\ toClient = <<>>
    BY <1>2 DEF Server, Authenticating, OnWires
  <2>2. toServer' = <<>> /\ ServerReads(Password)
    BY <2>1, Wires DEF Server
  <2>3. server' = server /\ fromServer' = <<Ok, Ready("I")>>
    <3>1. /\ fromServer' = fromServer \o <<Reply("ok", Password.id), Ready("I")>>
          /\ server' = server
      BY <2>2, Tags DEF ServerReads
    <3>2. QED
      BY <2>1, <3>1, Wires, Tags DEF Ok
  <2>4. QED
    BY <1>1, <1>2, <2>1, <2>2, <2>3 DEF Starting, Authenticating, OnWires
<1>3. CASE Attributing
  <2>1. toServer = <<Settings>> /\ fromServer = <<>>
    BY <1>3 DEF Server, Attributing
  <2>2. toServer' = <<>> /\ ServerReads(Settings)
    BY <2>1, Wires DEF Server
  <2>3. PICK done \in {"set", "refused"} :
          /\ fromServer' = fromServer \o
                <<Reply(IF done = "set" THEN "answer" ELSE "error", Settings.id), Ready("I")>>
          /\ server' = [server EXCEPT !.actor = done]
    BY <2>2, Tags DEF ServerReads
  <2>4. \E tag \in {"answer", "error"} :
          fromServer' = <<Reply(tag, <<0, 0>>), Ready("I")>>
    BY <2>1, <2>3, Wires, Tags
  <2>5. /\ server'.actor # "unset" /\ server'.ran = server.ran
        /\ DOMAIN server' = Fields
    BY <2>3 DEF Fields
  <2>6. QED
    BY <1>1, <1>3, <2>2, <2>4, <2>5 DEF Starting, Attributing
<1>4. QED
  BY <1>2, <1>3 DEF Starting

-----------------------------------------------------------------------------
LEMMA ActorStays ==
  ASSUME DOMAIN server = Fields, Relaying, Server
  PROVE  DOMAIN server' = Fields /\ Relaying'
<1> DEFINE m == Head(toServer)
<1>1. phase' = phase /\ ServerReads(m)
  BY DEF Server
<1>2. server' = server \/ (DOMAIN server' = Fields /\ server'.actor # "unset")
  <2>1. CASE m.tag \in {"password", "settings", "sync"}
    BY <1>1, <2>1 DEF ServerReads, Relaying, Fields
  <2>2. CASE m.tag \notin {"password", "settings", "sync"}
    BY <1>1, <2>2 DEF ServerReads, Relaying, Fields
  <2>3. QED
    BY <2>1, <2>2
<1>3. QED
  BY <1>1, <1>2 DEF Relaying

LEMMA InvariantHolds == Spec => []IInv
<1>1. Init => IInv
  BY DEF Init, IInv, Starting, Authenticating, OnWires, Fields, Challenge
<1>2. IInv /\ [Next]_vars => IInv'
  <2> SUFFICES ASSUME IInv, [Next]_vars PROVE IInv'
    OBVIOUS
  <2>1. CASE Starting
    <3>1. CASE AskQuery \/ AskBatch
      BY <2>1, <3>1, NobodyAsksYet DEF AskQuery, AskBatch
    <3>2. CASE ClientReads \/ RelayPassword \/ RelayChallenge \/ HoldReady
      BY <2>1, <3>2, ClientStarts, GatewayStarts
      DEF IInv, ClientReads, RelayPassword, RelayChallenge, HoldReady, FirstReady
    <3>3. CASE Server
      BY <2>1, <3>3, ServerStarts DEF IInv
    <3>4. CASE SwallowAnswer
      BY <2>1, <3>4, AttributionEnds DEF IInv, SwallowAnswer
    <3>5. CASE PumpsClient \/ RelayReply
      BY <2>1, <3>5 DEF PumpsClient, Forward, RefuseQuery, RefuseParse, Refused, SkipUntilSync,
         Reads, RelayReply, Starting, Authenticating, Attributing
    <3>6. CASE UNCHANGED vars
      BY <2>1, <3>6 DEF IInv, vars, Starting, Authenticating, Attributing, OnWires
    <3>7. QED
      BY <3>1, <3>2, <3>3, <3>4, <3>5, <3>6 DEF Next, Authenticates
  <2>2. CASE Relaying
    <3>1. CASE Server
      BY <2>2, <3>1, ActorStays DEF IInv
    <3>2. CASE ~Server
      BY <2>2, <3>2 DEF IInv, Relaying, Next, vars, ClientReads, AskQuery, AskBatch,
         Asks, Authenticates, RelayPassword, RelayChallenge, HoldReady, FirstReady, SwallowAnswer,
         PumpsClient, Forward, RefuseQuery, RefuseParse, Refused, SkipUntilSync, RelayReply
    <3>3. QED
      BY <3>1, <3>2
  <2>3. QED
    BY <2>1, <2>2 DEF IInv
<1>3. QED
  BY <1>1, <1>2, PTL DEF Spec

\* No statement of a client runs before the database knows whose it is, or has
\* declined to know, however the client batches and pipelines what it asks
\* (_relay_authentication and _inject_attribution, server.py:576-687).
THEOREM Attribution == Spec => []AttributedFirst
<1>1. IInv => AttributedFirst
  BY DEF IInv, Starting, Relaying, AttributedFirst
<1>2. QED
  BY <1>1, InvariantHolds, PTL


-----------------------------------------------------------------------------
(* One exchange at a time, of one statement at most.                        *)

OneByOne == ~Pipelines /\ MaxBatch <= 1

\* The exchange that is on its way, and the messages it consists of.
This == <<client.asked, 1>>
TheQuery(s) == Message("query", client.asked, 1, s)
TheParse(s) == Message("parse", client.asked, 1, s)
TheExecute(s) == Message("execute", client.asked, 1, s)
TheSync == Message("sync", client.asked, 2, "none")

Clean == server.held = <<>> /\ ~server.open /\ ~server.ignoring
Waiting == client.asked > 0 /\ Readies(client.got) = client.asked

\* Nothing is asked, and nothing is left of what was.
Resting == Quiet /\ Clean /\ ~inError /\ OnWires(<<>>, <<>>, <<>>, <<>>)

\* The first ReadyForQuery is on its way.
Welcomed ==
    /\ client.asked = 0 /\ client.got = <<>> /\ Clean /\ ~inError
    /\ \/ OnWires(<<>>, <<>>, <<>>, <<Ok, Ready("I")>>)
       \/ OnWires(<<>>, <<>>, <<>>, <<Ready("I")>>)

\* The statement has not come to the database yet.
Unread(s) ==
    \/ OnWires(<<TheQuery(s)>>, <<>>, <<>>, <<>>)
    \/ OnWires(<<>>, <<TheQuery(s)>>, <<>>, <<>>)
    \/ OnWires(<<TheParse(s), TheExecute(s), TheSync>>, <<>>, <<>>, <<>>)
    \/ OnWires(<<TheExecute(s), TheSync>>, <<TheParse(s)>>, <<>>, <<>>)
    \/ OnWires(<<TheSync>>, <<TheParse(s), TheExecute(s)>>, <<>>, <<>>)
    \/ OnWires(<<>>, <<TheParse(s), TheExecute(s), TheSync>>, <<>>, <<>>)
    \/ OnWires(<<TheExecute(s), TheSync>>, <<>>, <<>>, <<>>)
    \/ OnWires(<<TheSync>>, <<TheExecute(s)>>, <<>>, <<>>)
    \/ OnWires(<<>>, <<TheExecute(s), TheSync>>, <<>>, <<>>)

Asking ==
    /\ Waiting /\ Clean /\ ~inError /\ This \notin server.ran
    /\ \A i \in DOMAIN client.got : client.got[i].tag = "error" => client.got[i].id # This
    /\ \E s \in Statements : Unread(s)

\* It was executed, and the answer waits for the Sync.
Executed ==
    /\ Waiting /\ ~server.ignoring /\ ~inError /\ This \in server.ran
    /\ server.held = <<Reply("answer", This)>>
    /\ OnWires(<<TheSync>>, <<>>, <<>>, <<>>) \/ OnWires(<<>>, <<TheSync>>, <<>>, <<>>)

\* It failed, and the database ignores everything up to the Sync.
Failed ==
    /\ Waiting /\ server.held = <<>> /\ ~inError /\ This \notin server.ran
    /\ \E up, out \in {<<>>, <<TheSync>>}, in, down \in {<<>>, <<Reply("error", This)>>} :
          /\ up = <<>> <=> out # <<>>
          /\ in = <<>> \/ down = <<>>
          /\ OnWires(up, out, in, down)

\* It was refused when it was parsed, and the gateway ignores the rest.
Barred ==
    /\ Waiting /\ Clean /\ inError /\ This \notin server.ran
    /\ \E up \in {<<TheExecute(s), TheSync>> : s \in Statements} \cup {<<TheSync>>},
          down \in {<<>>, <<Reply("error", This)>>} : OnWires(up, <<>>, <<>>, down)

\* All of the exchange there is to come is its answer and a ReadyForQuery.
Returning(r, end) ==
    \/ OnWires(<<>>, <<>>, <<r, end>>, <<>>)
    \/ OnWires(<<>>, <<>>, <<end>>, <<r>>)
    \/ OnWires(<<>>, <<>>, <<>>, <<r, end>>)
    \/ OnWires(<<>>, <<>>, <<end>>, <<>>)
    \/ OnWires(<<>>, <<>>, <<>>, <<end>>)

Answered ==
    /\ Waiting /\ Clean /\ ~inError
    /\ \E txn \in {"I", "T", "E"} :
          Returning(Reply(IF This \in server.ran THEN "answer" ELSE "error", This), Ready(txn))

Stage == Resting \/ Welcomed \/ Asking \/ Executed \/ Failed \/ Barred \/ Answered

History ==
    /\ AnswersInOrder /\ AnswersAreTrue
    /\ \A id \in server.ran : id[1] <= client.asked
    /\ \A i \in DOMAIN client.got :
          client.got[i].tag \in {"answer", "error"} => client.got[i].id[1] <= client.asked

Orderly ==
    /\ History
    /\ Starting => Clean /\ ~inError
    /\ phase = "relaying" => Stage

-----------------------------------------------------------------------------
(* The shapes of what is on its way.                                        *)

Messages == [tag : {"password", "settings", "query", "parse", "execute", "sync"},
             id : Ids, sql : Statements \cup {"none"}]
Replies == [tag : {"challenge", "ok", "answer", "error", "ready"},
            id : Ids, txn : {"I", "T", "E"}]
Servers == [txn : {"I", "T", "E"}, ignoring : BOOLEAN, open : BOOLEAN,
            held : Seq(Replies), ran : SUBSET Ids, actor : {"unset", "set", "refused"}]
Clients == [asked : 0 .. MaxExchanges, got : Seq(Replies)]

LEMMA Shapes ==
  /\ TypeOK <=>
        /\ phase \in {"authenticating", "attributing", "relaying"}
        /\ toGateway \in Seq(Messages) /\ toServer \in Seq(Messages)
        /\ fromServer \in Seq(Replies) /\ toClient \in Seq(Replies)
        /\ inError \in BOOLEAN /\ server \in Servers /\ client \in Clients
  /\ TypeOK' <=>
        /\ phase' \in {"authenticating", "attributing", "relaying"}
        /\ toGateway' \in Seq(Messages) /\ toServer' \in Seq(Messages)
        /\ fromServer' \in Seq(Replies) /\ toClient' \in Seq(Replies)
        /\ inError' \in BOOLEAN /\ server' \in Servers /\ client' \in Clients
BY DEF TypeOK, Messages, Replies, Servers, Clients

LEMMA IdsTyped ==
  /\ <<0, 0>> \in Ids
  /\ \A x \in 0 .. MaxExchanges, n \in Places : <<x, n>> \in Ids
  /\ \A id \in Ids : id[1] \in 0 .. MaxExchanges /\ id[1] \in Nat
BY RelayAssumption DEF Ids, Places

LEMMA MadeTyped ==
  /\ \A t \in {"challenge", "ok", "answer", "error", "ready"}, id \in Ids : Reply(t, id) \in Replies
  /\ \A t \in {"I", "T", "E"} : Ready(t) \in Replies
  /\ Settings \in Messages /\ Password \in Messages
  /\ \A t \in {"query", "parse", "execute", "sync"}, x \in 0 .. MaxExchanges, n \in Places,
        s \in Statements \cup {"none"} : Message(t, x, n, s) \in Messages
BY IdsTyped, RelayAssumption DEF Reply, Ready, Replies, Settings, Password, Message, Messages, Places

\* What a queue or a pump does to a stream keeps its shape.
LEMMA StreamTyped ==
  ASSUME NEW T
  PROVE  /\ \A s \in Seq(T) : s # <<>> => Head(s) \in T /\ Tail(s) \in Seq(T)
         /\ \A s \in Seq(T), x \in T : Append(s, x) \in Seq(T)
         /\ \A s, t \in Seq(T) : s \o t \in Seq(T)
         /\ \A x \in T : <<x>> \in Seq(T)
         /\ \A x, y \in T : <<x, y>> \in Seq(T)
<1>1. \A s \in Seq(T) : s # <<>> => Head(s) \in T /\ Tail(s) \in Seq(T)
  BY HeadTailProperties
<1>2. \A s \in Seq(T), x \in T : Append(s, x) \in Seq(T)
  BY AppendProperties
<1>3. \A s, t \in Seq(T) : s \o t \in Seq(T)
  BY ConcatProperties
<1>4. (\A x \in T : <<x>> \in Seq(T)) /\ \A x, y \in T : <<x, y>> \in Seq(T)
  OBVIOUS
<1>5. QED
  BY <1>1, <1>2, <1>3, <1>4

LEMMA ServerTyped ==
  ASSUME TypeOK, Server
  PROVE  TypeOK'
<1> DEFINE m == Head(toServer)
<1>1. /\ toServer \in Seq(Messages) /\ fromServer \in Seq(Replies) /\ server \in Servers
      /\ UNCHANGED <<phase, toGateway, toClient, inError, client>>
      /\ toServer # <<>> /\ ServerReads(m) /\ toServer' = Tail(toServer)
  BY Shapes DEF Server
<1>2. m \in Messages /\ toServer' \in Seq(Messages)
  BY <1>1, StreamTyped
<1>3. m.id \in Ids /\ m.sql \in Statements \cup {"none"}
  BY <1>2 DEF Messages
<1>4. server.held \in Seq(Replies) /\ server.txn \in {"I", "T", "E"} /\ server.ran \in SUBSET Ids
  BY <1>1 DEF Servers
<1>5. \A o \in Outcomes(m.sql, server.txn) : o.txn \in {"I", "T", "E"}
  BY <1>4 DEF Outcomes
<1>6. \A o \in Outcomes(m.sql, server.txn) :
        Answer(m, o) \in Replies /\ Ready(o.txn) \in Replies /\ Run(m, o) \in SUBSET Ids
  BY <1>3, <1>4, <1>5, MadeTyped DEF Answer, Run
<1> HIDE DEF m
<1>7. fromServer' \in Seq(Replies) /\ server' \in Servers
  <2>1. CASE m.tag = "password"
    <3>1. fromServer' = fromServer \o <<Reply("ok", m.id), Ready("I")>> /\ server' = server
      BY <1>1, <2>1 DEF ServerReads
    <3>2. Reply("ok", m.id) \in Replies /\ Ready("I") \in Replies
      BY <1>3, MadeTyped
    <3>3. QED
      BY <1>1, <3>1, <3>2, StreamTyped
  <2>2. CASE m.tag = "settings"
    <3>1. PICK done \in {"set", "refused"} :
            /\ fromServer' = fromServer \o
                 <<Reply(IF done = "set" THEN "answer" ELSE "error", m.id), Ready("I")>>
            /\ server' = [server EXCEPT !.actor = done]
      BY <1>1, <2>2 DEF ServerReads
    <3>2. Reply(IF done = "set" THEN "answer" ELSE "error", m.id) \in Replies /\ Ready("I") \in Replies
      BY <1>3, MadeTyped
    <3>3. server' \in Servers
      BY <1>1, <3>1 DEF Servers
    <3>4. QED
      BY <1>1, <3>1, <3>2, <3>3, StreamTyped
  <2>3. CASE m.tag = "sync"
    <3>1. /\ fromServer' = fromServer \o server.held \o <<Ready(server.txn)>>
          /\ server' = [server EXCEPT !.held = <<>>, !.open = FALSE, !.ignoring = FALSE]
      BY <1>1, <2>3 DEF ServerReads
    <3>2. Ready(server.txn) \in Replies /\ <<>> \in Seq(Replies)
      BY <1>4, MadeTyped
    <3>3. server' \in Servers
      BY <1>1, <3>1, <3>2 DEF Servers
    <3>4. QED
      BY <1>1, <1>4, <3>1, <3>2, <3>3, StreamTyped
  <2>4. CASE m.tag = "query" /\ ~server.ignoring
    <3>1. PICK o \in Outcomes(m.sql, server.txn) :
            /\ fromServer' = fromServer \o server.held \o <<Answer(m, o), Ready(o.txn)>>
            /\ server' = [server EXCEPT !.txn = o.txn, !.ran = Run(m, o),
                                        !.held = <<>>, !.open = FALSE]
      BY <1>1, <2>4 DEF ServerReads
    <3> DEFINE ran == Run(m, o)
               txn == o.txn
    <3>2. ran \in SUBSET Ids /\ txn \in {"I", "T", "E"} /\ <<>> \in Seq(Replies)
      BY <1>5, <1>6
    <3>3. server' = [server EXCEPT !.txn = txn, !.ran = ran, !.held = <<>>, !.open = FALSE]
      BY <3>1
    <3> HIDE DEF ran, txn
    <3>4. server' \in Servers
      BY <1>1, <3>2, <3>3 DEF Servers
    <3>5. QED
      BY <1>1, <1>4, <1>6, <3>1, <3>4, StreamTyped
  <2>5. CASE m.tag = "execute" /\ ~server.ignoring
    <3>1. PICK o \in Outcomes(m.sql, server.txn) :
            LET said == Append(server.held, Answer(m, o))
            IN  /\ fromServer' = IF o.ok THEN fromServer ELSE fromServer \o said
                /\ server' = [server EXCEPT !.txn = o.txn, !.ran = Run(m, o),
                                            !.held = IF o.ok THEN said ELSE <<>>,
                                            !.open = TRUE, !.ignoring = ~o.ok]
      BY <1>1, <2>5 DEF ServerReads
    <3> DEFINE said == Append(server.held, Answer(m, o))
               held == IF o.ok THEN said ELSE <<>>
               ign  == ~o.ok
    <3>2. said \in Seq(Replies)
      BY <1>4, <1>6, StreamTyped
    <3>3. held \in Seq(Replies) /\ ign \in BOOLEAN
      BY <3>2
    <3>4. server' = [server EXCEPT !.txn = o.txn, !.ran = Run(m, o), !.held = held,
                                   !.open = TRUE, !.ignoring = ign]
          /\ fromServer' = IF o.ok THEN fromServer ELSE fromServer \o said
      BY <3>1
    <3> HIDE DEF said, held, ign
    <3>5. server' \in Servers
      BY <1>1, <1>5, <1>6, <3>3, <3>4 DEF Servers
    <3>6. QED
      BY <1>1, <3>2, <3>4, <3>5, StreamTyped
  <2>6. CASE UNCHANGED <<fromServer, server>>
    BY <1>1, <2>6
  <2>7. QED
    BY <1>1, <2>1, <2>2, <2>3, <2>4, <2>5, <2>6 DEF ServerReads
<1>8. QED
  BY <1>1, <1>2, <1>7, Shapes

\* The messages of a batch.
BatchOf(batch, n, x) ==
  [i \in 1 .. 2 * n |-> Message(IF i % 2 = 1 THEN "parse" ELSE "execute",
                                x, (i + 1) \div 2, batch[(i + 1) \div 2])]

LEMMA BatchTyped ==
  ASSUME NEW n \in 1 .. MaxBatch, NEW batch \in [1 .. n -> Statements], NEW x \in 0 .. MaxExchanges
  PROVE  /\ BatchOf(batch, n, x) \in Seq(Messages)
         /\ BatchOf(batch, n, x) \o <<Message("sync", x, n + 1, "none")>> \in Seq(Messages)
<1>1. n \in Nat /\ 2 * n \in Nat
  BY RelayAssumption
<1>2. ASSUME NEW i \in 1 .. 2 * n PROVE (i + 1) \div 2 \in 1 .. n
  BY <1>1, <1>2
<1>3. 1 .. n \subseteq Places /\ n + 1 \in Places
  BY RelayAssumption DEF Places
<1>4. ASSUME NEW i \in 1 .. 2 * n
      PROVE  Message(IF i % 2 = 1 THEN "parse" ELSE "execute", x, (i + 1) \div 2, batch[(i + 1) \div 2])
               \in Messages
  BY <1>2, <1>3, <1>4, MadeTyped
<1>5. BatchOf(batch, n, x) \in [1 .. 2 * n -> Messages]
  BY <1>4 DEF BatchOf
<1>6. BatchOf(batch, n, x) \in Seq(Messages)
  BY <1>1, <1>5, SeqDef
<1>7. <<Message("sync", x, n + 1, "none")>> \in Seq(Messages)
  BY <1>3, MadeTyped, StreamTyped
<1>8. QED
  BY <1>6, <1>7, StreamTyped

LEMMA StepTyped == ASSUME TypeOK, [Next]_vars PROVE TypeOK'
<1>1. /\ toGateway \in Seq(Messages) /\ toServer \in Seq(Messages)
      /\ fromServer \in Seq(Replies) /\ toClient \in Seq(Replies)
      /\ inError \in BOOLEAN /\ server \in Servers /\ client \in Clients
      /\ phase \in {"authenticating", "attributing", "relaying"}
  BY Shapes
<1>2. /\ toGateway # <<>> => Head(toGateway) \in Messages /\ Tail(toGateway) \in Seq(Messages)
      /\ fromServer # <<>> => Head(fromServer) \in Replies /\ Tail(fromServer) \in Seq(Replies)
      /\ toClient # <<>> => Head(toClient) \in Replies /\ Tail(toClient) \in Seq(Replies)
  BY <1>1, StreamTyped
<1>3. Ready("I") \in Replies /\ Password \in Messages /\ Settings \in Messages
  BY MadeTyped
<1>4. CASE ClientReads
  <2> DEFINE got == Append(client.got, Head(toClient))
  <2>1. toClient # <<>> /\ toClient' \in Seq(Replies) /\ UNCHANGED <<phase, toServer, fromServer, inError, server>>
    BY <1>2, <1>4 DEF ClientReads
  <2>2. client.got \in Seq(Replies)
    BY <1>1 DEF Clients
  <2>3. got \in Seq(Replies)
    BY <1>2, <2>1, <2>2, StreamTyped
  <2>4. client' = client \/ client' = [client EXCEPT !.got = got]
    BY <1>4 DEF ClientReads
  <2> HIDE DEF got
  <2>5. client' \in Clients
    BY <1>1, <2>3, <2>4 DEF Clients
  <2>6. toGateway' \in Seq(Messages)
    <3>1. toGateway' = Append(toGateway, Password) \/ toGateway' = toGateway
      BY <1>4 DEF ClientReads, Password
    <3>2. QED
      BY <1>1, <1>3, <3>1, StreamTyped
  <2>7. QED
    BY <1>1, <2>1, <2>5, <2>6, Shapes
<1>5. ASSUME NEW messages \in Seq(Messages), client.asked < MaxExchanges, Asks(messages) PROVE TypeOK'
  <2>1. client.asked + 1 \in 0 .. MaxExchanges
    BY <1>1, <1>5, RelayAssumption DEF Clients
  <2>2. client' \in Clients
    BY <1>1, <1>5, <2>1 DEF Asks, Clients
  <2>3. toGateway' \in Seq(Messages)
    BY <1>1, <1>5, StreamTyped DEF Asks
  <2>4. QED
    BY <1>1, <1>5, <2>2, <2>3, Shapes DEF Asks
<1>6. CASE AskQuery
  <2>1. PICK s \in Statements : Asks(<<Message("query", client.asked + 1, 1, s)>>)
    BY <1>6 DEF AskQuery
  <2>2. client.asked < MaxExchanges /\ client.asked + 1 \in 0 .. MaxExchanges /\ 1 \in Places
    BY <1>1, <1>6, RelayAssumption DEF AskQuery, MayAsk, Clients, Places
  <2>3. <<Message("query", client.asked + 1, 1, s)>> \in Seq(Messages)
    BY <2>2, MadeTyped, StreamTyped
  <2>4. QED
    BY <1>5, <2>1, <2>2, <2>3
<1>7. CASE AskBatch
  <2>1. PICK n \in 1 .. MaxBatch : \E batch \in [1 .. n -> Statements] :
          Asks(BatchOf(batch, n, client.asked + 1) \o <<Message("sync", client.asked + 1, n + 1, "none")>>)
    BY <1>7 DEF AskBatch, BatchOf
  <2>2. PICK batch \in [1 .. n -> Statements] :
          Asks(BatchOf(batch, n, client.asked + 1) \o <<Message("sync", client.asked + 1, n + 1, "none")>>)
    BY <2>1
  <2>3. client.asked < MaxExchanges /\ client.asked + 1 \in 0 .. MaxExchanges
    BY <1>1, <1>7, RelayAssumption DEF AskBatch, MayAsk, Clients
  <2>4. QED
    BY <1>5, <2>2, <2>3, BatchTyped
<1>8. CASE Server
  BY <1>8, ServerTyped
<1>9. CASE RelayPassword \/ Forward
  <2>1. /\ toGateway # <<>> /\ toServer' = Append(toServer, Head(toGateway)) /\ toGateway' = Tail(toGateway)
        /\ UNCHANGED <<phase, fromServer, toClient, inError, server, client>>
    BY <1>9 DEF RelayPassword, Forward, Reads
  <2>2. QED
    BY <1>1, <1>2, <2>1, StreamTyped, Shapes
<1>10. CASE RelayChallenge \/ RelayReply
  <2>1. /\ fromServer # <<>> /\ toClient' = Append(toClient, Head(fromServer))
        /\ fromServer' = Tail(fromServer)
        /\ UNCHANGED <<phase, toGateway, toServer, inError, server, client>>
    BY <1>10 DEF RelayChallenge, RelayReply
  <2>2. QED
    BY <1>1, <1>2, <2>1, StreamTyped, Shapes
<1>11. CASE HoldReady
  <2>1. /\ fromServer # <<>> /\ fromServer' = Tail(fromServer) /\ phase' = "attributing"
        /\ toServer' = Append(toServer, Settings)
        /\ UNCHANGED <<toGateway, inError, server, client, toClient>>
    BY <1>11 DEF HoldReady, FirstReady
  <2>2. QED
    BY <1>1, <1>2, <1>3, <2>1, StreamTyped, Shapes
<1>12. CASE SwallowAnswer
  <2>1. /\ fromServer # <<>> /\ fromServer' = Tail(fromServer) /\ phase' \in {phase, "relaying"}
        /\ toClient' = Append(toClient, Ready("I")) \/ toClient' = toClient
        /\ UNCHANGED <<toGateway, toServer, inError, server, client>>
    BY <1>12 DEF SwallowAnswer
  <2>2. QED
    BY <1>1, <1>2, <1>3, <2>1, StreamTyped, Shapes
<1>13. CASE RefuseQuery \/ RefuseParse
  <2>1. toGateway # <<>> /\ toGateway' = Tail(toGateway) /\ Refusal \in Replies
    <3>1. toGateway # <<>> /\ toGateway' = Tail(toGateway)
      BY <1>13 DEF RefuseQuery, RefuseParse, Refused, Reads
    <3>2. Head(toGateway).id \in Ids
      BY <1>2, <3>1 DEF Messages
    <3>3. QED
      BY <3>1, <3>2, MadeTyped DEF Refusal
  <2>2. /\ toClient' = toClient \o <<Refusal, Ready("I")>> \/ toClient' = toClient \o <<Refusal>>
        /\ inError' \in BOOLEAN
        /\ UNCHANGED <<phase, toServer, fromServer, server, client>>
    BY <1>1, <1>13 DEF RefuseQuery, RefuseParse, Refused
  <2>3. toClient' \in Seq(Replies)
    BY <1>1, <1>3, <2>1, <2>2, StreamTyped
  <2>4. QED
    BY <1>1, <1>2, <2>1, <2>2, <2>3, Shapes
<1>14. CASE SkipUntilSync
  <2>1. /\ toGateway # <<>> /\ toGateway' = Tail(toGateway) /\ inError' \in BOOLEAN
        /\ toClient' = toClient \/ toClient' = Append(toClient, Ready("I"))
        /\ UNCHANGED <<phase, toServer, fromServer, server, client>>
    BY <1>14 DEF SkipUntilSync, Reads
  <2>2. QED
    BY <1>1, <1>2, <1>3, <2>1, StreamTyped, Shapes
<1>15. CASE UNCHANGED vars
  BY <1>1, <1>15, Shapes DEF vars
<1>16. QED
  BY <1>4, <1>6, <1>7, <1>8, <1>9, <1>10, <1>11, <1>12, <1>13, <1>14, <1>15
  DEF Next, Authenticates, PumpsClient

\* What is on its way, the ends of the connection and the session keep their
\* shapes, whatever a client asks at a time.
THEOREM Typed == Spec => []TypeOK
<1>1. Init => TypeOK
  <2> SUFFICES ASSUME Init PROVE TypeOK
    OBVIOUS
  <2>1. Reply("challenge", <<0, 0>>) \in Replies
    BY MadeTyped, IdsTyped
  <2>2. fromServer \in Seq(Replies)
    BY <2>1, StreamTyped DEF Init
  <2>3. server \in Servers /\ client \in Clients
    BY RelayAssumption DEF Init, Servers, Clients
  <2>4. inError \in BOOLEAN
    BY Zenon DEF Init
  <2>5. /\ phase \in {"authenticating", "attributing", "relaying"}
        /\ toGateway \in Seq(Messages) /\ toServer \in Seq(Messages) /\ toClient \in Seq(Replies)
    BY DEF Init
  <2>6. QED
    BY <2>2, <2>3, <2>4, <2>5, Shapes
<1>2. TypeOK /\ [Next]_vars => TypeOK'
  BY StepTyped
<1>3. QED
  BY <1>1, <1>2, PTL DEF Spec

-----------------------------------------------------------------------------
(* Counting and ordering what the client has got.                           *)

LEMMA ReadiesCounts ==
  ASSUME NEW s \in Seq(Replies), NEW x \in Replies
  PROVE  /\ Readies(s) \in Nat
         /\ Readies(Append(s, x)) = Readies(s) + (IF x.tag = "ready" THEN 1 ELSE 0)
<1> DEFINE n == Len(s)
           u == Append(s, x)
           A == {i \in DOMAIN s : s[i].tag = "ready"}
           B == {i \in DOMAIN u : u[i].tag = "ready"}
<1>1. n \in Nat /\ DOMAIN s = 1 .. n /\ DOMAIN u = 1 .. n + 1
  BY LenProperties, AppendProperties
<1>2. (\A i \in 1 .. n : u[i] = s[i]) /\ u[n + 1] = x
  BY AppendProperties
<1>3. IsFiniteSet(A) /\ n + 1 \notin A /\ A \subseteq 1 .. n
  <2>1. IsFiniteSet(1 .. n)
    BY <1>1, FS_Interval
  <2>2. A \subseteq 1 .. n /\ n + 1 \notin 1 .. n
    BY <1>1
  <2>3. QED
    BY <2>1, <2>2, FS_Subset
<1>4. B = IF x.tag = "ready" THEN A \cup {n + 1} ELSE A
  <2>1. \A i \in 1 .. n + 1 : i \in 1 .. n \/ i = n + 1
    BY <1>1
  <2>2. \A i : i \in B <=> i \in 1 .. n + 1 /\ u[i].tag = "ready"
    BY <1>1
  <2>3. \A i : i \in A <=> i \in 1 .. n /\ s[i].tag = "ready"
    BY <1>1
  <2>4. 1 .. n \subseteq 1 .. n + 1 /\ n + 1 \in 1 .. n + 1
    BY <1>1
  <2> HIDE DEF A, B, u, n
  <2>5. QED
    BY <1>2, <2>1, <2>2, <2>3, <2>4
<1>5. Cardinality(A) \in Nat /\ Cardinality(A \cup {n + 1}) = Cardinality(A) + 1
  BY <1>3, FS_CardinalityType, FS_AddElement
<1>6. Readies(s) = Cardinality(A) /\ Readies(u) = Cardinality(B)
  BY DEF Readies
<1> HIDE DEF A, B, u, n
<1>7. QED
  BY <1>4, <1>5, <1>6 DEF u

LEMMA ReadiesEmpty == Readies(<<>>) = 0
<1>1. {i \in DOMAIN <<>> : <<>>[i].tag = "ready"} = {}
  OBVIOUS
<1>2. QED
  BY <1>1, FS_EmptySet DEF Readies

LEMMA PrefixKept ==
  ASSUME NEW s \in Seq(Replies), NEW x \in Replies
  PROVE  /\ \A i \in 1 .. Len(s) : SubSeq(Append(s, x), 1, i) = SubSeq(s, 1, i)
         /\ SubSeq(Append(s, x), 1, Len(s) + 1) = Append(s, x)
<1> DEFINE n == Len(s)
           u == Append(s, x)
<1>1. n \in Nat /\ u \in Seq(Replies) /\ Len(u) = n + 1 /\ \A i \in 1 .. n : u[i] = s[i]
  BY LenProperties, AppendProperties
<1>2. ASSUME NEW i \in 1 .. n PROVE SubSeq(u, 1, i) = SubSeq(s, 1, i)
  <2>1. /\ SubSeq(u, 1, i) = [k \in 1 .. i |-> u[k]] /\ SubSeq(s, 1, i) = [k \in 1 .. i |-> s[k]]
    BY <1>1, <1>2, SubSeqProperties
  <2>2. QED
    BY <1>1, <1>2, <2>1
<1>3. SubSeq(u, 1, n + 1) = u
  BY <1>1, SubSeqFull
<1>4. QED
  BY <1>2, <1>3

\* The client gets r, which is not late, and true.
LEMMA Hears ==
  ASSUME TypeOK, History, toClient # <<>>,
         client' = [client EXCEPT !.got = Append(@, Head(toClient))], server' = server,
         Head(toClient).tag \in {"answer", "error"} =>
           /\ Head(toClient).id = This /\ Readies(client.got) = client.asked
           /\ Head(toClient).tag = "answer" <=> This \in server.ran
  PROVE  /\ History' /\ client'.asked = client.asked
         /\ Readies(client'.got) = Readies(client.got) + (IF Head(toClient).tag = "ready" THEN 1 ELSE 0)
<1> DEFINE r == Head(toClient)
           got == client.got
           n == Len(got)
<1>1. r \in Replies /\ got \in Seq(Replies) /\ client.asked \in Nat /\ client \in Clients
  BY Shapes, StreamTyped, RelayAssumption DEF Clients
<1>2. client'.asked = client.asked /\ client'.got = Append(got, r)
  BY <1>1 DEF Clients
<1>3. /\ n \in Nat /\ DOMAIN got = 1 .. n /\ DOMAIN (client'.got) = 1 .. n + 1
      /\ (\A i \in 1 .. n : client'.got[i] = got[i]) /\ client'.got[n + 1] = r
  BY <1>1, <1>2, LenProperties, AppendProperties
<1>4. \A i \in DOMAIN (client'.got) : i \in DOMAIN got \/ i = n + 1
  BY <1>3
<1>5. Readies(client'.got) = Readies(got) + (IF r.tag = "ready" THEN 1 ELSE 0) /\ Readies(got) \in Nat
  BY <1>1, <1>2, ReadiesCounts
<1> HIDE DEF r
<1>6. ASSUME r.tag \in {"answer", "error"}
      PROVE  /\ r.id = This /\ r.id[1] = client.asked /\ Readies(client'.got) = client.asked
             /\ r.tag = "answer" <=> r.id \in server.ran
  BY <1>1, <1>5, <1>6 DEF r, This
<1>7. AnswersInOrder'
  <2>1. ASSUME NEW i \in DOMAIN (client'.got), client'.got[i].tag \in {"answer", "error"}
        PROVE  client'.got[i].id[1] = Readies(SubSeq(client'.got, 1, i))
    <3> DEFINE heard == client'.got
    <3>1. CASE i = n + 1
      <4>1. SubSeq(heard, 1, i) = heard
        BY <1>1, <1>2, <3>1, PrefixKept
      <4>2. heard[i] = r
        BY <1>3, <3>1
      <4>3. r.tag \in {"answer", "error"}
        BY <2>1, <4>2
      <4>4. r.id[1] = Readies(heard) /\ heard[i].id[1] = r.id[1]
        BY <1>6, <4>2, <4>3
      <4>5. Readies(SubSeq(heard, 1, i)) = Readies(heard)
        BY <4>1
      <4>6. QED
        BY <4>4, <4>5
    <3>2. CASE i \in DOMAIN got
      <4>1. SubSeq(heard, 1, i) = SubSeq(got, 1, i)
        BY <1>1, <1>2, <1>3, <3>2, PrefixKept
      <4>2. heard[i] = got[i]
        BY <1>3, <3>2
      <4>3. got[i].tag \in {"answer", "error"}
        BY <2>1, <4>2
      <4>4. got[i].id[1] = Readies(SubSeq(got, 1, i))
        BY <3>2, <4>3 DEF History, AnswersInOrder
      <4>5. QED
        BY <4>1, <4>2, <4>4
    <3>3. QED
      BY <1>4, <3>1, <3>2
  <2>2. QED
    BY <2>1 DEF AnswersInOrder
<1>8. AnswersAreTrue'
  <2>1. ASSUME NEW i \in DOMAIN (client'.got)
        PROVE  /\ client'.got[i].tag = "answer" => client'.got[i].id \in server.ran
               /\ client'.got[i].tag = "error" => client'.got[i].id \notin server.ran
    <3>1. CASE i = n + 1
      BY <1>3, <1>6, <3>1
    <3>2. CASE i \in DOMAIN got
      BY <1>3, <3>2 DEF History, AnswersAreTrue
    <3>3. QED
      BY <1>4, <3>1, <3>2
  <2>2. QED
    BY <2>1 DEF AnswersAreTrue
<1>9. ASSUME NEW i \in DOMAIN (client'.got), client'.got[i].tag \in {"answer", "error"}
      PROVE  client'.got[i].id[1] <= client'.asked
  <2>1. CASE i = n + 1
    BY <1>1, <1>2, <1>3, <1>6, <1>9, <2>1
  <2>2. CASE i \in DOMAIN got
    BY <1>2, <1>3, <1>9, <2>2 DEF History
  <2>3. QED
    BY <1>4, <2>1, <2>2
<1>10. \A id \in server'.ran : id[1] <= client'.asked
  BY <1>2 DEF History
<1>11. QED
  BY <1>2, <1>5, <1>7, <1>8, <1>9, <1>10 DEF History, r

-----------------------------------------------------------------------------
(* The messages of an exchange, and what a step makes of the stage it is in. *)

LEMMA Longer ==
  /\ \A x, y, z : /\ <<x, y, z>> # <<>> /\ Head(<<x, y, z>>) = x /\ Tail(<<x, y, z>>) = <<y, z>>
                  /\ Append(<<x, y>>, z) = <<x, y, z>> /\ <<>> \o <<x, y, z>> = <<x, y, z>>
  /\ \A x, y : Append(<<x>>, y) = <<x, y>> /\ <<x>> \o <<y>> = <<x, y>>
  /\ \A x : <<>> \o <<x>> = <<x>> /\ <<>> \o <<>> = <<>> /\ <<x>> \o <<>> = <<x>>
<1>1. ASSUME NEW x, NEW y, NEW z
      PROVE  /\ <<x, y, z>> # <<>> /\ Head(<<x, y, z>>) = x /\ Tail(<<x, y, z>>) = <<y, z>>
             /\ Append(<<x, y>>, z) = <<x, y, z>> /\ <<>> \o <<x, y, z>> = <<x, y, z>>
  <2>1. <<x, y, z>> \in Seq({x, y, z}) /\ <<x, y>> \in Seq({x, y, z})
    OBVIOUS
  <2>2. <<>> \o <<x, y, z>> = <<x, y, z>>
    BY <2>1, ConcatEmptySeq
  <2>3. <<x, y, z>> # <<>> /\ Head(<<x, y, z>>) = x /\ Tail(<<x, y, z>>) = <<y, z>>
    OBVIOUS
  <2>4. Append(<<x, y>>, z) = <<x, y, z>>
    <3> DEFINE u == Append(<<x, y>>, z)
               v == <<x, y, z>>
    <3>1. u \in Seq({x, y, z}) /\ Len(u) = 3 /\ u[1] = x /\ u[2] = y /\ u[3] = z
      BY <2>1, AppendProperties
    <3>2. v \in Seq({x, y, z}) /\ Len(v) = 3 /\ v[1] = x /\ v[2] = y /\ v[3] = z
      BY <2>1
    <3> HIDE DEF u, v
    <3>3. \A i \in 1 .. Len(u) : u[i] = v[i]
      <4>1. \A i \in 1 .. 3 : i = 1 \/ i = 2 \/ i = 3
        OBVIOUS
      <4>2. QED
        BY <3>1, <3>2, <4>1
    <3>4. u = v
      BY <3>1, <3>2, <3>3, SeqEqual
    <3>5. QED
      BY <3>4 DEF u, v
  <2>5. QED
    BY <2>2, <2>3, <2>4
<1>2. ASSUME NEW x, NEW y PROVE Append(<<x>>, y) = <<x, y>> /\ <<x>> \o <<y>> = <<x, y>>
  <2>1. Append(<<x>>, y) = <<x, y>>
    <3> DEFINE u == Append(<<x>>, y)
               v == <<x, y>>
    <3>1. u \in Seq({x, y}) /\ Len(u) = 2 /\ u[1] = x /\ u[2] = y
      <4>1. <<x>> \in Seq({x, y}) /\ y \in {x, y} /\ Len(<<x>>) = 1 /\ <<x>>[1] = x
        OBVIOUS
      <4>2. QED
        BY <4>1, AppendProperties
    <3>2. v \in Seq({x, y}) /\ Len(v) = 2 /\ v[1] = x /\ v[2] = y
      OBVIOUS
    <3> HIDE DEF u, v
    <3>3. \A i \in 1 .. Len(u) : u[i] = v[i]
      <4>1. \A i \in 1 .. 2 : i = 1 \/ i = 2
        OBVIOUS
      <4>2. QED
        BY <3>1, <3>2, <4>1
    <3>4. u = v
      BY <3>1, <3>2, <3>3, SeqEqual
    <3>5. QED
      BY <3>4 DEF u, v
  <2>2. <<x>> \o <<y>> = Append(<<x>>, y)
    <3>1. <<x>> \in Seq({x, y}) /\ y \in {x, y}
      OBVIOUS
    <3>2. QED
      BY <3>1, AppendIsConcat
  <2>3. QED
    BY <2>1, <2>2
<1>3. ASSUME NEW x PROVE <<>> \o <<x>> = <<x>> /\ <<>> \o <<>> = <<>> /\ <<x>> \o <<>> = <<x>>
  <2>1. <<x>> \in Seq({x}) /\ <<>> \in Seq({x})
    OBVIOUS
  <2>2. QED
    BY <2>1, ConcatEmptySeq
<1>4. QED
  BY <1>1, <1>2, <1>3

LEMMA AskedTags ==
  /\ \A s : /\ TheQuery(s).tag = "query" /\ TheQuery(s).id = This /\ TheQuery(s).sql = s
            /\ TheParse(s).tag = "parse" /\ TheParse(s).id = This /\ TheParse(s).sql = s
            /\ TheExecute(s).tag = "execute" /\ TheExecute(s).id = This /\ TheExecute(s).sql = s
  /\ TheSync.tag = "sync"
BY DEF TheQuery, TheParse, TheExecute, TheSync, This, Message

LEMMA SameExchange ==
  ASSUME client'.asked = client.asked
  PROVE  /\ This' = This /\ TheSync' = TheSync
         /\ \A s : /\ TheQuery(s)' = TheQuery(s) /\ TheParse(s)' = TheParse(s)
                   /\ TheExecute(s)' = TheExecute(s)
BY DEF This, TheSync, TheQuery, TheParse, TheExecute

LEMMA HistorySame ==
  ASSUME History, client' = client, server'.ran = server.ran
  PROVE  History'
BY DEF History, AnswersInOrder, AnswersAreTrue


\* What the gateway takes from the client is left of the exchange on its way.
LEMMA Taken ==
  ASSUME Stage, toGateway # <<>>
  PROVE  \/ /\ Asking
            /\ \E s \in Statements :
                 \/ OnWires(<<TheQuery(s)>>, <<>>, <<>>, <<>>)
                 \/ OnWires(<<TheParse(s), TheExecute(s), TheSync>>, <<>>, <<>>, <<>>)
                 \/ OnWires(<<TheExecute(s), TheSync>>, <<TheParse(s)>>, <<>>, <<>>)
                 \/ OnWires(<<TheExecute(s), TheSync>>, <<>>, <<>>, <<>>)
                 \/ OnWires(<<TheSync>>, <<TheParse(s), TheExecute(s)>>, <<>>, <<>>)
                 \/ OnWires(<<TheSync>>, <<TheExecute(s)>>, <<>>, <<>>)
         \/ Executed /\ OnWires(<<TheSync>>, <<>>, <<>>, <<>>)
         \/ /\ Failed
            /\ \E in, down \in {<<>>, <<Reply("error", This)>>} :
                 (in = <<>> \/ down = <<>>) /\ OnWires(<<TheSync>>, <<>>, in, down)
         \/ Barred
<1>1. ~Resting /\ ~Welcomed /\ ~Answered
  BY DEF Resting, Welcomed, Answered, Returning, OnWires
<1>2. CASE Asking
  <2>1. PICK s \in Statements : Unread(s)
    BY <1>2 DEF Asking
  <2>2. \/ OnWires(<<TheQuery(s)>>, <<>>, <<>>, <<>>)
        \/ OnWires(<<TheParse(s), TheExecute(s), TheSync>>, <<>>, <<>>, <<>>)
        \/ OnWires(<<TheExecute(s), TheSync>>, <<TheParse(s)>>, <<>>, <<>>)
        \/ OnWires(<<TheExecute(s), TheSync>>, <<>>, <<>>, <<>>)
        \/ OnWires(<<TheSync>>, <<TheParse(s), TheExecute(s)>>, <<>>, <<>>)
        \/ OnWires(<<TheSync>>, <<TheExecute(s)>>, <<>>, <<>>)
    BY <2>1 DEF Unread, OnWires
  <2>3. QED
    BY <1>2, <2>2
<1>3. CASE Executed
  BY <1>3 DEF Executed, OnWires
<1>4. CASE Failed
  <2>1. PICK up, out \in {<<>>, <<TheSync>>}, in, down \in {<<>>, <<Reply("error", This)>>} :
          /\ up = <<>> <=> out # <<>>
          /\ in = <<>> \/ down = <<>>
          /\ OnWires(up, out, in, down)
    BY <1>4 DEF Failed
  <2>2. up = <<TheSync>> /\ out = <<>>
    BY <2>1, Wires DEF OnWires
  <2>3. (in = <<>> \/ down = <<>>) /\ OnWires(<<TheSync>>, <<>>, in, down)
    BY <2>1, <2>2
  <2>4. QED
    BY <1>4, <2>3
<1>5. QED
  BY <1>1, <1>2, <1>3, <1>4 DEF Stage

LEMMA Forwarded ==
  ASSUME History, Stage, Forward
  PROVE  History' /\ Stage'
<1>1. /\ toGateway # <<>> /\ ~inError /\ ~inError'
      /\ toServer' = Append(toServer, Head(toGateway)) /\ toGateway' = Tail(toGateway)
      /\ fromServer' = fromServer /\ toClient' = toClient /\ client' = client /\ server' = server
  BY DEF Forward, Reads
<1>2. ~Barred
  BY <1>1 DEF Barred
<1>3. History' /\ Waiting' = Waiting /\ Clean' = Clean
  BY <1>1, HistorySame DEF Waiting, Clean
<1>4. /\ This' = This /\ TheSync' = TheSync
      /\ \A s : /\ TheQuery(s)' = TheQuery(s) /\ TheParse(s)' = TheParse(s)
                /\ TheExecute(s)' = TheExecute(s)
  BY <1>1, SameExchange
<1>5. ASSUME Asking, NEW s \in Statements, Unread(s)' PROVE Asking'
  BY <1>1, <1>3, <1>4, <1>5 DEF Asking
<1>6. ASSUME NEW s \in Statements, Asking,
             \/ OnWires(<<TheQuery(s)>>, <<>>, <<>>, <<>>)
             \/ OnWires(<<TheParse(s), TheExecute(s), TheSync>>, <<>>, <<>>, <<>>)
             \/ OnWires(<<TheExecute(s), TheSync>>, <<TheParse(s)>>, <<>>, <<>>)
             \/ OnWires(<<TheExecute(s), TheSync>>, <<>>, <<>>, <<>>)
             \/ OnWires(<<TheSync>>, <<TheParse(s), TheExecute(s)>>, <<>>, <<>>)
             \/ OnWires(<<TheSync>>, <<TheExecute(s)>>, <<>>, <<>>)
      PROVE  Asking'
  <2>1. CASE OnWires(<<TheQuery(s)>>, <<>>, <<>>, <<>>)
    <3>1. toGateway' = <<>> /\ toServer' = <<TheQuery(s)>> /\ fromServer' = <<>> /\ toClient' = <<>>
      BY <1>1, <2>1, Wires DEF OnWires
    <3>2. QED
      BY <1>4, <1>5, <1>6, <3>1 DEF Unread, OnWires
  <2>2. CASE OnWires(<<TheParse(s), TheExecute(s), TheSync>>, <<>>, <<>>, <<>>)
    <3>1. /\ toGateway' = <<TheExecute(s), TheSync>> /\ toServer' = <<TheParse(s)>>
          /\ fromServer' = <<>> /\ toClient' = <<>>
      BY <1>1, <2>2, Wires, Longer DEF OnWires
    <3>2. QED
      BY <1>4, <1>5, <1>6, <3>1 DEF Unread, OnWires
  <2>3. CASE OnWires(<<TheExecute(s), TheSync>>, <<TheParse(s)>>, <<>>, <<>>)
    <3>1. /\ toGateway' = <<TheSync>> /\ toServer' = <<TheParse(s), TheExecute(s)>>
          /\ fromServer' = <<>> /\ toClient' = <<>>
      BY <1>1, <2>3, Wires, Longer DEF OnWires
    <3>2. QED
      BY <1>4, <1>5, <1>6, <3>1 DEF Unread, OnWires
  <2>4. CASE OnWires(<<TheExecute(s), TheSync>>, <<>>, <<>>, <<>>)
    <3>1. /\ toGateway' = <<TheSync>> /\ toServer' = <<TheExecute(s)>>
          /\ fromServer' = <<>> /\ toClient' = <<>>
      BY <1>1, <2>4, Wires DEF OnWires
    <3>2. QED
      BY <1>4, <1>5, <1>6, <3>1 DEF Unread, OnWires
  <2>5. CASE OnWires(<<TheSync>>, <<TheParse(s), TheExecute(s)>>, <<>>, <<>>)
    <3>1. /\ toGateway' = <<>> /\ toServer' = <<TheParse(s), TheExecute(s), TheSync>>
          /\ fromServer' = <<>> /\ toClient' = <<>>
      BY <1>1, <2>5, Wires, Longer DEF OnWires
    <3>2. QED
      BY <1>4, <1>5, <1>6, <3>1 DEF Unread, OnWires
  <2>6. CASE OnWires(<<TheSync>>, <<TheExecute(s)>>, <<>>, <<>>)
    <3>1. /\ toGateway' = <<>> /\ toServer' = <<TheExecute(s), TheSync>>
          /\ fromServer' = <<>> /\ toClient' = <<>>
      BY <1>1, <2>6, Wires, Longer DEF OnWires
    <3>2. QED
      BY <1>4, <1>5, <1>6, <3>1 DEF Unread, OnWires
  <2>7. QED
    BY <1>6, <2>1, <2>2, <2>3, <2>4, <2>5, <2>6
<1>7. ASSUME toGateway = <<TheSync>>, toServer = <<>>
      PROVE  toGateway' = <<>> /\ toServer' = <<TheSync>>
  BY <1>1, <1>7, Wires
<1>8. ASSUME Executed, OnWires(<<TheSync>>, <<>>, <<>>, <<>>) PROVE Executed'
  BY <1>1, <1>3, <1>4, <1>7, <1>8 DEF Executed, OnWires
<1>9. ASSUME Failed, NEW in \in {<<>>, <<Reply("error", This)>>}, NEW down \in {<<>>, <<Reply("error", This)>>},
             in = <<>> \/ down = <<>>, OnWires(<<TheSync>>, <<>>, in, down)
      PROVE  Failed'
  <2>1. toGateway' = <<>> /\ toServer' = <<TheSync>> /\ fromServer' = in /\ toClient' = down
    BY <1>1, <1>7, <1>9 DEF OnWires
  <2>2. Reply("error", This)' = Reply("error", This)
    BY <1>4
  <2>3. Waiting' /\ server'.held = <<>> /\ ~inError' /\ This' \notin server'.ran
    BY <1>1, <1>3, <1>4, <1>9 DEF Failed
  <2>4. OnWires(<<>>, <<TheSync>>, in, down)'
    BY <1>4, <2>1 DEF OnWires
  <2>5. <<>> \in {<<>>, <<TheSync'>>} /\ <<TheSync'>> \in {<<>>, <<TheSync'>>} /\ <<TheSync'>> # <<>>
    BY Wires
  <2>6. QED
    BY <1>4, <1>9, <2>2, <2>3, <2>4, <2>5 DEF Failed, OnWires
<1>10. QED
  BY <1>1, <1>2, <1>3, <1>6, <1>8, <1>9, Taken DEF Stage

LEMMA QueryRefused ==
  ASSUME History, Stage, RefuseQuery
  PROVE  History' /\ Stage'
<1>1. /\ toGateway # <<>> /\ Head(toGateway).tag = "query" /\ ~inError /\ ~inError'
      /\ toClient' = toClient \o <<Refusal, Ready("I")>> /\ toGateway' = Tail(toGateway)
      /\ toServer' = toServer /\ fromServer' = fromServer /\ client' = client /\ server' = server
  BY DEF RefuseQuery, Refused, Reads
<1>2. History' /\ Waiting' = Waiting /\ Clean' = Clean
  BY <1>1, HistorySame DEF Waiting, Clean
<1>3. This' = This
  BY <1>1, SameExchange
<1>4. Asking /\ \E s \in Statements : OnWires(<<TheQuery(s)>>, <<>>, <<>>, <<>>)
  BY <1>1, Taken, Wires, Longer, AskedTags DEF OnWires, Barred
<1>5. PICK s \in Statements : OnWires(<<TheQuery(s)>>, <<>>, <<>>, <<>>)
  BY <1>4
<1>6. Refusal = Reply("error", This)
  BY <1>5, Wires, AskedTags DEF Refusal, OnWires
<1>7. OnWires(<<>>, <<>>, <<>>, <<Reply("error", This), Ready("I")>>)'
  <2>1. toGateway' = <<>> /\ toServer' = <<>> /\ fromServer' = <<>>
    BY <1>1, <1>5, Wires DEF OnWires
  <2>2. toClient' = <<Reply("error", This), Ready("I")>>
    BY <1>1, <1>5, <1>6, Wires DEF OnWires
  <2>3. QED
    BY <1>3, <2>1, <2>2 DEF OnWires
<1>8. Waiting' /\ Clean' /\ This' \notin server'.ran
  BY <1>1, <1>2, <1>3, <1>4 DEF Asking
<1>9. Answered'
  BY <1>1, <1>3, <1>7, <1>8 DEF Answered, Returning, OnWires
<1>10. QED
  BY <1>2, <1>9 DEF Stage

LEMMA ParseRefused ==
  ASSUME History, Stage, RefuseParse
  PROVE  History' /\ Stage'
<1>1. /\ toGateway # <<>> /\ Head(toGateway).tag = "parse" /\ inError' /\ ~inError
      /\ toClient' = toClient \o <<Refusal>> /\ toGateway' = Tail(toGateway)
      /\ toServer' = toServer /\ fromServer' = fromServer /\ client' = client /\ server' = server
  BY DEF RefuseParse, Refused, Reads
<1>2. History' /\ Waiting' = Waiting /\ Clean' = Clean
  BY <1>1, HistorySame DEF Waiting, Clean
<1>3. This' = This /\ TheSync' = TheSync /\ \A s : TheExecute(s)' = TheExecute(s)
  BY <1>1, SameExchange
<1>4. Asking /\ \E s \in Statements :
                  OnWires(<<TheParse(s), TheExecute(s), TheSync>>, <<>>, <<>>, <<>>)
  BY <1>1, Taken, Wires, Longer, AskedTags DEF OnWires, Barred
<1>5. PICK s \in Statements : OnWires(<<TheParse(s), TheExecute(s), TheSync>>, <<>>, <<>>, <<>>)
  BY <1>4
<1>6. Refusal = Reply("error", This)
  BY <1>5, Longer, AskedTags DEF Refusal, OnWires
<1>7. OnWires(<<TheExecute(s), TheSync>>, <<>>, <<>>, <<Reply("error", This)>>)'
  <2>1. toGateway' = <<TheExecute(s), TheSync>> /\ toServer' = <<>> /\ fromServer' = <<>>
    BY <1>1, <1>5, Longer DEF OnWires
  <2>2. toClient' = <<Reply("error", This)>>
    BY <1>1, <1>5, <1>6, Longer DEF OnWires
  <2>3. QED
    BY <1>3, <2>1, <2>2 DEF OnWires
<1>8. Waiting' /\ Clean' /\ This' \notin server'.ran
  BY <1>1, <1>2, <1>3, <1>4 DEF Asking
<1>9. Barred'
  BY <1>1, <1>3, <1>7, <1>8 DEF Barred, OnWires
<1>10. QED
  BY <1>2, <1>9 DEF Stage

LEMMA Skipped ==
  ASSUME History, Stage, SkipUntilSync
  PROVE  History' /\ Stage'
<1>1. /\ toGateway # <<>> /\ inError
      /\ inError' = (Head(toGateway).tag # "sync") /\ toGateway' = Tail(toGateway)
      /\ toClient' = IF inError' THEN toClient ELSE Append(toClient, Ready("I"))
      /\ toServer' = toServer /\ fromServer' = fromServer /\ client' = client /\ server' = server
  BY DEF SkipUntilSync, Reads
<1>2. History' /\ Waiting' = Waiting /\ Clean' = Clean
  BY <1>1, HistorySame DEF Waiting, Clean
<1>3. This' = This /\ TheSync' = TheSync /\ Reply("error", This)' = Reply("error", This)
  BY <1>1, SameExchange
<1>4. Barred
  BY <1>1 DEF Stage, Resting, Welcomed, Asking, Executed, Failed, Answered
<1>5. Waiting' /\ Clean' /\ This' \notin server'.ran
  BY <1>1, <1>2, <1>3, <1>4 DEF Barred
<1>6. PICK up \in {<<TheExecute(s), TheSync>> : s \in Statements} \cup {<<TheSync>>},
           down \in {<<>>, <<Reply("error", This)>>} : OnWires(up, <<>>, <<>>, down)
  BY <1>4 DEF Barred
<1>7. CASE up = <<TheSync>>
  <2>1. ~inError' /\ toGateway' = <<>> /\ toClient' = Append(down, Ready("I"))
    BY <1>1, <1>6, <1>7, Wires, AskedTags DEF OnWires
  <2>2. toServer' = <<>> /\ fromServer' = <<>>
    BY <1>1, <1>6 DEF OnWires
  <2>3. toClient' = <<Ready("I")>> \/ toClient' = <<Reply("error", This), Ready("I")>>
    <3>1. CASE down = <<>>
      BY <2>1, <3>1, Wires
    <3>2. CASE down = <<Reply("error", This)>>
      BY <2>1, <3>2, Longer
    <3>3. QED
      BY <1>6, <3>1, <3>2
  <2>4. Returning(Reply("error", This), Ready("I"))'
    BY <1>3, <2>1, <2>2, <2>3 DEF Returning, OnWires
  <2>5. Answered'
    BY <1>3, <1>5, <2>1, <2>4 DEF Answered, Returning, OnWires
  <2>6. QED
    BY <1>2, <2>5 DEF Stage
<1>8. ASSUME NEW s \in Statements, up = <<TheExecute(s), TheSync>> PROVE Barred'
  <2>1. inError' /\ toGateway' = <<TheSync>> /\ toClient' = down
    <3>1. toGateway = <<TheExecute(s), TheSync>> /\ toClient = down
      BY <1>6, <1>8 DEF OnWires
    <3>2. Head(toGateway) = TheExecute(s) /\ Tail(toGateway) = <<TheSync>>
      BY <3>1, Wires
    <3>3. Head(toGateway).tag # "sync"
      BY <3>2, AskedTags
    <3>4. inError'
      BY <1>1, <3>3
    <3>5. QED
      BY <1>1, <3>1, <3>2, <3>4
  <2>2. toServer' = <<>> /\ fromServer' = <<>>
    BY <1>1, <1>6 DEF OnWires
  <2>3. OnWires(<<TheSync>>, <<>>, <<>>, down)'
    BY <1>3, <2>1, <2>2 DEF OnWires
  <2>4. QED
    BY <1>3, <1>5, <1>6, <2>1, <2>2 DEF Barred, OnWires
<1>9. QED
  BY <1>2, <1>6, <1>7, <1>8 DEF Stage

LEMMA Relayed ==
  ASSUME History, Stage, RelayReply
  PROVE  History' /\ Stage'
<1>1. /\ fromServer # <<>> /\ inError' = inError
      /\ toClient' = Append(toClient, Head(fromServer)) /\ fromServer' = Tail(fromServer)
      /\ toGateway' = toGateway /\ toServer' = toServer /\ client' = client /\ server' = server
  BY DEF RelayReply
<1>2. History' /\ Waiting' = Waiting /\ Clean' = Clean
  BY <1>1, HistorySame DEF Waiting, Clean
<1>3. This' = This /\ TheSync' = TheSync
  BY <1>1, SameExchange
<1>4. Failed \/ Answered
  BY <1>1 DEF Stage, Resting, Welcomed, Asking, Unread, Executed, Barred, OnWires
<1>5. CASE Failed
  <2>1. PICK up, out \in {<<>>, <<TheSync>>}, in, down \in {<<>>, <<Reply("error", This)>>} :
          /\ up = <<>> <=> out # <<>>
          /\ in = <<>> \/ down = <<>>
          /\ OnWires(up, out, in, down)
    BY <1>5 DEF Failed
  <2>2. in = <<Reply("error", This)>> /\ down = <<>>
    BY <1>1, <2>1 DEF OnWires
  <2>3. fromServer' = <<>> /\ toClient' = <<Reply("error", This)>>
    BY <1>1, <2>1, <2>2, Wires DEF OnWires
  <2>4. toGateway' = up /\ toServer' = out
    BY <1>1, <2>1 DEF OnWires
  <2>5. Waiting' /\ server'.held = <<>> /\ ~inError' /\ This' \notin server'.ran
    BY <1>1, <1>2, <1>3, <1>5 DEF Failed
  <2>6. Failed'
    BY <1>3, <2>1, <2>3, <2>4, <2>5 DEF Failed, OnWires
  <2>7. QED
    BY <1>2, <2>6 DEF Stage
<1>6. CASE Answered
  <2> DEFINE r == Reply(IF This \in server.ran THEN "answer" ELSE "error", This)
  <2>1. PICK txn \in {"I", "T", "E"} : Returning(r, Ready(txn))
    BY <1>6 DEF Answered
  <2>2. /\ r' = r /\ Ready(txn)' = Ready(txn)
    BY <1>1, <1>3
  <2> HIDE DEF r
  <2>3. Returning(r, Ready(txn))'
    <3>1. toGateway' = <<>> /\ toServer' = <<>>
      BY <1>1, <2>1 DEF Returning, OnWires
    <3>2. CASE OnWires(<<>>, <<>>, <<r, Ready(txn)>>, <<>>)
      <4>1. fromServer' = <<Ready(txn)>> /\ toClient' = <<r>>
        BY <1>1, <3>2, Wires DEF OnWires
      <4>2. QED
        BY <2>2, <3>1, <4>1 DEF Returning, OnWires
    <3>3. CASE OnWires(<<>>, <<>>, <<Ready(txn)>>, <<r>>)
      <4>1. fromServer' = <<>> /\ toClient' = <<r, Ready(txn)>>
        BY <1>1, <3>3, Wires, Longer DEF OnWires
      <4>2. QED
        BY <2>2, <3>1, <4>1 DEF Returning, OnWires
    <3>4. CASE OnWires(<<>>, <<>>, <<Ready(txn)>>, <<>>)
      <4>1. fromServer' = <<>> /\ toClient' = <<Ready(txn)>>
        BY <1>1, <3>4, Wires DEF OnWires
      <4>2. QED
        BY <2>2, <3>1, <4>1 DEF Returning, OnWires
    <3>5. QED
      BY <1>1, <2>1, <3>2, <3>3, <3>4 DEF Returning, OnWires
  <2>4. Answered'
    BY <1>1, <1>2, <1>6, <2>3 DEF Answered, r
  <2>5. QED
    BY <1>2, <2>4 DEF Stage
<1>7. QED
  BY <1>4, <1>5, <1>6

LEMMA ClientHears ==
  ASSUME TypeOK, History, Stage, ClientReads
  PROVE  History' /\ Stage'
<1> DEFINE r == Head(toClient)
<1>1. /\ toClient # <<>> /\ toClient' = Tail(toClient) /\ toServer' = toServer
      /\ fromServer' = fromServer /\ inError' = inError /\ server' = server
  BY DEF ClientReads
<1>2. r.tag # "challenge" => toGateway' = toGateway
  BY DEF ClientReads
<1>3. r.tag \notin {"challenge", "ok"} => client' = [client EXCEPT !.got = Append(@, r)]
  BY DEF ClientReads
<1>4. ASSUME r.tag \notin {"challenge", "ok"},
             r.tag \in {"answer", "error"} =>
               /\ r.id = This /\ Readies(client.got) = client.asked
               /\ r.tag = "answer" <=> This \in server.ran
      PROVE  /\ History' /\ client'.asked = client.asked
             /\ Readies(client'.got) = Readies(client.got) + (IF r.tag = "ready" THEN 1 ELSE 0)
  BY <1>1, <1>3, <1>4, Hears
<1>5. client.asked \in Nat
  BY RelayAssumption, Shapes DEF Clients
<1> HIDE DEF r
<1>6. CASE Welcomed
  <2>1. client.asked = 0 /\ Readies(client.got) = 0
    BY <1>6, ReadiesEmpty DEF Welcomed
  <2>2. CASE OnWires(<<>>, <<>>, <<>>, <<Ok, Ready("I")>>)
    <3>1. r = Ok /\ toClient' = <<Ready("I")>>
      BY <1>1, <2>2, Wires DEF OnWires, r
    <3>2. client' = client /\ toGateway' = toGateway
      BY <3>1, Tags DEF ClientReads, r
    <3>3. History'
      BY <1>1, <3>2, HistorySame
    <3>4. Welcomed'
      BY <1>1, <1>6, <2>2, <3>1, <3>2 DEF Welcomed, OnWires, Clean
    <3>5. QED
      BY <3>3, <3>4 DEF Stage
  <2>3. CASE OnWires(<<>>, <<>>, <<>>, <<Ready("I")>>)
    <3>1. r = Ready("I") /\ toClient' = <<>>
      BY <1>1, <2>3, Wires DEF OnWires, r
    <3>2. r.tag = "ready"
      BY <3>1, Tags
    <3>3. toGateway' = toGateway
      BY <1>2, <3>2
    <3>4. History' /\ client'.asked = 0 /\ Readies(client'.got) = 1
      BY <1>4, <2>1, <3>2
    <3>5. Resting'
      BY <1>1, <1>6, <2>3, <3>1, <3>3, <3>4 DEF Welcomed, Resting, OnWires, Clean, Quiet
    <3>6. QED
      BY <3>4, <3>5 DEF Stage
  <2>4. QED
    BY <1>6, <2>2, <2>3 DEF Welcomed
\* The error that is told while the rest of its exchange is still to be ignored.
<1>7. ASSUME Waiting, This \notin server.ran, toClient = <<Reply("error", This)>>
      PROVE  History' /\ Waiting' /\ client'.asked = client.asked /\ toGateway' = toGateway /\ toClient' = <<>>
  <2>1. r = Reply("error", This) /\ toClient' = <<>>
    BY <1>1, <1>7, Wires DEF r
  <2>2. r.tag = "error" /\ r.id = This
    BY <2>1 DEF Reply
  <2>3. toGateway' = toGateway
    BY <1>2, <2>2
  <2>4. History' /\ client'.asked = client.asked /\ Readies(client'.got) = Readies(client.got) + 0
    BY <1>4, <1>7, <2>2 DEF Waiting
  <2>5. Waiting'
    BY <1>5, <1>7, <2>4 DEF Waiting
  <2>6. QED
    BY <2>1, <2>3, <2>4, <2>5
<1>8. CASE Failed
  <2>1. PICK up, out \in {<<>>, <<TheSync>>}, in, down \in {<<>>, <<Reply("error", This)>>} :
          /\ up = <<>> <=> out # <<>>
          /\ in = <<>> \/ down = <<>>
          /\ OnWires(up, out, in, down)
    BY <1>8 DEF Failed
  <2>2. toClient = <<Reply("error", This)>> /\ in = <<>>
    BY <1>1, <2>1 DEF OnWires
  <2>3. /\ History' /\ Waiting' /\ client'.asked = client.asked /\ toGateway' = toGateway
        /\ toClient' = <<>>
    BY <1>7, <1>8, <2>2 DEF Failed
  <2>4. This' = This /\ TheSync' = TheSync
    BY <2>3, SameExchange
  <2>5. toGateway' = up /\ toServer' = out /\ fromServer' = <<>>
    BY <1>1, <2>1, <2>2, <2>3 DEF OnWires
  <2>6. server'.held = <<>> /\ ~inError' /\ This' \notin server'.ran
    BY <1>1, <1>8, <2>4 DEF Failed
  <2>7. Failed'
    BY <2>1, <2>3, <2>4, <2>5, <2>6 DEF Failed, OnWires
  <2>8. QED
    BY <2>3, <2>7 DEF Stage
<1>9. CASE Barred
  <2>1. PICK up \in {<<TheExecute(s), TheSync>> : s \in Statements} \cup {<<TheSync>>},
             down \in {<<>>, <<Reply("error", This)>>} : OnWires(up, <<>>, <<>>, down)
    BY <1>9 DEF Barred
  <2>2. toClient = <<Reply("error", This)>>
    BY <1>1, <2>1 DEF OnWires
  <2>3. /\ History' /\ Waiting' /\ client'.asked = client.asked /\ toGateway' = toGateway
        /\ toClient' = <<>>
    BY <1>7, <1>9, <2>2 DEF Barred
  <2>4. This' = This /\ TheSync' = TheSync /\ \A s : TheExecute(s)' = TheExecute(s)
    BY <2>3, SameExchange
  <2>5. toGateway' = up /\ toServer' = <<>> /\ fromServer' = <<>>
    BY <1>1, <2>1, <2>3 DEF OnWires
  <2>6. Clean' /\ inError' /\ This' \notin server'.ran
    BY <1>1, <1>9, <2>4 DEF Barred, Clean
  <2>7. Barred'
    BY <2>1, <2>3, <2>4, <2>5, <2>6 DEF Barred, OnWires
  <2>8. QED
    BY <2>3, <2>7 DEF Stage
<1>10. CASE Answered
  <2> DEFINE a == Reply(IF This \in server.ran THEN "answer" ELSE "error", This)
  <2>1. PICK txn \in {"I", "T", "E"} : Returning(a, Ready(txn))
    BY <1>10 DEF Answered
  <2>2. /\ a.tag \in {"answer", "error"} /\ a.id = This
        /\ a.tag = "answer" <=> This \in server.ran
    BY DEF Reply
  <2>3. Waiting /\ Clean /\ ~inError
    BY <1>10 DEF Answered
  <2> HIDE DEF a
  <2>4. ASSUME r = a
        PROVE  /\ History' /\ Waiting' /\ Clean' /\ ~inError' /\ toGateway' = toGateway
               /\ a' = a /\ \A t : Ready(t)' = Ready(t)
    <3>1. History' /\ client'.asked = client.asked /\ Readies(client'.got) = Readies(client.got) + 0
      BY <1>4, <2>2, <2>3, <2>4 DEF Waiting
    <3>2. Waiting' /\ Clean' /\ ~inError'
      BY <1>1, <1>5, <2>3, <3>1 DEF Waiting, Clean
    <3>3. This' = This
      BY <3>1, SameExchange
    <3>4. toGateway' = toGateway
      BY <1>2, <2>2, <2>4
    <3>5. QED
      BY <1>1, <3>1, <3>2, <3>3, <3>4 DEF a
  <2>5. ASSUME Returning(a, Ready(txn))', r = a PROVE Answered'
    BY <1>1, <2>4, <2>5 DEF Answered, a
  <2>6. CASE OnWires(<<>>, <<>>, <<Ready(txn)>>, <<a>>)
    <3>1. r = a /\ toClient' = <<>>
      BY <1>1, <2>6, Wires DEF OnWires, r
    <3>2. Returning(a, Ready(txn))'
      BY <1>1, <2>4, <2>6, <3>1 DEF OnWires, Returning
    <3>3. QED
      BY <2>4, <2>5, <3>1, <3>2 DEF Stage
  <2>7. CASE OnWires(<<>>, <<>>, <<>>, <<a, Ready(txn)>>)
    <3>1. r = a /\ toClient' = <<Ready(txn)>>
      BY <1>1, <2>7, Wires DEF OnWires, r
    <3>2. Returning(a, Ready(txn))'
      BY <1>1, <2>4, <2>7, <3>1 DEF OnWires, Returning
    <3>3. QED
      BY <2>4, <2>5, <3>1, <3>2 DEF Stage
  <2>8. CASE OnWires(<<>>, <<>>, <<>>, <<Ready(txn)>>)
    <3>1. r = Ready(txn) /\ toClient' = <<>>
      BY <1>1, <2>8, Wires DEF OnWires, r
    <3>2. r.tag = "ready"
      BY <3>1, Tags
    <3>3. toGateway' = toGateway
      BY <1>2, <3>2
    <3>4. History' /\ client'.asked = client.asked /\ Readies(client'.got) = Readies(client.got) + 1
      BY <1>4, <3>2
    <3>5. Quiet'
      BY <1>5, <2>3, <3>4 DEF Quiet, Waiting
    <3>6. Resting'
      BY <1>1, <2>3, <2>8, <3>1, <3>3, <3>5 DEF Resting, OnWires, Clean
    <3>7. QED
      BY <3>4, <3>6 DEF Stage
  <2>9. QED
    BY <1>1, <2>1, <2>6, <2>7, <2>8 DEF Returning, OnWires
<1>11. ~Resting /\ ~Asking /\ ~Executed
  BY <1>1 DEF Resting, Asking, Unread, Executed, OnWires
<1>12. QED
  BY <1>6, <1>8, <1>9, <1>10, <1>11 DEF Stage

\* The statement runs, and no error has been told of it.
LEMMA HistoryRan ==
  ASSUME TypeOK, History, client' = client, server'.ran = server.ran \cup {This},
         \A i \in DOMAIN client.got : client.got[i].tag = "error" => client.got[i].id # This
  PROVE  History'
<1>1. AnswersInOrder'
  BY DEF History, AnswersInOrder
<1>2. AnswersAreTrue'
  <2>1. ASSUME NEW i \in DOMAIN client.got
        PROVE  /\ client.got[i].tag = "answer" => client.got[i].id \in server'.ran
               /\ client.got[i].tag = "error" => client.got[i].id \notin server'.ran
    BY <2>1 DEF History, AnswersAreTrue
  <2>2. QED
    BY <2>1 DEF AnswersAreTrue
<1>3. \A id \in server'.ran : id[1] <= client.asked
  <2>1. client.asked \in Nat /\ This[1] = client.asked
    BY RelayAssumption, Shapes DEF Clients, This
  <2>2. This[1] <= client.asked
    BY <2>1
  <2>3. QED
    BY <2>2 DEF History
<1>4. QED
  BY <1>1, <1>2, <1>3 DEF History

\* What the database makes of the statement of the exchange.
LEMMA StatementRuns ==
  ASSUME TypeOK, History, Asking, Server, NEW s \in Statements,
         Head(toServer) \in {TheQuery(s), TheExecute(s)}
  PROVE  \E ok \in BOOLEAN, txn \in {"I", "T", "E"} :
           LET a == Reply(IF ok THEN "answer" ELSE "error", This)
           IN  /\ History' /\ (ok <=> This \in server'.ran)
               /\ Head(toServer) = TheQuery(s) =>
                    /\ fromServer' = fromServer \o <<>> \o <<a, Ready(txn)>> /\ Clean'
               /\ Head(toServer) = TheExecute(s) =>
                    /\ fromServer' = IF ok THEN fromServer ELSE fromServer \o <<a>>
                    /\ server'.held = IF ok THEN <<a>> ELSE <<>>
                    /\ ok => ~server'.ignoring
<1> DEFINE m == Head(toServer)
<1>1. ServerReads(m) /\ client' = client
  BY DEF Server
<1>2. server \in Servers /\ server.held = <<>> /\ ~server.open /\ ~server.ignoring /\ This \notin server.ran
  BY Shapes DEF Asking, Clean
<1>3. m.id = This /\ m.sql = s /\ TheQuery(s).tag = "query" /\ TheExecute(s).tag = "execute"
  BY AskedTags
<1>4. \A o \in Outcomes(m.sql, server.txn) : o.txn \in {"I", "T", "E"} /\ o.ok \in BOOLEAN
  <2>1. server.txn \in {"I", "T", "E"}
    BY <1>2 DEF Servers
  <2>2. ASSUME NEW o \in Outcomes(m.sql, server.txn) PROVE o.txn \in {"I", "T", "E"}
    BY <2>1, <2>2 DEF Outcomes
  <2>3. ASSUME NEW o \in Outcomes(m.sql, server.txn) PROVE o.ok = TRUE \/ o.ok = FALSE
    <3>1. \E t \in {"I", "T", "E"} : o = [txn |-> t, ok |-> TRUE] \/ o = [txn |-> t, ok |-> FALSE]
      BY <2>1, <2>3 DEF Outcomes
    <3>2. QED
      BY <3>1
  <2>4. QED
    BY <2>2, <2>3
<1> HIDE DEF m
<1>5. \A o : Run(m, o) = (IF o.ok THEN server.ran \cup {This} ELSE server.ran)
             /\ Answer(m, o) = Reply(IF o.ok THEN "answer" ELSE "error", This)
  BY <1>3 DEF Run, Answer
<1>6. ASSUME NEW ok \in BOOLEAN, server'.ran = IF ok THEN server.ran \cup {This} ELSE server.ran
      PROVE  History' /\ (ok <=> This \in server'.ran)
  <2>1. CASE ok
    BY <1>1, <1>6, <2>1, HistoryRan DEF Asking
  <2>2. CASE ~ok
    BY <1>1, <1>2, <1>6, <2>2, HistorySame
  <2>3. QED
    BY <2>1, <2>2
<1>7. CASE m = TheQuery(s)
  <2>1. PICK o \in Outcomes(m.sql, server.txn) :
          /\ fromServer' = fromServer \o server.held \o <<Answer(m, o), Ready(o.txn)>>
          /\ server' = [server EXCEPT !.txn = o.txn, !.ran = Run(m, o),
                                      !.held = <<>>, !.open = FALSE]
    BY <1>1, <1>2, <1>3, <1>7 DEF ServerReads
  <2> DEFINE ran == Run(m, o)
             txn == o.txn
             ok == o.ok
  <2>2. server' = [server EXCEPT !.txn = txn, !.ran = ran, !.held = <<>>, !.open = FALSE]
    BY <2>1
  <2>3. ran = (IF ok THEN server.ran \cup {This} ELSE server.ran) /\ ok \in BOOLEAN /\ txn \in {"I", "T", "E"}
        /\ fromServer' = fromServer \o <<>> \o <<Reply(IF ok THEN "answer" ELSE "error", This), Ready(txn)>>
    BY <1>2, <1>4, <1>5, <2>1
  <2> HIDE DEF ran, txn, ok
  <2>4. server'.ran = ran /\ server'.held = <<>> /\ ~server'.open /\ server'.ignoring = server.ignoring
    BY <1>2, <2>2 DEF Servers
  <2>5. Clean'
    BY <1>2, <2>4 DEF Clean
  <2>6. History' /\ (ok <=> This \in server'.ran)
    BY <1>6, <2>3, <2>4
  <2>7. m # TheExecute(s)
    BY <1>3, <1>7
  <2>8. QED
    BY <2>3, <2>5, <2>6, <2>7 DEF m
<1>8. CASE m = TheExecute(s)
  <2>1. PICK o \in Outcomes(m.sql, server.txn) :
          LET said == Append(server.held, Answer(m, o))
          IN  /\ fromServer' = IF o.ok THEN fromServer ELSE fromServer \o said
              /\ server' = [server EXCEPT !.txn = o.txn, !.ran = Run(m, o),
                                          !.held = IF o.ok THEN said ELSE <<>>,
                                          !.open = TRUE, !.ignoring = ~o.ok]
    BY <1>1, <1>2, <1>3, <1>8 DEF ServerReads
  <2> DEFINE ran == Run(m, o)
             txn == o.txn
             ok == o.ok
             a == Reply(IF ok THEN "answer" ELSE "error", This)
             held == IF ok THEN <<a>> ELSE <<>>
             ign == ~ok
  <2>2. Append(server.held, Answer(m, o)) = <<a>>
    BY <1>2, <1>5, Wires
  <2>3. /\ server' = [server EXCEPT !.txn = txn, !.ran = ran, !.held = held, !.open = TRUE, !.ignoring = ign]
        /\ fromServer' = IF ok THEN fromServer ELSE fromServer \o <<a>>
    BY <2>1, <2>2
  <2>4. ran = (IF ok THEN server.ran \cup {This} ELSE server.ran) /\ ok \in BOOLEAN /\ txn \in {"I", "T", "E"}
    BY <1>4, <1>5, <2>1
  <2> HIDE DEF ran, txn, ok, held, ign, a
  <2>5. server'.ran = ran /\ server'.held = held /\ server'.ignoring = ign
    BY <1>2, <2>3 DEF Servers
  <2>6. ok => ~server'.ignoring
    BY <2>5 DEF ign
  <2>7. History' /\ (ok <=> This \in server'.ran)
    BY <1>6, <2>4, <2>5
  <2>8. m # TheQuery(s)
    BY <1>3, <1>8
  <2>9. server'.held = IF ok THEN <<a>> ELSE <<>>
    BY <2>5 DEF held
  <2>10. QED
    BY <2>3, <2>4, <2>6, <2>7, <2>8, <2>9 DEF m, a
<1>9. QED
  BY <1>7, <1>8 DEF m

LEMMA ServerAnswers ==
  ASSUME TypeOK, History, Stage, Server
  PROVE  History' /\ Stage'
<1> DEFINE m == Head(toServer)
<1>1. /\ toServer # <<>> /\ ServerReads(m) /\ toServer' = Tail(toServer)
      /\ toGateway' = toGateway /\ toClient' = toClient /\ inError' = inError /\ client' = client
  BY DEF Server
<1>2. /\ Waiting' = Waiting /\ This' = This /\ TheSync' = TheSync
      /\ \A s : /\ TheQuery(s)' = TheQuery(s) /\ TheParse(s)' = TheParse(s)
                /\ TheExecute(s)' = TheExecute(s)
  BY <1>1, SameExchange DEF Waiting
<1>3. server \in Servers
  BY Shapes
<1> HIDE DEF m
<1>4. CASE Asking
  <2>1. PICK s \in Statements : Unread(s)
    BY <1>4 DEF Asking
  <2>2. CASE m = TheParse(s)
    <3>1. m.tag = "parse"
      BY <2>2, AskedTags
    <3>2. server' = server /\ fromServer' = fromServer
      BY <1>1, <3>1 DEF ServerReads
    <3>3. History' /\ Clean' = Clean
      BY <1>1, <3>2, HistorySame DEF Clean
    <3>4. Unread(s)'
      <4>1. CASE OnWires(<<TheExecute(s), TheSync>>, <<TheParse(s)>>, <<>>, <<>>)
        BY <1>1, <1>2, <3>2, <4>1, Wires DEF OnWires, Unread
      <4>2. CASE OnWires(<<TheSync>>, <<TheParse(s), TheExecute(s)>>, <<>>, <<>>)
        BY <1>1, <1>2, <3>2, <4>2, Wires DEF OnWires, Unread
      <4>3. CASE OnWires(<<>>, <<TheParse(s), TheExecute(s), TheSync>>, <<>>, <<>>)
        BY <1>1, <1>2, <3>2, <4>3, Longer DEF OnWires, Unread
      <4>4. QED
        BY <1>1, <2>1, <2>2, <4>1, <4>2, <4>3, Wires, AskedTags DEF OnWires, Unread, m
    <3>5. Asking'
      BY <1>1, <1>2, <1>4, <3>2, <3>3, <3>4 DEF Asking
    <3>6. QED
      BY <3>3, <3>5 DEF Stage
  <2>3. CASE m = TheQuery(s)
    <3>1. OnWires(<<>>, <<TheQuery(s)>>, <<>>, <<>>)
      BY <1>1, <2>1, <2>3, Wires, Longer, AskedTags DEF OnWires, Unread, m
    <3>2. PICK ok \in BOOLEAN, txn \in {"I", "T", "E"} :
            LET a == Reply(IF ok THEN "answer" ELSE "error", This)
            IN  /\ History' /\ (ok <=> This \in server'.ran)
                /\ fromServer' = fromServer \o <<>> \o <<a, Ready(txn)>> /\ Clean'
      BY <1>4, <2>3, StatementRuns DEF m
    <3> DEFINE a == Reply(IF This \in server'.ran THEN "answer" ELSE "error", This)
    <3>3. fromServer' = <<>> \o <<>> \o <<a, Ready(txn)>>
      BY <3>1, <3>2 DEF OnWires
    <3>4. fromServer' = <<a, Ready(txn)>>
      BY <3>3, Wires, Longer
    <3>5. toGateway' = <<>> /\ toServer' = <<>> /\ toClient' = <<>>
      BY <1>1, <2>3, <3>1, Wires DEF OnWires
    <3>6. Waiting' /\ Clean' /\ ~inError'
      BY <1>1, <1>2, <1>4, <3>2 DEF Asking
    <3>7. Answered'
      BY <1>2, <3>4, <3>5, <3>6 DEF Answered, Returning, OnWires
    <3>8. QED
      BY <3>2, <3>7 DEF Stage
  <2>4. CASE m = TheExecute(s)
    <3>1. \/ OnWires(<<TheSync>>, <<TheExecute(s)>>, <<>>, <<>>)
          \/ OnWires(<<>>, <<TheExecute(s), TheSync>>, <<>>, <<>>)
      BY <1>1, <2>1, <2>4, Wires, Longer, AskedTags DEF OnWires, Unread, m
    <3>2. PICK ok \in BOOLEAN :
            LET a == Reply(IF ok THEN "answer" ELSE "error", This)
            IN  /\ History' /\ (ok <=> This \in server'.ran)
                /\ fromServer' = IF ok THEN fromServer ELSE fromServer \o <<a>>
                /\ server'.held = IF ok THEN <<a>> ELSE <<>>
                /\ ok => ~server'.ignoring
      BY <1>4, <2>4, StatementRuns DEF m
    <3>3. fromServer = <<>> /\ toClient = <<>>
      BY <3>1 DEF OnWires
    <3>4. \/ toGateway' = <<TheSync>> /\ toServer' = <<>>
          \/ toGateway' = <<>> /\ toServer' = <<TheSync>>
      BY <1>1, <3>1, Wires DEF OnWires
    <3>5. Waiting' /\ ~inError'
      BY <1>1, <1>2, <1>4 DEF Asking
    <3>6. CASE ok
      <4>1. /\ fromServer' = <<>> /\ server'.held = <<Reply("answer", This)>>
            /\ This \in server'.ran /\ ~server'.ignoring
        BY <3>2, <3>3, <3>6
      <4>2. Executed'
        BY <1>1, <1>2, <3>3, <3>4, <3>5, <4>1 DEF Executed, OnWires
      <4>3. QED
        BY <3>2, <4>2 DEF Stage
    <3>7. CASE ~ok
      <4>1. /\ fromServer' = <<>> \o <<Reply("error", This)>> /\ server'.held = <<>>
            /\ This \notin server'.ran
        BY <3>2, <3>3, <3>7
      <4>2. fromServer' = <<Reply("error", This)>>
        BY <4>1, Longer
      <4>3. Failed'
        <5>1. PICK up, out \in {<<>>, <<TheSync>>} :
                (up = <<>> <=> out # <<>>) /\ toGateway' = up /\ toServer' = out
          BY <3>4, Wires
        <5>2. <<>> \in {<<>>, <<Reply("error", This)>>}
              /\ <<Reply("error", This)>> \in {<<>>, <<Reply("error", This)>>}
          OBVIOUS
        <5>3. QED
          BY <1>1, <1>2, <3>3, <3>5, <4>1, <4>2, <5>1, <5>2 DEF Failed, OnWires
      <4>4. QED
        BY <3>2, <4>3 DEF Stage
    <3>8. QED
      BY <3>6, <3>7
  <2>5. QED
    BY <1>1, <2>1, <2>2, <2>3, <2>4, Wires, Longer DEF OnWires, Unread, m
\* The Sync ends the exchange, and what was held back is sent.
<1>5. ASSUME m = TheSync
      PROVE  /\ fromServer' = fromServer \o server.held \o <<Ready(server.txn)>>
             /\ Clean' /\ server'.ran = server.ran
             /\ History'
  <2>1. m.tag = "sync"
    BY <1>5, AskedTags
  <2>2. /\ fromServer' = fromServer \o server.held \o <<Ready(server.txn)>>
        /\ server' = [server EXCEPT !.held = <<>>, !.open = FALSE, !.ignoring = FALSE]
    BY <1>1, <2>1 DEF ServerReads
  <2>3. Clean' /\ server'.ran = server.ran
    BY <1>3, <2>2 DEF Clean, Servers
  <2>4. QED
    BY <1>1, <2>2, <2>3, HistorySame
<1>6. CASE Executed
  <2>1. OnWires(<<>>, <<TheSync>>, <<>>, <<>>)
    BY <1>1, <1>6 DEF Executed, OnWires
  <2>2. m = TheSync /\ toServer' = <<>>
    BY <1>1, <2>1, Wires DEF OnWires, m
  <2>3. server.held = <<Reply("answer", This)>> /\ This \in server.ran /\ Waiting /\ ~inError
    BY <1>6 DEF Executed
  <2>4. fromServer' = <<>> \o <<Reply("answer", This)>> \o <<Ready(server.txn)>>
    BY <1>5, <2>1, <2>2, <2>3 DEF OnWires
  <2>5. fromServer' = <<Reply("answer", This), Ready(server.txn)>>
    BY <2>4, Longer
  <2>6. toGateway' = <<>> /\ toServer' = <<>> /\ toClient' = <<>> /\ Waiting' /\ ~inError'
    BY <1>1, <1>2, <2>1, <2>2, <2>3 DEF OnWires
  <2>7. server.txn \in {"I", "T", "E"}
    BY <1>3 DEF Servers
  <2>8. Clean' /\ This' \in server'.ran /\ History'
    BY <1>2, <1>5, <2>2, <2>3
  <2>9. Answered'
    BY <1>2, <2>5, <2>6, <2>7, <2>8 DEF Answered, Returning, OnWires
  <2>10. QED
    BY <2>8, <2>9 DEF Stage
<1>7. CASE Failed
  <2>1. PICK up, out \in {<<>>, <<TheSync>>}, in, down \in {<<>>, <<Reply("error", This)>>} :
          /\ up = <<>> <=> out # <<>>
          /\ in = <<>> \/ down = <<>>
          /\ OnWires(up, out, in, down)
    BY <1>7 DEF Failed
  <2>2. up = <<>> /\ out = <<TheSync>>
    BY <1>1, <2>1, Wires DEF OnWires
  <2>3. m = TheSync /\ toServer' = <<>> /\ toGateway' = <<>> /\ toClient' = down /\ fromServer = in
    BY <1>1, <2>1, <2>2, Wires DEF OnWires, m
  <2>4. server.held = <<>> /\ This \notin server.ran /\ Waiting /\ ~inError
    BY <1>7 DEF Failed
  <2>5. fromServer' = in \o <<>> \o <<Ready(server.txn)>>
    BY <1>5, <2>3, <2>4
  <2>6. server.txn \in {"I", "T", "E"}
    BY <1>3 DEF Servers
  <2>7. Clean' /\ This' \notin server'.ran /\ History'
    BY <1>2, <1>5, <2>3, <2>4
  <2>8. \/ fromServer' = <<Reply("error", This), Ready(server.txn)>> /\ toClient' = <<>>
        \/ fromServer' = <<Ready(server.txn)>> /\ toClient' \in {<<>>, <<Reply("error", This)>>}
    <3>1. CASE in = <<>>
      BY <2>1, <2>3, <2>5, <3>1, Longer
    <3>2. CASE in = <<Reply("error", This)>> /\ down = <<>>
      BY <2>3, <2>5, <3>2, Longer
    <3>3. QED
      BY <2>1, <3>1, <3>2
  <2>9. Answered'
    <3> DEFINE r == Reply("error", This)
               e == Ready(server.txn)
    <3>1. /\ (IF This' \in server'.ran THEN "answer" ELSE "error") = "error"
      BY <2>7
    <3>2. Waiting' /\ Clean' /\ ~inError'
      BY <1>1, <1>2, <2>4, <2>7
    <3>3. Reply(IF This' \in server'.ran THEN "answer" ELSE "error", This') = r
      BY <1>2, <3>1
    <3>4. toGateway' = <<>> /\ toServer' = <<>>
      BY <2>3
    <3> HIDE DEF r
    <3>5. QED
      BY <2>3, <2>6, <2>8, <3>2, <3>3, <3>4 DEF Answered, Returning, OnWires, r
  <2>10. QED
    BY <2>7, <2>9 DEF Stage
<1>8. ~Resting /\ ~Welcomed /\ ~Barred /\ ~Answered
  BY <1>1 DEF Resting, Welcomed, Barred, Answered, Returning, OnWires
<1>9. QED
  BY <1>4, <1>6, <1>7, <1>8 DEF Stage

-----------------------------------------------------------------------------
(* A client that waits asks when it is quiet, of a connection at rest.      *)

LEMMA OnlyAtRest ==
  ASSUME TypeOK, History, Stage, OneByOne, MayAsk
  PROVE  Resting /\ client.asked \in Nat
<1>1. client.asked \in Nat
  BY RelayAssumption, Shapes DEF Clients
<1>2. Quiet
  BY DEF MayAsk, OneByOne
<1>3. ~Waiting
  BY <1>1, <1>2 DEF Quiet, Waiting
<1>4. ~Welcomed
  BY <1>1, <1>2, ReadiesEmpty DEF Quiet, Welcomed
<1>5. QED
  BY <1>1, <1>3, <1>4 DEF Stage, Asking, Executed, Failed, Barred, Answered

LEMMA AsksOne ==
  ASSUME TypeOK, History, Stage, OneByOne, MayAsk, NEW messages, Asks(messages), NEW s \in Statements,
         toGateway' = messages => Unread(s)', <<>> \o messages = messages
  PROVE  History' /\ Stage'
<1>1. /\ client' = [client EXCEPT !.asked = @ + 1] /\ toGateway' = toGateway \o messages
      /\ UNCHANGED <<phase, toServer, fromServer, toClient, inError, server>>
  BY DEF Asks
<1>2. Resting /\ client.asked \in Nat /\ client \in Clients
  BY OnlyAtRest, Shapes
<1>3. client'.asked = client.asked + 1 /\ client'.got = client.got
  BY <1>1, <1>2 DEF Clients
<1>4. Readies(client.got) = client.asked + 1
  BY <1>2 DEF Resting, Quiet
<1>5. This' = <<client.asked + 1, 1>> /\ This'[1] = client.asked + 1
  BY <1>3 DEF This
<1>6. Waiting' /\ Clean' /\ ~inError'
  BY <1>1, <1>2, <1>3, <1>4 DEF Resting, Waiting, Clean
<1>7. server.ran \in SUBSET Ids /\ \A id \in Ids : id[1] \in Nat
  BY Shapes, IdsTyped DEF Servers
<1>8. \A id \in server.ran : id[1] <= client.asked + 1 /\ id[1] # client.asked + 1
  BY <1>2, <1>7 DEF History
<1>9. This' \notin server'.ran
  BY <1>1, <1>5, <1>8
<1>10. ASSUME NEW i \in DOMAIN client.got, client.got[i].tag \in {"answer", "error"}
       PROVE  client.got[i].id[1] <= client.asked + 1 /\ client.got[i].id # This'
  <2>1. client.got[i] \in Replies
    <3>1. client.got \in Seq(Replies)
      BY <1>2 DEF Clients
    <3>2. QED
      BY <1>10, <3>1, ElementOfSeq, LenProperties
  <2>2. client.got[i].id[1] \in Nat /\ client.got[i].id[1] <= client.asked
    BY <1>7, <1>10, <2>1 DEF History, Replies
  <2>3. QED
    BY <1>2, <1>5, <2>2
<1>11. History'
  <2>1. AnswersInOrder' /\ AnswersAreTrue'
    BY <1>1, <1>3 DEF History, AnswersInOrder, AnswersAreTrue
  <2>2. QED
    BY <1>1, <1>3, <1>8, <1>10, <2>1 DEF History
<1>12. Unread(s)'
  BY <1>1, <1>2 DEF Resting, OnWires
<1>13. \A i \in DOMAIN client'.got : client'.got[i].tag = "error" => client'.got[i].id # This'
  BY <1>3, <1>10
<1>14. Asking'
  BY <1>6, <1>9, <1>12, <1>13 DEF Asking
<1>15. QED
  BY <1>11, <1>14 DEF Stage

LEMMA QueryAsked ==
  ASSUME TypeOK, History, Stage, OneByOne, AskQuery
  PROVE  History' /\ Stage'
<1>1. MayAsk
  BY DEF AskQuery
<1>2. PICK s \in Statements : Asks(<<Message("query", client.asked + 1, 1, s)>>)
  BY DEF AskQuery
<1>3. OnWires(<<>>, <<>>, <<>>, <<>>) /\ client \in Clients
  BY <1>1, OnlyAtRest, Shapes DEF Resting
<1>4. client'.asked = client.asked + 1 /\ UNCHANGED <<toServer, fromServer, toClient>>
  BY <1>2, <1>3 DEF Asks, Clients
<1>5. TheQuery(s)' = Message("query", client.asked + 1, 1, s)
  BY <1>4 DEF TheQuery
<1>6. toGateway' = <<Message("query", client.asked + 1, 1, s)>> => Unread(s)'
  BY <1>3, <1>4, <1>5 DEF OnWires, Unread
<1>7. QED
  BY <1>1, <1>2, <1>6, AsksOne, Longer

LEMMA BatchAsked ==
  ASSUME TypeOK, History, Stage, OneByOne, AskBatch
  PROVE  History' /\ Stage'
<1> DEFINE x == client.asked + 1
           P(s) == Message("parse", x, 1, s)
           E(s) == Message("execute", x, 1, s)
           Y == Message("sync", x, 2, "none")
<1>1. MayAsk
  BY DEF AskBatch
<1>2. PICK n \in 1 .. MaxBatch : \E batch \in [1 .. n -> Statements] :
        Asks(BatchOf(batch, n, x) \o <<Message("sync", x, n + 1, "none")>>)
  BY DEF AskBatch, BatchOf
<1>3. PICK batch \in [1 .. n -> Statements] :
        Asks(BatchOf(batch, n, x) \o <<Message("sync", x, n + 1, "none")>>)
  BY <1>2
<1>4. n = 1
  BY RelayAssumption DEF OneByOne
<1>5. PICK s \in Statements : s = batch[1]
  BY <1>4
<1>6. BatchOf(batch, n, x) = <<P(s), E(s)>>
  <2>1. BatchOf(batch, n, x) = [i \in 1 .. 2 |-> Message(IF i % 2 = 1 THEN "parse" ELSE "execute",
                                                         x, (i + 1) \div 2, batch[(i + 1) \div 2])]
    BY <1>4 DEF BatchOf
  <2>2. /\ (1 + 1) \div 2 = 1 /\ (2 + 1) \div 2 = 1 /\ 1 % 2 = 1 /\ 2 % 2 = 0
    OBVIOUS
  <2>3. BatchOf(batch, n, x)[1] = P(s) /\ BatchOf(batch, n, x)[2] = E(s)
    BY <1>5, <2>1, <2>2
  <2> DEFINE u == BatchOf(batch, n, x)
             v == <<P(s), E(s)>>
  <2> HIDE DEF P, E
  <2>4. u \in Seq({P(s), E(s)}) /\ Len(u) = 2
    <3>1. u \in [1 .. 2 -> {P(s), E(s)}]
      <4>1. \A i \in 1 .. 2 : i = 1 \/ i = 2
        OBVIOUS
      <4>2. \A i \in 1 .. 2 : u[i] \in {P(s), E(s)}
        BY <2>3, <4>1
      <4>3. u = [i \in 1 .. 2 |-> u[i]]
        BY <2>1
      <4> HIDE DEF u
      <4>4. QED
        BY <4>2, <4>3
    <3> HIDE DEF u
    <3>2. u \in Seq({P(s), E(s)})
      BY <3>1, SeqDef
    <3>3. Len(u) = 2
      BY <2>1 DEF u
    <3>4. QED
      BY <3>2, <3>3
  <2>5. v \in Seq({P(s), E(s)}) /\ Len(v) = 2 /\ v[1] = P(s) /\ v[2] = E(s)
    OBVIOUS
  <2>6. u[1] = P(s) /\ u[2] = E(s)
    BY <2>3
  <2> HIDE DEF u, v
  <2>7. \A i \in 1 .. Len(u) : u[i] = v[i]
    <3>1. \A i \in 1 .. 2 : i = 1 \/ i = 2
      OBVIOUS
    <3>2. QED
      BY <2>4, <2>5, <2>6, <3>1
  <2>8. u = v
    BY <2>4, <2>5, <2>7, SeqEqual
  <2>9. QED
    BY <2>8 DEF u, v
<1> HIDE DEF P, E
<1>7. BatchOf(batch, n, x) \o <<Message("sync", x, n + 1, "none")>> = <<P(s), E(s), Y>>
  <2>1. Message("sync", x, n + 1, "none") = Y
    BY <1>4
  <2>2. <<P(s), E(s)>> \in Seq({P(s), E(s), Y}) /\ Y \in {P(s), E(s), Y}
    OBVIOUS
  <2> HIDE DEF Y
  <2>3. <<P(s), E(s)>> \o <<Y>> = Append(<<P(s), E(s)>>, Y)
    BY <2>2, AppendIsConcat
  <2>4. <<P(s), E(s)>> \o <<Y>> = <<P(s), E(s), Y>>
    BY <2>3, Longer
  <2>5. QED
    BY <1>6, <2>1, <2>4
<1>8. Asks(<<P(s), E(s), Y>>)
  BY <1>3, <1>7
<1>9. OnWires(<<>>, <<>>, <<>>, <<>>) /\ client \in Clients
  BY <1>1, OnlyAtRest, Shapes DEF Resting
<1>10. client'.asked = x /\ UNCHANGED <<toServer, fromServer, toClient>>
  BY <1>8, <1>9 DEF Asks, Clients
<1>11. TheParse(s)' = P(s) /\ TheExecute(s)' = E(s) /\ TheSync' = Y
  BY <1>10 DEF TheParse, TheExecute, TheSync, P, E
<1> HIDE DEF Y
<1>12. toGateway' = <<P(s), E(s), Y>> => Unread(s)'
  BY <1>9, <1>10, <1>11 DEF OnWires, Unread
<1>13. QED
  BY <1>1, <1>8, <1>12, AsksOne, Longer

-----------------------------------------------------------------------------
(* The startup leaves the connection clean, and the client unanswered.      *)

LEMMA StartIsClean ==
  ASSUME Starting, Clean, ~inError, DOMAIN server = Fields, [Next]_vars
  PROVE  Clean' /\ ~inError'
<1>1. ~inError'
  BY DEF Starting, Authenticating, Attributing, Next, vars, ClientReads, AskQuery, AskBatch, Asks, Server,
     Authenticates, RelayPassword, RelayChallenge, HoldReady, FirstReady, SwallowAnswer,
     PumpsClient, Forward, RefuseQuery, RefuseParse, Refused, SkipUntilSync, Reads, RelayReply
<1>2. Clean'
  <2>1. CASE Server
    <3>1. toServer = <<Password>> \/ toServer = <<Settings>>
      BY <2>1 DEF Server, Starting, Authenticating, Attributing, OnWires
    <3>2. ServerReads(Password) \/ ServerReads(Settings)
      BY <2>1, <3>1, Wires DEF Server
    <3>3. server' = server \/ \E done \in {"set", "refused"} : server' = [server EXCEPT !.actor = done]
      BY <3>2, Tags DEF ServerReads
    <3>4. QED
      BY <3>3 DEF Clean, Fields
  <2>2. CASE ~Server
    <3>1. server' = server
      BY <2>2 DEF Next, vars, ClientReads, AskQuery, AskBatch, Asks,
         Authenticates, RelayPassword, RelayChallenge, HoldReady, FirstReady, SwallowAnswer,
         PumpsClient, Forward, RefuseQuery, RefuseParse, Refused, SkipUntilSync, RelayReply
    <3>2. QED
      BY <3>1 DEF Clean
  <2>3. QED
    BY <2>1, <2>2
<1>3. QED
  BY <1>1, <1>2

LEMMA NothingHeard ==
  ASSUME client.got = <<>>, server.ran = {}
  PROVE  History
BY DEF History, AnswersInOrder, AnswersAreTrue

\* The session relays, with the first ReadyForQuery on its way to the client.
LEMMA RelayingStarts ==
  ASSUME Starting, Clean, ~inError, DOMAIN server = Fields, [Next]_vars, phase' = "relaying"
  PROVE  History' /\ Welcomed'
<1>1. SwallowAnswer
  BY DEF Starting, Authenticating, Attributing, Next, vars, ClientReads, AskQuery, AskBatch, Asks, Server,
     Authenticates, RelayPassword, RelayChallenge, HoldReady, FirstReady,
     PumpsClient, Forward, RefuseQuery, RefuseParse, Refused, SkipUntilSync, Reads, RelayReply
<1>2. /\ Attributing /\ fromServer # <<>> /\ fromServer' = Tail(fromServer)
      /\ toClient' = Append(toClient, Ready("I"))
      /\ Head(fromServer).tag = "ready"
      /\ UNCHANGED <<toGateway, toServer, inError, server, client>>
  BY <1>1 DEF SwallowAnswer, Starting, Authenticating, Attributing
<1>3. fromServer = <<Ready("I")>> /\ toGateway = <<>> /\ toServer = <<>> /\ toClient \in {<<>>, <<Ok>>}
  BY <1>2, Wires, Tags DEF Attributing
<1>4. fromServer' = <<>> /\ toClient' \in {<<Ready("I")>>, <<Ok, Ready("I")>>}
  <2>1. fromServer' = <<>>
    BY <1>2, <1>3, Wires
  <2>2. toClient = <<>> => toClient' = <<Ready("I")>>
    BY <1>2, Wires
  <2>3. toClient = <<Ok>> => toClient' = <<Ok, Ready("I")>>
    BY <1>2, Longer
  <2>4. QED
    BY <1>3, <2>1, <2>2, <2>3
<1>5. client'.asked = 0 /\ client'.got = <<>> /\ server'.ran = {}
  BY <1>2 DEF Starting
<1>6. Clean' /\ ~inError'
  BY StartIsClean
<1>7. Welcomed'
  BY <1>2, <1>3, <1>4, <1>5, <1>6 DEF Welcomed, OnWires
<1>8. History'
  BY <1>5 DEF History, AnswersInOrder, AnswersAreTrue
<1>9. QED
  BY <1>7, <1>8

LEMMA OrderlyHolds ==
  ASSUME OneByOne
  PROVE  Spec => []Orderly
<1>1. Init => Orderly
  BY DEF Init, Orderly, Starting, Clean, History, AnswersInOrder, AnswersAreTrue
<1>2. TypeOK /\ IInv /\ Orderly /\ IInv' /\ [Next]_vars => Orderly'
  <2> SUFFICES ASSUME TypeOK, IInv, Orderly, IInv', [Next]_vars PROVE Orderly'
    OBVIOUS
  <2>1. CASE Starting
    <3>1. Clean' /\ ~inError'
      BY <2>1, StartIsClean DEF Orderly, IInv
    <3>2. CASE phase' = "relaying"
      BY <2>1, <3>1, <3>2, RelayingStarts DEF Orderly, IInv, Stage
    <3>3. CASE phase' # "relaying"
      <4>1. client'.got = <<>> /\ server'.ran = {}
        BY <3>3 DEF IInv, Starting, Relaying
      <4>2. History'
        BY <4>1 DEF History, AnswersInOrder, AnswersAreTrue
      <4>3. QED
        BY <3>1, <3>3, <4>2 DEF Orderly
    <3>4. QED
      BY <3>2, <3>3
  <2>2. CASE Relaying
    <3>1. phase = "relaying" /\ History /\ Stage
      BY <2>2 DEF Relaying, Orderly
    <3>2. History' /\ Stage'
      <4>1. CASE UNCHANGED vars
        <5>1. History'
          BY <3>1, <4>1, HistorySame DEF vars
        <5>2. This' = This /\ TheSync' = TheSync
              /\ \A s : /\ TheQuery(s)' = TheQuery(s) /\ TheParse(s)' = TheParse(s)
                        /\ TheExecute(s)' = TheExecute(s)
          BY <4>1, SameExchange DEF vars
        <5>3. Stage'
          BY <3>1, <4>1 DEF vars, Stage, Resting, Welcomed, Asking, Unread, Executed, Failed, Barred,
             Answered, Returning, OnWires, Quiet, Clean, Waiting, This, TheQuery, TheParse, TheExecute, TheSync
        <5>4. QED
          BY <5>1, <5>3
      <4>2. CASE ~UNCHANGED vars
        <5>1. ~(RelayPassword \/ RelayChallenge \/ HoldReady \/ SwallowAnswer)
          BY <3>1 DEF RelayPassword, RelayChallenge, HoldReady, FirstReady, SwallowAnswer
        <5>2. QED
          BY <3>1, <4>2, <5>1, ClientHears, QueryAsked, BatchAsked, ServerAnswers, Forwarded, QueryRefused,
             ParseRefused, Skipped, Relayed
          DEF Next, Authenticates, PumpsClient
      <4>3. QED
        BY <4>1, <4>2
    <3>3. ~Starting'
      <4>1. phase' = "relaying"
        BY <2>2 DEF Relaying, Next, vars, ClientReads, AskQuery, AskBatch, Asks, Server,
           Authenticates, RelayPassword, RelayChallenge, HoldReady, FirstReady, SwallowAnswer,
           PumpsClient, Forward, RefuseQuery, RefuseParse, Refused, SkipUntilSync, RelayReply
      <4>2. QED
        BY <4>1 DEF Starting, Authenticating, Attributing
    <3>4. QED
      BY <3>2, <3>3 DEF Orderly
  <2>3. QED
    BY <2>1, <2>2 DEF IInv
<1>3. QED
  BY <1>1, <1>2, InvariantHolds, Typed, PTL DEF Spec

\* What a client is told that asks one statement at a time, in a query or a
\* batch, and waits for its answer is true: what is answered has run in the
\* database, what is refused
\* or has failed has not (reject_with_error_response and the two pumps).
THEOREM Truthful == ASSUME OneByOne PROVE Spec => []AnswersAreTrue
<1>1. Orderly => AnswersAreTrue
  BY DEF Orderly, History
<1>2. QED
  BY <1>1, OrderlyHolds, PTL

\* And when it has them all nothing of what it asked is left on the way, in the
\* database or in the gateway's error state (_pump_client_to_server).
THEOREM NothingLeft == ASSUME OneByOne PROVE Spec => []QuietMeansDone
<1>1. TypeOK /\ IInv /\ Orderly => QuietMeansDone
  <2> SUFFICES ASSUME TypeOK, IInv, Orderly, Quiet
               PROVE  /\ wires = <<<<>>, <<>>, <<>>, <<>>>>
                      /\ server.held = <<>> /\ ~server.open /\ ~server.ignoring /\ ~inError
    BY DEF QuietMeansDone
  <2>1. client.asked \in Nat
    BY RelayAssumption, Shapes DEF Clients
  <2>2. ~Starting
    BY <2>1, ReadiesEmpty DEF Starting, Quiet
  <2>3. Stage /\ ~Waiting /\ ~Welcomed
    BY <2>1, <2>2, ReadiesEmpty DEF IInv, Relaying, Orderly, Quiet, Waiting, Welcomed
  <2>4. Resting
    BY <2>3 DEF Stage, Asking, Executed, Failed, Barred, Answered
  <2>5. QED
    BY <2>4 DEF Resting, OnWires, Clean, wires
<1>2. QED
  BY <1>1, InvariantHolds, Typed, OrderlyHolds, PTL
-----------------------------------------------------------------------------
(* No exchange is ended twice.                                              *)

\* What asks for a ReadyForQuery, or is one; of the streams, how many.
Ending == {"challenge", "password", "settings", "query", "sync", "ready"}
Marked(s) == {i \in DOMAIN s : s[i].tag \in Ending}
Marks(s) == Cardinality(Marked(s))
One(x) == IF x.tag \in Ending THEN 1 ELSE 0

LEMMA MarkedFinite ==
  ASSUME NEW T, NEW s \in Seq(T)
  PROVE  IsFiniteSet(Marked(s)) /\ Marks(s) \in Nat
<1>1. Len(s) \in Nat /\ DOMAIN s = 1 .. Len(s)
  BY LenProperties
<1>2. IsFiniteSet(1 .. Len(s)) /\ Marked(s) \in SUBSET (1 .. Len(s))
  BY <1>1, FS_Interval DEF Marked
<1>3. QED
  BY <1>2, FS_Subset, FS_CardinalityType DEF Marks

LEMMA MarksConcat ==
  ASSUME NEW T, NEW s \in Seq(T), NEW t \in Seq(T)
  PROVE  Marks(s \o t) = Marks(s) + Marks(t)
<1> DEFINE n == Len(s)
           Moved == {n + i : i \in Marked(t)}
           F == [i \in Marked(t) |-> n + i]
<1>1. /\ n \in Nat /\ Len(t) \in Nat /\ DOMAIN s = 1 .. n /\ DOMAIN t = 1 .. Len(t)
      /\ DOMAIN (s \o t) = 1 .. n + Len(t)
  BY ConcatProperties, LenProperties
<1>2. /\ \A i \in 1 .. n : (s \o t)[i] = s[i]
      /\ \A i \in 1 .. Len(t) : (s \o t)[n + i] = t[i]
  <2>1. \A i \in 1 .. n + Len(t) : (s \o t)[i] = IF i <= n THEN s[i] ELSE t[i - n]
    BY ConcatProperties
  <2>2. ASSUME NEW i \in 1 .. Len(t)
        PROVE  n + i \in 1 .. n + Len(t) /\ ~(n + i <= n) /\ (n + i) - n = i
    BY <1>1
  <2>3. 1 .. n \subseteq 1 .. n + Len(t) /\ \A i \in 1 .. n : i <= n
    BY <1>1
  <2> HIDE DEF n
  <2>4. QED
    BY <2>1, <2>2, <2>3
<1>3. Marked(s \o t) = Marked(s) \cup Moved
  <2>1. ASSUME NEW i \in Marked(s \o t) PROVE i \in Marked(s) \cup Moved
    <3>1. CASE i <= n
      <4>1. i \in 1 .. n
        BY <1>1, <3>1 DEF Marked
      <4>2. QED
        BY <1>1, <1>2, <4>1 DEF Marked
    <3>2. CASE ~(i <= n)
      <4>1. i - n \in 1 .. Len(t) /\ n + (i - n) = i
        BY <1>1, <3>2 DEF Marked
      <4>2. (s \o t)[i] = t[i - n]
        BY <1>2, <4>1
      <4>3. i - n \in Marked(t)
        BY <1>1, <4>1, <4>2 DEF Marked
      <4>4. QED
        BY <4>1, <4>3
    <3>3. QED
      BY <3>1, <3>2
  <2>2. ASSUME NEW i \in Marked(s) PROVE i \in Marked(s \o t)
    <3>1. i \in 1 .. n /\ i \in 1 .. n + Len(t)
      BY <1>1 DEF Marked
    <3>2. QED
      BY <1>1, <1>2, <3>1 DEF Marked
  <2>3. ASSUME NEW i \in Marked(t) PROVE n + i \in Marked(s \o t)
    <3>1. i \in 1 .. Len(t) /\ n + i \in 1 .. n + Len(t)
      BY <1>1 DEF Marked
    <3>2. QED
      BY <1>1, <1>2, <3>1 DEF Marked
  <2>4. QED
    BY <2>1, <2>2, <2>3
<1>4. Marked(s) \cap Moved = {}
  BY <1>1 DEF Marked
<1>5. IsFiniteSet(Moved) /\ Cardinality(Moved) = Marks(t)
  <2>1. F \in Bijection(Marked(t), Moved)
    <3>1. \A i, j \in Marked(t) : F[i] = F[j] => i = j
      BY <1>1 DEF Marked
    <3>2. QED
      BY <3>1, Fun_IsBij
  <2>2. ExistsBijection(Marked(t), Moved)
    BY <2>1 DEF ExistsBijection
  <2>3. QED
    BY <2>2, MarkedFinite, FS_Bijection DEF Marks
<1> HIDE DEF n, Moved, F
<1>6. Cardinality(Marked(s) \cup Moved) = Marks(s) + Marks(t) - Cardinality({})
  BY <1>4, <1>5, MarkedFinite, FS_Union DEF Marks
<1>7. QED
  BY <1>3, <1>6, FS_EmptySet, MarkedFinite DEF Marks

LEMMA MarksFew ==
  ASSUME NEW T
  PROVE  /\ Marks(<<>>) = 0
         /\ \A x \in T : Marks(<<x>>) = One(x)
         /\ \A x, y \in T : Marks(<<x, y>>) = One(x) + One(y)
         /\ \A s \in Seq(T), x \in T : Marks(Append(s, x)) = Marks(s) + One(x)
         /\ \A s \in Seq(T) : s # <<>> => Marks(Tail(s)) = Marks(s) - One(Head(s))
<1>1. Marks(<<>>) = 0
  <2>1. Marked(<<>>) = {}
    BY DEF Marked
  <2>2. QED
    BY <2>1, FS_EmptySet DEF Marks
<1>2. ASSUME NEW x \in T PROVE Marks(<<x>>) = One(x)
  <2>1. Marked(<<x>>) = IF x.tag \in Ending THEN {1} ELSE {}
    BY DEF Marked
  <2>2. Cardinality({1}) = 1 /\ Cardinality({}) = 0
    BY FS_EmptySet, FS_Singleton
  <2>3. QED
    BY <2>1, <2>2 DEF Marks, One
<1>3. ASSUME NEW s \in Seq(T), NEW x \in T
      PROVE  Marks(Append(s, x)) = Marks(s) + One(x)
  <2>1. <<x>> \in Seq(T) /\ Append(s, x) = s \o <<x>>
    BY AppendIsConcat
  <2>2. QED
    BY <1>2, <2>1, MarksConcat
<1>4. ASSUME NEW x \in T, NEW y \in T
      PROVE  Marks(<<x, y>>) = One(x) + One(y)
  <2>1. <<x>> \in Seq(T)
    BY <1>4
  <2>2. Append(<<x>>, y) = <<x, y>>
    <3>1. /\ Append(<<x>>, y) \in Seq(T) /\ Len(Append(<<x>>, y)) = Len(<<x>>) + 1
          /\ \A i \in 1 .. Len(<<x>>) : Append(<<x>>, y)[i] = <<x>>[i]
          /\ Append(<<x>>, y)[Len(<<x>>) + 1] = y
      BY <1>4, <2>1, AppendProperties
    <3>2. Len(<<x>>) = 1 /\ <<x>>[1] = x
      OBVIOUS
    <3>3. /\ <<x, y>> \in Seq(T) /\ Len(<<x, y>>) = 2
          /\ <<x, y>>[1] = x /\ <<x, y>>[2] = y
      BY <1>4
    <3> DEFINE u == Append(<<x>>, y)
               v == <<x, y>>
    <3>4. /\ u \in Seq(T) /\ v \in Seq(T) /\ Len(u) = 2 /\ Len(v) = 2
          /\ u[1] = v[1] /\ u[2] = v[2]
      BY <3>1, <3>2, <3>3
    <3> HIDE DEF u, v
    <3>5. u = v
      BY <3>4, SeqEqual
    <3>6. QED
      BY <3>5 DEF u, v
  <2>3. Marks(Append(<<x>>, y)) = Marks(<<x>>) + One(y)
    BY <1>3, <1>4, <2>1
  <2>4. QED
    BY <1>2, <1>4, <2>2, <2>3
<1>5. ASSUME NEW s \in Seq(T), s # <<>>
      PROVE  Marks(Tail(s)) = Marks(s) - One(Head(s))
  <2>1. Head(s) \in T /\ Tail(s) \in Seq(T) /\ <<Head(s)>> \in Seq(T)
    BY <1>5, HeadTailProperties
  <2>2. s = <<Head(s)>> \o Tail(s)
    <3>1. Len(<<Head(s)>>) = 1 /\ Len(Tail(s)) = Len(s) - 1 /\ Len(s) \in Nat /\ Len(s) >= 1
      BY <1>5, HeadTailProperties, LenProperties, EmptySeq
    <3> DEFINE u == <<Head(s)>> \o Tail(s)
    <3>2. u \in Seq(T) /\ Len(u) = Len(s)
      BY <2>1, <3>1, ConcatProperties
    <3>3. ASSUME NEW i \in 1 .. Len(s) PROVE u[i] = s[i]
      <4>1. u[i] = IF i <= 1 THEN <<Head(s)>>[i] ELSE Tail(s)[i - 1]
        BY <2>1, <3>1, ConcatProperties
      <4>2. CASE i = 1
        BY <4>1, <4>2
      <4>3. CASE i # 1
        <5>1. i - 1 \in 1 .. Len(Tail(s)) /\ (i - 1) + 1 = i /\ ~(i <= 1)
          BY <3>1, <4>3
        <5>2. Tail(s)[i - 1] = s[(i - 1) + 1]
          BY <1>5, <5>1, HeadTailProperties
        <5>3. QED
          BY <4>1, <5>1, <5>2
      <4>4. QED
        BY <4>2, <4>3
    <3> HIDE DEF u
    <3>4. u = s
      BY <3>2, <3>3, SeqEqual
    <3>5. QED
      BY <3>4 DEF u
  <2>3. Marks(s) = One(Head(s)) + Marks(Tail(s))
    BY <1>2, <2>1, <2>2, MarksConcat
  <2>4. Marks(Tail(s)) \in Nat /\ One(Head(s)) \in Nat
    BY <2>1, MarkedFinite DEF One
  <2>5. QED
    BY <2>3, <2>4
<1>6. QED
  BY <1>1, <1>2, <1>3, <1>4, <1>5

\* Wherever an end is, from its question to the client's ear, it is there once.
Total ==
  Marks(client.got) + Marks(toClient) + Marks(fromServer) + Marks(server.held)
    + Marks(toServer) + Marks(toGateway)

Bounded == Total <= client.asked + 1

LEMMA Streams ==
  ASSUME TypeOK
  PROVE  /\ toGateway \in Seq(Messages) /\ toServer \in Seq(Messages)
         /\ fromServer \in Seq(Replies) /\ toClient \in Seq(Replies)
         /\ server.held \in Seq(Replies) /\ client.got \in Seq(Replies)
         /\ client.asked \in Nat /\ client.asked <= MaxExchanges
         /\ DOMAIN server = Fields /\ DOMAIN client = {"asked", "got"}
         /\ server \in Servers /\ client \in Clients
         /\ Marks(toGateway) \in Nat /\ Marks(toServer) \in Nat
         /\ Marks(fromServer) \in Nat /\ Marks(toClient) \in Nat
         /\ Marks(server.held) \in Nat /\ Marks(client.got) \in Nat
<1>1. /\ toGateway \in Seq(Messages) /\ toServer \in Seq(Messages)
      /\ fromServer \in Seq(Replies) /\ toClient \in Seq(Replies)
      /\ server \in Servers /\ client \in Clients
  BY Shapes
<1>2. /\ server.held \in Seq(Replies) /\ client.got \in Seq(Replies)
      /\ client.asked \in Nat /\ client.asked <= MaxExchanges
      /\ DOMAIN server = Fields /\ DOMAIN client = {"asked", "got"}
  BY <1>1, RelayAssumption DEF Servers, Clients, Fields
<1>3. QED
  BY <1>1, <1>2, MarkedFinite

LEMMA Adds ==
  /\ \A s, t \in Seq(Replies) : Marks(s \o t) = Marks(s) + Marks(t)
  /\ \A s, t \in Seq(Messages) : Marks(s \o t) = Marks(s) + Marks(t)
BY MarksConcat

LEMMA OnesMade ==
  /\ \A id : /\ One(Reply("ok", id)) = 0 /\ One(Reply("answer", id)) = 0
             /\ One(Reply("error", id)) = 0
  /\ \A txn : One(Ready(txn)) = 1
  /\ One(Settings) = 1 /\ One(Password) = 1
  /\ \A x : One(x) \in {0, 1}
BY DEF One, Ending, Reply, Ready, Settings, Password, Message

\* Asking adds one end: the query, or the Sync of the batch.
LEMMA AskBounded ==
  ASSUME TypeOK, Bounded, AskQuery \/ AskBatch
  PROVE  Bounded'
<1> USE Streams
<1>1. SUFFICES ASSUME NEW messages \in Seq(Messages), Asks(messages), Marks(messages) = 1
               PROVE  Bounded'
  <2>1. MayAsk => client.asked + 1 \in 0 .. MaxExchanges
    BY RelayAssumption DEF MayAsk
  <2>2. ASSUME AskQuery PROVE Bounded'
    <3>1. PICK s \in Statements : Asks(<<Message("query", client.asked + 1, 1, s)>>)
      BY <2>2 DEF AskQuery
    <3> DEFINE m == Message("query", client.asked + 1, 1, s)
    <3>2. MayAsk /\ 1 \in Places
      BY <2>2, RelayAssumption DEF AskQuery, Places
    <3>3. m \in Messages /\ <<m>> \in Seq(Messages)
      BY <2>1, <3>2, MadeTyped
    <3>4. Marks(<<m>>) = 1
      <4>1. One(m) = 1
        BY DEF One, Message, Ending
      <4>2. QED
        BY <3>3, <4>1, MarksFew
    <3>5. QED
      BY <1>1, <3>1, <3>3, <3>4
  <2>3. ASSUME AskBatch PROVE Bounded'
    <3>0. PICK n \in 1 .. MaxBatch : \E batch \in [1 .. n -> Statements] :
            Asks(BatchOf(batch, n, client.asked + 1) \o <<Message("sync", client.asked + 1, n + 1, "none")>>)
      BY <2>3 DEF AskBatch, BatchOf
    <3>1. PICK batch \in [1 .. n -> Statements] :
            Asks(BatchOf(batch, n, client.asked + 1) \o <<Message("sync", client.asked + 1, n + 1, "none")>>)
      BY <3>0
    <3> DEFINE b == BatchOf(batch, n, client.asked + 1)
               m == Message("sync", client.asked + 1, n + 1, "none")
    <3>2. client.asked + 1 \in 0 .. MaxExchanges
      BY <2>1, <2>3 DEF AskBatch
    <3>3. n + 1 \in Places /\ n \in Nat /\ 2 * n \in Nat
      BY RelayAssumption DEF Places
    <3>4. m \in Messages /\ <<m>> \in Seq(Messages)
      BY <3>2, <3>3, MadeTyped
    <3>5. b \in Seq(Messages) /\ b \o <<m>> \in Seq(Messages)
      <4>1. QED
        BY <3>2, BatchTyped
    <3>6. Marked(b) = {}
      <4>1. \A i \in DOMAIN b : b[i].tag \in {"parse", "execute"}
        BY DEF BatchOf, Message
      <4>2. QED
        BY <4>1 DEF Marked, Ending
    <3>7. Marks(b) = 0
      BY <3>6, FS_EmptySet DEF Marks
    <3>8. One(m) = 1
      BY DEF One, Message, Ending
    <3> HIDE DEF b, m
    <3>9. Marks(b \o <<m>>) = 1
      <4>1. Marks(b \o <<m>>) = Marks(b) + Marks(<<m>>)
        BY <3>4, <3>5, Adds
      <4>2. Marks(<<m>>) = One(m)
        BY <3>4, MarksFew
      <4>3. QED
        BY <3>7, <3>8, <4>1, <4>2
    <3>10. QED
      BY <1>1, <3>1, <3>5, <3>9 DEF b, m
  <2>4. QED
    BY <2>2, <2>3
<1>2. Marks(toGateway') = Marks(toGateway) + 1
  BY <1>1, Adds DEF Asks
<1>3. /\ client'.asked = client.asked + 1 /\ client'.got = client.got
      /\ UNCHANGED <<toServer, fromServer, toClient, server>>
  BY <1>1 DEF Asks
<1>4. QED
  BY <1>2, <1>3 DEF Bounded, Total

LEMMA HearBounded ==
  ASSUME TypeOK, Bounded, ClientReads
  PROVE  Bounded'
<1>0. /\ Marks(toGateway) \in Nat /\ Marks(toServer) \in Nat
      /\ Marks(fromServer) \in Nat /\ Marks(toClient) \in Nat
      /\ Marks(server.held) \in Nat /\ Marks(client.got) \in Nat /\ client.asked \in Nat
  BY Streams
<1> DEFINE r == Head(toClient)
<1>1. /\ toClient # <<>> /\ toClient' = Tail(toClient) /\ r \in Replies
      /\ UNCHANGED <<toServer, fromServer, server>>
  BY Streams, HeadTailProperties DEF ClientReads
<1>2. Marks(toClient') = Marks(toClient) - One(r) /\ One(r) \in {0, 1}
  BY <1>1, Streams, MarksFew, OnesMade
<1>3. client'.asked = client.asked
  BY DEF ClientReads
<1>4. ASSUME Marks(client'.got) + Marks(toGateway') <= Marks(client.got) + Marks(toGateway) + One(r),
             Marks(client'.got) \in Nat, Marks(toGateway') \in Nat
      PROVE  Bounded'
  <2>1. /\ Marks(server'.held) = Marks(server.held) /\ Marks(toServer') = Marks(toServer)
        /\ Marks(fromServer') = Marks(fromServer)
    BY <1>1
  <2> HIDE DEF r
  <2>2. QED
    BY <1>0, <1>2, <1>3, <1>4, <2>1 DEF Bounded, Total
<1>5. CASE r.tag = "challenge"
  <2>1. client' = client /\ toGateway' = Append(toGateway, Password)
    BY <1>5 DEF ClientReads, Password
  <2>2. Marks(toGateway') = Marks(toGateway) + 1
    BY <2>1, Streams, MadeTyped, MarksFew, OnesMade
  <2>3. One(r) = 1
    BY <1>5 DEF One, Ending
  <2> HIDE DEF r
  <2>4. Marks(client'.got) = Marks(client.got)
    BY <2>1
  <2>5. QED
    BY <1>0, <1>4, <2>2, <2>3, <2>4
<1>6. CASE r.tag = "ok"
  <2>1. client' = client /\ toGateway' = toGateway
    BY <1>6 DEF ClientReads
  <2>2. One(r) = 0
    BY <1>6 DEF One, Ending
  <2> HIDE DEF r
  <2>3. Marks(client'.got) = Marks(client.got) /\ Marks(toGateway') = Marks(toGateway)
    BY <2>1
  <2>4. QED
    BY <1>0, <1>4, <2>2, <2>3
<1>7. CASE r.tag \notin {"challenge", "ok"}
  <2>1. client'.got = Append(client.got, r) /\ toGateway' = toGateway
    BY <1>7 DEF ClientReads
  <2> HIDE DEF r
  <2>2. Marks(client'.got) = Marks(client.got) + One(r)
    BY <1>1, <2>1, Streams, MarksFew
  <2>3. One(r) \in {0, 1}
    BY OnesMade
  <2>4. Marks(toGateway') = Marks(toGateway)
    BY <2>1
  <2>5. QED
    BY <1>0, <1>4, <2>2, <2>3, <2>4
<1>8. QED
  BY <1>5, <1>6, <1>7

\* The database ends what it is asked to end, and nothing else.
LEMMA ServerBounded ==
  ASSUME TypeOK, Bounded, Server
  PROVE  Bounded'
<1> USE Streams
<1> DEFINE m == Head(toServer)
<1>1. /\ toServer # <<>> /\ toServer' = Tail(toServer) /\ m \in Messages /\ ServerReads(m)
      /\ UNCHANGED <<toGateway, toClient, client>>
  BY HeadTailProperties DEF Server
<1>2. Marks(toServer') = Marks(toServer) - One(m)
  BY <1>1, MarksFew
<1>3. m.id \in Ids /\ m.tag \in {"password", "settings", "query", "parse", "execute", "sync"}
  BY <1>1 DEF Messages
<1>4. \A t \in {"ok", "answer", "error"}, txn \in {"I", "T", "E"} :
        /\ Reply(t, m.id) \in Replies /\ Ready(txn) \in Replies
        /\ <<Reply(t, m.id), Ready(txn)>> \in Seq(Replies)
        /\ Marks(<<Reply(t, m.id), Ready(txn)>>) = 1
        /\ <<Reply(t, m.id)>> \in Seq(Replies) /\ Marks(<<Reply(t, m.id)>>) = 0
        /\ <<Ready(txn)>> \in Seq(Replies) /\ Marks(<<Ready(txn)>>) = 1
  <2>1. \A t \in {"ok", "answer", "error"}, txn \in {"I", "T", "E"} :
          Reply(t, m.id) \in Replies /\ Ready(txn) \in Replies
    BY <1>3, MadeTyped
  <2>2. ASSUME NEW t \in {"ok", "answer", "error"}, NEW txn \in {"I", "T", "E"}
        PROVE  /\ <<Reply(t, m.id), Ready(txn)>> \in Seq(Replies)
               /\ Marks(<<Reply(t, m.id), Ready(txn)>>) = 1
               /\ <<Reply(t, m.id)>> \in Seq(Replies) /\ Marks(<<Reply(t, m.id)>>) = 0
               /\ <<Ready(txn)>> \in Seq(Replies) /\ Marks(<<Ready(txn)>>) = 1
    <3>1. Reply(t, m.id) \in Replies /\ Ready(txn) \in Replies
      BY <2>1
    <3>2. One(Reply(t, m.id)) = 0 /\ One(Ready(txn)) = 1
      BY OnesMade
    <3>3. /\ <<Reply(t, m.id), Ready(txn)>> \in Seq(Replies)
          /\ <<Reply(t, m.id)>> \in Seq(Replies) /\ <<Ready(txn)>> \in Seq(Replies)
      BY <3>1, StreamTyped
    <3>4. /\ Marks(<<Reply(t, m.id), Ready(txn)>>) = One(Reply(t, m.id)) + One(Ready(txn))
          /\ Marks(<<Reply(t, m.id)>>) = One(Reply(t, m.id)) /\ Marks(<<Ready(txn)>>) = One(Ready(txn))
      BY <3>1, MarksFew
    <3>5. QED
      BY <3>2, <3>3, <3>4
  <2>3. QED
    BY <2>1, <2>2
<1>5. server.txn \in {"I", "T", "E"}
  BY DEF Servers
<1>6. \A o \in Outcomes(m.sql, server.txn) :
        /\ o.txn \in {"I", "T", "E"}
        /\ \E t \in {"answer", "error"} : Answer(m, o) = Reply(t, m.id)
  BY <1>5 DEF Outcomes, Answer
<1> HIDE DEF m
<1>7. Marks(fromServer') \in Nat /\ Marks(server'.held) \in Nat
  <2>1. TypeOK'
    BY StepTyped DEF Next
  <2>2. fromServer' \in Seq(Replies) /\ server'.held \in Seq(Replies)
    BY <2>1, Shapes DEF Servers
  <2>3. QED
    BY <2>2, MarkedFinite
<1>8. SUFFICES Marks(fromServer') + Marks(server'.held)
                  <= Marks(fromServer) + Marks(server.held) + One(m)
  <2>1. One(m) \in {0, 1}
    BY OnesMade
  <2>2. /\ Marks(toGateway') = Marks(toGateway) /\ Marks(toClient') = Marks(toClient)
        /\ client' = client
    BY <1>1
  <2>3. /\ Marks(toGateway) \in Nat /\ Marks(toServer) \in Nat
        /\ Marks(fromServer) \in Nat /\ Marks(toClient) \in Nat
        /\ Marks(server.held) \in Nat /\ Marks(client.got) \in Nat /\ client.asked \in Nat
    BY Streams
  <2>4. Marks(client'.got) = Marks(client.got) /\ client'.asked = client.asked
    BY <2>2
  <2> HIDE Streams
  <2>5. QED
    BY <1>2, <1>7, <2>1, <2>2, <2>3, <2>4 DEF Bounded, Total
<1>9. CASE m.tag = "password"
  <2>1. fromServer' = fromServer \o <<Reply("ok", m.id), Ready("I")>> /\ server' = server
    BY <1>1, <1>9 DEF ServerReads
  <2>2. One(m) = 1
    BY <1>9 DEF One, Ending
  <2>3. /\ <<Reply("ok", m.id), Ready("I")>> \in Seq(Replies)
        /\ Marks(<<Reply("ok", m.id), Ready("I")>>) = 1
    BY <1>4
  <2>4. Marks(fromServer') = Marks(fromServer) + 1
    BY <2>1, <2>3, Adds
  <2>5. QED
    BY <2>1, <2>2, <2>4
<1>10. CASE m.tag = "settings"
  <2>1. PICK done \in {"set", "refused"} :
          /\ fromServer' = fromServer \o
                <<Reply(IF done = "set" THEN "answer" ELSE "error", m.id), Ready("I")>>
          /\ server' = [server EXCEPT !.actor = done]
    BY <1>1, <1>10 DEF ServerReads
  <2>2. One(m) = 1 /\ server'.held = server.held
    BY <1>10, <2>1 DEF One, Ending
  <2>3. PICK t \in {"answer", "error"} : fromServer' = fromServer \o <<Reply(t, m.id), Ready("I")>>
    BY <2>1
  <2>4. /\ <<Reply(t, m.id), Ready("I")>> \in Seq(Replies)
        /\ Marks(<<Reply(t, m.id), Ready("I")>>) = 1
    BY <1>4
  <2>5. Marks(fromServer') = Marks(fromServer) + 1
    <3> DEFINE said == <<Reply(t, m.id), Ready("I")>>
    <3>1. said \in Seq(Replies) /\ Marks(said) = 1 /\ fromServer' = fromServer \o said
      BY <2>3, <2>4
    <3> HIDE DEF said
    <3>2. QED
      BY <3>1, Adds
  <2>6. QED
    BY <2>2, <2>5
<1>11. CASE m.tag = "sync"
  <2>1. /\ fromServer' = (fromServer \o server.held) \o <<Ready(server.txn)>>
        /\ server'.held = <<>>
    BY <1>1, <1>11 DEF ServerReads, Fields
  <2>2. One(m) = 1
    BY <1>11 DEF One, Ending
  <2>3. /\ fromServer \o server.held \in Seq(Replies)
        /\ Marks(fromServer \o server.held) = Marks(fromServer) + Marks(server.held)
    BY StreamTyped, Adds
  <2>4. Marks(fromServer') = Marks(fromServer) + Marks(server.held) + 1
    <3>1. <<Ready(server.txn)>> \in Seq(Replies) /\ Marks(<<Ready(server.txn)>>) = 1
      BY <1>4, <1>5
    <3>2. QED
      BY <2>1, <2>3, <3>1, Adds
  <2>5. QED
    BY <2>1, <2>2, <2>4, MarksFew
<1>12. CASE m.tag = "query" /\ ~server.ignoring
  <2>1. PICK o \in Outcomes(m.sql, server.txn) :
          /\ fromServer' = (fromServer \o server.held) \o <<Answer(m, o), Ready(o.txn)>>
          /\ server' = [server EXCEPT !.txn = o.txn, !.ran = Run(m, o),
                                      !.held = <<>>, !.open = FALSE]
    BY <1>1, <1>12 DEF ServerReads
  <2>2. One(m) = 1 /\ server'.held = <<>>
    BY <1>12, <2>1 DEF One, Ending, Fields
  <2>3. /\ fromServer \o server.held \in Seq(Replies)
        /\ Marks(fromServer \o server.held) = Marks(fromServer) + Marks(server.held)
    BY StreamTyped, Adds
  <2>4. /\ <<Answer(m, o), Ready(o.txn)>> \in Seq(Replies)
        /\ Marks(<<Answer(m, o), Ready(o.txn)>>) = 1
    BY <1>4, <1>6
  <2>5. Marks(fromServer') = Marks(fromServer) + Marks(server.held) + 1
    BY <2>1, <2>3, <2>4, Adds
  <2>6. QED
    BY <2>2, <2>5, MarksFew
<1>13. CASE m.tag = "execute" /\ ~server.ignoring
  <2>1. PICK o \in Outcomes(m.sql, server.txn) :
          LET said == Append(server.held, Answer(m, o))
          IN  /\ fromServer' = IF o.ok THEN fromServer ELSE fromServer \o said
              /\ server' = [server EXCEPT !.txn = o.txn, !.ran = Run(m, o),
                                          !.held = IF o.ok THEN said ELSE <<>>,
                                          !.open = TRUE, !.ignoring = ~o.ok]
    BY <1>1, <1>13 DEF ServerReads
  <2> DEFINE said == Append(server.held, Answer(m, o))
  <2>2. One(m) = 0 /\ server'.held = IF o.ok THEN said ELSE <<>>
    BY <1>13, <2>1 DEF One, Ending, Fields
  <2>3. said \in Seq(Replies) /\ Marks(said) = Marks(server.held)
    <3>1. Answer(m, o) \in Replies /\ One(Answer(m, o)) = 0
      BY <1>4, <1>6, OnesMade
    <3>2. QED
      BY <3>1, StreamTyped, MarksFew
  <2>4. fromServer' = IF o.ok THEN fromServer ELSE fromServer \o said
    BY <2>1
  <2> HIDE DEF said
  <2>5. Marks(fromServer \o said) = Marks(fromServer) + Marks(said)
    BY <2>3, Adds
  <2>6. QED
    BY <2>2, <2>3, <2>4, <2>5, MarksFew
<1>14. CASE m.tag = "parse" \/ (m.tag = "execute" /\ server.ignoring)
  <2>1. One(m) = 0 /\ UNCHANGED <<fromServer, server>>
    BY <1>1, <1>14 DEF ServerReads, One, Ending
  <2>2. QED
    BY <2>1
<1>15. CASE m.tag = "query" /\ server.ignoring
  <2>1. One(m) = 1 /\ UNCHANGED <<fromServer, server>>
    BY <1>1, <1>15 DEF ServerReads, One, Ending
  <2>2. QED
    BY <2>1
<1>16. QED
  BY <1>3, <1>9, <1>10, <1>11, <1>12, <1>13, <1>14, <1>15

\* So does the gateway: it passes an end on, or gives it itself.
LEMMA GatewayBounded ==
  ASSUME TypeOK, Bounded, Authenticates \/ PumpsClient \/ RelayReply
  PROVE  Bounded'
<1>0. /\ Marks(toGateway) \in Nat /\ Marks(toServer) \in Nat
      /\ Marks(fromServer) \in Nat /\ Marks(toClient) \in Nat
      /\ Marks(server.held) \in Nat /\ Marks(client.got) \in Nat /\ client.asked \in Nat
  BY Streams
<1>1. UNCHANGED <<server, client>>
  BY DEF Authenticates, PumpsClient, RelayPassword, RelayChallenge, HoldReady, FirstReady,
         SwallowAnswer, Forward, RefuseQuery, RefuseParse, Refused, SkipUntilSync, RelayReply
<1>2. /\ \A x \in Messages : /\ Marks(Append(toServer, x)) = Marks(toServer) + One(x)
      /\ \A x \in Replies : Marks(Append(toClient, x)) = Marks(toClient) + One(x)
      /\ toGateway # <<>> => /\ Head(toGateway) \in Messages
                             /\ Marks(Tail(toGateway)) = Marks(toGateway) - One(Head(toGateway))
      /\ fromServer # <<>> => /\ Head(fromServer) \in Replies
                              /\ Marks(Tail(fromServer)) = Marks(fromServer) - One(Head(fromServer))
  BY Streams, MarksFew, HeadTailProperties
<1>3. Ready("I") \in Replies /\ Settings \in Messages
  BY MadeTyped
<1> DEFINE Wired == Marks(toGateway) + Marks(toServer) + Marks(fromServer) + Marks(toClient)
           WiredNext ==
              Marks(toGateway') + Marks(toServer') + Marks(fromServer') + Marks(toClient')
<1>4. ASSUME WiredNext <= Wired PROVE Bounded'
  <2>1. /\ Marks(server'.held) = Marks(server.held) /\ Marks(client'.got) = Marks(client.got)
        /\ client'.asked = client.asked
    BY <1>1
  <2>2. /\ Marks(toGateway') \in Nat /\ Marks(toServer') \in Nat
        /\ Marks(fromServer') \in Nat /\ Marks(toClient') \in Nat
    <3>1. TypeOK'
      BY StepTyped DEF Next
    <3>2. /\ toGateway' \in Seq(Messages) /\ toServer' \in Seq(Messages)
          /\ fromServer' \in Seq(Replies) /\ toClient' \in Seq(Replies)
      BY <3>1, Shapes
    <3>3. QED
      BY <3>2, MarkedFinite
  <2>3. QED
    BY <1>0, <1>4, <2>1, <2>2 DEF Bounded, Total
<1>5. CASE RelayPassword \/ Forward
  <2>1. /\ toGateway # <<>> /\ toServer' = Append(toServer, Head(toGateway))
        /\ toGateway' = Tail(toGateway) /\ UNCHANGED <<fromServer, toClient>>
    BY <1>5 DEF RelayPassword, Forward, Reads
  <2>2. One(Head(toGateway)) \in {0, 1}
    BY OnesMade
  <2>3. /\ Marks(toServer') = Marks(toServer) + One(Head(toGateway))
        /\ Marks(toGateway') = Marks(toGateway) - One(Head(toGateway))
        /\ Marks(fromServer') = Marks(fromServer) /\ Marks(toClient') = Marks(toClient)
    BY <1>2, <2>1
  <2>4. QED
    BY <1>0, <1>4, <2>2, <2>3
<1>6. CASE RelayChallenge \/ RelayReply
  <2>1. /\ fromServer # <<>> /\ toClient' = Append(toClient, Head(fromServer))
        /\ fromServer' = Tail(fromServer) /\ UNCHANGED <<toGateway, toServer>>
    BY <1>6 DEF RelayChallenge, RelayReply
  <2>2. One(Head(fromServer)) \in {0, 1}
    BY OnesMade
  <2>3. /\ Marks(toClient') = Marks(toClient) + One(Head(fromServer))
        /\ Marks(fromServer') = Marks(fromServer) - One(Head(fromServer))
        /\ Marks(toGateway') = Marks(toGateway) /\ Marks(toServer') = Marks(toServer)
    BY <1>2, <2>1
  <2>4. QED
    BY <1>0, <1>4, <2>2, <2>3
<1>7. CASE HoldReady
  <2>1. /\ fromServer # <<>> /\ Head(fromServer).tag = "ready" /\ fromServer' = Tail(fromServer)
        /\ toServer' = Append(toServer, Settings) /\ UNCHANGED <<toGateway, toClient>>
    BY <1>7 DEF HoldReady, FirstReady
  <2>2. One(Head(fromServer)) = 1 /\ One(Settings) = 1
    BY <2>1, OnesMade DEF One, Ending
  <2>3. /\ Marks(fromServer') = Marks(fromServer) - 1
        /\ Marks(toServer') = Marks(toServer) + 1
        /\ Marks(toGateway') = Marks(toGateway) /\ Marks(toClient') = Marks(toClient)
    BY <1>2, <1>3, <2>1, <2>2
  <2>4. QED
    BY <1>0, <1>4, <2>3
<1>8. CASE SwallowAnswer
  <2>1. /\ fromServer # <<>> /\ fromServer' = Tail(fromServer) /\ UNCHANGED <<toGateway, toServer>>
        /\ toClient' = IF Head(fromServer).tag = "ready" THEN Append(toClient, Ready("I")) ELSE toClient
    BY <1>8 DEF SwallowAnswer
  <2>2. CASE Head(fromServer).tag = "ready"
    <3>1. One(Head(fromServer)) = 1 /\ One(Ready("I")) = 1
      BY <2>2, OnesMade DEF One, Ending
    <3>2. /\ Marks(fromServer') = Marks(fromServer) - 1
          /\ Marks(toClient') = Marks(toClient) + 1
          /\ Marks(toGateway') = Marks(toGateway) /\ Marks(toServer') = Marks(toServer)
      BY <1>2, <1>3, <2>1, <2>2, <3>1
    <3>3. QED
      BY <1>0, <1>4, <3>2
  <2>3. CASE Head(fromServer).tag # "ready"
    <3>1. One(Head(fromServer)) \in {0, 1}
      BY OnesMade
    <3>2. /\ Marks(fromServer') = Marks(fromServer) - One(Head(fromServer))
          /\ Marks(toClient') = Marks(toClient)
          /\ Marks(toGateway') = Marks(toGateway) /\ Marks(toServer') = Marks(toServer)
      BY <1>2, <2>1, <2>3
    <3>3. QED
      BY <1>0, <1>4, <3>1, <3>2
  <2>4. QED
    BY <2>2, <2>3
<1>9. CASE RefuseQuery
  <2>1. /\ toGateway # <<>> /\ Head(toGateway).tag = "query" /\ toGateway' = Tail(toGateway)
        /\ toClient' = toClient \o <<Refusal, Ready("I")>> /\ UNCHANGED <<toServer, fromServer>>
    BY <1>9 DEF RefuseQuery, Refused, Reads
  <2>2. One(Head(toGateway)) = 1
    BY <2>1 DEF One, Ending
  <2>3. Refusal \in Replies /\ One(Refusal) = 0 /\ One(Ready("I")) = 1
    BY <1>2, <2>1, MadeTyped, OnesMade DEF Refusal, Messages
  <2>4. <<Refusal, Ready("I")>> \in Seq(Replies) /\ Marks(<<Refusal, Ready("I")>>) = 1
    BY <1>3, <2>3, StreamTyped, MarksFew
  <2>5. Marks(toClient') = Marks(toClient) + 1
    BY <2>1, <2>4, Adds, Streams
  <2>6. /\ Marks(toGateway') = Marks(toGateway) - 1
        /\ Marks(toServer') = Marks(toServer) /\ Marks(fromServer') = Marks(fromServer)
    BY <1>0, <1>2, <2>1, <2>2
  <2>7. QED
    BY <1>0, <1>4, <2>5, <2>6
<1>10. CASE RefuseParse
  <2>1. /\ toGateway # <<>> /\ Head(toGateway).tag = "parse" /\ toGateway' = Tail(toGateway)
        /\ toClient' = toClient \o <<Refusal>> /\ UNCHANGED <<toServer, fromServer>>
    BY <1>10 DEF RefuseParse, Refused, Reads
  <2>2. One(Head(toGateway)) = 0
    BY <2>1 DEF One, Ending
  <2>3. Refusal \in Replies /\ One(Refusal) = 0
    BY <1>2, <2>1, MadeTyped, OnesMade DEF Refusal, Messages
  <2>4. <<Refusal>> \in Seq(Replies) /\ Marks(<<Refusal>>) = 0
    BY <2>3, StreamTyped, MarksFew
  <2>5. Marks(toClient') = Marks(toClient)
    <3>1. Marks(toClient') = Marks(toClient) + 0
      BY <2>1, <2>4, Adds, Streams
    <3>2. QED
      BY <1>0, <3>1
  <2>6. /\ Marks(toGateway') = Marks(toGateway)
        /\ Marks(toServer') = Marks(toServer) /\ Marks(fromServer') = Marks(fromServer)
    BY <1>0, <1>2, <2>1, <2>2
  <2>7. QED
    BY <1>0, <1>4, <2>5, <2>6
<1>11. CASE SkipUntilSync
  <2>1. /\ toGateway # <<>> /\ toGateway' = Tail(toGateway) /\ UNCHANGED <<toServer, fromServer>>
        /\ inError' = (Head(toGateway).tag # "sync")
        /\ toClient' = IF inError' THEN toClient ELSE Append(toClient, Ready("I"))
    BY <1>11 DEF SkipUntilSync, Reads
  <2>2. CASE Head(toGateway).tag = "sync"
    <3>1. One(Head(toGateway)) = 1 /\ One(Ready("I")) = 1
      BY <2>2, OnesMade DEF One, Ending
    <3>2. toClient' = Append(toClient, Ready("I"))
      BY <2>1, <2>2
    <3>3. /\ Marks(toClient') = Marks(toClient) + 1
          /\ Marks(toGateway') = Marks(toGateway) - 1
          /\ Marks(toServer') = Marks(toServer) /\ Marks(fromServer') = Marks(fromServer)
      BY <1>2, <1>3, <2>1, <3>1, <3>2
    <3>4. QED
      BY <1>0, <1>4, <3>3
  <2>3. CASE Head(toGateway).tag # "sync"
    <3>1. One(Head(toGateway)) \in {0, 1}
      BY OnesMade
    <3>2. toClient' = toClient
      BY <2>1, <2>3
    <3>3. /\ Marks(toGateway') = Marks(toGateway) - One(Head(toGateway))
          /\ Marks(toClient') = Marks(toClient)
          /\ Marks(toServer') = Marks(toServer) /\ Marks(fromServer') = Marks(fromServer)
      BY <1>2, <2>1, <3>2
    <3>4. QED
      BY <1>0, <1>4, <3>1, <3>3
  <2>4. QED
    BY <2>2, <2>3
<1>12. QED
  BY <1>5, <1>6, <1>7, <1>8, <1>9, <1>10, <1>11 DEF Authenticates, PumpsClient

\* Whatever a client batches and pipelines, and whoever answers it, it is never
\* told of more ends than it has asked for (server.py:604-733).
THEOREM EndedOnce == Spec => []NoneTooMany
<1>1. Init => Bounded
  <2> SUFFICES ASSUME Init PROVE Bounded
    OBVIOUS
  <2>1. /\ client.asked = 0 /\ client.got = <<>> /\ server.held = <<>>
        /\ toGateway = <<>> /\ toServer = <<>> /\ toClient = <<>> /\ fromServer = <<Challenge>>
    BY DEF Init, Challenge
  <2>2. Challenge \in Replies
    BY MadeTyped, IdsTyped DEF Challenge
  <2>3. Marks(<<Challenge>>) = One(Challenge) /\ Marks(<<>>) = 0
    BY <2>2, MarksFew
  <2>4. One(Challenge) = 1
    BY DEF One, Ending, Challenge, Reply
  <2>5. QED
    BY <2>1, <2>3, <2>4 DEF Bounded, Total
<1>2. TypeOK /\ Bounded /\ [Next]_vars => Bounded'
  <2> SUFFICES ASSUME TypeOK, Bounded, [Next]_vars PROVE Bounded'
    OBVIOUS
  <2>1. CASE UNCHANGED vars
    BY <2>1 DEF vars, Bounded, Total
  <2>2. QED
    BY <2>1, AskBounded, HearBounded, ServerBounded, GatewayBounded DEF Next
<1>3. TypeOK /\ Bounded => NoneTooMany
  <2> SUFFICES ASSUME TypeOK, Bounded PROVE NoneTooMany
    OBVIOUS
  <2>1. Marks(client.got) <= client.asked + 1
    BY Streams DEF Bounded, Total
  <2>2. Readies(client.got) <= Marks(client.got) /\ Readies(client.got) \in Nat
    <3>1. {i \in DOMAIN client.got : client.got[i].tag = "ready"} \subseteq Marked(client.got)
      BY DEF Marked, Ending
    <3>2. IsFiniteSet(Marked(client.got))
      BY Streams, MarkedFinite
    <3>3. QED
      BY <3>1, <3>2, FS_Subset, FS_CardinalityType DEF Readies, Marks
  <2>3. QED
    BY <2>1, <2>2, Streams DEF NoneTooMany
<1>4. QED
  BY <1>1, <1>2, <1>3, Typed, PTL DEF Spec
=============================================================================
