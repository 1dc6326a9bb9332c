---------------------------- MODULE DiscordClient ----------------------------
(***************************************************************************)
(* How a Client becomes ready, and how the Discord Client stays connected  *)
(* to Discord's gateway.                                                   *)
(*                                                                         *)
(* initialize() takes a Client through its stages, one attempt at a time;  *)
(* a heartbeat or a user starts it.  The connection to the gateway lives   *)
(* on its own: a library opens and reopens the socket, the gateway may ask *)
(* for a reconnect, refuse a session or go silent, and several activities  *)
(* (the initialization, reconnects) may wait for the same socket.          *)
(***************************************************************************)
EXTENDS Integers, Sequences, FiniteSets

CONSTANTS
  Reconnect,      \* bound: the calls of handleReconnect that may overlap
  MaxAttempts,    \* how often the library opens a socket before it gives up
  Faults,         \* what may go wrong
  MaxFaults,      \* bound: how often in all
  MaxRequests     \* bound: initializations that a user asks for

Initialize == "initialize"
Activity   == Reconnect \cup {Initialize}

ASSUME DiscordAssumption ==
  /\ IsFiniteSet(Reconnect) /\ Initialize \notin Reconnect
  /\ MaxAttempts \in Nat \ {0} /\ MaxFaults \in Nat /\ MaxRequests \in Nat
  /\ Faults \subseteq {"stage", "hook", "connect", "drop", "fatal", "refused",
                       "dead", "reconnect", "invalid", "timeout"}

VARIABLES
  client,     \* the Client: its flags, and its attempt at initializing
  gate,       \* its gateway client
  conn,       \* the socket, and what the gateway knows of it
  activity,   \* what each activity waits for
  leaked,     \* history: was a gateway client replaced that had a socket?
  stranded,   \* history: was the Client left to look ready, and nobody told?
  faults, requests

discordVars == <<client, gate, conn, activity, leaked, stranded, faults, requests>>

Flagged == {"database", "build", "cache", "connection"}
Message == {"hello", "ready", "resumed", "invalid", "resumable", "reconnect", "ack"}

(* undefined, or null: there is nothing to do in the stage. *)
Fine == {"null", "ok"}

Client ==
  [flag : [Flagged -> Fine \cup {"unset", "failed"}], authed : BOOLEAN, authFailure : BOOLEAN,
   at : Flagged \cup {"auth", "idle"}, force : BOOLEAN]

Gate ==
  [reconnecting : BOOLEAN, ready : BOOLEAN, canResume : BOOLEAN,
   session : BOOLEAN, acknowledged : BOOLEAN, timer : BOOLEAN, hello : BOOLEAN]

NewGate ==
  [reconnecting |-> FALSE, ready |-> FALSE, canResume |-> FALSE,
   session |-> FALSE, acknowledged |-> TRUE, timer |-> FALSE, hello |-> FALSE]

(* request: what the gateway has been asked and has not answered; asked:    *)
(* how often it was asked on this connection, where 2 is twice or more.     *)
Conn ==
  [socket : {"closed", "connecting", "open", "closing"}, attempts : 0..MaxAttempts,
   inbox : Seq(Message), request : {"none", "identify", "resume", "again"},
   server : {"none", "identified", "dead"}, asked : 0..2]

NoConn ==
  [socket |-> "closed", attempts |-> 0, inbox |-> <<>>, request |-> "none",
   server |-> "none", asked |-> 0]

-----------------------------------------------------------------------------
(* The Client's flags. *)

IsReady ==
  /\ \A s \in {"database", "build", "connection"} : client.flag[s] \in Fine
  /\ client.authed

Initializing == client.at # "idle"

(* A stage that has been passed is passed over, unless it is forced. *)
Skips(s) == client.flag[s] = "ok" /\ ~client.force

After(s) ==
  IF s = "database" THEN "build"
  ELSE IF s = "build" THEN "cache"
  ELSE IF s = "cache" THEN "connection" ELSE "auth"

Fails(c)  == [c EXCEPT !.at = "idle"]
Passes(c) == [c EXCEPT !.flag[c.at] = "ok", !.at = After(c.at)]

(* What the stage that waits for the gateway makes of an error.  None of the *)
(* gateway client's own errors passes for a network error, so that each is   *)
(* taken for a failure to authenticate.                                      *)
StageFails(c) ==
  IF c.at = "connection" THEN Fails([c EXCEPT !.flag["connection"] = "failed"])
  ELSE Fails([c EXCEPT !.authed = FALSE, !.authFailure = TRUE])

(* The listener of the Client for a gateway client that has stopped. *)
StoppedFlags(c, refusal) ==
  [c EXCEPT !.authed = FALSE, !.authFailure = refusal,
            !.flag["connection"] = "failed"]

(* A forced attempt that fails once it has replaced the gateway client leaves *)
(* the Client authenticated, so that the next attempt passes that stage over. *)
Strands(c) == c.force /\ c.authed

Authenticated(c) == Fails([c EXCEPT !.authed = TRUE, !.authFailure = FALSE])

-----------------------------------------------------------------------------
(* The gateway client. *)

(* cleanupConnection: a session that cannot be resumed is forgotten. *)
Cleanup(g) ==
  [g EXCEPT !.timer = FALSE, !.ready = FALSE,
            !.session = @ /\ g.canResume, !.acknowledged = @ /\ g.canResume]

(* The gateway client is ready as soon as it has been. *)
StaysReady(g) == [Cleanup(g) EXCEPT !.ready = g.ready]

(* The socket is closed and the gateway client cleaned up. *)
CleanedUp(g) == Cleanup(g)

(* authenticate: it resumes its session if it can, or identifies itself.    *)
(* The gateway tolerates one request per connection.                        *)
Asks(c, g, n) ==
  IF n = 0 THEN c ELSE
  [c EXCEPT !.asked = IF @ + n > 1 THEN 2 ELSE @ + n,
            !.request = IF c.asked + n > 1 THEN "again"
                        ELSE IF g.canResume /\ g.session THEN "resume" ELSE "identify"]

Opening(c)  == IF c.socket = "connecting" THEN c
               ELSE [NoConn EXCEPT !.socket = "connecting", !.attempts = 1]
Sent(c, m)  == IF c.server = "dead" \/ m \in {c.inbox[i] : i \in DOMAIN c.inbox} THEN c
               ELSE [c EXCEPT !.inbox = Append(@, m)]

Waiting(a)   == activity[a] \in {"opening", "awaiting"}
Reconnecting == \E a \in Reconnect : activity[a] # "idle"
Released     == [a \in Activity |-> IF Waiting(a) THEN "idle" ELSE activity[a]]

(* 'stopped': the Client hears of it, and everybody who waits gives up.      *)
Stopped(refusal) ==
  /\ client' = LET c == StoppedFlags(client, refusal)
               IN  IF Waiting(Initialize) THEN StageFails(c) ELSE c
  /\ activity' = Released

(* 'ready': everybody who waits for it is done. *)
Ready ==
  /\ client' = IF activity[Initialize] = "awaiting" THEN Authenticated(client) ELSE client
  /\ activity' = [a \in Activity |-> IF activity[a] = "awaiting" THEN "idle"
                                     ELSE activity[a]]

-----------------------------------------------------------------------------
Fault(f) == f \in Faults /\ faults > 0 /\ faults' = faults - 1

DiscordInit ==
  /\ client = [flag |-> [s \in Flagged |-> "unset"],
               authed |-> FALSE, authFailure |-> FALSE, at |-> "idle", force |-> FALSE]
  /\ gate = NewGate /\ conn = NoConn
  /\ activity = [a \in Activity |-> "idle"]
  /\ leaked = FALSE /\ stranded = FALSE
  /\ faults = MaxFaults /\ requests = MaxRequests

Begins(force) == client' = [client EXCEPT !.at = "database", !.force = force]

(* heartbeatTask *)
HeartbeatInitializes ==
  /\ ~IsReady /\ ~Initializing /\ Begins(FALSE)
  /\ UNCHANGED <<gate, conn, activity, leaked, stranded, faults, requests>>

(* initScrobbleMonitoring: while another attempt runs, initialize throws. *)
UserInitializes ==
  /\ requests > 0 /\ requests' = requests - 1
  /\ ~Initializing
  /\ \E force \in BOOLEAN : (~IsReady \/ force) /\ Begins(force)
  /\ UNCHANGED <<gate, conn, activity, leaked, stranded, faults>>

StageSkipped ==
  /\ client.at \in Flagged /\ Skips(client.at)
  /\ activity[Initialize] = "idle"
  /\ client' = [client EXCEPT !.at = After(@)]
  /\ UNCHANGED <<gate, conn, activity, leaked, stranded, faults, requests>>

(* buildDatabase and postDatabase: an error of the second leaves databaseOK *)
(* set, so that it is passed over from then on.                             *)
DatabaseBuilt ==
  /\ client.at = "database" /\ ~Skips("database")
  /\ \/ client' = Passes(client) /\ UNCHANGED faults
     \/ Fault("hook") /\ client' = Fails([client EXCEPT !.flag["database"] = "ok"])
     \/ Fault("stage") /\ client' = Fails([client EXCEPT !.flag["database"] = "failed"])
  /\ UNCHANGED <<gate, conn, activity, leaked, stranded, requests>>

(* doBuildInitData makes a new gateway client, whatever the last one does.  *)
(* What waits in the old one waits for nothing that matters.                *)
GatewayClientBuilt ==
  /\ client.at = "build" /\ ~Skips("build")
  /\ gate' = NewGate /\ conn' = NoConn
  /\ leaked' = (leaked \/ conn.socket # "closed")
  /\ activity' = [a \in Activity |-> "idle"]
  /\ \/ client' = Passes(client) /\ UNCHANGED <<stranded, faults>>
     \/ /\ Fault("stage")
        /\ client' = Fails([client EXCEPT !.flag["build"] = "failed"])
        /\ stranded' = (stranded \/ Strands(client))
  /\ UNCHANGED requests

(* There is no cache to parse. *)
CacheParsed ==
  /\ client.at = "cache" /\ ~Skips("cache")
  /\ client' = [client EXCEPT !.flag["cache"] = "null", !.at = "connection"]
  /\ UNCHANGED <<gate, conn, activity, leaked, stranded, faults, requests>>

(* tryConnect of an open socket, a closing one, and one to be opened. *)
ConnectionChecked ==
  /\ client.at = "connection" /\ ~Skips("connection") /\ activity[Initialize] = "idle"
  /\ \/ conn.socket = "open" /\ client' = Passes(client) /\ UNCHANGED <<conn, activity>>
     \/ conn.socket = "closing" /\ client' = StageFails(client)
        /\ UNCHANGED <<conn, activity>>
     \/ /\ conn.socket \in {"closed", "connecting"}
        /\ conn' = Opening(conn)
        /\ activity' = [activity EXCEPT ![Initialize] = "opening"]
        /\ UNCHANGED client
  /\ UNCHANGED <<gate, leaked, stranded, faults, requests>>

(* An authentication that has failed is tried again only if it is forced. *)
WillNotRetry == client.authFailure /\ ~client.force
(* testAuth and tryAuthenticate *)
AuthTested ==
  /\ client.at = "auth" /\ activity[Initialize] = "idle"
  /\ \/ /\ client.authed /\ ~client.force
        /\ client' = Fails(client) /\ UNCHANGED <<conn, activity>>
     \/ /\ ~(client.authed /\ ~client.force) /\ WillNotRetry
        /\ client' = Fails(client) /\ UNCHANGED <<conn, activity>>
     \/ /\ ~(client.authed /\ ~client.force) /\ ~WillNotRetry
        /\ \/ gate.ready /\ client' = Authenticated(client) /\ UNCHANGED <<conn, activity>>
           \/ /\ ~gate.ready /\ conn.socket = "open"
              /\ conn' = Asks(conn, gate, 1)
              /\ activity' = [activity EXCEPT ![Initialize] = "awaiting"]
              /\ UNCHANGED client
           \/ /\ ~gate.ready /\ conn.socket = "closing"
              /\ client' = StageFails(client) /\ UNCHANGED <<conn, activity>>
           \/ /\ ~gate.ready /\ conn.socket \in {"closed", "connecting"}
              /\ conn' = Opening(conn)
              /\ activity' = [activity EXCEPT ![Initialize] = "opening"]
              /\ UNCHANGED client
  /\ UNCHANGED <<gate, leaked, stranded, faults, requests>>

-----------------------------------------------------------------------------
(* The socket. *)

(* 'open': a socket that the library has reopened is authenticated at once, *)
(* and so it is by every activity that has opened it to authenticate.       *)
SocketOpens ==
  /\ conn.socket = "connecting"
  /\ LET checking == activity[Initialize] = "opening" /\ client.at = "connection"
         openers  == {a \in Activity : activity[a] = "opening"
                                         /\ ~(a = Initialize /\ checking)}
         asks     == Cardinality(openers) + IF gate.reconnecting THEN 1 ELSE 0
         opened   == [NoConn EXCEPT !.socket = "open", !.inbox = <<"hello">>]
     IN  /\ conn' = Asks(opened, gate, asks)
         /\ client' = IF checking THEN Passes(client) ELSE client
         /\ activity' = [a \in Activity |->
                           IF a \in openers THEN "awaiting"
                           ELSE IF a = Initialize /\ checking THEN "idle"
                           ELSE activity[a]]
  /\ UNCHANGED <<gate, leaked, stranded, faults, requests>>

(* The library retries, and says so; or it reports an error in the end.     *)
ConnectFails ==
  /\ conn.socket = "connecting" /\ Fault("connect")
  /\ \/ /\ conn.attempts < MaxAttempts
        /\ conn' = [conn EXCEPT !.attempts = @ + 1]
        /\ gate' = [gate EXCEPT !.reconnecting = TRUE]
        /\ UNCHANGED <<client, activity>>
     \/ /\ conn.attempts = MaxAttempts
        /\ conn' = NoConn
        /\ gate' = Cleanup([gate EXCEPT !.canResume = FALSE, !.reconnecting = FALSE])
        /\ Stopped(FALSE)
  /\ UNCHANGED <<leaked, stranded, requests>>

(* The connection is lost, with or without the session: the library retries. *)
Retried(canResume) ==
  /\ gate' = [CleanedUp([gate EXCEPT !.canResume = @ /\ canResume])
                EXCEPT !.reconnecting = TRUE]
  /\ conn' = [NoConn EXCEPT !.socket = "connecting", !.attempts = 1]
  /\ UNCHANGED <<client, activity>>

ConnectionLost ==
  /\ conn.socket = "open" /\ Fault("drop")
  /\ \E canResume \in BOOLEAN : Retried(canResume)
  /\ UNCHANGED <<leaked, stranded, requests>>

(* The gateway closes a connection on which it is asked twice. *)
AskedTwice ==
  /\ conn.socket = "open" /\ conn.request = "again" /\ conn.server # "dead"
  /\ Retried(TRUE)
  /\ UNCHANGED <<leaked, stranded, faults, requests>>

(* The gateway refuses the token. *)
TokenRefused ==
  /\ conn.socket = "open" /\ conn.request = "identify" /\ Fault("refused")
  /\ gate' = [CleanedUp([gate EXCEPT !.canResume = FALSE]) EXCEPT !.reconnecting = FALSE]
  /\ conn' = NoConn
  /\ Stopped(TRUE)
  /\ UNCHANGED <<leaked, stranded, requests>>

(* It closes with a code after which nothing is retried. *)
ClosedForGood ==
  /\ conn.socket = "open" /\ Fault("fatal")
  /\ gate' = [CleanedUp(gate) EXCEPT !.reconnecting = FALSE]
  /\ conn' = NoConn
  /\ Stopped(FALSE)
  /\ UNCHANGED <<leaked, stranded, requests>>

(* The gateway is no longer there, and nobody has been told. *)
ConnectionDies ==
  /\ conn.socket = "open" /\ conn.server # "dead" /\ Fault("dead")
  /\ conn' = [conn EXCEPT !.server = "dead", !.request = "none"]
  /\ UNCHANGED <<client, gate, activity, leaked, stranded, requests>>

(* A gateway client that has been replaced is still listened to. *)
ReplacedStops ==
  /\ leaked /\ Fault("fatal") /\ leaked' = FALSE
  /\ client' = StoppedFlags(client, FALSE)
  /\ UNCHANGED <<gate, conn, activity, stranded, requests>>

SocketCloses ==
  /\ conn.socket = "closing" /\ conn' = NoConn
  /\ UNCHANGED <<client, gate, activity, leaked, stranded, faults, requests>>

-----------------------------------------------------------------------------
(* The gateway's side. *)

GatewayAnswers ==
  /\ conn.socket = "open" /\ conn.server # "dead"
  /\ \/ /\ conn.request = "identify"
        /\ conn' = Sent([conn EXCEPT !.server = "identified", !.request = "none"], "ready")
        /\ UNCHANGED faults
     \/ /\ conn.request = "resume"
        /\ conn' = Sent([conn EXCEPT !.server = "identified", !.request = "none"], "resumed")
        /\ UNCHANGED faults
     \/ /\ conn.request \in {"resume", "identify"} /\ Fault("invalid")
        /\ \E m \in {"invalid", "resumable"} :
             conn' = Sent([conn EXCEPT !.request = "none"], m)
  /\ UNCHANGED <<client, gate, activity, leaked, stranded, requests>>

GatewayAsksToReconnect ==
  /\ conn.socket = "open" /\ conn.server # "dead" /\ Fault("reconnect")
  /\ conn' = Sent(conn, "reconnect")
  /\ UNCHANGED <<client, gate, activity, leaked, stranded, requests>>

-----------------------------------------------------------------------------
(* Messages, heartbeats, and reconnects. *)

(* handleReconnect, up to the closing of the socket; a manual close is not  *)
(* reported and not retried.  Bound: when all of Reconnect are busy, one    *)
(* that waits for an answer is forgotten; it could only log that none came. *)
StartsReconnect(g) ==
  /\ \E a \in Reconnect :
       /\ \/ activity[a] = "idle"
          \/ activity[a] = "awaiting" /\ \A b \in Reconnect : activity[b] # "idle"
       /\ activity' = [activity EXCEPT ![a] = "closing"]
  /\ conn' = IF conn.socket = "closed" THEN conn ELSE [NoConn EXCEPT !.socket = "closing"]
  /\ gate' = g
  /\ UNCHANGED client

Handled(g) ==
  gate' = g /\ conn' = [conn EXCEPT !.inbox = Tail(@)]

MessageHandled ==
  /\ conn.inbox # <<>>
  /\ LET m == Head(conn.inbox) IN
     \/ m = "hello" /\ Handled([gate EXCEPT !.hello = TRUE]) /\ UNCHANGED <<client, activity>>
     \/ m = "ack" /\ Handled([gate EXCEPT !.acknowledged = TRUE])
        /\ UNCHANGED <<client, activity>>
     \/ /\ m \in {"ready", "resumed"}
        /\ Handled([gate EXCEPT !.canResume = TRUE, !.ready = TRUE, !.session = TRUE,
                                !.reconnecting = FALSE,
                                !.timer = @ \/ m = "resumed"])
        /\ Ready
     \/ m \in {"invalid", "resumable"}
        /\ StartsReconnect([gate EXCEPT !.canResume = m = "resumable"])
     \/ m = "reconnect" /\ StartsReconnect(gate)
  /\ UNCHANGED <<leaked, stranded, faults, requests>>

(* handleHello, after its wait *)
FirstHeartbeat ==
  /\ gate.hello
  /\ gate' = [gate EXCEPT !.hello = FALSE, !.timer = @ \/ conn.socket = "open"]
  /\ conn' = IF conn.socket = "open" THEN Sent(conn, "ack") ELSE conn
  /\ UNCHANGED <<client, activity, leaked, stranded, faults, requests>>

(* The acknowledgement of a heartbeat is not asked for again. *)
TakenForGranted(g) == g

(* A heartbeat waits for an acknowledgement. *)
Unacknowledged(g) == [g EXCEPT !.acknowledged = FALSE]

(* doHeartbeatInteval, an interval later; the first heartbeat waits for a    *)
(* part of one.  Bound: what the gateway has sent is handled before then.    *)
NextHeartbeat ==
  /\ gate.timer /\ ~gate.hello /\ conn.inbox = <<>>
  /\ LET g == [gate EXCEPT !.timer = FALSE] IN
     IF ~gate.acknowledged THEN StartsReconnect(g)
     ELSE /\ gate' = Unacknowledged([g EXCEPT !.timer = conn.socket = "open"])
          /\ conn' = IF conn.socket = "open" THEN Sent(conn, "ack") ELSE conn
          /\ UNCHANGED <<client, activity>>
  /\ UNCHANGED <<leaked, stranded, faults, requests>>

(* handleReconnect, once the socket is closed: tryAuthenticate opens it.    *)
ReconnectGoesOn(a) ==
  /\ activity[a] = "closing" /\ conn.socket \in {"closed", "connecting"}
  /\ gate' = CleanedUp(gate)
  /\ conn' = Opening(conn)
  /\ activity' = [activity EXCEPT ![a] = "opening"]
  /\ UNCHANGED <<client, leaked, stranded, faults, requests>>

(* It has waited too long for a socket that another has opened again, and   *)
(* perhaps not authenticated.                                               *)
ReconnectGivesUp(a) ==
  /\ activity[a] = "closing" /\ conn.socket = "open"
  /\ activity' = [activity EXCEPT ![a] = "idle"]
  /\ stranded' = (stranded \/ conn.server = "none")
  /\ UNCHANGED <<client, gate, conn, leaked, faults, requests>>

(* Ten seconds have passed, and the socket is still closing: once it is      *)
(* closed, nobody opens it again.                                           *)
CloseTakesTooLong(a) ==
  /\ activity[a] = "closing" /\ conn.socket = "closing" /\ Fault("timeout")
  /\ activity' = [activity EXCEPT ![a] = "idle"]
  /\ stranded' = TRUE
  /\ UNCHANGED <<client, gate, conn, leaked, requests>>

(* Six seconds have passed.  Only the log hears of a reconnect that fails.  *)
TimesOut(a) ==
  /\ Waiting(a)
  /\ activity' = [activity EXCEPT ![a] = "idle"]
  /\ client' = IF a = Initialize THEN StageFails(client) ELSE client
  /\ UNCHANGED <<gate, conn, leaked, requests>>

AnswerTooLate(a) ==
  /\ Fault("timeout") /\ TimesOut(a)
  /\ stranded' = (stranded \/ a \in Reconnect
                           \/ (client.at = "connection" /\ Strands(client)))

(* The gateway is gone; a heartbeat will notice. *)
AnswerNeverComes(a) ==
  /\ activity[a] = "awaiting" /\ conn.server = "dead" /\ TimesOut(a)
  /\ UNCHANGED <<stranded, faults>>

DiscordNext ==
  \/ HeartbeatInitializes \/ UserInitializes \/ StageSkipped
  \/ DatabaseBuilt \/ GatewayClientBuilt \/ CacheParsed
  \/ ConnectionChecked \/ AuthTested
  \/ SocketOpens \/ ConnectFails \/ ConnectionLost \/ AskedTwice
  \/ TokenRefused \/ ClosedForGood \/ ConnectionDies \/ SocketCloses \/ ReplacedStops
  \/ GatewayAnswers \/ GatewayAsksToReconnect
  \/ MessageHandled \/ FirstHeartbeat \/ NextHeartbeat
  \/ \E a \in Reconnect : ReconnectGoesOn(a) \/ ReconnectGivesUp(a) \/ CloseTakesTooLong(a)
  \/ \E a \in Activity : AnswerTooLate(a) \/ AnswerNeverComes(a)

(* The heartbeat task, timers, the library and the gateway go on.  No fault *)
(* and no user has to happen.                                               *)
DiscordFairness ==
  /\ WF_discordVars(HeartbeatInitializes) /\ WF_discordVars(StageSkipped)
  /\ WF_discordVars(DatabaseBuilt) /\ WF_discordVars(GatewayClientBuilt)
  /\ WF_discordVars(CacheParsed) /\ WF_discordVars(ConnectionChecked)
  /\ WF_discordVars(AuthTested)
  /\ WF_discordVars(SocketOpens) /\ WF_discordVars(SocketCloses)
  /\ WF_discordVars(AskedTwice) /\ WF_discordVars(GatewayAnswers)
  /\ WF_discordVars(MessageHandled)
  /\ WF_discordVars(FirstHeartbeat) /\ WF_discordVars(NextHeartbeat)
  /\ \A a \in Reconnect : WF_discordVars(ReconnectGoesOn(a) \/ ReconnectGivesUp(a))
  /\ \A a \in Activity : WF_discordVars(AnswerNeverComes(a))

DiscordSpec == DiscordInit /\ [][DiscordNext]_discordVars /\ DiscordFairness

-----------------------------------------------------------------------------
DiscordTypeOK ==
  /\ client \in Client /\ gate \in Gate /\ conn \in Conn
  /\ activity \in [Activity -> {"idle", "closing", "opening", "awaiting"}]
  /\ activity[Initialize] # "idle" => client.at \in {"connection", "auth"}
  /\ {leaked, stranded} \subseteq BOOLEAN
  /\ faults \in 0..MaxFaults /\ requests \in 0..MaxRequests

(* A presence is sent only over a connection on which the gateway has        *)
(* accepted the Client: the gateway client is not taken for ready over an    *)
(* open socket that it has not authenticated since it was opened.            *)
ReadyIsIdentified ==
  gate.ready /\ conn.socket = "open" =>
    \/ conn.server # "none"
    \/ stranded \/ \E a \in Reconnect : activity[a] = "closing"

(* A Client that says it is ready has a connection or is getting one, unless *)
(* a reconnect gave up: then nobody tries again, and nobody is told.         *)
ReadyIsHonest ==
  IsReady => conn.socket # "closed" \/ Initializing \/ Reconnecting \/ stranded

(* The flags of the Client and of its gateway client fit the connection.     *)
ReadyIsReal == DiscordTypeOK /\ ReadyIsIdentified /\ ReadyIsHonest

Usable ==
  /\ IsReady /\ gate.ready
  /\ conn.socket = "open" /\ conn.server = "identified"

(* Whatever happens to the connection, the Client is in the end usable       *)
(* again, without anybody's help; but not after an authentication failed,    *)
(* or a reconnect gave up.                                                   *)
Recovers == []<>(Usable \/ client.authFailure \/ stranded)
==============================================================================
