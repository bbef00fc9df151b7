-------------------------- MODULE RedisAsyncClient --------------------------
(***************************************************************************)
(* AsyncClient, the Redis client every worker keeps for itself: connecting, *)
(* authenticating, commands and their callbacks, losing the connection and  *)
(* reconnecting by timer.  All callbacks run on the worker's event loop.    *)
(*                                                                         *)
(* hiredis is external: it reports the outcome of a connection attempt once,*)
(* answers every queued command once, with a null reply when the connection *)
(* goes down or a command times out, and then reports the disconnection.    *)
(***************************************************************************)
EXTENDS Integers, FiniteSets

CONSTANTS
  MaxReconnect,  \* max_reconnect_count_
  MaxCommands,   \* bound: commands issued in a behaviour
  MaxDrops       \* bound: connections lost or refused in a behaviour

ASSUME BoundAssumption == MaxReconnect \in Nat /\ MaxCommands \in Nat /\ MaxDrops \in Nat

Commands == 0 .. MaxCommands - 1

VARIABLES
  password,          \* whether password_ is set
  client_status,     \* client_status_; DESTROYED once the destructor has run
  context,           \* redis_async_context_: "null", or the state of its connection
  commands_map,      \* the ids in commands_map_
  next_command_id,   \* next_command_id_
  try_reconnecting,  \* try_reconnecting_
  should_reconnect,  \* should_reconnect_
  reconnect_count,   \* reconnect_count_
  timers,            \* reconnect timers that are armed
  queued,            \* hiredis: commands that await their reply
  answered,          \* history: how often each command's callback has run
  attempts,          \* history: reconnections since the last successful one
  drops              \* connections lost or refused so far

retry == <<try_reconnecting, should_reconnect, reconnect_count, timers>>
commands == <<commands_map, next_command_id, queued, answered>>
vars == <<password, client_status, context, retry, commands, attempts, drops>>

-----------------------------------------------------------------------------
\* The callbacks of the commands in C run.
Answer(C) == answered' = [c \in Commands |-> answered[c] + IF c \in C THEN 1 ELSE 0]

\* A variant of ResetAsyncContext that forgets the outstanding callbacks.
ResetAsyncContextSilent(status) ==
  /\ client_status' = status
  /\ context' = "null"
  /\ commands_map' = {}
  /\ queued' = {}
  /\ UNCHANGED <<answered, next_command_id>>

\* resetAsyncContext: detach from the context, free it, and answer every
\* command that is still in the map.
ResetAsyncContext(status) ==
  /\ client_status' = status
  /\ context' = "null"
  /\ Answer(commands_map)
  /\ commands_map' = {}
  /\ queued' = {}
  /\ UNCHANGED next_command_id

\* A variant of WaitingToReconnect that announces a reconnection it never arms.
WaitingToReconnectUnarmed(trying) ==
  /\ try_reconnecting' = TRUE
  /\ client_status' = "CONNECTING"
  /\ UNCHANGED <<should_reconnect, reconnect_count, timers>>

\* waitingToReconnect, called with client_status_ NOT_INIT; trying is
\* try_reconnecting_ at the call.
WaitingToReconnect(trying) ==
  LET counted == ~trying /\ should_reconnect
      retries == counted /\ reconnect_count <= MaxReconnect
  IN  /\ reconnect_count' = reconnect_count + IF counted THEN 1 ELSE 0
      /\ should_reconnect' = IF trying THEN should_reconnect ELSE retries
      /\ try_reconnecting' = (trying \/ retries)
      /\ timers' = timers + IF retries THEN 1 ELSE 0
      /\ client_status' = IF trying THEN "NOT_INIT"
                          ELSE IF retries THEN "CONNECTING" ELSE "COMPLETED"

-----------------------------------------------------------------------------
\* The constructor calls connect(), which fails at once (INIT_ERROR) or leaves
\* a connection attempt behind and client_status_ as it was.
Init ==
  /\ \/ client_status = "NOT_INIT" /\ context = "connecting"
     \/ client_status = "INIT_ERROR" /\ context = "null"
  /\ commands_map = {} /\ next_command_id = 0 /\ queued = {}
  /\ answered = [c \in Commands |-> 0]
  /\ try_reconnecting = FALSE
  /\ password \in BOOLEAN
  /\ should_reconnect \in BOOLEAN
  /\ reconnect_count = 0
  /\ timers = 0
  /\ attempts = 0
  /\ drops = 0

\* reconnectCb: the timer fires and calls connect().
ReconnectCb ==
  /\ timers > 0
  /\ timers' = timers - 1
  /\ attempts' = attempts + 1
  /\ \/ /\ context' = "connecting"
        /\ UNCHANGED <<client_status, commands>>
     \/ ResetAsyncContext("INIT_ERROR")
  /\ UNCHANGED <<password, try_reconnecting, should_reconnect, reconnect_count, drops>>

\* connectCb with REDIS_OK; AUTH is sent when there is a password.
ConnectCbOk ==
  /\ context = "connecting"
  /\ context' = "open"
  /\ reconnect_count' = IF try_reconnecting THEN 0 ELSE reconnect_count
  /\ try_reconnecting' = FALSE
  /\ client_status' = IF password THEN "CONNECTED" ELSE "WORKING"
  /\ attempts' = 0
  /\ UNCHANGED <<password, should_reconnect, timers, commands, drops>>

\* connectCb with an error; hiredis frees the context.
ConnectCbError ==
  /\ context = "connecting"
  /\ drops < MaxDrops
  /\ drops' = drops + 1
  /\ context' = "null"
  /\ WaitingToReconnect(FALSE)
  /\ UNCHANGED <<password, commands, attempts>>

\* authenticateCb with OK.
AuthenticateCbOk ==
  /\ context = "open"
  /\ client_status = "CONNECTED"
  /\ client_status' = "WORKING"
  /\ UNCHANGED <<password, context, retry, commands, attempts, drops>>

\* authenticateCb with anything else: a refusal, or the null reply of a
\* connection that is lost or of a command that timed out.
AuthenticateCbError ==
  /\ context = "open"
  /\ client_status = "CONNECTED"
  /\ should_reconnect' = FALSE
  /\ ResetAsyncContext("COMPLETED")
  /\ UNCHANGED <<password, try_reconnecting, reconnect_count, timers, attempts>>

AuthenticateRefused == AuthenticateCbError /\ UNCHANGED drops

\* get() accepted; otherwise it returns without a trace.
Get ==
  /\ client_status = "WORKING"
  /\ context # "null"
  /\ next_command_id < MaxCommands
  /\ commands_map' = commands_map \cup {next_command_id}
  /\ queued' = queued \cup {next_command_id}
  /\ next_command_id' = next_command_id + 1
  /\ UNCHANGED <<password, client_status, context, retry, answered, attempts, drops>>

\* A variant of CommandCb that leaves the callback in the map.
CommandCbKeeps(c) ==
  /\ context = "open"
  /\ c \in queued
  /\ queued' = queued \ {c}
  /\ Answer({c} \cap commands_map)
  /\ UNCHANGED <<password, client_status, context, retry, commands_map, next_command_id, attempts, drops>>

\* commandCb with a reply: run the callback if the id is known, erase it.
CommandCb(c) ==
  /\ context = "open"
  /\ c \in queued
  /\ queued' = queued \ {c}
  /\ Answer({c} \cap commands_map)
  /\ commands_map' = commands_map \ {c}
  /\ UNCHANGED <<password, client_status, context, retry, next_command_id, attempts, drops>>

\* The connection is lost or a command times out.  While AUTH is pending its
\* callback sees the null reply first and detaches the client.
LostDuringAuth ==
  /\ drops < MaxDrops
  /\ drops' = drops + 1
  /\ AuthenticateCbError

\* Otherwise every queued command gets a null reply and disconnectCb follows.
DisconnectCb ==
  /\ context = "open"
  /\ client_status = "WORKING"
  /\ drops < MaxDrops
  /\ drops' = drops + 1
  /\ Answer(queued \cap commands_map)
  /\ commands_map' = commands_map \ queued
  /\ queued' = {}
  /\ context' = "null"
  /\ WaitingToReconnect(try_reconnecting)
  /\ UNCHANGED <<password, next_command_id, attempts>>

\* The destructor; nothing runs afterwards.
Destroy ==
  /\ client_status # "DESTROYED"
  /\ ResetAsyncContext("DESTROYED")
  /\ timers' = 0
  /\ try_reconnecting' = FALSE
  /\ UNCHANGED <<password, should_reconnect, reconnect_count, attempts, drops>>

Next ==
  \/ ReconnectCb \/ ConnectCbOk \/ ConnectCbError
  \/ AuthenticateCbOk \/ AuthenticateRefused \/ LostDuringAuth
  \/ Get \/ (\E c \in Commands : CommandCb(c)) \/ DisconnectCb
  \/ Destroy

\* The event loop fires due timers and hiredis, which bounds every attempt and
\* every command by a timeout, reports each outcome.
Fairness ==
  /\ WF_vars(ReconnectCb)
  /\ WF_vars(ConnectCbOk \/ ConnectCbError)
  /\ WF_vars(AuthenticateCbOk \/ AuthenticateRefused \/ LostDuringAuth)
  /\ \A c \in Commands : WF_vars(CommandCb(c) \/ DisconnectCb)

Spec == Init /\ [][Next]_vars /\ Fairness

-----------------------------------------------------------------------------
Statuses ==
  {"NOT_INIT", "INIT_ERROR", "CONNECTING", "CONNECTED", "WORKING", "COMPLETED", "DESTROYED"}

TypeOK ==
  /\ password \in BOOLEAN
  /\ client_status \in Statuses
  /\ context \in {"null", "connecting", "open"}
  /\ commands_map \subseteq Commands
  /\ next_command_id \in 0 .. MaxCommands
  /\ try_reconnecting \in BOOLEAN
  /\ should_reconnect \in BOOLEAN
  /\ reconnect_count \in Nat
  /\ timers \in Nat
  /\ queued \subseteq Commands
  /\ answered \in [Commands -> Nat]
  /\ attempts \in Nat
  /\ drops \in 0 .. MaxDrops

\* A client that says it is connected or working has an open connection, so a
\* lookup that saw WORKING is never dropped by get() for want of a context.
WorkingHasContext ==
  client_status \in {"CONNECTED", "WORKING"} <=> context = "open"

\* The callback of an accepted get() runs exactly once: it is either still in
\* the map and has not run, or has left the map and has run once, through
\* replies, lost connections, failed authentications and destruction.
AnsweredOnce ==
  \A c \in Commands :
    /\ c \in commands_map <=> c < next_command_id /\ answered[c] = 0
    /\ answered[c] \in {0, 1}
    /\ c >= next_command_id => answered[c] = 0

\* No callback is orphaned: whatever is in the map has a reply of the open
\* connection to come.
OutstandingQueued ==
  commands_map = queued /\ (commands_map # {} => context = "open")

Underway == timers + IF context = "null" THEN 0 ELSE 1

\* There is never more than one connection or reconnect timer, and a client
\* that reports CONNECTING really has one: it cannot wait for nothing.
OneReconnection ==
  /\ Underway <= 1
  /\ client_status \in {"NOT_INIT", "CONNECTING"} => Underway = 1

\* The reconnections in a row are limited by the configured maximum (the
\* comparison lets one more through).
AttemptsBounded == attempts <= MaxReconnect + 1

\* INIT_ERROR and COMPLETED are final: no timer or callback revives the client.
FinalStatus ==
  [][(client_status \in {"INIT_ERROR", "COMPLETED"}) =>
       client_status' \in {client_status, "DESTROYED"}]_vars

\* Every accepted get() is eventually answered.
EveryGetAnswered ==
  \A c \in Commands : c \in commands_map ~> answered[c] = 1

\* A client that lost its connection gets back to work or gives up for good; it
\* does not stay between the two.
ComesBackOrGivesUp ==
  client_status = "CONNECTING"
    ~> client_status \in {"WORKING", "INIT_ERROR", "COMPLETED", "DESTROYED"}

=============================================================================
