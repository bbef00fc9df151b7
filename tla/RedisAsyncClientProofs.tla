------------------------ MODULE RedisAsyncClientProofs ------------------------
(***************************************************************************)
(* The Redis client answers every accepted get once, never has two          *)
(* reconnections under way, and limits them, for every maximum and any      *)
(* number of commands and lost connections.                                 *)
(***************************************************************************)
EXTENDS RedisAsyncClient, TLAPS

\* Where the status, the context and the reconnect timer must agree.
Consistent ==
  /\ client_status \in {"CONNECTED", "WORKING"} <=> context = "open"
  /\ context = "open" => ~try_reconnecting
  /\ client_status = "NOT_INIT" => context = "connecting"
  /\ context = "connecting" => client_status \in {"NOT_INIT", "CONNECTING"}
  /\ timers \in {0, 1}
  /\ timers = 1 => context = "null" /\ client_status = "CONNECTING"
  /\ client_status = "CONNECTING" => timers = 1 \/ context = "connecting"

\* Every attempt since the last success, made or waiting, has been counted.
Counted ==
  /\ attempts + timers <= reconnect_count
  /\ attempts + timers <= MaxReconnect + 1

\* What is outstanding is queued in the open connection, and nothing else is.
Outstanding ==
  /\ commands_map = queued
  /\ commands_map # {} => context = "open"
  /\ AnsweredOnce

IInv == TypeOK /\ Consistent /\ Counted /\ Outstanding

\* The invariant holds when the constructor returns.
LEMMA InitIInv == Init => IInv
<1> USE BoundAssumption DEF Commands
<1> SUFFICES ASSUME Init PROVE IInv
  OBVIOUS
<1>1. TypeOK
  <2>1. password \in BOOLEAN /\ try_reconnecting \in BOOLEAN /\ should_reconnect \in BOOLEAN
    BY Zenon DEF Init
  <2>2. answered \in [Commands -> Nat]
    BY DEF Init
  <2>3. QED
    BY <2>1, <2>2 DEF Init, TypeOK, Statuses
<1>2. Consistent
  BY DEF Init, Consistent
<1>3. Counted
  BY DEF Init, Counted
<1>4. Outstanding
  BY DEF Init, Outstanding, AnsweredOnce
<1>5. QED
  BY <1>1, <1>2, <1>3, <1>4 DEF IInv

\* Answering exactly the outstanding commands and forgetting them keeps the
\* account of the callbacks.
LEMMA AnswerAll ==
  ASSUME TypeOK, AnsweredOnce, Answer(commands_map), commands_map' = {},
         UNCHANGED next_command_id
  PROVE  AnsweredOnce' /\ answered' \in [Commands -> Nat]
BY BoundAssumption DEF TypeOK, AnsweredOnce, Answer, Commands

\* A step that leaves the commands alone keeps their account.
LEMMA CommandsUnchanged ==
  ASSUME Outstanding, UNCHANGED commands, context = "open" => context' = "open" \/ commands_map = {}
  PROVE  Outstanding'
BY DEF Outstanding, AnsweredOnce, commands, Commands

\* After resetAsyncContext nothing is outstanding and everything is answered.
LEMMA ResetOutstanding ==
  ASSUME TypeOK, Outstanding, NEW status, ResetAsyncContext(status)
  PROVE  Outstanding' /\ answered' \in [Commands -> Nat]
<1>1. AnsweredOnce' /\ answered' \in [Commands -> Nat]
  BY AnswerAll DEF Outstanding, ResetAsyncContext
<1>2. QED
  BY <1>1 DEF Outstanding, ResetAsyncContext

\* The invariant is inductive.
LEMMA NextIInv == IInv /\ [Next]_vars => IInv'
<1> USE BoundAssumption
<1> SUFFICES ASSUME IInv, [Next]_vars PROVE IInv'
  OBVIOUS
<1> USE DEF IInv
<1>1. CASE ReconnectCb
  <2>1. Outstanding' /\ answered' \in [Commands -> Nat]
    <3>1. CASE context' = "connecting" /\ UNCHANGED <<client_status, commands>>
      <4>1. commands_map = {}
        BY <1>1 DEF ReconnectCb, Outstanding, Consistent, TypeOK
      <4>2. QED
        BY <3>1, <4>1, CommandsUnchanged DEF TypeOK, commands
    <3>2. CASE ResetAsyncContext("INIT_ERROR")
      BY <3>2, ResetOutstanding
    <3>3. QED
      BY <1>1, <3>1, <3>2 DEF ReconnectCb
  <2>2. TypeOK'
    BY <1>1, <2>1 DEF ReconnectCb, ResetAsyncContext, TypeOK, commands, Statuses
  <2>3. Consistent' /\ Counted'
    BY <1>1 DEF ReconnectCb, ResetAsyncContext, TypeOK, Consistent, Counted, commands
  <2>4. QED
    BY <2>1, <2>2, <2>3
<1>2. CASE ConnectCbOk
  <2>1. Outstanding'
    BY <1>2, CommandsUnchanged DEF ConnectCbOk
  <2>2. TypeOK'
    BY <1>2 DEF ConnectCbOk, TypeOK, commands, Statuses
  <2>3. Consistent'
    BY <1>2 DEF ConnectCbOk, TypeOK, Consistent
  <2>4. Counted'
    BY <1>2 DEF ConnectCbOk, TypeOK, Consistent, Counted
  <2>5. QED
    BY <2>1, <2>2, <2>3, <2>4
<1>3. CASE ConnectCbError
  <2>1. Outstanding'
    BY <1>3, CommandsUnchanged DEF ConnectCbError
  <2>2. TypeOK'
    BY <1>3 DEF ConnectCbError, WaitingToReconnect, TypeOK, commands, Statuses
  <2>3. Consistent' /\ Counted'
    BY <1>3 DEF ConnectCbError, WaitingToReconnect, TypeOK, Consistent, Counted
  <2>4. QED
    BY <2>1, <2>2, <2>3
<1>4. CASE AuthenticateCbOk
  <2>1. Outstanding'
    BY <1>4, CommandsUnchanged DEF AuthenticateCbOk
  <2>2. TypeOK' /\ Consistent' /\ Counted'
    BY <1>4 DEF AuthenticateCbOk, TypeOK, Consistent, Counted, commands, retry, Statuses
  <2>3. QED
    BY <2>1, <2>2
<1>5. CASE AuthenticateRefused \/ LostDuringAuth
  <2>1. AuthenticateCbError /\ drops' \in 0 .. MaxDrops
    BY <1>5 DEF AuthenticateRefused, LostDuringAuth, TypeOK
  <2>2. Outstanding' /\ answered' \in [Commands -> Nat]
    BY <2>1, ResetOutstanding DEF AuthenticateCbError
  <2>3. TypeOK'
    BY <2>1, <2>2 DEF AuthenticateCbError, ResetAsyncContext, TypeOK, Statuses
  <2>4. Consistent' /\ Counted'
    BY <2>1 DEF AuthenticateCbError, ResetAsyncContext, TypeOK, Consistent, Counted
  <2>5. QED
    BY <2>2, <2>3, <2>4
<1>6. CASE Get
  <2>1. TypeOK'
    BY <1>6 DEF Get, TypeOK, Commands, retry
  <2>2. Consistent' /\ Counted'
    BY <1>6 DEF Get, Consistent, Counted, retry
  <2>3. AnsweredOnce'
    <3> SUFFICES ASSUME NEW c \in Commands
                 PROVE  /\ c \in commands_map' <=> c < next_command_id' /\ answered'[c] = 0
                        /\ answered'[c] \in {0, 1}
                        /\ c >= next_command_id' => answered'[c] = 0
      BY DEF AnsweredOnce
    <3>1. c \in Nat /\ next_command_id \in Nat
      BY DEF Commands, TypeOK
    <3>2. c \in commands_map <=> c < next_command_id /\ answered[c] = 0
      BY DEF Outstanding, AnsweredOnce
    <3>3. answered[c] \in {0, 1} /\ (c >= next_command_id => answered[c] = 0)
      BY DEF Outstanding, AnsweredOnce
    <3>4. CASE c = next_command_id
      <4>1. answered[c] = 0
        BY <1>6, <3>4, <3>1 DEF Get, Outstanding, AnsweredOnce
      <4>2. QED
        BY <1>6, <3>1, <3>4, <4>1 DEF Get
    <3>5. CASE c # next_command_id
      BY <1>6, <3>1, <3>2, <3>3, <3>5 DEF Get
    <3>6. QED
      BY <3>4, <3>5
  <2>4. Outstanding'
    BY <1>6, <2>3 DEF Get, Outstanding, Consistent, TypeOK
  <2>5. QED
    BY <2>1, <2>2, <2>4
<1>7. ASSUME NEW c \in Commands, CommandCb(c) PROVE IInv'
  <2>1. TypeOK'
    BY <1>7 DEF CommandCb, Answer, TypeOK, Commands, retry
  <2>2. Consistent' /\ Counted'
    BY <1>7 DEF CommandCb, Consistent, Counted, retry
  <2>3. AnsweredOnce'
    BY <1>7 DEF CommandCb, Answer, Outstanding, AnsweredOnce, TypeOK, Commands
  <2>4. Outstanding'
    BY <1>7, <2>3 DEF CommandCb, Outstanding
  <2>5. QED
    BY <2>1, <2>2, <2>4
<1>8. CASE DisconnectCb
  <2>1. commands_map' = {} /\ Answer(commands_map)
    BY <1>8 DEF DisconnectCb, Outstanding, Answer
  <2>2. AnsweredOnce' /\ answered' \in [Commands -> Nat]
    BY <1>8, <2>1, AnswerAll DEF DisconnectCb, Outstanding
  <2>3. Outstanding'
    BY <1>8, <2>1, <2>2 DEF DisconnectCb, Outstanding
  <2>4. ~try_reconnecting
    BY <1>8 DEF DisconnectCb, Consistent
  <2>5. TypeOK'
    BY <1>8, <2>1, <2>2, <2>4 DEF DisconnectCb, WaitingToReconnect, TypeOK, Statuses
  <2>6. Consistent' /\ Counted'
    BY <1>8, <2>4 DEF DisconnectCb, WaitingToReconnect, TypeOK, Consistent, Counted
  <2>7. QED
    BY <2>3, <2>5, <2>6
<1>9. CASE Destroy
  <2>1. Outstanding' /\ answered' \in [Commands -> Nat]
    BY <1>9, ResetOutstanding DEF Destroy
  <2>2. TypeOK'
    BY <1>9, <2>1 DEF Destroy, ResetAsyncContext, TypeOK, Statuses
  <2>3. Consistent' /\ Counted'
    BY <1>9 DEF Destroy, ResetAsyncContext, TypeOK, Consistent, Counted
  <2>4. QED
    BY <2>1, <2>2, <2>3
<1>10. CASE UNCHANGED vars
  BY <1>10 DEF vars, retry, commands, TypeOK, Consistent, Counted, Outstanding, AnsweredOnce
<1>11. QED
  BY <1>1, <1>2, <1>3, <1>4, <1>5, <1>6, <1>7, <1>8, <1>9, <1>10 DEF Next

\* The inductive invariant holds throughout.
LEMMA AlwaysIInv == Spec => []IInv
BY InitIInv, NextIInv, PTL DEF Spec

\* Type correctness of the client.
THEOREM TypeCorrect == Spec => []TypeOK
BY AlwaysIInv, PTL DEF IInv

\* The callback of an accepted get() runs exactly once, through replies, lost
\* connections, failed authentications and destruction.
THEOREM CallbackRunsOnce == Spec => []AnsweredOnce
<1>1. IInv => AnsweredOnce
  BY DEF IInv, Outstanding
<1>2. QED
  BY <1>1, AlwaysIInv, PTL

\* Whatever is outstanding is queued in the open connection.
THEOREM NothingOrphaned == Spec => []OutstandingQueued
<1>1. IInv => OutstandingQueued
  BY DEF IInv, Outstanding, OutstandingQueued
<1>2. QED
  BY <1>1, AlwaysIInv, PTL

\* A client that reports CONNECTED or WORKING has an open connection.
THEOREM StatusHonest == Spec => []WorkingHasContext
<1>1. IInv => WorkingHasContext
  BY DEF IInv, Consistent, WorkingHasContext
<1>2. QED
  BY <1>1, AlwaysIInv, PTL

\* At most one connection or timer, and never a CONNECTING client without one.
THEOREM SingleReconnection == Spec => []OneReconnection
<1>1. IInv => OneReconnection
  BY DEF IInv, TypeOK, Consistent, OneReconnection, Underway
<1>2. QED
  BY <1>1, AlwaysIInv, PTL

\* The reconnections in a row never exceed the maximum by more than one.
THEOREM ReconnectionsLimited == Spec => []AttemptsBounded
<1>1. IInv => AttemptsBounded
  BY BoundAssumption DEF IInv, TypeOK, Counted, AttemptsBounded
<1>2. QED
  BY <1>1, AlwaysIInv, PTL

\* INIT_ERROR and COMPLETED are left by destruction only.
THEOREM FinalStays == Spec => FinalStatus
<1>1. IInv /\ [Next]_vars =>
        [(client_status \in {"INIT_ERROR", "COMPLETED"}) =>
           client_status' \in {client_status, "DESTROYED"}]_vars
  <2> SUFFICES ASSUME IInv, [Next]_vars, client_status \in {"INIT_ERROR", "COMPLETED"}
               PROVE  client_status' \in {client_status, "DESTROYED"}
    OBVIOUS
  <2>1. context = "null" /\ timers = 0
    BY DEF IInv, TypeOK, Consistent
  <2>2. ~ReconnectCb /\ ~ConnectCbOk /\ ~ConnectCbError /\ ~DisconnectCb
    BY <2>1 DEF ReconnectCb, ConnectCbOk, ConnectCbError, DisconnectCb
  <2>3. ~AuthenticateCbOk /\ ~AuthenticateRefused /\ ~LostDuringAuth /\ ~Get
    BY DEF AuthenticateCbOk, AuthenticateRefused, LostDuringAuth, AuthenticateCbError, Get
  <2>4. ASSUME NEW c \in Commands PROVE ~CommandCb(c)
    BY <2>1 DEF CommandCb
  <2>5. Destroy \/ UNCHANGED vars
    BY <2>2, <2>3, <2>4 DEF Next
  <2>6. QED
    BY <2>5 DEF Destroy, ResetAsyncContext, vars
<1>2. QED
  BY <1>1, AlwaysIInv, PTL DEF Spec, FinalStatus

=============================================================================
