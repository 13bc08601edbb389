---------------------------- MODULE V2GConnection ----------------------------
(***************************************************************************)
(* The connections of the V2G module (src/modules/EvseTestV2G): connection *)
(* threads (connection/connection.cpp, connection/tls_connection.cpp) that *)
(* run v2g_handle_connection (v2g_server.cpp), and the handlers of other   *)
(* modules' messages.                                                      *)
(*                                                                         *)
(* All of them share one v2g_context and, but for the registered test      *)
(* wrapper, no lock protects it.  A step of a thread is a piece of code    *)
(* between two of its accesses to what others write.  "at" says what a     *)
(* thread does next.                                                       *)
(*                                                                         *)
(* What a vehicle sends, and what the servers for the messages do with it  *)
(* (server/, testcases/), is nondeterministic here: of ctx->state only     *)
(* whether it is 0 matters, which is WAIT_FOR_SESSIONSETUP.                *)
(***************************************************************************)
CONSTANTS Conn,    \* connections that may exist at once (a bound); slots are reused
          Tls,     \* those of the TLS server; the others are TCP
          NoConn   \* a null pointer

ASSUME ConnAssumption == NoConn \notin Conn /\ Tls \subseteq Conn

VARIABLES
    at,
    established,               \* ctx->state # 0
    is_connection_terminated,
    force_next_connection_req_res,
    selected_protocol,         \* ctx->selected_protocol # V2G_UNKNOWN_PROTOCOL
    is_charging,
    supported_protocols,       \* test_data.supported_protocols # 0
    test_wrapper,              \* the connection whose wrapper is registered
    dispatching,               \* the copy of test_wrapper an event handler uses
    \* History
    dlink_ready                \* what the EVSE manager said last

ctxVars  == <<established, is_connection_terminated, selected_protocol, is_charging>>
testVars == <<supported_protocols, force_next_connection_req_res>>

vars == <<at, ctxVars, testVars, test_wrapper, dispatching, dlink_ready>>

Step == {"none",        \* no such connection
         "check",       \* is a session running?
         "start",       \* v2g_handle_connection is entered
         "handshake",   \* waits for supportedAppProtocolReq
         "negotiate",   \* v2g_handle_apphandshake
         "create",      \* reads selected_protocol, creates the test server
         "register",    \* registers the test wrapper
         "receive",     \* waits for the next request
         "handle",      \* handle_request of the test server
         "unregister",  \* error_out: dispatches the end, unregisters the wrapper
         "publish",     \* publishes the result and Finished
         "reset",       \* v2g_ctx_init_charging_state, v2g_ctx_init_testing_values
         "close",       \* closes the socket
         "teardown",    \* connection_teardown
         "rejected"}    \* another session is running

\* mutant: the pointer is not initialised
InitTestData_Garbage ==
    /\ supported_protocols = FALSE
    /\ force_next_connection_req_res = FALSE
    /\ test_wrapper = "garbage"

InitTestData ==
    /\ supported_protocols = FALSE
    /\ force_next_connection_req_res = FALSE
    /\ test_wrapper = NoConn

Init ==
    /\ at = [c \in Conn |-> "none"]
    /\ established = FALSE
    /\ is_connection_terminated = TRUE
    /\ selected_protocol = FALSE
    /\ is_charging = FALSE
    /\ InitTestData
    /\ dispatching = NoConn
    /\ dlink_ready = TRUE

Goes(c, from, to) == at[c] = from /\ at' = [at EXCEPT ![c] = to]

\* mutant: the state of the session is kept
v2g_ctx_init_charging_state_KeepsState(terminated) ==
    /\ is_connection_terminated' = terminated
    /\ selected_protocol' = FALSE
    /\ is_charging' = FALSE
    /\ UNCHANGED established

v2g_ctx_init_charging_state(terminated) ==
    /\ established' = FALSE
    /\ is_connection_terminated' = terminated
    /\ selected_protocol' = FALSE
    /\ is_charging' = FALSE

v2g_ctx_init_testing_values == supported_protocols' = FALSE /\ force_next_connection_req_res' = FALSE

-----------------------------------------------------------------------------
(***************************************************************************)
(* The start of a connection                                               *)
(***************************************************************************)
\* A vehicle connects, over a data link that is up.
Accept(c) ==
    /\ dlink_ready
    /\ Goes(c, "none", "check")
    /\ UNCHANGED <<ctxVars, testVars, test_wrapper, dispatching, dlink_ready>>

\* mutant: the check looks for a registered test instead of a running session
SessionRunning_Wrapper == test_wrapper # NoConn

SessionRunning == established

CheckSession(c) ==
    /\ Goes(c, "check", IF SessionRunning THEN "rejected" ELSE "start")
    /\ UNCHANGED <<ctxVars, testVars, test_wrapper, dispatching, dlink_ready>>

\* v2g_handle_connection publishes Running and resets the charging state.
\* Without memory for the buffer it publishes Finished and returns.
StartSession(c) ==
    /\ Goes(c, "start", "handshake") \/ Goes(c, "start", "close")
    /\ v2g_ctx_init_charging_state(FALSE)
    /\ UNCHANGED <<testVars, test_wrapper, dispatching, dlink_ready>>

-----------------------------------------------------------------------------
(***************************************************************************)
(* Reading from a connection                                               *)
(***************************************************************************)
\* tls::connection_read does not know force_next_connection_req_res.
ReadAborted(c) ==
    is_connection_terminated /\ (c \in Tls \/ ~force_next_connection_req_res)

AfterRead == [handshake |-> "negotiate", receive |-> "handle"]

Waiting == DOMAIN AfterRead

\* A complete message has arrived.
Receive(c) ==
    /\ ~ReadAborted(c)
    /\ \E s \in Waiting : Goes(c, s, AfterRead[s])
    /\ UNCHANGED <<ctxVars, testVars, test_wrapper, dispatching, dlink_ready>>

\* mutant: a read that fails is tried again as long as the link is up
ReadFails_Retried(c) ==
    /\ ~dlink_ready
    /\ Goes(c, "handshake", "publish") \/ Goes(c, "receive", "unregister")
    /\ UNCHANGED <<ctxVars, testVars, test_wrapper, dispatching, dlink_ready>>

\* The sequence timeout, an error, the peer closes, or the read is aborted.
ReadFails(c) ==
    /\ Goes(c, "handshake", "publish") \/ Goes(c, "receive", "unregister")
    /\ UNCHANGED <<ctxVars, testVars, test_wrapper, dispatching, dlink_ready>>

-----------------------------------------------------------------------------
(***************************************************************************)
(* The session                                                             *)
(***************************************************************************)
\* v2g_handle_apphandshake, and the response: a protocol is selected if the
\* test and the vehicle agree on one.
Negotiate(c) ==
    /\ \/ /\ supported_protocols /\ ~is_connection_terminated
          /\ Goes(c, "negotiate", "create")
          /\ selected_protocol' = TRUE
       \/ /\ Goes(c, "negotiate", "publish")
          /\ selected_protocol' \in (IF supported_protocols THEN {selected_protocol, TRUE}
                                                            ELSE {selected_protocol})
    /\ UNCHANGED <<established, is_connection_terminated, is_charging, testVars, test_wrapper,
                   dispatching, dlink_ready>>

\* The context's selected_protocol is read back, and may have been reset; not
\* every test is implemented for every protocol.
CreateServer(c) ==
    /\ \/ selected_protocol /\ Goes(c, "create", "register")
       \/ Goes(c, "create", "publish")
    /\ UNCHANGED <<ctxVars, testVars, test_wrapper, dispatching, dlink_ready>>

RegisterWrapper(c) ==
    /\ Goes(c, "register", "receive")
    /\ test_wrapper' = c
    /\ UNCHANGED <<ctxVars, testVars, dispatching, dlink_ready>>

\* handle_request.  A request moves the session on, or back to its start by a
\* SessionStop that pauses it; charging starts and stops; a test that signals
\* control pilot state F asks for one more request; the session goes on or is
\* terminated.  An undecodable request, and one the server rejects without a
\* response, changes nothing.
HandleRequest(c) ==
    /\ \/ /\ ~is_connection_terminated /\ Goes(c, "handle", "receive")
       \/ Goes(c, "handle", "unregister")
    /\ established' \in BOOLEAN
    /\ is_charging' \in BOOLEAN
    /\ force_next_connection_req_res' \in {force_next_connection_req_res, TRUE}
    /\ UNCHANGED <<is_connection_terminated, selected_protocol, supported_protocols, test_wrapper,
                   dispatching, dlink_ready>>

IgnoreRequest(c) ==
    /\ Goes(c, "handle", "receive")
    /\ UNCHANGED <<ctxVars, testVars, test_wrapper, dispatching, dlink_ready>>

\* mutant: an aborted connection keeps its test registered
unregister_NotAborted == test_wrapper' = IF is_connection_terminated THEN test_wrapper ELSE NoConn

unregister == test_wrapper' = NoConn

UnregisterWrapper(c) ==
    /\ Goes(c, "unregister", "publish")
    /\ unregister
    /\ UNCHANGED <<ctxVars, testVars, dispatching, dlink_ready>>

PublishResult(c) ==
    /\ Goes(c, "publish", "reset")
    /\ UNCHANGED <<ctxVars, testVars, test_wrapper, dispatching, dlink_ready>>

ResetContext(c) ==
    /\ Goes(c, "reset", "close")
    /\ v2g_ctx_init_charging_state(TRUE)
    /\ v2g_ctx_init_testing_values
    /\ UNCHANGED <<test_wrapper, dispatching, dlink_ready>>

-----------------------------------------------------------------------------
(***************************************************************************)
(* The end of a connection                                                 *)
(***************************************************************************)
\* TCP: shutdown and close, with 2 s before and 3 s between them.  TLS: shutdown.
Close(c) ==
    /\ Goes(c, "close", "teardown")
    /\ UNCHANGED <<ctxVars, testVars, test_wrapper, dispatching, dlink_ready>>

\* v2g_ctx_init_charging_session(ctx, true) resets what is modelled like
\* v2g_ctx_init_charging_state does.  (The orders to open the contactor before it depend on
\* is_charging, which ResetContext has reset.)
connection_teardown == v2g_ctx_init_charging_state(TRUE)

Teardown(c) ==
    /\ Goes(c, "teardown", "none")
    /\ connection_teardown
    /\ UNCHANGED <<testVars, test_wrapper, dispatching, dlink_ready>>

\* A second connection is closed; only the TLS server tears it down as well.
\* The handshake of a TLS connection may also fail: it is torn down then.
Reject(c) ==
    /\ Goes(c, "rejected", "none")
    /\ IF c \in Tls THEN connection_teardown ELSE UNCHANGED ctxVars
    /\ UNCHANGED <<testVars, test_wrapper, dispatching, dlink_ready>>

AcceptFails(c) ==
    /\ c \in Tls
    /\ Goes(c, "check", "none")
    /\ connection_teardown
    /\ UNCHANGED <<testVars, test_wrapper, dispatching, dlink_ready>>

-----------------------------------------------------------------------------
(***************************************************************************)
(* The handlers of other modules' messages                                 *)
(***************************************************************************)
\* The bitmask of the constraints is never 0.
handle_set_test_context ==
    /\ supported_protocols' = TRUE
    /\ UNCHANGED <<at, ctxVars, force_next_connection_req_res, test_wrapper, dispatching, dlink_ready>>

handle_dlink_ready(value) ==
    /\ dlink_ready' = value
    /\ is_connection_terminated' = (is_connection_terminated \/ ~value)
    /\ UNCHANGED <<at, established, selected_protocol, is_charging, testVars, test_wrapper,
                   dispatching>>

\* The handler of board support events, and that of meter values, copy the
\* pointer under test_mutex and use it when they have released it.
CopyWrapper ==
    /\ dispatching = NoConn /\ test_wrapper # NoConn
    /\ dispatching' = test_wrapper
    /\ UNCHANGED <<at, ctxVars, testVars, test_wrapper, dlink_ready>>

DispatchEvent ==
    /\ dispatching # NoConn
    /\ dispatching' = NoConn
    /\ UNCHANGED <<at, ctxVars, testVars, test_wrapper, dlink_ready>>

-----------------------------------------------------------------------------
\* What the thread of a connection does without waiting for its peer
Own(c) ==
    \/ CheckSession(c) \/ StartSession(c) \/ Negotiate(c) \/ CreateServer(c)
    \/ RegisterWrapper(c) \/ HandleRequest(c) \/ IgnoreRequest(c) \/ UnregisterWrapper(c)
    \/ PublishResult(c) \/ ResetContext(c) \/ Close(c) \/ Teardown(c) \/ Reject(c)

Thread(c) == Accept(c) \/ AcceptFails(c) \/ Receive(c) \/ ReadFails(c) \/ Own(c)

Handler ==
    \/ handle_set_test_context
    \/ \E value \in BOOLEAN : handle_dlink_ready(value)
    \/ CopyWrapper \/ DispatchEvent

Next == Handler \/ \E c \in Conn : Thread(c)

\* Threads run; ReadFails is the sequence timeout of 60 s.
Spec == Init /\ [][Next]_vars /\ \A c \in Conn : WF_vars(Own(c)) /\ WF_vars(ReadFails(c))

-----------------------------------------------------------------------------
(***************************************************************************)
(* Properties                                                              *)
(***************************************************************************)
\* The types of the variables.
TypeOK ==
    /\ at \in [Conn -> Step]
    /\ {established, is_connection_terminated, force_next_connection_req_res,
        selected_protocol, is_charging, supported_protocols, dlink_ready} \subseteq BOOLEAN
    /\ {test_wrapper, dispatching} \subseteq Conn \union {NoConn}

\* The steps at which a thread has created its test wrapper and not destroyed it
Alive == {"register", "receive", "handle", "unregister", "publish", "reset"}

Before == {"none", "check", "rejected"}

Session == Step \ (Before \union {"start", "close", "teardown"})

\* However many connections ran at once and in whatever order they ended, the
\* wrapper that is registered still exists and serves a connection that waits
\* for requests or handles one (v2g_server.cpp: registration, error_out).
RegisteredWrapperAlive ==
    test_wrapper # NoConn => at[test_wrapper] \in {"receive", "handle", "unregister"}

\* When no connection is left the context is that of no session, so the next
\* vehicle is not turned away: whoever left last has reset it.
ContextCleared ==
    (\A c \in Conn : at[c] \in Before) => ~established /\ ~selected_protocol /\ ~is_charging

\* No other connection runs a session or still closes, and no TLS connection,
\* which would be torn down in any case, is on its way.
Others(c) ==
    \A d \in Conn \ {c} : IF d \in Tls THEN at[d] = "none" ELSE at[d] \in Before

Alone(c) == at[c] \in Session /\ established /\ Others(c)

\* Once a vehicle has a session, TCP connections are turned away and leave the
\* context alone: nothing but the session's own thread changes it.  Only a
\* link that goes down reaches into it.  (A TLS connection, even one that
\* is turned away, and one whose session has ended do reset what they share.)
LoneSessionUndisturbed ==
    [][\A c \in Conn : Alone(c) /\ at'[c] = at[c] =>
          /\ \A d \in Conn \ {c} : at'[d] \in Before
          /\ UNCHANGED <<established, selected_protocol, is_charging, test_wrapper>>
          /\ is_connection_terminated' # is_connection_terminated => ~dlink_ready']_vars

\* A connection whose peer falls silent does not stay: it ends again and again
\* or receives again and again (is_sequence_timeout; the loops that read).
SilentConnectionEnds ==
    \A c \in Conn : []<>(at[c] = "none") \/ []<><<Receive(c)>>_vars

(***************************************************************************)
(* Properties the code does not have                                       *)
(***************************************************************************)
\* connection.cpp checks "if the v2g-session is already running in another
\* thread, if not, handle v2g-connection"; but the state it reads becomes
\* non-zero with the SessionSetupReq only.
OneSessionAtATime == \A c, d \in Conn : at[c] \in Session /\ at[d] \in Session => c = d

=============================================================================
