------------------------ MODULE V2GConnection_proofs ------------------------
(***************************************************************************)
(* Proofs about the connections of the V2G module, for any number of them. *)
(***************************************************************************)
EXTENDS V2GConnection, TLAPS

\* A message that has arrived is handled next.
LEMMA ReceiveGoes ==
  ASSUME NEW c \in Conn, Receive(c)
  PROVE  Goes(c, "handshake", "negotiate") \/ Goes(c, "receive", "handle")
BY DEF Receive, Waiting, AfterRead

\* A step of a thread is a move of that thread, and of no other.
LEMMA ThreadMoves ==
  ASSUME TypeOK, NEW c \in Conn, Thread(c)
  PROVE  at'[c] # at[c] /\ \A d \in Conn \ {c} : at'[d] = at[d]
<1> USE DEF TypeOK, Goes
<1>1. CASE Receive(c)
  BY <1>1, ReceiveGoes
<1>2. CASE Accept(c) \/ AcceptFails(c) \/ ReadFails(c) \/ CheckSession(c) \/ StartSession(c)
  BY <1>2 DEF Accept, AcceptFails, ReadFails, CheckSession, StartSession
<1>3. CASE Negotiate(c) \/ CreateServer(c) \/ RegisterWrapper(c) \/ HandleRequest(c)
  BY <1>3 DEF Negotiate, CreateServer, RegisterWrapper, HandleRequest
<1>4. CASE IgnoreRequest(c) \/ UnregisterWrapper(c) \/ PublishResult(c) \/ ResetContext(c)
  BY <1>4 DEF IgnoreRequest, UnregisterWrapper, PublishResult, ResetContext
<1>5. CASE Close(c) \/ Teardown(c) \/ Reject(c)
  BY <1>5 DEF Close, Teardown, Reject
<1> QED
  BY <1>1, <1>2, <1>3, <1>4, <1>5 DEF Thread, Own

\* The variables keep their types (TypeOK).
THEOREM TypeCorrect == Spec => []TypeOK
<1>1. Init => TypeOK
  BY DEF Init, InitTestData, TypeOK, Step
<1>2. TypeOK /\ [Next]_vars => TypeOK'
  <2> SUFFICES ASSUME TypeOK, [Next]_vars PROVE TypeOK'
    OBVIOUS
  <2> USE DEF TypeOK, ctxVars, testVars
  <2>1. CASE Handler
    BY <2>1 DEF Handler, handle_set_test_context, handle_dlink_ready, CopyWrapper, DispatchEvent
  <2>2. ASSUME NEW c \in Conn, Thread(c) PROVE TypeOK'
    <3> USE DEF Goes, Step
    <3>1. CASE Accept(c) \/ CheckSession(c) \/ CreateServer(c) \/ IgnoreRequest(c) \/ Close(c)
      BY <3>1 DEF Accept, CheckSession, CreateServer, IgnoreRequest, Close
    <3>2. CASE StartSession(c)
      BY <3>2 DEF StartSession, v2g_ctx_init_charging_state
    <3>3. CASE Receive(c)
      BY <3>3 DEF Receive, Waiting, AfterRead
    <3>4. CASE ReadFails(c)
      BY <3>4 DEF ReadFails
    <3>5. CASE Negotiate(c)
      BY <3>5 DEF Negotiate
    <3>6. CASE RegisterWrapper(c) \/ UnregisterWrapper(c)
      BY <3>6 DEF RegisterWrapper, UnregisterWrapper, unregister
    <3>7. CASE HandleRequest(c)
      BY <3>7 DEF HandleRequest
    <3>8. CASE PublishResult(c)
      BY <3>8 DEF PublishResult
    <3>9. CASE ResetContext(c)
      BY <3>9 DEF ResetContext, v2g_ctx_init_charging_state, v2g_ctx_init_testing_values
    <3>10. CASE Teardown(c) \/ Reject(c) \/ AcceptFails(c)
      BY <3>10 DEF Teardown, Reject, AcceptFails, connection_teardown, v2g_ctx_init_charging_state
    <3> QED
      BY <2>2, <3>1, <3>2, <3>3, <3>4, <3>5, <3>6, <3>7, <3>8, <3>9, <3>10 DEF Thread, Own
  <2>3. CASE UNCHANGED vars
    BY <2>3 DEF vars
  <2> QED
    BY <2>1, <2>2, <2>3 DEF Next
<1> QED
  BY <1>1, <1>2, PTL DEF Spec

-----------------------------------------------------------------------------
(***************************************************************************)
(* The registered wrapper                                                  *)
(***************************************************************************)
\* The wrapper that is registered always belongs to a connection that still
\* serves its vehicle (RegisteredWrapperAlive): the pointer is cleared by
\* whoever ends, and so by its owner at the latest.
THEOREM WrapperAlive == Spec => []RegisteredWrapperAlive
<1>1. Init => RegisteredWrapperAlive
  BY DEF Init, InitTestData, RegisteredWrapperAlive
<1>2. TypeOK /\ RegisteredWrapperAlive /\ [Next]_vars => RegisteredWrapperAlive'
  <2> SUFFICES ASSUME TypeOK, RegisteredWrapperAlive, [Next]_vars
               PROVE  RegisteredWrapperAlive'
    OBVIOUS
  <2> USE DEF RegisteredWrapperAlive, testVars
  <2>1. CASE Handler
    BY <2>1 DEF Handler, handle_set_test_context, handle_dlink_ready, CopyWrapper, DispatchEvent
  <2>2. ASSUME NEW c \in Conn, Thread(c) PROVE RegisteredWrapperAlive'
    <3>1. CASE RegisterWrapper(c)
      BY <3>1 DEF RegisterWrapper, Goes, TypeOK
    <3>2. CASE UnregisterWrapper(c)
      BY <3>2 DEF UnregisterWrapper, unregister
    <3>3. CASE Receive(c)
      BY <3>3, ReceiveGoes DEF Receive, Goes, TypeOK
    <3>4. CASE ReadFails(c) \/ HandleRequest(c) \/ IgnoreRequest(c)
      BY <3>4 DEF ReadFails, HandleRequest, IgnoreRequest, Goes, TypeOK
    <3>5. CASE \/ Accept(c) \/ AcceptFails(c) \/ CheckSession(c) \/ StartSession(c) \/ Negotiate(c)
               \/ CreateServer(c) \/ PublishResult(c) \/ ResetContext(c) \/ Close(c)
               \/ Teardown(c) \/ Reject(c)
      <4>1. UNCHANGED test_wrapper /\ at[c] \notin {"receive", "handle", "unregister"}
        BY <3>5 DEF Accept, AcceptFails, CheckSession, StartSession, Negotiate, CreateServer,
                    PublishResult, ResetContext, Close, Teardown, Reject, Goes
      <4>2. \A d \in Conn \ {c} : at'[d] = at[d]
        BY <2>2, ThreadMoves
      <4> QED
        BY <4>1, <4>2 DEF TypeOK
    <3> QED
      BY <2>2, <3>1, <3>2, <3>3, <3>4, <3>5 DEF Thread, Own
  <2>3. CASE UNCHANGED vars
    BY <2>3 DEF vars
  <2> QED
    BY <2>1, <2>2, <2>3 DEF Next
<1> QED
  BY <1>1, <1>2, TypeCorrect, PTL DEF Spec

-----------------------------------------------------------------------------
(***************************************************************************)
(* The context between sessions                                            *)
(***************************************************************************)
\* However many connections overlapped, the context is that of no session when
\* the last of them has gone (ContextCleared): a connection goes by a step that
\* resets it, or changed nothing.
THEOREM ContextIsCleared == Spec => []ContextCleared
<1>1. Init => ContextCleared
  BY DEF Init, ContextCleared
<1>2. TypeOK /\ ContextCleared /\ [Next]_vars => ContextCleared'
  <2> SUFFICES ASSUME TypeOK, ContextCleared, [Next]_vars PROVE ContextCleared'
    OBVIOUS
  <2> USE DEF ContextCleared, Before, ctxVars
  <2>1. CASE Handler
    BY <2>1 DEF Handler, handle_set_test_context, handle_dlink_ready, CopyWrapper, DispatchEvent
  <2>2. ASSUME NEW c \in Conn, Thread(c) PROVE ContextCleared'
    <3>1. CASE Teardown(c) \/ AcceptFails(c)
      BY <3>1 DEF Teardown, AcceptFails, connection_teardown, v2g_ctx_init_charging_state
    <3>2. CASE Reject(c)
      <4>1. \A d \in Conn : at'[d] \in Before => at[d] \in Before
        BY <3>2 DEF Reject, Goes, TypeOK
      <4> QED
        BY <3>2, <4>1 DEF Reject, connection_teardown, v2g_ctx_init_charging_state
    <3>3. CASE StartSession(c) \/ ResetContext(c)
      BY <3>3 DEF StartSession, ResetContext, v2g_ctx_init_charging_state
    <3>4. CASE Accept(c) \/ CheckSession(c)
      <4>1. \A d \in Conn : at'[d] \in Before => at[d] \in Before
        BY <3>4 DEF Accept, CheckSession, Goes, TypeOK
      <4> QED
        BY <3>4, <4>1 DEF Accept, CheckSession
    <3>5. CASE \/ Receive(c) \/ ReadFails(c) \/ Negotiate(c) \/ CreateServer(c)
               \/ RegisterWrapper(c) \/ HandleRequest(c) \/ IgnoreRequest(c)
               \/ UnregisterWrapper(c) \/ PublishResult(c) \/ Close(c)
      <4>1. at'[c] \notin Before
        <5>1. CASE Receive(c)
          BY <5>1, ReceiveGoes DEF Goes, TypeOK
        <5>2. CASE ReadFails(c) \/ Negotiate(c) \/ CreateServer(c) \/ RegisterWrapper(c)
          BY <5>2 DEF ReadFails, Negotiate, CreateServer, RegisterWrapper, Goes, TypeOK
        <5>3. CASE \/ HandleRequest(c) \/ IgnoreRequest(c) \/ UnregisterWrapper(c)
                   \/ PublishResult(c) \/ Close(c)
          BY <5>3 DEF HandleRequest, IgnoreRequest, UnregisterWrapper, PublishResult, Close,
                      Goes, TypeOK
        <5> QED
          BY <3>5, <5>1, <5>2, <5>3
      <4> QED
        BY <4>1
    <3> QED
      BY <2>2, <3>1, <3>2, <3>3, <3>4, <3>5 DEF Thread, Own
  <2>3. CASE UNCHANGED vars
    BY <2>3 DEF vars
  <2> QED
    BY <2>1, <2>2, <2>3 DEF Next
<1> QED
  BY <1>1, <1>2, TypeCorrect, PTL DEF Spec

-----------------------------------------------------------------------------
(***************************************************************************)
(* A session on its own                                                    *)
(***************************************************************************)
\* A session is changed by its own thread only while no other connection
\* closes and none is a TLS connection, however many TCP connections are
\* attempted (LoneSessionUndisturbed).
THEOREM SessionUndisturbed == Spec => LoneSessionUndisturbed
<1> DEFINE Undisturbed(c) ==
      /\ \A d \in Conn \ {c} : at'[d] \in Before
      /\ UNCHANGED <<established, selected_protocol, is_charging, test_wrapper>>
      /\ is_connection_terminated' # is_connection_terminated => ~dlink_ready'
<1>1. ASSUME TypeOK, [Next]_vars, NEW c \in Conn, Alone(c), at'[c] = at[c]
      PROVE  Undisturbed(c)
  <2> USE <1>1 DEF Alone, Others, Before, ctxVars, testVars
  <2>1. CASE Handler
    BY <2>1 DEF Handler, handle_set_test_context, handle_dlink_ready, CopyWrapper,
                DispatchEvent, TypeOK
  <2>2. ASSUME NEW d \in Conn, Thread(d) PROVE Undisturbed(c)
    <3>1. d # c
      BY <2>2, ThreadMoves
    <3>2. at[d] \in Before /\ (d \in Tls => at[d] = "none")
      BY <3>1
    <3>3. Accept(d) \/ CheckSession(d) \/ Reject(d)
      BY <2>2, <3>2 DEF Thread, Own, AcceptFails, StartSession, Negotiate, CreateServer,
                  RegisterWrapper, HandleRequest, IgnoreRequest, UnregisterWrapper,
                  PublishResult, ResetContext, Close, Teardown, Receive, Waiting, AfterRead,
                  ReadFails, Goes
    <3>4. /\ at'[d] \in Before
          /\ \A e \in Conn \ {d} : at'[e] = at[e]
          /\ UNCHANGED <<ctxVars, test_wrapper>>
      BY <3>2, <3>3 DEF Accept, CheckSession, SessionRunning, Reject, Goes, TypeOK
    <3> QED
      BY <3>1, <3>4
  <2>3. CASE UNCHANGED vars
    BY <2>3 DEF vars
  <2> QED
    BY <2>1, <2>2, <2>3 DEF Next
<1>2. TypeOK /\ [Next]_vars =>
        [\A c \in Conn : Alone(c) /\ at'[c] = at[c] => Undisturbed(c)]_vars
  BY <1>1
<1> QED
  BY <1>2, TypeCorrect, PTL DEF Spec, LoneSessionUndisturbed
=============================================================================
