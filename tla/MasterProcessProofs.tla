------------------------ MODULE MasterProcessProofs ------------------------
(***************************************************************************)
(* MasterProcess, for any constants: its type invariant, that no           *)
(* notification is sent to a closed queue, and in which order the parts of *)
(* the process end.                                                        *)
(***************************************************************************)
EXTENDS MasterProcess, TLAPS

USE ProcessAssumption

-----------------------------------------------------------------------------
(* The inductive invariant.                                                *)

\* The main goroutine ends the loops, the coordinator's notifier and the
\* database one after the other.
EndsInOrder ==
  /\ main \in {"events", "drain", "close", "ended"} =>
       \A l \in Loops : actor[l] = "ended"
  /\ notifier["coordinator"].closed => main \in {"drain", "close", "ended"}
  /\ ~dbOpen => main \in {"close", "ended"}

\* The coordinator's notifier stays settled once it was found so.
EventsSettled == main \in {"close", "ended"} => Settled("coordinator")

\* Unless the server fails it is the signal's goroutine that shuts it down.  Who
\* closes the notifier first waits until it is settled.
ServerSettled ==
  /\ main # "serving" => server \in {"closed", "failed"}
  /\ main \in Stopping => server = "failed"
  /\ stopping \/ server = "closed" =>
       server = "failed" \/ signal \in {"requests", "done"}
  /\ notifier["server"].closed <=>
       \/ signal \in {"draining", "listener", "requests", "done"}
       \/ main \in {"draining", "listener", "requests"}
       \/ (server = "failed" /\ main \in {"loops", "events", "drain", "close", "ended"})
  /\ notifier["server"].closed /\ ~Settled("server") =>
       main = "draining" \/ signal = "draining"

-----------------------------------------------------------------------------
(* Every step keeps each part.                                             *)

\* Types are kept.
LEMMA TypeStep ==
  ASSUME TypeOK, [Next]_vars
  PROVE  TypeOK'
<1>. USE DEF TypeOK, Actors, ActorPhases, Stopping, Callers, Notifiers
<1>1. CASE Build
  BY <1>1 DEF Build
<1>2. CASE Listen
  BY <1>2 DEF Listen
<1>3. CASE ServerReturns
  BY <1>3 DEF ServerReturns
<1>4. CASE LoopsEnded
  BY <1>4 DEF LoopsEnded
<1>5. CASE CloseEvents
  BY <1>5 DEF CloseEvents, Closable, Sending
<1>6. CASE EventsDrained
  BY <1>6 DEF EventsDrained, Drained
<1>7. CASE CloseDatabase
  BY <1>7 DEF CloseDatabase
<1>8. CASE Exit
  BY <1>8 DEF Exit
<1>9. ASSUME NEW c \in Callers, CloseServerNotifier(c)
      PROVE  TypeOK'
  BY <1>9 DEF CloseServerNotifier, Callers, At, Goes, Stopping, Closable, Sending
<1>10. ASSUME NEW c \in Callers, ServerNotifierDrained(c)
      PROVE  TypeOK'
  BY <1>10 DEF ServerNotifierDrained, Callers, At, Goes, Stopping, Drained
<1>11. ASSUME NEW c \in Callers, CloseListener(c)
      PROVE  TypeOK'
  BY <1>11 DEF CloseListener, Callers, At, Goes, AfterShutdown, Stopping
<1>12. ASSUME NEW c \in Callers, RequestsEnded(c)
      PROVE  TypeOK'
  BY <1>12 DEF RequestsEnded, Callers, At, Goes, AfterShutdown, Stopping
<1>13. ASSUME NEW c \in Callers, GraceEnds(c)
      PROVE  TypeOK'
  BY <1>13 DEF GraceEnds
<1>14. ASSUME NEW n \in Notifiers, TakeNotification(n)
      PROVE  TypeOK'
  BY <1>14 DEF TakeNotification, Notifiers
<1>15. ASSUME NEW n \in Notifiers, EndDelivery(n)
      PROVE  TypeOK'
  BY <1>15 DEF EndDelivery, Notifiers
<1>16. ASSUME NEW a \in Actors, EnterNotify(a)
      PROVE  TypeOK'
  BY <1>16 DEF EnterNotify, Moves, Back, NotifierOf
<1>17. ASSUME NEW a \in Actors, Send(a)
      PROVE  TypeOK'
  BY <1>17 DEF Send, Moves, Back, NotifierOf, Notifiers
<1>18. CASE ServerFails
  BY <1>18 DEF ServerFails
<1>19. CASE Signal
  BY <1>19 DEF Signal
<1>20. ASSUME NEW l \in Loops, Tick(l)
      PROVE  TypeOK'
  BY <1>20 DEF Tick, Moves
<1>21. ASSUME NEW l \in Loops, Work(l)
      PROVE  TypeOK'
  BY <1>21 DEF Work, Moves
<1>22. ASSUME NEW l \in Loops, LoopEnds(l)
      PROVE  TypeOK'
  BY <1>22 DEF LoopEnds, Moves
<1>23. ASSUME NEW r \in Requests, Receive(r)
      PROVE  TypeOK'
  BY <1>23 DEF Receive, Moves, Actors
<1>24. ASSUME NEW r \in Requests, Serve(r)
      PROVE  TypeOK'
  BY <1>24 DEF Serve, Moves, Actors
<1>25. ASSUME NEW s \in Streams, OpenStream(s)
      PROVE  TypeOK'
  BY <1>25 DEF OpenStream, Moves, Actors
<1>26. ASSUME NEW s \in Streams, Poll(s)
      PROVE  TypeOK'
  BY <1>26 DEF Poll, Moves, Actors
<1>27. ASSUME NEW s \in Streams, Disconnect(s)
      PROVE  TypeOK'
  BY <1>27 DEF Disconnect, Moves, Actors
<1>28. ASSUME NEW s \in Streams, JobMoves(s)
      PROVE  TypeOK'
  BY <1>28 DEF JobMoves
<1>29. CASE UNCHANGED vars
  BY <1>29 DEF vars
<1>. QED
  BY <1>1, <1>2, <1>3, <1>4, <1>5, <1>6, <1>7, <1>8, <1>9, <1>10, <1>11,
     <1>12, <1>13, <1>14, <1>15, <1>16, <1>17, <1>18, <1>19, <1>20,
     <1>21, <1>22, <1>23, <1>24, <1>25, <1>26, <1>27, <1>28, <1>29 DEF
     Next, System

\* A notifier is closed under the lock that a sender holds.
LEMMA LockStep ==
  ASSUME TypeOK, NoSendOnClosedQueue, [Next]_vars
  PROVE  NoSendOnClosedQueue'
<1>. USE DEF TypeOK, NoSendOnClosedQueue, NotifierOf, Actors, Callers, Notifiers
<1>1. CASE Build
  BY <1>1 DEF Build
<1>2. CASE Listen
  BY <1>2 DEF Listen
<1>3. CASE ServerReturns
  BY <1>3 DEF ServerReturns
<1>4. CASE LoopsEnded
  BY <1>4 DEF LoopsEnded
<1>5. CASE CloseEvents
  BY <1>5 DEF CloseEvents, Closable, Sending
<1>6. CASE EventsDrained
  BY <1>6 DEF EventsDrained, Drained
<1>7. CASE CloseDatabase
  BY <1>7 DEF CloseDatabase
<1>8. CASE Exit
  BY <1>8 DEF Exit
<1>9. ASSUME NEW c \in Callers, CloseServerNotifier(c)
      PROVE  NoSendOnClosedQueue'
  BY <1>9 DEF CloseServerNotifier, Callers, At, Goes, Stopping, Closable, Sending
<1>10. ASSUME NEW c \in Callers, ServerNotifierDrained(c)
      PROVE  NoSendOnClosedQueue'
  BY <1>10 DEF ServerNotifierDrained, Callers, At, Goes, Stopping, Drained
<1>11. ASSUME NEW c \in Callers, CloseListener(c)
      PROVE  NoSendOnClosedQueue'
  BY <1>11 DEF CloseListener, Callers, At, Goes, AfterShutdown, Stopping
<1>12. ASSUME NEW c \in Callers, RequestsEnded(c)
      PROVE  NoSendOnClosedQueue'
  BY <1>12 DEF RequestsEnded, Callers, At, Goes, AfterShutdown, Stopping
<1>13. ASSUME NEW c \in Callers, GraceEnds(c)
      PROVE  NoSendOnClosedQueue'
  BY <1>13 DEF GraceEnds
<1>14. ASSUME NEW n \in Notifiers, TakeNotification(n)
      PROVE  NoSendOnClosedQueue'
  BY <1>14 DEF TakeNotification, Notifiers
<1>15. ASSUME NEW n \in Notifiers, EndDelivery(n)
      PROVE  NoSendOnClosedQueue'
  BY <1>15 DEF EndDelivery, Notifiers
<1>16. ASSUME NEW a \in Actors, EnterNotify(a)
      PROVE  NoSendOnClosedQueue'
  BY <1>16 DEF EnterNotify, Moves, Back, NotifierOf
<1>17. ASSUME NEW a \in Actors, Send(a)
      PROVE  NoSendOnClosedQueue'
  BY <1>17 DEF Send, Moves, Back, NotifierOf, Notifiers
<1>18. CASE ServerFails
  BY <1>18 DEF ServerFails
<1>19. CASE Signal
  BY <1>19 DEF Signal
<1>20. ASSUME NEW l \in Loops, Tick(l)
      PROVE  NoSendOnClosedQueue'
  BY <1>20 DEF Tick, Moves
<1>21. ASSUME NEW l \in Loops, Work(l)
      PROVE  NoSendOnClosedQueue'
  BY <1>21 DEF Work, Moves
<1>22. ASSUME NEW l \in Loops, LoopEnds(l)
      PROVE  NoSendOnClosedQueue'
  BY <1>22 DEF LoopEnds, Moves
<1>23. ASSUME NEW r \in Requests, Receive(r)
      PROVE  NoSendOnClosedQueue'
  BY <1>23 DEF Receive, Moves, Actors
<1>24. ASSUME NEW r \in Requests, Serve(r)
      PROVE  NoSendOnClosedQueue'
  BY <1>24 DEF Serve, Moves, Actors
<1>25. ASSUME NEW s \in Streams, OpenStream(s)
      PROVE  NoSendOnClosedQueue'
  BY <1>25 DEF OpenStream, Moves, Actors
<1>26. ASSUME NEW s \in Streams, Poll(s)
      PROVE  NoSendOnClosedQueue'
  BY <1>26 DEF Poll, Moves, Actors
<1>27. ASSUME NEW s \in Streams, Disconnect(s)
      PROVE  NoSendOnClosedQueue'
  BY <1>27 DEF Disconnect, Moves, Actors
<1>28. ASSUME NEW s \in Streams, JobMoves(s)
      PROVE  NoSendOnClosedQueue'
  BY <1>28 DEF JobMoves
<1>29. CASE UNCHANGED vars
  BY <1>29 DEF vars
<1>. QED
  BY <1>1, <1>2, <1>3, <1>4, <1>5, <1>6, <1>7, <1>8, <1>9, <1>10, <1>11,
     <1>12, <1>13, <1>14, <1>15, <1>16, <1>17, <1>18, <1>19, <1>20,
     <1>21, <1>22, <1>23, <1>24, <1>25, <1>26, <1>27, <1>28, <1>29 DEF
     Next, System

\* What has ended does not start again.
LEMMA OrderStep ==
  ASSUME TypeOK, EndsInOrder, [Next]_vars
  PROVE  EndsInOrder'
<1>. USE DEF TypeOK, EndsInOrder, Actors, Callers, Stopping, Notifiers
<1>1. CASE Build
  BY <1>1 DEF Build
<1>2. CASE Listen
  BY <1>2 DEF Listen
<1>3. CASE ServerReturns
  BY <1>3 DEF ServerReturns
<1>4. CASE LoopsEnded
  BY <1>4 DEF LoopsEnded
<1>5. CASE CloseEvents
  BY <1>5 DEF CloseEvents, Closable, Sending
<1>6. CASE EventsDrained
  BY <1>6 DEF EventsDrained, Drained
<1>7. CASE CloseDatabase
  BY <1>7 DEF CloseDatabase
<1>8. CASE Exit
  BY <1>8 DEF Exit
<1>9. ASSUME NEW c \in Callers, CloseServerNotifier(c)
      PROVE  EndsInOrder'
  BY <1>9 DEF CloseServerNotifier, Callers, At, Goes, Stopping, Closable, Sending
<1>10. ASSUME NEW c \in Callers, ServerNotifierDrained(c)
      PROVE  EndsInOrder'
  BY <1>10 DEF ServerNotifierDrained, Callers, At, Goes, Stopping, Drained
<1>11. ASSUME NEW c \in Callers, CloseListener(c)
      PROVE  EndsInOrder'
  BY <1>11 DEF CloseListener, Callers, At, Goes, AfterShutdown, Stopping
<1>12. ASSUME NEW c \in Callers, RequestsEnded(c)
      PROVE  EndsInOrder'
  BY <1>12 DEF RequestsEnded, Callers, At, Goes, AfterShutdown, Stopping
<1>13. ASSUME NEW c \in Callers, GraceEnds(c)
      PROVE  EndsInOrder'
  BY <1>13 DEF GraceEnds
<1>14. ASSUME NEW n \in Notifiers, TakeNotification(n)
      PROVE  EndsInOrder'
  BY <1>14 DEF TakeNotification, Notifiers
<1>15. ASSUME NEW n \in Notifiers, EndDelivery(n)
      PROVE  EndsInOrder'
  BY <1>15 DEF EndDelivery, Notifiers
<1>16. ASSUME NEW a \in Actors, EnterNotify(a)
      PROVE  EndsInOrder'
  BY <1>16 DEF EnterNotify, Moves, Back, NotifierOf
<1>17. ASSUME NEW a \in Actors, Send(a)
      PROVE  EndsInOrder'
  BY <1>17 DEF Send, Moves, Back, NotifierOf, Notifiers
<1>18. CASE ServerFails
  BY <1>18 DEF ServerFails
<1>19. CASE Signal
  BY <1>19 DEF Signal
<1>20. ASSUME NEW l \in Loops, Tick(l)
      PROVE  EndsInOrder'
  BY <1>20 DEF Tick, Moves
<1>21. ASSUME NEW l \in Loops, Work(l)
      PROVE  EndsInOrder'
  BY <1>21 DEF Work, Moves
<1>22. ASSUME NEW l \in Loops, LoopEnds(l)
      PROVE  EndsInOrder'
  BY <1>22 DEF LoopEnds, Moves
<1>23. ASSUME NEW r \in Requests, Receive(r)
      PROVE  EndsInOrder'
  BY <1>23 DEF Receive, Moves, Actors
<1>24. ASSUME NEW r \in Requests, Serve(r)
      PROVE  EndsInOrder'
  BY <1>24 DEF Serve, Moves, Actors
<1>25. ASSUME NEW s \in Streams, OpenStream(s)
      PROVE  EndsInOrder'
  BY <1>25 DEF OpenStream, Moves, Actors
<1>26. ASSUME NEW s \in Streams, Poll(s)
      PROVE  EndsInOrder'
  BY <1>26 DEF Poll, Moves, Actors
<1>27. ASSUME NEW s \in Streams, Disconnect(s)
      PROVE  EndsInOrder'
  BY <1>27 DEF Disconnect, Moves, Actors
<1>28. ASSUME NEW s \in Streams, JobMoves(s)
      PROVE  EndsInOrder'
  BY <1>28 DEF JobMoves
<1>29. CASE UNCHANGED vars
  BY <1>29 DEF vars
<1>. QED
  BY <1>1, <1>2, <1>3, <1>4, <1>5, <1>6, <1>7, <1>8, <1>9, <1>10, <1>11,
     <1>12, <1>13, <1>14, <1>15, <1>16, <1>17, <1>18, <1>19, <1>20,
     <1>21, <1>22, <1>23, <1>24, <1>25, <1>26, <1>27, <1>28, <1>29 DEF
     Next, System

\* No loop is left to notify while the coordinator's notifier is drained.
LEMMA EventsStep ==
  ASSUME TypeOK, EndsInOrder, EventsSettled, [Next]_vars
  PROVE  EventsSettled'
<1>. USE DEF TypeOK, EndsInOrder, EventsSettled, Settled, Actors, Callers, Stopping, Notifiers
<1>1. CASE Build
  BY <1>1 DEF Build
<1>2. CASE Listen
  BY <1>2 DEF Listen
<1>3. CASE ServerReturns
  BY <1>3 DEF ServerReturns
<1>4. CASE LoopsEnded
  BY <1>4 DEF LoopsEnded
<1>5. CASE CloseEvents
  BY <1>5 DEF CloseEvents, Closable, Sending
<1>6. CASE EventsDrained
  BY <1>6 DEF EventsDrained, Drained
<1>7. CASE CloseDatabase
  BY <1>7 DEF CloseDatabase
<1>8. CASE Exit
  BY <1>8 DEF Exit
<1>9. ASSUME NEW c \in Callers, CloseServerNotifier(c)
      PROVE  EventsSettled'
  BY <1>9 DEF CloseServerNotifier, Callers, At, Goes, Stopping, Closable, Sending
<1>10. ASSUME NEW c \in Callers, ServerNotifierDrained(c)
      PROVE  EventsSettled'
  BY <1>10 DEF ServerNotifierDrained, Callers, At, Goes, Stopping, Drained
<1>11. ASSUME NEW c \in Callers, CloseListener(c)
      PROVE  EventsSettled'
  BY <1>11 DEF CloseListener, Callers, At, Goes, AfterShutdown, Stopping
<1>12. ASSUME NEW c \in Callers, RequestsEnded(c)
      PROVE  EventsSettled'
  BY <1>12 DEF RequestsEnded, Callers, At, Goes, AfterShutdown, Stopping
<1>13. ASSUME NEW c \in Callers, GraceEnds(c)
      PROVE  EventsSettled'
  BY <1>13 DEF GraceEnds
<1>14. ASSUME NEW n \in Notifiers, TakeNotification(n)
      PROVE  EventsSettled'
  BY <1>14 DEF TakeNotification, Notifiers
<1>15. ASSUME NEW n \in Notifiers, EndDelivery(n)
      PROVE  EventsSettled'
  BY <1>15 DEF EndDelivery, Notifiers
<1>16. ASSUME NEW a \in Actors, EnterNotify(a)
      PROVE  EventsSettled'
  BY <1>16 DEF EnterNotify, Moves, Back, NotifierOf
<1>17. ASSUME NEW a \in Actors, Send(a)
      PROVE  EventsSettled'
  BY <1>17 DEF Send, Moves, Back, NotifierOf, Notifiers
<1>18. CASE ServerFails
  BY <1>18 DEF ServerFails
<1>19. CASE Signal
  BY <1>19 DEF Signal
<1>20. ASSUME NEW l \in Loops, Tick(l)
      PROVE  EventsSettled'
  BY <1>20 DEF Tick, Moves
<1>21. ASSUME NEW l \in Loops, Work(l)
      PROVE  EventsSettled'
  BY <1>21 DEF Work, Moves
<1>22. ASSUME NEW l \in Loops, LoopEnds(l)
      PROVE  EventsSettled'
  BY <1>22 DEF LoopEnds, Moves
<1>23. ASSUME NEW r \in Requests, Receive(r)
      PROVE  EventsSettled'
  BY <1>23 DEF Receive, Moves, Actors
<1>24. ASSUME NEW r \in Requests, Serve(r)
      PROVE  EventsSettled'
  BY <1>24 DEF Serve, Moves, Actors
<1>25. ASSUME NEW s \in Streams, OpenStream(s)
      PROVE  EventsSettled'
  BY <1>25 DEF OpenStream, Moves, Actors
<1>26. ASSUME NEW s \in Streams, Poll(s)
      PROVE  EventsSettled'
  BY <1>26 DEF Poll, Moves, Actors
<1>27. ASSUME NEW s \in Streams, Disconnect(s)
      PROVE  EventsSettled'
  BY <1>27 DEF Disconnect, Moves, Actors
<1>28. ASSUME NEW s \in Streams, JobMoves(s)
      PROVE  EventsSettled'
  BY <1>28 DEF JobMoves
<1>29. CASE UNCHANGED vars
  BY <1>29 DEF vars
<1>. QED
  BY <1>1, <1>2, <1>3, <1>4, <1>5, <1>6, <1>7, <1>8, <1>9, <1>10, <1>11,
     <1>12, <1>13, <1>14, <1>15, <1>16, <1>17, <1>18, <1>19, <1>20,
     <1>21, <1>22, <1>23, <1>24, <1>25, <1>26, <1>27, <1>28, <1>29 DEF
     Next, System

\* The server's notifier is settled before the listener is closed.
LEMMA ServerStep ==
  ASSUME TypeOK, NoSendOnClosedQueue, ServerSettled, [Next]_vars
  PROVE  ServerSettled'
<1>. USE DEF TypeOK, NoSendOnClosedQueue, ServerSettled, Settled, Actors, Callers, Stopping, Notifiers
<1>1. CASE Build
  BY <1>1 DEF Build
<1>2. CASE Listen
  BY <1>2 DEF Listen
<1>3. CASE ServerReturns
  BY <1>3 DEF ServerReturns
<1>4. CASE LoopsEnded
  BY <1>4 DEF LoopsEnded
<1>5. CASE CloseEvents
  BY <1>5 DEF CloseEvents, Closable, Sending
<1>6. CASE EventsDrained
  BY <1>6 DEF EventsDrained, Drained
<1>7. CASE CloseDatabase
  BY <1>7 DEF CloseDatabase
<1>8. CASE Exit
  BY <1>8 DEF Exit
<1>9. ASSUME NEW c \in Callers, CloseServerNotifier(c)
      PROVE  ServerSettled'
  BY <1>9 DEF CloseServerNotifier, Callers, At, Goes, Stopping, Closable, Sending
<1>10. ASSUME NEW c \in Callers, ServerNotifierDrained(c)
      PROVE  ServerSettled'
  BY <1>10 DEF ServerNotifierDrained, Callers, At, Goes, Stopping, Drained
<1>11. ASSUME NEW c \in Callers, CloseListener(c)
      PROVE  ServerSettled'
  BY <1>11 DEF CloseListener, Callers, At, Goes, AfterShutdown, Stopping
<1>12. ASSUME NEW c \in Callers, RequestsEnded(c)
      PROVE  ServerSettled'
  BY <1>12 DEF RequestsEnded, Callers, At, Goes, AfterShutdown, Stopping
<1>13. ASSUME NEW c \in Callers, GraceEnds(c)
      PROVE  ServerSettled'
  BY <1>13 DEF GraceEnds
<1>14. ASSUME NEW n \in Notifiers, TakeNotification(n)
      PROVE  ServerSettled'
  BY <1>14 DEF TakeNotification, Notifiers
<1>15. ASSUME NEW n \in Notifiers, EndDelivery(n)
      PROVE  ServerSettled'
  BY <1>15 DEF EndDelivery, Notifiers
<1>16. ASSUME NEW a \in Actors, EnterNotify(a)
      PROVE  ServerSettled'
  BY <1>16 DEF EnterNotify, Moves, Back, NotifierOf
<1>17. ASSUME NEW a \in Actors, Send(a)
      PROVE  ServerSettled'
  BY <1>17 DEF Send, Moves, Back, NotifierOf, Notifiers
<1>18. CASE ServerFails
  BY <1>18 DEF ServerFails
<1>19. CASE Signal
  BY <1>19 DEF Signal
<1>20. ASSUME NEW l \in Loops, Tick(l)
      PROVE  ServerSettled'
  BY <1>20 DEF Tick, Moves
<1>21. ASSUME NEW l \in Loops, Work(l)
      PROVE  ServerSettled'
  BY <1>21 DEF Work, Moves
<1>22. ASSUME NEW l \in Loops, LoopEnds(l)
      PROVE  ServerSettled'
  BY <1>22 DEF LoopEnds, Moves
<1>23. ASSUME NEW r \in Requests, Receive(r)
      PROVE  ServerSettled'
  BY <1>23 DEF Receive, Moves, Actors
<1>24. ASSUME NEW r \in Requests, Serve(r)
      PROVE  ServerSettled'
  BY <1>24 DEF Serve, Moves, Actors
<1>25. ASSUME NEW s \in Streams, OpenStream(s)
      PROVE  ServerSettled'
  BY <1>25 DEF OpenStream, Moves, Actors
<1>26. ASSUME NEW s \in Streams, Poll(s)
      PROVE  ServerSettled'
  BY <1>26 DEF Poll, Moves, Actors
<1>27. ASSUME NEW s \in Streams, Disconnect(s)
      PROVE  ServerSettled'
  BY <1>27 DEF Disconnect, Moves, Actors
<1>28. ASSUME NEW s \in Streams, JobMoves(s)
      PROVE  ServerSettled'
  BY <1>28 DEF JobMoves
<1>29. CASE UNCHANGED vars
  BY <1>29 DEF vars
<1>. QED
  BY <1>1, <1>2, <1>3, <1>4, <1>5, <1>6, <1>7, <1>8, <1>9, <1>10, <1>11,
     <1>12, <1>13, <1>14, <1>15, <1>16, <1>17, <1>18, <1>19, <1>20,
     <1>21, <1>22, <1>23, <1>24, <1>25, <1>26, <1>27, <1>28, <1>29 DEF
     Next, System

-----------------------------------------------------------------------------
(* Theorems.                                                               *)

IInv ==
  /\ TypeOK /\ NoSendOnClosedQueue
  /\ EndsInOrder /\ EventsSettled /\ ServerSettled

LEMMA Invariance == Spec => []IInv
<1>1. Init => IInv
  <2>. SUFFICES ASSUME Init PROVE IInv
    OBVIOUS
  <2>1. TypeOK
    <3>1. [closed |-> FALSE, queued |-> 0, busy |-> 0] \in
            [closed : BOOLEAN, queued : 0 .. QueueSize, busy : 0 .. Deliverers]
      OBVIOUS
    <3>2. "idle" \in ActorPhases /\ "active" \in {"active", "over", "cancelled", "absent"}
      BY DEF ActorPhases
    <3>3. \A S, T : \A t \in T : [x \in S |-> t] \in [S -> T]
      OBVIOUS
    <3>. QED
      BY <3>1, <3>2, <3>3 DEF Init, TypeOK, Stopping
  <2>2. NoSendOnClosedQueue
    BY DEF Init, NoSendOnClosedQueue
  <2>3. EndsInOrder /\ EventsSettled /\ ServerSettled
    BY DEF Init, EndsInOrder, EventsSettled, ServerSettled, Stopping, Notifiers
  <2>. QED
    BY <2>1, <2>2, <2>3 DEF IInv
<1>2. IInv /\ [Next]_vars => IInv'
  BY TypeStep, LockStep, OrderStep, EventsStep, ServerStep DEF IInv
<1>. QED
  BY <1>1, <1>2, PTL DEF Spec

\* MasterProcess keeps its types: no queue exceeds its size and no more
\* deliveries run than there are workers (webhook.go).
THEOREM TypesCorrect == Spec => []TypeOK
<1>1. IInv => TypeOK
  BY DEF IInv
<1>. QED
  BY <1>1, Invariance, PTL

\* A notification is never sent to a closed queue, whoever shuts down when
\* (WebhookNotifier.Notify, Shutdown).
THEOREM QueueOpenWhileSending == Spec => []NoSendOnClosedQueue
<1>1. IInv => NoSendOnClosedQueue
  BY DEF IInv
<1>. QED
  BY <1>1, Invariance, PTL

\* No loop finds the coordinator's notifier or the database closed
\* (Coordinator.Start).
THEOREM LoopsOutlived == Spec => []LoopsEndFirst
<1>1. IInv => LoopsEndFirst
  BY DEF IInv, EndsInOrder, LoopsEndFirst
<1>. QED
  BY <1>1, Invariance, PTL

\* The process does not end on notifications that it accepted, after a signal or
\* after a failure of the server, unless the server failed while the signal's
\* goroutine was waiting for the deliveries (Server.Shutdown, Coordinator.Start).
THEOREM NothingAcceptedIsLost == Spec => []AcceptedIsTried
<1>1. IInv => AcceptedIsTried
  <2>1. ASSUME IInv, ~Alive
        PROVE  /\ Settled("coordinator")
               /\ Settled("server") \/ (server = "failed" /\ signal = "draining")
    <3>1. main = "ended"
      BY <2>1 DEF Alive
    <3>2. Settled("coordinator")
      BY <2>1, <3>1 DEF IInv, EventsSettled
    <3>3. server = "failed" \/ signal \in {"requests", "done"}
      BY <2>1, <3>1 DEF IInv, ServerSettled
    <3>4. notifier["server"].closed
      BY <2>1, <3>1, <3>3 DEF IInv, ServerSettled
    <3>5. Settled("server") \/ signal = "draining"
      BY <2>1, <3>1, <3>4 DEF IInv, ServerSettled
    <3>. QED
      BY <3>2, <3>3, <3>5
  <2>. QED
    BY <2>1 DEF AcceptedIsTried
<1>. QED
  BY <1>1, Invariance, PTL

=============================================================================
