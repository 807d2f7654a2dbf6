--------------------------- MODULE MasterProcess ---------------------------
(***************************************************************************)
(* The life of the master process once its first scan is done:             *)
(* internal/coordinator/coordinator.go starts background loops and the     *)
(* HTTP server and takes everything down again on a signal or when the     *)
(* server fails; internal/notifier/webhook.go queues notifications of jobs *)
(* and delivers them; internal/server/http.go's handlers and progress      *)
(* streams run between the two.                                            *)
(*                                                                         *)
(* Two goroutines may run Server.Shutdown: the one waiting for the signal  *)
(* and, when the server failed, the main one.  Server and coordinator have *)
(* a notifier each.  net/http and the receiver of the webhooks are         *)
(* external.                                                               *)
(***************************************************************************)
EXTENDS Naturals, FiniteSets

CONSTANTS
  Loops,        \* background goroutines the wait group counts
  Health,       \* monitorWorkerHealth, the one of them that notifies
  Requests,     \* goroutines of net/http that serve a request
  Streams,      \* goroutines of net/http that serve a progress stream
  QueueSize,    \* webhookQueueSize
  Deliverers    \* webhookWorkerCount

ASSUME ProcessAssumption ==
  /\ Health \in Loops
  /\ Loops \cap Requests = {} /\ Loops \cap Streams = {}
  /\ Requests \cap Streams = {}
  /\ QueueSize \in Nat /\ Deliverers \in Nat \ {0}

VARIABLES
  main,       \* Coordinator.Start
  signal,     \* the goroutine that waits for SIGINT or SIGTERM
  server,     \* Server.Start
  stopping,   \* http.Server.Shutdown has been called
  cancelled,  \* Coordinator.ctx
  grace,      \* whether the ten seconds of each Server.Shutdown are over
  dbOpen,     \* the database connection
  actor,      \* where each loop, request and stream is
  notifier,   \* of server and coordinator: closed, queued, being delivered
  job         \* the job each stream follows: "over" if completed or failed

vars == <<main, signal, server, stopping, cancelled, grace, dbOpen, actor,
          notifier, job>>

Actors    == Loops \cup Requests \cup Streams
Notifiers == {"server", "coordinator"}
Callers   == {"main", "signal"}     \* of Server.Shutdown

NotifierOf(a) == IF a \in Loops THEN "coordinator" ELSE "server"

\* Phases of Server.Shutdown, the same for both callers.
Stopping == {"notifier", "draining", "listener", "requests"}

ActorPhases == {"idle", "working", "notifying", "sending", "streaming", "ended"}

TypeOK ==
  /\ main \in Stopping \cup {"serving", "loops", "events", "drain", "close", "ended"}
  /\ signal \in Stopping \cup {"waiting", "done"}
  /\ server \in {"new", "built", "listening", "closed", "failed"}
  /\ stopping \in BOOLEAN /\ cancelled \in BOOLEAN /\ dbOpen \in BOOLEAN
  /\ grace \in [Callers -> BOOLEAN]
  /\ actor \in [Actors -> ActorPhases]
  /\ notifier \in [Notifiers -> [closed : BOOLEAN, queued : 0 .. QueueSize,
                                 busy : 0 .. Deliverers]]
  /\ job \in [Streams -> {"active", "over", "cancelled", "absent"}]

Init ==
  /\ main = "serving" /\ signal = "waiting" /\ server = "new"
  /\ stopping = FALSE /\ cancelled = FALSE /\ dbOpen = TRUE
  /\ grace = [c \in Callers |-> FALSE]
  /\ actor = [a \in Actors |-> "idle"]
  /\ notifier = [n \in Notifiers |-> [closed |-> FALSE, queued |-> 0, busy |-> 0]]
  /\ job = [s \in Streams |-> "active"]

Alive == main # "ended"

-----------------------------------------------------------------------------
(* The HTTP server.                                                        *)

\* Server.Start assigns the field Server.server that Shutdown looks at.
Build ==
  /\ Alive /\ server = "new"
  /\ server' = "built"
  /\ UNCHANGED <<main, signal, stopping, cancelled, grace, dbOpen, actor,
                 notifier, job>>

\* ListenAndServe, which returns at once after a Shutdown.
Listen ==
  /\ Alive /\ server = "built"
  /\ server' = IF stopping THEN "closed" ELSE "listening"
  /\ UNCHANGED <<main, signal, stopping, cancelled, grace, dbOpen, actor,
                 notifier, job>>

\* The key without TLS, a certificate that cannot be read, a port in use, or,
\* later, a listener that accepts no more connections.
ServerFails ==
  /\ Alive /\ server \in {"built", "listening"} /\ ~stopping
  /\ server' = "failed"
  /\ UNCHANGED <<main, signal, stopping, cancelled, grace, dbOpen, actor,
                 notifier, job>>

-----------------------------------------------------------------------------
(* Notifications.                                                          *)

Moves(a, p) == actor' = [actor EXCEPT ![a] = p]

\* Where an actor goes on when it is done with a notification.
Back(a) == IF a = Health THEN "working" ELSE "idle"

\* Notify takes the read lock and looks whether the notifier is closed.
EnterNotify(a) ==
  /\ Alive /\ actor[a] = "notifying"
  /\ Moves(a, IF notifier[NotifierOf(a)].closed THEN Back(a) ELSE "sending")
  /\ UNCHANGED <<main, signal, server, stopping, cancelled, grace, dbOpen,
                 notifier, job>>

\* Mutant: one more notification than there is room for.
Send_OneMore(a) ==
  LET n == NotifierOf(a) IN
  /\ Alive /\ actor[a] = "sending"
  /\ Moves(a, Back(a))
  /\ notifier' = IF notifier[n].queued <= QueueSize
                 THEN [notifier EXCEPT ![n].queued = @ + 1] ELSE notifier
  /\ UNCHANGED <<main, signal, server, stopping, cancelled, grace, dbOpen, job>>

\* It sends if there is room, drops the notification if there is none, and
\* lets go of the lock.
Send(a) ==
  LET n == NotifierOf(a) IN
  /\ Alive /\ actor[a] = "sending"
  /\ Moves(a, Back(a))
  /\ notifier' = IF notifier[n].queued < QueueSize
                 THEN [notifier EXCEPT ![n].queued = @ + 1] ELSE notifier
  /\ UNCHANGED <<main, signal, server, stopping, cancelled, grace, dbOpen, job>>

\* A worker of the notifier receives from the queue, open or closed.
TakeNotification(n) ==
  /\ Alive /\ notifier[n].queued > 0 /\ notifier[n].busy < Deliverers
  /\ notifier' = [notifier EXCEPT ![n].queued = @ - 1, ![n].busy = @ + 1]
  /\ UNCHANGED <<main, signal, server, stopping, cancelled, grace, dbOpen,
                 actor, job>>

\* The receiver has answered, or the time limit or the end of the grace period
\* has cut the request off.  There is no second attempt.
EndDelivery(n) ==
  /\ Alive /\ notifier[n].busy > 0
  /\ notifier' = [notifier EXCEPT ![n].busy = @ - 1]
  /\ UNCHANGED <<main, signal, server, stopping, cancelled, grace, dbOpen,
                 actor, job>>

\* The lock of Shutdown waits for those that hold the read lock.
Sending(n) == \E a \in Actors : NotifierOf(a) = n /\ actor[a] = "sending"

\* Mutant: the queue is closed without the lock.
Closable_Unlocked(n) == notifier[n].closed \in BOOLEAN

Closable(n) == notifier[n].closed \/ ~Sending(n)

Drained(n) == notifier[n].queued = 0 /\ notifier[n].busy = 0

-----------------------------------------------------------------------------
(* Server.Shutdown, in the goroutine of the signal and in the main one.    *)

At(c) == IF c = "main" THEN main ELSE signal

Goes(c, p) ==
  IF c = "main" THEN main' = p /\ UNCHANGED signal
                ELSE signal' = p /\ UNCHANGED main

\* The main goroutine goes on to the wait group, the other one ends.
AfterShutdown(c) == IF c = "main" THEN "loops" ELSE "done"

\* Closing a closed notifier returns without waiting for its deliveries.
CloseServerNotifier(c) ==
  /\ Alive /\ At(c) = "notifier" /\ Closable("server")
  /\ Goes(c, IF notifier["server"].closed THEN "listener" ELSE "draining")
  /\ notifier' = [notifier EXCEPT !["server"].closed = TRUE]
  /\ UNCHANGED <<server, stopping, cancelled, grace, dbOpen, actor, job>>

ServerNotifierDrained(c) ==
  /\ Alive /\ At(c) = "draining" /\ Drained("server")
  /\ Goes(c, "listener")
  /\ UNCHANGED <<server, stopping, cancelled, grace, dbOpen, actor, notifier,
                 job>>

\* Only now is the listener closed, and ListenAndServe returns.  A server that
\* is still to be built is not there to be shut down.
CloseListener(c) ==
  /\ Alive /\ At(c) = "listener"
  /\ IF server = "new"
     THEN Goes(c, AfterShutdown(c)) /\ UNCHANGED <<server, stopping>>
     ELSE /\ Goes(c, "requests")
          /\ stopping' = TRUE
          /\ server' = IF server = "listening" THEN "closed" ELSE server
  /\ UNCHANGED <<cancelled, grace, dbOpen, actor, notifier, job>>

InFlight == {r \in Requests \cup Streams : actor[r] # "idle"}

RequestsEnded(c) ==
  /\ Alive /\ At(c) = "requests"
  /\ InFlight = {} \/ grace[c]
  /\ Goes(c, AfterShutdown(c))
  /\ UNCHANGED <<server, stopping, cancelled, grace, dbOpen, actor, notifier,
                 job>>

GraceEnds(c) ==
  /\ Alive /\ At(c) \in Stopping /\ ~grace[c]
  /\ grace' = [grace EXCEPT ![c] = TRUE]
  /\ UNCHANGED <<main, signal, server, stopping, cancelled, dbOpen, actor,
                 notifier, job>>

-----------------------------------------------------------------------------
(* The goroutine of the signal and the end of Coordinator.Start.           *)

Signal ==
  /\ Alive /\ signal = "waiting"
  /\ signal' = "notifier" /\ cancelled' = TRUE
  /\ UNCHANGED <<main, server, stopping, grace, dbOpen, actor, notifier, job>>

\* Mutant: a failing server leaves the loops running.
ServerReturns_KeepsContext ==
  /\ main = "serving" /\ server \in {"closed", "failed"}
  /\ main' = IF server = "closed" THEN "loops" ELSE "notifier"
  /\ UNCHANGED <<signal, server, stopping, cancelled, grace, dbOpen, actor,
                 notifier, job>>

\* Mutant: a server that failed is not shut down.
ServerReturns_NoShutdown ==
  /\ main = "serving" /\ server \in {"closed", "failed"}
  /\ main' = "loops"
  /\ cancelled' = (cancelled \/ server = "failed")
  /\ UNCHANGED <<signal, server, stopping, grace, dbOpen, actor, notifier, job>>

\* The answer of Server.Start: ErrServerClosed, or a failure to clean up after.
ServerReturns ==
  /\ main = "serving" /\ server \in {"closed", "failed"}
  /\ main' = IF server = "closed" THEN "loops" ELSE "notifier"
  /\ cancelled' = (cancelled \/ server = "failed")
  /\ UNCHANGED <<signal, server, stopping, grace, dbOpen, actor, notifier, job>>

\* Mutant: the wait group does not count the health monitor.
LoopsEnded_Uncounted ==
  /\ main = "loops" /\ \A l \in Loops \ {Health} : actor[l] = "ended"
  /\ main' = "events"
  /\ UNCHANGED <<signal, server, stopping, cancelled, grace, dbOpen, actor,
                 notifier, job>>

LoopsEnded ==
  /\ main = "loops" /\ \A l \in Loops : actor[l] = "ended"
  /\ main' = "events"
  /\ UNCHANGED <<signal, server, stopping, cancelled, grace, dbOpen, actor,
                 notifier, job>>

CloseEvents ==
  /\ main = "events" /\ Closable("coordinator")
  /\ notifier' = [notifier EXCEPT !["coordinator"].closed = TRUE]
  /\ main' = "drain"
  /\ UNCHANGED <<signal, server, stopping, cancelled, grace, dbOpen, actor, job>>

EventsDrained ==
  /\ main = "drain" /\ Drained("coordinator")
  /\ main' = "close"
  /\ UNCHANGED <<signal, server, stopping, cancelled, grace, dbOpen, actor,
                 notifier, job>>

CloseDatabase ==
  /\ main = "close" /\ dbOpen
  /\ dbOpen' = FALSE
  /\ UNCHANGED <<main, signal, server, stopping, cancelled, grace, actor,
                 notifier, job>>

\* main returns: whatever still runs is gone.
Exit ==
  /\ main = "close" /\ ~dbOpen
  /\ main' = "ended"
  /\ UNCHANGED <<signal, server, stopping, cancelled, grace, dbOpen, actor,
                 notifier, job>>

-----------------------------------------------------------------------------
(* Background loops: a select between the context and a ticker, or, in the *)
(* listener of the watcher, between the context and an event.              *)

Tick(l) ==
  /\ Alive /\ actor[l] = "idle"
  /\ Moves(l, "working")
  /\ UNCHANGED <<main, signal, server, stopping, cancelled, grace, dbOpen,
                 notifier, job>>

\* A round writes to the database and ends; that of the health monitor
\* announces each job it gave up on the way.
Work(l) ==
  /\ Alive /\ actor[l] = "working"
  /\ \/ Moves(l, "idle")
     \/ l = Health /\ Moves(l, "notifying")
  /\ UNCHANGED <<main, signal, server, stopping, cancelled, grace, dbOpen,
                 notifier, job>>

LoopEnds(l) ==
  /\ Alive /\ actor[l] = "idle" /\ cancelled
  /\ Moves(l, "ended")
  /\ UNCHANGED <<main, signal, server, stopping, cancelled, grace, dbOpen,
                 notifier, job>>

-----------------------------------------------------------------------------
(* Requests.                                                               *)

Receive(r) ==
  /\ Alive /\ server = "listening" /\ actor[r] = "idle"
  /\ Moves(r, "working")
  /\ UNCHANGED <<main, signal, server, stopping, cancelled, grace, dbOpen,
                 notifier, job>>

\* The handler answers, with an error if the database is gone; JobComplete and
\* JobFailed notify once the row is written.
Serve(r) ==
  /\ Alive /\ actor[r] = "working"
  /\ \/ Moves(r, "idle")
     \/ dbOpen /\ Moves(r, "notifying")
  /\ UNCHANGED <<main, signal, server, stopping, cancelled, grace, dbOpen,
                 notifier, job>>

-----------------------------------------------------------------------------
(* StreamJobProgress.                                                      *)

Told == {"over", "absent"}

OpenStream(s) ==
  /\ Alive /\ server = "listening" /\ actor[s] = "idle" /\ job[s] # "absent"
  /\ Moves(s, "streaming")
  /\ UNCHANGED <<main, signal, server, stopping, cancelled, grace, dbOpen,
                 notifier, job>>

\* Mutant: a job that is over is followed on and on, too.
Poll_FollowsAll(s) ==
  /\ Alive /\ actor[s] = "streaming"
  /\ Moves(s, IF job[s] = "absent" \/ ~dbOpen
              THEN "idle" ELSE "streaming")
  /\ UNCHANGED <<main, signal, server, stopping, cancelled, grace, dbOpen,
                 notifier, job>>

\* Every two seconds: the stream ends if the job, or the database, is gone, and
\* if the job completed or failed.  A cancelled job is followed on and on.
Poll(s) ==
  /\ Alive /\ actor[s] = "streaming"
  /\ Moves(s, IF job[s] \in Told \/ ~dbOpen THEN "idle" ELSE "streaming")
  /\ UNCHANGED <<main, signal, server, stopping, cancelled, grace, dbOpen,
                 notifier, job>>

Disconnect(s) ==
  /\ Alive /\ actor[s] = "streaming"
  /\ Moves(s, "idle")
  /\ UNCHANGED <<main, signal, server, stopping, cancelled, grace, dbOpen,
                 notifier, job>>

\* The job table moves on by itself: a job ends, is put back or is pruned.
JobMoves(s) ==
  /\ Alive /\ dbOpen
  /\ \/ job[s] = "active" /\ job' \in {[job EXCEPT ![s] = t] :
                                        t \in {"over", "cancelled"}}
     \/ job[s] \in {"over", "cancelled"}
        /\ job' \in {[job EXCEPT ![s] = t] : t \in {"active", "absent"}}
  /\ UNCHANGED <<main, signal, server, stopping, cancelled, grace, dbOpen,
                 actor, notifier>>

-----------------------------------------------------------------------------

\* Steps that run on their own once they can.
System ==
  \/ Build \/ Listen \/ ServerReturns \/ LoopsEnded \/ CloseEvents
  \/ EventsDrained \/ CloseDatabase \/ Exit
  \/ \E c \in Callers : \/ CloseServerNotifier(c) \/ ServerNotifierDrained(c)
                        \/ CloseListener(c) \/ RequestsEnded(c) \/ GraceEnds(c)
  \/ \E n \in Notifiers : TakeNotification(n) \/ EndDelivery(n)
  \/ \E a \in Actors : EnterNotify(a) \/ Send(a)

Next ==
  \/ System
  \/ ServerFails \/ Signal
  \/ \E l \in Loops : Tick(l) \/ Work(l) \/ LoopEnds(l)
  \/ \E r \in Requests : Receive(r) \/ Serve(r)
  \/ \E s \in Streams : \/ OpenStream(s) \/ Poll(s) \/ Disconnect(s)
                        \/ JobMoves(s)

Spec == Init /\ [][Next]_vars

\* Goroutines that can run are run, answers and time limits come, a loop that
\* finds both its ticker and its context ready does not take the ticker for
\* ever, and its rounds end.  Nothing makes a request end.
Fairness ==
  /\ WF_vars(Build) /\ WF_vars(Listen) /\ WF_vars(ServerReturns)
  /\ WF_vars(LoopsEnded) /\ WF_vars(CloseEvents) /\ WF_vars(EventsDrained)
  /\ WF_vars(CloseDatabase) /\ WF_vars(Exit)
  /\ \A c \in Callers : /\ SF_vars(CloseServerNotifier(c))
                        /\ WF_vars(ServerNotifierDrained(c))
                        /\ WF_vars(CloseListener(c)) /\ WF_vars(RequestsEnded(c))
                        /\ WF_vars(GraceEnds(c))
  /\ \A n \in Notifiers : WF_vars(TakeNotification(n)) /\ WF_vars(EndDelivery(n))
  /\ \A a \in Actors : WF_vars(EnterNotify(a)) /\ WF_vars(Send(a))
  /\ \A l \in Loops : /\ SF_vars(LoopEnds(l))
                      /\ SF_vars(Work(l) /\ Moves(l, "idle"))
  /\ \A s \in Streams : WF_vars(Poll(s))

FairSpec == Spec /\ Fairness

-----------------------------------------------------------------------------
(* Properties.                                                             *)

\* Whoever has found the notifier open sends to an open queue: a send to a
\* closed channel takes the process down (WebhookNotifier.Notify, Shutdown).
NoSendOnClosedQueue ==
  \A a \in Actors : actor[a] = "sending" => ~notifier[NotifierOf(a)].closed

\* The coordinator's notifier and the database are closed when no loop needs
\* them any more: no job the health monitor gives up goes unannounced because
\* of the shutdown, and no round works on a closed database (Coordinator.Start).
LoopsEndFirst ==
  notifier["coordinator"].closed \/ ~dbOpen =>
    \A l \in Loops : actor[l] = "ended"

Settled(n) == notifier[n].queued + notifier[n].busy = 0

\* When the process ends, what its notifiers accepted has been tried, after a
\* signal and after a failure of the server.  The exception: the server failed
\* while the signal's goroutine was waiting for the deliveries, as the second
\* Shutdown of a notifier does not wait for the first (Server.Shutdown).
AcceptedIsTried ==
  ~Alive => /\ Settled("coordinator")
            /\ Settled("server") \/ (server = "failed" /\ signal = "draining")

\* Once the server has failed or been told to stop, or the signal's goroutine
\* is about to tell a server that it can see, the process ends, whatever its
\* requests and streams do (Coordinator.Start, Server.Shutdown).
ShutdownEnds ==
  (stopping \/ server = "failed" \/ (signal = "listener" /\ server # "new"))
    ~> ~Alive

\* A stream ends if its job stays completed, failed or pruned
\* (StreamJobProgress).
StreamEnds ==
  \A s \in Streams :
    <>[](actor[s] = "streaming" /\ Alive) => []<>(job[s] \notin Told)

\* "Shutdown gracefully shuts down the HTTP server": the process does not end
\* under a request before the grace period has.
RequestsFinish ==
  ~Alive /\ server = "closed" => InFlight = {} \/ \E c \in Callers : grace[c]

=============================================================================
