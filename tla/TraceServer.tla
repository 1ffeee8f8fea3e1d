---------------------------- MODULE TraceServer ----------------------------
(****************************************************************************)
(* The trace server: trace_server.c.  It makes a sender, gives it the start *)
(* and stop commands that come by the network or by the 'client_addr'       *)
(* parameter, and gives the core the handlers that put the events of the    *)
(* target into the collector of the current trace.                          *)
(****************************************************************************)
EXTENDS TraceSender

CONSTANTS MayKill,      \* BOOLEAN: rmmod or insmod may be killed while it waits
          InitErrors    \* BOOLEAN: steps of the init function may fail

VARIABLES server,           \* the module's life
          loaded,           \* the targets that are loaded
          current_collector \* 0, or the trace that gets the events

vars == <<svars, server, loaded, current_collector>>

\* "waiting" and "destroying" are the end of server_exit() and of a failed
\* server_init().
ServerStates == {"out", "created", "registered", "running", "waiting", "destroying"}

\* Every variable keeps its type; in particular the buffers of a trace, which the
\* handlers of trace_server.c fill, and the network hold no more than they can.
ServerTypeOK ==
    /\ TypeOK
    /\ server \in ServerStates
    /\ loaded \subseteq Targets
    /\ current_collector \in 0 .. MaxTraces

Init ==
    /\ sender = NewSender /\ trace_session = 0
    /\ trace = [x \in Traces |-> NoTrace]
    /\ mutex = NoOne
    /\ work = [step |-> "idle", sent |-> 0]
    /\ notifier = [step |-> "idle", m |-> NoOne, trace |-> 0]
    /\ net = <<>> /\ phase = "closed" /\ bug = "none"
    /\ server = "out" /\ loaded = {} /\ current_collector = 0

-----------------------------------------------------------------------------
\* The core's calls.  They follow each other: the core holds its session mutex.
HandlersKnown == server \in {"registered", "running"}

\* sender_on_target_loaded()
sender_on_target_loaded(m) ==
    /\ HandlersKnown /\ m \notin loaded
    /\ loaded' = loaded \cup {m}
    /\ \/ CollectBegin(m) /\ UNCHANGED current_collector
       \/ CollectNoMemory /\ current_collector' = 0
    /\ UNCHANGED server

LoadedReturns ==
    /\ \/ CollectInsert /\ current_collector' = notifier.trace
       \/ CollectRefused /\ current_collector' = 0
    /\ UNCHANGED <<server, loaded>>

LoadedInterrupted ==
    CollectInterrupted /\ current_collector' = 0 /\ UNCHANGED <<server, loaded>>

\* sender_on_target_about_to_unload(): the target has run its exit function.
sender_on_target_about_to_unload(m) ==
    /\ HandlersKnown /\ m \in loaded /\ NotifierAt("idle")
    /\ loaded' = loaded \ {m}
    /\ IF current_collector # 0 THEN StopCollectBegin(m) ELSE UNCHANGED svars
    /\ UNCHANGED <<server, current_collector>>

UnloadStep ==
    /\ \/ StopCollectTerminate \/ StopCollectBug \/ StopCollectWoken
       \/ StopCollectRelock
    /\ current_collector' = IF notifier'.step = "idle" THEN 0 ELSE current_collector
    /\ UNCHANGED <<server, loaded>>

UnloadInterrupted ==
    StopCollectInterrupted /\ current_collector' = 0 /\ UNCHANGED <<server, loaded>>

\* Mutant: the writer does not notice that the buffer is full.
RecordUnbounded ==
    /\ loaded # {} /\ current_collector # 0
    /\ trace' = [trace EXCEPT ![current_collector].events = @ + 1]
    /\ UNCHANGED <<sender, trace_session, mutex, work, notifier, net, phase, bug>>
    /\ UNCHANGED <<server, loaded, current_collector>>

\* sender_on_*(): an event of a target is written to the collector, or lost when it is full.
RecordEvent ==
    /\ loaded # {} /\ current_collector # 0
    /\ trace' = [trace EXCEPT ![current_collector].events = IF @ < MaxEvents THEN @ + 1 ELSE @]
    /\ UNCHANGED <<sender, trace_session, mutex, work, notifier, net, phase, bug>>
    /\ UNCHANGED <<server, loaded, current_collector>>

-----------------------------------------------------------------------------
\* port_listener_cb_data() and the callbacks of the 'client_addr' parameter.
\* The sender tells the two apart in nothing.
Listening == server \in {"created", "registered", "running"}

Command ==
    /\ Listening
    /\ trace_sender_stop \/ \E c \in Clients : trace_sender_start(c)
    /\ UNCHANGED <<server, loaded, current_collector>>

\* client_ops_get_addr(): reading 'client_addr' changes nothing.
client_ops_get_addr == server # "out" /\ UNCHANGED vars

\* server_init() up to set_sender_initialized(); 'client_addr' may have been given.
InitSender ==
    /\ server = "out" /\ server' = "created"
    /\ \/ sender' = NewSender
       \/ \E c \in Clients : sender' = trace_sender_start_internal(NewSender, c)
    /\ UNCHANGED <<trace_session, trace, mutex, work, notifier, net, phase, bug>>
    /\ UNCHANGED <<loaded, current_collector>>

\* kedr_register_event_handlers(), then port_listener_init().
InitStep ==
    /\ \/ server = "created" /\ server' = "registered"
       \/ server = "registered" /\ server' = "running"
    /\ UNCHANGED <<svars, loaded, current_collector>>

\* The handlers cannot be taken back while the core has a session with them.
NoSession == loaded = {} /\ NotifierAt("idle")

\* The labels of server_init(), and server_exit(): stop the sender and wait.
Leave ==
    /\ \/ InitErrors /\ server \in {"created", "registered"}
       \/ server = "running"
    /\ NoSession
    /\ server' = "waiting"
    /\ trace_sender_stop
    /\ UNCHANGED <<loaded, current_collector>>

\* trace_sender_wait_stop(), with the work flushed.
trace_sender_wait_stop ==
    /\ server = "waiting" /\ sender.state = "ready"
    /\ work.step = "idle" /\ ~sender.queued
    /\ server' = "destroying"
    /\ UNCHANGED <<svars, loaded, current_collector>>

\* The wait fails; its result is tested by an empty statement.
WaitKilled ==
    /\ server = "waiting" /\ MayKill
    /\ server' = "destroying"
    /\ UNCHANGED <<svars, loaded, current_collector>>

\* trace_sender_destroy(): cancels the work.
trace_sender_destroy ==
    /\ server = "destroying"
    /\ \/ /\ sender.state # "ready" /\ bug' = "destroy"
          /\ UNCHANGED <<sender, server, trace_session>>
       \/ /\ sender.state = "ready" /\ work.step = "idle"
          /\ sender' = NewSender /\ trace_session' = 0
          /\ server' = "out" /\ bug' = bug
    /\ UNCHANGED <<trace, mutex, work, notifier, net, phase>>
    /\ UNCHANGED <<loaded, current_collector>>

-----------------------------------------------------------------------------
Work == WorkStep /\ UNCHANGED <<server, loaded, current_collector>>

\* Everything but the commands, which come from outside.
OwnStep ==
    \/ Work
    \/ \E m \in Targets : sender_on_target_loaded(m) \/ sender_on_target_about_to_unload(m)
    \/ LoadedReturns \/ LoadedInterrupted \/ UnloadStep \/ UnloadInterrupted
    \/ RecordEvent
    \/ client_ops_get_addr
    \/ InitSender \/ InitStep \/ Leave
    \/ trace_sender_wait_stop \/ WaitKilled \/ trace_sender_destroy

\* The network delivers the oldest message to whoever listens.
NetTakes ==
    /\ net # <<>> /\ net' = Tail(net)
    /\ UNCHANGED <<sender, trace_session, trace, mutex, work, notifier, phase, bug>>
    /\ UNCHANGED <<server, loaded, current_collector>>

Next == bug = "none" /\ (OwnStep \/ Command \/ NetTakes)

Spec == Init /\ [][Next]_vars

\* The workqueue runs what is queued, the network takes what is sent, and a
\* thread that waits for the mutex gets it in its turn.  Nobody has to interrupt it.
FairSpec ==
    /\ Spec
    /\ WF_vars(Work) /\ WF_vars(NetTakes)
    /\ SF_vars(LoadedReturns) /\ SF_vars(UnloadStep)
    /\ WF_vars(trace_sender_wait_stop) /\ WF_vars(trace_sender_destroy)

-----------------------------------------------------------------------------


\* "When added in the 'session' state, trace session should be started": no trace
\* misses the send session that the work item opens while it is being added.
StartedInSession ==
    (sender.state = "session" /\ mutex = NoOne /\ trace_session # 0)
        => trace[trace_session].state # "ready" \/ trace[trace_session].terminated

\* The work item is its own clock: while a trace is being sent the work is queued or
\* runs, whichever of the returns of send_trace() was taken.
WorkNotForgotten ==
    TraceRuns => sender.queued \/ work.step # "idle"


\* A trace that ends within a send session ends because its buffers are empty: what the
\* notifier thread waits for in trace_sender_stop_collect_messages().
DrainedInSession ==
    [][\A x \in Traces :
         (trace[x].state # "ready" /\ trace'[x].state = "ready" /\ sender.state = "session")
            => trace[x].events = 0]_vars

\* A stop takes effect, also when it came while the state was frozen.
StopTakesEffect ==
    (sender.state = "stopping" \/ (sender.freezed /\ "stop" \in {sender.deferred[1], sender.deferred[2]}))
        ~> sender.state = "ready"

\* The unloading of a target is not held up for ever by the wait for its trace's end.
UnloadEnds == notifier.step # "idle" ~> notifier.step = "idle"

====
