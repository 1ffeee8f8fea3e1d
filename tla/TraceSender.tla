---------------------------- MODULE TraceSender ----------------------------
(****************************************************************************)
(* The object that sends a trace over the network: trace_sender.c.  Three   *)
(* kinds of context use it.  Commands (start, stop) come from the network   *)
(* callback under the spinlock and may not sleep; the work item does the    *)
(* sending and, because that sleeps, freezes the state first and runs the   *)
(* commands that came meanwhile when it unfreezes it; the notifier thread   *)
(* of the core puts a trace session into the sender when a target is loaded *)
(* and waits for its end when the target is unloaded.                       *)
(*                                                                          *)
(* A trace session is a member of 1 .. MaxTraces, 0 is the NULL pointer.    *)
(* The sequence numbers of the messages are left out: nothing reads them.   *)
(* A BUG_ON() that fires is recorded in 'bug' and stops everything.         *)
(****************************************************************************)
EXTENDS Integers, Sequences, FiniteSets, UdpProtocol

CONSTANTS Clients,      \* addresses a trace may be sent to
          Targets,      \* modules whose events are collected
          MaxTraces,    \* trace session objects that fit in memory
          MetaPackets,  \* packets the metadata takes
          MaxEvents,    \* capacity of the buffers of a trace
          MaxPackets,   \* packets the size limit of an interval admits
          NetCap,       \* messages the network holds
          PacketErrors, \* BOOLEAN: forming a packet may fail
          Signals,      \* BOOLEAN: the notifier thread may be interrupted
          WorkSignals   \* BOOLEAN: so may the work item

VARIABLES sender,       \* state, is_freezed, deferred_commands, the client, the queued work
          trace_session,\* the pointer the sender holds
          trace,        \* the trace session objects
          mutex,        \* the holder of trace_session_mutex
          work,         \* where the work item is, and what it has sent in this run
          notifier,     \* where the notifier thread is
          net,          \* messages sent and not yet delivered
          phase,        \* ghost: where the messages sent are in the protocol
          bug

svars == <<sender, trace_session, trace, mutex, work, notifier, net, phase, bug>>

Traces == 1 .. MaxTraces
NoOne == "nobody"

SenderStates == {"ready", "starting", "session", "stopping"}
\* The states in which a mark is sent are passed through in one call.
TraceStates == {"ready", "started", "meta_send", "send", "eof"}
Commands == {"none", "start", "stop"}

WorkSteps == {"idle", "start_mark", "start_lock", "start_unfreeze", "send_lock",
              "send_trace", "send_unfreeze", "stop_lock", "stop_mark", "stop_unfreeze"}
NotifierSteps == {"idle", "collect_lock", "terminate", "wait_stop", "relock"}

NewTrace(m) == [allocated |-> TRUE, state |-> "ready", terminated |-> FALSE,
                m |-> m, meta |-> 0, events |-> 0]
NoTrace == [allocated |-> FALSE, state |-> "ready", terminated |-> FALSE,
            m |-> NoOne, meta |-> 0, events |-> 0]

\* trace_sender_create()
NewSender == [state |-> "ready", freezed |-> FALSE, deferred |-> <<"none", "none">>,
              client |-> NoOne, deferred_client |-> NoOne, queued |-> FALSE]

TypeOK ==
    /\ sender \in [state : SenderStates, freezed : BOOLEAN,
                   deferred : {<<c, d>> : c \in Commands, d \in Commands},
                   client : Clients \cup {NoOne}, deferred_client : Clients \cup {NoOne},
                   queued : BOOLEAN]
    /\ trace_session \in 0 .. MaxTraces
    /\ trace \in [Traces -> [allocated : BOOLEAN, state : TraceStates, terminated : BOOLEAN,
                             m : Targets \cup {NoOne}, meta : 0 .. MetaPackets,
                             events : 0 .. MaxEvents]]
    /\ mutex \in {NoOne, "work"}
    /\ work \in [step : WorkSteps, sent : 0 .. MaxPackets]
    /\ notifier \in [step : NotifierSteps, m : Targets \cup {NoOne}, trace : 0 .. MaxTraces]
    /\ net \in Seq(MessageTypes) /\ Len(net) <= NetCap
    /\ phase \in Phases \cup {"bad"}
    /\ bug \in {"none", "start", "packet", "terminate", "no_trace", "other_module", "not_open", "destroy"}

-----------------------------------------------------------------------------
\* trace_sender_send_msg(): kernel_sendmsg() may fail, as if the message were lost.
Send(type) ==
    /\ Len(net) < NetCap
    /\ IF sender.state = "ready"
       THEN bug' = "not_open" /\ UNCHANGED <<net, phase>>
       ELSE /\ bug' = bug
            /\ phase' = AfterMessage(phase, type)
            /\ net' = Append(net, type) \/ (PacketErrors /\ net' = net)

-----------------------------------------------------------------------------
\* Commands, on the record of the sender; under the spinlock.

trace_sender_start_internal(s, c) ==
    IF s.freezed
    THEN CASE s.deferred[1] = "none" ->
                [s EXCEPT !.deferred[1] = "start", !.deferred_client = c]
           [] s.deferred[1] = "stop" /\ s.deferred[2] # "start" ->
                [s EXCEPT !.deferred[2] = "start", !.deferred_client = c]
           [] OTHER -> s        \* -EBUSY
    ELSE IF s.state = "ready"
         THEN [s EXCEPT !.client = c, !.state = "starting", !.queued = TRUE]
         ELSE s                 \* -EBUSY


trace_sender_stop_internal(s) ==
    IF s.freezed
    THEN CASE s.deferred[1] = "none" -> [s EXCEPT !.deferred[1] = "stop"]
           [] s.deferred[1] = "start" -> [s EXCEPT !.deferred[2] = "stop"]
           [] OTHER -> s
    ELSE CASE s.state = "starting" -> [s EXCEPT !.state = "ready"]
           [] s.state = "session"  -> [s EXCEPT !.state = "stopping", !.queued = TRUE]
           [] OTHER -> s

\* trace_sender_freeze_state_internal()
Freeze(s) == [s EXCEPT !.freezed = TRUE, !.deferred = <<"none", "none">>]

RunDeferred(s, command) ==
    CASE command = "start" -> trace_sender_start_internal(s, s.deferred_client)
      [] command = "stop"  -> trace_sender_stop_internal(s)
      [] OTHER             -> s

\* Mutant: the second command is forgotten.
UnfreezeFirstOnly(s, new_state) ==
    RunDeferred([s EXCEPT !.state = new_state, !.freezed = FALSE], s.deferred[1])

\* trace_sender_unfreeze_state_internal(): the second command only follows a first.
Unfreeze(s, new_state) ==
    LET thawed == [s EXCEPT !.state = new_state, !.freezed = FALSE] IN
    IF s.deferred[1] = "none"
    THEN thawed
    ELSE RunDeferred(RunDeferred(thawed, s.deferred[1]), s.deferred[2])

\* trace_sender_start() and trace_sender_stop()
trace_sender_start(c) ==
    /\ sender' = trace_sender_start_internal(sender, c)
    /\ UNCHANGED <<trace_session, trace, mutex, work, notifier, net, phase, bug>>

trace_sender_stop ==
    /\ sender' = trace_sender_stop_internal(sender)
    /\ UNCHANGED <<trace_session, trace, mutex, work, notifier, net, phase, bug>>

-----------------------------------------------------------------------------
\* Operations of a trace session, on its record.

\* kedr_trace_session_start() on a session that is 'ready'
Started(t) == IF t.terminated THEN t ELSE [t EXCEPT !.state = "started"]

\* kedr_trace_session_stop(): also destroys the stream of metadata.
Stopped(t) == [t EXCEPT !.state = "ready", !.meta = 0]

\* kedr_trace_session_is_started() of the trace the sender has
TraceRuns == trace_session # 0 /\ trace[trace_session].state # "ready"

Failed == IF PacketErrors THEN {"error"} ELSE {}

\* A packet of metadata, or the mark of their end; no 'start' mark follows it since
\* is_first_event is 0 from the beginning.
MetaPacket(t) ==
    LET left == IF t.state = "started" THEN MetaPackets ELSE t.meta IN
    {IF left > 0
     THEN [type |-> "meta_ctf", t |-> [t EXCEPT !.state = "meta_send", !.meta = left - 1]]
     ELSE [type |-> "meta_ctf_end", t |-> [t EXCEPT !.state = "send"]]}
    \cup {[type |-> e, t |-> [t EXCEPT !.state = "meta_send", !.meta = left]] : e \in Failed}

\* The packets of the mutants below, which never end the trace themselves.
EventsOnly(t) ==
    IF t.events > 0
    THEN {[type |-> "ctf", t |-> [t EXCEPT !.events = n]] : n \in 0 .. t.events - 1}
    ELSE {[type |-> "again", t |-> t]}

\* Mutant: the flag is looked at before the buffers.
EventPacketEarly(t) ==
    IF t.terminated
    THEN {[type |-> "trace_end", t |-> [t EXCEPT !.state = "eof"]]}
    ELSE EventsOnly(t)

\* Mutant: the mark of the end is forgotten.
EventPacketNoMark(t) ==
    IF t.events = 0 /\ t.terminated
    THEN {[type |-> "eof", t |-> t]}
    ELSE EventsOnly(t)

\* A packet with some of the events; in an empty terminated trace, the mark of its end.
EventPacket(t) ==
    (IF t.events > 0
     THEN {[type |-> "ctf", t |-> [t EXCEPT !.events = n]] : n \in 0 .. t.events - 1}
     ELSE IF t.terminated
          THEN {[type |-> "trace_end", t |-> [t EXCEPT !.state = "eof"]]}
          ELSE {[type |-> "again", t |-> t]})
    \cup {[type |-> e, t |-> t] : e \in Failed}

\* What kedr_trace_session_next_packet() may give for a started session: the type
\* of the message formed, or "again", "error", "eof", with the session afterwards.
NextPacket(t) ==
    CASE t.state \in {"started", "meta_send"} -> MetaPacket(t)
      [] t.state = "send"                     -> EventPacket(t)
      [] OTHER                                -> {[type |-> "eof", t |-> t]}

-----------------------------------------------------------------------------
\* The work item: trace_sender_work().

Goto(step) == work' = [step |-> step, sent |-> 0]

\* The workqueue runs the work; its state decides what it does.  Nothing in 'ready'.
trace_sender_work ==
    /\ work.step = "idle" /\ sender.queued
    /\ LET s == [sender EXCEPT !.queued = FALSE] IN
       sender' = IF s.state = "ready" THEN s ELSE Freeze(s)
    /\ Goto(CASE sender.state = "starting" -> "start_mark"
              [] sender.state = "session"  -> "send_lock"
              [] sender.state = "stopping" -> "stop_lock"
              [] OTHER                     -> "idle")
    /\ UNCHANGED <<trace_session, trace, mutex, notifier, net, phase, bug>>

StartMark ==
    /\ work.step = "start_mark" /\ Send("session_start")
    /\ Goto("start_lock")
    /\ UNCHANGED <<sender, trace_session, trace, mutex, notifier>>

\* With the mutex taken: the trace session starts, and work is queued for it.
StartTrace ==
    /\ work.step = "start_lock" /\ mutex = NoOne
    /\ IF TraceRuns
       THEN bug' = "start" /\ UNCHANGED <<trace, sender>>
       ELSE /\ bug' = bug
            /\ IF trace_session # 0
               THEN /\ trace' = [trace EXCEPT ![trace_session] = Started(@)]
                    /\ sender' = [sender EXCEPT !.queued = @ \/ ~trace[trace_session].terminated]
               ELSE UNCHANGED <<trace, sender>>
    /\ mutex' = "work" /\ Goto("start_unfreeze")
    /\ UNCHANGED <<trace_session, notifier, net, phase>>

StartInterrupted ==
    /\ work.step = "start_lock" /\ WorkSignals
    /\ sender' = Unfreeze(sender, "session")
    /\ Goto("idle")
    /\ UNCHANGED <<trace_session, trace, mutex, notifier, net, phase, bug>>

StartUnfreeze ==
    /\ work.step = "start_unfreeze"
    /\ sender' = Unfreeze(sender, "session")
    /\ mutex' = NoOne /\ Goto("idle")
    /\ UNCHANGED <<trace_session, trace, notifier, net, phase, bug>>

-----------------------------------------------------------------------------
\* trace_sender_send_trace()

SendLock ==
    /\ work.step = "send_lock" /\ mutex = NoOne
    /\ mutex' = "work" /\ Goto("send_trace")
    /\ UNCHANGED <<sender, trace_session, trace, notifier, net, phase, bug>>

SendInterrupted ==
    /\ work.step = "send_lock" /\ WorkSignals
    /\ sender' = [sender EXCEPT !.queued = TRUE]
    /\ Goto("send_unfreeze")
    /\ UNCHANGED <<trace_session, trace, mutex, notifier, net, phase, bug>>

\* The loop ends; work is queued again unless there was nothing to do.
SendLeave(again) ==
    /\ mutex' = NoOne /\ Goto("send_unfreeze")
    /\ sender' = [sender EXCEPT !.queued = @ \/ again]

SendNoTrace ==
    /\ work.step = "send_trace" /\ ~TraceRuns
    /\ SendLeave(work.sent > 0)
    /\ UNCHANGED <<trace_session, trace, notifier, net, phase, bug>>

Sending(p) ==
    /\ work.step = "send_trace" /\ TraceRuns
    /\ p \in NextPacket(trace[trace_session])

\* A packet is formed and sent; the limit of the interval may be reached by it.
SendPacket(p) ==
    /\ Sending(p) /\ p.type \notin {"again", "error", "eof"}
    /\ Send(p.type)
    /\ trace' = [trace EXCEPT ![trace_session] = p.t]
    /\ \/ /\ work.sent + 1 < MaxPackets
          /\ work' = [work EXCEPT !.sent = @ + 1] /\ UNCHANGED <<mutex, sender>>
       \/ SendLeave(TRUE)
    /\ UNCHANGED <<trace_session, notifier>>

\* Mutant: the session is forgotten without being stopped.
SendEofForgets(p) ==
    /\ Sending(p) /\ p.type = "eof"
    /\ trace_session' = 0
    /\ UNCHANGED <<sender, trace, mutex, work, notifier, net, phase, bug>>

\* The end of the trace: the session is stopped and forgotten, its waiter frees it.
SendEof(p) ==
    /\ Sending(p) /\ p.type = "eof"
    /\ trace' = [trace EXCEPT ![trace_session] = Stopped(@)]
    /\ trace_session' = 0
    /\ UNCHANGED <<sender, mutex, work, notifier, net, phase, bug>>

\* Nothing to send, or no packet could be formed.
SendFails(p) ==
    /\ Sending(p) /\ p.type \in {"again", "error"}
    /\ IF p.t.terminated
       THEN trace' = [trace EXCEPT ![trace_session] = Stopped(p.t)] /\ trace_session' = 0
       ELSE trace' = [trace EXCEPT ![trace_session] = p.t] /\ UNCHANGED trace_session
    /\ SendLeave(TRUE)
    /\ UNCHANGED <<notifier, net, phase, bug>>

SendUnfreeze ==
    /\ work.step = "send_unfreeze"
    /\ sender' = Unfreeze(sender, "session")
    /\ Goto("idle")
    /\ UNCHANGED <<trace_session, trace, mutex, notifier, net, phase, bug>>

-----------------------------------------------------------------------------
\* Stopping


StopTrace ==
    /\ work.step = "stop_lock" /\ mutex = NoOne
    /\ trace' = IF trace_session = 0 THEN trace
                ELSE [trace EXCEPT ![trace_session] = Stopped(@)]
    /\ Goto("stop_mark")
    /\ UNCHANGED <<sender, trace_session, mutex, notifier, net, phase, bug>>

StopInterrupted ==
    /\ work.step = "stop_lock" /\ WorkSignals
    /\ sender' = Unfreeze([sender EXCEPT !.queued = TRUE], "stopping")
    /\ Goto("idle")
    /\ UNCHANGED <<trace_session, trace, mutex, notifier, net, phase, bug>>

\* Mutant: the mark is not sent.
StopMarkSkipped ==
    /\ work.step = "stop_mark"
    /\ Goto("stop_unfreeze")
    /\ UNCHANGED <<sender, trace_session, trace, mutex, notifier, net, phase, bug>>

StopMark ==
    /\ work.step = "stop_mark" /\ Send("session_end")
    /\ Goto("stop_unfreeze")
    /\ UNCHANGED <<sender, trace_session, trace, mutex, notifier>>

\* The state is 'ready' whatever the deferred commands have made of it.
StopUnfreeze ==
    /\ work.step = "stop_unfreeze"
    /\ sender' = [Unfreeze(sender, "ready") EXCEPT !.state = "ready"]
    /\ Goto("idle")
    /\ UNCHANGED <<trace_session, trace, mutex, notifier, net, phase, bug>>

WorkStep ==
    \/ trace_sender_work
    \/ StartMark \/ StartTrace \/ StartInterrupted \/ StartUnfreeze
    \/ SendLock \/ SendInterrupted \/ SendNoTrace \/ SendUnfreeze
    \/ \E p \in IF TraceRuns THEN NextPacket(trace[trace_session]) ELSE {} :
           SendPacket(p) \/ SendEof(p) \/ SendFails(p)
    \/ StopTrace \/ StopInterrupted \/ StopMark \/ StopUnfreeze

-----------------------------------------------------------------------------
\* trace_sender_collect_messages(), called by the notifier thread.

NotifierAt(step) == notifier.step = step
NotifierReturns == notifier' = [step |-> "idle", m |-> NoOne, trace |-> 0]

CollectBegin(m) ==
    /\ NotifierAt("idle")
    /\ \E x \in Traces :
          /\ ~trace[x].allocated
          /\ trace' = [trace EXCEPT ![x] = NewTrace(m)]
          /\ notifier' = [step |-> "collect_lock", m |-> m, trace |-> x]
    /\ UNCHANGED <<sender, trace_session, mutex, work, net, phase, bug>>

\* There is no memory for the session or for its buffers.
CollectNoMemory ==
    /\ NotifierAt("idle") /\ UNCHANGED svars

\* One trace at a time: the session just made is freed again.
CollectRefused ==
    /\ NotifierAt("collect_lock") /\ mutex = NoOne /\ trace_session # 0
    /\ trace' = [trace EXCEPT ![notifier.trace] = NoTrace]
    /\ NotifierReturns
    /\ UNCHANGED <<sender, trace_session, mutex, work, net, phase, bug>>

CollectInterrupted ==
    /\ NotifierAt("collect_lock") /\ Signals
    /\ trace' = [trace EXCEPT ![notifier.trace] = NoTrace]
    /\ NotifierReturns
    /\ UNCHANGED <<sender, trace_session, mutex, work, net, phase, bug>>

\* Mutant: a session added during a send session is not started.
CollectNotStarted ==
    /\ NotifierAt("collect_lock") /\ mutex = NoOne /\ trace_session = 0
    /\ trace_session' = notifier.trace
    /\ NotifierReturns
    /\ UNCHANGED <<sender, trace, mutex, work, net, phase, bug>>

\* Mutant: it is started, but no work is queued.
CollectNoWork ==
    /\ NotifierAt("collect_lock") /\ mutex = NoOne /\ trace_session = 0
    /\ trace' = IF sender.state = "session"
                THEN [trace EXCEPT ![notifier.trace] = Started(@)] ELSE trace
    /\ trace_session' = notifier.trace
    /\ NotifierReturns
    /\ UNCHANGED <<sender, mutex, work, net, phase, bug>>

\* The session is started when there is a send session, and work queued for it.
CollectInsert ==
    /\ NotifierAt("collect_lock") /\ mutex = NoOne /\ trace_session = 0
    /\ IF sender.state = "session"
       THEN /\ trace' = [trace EXCEPT ![notifier.trace] = Started(@)]
            /\ sender' = [sender EXCEPT !.queued = TRUE]
       ELSE UNCHANGED <<trace, sender>>
    /\ trace_session' = notifier.trace
    /\ NotifierReturns
    /\ UNCHANGED <<mutex, work, net, phase, bug>>

-----------------------------------------------------------------------------
\* trace_sender_stop_collect_messages()

StopCollectBegin(m) ==
    /\ NotifierAt("idle")
    /\ notifier' = [step |-> "terminate", m |-> m, trace |-> 0]
    /\ UNCHANGED <<sender, trace_session, trace, mutex, work, net, phase, bug>>


\* kedr_trace_session_destroy(), the pointer to the session cleared if it is still there.
StopCollectFree(x) ==
    /\ trace' = [trace EXCEPT ![x] = NoTrace]
    /\ trace_session' = IF trace_session = x THEN 0 ELSE trace_session
    /\ NotifierReturns

\* A BUG_ON() of this function or of kedr_trace_session_terminate() fires.
StopCollectBug ==
    /\ NotifierAt("terminate") /\ mutex = NoOne
    /\ \/ trace_session = 0 /\ bug' = "no_trace"
       \/ trace_session # 0 /\ trace[trace_session].m # notifier.m /\ bug' = "other_module"
       \/ /\ trace_session # 0 /\ trace[trace_session].m = notifier.m
          /\ trace[trace_session].terminated /\ bug' = "terminate"
    /\ UNCHANGED <<sender, trace_session, trace, mutex, work, notifier, net, phase>>

\* The session is marked as terminated; if it runs, its end is awaited without the mutex.
StopCollectTerminate ==
    /\ NotifierAt("terminate") /\ mutex = NoOne
    /\ trace_session # 0 /\ trace[trace_session].m = notifier.m
    /\ ~trace[trace_session].terminated
    /\ IF trace[trace_session].state = "ready"
       THEN StopCollectFree(trace_session)
       ELSE /\ trace' = [trace EXCEPT ![trace_session].terminated = TRUE]
            /\ notifier' = [notifier EXCEPT !.step = "wait_stop", !.trace = trace_session]
            /\ UNCHANGED trace_session
    /\ UNCHANGED <<sender, mutex, work, net, phase, bug>>

\* kedr_trace_session_wait_stop()
StopCollectWoken ==
    /\ NotifierAt("wait_stop") /\ trace[notifier.trace].state = "ready"
    /\ notifier' = [notifier EXCEPT !.step = "relock"]
    /\ UNCHANGED <<sender, trace_session, trace, mutex, work, net, phase, bug>>

StopCollectRelock ==
    /\ NotifierAt("relock") /\ mutex = NoOne
    /\ IF trace[notifier.trace].state = "ready"
       THEN StopCollectFree(notifier.trace)
       ELSE /\ notifier' = [notifier EXCEPT !.step = "wait_stop"]
            /\ UNCHANGED <<trace, trace_session>>
    /\ UNCHANGED <<sender, mutex, work, net, phase, bug>>

\* The collector is not removed when the thread is interrupted.
StopCollectInterrupted ==
    /\ Signals /\ notifier.step \in {"terminate", "wait_stop", "relock"}
    /\ NotifierReturns
    /\ UNCHANGED <<sender, trace_session, trace, mutex, work, net, phase, bug>>
====
