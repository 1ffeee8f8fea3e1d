--------------------------- MODULE TraceReceiver ---------------------------
(****************************************************************************)
(* The user-space end of the network: the trace receiver, a daemon that     *)
(* stores the traces it gets (trace_receiver.cpp), and the program that     *)
(* starts it, gives it commands and waits for its answers                   *)
(* (trace_receiver_control.cpp).                                            *)
(*                                                                          *)
(* The control program binds a fixed port, so one of it runs at a time and  *)
(* the lists of waiters of the receiver, which hold ports, are counters.    *)
(* An assert() that fails is recorded in 'failed'; one of the receiver's    *)
(* stops everything.                                                        *)
(****************************************************************************)
EXTENDS Integers, Sequences, UdpProtocol

CONSTANTS Senders,      \* addresses of trace senders
          Actions,      \* actions the control program may be asked for
          InboxCap,     \* control messages on their way to the receiver
          OutboxCap,    \* commands on their way to the senders
          MaxWaiters,   \* waiters in one list of the receiver
          ControlMayDie,\* BOOLEAN: the control program may be killed
          MayCrash      \* BOOLEAN: storing a trace may fail, which ends the receiver

VARIABLES receiver,     \* the receiver: the process, its sessions and its waiters
          inbox,        \* control messages that wait in the receiver's socket
          outbox,       \* commands the receiver has sent to trace senders
          control,      \* the control program
          answers,      \* messages that wait in the control program's socket
          seen,         \* ghost: what the current action is to bring about has been so
          orphan,       \* ghost: a program was killed during an action
          failed        \* the assertion that failed

rvars == <<receiver, inbox, outbox, control, answers, seen, orphan, failed>>

NoSender == "no sender"

\* Replicates of a message, one for every waiter in a list.
Copies(n, type) == [i \in 1 .. n |-> type]

\* The process runs, its destructor has sent SIGUSR1, the socket is closed, it is gone.
NewReceiver == [proc |-> "running", terminated |-> FALSE, session |-> NoSender, trace |-> "none",
                session_start |-> 0, session_stop |-> 0, trace_start |-> 0,
                begin |-> 0, end |-> 0, stop |-> FALSE]
NoReceiver == [NewReceiver EXCEPT !.proc = "out"]

SocketOpen == receiver.proc \in {"running", "closing"}

\* A control program that does not run, and one between two of its actions.
NoControl == [action |-> "none", step |-> "idle", result |-> "none", sock_error |-> FALSE,
              usr1 |-> FALSE, usr2 |-> FALSE]


ReceiverInit ==
    /\ receiver = NoReceiver /\ inbox = <<>> /\ outbox = <<>>
    /\ control = NoControl /\ answers = <<>> /\ seen = FALSE /\ orphan = FALSE /\ failed = "none"

-----------------------------------------------------------------------------
\* The handlers of the receiver: the receiver afterwards, the notifications it sends,
\* and whether the assertions hold.
Handled(r, out) == [r |-> r, out |-> out, ok |-> TRUE]
Asserted(holds, r, out) == [r |-> r, out |-> out, ok |-> holds]

\* SendSession::addMetaPacket(): the first packet makes the trace session.
addMetaPacket(r) ==
    IF r.trace = "none"
    THEN Handled([r EXCEPT !.trace = "meta", !.begin = 0], Copies(r.begin, "start_connection"))
    ELSE Asserted(r.trace = "meta", r, <<>>)

\* endMeta() makes the reader; packets need it.
endMeta(r) == Asserted(r.trace = "meta", [r EXCEPT !.trace = "data"], <<>>)
addPacket(r) == Asserted(r.trace = "data", r, <<>>)
traceStart(r) == Asserted(r.trace # "none", r, <<>>)


traceEnd(r) ==
    Asserted(r.trace # "none",
             [r EXCEPT !.trace = "none", !.end = 0], Copies(r.end, "stop_trace"))

\* The session with a sender begins: it inherits who waits for a trace.
SessionStart(r, from) ==
    Handled([r EXCEPT !.session = from, !.begin = r.trace_start, !.trace_start = 0,
                      !.session_start = 0],
            Copies(r.session_start, "start_connection"))

\* Mutant: those who wait for its end are left in the list.
SessionEndQuiet(r) ==
    Handled([r EXCEPT !.session = NoSender, !.trace = "none", !.begin = 0, !.end = 0],
            Copies(IF r.trace # "none" THEN r.end ELSE r.begin, "stop_connection"))

\* The session ends: the destructor of SendSession, then the waiters of the receiver.
SessionEnd(r) ==
    Handled([r EXCEPT !.session = NoSender, !.trace = "none", !.begin = 0, !.end = 0,
                      !.session_stop = 0],
            Copies(IF r.trace # "none" THEN r.end ELSE r.begin, "stop_connection")
            \o Copies(r.session_stop, "stop_connection"))

processMessage(r, from, type) ==
    IF r.session = NoSender
    THEN IF type = "session_start" THEN SessionStart(r, from) ELSE Handled(r, <<>>)
    ELSE CASE r.session # from        -> Handled(r, <<>>)
           [] type = "session_start"  -> Handled(r, <<>>)
           [] type = "ctf"            -> addPacket(r)
           [] type = "meta_ctf"       -> addMetaPacket(r)
           [] type = "meta_ctf_end"   -> endMeta(r)
           [] type = "session_end"    -> SessionEnd(r)
           [] type = "trace_start"    -> traceStart(r)
           [] OTHER                   -> traceEnd(r)

-----------------------------------------------------------------------------
\* A waiter joins a list, or is answered at once.
addTraceStartWaiter(r) ==
    CASE r.session = NoSender -> Handled([r EXCEPT !.trace_start = @ + 1], <<>>)
      [] r.session # NoSender /\ r.trace = "none" -> Handled([r EXCEPT !.begin = @ + 1], <<>>)
      [] OTHER -> Handled(r, <<"start_trace">>)

addTraceStopWaiter(r) ==
    IF r.session # NoSender /\ r.trace # "none"
    THEN Handled([r EXCEPT !.end = @ + 1], <<>>)
    ELSE Handled(r, <<"stop_trace">>)

addSessionStartWaiter(r) ==
    IF r.session = NoSender
    THEN Handled([r EXCEPT !.session_start = @ + 1], <<>>)
    ELSE Handled(r, <<"start_connection">>)

addSessionStopWaiter(r) ==
    IF r.session # NoSender
    THEN Handled([r EXCEPT !.session_stop = @ + 1], <<>>)
    ELSE Handled(r, <<"stop_connection">>)

processControlMessage(r, type) ==
    CASE type = "terminate"             -> Handled([r EXCEPT !.terminated = TRUE], <<>>)
      [] type = "wait_terminate"        -> Handled([r EXCEPT !.stop = TRUE], <<>>)
      [] type = "wait_init_connection"  -> addSessionStartWaiter(r)
      [] type = "wait_break_connection" -> addSessionStopWaiter(r)
      [] type = "wait_trace_begin"      -> addTraceStartWaiter(r)
      [] type = "wait_trace_end"        -> addTraceStopWaiter(r)
      [] OTHER                          -> Handled(r, <<>>)

-----------------------------------------------------------------------------
\* mainLoop(): one message is taken from the socket.
Running == receiver.proc = "running" /\ ~receiver.terminated

\* sendNotification(): reaches the control program if there is one.
Apply(h) ==
    /\ receiver' = h.r
    /\ answers' = IF control.step = "idle" THEN answers ELSE answers \o h.out
    /\ failed' = IF h.ok THEN failed ELSE "receiver"

\* A message of a trace; a receiver that does not run gets none.
ReceiveTrace(from, type) ==
    /\ IF Running THEN Apply(processMessage(receiver, from, type))
                  ELSE ~SocketOpen /\ UNCHANGED <<receiver, answers, failed>>
    /\ UNCHANGED <<inbox, outbox, control>>

\* A message of the control program; sendCommand() passes on two of the kinds.
ReceiveControl ==
    /\ Running /\ inbox # <<>> /\ inbox' = Tail(inbox)
    /\ Len(outbox) < OutboxCap
    /\ LET m == Head(inbox) IN
       /\ Apply(processControlMessage(receiver, m.type))
       /\ outbox' = CASE m.type = "init_connection"  -> Append(outbox, [type |-> "start", to |-> m.to])
                      [] m.type = "break_connection" -> Append(outbox, [type |-> "stop", to |-> m.to])
                      [] OTHER                       -> outbox
    /\ UNCHANGED control

\* An exception of TraceSession, or of the CTF reader, is caught nowhere.
ReceiverCrash ==
    /\ MayCrash /\ receiver.session # NoSender /\ Running
    /\ receiver' = NoReceiver /\ inbox' = <<>>
    /\ UNCHANGED <<outbox, control, answers, failed>>

\* ~TraceReceiver(): the waiters in its own lists are told, not those of the session.
DestructorNotifies ==
    /\ receiver.proc = "running" /\ receiver.terminated
    /\ receiver' = [receiver EXCEPT !.proc = "closing"]
    /\ answers' = IF control.step = "idle" THEN answers
                  ELSE answers \o Copies(receiver.session_start + receiver.session_stop
                                         + receiver.trace_start, "stop")
    /\ control' = [control EXCEPT !.usr1 = receiver.stop]
    /\ UNCHANGED <<inbox, outbox, failed>>


DestructorCloses ==
    /\ receiver.proc = "closing"
    /\ receiver' = [receiver EXCEPT !.proc = "closed"] /\ inbox' = <<>>
    /\ UNCHANGED <<outbox, control, answers, failed>>

\* Mutant: SIGUSR2 is forgotten.
DestructorEndsQuiet ==
    /\ receiver.proc = "closed"
    /\ receiver' = NoReceiver
    /\ UNCHANGED <<inbox, outbox, control, answers, failed>>

DestructorEnds ==
    /\ receiver.proc = "closed"
    /\ receiver' = NoReceiver
    /\ control' = [control EXCEPT !.usr2 = receiver.stop]
    /\ UNCHANGED <<inbox, outbox, answers, failed>>

ReceiverStep ==
    ReceiveControl \/ ReceiverCrash \/ DestructorNotifies \/ DestructorCloses \/ DestructorEnds

-----------------------------------------------------------------------------
\* The control program: main() does its actions until one fails.

ControlAt(step) == control.step = step

\* An action returns; unless it succeeds so does main(), and the socket is closed.
Return(ok) ==
    /\ control' = IF ok THEN [NoControl EXCEPT !.step = "ready", !.action = control.action,
                                               !.result = "ok", !.sock_error = control.sock_error]
                  ELSE [NoControl EXCEPT !.result = "fail"]
    /\ IF ok THEN UNCHANGED answers ELSE answers' = <<>>

ControlBegin ==
    /\ ControlAt("idle")
    /\ control' = [NoControl EXCEPT !.step = "ready"]
    /\ UNCHANGED <<receiver, inbox, outbox, answers, failed>>

ControlAction(a) ==
    /\ ControlAt("ready")
    /\ control' = [control EXCEPT !.action = a, !.result = "none",
                                  !.step = IF a = "start" THEN "boot" ELSE "wait"]
    /\ UNCHANGED <<receiver, inbox, outbox, answers, failed>>

ControlExit ==
    /\ ControlAt("ready")
    /\ control' = NoControl /\ answers' = <<>>
    /\ UNCHANGED <<receiver, inbox, outbox, failed>>

\* The program is killed; signals to it go nowhere, its port stays in the lists.
ControlKilled ==
    /\ ControlMayDie /\ ~ControlAt("idle") /\ ~ControlAt("boot")
    /\ receiver.session_start + receiver.session_stop + receiver.trace_start
       + receiver.begin + receiver.end + Len(inbox) < MaxWaiters
    /\ control' = NoControl /\ answers' = <<>>
    /\ receiver' = [receiver EXCEPT !.stop = FALSE]
    /\ inbox' = SelectSeq(inbox, LAMBDA m : m.type # "wait_terminate")
    /\ UNCHANGED <<outbox, failed>>

\* ControlActionStart: the receiver is forked; it binds its port and sends SIGUSR1, or ends.
ReceiverBoots ==
    /\ ControlAt("boot") /\ receiver.proc # "closed"
    /\ IF receiver.proc = "out"
       THEN receiver' = NewReceiver /\ Return(TRUE)
       ELSE UNCHANGED receiver /\ Return(FALSE)
    /\ UNCHANGED <<inbox, outbox, failed>>


\* sendControlMessage(): an error that waits in the socket fails it; a message to a
\* port where nobody listens leaves such an error.
SendControl(type, to) ==
    /\ Len(inbox) < InboxCap
    /\ inbox' = IF SocketOpen THEN Append(inbox, [type |-> type, to |-> to]) ELSE inbox

WaitMessage == [init |-> "wait_init_connection", break |-> "wait_break_connection",
                begin |-> "wait_trace_begin", end |-> "wait_trace_end", stop |-> "wait_terminate"]
CommandMessage == [init |-> "init_connection", break |-> "break_connection", stop |-> "terminate"]
Answer == [init |-> "start_connection", break |-> "stop_connection",
           begin |-> "start_trace", end |-> "stop_trace"]

ControlWait ==
    /\ ControlAt("wait")
    /\ IF control.sock_error
       THEN Return(FALSE) /\ UNCHANGED inbox
       ELSE /\ SendControl(WaitMessage[control.action], NoSender)
            /\ control' = [control EXCEPT !.sock_error = ~SocketOpen,
                              !.step = IF control.action \in {"begin", "end"} THEN "recv" ELSE "command"]
            /\ UNCHANGED answers
    /\ UNCHANGED <<receiver, outbox, failed>>

ControlCommand ==
    /\ ControlAt("command")
    /\ IF control.sock_error
       THEN Return(FALSE) /\ UNCHANGED inbox
       ELSE /\ \E to \in Senders : SendControl(CommandMessage[control.action],
                                               IF control.action = "stop" THEN NoSender ELSE to)
            /\ control' = [control EXCEPT !.sock_error = ~SocketOpen,
                              !.step = IF control.action = "stop" THEN "pselect" ELSE "recv"]
            /\ UNCHANGED answers
    /\ UNCHANGED <<receiver, outbox, failed>>

\* recvControlMessage(): an error is reported before a message.
ControlReceive ==
    /\ ControlAt("recv") /\ (control.sock_error \/ answers # <<>>)
    /\ IF control.sock_error
       THEN Return(FALSE)
       ELSE IF Head(answers) = Answer[control.action]
            THEN /\ answers' = Tail(answers)
                 /\ control' = [control EXCEPT !.step = "ready", !.result = "ok"]
            ELSE Return(FALSE)
    /\ UNCHANGED <<receiver, inbox, outbox, failed>>

\* Mutant: there are no such messages.
NoKeepAlive == FALSE /\ UNCHANGED rvars

\* Nothing has come for KEEP_ALIVE_PERIOD: a message shows whether the receiver lives.
KeepAlive ==
    /\ control.step \in {"recv", "pselect"}
    /\ ~control.sock_error /\ answers = <<>> /\ ~control.usr1 /\ ~control.usr2
    /\ SendControl("keep_alive", NoSender)
    /\ control' = [control EXCEPT !.sock_error = ~SocketOpen]
    /\ UNCHANGED <<receiver, outbox, answers, failed>>

\* waitForFinalized(): an error, a message nobody waits for, or signals.
PselectError ==
    /\ ControlAt("pselect") /\ control.sock_error
    /\ Return(FALSE)
    /\ UNCHANGED <<receiver, inbox, outbox, failed>>

PselectMessage ==
    /\ ControlAt("pselect") /\ ~control.sock_error /\ answers # <<>>
    /\ answers' = Tail(answers)
    /\ UNCHANGED <<receiver, inbox, outbox, control, failed>>

\* Both signals may have come by the time the handlers run, or only the first.
PselectSignals ==
    /\ ControlAt("pselect") /\ (control.usr1 \/ control.usr2)
    /\ IF control.usr2 THEN Return(TRUE)
       ELSE control' = [control EXCEPT !.step = "suspend", !.usr1 = FALSE] /\ UNCHANGED answers
    /\ UNCHANGED <<receiver, inbox, outbox, failed>>

\* sigsuspend() returns -1, which is stored in errno and compared with -EINTR: a build
\* with assertions is aborted, one without returns 0.
Suspend ==
    /\ ControlAt("suspend") /\ control.usr2
    /\ failed' = "control" /\ \E ndebug \in BOOLEAN : Return(ndebug)
    /\ UNCHANGED <<receiver, inbox, outbox>>

ControlStep ==
    \/ ReceiverBoots \/ ControlWait \/ ControlCommand \/ ControlReceive \/ KeepAlive
    \/ PselectError \/ PselectMessage \/ PselectSignals \/ Suspend

ControlUser ==
    ControlBegin \/ ControlExit \/ ControlKilled \/ \E a \in Actions : ControlAction(a)

-----------------------------------------------------------------------------
\* What an action is to bring about: trace_receiver_control_usage.
Goal(a, r) ==
    CASE a = "start" -> r.proc = "running"
      [] a = "stop"  -> r.proc \in {"closed", "out"}
      [] a = "init"  -> r.session # NoSender
      [] a = "break" -> r.session = NoSender
      [] a = "begin" -> r.trace # "none"
      [] a = "end"   -> r.trace = "none"
      [] OTHER       -> FALSE

\* The ghosts: the goal of the action has been so since the action began; an action
\* was cut short, and the receiver may still have its program among the waiters.
Watch ==
    /\ seen' = IF control'.action = "none" THEN FALSE
               ELSE Goal(control'.action, receiver')
                    \/ (seen /\ ~(ControlAt("ready") /\ control'.step # "ready"))
    /\ orphan' = (orphan \/ (control.step \notin {"idle", "ready"} /\ control' = NoControl))

-----------------------------------------------------------------------------

\* A waiter is in a list only while what it waits for has not happened: an entry in the
\* list of a session that has begun, or ended, would be answered by another one's event.
WaitersMatchState ==
    /\ receiver.session # NoSender => receiver.session_start = 0 /\ receiver.trace_start = 0
    /\ receiver.session = NoSender => receiver.session_stop = 0 /\ receiver.begin = 0
    /\ receiver.trace # "none" => receiver.begin = 0
    /\ receiver.trace = "none" => receiver.end = 0


\* A program that waits does not wait for a receiver that is gone: the keep-alive
\* messages make up for the waiters nobody notifies.
WaitEnds ==
    (control.step \in {"recv", "pselect", "suspend"} /\ receiver.proc = "out")
        ~> control.step \notin {"recv", "pselect", "suspend"}

\* A program that stops the receiver ends.
StopEnds ==
    (control.action = "stop" /\ control.step = "pselect")
        ~> control.step \notin {"pselect", "suspend"}
====
