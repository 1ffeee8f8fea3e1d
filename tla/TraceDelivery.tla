--------------------------- MODULE TraceDelivery ---------------------------
(****************************************************************************)
(* The trace sender in the kernel and the trace receiver together: the      *)
(* messages the sender puts into 'net' reach the receiver in their order,   *)
(* the commands of the receiver reach the callback of the sender's port.    *)
(****************************************************************************)
EXTENDS TraceServer, TraceReceiver

CONSTANTS Server    \* the address of the trace server, as the receiver knows it

ASSUME ServerAssumption == Senders = {Server} /\ Clients = {Server}

dvars == <<vars, rvars>>

DeliveryInit == Init /\ ReceiverInit

\* A message is taken from the network; nobody may be there to take it.
Delivered ==
    /\ net # <<>> /\ net' = Tail(net)
    /\ ReceiveTrace(Server, Head(net))
    /\ UNCHANGED <<sender, trace_session, trace, mutex, work, notifier, phase, bug>>
    /\ UNCHANGED <<server, loaded, current_collector>>

\* port_listener_cb_data(): a command is taken by a server that listens, or is lost.
CommandArrives ==
    /\ outbox # <<>> /\ outbox' = Tail(outbox)
    /\ IF server = "running"
       THEN IF Head(outbox).type = "start" THEN trace_sender_start(Server) ELSE trace_sender_stop
       ELSE UNCHANGED svars
    /\ UNCHANGED <<server, loaded, current_collector>>
    /\ UNCHANGED <<receiver, inbox, control, answers, failed>>

SenderDoes(A) == A /\ UNCHANGED <<receiver, inbox, outbox, control, answers, failed>>
ReceiverDoes(A) == A /\ UNCHANGED vars

DeliveryStep ==
    \/ SenderDoes(OwnStep)
    \/ ReceiverDoes(ReceiverStep) \/ ReceiverDoes(ControlStep) \/ ReceiverDoes(ControlUser)
    \/ Delivered \/ CommandArrives

\* A failed assertion is the end.
Run(A) == bug = "none" /\ failed # "receiver" /\ A /\ Watch

DeliveryNext == Run(DeliveryStep)

DeliverySpec == DeliveryInit /\ [][DeliveryNext]_dvars

\* Every process runs, and the network delivers.
FairDeliverySpec ==
    /\ DeliverySpec
    /\ WF_dvars(Run(SenderDoes(Work))) /\ WF_dvars(Run(SenderDoes(InitStep)))
    /\ WF_dvars(Run(Delivered)) /\ WF_dvars(Run(CommandArrives))
    /\ WF_dvars(Run(ReceiverDoes(ReceiverStep))) /\ WF_dvars(Run(ReceiverDoes(ControlReceive)))
    /\ WF_dvars(Run(ReceiverDoes(ControlWait))) /\ WF_dvars(Run(ReceiverDoes(ControlCommand)))

-----------------------------------------------------------------------------
\* Both ends agree when nothing is under way: a sender that is 'ready' has left no
\* session open in a receiver that has got all its messages.
SessionsAgree ==
    (sender.state = "ready" /\ ~sender.freezed /\ net = <<>>) => receiver.session = NoSender

\* The receiver has a trace open only while the sender is sending one to it, or the end
\* of it is under way: no trace is left half-stored by a sender that has finished it.
TracesAgree ==
    (receiver.trace # "none" /\ net = <<>> /\ sender.state # "stopping")
        => \E x \in Traces : trace[x].state # "ready"

\* "send 'start' signal to the server with given address, and wait until the session is
\* started": the wait ends when no session is open as the signal reaches a loaded server.
InitSessionEnds ==
    (control.action = "init" /\ control.step = "recv" /\ outbox # <<>> /\ server = "running"
     /\ phase = "closed")
        ~> (control.step # "recv" \/ server # "running" \/ receiver.proc # "running")
====
