-------------------------- MODULE ReceiverProtocol -------------------------
(****************************************************************************)
(* The receiver with trace senders of which nothing is known but that their *)
(* messages are in the order of udp_packet_definition.h.  A message reaches *)
(* the receiver when it is sent: a sender does not notice a delay.          *)
(****************************************************************************)
EXTENDS TraceReceiver

VARIABLES wire  \* where the messages of a sender are in the protocol

pvars == <<rvars, wire>>

Init == ReceiverInit /\ wire = [s \in Senders |-> "closed"]

\* A sender sends what may come next.
SenderMessage(s, type) ==
    /\ AfterMessage(wire[s], type) # "bad"
    /\ wire' = [wire EXCEPT ![s] = AfterMessage(@, type)]
    /\ ReceiveTrace(s, type)

\* A command reaches its sender, which does with it what it likes.
SenderCommand ==
    /\ outbox # <<>> /\ outbox' = Tail(outbox)
    /\ UNCHANGED <<receiver, inbox, control, answers, failed, wire>>

Step ==
    \/ \E s \in Senders, type \in MessageTypes : SenderMessage(s, type)
    \/ SenderCommand
    \/ (ReceiverStep \/ ControlStep \/ ControlUser) /\ UNCHANGED wire

Next == failed # "receiver" /\ Step /\ Watch

Spec == Init /\ [][Next]_pvars

\* A step of one of the two programs.
Run(A) == failed # "receiver" /\ A /\ UNCHANGED wire /\ Watch

\* The processes run, and the clock of the keep-alive messages does.
FairSpec ==
    /\ Spec
    /\ WF_pvars(Run(ReceiveControl)) /\ WF_pvars(Run(DestructorNotifies))
    /\ WF_pvars(Run(DestructorCloses)) /\ WF_pvars(Run(DestructorEnds))
    /\ WF_pvars(Run(ControlReceive)) /\ WF_pvars(Run(KeepAlive))
    /\ WF_pvars(Run(PselectError)) /\ WF_pvars(Run(PselectMessage))
    /\ WF_pvars(Run(PselectSignals)) /\ WF_pvars(Run(Suspend))
    /\ WF_pvars(failed # "receiver" /\ SenderCommand /\ Watch)
====
