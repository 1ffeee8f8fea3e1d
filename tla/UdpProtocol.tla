---------------------------- MODULE UdpProtocol ----------------------------
(****************************************************************************)
(* The messages between the trace sender, the trace receiver and the        *)
(* program that controls it: udp_packet_definition.h, trace_receiver.h.     *)
(****************************************************************************)

\* enum kedr_message_type
MessageTypes == {"session_start", "session_end", "meta_ctf", "meta_ctf_end",
                 "trace_start", "trace_end", "ctf"}

\* enum kedr_message_control_type
ControlTypes == {"keep_alive", "terminate", "init_connection", "break_connection",
                 "wait_init_connection", "wait_break_connection", "wait_terminate",
                 "wait_trace_begin", "wait_trace_end"}

\* enum kedr_message_info_type
InfoTypes == {"start_connection", "stop_connection", "start_trace", "stop_trace",
              "start", "stop"}

\* What the messages to a client look like: a session of traces, a trace being
\* metadata, its end mark, packets, and the mark of the trace's end.  The phase
\* after a message; "bad" when the message does not belong there.
AfterMessage(ph, type) ==
    CASE type = "session_start" /\ ph = "closed"          -> "open"
      [] type = "session_end"   /\ ph # "closed"          -> "closed"
      [] type = "meta_ctf"      /\ ph \in {"open", "meta"} -> "meta"
      [] type = "meta_ctf_end"  /\ ph = "meta"            -> "body"
      [] type = "ctf"           /\ ph = "body"            -> "body"
      [] type = "trace_end"     /\ ph = "body"            -> "open"
      [] OTHER                                            -> "bad"

Phases == {"closed", "open", "meta", "body"}
====
