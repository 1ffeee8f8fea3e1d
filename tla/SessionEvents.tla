---------------------------- MODULE SessionEvents ----------------------------
(***************************************************************************)
(* What the core of KernelStrider promises to a set of event handlers      *)
(* (struct kedr_event_handlers): the session and target notifications      *)
(* arrive properly nested.  KedrCore is shown to implement this module.    *)
(***************************************************************************)
CONSTANT Targets          \* names of the modules that may be reported

VARIABLES active,         \* on_session_start seen, on_session_end not yet
          loaded          \* targets reported loaded and not yet about to unload

evars == <<active, loaded>>

EInit == active = FALSE /\ loaded = {}

\* kedr_eh_on_session_start()
SessionStart == ~active /\ active' = TRUE /\ UNCHANGED loaded

\* kedr_eh_on_target_loaded(): at most once per stay of the target in memory.
TargetLoaded(t) ==
    active /\ t \notin loaded /\ loaded' = loaded \cup {t} /\ UNCHANGED active

\* kedr_eh_on_target_about_to_unload(): only for a target reported loaded.
TargetAboutToUnload(t) ==
    active /\ t \in loaded /\ loaded' = loaded \ {t} /\ UNCHANGED active

\* kedr_eh_on_session_end(): no reported target is left behind.
SessionEnd == active /\ loaded = {} /\ active' = FALSE /\ UNCHANGED loaded

ENext == \/ SessionStart \/ SessionEnd
         \/ \E t \in Targets : TargetLoaded(t) \/ TargetAboutToUnload(t)

ESpec == EInit /\ [][ENext]_evars
=============================================================================
