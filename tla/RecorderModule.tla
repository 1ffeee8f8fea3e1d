--------------------------- MODULE RecorderModule ---------------------------
(****************************************************************************)
(* Loading and unloading of the kernel part of the simple trace recorder,   *)
(* against the two users it may have meanwhile: the core, which starts a    *)
(* session as soon as the handlers are registered, and processes that open  *)
(* the buffer file as soon as it exists.  Both may do so while the init     *)
(* function still runs; neither can once the module is going away.  The     *)
(* threads of a target report their events (RecorderEvents) in a session.   *)
(****************************************************************************)
EXTENDS RecorderEvents, FiniteSets

CONSTANTS Procs,        \* the processes that may open the buffer file
          MayFail       \* the steps of the init function that may fail

\* What test_init_module() acquires, in its order.
Order == <<"page_buffer", "b0", "b1", "debugfs_dir", "files", "handlers", "lzo_wrkmem">>

VARIABLES mod,          \* the state of the module
          have,         \* what it has, or has leaked
          session,      \* the core has a session with its handlers
          available,    \* buffer_file_available
          proc          \* what the processes do with the file

mvars == <<mod, have, session, available, proc>>
vars == <<mvars, evars>>

\* What a failed step releases on its way out: the labels of test_init_module().
Unwound(i) == {Order[j] : j \in 1 .. (IF i > 5 THEN 5 ELSE i - 1)}

Step == Cardinality(have) + 1

insmod ==
    /\ mod = "out" /\ mod' = "coming"
    /\ available' = 1
    /\ have' = {} /\ b0' = FreshB0 /\ b0_used' = 0
    /\ UNCHANGED <<session, proc, ev, todo, at>>

\* A step of test_init_module() succeeds; the last one completes the init.
InitStep ==
    /\ mod = "coming"
    /\ have' = have \cup {Order[Step]}
    /\ mod' = IF Step = Len(Order) THEN "live" ELSE "coming"
    /\ UNCHANGED <<session, available, proc, evars>>

\* A step fails: the labels release what was acquired and the module is freed.
InitFails ==
    /\ mod = "coming" /\ Order[Step] \in MayFail
    /\ have' = have \ Unwound(Step)
    /\ mod' = "out"
    /\ UNCHANGED <<session, available, proc, evars>>

\* rmmod is refused while the module is in use.
Used == session \/ \E p \in Procs : proc[p] \in {"opening", "open"}


rmmod ==
    /\ mod = "live" /\ ~Used
    /\ mod' = "going"
    /\ UNCHANGED <<have, session, available, proc, evars>>

\* test_cleanup_module(): B0 and B1 are not freed.
test_cleanup_module ==
    /\ mod = "going"
    /\ have' = have \ {"handlers", "files", "debugfs_dir", "lzo_wrkmem", "page_buffer"}
    /\ mod' = "out"
    /\ UNCHANGED <<session, available, proc, evars>>

-----------------------------------------------------------------------------
\* The core: try_module_get() succeeds unless the module is going away.
SessionStart ==
    /\ ~session /\ "handlers" \in have /\ mod \in {"coming", "live"}
    /\ session' = TRUE
    /\ UNCHANGED <<mod, have, available, proc, evars>>

\* The last target is gone; what is left in B0 is flushed.
SessionEnd ==
    /\ session /\ session' = FALSE
    /\ \A t \in Tids : at[t] = "code"
    /\ b0_used' = 0
    /\ UNCHANGED <<mod, have, available, proc, b0, ev, todo, at>>

\* The threads execute the code of the target only while it is loaded.
Report == session /\ EventsNext /\ UNCHANGED mvars

\* Mutant: the counter is tested for being positive before it is decremented.
open_if_not_negative(p) ==
    /\ proc[p] = "closed" /\ "files" \in have /\ mod \in {"coming", "live"}
    /\ available' = available - 1
    /\ proc' = [proc EXCEPT ![p] = IF available' >= -1 THEN "open" ELSE "opening"]
    /\ UNCHANGED <<mod, have, session, evars>>

\* buffer_file_open(): atomic_dec_and_test() ...
buffer_file_open(p) ==
    /\ proc[p] = "closed" /\ "files" \in have /\ mod \in {"coming", "live"}
    /\ available' = available - 1
    /\ proc' = [proc EXCEPT ![p] = IF available' = 0 THEN "open" ELSE "opening"]
    /\ UNCHANGED <<mod, have, session, evars>>

\* ... and atomic_inc() if the file is already open: -EBUSY.
OpenBusy(p) ==
    /\ proc[p] = "opening"
    /\ available' = available + 1
    /\ proc' = [proc EXCEPT ![p] = "closed"]
    /\ UNCHANGED <<mod, have, session, evars>>

buffer_file_release(p) ==
    /\ proc[p] = "open"
    /\ available' = available + 1
    /\ proc' = [proc EXCEPT ![p] = "closed"]
    /\ UNCHANGED <<mod, have, session, evars>>

Init ==
    /\ EventsInit
    /\ mod = "out" /\ have = {} /\ session = FALSE /\ available = 1
    /\ proc = [p \in Procs |-> "closed"]

Next ==
    \/ insmod \/ InitStep \/ InitFails \/ rmmod \/ test_cleanup_module
    \/ SessionStart \/ SessionEnd \/ Report
    \/ \E p \in Procs : buffer_file_open(p) \/ OpenBusy(p) \/ buffer_file_release(p)

Spec == Init /\ [][Next]_vars

-----------------------------------------------------------------------------
(* Properties.                                                              *)

\* buffer_file_open(): however the attempts to open the buffer file interleave,
\* it is never open twice.
SingleOpen == \A p, q \in Procs : proc[p] = "open" /\ proc[q] = "open" => p = q


=============================================================================
