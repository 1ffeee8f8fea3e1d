----------------------------- MODULE ThreadTable -----------------------------
(****************************************************************************)
(* The threads that execute the code of the targets: the thread table of    *)
(* tid.c, with which the core tells "thread start" and "thread end" events  *)
(* from the addresses of task structs, and the entry and exit handlers of   *)
(* handlers.c that keep it.  An address may be used again by a new thread.  *)
(*                                                                          *)
(* A bucket is never changed once it is published, so what a reader finds   *)
(* in it is decided when it reads the pointer.  The readers that still have *)
(* the pointer when a bucket is replaced are kept with the old bucket.      *)
(****************************************************************************)
EXTENDS Integers, Sequences

CONSTANTS Tasks,        \* addresses of task structs
          Buckets,      \* indexes of the thread table
          hash_long,    \* the bucket of an address
          Pseudo,       \* interrupts and swapper threads of the CPUs
          MaxGen,       \* bound: threads that use an address, one after another
          MaxDepth,     \* bound: nested calls of functions of the targets
          MayFail       \* TRUE: the allocation of memory may fail

ASSUME ThreadAssumptions ==
    /\ hash_long \in [Tasks -> Buckets] /\ Tasks \cap Pseudo = {}
    /\ MaxGen \in Nat /\ MaxDepth \in Nat \ {0} /\ MayFail \in BOOLEAN

VARIABLES task,         \* real_start_time of the thread at the address, 0 if there is none
          gen,          \* threads that have been there
          pc, depth,    \* where the thread is; functions of the targets it is in
          thread_table, shadow_table,
          retired,      \* buckets given to call_rcu(): their readers, and the grace period
          gc,           \* gc_timer_fn(): where it is, and the threads it has visited
          pending, gc_timer_repeat,     \* the timer
          session,      \* from kedr_thread_handling_start() to the end of ..._stop()
          known,        \* kedr_known_irq_thread, kedr_known_swapper_thread
          last          \* ghost: the last event of the thread ID and its real_start_time

tasks == <<task, gen>>
timer == <<pending, gc_timer_repeat>>
vars == <<tasks, pc, depth, thread_table, shadow_table, retired, gc, timer, session, known, last>>

Item(a) == [tid |-> a, start |-> task[a]]
Empty == [b \in Buckets |-> <<>>]
NoGc == [step |-> "idle", seen |-> {}, i |-> {}]
Event(e, start) == [event |-> e, start |-> start]

Reading(a) == pc[a] \in {"read_new", "read_known"}
Readers == {a \in Tasks : Reading(a)}
upd_lock_free == gc.step \notin {"mark", "sweep"}

-----------------------------------------------------------------------------
(* Threads come and go; one ends outside of the targets.                    *)

TaskStarts(a) ==
    /\ task[a] = 0 /\ gen[a] < MaxGen
    /\ gen' = [gen EXCEPT ![a] = @ + 1]
    /\ task' = [task EXCEPT ![a] = gen[a] + 1]
    /\ UNCHANGED <<pc, depth, thread_table, shadow_table, retired, gc, timer, session, known, last>>

TaskEnds(a) ==
    /\ task[a] # 0 /\ pc[a] = "out"
    /\ task' = [task EXCEPT ![a] = 0]
    /\ UNCHANGED <<gen, pc, depth, thread_table, shadow_table, retired, gc, timer, session, known, last>>

-----------------------------------------------------------------------------
(* kedr_on_function_entry(), kedr_on_function_exit().                       *)

\* Mutant: an ID that is in the table is taken for the same thread.
KnownById(a) == \E i \in DOMAIN thread_table[hash_long[a]] : thread_table[hash_long[a]][i].tid = a

\* The first item with the ID of the thread is for this thread.
IsKnown(a) ==
    LET bucket == thread_table[hash_long[a]]
        found == {i \in DOMAIN bucket : bucket[i].tid = a}
    IN  \E i \in found : (\A j \in found : i <= j) /\ bucket[i].start = task[a]

\* kedr_thread_handle_changes(), in the RCU read-side section.
kedr_thread_handle_changes(a) ==
    /\ session = "on" /\ task[a] # 0 /\ depth[a] < MaxDepth /\ pc[a] \in {"out", "inside"}
    /\ pc' = [pc EXCEPT ![a] = IF IsKnown(a) THEN "read_known" ELSE "read_new"]
    /\ UNCHANGED <<tasks, depth, thread_table, shadow_table, retired, gc, timer, session, known, last>>

\* rcu_read_unlock(): the old buckets do not wait for this reader any more.
Unlocked(a) ==
    retired' = {[readers |-> r.readers \ {a}, waits |-> r.waits \ {a}, freed |-> r.freed] :
                r \in {x \in retired : ~(x.freed /\ x.readers \ {a} = {})}}

\* The thread is known: the function is entered and reported.
EnterKnown(a) ==
    /\ pc[a] = "read_known"
    /\ pc' = [pc EXCEPT ![a] = "inside"] /\ depth' = [depth EXCEPT ![a] = @ + 1]
    /\ Unlocked(a)
    /\ UNCHANGED <<tasks, thread_table, shadow_table, gc, timer, session, known, last>>

ReadUnlock(a) ==
    /\ pc[a] = "read_new"
    /\ pc' = [pc EXCEPT ![a] = "add"]
    /\ Unlocked(a)
    /\ UNCHANGED <<tasks, depth, thread_table, shadow_table, gc, timer, session, known, last>>

\* Mutant: the old bucket is freed at once.
FreeNow(b) ==
    LET readers == {a \in Readers : hash_long[a] = b} \ UNION {r.readers : r \in retired}
    IN  IF thread_table[b] = <<>> THEN retired
        ELSE retired \cup {[readers |-> readers, waits |-> {}, freed |-> readers # {}]}

\* call_rcu(): a grace period for those who are reading, whatever they read.
call_rcu(b) ==
    LET readers == {a \in Readers : hash_long[a] = b} \ UNION {r.readers : r \in retired}
    IN  IF thread_table[b] = <<>> THEN retired
        ELSE retired \cup {[readers |-> readers, waits |-> Readers, freed |-> FALSE]}

\* An item with the ID of the thread is met before the last one is copied.
StaleBeforeOthers(b, a) ==
    \E i \in DOMAIN thread_table[b] : thread_table[b][i].tid = a /\ i < Len(thread_table[b])

\* create_new_bucket(): the item of the thread comes first; those with its ID go.
create_new_bucket(b, a) ==
    <<Item(a)>> \o SelectSeq(thread_table[b], LAMBDA item : item.tid # a)

\* add_thread_info(), with upd_lock held; kedr_on_function_entry() goes on.
add_thread_info(a) ==
    LET b == hash_long[a] IN
    /\ pc[a] = "add" /\ upd_lock_free
    /\ thread_table' = [thread_table EXCEPT ![b] = create_new_bucket(b, a)]
    /\ last' = [last EXCEPT ![a] = Event("start", task[a])]
    /\ retired' = call_rcu(b)
    /\ pc' = [pc EXCEPT ![a] = "inside"] /\ depth' = [depth EXCEPT ![a] = @ + 1]
    /\ UNCHANGED <<tasks, shadow_table, gc, timer, session, known>>

\* There is not enough memory: before or after "thread end" was reported for an old
\* thread with this ID.  The function is executed without being processed.
AddFails(a) ==
    /\ MayFail /\ pc[a] = "add" /\ upd_lock_free
    /\ \/ UNCHANGED last
       \/ /\ StaleBeforeOthers(hash_long[a], a)
          /\ last' = [last EXCEPT ![a] = Event("end", last[a].start)]
    /\ pc' = [pc EXCEPT ![a] = IF depth[a] = 0 THEN "out" ELSE "inside"]
    /\ UNCHANGED <<tasks, depth, thread_table, shadow_table, retired, gc, timer, session, known>>

kedr_on_function_exit(a) ==
    /\ pc[a] = "inside"
    /\ depth' = [depth EXCEPT ![a] = @ - 1]
    /\ pc' = [pc EXCEPT ![a] = IF depth[a] = 1 THEN "out" ELSE "inside"]
    /\ UNCHANGED <<tasks, thread_table, shadow_table, retired, gc, timer, session, known, last>>

\* thread_handle_changes_irq(), thread_handle_changes_swapper()
PseudoEnters(k) ==
    /\ session = "on" /\ ~known[k]
    /\ known' = [known EXCEPT ![k] = TRUE]
    /\ last' = [last EXCEPT ![k] = Event("start", 0)]
    /\ UNCHANGED <<tasks, pc, depth, thread_table, shadow_table, retired, gc, timer, session>>

\* The grace period of a bucket is over: reclaim_bucket().
reclaim_bucket(r) ==
    /\ r.waits = {} /\ ~r.freed
    /\ retired' = (retired \ {r}) \cup (IF r.readers = {} THEN {} ELSE {[r EXCEPT !.freed = TRUE]})
    /\ UNCHANGED <<tasks, pc, depth, thread_table, shadow_table, gc, timer, session, known, last>>

-----------------------------------------------------------------------------
(* gc_timer_fn().                                                           *)

\* The timer fires: upd_lock is taken and copy_thread_table() copies the table, with
\* every item "dead".
GcStarts ==
    /\ pending /\ gc.step = "idle"
    /\ pending' = FALSE
    /\ gc' = [step |-> "mark", seen |-> {}, i |-> {}]
    /\ shadow_table' = [b \in Buckets |->
            [i \in DOMAIN thread_table[b] |-> [item |-> thread_table[b][i], live |-> FALSE]]]
    /\ UNCHANGED <<tasks, pc, depth, thread_table, retired, gc_timer_repeat, session, known, last>>

\* The copying fails.
CopyFails ==
    /\ MayFail /\ pending /\ gc.step = "idle" /\ thread_table # Empty
    /\ pending' = FALSE
    /\ gc' = [NoGc EXCEPT !.step = "repeat"]
    /\ UNCHANGED <<tasks, pc, depth, thread_table, shadow_table, retired, gc_timer_repeat, session,
                   known, last>>

\* Mutant: only the ID is compared.
is_same_id(a, item) == item.tid = a

is_same_thread(a, item) == item.tid = a /\ item.start = task[a]

\* do_each_thread(): a thread that is there all the time is met.
GcMarks(a) ==
    /\ gc.step = "mark" /\ a \notin gc.seen
    /\ gc' = [gc EXCEPT !.seen = @ \cup {a}]
    /\ shadow_table' = IF task[a] = 0 THEN shadow_table
         ELSE [shadow_table EXCEPT ![hash_long[a]] =
                 [i \in DOMAIN @ |-> [@[i] EXCEPT !.live = @ \/ is_same_thread(a, shadow_table[hash_long[a]][i].item)]]]
    /\ UNCHANGED <<tasks, pc, depth, thread_table, retired, timer, session, known, last>>

GcMarked ==
    /\ gc.step = "mark" /\ gc.seen = Tasks
    /\ gc' = [gc EXCEPT !.step = "sweep", !.i = Buckets]
    /\ UNCHANGED <<tasks, pc, depth, thread_table, shadow_table, retired, timer, session, known, last>>

Dead(b) == {i \in DOMAIN shadow_table[b] : ~shadow_table[b][i].live}
LiveItems(b) ==
    LET live == SelectSeq(shadow_table[b], LAMBDA e : e.live)
    IN  [i \in DOMAIN live |-> live[i].item]

\* remove_dead_items() reports the end of the threads.
Ended(b) ==
    [k \in DOMAIN last |->
        IF \E i \in Dead(b) : shadow_table[b][i].item.tid = k
        THEN Event("end", last[k].start) ELSE last[k]]

\* A bucket without dead items stays as it is, another one is replaced.
GcSweeps(b) ==
    /\ gc.step = "sweep" /\ b \in gc.i
    /\ gc' = [gc EXCEPT !.i = @ \ {b}]
    /\ last' = Ended(b)
    /\ IF Dead(b) = {} THEN UNCHANGED <<thread_table, retired>>
       ELSE /\ thread_table' = [thread_table EXCEPT ![b] = LiveItems(b)]
            /\ retired' = call_rcu(b)
    /\ UNCHANGED <<tasks, pc, depth, shadow_table, timer, session, known>>

\* The ends have been reported when there is no memory for the RCU callback.
SweepFails(b) ==
    /\ MayFail /\ gc.step = "sweep" /\ b \in gc.i /\ Dead(b) # {}
    /\ gc' = [NoGc EXCEPT !.step = "repeat"]
    /\ last' = Ended(b)
    /\ shadow_table' = Empty
    /\ UNCHANGED <<tasks, pc, depth, thread_table, retired, timer, session, known>>

\* clear_shadow_table(), and upd_lock is released.
GcUnlocks ==
    /\ gc.step = "sweep" /\ gc.i = {}
    /\ gc' = [NoGc EXCEPT !.step = "repeat"] /\ shadow_table' = Empty
    /\ UNCHANGED <<tasks, pc, depth, thread_table, retired, timer, session, known, last>>

\* atomic_dec_and_test() ...
GcMayRepeat ==
    /\ gc.step = "repeat"
    /\ gc_timer_repeat' = gc_timer_repeat - 1
    /\ gc' = [gc EXCEPT !.step = IF gc_timer_repeat' = 0 THEN "rearm" ELSE "idle"]
    /\ UNCHANGED <<tasks, pc, depth, thread_table, shadow_table, retired, pending, session, known, last>>

\* ... atomic_inc() and mod_timer().
GcRearms ==
    /\ gc.step = "rearm"
    /\ gc_timer_repeat' = gc_timer_repeat + 1
    /\ pending' = TRUE /\ gc' = NoGc
    /\ UNCHANGED <<tasks, pc, depth, thread_table, shadow_table, retired, session, known, last>>

-----------------------------------------------------------------------------
(* The session.                                                             *)

kedr_thread_handling_start ==
    /\ session = "off"
    /\ session' = "on"
    /\ known' = [k \in Pseudo |-> FALSE]
    /\ gc_timer_repeat' = 1 /\ pending' = TRUE
    /\ last' = [k \in DOMAIN last |-> Event("none", 0)]
    /\ UNCHANGED <<tasks, pc, depth, thread_table, shadow_table, retired, gc>>

\* kedr_thread_handling_stop(), when the last target is being unloaded and no thread
\* is in it any more: rcu_barrier() ...
StopBarrier ==
    /\ session = "on" /\ \A a \in Tasks : pc[a] = "out"
    /\ session' = "barrier"
    /\ UNCHANGED <<tasks, pc, depth, thread_table, shadow_table, retired, gc, timer, known, last>>

StopRepeat ==
    /\ session = "barrier" /\ retired = {}
    /\ session' = "timer"
    /\ gc_timer_repeat' = gc_timer_repeat - 1
    /\ UNCHANGED <<tasks, pc, depth, thread_table, shadow_table, retired, gc, pending, known, last>>

\* Mutant: del_timer() does not wait for the function.
ClearAtOnce ==
    /\ session = "timer"
    /\ pending' = FALSE /\ thread_table' = Empty /\ session' = "off"
    /\ UNCHANGED <<tasks, pc, depth, shadow_table, retired, gc, gc_timer_repeat, known, last>>

\* ... del_timer_sync(), which waits for the function if it runs, and clear_thread_table().
StopTimer ==
    /\ session = "timer" /\ gc.step = "idle"
    /\ pending' = FALSE /\ thread_table' = Empty /\ session' = "off"
    /\ UNCHANGED <<tasks, pc, depth, shadow_table, retired, gc, gc_timer_repeat, known, last>>

-----------------------------------------------------------------------------
Init ==
    /\ task = [a \in Tasks |-> 0] /\ gen = task
    /\ pc = [a \in Tasks |-> "out"] /\ depth = [a \in Tasks |-> 0]
    /\ thread_table = Empty /\ shadow_table = Empty /\ retired = {} /\ gc = NoGc
    /\ pending = FALSE /\ gc_timer_repeat = 0 /\ session = "off"
    /\ known = [k \in Pseudo |-> FALSE]
    /\ last = [k \in Tasks \cup Pseudo |-> Event("none", 0)]

Gc ==
    \/ GcStarts \/ CopyFails \/ GcMarked \/ GcUnlocks \/ GcMayRepeat \/ GcRearms
    \/ \E a \in Tasks : GcMarks(a)
    \/ \E b \in Buckets : GcSweeps(b) \/ SweepFails(b)

Thread(a) ==
    \/ EnterKnown(a) \/ ReadUnlock(a) \/ add_thread_info(a) \/ AddFails(a)

Stop == StopRepeat \/ StopTimer

Next ==
    \/ \E a \in Tasks : \/ TaskStarts(a) \/ TaskEnds(a) \/ kedr_thread_handle_changes(a)
                        \/ Thread(a) \/ kedr_on_function_exit(a)
    \/ \E k \in Pseudo : PseudoEnters(k)
    \/ \E r \in retired : reclaim_bucket(r)
    \/ Gc \/ kedr_thread_handling_start \/ StopBarrier \/ Stop

Spec == Init /\ [][Next]_vars

\* The timer and its function, RCU and the threads in the handlers make progress, and
\* the memory to copy the table is there from time to time.
FairSpec ==
    /\ Spec /\ WF_vars(Gc) /\ SF_vars(GcStarts) /\ WF_vars(Stop)
    /\ WF_vars(\E r \in retired : reclaim_bucket(r))
    /\ \A a \in Tasks : WF_vars(EnterKnown(a)) /\ WF_vars(ReadUnlock(a))

-----------------------------------------------------------------------------
\* A thread in a function of a target has been reported to have started and not to have
\* ended, though its ID may have been that of another thread: "This event is generated
\* only if the core is sure the thread has ended".
KnownWhileInside ==
    \A a \in Tasks : depth[a] > 0 => last[a] = Event("start", task[a])

\* No thread is reading a bucket of the thread table that has been freed.
NoFreedBucket == \A r \in retired : ~r.freed

\* After kedr_thread_handling_stop() the timer function neither runs nor is going to,
\* whatever it was doing meanwhile, and the table is empty.
StoppedQuiet == session = "off" => ~pending /\ gc.step = "idle" /\ thread_table = Empty

\* The end of a thread that was in a target is noticed while the session lasts.
EndNoticed ==
    \A a \in Tasks :
        (last[a].event = "start" /\ task[a] # last[a].start)
            ~> (last[a].event = "end" \/ task[a] = last[a].start \/ session # "on")

\* "Wait until all our RCU callbacks have completed": none is left after the stop.
NoCallbackLeft == session = "off" => retired = {}
=============================================================================
