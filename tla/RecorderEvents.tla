--------------------------- MODULE RecorderEvents ---------------------------
(****************************************************************************)
(* The event handlers of the simple trace recorder: what each of them puts  *)
(* in the buffer B0.  A record takes one slot of B0.  Flushing B0 only      *)
(* resets b0_data_size, so a slot keeps the bytes of an older record until  *)
(* they are overwritten: the masks of a record are modelled as bit sets     *)
(* that a record of another type leaves in any state.  The pre and post     *)
(* variants of an event, and lock, unlock, signal and wait, differ in the   *)
(* event type only.                                                         *)
(****************************************************************************)
EXTENDS Integers, Sequences

CONSTANTS Tids,             \* the threads
          NSlots,           \* the size of B0
          MaxOps,           \* bound: memory accesses in a block (32 in the code)
          NoCallEvents      \* the parameter no_call_events

ASSUME EventsAssumptions == NSlots \in Nat \ {0} /\ MaxOps \in Nat \ {0} /\ NoCallEvents \in BOOLEAN

MemTypes == {"MREAD", "MWRITE", "MUPDATE"}
Bits == 0 .. MaxOps - 1
Reads(type) == type \in {"MREAD", "MUPDATE"}
Writes(type) == type \in {"MWRITE", "MUPDATE"}

VARIABLES b0,           \* the slots of B0
          b0_used,      \* how many of them hold a record (b0_data_size)
          ev,           \* the structure begin_memory_events() gave to a thread
          todo,         \* accesses of its block the thread has still to report
          at            \* what the thread is doing

evars == <<b0, b0_used, ev, todo, at>>

NULL == [nr |-> -1, read |-> {}, write |-> {}, ops |-> <<>>]
Zeroed == [nr |-> 0, read |-> {}, write |-> {}, ops |-> <<>>]
Slot(type, tid, m) == [type |-> type, tid |-> tid, nr |-> m.nr, read |-> m.read,
                       write |-> m.write, ops |-> m.ops]

\* The slot the next record goes to, after compress_b0_to_output() if B0 is full.
Pos == IF b0_used < NSlots THEN b0_used + 1 ELSE 1

Store(slot) ==
    /\ b0' = [b0 EXCEPT ![Pos] = slot]
    /\ b0_used' = Pos

\* A record without masks: the bytes where masks may be are whatever they are.
StorePlain(type, tid) ==
    \E r, x \in SUBSET Bits : Store(Slot(type, tid, [nr |-> 0, read |-> r, write |-> x, ops |-> <<>>]))

-----------------------------------------------------------------------------
handle_load_unload_impl ==
    /\ StorePlain("TARGET", "none")
    /\ UNCHANGED <<ev, todo, at>>

\* Function entry and exit, and calls, are recorded unless no_call_events is set.
Plain(t, et) ==
    /\ at[t] = "code"
    /\ StorePlain(et, t)
    /\ UNCHANGED <<ev, todo, at>>

handle_function_event_impl(t) == ~NoCallEvents /\ Plain(t, "FUNC")
handle_call_impl(t) == ~NoCallEvents /\ Plain(t, "CALL")
handle_memory_barrier_impl(t) == Plain(t, "BARRIER")
handle_alloc_free_impl(t) == Plain(t, "ALLOC_FREE")
handle_sync_event_impl(t) == Plain(t, "SYNC")
on_thread_start(t) == Plain(t, "THREAD_START")
on_thread_end(t) == Plain(t, "THREAD_END")

\* kzalloc() may fail; the block is then not recorded.
begin_memory_events(t, num_events) ==
    /\ at[t] = "code"
    /\ at' = [at EXCEPT ![t] = "block"]
    /\ todo' = [todo EXCEPT ![t] = num_events]
    /\ \E e \in {NULL, Zeroed} : ev' = [ev EXCEPT ![t] = e]
    /\ UNCHANGED <<b0, b0_used>>

\* Mutant: an update is recorded as a read.
AddAccessUpdateIsRead(e, type) ==
    [nr |-> e.nr + 1,
     read |-> IF Reads(type) THEN e.read \cup {e.nr} ELSE e.read,
     write |-> IF type = "MWRITE" THEN e.write \cup {e.nr} ELSE e.write,
     ops |-> Append(e.ops, type)]

\* What on_memory_event() does to the structure.
AddAccess(e, type) ==
    [nr |-> e.nr + 1,
     read |-> IF Reads(type) THEN e.read \cup {e.nr} ELSE e.read,
     write |-> IF Writes(type) THEN e.write \cup {e.nr} ELSE e.write,
     ops |-> Append(e.ops, type)]

\* An access that did not happen has a zero address.
on_memory_event(t, addr, type) ==
    /\ at[t] = "block" /\ todo[t] > 0
    /\ todo' = [todo EXCEPT ![t] = todo[t] - 1]
    /\ ev' = [ev EXCEPT ![t] = IF addr = 0 \/ ev[t] = NULL THEN ev[t]
                                                          ELSE AddAccess(ev[t], type)]
    /\ UNCHANGED <<b0, b0_used, at>>

\* end_memory_events() with nothing to record.
EndEmpty(t) ==
    /\ at[t] = "block" /\ todo[t] = 0
    /\ ev[t] = NULL \/ ev[t].nr = 0
    /\ at' = [at EXCEPT ![t] = "code"] /\ ev' = [ev EXCEPT ![t] = NULL]
    /\ UNCHANGED <<b0, b0_used, todo>>

\* Otherwise it reports "block enter" and releases eh_lock ...
report_block_enter_event(t) ==
    /\ at[t] = "block" /\ todo[t] = 0
    /\ ev[t] # NULL /\ ev[t].nr # 0
    /\ StorePlain("BLOCK_ENTER", t)
    /\ at' = [at EXCEPT ![t] = "mem"]
    /\ UNCHANGED <<ev, todo>>

\* ... and then copies the structure to B0.
end_memory_events(t) ==
    /\ at[t] = "mem"
    /\ Store(Slot("MEM", t, ev[t]))
    /\ at' = [at EXCEPT ![t] = "code"] /\ ev' = [ev EXCEPT ![t] = NULL]
    /\ UNCHANGED todo

\* The masks that do not concern the access are not written.
handle_locked_and_io_impl(t, type) ==
    /\ at[t] = "code"
    /\ Store(Slot("MEM_LOCKED_IO", t, [nr |-> 1,
                          read |-> IF Reads(type) THEN {0} ELSE b0[Pos].read,
                          write |-> IF Writes(type) THEN {0} ELSE b0[Pos].write,
                          ops |-> <<type>>]))
    /\ UNCHANGED <<ev, todo, at>>

-----------------------------------------------------------------------------
\* create_b0_buffer() clears B0; b0_data_size is a static variable.
FreshB0 == [i \in 1 .. NSlots |-> Slot("none", "none", Zeroed)]

EventsInit ==
    /\ b0 = FreshB0 /\ b0_used = 0
    /\ ev = [t \in Tids |-> NULL] /\ todo = [t \in Tids |-> 0]
    /\ at = [t \in Tids |-> "code"]

ThreadNext(t) ==
    \/ handle_function_event_impl(t) \/ handle_call_impl(t)
    \/ handle_memory_barrier_impl(t) \/ handle_alloc_free_impl(t)
    \/ handle_sync_event_impl(t) \/ on_thread_start(t) \/ on_thread_end(t)
    \/ \E n \in 1 .. MaxOps : begin_memory_events(t, n)
    \/ \E addr \in {0, 1}, type \in MemTypes : on_memory_event(t, addr, type)
    \/ EndEmpty(t) \/ report_block_enter_event(t) \/ end_memory_events(t)
    \/ \E type \in MemTypes : handle_locked_and_io_impl(t, type)

EventsNext ==
    \/ handle_load_unload_impl
    \/ \E t \in Tids : ThreadNext(t)

-----------------------------------------------------------------------------
(* Properties.                                                              *)

MasksMatch(slot) ==
    /\ slot.read = {k \in Bits : k < slot.nr /\ Reads(slot.ops[k + 1])}
    /\ slot.write = {k \in Bits : k < slot.nr /\ Writes(slot.ops[k + 1])}

\* In a recorded series of memory accesses bit k of read_mask is set if and only
\* if access k was a read or an update, and the same for write_mask: whatever
\* accesses of the block did not happen, and whatever B0 contained before.
MemMasksSound ==
    \A i \in 1 .. b0_used : b0[i].type = "MEM" => b0[i].nr > 0 /\ MasksMatch(b0[i])
=============================================================================
