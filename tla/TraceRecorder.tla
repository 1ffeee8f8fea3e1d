---------------------------- MODULE TraceRecorder ----------------------------
(****************************************************************************)
(* The simple trace recorder: its kernel part stores the events it gets     *)
(* from the core in the buffer B0, compresses B0 when it is full and copies *)
(* the result to the output buffer (B2), a ring of 2^N pages shared with    *)
(* the user space part, which saves the records to a file.                  *)
(*                                                                          *)
(* Sizes are in abstract units, HdrSize of them for an event header.  A     *)
(* unit of the output buffer holds the record it belongs to and its offset  *)
(* in that record.                                                          *)
(****************************************************************************)
EXTENDS Integers, Sequences, SequencesExt, FiniteSetsExt

CONSTANTS PageSize, NrDataPages, B0Pages, NotifyMark,
          HdrSize,          \* sizeof(struct kedr_tr_event_header)
          EvSizes,          \* the sizes of the events stored in B0
          CompHdr,          \* sizeof(struct kedr_tr_event_compressed) - 1
          CompSizes,        \* the sizes LZO1X may compress B0 to
          MaxLost,          \* bound: events counted as lost
          MaxSessions,      \* bound: sessions
          MayDie            \* TRUE: the user space part may be killed

ASSUME RecorderAssumptions ==
    /\ PageSize \in Nat \ {0} /\ NrDataPages \in Nat \ {0}
    /\ NrDataPages >= 2 * B0Pages /\ B0Pages \in Nat \ {0}
    /\ NotifyMark \in 1 .. NrDataPages
    /\ HdrSize \in 1 .. PageSize /\ CompHdr \in Nat /\ CompHdr >= HdrSize
    /\ EvSizes \subseteq 1 .. (B0Pages * PageSize)
    /\ CompSizes \subseteq Nat \ {0}
    /\ \A c \in CompSizes : CompHdr + c < NrDataPages * PageSize
    /\ MaxLost \in Nat /\ MaxSessions \in Nat /\ MayDie \in BOOLEAN

buffer_size == NrDataPages * PageSize

VARIABLES read_pos, write_pos,      \* the first page of the output buffer
          buf,                      \* its data pages
          b0_data_size, cached_events_num, events_lost, signal_on_next_poll,
          w,                        \* the holder of eh_lock
          sessions, sess,           \* sessions started; is one in progress?
          reader, rp, wp, done,     \* the user space part
          inflight,                 \* ghost: the records written, not yet read
          scanned,                  \* ghost: how many of them the reader took
          balance                   \* ghost: events neither saved nor forgotten

ring == <<read_pos, write_pos, buf>>
cache == <<b0_data_size, cached_events_num>>
user == <<rp, wp, done, scanned>>
vars == <<ring, cache, events_lost, signal_on_next_poll, w, sessions, sess, reader,
          user, inflight, balance>>

\* A record of the output buffer: n is the number of events in it.
Record(t, s, n) == [type |-> t, size |-> s, n |-> n]
NoRecord == Record("none", 0, 0)
\* eh_lock is held at step 'at'; 'size' is the event that waits for room in B0,
\* 'et' the session event to write, 'rec' the record being written, of which
\* 'left' units are left, at position wp; rp is the read position it relied on.
Free == [at |-> "free", size |-> 0, et |-> "none", wp |-> 0, rp |-> 0, left |-> 0,
         rec |-> NoRecord]

-----------------------------------------------------------------------------
(* Positions in the output buffer.                                          *)

Mask(p) == p % buffer_size
enough_data_available(p, r) == Mask(p - r) >= NotifyMark * PageSize
buffer_has_space(p, r, size) == Mask(p + size - r) >= Mask(p - r)
\* Mutant: what B0 already holds is not subtracted.
B0SpaceIgnoresData(size) == B0Pages * PageSize >= size
b0_buffer_has_space(size) == B0Pages * PageSize - b0_data_size >= size
fits_to_page(p, size) == (p % PageSize) + size <= PageSize
to_next_page(p) == ((p + PageSize) \div PageSize) * PageSize

\* 'size' units of record rec, from its unit 'from' on, written at position p.
Written(b, p, rec, from, size) ==
    [u \in DOMAIN b |-> LET d == Mask(u - p)
                        IN  IF d < size THEN [rec |-> rec, at |-> from + d] ELSE b[u]]

\* notify_reader(): the reader sleeping in poll() looks again.
Woken == IF reader = "asleep" THEN "poll" ELSE reader

\* Mutant: the new position is published without a notification.
set_write_pos_only(p, r) == write_pos' = p /\ UNCHANGED reader

\* set_write_pos_and_notify()
set_write_pos_and_notify(p, r) ==
    /\ write_pos' = p
    /\ reader' = IF enough_data_available(p, r) THEN Woken ELSE reader

-----------------------------------------------------------------------------
(* The kernel part, with eh_lock held.                                      *)

\* An event goes to B0.
StoreInB0(size) ==
    /\ b0_data_size' = b0_data_size + size
    /\ cached_events_num' = cached_events_num + 1
    /\ w' = Free

\* An event other than "session start" and "session end".
HandleEvent(size) ==
    /\ w = Free /\ sess /\ events_lost + cached_events_num < MaxLost
    /\ balance' = balance + 1
    /\ IF b0_buffer_has_space(size)
       THEN StoreInB0(size)
       ELSE w' = [Free EXCEPT !.at = "compress", !.size = size] /\ UNCHANGED cache
    /\ UNCHANGED <<ring, events_lost, signal_on_next_poll, sessions, sess, reader, user,
                   inflight>>

\* handle_session_event_impl(KEDR_TR_EVENT_SESSION_START), up to the writing.
on_session_start ==
    /\ w = Free /\ ~sess /\ sessions < MaxSessions
    /\ sess' = TRUE /\ sessions' = sessions + 1
    /\ events_lost' = 0 /\ balance' = balance - events_lost + 1
    /\ w' = [Free EXCEPT !.at = "session", !.et = "start"]
    /\ UNCHANGED <<ring, cache, signal_on_next_poll, reader, user, inflight>>

\* ... and KEDR_TR_EVENT_SESSION_END: B0 is flushed first.
on_session_end ==
    /\ w = Free /\ sess
    /\ sess' = FALSE /\ balance' = balance + 1
    /\ w' = [Free EXCEPT !.at = IF cached_events_num # 0 THEN "compress" ELSE "session",
                         !.et = "end"]
    /\ UNCHANGED <<ring, cache, events_lost, signal_on_next_poll, sessions, reader, user,
                   inflight>>

\* Mutant: the space is not checked again after the skip to the next page.
CompressUnchecked(nbytes) ==
    LET p == IF fits_to_page(write_pos, HdrSize) THEN write_pos
                                                 ELSE to_next_page(write_pos)
    IN  /\ b0_data_size' = 0
        /\ IF nbytes = 0 \/ ~buffer_has_space(write_pos, read_pos, nbytes)
           THEN /\ events_lost' = events_lost + cached_events_num
                /\ cached_events_num' = 0
                /\ w' = [w EXCEPT !.at = "after"]
           ELSE /\ w' = [w EXCEPT !.at = "copy", !.wp = p, !.rp = read_pos, !.left = nbytes,
                                  !.rec = Record("compressed", nbytes, cached_events_num)]
                /\ UNCHANGED <<events_lost, cached_events_num>>

\* Mutant: B0 lost counts as one lost event.
CompressLosesOne(nbytes) ==
    /\ nbytes = 0
    /\ b0_data_size' = 0 /\ cached_events_num' = 0
    /\ events_lost' = events_lost + 1
    /\ w' = [w EXCEPT !.at = "after"]

\* compress_b0_to_output(): nbytes is the size of the compressed event, 0 when
\* the compressor fails.
CompressTo(nbytes) ==
    LET p == IF fits_to_page(write_pos, HdrSize) THEN write_pos
                                                 ELSE to_next_page(write_pos)
    IN  /\ b0_data_size' = 0
        /\ IF \/ nbytes = 0 \/ ~buffer_has_space(write_pos, read_pos, nbytes)
              \/ ~buffer_has_space(p, read_pos, nbytes)
           THEN /\ events_lost' = events_lost + cached_events_num
                /\ cached_events_num' = 0
                /\ w' = [w EXCEPT !.at = "after"]
           ELSE /\ w' = [w EXCEPT !.at = "copy", !.wp = p, !.rp = read_pos, !.left = nbytes,
                                  !.rec = Record("compressed", nbytes, cached_events_num)]
                /\ UNCHANGED <<events_lost, cached_events_num>>

compress_b0_to_output ==
    /\ w.at = "compress"
    /\ \E nbytes \in {0} \cup {CompHdr + c : c \in CompSizes} : CompressTo(nbytes)
    /\ UNCHANGED <<ring, signal_on_next_poll, sessions, sess, reader, user, inflight,
                   balance>>

\* One pass of the loop that copies B1 to the output buffer page by page.
CopyPage ==
    /\ w.at = "copy" /\ w.left # 0
    /\ LET avail == to_next_page(w.wp) - w.wp
           n == IF w.left > avail THEN avail ELSE w.left
       IN  /\ buf' = Written(buf, w.wp, w.rec, w.rec.size - w.left, n)
           /\ w' = [w EXCEPT !.wp = Mask(w.wp + n), !.left = w.left - n]
    /\ UNCHANGED <<read_pos, write_pos, cache, events_lost, signal_on_next_poll, sessions,
                   sess, reader, user, inflight, balance>>

\* The end of compress_b0_to_output().
PublishCompressed ==
    /\ w.at = "copy" /\ w.left = 0
    /\ cached_events_num' = 0
    /\ set_write_pos_and_notify(w.wp, w.rp)
    /\ inflight' = Append(inflight, w.rec)
    /\ w' = [w EXCEPT !.at = "after"]
    /\ UNCHANGED <<read_pos, buf, b0_data_size, events_lost, signal_on_next_poll, sessions,
                   sess, user, balance>>

\* Back in the caller of compress_b0_to_output().
AfterCompress ==
    /\ w.at = "after"
    /\ IF w.et = "end" THEN w' = [w EXCEPT !.at = "session"] /\ UNCHANGED cache
                        ELSE StoreInB0(w.size)
    /\ UNCHANGED <<ring, events_lost, signal_on_next_poll, sessions, sess, reader, user,
                   inflight, balance>>

\* complete_buffer_page(): what it leaves in the buffer.
complete_buffer_page(p) ==
    IF fits_to_page(p, HdrSize) THEN Written(buf, p, Record("skip", 0, 0), 0, HdrSize)
                                ELSE buf

\* handle_session_event_impl(): record_write_common() and the writing.
WriteSessionRecord ==
    LET size == HdrSize
        same == fits_to_page(write_pos, size)
        p == IF same THEN write_pos ELSE to_next_page(write_pos)
        b == IF same THEN buf ELSE complete_buffer_page(write_pos)
        rec == Record(w.et, size, 1)
    IN  /\ w.at = "session"
        /\ \/ /\ ~buffer_has_space(write_pos, read_pos, size)
              /\ events_lost' = events_lost + 1 /\ w' = Free
              /\ UNCHANGED <<ring, reader>>
           \/ /\ buffer_has_space(write_pos, read_pos, size)
              /\ ~buffer_has_space(p, read_pos, size)
              /\ events_lost' = events_lost + 1 /\ w' = Free
              /\ buf' = b /\ set_write_pos_and_notify(p, read_pos) /\ UNCHANGED read_pos
           \/ /\ buffer_has_space(write_pos, read_pos, size)
              /\ buffer_has_space(p, read_pos, size)
              /\ buf' = Written(b, Mask(p), rec, 0, size)
              /\ w' = [w EXCEPT !.at = "publish", !.wp = Mask(p) + size, !.rp = read_pos,
                                !.rec = rec]
              /\ UNCHANGED <<read_pos, write_pos, events_lost, reader>>
        /\ UNCHANGED <<cache, signal_on_next_poll, sessions, sess, user, inflight, balance>>


\* The end of handle_session_event_impl().
PublishSessionRecord ==
    /\ w.at = "publish"
    /\ write_pos' = w.wp
    /\ reader' = IF w.et = "end" \/ enough_data_available(w.wp, w.rp) THEN Woken ELSE reader
    /\ inflight' = Append(inflight, w.rec)
    /\ signal_on_next_poll' = (w.et = "end")
    /\ w' = Free
    /\ UNCHANGED <<read_pos, buf, cache, events_lost, sessions, sess, user, balance>>

-----------------------------------------------------------------------------
(* The user space part.                                                     *)

kernelvars == <<write_pos, buf, cache, events_lost, w, sessions, sess>>

\* The process is gone, with its local variables and its mapping of the buffer.
Exit == reader' = "off" /\ rp' = 0 /\ wp' = 0 /\ done' = FALSE /\ scanned' = 0

\* main() and save_trace() up to the loop.
ReaderStart ==
    /\ reader = "off"
    /\ reader' = "process"
    /\ UNCHANGED <<kernelvars, read_pos, signal_on_next_poll, user, inflight, balance>>

\* process_data() reads the two positions.
ProcessData ==
    /\ reader = "process"
    /\ reader' = "scan" /\ rp' = read_pos /\ wp' = write_pos /\ scanned' = 0
    /\ UNCHANGED <<kernelvars, read_pos, signal_on_next_poll, done, inflight, balance>>

\* The unit at position p, where the reader expects the header of a record.
At(p) == buf[Mask(p)]

MustSkip(p) == ~fits_to_page(p, HdrSize) \/ At(p).rec.type = "skip"
skip_to_next_page(p) == to_next_page(p)

ScanSkip ==
    /\ reader = "scan" /\ Mask(rp - wp) # 0 /\ MustSkip(rp)
    /\ rp' = skip_to_next_page(rp)
    /\ UNCHANGED <<kernelvars, read_pos, signal_on_next_poll, reader, wp, done, scanned,
                   inflight, balance>>

\* set_read_pos(): the records taken so far are given back to the writer.
set_read_pos(p, k) ==
    /\ read_pos' = p
    /\ inflight' = SubSeq(inflight, k + 1, Len(inflight))
    /\ balance' = balance - FoldFunctionOnSet(+, 0, [i \in 1 .. k |-> inflight[i].n], 1 .. k)

\* One record is saved, or writing it to the file fails.
ScanRecord ==
    /\ reader = "scan" /\ Mask(rp - wp) # 0 /\ ~MustSkip(rp)
    /\ LET rec == At(rp).rec
           p == Mask(rp + rec.size)
       IN  \/ /\ rec.type # "end"
              /\ rp' = p /\ scanned' = scanned + 1
              /\ UNCHANGED <<read_pos, reader, wp, done, inflight, balance>>
           \/ /\ rec.type = "end"
              /\ set_read_pos(p, scanned + 1)
              /\ Exit
           \/ /\ MayDie /\ Exit
              /\ UNCHANGED <<read_pos, inflight, balance>>
    /\ UNCHANGED <<kernelvars, signal_on_next_poll>>

\* Everything up to 'wp' has been saved.
ScanEnd ==
    /\ reader = "scan" /\ Mask(rp - wp) = 0
    /\ set_read_pos(rp, scanned)
    /\ IF done THEN Exit
               ELSE /\ reader' = "poll" /\ rp' = 0 /\ wp' = 0 /\ scanned' = 0
                    /\ UNCHANGED done
    /\ UNCHANGED <<kernelvars, signal_on_next_poll>>

\* buffer_file_poll(), with eh_lock held.
buffer_file_poll ==
    /\ reader = "poll" /\ w = Free
    /\ reader' = IF signal_on_next_poll \/ enough_data_available(write_pos, read_pos)
                 THEN "process" ELSE "asleep"
    /\ signal_on_next_poll' = FALSE
    /\ UNCHANGED <<kernelvars, read_pos, user, inflight, balance>>

\* sig_handler(), SIGINT or SIGTERM; poll() is interrupted if it sleeps.
sig_handler ==
    /\ reader # "off"
    /\ done' = TRUE
    /\ reader' = IF reader = "asleep" THEN "process" ELSE reader
    /\ UNCHANGED <<kernelvars, read_pos, signal_on_next_poll, rp, wp, scanned, inflight,
                   balance>>

\* The user space part is killed.
ReaderKilled ==
    /\ MayDie /\ reader # "off" /\ Exit
    /\ UNCHANGED <<kernelvars, read_pos, signal_on_next_poll, inflight, balance>>

-----------------------------------------------------------------------------
Init ==
    /\ read_pos = 0 /\ write_pos = 0
    /\ buf = [u \in 0 .. buffer_size - 1 |-> [rec |-> NoRecord, at |-> 0]]
    /\ b0_data_size = 0 /\ cached_events_num = 0 /\ events_lost = 0
    /\ signal_on_next_poll = FALSE /\ w = Free /\ sessions = 0 /\ sess = FALSE
    /\ reader = "off" /\ rp = 0 /\ wp = 0 /\ done = FALSE
    /\ inflight = <<>> /\ scanned = 0 /\ balance = 0

Writer == \/ compress_b0_to_output \/ CopyPage \/ PublishCompressed \/ AfterCompress
          \/ WriteSessionRecord \/ PublishSessionRecord
Reader == ProcessData \/ ScanSkip \/ ScanRecord \/ ScanEnd \/ buffer_file_poll

Next ==
    \/ \E size \in EvSizes : HandleEvent(size)
    \/ on_session_start \/ on_session_end
    \/ Writer \/ Reader \/ ReaderStart \/ sig_handler \/ ReaderKilled

Spec == Init /\ [][Next]_vars

\* The holder of eh_lock goes on, and so does the user space part once it runs.
Fairness == WF_vars(Writer) /\ WF_vars(Reader)
FairSpec == Spec /\ Fairness

-----------------------------------------------------------------------------
(* Properties.                                                              *)

Types == {"none", "start", "end", "compressed", "skip"}
Records == [type : Types, size : 0 .. buffer_size, n : 0 .. MaxLost]

\* Every variable keeps its type; write_pos may be buffer_size, which stands for 0.
TypeOK ==
    /\ read_pos \in 0 .. buffer_size /\ write_pos \in 0 .. buffer_size
    /\ buf \in [0 .. buffer_size - 1 -> [rec : Records, at : 0 .. buffer_size]]
    /\ b0_data_size \in 0 .. B0Pages * PageSize
    /\ cached_events_num \in 0 .. MaxLost /\ events_lost \in Nat
    /\ signal_on_next_poll \in BOOLEAN /\ sess \in BOOLEAN /\ done \in BOOLEAN
    /\ w \in [at : {"free", "compress", "copy", "after", "session", "publish"},
              size : {0} \cup EvSizes, et : {"none", "start", "end"},
              wp : 0 .. buffer_size, rp : 0 .. buffer_size, left : 0 .. buffer_size,
              rec : Records]
    /\ sessions \in 0 .. MaxSessions
    /\ reader \in {"off", "process", "scan", "poll", "asleep"}
    /\ rp \in 0 .. buffer_size /\ wp \in 0 .. buffer_size
    /\ inflight \in Seq(Records) /\ scanned \in 0 .. Len(inflight) /\ balance \in Nat

\* Where the reader finds the next record when it is at position p.
Settle(p) == IF MustSkip(p) THEN skip_to_next_page(p) ELSE p

RecordIntact(p, r) ==
    \A d \in 0 .. r.size - 1 : buf[Mask(p + d)] = [rec |-> r, at |-> d]

Walk == FoldLeft(LAMBDA acc, r : [ok |-> acc.ok /\ RecordIntact(Settle(acc.p), r),
                                  p |-> Mask(Settle(acc.p) + r.size)],
                 [ok |-> TRUE, p |-> read_pos], inflight)

\* The output buffer is a queue: walked from read_pos to write_pos the way
\* process_data() does it, it holds exactly the records that were written and
\* not yet read, oldest first, each of them intact - wherever the pages end and
\* the positions wrap, and whatever the writer is copying at that moment.
BufferIsQueue ==
    /\ Walk.ok
    /\ Mask(Walk.p - write_pos) = 0 \/ Mask(Settle(Walk.p) - write_pos) = 0

Pending == (IF w.size # 0 THEN 1 ELSE 0) + (IF w.et # "none" THEN 1 ELSE 0)
Inflight == FoldLeft(LAMBDA sum, r : sum + r.n, 0, inflight)

\* Every event is accounted for exactly once: saved to the file, in the output
\* buffer, in B0, about to be stored, or counted in events_lost.
EventsConserved ==
    balance = events_lost + cached_events_num + Pending + Inflight

\* The reader never sleeps in poll() while there are notify_mark pages to read:
\* no notification is missed between its look at the positions and its sleep.
NotAsleepOnData ==
    (reader = "asleep" /\ w = Free) => ~enough_data_available(write_pos, read_pos)


=============================================================================
