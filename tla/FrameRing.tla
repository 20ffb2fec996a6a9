----------------------------- MODULE FrameRing -----------------------------
(***************************************************************************)
(* The shared-memory frame ring of the render service                      *)
(* (renderer/service/src/shm.rs, written by finish_bundle of server.rs) and*)
(* its Python consumer (simforge_render/bundles.py).  One writer, the      *)
(* service; one reader, another process that maps the file read-only and   *)
(* takes no lock.                                                          *)
(*                                                                         *)
(* A step is one access to the file; what a process computes between two   *)
(* accesses belongs to the step.  Memory is sequentially consistent.       *)
(*                                                                         *)
(* Abstractions.  The file is an array of cells, read and written whole:   *)
(* the record header is one, the header of a bundle table one, a table     *)
(* entry one, and a payload has some.  CRCs are injective.  A pass of a    *)
(* camera, a lidar and a radar are all frames; frame k of a bundle is of   *)
(* sensor k.  Image sizes and pixel formats are left out.                  *)
(***************************************************************************)
EXTENDS Integers, Sequences, FiniteSets

\* A definition whose comment starts with "Fault:" is not part of the model:
\* PROJECT.json names it as the mutated form of the definition that follows it.

CONSTANTS
  Meta,       \* META_BYTES, in cells
  Capacity,   \* the length of the file, in cells
  Contents,   \* what a frame may show
  Requests,   \* the frames a request may publish: a content and a payload length each
  Ticks,      \* the sim_tick a client may send
  Checks,     \* the reader's verify flags
  MaxJobs     \* bound: requests that publish

ASSUME RingAssumption ==
  /\ Meta \in Nat \ {0} /\ Capacity \in Nat /\ Meta < Capacity
  /\ Requests \subseteq Seq([content : Contents, len : Nat \ {0}]) \ {<<>>}
  /\ Checks \subseteq BOOLEAN /\ MaxJobs \in Nat

VARIABLES
  ring,        \* the cells behind the meta page
  meta_cursor, \* write_cursor_total of the meta page
  pointer,     \* the latest-bundle pointer of the meta page, and its seqlock
  cursor,      \* ShmRing::cursor_total
  w,           \* the writer: where it is, and its local variables
  log,         \* history: every bundle whose table was begun, in order
  jobs,        \* spent against the bound
  r            \* the reader: where it is, and its local variables

vars == <<ring, meta_cursor, pointer, cursor, w, log, jobs, r>>

Usable == Capacity - Meta
Positions == Meta..(Capacity - 1)

-----------------------------------------------------------------------------
(* Cells.                                                                  *)

Blank == [kind |-> "blank"]
HeaderCell(tick, sensor) == [kind |-> "header", tick |-> tick, sensor |-> sensor]
PayloadCell(content) == [kind |-> "payload", content |-> content]
\* The header of a bundle table: its entries_crc is the entries themselves.
TableCell(tick, start, entries) ==
  [kind |-> "table", tick |-> tick, start |-> start, entries |-> entries]
EntryCell(entry) == [kind |-> "entry", entry |-> entry]

Bundle == 0   \* BUNDLE_SENSOR_ID

EntryType == [sensor : Nat, offset : Nat, len : Nat, content : Contents]
Cell == {Blank}
   \cup [kind : {"header"}, tick : Ticks, sensor : Nat]
   \cup [kind : {"payload"}, content : Contents]
   \cup [kind : {"table"}, tick : Ticks, start : Nat, entries : Seq(EntryType)]
   \cup [kind : {"entry"}, entry : EntryType]

Payload(content, len) == [j \in 1..len |-> PayloadCell(content)]
FrameRecord(tick, sensor, f) == <<HeaderCell(tick, sensor)>> \o Payload(f.content, f.len)
TableRecord(tick, start, entries) ==
  <<HeaderCell(tick, Bundle), TableCell(tick, start, entries)>>
    \o [k \in DOMAIN entries |-> EntryCell(entries[k])]

-----------------------------------------------------------------------------
(* The writer.                                                             *)

Idle == [at |-> "idle"]

\* Where a record of n cells goes: it never straddles the end of the file.
StartsAt(c, n) ==
  LET pos == c % Capacity
  IN  IF pos < Meta \/ pos + n > Capacity THEN Meta ELSE pos

\* Fault: a record that goes back to the start keeps its logical position.
ResyncedNever(c, n) == c

\* The cursor moves to the next generation when the record goes back to Meta.
Resynced(c, n) ==
  IF StartsAt(c, n) = Meta /\ c % Capacity # Meta
  THEN ((c \div Capacity) + 1) * Capacity + Meta
  ELSE c

\* ShmRing::publish up to its first write to the file: a record larger than
\* the ring ends the request with an error.
Place(c, job, rec) ==
  IF Len(rec) > Usable
  THEN w' = Idle /\ cursor' = c
  ELSE /\ w' = [job EXCEPT !.at = "write", !.rec = rec, !.phys = StartsAt(c, Len(rec)), !.done = 0]
       /\ cursor' = Resynced(c, Len(rec))

\* A request reaches its first publish: render_bundle, or one that publishes
\* frames and no table (render, encode_jpeg).
Begin(tick, frames, bundle) ==
  /\ w.at = "idle"
  /\ jobs < MaxJobs
  /\ jobs' = jobs + 1
  /\ Place(cursor,
           [at |-> "write", tick |-> tick, frames |-> frames, bundle |-> bundle, start |-> cursor,
            entries |-> <<>>, rec |-> <<>>, phys |-> Meta, done |-> 0, seq0 |-> 0],
           FrameRecord(tick, 1, frames[1]))
  /\ UNCHANGED <<ring, meta_cursor, pointer, log, r>>

\* publish copies the header and the payload.
WriteCell ==
  /\ w.at = "write"
  /\ ring' = [ring EXCEPT ![w.phys + w.done] = w.rec[w.done + 1]]
  /\ w' = [w EXCEPT !.done = @ + 1, !.at = IF w.done + 1 = Len(w.rec) THEN "store" ELSE "write"]
  /\ UNCHANGED <<meta_cursor, pointer, cursor, log, jobs, r>>

\* The table follows the frames: publish_bundle.
IsTable == Len(w.entries) = Len(w.frames)

EntryOf(k) ==
  [sensor |-> k, offset |-> w.phys + 1, len |-> w.frames[k].len, content |-> w.frames[k].content]

\* finish_bundle: a bundle larger than the ring is refused.
Oversize(after) == after - w.start > Usable

\* What follows the k-th frame: the next one, the table, or the answer.
AfterFrame(after, k) ==
  LET job == [w EXCEPT !.entries = Append(@, EntryOf(k))]
      table == TableRecord(w.tick, w.start, job.entries)
  IN  IF k < Len(w.frames)
      THEN Place(after, job, FrameRecord(w.tick, k + 1, w.frames[k + 1])) /\ UNCHANGED log
      ELSE IF ~w.bundle \/ Oversize(after)
      THEN w' = Idle /\ cursor' = after /\ UNCHANGED log
      ELSE /\ Place(after, job, table)
           /\ log' = IF Len(table) > Usable THEN log
                     ELSE Append(log, [tick |-> w.tick, start |-> w.start, entries |-> job.entries,
                                       offset |-> StartsAt(after, Len(table)), len |-> Len(table) - 1])

\* The meta page shows the cursor behind the record.
StoreCursor ==
  /\ w.at = "store"
  /\ LET after == cursor + Len(w.rec)
     IN  /\ meta_cursor' = after
         /\ IF IsTable
            THEN w' = [w EXCEPT !.at = "odd"] /\ cursor' = after /\ UNCHANGED log
            ELSE AfterFrame(after, Len(w.entries) + 1)
  /\ UNCHANGED <<ring, pointer, jobs, r>>

\* The seqlock write: odd, the fields, even.
Flip(from, field, value, to) ==
  /\ w.at = from
  /\ pointer' = [pointer EXCEPT ![field] = value]
  /\ w' = IF to = "idle" THEN Idle ELSE [w EXCEPT !.at = to]
  /\ UNCHANGED <<ring, meta_cursor, cursor, log, jobs, r>>

\* Fault: the sequence stays even while the fields change.
SeqOddSkipped ==
  /\ w.at = "odd"
  /\ w' = [w EXCEPT !.at = "offset", !.seq0 = pointer.seq]
  /\ UNCHANGED <<ring, meta_cursor, pointer, cursor, log, jobs, r>>

SeqOdd ==
  /\ w.at = "odd"
  /\ pointer' = [pointer EXCEPT !.seq = @ + 1]
  /\ w' = [w EXCEPT !.at = "offset", !.seq0 = pointer.seq]
  /\ UNCHANGED <<ring, meta_cursor, cursor, log, jobs, r>>

PutOffset == Flip("offset", "offset", w.phys, "len")
PutLen == Flip("len", "len", Len(w.rec) - 1, "tick")
PutTick == Flip("tick", "tick", w.tick, "even")
SeqEven == Flip("even", "seq", w.seq0 + 2, "idle")

Writer ==
  \/ \E tick \in Ticks, frames \in Requests, bundle \in BOOLEAN : Begin(tick, frames, bundle)
  \/ WriteCell \/ StoreCursor
  \/ SeqOdd \/ PutOffset \/ PutLen \/ PutTick \/ SeqEven

-----------------------------------------------------------------------------
(* The reader.                                                             *)

Resting(last) == [at |-> "idle", last |-> last]
NoTick == 0  \* iter_bundles: last_tick = None

Move(to) == r' = [r EXCEPT !.at = to]
Silent == UNCHANGED <<ring, meta_cursor, pointer, cursor, w, log, jobs>>
\* The call returns without a bundle; the hot loop goes on to the next one.
GiveUp == r' = Resting(r.last)
\* TornBundleError: it ends iter_bundles.
Torn == r' = Resting(IF r.verify THEN r.last ELSE NoTick)

Call(verify) ==
  [at |-> "offset", last |-> r.last, verify |-> verify, s1 |-> 0, offset |-> 0, len |-> 0,
   ptick |-> 0, copy |-> <<>>, bundle |-> Blank, got |-> <<>>, cells |-> <<>>]

\* _pointer: the sequence must be even and not 0, and the same afterwards.
ReadSeq(verify) ==
  /\ r.at = "idle"
  /\ pointer.seq # 0 /\ pointer.seq % 2 = 0
  /\ r' = [Call(verify) EXCEPT !.s1 = pointer.seq]
  /\ Silent
ReadOffset == r.at = "offset" /\ r' = [r EXCEPT !.at = "len", !.offset = pointer.offset] /\ Silent
ReadLen == r.at = "len" /\ r' = [r EXCEPT !.at = "tick", !.len = pointer.len] /\ Silent
ReadTick == r.at = "tick" /\ r' = [r EXCEPT !.at = "seq", !.ptick = pointer.tick] /\ Silent

\* iter_bundles, the verify = FALSE caller, takes a new sim_tick only.
ReReadSeq ==
  /\ r.at = "seq"
  /\ IF r.s1 # pointer.seq \/ (~r.verify /\ r.ptick = r.last) THEN GiveUp ELSE Move("table")
  /\ Silent

\* bundle_at: the place of any bundle whose response has been sent.
Locate(k) ==
  /\ r.at = "idle"
  /\ 2 * k <= pointer.seq
  /\ r' = [Call(TRUE) EXCEPT !.at = "table", !.s1 = 2 * k, !.offset = log[k].offset,
                             !.len = log[k].len, !.ptick = log[k].tick]
  /\ Silent

\* The bundle a copied table decodes to: its magic and its CRC are right.
Decodes(copy) ==
  /\ copy[1].kind = "table"
  /\ Len(copy) >= 1 + Len(copy[1].entries)
  /\ \A k \in DOMAIN copy[1].entries : copy[1 + k] = EntryCell(copy[1].entries[k])

\* _decode_bundle: the table is copied cell by cell, then decoded.
ReadTable ==
  /\ r.at = "table"
  /\ LET copy == Append(r.copy, ring[r.offset + 1 + Len(r.copy)])
     IN  IF Len(copy) < r.len
         THEN r' = [r EXCEPT !.copy = copy]
         ELSE IF ~Decodes(copy)
         THEN Torn
         ELSE r' = [r EXCEPT !.at = IF r.verify THEN "header" ELSE "payload",
                             !.copy = <<>>, !.bundle = copy[1],
                             !.last = IF r.verify THEN @ ELSE copy[1].tick]
  /\ Silent

\* The entry whose frame is read next.
Entry == r.bundle.entries[Len(r.got) + 1]

\* Bundle.verify: the record header names the tick and the sensor ...
CheckHeader ==
  /\ r.at = "header"
  /\ IF ring[Entry.offset - 1] = HeaderCell(r.bundle.tick, Entry.sensor) THEN Move("payload") ELSE Torn
  /\ Silent

\* Fault: the digests are not compared.
DigestIgnored(cells) == TRUE

\* ... and the payload has the digest of the entry.
DigestMatches(cells) == cells = Payload(Entry.content, Entry.len)

\* The reader looks at the next cell of a frame: verify, or the consumer.
ReadPayload ==
  /\ r.at = "payload"
  /\ LET cells == Append(r.cells, ring[Entry.offset + Len(r.cells)])
         got == Append(r.got, cells)
     IN  IF Len(cells) < Entry.len
         THEN r' = [r EXCEPT !.cells = cells]
         ELSE IF r.verify /\ ~DigestMatches(cells)
         THEN Torn
         ELSE r' = [r EXCEPT !.cells = <<>>, !.got = got,
                      !.at = IF Len(got) = Len(r.bundle.entries) THEN "valid"
                             ELSE IF r.verify THEN "header" ELSE "payload"]
  /\ Silent

\* Bundle.still_valid
Valid(start) == meta_cursor - start <= Usable

StillValid ==
  /\ r.at = "valid"
  /\ IF Valid(r.bundle.start) THEN Move("delivered") ELSE GiveUp
  /\ Silent

\* The consumer is done with the bundle.
Release == r.at = "delivered" /\ GiveUp /\ Silent

Reader ==
  \/ \E verify \in Checks : ReadSeq(verify)
  \/ ReadOffset \/ ReadLen \/ ReadTick \/ ReReadSeq
  \/ TRUE \in Checks /\ \E k \in DOMAIN log : Locate(k)
  \/ ReadTable \/ CheckHeader \/ ReadPayload \/ StillValid \/ Release

-----------------------------------------------------------------------------

Init ==
  /\ ring = [p \in Positions |-> Blank]
  /\ meta_cursor = 0 /\ cursor = Meta
  /\ pointer = [seq |-> 0, offset |-> 0, len |-> 0, tick |-> 0]
  /\ w = Idle
  /\ log = <<>> /\ jobs = 0
  /\ r = Resting(NoTick)

Next == Writer \/ Reader

Spec == Init /\ [][Next]_vars

-----------------------------------------------------------------------------
(* Properties.                                                             *)

\* The types of the meta page, the cursor and the log; a record being written
\* lies inside the file.
TypeOK ==
  /\ ring \in [Positions -> Cell]
  /\ cursor \in Nat /\ meta_cursor \in Nat /\ meta_cursor <= cursor
  /\ pointer \in [seq : Nat, offset : Nat, len : Nat, tick : Ticks \cup {0}]
  /\ w.at \in {"write", "store"} =>
       w.phys \in Positions /\ w.phys + Len(w.rec) - 1 \in Positions /\ w.done \in 0..Len(w.rec)
  /\ \A k \in DOMAIN log : log[k].offset \in Positions /\ log[k].offset + log[k].len \in Positions

\* No record is half written: what the cursor of the meta page covers is all
\* that has been written.
BetweenRecords == w.at \in {"write", "store"} => w.at = "write" /\ w.done = 0

\* Every cell of a bundle is in the ring as it was written.
InRing(offset, cells) == \A j \in DOMAIN cells : ring[offset + j - 1] = cells[j]
Whole(b) ==
  /\ InRing(b.offset, TableRecord(b.tick, b.start, b.entries))
  /\ \A k \in DOMAIN b.entries :
       LET e == b.entries[k] IN InRing(e.offset - 1, FrameRecord(b.tick, e.sensor, e))

\* The last bundle of the log is complete once its table is.
Complete(k) == k < Len(log) \/ w.at \notin {"write", "store"} \/ ~IsTable

\* still_valid tells the truth between two records: whatever the sizes of the
\* records and wherever they wrap, a bundle whose start_cursor is within the
\* usable bytes of the write cursor has not lost a byte (shm.rs: "once the
\* writer has lapped, the bundle is expired").
ValidIsWhole ==
  BetweenRecords => \A k \in DOMAIN log : Complete(k) /\ Valid(log[k].start) => Whole(log[k])

\* A pointer that passes the seqlock is that of one bundle, and of the newest
\* one when the read began: no interleaving with the writer mixes two of them.
PointerIsOneBundle ==
  r.at = "table" =>
    /\ r.s1 \div 2 \in DOMAIN log
    /\ LET b == log[r.s1 \div 2] IN <<r.offset, r.len, r.ptick>> = <<b.offset, b.len, b.tick>>

\* What was handed to the consumer is, byte for byte, one published bundle with
\* its own tick.
HandsOverOneBundle ==
  \E k \in DOMAIN log :
    /\ r.bundle.tick = log[k].tick
    /\ r.got = [e \in DOMAIN log[k].entries |-> Payload(log[k].entries[e].content, log[k].entries[e].len)]

\* verify = TRUE never hands over a torn bundle, one mixed of two ticks or one of
\* another tick, whatever the writer overwrites during the read.
VerifiedIsPublished == r.at = "delivered" /\ r.verify => HandsOverOneBundle
=============================================================================
