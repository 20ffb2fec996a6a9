-------------------------- MODULE FrameRing_proofs --------------------------
(***************************************************************************)
(* Proofs about FrameRing: for a ring and a meta page of any size, records *)
(* of any length and any number of bundles.                                *)
(***************************************************************************)
EXTENDS FrameRing, SequenceTheorems, TLAPS

(* Where a record lies.  A place of the file is a logical position modulo  *)
(* Capacity.                                                               *)

\* The logical position c is place p of the file.
At(c, p) == \E g \in Nat : c = g * Capacity + p

\* The n cells from place p were written from logical position start on, and
\* before end.
Spans(start, p, n, end) ==
  /\ Meta <= p /\ p + n <= Capacity
  /\ \E c \in Nat : At(c, p) /\ start <= c /\ c + n <= end

\* A record of n cells finds a place in one piece, behind whatever was written.
LEMMA Placement ==
  ASSUME NEW c \in Nat, NEW n \in Nat \ {0}, n <= Usable
  PROVE  /\ StartsAt(c, n) \in Nat /\ Meta <= StartsAt(c, n) /\ StartsAt(c, n) + n <= Capacity
         /\ Resynced(c, n) \in Nat /\ c <= Resynced(c, n)
         /\ At(Resynced(c, n), StartsAt(c, n))
<1>. DEFINE q == c \div Capacity
            m == c % Capacity
<1>1. Capacity \in Nat /\ Meta \in Nat \ {0} /\ Meta < Capacity BY RingAssumption
<1>2. q \in Nat /\ m \in Nat /\ m < Capacity /\ c = q * Capacity + m BY <1>1
<1>3. StartsAt(c, n) = IF m < Meta \/ m + n > Capacity THEN Meta ELSE m BY DEF StartsAt
<1>4. Resynced(c, n) = IF StartsAt(c, n) = Meta /\ m # Meta THEN (q + 1) * Capacity + Meta ELSE c
  BY DEF Resynced
<1>5. q * Capacity \in Nat /\ (q + 1) * Capacity = q * Capacity + Capacity BY <1>1, <1>2
<1>. HIDE DEF q, m
<1>6. CASE StartsAt(c, n) = Meta /\ m # Meta
  <2>1. Resynced(c, n) = (q + 1) * Capacity + Meta BY <1>4, <1>6
  <2>2. At(Resynced(c, n), StartsAt(c, n)) BY <2>1, <1>2, <1>6 DEF At
  <2>. QED BY <2>1, <2>2, <1>1, <1>2, <1>5, <1>6 DEF Usable
<1>7. CASE ~(StartsAt(c, n) = Meta /\ m # Meta)
  <2>1. Resynced(c, n) = c /\ StartsAt(c, n) = m BY <1>3, <1>4, <1>7
  <2>2. At(Resynced(c, n), StartsAt(c, n)) BY <2>1, <1>2 DEF At
  <2>. QED BY <2>1, <2>2, <1>1, <1>2, <1>3, <1>7 DEF Usable
<1>. QED BY <1>6, <1>7

\* Two records that lie within one usable length of each other share no cell.
LEMMA Disjoint ==
  ASSUME NEW c \in Nat, NEW p \in Nat, NEW n \in Nat, At(c, p),
         NEW d \in Nat, NEW q \in Nat, NEW m \in Nat, At(d, q),
         c + n <= d, d + m - c <= Usable,
         NEW i \in Nat, i < n, NEW j \in Nat, j < m
  PROVE  p + i # q + j
<1>1. Capacity \in Nat /\ Meta \in Nat \ {0} /\ Meta < Capacity BY RingAssumption
<1>2. PICK g \in Nat : c = g * Capacity + p BY DEF At
<1>3. PICK h \in Nat : d = h * Capacity + q BY DEF At
<1>. DEFINE gC == g * Capacity
            hC == h * Capacity
<1>4. gC \in Nat /\ hC \in Nat BY <1>1
<1>5. h <= g => hC <= gC BY <1>1
<1>6. h >= g + 1 => hC >= gC + Capacity
  <2>1. h >= g + 1 => h * Capacity >= (g + 1) * Capacity BY <1>1
  <2>2. (g + 1) * Capacity = g * Capacity + Capacity BY <1>1
  <2>. QED BY <2>1, <2>2
<1>7. c = gC + p /\ d = hC + q BY <1>2, <1>3
<1>. HIDE DEF gC, hC
<1>8. SUFFICES ASSUME p + i = q + j PROVE FALSE OBVIOUS
<1>9. (d + j) - (c + i) = hC - gC BY <1>4, <1>7, <1>8
<1>10. 0 < hC - gC /\ hC - gC < Capacity BY <1>1, <1>4, <1>7, <1>9 DEF Usable
<1>. QED BY <1>1, <1>4, <1>5, <1>6, <1>10

-----------------------------------------------------------------------------
(* Records.                                                                *)

\* A frame's record is a header and its payload; it holds no table.
LEMMA FrameRecordFacts ==
  ASSUME NEW tick \in Ticks, NEW sensor \in Nat, NEW f, f.content \in Contents, f.len \in Nat
  PROVE  LET rec == FrameRecord(tick, sensor, f)
         IN  /\ rec \in Seq(Cell) /\ Len(rec) = f.len + 1
             /\ \A j \in DOMAIN rec : rec[j].kind # "table"
<1>. DEFINE h == <<HeaderCell(tick, sensor)>>
            b == Payload(f.content, f.len)
<1>1. HeaderCell(tick, sensor) \in Cell /\ HeaderCell(tick, sensor).kind = "header"
  BY DEF Cell, HeaderCell
<1>2. PayloadCell(f.content) \in Cell /\ PayloadCell(f.content).kind = "payload"
  BY DEF Cell, PayloadCell
<1>3. h \in Seq(Cell) /\ Len(h) = 1 /\ h[1] = HeaderCell(tick, sensor) BY <1>1
<1>4. b \in Seq(Cell) /\ Len(b) = f.len /\ \A j \in 1..f.len : b[j] = PayloadCell(f.content)
  BY <1>2 DEF Payload
<1>. HIDE DEF h, b
<1>5. /\ h \o b \in Seq(Cell) /\ Len(h \o b) = f.len + 1
      /\ \A j \in 1..(f.len + 1) : (h \o b)[j] = IF j <= 1 THEN h[j] ELSE b[j - 1]
  <2>1. /\ h \o b \in Seq(Cell) /\ Len(h \o b) = Len(h) + Len(b)
        /\ \A j \in 1..(Len(h) + Len(b)) : (h \o b)[j] = IF j <= Len(h) THEN h[j] ELSE b[j - Len(h)]
    BY <1>3, <1>4, ConcatProperties, Zenon
  <2>2. Len(h) + Len(b) = f.len + 1 BY <1>3, <1>4
  <2>. QED BY <2>1, <2>2, <1>3
<1>6. \A j \in 1..(f.len + 1) : j <= 1 <=> j = 1 OBVIOUS
<1>7. \A j \in 1..(f.len + 1) : (h \o b)[j].kind # "table"
  <2>. SUFFICES ASSUME NEW j \in 1..(f.len + 1) PROVE (h \o b)[j].kind # "table" OBVIOUS
  <2>1. j = 1 \/ j - 1 \in 1..f.len OBVIOUS
  <2>. QED BY <2>1, <1>1, <1>2, <1>3, <1>4, <1>5, <1>6
<1>. QED BY <1>5, <1>7 DEF FrameRecord, h, b

\* A table's record holds one table, its own.
LEMMA TableRecordFacts ==
  ASSUME NEW tick \in Ticks, NEW start \in Nat, NEW entries \in Seq(EntryType)
  PROVE  LET rec == TableRecord(tick, start, entries)
         IN  /\ rec \in Seq(Cell) /\ Len(rec) = Len(entries) + 2
             /\ \A j \in DOMAIN rec : rec[j].kind = "table" => rec[j] = TableCell(tick, start, entries)
<1>. DEFINE h == <<HeaderCell(tick, Bundle), TableCell(tick, start, entries)>>
            b == [k \in DOMAIN entries |-> EntryCell(entries[k])]
            n == Len(entries)
<1>1. HeaderCell(tick, Bundle) \in Cell /\ HeaderCell(tick, Bundle).kind = "header"
  BY DEF Cell, HeaderCell, Bundle
<1>2. TableCell(tick, start, entries) \in Cell BY DEF Cell, TableCell
<1>3. \A k \in 1..n : EntryCell(entries[k]) \in Cell /\ EntryCell(entries[k]).kind = "entry"
  BY DEF Cell, EntryCell
<1>4. h \in Seq(Cell) /\ Len(h) = 2 /\ h[1] = HeaderCell(tick, Bundle) /\ h[2] = TableCell(tick, start, entries)
  BY <1>1, <1>2
<1>5. b \in Seq(Cell) /\ Len(b) = n /\ \A k \in 1..n : b[k] = EntryCell(entries[k]) BY <1>3
<1>6. n \in Nat OBVIOUS
<1>. HIDE DEF h, b, n
<1>7. /\ h \o b \in Seq(Cell) /\ Len(h \o b) = 2 + n
      /\ \A j \in 1..(2 + n) : (h \o b)[j] = IF j <= 2 THEN h[j] ELSE b[j - 2]
  <2>1. /\ h \o b \in Seq(Cell) /\ Len(h \o b) = Len(h) + Len(b)
        /\ \A j \in 1..(Len(h) + Len(b)) : (h \o b)[j] = IF j <= Len(h) THEN h[j] ELSE b[j - Len(h)]
    BY <1>4, <1>5, ConcatProperties, Zenon
  <2>. QED BY <2>1, <1>4, <1>5
<1>8. 2 + n = n + 2 BY <1>6
<1>9. \A j \in 1..(n + 2) : (h \o b)[j].kind = "table" => (h \o b)[j] = TableCell(tick, start, entries)
  <2>. SUFFICES ASSUME NEW j \in 1..(n + 2), (h \o b)[j].kind = "table"
                PROVE  (h \o b)[j] = TableCell(tick, start, entries)
    OBVIOUS
  <2>1. j = 1 \/ j = 2 \/ j - 2 \in 1..n BY <1>6
  <2>2. j # 1 BY <1>1, <1>4, <1>7, <1>8
  <2>3. j - 2 \notin 1..n BY <1>3, <1>5, <1>6, <1>7, <1>8
  <2>. QED BY <2>1, <2>2, <2>3, <1>4, <1>7, <1>8
<1>. QED BY <1>7, <1>8, <1>9 DEF TableRecord, h, b, n

-----------------------------------------------------------------------------
(* The invariant of the writer.                                            *)

Jobs == [at : {"write", "store", "odd", "offset", "len", "tick", "even"},
         tick : Ticks, frames : Requests, bundle : BOOLEAN, start : Nat, entries : Seq(EntryType),
         rec : Seq(Cell), phys : Nat, done : Nat, seq0 : Nat]
Bundles == [tick : Ticks, start : Nat, entries : Seq(EntryType), offset : Nat, len : Nat]

TypeInv ==
  /\ ring \in [Positions -> Cell]
  /\ cursor \in Nat /\ meta_cursor \in Nat /\ meta_cursor <= cursor
  /\ pointer \in [seq : Nat, offset : Nat, len : Nat, tick : Ticks \cup {NoTick}]
  /\ w = Idle \/ w \in Jobs
  /\ log \in Seq(Bundles)

Writing == w.at \in {"write", "store"}
WritingTable == Writing /\ IsTable
Flipping == w.at \in {"offset", "len", "tick", "even"}

\* The record being written: what it is, where it lies, and how much of it is there.
RecordInv ==
  Writing =>
    /\ w.rec = IF IsTable
               THEN TableRecord(w.tick, w.start, w.entries)
               ELSE FrameRecord(w.tick, Len(w.entries) + 1, w.frames[Len(w.entries) + 1])
    /\ Len(w.entries) <= Len(w.frames)
    /\ w.start <= cursor
    /\ Meta <= w.phys /\ w.phys + Len(w.rec) <= Capacity /\ At(cursor, w.phys)
    /\ IF w.at = "write" THEN w.done < Len(w.rec) ELSE w.done = Len(w.rec)
    /\ \A j \in 1..w.done : ring[w.phys + j - 1] = w.rec[j]

\* The frames a table lists lie in front of the cursor of the meta page.
Placed(start, entries, end) ==
  \A k \in DOMAIN entries :
    entries[k].len > 0 /\ Spans(start, entries[k].offset - 1, entries[k].len + 1, end)

SpansInv ==
  /\ Writing => Placed(w.start, w.entries, meta_cursor)
  /\ \A k \in DOMAIN log :
       /\ log[k].entries # <<>> /\ log[k].len = Len(log[k].entries) + 1
       /\ Meta <= log[k].offset /\ log[k].offset + log[k].len < Capacity
       /\ Placed(log[k].start, log[k].entries, meta_cursor)
       /\ Complete(k) => Spans(log[k].start, log[k].offset, log[k].len + 1, meta_cursor)

\* The newest bundle is the writer's own until its pointer is published.
LatestInv ==
  WritingTable \/ w.at = "odd" \/ Flipping =>
    /\ Len(log) > 0
    /\ log[Len(log)] = [tick |-> w.tick, start |-> w.start, entries |-> w.entries,
                        offset |-> w.phys, len |-> Len(w.rec) - 1]

\* The sequence of the pointer counts the published bundles twice.
SeqInv ==
  /\ pointer.seq = IF Flipping THEN 2 * Len(log) - 1
                   ELSE IF WritingTable \/ w.at = "odd" THEN 2 * Len(log) - 2
                   ELSE 2 * Len(log)
  /\ Flipping => w.seq0 = pointer.seq - 1
  /\ w.at \in {"len", "tick", "even"} => pointer.offset = w.phys
  /\ w.at \in {"tick", "even"} => pointer.len = Len(w.rec) - 1
  /\ w.at = "even" => pointer.tick = w.tick
  /\ \A k \in DOMAIN log : pointer.seq = 2 * k =>
       pointer.offset = log[k].offset /\ pointer.len = log[k].len /\ pointer.tick = log[k].tick

\* How far the file has been written, counting a record begun as written.
Reach == IF Writing /\ w.done > 0 THEN cursor + Len(w.rec) ELSE meta_cursor

Held(f, offset, cells) == \A j \in DOMAIN cells : f[offset + j - 1] = cells[j]
FrameIn(f, tick, e) == Held(f, e.offset - 1, FrameRecord(tick, e.sensor, e))

\* What lies within the usable length of the reach is as it was written.
CellsInv ==
  /\ Writing /\ Reach - w.start <= Usable => \A k \in DOMAIN w.entries : FrameIn(ring, w.tick, w.entries[k])
  /\ \A k \in DOMAIN log : Complete(k) /\ Reach - log[k].start <= Usable => Whole(log[k])

\* A table in the file is that of a bundle of the log.
Listed(cell) ==
  cell.kind = "table" => \E k \in DOMAIN log : cell = TableCell(log[k].tick, log[k].start, log[k].entries)
TablesInv == \A p \in Positions : Listed(ring[p])

WInv == TypeInv /\ RecordInv /\ SpansInv /\ LatestInv /\ SeqInv /\ CellsInv /\ TablesInv

\* What a step of the writer leaves to a reader: the log and the sequence grow.
Grows ==
  /\ \A k \in DOMAIN log : k \in DOMAIN log' /\ log'[k] = log[k]
  /\ pointer.seq <= pointer'.seq

\* A job's request is a sequence of frames with contents and lengths.
LEMMA FrameFacts ==
  ASSUME NEW frames \in Requests
  PROVE  /\ Len(frames) \in Nat \ {0} /\ DOMAIN frames = 1..Len(frames)
         /\ \A k \in 1..Len(frames) : frames[k].content \in Contents /\ frames[k].len \in Nat \ {0}
<1>. DEFINE F == [content : Contents, len : Nat \ {0}]
<1>1. frames \in Seq(F) /\ frames # <<>> BY RingAssumption
<1>2. \A k \in 1..Len(frames) : frames[k] \in F BY <1>1, ElementOfSeq
<1>3. Len(frames) \in Nat \ {0} /\ DOMAIN frames = 1..Len(frames) BY <1>1, EmptySeq, LenProperties
<1>. QED BY <1>2, <1>3

-----------------------------------------------------------------------------
(* The steps of the writer.                                                *)

\* What Place does: it fails, or the record has its place.
PlacedAt(c, job, rec) ==
  \/ Len(rec) > Usable /\ w' = Idle /\ cursor' = c
  \/ /\ Len(rec) <= Usable
     /\ w' = [job EXCEPT !.at = "write", !.rec = rec, !.phys = StartsAt(c, Len(rec)), !.done = 0]
     /\ w' \in Jobs
     /\ cursor' \in Nat /\ c <= cursor'
     /\ StartsAt(c, Len(rec)) \in Nat /\ Meta <= StartsAt(c, Len(rec))
     /\ StartsAt(c, Len(rec)) + Len(rec) <= Capacity /\ At(cursor', StartsAt(c, Len(rec)))

\* ShmRing::publish either refuses the record or finds a place for it.
LEMMA PlaceFacts ==
  ASSUME NEW c \in Nat, NEW job \in Jobs, NEW rec \in Seq(Cell), Len(rec) > 0, Place(c, job, rec)
  PROVE  PlacedAt(c, job, rec)
<1>1. Len(rec) \in Nat \ {0} /\ Usable \in Nat BY RingAssumption DEF Usable
<1>2. CASE Len(rec) > Usable BY <1>2 DEF Place, PlacedAt
<1>3. CASE ~(Len(rec) > Usable)
  <2>1. Len(rec) <= Usable BY <1>1, <1>3
  <2>2. /\ cursor' = Resynced(c, Len(rec))
        /\ w' = [job EXCEPT !.at = "write", !.rec = rec, !.phys = StartsAt(c, Len(rec)), !.done = 0]
    BY <1>3 DEF Place
  <2>3. /\ StartsAt(c, Len(rec)) \in Nat /\ Meta <= StartsAt(c, Len(rec))
        /\ StartsAt(c, Len(rec)) + Len(rec) <= Capacity
        /\ Resynced(c, Len(rec)) \in Nat /\ c <= Resynced(c, Len(rec))
        /\ At(Resynced(c, Len(rec)), StartsAt(c, Len(rec)))
    BY <1>1, <2>1, Placement
  <2>4. w' \in Jobs BY <2>2, <2>3 DEF Jobs
  <2>. QED BY <2>1, <2>2, <2>3, <2>4 DEF PlacedAt
<1>. QED BY <1>2, <1>3

\* Only the seven places of a job are not the idle one.
LEMMA Stages ==
  ASSUME TypeInv
  PROVE  /\ w.at \in {"idle", "write", "store", "odd", "offset", "len", "tick", "even"}
         /\ w.at # "idle" => w \in Jobs
         /\ w.at = "idle" => w = Idle
BY DEF TypeInv, Jobs, Idle

LEMMA BeginKeeps ==
  ASSUME WInv, NEW tick \in Ticks, NEW frames \in Requests, NEW bundle \in BOOLEAN,
         Begin(tick, frames, bundle)
  PROVE  WInv' /\ Grows
<1>. DEFINE job == [at |-> "write", tick |-> tick, frames |-> frames, bundle |-> bundle, start |-> cursor,
                    entries |-> <<>>, rec |-> <<>>, phys |-> Meta, done |-> 0, seq0 |-> 0]
            rec == FrameRecord(tick, 1, frames[1])
<1>1. TypeInv /\ w.at = "idle" /\ Place(cursor, job, rec)
      /\ UNCHANGED <<ring, meta_cursor, pointer, log, r>>
  BY DEF Begin, WInv
<1>2. Len(frames) \in Nat \ {0} /\ frames[1].content \in Contents /\ frames[1].len \in Nat \ {0}
  BY FrameFacts
<1>3. rec \in Seq(Cell) /\ Len(rec) = frames[1].len + 1 BY <1>2, FrameRecordFacts
<1>4. job \in Jobs BY <1>1, RingAssumption DEF Jobs, TypeInv
<1>5. cursor \in Nat /\ meta_cursor \in Nat /\ meta_cursor <= cursor BY <1>1 DEF TypeInv
<1>. HIDE DEF rec, job
<1>6. \/ w' = Idle /\ cursor' = cursor
      \/ /\ w' = [job EXCEPT !.at = "write", !.rec = rec, !.phys = StartsAt(cursor, Len(rec)), !.done = 0]
         /\ w' \in Jobs
         /\ cursor' \in Nat /\ cursor <= cursor'
         /\ StartsAt(cursor, Len(rec)) \in Nat /\ Meta <= StartsAt(cursor, Len(rec))
         /\ StartsAt(cursor, Len(rec)) + Len(rec) <= Capacity /\ At(cursor', StartsAt(cursor, Len(rec)))
  <2>1. Len(rec) > 0 BY <1>2, <1>3
  <2>. QED BY <2>1, <1>1, <1>3, <1>4, <1>5, PlaceFacts DEF PlacedAt
<1>7. \/ w' = Idle
      \/ /\ w'.at = "write" /\ w'.entries = <<>> /\ w'.done = 0 /\ w'.frames = frames
         /\ w'.tick = tick /\ w'.start = cursor /\ w'.rec = rec /\ w'.phys = StartsAt(cursor, Len(rec))
  BY <1>6 DEF job
<1>8. ~Writing /\ ~Flipping /\ w.at # "odd" BY <1>1 DEF Writing, Flipping
<1>9. (w'.at = "write" /\ ~IsTable') \/ w' = Idle BY <1>7, <1>2 DEF IsTable
<1>10. ~WritingTable' /\ ~Flipping' /\ w'.at # "odd" /\ w'.at # "store" BY <1>9 DEF WritingTable, Writing, Flipping, Idle
<1>11. \A k \in DOMAIN log : Complete(k) /\ Complete(k)'
  BY <1>1, <1>8, <1>9 DEF Complete, Writing, Idle
<1>12. Reach = meta_cursor /\ Reach' = meta_cursor
  BY <1>1, <1>7, <1>8 DEF Reach, Writing, Idle
<1>13. TypeInv' BY <1>1, <1>6 DEF TypeInv
<1>14. RecordInv'
  <2>1. CASE w' = Idle BY <2>1 DEF RecordInv, Writing, Idle
  <2>2. CASE w' # Idle
    <3>1. w'.start <= cursor' /\ Meta <= w'.phys /\ w'.phys + Len(w'.rec) <= Capacity /\ At(cursor', w'.phys)
      BY <1>6, <1>7, <2>2
    <3>2. At(cursor, w.phys)' BY <3>1 DEF At
    <3>3. w'.rec = FrameRecord(w'.tick, Len(w'.entries) + 1, w'.frames[Len(w'.entries) + 1])
      BY <1>7, <2>2 DEF rec
    <3>4. Len(w'.entries) = 0 /\ Len(w'.rec) > 0 /\ Len(w'.frames) > 0 BY <1>2, <1>3, <1>7, <2>2
    <3>. QED BY <1>7, <1>9, <2>2, <3>1, <3>2, <3>3, <3>4 DEF RecordInv
  <2>. QED BY <2>1, <2>2
<1>15. SpansInv'
  <2>1. Writing' => Placed(w.start, w.entries, meta_cursor)'
    <3>1. Writing' => w'.entries = <<>> BY <1>7 DEF Writing, Idle
    <3>. QED BY <3>1 DEF Placed
  <2>2. \A k \in DOMAIN log : Placed(log[k].start, log[k].entries, meta_cursor)'
                               = Placed(log[k].start, log[k].entries, meta_cursor)
    BY <1>1 DEF Placed, Spans, At
  <2>. QED BY <1>1, <1>11, <2>1, <2>2 DEF SpansInv, WInv, Spans, At
<1>16. LatestInv' BY <1>10 DEF LatestInv
<1>17. SeqInv' BY <1>1, <1>8, <1>10 DEF SeqInv, WInv, WritingTable, Flipping
<1>18. CellsInv'
  <2>1. Writing' => w'.entries = <<>> BY <1>7 DEF Writing, Idle
  <2>2. \A k \in DOMAIN log : Whole(log[k])' = Whole(log[k]) BY <1>1 DEF Whole, InRing
  <2>. QED BY <1>1, <1>11, <1>12, <2>1, <2>2 DEF CellsInv, WInv
<1>19. TablesInv' BY <1>1 DEF TablesInv, Listed, WInv
<1>20. Grows BY <1>1, <1>5 DEF Grows, TypeInv
<1>. QED BY <1>13, <1>14, <1>15, <1>16, <1>17, <1>18, <1>19, <1>20 DEF WInv

\* A cell that is written belongs to no record that lies within the usable
\* length of the end of the record being written.
LEMMA Untouched ==
  ASSUME TypeInv, RecordInv, WriteCell,
         NEW start \in Nat, NEW p \in Int, NEW cells \in Seq(Cell),
         Spans(start, p, Len(cells), meta_cursor), cursor + Len(w.rec) - start <= Usable,
         InRing(p, cells)
  PROVE  \A j \in DOMAIN cells : ring'[p + j - 1] = cells[j]
<1>1. w \in Jobs /\ w.at = "write" /\ Writing BY Stages DEF WriteCell, Writing
<1>2. ring \in [Positions -> Cell] /\ cursor \in Nat /\ meta_cursor \in Nat /\ meta_cursor <= cursor
  BY DEF TypeInv
<1>3. w.rec \in Seq(Cell) /\ w.phys \in Nat /\ w.done \in Nat /\ w.done < Len(w.rec) /\ At(cursor, w.phys)
  BY <1>1 DEF RecordInv, Jobs
<1>4. Capacity \in Nat /\ Meta \in Nat \ {0} /\ Usable \in Nat BY RingAssumption DEF Usable
<1>5. p \in Nat /\ p + Len(cells) <= Capacity BY <1>4 DEF Spans
<1>6. PICK c \in Nat : At(c, p) /\ start <= c /\ c + Len(cells) <= meta_cursor BY DEF Spans
<1>7. Len(cells) \in Nat /\ Len(w.rec) \in Nat /\ DOMAIN cells = 1..Len(cells) BY <1>3, LenProperties
<1>8. c + Len(cells) <= cursor /\ cursor + Len(w.rec) - c <= Usable BY <1>2, <1>4, <1>6, <1>7
<1>9. SUFFICES ASSUME NEW j \in DOMAIN cells PROVE ring'[p + j - 1] = cells[j] OBVIOUS
<1>10. j - 1 \in Nat /\ j - 1 < Len(cells) BY <1>7
<1>11. p + (j - 1) # w.phys + w.done
  BY <1>2, <1>3, <1>5, <1>6, <1>7, <1>8, <1>10, Disjoint, ZenonT(40)
<1>12. p + j - 1 = p + (j - 1) BY <1>5, <1>10
<1>13. ring' = [ring EXCEPT ![w.phys + w.done] = w.rec[w.done + 1]] BY DEF WriteCell
<1>14. p + j - 1 \in Positions BY <1>4, <1>5, <1>10 DEF Positions, Spans
<1>15. ring'[p + j - 1] = ring[p + j - 1] BY <1>2, <1>11, <1>12, <1>13, <1>14
<1>. QED BY <1>15 DEF InRing

\* A listed frame's record has the length its place has.
LEMMA ListedFrame ==
  ASSUME NEW tick \in Ticks, NEW e \in EntryType
  PROVE  FrameRecord(tick, e.sensor, e) \in Seq(Cell) /\ Len(FrameRecord(tick, e.sensor, e)) = e.len + 1
<1>1. e.sensor \in Nat /\ e.content \in Contents /\ e.len \in Nat BY DEF EntryType
<1>. QED BY <1>1, FrameRecordFacts

\* The record being written is a sequence of cells, and its tables are listed.
LEMMA RecordTables ==
  ASSUME TypeInv, RecordInv, LatestInv, Writing, NEW j \in 1..Len(w.rec)
  PROVE  w.rec[j] \in Cell /\ Listed(w.rec[j])
<1>1. w \in Jobs BY Stages DEF Writing
<1>2. w.rec \in Seq(Cell) /\ w.tick \in Ticks /\ w.start \in Nat /\ w.entries \in Seq(EntryType) /\ w.frames \in Requests
  BY <1>1 DEF Jobs
<1>3. w.rec[j] \in Cell BY <1>2, ElementOfSeq
<1>4. DOMAIN w.rec = 1..Len(w.rec) BY <1>2
<1>5. CASE IsTable
  <2>1. w.rec = TableRecord(w.tick, w.start, w.entries) BY <1>5 DEF RecordInv
  <2>2. w.rec[j].kind = "table" => w.rec[j] = TableCell(w.tick, w.start, w.entries)
    BY <1>2, <1>4, <2>1, TableRecordFacts
  <2>3. /\ Len(log) > 0
        /\ log[Len(log)] = [tick |-> w.tick, start |-> w.start, entries |-> w.entries,
                            offset |-> w.phys, len |-> Len(w.rec) - 1]
    BY <1>5 DEF LatestInv, WritingTable
  <2>4. Len(log) \in DOMAIN log BY <2>3 DEF TypeInv
  <2>5. TableCell(log[Len(log)].tick, log[Len(log)].start, log[Len(log)].entries)
          = TableCell(w.tick, w.start, w.entries)
    BY <2>3
  <2>. QED BY <1>3, <2>2, <2>4, <2>5 DEF Listed
<1>6. CASE ~IsTable
  <2>. DEFINE k == Len(w.entries) + 1
  <2>1. w.rec = FrameRecord(w.tick, k, w.frames[k]) /\ Len(w.entries) <= Len(w.frames)
    BY <1>6 DEF RecordInv
  <2>2. k \in 1..Len(w.frames) BY <1>2, <1>6, <2>1, FrameFacts, LenProperties DEF IsTable
  <2>3. w.frames[k].content \in Contents /\ w.frames[k].len \in Nat BY <1>2, <2>2, FrameFacts
  <2>4. w.rec[j].kind # "table" BY <1>2, <1>4, <2>1, <2>2, <2>3, FrameRecordFacts, SMTT(30)
  <2>. QED BY <1>3, <2>4 DEF Listed
<1>. QED BY <1>5, <1>6

LEMMA WriteCellKeeps ==
  ASSUME WInv, WriteCell
  PROVE  WInv' /\ Grows
<1>1. TypeInv /\ RecordInv /\ SpansInv /\ LatestInv /\ SeqInv /\ CellsInv /\ TablesInv BY DEF WInv
<1>2. w \in Jobs /\ w.at = "write" /\ Writing BY <1>1, Stages DEF WriteCell, Writing
<1>3. w.rec \in Seq(Cell) /\ w.phys \in Nat /\ w.done \in Nat /\ Len(w.rec) \in Nat /\ w.entries \in Seq(EntryType)
      /\ w.tick \in Ticks /\ w.start \in Nat
  BY <1>2, LenProperties DEF Jobs
<1>4. w.done < Len(w.rec) /\ Meta <= w.phys /\ w.phys + Len(w.rec) <= Capacity BY <1>1, <1>2 DEF RecordInv
<1>5. Capacity \in Nat /\ Meta \in Nat \ {0} /\ Usable \in Nat BY RingAssumption DEF Usable
<1>6. ring \in [Positions -> Cell] /\ cursor \in Nat /\ meta_cursor \in Nat /\ meta_cursor <= cursor /\ log \in Seq(Bundles)
  BY <1>1 DEF TypeInv
<1>. DEFINE p == w.phys + w.done
            to == IF w.done + 1 = Len(w.rec) THEN "store" ELSE "write"
<1>7. /\ ring' = [ring EXCEPT ![p] = w.rec[w.done + 1]]
      /\ w' = [w EXCEPT !.done = @ + 1, !.at = to]
      /\ UNCHANGED <<meta_cursor, pointer, cursor, log>>
  BY DEF WriteCell
<1>8. p \in Positions /\ w.done + 1 \in 1..Len(w.rec) BY <1>3, <1>4, <1>5, SMTT(30) DEF Positions
<1>9. w.rec[w.done + 1] \in Cell /\ Listed(w.rec[w.done + 1]) BY <1>1, <1>2, <1>8, RecordTables
<1>10. ring' \in [Positions -> Cell] BY <1>6, <1>7, <1>9
<1>11. /\ ring'[p] = w.rec[w.done + 1]
       /\ \A q \in Positions : q # p => ring'[q] = ring[q]
  BY <1>6, <1>7, <1>8
<1>12. /\ w' \in Jobs /\ w'.at = to /\ w'.done = w.done + 1 /\ to \in {"write", "store"}
       /\ w'.tick = w.tick /\ w'.frames = w.frames /\ w'.start = w.start /\ w'.entries = w.entries
       /\ w'.rec = w.rec /\ w'.phys = w.phys
  <2>1. to \in {"write", "store"} /\ w.done + 1 \in Nat BY <1>3
  <2>. HIDE DEF to
  <2>. QED BY <1>2, <1>3, <1>7, <2>1 DEF Jobs
<1>. HIDE DEF p, to
<1>13. Writing' /\ IsTable' = IsTable /\ ~Flipping /\ ~Flipping' /\ w.at # "odd" /\ w'.at # "odd"
  BY <1>2, <1>12 DEF Writing, IsTable, Flipping
<1>14. \A k \in DOMAIN log : Complete(k)' <=> Complete(k)
  BY <1>2, <1>7, <1>12, <1>13 DEF Complete
<1>15. TypeInv' BY <1>1, <1>7, <1>10, <1>12 DEF TypeInv
<1>16. RecordInv'
  <2>1. /\ Len(w.entries) <= Len(w.frames) /\ w.start <= cursor /\ At(cursor, w.phys)
        /\ w.rec = IF IsTable
                   THEN TableRecord(w.tick, w.start, w.entries)
                   ELSE FrameRecord(w.tick, Len(w.entries) + 1, w.frames[Len(w.entries) + 1])
        /\ \A j \in 1..w.done : ring[w.phys + j - 1] = w.rec[j]
    BY <1>1, <1>2 DEF RecordInv
  <2>2. At(cursor, w.phys)' BY <2>1, <1>7, <1>12 DEF At
  <2>3. IF to = "write" THEN w.done + 1 < Len(w.rec) ELSE w.done + 1 = Len(w.rec)
    BY <1>3, <1>4 DEF to
  <2>4. \A j \in 1..(w.done + 1) : ring'[w.phys + j - 1] = w.rec[j]
    <3>. SUFFICES ASSUME NEW j \in 1..(w.done + 1) PROVE ring'[w.phys + j - 1] = w.rec[j] OBVIOUS
    <3>1. CASE j = w.done + 1
      <4>1. w.phys + j - 1 = p BY <1>3, <3>1 DEF p
      <4>. QED BY <3>1, <4>1, <1>11
    <3>2. CASE j # w.done + 1
      <4>1. j \in 1..w.done /\ w.phys + j - 1 # p
        BY <1>3, <3>2 DEF p
      <4>2. w.phys + j - 1 \in Positions BY <1>3, <1>4, <1>5, <4>1, SMTT(30) DEF Positions
      <4>. QED BY <4>1, <4>2, <1>11, <2>1
    <3>. QED BY <3>1, <3>2
  <2>. QED BY <1>4, <1>7, <1>12, <1>13, <2>1, <2>2, <2>3, <2>4 DEF RecordInv
<1>17. SpansInv' BY <1>1, <1>2, <1>7, <1>12, <1>13, <1>14 DEF SpansInv, Placed, Spans, At
<1>18. LatestInv' BY <1>1, <1>2, <1>7, <1>12, <1>13 DEF LatestInv, WritingTable
<1>19. SeqInv' BY <1>1, <1>2, <1>7, <1>12, <1>13 DEF SeqInv, WritingTable
<1>20. CellsInv'
  <2>1. Reach' = cursor + Len(w.rec) BY <1>3, <1>7, <1>12, <1>13 DEF Reach
  <2>2. Reach <= cursor + Len(w.rec) /\ Reach \in Nat BY <1>3, <1>6 DEF Reach
  <2>3. ASSUME NEW tick \in Ticks, NEW start \in Nat, NEW e \in EntryType,
               Spans(start, e.offset - 1, e.len + 1, meta_cursor), FrameIn(ring, tick, e),
               cursor + Len(w.rec) - start <= Usable
        PROVE  FrameIn(ring', tick, e)
    <3>. DEFINE cells == FrameRecord(tick, e.sensor, e)
    <3>1. cells \in Seq(Cell) /\ Len(cells) = e.len + 1 BY ListedFrame
    <3>2. e.offset - 1 \in Int BY DEF EntryType
    <3>3. InRing(e.offset - 1, cells) BY <2>3 DEF FrameIn, Held, InRing
    <3>. HIDE DEF cells
    <3>4. \A j \in DOMAIN cells : ring'[(e.offset - 1) + j - 1] = cells[j]
      BY <1>1, <2>3, <3>1, <3>2, <3>3, Untouched
    <3>. QED BY <3>4 DEF FrameIn, Held, InRing, cells
  <2>4. ASSUME cursor + Len(w.rec) - w.start <= Usable, NEW k \in DOMAIN w.entries
        PROVE  FrameIn(ring', w.tick, w.entries[k])
    <3>1. FrameIn(ring, w.tick, w.entries[k])
      BY <2>4, <1>1, <1>2, <1>3, <1>5, <1>6, <2>2, SMTT(30) DEF CellsInv
    <3>2. w.entries[k] \in EntryType BY <1>3
    <3>3. Spans(w.start, w.entries[k].offset - 1, w.entries[k].len + 1, meta_cursor)
      BY <1>1, <1>2 DEF SpansInv, Placed
    <3>. QED BY <1>3, <2>3, <2>4, <3>1, <3>2, <3>3
  <2>5. ASSUME NEW k \in DOMAIN log, Complete(k), cursor + Len(w.rec) - log[k].start <= Usable
        PROVE  Whole(log[k])'
    <3>. DEFINE b == log[k]
                cells == TableRecord(b.tick, b.start, b.entries)
    <3>1. b \in Bundles BY <1>6
    <3>2. b.tick \in Ticks /\ b.start \in Nat /\ b.entries \in Seq(EntryType) /\ b.offset \in Int BY <3>1 DEF Bundles
    <3>3. Whole(b) BY <1>1, <1>3, <1>5, <1>6, <2>2, <2>5, <3>2, SMTT(30) DEF CellsInv
    <3>4. /\ Spans(b.start, b.offset, b.len + 1, meta_cursor) /\ b.len = Len(b.entries) + 1
          /\ Placed(b.start, b.entries, meta_cursor)
      BY <1>1, <2>5 DEF SpansInv
    <3>5. cells \in Seq(Cell) /\ Len(cells) = b.len + 1 BY <3>2, <3>4, TableRecordFacts, LenProperties
    <3>6. InRing(b.offset, cells) BY <3>3 DEF Whole
    <3>7. \A e \in DOMAIN b.entries : FrameIn(ring, b.tick, b.entries[e]) BY <3>3 DEF Whole, FrameIn, Held, InRing
    <3>. HIDE DEF cells
    <3>8. \A j \in DOMAIN cells : ring'[b.offset + j - 1] = cells[j]
      BY <1>1, <2>5, <3>2, <3>4, <3>5, <3>6, Untouched
    <3>9. \A e \in DOMAIN b.entries : FrameIn(ring', b.tick, b.entries[e])
      <4>. SUFFICES ASSUME NEW e \in DOMAIN b.entries PROVE FrameIn(ring', b.tick, b.entries[e]) OBVIOUS
      <4>1. b.entries[e] \in EntryType BY <3>2
      <4>2. Spans(b.start, b.entries[e].offset - 1, b.entries[e].len + 1, meta_cursor) BY <3>4 DEF Placed
      <4>. QED BY <2>3, <2>5, <3>2, <3>7, <4>1, <4>2
    <3>. QED BY <1>7, <3>8, <3>9 DEF Whole, FrameIn, Held, InRing, cells
  <2>6. Writing' /\ Reach' - w'.start <= Usable => \A k \in DOMAIN w'.entries : FrameIn(ring', w'.tick, w'.entries[k])
    BY <1>3, <1>5, <1>6, <1>12, <2>1, <2>4
  <2>7. \A k \in DOMAIN log' : Complete(k)' /\ Reach' - log'[k].start <= Usable => Whole(log[k])'
    <3>1. \A k \in DOMAIN log : log[k].start \in Nat
      <4>1. \A k \in DOMAIN log : log[k] \in Bundles BY <1>6
      <4>. QED BY <4>1 DEF Bundles
    <3>2. \A k \in DOMAIN log : Complete(k) /\ cursor + Len(w.rec) - log[k].start <= Usable => Whole(log[k])'
      BY <2>5
    <3>3. \A k \in DOMAIN log : Complete(k)' /\ Reach' - log[k].start <= Usable => Whole(log[k])'
      BY <1>3, <1>5, <1>6, <1>14, <2>1, <3>1, <3>2
    <3>. QED BY <1>7, <3>3
  <2>. QED BY <1>7, <2>6, <2>7 DEF CellsInv, FrameIn, Held, Whole, InRing
<1>21. TablesInv'
  <2>. SUFFICES ASSUME NEW q \in Positions PROVE Listed(ring[q])' BY DEF TablesInv
  <2>1. CASE q = p BY <1>7, <1>9, <1>11, <2>1 DEF Listed
  <2>2. CASE q # p BY <1>1, <1>7, <1>11, <2>2 DEF Listed, TablesInv
  <2>. QED BY <2>1, <2>2
<1>22. Grows BY <1>1, <1>7 DEF Grows, TypeInv
<1>. QED BY <1>15, <1>16, <1>17, <1>18, <1>19, <1>20, <1>21, <1>22 DEF WInv

\* A place in front of an earlier end is in front of a later one.
LEMMA SpansLonger ==
  ASSUME NEW start \in Nat, NEW p \in Int, NEW n \in Nat, NEW end \in Nat, NEW later \in Nat, end <= later,
         Spans(start, p, n, end)
  PROVE  Spans(start, p, n, later)
BY DEF Spans

LEMMA PlacedLonger ==
  ASSUME NEW start \in Nat, NEW entries \in Seq(EntryType), NEW end \in Nat, NEW later \in Nat, end <= later,
         Placed(start, entries, end)
  PROVE  Placed(start, entries, later)
<1>. SUFFICES ASSUME NEW k \in DOMAIN entries
              PROVE  entries[k].len > 0 /\ Spans(start, entries[k].offset - 1, entries[k].len + 1, later)
  BY DEF Placed
<1>1. entries[k] \in EntryType OBVIOUS
<1>2. entries[k].offset - 1 \in Int /\ entries[k].len + 1 \in Nat BY <1>1, SMTT(30) DEF EntryType
<1>3. entries[k].len > 0 /\ Spans(start, entries[k].offset - 1, entries[k].len + 1, end) BY DEF Placed
<1>. QED BY <1>2, <1>3, SpansLonger

\* The record that has been written, as its copies leave it.
LEMMA StoredRecord ==
  ASSUME WInv, w.at = "store"
  PROVE  LET after == cursor + Len(w.rec)
         IN  /\ w \in Jobs /\ Writing
             /\ w.rec \in Seq(Cell) /\ Len(w.rec) \in Nat /\ w.phys \in Nat
             /\ cursor \in Nat /\ meta_cursor \in Nat /\ after \in Nat
             /\ meta_cursor <= cursor /\ cursor <= after /\ w.start <= cursor
             /\ Held(ring, w.phys, w.rec)
             /\ Spans(w.start, w.phys, Len(w.rec), after)
             /\ Len(w.rec) > 0 => Reach = after
<1>1. TypeInv /\ RecordInv BY DEF WInv
<1>2. w \in Jobs /\ Writing BY <1>1, Stages DEF Writing
<1>3. w.rec \in Seq(Cell) /\ w.phys \in Nat /\ w.start \in Nat BY <1>2 DEF Jobs
<1>4. Len(w.rec) \in Nat /\ DOMAIN w.rec = 1..Len(w.rec) BY <1>3, LenProperties
<1>5. cursor \in Nat /\ meta_cursor \in Nat /\ meta_cursor <= cursor BY <1>1 DEF TypeInv
<1>6. /\ w.start <= cursor /\ Meta <= w.phys /\ w.phys + Len(w.rec) <= Capacity /\ At(cursor, w.phys)
      /\ w.done = Len(w.rec) /\ \A j \in 1..w.done : ring[w.phys + j - 1] = w.rec[j]
  BY <1>1, <1>2 DEF RecordInv
<1>7. Spans(w.start, w.phys, Len(w.rec), cursor + Len(w.rec)) BY <1>4, <1>5, <1>6 DEF Spans
<1>8. Held(ring, w.phys, w.rec) BY <1>4, <1>6 DEF Held
<1>9. Len(w.rec) > 0 => Reach = cursor + Len(w.rec) BY <1>2, <1>6 DEF Reach
<1>. QED BY <1>2, <1>3, <1>4, <1>5, <1>6, <1>7, <1>8, <1>9

\* The bundles of the log, seen from a later end of the file.
LEMMA LogLater ==
  ASSUME WInv, NEW later \in Nat, meta_cursor <= later, NEW k \in DOMAIN log
  PROVE  LET b == log[k]
         IN  /\ b \in Bundles /\ b.tick \in Ticks /\ b.start \in Nat /\ b.entries \in Seq(EntryType)
             /\ b.offset \in Nat /\ b.len \in Nat
             /\ b.entries # <<>> /\ b.len = Len(b.entries) + 1
             /\ Meta <= b.offset /\ b.offset + b.len < Capacity
             /\ Placed(b.start, b.entries, later)
             /\ Complete(k) => Spans(b.start, b.offset, b.len + 1, later)
<1>. DEFINE b == log[k]
<1>1. TypeInv /\ SpansInv BY DEF WInv
<1>2. b \in Bundles /\ meta_cursor \in Nat BY <1>1 DEF TypeInv
<1>3. b.tick \in Ticks /\ b.start \in Nat /\ b.entries \in Seq(EntryType) /\ b.offset \in Nat /\ b.len \in Nat
  BY <1>2 DEF Bundles
<1>4. /\ b.entries # <<>> /\ b.len = Len(b.entries) + 1
      /\ Meta <= b.offset /\ b.offset + b.len < Capacity
      /\ Placed(b.start, b.entries, meta_cursor)
      /\ Complete(k) => Spans(b.start, b.offset, b.len + 1, meta_cursor)
  BY <1>1 DEF SpansInv
<1>. HIDE DEF b
<1>5. Placed(b.start, b.entries, later) BY <1>2, <1>3, <1>4, PlacedLonger
<1>6. Complete(k) => Spans(b.start, b.offset, b.len + 1, later)
  <2>1. b.offset \in Int /\ b.len + 1 \in Nat BY <1>3
  <2>. QED BY <1>2, <1>3, <1>4, <2>1, SpansLonger
<1>. QED BY <1>2, <1>3, <1>4, <1>5, <1>6 DEF b

\* The table's record becomes part of the file: its bundle is complete.
LEMMA StoreTable ==
  ASSUME WInv, StoreCursor, IsTable
  PROVE  WInv' /\ Grows
<1>. DEFINE after == cursor + Len(w.rec)
<1>1. w.at = "store" /\ meta_cursor' = after /\ cursor' = after /\ w' = [w EXCEPT !.at = "odd"]
      /\ log' = log /\ ring' = ring /\ pointer' = pointer
  BY DEF StoreCursor
<1>2. TypeInv /\ RecordInv /\ SpansInv /\ LatestInv /\ SeqInv /\ CellsInv /\ TablesInv BY DEF WInv
<1>3. /\ w \in Jobs /\ Writing
      /\ w.rec \in Seq(Cell) /\ Len(w.rec) \in Nat /\ w.phys \in Nat
      /\ cursor \in Nat /\ meta_cursor \in Nat /\ after \in Nat
      /\ meta_cursor <= cursor /\ cursor <= after /\ w.start <= cursor
      /\ Held(ring, w.phys, w.rec)
      /\ Spans(w.start, w.phys, Len(w.rec), after)
      /\ Len(w.rec) > 0 => Reach = after
  BY <1>1, StoredRecord
<1>. HIDE DEF after
<1>4. w.tick \in Ticks /\ w.start \in Nat /\ w.entries \in Seq(EntryType) BY <1>3 DEF Jobs
<1>5. w.rec = TableRecord(w.tick, w.start, w.entries) BY <1>2, <1>3 DEF RecordInv
<1>6. Len(w.rec) = Len(w.entries) + 2 /\ Len(w.rec) > 0 /\ Reach = after
  BY <1>3, <1>4, <1>5, TableRecordFacts, LenProperties, SMTT(30)
<1>7. /\ Len(log) > 0 /\ Len(log) \in DOMAIN log
      /\ log[Len(log)] = [tick |-> w.tick, start |-> w.start, entries |-> w.entries,
                          offset |-> w.phys, len |-> Len(w.rec) - 1]
  BY <1>2, <1>3 DEF LatestInv, WritingTable, TypeInv
<1>8. /\ w' \in Jobs /\ w'.at = "odd" /\ w'.tick = w.tick /\ w'.start = w.start /\ w'.entries = w.entries
      /\ w'.phys = w.phys /\ w'.rec = w.rec /\ w'.frames = w.frames
  BY <1>1, <1>3 DEF Jobs
<1>9. ~Writing' /\ ~Flipping' /\ ~WritingTable' /\ WritingTable /\ ~Flipping /\ w.at # "odd"
  BY <1>1, <1>3, <1>8 DEF Writing, Flipping, WritingTable
<1>10. Reach' = after BY <1>1, <1>9 DEF Reach
<1>11. \A k \in DOMAIN log : Complete(k) \/ k = Len(log)
  BY <1>2 DEF Complete, TypeInv
<1>12. TypeInv' BY <1>1, <1>2, <1>3, <1>8 DEF TypeInv
<1>13. RecordInv' BY <1>9 DEF RecordInv
<1>14. \A k \in DOMAIN log :
         LET b == log[k]
         IN  /\ b.entries # <<>> /\ b.len = Len(b.entries) + 1
             /\ Meta <= b.offset /\ b.offset + b.len < Capacity
             /\ Placed(b.start, b.entries, after)
             /\ Complete(k) => Spans(b.start, b.offset, b.len + 1, after)
  BY <1>3, LogLater
<1>15. SpansInv'
  <2>1. \A k \in DOMAIN log : Spans(log[k].start, log[k].offset, log[k].len + 1, after)
    <3>1. Spans(log[Len(log)].start, log[Len(log)].offset, log[Len(log)].len + 1, after)
      <4>1. (Len(w.rec) - 1) + 1 = Len(w.rec) BY <1>3
      <4>. QED BY <1>3, <1>7, <4>1
    <3>. QED BY <1>11, <1>14, <3>1
  <2>. QED BY <1>1, <1>9, <1>14, <2>1 DEF SpansInv, Placed, Spans, At
<1>16. LatestInv' BY <1>1, <1>7, <1>8, <1>9 DEF LatestInv
<1>17. SeqInv' BY <1>1, <1>2, <1>8, <1>9 DEF SeqInv
<1>18. CellsInv'
  <2>1. \A k \in DOMAIN log : after - log[k].start <= Usable => Whole(log[k])
    <3>1. ASSUME after - w.start <= Usable PROVE Whole(log[Len(log)])
      <4>1. \A k \in DOMAIN w.entries : FrameIn(ring, w.tick, w.entries[k])
        BY <1>2, <1>3, <1>6, <3>1 DEF CellsInv
      <4>. QED BY <1>3, <1>5, <1>7, <4>1 DEF Whole, FrameIn, Held, InRing
    <3>2. \A k \in DOMAIN log : Complete(k) /\ after - log[k].start <= Usable => Whole(log[k])
      BY <1>2, <1>6 DEF CellsInv
    <3>. QED BY <1>7, <1>11, <3>1, <3>2
  <2>2. \A k \in DOMAIN log : Whole(log[k])' = Whole(log[k]) BY <1>1 DEF Whole, InRing
  <2>. QED BY <1>1, <1>9, <1>10, <2>1, <2>2 DEF CellsInv
<1>19. TablesInv' BY <1>1, <1>2 DEF TablesInv, Listed
<1>20. Grows BY <1>1, <1>2 DEF Grows, TypeInv
<1>. QED BY <1>12, <1>13, <1>15, <1>16, <1>17, <1>18, <1>19, <1>20 DEF WInv

\* The list of the frames written, with the one whose record has just ended.
LEMMA StoredFrame ==
  ASSUME WInv, w.at = "store", ~IsTable
  PROVE  LET after == cursor + Len(w.rec)
             k == Len(w.entries) + 1
             list == Append(w.entries, EntryOf(k))
         IN  /\ k \in 1..Len(w.frames)
             /\ list \in Seq(EntryType) /\ Len(list) = k
             /\ Placed(w.start, list, after)
             /\ after - w.start <= Usable => \A e \in DOMAIN list : FrameIn(ring, w.tick, list[e])
             /\ Len(w.rec) > 0
<1>. DEFINE after == cursor + Len(w.rec)
            k == Len(w.entries) + 1
            entry == EntryOf(k)
            list == Append(w.entries, entry)
<1>1. TypeInv /\ RecordInv /\ SpansInv /\ CellsInv BY DEF WInv
<1>2. /\ w \in Jobs /\ Writing
      /\ w.rec \in Seq(Cell) /\ Len(w.rec) \in Nat /\ w.phys \in Nat
      /\ cursor \in Nat /\ meta_cursor \in Nat /\ after \in Nat
      /\ meta_cursor <= cursor /\ cursor <= after /\ w.start <= cursor
      /\ Held(ring, w.phys, w.rec)
      /\ Spans(w.start, w.phys, Len(w.rec), after)
      /\ Len(w.rec) > 0 => Reach = after
  BY StoredRecord
<1>. HIDE DEF after
<1>3. w.entries \in Seq(EntryType) /\ w.frames \in Requests /\ w.tick \in Ticks /\ w.start \in Nat BY <1>2 DEF Jobs
<1>4. w.rec = FrameRecord(w.tick, k, w.frames[k]) /\ Len(w.entries) <= Len(w.frames)
  BY <1>1, <1>2 DEF RecordInv
<1>5. k \in 1..Len(w.frames) BY <1>3, <1>4, FrameFacts, LenProperties DEF IsTable
<1>6. w.frames[k].content \in Contents /\ w.frames[k].len \in Nat \ {0} BY <1>3, <1>5, FrameFacts
<1>7. /\ entry.sensor = k /\ entry.offset = w.phys + 1 /\ entry.len = w.frames[k].len
      /\ entry.content = w.frames[k].content
  BY DEF EntryOf
<1>8. entry \in EntryType BY <1>2, <1>5, <1>6, SMTT(30) DEF EntryOf, EntryType
<1>9. FrameRecord(w.tick, entry.sensor, entry) = w.rec
  BY <1>4, <1>7 DEF FrameRecord
<1>10. Len(w.rec) = entry.len + 1 /\ Len(w.rec) > 0
  BY <1>2, <1>3, <1>6, <1>7, <1>8, <1>9, ListedFrame, SMTT(30)
<1>. HIDE DEF entry
<1>11. /\ list \in Seq(EntryType) /\ Len(list) = Len(w.entries) + 1
       /\ \A e \in 1..Len(w.entries) : list[e] = w.entries[e]
       /\ list[Len(w.entries) + 1] = entry
  BY <1>3, <1>8, AppendProperties
<1>12. Len(w.entries) \in Nat /\ DOMAIN w.entries = 1..Len(w.entries) BY <1>3, LenProperties
<1>13. DOMAIN list = 1..Len(list) BY <1>11, LenProperties
<1>. HIDE DEF list
<1>14. \A e \in DOMAIN list : (e \in DOMAIN w.entries /\ list[e] = w.entries[e]) \/ list[e] = entry
  BY <1>11, <1>12, <1>13
<1>15. Placed(w.start, list, after)
  <2>1. Placed(w.start, w.entries, after)
    <3>1. Placed(w.start, w.entries, meta_cursor) BY <1>1, <1>2 DEF SpansInv
    <3>2. meta_cursor <= after BY <1>2
    <3>. QED BY <1>2, <1>3, <3>1, <3>2, PlacedLonger
  <2>2. entry.len > 0 /\ Spans(w.start, entry.offset - 1, entry.len + 1, after)
    <3>1. entry.offset - 1 = w.phys BY <1>2, <1>7
    <3>. QED BY <1>2, <1>6, <1>7, <1>10, <3>1, SMTT(30)
  <2>. QED BY <1>14, <2>1, <2>2 DEF Placed
<1>16. ASSUME after - w.start <= Usable PROVE \A e \in DOMAIN list : FrameIn(ring, w.tick, list[e])
  <2>1. \A e \in DOMAIN w.entries : FrameIn(ring, w.tick, w.entries[e])
    BY <1>1, <1>2, <1>10, <1>16 DEF CellsInv
  <2>2. FrameIn(ring, w.tick, entry)
    <3>1. entry.offset - 1 = w.phys BY <1>2, <1>7
    <3>. QED BY <1>2, <1>9, <3>1 DEF FrameIn
  <2>. QED BY <1>14, <2>1, <2>2
<1>. QED BY <1>5, <1>10, <1>11, <1>15, <1>16 DEF list, entry, after

\* A record has ended and the next one, if any, has not begun: what the log and
\* the file hold is sound, wherever the next record goes.
LEMMA Resume ==
  ASSUME WInv, w.at = "store", ~IsTable, ring' = ring, pointer' = pointer,
         meta_cursor' = cursor + Len(w.rec), cursor' \in Nat, meta_cursor' <= cursor',
         w' = Idle \/ (w' \in Jobs /\ w'.at = "write" /\ w'.done = 0),
         log' \in Seq(Bundles), \A k \in DOMAIN log : k \in DOMAIN log' /\ log'[k] = log[k],
         \A k \in DOMAIN log : Complete(k)'
  PROVE  /\ TypeInv' /\ TablesInv' /\ Grows
         /\ \A k \in DOMAIN log :
              LET b == log'[k]
              IN  /\ b.entries # <<>> /\ b.len = Len(b.entries) + 1
                  /\ Meta <= b.offset /\ b.offset + b.len < Capacity
                  /\ Placed(b.start, b.entries, meta_cursor')
                  /\ Spans(b.start, b.offset, b.len + 1, meta_cursor')
                  /\ Reach' - b.start <= Usable => Whole(log[k])'
         /\ Reach' = meta_cursor'
<1>. DEFINE after == cursor + Len(w.rec)
<1>1. TypeInv /\ SpansInv /\ CellsInv /\ TablesInv BY DEF WInv
<1>2. /\ Writing /\ cursor \in Nat /\ meta_cursor \in Nat /\ after \in Nat
      /\ meta_cursor <= cursor /\ cursor <= after /\ Reach = after
  BY StoredRecord, StoredFrame
<1>. HIDE DEF after
<1>3. meta_cursor' = after BY DEF after
<1>4. \A k \in DOMAIN log : Complete(k) BY <1>2 DEF Complete, Writing
<1>5. Reach' = after
  <2>1. CASE w' = Idle BY <1>3, <2>1 DEF Reach, Writing, Idle
  <2>2. CASE w' # Idle BY <1>3, <2>2 DEF Reach, Writing
  <2>. QED BY <2>1, <2>2
<1>6. TypeInv' BY <1>1, <1>2, <1>3 DEF TypeInv
<1>7. TablesInv'
  <2>. SUFFICES ASSUME NEW p \in Positions PROVE Listed(ring[p])' BY DEF TablesInv
  <2>1. Listed(ring[p]) BY <1>1 DEF TablesInv
  <2>. QED BY <2>1 DEF Listed
<1>8. Grows BY <1>1 DEF Grows, TypeInv
<1>9. ASSUME NEW k \in DOMAIN log
      PROVE  LET b == log'[k]
             IN  /\ b.entries # <<>> /\ b.len = Len(b.entries) + 1
                 /\ Meta <= b.offset /\ b.offset + b.len < Capacity
                 /\ Placed(b.start, b.entries, after)
                 /\ Spans(b.start, b.offset, b.len + 1, after)
                 /\ Reach' - b.start <= Usable => Whole(log[k])'
  <2>1. log'[k] = log[k] OBVIOUS
  <2>2. LET b == log[k]
        IN  /\ b.entries # <<>> /\ b.len = Len(b.entries) + 1
            /\ Meta <= b.offset /\ b.offset + b.len < Capacity
            /\ Placed(b.start, b.entries, after)
            /\ Complete(k) => Spans(b.start, b.offset, b.len + 1, after)
    <3>1. meta_cursor <= after BY <1>2
    <3>. QED BY <1>2, <3>1, LogLater
  <2>3. after - log[k].start <= Usable => Whole(log[k]) BY <1>1, <1>2, <1>4 DEF CellsInv
  <2>4. Whole(log[k])' = Whole(log[k]) BY <2>1 DEF Whole, InRing
  <2>. QED BY <1>4, <1>5, <2>1, <2>2, <2>3, <2>4
<1>. QED BY <1>3, <1>5, <1>6, <1>7, <1>8, <1>9

\* The service is idle after a frame: the request was refused, or wanted no table.
LEMMA StoreThenIdle ==
  ASSUME WInv, w.at = "store", ~IsTable, ring' = ring, pointer' = pointer,
         meta_cursor' = cursor + Len(w.rec), w' = Idle, cursor' = cursor + Len(w.rec), log' = log
  PROVE  WInv' /\ Grows
<1>1. TypeInv /\ SeqInv BY DEF WInv
<1>2. Writing /\ cursor + Len(w.rec) \in Nat BY StoredRecord
<1>3. log \in Seq(Bundles) BY <1>1 DEF TypeInv
<1>4. \A k \in DOMAIN log : Complete(k)' BY DEF Complete, Idle
<1>5. /\ TypeInv' /\ TablesInv' /\ Grows
      /\ \A k \in DOMAIN log :
           LET b == log'[k]
           IN  /\ b.entries # <<>> /\ b.len = Len(b.entries) + 1
               /\ Meta <= b.offset /\ b.offset + b.len < Capacity
               /\ Placed(b.start, b.entries, meta_cursor')
               /\ Spans(b.start, b.offset, b.len + 1, meta_cursor')
               /\ Reach' - b.start <= Usable => Whole(log[k])'
      /\ Reach' = meta_cursor'
  <2>1. cursor' \in Nat /\ meta_cursor' <= cursor' BY <1>2
  <2>2. log' \in Seq(Bundles) /\ \A k \in DOMAIN log : k \in DOMAIN log' /\ log'[k] = log[k] BY <1>3
  <2>. QED BY <1>4, <2>1, <2>2, Resume
<1>6. ~Writing' /\ ~Flipping' /\ ~WritingTable' /\ w'.at # "odd" BY DEF Writing, Flipping, WritingTable, Idle
<1>7. ~Flipping /\ ~WritingTable /\ w.at # "odd" BY DEF Flipping, WritingTable
<1>8. RecordInv' /\ LatestInv' BY <1>6 DEF RecordInv, LatestInv
<1>9. SpansInv' BY <1>5, <1>6, SMTT(30) DEF SpansInv, Placed, Spans, At
<1>10. SeqInv' BY <1>1, <1>6, <1>7 DEF SeqInv, Flipping
<1>11. CellsInv' BY <1>5, <1>6 DEF CellsInv
<1>. QED BY <1>5, <1>8, <1>9, <1>10, <1>11 DEF WInv

\* The next frame of the request finds its place.
LEMMA StoreThenFrame ==
  ASSUME WInv, w.at = "store", ~IsTable, ring' = ring, pointer' = pointer,
         meta_cursor' = cursor + Len(w.rec), log' = log,
         NEW k, k = Len(w.entries) + 1, k < Len(w.frames),
         Place(cursor + Len(w.rec), [w EXCEPT !.entries = Append(@, EntryOf(k))],
               FrameRecord(w.tick, k + 1, w.frames[k + 1]))
  PROVE  WInv' /\ Grows
<1>. DEFINE after == cursor + Len(w.rec)
            list == Append(w.entries, EntryOf(k))
            job == [w EXCEPT !.entries = list]
            rec == FrameRecord(w.tick, k + 1, w.frames[k + 1])
<1>1. TypeInv /\ SeqInv BY DEF WInv
<1>2. w \in Jobs /\ Writing /\ cursor \in Nat /\ after \in Nat /\ w.start <= after /\ w.start \in Nat
  BY StoredRecord DEF Jobs
<1>3. /\ k \in 1..Len(w.frames) /\ list \in Seq(EntryType) /\ Len(list) = k
      /\ Placed(w.start, list, after)
      /\ after - w.start <= Usable => \A e \in DOMAIN list : FrameIn(ring, w.tick, list[e])
  BY StoredFrame
<1>4. w.frames \in Requests /\ w.tick \in Ticks BY <1>2 DEF Jobs
<1>5. Len(w.frames) \in Nat /\ k + 1 \in 1..Len(w.frames) BY <1>3, <1>4, FrameFacts
<1>6. w.frames[k + 1].content \in Contents /\ w.frames[k + 1].len \in Nat BY <1>4, <1>5, FrameFacts
<1>7. rec \in Seq(Cell) /\ Len(rec) = w.frames[k + 1].len + 1
  <2>1. k + 1 \in Nat BY <1>5
  <2>. QED BY <1>4, <1>6, <2>1, FrameRecordFacts
<1>8. Len(rec) > 0 /\ Len(rec) \in Nat BY <1>6, <1>7
<1>9. /\ job \in Jobs /\ job.tick = w.tick /\ job.frames = w.frames /\ job.start = w.start /\ job.entries = list
  BY <1>2, <1>3 DEF Jobs
<1>10. Place(after, job, rec) OBVIOUS
<1>. HIDE DEF after, list, job, rec
<1>11. CASE w' = Idle /\ cursor' = after BY <1>11, StoreThenIdle DEF after
<1>12. CASE /\ w' = [job EXCEPT !.at = "write", !.rec = rec, !.phys = StartsAt(after, Len(rec)), !.done = 0]
            /\ w' \in Jobs
            /\ cursor' \in Nat /\ after <= cursor'
            /\ StartsAt(after, Len(rec)) \in Nat /\ Meta <= StartsAt(after, Len(rec))
            /\ StartsAt(after, Len(rec)) + Len(rec) <= Capacity /\ At(cursor', StartsAt(after, Len(rec)))
  <2>1. /\ w'.at = "write" /\ w'.done = 0 /\ w'.rec = rec /\ w'.phys = StartsAt(after, Len(rec))
        /\ w'.tick = w.tick /\ w'.frames = w.frames /\ w'.start = w.start /\ w'.entries = list
    BY <1>9, <1>12 DEF Jobs
  <2>2. Writing' /\ ~IsTable' /\ ~Flipping' /\ ~WritingTable' /\ w'.at # "odd"
    BY <1>3, <1>5, <2>1 DEF Writing, IsTable, Flipping, WritingTable
  <2>3. ~Flipping /\ ~WritingTable /\ w.at # "odd" BY DEF Flipping, WritingTable
  <2>4. meta_cursor' = after BY DEF after
  <2>5. \A j \in DOMAIN log : Complete(j)' BY <2>2 DEF Complete
  <2>6. /\ TypeInv' /\ TablesInv' /\ Grows
        /\ \A j \in DOMAIN log :
             LET b == log'[j]
             IN  /\ b.entries # <<>> /\ b.len = Len(b.entries) + 1
                 /\ Meta <= b.offset /\ b.offset + b.len < Capacity
                 /\ Placed(b.start, b.entries, meta_cursor')
                 /\ Spans(b.start, b.offset, b.len + 1, meta_cursor')
                 /\ Reach' - b.start <= Usable => Whole(log[j])'
        /\ Reach' = meta_cursor'
    <3>1. log \in Seq(Bundles) BY <1>1 DEF TypeInv
    <3>. QED BY <1>12, <2>1, <2>4, <2>5, <3>1, Resume
  <2>7. RecordInv'
    <3>1. At(cursor, w.phys)' BY <1>12, <2>1 DEF At
    <3>2. w'.rec = FrameRecord(w'.tick, Len(w'.entries) + 1, w'.frames[Len(w'.entries) + 1])
      BY <1>3, <2>1 DEF rec
    <3>3. Len(w'.entries) <= Len(w'.frames) BY <1>3, <1>5, <2>1
    <3>4. w'.start <= cursor' BY <1>2, <1>12, <2>1
    <3>. QED BY <1>8, <1>12, <2>1, <2>2, <3>1, <3>2, <3>3, <3>4 DEF RecordInv
  <2>8. SpansInv'
    <3>1. Placed(w'.start, w'.entries, meta_cursor') BY <1>3, <2>1, <2>4
    <3>. QED BY <2>6, <3>1, ZenonT(40) DEF SpansInv, Placed, Spans, At
  <2>9. LatestInv' BY <2>2 DEF LatestInv
  <2>10. SeqInv' BY <1>1, <2>2, <2>3 DEF SeqInv, Flipping
  <2>11. CellsInv'
    <3>1. after - w.start <= Usable => \A e \in DOMAIN w'.entries : FrameIn(ring', w'.tick, w'.entries[e])
      BY <1>3, <2>1
    <3>2. Reach' - w'.start <= Usable => \A e \in DOMAIN w'.entries : FrameIn(ring', w'.tick, w'.entries[e])
      BY <2>1, <2>4, <2>6, <3>1
    <3>. QED BY <2>6, <3>2 DEF CellsInv, FrameIn, Held
  <2>. QED BY <2>6, <2>7, <2>8, <2>9, <2>10, <2>11 DEF WInv
<1>. QED BY <1>2, <1>7, <1>8, <1>9, <1>10, <1>11, <1>12, PlaceFacts DEF PlacedAt

\* The table finds its place, and the bundle enters the log.
LEMMA StoreThenTable ==
  ASSUME WInv, w.at = "store", ~IsTable, ring' = ring, pointer' = pointer,
         meta_cursor' = cursor + Len(w.rec),
         NEW k, k = Len(w.entries) + 1, ~(k < Len(w.frames)),
         NEW list, list = Append(w.entries, EntryOf(k)),
         NEW table, table = TableRecord(w.tick, w.start, list),
         Place(cursor + Len(w.rec), [w EXCEPT !.entries = list], table),
         log' = IF Len(table) > Usable THEN log
                ELSE Append(log, [tick |-> w.tick, start |-> w.start, entries |-> list,
                                  offset |-> StartsAt(cursor + Len(w.rec), Len(table)), len |-> Len(table) - 1])
  PROVE  WInv' /\ Grows
<1>. DEFINE after == cursor + Len(w.rec)
            job == [w EXCEPT !.entries = list]
            place == StartsAt(after, Len(table))
            new == [tick |-> w.tick, start |-> w.start, entries |-> list, offset |-> place, len |-> Len(table) - 1]
<1>1. TypeInv /\ SeqInv BY DEF WInv
<1>2. w \in Jobs /\ Writing /\ cursor \in Nat /\ after \in Nat /\ w.start <= after /\ w.start \in Nat
  BY StoredRecord DEF Jobs
<1>3. /\ k \in 1..Len(w.frames) /\ list \in Seq(EntryType) /\ Len(list) = k
      /\ Placed(w.start, list, after)
      /\ after - w.start <= Usable => \A e \in DOMAIN list : FrameIn(ring, w.tick, list[e])
  BY StoredFrame
<1>4. w.frames \in Requests /\ w.tick \in Ticks BY <1>2 DEF Jobs
<1>5. k = Len(w.frames) /\ k \in Nat BY <1>3, <1>4, FrameFacts
<1>6. table \in Seq(Cell) /\ Len(table) = k + 2
  <2>1. w.tick \in Ticks /\ w.start \in Nat /\ list \in Seq(EntryType) BY <1>2, <1>3, <1>4
  <2>2. table \in Seq(Cell) /\ Len(table) = Len(list) + 2 BY <2>1, TableRecordFacts
  <2>. QED BY <1>3, <2>2
<1>7. Len(table) > 0 /\ Len(table) \in Nat /\ Usable \in Nat BY <1>5, <1>6, RingAssumption DEF Usable
<1>8. /\ job \in Jobs /\ job.tick = w.tick /\ job.frames = w.frames /\ job.start = w.start /\ job.entries = list
  BY <1>2, <1>3 DEF Jobs
<1>9. Place(after, job, table) OBVIOUS
<1>10. log \in Seq(Bundles) BY <1>1 DEF TypeInv
<1>11. log' = IF Len(table) > Usable THEN log ELSE Append(log, new) OBVIOUS
<1>. HIDE DEF after, job, place, new
<1>12. CASE Len(table) > Usable /\ w' = Idle /\ cursor' = after
  BY <1>11, <1>12, StoreThenIdle DEF after
<1>13. CASE /\ Len(table) <= Usable
            /\ w' = [job EXCEPT !.at = "write", !.rec = table, !.phys = place, !.done = 0]
            /\ w' \in Jobs
            /\ cursor' \in Nat /\ after <= cursor'
            /\ place \in Nat /\ Meta <= place
            /\ place + Len(table) <= Capacity /\ At(cursor', place)
  <2>1. /\ w'.at = "write" /\ w'.done = 0 /\ w'.rec = table /\ w'.phys = place
        /\ w'.tick = w.tick /\ w'.frames = w.frames /\ w'.start = w.start /\ w'.entries = list
    BY <1>8, <1>13 DEF Jobs
  <2>2. log' = Append(log, new) BY <1>7, <1>11, <1>13, SMTT(30)
  <2>3. new \in Bundles BY <1>2, <1>3, <1>4, <1>5, <1>6, <1>13 DEF Bundles, new
  <2>4. /\ log' \in Seq(Bundles) /\ Len(log') = Len(log) + 1
        /\ \A j \in 1..Len(log) : log'[j] = log[j]
        /\ log'[Len(log) + 1] = new
    BY <1>10, <2>2, <2>3, AppendProperties
  <2>5. Len(log) \in Nat /\ DOMAIN log = 1..Len(log) /\ DOMAIN log' = 1..(Len(log) + 1)
    BY <1>10, <2>4, LenProperties
  <2>6. Writing' /\ IsTable' /\ ~Flipping' /\ WritingTable' /\ w'.at # "odd"
    BY <1>3, <1>5, <2>1 DEF Writing, IsTable, Flipping, WritingTable
  <2>7. ~Flipping /\ ~WritingTable /\ w.at # "odd" BY DEF Flipping, WritingTable
  <2>8. meta_cursor' = after BY DEF after
  <2>9. (\A j \in DOMAIN log : Complete(j)') /\ \A j : j = Len(log) + 1 => ~Complete(j)'
    BY <2>4, <2>5, <2>6, SMTT(30) DEF Complete, Writing
  <2>10. \A j \in DOMAIN log' : j \in DOMAIN log \/ j = Len(log) + 1 BY <2>5
  <2>11. /\ TypeInv' /\ TablesInv' /\ Grows
         /\ \A j \in DOMAIN log :
              LET b == log'[j]
              IN  /\ b.entries # <<>> /\ b.len = Len(b.entries) + 1
                  /\ Meta <= b.offset /\ b.offset + b.len < Capacity
                  /\ Placed(b.start, b.entries, meta_cursor')
                  /\ Spans(b.start, b.offset, b.len + 1, meta_cursor')
                  /\ Reach' - b.start <= Usable => Whole(log[j])'
         /\ Reach' = meta_cursor'
    <3>1. \A j \in DOMAIN log : j \in DOMAIN log' /\ log'[j] = log[j] BY <2>4, <2>5
    <3>. QED BY <1>13, <2>1, <2>4, <2>8, <2>9, <3>1, Resume
  <2>12. RecordInv'
    <3>1. At(cursor, w.phys)' BY <1>13, <2>1 DEF At
    <3>2. w'.rec = TableRecord(w'.tick, w'.start, w'.entries) BY <2>1
    <3>3. Len(w'.entries) <= Len(w'.frames) BY <1>3, <1>5, <2>1
    <3>4. w'.start <= cursor' BY <1>2, <1>13, <2>1, SMTT(30)
    <3>. QED BY <1>7, <1>13, <2>1, <2>6, <3>1, <3>2, <3>3, <3>4 DEF RecordInv
  <2>13. SpansInv'
    <3>1. Placed(w'.start, w'.entries, meta_cursor') BY <1>3, <2>1, <2>8
    <3>2. LET b == log'[Len(log) + 1]
          IN  /\ b.entries # <<>> /\ b.len = Len(b.entries) + 1
              /\ Meta <= b.offset /\ b.offset + b.len < Capacity
              /\ Placed(b.start, b.entries, meta_cursor')
      <4>1. list # <<>> BY <1>3
      <4>2. new.len = Len(list) + 1 BY <1>3, <1>5, <1>6 DEF new
      <4>3. new.offset + new.len < Capacity
        BY <1>5, <1>6, <1>13, RingAssumption DEF new
      <4>. QED BY <1>3, <1>13, <2>4, <2>8, <4>1, <4>2, <4>3, SMTT(30) DEF new
    <3>3. ASSUME NEW j \in DOMAIN log'
          PROVE  LET b == log'[j]
                 IN  /\ b.entries # <<>> /\ b.len = Len(b.entries) + 1
                     /\ Meta <= b.offset /\ b.offset + b.len < Capacity
                     /\ Placed(b.start, b.entries, meta_cursor')
                     /\ Complete(j)' => Spans(b.start, b.offset, b.len + 1, meta_cursor')
      <4>1. CASE j \in DOMAIN log BY <2>11, <4>1
      <4>2. CASE j = Len(log) + 1 BY <2>9, <3>2, <4>2
      <4>. QED BY <2>10, <4>1, <4>2
    <3>. QED BY <3>1, <3>3 DEF SpansInv, Placed, Spans, At
  <2>14. LatestInv' BY <2>1, <2>4, <2>5 DEF LatestInv, new
  <2>15. SeqInv'
    <3>1. pointer.seq = 2 * Len(log) BY <1>1, <2>7 DEF SeqInv
    <3>2. \A j \in DOMAIN log' : pointer'.seq = 2 * j =>
            pointer'.offset = log'[j].offset /\ pointer'.len = log'[j].len /\ pointer'.tick = log'[j].tick
      <4>1. \A j \in DOMAIN log : pointer.seq = 2 * j =>
              pointer.offset = log[j].offset /\ pointer.len = log[j].len /\ pointer.tick = log[j].tick
        BY <1>1 DEF SeqInv
      <4>2. pointer.seq # 2 * (Len(log) + 1) BY <2>5, <3>1
      <4>3. ASSUME NEW j \in DOMAIN log', pointer'.seq = 2 * j
            PROVE  pointer'.offset = log'[j].offset /\ pointer'.len = log'[j].len /\ pointer'.tick = log'[j].tick
        <5>1. j # Len(log) + 1 BY <4>2, <4>3
        <5>2. j \in DOMAIN log /\ log'[j] = log[j] BY <2>4, <2>5, <2>10, <5>1
        <5>. QED BY <4>1, <4>3, <5>2
      <4>. QED BY <4>3
    <3>. QED BY <2>4, <2>5, <2>6, <3>1, <3>2 DEF SeqInv, Flipping
  <2>16. CellsInv'
    <3>1. after - w.start <= Usable => \A e \in DOMAIN w'.entries : FrameIn(ring', w'.tick, w'.entries[e])
      BY <1>3, <2>1
    <3>2. Reach' - w'.start <= Usable => \A e \in DOMAIN w'.entries : FrameIn(ring', w'.tick, w'.entries[e])
      BY <2>1, <2>8, <2>11, <3>1
    <3>3. \A j \in DOMAIN log' : Complete(j)' /\ Reach' - log'[j].start <= Usable => Whole(log[j])'
      <4>1. \A j \in DOMAIN log : Reach' - log'[j].start <= Usable => Whole(log[j])' BY <2>11
      <4>2. \A j \in DOMAIN log' : Complete(j)' => j \in DOMAIN log BY <2>9, <2>10
      <4>. QED BY <4>1, <4>2
    <3>. QED BY <3>2, <3>3 DEF CellsInv, FrameIn, Held
  <2>. QED BY <2>11, <2>12, <2>13, <2>14, <2>15, <2>16 DEF WInv
<1>14. \/ Len(table) > Usable /\ w' = Idle /\ cursor' = after
       \/ /\ Len(table) <= Usable
          /\ w' = [job EXCEPT !.at = "write", !.rec = table, !.phys = StartsAt(after, Len(table)), !.done = 0]
          /\ w' \in Jobs
          /\ cursor' \in Nat /\ after <= cursor'
          /\ StartsAt(after, Len(table)) \in Nat /\ Meta <= StartsAt(after, Len(table))
          /\ StartsAt(after, Len(table)) + Len(table) <= Capacity /\ At(cursor', StartsAt(after, Len(table)))
  <2>1. table \in Seq(Cell) /\ after \in Nat BY <1>2, <1>6
  <2>2. job \in Jobs /\ table \in Seq(Cell) /\ Len(table) > 0 /\ Place(after, job, table) BY <1>7, <1>8, <1>9, <2>1
  <2>3. PlacedAt(after, job, table) BY <2>1, <2>2, PlaceFacts
  <2>. QED BY <2>3 DEF PlacedAt
<1>. QED BY <1>12, <1>13, <1>14 DEF place

LEMMA StoreCursorKeeps ==
  ASSUME WInv, StoreCursor
  PROVE  WInv' /\ Grows
<1>. DEFINE after == cursor + Len(w.rec)
            k == Len(w.entries) + 1
            list == Append(w.entries, EntryOf(k))
            table == TableRecord(w.tick, w.start, list)
<1>1. w.at = "store" /\ meta_cursor' = after /\ ring' = ring /\ pointer' = pointer BY DEF StoreCursor
<1>2. CASE IsTable BY <1>2, StoreTable
<1>3. CASE ~IsTable
  <2>1. AfterFrame(after, k) BY <1>3 DEF StoreCursor
  <2>2. [w EXCEPT !.entries = Append(@, EntryOf(k))].entries = list
    BY StoredRecord, <1>1 DEF Jobs
  <2>3. CASE k < Len(w.frames)
    <3>1. Place(after, [w EXCEPT !.entries = Append(@, EntryOf(k))], FrameRecord(w.tick, k + 1, w.frames[k + 1]))
          /\ log' = log
      BY <2>1, <2>3 DEF AfterFrame
    <3>. QED BY <1>1, <1>3, <2>3, <3>1, StoreThenFrame
  <2>4. CASE ~(k < Len(w.frames)) /\ (~w.bundle \/ Oversize(after))
    <3>1. w' = Idle /\ cursor' = after /\ log' = log BY <2>1, <2>4 DEF AfterFrame
    <3>. QED BY <1>1, <1>3, <3>1, StoreThenIdle
  <2>5. CASE ~(k < Len(w.frames)) /\ ~(~w.bundle \/ Oversize(after))
    <3>1. /\ Place(after, [w EXCEPT !.entries = list], table)
          /\ log' = IF Len(table) > Usable THEN log
                    ELSE Append(log, [tick |-> w.tick, start |-> w.start, entries |-> list,
                                      offset |-> StartsAt(after, Len(table)), len |-> Len(table) - 1])
      BY <2>1, <2>2, <2>5 DEF AfterFrame
    <3>2. ~(k < Len(w.frames)) BY <2>5
    <3>. HIDE DEF table
    <3>. QED BY <1>1, <1>3, <3>1, <3>2, StoreThenTable DEF table
  <2>. QED BY <2>3, <2>4, <2>5
<1>. QED BY <1>2, <1>3
\* A step of the seqlock write leaves the file and the log as they are.
LEMMA FlipKeeps ==
  ASSUME WInv, w.at \in {"odd", "offset", "len", "tick", "even"},
         ring' = ring, meta_cursor' = meta_cursor, cursor' = cursor, log' = log,
         w' = Idle \/ (w' \in Jobs /\ w'.at \in {"offset", "len", "tick", "even"}),
         pointer' \in [seq : Nat, offset : Nat, len : Nat, tick : Ticks \cup {NoTick}]
  PROVE  /\ TypeInv' /\ RecordInv' /\ SpansInv' /\ CellsInv' /\ TablesInv'
         /\ w \in Jobs /\ Len(log) \in Nat \ {0} /\ DOMAIN log = 1..Len(log)
         /\ log[Len(log)] = [tick |-> w.tick, start |-> w.start, entries |-> w.entries,
                             offset |-> w.phys, len |-> Len(w.rec) - 1]
         /\ log[Len(log)] \in Bundles
<1>1. TypeInv /\ SpansInv /\ LatestInv /\ CellsInv /\ TablesInv BY DEF WInv
<1>2. ~Writing /\ ~Writing' BY DEF Writing, Idle
<1>3. w \in Jobs BY <1>1, Stages
<1>4. Len(log) \in Nat /\ DOMAIN log = 1..Len(log) /\ log \in Seq(Bundles) BY <1>1, LenProperties DEF TypeInv
<1>5. /\ Len(log) > 0
      /\ log[Len(log)] = [tick |-> w.tick, start |-> w.start, entries |-> w.entries,
                          offset |-> w.phys, len |-> Len(w.rec) - 1]
  BY <1>1 DEF LatestInv, Flipping
<1>6. \A k \in DOMAIN log : Complete(k) /\ Complete(k)'
  BY <1>2 DEF Complete, Writing
<1>7. TypeInv' BY <1>1 DEF TypeInv
<1>8. RecordInv' BY <1>2 DEF RecordInv
<1>9. SpansInv' BY <1>1, <1>2, <1>6 DEF SpansInv, Placed, Spans, At
<1>10. CellsInv'
  <2>1. Reach = meta_cursor /\ Reach' = meta_cursor BY <1>2 DEF Reach
  <2>2. \A k \in DOMAIN log : Whole(log[k])' = Whole(log[k]) BY DEF Whole, InRing
  <2>. QED BY <1>1, <1>2, <1>6, <2>1, <2>2 DEF CellsInv
<1>11. TablesInv' BY <1>1 DEF TablesInv, Listed
<1>. QED BY <1>3, <1>4, <1>5, <1>7, <1>8, <1>9, <1>10, <1>11

LEMMA SeqOddKeeps ==
  ASSUME WInv, SeqOdd
  PROVE  WInv' /\ Grows
<1>1. /\ w.at = "odd" /\ pointer' = [pointer EXCEPT !.seq = @ + 1]
      /\ w' = [w EXCEPT !.at = "offset", !.seq0 = pointer.seq]
      /\ ring' = ring /\ meta_cursor' = meta_cursor /\ cursor' = cursor /\ log' = log
  BY DEF SeqOdd
<1>2. TypeInv /\ SeqInv /\ w \in Jobs BY <1>1, Stages DEF WInv
<1>3. pointer \in [seq : Nat, offset : Nat, len : Nat, tick : Ticks \cup {NoTick}] BY <1>2 DEF TypeInv
<1>4. /\ w' \in Jobs /\ w'.at = "offset" /\ w'.seq0 = pointer.seq /\ w'.tick = w.tick /\ w'.start = w.start
      /\ w'.entries = w.entries /\ w'.phys = w.phys /\ w'.rec = w.rec
  BY <1>1, <1>2, <1>3 DEF Jobs
<1>5. /\ pointer' \in [seq : Nat, offset : Nat, len : Nat, tick : Ticks \cup {NoTick}]
      /\ pointer'.seq = pointer.seq + 1 /\ pointer.seq \in Nat
  BY <1>1, <1>3
<1>6. /\ TypeInv' /\ RecordInv' /\ SpansInv' /\ CellsInv' /\ TablesInv'
      /\ w \in Jobs /\ Len(log) \in Nat \ {0} /\ DOMAIN log = 1..Len(log)
      /\ log[Len(log)] = [tick |-> w.tick, start |-> w.start, entries |-> w.entries,
                          offset |-> w.phys, len |-> Len(w.rec) - 1]
      /\ log[Len(log)] \in Bundles
  BY <1>1, <1>4, <1>5, FlipKeeps
<1>7. ~Flipping /\ ~WritingTable /\ Flipping' /\ ~WritingTable'
  BY <1>1, <1>4 DEF Flipping, WritingTable, Writing
<1>8. pointer.seq = 2 * Len(log) - 2 BY <1>1, <1>2, <1>7 DEF SeqInv
<1>9. LatestInv' BY <1>1, <1>4, <1>6 DEF LatestInv
<1>10. SeqInv'
  <2>1. \A k \in DOMAIN log : pointer'.seq # 2 * k BY <1>5, <1>6, <1>8
  <2>. QED BY <1>1, <1>4, <1>5, <1>6, <1>7, <1>8, <2>1 DEF SeqInv
<1>11. Grows BY <1>1, <1>5 DEF Grows
<1>. QED BY <1>6, <1>9, <1>10, <1>11 DEF WInv

\* One of the three fields of the pointer is written while the sequence is odd.
LEMMA PutKeeps ==
  ASSUME WInv, PutOffset \/ PutLen \/ PutTick
  PROVE  WInv' /\ Grows
<1>1. /\ w.at \in {"offset", "len", "tick"}
      /\ ring' = ring /\ meta_cursor' = meta_cursor /\ cursor' = cursor /\ log' = log
  BY DEF PutOffset, PutLen, PutTick, Flip
<1>2. TypeInv /\ SeqInv /\ LatestInv /\ w \in Jobs BY <1>1, Stages DEF WInv
<1>3. pointer \in [seq : Nat, offset : Nat, len : Nat, tick : Ticks \cup {NoTick}] BY <1>2 DEF TypeInv
<1>4. w.phys \in Nat /\ w.tick \in Ticks /\ w.rec \in Seq(Cell) BY <1>2 DEF Jobs
<1>5. Len(w.rec) - 1 \in Nat
  <2>1. Len(log) > 0 /\ log[Len(log)].len = Len(w.rec) - 1 BY <1>1, <1>2 DEF LatestInv, Flipping
  <2>2. Len(log) \in DOMAIN log /\ log \in Seq(Bundles) BY <1>2, <2>1 DEF TypeInv
  <2>3. log[Len(log)] \in Bundles BY <2>2
  <2>. QED BY <2>1, <2>3 DEF Bundles
<1>6. \/ w.at = "offset" /\ pointer' = [pointer EXCEPT !.offset = w.phys] /\ w' = [w EXCEPT !.at = "len"]
      \/ w.at = "len" /\ pointer' = [pointer EXCEPT !.len = Len(w.rec) - 1] /\ w' = [w EXCEPT !.at = "tick"]
      \/ w.at = "tick" /\ pointer' = [pointer EXCEPT !.tick = w.tick] /\ w' = [w EXCEPT !.at = "even"]
  BY DEF PutOffset, PutLen, PutTick, Flip
<1>7. /\ w' \in Jobs /\ w'.seq0 = w.seq0 /\ w'.tick = w.tick /\ w'.start = w.start
      /\ w'.entries = w.entries /\ w'.phys = w.phys /\ w'.rec = w.rec
      /\ w'.at = IF w.at = "offset" THEN "len" ELSE IF w.at = "len" THEN "tick" ELSE "even"
  BY <1>2, <1>6 DEF Jobs
<1>8. /\ pointer' \in [seq : Nat, offset : Nat, len : Nat, tick : Ticks \cup {NoTick}]
      /\ pointer'.seq = pointer.seq /\ pointer.seq \in Nat
  BY <1>3, <1>4, <1>5, <1>6
<1>9. w'.at \in {"len", "tick", "even"} BY <1>1, <1>7
<1>10. /\ TypeInv' /\ RecordInv' /\ SpansInv' /\ CellsInv' /\ TablesInv'
       /\ w \in Jobs /\ Len(log) \in Nat \ {0} /\ DOMAIN log = 1..Len(log)
       /\ log[Len(log)] = [tick |-> w.tick, start |-> w.start, entries |-> w.entries,
                           offset |-> w.phys, len |-> Len(w.rec) - 1]
       /\ log[Len(log)] \in Bundles
  BY <1>1, <1>7, <1>8, <1>9, FlipKeeps
<1>11. Flipping /\ Flipping' BY <1>1, <1>9 DEF Flipping
<1>12. pointer.seq = 2 * Len(log) - 1 /\ w.seq0 = pointer.seq - 1 BY <1>2, <1>11 DEF SeqInv
<1>13. LatestInv' BY <1>1, <1>7, <1>10 DEF LatestInv
<1>14. /\ w'.at \in {"len", "tick", "even"} => pointer'.offset = w'.phys
       /\ w'.at \in {"tick", "even"} => pointer'.len = Len(w'.rec) - 1
       /\ w'.at = "even" => pointer'.tick = w'.tick
  BY <1>1, <1>2, <1>3, <1>6, <1>7 DEF SeqInv
<1>15. SeqInv'
  <2>1. \A k \in DOMAIN log : pointer'.seq # 2 * k BY <1>8, <1>10, <1>12
  <2>. QED BY <1>1, <1>7, <1>8, <1>11, <1>12, <1>14, <2>1 DEF SeqInv
<1>16. Grows BY <1>1, <1>8 DEF Grows
<1>. QED BY <1>10, <1>13, <1>15, <1>16 DEF WInv

LEMMA SeqEvenKeeps ==
  ASSUME WInv, SeqEven
  PROVE  WInv' /\ Grows
<1>1. /\ w.at = "even" /\ pointer' = [pointer EXCEPT !.seq = w.seq0 + 2] /\ w' = Idle
      /\ ring' = ring /\ meta_cursor' = meta_cursor /\ cursor' = cursor /\ log' = log
  BY DEF SeqEven, Flip
<1>2. TypeInv /\ SeqInv /\ w \in Jobs BY <1>1, Stages DEF WInv
<1>3. pointer \in [seq : Nat, offset : Nat, len : Nat, tick : Ticks \cup {NoTick}] /\ w.seq0 \in Nat
  BY <1>2 DEF TypeInv, Jobs
<1>4. /\ pointer' \in [seq : Nat, offset : Nat, len : Nat, tick : Ticks \cup {NoTick}]
      /\ pointer'.seq = w.seq0 + 2 /\ pointer'.offset = pointer.offset
      /\ pointer'.len = pointer.len /\ pointer'.tick = pointer.tick
  BY <1>1, <1>3
<1>5. /\ TypeInv' /\ RecordInv' /\ SpansInv' /\ CellsInv' /\ TablesInv'
      /\ w \in Jobs /\ Len(log) \in Nat \ {0} /\ DOMAIN log = 1..Len(log)
      /\ log[Len(log)] = [tick |-> w.tick, start |-> w.start, entries |-> w.entries,
                          offset |-> w.phys, len |-> Len(w.rec) - 1]
      /\ log[Len(log)] \in Bundles
  BY <1>1, <1>4, FlipKeeps
<1>6. Flipping /\ ~Flipping' /\ ~WritingTable' /\ w'.at # "odd"
  BY <1>1 DEF Flipping, WritingTable, Writing, Idle
<1>7. pointer.seq = 2 * Len(log) - 1 /\ w.seq0 = pointer.seq - 1 /\ pointer'.seq = 2 * Len(log)
  BY <1>2, <1>3, <1>4, <1>5, <1>6 DEF SeqInv
<1>8. pointer.offset = w.phys /\ pointer.len = Len(w.rec) - 1 /\ pointer.tick = w.tick
  BY <1>1, <1>2 DEF SeqInv
<1>9. LatestInv' BY <1>6 DEF LatestInv
<1>10. SeqInv'
  <2>1. \A k \in DOMAIN log : pointer'.seq = 2 * k => k = Len(log) BY <1>5, <1>7
  <2>2. \A k \in DOMAIN log : pointer'.seq = 2 * k =>
          pointer'.offset = log[k].offset /\ pointer'.len = log[k].len /\ pointer'.tick = log[k].tick
    BY <1>4, <1>5, <1>8, <2>1
  <2>. QED BY <1>1, <1>6, <1>7, <2>2 DEF SeqInv, Flipping
<1>11. Grows BY <1>1, <1>3, <1>5, <1>7 DEF Grows
<1>. QED BY <1>5, <1>9, <1>10, <1>11 DEF WInv

LEMMA WriterKeeps ==
  ASSUME WInv, Writer
  PROVE  WInv' /\ Grows /\ r' = r
<1>1. CASE \E tick \in Ticks, frames \in Requests, bundle \in BOOLEAN : Begin(tick, frames, bundle)
  BY <1>1, BeginKeeps DEF Begin
<1>2. CASE WriteCell BY <1>2, WriteCellKeeps DEF WriteCell
<1>3. CASE StoreCursor BY <1>3, StoreCursorKeeps DEF StoreCursor
<1>4. CASE SeqOdd BY <1>4, SeqOddKeeps DEF SeqOdd
<1>5. CASE PutOffset \/ PutLen \/ PutTick BY <1>5, PutKeeps DEF PutOffset, PutLen, PutTick, Flip
<1>6. CASE SeqEven BY <1>6, SeqEvenKeeps DEF SeqEven, Flip
<1>. QED BY <1>1, <1>2, <1>3, <1>4, <1>5, <1>6 DEF Writer

\* What is not of the reader does not move.
LEMMA SilentKeeps ==
  ASSUME WInv, UNCHANGED <<ring, meta_cursor, pointer, cursor, w, log>>
  PROVE  WInv' /\ Grows
<1>1. TypeInv' BY DEF WInv, TypeInv
<1>2. RecordInv' BY DEF WInv, RecordInv, Writing, IsTable, At
<1>3. SpansInv' BY DEF WInv, SpansInv, Placed, Spans, At, Writing, Complete, IsTable
<1>4. LatestInv' /\ SeqInv' BY DEF WInv, LatestInv, SeqInv, WritingTable, Writing, Flipping, IsTable
<1>5. CellsInv' BY DEF WInv, CellsInv, Writing, Reach, Complete, IsTable, Whole, InRing
<1>6. TablesInv' BY DEF WInv, TablesInv, Listed
<1>7. Grows BY DEF WInv, TypeInv, Grows
<1>. QED BY <1>1, <1>2, <1>3, <1>4, <1>5, <1>6, <1>7 DEF WInv

LEMMA InitWriter ==
  ASSUME Init
  PROVE  WInv
<1>1. ring = [p \in Positions |-> Blank] /\ meta_cursor = 0 /\ cursor = Meta /\ w = Idle /\ log = <<>>
      /\ pointer = [seq |-> 0, offset |-> 0, len |-> 0, tick |-> 0]
  BY DEF Init
<1>2. Len(log) = 0 /\ DOMAIN log = {} /\ log \in Seq(Bundles) BY <1>1
<1>3. ~Writing /\ ~Flipping /\ ~WritingTable /\ w.at # "odd" BY <1>1 DEF Writing, Flipping, WritingTable, Idle
<1>4. Blank \in Cell /\ Blank.kind # "table" BY DEF Cell, Blank
<1>5. TypeInv BY <1>1, <1>2, <1>4, RingAssumption DEF TypeInv, NoTick
<1>6. TablesInv BY <1>1, <1>4 DEF TablesInv, Listed
<1>7. SeqInv BY <1>1, <1>2, <1>3 DEF SeqInv, Flipping
<1>8. RecordInv /\ LatestInv /\ SpansInv /\ CellsInv BY <1>2, <1>3 DEF RecordInv, LatestInv, SpansInv, CellsInv
<1>. QED BY <1>5, <1>6, <1>7, <1>8 DEF WInv
-----------------------------------------------------------------------------
(* The invariant of the reader.                                            *)

TickOrNone == Ticks \cup {NoTick}
Calls == [at : {"offset", "len", "tick", "seq", "table", "header", "payload", "valid", "delivered"},
          last : TickOrNone, verify : BOOLEAN, s1 : Nat, offset : Nat, len : Nat, ptick : TickOrNone,
          copy : Seq(Cell), bundle : Cell, got : Seq(Seq(Cell)), cells : Seq(Cell)]

ReaderType == r.last \in TickOrNone /\ (r = Resting(r.last) \/ r \in Calls)

\* While the sequence has not moved, what was read of the pointer is of the
\* bundle that the sequence counts.
SeqlockInv ==
  r.at \in {"offset", "len", "tick", "seq", "table"} =>
    \E k \in DOMAIN log :
      /\ r.s1 = 2 * k /\ r.s1 <= pointer.seq
      /\ r.at = "table" \/ pointer.seq = r.s1 =>
           /\ r.at \in {"len", "tick", "seq", "table"} => r.offset = log[k].offset
           /\ r.at \in {"tick", "seq", "table"} => r.len = log[k].len
           /\ r.at \in {"seq", "table"} => r.ptick = log[k].tick

\* What has been copied of a table came from the file.
CopyInv ==
  /\ r.at \in {"offset", "len", "tick", "seq", "table"} => r.got = <<>> /\ r.cells = <<>>
  /\ r.at \in {"offset", "len", "tick", "seq"} => r.copy = <<>>
  /\ r.at = "table" => Len(r.copy) < r.len /\ \A j \in DOMAIN r.copy : Listed(r.copy[j])

\* The bundle that is being read is one of the log, and what verify let pass is
\* what its table says.
BundleInv ==
  r.at \in {"header", "payload", "valid", "delivered"} =>
    /\ r.bundle.kind = "table" /\ Listed(r.bundle)
    /\ IF r.at \in {"header", "payload"}
       THEN Len(r.got) < Len(r.bundle.entries)
       ELSE Len(r.got) = Len(r.bundle.entries)
    /\ r.at = "header" => r.cells = <<>>
    /\ r.at = "payload" => Len(r.cells) < Entry.len
    /\ r.verify => \A e \in DOMAIN r.got :
         r.got[e] = Payload(r.bundle.entries[e].content, r.bundle.entries[e].len)

RInv == ReaderType /\ SeqlockInv /\ CopyInv /\ BundleInv

-----------------------------------------------------------------------------
(* The steps of the reader.                                                *)

LEMMA ReaderStages ==
  ASSUME ReaderType
  PROVE  /\ r.at \in {"idle", "offset", "len", "tick", "seq", "table", "header", "payload", "valid", "delivered"}
         /\ r.at # "idle" => r \in Calls
BY DEF ReaderType, Calls, Resting

\* The writer disturbs no reader.
LEMMA WriterLeavesReader ==
  ASSUME RInv, WInv, Grows, r' = r, pointer'.seq \in Nat
  PROVE  RInv'
<1>1. ReaderType' BY DEF RInv, ReaderType
<1>2. \A cell : Listed(cell) => Listed(cell)'
  <2>1. \A k \in DOMAIN log : k \in DOMAIN log' /\ log'[k] = log[k] BY DEF Grows
  <2>. QED BY <2>1 DEF Listed
<1>3. SeqlockInv'
  <2>1. pointer.seq \in Nat /\ pointer.seq <= pointer'.seq BY DEF WInv, TypeInv, Grows
  <2>. SUFFICES ASSUME r.at \in {"offset", "len", "tick", "seq", "table"} PROVE SeqlockInv'
    BY DEF SeqlockInv
  <2>2. r.s1 \in Nat BY ReaderStages DEF RInv, Calls
  <2>3. PICK k \in DOMAIN log :
          /\ r.s1 = 2 * k /\ r.s1 <= pointer.seq
          /\ r.at = "table" \/ pointer.seq = r.s1 =>
               /\ r.at \in {"len", "tick", "seq", "table"} => r.offset = log[k].offset
               /\ r.at \in {"tick", "seq", "table"} => r.len = log[k].len
               /\ r.at \in {"seq", "table"} => r.ptick = log[k].tick
    BY DEF RInv, SeqlockInv
  <2>4. r.s1 <= pointer'.seq /\ (pointer'.seq = r.s1 => pointer.seq = r.s1) BY <2>1, <2>2, <2>3
  <2>5. k \in DOMAIN log' /\ log'[k] = log[k] BY DEF Grows
  <2>. QED BY <2>3, <2>4, <2>5 DEF SeqlockInv
<1>4. CopyInv' BY <1>2 DEF RInv, CopyInv, Listed
<1>5. BundleInv' BY <1>2 DEF RInv, BundleInv, Listed, Entry
<1>. QED BY <1>1, <1>3, <1>4, <1>5 DEF RInv

\* A call that ends leaves nothing behind but the last tick.
LEMMA RestKeeps ==
  ASSUME NEW last \in TickOrNone, r' = Resting(last)
  PROVE  RInv'
<1>1. r'.at = "idle" /\ r'.last = last /\ r' = Resting(r'.last) BY DEF Resting
<1>2. ReaderType' BY <1>1 DEF ReaderType, Resting
<1>. QED BY <1>1, <1>2 DEF RInv, SeqlockInv, CopyInv, BundleInv

\* The call of a reader, at its first access.
LEMMA CallFacts ==
  ASSUME RInv, NEW verify \in BOOLEAN
  PROVE  /\ Call(verify) \in Calls /\ Call(verify).at = "offset"
         /\ Call(verify).copy = <<>> /\ Call(verify).got = <<>> /\ Call(verify).cells = <<>>
<1>1. Blank \in Cell BY DEF Cell
<1>2. r.last \in TickOrNone BY DEF RInv, ReaderType
<1>3. 0 \in TickOrNone BY DEF TickOrNone, NoTick
<1>. QED BY <1>1, <1>2, <1>3 DEF Call, Calls

LEMMA ReadSeqKeeps ==
  ASSUME WInv, RInv, NEW verify \in Checks, ReadSeq(verify)
  PROVE  RInv'
<1>1. /\ pointer.seq # 0 /\ pointer.seq % 2 = 0 /\ r' = [Call(verify) EXCEPT !.s1 = pointer.seq]
      /\ pointer' = pointer /\ log' = log
  BY DEF ReadSeq, Silent
<1>2. verify \in BOOLEAN BY RingAssumption
<1>3. pointer.seq \in Nat /\ log \in Seq(Bundles) BY DEF WInv, TypeInv
<1>4. Len(log) \in Nat /\ DOMAIN log = 1..Len(log) BY <1>3, LenProperties
<1>5. /\ r' \in Calls /\ r'.at = "offset" /\ r'.s1 = pointer.seq
      /\ r'.copy = <<>> /\ r'.got = <<>> /\ r'.cells = <<>>
  BY <1>1, <1>2, <1>3, CallFacts DEF Calls
<1>6. pointer.seq <= 2 * Len(log) BY <1>3, <1>4 DEF WInv, SeqInv
<1>7. PICK k \in Nat : pointer.seq = 2 * k
  <2>1. pointer.seq = 2 * (pointer.seq \div 2) /\ pointer.seq \div 2 \in Nat BY <1>1, <1>3
  <2>. QED BY <2>1
<1>8. k \in DOMAIN log BY <1>1, <1>4, <1>6, <1>7
<1>9. SeqlockInv' BY <1>1, <1>3, <1>5, <1>7, <1>8 DEF SeqlockInv
<1>10. ReaderType' BY <1>5 DEF ReaderType, Calls
<1>11. CopyInv' /\ BundleInv' BY <1>5 DEF CopyInv, BundleInv
<1>. QED BY <1>9, <1>10, <1>11 DEF RInv

\* The fields of the pointer, read one by one.
LEMMA ReadFieldKeeps ==
  ASSUME WInv, RInv, ReadOffset \/ ReadLen \/ ReadTick
  PROVE  RInv'
<1>1. r.at \in {"offset", "len", "tick"} /\ pointer' = pointer /\ log' = log
  BY DEF ReadOffset, ReadLen, ReadTick, Silent
<1>2. r \in Calls BY <1>1, ReaderStages DEF RInv
<1>3. pointer \in [seq : Nat, offset : Nat, len : Nat, tick : Ticks \cup {NoTick}] BY DEF WInv, TypeInv
<1>4. \/ r.at = "offset" /\ r' = [r EXCEPT !.at = "len", !.offset = pointer.offset]
      \/ r.at = "len" /\ r' = [r EXCEPT !.at = "tick", !.len = pointer.len]
      \/ r.at = "tick" /\ r' = [r EXCEPT !.at = "seq", !.ptick = pointer.tick]
  BY DEF ReadOffset, ReadLen, ReadTick
<1>5. /\ r' \in Calls /\ r'.s1 = r.s1 /\ r'.copy = r.copy /\ r'.got = r.got /\ r'.cells = r.cells
      /\ r'.at = IF r.at = "offset" THEN "len" ELSE IF r.at = "len" THEN "tick" ELSE "seq"
      /\ r'.offset = IF r.at = "offset" THEN pointer.offset ELSE r.offset
      /\ r'.len = IF r.at = "len" THEN pointer.len ELSE r.len
      /\ r'.ptick = IF r.at = "tick" THEN pointer.tick ELSE r.ptick
  <2>1. pointer.offset \in Nat /\ pointer.len \in Nat /\ pointer.tick \in TickOrNone BY <1>3 DEF TickOrNone
  <2>2. CASE r.at = "offset" BY <1>2, <1>4, <2>1, <2>2 DEF Calls
  <2>3. CASE r.at = "len" BY <1>2, <1>4, <2>1, <2>3 DEF Calls
  <2>4. CASE r.at = "tick" BY <1>2, <1>4, <2>1, <2>4 DEF Calls
  <2>. QED BY <1>1, <2>2, <2>3, <2>4
<1>6. PICK k \in DOMAIN log :
        /\ r.s1 = 2 * k /\ r.s1 <= pointer.seq
        /\ r.at = "table" \/ pointer.seq = r.s1 =>
             /\ r.at \in {"len", "tick", "seq", "table"} => r.offset = log[k].offset
             /\ r.at \in {"tick", "seq", "table"} => r.len = log[k].len
             /\ r.at \in {"seq", "table"} => r.ptick = log[k].tick
  BY <1>1 DEF RInv, SeqlockInv
<1>7. pointer.seq = 2 * k =>
        pointer.offset = log[k].offset /\ pointer.len = log[k].len /\ pointer.tick = log[k].tick
  BY DEF WInv, SeqInv
<1>8. SeqlockInv'
  <2>1. r'.at # "table" BY <1>1, <1>5
  <2>2. pointer.seq = r.s1 =>
          /\ r'.at \in {"len", "tick", "seq"} => r'.offset = log[k].offset
          /\ r'.at \in {"tick", "seq"} => r'.len = log[k].len
          /\ r'.at = "seq" => r'.ptick = log[k].tick
    BY <1>1, <1>5, <1>6, <1>7
  <2>. QED BY <1>1, <1>5, <1>6, <2>1, <2>2 DEF SeqlockInv
<1>9. ReaderType' BY <1>5 DEF ReaderType, Calls
<1>10. CopyInv' /\ BundleInv' BY <1>1, <1>5 DEF RInv, CopyInv, BundleInv
<1>. QED BY <1>8, <1>9, <1>10 DEF RInv

\* The second read of the sequence decides whether the pointer is of one piece.
LEMMA ReReadSeqKeeps ==
  ASSUME WInv, RInv, ReReadSeq
  PROVE  RInv'
<1>1. r.at = "seq" /\ pointer' = pointer /\ log' = log BY DEF ReReadSeq, Silent
<1>2. r \in Calls /\ r.last \in TickOrNone BY <1>1, ReaderStages DEF RInv, ReaderType
<1>3. CASE r' = Resting(r.last) BY <1>2, <1>3, RestKeeps
<1>4. CASE r.s1 = pointer.seq /\ r' = [r EXCEPT !.at = "table"]
  <2>1. /\ r' \in Calls /\ r'.at = "table" /\ r'.s1 = r.s1 /\ r'.offset = r.offset /\ r'.len = r.len
        /\ r'.ptick = r.ptick /\ r'.copy = r.copy /\ r'.got = r.got /\ r'.cells = r.cells
    BY <1>2, <1>4 DEF Calls
  <2>2. PICK k \in DOMAIN log :
          /\ r.s1 = 2 * k /\ r.s1 <= pointer.seq
          /\ r.offset = log[k].offset /\ r.len = log[k].len /\ r.ptick = log[k].tick
    BY <1>1, <1>4 DEF RInv, SeqlockInv
  <2>3. log[k].len = Len(log[k].entries) + 1 /\ log[k].entries \in Seq(EntryType)
    <3>1. meta_cursor \in Nat BY DEF WInv, TypeInv
    <3>. QED BY <3>1, LogLater
  <2>4. Len(<<>>) < r.len BY <2>2, <2>3, LenProperties
  <2>5. SeqlockInv' BY <1>1, <2>1, <2>2 DEF SeqlockInv
  <2>6. CopyInv' BY <1>1, <2>1, <2>4 DEF RInv, CopyInv
  <2>7. ReaderType' BY <2>1 DEF ReaderType, Calls
  <2>8. BundleInv' BY <2>1 DEF BundleInv
  <2>. QED BY <2>5, <2>6, <2>7, <2>8 DEF RInv
<1>. QED BY <1>3, <1>4 DEF ReReadSeq, GiveUp, Move

LEMMA LocateKeeps ==
  ASSUME WInv, RInv, NEW k \in DOMAIN log, Locate(k)
  PROVE  RInv'
<1>1. /\ 2 * k <= pointer.seq /\ pointer' = pointer /\ log' = log
      /\ r' = [Call(TRUE) EXCEPT !.at = "table", !.s1 = 2 * k, !.offset = log[k].offset,
                                 !.len = log[k].len, !.ptick = log[k].tick]
  BY DEF Locate, Silent
<1>2. /\ log[k].tick \in Ticks /\ log[k].offset \in Nat /\ log[k].len \in Nat
      /\ log[k].len = Len(log[k].entries) + 1 /\ log[k].entries \in Seq(EntryType)
  <2>1. meta_cursor \in Nat BY DEF WInv, TypeInv
  <2>. QED BY <2>1, LogLater, SMTT(30)
<1>3. k \in Nat /\ 2 * k \in Nat BY DEF WInv, TypeInv
<1>4. /\ r' \in Calls /\ r'.at = "table" /\ r'.s1 = 2 * k /\ r'.offset = log[k].offset /\ r'.len = log[k].len
      /\ r'.ptick = log[k].tick /\ r'.copy = <<>> /\ r'.got = <<>> /\ r'.cells = <<>>
  <2>. DEFINE verified == TRUE
              call == Call(verified)
  <2>1. verified \in BOOLEAN OBVIOUS
  <2>2. r' = [call EXCEPT !.at = "table", !.s1 = 2 * k, !.offset = log[k].offset,
                          !.len = log[k].len, !.ptick = log[k].tick]
    BY <1>1
  <2>. HIDE DEF verified
  <2>3. call \in Calls /\ call.copy = <<>> /\ call.got = <<>> /\ call.cells = <<>> BY <2>1, CallFacts
  <2>4. log[k].tick \in TickOrNone BY <1>2 DEF TickOrNone
  <2>. HIDE DEF call
  <2>. QED BY <1>2, <1>3, <2>2, <2>3, <2>4 DEF Calls
<1>5. Len(<<>>) < log[k].len BY <1>2, LenProperties
<1>6. SeqlockInv'
  <2>1. k \in DOMAIN log' /\ log'[k] = log[k] /\ r'.s1 <= pointer'.seq BY <1>1, <1>4
  <2>. QED BY <1>4, <2>1 DEF SeqlockInv
<1>7. CopyInv'
  <2>1. Len(r'.copy) < r'.len /\ DOMAIN r'.copy = {} BY <1>4, <1>5
  <2>. QED BY <1>4, <2>1 DEF CopyInv
<1>8. ReaderType' /\ BundleInv' BY <1>4 DEF ReaderType, Calls, BundleInv
<1>. QED BY <1>6, <1>7, <1>8 DEF RInv
\* The cells of a bundle of the log lie in the file.
LEMMA ListedInFile ==
  ASSUME WInv, NEW k \in DOMAIN log, NEW n \in DOMAIN log[k].entries
  PROVE  LET e == log[k].entries[n]
         IN  /\ e \in EntryType /\ e.offset \in Nat /\ e.len \in Nat /\ e.len > 0
             /\ \A j \in Nat : j < e.len => e.offset + j \in Positions
<1>. DEFINE e == log[k].entries[n]
<1>1. /\ log[k].entries \in Seq(EntryType)
      /\ Placed(log[k].start, log[k].entries, meta_cursor)
  <2>1. meta_cursor \in Nat BY DEF WInv, TypeInv
  <2>. QED BY <2>1, LogLater
<1>2. e \in EntryType BY <1>1
<1>3. e.offset \in Nat /\ e.len \in Nat BY <1>2 DEF EntryType
<1>4. e.len > 0 /\ Meta <= e.offset - 1 /\ (e.offset - 1) + (e.len + 1) <= Capacity
  BY <1>1 DEF Placed, Spans
<1>. HIDE DEF e
<1>5. \A j \in Nat : j < e.len => e.offset + j \in Positions
  BY <1>3, <1>4, RingAssumption DEF Positions
<1>. QED BY <1>2, <1>3, <1>4, <1>5 DEF e

\* The table is copied, cell by cell, and then decoded.
LEMMA ReadTableKeeps ==
  ASSUME WInv, RInv, ReadTable
  PROVE  RInv'
<1>. DEFINE cell == ring[r.offset + 1 + Len(r.copy)]
            copy == Append(r.copy, cell)
<1>1. r.at = "table" /\ pointer' = pointer /\ log' = log BY DEF ReadTable, Silent
<1>2. r \in Calls /\ r.last \in TickOrNone BY <1>1, ReaderStages DEF RInv, ReaderType
<1>3. r.copy \in Seq(Cell) /\ r.verify \in BOOLEAN /\ r.len \in Nat /\ Len(r.copy) \in Nat /\ DOMAIN r.copy = 1..Len(r.copy)
  BY <1>2, LenProperties DEF Calls
<1>4. /\ r.got = <<>> /\ r.cells = <<>> /\ Len(r.copy) < r.len /\ \A j \in DOMAIN r.copy : Listed(r.copy[j])
  BY <1>1 DEF RInv, CopyInv
<1>5. PICK k \in DOMAIN log :
        /\ r.s1 = 2 * k /\ r.s1 <= pointer.seq
        /\ r.offset = log[k].offset /\ r.len = log[k].len /\ r.ptick = log[k].tick
  BY <1>1 DEF RInv, SeqlockInv
<1>6. log[k].offset \in Nat /\ Meta <= log[k].offset /\ log[k].offset + log[k].len < Capacity
  <2>1. meta_cursor \in Nat BY DEF WInv, TypeInv
  <2>. QED BY <2>1, LogLater
<1>7. r.offset + 1 + Len(r.copy) \in Positions
  BY <1>3, <1>4, <1>5, <1>6, RingAssumption, SMTT(30) DEF Positions
<1>8. cell \in Cell /\ Listed(cell) BY <1>7 DEF WInv, TypeInv, TablesInv
<1>. HIDE DEF cell
<1>9. /\ copy \in Seq(Cell) /\ Len(copy) = Len(r.copy) + 1
      /\ \A j \in 1..Len(r.copy) : copy[j] = r.copy[j]
      /\ copy[Len(r.copy) + 1] = cell
  BY <1>3, <1>8, AppendProperties
<1>10. DOMAIN copy = 1..(Len(r.copy) + 1) BY <1>9, LenProperties
<1>11. \A j \in DOMAIN copy : Listed(copy[j]) /\ copy[j] \in Cell
  <2>1. \A j \in DOMAIN copy : j \in DOMAIN r.copy \/ j = Len(r.copy) + 1 BY <1>3, <1>10
  <2>2. \A j \in DOMAIN r.copy : copy[j] = r.copy[j] BY <1>3, <1>9
  <2>3. \A j \in DOMAIN r.copy : r.copy[j] \in Cell BY <1>3
  <2>. QED BY <1>4, <1>8, <1>9, <2>1, <2>2, <2>3
<1>. HIDE DEF copy
<1>12. CASE Len(copy) < r.len /\ r' = [r EXCEPT !.copy = copy]
  <2>1. /\ r' \in Calls /\ r'.at = "table" /\ r'.s1 = r.s1 /\ r'.offset = r.offset /\ r'.len = r.len
        /\ r'.ptick = r.ptick /\ r'.copy = copy /\ r'.got = r.got /\ r'.cells = r.cells
    BY <1>1, <1>2, <1>9, <1>12 DEF Calls
  <2>2. SeqlockInv'
    <3>1. k \in DOMAIN log' /\ log'[k] = log[k] /\ r'.s1 <= pointer'.seq BY <1>1, <1>5, <2>1
    <3>. QED BY <1>5, <2>1, <3>1 DEF SeqlockInv
  <2>3. CopyInv'
    <3>1. \A j \in DOMAIN r'.copy : Listed(r.copy[j])' BY <1>1, <1>11, <2>1 DEF Listed
    <3>. QED BY <1>4, <1>12, <2>1, <3>1 DEF CopyInv, Listed
  <2>4. ReaderType' /\ BundleInv' BY <2>1 DEF ReaderType, Calls, BundleInv
  <2>. QED BY <2>2, <2>3, <2>4 DEF RInv
<1>13. CASE ~Decodes(copy) /\ Torn
  <2>1. r' = Resting(IF r.verify THEN r.last ELSE NoTick) BY <1>13 DEF Torn
  <2>2. (IF r.verify THEN r.last ELSE NoTick) \in TickOrNone BY <1>2 DEF TickOrNone
  <2>. QED BY <2>1, <2>2, RestKeeps
<1>14. CASE /\ Decodes(copy)
            /\ r' = [r EXCEPT !.at = IF r.verify THEN "header" ELSE "payload",
                              !.copy = <<>>, !.bundle = copy[1],
                              !.last = IF r.verify THEN @ ELSE copy[1].tick]
  <2>. DEFINE first == copy[1]
              stage == IF r.verify THEN "header" ELSE "payload"
              tick == IF r.verify THEN r.last ELSE first.tick
  <2>1. first.kind = "table" BY <1>14 DEF Decodes
  <2>2. 1 \in DOMAIN copy BY <1>3, <1>10
  <2>3. first \in Cell /\ Listed(first) BY <1>11, <2>2
  <2>. HIDE DEF first
  <2>4. PICK m \in DOMAIN log : first = TableCell(log[m].tick, log[m].start, log[m].entries)
    BY <2>1, <2>3 DEF Listed
  <2>5. first.tick = log[m].tick /\ first.entries = log[m].entries BY <2>4 DEF TableCell
  <2>6. log[m].tick \in Ticks /\ log[m].entries \in Seq(EntryType) /\ log[m].entries # <<>>
    <3>1. meta_cursor \in Nat BY DEF WInv, TypeInv
    <3>. QED BY <3>1, LogLater
  <2>7. 1 \in DOMAIN log[m].entries /\ Len(log[m].entries) > 0 BY <2>6, EmptySeq, LenProperties
  <2>8. log[m].entries[1].len > 0 BY <2>7, ListedInFile
  <2>9. stage \in {"header", "payload"} /\ tick \in TickOrNone BY <1>2, <2>5, <2>6 DEF TickOrNone
  <2>10. r' = [r EXCEPT !.at = stage, !.copy = <<>>, !.bundle = first, !.last = tick]
    BY <1>14 DEF first
  <2>. HIDE DEF stage, tick
  <2>11. /\ r' \in Calls /\ r'.at = stage /\ r'.bundle = first /\ r'.got = <<>> /\ r'.cells = <<>>
    BY <1>2, <1>4, <2>3, <2>9, <2>10 DEF Calls
  <2>12. Listed(r.bundle)' BY <1>1, <2>3, <2>11 DEF Listed
  <2>13. Len(r'.got) = 0 /\ DOMAIN r'.got = {} /\ Len(r'.cells) = 0 BY <2>11
  <2>14. Entry' = log[m].entries[1] BY <2>5, <2>11, <2>13 DEF Entry
  <2>15. BundleInv'
    <3>1. Len(r'.got) < Len(r'.bundle.entries) BY <2>5, <2>7, <2>11, <2>13
    <3>2. Len(r'.cells) < Entry'.len BY <2>8, <2>13, <2>14
    <3>. QED BY <2>1, <2>9, <2>11, <2>12, <2>13, <3>1, <3>2 DEF BundleInv, Listed
  <2>16. SeqlockInv' /\ CopyInv' BY <2>9, <2>11 DEF SeqlockInv, CopyInv
  <2>17. ReaderType' BY <2>11 DEF ReaderType, Calls
  <2>. QED BY <2>15, <2>16, <2>17 DEF RInv
<1>15. IF Len(copy) < r.len
       THEN r' = [r EXCEPT !.copy = copy]
       ELSE IF ~Decodes(copy)
       THEN Torn
       ELSE r' = [r EXCEPT !.at = IF r.verify THEN "header" ELSE "payload",
                           !.copy = <<>>, !.bundle = copy[1],
                           !.last = IF r.verify THEN @ ELSE copy[1].tick]
  BY DEF ReadTable, copy, cell
<1>. QED BY <1>12, <1>13, <1>14, <1>15
\* The frame read next is one of a bundle of the log.
LEMMA EntryFacts ==
  ASSUME WInv, RInv, r.at \in {"header", "payload"}
  PROVE  /\ r \in Calls /\ r.last \in TickOrNone
         /\ \E k \in DOMAIN log :
              /\ r.bundle = TableCell(log[k].tick, log[k].start, log[k].entries)
              /\ Len(r.got) + 1 \in DOMAIN log[k].entries
              /\ Entry = log[k].entries[Len(r.got) + 1]
              /\ DOMAIN log[k].entries = 1..Len(log[k].entries) /\ Len(log[k].entries) \in Nat
<1>1. r \in Calls /\ r.last \in TickOrNone BY ReaderStages DEF RInv, ReaderType
<1>2. r.got \in Seq(Seq(Cell)) /\ Len(r.got) \in Nat BY <1>1, LenProperties DEF Calls
<1>3. r.bundle.kind = "table" /\ Listed(r.bundle) /\ Len(r.got) < Len(r.bundle.entries)
  BY DEF RInv, BundleInv
<1>4. PICK k \in DOMAIN log : r.bundle = TableCell(log[k].tick, log[k].start, log[k].entries)
  BY <1>3 DEF Listed
<1>5. r.bundle.entries = log[k].entries BY <1>4 DEF TableCell
<1>6. log[k].entries \in Seq(EntryType)
  <2>1. meta_cursor \in Nat BY DEF WInv, TypeInv
  <2>. QED BY <2>1, LogLater
<1>7. DOMAIN log[k].entries = 1..Len(log[k].entries) /\ Len(log[k].entries) \in Nat BY <1>6, LenProperties
<1>8. Len(r.got) + 1 \in DOMAIN log[k].entries BY <1>2, <1>3, <1>5, <1>7
<1>. QED BY <1>1, <1>4, <1>5, <1>7, <1>8 DEF Entry

LEMMA CheckHeaderKeeps ==
  ASSUME WInv, RInv, CheckHeader
  PROVE  RInv'
<1>1. r.at = "header" /\ pointer' = pointer /\ log' = log BY DEF CheckHeader, Silent
<1>2. r \in Calls /\ r.last \in TickOrNone /\ r.verify \in BOOLEAN BY <1>1, EntryFacts DEF Calls
<1>3. CASE Torn
  <2>1. r' = Resting(IF r.verify THEN r.last ELSE NoTick) BY <1>3 DEF Torn
  <2>2. (IF r.verify THEN r.last ELSE NoTick) \in TickOrNone BY <1>2 DEF TickOrNone
  <2>. QED BY <2>1, <2>2, RestKeeps
<1>4. CASE r' = [r EXCEPT !.at = "payload"]
  <2>1. /\ r' \in Calls /\ r'.at = "payload" /\ r'.bundle = r.bundle /\ r'.got = r.got /\ r'.cells = r.cells
        /\ r'.verify = r.verify
    BY <1>2, <1>4 DEF Calls
  <2>2. PICK k \in DOMAIN log :
          /\ r.bundle = TableCell(log[k].tick, log[k].start, log[k].entries)
          /\ Len(r.got) + 1 \in DOMAIN log[k].entries
          /\ Entry = log[k].entries[Len(r.got) + 1]
    BY <1>1, EntryFacts
  <2>3. Entry.len > 0 BY <2>2, ListedInFile
  <2>4. Len(r.cells) = 0 BY <1>1 DEF RInv, BundleInv
  <2>5. Entry' = Entry BY <2>1 DEF Entry
  <2>6. Listed(r.bundle)' BY <1>1, <2>1 DEF RInv, BundleInv, Listed
  <2>7. BundleInv' BY <1>1, <2>1, <2>3, <2>4, <2>5, <2>6 DEF RInv, BundleInv, Listed
  <2>8. SeqlockInv' /\ CopyInv' /\ ReaderType' BY <2>1 DEF SeqlockInv, CopyInv, ReaderType, Calls
  <2>. QED BY <2>7, <2>8 DEF RInv
<1>. QED BY <1>3, <1>4 DEF CheckHeader, Move

\* What verify lets pass is the payload that the table promises.
LEMMA ReadPayloadKeeps ==
  ASSUME WInv, RInv, ReadPayload
  PROVE  RInv'
<1>. DEFINE cell == ring[Entry.offset + Len(r.cells)]
            cells == Append(r.cells, cell)
            got == Append(r.got, cells)
            stage == IF Len(got) = Len(r.bundle.entries) THEN "valid"
                     ELSE IF r.verify THEN "header" ELSE "payload"
<1>1. r.at = "payload" /\ pointer' = pointer /\ log' = log BY DEF ReadPayload, Silent
<1>2. r \in Calls /\ r.last \in TickOrNone BY <1>1, EntryFacts
<1>3. /\ r.cells \in Seq(Cell) /\ Len(r.cells) \in Nat /\ r.got \in Seq(Seq(Cell)) /\ Len(r.got) \in Nat
      /\ DOMAIN r.got = 1..Len(r.got) /\ r.verify \in BOOLEAN
  BY <1>2, LenProperties DEF Calls
<1>4. PICK k \in DOMAIN log :
        /\ r.bundle = TableCell(log[k].tick, log[k].start, log[k].entries)
        /\ Len(r.got) + 1 \in DOMAIN log[k].entries
        /\ Entry = log[k].entries[Len(r.got) + 1]
        /\ DOMAIN log[k].entries = 1..Len(log[k].entries) /\ Len(log[k].entries) \in Nat
  BY <1>1, EntryFacts
<1>5. r.bundle.entries = log[k].entries /\ r.bundle.kind = "table" BY <1>4 DEF TableCell
<1>6. Len(r.cells) < Entry.len BY <1>1 DEF RInv, BundleInv
<1>7. Entry.offset + Len(r.cells) \in Positions BY <1>3, <1>4, <1>6, ListedInFile
<1>8. cell \in Cell BY <1>7 DEF WInv, TypeInv
<1>. HIDE DEF cell
<1>9. cells \in Seq(Cell) BY <1>3, <1>8, AppendProperties
<1>. HIDE DEF cells
<1>10. /\ got \in Seq(Seq(Cell)) /\ Len(got) = Len(r.got) + 1
       /\ \A j \in 1..Len(r.got) : got[j] = r.got[j]
       /\ got[Len(r.got) + 1] = cells
  BY <1>3, <1>9, AppendProperties
<1>11. DOMAIN got = 1..(Len(r.got) + 1) BY <1>10, LenProperties
<1>. HIDE DEF got
<1>13. r.verify => \A e \in DOMAIN r.got :
         r.got[e] = Payload(r.bundle.entries[e].content, r.bundle.entries[e].len)
  BY <1>1 DEF RInv, BundleInv
<1>14. CASE Len(cells) < Entry.len /\ r' = [r EXCEPT !.cells = cells]
  <2>1. /\ r' \in Calls /\ r'.at = "payload" /\ r'.bundle = r.bundle /\ r'.got = r.got /\ r'.cells = cells
        /\ r'.verify = r.verify
    BY <1>1, <1>2, <1>9, <1>14 DEF Calls
  <2>2. Entry' = Entry BY <2>1 DEF Entry
  <2>3. Listed(r.bundle)' BY <1>1, <2>1 DEF RInv, BundleInv, Listed
  <2>4. BundleInv' BY <1>1, <1>14, <2>1, <2>2, <2>3 DEF RInv, BundleInv, Listed
  <2>5. SeqlockInv' /\ CopyInv' /\ ReaderType' BY <2>1 DEF SeqlockInv, CopyInv, ReaderType, Calls
  <2>. QED BY <2>4, <2>5 DEF RInv
<1>15. CASE Torn
  <2>1. r' = Resting(IF r.verify THEN r.last ELSE NoTick) BY <1>15 DEF Torn
  <2>2. (IF r.verify THEN r.last ELSE NoTick) \in TickOrNone BY <1>2 DEF TickOrNone
  <2>. QED BY <2>1, <2>2, RestKeeps
<1>16. CASE /\ ~(r.verify /\ ~DigestMatches(cells))
            /\ r' = [r EXCEPT !.cells = <<>>, !.got = got, !.at = stage]
  <2>1. stage \in {"valid", "header", "payload"} BY DEF stage
  <2>2. stage = "valid" <=> Len(got) = Len(r.bundle.entries) BY DEF stage
  <2>. HIDE DEF stage
  <2>3. /\ r' \in Calls /\ r'.at = stage /\ r'.bundle = r.bundle /\ r'.got = got /\ r'.cells = <<>>
        /\ r'.verify = r.verify
    <3>1. r' = [r EXCEPT !.cells = <<>>, !.got = got, !.at = stage] BY <1>16
    <3>2. got \in Seq(Seq(Cell)) /\ <<>> \in Seq(Cell) BY <1>10
    <3>. QED BY <1>2, <2>1, <3>1, <3>2 DEF Calls
  <2>4. Listed(r.bundle)' BY <1>1, <2>3 DEF RInv, BundleInv, Listed
  <2>5. IF stage \in {"header", "payload"} THEN Len(got) < Len(r.bundle.entries)
        ELSE Len(got) = Len(r.bundle.entries)
    BY <1>3, <1>4, <1>5, <1>10, <2>1, <2>2, SMTT(30)
  <2>6. stage = "payload" => Len(r'.cells) < Entry'.len
    <3>. SUFFICES ASSUME stage = "payload" PROVE Len(r'.cells) < Entry'.len OBVIOUS
    <3>1. Len(got) + 1 \in DOMAIN log[k].entries BY <1>3, <1>4, <1>5, <1>10, <2>5
    <3>2. Entry' = log[k].entries[Len(got) + 1] BY <1>5, <2>3 DEF Entry
    <3>3. Entry'.len > 0 BY <3>1, <3>2, ListedInFile
    <3>. QED BY <2>3, <3>3
  <2>7. r.verify => \A e \in DOMAIN got :
          got[e] = Payload(r.bundle.entries[e].content, r.bundle.entries[e].len)
    <3>. SUFFICES ASSUME r.verify, NEW e \in DOMAIN got
                  PROVE  got[e] = Payload(r.bundle.entries[e].content, r.bundle.entries[e].len)
      OBVIOUS
    <3>1. CASE e \in DOMAIN r.got BY <1>3, <1>10, <1>13, <3>1
    <3>2. CASE e = Len(r.got) + 1
      <4>1. cells = Payload(Entry.content, Entry.len) BY <1>16 DEF DigestMatches
      <4>. QED BY <1>4, <1>5, <1>10, <3>2, <4>1
    <3>. QED BY <1>3, <1>11, <3>1, <3>2
  <2>8. BundleInv' BY <1>5, <2>1, <2>3, <2>4, <2>5, <2>6, <2>7 DEF BundleInv, Listed
  <2>9. SeqlockInv' /\ CopyInv' /\ ReaderType' BY <2>1, <2>3 DEF SeqlockInv, CopyInv, ReaderType, Calls
  <2>. QED BY <2>8, <2>9 DEF RInv
<1>17. IF Len(cells) < Entry.len
       THEN r' = [r EXCEPT !.cells = cells]
       ELSE IF r.verify /\ ~DigestMatches(cells)
       THEN Torn
       ELSE r' = [r EXCEPT !.cells = <<>>, !.got = got, !.at = stage]
  BY DEF ReadPayload, got, cells, cell
<1>. QED BY <1>14, <1>15, <1>16, <1>17

\* still_valid, and the end of a consumer's use.
LEMMA FinishKeeps ==
  ASSUME WInv, RInv, StillValid \/ Release
  PROVE  RInv'
<1>1. r.at \in {"valid", "delivered"} /\ log' = log BY DEF StillValid, Release, Silent
<1>2. r \in Calls /\ r.last \in TickOrNone BY <1>1, ReaderStages DEF RInv, ReaderType
<1>3. CASE r' = Resting(r.last) BY <1>2, <1>3, RestKeeps
<1>4. CASE r.at = "valid" /\ r' = [r EXCEPT !.at = "delivered"]
  <2>1. /\ r' \in Calls /\ r'.at = "delivered" /\ r'.bundle = r.bundle /\ r'.got = r.got /\ r'.verify = r.verify
    BY <1>2, <1>4 DEF Calls
  <2>2. Listed(r.bundle)' BY <1>1, <2>1 DEF RInv, BundleInv, Listed
  <2>3. BundleInv' BY <1>4, <2>1, <2>2 DEF RInv, BundleInv, Listed
  <2>4. SeqlockInv' /\ CopyInv' /\ ReaderType' BY <2>1 DEF SeqlockInv, CopyInv, ReaderType, Calls
  <2>. QED BY <2>3, <2>4 DEF RInv
<1>. QED BY <1>3, <1>4 DEF StillValid, Release, GiveUp, Move

LEMMA ReaderKeeps ==
  ASSUME WInv, RInv, Reader
  PROVE  RInv' /\ UNCHANGED <<ring, meta_cursor, pointer, cursor, w, log>>
<1>1. CASE \E verify \in Checks : ReadSeq(verify) BY <1>1, ReadSeqKeeps DEF ReadSeq, Silent
<1>2. CASE ReadOffset \/ ReadLen \/ ReadTick BY <1>2, ReadFieldKeeps DEF ReadOffset, ReadLen, ReadTick, Silent
<1>3. CASE ReReadSeq BY <1>3, ReReadSeqKeeps DEF ReReadSeq, Silent
<1>4. CASE TRUE \in Checks /\ \E k \in DOMAIN log : Locate(k) BY <1>4, LocateKeeps DEF Locate, Silent
<1>5. CASE ReadTable BY <1>5, ReadTableKeeps DEF ReadTable, Silent
<1>6. CASE CheckHeader BY <1>6, CheckHeaderKeeps DEF CheckHeader, Silent
<1>7. CASE ReadPayload BY <1>7, ReadPayloadKeeps DEF ReadPayload, Silent
<1>8. CASE StillValid \/ Release BY <1>8, FinishKeeps DEF StillValid, Release, Silent
<1>. QED BY <1>1, <1>2, <1>3, <1>4, <1>5, <1>6, <1>7, <1>8 DEF Reader

-----------------------------------------------------------------------------
(* The theorems.                                                           *)

IInv == WInv /\ RInv

LEMMA IInvInit == Init => IInv
<1>. SUFFICES ASSUME Init PROVE IInv OBVIOUS
<1>1. r = Resting(NoTick) BY DEF Init
<1>2. r.at = "idle" /\ r.last = NoTick /\ NoTick \in TickOrNone BY <1>1 DEF Resting, TickOrNone
<1>3. ReaderType BY <1>1, <1>2 DEF ReaderType
<1>4. SeqlockInv /\ CopyInv /\ BundleInv BY <1>2 DEF SeqlockInv, CopyInv, BundleInv
<1>. QED BY <1>3, <1>4, InitWriter DEF IInv, RInv

LEMMA IInvNext == IInv /\ [Next]_vars => IInv'
<1>. SUFFICES ASSUME IInv, [Next]_vars PROVE IInv' OBVIOUS
<1>1. CASE Writer
  <2>1. WInv' /\ Grows /\ r' = r BY <1>1, WriterKeeps DEF IInv
  <2>2. pointer'.seq \in Nat BY <2>1 DEF WInv, TypeInv
  <2>. QED BY <2>1, <2>2, WriterLeavesReader DEF IInv
<1>2. CASE Reader
  <2>1. RInv' /\ UNCHANGED <<ring, meta_cursor, pointer, cursor, w, log>> BY <1>2, ReaderKeeps DEF IInv
  <2>. QED BY <2>1, SilentKeeps DEF IInv
<1>3. CASE UNCHANGED vars
  <2>1. UNCHANGED <<ring, meta_cursor, pointer, cursor, w, log>> /\ r' = r BY <1>3 DEF vars
  <2>2. WInv' /\ Grows BY <2>1, SilentKeeps DEF IInv
  <2>3. pointer'.seq \in Nat BY <2>2 DEF WInv, TypeInv
  <2>. QED BY <2>1, <2>2, <2>3, WriterLeavesReader DEF IInv
<1>. QED BY <1>1, <1>2, <1>3 DEF Next

\* What the invariant says of the four properties.
LEMMA IInvTypes == IInv => TypeOK
<1>. SUFFICES ASSUME IInv PROVE TypeOK OBVIOUS
<1>1. TypeInv /\ RecordInv BY DEF IInv, WInv
<1>2. Capacity \in Nat /\ Meta \in Nat \ {0} BY RingAssumption
<1>3. w.at \in {"write", "store"} =>
        w.phys \in Positions /\ w.phys + Len(w.rec) - 1 \in Positions /\ w.done \in 0..Len(w.rec)
  <2>. SUFFICES ASSUME w.at \in {"write", "store"}
                PROVE  w.phys \in Positions /\ w.phys + Len(w.rec) - 1 \in Positions /\ w.done \in 0..Len(w.rec)
    OBVIOUS
  <2>1. w \in Jobs BY <1>1, Stages
  <2>2. w.rec \in Seq(Cell) /\ w.phys \in Nat /\ w.done \in Nat BY <2>1 DEF Jobs
  <2>3. Len(w.rec) \in Nat BY <2>2, LenProperties
  <2>4. /\ Meta <= w.phys /\ w.phys + Len(w.rec) <= Capacity
        /\ IF w.at = "write" THEN w.done < Len(w.rec) ELSE w.done = Len(w.rec)
    BY <1>1 DEF RecordInv, Writing
  <2>5. Len(w.rec) > 0
    <3>1. CASE w.at = "write" BY <2>2, <2>3, <2>4, <3>1
    <3>2. CASE w.at = "store"
      <4>1. CASE IsTable
        <5>1. Len(w.rec) = Len(w.entries) + 2 /\ Len(w.entries) \in Nat
          BY <1>1, <2>1, <4>1, TableRecordFacts, LenProperties DEF RecordInv, Writing, Jobs
        <5>. QED BY <5>1
      <4>2. CASE ~IsTable BY <3>2, <4>2, StoredFrame DEF IInv
      <4>. QED BY <4>1, <4>2
    <3>. QED BY <3>1, <3>2
  <2>. QED BY <1>2, <2>2, <2>3, <2>4, <2>5 DEF Positions
<1>4. \A k \in DOMAIN log : log[k].offset \in Positions /\ log[k].offset + log[k].len \in Positions
  <2>. SUFFICES ASSUME NEW k \in DOMAIN log
                PROVE  log[k].offset \in Positions /\ log[k].offset + log[k].len \in Positions
    OBVIOUS
  <2>1. log[k].offset \in Nat /\ log[k].len \in Nat /\ Meta <= log[k].offset /\ log[k].offset + log[k].len < Capacity
    <3>1. meta_cursor \in Nat BY <1>1 DEF TypeInv
    <3>. QED BY <3>1, LogLater DEF IInv
  <2>. QED BY <1>2, <2>1 DEF Positions
<1>. QED BY <1>1, <1>3, <1>4 DEF TypeInv, TypeOK, NoTick

LEMMA IInvWhole == IInv => ValidIsWhole
<1>. SUFFICES ASSUME IInv, BetweenRecords, NEW k \in DOMAIN log, Complete(k), Valid(log[k].start)
              PROVE  Whole(log[k])
  BY DEF ValidIsWhole
<1>1. TypeInv BY DEF IInv, WInv
<1>2. Reach = meta_cursor BY DEF BetweenRecords, Reach, Writing
<1>. QED BY <1>2 DEF IInv, WInv, CellsInv, Valid

LEMMA IInvPointer == IInv => PointerIsOneBundle
<1>. SUFFICES ASSUME IInv, r.at = "table"
              PROVE  /\ r.s1 \div 2 \in DOMAIN log
                     /\ LET b == log[r.s1 \div 2] IN <<r.offset, r.len, r.ptick>> = <<b.offset, b.len, b.tick>>
  BY DEF PointerIsOneBundle
<1>1. PICK k \in DOMAIN log :
        r.s1 = 2 * k /\ r.offset = log[k].offset /\ r.len = log[k].len /\ r.ptick = log[k].tick
  BY DEF IInv, RInv, SeqlockInv
<1>2. k \in Nat BY DEF IInv, WInv, TypeInv
<1>3. r.s1 \div 2 = k BY <1>1, <1>2
<1>. QED BY <1>1, <1>3

LEMMA IInvVerified == IInv => VerifiedIsPublished
<1>. SUFFICES ASSUME IInv, r.at = "delivered", r.verify PROVE HandsOverOneBundle
  BY DEF VerifiedIsPublished
<1>1. r \in Calls BY ReaderStages DEF IInv, RInv
<1>2. r.got \in [1..Len(r.got) -> Seq(Cell)] /\ DOMAIN r.got = 1..Len(r.got)
  <2>1. r.got \in Seq(Seq(Cell)) BY <1>1 DEF Calls
  <2>. QED BY <2>1, LenProperties
<1>3. /\ r.bundle.kind = "table" /\ Listed(r.bundle) /\ Len(r.got) = Len(r.bundle.entries)
      /\ \A e \in DOMAIN r.got : r.got[e] = Payload(r.bundle.entries[e].content, r.bundle.entries[e].len)
  BY DEF IInv, RInv, BundleInv
<1>4. PICK k \in DOMAIN log : r.bundle = TableCell(log[k].tick, log[k].start, log[k].entries)
  BY <1>3 DEF Listed
<1>5. r.bundle.tick = log[k].tick /\ r.bundle.entries = log[k].entries BY <1>4 DEF TableCell
<1>6. DOMAIN log[k].entries = 1..Len(log[k].entries)
  <2>1. meta_cursor \in Nat BY DEF IInv, WInv, TypeInv
  <2>2. log[k].entries \in Seq(EntryType) BY <2>1, LogLater DEF IInv
  <2>. QED BY <2>2, LenProperties
<1>7. r.got = [e \in DOMAIN log[k].entries |-> Payload(log[k].entries[e].content, log[k].entries[e].len)]
  BY <1>2, <1>3, <1>5, <1>6
<1>. QED BY <1>5, <1>7 DEF HandsOverOneBundle

\* The invariant holds in every state (a ring of any size, any requests).
THEOREM IInvAlways == Spec => []IInv
BY IInvInit, IInvNext, PTL DEF Spec

\* Cursors, pointer and log keep their types, and a record lies inside the file.
THEOREM TypeOKAlways == Spec => []TypeOK
BY IInvAlways, IInvTypes, PTL

\* still_valid tells the truth between two records, wherever records wrap: no bundle
\* within the usable length of the write cursor has lost a byte.
THEOREM ValidIsWholeAlways == Spec => []ValidIsWhole
BY IInvAlways, IInvWhole, PTL

\* A pointer that passes the seqlock of latest is that of one bundle.
THEOREM PointerIsOneBundleAlways == Spec => []PointerIsOneBundle
BY IInvAlways, IInvPointer, PTL

\* What verify lets pass is one published bundle, whatever is overwritten meanwhile.
THEOREM VerifiedIsPublishedAlways == Spec => []VerifiedIsPublished
BY IInvAlways, IInvVerified, PTL
=============================================================================
