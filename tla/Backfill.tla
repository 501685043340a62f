------------------------------ MODULE Backfill ------------------------------
(***************************************************************************)
(* COPY ... FROM with FORMAT deltax_compress (copy.rs): rows go into       *)
(* segments of the companion tables without touching the heaps, in one     *)
(* transaction. A job is text read through PostgreSQL ("legacy"), a text   *)
(* file read by one thread ("sequential") or in batches parsed by several  *)
(* ("parallel"), Parquet files read one after the other ("parquet") or by  *)
(* a pipeline of threads ("pipeline"): decoders claim files and route rows *)
(* to partitions, the main thread fills buffers and hands full ones to     *)
(* compressors, whose segments it writes. The threads are connected by     *)
(* bounded channels.                                                       *)
(*                                                                         *)
(* A text file is [lines, open, header]; a line is a row, has the wrong    *)
(* number of fields ("bad") or ends the data ("end"); open: the last line  *)
(* has no terminator. A Parquet file is a sequence of row groups; of a     *)
(* broken one, some row group cannot be read. At most deaths threads die.  *)
(***************************************************************************)
EXTENDS SegmentBuild

CONSTANTS Jobs,                 \* what may be loaded: [mode, files, broken, deaths]
          Ranges,               \* of partitions: [from, to), in order
          Heap,                 \* partitions that hold rows another session may compress
          Workers,              \* threads that parse
          BatchLines,           \* most lines in a buffer
          MetaBatch, BlobLimit, \* segments whose rows, blobs are held back
          Decoders, Compressors,
          RouteCap, SegCap, OutCap      \* capacities of the channels

ASSUME LoadAssumption ==
  /\ Workers \in Nat \ {0} /\ BatchLines \in Nat \ {0}
  /\ \A n \in {MetaBatch, BlobLimit, RouteCap, SegCap, OutCap} : n \in Nat \ {0}

VARIABLES part,         \* partitions: buffers, companion tables, catalog
          job, pc,
          seen,         \* the partitions that were compressed when the statement began
          file, pos,    \* current file; line or row group in it
          last,         \* partition of the last row, 0 at first
          dec, nextFile,        \* decoders: state, batches still to send; next file to claim
          comp,         \* compressors: what they hold
          route, segq, outq,    \* the channels
          item, ids,    \* segment the main thread wants to send; next ids
          panics
vars == <<part, job, pc, seen, file, pos, last, dec, nextFile, comp, route, segq, outq, item,
          ids, panics>>
reading == <<job, seen, file, pos, last>>
pipe == <<dec, nextFile, comp, route, segq, outq, item, ids, panics>>

Parts == DOMAIN Ranges
FindPartition(t) ==
  LET at == {p \in Parts : Ranges[p].from <= t /\ t < Ranges[p].to}
  IN  IF at = {} THEN 0 ELSE CHOOSE p \in at : TRUE

-----------------------------------------------------------------------------
(* A partition. *)
Fresh == [compressed |-> FALSE, other |-> FALSE, created |-> FALSE, rows |-> <<>>, next |-> 1,
          total |-> 0, metaBuf |-> <<>>, statsBuf |-> <<>>, blobBuf |-> <<>>, valBuf |-> <<>>,
          meta |-> <<>>, stats |-> <<>>, blobs |-> <<>>, valmap |-> <<>>, bits |-> <<>>,
          minmax |-> <<>>, count |-> 0]

FlushMeta(P) == [P EXCEPT !.meta = @ \o P.metaBuf, !.metaBuf = <<>>]
FlushBlobs(P) == [P EXCEPT !.blobs = @ \o P.blobBuf, !.blobBuf = <<>>]
FlushColstats(P) == [P EXCEPT !.stats = @ \o P.statsBuf, !.statsBuf = <<>>]

\* A segment whose tables exist or are created now; rows and blobs are written in batches.
WriteSegment(P, seg) ==
  LET Q == [P EXCEPT !.created = TRUE, !.total = @ + Len(seg.rows), !.metaBuf = Append(@, seg),
                     !.statsBuf = Append(@, seg), !.blobBuf = Append(@, seg),
                     !.valBuf = Append(@, seg)]
      R == IF Len(Q.metaBuf) >= MetaBatch THEN FlushMeta(Q) ELSE Q
  IN  IF Len(R.blobBuf) >= BlobLimit THEN FlushBlobs(R) ELSE R

\* CREATE TABLE fails if another session has compressed the partition.
Conflict(P) == ~P.created /\ P.other

\* A segment is kept as its rows; SegmentsOf tells what the tables have for it.
CompressSegment(id, rows) == [id |-> id, rows |-> SortTypedColumns(rows)]
SegmentsOf(s) == {FlushSegment(s[i].id, s[i].rows) : i \in DOMAIN s}
FlushBuffer(P) ==
  WriteSegment([P EXCEPT !.rows = <<>>, !.next = @ + 1], CompressSegment(P.next, P.rows))
Fill(P, rows) ==
  LET Q == [P EXCEPT !.rows = @ \o rows]
  IN  IF rows # <<>> /\ Len(Q.rows) >= SegmentSize THEN FlushBuffer(Q) ELSE Q

FinalizeAndInsertValbitmap(P) ==
  LET segs == SegmentsOf(P.valBuf)
      valmap == FinalizeValmap(segs)
  IN  [P EXCEPT !.valmap = valmap, !.bits = FinalizeBits(segs, valmap), !.valBuf = <<>>]
FinalizePartition(P) ==
  LET Q == FinalizeAndInsertValbitmap(FlushColstats(P))
  IN  [Q EXCEPT !.compressed = TRUE, !.count = P.total,
                !.minmax = PartitionMinmax(SegmentsOf(P.blobs))]
\* What is left in the buffers at the end.
EndFlush_KeepMeta(P) ==
  IF P.rows = <<>> /\ P.total = 0 THEN P
  ELSE LET Q == IF P.rows # <<>> THEN FlushBuffer(P) ELSE P IN FinalizePartition(FlushBlobs(Q))
EndFlush(P) ==
  IF P.rows = <<>> /\ P.total = 0 THEN P
  ELSE LET Q == IF P.rows # <<>> THEN FlushBuffer(P) ELSE P
       IN  FinalizePartition(FlushBlobs(FlushMeta(Q)))

\* An error rolls everything back.
Abort == /\ part' = [p \in Parts |-> [Fresh EXCEPT !.other = part[p].other, !.compressed = part[p].other]]
         /\ pc' = "aborted"
\* The buffers after a step, or an error if a table could not be created.
Store(new, then) ==
  IF \E p \in Parts : new[p].created /\ Conflict(part[p]) THEN Abort
  ELSE part' = new /\ pc' = then

\* Another session compresses a partition; it would wait for tables created here.
CompressElsewhere(p) ==
  /\ p \in Heap /\ ~part[p].created /\ ~part[p].other /\ pc \notin {"done", "aborted"}
  /\ part' = [part EXCEPT ![p].other = TRUE, ![p].compressed = TRUE]
  /\ UNCHANGED <<pc, reading, pipe>>

-----------------------------------------------------------------------------
(* Text. *)
Text == {"legacy", "sequential", "parallel"}
File == job.files[file]
\* PostgreSQL reads a line without a terminator like any other.
Complete == IF job.mode # "legacy" /\ File.open THEN Len(File.lines) - 1 ELSE Len(File.lines)

Handle(q) ==
  /\ pc = "idle"
  /\ job' = q /\ seen' = {p \in Parts : part[p].compressed}
  /\ file' = 1 /\ pos' = 1 /\ last' = 0 /\ nextFile' = 1
  /\ pc' = IF q.mode \in Text THEN "open" ELSE IF q.mode = "parquet" THEN "groups" ELSE "drain"
  /\ UNCHANGED <<part, dec, comp, route, segq, outq, item, ids, panics>>

\* A header that is the end marker ends the file; one without a terminator is an error.
OpenFile ==
  /\ pc = "open" /\ file <= Len(job.files)
  /\ IF ~File.header THEN pos' = 1 /\ pc' = "lines" /\ UNCHANGED <<part, file>>
     ELSE IF Complete = 0 THEN Abort /\ UNCHANGED <<file, pos>>
     ELSE IF File.lines[1].kind = "end" THEN file' = file + 1 /\ UNCHANGED <<part, pc, pos>>
     ELSE pos' = 2 /\ pc' = "lines" /\ UNCHANGED <<part, file>>
  /\ last' = 0
  /\ UNCHANGED <<job, seen, pipe>>

LineError(l) ==
  l.kind = "bad" \/ l.row[TimeColumn] = Null \/ FindPartition(l.row[TimeColumn]) \in {0} \cup seen

\* Going on to another partition writes the blobs of the one before.
AppendRow(row) ==
  LET p == FindPartition(row[TimeColumn])
      prev == IF last \notin {0, p} THEN [part EXCEPT ![last] = FlushBlobs(@)] ELSE part
  IN  [prev EXCEPT ![p] = Fill(@, <<row>>)]

HandleLine ==
  /\ pc = "lines" /\ job.mode \in {"legacy", "sequential"} /\ pos <= Complete
  /\ File.lines[pos].kind # "end"
  /\ LET l == File.lines[pos]
     IN  IF LineError(l) THEN Abort /\ UNCHANGED last
         ELSE Store(AppendRow(l.row), "lines") /\ last' = FindPartition(l.row[TimeColumn])
  /\ pos' = pos + 1
  /\ UNCHANGED <<job, seen, file, pipe>>

\* A part of the lines in the buffer, up to the end marker, is divided among threads; what
\* they parsed is added in order, thread by thread. A segment may thus exceed SegmentSize.
CeilDiv(x, y) == (x + y - 1) \div y
RowsFor(lines, p) ==
  LET rows == SelectSeq(lines, LAMBDA l : FindPartition(l.row[TimeColumn]) = p)
  IN  [i \in DOMAIN rows |-> rows[i].row]
MergeResults(lines) ==
  LET size == CeilDiv(Len(lines), Workers)
      ShareOf(k) == SubSeq(lines, (k - 1) * size + 1, MinOf({k * size, Len(lines)}))
      S[k \in 0..Workers] ==
        IF k = 0 THEN part ELSE [p \in Parts |-> Fill(S[k - 1][p], RowsFor(ShareOf(k), p))]
  IN  S[Workers]
HandleBatch ==
  /\ pc = "lines" /\ job.mode = "parallel" /\ pos <= Complete
  /\ File.lines[pos].kind # "end"
  /\ \E n \in 1..BatchLines :
       /\ pos + n - 1 <= Complete
       /\ LET lines == SubSeq(File.lines, pos, pos + n - 1)
          IN  /\ \A i \in DOMAIN lines : lines[i].kind # "end"
              /\ IF \E i \in DOMAIN lines : LineError(lines[i]) THEN Abort
                 ELSE Store(MergeResults(lines), "lines")
       /\ pos' = pos + n
  /\ UNCHANGED <<job, seen, file, last, pipe>>

\* At the end of a file, a line without a terminator counts if it has all its fields.
EndOfFile ==
  /\ pc = "lines" /\ pos \notin {i \in 1..Complete : File.lines[i].kind # "end"}
  /\ IF pos = Complete + 1 /\ pos <= Len(File.lines) /\ File.lines[pos].kind = "row"
     THEN IF LineError(File.lines[pos]) THEN Abort ELSE Store(AppendRow(File.lines[pos].row), "open")
     ELSE pc' = "open" /\ UNCHANGED part
  /\ file' = file + 1
  /\ UNCHANGED <<job, seen, pos, last, pipe>>

-----------------------------------------------------------------------------
(* Parquet. A row without a time counts as one of time 0, unless all rows   *)
(* that have one go to the same partition.                                  *)
Times(rows) == {rows[i][TimeColumn] : i \in DOMAIN rows} \ {Null}
FirstPart(rows) == IF Times(rows) = {} THEN 0 ELSE FindPartition(MinOf(Times(rows)))
LastPart(rows) == IF Times(rows) = {} THEN 0 ELSE FindPartition(MaxOf(Times(rows)))
PartOf(row) == FindPartition(IF row[TimeColumn] = Null THEN 0 ELSE row[TimeColumn])

RouteRows(rows) ==
  LET S[i \in 0..Len(rows)] ==
        IF i = 0 THEN part
        ELSE IF PartOf(rows[i]) = 0 THEN S[i - 1]
        ELSE [S[i - 1] EXCEPT ![PartOf(rows[i])] = Fill(@, <<rows[i]>>)]
  IN  IF FirstPart(rows) = LastPart(rows) /\ FirstPart(rows) # 0
      THEN [part EXCEPT ![FirstPart(rows)] = Fill(@, rows)] ELSE S[Len(rows)]

HandleRowGroup ==
  /\ pc = "groups" /\ file <= Len(job.files)
  /\ \/ pos > Len(File) /\ file \notin job.broken /\ file' = file + 1 /\ pos' = 1 /\ UNCHANGED <<part, pc>>
     \/ pos <= Len(File) /\ Store(RouteRows(File[pos]), "groups") /\ pos' = pos + 1 /\ UNCHANGED file
     \/ file \in job.broken /\ Abort /\ UNCHANGED <<file, pos>>
  /\ UNCHANGED <<job, seen, last, pipe>>

-----------------------------------------------------------------------------
(* The pipeline. A decoder is "idle", holds a file and the batches of a row *)
(* group, or is "gone"; a compressor is "idle", holds a segment ("busy") or   *)
(* is "gone".                                                               *)
Running == job # Null /\ job.mode = "pipeline" /\ pc \notin {"idle", "finish", "done", "aborted"}

\* What a row group is sent as. Nothing is sent if its first and last time are both in no
\* partition.
RoutedBatches(rows) ==
  LET Of(p) == [part |-> p, rows |-> SelectSeq(rows, LAMBDA r : PartOf(r) = p)]
      All[p \in 0..Len(Ranges)] ==
        IF p = 0 THEN <<>> ELSE IF Of(p).rows = <<>> THEN All[p - 1] ELSE Append(All[p - 1], Of(p))
  IN  IF FirstPart(rows) # LastPart(rows) THEN All[Len(Ranges)]
      ELSE IF FirstPart(rows) = 0 THEN <<>> ELSE <<[part |-> FirstPart(rows), rows |-> rows]>>

ClaimFile(d) ==
  /\ Running /\ dec[d].at = "idle"
  /\ dec' = [dec EXCEPT ![d] = IF nextFile > Len(job.files) THEN [@ EXCEPT !.at = "gone"]
                               ELSE [at |-> "file", file |-> nextFile, group |-> 1, send |-> <<>>]]
  /\ nextFile' = nextFile + 1
  /\ UNCHANGED <<part, pc, reading, comp, route, segq, outq, item, ids, panics>>
DecodeGroup(d) ==
  /\ Running /\ dec[d].at = "file" /\ dec[d].send = <<>>
  /\ dec[d].group > Len(job.files[dec[d].file]) => dec[d].file \notin job.broken
  /\ LET groups == job.files[dec[d].file]
     IN  dec' = [dec EXCEPT ![d] =
                   IF dec[d].group > Len(groups) THEN [@ EXCEPT !.at = "idle"]
                   ELSE [@ EXCEPT !.send = RoutedBatches(groups[dec[d].group]), !.group = @ + 1]]
  /\ UNCHANGED <<part, pc, reading, nextFile, comp, route, segq, outq, item, ids, panics>>
SendBatch(d) ==
  /\ Running /\ dec[d].at = "file" /\ dec[d].send # <<>> /\ Len(route) < RouteCap
  /\ route' = Append(route, Head(dec[d].send))
  /\ dec' = [dec EXCEPT ![d].send = Tail(@)]
  /\ UNCHANGED <<part, pc, reading, nextFile, comp, segq, outq, item, ids, panics>>
\* A file that cannot be read: the error is sent in place of a batch.
SendError(d) ==
  /\ Running /\ dec[d].at = "file" /\ dec[d].send = <<>> /\ Len(route) < RouteCap
  /\ dec[d].file \in job.broken
  /\ route' = Append(route, [part |-> 0, rows |-> <<>>])
  /\ dec' = [dec EXCEPT ![d].at = "gone"]
  /\ UNCHANGED <<part, pc, reading, nextFile, comp, segq, outq, item, ids, panics>>

Idle == [at |-> "idle", seg |-> Null]
ReceiveSegment(c) ==
  /\ Running /\ comp[c].at = "idle" /\ segq # <<>>
  /\ comp' = [comp EXCEPT ![c] = [at |-> "busy", seg |-> Head(segq)]] /\ segq' = Tail(segq)
  /\ UNCHANGED <<part, pc, reading, dec, nextFile, route, outq, item, ids, panics>>
SendCompressed(c) ==
  /\ Running /\ comp[c].at = "busy" /\ Len(outq) < OutCap
  /\ outq' = Append(outq, comp[c].seg) /\ comp' = [comp EXCEPT ![c] = Idle]
  /\ UNCHANGED <<part, pc, reading, dec, nextFile, route, segq, item, ids, panics>>
\* The main thread has dropped its end.
CompressorExits(c) ==
  /\ Running /\ pc = "rest" /\ comp[c].at = "idle" /\ segq = <<>>
  /\ comp' = [comp EXCEPT ![c] = [at |-> "gone", seg |-> Null]]
  /\ UNCHANGED <<part, pc, reading, dec, nextFile, route, segq, outq, item, ids, panics>>

\* A thread dies with what it holds; nobody looks at the result of join.
DecoderPanics(d) ==
  /\ Running /\ panics < job.deaths /\ dec[d].at = "file"
  /\ dec' = [dec EXCEPT ![d] = [@ EXCEPT !.at = "gone", !.send = <<>>]] /\ panics' = panics + 1
  /\ UNCHANGED <<part, pc, reading, nextFile, comp, route, segq, outq, item, ids>>
CompressorPanics(c) ==
  /\ Running /\ panics < job.deaths /\ comp[c].at = "busy"
  /\ comp' = [comp EXCEPT ![c] = [at |-> "gone", seg |-> Null]] /\ panics' = panics + 1
  /\ UNCHANGED <<part, pc, reading, dec, nextFile, route, segq, outq, item, ids>>

\* The main thread. It takes what compressors have sent, then waits for a batch for a while.
WriteCompressed(then) ==
  LET s == Head(outq)
      P == WriteSegment(part[s.part], CompressSegment(s.id, s.rows))
  IN  /\ Store([part EXCEPT ![s.part] = [P EXCEPT !.next = MaxOf({@, s.id + 1})]], then)
      /\ outq' = Tail(outq)
DrainOne ==
  /\ Running /\ pc \in {"drain", "sendDrain"} /\ outq # <<>>
  /\ WriteCompressed(pc)
  /\ UNCHANGED <<reading, dec, nextFile, comp, route, segq, item, ids, panics>>
Drained ==
  /\ Running /\ pc = "drain" /\ outq = <<>> /\ pc' = "receive"
  /\ UNCHANGED <<part, reading, pipe>>
ReceiveBatch ==
  /\ Running /\ pc = "receive" /\ route # <<>>
  /\ route' = Tail(route)
  /\ IF Head(route).part = 0 THEN Abort /\ UNCHANGED item
     ELSE /\ part' = [part EXCEPT ![Head(route).part].rows = @ \o Head(route).rows]
          /\ item' = [part |-> Head(route).part, rows |-> <<>>] /\ pc' = "ship"
  /\ UNCHANGED <<reading, dec, nextFile, comp, segq, outq, ids, panics>>
ReceiveTimeout ==
  /\ Running /\ pc = "receive" /\ route = <<>> /\ pc' = "drain"
  /\ \E d \in Decoders : dec[d].at # "gone"
  /\ UNCHANGED <<part, reading, pipe>>
ReceiveClosed ==
  /\ Running /\ pc = "receive" /\ route = <<>> /\ \A d \in Decoders : dec[d].at = "gone"
  /\ pc' = "tail"
  /\ UNCHANGED <<part, reading, pipe>>

\* A full segment of the partition the batch was for; what is left over goes to "tail".
Split(p, n, then) ==
  /\ item' = [part |-> p, id |-> ids[p], rows |-> SubSeq(part[p].rows, 1, n), then |-> then]
  /\ part' = [part EXCEPT ![p].rows = SubSeq(@, n + 1, Len(@))]
  /\ ids' = [ids EXCEPT ![p] = @ + 1]
  /\ pc' = "send"
ShipSegment ==
  /\ Running /\ pc = "ship"
  /\ LET p == item.part
     IN  IF Len(part[p].rows) >= SegmentSize THEN Split(p, SegmentSize, "ship")
         ELSE pc' = "drain" /\ UNCHANGED <<part, item, ids>>
  /\ UNCHANGED <<reading, dec, nextFile, comp, route, segq, outq, panics>>
ShipRemainder ==
  /\ Running /\ pc = "tail"
  /\ LET left == {p \in Parts : part[p].rows # <<>>}
     IN  IF left # {} THEN Split(MinOf(left), Len(part[MinOf(left)].rows), "tail")
         ELSE pc' = "rest" /\ UNCHANGED <<part, item, ids>>
  /\ UNCHANGED <<reading, dec, nextFile, comp, route, segq, outq, panics>>

\* send_to_compress never waits for room without taking what compressors have sent: they
\* may be waiting for room themselves.
TrySend_Wait(then) ==
  /\ Len(segq) < SegCap
  /\ segq' = Append(segq, [part |-> item.part, id |-> item.id, rows |-> item.rows])
  /\ pc' = item.then
TrySend(then) ==
  IF Len(segq) < SegCap
  THEN /\ segq' = Append(segq, [part |-> item.part, id |-> item.id, rows |-> item.rows])
       /\ pc' = item.then
  ELSE pc' = then /\ UNCHANGED segq
SendSegment ==
  /\ Running
  /\ \/ pc = "send" /\ TrySend("sendDrain")
     \/ pc = "sendDrain" /\ outq = <<>> /\ TrySend("sendWait")
  /\ UNCHANGED <<part, reading, dec, nextFile, comp, route, outq, item, ids, panics>>
CompressorsGone == \A c \in Compressors : comp[c].at = "gone"
SendWait ==
  /\ Running /\ pc = "sendWait"
  /\ \/ outq # <<>> /\ WriteCompressed("send")
     \/ outq = <<>> /\ CompressorsGone /\ pc' = "send" /\ UNCHANGED <<part, outq>>
  /\ UNCHANGED <<reading, dec, nextFile, comp, route, segq, item, ids, panics>>

\* Everything has been sent: write the rest until the compressors are gone.
DrainRest ==
  /\ Running /\ pc = "rest"
  /\ \/ outq # <<>> /\ WriteCompressed("rest")
     \/ outq = <<>> /\ CompressorsGone /\ pc' = "finish" /\ UNCHANGED <<part, outq>>
  /\ UNCHANGED <<reading, dec, nextFile, comp, route, segq, item, ids, panics>>

\* All files have been read: complete every partition and commit.
Finish ==
  /\ \/ pc \in {"open", "groups"} /\ file > Len(job.files)
     \/ pc = "finish"
  /\ Store([p \in Parts |-> EndFlush(part[p])], "done")
  /\ UNCHANGED <<reading, pipe>>

-----------------------------------------------------------------------------
Init ==
  /\ part = [p \in Parts |-> Fresh] /\ job = Null /\ pc = "idle" /\ seen = {}
  /\ file = 1 /\ pos = 1 /\ last = 0
  /\ dec = [d \in Decoders |-> [at |-> "idle", file |-> 0, group |-> 1, send |-> <<>>]]
  /\ nextFile = 1 /\ comp = [c \in Compressors |-> Idle]
  /\ route = <<>> /\ segq = <<>> /\ outq = <<>>
  /\ item = Null /\ ids = [p \in Parts |-> 1] /\ panics = 0

Reader == OpenFile \/ HandleLine \/ HandleBatch \/ EndOfFile \/ HandleRowGroup
Main == DrainOne \/ Drained \/ ReceiveBatch \/ ReceiveTimeout \/ ReceiveClosed \/ ShipSegment
        \/ ShipRemainder \/ SendSegment \/ SendWait \/ DrainRest
Decoder(d) == ClaimFile(d) \/ DecodeGroup(d) \/ SendBatch(d) \/ SendError(d)
Compressor(c) == ReceiveSegment(c) \/ SendCompressed(c) \/ CompressorExits(c)
Next ==
  \/ \E q \in Jobs : Handle(q)
  \/ \E p \in Parts : CompressElsewhere(p)
  \/ Reader \/ Main \/ Finish
  \/ \E d \in Decoders : Decoder(d) \/ DecoderPanics(d)
  \/ \E c \in Compressors : Compressor(c) \/ CompressorPanics(c)

\* Every thread is scheduled again and again. In the phases that only the main thread has, one
\* of Reader and Finish is always enabled (they read, compress and write, and wait for no
\* other thread), so the first conjunct is WF_vars(Reader \/ Finish), without the cost of
\* deciding ENABLED.
Alone == {"open", "lines", "groups", "finish"}
Fairness ==
  /\ []<>(pc \notin Alone) \/ []<><<pc' # pc \/ file' # file \/ pos' # pos>>_vars
  /\ WF_vars(Main)
  /\ \A d \in Decoders : WF_vars(Decoder(d))
  /\ \A c \in Compressors : WF_vars(Compressor(c))
Spec == Init /\ [][Next]_vars /\ Fairness

-----------------------------------------------------------------------------
(* What was to be loaded into a partition: of text, the rows before the end *)
(* marker; a row that fits no partition is skipped in Parquet.              *)
CountIn(seqs, r) ==
  LET S[i \in 0..Len(seqs)] ==
        IF i = 0 THEN 0 ELSE S[i - 1] + Cardinality({j \in DOMAIN seqs[i] : seqs[i][j] = r})
  IN  S[Len(seqs)]
TextRows(f) ==
  LET ends == {i \in DOMAIN f.lines : f.lines[i].kind = "end"}
      to == IF ends = {} THEN Len(f.lines) ELSE MinOf(ends) - 1
      data == SubSeq(f.lines, IF f.header THEN 2 ELSE 1, to)
      rows == SelectSeq(data, LAMBDA l : l.kind = "row")
  IN  [i \in DOMAIN rows |-> rows[i].row]
Given ==
  LET files == job.files
      S[i \in 0..Len(files)] ==
        IF i = 0 THEN <<>>
        ELSE S[i - 1] \o (IF job.mode \in Text THEN <<TextRows(files[i])>> ELSE files[i])
  IN  S[Len(files)]
Loaded(p) == [i \in DOMAIN part[p].blobs |->
                LET s == FlushSegment(part[p].blobs[i].id, part[p].blobs[i].rows)
                IN  [j \in 1..s.count |-> RowOf(s, j)]]
GivenRows == UNION {{Given[i][j] : j \in DOMAIN Given[i]} : i \in DOMAIN Given}

\* When COPY reports success, each partition holds exactly the rows of the input whose time
\* is in its range, every segment has its row of metadata, its statistics and its columns
\* exactly once under an id of its own, and the catalog counts them: nothing is lost in a
\* buffer or a channel (handle_copy_from_inner, handle_copy_from_parquet_parallel).
LoadExact ==
  pc = "done" /\ panics = 0 =>
    \A p \in Parts :
      LET P == part[p]
          ids_ == {P.blobs[i].id : i \in DOMAIN P.blobs}
          SameSegs(s) == /\ Len(s) = Len(P.blobs) /\ Cardinality(ids_) = Len(s)
                         /\ {s[i] : i \in DOMAIN s} = {P.blobs[i] : i \in DOMAIN P.blobs}
          rows == UNION {{s[j] : j \in DOMAIN s} : s \in {Loaded(p)[i] : i \in DOMAIN Loaded(p)}}
      IN  /\ \A r \in rows \cup GivenRows :
               CountIn(Loaded(p), r) = IF FindPartition(r[TimeColumn]) = p THEN CountIn(Given, r) ELSE 0
          /\ SameSegs(P.meta) /\ SameSegs(P.stats)
          /\ P.created => P.compressed /\ ~P.other
          /\ P.count = LET S[i \in 0..Len(P.blobs)] == IF i = 0 THEN 0 ELSE S[i - 1] + Len(P.blobs[i].rows)
                       IN  S[Len(P.blobs)]

\* COPY ends, with an error or not: threads never wait for each other in a circle, however
\* the bounded channels fill up and though a thread dies (send_to_compress,
\* drain_compressed).
LoadEnds == [](job # Null => <>(pc \in {"done", "aborted"}))
=============================================================================
