----------------------------- MODULE ColumnBlob -----------------------------
(***************************************************************************)
(* A column of a segment as the scans see it: its values, the blob that    *)
(* compress_typed_column makes of them, and what every reader of the blob  *)
(* returns: whole columns, the first rows, the rows of a selection, filters*)
(* on texts that run on the encoded form, and lengths. A column grows by a *)
(* value at a time, so each state is a column and its readers.             *)
(*                                                                         *)
(* A filter is [op, args, negate]: args is a sequence of texts, with one   *)
(* element but for "in". Placeholder stands for the datum of a row that    *)
(* was not selected.                                                       *)
(***************************************************************************)
EXTENDS TextCodecs

CONSTANTS Domain,               \* kinds of columns to the values they hold
          MaxRows,              \* kinds of columns to the most rows explored
          Filters, Placeholder,
          Continuation,         \* bytes that do not start a character
          LenMod,               \* lengths are kept modulo this number next to a text
          SweepShare            \* one row in this many is enough to search the whole buffer

VARIABLES kind, values

vars == <<kind, values>>

-----------------------------------------------------------------------------
(* Writing. *)
Blob(tag, vs, data) == [tag |-> tag, rows |-> Len(vs), nulls |-> ExtractNulls(vs).nulls, data |-> data]
NonNull(vs) == ExtractNulls(vs).values

\* Of the two forms of a dictionary the smaller is kept, which depends on the compressor.
\* Lz4 blobs come from older versions.
TextBlobs(vs) ==
  LET ts == NonNull(vs)
  IN  {Blob("Lz4", vs, EncodeLz4(ts))} \cup
      IF ShouldUseDictionary(ts)
      THEN {Blob("Dictionary", vs, EncodeDictionary(ts)), Blob("DictionaryLz4", vs, EncodeDictionaryLz4(ts))}
      ELSE {Blob("Lz4Blocked", vs, EncodeBlocked(ts))}

IntegerBlob(vs, narrow) == LET e == BestEncoding(NonNull(vs), narrow) IN Blob(e.tag, vs, e.data)

NumericBlobs(vs) ==
  LET u == ToUniformScaled(vs)
      e == BestEncoding(NonNull(u.ms), FALSE)
  IN  IF u = Null THEN TextBlobs(vs)
      ELSE {Blob("NumericScaled", vs, [d |-> u.d, tag |-> e.tag, data |-> e.data])}

\* The blobs compress_typed_column may write.
CompressTypedColumn(k, vs) ==
  CASE k = "float" -> {Blob("Gorilla", vs, EncodeFloats(NonNull(vs)))}
    [] k = "time" -> {Blob("Gorilla", vs, EncodeTimestamps(NonNull(vs)))}
    [] k = "int4" -> {IntegerBlob(vs, TRUE)}
    [] k = "int8" -> {IntegerBlob(vs, FALSE)}
    [] k = "bool" -> {Blob("BooleanBitmap", vs, EncodeBooleans(NonNull(vs)))}
    [] k = "numeric" -> NumericBlobs(vs)
    [] k = "text" -> TextBlobs(vs)

\* The characters of each text, for queries that only need lengths.
Chars(t) == Len(SelectSeq(t, LAMBDA c : c \notin Continuation))
CompressTextLengths_Bytes(vs) ==
  LET ts == NonNull(vs) IN Blob("Lz4", vs, Lz4Compress([i \in DOMAIN ts |-> Len(ts[i])]))
CompressTextLengths(vs) ==
  LET ts == NonNull(vs) IN Blob("Lz4", vs, Lz4Compress([i \in DOMAIN ts |-> Chars(ts[i])]))

-----------------------------------------------------------------------------
(* Reading whole columns, or their first n rows. *)
InDictionary(b) == b.tag \in {"Dictionary", "DictionaryLz4"}
TextRanges(b, n, sel) ==
  IF b.tag = "Lz4" THEN DecodeToRanges(b.data, n) ELSE DecodeToRangesBlocked(b.data, n, sel)

DecodeTexts(b, n) ==
  IF InDictionary(b)
  THEN LET d == DecodeDictAndIndices(PlainDictionary(b.tag, b.data), n)
       IN  [i \in 1..n |-> d.dict[d.indices[i] + 1]]
  ELSE LET r == TextRanges(b, n, Null) IN Slices(r.buf, r.ranges)

IntegerTags == {"Constant", "ForBitpacked", "DeltaVarint"}
NumberTags == IntegerTags \cup {"Gorilla", "BooleanBitmap"}
DecodeNumbers(k, b, n) ==
  CASE b.tag = "Gorilla" -> IF k = "time" THEN DecodeTimestamps(b.data, n) ELSE DecodeFloats(b.data, n)
    [] b.tag = "BooleanBitmap" -> DecodeBooleans(b.data, n)
    [] b.tag \in IntegerTags -> DecodeInteger(b.tag, b.data, n)

DecodeCompressedDatums(k, b, n) ==
  CASE b.tag \in NumberTags -> DecodeNumbers(k, b, n)
    [] b.tag = "NumericScaled" ->
         LET ms == DecodeInteger(b.data.tag, b.data.data, n)
         IN  [i \in 1..n |-> FormatNumericScaled(ms[i], b.data.d)]
    [] OTHER -> DecodeTexts(b, n)

DecompressBlob(k, b, rows) ==
  ReinsertNulls(DecodeCompressedDatums(k, b, CountNonNull(b.nulls, rows)), b.nulls, rows)

-----------------------------------------------------------------------------
(* Filters while a blob is read (datum_utils.rs). *)
Occurs(needle, s, at) == SubSeq(s, at, at + Len(needle) - 1) = needle
Holds(f, t) ==
  CASE f.op \in {"eq", "in"} -> Contains(f.args, t)
    [] f.op = "contains" -> \E at \in 1..(Len(t) - Len(f.args[1]) + 1) : Occurs(f.args[1], t, at)
    [] f.op = "starts" -> Len(f.args[1]) <= Len(t) /\ Occurs(f.args[1], t, 1)
    [] f.op = "ends" -> Len(f.args[1]) <= Len(t) /\ Occurs(f.args[1], t, Len(t) - Len(f.args[1]) + 1)
Matches(f, t) == Holds(f, t) # f.negate

\* A hit counts if it lies within one text: lengths are between the texts, and a hit may
\* begin in one text and end in the next.
Inside_StartOnly(r, hit, len) == r.off <= hit
Inside(r, hit, len) == r.off <= hit /\ hit + len <= r.off + r.len

\* One pass over the buffer; cur never goes back. The texts that contain the needle.
SweepCursor(buf, ranges, needle) ==
  LET S[p \in 0..Len(buf)] ==
        IF p = 0 THEN [cur |-> 1, rows |-> {}]
        ELSE LET prev == S[p - 1]
                 hit == p - 1
                 ends == {i \in prev.cur..Len(ranges) : hit < ranges[i].off + ranges[i].len}
                 cur == IF ends = {} THEN Len(ranges) + 1 ELSE CHOOSE i \in ends : \A j \in ends : i <= j
                 in == {i \in {cur} \cap DOMAIN ranges : Inside(ranges[i], hit, Len(needle))}
             IN  IF hit + Len(needle) > Len(buf) \/ ~Occurs(needle, buf, p) THEN prev
                 ELSE [cur |-> cur, rows |-> prev.rows \cup in]
  IN  S[Len(buf)].rows

\* An entry is tested once; the index of the empty text is known.
DictMatches(f, h) ==
  IF f.op = "eq" /\ f.args[1] = <<>>
  THEN [i \in DOMAIN h.dict |-> (h.empty # NoEmpty /\ i = h.empty + 1) # f.negate]
  ELSE [i \in DOMAIN h.dict |-> Matches(f, h.dict[i])]

FilterTexts(b, f, n) ==
  IF InDictionary(b)
  THEN LET data == PlainDictionary(b.tag, b.data)
           h == ParseHeader(data)
           m == DictMatches(f, h)
           x == ReadIndices(data, h.start, h.width, n)
       IN  [i \in 1..n |-> m[x[i] + 1]]
  ELSE LET r == TextRanges(b, n, Null)
           hits == SweepCursor(r.buf, r.ranges, f.args[1])
       IN  [i \in 1..n |-> IF f.op = "contains" THEN (i \in hits) # f.negate
                           ELSE Matches(f, Slice(r.buf, r.ranges[i]))]

\* Matching texts become datums, the others a placeholder; a NULL matches nothing.
MergeWithPlaceholder(ts, sel) == [i \in DOMAIN sel |-> IF sel[i] THEN ts[i] ELSE Placeholder]
WeaveSelection(sel, nulls, n) ==
  LET s == ReinsertNulls(sel, nulls, n) IN [i \in 1..n |-> s[i] # Null /\ s[i]]
FilterBlob(b, f, rows) ==
  LET n == CountNonNull(b.nulls, rows)
      sel == FilterTexts(b, f, n)
  IN  [datums |-> ReinsertNulls(MergeWithPlaceholder(DecodeTexts(b, n), sel), b.nulls, rows),
       sel |-> WeaveSelection(sel, b.nulls, rows)]

\* What is read of each text, and whether the text is not empty. With NULLs and no empty
\* text in the dictionary the selection is <<>>: reading it raises an error (Null).
WithNonEmpty(b, read, filterEmpty) ==
  LET n == Len(read)
      ts == DecodeTexts(b, n)
      sel == IF InDictionary(b) THEN CheckNeEmpty(PlainDictionary(b.tag, b.data), n)
             ELSE [i \in 1..n |-> Len(ts[i]) > 0]
      woven == ReinsertNulls(read, b.nulls, b.rows)
  IN  IF ~filterEmpty THEN [read |-> woven, sel |-> <<>>]
      ELSE IF b.nulls = <<>> THEN [read |-> woven, sel |-> sel]
      ELSE IF Len(sel) < n THEN Null
      ELSE [read |-> woven, sel |-> WeaveSelection(sel, b.nulls, b.rows)]
RawStrings(b, filterEmpty) ==
  WithNonEmpty(b, DecodeTexts(b, CountNonNull(b.nulls, b.rows)), filterEmpty)
TextLengths(b, filterEmpty) ==
  LET ts == DecodeTexts(b, CountNonNull(b.nulls, b.rows))
  IN  WithNonEmpty(b, [i \in DOMAIN ts |-> Chars(ts[i])], filterEmpty)

\* Only the blocks with a selected row are read.
NonNullSelection(b, selection) ==
  LET nth == SelectSeq([i \in 1..b.rows |-> i], LAMBDA i : b.nulls = <<>> \/ ~b.nulls[i])
  IN  [i \in DOMAIN nth |-> selection[nth[i]]]
DecompressWithSelection(b, selection) ==
  LET n == CountNonNull(b.nulls, b.rows)
      sel == NonNullSelection(b, selection)
      r == TextRanges(b, n, sel)
      ts == IF InDictionary(b) THEN DecodeTexts(b, n) ELSE Slices(r.buf, r.ranges)
  IN  ReinsertNulls(MergeWithPlaceholder(ts, sel), b.nulls, b.rows)

-----------------------------------------------------------------------------
(* Columns of a segment in a worker thread (text_col.rs). *)
DecompressTextToSegCol(b) ==
  LET n == CountNonNull(b.nulls, b.rows)
      d == IF b.tag = "DictionaryLz4" THEN DecodeFlatLz4(b.data, n) ELSE DecodeFlat(b.data, n)
      r == TextRanges(b, n, Null)
  IN  IF InDictionary(b)
      THEN [form |-> "Dict", buf |-> d.buf, entries |-> d.ranges, at |-> ReinsertNulls(d.indices, b.nulls, b.rows)]
      ELSE [form |-> "Lz4", buf |-> r.buf,
            at |-> ReinsertNulls([i \in 1..n |-> [r.ranges[i] EXCEPT !.len = @ % LenMod]], b.nulls, b.rows)]
DecompressLengthSidecar(b) ==
  [form |-> "Lengths", at |-> ReinsertNulls(Lz4Decompress(b.data), b.nulls, b.rows)]
\* A column of segment_by has one value.
SegBy(v, n) == [form |-> "SegBy", at |-> [i \in 1..n |-> v]]

GetStr(c, i) ==
  IF c.at[i] = Null \/ c.form = "Lengths" THEN Null
  ELSE CASE c.form = "Dict" -> Slice(c.buf, c.entries[c.at[i] + 1])
         [] c.form = "Lz4" -> Slice(c.buf, c.at[i])
         [] c.form = "SegBy" -> c.at[i]
GetLen(c, i) ==
  IF c.at[i] = Null THEN Null ELSE IF c.form = "Lengths" THEN c.at[i] ELSE Chars(GetStr(c, i))

\* From position p on: a hit in a row settles the row, any other hit is stepped over by one
\* byte. The row is the last one that starts before the hit.
SweepRows(c, needle) ==
  LET rows == {i \in DOMAIN c.at : c.at[i] # Null /\ c.at[i].len > 0}
      W[p \in 0..Len(c.buf)] ==
        LET hits == {h \in p..(Len(c.buf) - Len(needle)) : Occurs(needle, c.buf, h + 1)}
            hit == CHOOSE h \in hits : \A g \in hits : h <= g
            before == {i \in rows : c.at[i].off <= hit}
            row == CHOOSE i \in before : \A j \in before : c.at[i].off >= c.at[j].off
        IN  IF hits = {} THEN {}
            ELSE IF before # {} /\ Inside(c.at[row], hit, Len(needle))
            THEN {row} \cup W[c.at[row].off + c.at[row].len]
            ELSE W[hit + 1]
  IN  W[0]

\* sel = <<>>: no filter has run yet. A row that has failed one stays out.
AndSelection(sel, pass) == IF sel = <<>> THEN pass ELSE [i \in DOMAIN sel |-> sel[i] /\ pass[i]]
ShouldSweep(sel, n) ==
  sel = <<>> \/ SweepShare * Cardinality({i \in DOMAIN sel : sel[i]}) >= n

\* Lengths answer only questions about the empty text.
PassesOnLength(f, len) ==
  CASE f.op = "eq" -> f.args[1] = <<>> /\ (len = 0) # f.negate
    [] f.op = "in" -> Contains(f.args, <<>>) /\ len = 0
    [] OTHER -> FALSE

ApplyTextFilter(c, f, sel) ==
  LET n == Len(c.at)
      m == [e \in DOMAIN c.entries |-> Matches(f, Slice(c.buf, c.entries[e]))]
      hits == SweepRows(c, f.args[1])
      sweep == c.form = "Lz4" /\ f.op = "contains" /\ f.args[1] # <<>> /\ ShouldSweep(sel, n)
  IN  AndSelection(sel, [i \in 1..n |->
        /\ c.at[i] # Null
        /\ CASE c.form = "Dict" -> m[c.at[i] + 1]
             [] c.form = "Lengths" -> PassesOnLength(f, c.at[i])
             [] c.form = "Lz4" /\ sweep -> (i \in hits) # f.negate
             [] OTHER -> Matches(f, GetStr(c, i))])

-----------------------------------------------------------------------------
Init == kind \in DOMAIN Domain /\ values = <<>>

\* The next row of the segment.
AppendValue ==
  /\ Len(values) < MaxRows[kind]
  /\ \E v \in Domain[kind] \cup {Null} : values' = Append(values, v)
  /\ UNCHANGED kind

Next == AppendValue
Spec == Init /\ [][Next]_vars

-----------------------------------------------------------------------------
(* Properties. *)
FirstRows(n) == SubSeq(values, 1, n)

\* Whatever blob compress_typed_column writes for a column, decompress_blob_to_datums and
\* decompress_column_values return the values it was made of, NULLs at their places, and
\* decompress_blob_to_datums_truncated returns the first rows of them: bit streams,
\* wrapped differences, packed bits, scaled numerics and their fall back to texts,
\* dictionaries with narrow and wide indices, and blocks.
BlobExact ==
  values # <<>> =>
    \A b \in CompressTypedColumn(kind, values) :
      \A n \in 1..Len(values) : DecompressBlob(kind, b, n) = FirstRows(n)

Passes(f, v) == v # Null /\ Matches(f, v)
Wanted(f, n) == [i \in 1..n |-> Passes(f, values[i])]
Kept(sel) ==
  [i \in DOMAIN sel |-> IF values[i] = Null THEN Null ELSE IF sel[i] THEN values[i] ELSE Placeholder]
OneValue == \E v \in ToSet(values) : ToSet(values) = {v}

\* Column c of a thread passes a filter, and then a filter on what is left.
FiltersRight(c) ==
  \A f \in Filters :
    LET first == ApplyTextFilter(c, f, <<>>)
    IN  /\ first = Wanted(f, Len(values))
        /\ \A g \in Filters :
             ApplyTextFilter(c, g, first) = [i \in DOMAIN values |-> first[i] /\ Passes(g, values[i])]
LengthsRight(c) ==
  \A i \in DOMAIN values : GetLen(c, i) = IF values[i] = Null THEN Null ELSE Chars(values[i])

\* Whichever form a text column is stored in, a filter that runs while it is read keeps the
\* rows that the condition keeps and their texts, for the whole column and for its first
\* rows: by dictionary entries, by the index of the empty text, by a search of the whole
\* buffer whose hits may lie across texts and the lengths between them. The same holds of
\* the threads' columns, also for a second filter on the rows of a first one.
FiltersExact ==
  (kind = "text" /\ values # <<>>) =>
    /\ \A b \in TextBlobs(values) :
         /\ \A f \in Filters, n \in 1..Len(values) :
              FilterBlob(b, f, n) = [datums |-> Kept(Wanted(f, n)), sel |-> Wanted(f, n)]
         /\ FiltersRight(DecompressTextToSegCol(b))
    /\ OneValue => FiltersRight(SegBy(values[1], Len(values)))

\* check_ne_empty makes no selection when the dictionary has no empty text, and the reader
\* that puts the NULLs back looks into it (datum_utils.rs:939).
LooksIntoNoSelection(b) ==
  InDictionary(b) /\ Null \in ToSet(values) /\ <<>> \notin ToSet(values) /\ ToSet(values) # {Null}

\* Lengths are those of the texts, from the column, from the threads' column and from the
\* lengths stored next to it, and so is the answer to whether a text is not empty; no
\* selection means that all rows pass. The one exception is a dictionary without the empty
\* text of a column with NULLs, where the read fails though all texts pass
\* (dictionary.rs:434). The rows of any selection come back with their texts though blocks
\* without a selected row are skipped.
LengthsExact ==
  (kind = "text" /\ values # <<>>) =>
    LET len == [i \in DOMAIN values |-> IF values[i] = Null THEN Null ELSE Chars(values[i])]
        some == [i \in DOMAIN values |-> values[i] # Null /\ values[i] # <<>>]
        lens == DecompressLengthSidecar(CompressTextLengths(values))
        ne == [op |-> "eq", args |-> <<<<>>>>, negate |-> TRUE]
        allPass == \A i \in DOMAIN values : some[i]
        Right(result, read) ==
          \/ result = [read |-> read, sel |-> some]
          \/ allPass /\ result = [read |-> read, sel |-> <<>>]
    IN  /\ LengthsRight(lens)
        /\ OneValue => LengthsRight(SegBy(values[1], Len(values)))
        /\ ApplyTextFilter(lens, ne, <<>>) = some
        /\ \A b \in TextBlobs(values) :
             /\ LengthsRight(DecompressTextToSegCol(b))
             /\ TextLengths(b, FALSE) = [read |-> len, sel |-> <<>>]
             /\ ~LooksIntoNoSelection(b) => /\ Right(TextLengths(b, TRUE), len)
                                            /\ Right(RawStrings(b, TRUE), values)
             /\ \A s \in [DOMAIN values -> BOOLEAN] : DecompressWithSelection(b, s) = Kept(s)
=============================================================================
