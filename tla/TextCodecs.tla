----------------------------- MODULE TextCodecs -----------------------------
(***************************************************************************)
(* The codecs for texts (compression/lz4.rs, compression/dictionary.rs): a *)
(* text is a sequence of bytes. Texts are stored with their lengths before *)
(* them, in blocks that are compressed one by one, or as indices into a    *)
(* dictionary, which may be sorted and compressed. A length, an offset and *)
(* a count take one place here, and a byte holds 0 .. NarrowDict.          *)
(***************************************************************************)
EXTENDS NumberCodecs

CONSTANTS BlockSize,            \* rows in a block
          NarrowDict            \* most entries of a dictionary whose indices take one byte

ASSUME TextAssumption == BlockSize \in Nat \ {0} /\ NarrowDict \in Nat \ {0}

-----------------------------------------------------------------------------
(* Texts one after the other. *)

\* The compressor: lossless, and its output is not its input.
Lz4Compress(raw) == <<Len(raw)>> \o Reverse(raw)
Lz4Decompress(data) == Reverse(Tail(data))

Entries(texts) == FlattenSeq([i \in DOMAIN texts |-> <<Len(texts[i])>> \o texts[i]])

\* Where the first n texts of a buffer are; offsets count from 0.
EntryRanges(buf, n) ==
  LET S[i \in 0..n] ==
        IF i = 0 THEN [off |-> 0, len |-> 0]
        ELSE LET prev == S[i - 1]
                 at == prev.off + prev.len
             IN  [off |-> at + 1, len |-> buf[at + 1]]
  IN  [i \in 1..n |-> S[i]]
Slice(buf, r) == SubSeq(buf, r.off + 1, r.off + r.len)
Slices(buf, ranges) == [i \in DOMAIN ranges |-> Slice(buf, ranges[i])]

EncodeLz4(texts) == IF texts = <<>> THEN <<>> ELSE Lz4Compress(Entries(texts))
DecodeToRanges(data, n) ==
  IF n = 0 THEN [buf |-> <<>>, ranges |-> <<>>]
  ELSE LET raw == Lz4Decompress(data) IN [buf |-> raw, ranges |-> EntryRanges(raw, n)]

-----------------------------------------------------------------------------
(* Blocks: their size and number, where each starts and the last ends, the  *)
(* blocks.                                                                  *)
SumLens(ss, k) ==
  LET S[i \in 0..k] == IF i = 0 THEN 0 ELSE S[i - 1] + Len(ss[i]) IN S[k]
EncodeBlocked(texts) ==
  LET n == (Len(texts) + BlockSize - 1) \div BlockSize
      UpTo(k) == IF k < n THEN k * BlockSize ELSE Len(texts)
      blocks == [k \in 1..n |-> EncodeLz4(SubSeq(texts, (k - 1) * BlockSize + 1, UpTo(k)))]
  IN  IF texts = <<>> THEN <<>>
      ELSE <<BlockSize, n>> \o [k \in 1..(n + 1) |-> n + 3 + SumLens(blocks, k - 1)] \o FlattenSeq(blocks)

\* The texts of a block start after the blocks in front of it that are decoded.
BlockBase(raws, k) == SumLens(raws, k - 1)

\* sel = Null: all blocks; otherwise those with a selected row. A row of a block that is
\* skipped has an empty range.
DecodeToRangesBlocked(data, n, sel) ==
  LET size == data[1]
      First(k) == (k - 1) * size
      Count(k) == IF n <= First(k) THEN 0 ELSE IF n - First(k) < size THEN n - First(k) ELSE size
      Needed(k) == sel = Null \/ \E i \in (First(k) + 1)..(First(k) + Count(k)) : sel[i]
      raws == [k \in 1..data[2] |->
                 IF Needed(k) THEN Lz4Decompress(SubSeq(data, data[k + 2] + 1, data[k + 3])) ELSE <<>>]
      RangeOf(i) ==
        LET k == ((i - 1) \div size) + 1
            r == EntryRanges(raws[k], Count(k))[i - First(k)]
        IN  IF Needed(k) THEN [r EXCEPT !.off = @ + BlockBase(raws, k)] ELSE [off |-> 0, len |-> 0]
  IN  IF n = 0 THEN [buf |-> <<>>, ranges |-> <<>>]
      ELSE [buf |-> FlattenSeq(raws), ranges |-> [i \in 1..n |-> RangeOf(i)]]

-----------------------------------------------------------------------------
(* Dictionaries: the number of entries, the bytes of an index, the index of *)
(* the empty text (NoEmpty: none), the entries, an index for each text.     *)
NoEmpty == (NarrowDict + 1) * (NarrowDict + 1) - 1

ShouldUseDictionary(texts) ==
  LET c == Cardinality(ToSet(texts))
  IN  texts = <<>> \/ (c <= NoEmpty /\ (c = 1 \/ c <= Len(texts) \div 2))

\* Byte by byte.
LessText(a, b) ==
  \E k \in 1..Len(b) : /\ k - 1 <= Len(a) /\ \A j \in 1..(k - 1) : a[j] = b[j]
                       /\ k > Len(a) \/ a[k] < b[k]
FirstSeen(texts) ==
  LET S[i \in 0..Len(texts)] ==
        IF i = 0 THEN <<>>
        ELSE LET prev == S[i - 1] IN IF Contains(prev, texts[i]) THEN prev ELSE Append(prev, texts[i])
  IN  S[Len(texts)]

IndexOf(entries, t) == (CHOOSE i \in DOMAIN entries : entries[i] = t) - 1
IndexWidth(n) == IF n <= NarrowDict THEN 1 ELSE 2
DictHeader(entries) ==
  <<Len(entries), IndexWidth(Len(entries)),
    IF Contains(entries, <<>>) THEN IndexOf(entries, <<>>) ELSE NoEmpty>>
Indices(entries, texts) ==
  LET b == NarrowDict + 1
  IN  FlattenSeq([i \in DOMAIN texts |->
        LET x == IndexOf(entries, texts[i])
        IN  IF IndexWidth(Len(entries)) = 1 THEN <<x % b>> ELSE <<x % b, x \div b>>])

EncodeDictionary(texts) ==
  LET entries == FirstSeen(texts) IN DictHeader(entries) \o Entries(entries) \o Indices(entries, texts)
\* Sorted, which compresses better; the length of the compressed entries is in front.
EncodeDictionaryLz4(texts) ==
  LET entries == SetToSortSeq(ToSet(texts), LessText)
      packed == EncodeLz4(entries)
  IN  DictHeader(entries) \o <<Len(packed)>> \o packed \o Indices(entries, texts)

ReadIndex(data, start, width, i) ==
  LET at == start + i * width
  IN  IF width = 1 THEN data[at + 1] ELSE data[at + 1] + (NarrowDict + 1) * data[at + 2]
EntriesEnd(ranges) == IF ranges = <<>> THEN 0 ELSE Last(ranges).off + Last(ranges).len

ParseHeader(data) ==
  LET body == SubSeq(data, 4, Len(data))
      ranges == EntryRanges(body, data[1])
  IN  [dict |-> Slices(body, ranges), width |-> data[2], empty |-> data[3], start |-> 3 + EntriesEnd(ranges)]
ReadIndices(data, start, width, n) == [i \in 1..n |-> ReadIndex(data, start, width, i - 1)]

\* The plain form of a compressed dictionary.
NormalizeLz4(data) ==
  SubSeq(data, 1, 3)
    \o (IF data[4] > 0 THEN Lz4Decompress(SubSeq(data, 5, 4 + data[4])) ELSE <<>>)
    \o SubSeq(data, 5 + data[4], Len(data))
PlainDictionary(tag, data) == IF tag = "DictionaryLz4" THEN NormalizeLz4(data) ELSE data

DecodeDictAndIndices(data, n) ==
  IF n = 0 THEN [dict |-> <<>>, indices |-> <<>>]
  ELSE LET h == ParseHeader(data)
       IN  [dict |-> h.dict, indices |-> ReadIndices(data, h.start, h.width, n)]

\* One buffer and the ranges of the entries in it.
DecodeFlat(data, n) ==
  LET body == SubSeq(data, 4, Len(data))
      ranges == EntryRanges(body, data[1])
      end == EntriesEnd(ranges)
  IN  [buf |-> SubSeq(body, 1, end), ranges |-> ranges, indices |-> ReadIndices(data, 3 + end, data[2], n)]
DecodeFlatLz4(data, n) ==
  LET buf == IF data[4] > 0 THEN Lz4Decompress(SubSeq(data, 5, 4 + data[4])) ELSE <<>>
  IN  [buf |-> buf, ranges |-> EntryRanges(buf, data[1]),
       indices |-> ReadIndices(data, 4 + data[4], data[2], n)]

\* Which texts are not empty; <<>> if none can be.
CheckNeEmpty(data, n) ==
  LET h == ParseHeader(data)
      x == ReadIndices(data, h.start, h.width, n)
  IN  IF n = 0 \/ h.empty = NoEmpty THEN <<>> ELSE [i \in 1..n |-> x[i] # h.empty]
=============================================================================
