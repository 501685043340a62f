---------------------------- MODULE NumberCodecs ----------------------------
(***************************************************************************)
(* The codecs for numbers (compression/*.rs): bit patterns of floats and   *)
(* times as bit streams (Gorilla), integers as variable-length differences *)
(* or packed offsets from the minimum, booleans as bitmaps, and how NULLs  *)
(* are taken out of a column and put back. Integers have Width bits and    *)
(* wrap, as in a release build; a float is its bit pattern.                *)
(***************************************************************************)
EXTENDS Integers, Sequences, FiniteSets, SequencesExt

CONSTANTS Null,
          Width, LeadBits,      \* bits of a value; of a count of bits
          Buckets,              \* bits for differences of differences, ascending
          Group,                \* payload bits of a byte of a variable-length integer
          MaxDscale             \* largest scale of a numeric kept as an integer

ASSUME NumberAssumption ==
  /\ LeadBits \in Nat \ {0} /\ Width = 2^LeadBits /\ Group \in Nat \ {0}
  /\ \A k \in DOMAIN Buckets : Buckets[k] \in 1..(Width - 1)

Wrap(x) == ((x + 2^(Width - 1)) % 2^Width) - 2^(Width - 1)

-----------------------------------------------------------------------------
(* Bits, the most significant first. *)
Bits(v, n) == [i \in 1..n |-> (v \div 2^(n - i)) % 2]
BitAt(s, i) == IF i \in DOMAIN s THEN s[i] ELSE 0
ReadBits(s, pos, n) ==
  LET S[i \in 0..n] == IF i = 0 THEN 0 ELSE 2 * S[i - 1] + BitAt(s, pos + i - 1) IN S[n]
SignExtend(v, n) == IF v >= 2^(n - 1) THEN v - 2^n ELSE v
\* The last byte is filled up with zeros.
FinishBits(s) == s \o [i \in 1..((-Len(s)) % 8) |-> 0]

-----------------------------------------------------------------------------
(* Floats: the bits that differ from the value before, in the window of the *)
(* last difference if they fit into it.                                     *)
Xor(a, b) == [i \in 1..Width |-> (a[i] + b[i]) % 2]
Ones(x) == {i \in DOMAIN x : x[i] = 1}
Leading(x) == (CHOOSE i \in Ones(x) : \A j \in Ones(x) : i <= j) - 1
Trailing(x) == Width - CHOOSE i \in Ones(x) : \A j \in Ones(x) : i >= j

EncodeFloats(vs) ==
  LET B(i) == Bits(vs[i], Width)
      S[i \in 1..Len(vs)] ==
        IF i = 1 THEN [out |-> B(1), lead |-> Width, trail |-> 0]
        ELSE LET p == S[i - 1]
                 x == Xor(B(i - 1), B(i))
             IN  IF Ones(x) = {} THEN [p EXCEPT !.out = Append(@, 0)]
                 ELSE LET l == Leading(x)
                          t == Trailing(x)
                      IN  IF p.lead # Width /\ l >= p.lead /\ t >= p.trail
                          THEN [p EXCEPT !.out = @ \o <<1, 0>> \o SubSeq(x, p.lead + 1, Width - p.trail)]
                          ELSE [out |-> p.out \o <<1, 1>> \o Bits(l, LeadBits)
                                          \o Bits(Width - l - t, LeadBits) \o SubSeq(x, l + 1, Width - t),
                                lead |-> l, trail |-> t]
  IN  IF vs = <<>> THEN <<>> ELSE FinishBits(S[Len(vs)].out)

\* A window as wide as the value is written as length 0.
Meaningful(n) == IF n = 0 THEN Width ELSE n
DecodeFloats(data, n) ==
  LET Flip(prev, x, lead) ==
        [i \in 1..Width |-> IF i \in (lead + 1)..(lead + Len(x)) THEN (prev[i] + x[i - lead]) % 2 ELSE prev[i]]
      Step(p, len, lead, pos) ==
        [bits |-> Flip(p.bits, Bits(ReadBits(data, pos, len), len), lead),
         lead |-> lead, trail |-> Width - lead - len, pos |-> pos + len]
      S[i \in 1..n] ==
        IF i = 1
        THEN [bits |-> Bits(ReadBits(data, 1, Width), Width), lead |-> 0, trail |-> 0, pos |-> Width + 1]
        ELSE LET p == S[i - 1]
             IN  IF BitAt(data, p.pos) = 0 THEN [p EXCEPT !.pos = @ + 1]
                 ELSE IF BitAt(data, p.pos + 1) = 0
                 THEN Step(p, Width - p.lead - p.trail, p.lead, p.pos + 2)
                 ELSE Step(p, Meaningful(ReadBits(data, p.pos + 2 + LeadBits, LeadBits)),
                           ReadBits(data, p.pos + 2, LeadBits), p.pos + 2 + 2 * LeadBits)
  IN  [i \in 1..n |-> ReadBits(S[i].bits, 1, Width)]

-----------------------------------------------------------------------------
(* Times: the difference of differences, in the first bucket it fits into;  *)
(* k ones and a zero announce bucket k, one more one a whole value.         *)
Fits_Shifted(d, b) == -(2^(b - 1)) < d /\ d <= 2^(b - 1)
Fits(d, b) == -(2^(b - 1)) <= d /\ d < 2^(b - 1)
OnesThen(k, tail) == [i \in 1..k |-> 1] \o tail

EncodeTimestamps(vs) ==
  LET Delta(i) == Wrap(vs[i] - vs[i - 1])
      Dod(i) == Wrap(Delta(i) - Delta(i - 1))
      Code(d) ==
        LET ks == {k \in DOMAIN Buckets : Fits(d, Buckets[k])}
            k == CHOOSE x \in ks : \A y \in ks : x <= y
        IN  IF d = 0 THEN <<0>>
            ELSE IF ks = {} THEN OnesThen(Len(Buckets) + 1, Bits(d, Width))
            ELSE OnesThen(k, <<0>> \o Bits(d, Buckets[k]))
  IN  FinishBits(FlattenSeq([i \in DOMAIN vs |->
        IF i = 1 THEN Bits(vs[1], Width) ELSE IF i = 2 THEN Bits(Delta(2), Width) ELSE Code(Dod(i))]))

DecodeTimestamps(data, n) ==
  LET Prefix(pos) == CHOOSE k \in 0..(Len(Buckets) + 1) :
                       /\ \A j \in 0..(k - 1) : BitAt(data, pos + j) = 1
                       /\ k > Len(Buckets) \/ BitAt(data, pos + k) = 0
      S[i \in 1..n] ==
        IF i = 1 THEN [cur |-> SignExtend(ReadBits(data, 1, Width), Width), delta |-> 0, pos |-> Width + 1]
        ELSE LET p == S[i - 1]
                 k == Prefix(p.pos)
                 b == IF k = 0 THEN 0 ELSE IF k > Len(Buckets) THEN Width ELSE Buckets[k]
                 at == IF k > Len(Buckets) THEN p.pos + k ELSE p.pos + k + 1
                 dod == IF k = 0 THEN 0 ELSE SignExtend(ReadBits(data, at, b), b)
                 delta == IF i = 2 THEN SignExtend(ReadBits(data, p.pos, Width), Width)
                          ELSE Wrap(p.delta + dod)
             IN  [cur |-> Wrap(p.cur + delta), delta |-> delta,
                  pos |-> IF i = 2 THEN p.pos + Width ELSE at + b]
  IN  [i \in 1..n |-> S[i].cur]

-----------------------------------------------------------------------------
(* Integers. *)
ZigzagEncode(v) == IF v >= 0 THEN 2 * v ELSE -2 * v - 1
ZigzagDecode(u) == IF u % 2 = 0 THEN u \div 2 ELSE -(u \div 2) - 1

\* Least significant group first; all bytes but the last have the top bit.
WriteVarint(u) ==
  LET k == CHOOSE n \in 1..(Width + 2) : u < 2^(Group * n) /\ (n = 1 \/ u >= 2^(Group * (n - 1)))
  IN  [j \in 1..k |-> ((u \div 2^(Group * (j - 1))) % 2^Group) + (IF j < k THEN 2^Group ELSE 0)]
ReadVarintAt(data, pos) ==
  LET end == CHOOSE e \in pos..Len(data) : data[e] < 2^Group /\ \A j \in pos..(e - 1) : data[j] >= 2^Group
      S[j \in (pos - 1)..end] ==
        IF j < pos THEN 0 ELSE S[j - 1] + (data[j] % 2^Group) * 2^(Group * (j - pos))
  IN  [value |-> S[end], next |-> end + 1]

\* encode_i64 wraps; encode_i32 computes with 64 bits.
EncodeInts(vs, narrow) ==
  LET Delta(i) == IF narrow THEN vs[i] - vs[i - 1] ELSE Wrap(vs[i] - vs[i - 1])
  IN  [first |-> vs[1],
       rest |-> FlattenSeq([i \in 1..(Len(vs) - 1) |-> WriteVarint(ZigzagEncode(Delta(i + 1)))])]
DecodeInts(data, n) ==
  LET S[i \in 1..n] ==
        IF i = 1 THEN [cur |-> data.first, pos |-> 1]
        ELSE LET r == ReadVarintAt(data.rest, S[i - 1].pos)
             IN  [cur |-> Wrap(S[i - 1].cur + ZigzagDecode(r.value)), pos |-> r.next]
  IN  [i \in 1..n |-> S[i].cur]

BitWidthForRange(r) == CHOOSE b \in 0..Width : r < 2^b /\ (b = 0 \/ r >= 2^(b - 1))
PackBits(vs, b) == FinishBits(FlattenSeq([i \in DOMAIN vs |-> Reverse(Bits(vs[i], b))]))
UnpackBits(data, n, b) ==
  [i \in 1..n |-> ReadBits([j \in 1..b |-> BitAt(data, i * b - j + 1)], 1, b)]
EncodeFor(vs) ==
  LET min == CHOOSE v \in ToSet(vs) : \A w \in ToSet(vs) : v <= w
      max == CHOOSE v \in ToSet(vs) : \A w \in ToSet(vs) : v >= w
      b == BitWidthForRange(max - min)
  IN  [min |-> min, bits |-> b, packed |-> PackBits([i \in DOMAIN vs |-> vs[i] - min], b)]
DecodeFor(data, n) ==
  LET off == UnpackBits(data.packed, n, data.bits) IN [i \in 1..n |-> Wrap(data.min + off[i])]

\* The smaller of the two, unless all values are equal.
BestEncoding(vs, narrow) ==
  LET for == EncodeFor(vs)
      delta == EncodeInts(vs, narrow)
  IN  IF vs = <<>> THEN [tag |-> "ForBitpacked", data |-> <<>>]
      ELSE IF \A i \in DOMAIN vs : vs[i] = vs[1] THEN [tag |-> "Constant", data |-> vs[1]]
      ELSE IF 1 + Len(for.packed) \div 8 <= Len(delta.rest) THEN [tag |-> "ForBitpacked", data |-> for]
      ELSE [tag |-> "DeltaVarint", data |-> delta]
DecodeInteger(tag, data, n) ==
  CASE n = 0 -> <<>>
    [] n > 0 /\ tag = "Constant" -> [i \in 1..n |-> data]
    [] n > 0 /\ tag = "ForBitpacked" -> DecodeFor(data, n)
    [] OTHER -> DecodeInts(data, n)

\* Eight to a byte, the first in the lowest bit.
EncodeBooleans(vs) == PackBits([i \in DOMAIN vs |-> IF vs[i] THEN 1 ELSE 0], 1)
DecodeBooleans(data, n) == [i \in 1..n |-> UnpackBits(data, n, 1)[i] = 1]

\* A numeric is its text, as numeric_out writes it: digits, Point, Minus (a leading plus, which
\* the parser also takes, is never written); NaN and infinities are other symbols.
Point == 10
Minus == 11
ParseNumericScaled(t) ==
  LET rest == IF t # <<>> /\ t[1] = Minus THEN Tail(t) ELSE t
      dots == {i \in DOMAIN rest : rest[i] = Point}
      ds == SelectSeq(rest, LAMBDA c : c # Point)
      S[i \in 0..Len(ds)] == IF i = 0 THEN 0 ELSE 10 * S[i - 1] + ds[i]
      scale == IF dots = {} THEN 0 ELSE Len(rest) - CHOOSE i \in dots : TRUE
  IN  IF ds = <<>> \/ Cardinality(dots) > 1 \/ (\E i \in DOMAIN ds : ds[i] \notin 0..9)
          \/ scale > MaxDscale \/ S[Len(ds)] > 2^(Width - 1) - 1
      THEN Null
      ELSE [m |-> IF Len(rest) < Len(t) THEN -S[Len(ds)] ELSE S[Len(ds)], d |-> scale]

\* At least one digit before the point.
FormatNumericScaled(m, d) ==
  LET abs == IF m < 0 THEN -m ELSE m
      n == CHOOSE k \in (d + 1)..(Width + d + 1) : abs < 10^k /\ (k = d + 1 \/ abs >= 10^(k - 1))
      ds == [i \in 1..n |-> (abs \div 10^(n - i)) % 10]
  IN  (IF m < 0 THEN <<Minus>> ELSE <<>>)
        \o (IF d = 0 THEN ds ELSE SubSeq(ds, 1, n - d) \o <<Point>> \o SubSeq(ds, n - d + 1, n))

\* All numerics of a segment must have the same scale.
ToUniformScaled(ts) ==
  LET P == [i \in DOMAIN ts |-> IF ts[i] = Null THEN Null ELSE ParseNumericScaled(ts[i])]
      ds == {P[i].d : i \in {j \in DOMAIN ts : P[j] # Null}}
  IN  IF (\E i \in DOMAIN ts : ts[i] # Null /\ P[i] = Null) \/ Cardinality(ds) > 1 THEN Null
      ELSE [d |-> IF ds = {} THEN 0 ELSE CHOOSE d \in ds : TRUE,
            ms |-> [i \in DOMAIN ts |-> IF ts[i] = Null THEN Null ELSE P[i].m]]

-----------------------------------------------------------------------------
(* NULLs: a bit for each row, none at all if there is no NULL. *)
ExtractNulls(vs) ==
  [values |-> SelectSeq(vs, LAMBDA v : v # Null),
   nulls |-> IF \E i \in DOMAIN vs : vs[i] = Null THEN [i \in DOMAIN vs |-> vs[i] = Null] ELSE <<>>]
CountNonNull(nulls, n) == IF nulls = <<>> THEN n ELSE Cardinality({i \in 1..n : ~nulls[i]})
ReinsertNulls(vals, nulls, n) ==
  IF nulls = <<>> THEN vals
  ELSE [i \in 1..n |-> IF nulls[i] THEN Null ELSE vals[Cardinality({j \in 1..i : ~nulls[j]})]]
=============================================================================
