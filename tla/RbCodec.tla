------------------------------- MODULE RbCodec --------------------------------
(***************************************************************************)
(* Rayfold Binary: packages/rb/src/codec.ts, and where the writer of       *)
(* rayfold-core/Rb.kt goes another way.  A byte holds a digit and a bit    *)
(* that says whether more digits follow; Base is 128 and Precision 53 in   *)
(* the code, and a double keeps the Precision highest bits of a number.    *)
(* A frame may arrive in chunks of any size.                               *)
(***************************************************************************)
EXTENDS Integers, Sequences, SequencesExt, FiniteSetsExt

CONSTANTS
  Base, Precision,
  KeyNames,                                 \* the key dictionary, in order
  MaxNesting, MaxExpansion, ExpansionFloor, \* bounds of the reader
  Messages,                                 \* what is sent: sequences of values, and of pings
  Garbage                                   \* bytes nobody encoded

VARIABLES
  rbSent,     \* the messages sent
  wire,       \* the bytes not yet received
  buffer,     \* those received that complete no frame yet
  received    \* the values received

rbVars == <<rbSent, wire, buffer, received>>

\* A whole number as a double holds it: rounded to the nearest, ties to even.
Spacing(n) == 2 ^ (CHOOSE k \in 0..20 : n <= 2 ^ (Precision + k) /\ (k = 0 \/ n > 2 ^ (Precision + k - 1)))
Rounded(q, rest, s) == s * (IF 2 * rest > s \/ (2 * rest = s /\ q % 2 = 1) THEN q + 1 ELSE q)
RoundedTo(n, s) == Rounded(n \div s, n % s, s)
Double(n) == RoundedTo(n, Spacing(n))

MaxSafe == 2 ^ Precision - 1

-----------------------------------------------------------------------------
(* Values.  A text is a sequence of characters; a surrogate on its own is   *)
(* sent as the replacement character.                                       *)

Tags  == [null |-> 0, false |-> 1, true |-> 2, int |-> 3, f64 |-> 4, str |-> 5, ref |-> 6, arr |-> 7, obj |-> 8, bytes |-> 9]
CharBytes == [a |-> <<1>>, u |-> <<2, 3>>, lone |-> <<4>>, fffd |-> <<4>>]
Utf8(s) == FlattenSeq([i \in DOMAIN s |-> CharBytes[s[i]]])

RECURSIVE Utf8Text(_)
Utf8Text(b) ==
  IF b = <<>> THEN <<>>
  ELSE CASE b[1] = 1 -> <<"a">> \o Utf8Text(Tail(b))
         [] b[1] = 2 /\ Len(b) > 1 /\ b[2] = 3 -> <<"u">> \o Utf8Text(Tail(Tail(b)))
         [] OTHER -> <<"fffd">> \o Utf8Text(Tail(b))

\* What JSON sends for a value: null for a number that is none.
RECURSIVE AsJson(_)
AsJson(v) ==
  CASE v[1] = "nan" -> <<"null">>
    [] v[1] = "str" -> <<"str", Utf8Text(Utf8(v[2]))>>
    [] v[1] = "arr" -> <<"arr", [i \in DOMAIN v[2] |-> AsJson(v[2][i])]>>
    [] v[1] = "obj" -> <<"obj", [i \in DOMAIN v[2] |-> <<Utf8Text(Utf8(v[2][i][1])), AsJson(v[2][i][2])>>]>>
    [] OTHER -> v

-----------------------------------------------------------------------------
(* Writing                                                                  *)

RECURSIVE Varint(_)
Varint(n) == IF n >= Base THEN <<Base + (n % Base)>> \o Varint(n \div Base) ELSE <<n>>

Zigzag(v) == IF v >= 0 THEN v * 2 ELSE -v * 2 - 1

\* The zigzag value of a large integer does not fit a double, and is computed exactly.
WriteInt(v) ==
  IF v \in 0..(Base - 1) THEN <<Base + v>>
  ELSE <<Tags.int>> \o Varint(IF v > 2 ^ (Precision - 1) \/ -v > 2 ^ (Precision - 1) THEN Zigzag(v) ELSE Double(Zigzag(v)))

\* In Kotlin, with 64-bit integers throughout.
KtWriteInt(v) ==
  IF v \in 0..(Base - 1) THEN <<Base + v>> ELSE <<Tags.int>> \o Varint(Zigzag(v))

InlineKey(bytes) == Varint(Len(bytes) * 2 + 1) \o bytes
WriteKey(k) ==
  LET id == SelectInSeq(KeyNames, LAMBDA n : n = k)
  IN IF id # 0 THEN Varint((id - 1) * 2) ELSE InlineKey(Utf8(k))

\* A text already written is referred to by its place in the table.
Sized(bytes) == Varint(Len(bytes)) \o bytes
WriteString(w, s) ==
  LET i == SelectInSeq(w.strings, LAMBDA t : t = s)
  IN IF i # 0 THEN [w EXCEPT !.out = @ \o <<Tags.ref>> \o Varint(i - 1)]
     ELSE [w EXCEPT !.out = @ \o <<Tags.str>> \o Sized(Utf8(s)), !.strings = Append(@, s)]

Put(w, bs) == [w EXCEPT !.out = @ \o bs]

RECURSIVE WriteValue(_, _)
WriteValue(w, v) ==
  CASE v[1] \in {"null", "nan"} -> Put(w, <<Tags.null>>)
    [] v[1] = "bool"  -> Put(w, <<IF v[2] THEN Tags.true ELSE Tags.false>>)
    [] v[1] = "int"   -> Put(w, IF w.kotlin THEN KtWriteInt(v[2]) ELSE WriteInt(v[2]))
    [] v[1] = "float" -> Put(w, <<Tags.f64>> \o v[2])
    [] v[1] = "bytes" -> Put(w, <<Tags.bytes>> \o Sized(v[2]))
    [] v[1] = "str"   -> WriteString(w, v[2])
    [] v[1] = "arr"   -> FoldLeft(WriteValue, Put(w, <<Tags.arr>> \o Varint(Len(v[2]))), v[2])
    [] v[1] = "obj"   -> FoldLeft(LAMBDA x, f : WriteValue(Put(x, WriteKey(f[1])), f[2]),
                                  Put(w, <<Tags.obj>> \o Varint(Len(v[2]))), v[2])

Encode(v)   == WriteValue([kotlin |-> FALSE, out |-> <<>>, strings |-> <<>>], v).out
KtEncode(v) == WriteValue([kotlin |-> TRUE, out |-> <<>>, strings |-> <<>>], v).out

-----------------------------------------------------------------------------
(* Reading.  A reader is the bytes, a position, the table of texts, what    *)
(* references stood for so far, and the value read last, or that it failed. *)

Reader(bs) == [bs |-> bs, pos |-> 1, strings |-> <<>>, expanded |-> 0, v |-> <<"null">>, failed |-> FALSE]
Failed(r)  == [r EXCEPT !.failed = TRUE]
Unread(r)  == Len(r.bs) - r.pos + 1
Value(r, v) == IF r.failed THEN r ELSE [r EXCEPT !.v = v]

\* The digits of a number, up to the first byte that says no more follow.
UpToOne(bs, at, ends) == IF ends = {} THEN <<>> ELSE SubSeq(bs, at, Min(ends))
Digits(bs, at) == UpToOne(bs, at, {i \in at..Len(bs) : bs[i] < Base})

\* As many digits as a number written has, and one more; each adds to a double.
Longest == 1 + CHOOSE n \in 1..20 : Base ^ n > 2 * MaxSafe /\ Base ^ (n - 1) <= 2 * MaxSafe
AsDouble(ds) == FoldLeftDomain(LAMBDA n, i : Double(n + (ds[i] % Base) * Base ^ (i - 1)), 0, ds)
AsWhole(ds) == FoldLeftDomain(LAMBDA n, i : n + (ds[i] % Base) * Base ^ (i - 1), 0, ds)

NumberOf(r, ds) ==
  IF r.failed \/ Len(ds) \notin 1..Longest THEN Failed(r)
  ELSE [r EXCEPT !.pos = @ + Len(ds), !.v = AsDouble(ds)]
ReadVarint(r) == NumberOf(r, Digits(r.bs, r.pos))

\* Past what a double holds the number is read again, exactly.
Unzigzag(n) == IF n % 2 = 0 THEN Double(n \div 2) ELSE -Double((n + 1) \div 2)
IntOf(zz, r) ==
  IF zz.failed THEN zz
  ELSE Value(zz, <<"int", Unzigzag(IF zz.v <= MaxSafe THEN zz.v ELSE AsWhole(Digits(r.bs, r.pos)))>>)
ReadInt(r) == IntOf(ReadVarint(r), r)

ReadRaw(r, n) ==
  IF r.failed \/ n > Unread(r) THEN Failed(r) ELSE [r EXCEPT !.pos = @ + n, !.v = SubSeq(r.bs, r.pos, r.pos + n - 1)]

TextKey(text) == Value(text, Utf8Text(text.v))
KeyOf(k) ==
  CASE k.failed -> k
    [] ~k.failed /\ k.v % 2 = 0 -> IF k.v \div 2 < Len(KeyNames) THEN Value(k, KeyNames[k.v \div 2 + 1]) ELSE Failed(k)
    [] OTHER -> TextKey(ReadRaw(k, k.v \div 2))
ReadKey(r) == KeyOf(ReadVarint(r))

\* How many elements follow, against the nesting and the bytes left.
Fitting(n, depth, each) == IF n.failed \/ depth >= MaxNesting \/ n.v * each > Unread(n) THEN Failed(n) ELSE n
Count(r, depth, each) == Fitting(ReadVarint(r), depth, each)

NewString(r, text, length) == [Value(r, <<"str", text>>) EXCEPT !.strings = Append(@, [s |-> text, length |-> length])]
StringOf(raw, length) == IF raw.failed THEN raw ELSE NewString(raw, Utf8Text(raw.v), length)
OfLength(n) == StringOf(ReadRaw(n, n.v), n.v)
ReadString(r) == OfLength(ReadVarint(r))

\* References may expand a message up to a bound.
Expanded(i, text) ==
  IF i.expanded + text.length > Max({MaxExpansion * Len(i.bs), ExpansionFloor}) THEN Failed(i)
  ELSE [Value(i, <<"str", text.s>>) EXCEPT !.expanded = @ + text.length]
Referred(i) == IF i.failed \/ i.v >= Len(i.strings) THEN Failed(i) ELSE Expanded(i, i.strings[i.v + 1])
ReadRef(r) == Referred(ReadVarint(r))

\* A key that comes again replaces its value and keeps its place.
SetField(fs, k, v) ==
  LET i == SelectInSeq(fs, LAMBDA f : f[1] = k) IN IF i = 0 THEN Append(fs, <<k, v>>) ELSE [fs EXCEPT ![i] = <<k, v>>]

Floating(x) == Value(x, <<"float", x.v>>)
Binary(x) == Value(x, <<"bytes", x.v>>)

RECURSIVE Tagged(_, _, _), ReadItems(_, _, _, _), ReadFields(_, _, _, _)
ReadValue(r, depth) ==
  IF r.failed \/ Unread(r) = 0 THEN Failed(r) ELSE Tagged(r.bs[r.pos], [r EXCEPT !.pos = @ + 1], depth)

Tagged(tag, rest, depth) ==
  CASE tag >= Base -> Value(rest, <<"int", tag - Base>>)
    [] tag = Tags.null  -> Value(rest, <<"null">>)
    [] tag = Tags.false -> Value(rest, <<"bool", FALSE>>)
    [] tag = Tags.true  -> Value(rest, <<"bool", TRUE>>)
    [] tag = Tags.int   -> ReadInt(rest)
    [] tag = Tags.f64   -> Floating(ReadRaw(rest, 2))
    [] tag = Tags.str   -> ReadString(rest)
    [] tag = Tags.ref   -> ReadRef(rest)
    [] tag = Tags.bytes -> LET OfSize(n) == ReadRaw(n, n.v) IN Binary(OfSize(ReadVarint(rest)))
    [] tag = Tags.arr   -> LET OfCount(n) == ReadItems(n, n.v, <<>>, depth + 1) IN OfCount(Count(rest, depth, 1))
    [] tag = Tags.obj   -> LET OfCount(n) == ReadFields(n, n.v, <<>>, depth + 1) IN OfCount(Count(rest, depth, 2))
    [] OTHER -> Failed(rest)

ReadItems(r, n, items, depth) ==
  LET Then(x) == ReadItems(x, n - 1, Append(items, x.v), depth)
  IN IF r.failed \/ n = 0 THEN Value(r, <<"arr", items>>) ELSE Then(ReadValue(r, depth))

ReadFields(r, n, fields, depth) ==
  LET Then(k, x) == ReadFields(x, n - 1, SetField(fields, k.v, x.v), depth)
      AfterKey(k) == Then(k, ReadValue(k, depth))
  IN IF r.failed \/ n = 0 THEN Value(r, <<"obj", fields>>) ELSE AfterKey(ReadKey(r))

\* A value, with nothing after it.
AtItsEnd(r) == IF r.failed \/ Unread(r) # 0 THEN Failed(r) ELSE r
Decode(bs) == AtItsEnd(ReadValue(Reader(bs), 0))

-----------------------------------------------------------------------------
(* Frames                                                                   *)

Ping == <<"ping">>

\* Length-prefixed; a frame of no bytes keeps an idle stream alive.
EncodeFrames(msgs) ==
  FlattenSeq([i \in DOMAIN msgs |->
    IF msgs[i] = Ping THEN <<0>> ELSE Sized(Encode(msgs[i]))])

\* Whether the bytes start with a whole frame, and where it lies.
FrameAfter(off, len, bs) == [whole |-> off > 0 /\ Len(bs) >= off + len, off |-> off, len |-> len]
FirstFrame(bs) == LET ds == Digits(bs, 1) IN FrameAfter(Len(ds), AsDouble(ds), bs)

\* What a frame holds.
FrameOf(bs) == IF bs = <<>> THEN <<>> ELSE <<Decode(bs).v>>

RECURSIVE Complete(_)
WithoutFrame(b, f) ==
  IF ~f.whole THEN b
  ELSE Complete([rest |-> SubSeq(b.rest, f.off + f.len + 1, Len(b.rest)),
                 out |-> b.out \o FrameOf(SubSeq(b.rest, f.off + 1, f.off + f.len))])
Complete(b) == WithoutFrame(b, FirstFrame(b.rest))

Keep(b) == buffer' = b.rest /\ received' = b.out
Feed(n) ==
  /\ n \in 1..Len(wire)
  /\ Keep(Complete([rest |-> buffer \o SubSeq(wire, 1, n), out |-> received]))
  /\ wire' = SubSeq(wire, n + 1, Len(wire))
  /\ UNCHANGED rbSent

RbInit == rbSent \in Messages /\ wire = EncodeFrames(rbSent) /\ buffer = <<>> /\ received = <<>>
RbNext == \E n \in 1..Len(wire) : Feed(n)
RbSpec == RbInit /\ [][RbNext]_rbVars

-----------------------------------------------------------------------------

Values == SelectSeq(rbSent, LAMBDA m : m # Ping)

\* Whatever chunks the bytes come in, the values received are those sent, each
\* as JSON would have sent it, in order, and once every byte came nothing is
\* left over (RbCodec.decoder).
FramesArrive ==
  /\ IsPrefix(received, [i \in DOMAIN Values |-> AsJson(Values[i])])
  /\ wire = <<>> => Len(received) = Len(Values) /\ buffer = <<>>

\* The Kotlin runtime writes the bytes the TypeScript one does (the header of Rb.kt).
WritersAgree == \A i \in DOMAIN Values : KtEncode(Values[i]) = Encode(Values[i])

RECURSIVE TextIn(_), DepthOf(_)
TextIn(v) ==
  CASE v[1] = "str" -> Len(Utf8(v[2]))
    [] v[1] = "arr" -> FoldLeft(LAMBDA n, x : n + TextIn(x), 0, v[2])
    [] v[1] = "obj" -> FoldLeft(LAMBDA n, f : n + TextIn(f[2]), 0, v[2])
    [] OTHER -> 0
DepthOf(v) ==
  CASE v[1] = "arr" -> 1 + Max({0} \cup {DepthOf(v[2][i]) : i \in DOMAIN v[2]})
    [] v[1] = "obj" -> 1 + Max({0} \cup {DepthOf(v[2][i][2]) : i \in DOMAIN v[2]})
    [] OTHER -> 0

\* Whatever bytes arrive, reading them ends in an error or in a value no deeper
\* and no larger than the bounds.
NoBytesExplode ==
  LET Bounded(r, size) ==
        ~r.failed => DepthOf(r.v) <= MaxNesting /\ TextIn(r.v) <= size + Max({MaxExpansion * size, ExpansionFloor})
  IN rbSent = <<>> => \A bs \in Garbage : Bounded(Decode(bs), Len(bs))

\* What is written in Rayfold Binary is read as it was meant, in any chunks and
\* by either runtime, and what was never written costs no more than its bound.
BinaryHolds == FramesArrive /\ WritersAgree /\ NoBytesExplode
=============================================================================
