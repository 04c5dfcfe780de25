-------------------------------- MODULE Cdr --------------------------------
(***************************************************************************)
(* The CDR encoding (XCDRv1 of Fast CDR) as the XRCE types of the Agent    *)
(* use it.  A type is a record built by the constructors below, a value is *)
(* built from tokens <<path, n>>, and an encoded buffer is a sequence of   *)
(* bytes, each naming the token it belongs to and its place in it.  A      *)
(* primitive read back in another place, width or byte order than it was   *)
(* written is therefore garbage, and padding is visible.                   *)
(*                                                                         *)
(* A class carries five things the code writes separately and that need    *)
(* not agree: what serialize puts on the wire (ser), what deserialize      *)
(* takes from it (des), what getCdrSerializedSize counts (counted), what   *)
(* getMaxCdrSerializedSize counts (bounded) and what the copies leave      *)
(* behind (uncopied).                                                      *)
(***************************************************************************)
EXTENDS Integers, Sequences, SequencesExt, FiniteSetsExt, TLC

CONSTANTS Lengths,   \* the lengths tried for strings and octet sequences
          Ends       \* the byte orders tried: a subset of {"little", "big"}

-----------------------------------------------------------------------------
(* Types.                                                                   *)

Prim(w)      == [k |-> "prim", w |-> w]
U8           == Prim(1)
U16          == Prim(2)
U32          == Prim(4)
U64          == Prim(8)
Arr(n)       == [k |-> "arr", n |-> n]
StrMax(n)    == [k |-> "str", max |-> n]
Str          == StrMax(255)
Octets       == [k |-> "octets"]           \* std::vector<uint8_t>
RawOctets    == [k |-> "raw"]              \* octets without their number
Opt(T)       == [k |-> "opt", of |-> T]
Vec(T)       == [k |-> "seq", of |-> T]

\* Only counted, never serialized: a sequence without its length, the value
\* of an Optional without its flag, a result that is not added, and a size
\* computed as if the object began at alignment 0.
Unprefixed(T) == [k |-> "unprefixed", of |-> T]
Deref(T)      == [k |-> "deref", of |-> T]
Ignored(T)    == [k |-> "ignored", of |-> T]
FromZero(T)   == [k |-> "from_zero", of |-> T]

\* The sizes of a class count the members on the wire, and copies take every
\* member, unless the class says otherwise.
Class(m, order) ==
    [k |-> "class", mem |-> m, ser |-> order, des |-> order, uncopied |-> {},
     counted |-> [i \in DOMAIN order |-> <<m[order[i]], order[i]>>],
     bounded |-> [i \in DOMAIN order |-> m[order[i]]]]

Derived(base, m, order) ==
    LET own == Class(m, order)
    IN  [own EXCEPT !.mem = m @@ base.mem, !.ser = base.ser \o order,
                    !.des = base.des \o order,
                    !.uncopied = base.uncopied,
                    !.counted = base.counted \o own.counted,
                    !.bounded = base.bounded \o own.bounded]

\* A union: new is its default discriminator, cases maps a discriminator to
\* the member it selects, and maxima groups the members whose bounds the code
\* adds before it compares.
Union(new, m, cases) ==
    [k |-> "union", mem |-> m, new |-> new, cases |-> cases, counted |-> m,
     maxima |-> {<<cases[d]>> : d \in DOMAIN cases}]

-----------------------------------------------------------------------------
(* Values.                                                                  *)

Num(n)   == <<<<"num">>, n>>
Empty    == <<<<>>, 0>>
Garbage  == <<<<"garbage">>, 0>>
Default  == <<<<"default">>, 0>>

RECURSIVE Fresh(_)
Fresh(T) ==
    CASE T.k \in {"prim", "arr"} -> Default
      [] T.k \in {"str", "octets", "raw"} -> Empty
      [] T.k \in {"opt", "seq"} -> <<>>
      [] T.k = "class" -> [n \in DOMAIN T.mem |-> Fresh(T.mem[n])]
      [] T.k = "union" -> [d |-> T.new.d, val |-> <<Fresh(T.mem[T.cases[T.new.d]])>>]

Sized(p, n) == IF n = 0 THEN Empty ELSE <<p, n>>

\* Values of a type: every choice of options, cases and lengths, with each
\* primitive a token of its own.  Members that are never on the wire keep
\* their default.
RECURSIVE Values(_, _)
Values(T, p) ==
    CASE T.k = "prim" -> {<<p, 0>>}
      [] T.k = "arr" -> {<<p, T.n>>}
      [] T.k \in {"str", "octets", "raw"} -> {Sized(p, n) : n \in Lengths}
      [] T.k = "opt" -> {<<>>} \cup {<<x>> : x \in Values(T.of, p)}
      [] T.k = "seq" ->
            {<<>>} \cup {<<x>> : x \in Values(T.of, Append(p, "1"))}
            \cup {<<CHOOSE x \in Values(T.of, Append(p, "1")) : TRUE,
                    CHOOSE x \in Values(T.of, Append(p, "2")) : TRUE>>}
      [] T.k = "class" ->
            FoldSet(LAMBDA n, vs :
                        {v @@ (n :> x) : v \in vs, x \in Values(T.mem[n], Append(p, n))},
                    {[n \in DOMAIN T.mem \ Range(T.ser) |-> Fresh(T.mem[n])]}, Range(T.ser))
      [] T.k = "union" ->
            UNION {{[d |-> d, val |-> <<x>>] : x \in Values(T.mem[T.cases[d]], Append(p, T.cases[d]))}
                   : d \in DOMAIN T.cases}

-----------------------------------------------------------------------------
(* Encoding.  Alignment is relative to the start of the buffer.             *)

Padding(at, w) == (w - (at % w)) % w

\* The bytes of a token, in the byte order that was chosen.
Bytes(v, w, e) ==
    [i \in 1..w |-> <<v[1], v[2], IF e = "little" THEN i ELSE w + 1 - i>>]

Pad(b, w) == b \o [i \in 1..Padding(Len(b), w) |-> <<<<>>, 0, 0>>]

RECURSIVE Put(_, _, _, _)
Put(T, v, b, e) ==
    CASE T.k = "prim" -> Pad(b, T.w) \o Bytes(v, T.w, e)
      [] T.k = "arr" -> b \o Bytes(v, T.n, "little")
      [] T.k = "str" -> Put(U32, Num(v[2] + 1), b, e) \o Bytes(v, v[2] + 1, "little")
      [] T.k = "octets" -> Put(U32, Num(v[2]), b, e) \o Bytes(v, v[2], "little")
      [] T.k = "raw" -> b \o Bytes(v, v[2], "little")
      [] T.k = "opt" ->
            IF v = <<>> THEN Put(U8, Num(0), b, e)
            ELSE Put(T.of, v[1], Put(U8, Num(1), b, e), e)
      [] T.k = "seq" ->
            FoldLeft(LAMBDA acc, x : Put(T.of, x, acc, e), Put(U32, Num(Len(v)), b, e), v)
      [] T.k = "class" ->
            FoldLeft(LAMBDA acc, n : Put(T.mem[n], v[n], acc, e), b, T.ser)
      [] T.k = "union" ->
            LET tagged == Put(U8, Num(v.d), b, e)
            IN  IF v.d \in DOMAIN T.cases
                THEN Put(T.mem[T.cases[v.d]], v.val[1], tagged, e) ELSE tagged

-----------------------------------------------------------------------------
(* Decoding into an existing object.  A result is [ok, v, at]; ok is FALSE  *)
(* when the buffer ends first (NotEnoughMemoryException).                   *)

Token(b, at, w, e) ==
    LET v == <<b[at + 1][1], b[at + 1][2]>>
    IN  IF SubSeq(b, at + 1, at + w) = Bytes(v, w, e) THEN v ELSE Garbage

Take(b, at, w, e) ==
    IF at + w > Len(b) THEN [ok |-> FALSE, v |-> Garbage, at |-> at]
    ELSE [ok |-> TRUE, v |-> IF w = 0 THEN Empty ELSE Token(b, at, w, e), at |-> at + w]

IsNum(r) == r.ok /\ r.v[1] = <<"num">>

RECURSIVE Get(_, _, _, _, _)
Get(T, into, b, at, e) ==
    CASE T.k = "prim" -> Take(b, at + Padding(at, T.w), T.w, e)
      [] T.k = "arr" -> Take(b, at, T.n, "little")
      [] T.k = "raw" -> Take(b, at, into[2], "little")
      [] T.k \in {"str", "octets"} ->
            LET n == Get(U32, Default, b, at, e)
            IN  IF IsNum(n) THEN Take(b, n.at, n.v[2], "little") ELSE [n EXCEPT !.ok = FALSE]
      [] T.k = "opt" ->
            LET flag == Get(U8, Default, b, at, e)
                r == Get(T.of, Fresh(T.of), b, flag.at, e)
            IN  IF ~IsNum(flag) THEN [flag EXCEPT !.ok = FALSE]
                ELSE IF flag.v[2] = 0 THEN [flag EXCEPT !.v = into]
                ELSE [r EXCEPT !.v = <<r.v>>]
      [] T.k = "seq" ->
            LET n == Get(U32, Default, b, at, e)
            IN  IF ~IsNum(n) THEN [n EXCEPT !.ok = FALSE]
                ELSE FoldLeft(LAMBDA acc, i :
                        IF ~acc.ok THEN acc
                        ELSE LET r == Get(T.of, IF i <= Len(into) THEN into[i] ELSE Fresh(T.of),
                                          b, acc.at, e)
                             IN  [r EXCEPT !.v = Append(acc.v, r.v)],
                        [n EXCEPT !.v = <<>>], [i \in 1..n.v[2] |-> i])
      [] T.k = "class" ->
            FoldLeft(LAMBDA acc, n :
                        IF ~acc.ok THEN acc
                        ELSE LET r == Get(T.mem[n], acc.v[n], b, acc.at, e)
                             IN  [r EXCEPT !.v = [acc.v EXCEPT ![n] = r.v]],
                     [ok |-> TRUE, v |-> into, at |-> at], T.des)
      [] T.k = "union" ->
            LET tag == Get(U8, Default, b, at, e)
                M == T.mem[T.cases[tag.v[2]]]
                r == Get(M, IF into.d = tag.v[2] THEN into.val[1] ELSE Fresh(M), b, tag.at, e)
            IN  IF ~IsNum(tag) THEN [tag EXCEPT !.ok = FALSE]
                ELSE IF tag.v[2] \in DOMAIN T.cases
                     THEN [r EXCEPT !.v = [d |-> tag.v[2], val |-> <<r.v>>]]
                     ELSE [tag EXCEPT !.v = [d |-> tag.v[2], val |-> <<>>]]

-----------------------------------------------------------------------------
(* Sizes, as the position reached from position a.                          *)

Aligned(a, w) == a + Padding(a, w) + w

RECURSIVE SizeFrom(_, _, _)
SizeFrom(T, v, a) ==
    CASE T.k = "prim" -> Aligned(a, T.w)
      [] T.k = "arr" -> a + T.n
      [] T.k = "str" -> Aligned(a, 4) + v[2] + 1
      [] T.k = "octets" -> Aligned(a, 4) + v[2]
      [] T.k = "raw" -> a + v[2]
      [] T.k = "opt" -> IF v = <<>> THEN a + 1 ELSE SizeFrom(T.of, v[1], a + 1)
      [] T.k = "deref" -> SizeFrom(T.of, IF v = <<>> THEN Fresh(T.of) ELSE v[1], a)
      [] T.k = "ignored" -> a
      [] T.k = "from_zero" -> a + SizeFrom(T.of, v, 0)
      [] T.k = "seq" -> FoldLeft(LAMBDA acc, x : SizeFrom(T.of, x, acc), Aligned(a, 4), v)
      [] T.k = "unprefixed" ->
            IF v = <<>> THEN a + 1
            ELSE FoldLeft(LAMBDA acc, x : SizeFrom(T.of, x, acc), a + 1, v[1])
      [] T.k = "class" ->
            FoldLeft(LAMBDA acc, c : SizeFrom(c[1], v[c[2]], acc), a, T.counted)
      [] T.k = "union" ->
            IF v.d \in DOMAIN T.cases THEN SizeFrom(T.counted[T.cases[v.d]], v.val[1], a + 1)
            ELSE a + 1

\* getCdrSerializedSize(alignment)
SizeOf(T, v, a) == SizeFrom(T, v, a) - a

\* The bound the code assumes on the length of every sequence.
MaxElements == 100

\* The position after n elements, by halves; the first half is evaluated
\* before the second, which keeps TLC's recursion shallow.
RECURSIVE BoundFrom(_, _), Repeated(_, _, _)
Repeated(T, a, n) ==
    CASE n = 0 -> a
      [] n = 1 -> BoundFrom(T, a)
      [] OTHER -> LET half == Repeated(T, a, n \div 2)
                  IN  IF half = a THEN a ELSE Repeated(T, half, n - n \div 2)

BoundFrom(T, a) ==
    CASE T.k = "prim" -> Aligned(a, T.w)
      [] T.k = "arr" -> a + T.n
      [] T.k = "str" -> Aligned(a, 4) + T.max + 1
      [] T.k = "octets" -> Aligned(a, 4) + MaxElements
      [] T.k = "raw" -> a + MaxElements
      [] T.k = "opt" -> BoundFrom(T.of, a + 1)
      [] T.k = "seq" -> Repeated(T.of, Aligned(a, 4), MaxElements)
      [] T.k = "class" -> FoldLeft(LAMBDA acc, c : BoundFrom(c, acc), a, T.bounded)
      [] T.k = "union" ->
            Max({FoldLeft(LAMBDA acc, n : BoundFrom(T.mem[n], acc), a + 1, group)
                 : group \in T.maxima})

\* getMaxCdrSerializedSize(alignment)
BoundOf(T, a) == BoundFrom(T, a) - a

-----------------------------------------------------------------------------
(* Copy construction and assignment to a new object.                        *)

RECURSIVE Copy(_, _)
Copy(T, v) ==
    CASE T.k = "class" ->
            [n \in DOMAIN T.mem |->
                IF n \in T.uncopied THEN Fresh(T.mem[n]) ELSE Copy(T.mem[n], v[n])]
      [] T.k = "union" ->
            [v EXCEPT !.val = IF v.d \in DOMAIN T.cases
                              THEN <<Copy(T.mem[T.cases[v.d]], v.val[1])>> ELSE <<>>]
      [] T.k \in {"opt", "seq"} -> [i \in DOMAIN v |-> Copy(T.of, v[i])]
      [] OTHER -> v
=============================================================================
