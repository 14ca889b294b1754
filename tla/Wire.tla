-------------------------------- MODULE Wire --------------------------------
(***************************************************************************)
(* How the classes of wsnet.protocol put values on the wire and read them. *)
(*                                                                         *)
(* What is on the wire is a sequence of units: a number of some width, the *)
(* bytes of a text one by one, and identifiers and addresses as a whole.   *)
(* A read that does not end where a unit ends, or that takes one unit for  *)
(* another, yields garbage or an exception: ok is then FALSE.              *)
(*                                                                         *)
(* A text is a sequence of characters, "a" standing for those of ASCII and *)
(* "u" for all others.                                                     *)
(***************************************************************************)
EXTENDS Naturals, Sequences, SequencesExt, TLC

Num(v, w)   == [tag |-> "num", size |-> w, val |-> v]
TypeOf(t)   == [tag |-> "type", size |-> 2, val |-> t]
Id(x)       == [tag |-> "id", size |-> 16, val |-> x]
Addr(ver)   == [tag |-> "addr", size |-> IF ver = 4 THEN 4 ELSE 16, val |-> ver]
Protocol(p) == [tag |-> "protocol", size |-> 3, val |-> p]
Pad         == [tag |-> "pad", size |-> 4, val |-> 0]

Size(s) == FoldLeft(LAMBDA n, u : n + u.size, 0, s)

-----------------------------------------------------------------------------
(* Texts.                                                                   *)

Width(c, enc) == CASE enc = "raw" -> 1
                   [] enc = "utf-8" -> IF c = "u" THEN 2 ELSE 1
                   [] enc = "utf-16-le" -> 2

Bytes(t, enc) ==
    FlattenSeq([i \in DOMAIN t |->
        [k \in 1..Width(t[i], enc) |->
            [tag |-> "byte", size |-> 1, val |-> <<t[i], k, enc>>]]])

Leading(s) == SelectSeq(s, LAMBDA u : u.val[2] = 1)

Parsed(s, lead, enc) ==
    LET t == [i \in DOMAIN lead |-> lead[i].val[1]] IN
    [val |-> t, ok |-> Bytes(t, enc) = s]

\* The text with these bytes, if they are those of a text.
Text(s, enc) ==
    IF \A i \in DOMAIN s : s[i].tag = "byte" THEN Parsed(s, Leading(s), enc)
                                            ELSE [val |-> <<>>, ok |-> FALSE]

-----------------------------------------------------------------------------
(* Reading from a buffer.  A result has the value, the rest of the buffer   *)
(* and whether both are what the reader takes them for.                     *)

\* Where a read of n bytes may end; at the end of s when there are no more.
Ends(s, n) == {k \in 0..Len(s) : LET size == Size(SubSeq(s, 1, k)) IN
                                  size = n \/ (k = Len(s) /\ size < n)}

Split(s, ends) ==
    LET k == IF ends = {} THEN Len(s) ELSE CHOOSE x \in ends : TRUE IN
    [val |-> SubSeq(s, 1, k), rest |-> SubSeq(s, k + 1, Len(s)), ok |-> ends # {}]

\* buff.read(n)
ReadRaw(s, n) == Split(s, Ends(s, n))

\* int.from_bytes(buff.read(w)): 0 at the end of the buffer.
ReadNum(s, w) ==
    LET fits == s # <<>> /\ Head(s).tag = "num" /\ Head(s).size = w IN
    [val |-> IF fits THEN Head(s).val ELSE 0,
     rest |-> IF s = <<>> THEN s ELSE Tail(s), ok |-> fits \/ s = <<>>]

\* A unit as a whole.
ReadUnit(s, tag) ==
    LET fits == s # <<>> /\ Head(s).tag = tag IN
    [val |-> IF fits THEN Head(s).val ELSE "none",
     rest |-> IF s = <<>> THEN s ELSE Tail(s), ok |-> fits]

\* What follows the length n, and that as a text.
Counted(n) == [ReadRaw(n.rest, n.val) EXCEPT !.ok = @ /\ n.ok]

Decoded(r, enc) == [Text(r.val, enc) EXCEPT !.ok = @ /\ r.ok] @@ [rest |-> r.rest]

readStr(s, enc) == Decoded(Counted(ReadNum(s, 4)), enc)

readBytes(s) == readStr(s, "raw")

\* Mutant of writeStr: the length is taken before the text is encoded.
writeStrCounts(t, enc) == <<Num(Len(t), 4)>> \o Bytes(t, enc)

writeStr(t, enc) == <<Num(Size(Bytes(t, enc)), 4)>> \o Bytes(t, enc)

writeBytes(t) == <<Num(Size(Bytes(t, "raw")), 4)>> \o Bytes(t, "raw")

\* What some classes do instead: the length counts characters, not bytes.
writeCounted(t) == <<Num(Len(t), 4)>> \o Bytes(t, "utf-8")

-----------------------------------------------------------------------------
(* Numbers as texts: str(n) and int(text), for numbers of one digit.        *)

Digits(n) == <<ToString(n)>>

Value(t) ==
    LET N == {n \in 0..9 : t.val = Digits(n)} IN
    [t EXCEPT !.val = IF N = {} THEN 0 ELSE CHOOSE n \in N : TRUE, !.ok = @ /\ N # {}]

ReadInt(s) == Value(readStr(s, "utf-8"))

-----------------------------------------------------------------------------
(* Addresses: of version 4, of version 6, or a name, here as it is written. *)

IPv4 == <<"v4">>
IPv6 == <<"v6">>

WriteAddress(t, name) ==
    CASE t = IPv4 -> <<Num(4, 1), Addr(4)>>
      [] t = IPv6 -> <<Num(6, 1), Addr(6)>>
      [] OTHER    -> <<Num(255, 1)>> \o name

Address(ver, addr) ==
    [val |-> IF ver = 4 THEN IPv4 ELSE IPv6, rest |-> addr.rest,
     ok |-> addr.ok /\ addr.val = ver]

AddressOf(ver) ==
    CASE ver.val = 255      -> readStr(ver.rest, "utf-8")
      [] ver.val \in {4, 6} -> Address(ver.val, ReadUnit(ver.rest, "addr"))
      [] OTHER              -> [val |-> <<>>, rest |-> ver.rest, ok |-> FALSE]

ReadAddress(s) == AddressOf(ReadNum(s, 1))

\* count, and as many texts.
WriteList(ts) ==
    <<Num(Len(ts), 4)>> \o FlattenSeq([i \in DOMAIN ts |-> writeStr(ts[i], "utf-8")])

More(r, t) == [val |-> Append(r.val, t.val), rest |-> t.rest, ok |-> r.ok /\ t.ok]

Listed(n) == FoldLeft(LAMBDA r, i : More(r, readStr(r.rest, "utf-8")),
                      [n EXCEPT !.val = <<>>], [i \in 1..n.val |-> i])

ReadList(s) == Listed(ReadNum(s, 4))
=============================================================================
