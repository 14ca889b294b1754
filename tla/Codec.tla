-------------------------------- MODULE Codec --------------------------------
(***************************************************************************)
(* A command on its way: to_bytes of its class, possibly wrapped for the   *)
(* router by an operator and unwrapped there, and CMD.from_bytes.          *)
(***************************************************************************)
EXTENDS Commands

CONSTANTS
    Texts,              \* texts to send: sequences of "a" and "u"
    Numbers,            \* numbers to send, of one digit
    Spread              \* bound: fields of a command that are not plain

ASSUME CodecAssumption == /\ Texts \subseteq Seq({"a", "u"}) /\ <<"a">> \in Texts
                          /\ Numbers \subseteq 0..9 /\ 0 \in Numbers
                          /\ Spread \in Nat

VARIABLES
    cmd,                \* the command: its type and the values of its fields
    at,                 \* where it is
    wire,               \* what is on the wire
    got                 \* what from_buffer made of it

vars == <<cmd, at, wire, got>>

\* None as a text, only of WSNOK and WSNContinue.
NoText == <<"None">>

Values(kind) ==
    CASE kind \in {"u1", "u2", "u4", "u8", "int", "time"} -> Numbers
      [] kind = "flag"     -> BOOLEAN
      [] kind = "optional" -> Texts \cup {NoText}
      [] kind \in {"name", "address"} -> Texts \cup {IPv4, IPv6}
      [] kind = "list"     -> {<<>>} \cup {<<t>> : t \in Texts} \cup (Texts \X Texts)
      [] kind = "protocol" -> {"TCP", "UDP"}
      [] kind = "id"       -> {"connection"}
      [] kind = "pad"      -> {0}
      [] OTHER             -> Texts

Plain(kind) ==
    CASE kind \in {"u1", "u2", "u4", "u8", "int", "time"} -> 0
      [] kind = "flag"     -> FALSE
      [] kind = "list"     -> <<>>
      [] kind = "protocol" -> "TCP"
      [] kind = "id"       -> "connection"
      [] kind = "pad"      -> 0
      [] OTHER             -> <<"a">>

\* The values of a sequence of fields of which few are not plain.
Samples(fields) ==
    UNION {{[i \in DOMAIN fields |-> IF i = j THEN v ELSE IF i = k THEN w
                                     ELSE Plain(fields[i][2])] :
                v \in IF Spread > 0 THEN Values(fields[j][2]) ELSE {Plain(fields[j][2])},
                w \in IF Spread > 1 THEN Values(fields[k][2]) ELSE {Plain(fields[k][2])}} :
           j \in DOMAIN fields, k \in DOMAIN fields}
      \cup {[i \in DOMAIN fields |-> Plain(fields[i][2])]}

Named(fields, values) ==
    [n \in {fields[i][1] : i \in DOMAIN fields} |->
        values[CHOOSE i \in DOMAIN fields : fields[i][1] = n]]

SampleCommands ==
    UNION {{[type |-> t, args |-> Named(type2cmd[t].out, values)] :
               values \in Samples(type2cmd[t].out)} : t \in DOMAIN type2cmd}

Nothing == [type |-> "none", args |-> <<>>, rest |-> <<>>, ok |-> FALSE]

-----------------------------------------------------------------------------
Widths == [u1 |-> 1, u2 |-> 2, u4 |-> 4, u8 |-> 8]

Write(kind, v) ==
    CASE kind \in DOMAIN Widths -> <<Num(v, Widths[kind])>>
      [] kind = "time"     -> <<Num(v \div 2, 8)>>        \* v counts half seconds
      [] kind = "flag"     -> <<Num(IF v THEN 1 ELSE 0, 1)>>
      [] kind = "int"      -> writeStr(Digits(v), "utf-8")
      [] kind = "str"      -> writeStr(v, "utf-8")
      [] kind = "wide"     -> writeStr(v, "utf-16-le")
      [] kind = "optional" -> IF v = NoText THEN <<>> ELSE writeStr(v, "utf-8")
      [] kind = "counted"  -> writeCounted(v)
      [] kind = "bytes"    -> writeBytes(v)
      [] kind = "rest"     -> Bytes(v, "raw")
      [] kind = "list"     -> WriteList(v)
      [] kind = "name"     -> WriteAddress(v, writeCounted(v))
      [] kind = "address"  -> WriteAddress(v, writeStr(v, "utf-8"))
      [] kind = "protocol" -> <<Protocol(v)>>
      [] kind = "id"       -> <<Id(v)>>
      [] kind = "pad"      -> <<Pad>>

Read(kind, s) ==
    CASE kind \in DOMAIN Widths -> ReadNum(s, Widths[kind])
      [] kind = "flag"     -> [ReadNum(s, 1) EXCEPT !.val = @ # 0, !.ok = @ /\ s # <<>>]
      [] kind = "int"      -> ReadInt(s)
      [] kind \in {"str", "optional", "counted"} -> readStr(s, "utf-8")
      [] kind = "wide"     -> readStr(s, "utf-16-le")
      [] kind = "bytes"    -> readBytes(s)
      [] kind = "rest"     -> Text(s, "raw") @@ [rest |-> <<>>]
      [] kind = "list"     -> ReadList(s)
      [] kind \in {"name", "address"} -> ReadAddress(s)
      [] kind = "protocol" -> ReadUnit(s, "protocol")
      [] kind = "id"       -> ReadUnit(s, "id")

\* The fields of a class as to_data writes them.
Fields(c) ==
    LET out == type2cmd[c.type].out IN
    FlattenSeq([i \in DOMAIN out |-> Write(out[i][2], c.args[out[i][1]])])

\* Mutant of to_data: the token comes last.
to_data_last(c) == <<TypeOf(c.type)>> \o Fields(c) \o <<Id("token")>>

to_data(c) == <<TypeOf(c.type), Id("token")>> \o Fields(c)

\* The length counts its own four bytes.
to_bytes(c) == LET data == to_data(c) IN <<Num(Size(data) + 4, 4)>> \o data

\* One more field is read.
Extend(r, name, x) == [rest |-> x.rest, args |-> r.args @@ (name :> x.val),
                       ok |-> r.ok /\ x.ok]

ReadFields(token, in) ==
    FoldLeft(LAMBDA r, f : Extend(r, f[1], Read(f[2], r.rest)),
             [rest |-> token.rest, args |-> <<>>, ok |-> token.ok /\ token.val = "token"],
             in)

FromType(type) ==
    IF type.ok /\ type.val \in DOMAIN type2cmd
    THEN [ReadFields(ReadUnit(type.rest, "id"), type2cmd[type.val].in)
             EXCEPT !.rest = <<>>] @@ [type |-> type.val]
    ELSE Nothing

\* CMD.from_buffer: the length is not looked at.
from_buffer(s) == FromType(ReadUnit(ReadNum(s, 4).rest, "type"))

-----------------------------------------------------------------------------
Init == cmd \in SampleCommands /\ at = "new" /\ wire = <<>> /\ got = Nothing

Send ==
    /\ at = "new"
    /\ wire' = to_bytes(cmd) /\ at' = "wire"
    /\ UNCHANGED <<cmd, got>>

\* OPCMD.to_bytes
Wrap ==
    /\ at = "wire"
    /\ wire' = <<Num(Size(wire) + 16, 4), Id("agent")>> \o wire /\ at' = "wrapped"
    /\ UNCHANGED <<cmd, got>>

\* The router passes data[20:] on.
Unwrap ==
    /\ at = "wrapped"
    /\ wire' = ReadRaw(wire, 20).rest /\ at' = "unwrapped"
    /\ UNCHANGED <<cmd, got>>

Receive ==
    /\ at \in {"wire", "unwrapped"}
    /\ got' = from_buffer(wire) /\ at' = "received"
    /\ UNCHANGED <<cmd, wire>>

Next == Send \/ Wrap \/ Unwrap \/ Receive

Spec == Init /\ [][Next]_vars

-----------------------------------------------------------------------------
\* What the fields of a received command have to be: None has become the empty
\* text, and a time a number of seconds.
Expected(kind, v) == CASE kind = "optional" -> IF v = NoText THEN <<>> ELSE v
                       [] kind = "time"     -> v \div 2
                       [] OTHER             -> v

\* The classes that count characters are only used with what is ASCII.
Countable(c) ==
    LET out == type2cmd[c.type].out IN
    \A i \in DOMAIN out :
        out[i][2] \in {"counted", "name"} => "u" \notin ToSet(c.args[out[i][1]])

\* A command arrives as it was sent, directly or through the router, for every
\* class, and for texts of all languages where lengths are those of encoded texts.
RoundTrip ==
    at = "received" /\ Countable(cmd) =>
        LET out == type2cmd[cmd.type].out
            in  == type2cmd[cmd.type].in
        IN /\ got.ok /\ got.type = cmd.type
           /\ \A i \in DOMAIN in :
                 got.args[in[i][1]] = Expected(out[i][2], cmd.args[in[i][1]])

\* The router never parses what it relays: it cuts the token out of the bytes of
\* whatever command an agent (6:22) or an operator (26:42, the agent at 4:20) sent.
Found(id, offset) ==
    \E k \in DOMAIN wire : /\ Size(SubSeq(wire, 1, k - 1)) = offset
                           /\ wire[k].tag = "id" /\ wire[k].val = id

RouterSeesToken ==
    /\ at = "wire" => Found("token", 6)
    /\ at = "wrapped" => Found("token", 26) /\ Found("agent", 4)
=============================================================================
