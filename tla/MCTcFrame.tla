------------------------------- MODULE MCTcFrame -------------------------------
(***************************************************************************)
(* TLC instance of TcFrame: commands of no, one or two parameters with     *)
(* values at, below and above the bounds of their types, headers with      *)
(* every field at its least or greatest value or beyond it, payloads of    *)
(* 254 bytes and more, and one that the count of the checksum cannot hold. *)
(***************************************************************************)
EXTENDS TcFrame

Numbers == {-32769, -32768, -129, -128, -1, 0, 1, 127, 128, 255, 256, 65535, 65536}

\* Texts that stoull refuses, or of which it makes 1, 255, 256, 65535 and 65536.
FarBelow == {-ULong, 1 - ULong, 255 - ULong, 256 - ULong, Word - 1 - ULong, Word - ULong}

Value(form, halves) == [form |-> form, halves |-> halves]

Values ==
    {Value(form, 2 * n) : form \in {"integer", "numeral"}, n \in Numbers}
    \cup {Value("numeral", 2 * n) : n \in FarBelow \cup {ULong}}
    \cup {Value("real", n) : n \in {-65537, -257, -1, 0, 1, 255, 511, 512, 131071}}
    \cup {Value("truth", 0), Value("truth", 2), Value("other", 0)}

Param(type, size, value, text) ==
    [type |-> type, size |-> size, form |-> value.form, halves |-> value.halves, text |-> text]

NoNumber == Value("other", 0)

Ints  == {Param(type, 0, value, <<>>) : type \in DOMAIN IntTypes, value \in Values}
Bools == {Param("bool", 0, value, <<>>) : value \in Values}
Texts == {Param("str", size, NoNumber, text) :
             size \in {0, 2, 3}, text \in {<<>>, <<65, 66>>, <<65, 66, 67>>}}
Longs == {Param("str", size, NoNumber, <<65>>) : size \in {253, 254, 255, 256}}
Huge  == {Param("str", 65540, NoNumber, <<65>>)}

Short == {<<>>} \cup {<<p>> : p \in Ints \cup Bools \cup Texts}
Second == {r \in Ints \cup Bools : r.form = "integer" /\ r.halves \in {-2, 0, 510}}
Pairs == {<<p, q>> : p \in Ints \cup Texts, q \in Second}

Csp(pri, src, dst, sport, dport, flags) ==
    [pri |-> pri, src |-> src, dst |-> dst, sport |-> sport, dport |-> dport, flags |-> flags]

Default == Csp(1, 28, 3, 10, 13, 1)

Headers ==
    {Csp(pri, src, dst, sport, dport, flags) :
        pri \in {0, 3}, src \in {0, 31}, dst \in {0, 31}, sport \in {0, 63}, dport \in {0, 63},
        flags \in {0, 1}}
    \cup {Csp(4, 32, 32, 64, 64, 256), Csp(7, 63, 63, 127, 127, 257)}

MCInputs ==
    [msgid : {6262, 71798}, cc : {2, 3, 258}, params : Short \cup {<<p>> : p \in Longs}, csp : {Default}]
        \cup [msgid : {6160}, cc : {0}, params : Pairs, csp : {Default}]
        \cup [msgid : {6160}, cc : {0}, params : {<<>>}, csp : Headers]
        \cup [msgid : {6160}, cc : {0}, params : {<<p>> : p \in Huge}, csp : {Default}]
================================================================================
