------------------------------- MODULE TcFrame -------------------------------
(***************************************************************************)
(* The frame MakeTCData (back/sgs/ros/src/fswcmd.cpp) builds of a command: *)
(* the parameters packed after a CCSDS header with its checksum, a CSP     *)
(* header before and a CRC behind them, and the modem's frame around it.   *)
(*                                                                         *)
(* Bytes are numbers; a CRC is represented by the data it is computed      *)
(* over.  The types of four and eight bytes and the floating-point ones    *)
(* are packed as the others are and left out, as are JSON numbers beyond   *)
(* 64 bits (beyond 32, as a bool).  A name that ends in "Mutant" is no     *)
(* part of the model.                                                      *)
(***************************************************************************)
EXTENDS Integers, Sequences, FiniteSets

CONSTANTS
    Inputs,         \* the commands the station is given
    ULong,          \* unsigned numbers of 64 bits are below this
    NaN             \* what is made of a value that is not of the parameter's type

VARIABLES
    cmd,            \* the command
    done,           \* whether MakeTCData has run
    frame           \* the frame it sends, none if the command cannot be packed

tcVars == <<cmd, done, frame>>

Bytes == 0 .. 255

\* Unsigned numbers of 16 bits are below this.
Word == 65536

(***************************************************************************)
(* A parameter's value is a JSON number without or with a fraction, a text *)
(* that is a number ("numeral"), a boolean or a word for one ("truth"), or *)
(* something else.  Numbers are counted in halves, true as one, and may be *)
(* too great for their fields.  The text is what a str parameter takes.    *)
(***************************************************************************)
Params == [type : STRING, size : Int, form : {"integer", "real", "numeral", "truth", "other"},
           halves : Int, text : Seq(Bytes)]

CspFields == [pri : Nat, src : Nat, dst : Nat, sport : Nat, dport : Nat, flags : Nat]

ASSUME TcAssumption ==
    /\ NaN \notin Int
    /\ ULong \in Nat /\ ULong > Word
    /\ Inputs \subseteq [msgid : Nat, cc : Nat, params : Seq(Params), csp : CspFields]

-----------------------------------------------------------------------------
(***************************************************************************)
(* The parameters.                                                         *)
(***************************************************************************)

\* A fraction is cut off.
Whole(p) == IF p.halves < 0 THEN -((-p.halves) \div 2) ELSE p.halves \div 2

\* to_u64: stoull takes the sign of a text, and counts down from the top.
ToU64(p) ==
    CASE p.form \in {"integer", "real"} /\ p.halves >= 0            -> Whole(p)
      [] p.form = "numeral" /\ Whole(p) \in 0 .. ULong - 1          -> Whole(p)
      [] p.form = "numeral" /\ Whole(p) \in -(ULong - 1) .. -1      -> Whole(p) + ULong
      [] OTHER                                                      -> NaN

\* to_i64.
ToI64(p) == IF p.form \in {"integer", "real", "numeral"} THEN Whole(p) ELSE NaN

\* to_bool1: a number with a fraction is refused.
ToBool1(p) ==
    CASE p.form \in {"integer", "truth"}           -> Whole(p)
      [] p.form = "real" /\ p.halves % 2 = 0       -> Whole(p)
      [] p.form = "numeral"                        -> ToU64(p)
      [] OTHER                                     -> NaN

\* What the reader of its type makes of a value.
Number(p) ==
    CASE p.type \in {"u8", "u16"} -> ToU64(p)
      [] p.type \in {"s8", "s16"} -> ToI64(p)
      [] OTHER                    -> ToBool1(p)

Refused == <<-1>>

IntTypes ==
    [u8  |-> [bytes |-> 1, least |-> 0,      greatest |-> 255],
     u16 |-> [bytes |-> 2, least |-> 0,      greatest |-> 65535],
     s8  |-> [bytes |-> 1, least |-> -128,   greatest |-> 127],
     s16 |-> [bytes |-> 2, least |-> -32768, greatest |-> 32767]]

Weight == <<1, 256>>

\* Most significant byte first.
LittleEndianSwappedMutant(n, bytes) ==
    [i \in 1 .. bytes |-> (n \div Weight[bytes + 1 - i]) % 256]

\* memcpy of the two's complement of n, least significant byte first.
LittleEndian(n, bytes) == [i \in 1 .. bytes |-> (n \div Weight[i]) % 256]

\* pack_one_by_type.
PackOne(p) ==
    CASE p.type \in DOMAIN IntTypes /\ Number(p) \in IntTypes[p.type].least .. IntTypes[p.type].greatest
             -> LittleEndian(Number(p), IntTypes[p.type].bytes)
      [] p.type = "bool" /\ Number(p) # NaN
             -> IF Number(p) = 0 THEN <<0>> ELSE <<1>>
      [] p.type = "str" /\ p.size > 0 /\ Len(p.text) <= p.size
             -> [i \in 1 .. p.size |-> IF i <= Len(p.text) THEN p.text[i] ELSE 0]
      [] OTHER -> Refused

Packs(params) == \A i \in 1 .. Len(params) : PackOne(params[i]) # Refused

\* The payload of pack_from_param_list after each parameter of a list.
PayloadAfter(params) ==
    LET payload[i \in 0 .. Len(params)] ==
            IF i = 0 THEN <<>> ELSE payload[i - 1] \o PackOne(params[i])
    IN  payload

Payload(params) == PayloadAfter(params)[Len(params)]

-----------------------------------------------------------------------------
(***************************************************************************)
(* The layers of the frame.                                                *)
(***************************************************************************)

\* The exclusive or of 255 and all bytes, bit by bit: the bit of a weight is set when
\* an even number of the bytes have it.
HasBit(n, weight) == (n \div weight) % 2 = 1

Parity(bytes, weight) ==
    (1 + Cardinality({i \in 1 .. Len(bytes) : HasBit(bytes[i], weight)})) % 2

Checksum(bytes) ==
    Parity(bytes, 1) + 2 * Parity(bytes, 2) + 4 * Parity(bytes, 4) + 8 * Parity(bytes, 8)
        + 16 * Parity(bytes, 16) + 32 * Parity(bytes, 32)
        + 64 * Parity(bytes, 64) + 128 * Parity(bytes, 128)

Msgid(c) == c.msgid % Word

Cc(c) == c.cc % 256

\* The command whose length byte is fixed.
IsFixed(c) == Msgid(c) = 6262 /\ Cc(c) = 2

\* The length byte leaves the secondary header out.
LengthByteMutant(c, payload) == IF IsFixed(c) THEN 77 ELSE Len(payload) % 256

LengthByte(c, payload) == IF IsFixed(c) THEN 77 ELSE (1 + Len(payload)) % 256

CommandHeader(c, payload) ==
    <<Msgid(c) \div 256, Msgid(c) % 256, 192, 0, 0, LengthByte(c, payload), Cc(c)>>

\* The bytes the checksum goes over, itself zero: n counts them in 16 bits.
Summed(bytes) == SubSeq(bytes, 1, Len(bytes) % Word)

\* build_inner_cmd.
Inner(c, payload) ==
    LET head == CommandHeader(c, payload)
    IN  head \o <<Checksum(Summed(head \o <<0>> \o payload))>> \o payload

\* build_csp_id_be and put_u32_be: priority 2 bits, source and destination 5 each,
\* destination port and source port 6 each, flags 8.
CspHeader(h) ==
    LET dst   == h.dst % 32
        dport == h.dport % 64
    IN  <<(h.pri % 4) * 64 + (h.src % 32) * 2 + dst \div 16,
          (dst % 16) * 16 + dport \div 4,
          (dport % 4) * 64 + (h.sport % 64),
          h.flags % 256>>

\* maybe_append_csp_crc32_tail: the CRC leaves out the header, against its comment.
Tail32(bytes, flags) ==
    IF flags % 2 = 1 THEN <<SubSeq(bytes, 5, Len(bytes))>> ELSE <<>>

\* EncapsulateTC: three words of header, the data with its tail, the CRC over all of
\* these, and the last word.
Encapsulate(bytes, tail) ==
    LET header == [preamble |-> "A1B2C3D4", length |-> 12 + Len(bytes) + 4 * Len(tail) + 8,
                   type |-> 1] IN
        [header |-> header, bytes |-> bytes, tail |-> tail,
         crc |-> [header |-> header, bytes |-> bytes, tail |-> tail],
         postamble |-> "5E4D3C2B"]

\* MakeTCData up to the sending.
Packed(c) ==
    LET bytes == CspHeader(c.csp) \o Inner(c, Payload(c.params))
    IN  IF Packs(c.params) THEN <<Encapsulate(bytes, Tail32(bytes, c.csp.flags))>> ELSE <<>>

TCNext ==
    /\ ~done
    /\ done' = TRUE
    /\ frame' = Packed(cmd)
    /\ UNCHANGED cmd

TCInit == cmd \in Inputs /\ frame = <<>> /\ done = FALSE

TCSpec == TCInit /\ [][TCNext]_tcVars

-----------------------------------------------------------------------------
(***************************************************************************)
(* Properties: what a receiver that knows the layout reads from the frame. *)
(***************************************************************************)

ReadNumber(bytes) == IF Len(bytes) = 1 THEN bytes[1] ELSE bytes[1] + 256 * bytes[2]

Reads(p, bytes) ==
    CASE p.type \in {"u8", "u16"} -> \/ ReadNumber(bytes) = Whole(p)
                                     \/ /\ p.form = "numeral" /\ Whole(p) < Word - ULong
                                        /\ ReadNumber(bytes) = Whole(p) + ULong
      [] p.type = "s8"   -> ReadNumber(bytes) = Whole(p) + IF Whole(p) < 0 THEN 256 ELSE 0
      [] p.type = "s16"  -> ReadNumber(bytes) = Whole(p) + IF Whole(p) < 0 THEN Word ELSE 0
      [] p.type = "bool" -> (bytes = <<0>>) = (Whole(p) = 0)
      [] p.type = "str"  -> \A i \in 1 .. Len(bytes) :
                               bytes[i] = IF i <= Len(p.text) THEN p.text[i] ELSE 0

Width(p) ==
    CASE p.type \in {"u8", "s8", "bool"} -> 1
      [] p.type \in {"u16", "s16"}       -> 2
      [] p.type = "str"                  -> p.size

\* How many bytes there are up to the end of each parameter of a list.
Ends(params) ==
    LET end[i \in 0 .. Len(params)] ==
            IF i = 0 THEN 12 ELSE end[i - 1] + Width(params[i])
    IN  end

\* A command that is sent carries every parameter where the types before it put it,
\* with the value that was given, and nothing behind the last: a value its type cannot
\* hold stops the command.  Two exceptions: fractions are cut off, and for an unsigned
\* type a text far below zero comes round to a number the type can hold.
ParametersReadBack ==
    frame # <<>> =>
        LET bytes == frame[1].bytes
            params == cmd.params
        IN  /\ \A i \in 1 .. Len(params) :
                  Reads(params[i], SubSeq(bytes, Ends(params)[i - 1] + 1, Ends(params)[i]))
            /\ Len(bytes) = Ends(params)[Len(params)]

\* The lengths and checksums that the layers carry agree with one another: the
\* modem's frame has the length it says, the CSP header gives back its six fields and
\* the CCSDS header its two, as far as they hold them, the CCSDS checksum makes all
\* bytes cancel out unless there are more than n can count, and the CCSDS length is
\* that of the packet, except in the command whose length is fixed and from 255 bytes
\* on, where the byte wraps.
HeadersAgree ==
    frame # <<>> =>
        LET f == frame[1]
            h == cmd.csp
            inner == SubSeq(f.bytes, 5, Len(f.bytes)) IN
            /\ f.header.length = 20 + Len(f.bytes) + IF h.flags % 2 = 1 THEN 4 ELSE 0
            /\ (f.tail = <<>>) = (h.flags % 2 = 0)
            /\ f.bytes[1] \div 64 = h.pri % 4
            /\ (f.bytes[1] % 64) \div 2 = h.src % 32
            /\ (f.bytes[1] % 2) * 16 + f.bytes[2] \div 16 = h.dst % 32
            /\ (f.bytes[2] % 16) * 4 + f.bytes[3] \div 64 = h.dport % 64
            /\ f.bytes[3] % 64 = h.sport % 64
            /\ f.bytes[4] = h.flags % 256
            /\ inner[1] * 256 + inner[2] = cmd.msgid % Word
            /\ inner[7] = cmd.cc % 256
            /\ Len(inner) < Word => Checksum(inner) = 0
            /\ inner[6] + 7 = Len(inner) \/ IsFixed(cmd) \/ Len(inner) - 8 >= 255
=============================================================================
