------------------------------- MODULE Framing -------------------------------
(***************************************************************************)
(* StreamFramingProtocol: what a frame of the serial transports looks      *)
(* like.  Begin flag, source, destination, length (two octets), payload,   *)
(* CRC of the payload (two octets); after the begin flag, octets equal to  *)
(* one of the two flags are escaped.                                       *)
(***************************************************************************)
EXTENDS Integers, Sequences, SequencesExt

Begin == 126    \* framing_begin_flag, 0x7E
Esc == 125      \* framing_esc_flag, 0x7D
XorFlag == 32   \* framing_xor_flag, 0x20
Octets == 0 .. 255

Local == 0      \* the agent's address
Remote == 1     \* the client's

\* The exclusive or of 16 bits, four at a time.
XorNibble(a, b) ==
    ((a + b) % 2) + 2 * ((a \div 2 + b \div 2) % 2)
        + 4 * ((a \div 4 + b \div 4) % 2) + 8 * ((a \div 8 + b \div 8) % 2)

Nibble(n, i) == (n \div i) % 16

Xor(a, b) ==
    XorNibble(Nibble(a, 1), Nibble(b, 1)) + 16 * XorNibble(Nibble(a, 16), Nibble(b, 16))
        + 256 * XorNibble(Nibble(a, 256), Nibble(b, 256))
        + 4096 * XorNibble(Nibble(a, 4096), Nibble(b, 4096))

\* crc16_table: each entry is its index, shifted out of the generator 0xA001.
Shift(c) == IF c % 2 = 1 THEN Xor(c \div 2, 40961) ELSE c \div 2

crc16_table ==
    [i \in Octets |-> Shift(Shift(Shift(Shift(Shift(Shift(Shift(Shift(i))))))))]

update_crc(crc, octet) == Xor(crc \div 256, crc16_table[Xor(crc, octet) % 256])

\* Of the first octets of a message, and of all.
CrcUpto(msg) ==
    LET crc[n \in 0 .. Len(msg)] == IF n = 0 THEN 0 ELSE update_crc(crc[n - 1], msg[n])
    IN  crc

Crc(msg) == CrcUpto(msg)[Len(msg)]

Low(n) == n % 256
High(n) == (n \div 256) % 256

\* The octets between the begin flag and the end of a frame, before escaping.
Body(from, to, msg) ==
    <<from, to, Low(Len(msg)), High(Len(msg))>> \o msg \o <<Low(Crc(msg)), High(Crc(msg))>>

EscapeOctet(o) == IF o \in {Begin, Esc} THEN <<Esc, Xor(o, XorFlag)>> ELSE <<o>>

Escape(octets) == FlattenSeq([i \in DOMAIN octets |-> EscapeOctet(octets[i])])

(* The reference: what a message is on the line.                           *)
Frame(from, to, msg) == <<Begin>> \o Escape(Body(from, to, msg))
=============================================================================
