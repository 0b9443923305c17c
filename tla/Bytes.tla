-------------------------------- MODULE Bytes --------------------------------
(***************************************************************************)
(* The fixed-length encodings of integers (bytes.go): least significant    *)
(* byte first.  An index is where the bytes start, counted from 0 as in    *)
(* the code.                                                               *)
(***************************************************************************)
EXTENDS Integers, Sequences

Byte == 0 .. 255

\* The types uint16 and uint32, by their most significant byte.
Uint16 == {n \in Nat : n \div 256 \in Byte}

Uint32 == {n \in Nat : n \div 16777216 \in Byte}

\* byte(n), the conversion of a larger integer type.
ToByte(n) == n % 256

encodeUint16(n) == <<ToByte(n), ToByte(n \div 256)>>

encodeUint32(n) ==
    <<ToByte(n), ToByte(n \div 256), ToByte(n \div 65536), ToByte(n \div 16777216)>>

decodeByte(bytes, i) == bytes[i + 1]

decodeUint16(bytes, i) == bytes[i + 2] * 256 + bytes[i + 1]

decodeUint32(bytes, i) ==
    bytes[i + 4] * 16777216 + bytes[i + 3] * 65536 + bytes[i + 2] * 256 + bytes[i + 1]

=============================================================================
