------------------------------- MODULE PzmqData -------------------------------
(***************************************************************************)
(* pzmq_data::set_param and get_param (hybrid-comm/src/pzmq_data.cpp): two *)
(* strings in one message, the first preceded by its length in one char.   *)
(* A string is a sequence of bytes.  Remote calls carry the asker's URL    *)
(* and the request this way, and the answer of register_unit nests one     *)
(* message in another.                                                     *)
(***************************************************************************)
EXTENDS Integers, Sequences

CONSTANT CharMax       \* the largest char: 127 where it is signed, otherwise 255

Byte == 0..255
Strings == Seq(Byte)
Counts(s) == CharMax \in {127, 255} /\ Len(s) <= CharMax

(* The byte a char is stored as, and the number it is read as.             *)
ToChar(n) == n % 256
FromChar(b) == IF b > CharMax THEN b - 256 ELSE b

set_param(param0, param1) == <<ToChar(Len(param0))>> \o param0 \o param1

(* get_param with its pointer arithmetic: n bytes from offset i.  What     *)
(* lies outside of the message is not defined here.                        *)
Slice(data, i, n) == SubSeq(data, i + 1, i + n)

get_param(index, data) ==
    LET len == FromChar(data[1])
    IN  IF index % 2 = 0
        THEN Slice(data, 1, len)
        ELSE Slice(data, len + 1, Len(data) - len - 1)
=============================================================================
