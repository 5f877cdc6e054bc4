---------------------------- MODULE CorrelationId ----------------------------
(***************************************************************************)
(* _generate_correlation_id_string (mcl_connectivity, mcl_data_lake): the   *)
(* random bytes are put into the upper half of the buffer that takes their  *)
(* digits, so that every byte has to be read before digits reach it.        *)
(***************************************************************************)
EXTENDS Integers

CONSTANT ByteLength   \* CORRELATION_ID_BYTE_LENGTH

ASSUME ByteLengthAssumption == ByteLength \in Nat \ {0}

VARIABLES id, index

idVars == <<id, index>>

Cells == 0..2 * ByteLength   \* CORRELATION_ID_BUFFER_LENGTH, the null at its end included

\* A cell holds a random byte, one of the two digits of a byte, the end of a text, or
\* what was there before.
Random(k) == <<"byte", k>>
High(k) == <<"high", k>>
Low(k) == <<"low", k>>
End == <<"end", 0>>
Unset == <<"unset", 0>>
Of(cell) == cell[2]

\* Variant: no cell is spared for the null of the last byte but one.
UpperLow == ByteLength - 1

\* Where the random bytes begin.
Upper == ByteLength

IdInit ==
    /\ id = [c \in Cells |-> IF c \in Upper..Upper + ByteLength - 1 THEN Random(c - Upper) ELSE Unset]
    /\ index = 0

\* snprintf with two digits and a null.
PrintByte ==
    /\ index < ByteLength
    /\ LET byte == id[index + Upper]
       IN id' = [id EXCEPT ![2 * index] = <<"high", Of(byte)>>, ![2 * index + 1] = <<"low", Of(byte)>>,
                           ![2 * index + 2] = End]
    /\ index' = index + 1

IdSpec == IdInit /\ [][PrintByte]_idVars

\* Every byte is still random when its digits are written, so that the text at the end is
\* the digits of all bytes in their order, with its null (_generate_correlation_id_string).
IdIsDigits ==
    index = ByteLength =>
        /\ \A k \in 0..ByteLength - 1 : id[2 * k] = High(k) /\ id[2 * k + 1] = Low(k)
        /\ id[2 * ByteLength] = End
=============================================================================
