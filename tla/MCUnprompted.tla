---------------------------- MODULE MCUnprompted ----------------------------
EXTENDS Unprompted

\* An urgent item critical enough for quiet hours, and a routine suggestion.
MCUrgency == [k \in Keys |-> IF k = "visa" THEN Critical ELSE Routine]
=============================================================================
