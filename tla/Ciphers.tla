------------------------------- MODULE Ciphers -------------------------------
(***************************************************************************)
(* The two conversions of ActiveObject.cpp.  Both work in place on the     *)
(* C string at the start of a buffer: the bytes before the first NUL.      *)
(***************************************************************************)
EXTENDS Naturals, Sequences

Byte == 0 .. 255

NUL == 0

Lower == 97 .. 122   \* 'a' .. 'z'
Upper == 65 .. 90    \* 'A' .. 'Z'
Letter == Lower \cup Upper

(* The body of the loop of convert_opposite_case_letters.                  *)
OppositeCase(b) ==
    IF b \in Lower THEN b - 32 ELSE IF b \in Upper THEN b + 32 ELSE b

(* The body of the loop of caesar_cipher_1: an if for small letters, then  *)
(* one, with no else, for big letters; the last letter of each wraps and   *)
(* skips what follows.                                                     *)
CaesarLower(b) == IF b = 122 THEN 97 ELSE IF b \in Lower THEN b + 1 ELSE b

CaesarUpper(b) == IF b = 90 THEN 65 ELSE IF b \in Upper THEN b + 1 ELSE b

Caesar(b) == IF b = 122 THEN CaesarLower(b) ELSE CaesarUpper(CaesarLower(b))

(* strlen of a buffer that holds a NUL.                                    *)
StrLen(buffer) ==
    CHOOSE n \in 0 .. (Len(buffer) - 1) :
        /\ buffer[n + 1] = NUL
        /\ \A i \in 1 .. n : buffer[i] # NUL

CString(buffer) == SubSeq(buffer, 1, StrLen(buffer))

(* The loops: each character of the string in place, the rest untouched.   *)
convert_opposite_case_letters(buffer) ==
    [i \in 1 .. Len(buffer) |->
        IF i <= StrLen(buffer) THEN OppositeCase(buffer[i]) ELSE buffer[i]]

caesar_cipher_1(buffer) ==
    [i \in 1 .. Len(buffer) |->
        IF i <= StrLen(buffer) THEN Caesar(buffer[i]) ELSE buffer[i]]

(* What the server makes of a text.                                        *)
Answer(text) == [i \in 1 .. Len(text) |-> Caesar(OppositeCase(text[i]))]
=============================================================================
