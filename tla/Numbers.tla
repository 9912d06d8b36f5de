------------------------------ MODULE Numbers -------------------------------
(***************************************************************************)
(* Numbers as text: lib/stringx.c, which the program reads lengths and     *)
(* ports with, and _itoa and _ltoa of osal.c.  A text is a sequence of     *)
(* one-character strings.  The width is a parameter: Bits stands for 32,   *)
(* and Group, the digits that _ltoa converts at a time, for 4.             *)
(*                                                                         *)
(* The numbers are counted through, and the texts are built from Alphabet. *)
(***************************************************************************)
EXTENDS Integers, Sequences, SequencesExt

CONSTANTS Bits, Group,
          UintLen,      \* UINT_STR_LEN_MAX: digits of 2^Bits - 1
          Alphabet, MaxText

Limit == 2 ^ Bits
HexLen == Bits \div 4       \* HEX32_STR_LEN_MAX

NumbersAssumption ==
    /\ Bits % 8 = 0
    /\ 10 ^ UintLen > Limit - 1 /\ Limit > 10 ^ (UintLen - 1)
    /\ Limit <= 10 ^ (3 * Group) /\ Limit = 16 ^ (2 * Group)

VARIABLES num, text

vars == <<num, text>>

Upper == <<"0", "1", "2", "3", "4", "5", "6", "7", "8", "9", "A", "B", "C", "D", "E", "F">>
Lower == <<"0", "1", "2", "3", "4", "5", "6", "7", "8", "9", "a", "b", "c", "d", "e", "f">>
Digit(d) == Upper[d + 1]
IsDigit(ch, radix) == \E d \in 1 .. radix : ch \in {Upper[d], Lower[d]}
ValueOf(ch) == CHOOSE d \in 0 .. 15 : ch \in {Upper[d + 1], Lower[d + 1]}

Chop(s) == IF s = << >> THEN << >> ELSE Tail(s)
StartsWith(s, ch) == s # << >> /\ s[1] = ch

-----------------------------------------------------------------------------
(* To text *)

\* The digits of n from the last one on, at least one and at most max; then turned round
Digits(n, radix, max) ==
    LET from[i \in 1 .. max] ==
            <<Digit((n \div radix ^ (i - 1)) % radix)>>
            \o (IF i = max \/ n \div radix ^ i = 0 THEN << >> ELSE from[i + 1])
    IN Reverse(from[1])

\* uintstr, sintstr; hex8str, hex16str and hex32str, which always fill their width
UintStr(n) == Digits(n, 10, UintLen)
SintStr(n) == IF n < 0 THEN <<"-">> \o UintStr(-n) ELSE UintStr(n)
HexStr(n, len) == [i \in 1 .. len |-> Digit((n \div 16 ^ (len - i)) % 16)]

\* _itoa, whose buffer has five characters
Itoa(n, radix) == Digits(n, radix, 5)

\* _ltoa: groups of digits, of which all but the first are filled up with zeros
Zeros(group) == [i \in 1 .. Group - Len(group) |-> "0"]

Grouped(groups) ==
    FoldLeft(LAMBDA buf, group : buf \o (IF buf = << >> THEN << >> ELSE Zeros(group)) \o group,
             << >>, groups)

Ltoa(n, radix) ==
    LET Nums == IF radix = 10
                THEN <<n \div 10 ^ (2 * Group), (n \div 10 ^ Group) % 10 ^ Group, n % 10 ^ Group>>
                ELSE <<n \div 16 ^ Group, n % 16 ^ Group>>
        text0 == Grouped([i \in DOMAIN Nums |->
                            IF Nums[i] = 0 THEN << >> ELSE Itoa(Nums[i], radix)])
    IN IF text0 = << >> THEN <<"0">> ELSE text0

-----------------------------------------------------------------------------
(* From text: the number of characters read, 0 if the text is refused, and the number *)

Refused == [cnt |-> 0, num |-> 0]

\* val wraps round; the empty text is refused by its length
Read(s, radix, max) ==
    IF Len(s) > max \/ \E i \in DOMAIN s : ~IsDigit(s[i], radix) THEN Refused
    ELSE [cnt |-> Len(s),
          num |-> FoldLeft(LAMBDA val, ch : (val * radix + ValueOf(ch)) % Limit, 0, s)]

DecStr2Uint(s) == Read(s, 10, UintLen)

HexStr2Uint(s) ==
    LET prefixed == StartsWith(s, "0") /\ (StartsWith(Tail(s), "x") \/ StartsWith(Tail(s), "X"))
        rest == Read(IF prefixed THEN SubSeq(s, 3, Len(s)) ELSE s, 16, HexLen)
    IN IF ~prefixed THEN rest
       ELSE IF Len(s) > 2 /\ rest.cnt = 0 THEN Refused
       ELSE [rest EXCEPT !.cnt = @ + 2]     \* "0x" alone is not refused

\* The negative of the least number is itself
DecStr2Sint(s) ==
    LET minus == StartsWith(s, "-")
        abs == DecStr2Uint(IF minus THEN Tail(s) ELSE s)
    IN IF abs.cnt = 0 \/ abs.num > Limit \div 2 - (IF minus THEN 0 ELSE 1) THEN Refused
       ELSE [cnt |-> Len(s), num |-> IF minus THEN -abs.num ELSE abs.num]

-----------------------------------------------------------------------------
Init == num = 0 /\ text = << >>

Count ==
    /\ text = << >> /\ num < Limit - 1
    /\ num' = num + 1
    /\ UNCHANGED text

Write(ch) ==
    /\ num = 0 /\ Len(text) < MaxText
    /\ text' = Append(text, ch)
    /\ UNCHANGED num

Next == Count \/ \E ch \in Alphabet : Write(ch)

Spec == Init /\ [][Next]_vars

-----------------------------------------------------------------------------
Is(n, s) == [cnt |-> Len(s), num |-> n]
Signed == IF num < Limit \div 2 THEN num ELSE num - Limit

\* What is written is read back, length and number: the test that stringx.c:10 holds, for
\* every number of the width, and the least one among them.
ReadBack ==
    /\ DecStr2Uint(UintStr(num)) = Is(num, UintStr(num))
    /\ HexStr2Uint(HexStr(num, HexLen)) = Is(num, HexStr(num, HexLen))
    /\ HexStr2Uint(HexStr(num % 256, 2)) = Is(num % 256, HexStr(num % 256, 2))
    /\ DecStr2Sint(SintStr(Signed)) = Is(Signed, SintStr(Signed))

\* _ltoa puts its groups together to the same digits as one conversion, no zero lost and
\* none too many.
GroupsJoin ==
    /\ Ltoa(num, 10) = UintStr(num)
    /\ DecStr2Uint(Ltoa(num, 10)).num = num
    /\ HexStr2Uint(Ltoa(num, 16)).num = num /\ (num > 0 => Ltoa(num, 16)[1] # "0")

\* The number that a text means, where that fits
Meant(s, radix) ==
    FoldLeft(LAMBDA val, ch : val * radix + (IF IsDigit(ch, radix) THEN ValueOf(ch) ELSE 0), 0, s)

\* What is read is what the text means, if it fits (a number of UintLen digits may not,
\* and wraps round); what is no number is refused.
ReadsWhatIsMeant ==
    /\ LET dec == DecStr2Uint(text) IN
       /\ (dec.cnt > 0) = (Len(text) \in 1 .. UintLen /\ \A i \in DOMAIN text : IsDigit(text[i], 10))
       /\ dec.cnt > 0 /\ Meant(text, 10) < Limit => dec.num = Meant(text, 10)
    /\ LET dec == DecStr2Sint(text) IN
       dec.cnt > 0 /\ Meant(Chop(text), 10) < Limit \div 2 /\ StartsWith(text, "-")
         => dec.num = -Meant(Chop(text), 10)
    /\ LET hex == HexStr2Uint(text) IN
       hex.cnt > 2 => \E k \in {1, 3} : hex.num = Meant(SubSeq(text, k, Len(text)), 16)
=============================================================================
