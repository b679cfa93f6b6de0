------------------------------- MODULE ShardCodec -------------------------------
(***************************************************************************)
(* How the text of a chapter travels (fetch_weread_epub.py): UTF-8, then   *)
(* base64 in the URL alphabet, then swaps of characters whose places are   *)
(* told by the last characters, then one character put in front.  A        *)
(* character is its code.                                                  *)
(***************************************************************************)
EXTENDS Integers, SequencesExt

CONSTANT NoText     \* the decoding raised ValueError

ASSUME NoTextAssumption == NoText \notin Seq(Nat)

\* The code points that chr() takes
CodePoint == {c \in Nat : c <= 1114111}

Least(a, b) == IF a < b THEN a ELSE b

(*------------------------------ the swaps ------------------------------*)

\* int(bin(code)[2:], 4): the bits read as digits of base four
BitsInFours[c \in Nat] == IF c = 0 THEN 0 ELSE (c % 2) + 4 * BitsInFours[c \div 2]

Digits[n \in Nat] == IF n < 10 THEN <<n>> ELSE Append(Digits[n \div 10], n % 10)

Number(digits) == FoldLeft(LAMBDA n, d : 10 * n + d, 0, digits)

\* n and m of swap_positions, for a string of eleven characters or more
TailLength(length) == Least(4, (length + 9) \div 10)
Places(length) == length - TailLength(length) - 2

Place(number, length) == number % Places(length)

swap_positions(encoded) ==
    LET length == Len(encoded)
        last == [i \in 1..TailLength(length) |-> Digits[BitsInFours[encoded[length + 1 - i]]]]
        tmp == FlattenSeq(last)
        step == Len(Digits[Places(length)])
        pairs == Least(5, (Len(tmp) - 1) \div step)
        \* the two numbers of a pair start one digit apart
        from(j) == ((j - 1) \div 2) * step + ((j - 1) % 2)
    IN  IF length < 4 THEN <<>>
        ELSE IF length < 11 THEN <<0, 2>>
        ELSE [j \in 1..(2 * pairs) |->
                Place(Number(SubSeq(tmp, from(j) + 1, from(j) + step)), length)]

\* The positions count from zero.
Swap(chars, i, j) ==
    [at \in DOMAIN chars |->
       IF at = i + 1 THEN chars[j + 1] ELSE IF at = j + 1 THEN chars[i + 1] ELSE chars[at]]

\* The swaps in the order in which they are made: two for each pair of positions.
Swaps(positions) ==
    [s \in 1..Len(positions) |->
       LET first == 2 * ((s - 1) \div 2) + 1
           k == (s - 1) % 2
       IN  <<positions[first] + k, positions[first + 1] + k>>]

Apply(chars, swaps) == FoldLeft(LAMBDA c, s : Swap(c, s[1], s[2]), chars, swaps)

\* Mutant: the swaps in the order in which they were made.
SwapsAgain(encoded, positions) == Apply(encoded, Swaps(positions))

reverse_swaps(encoded, positions) == Apply(encoded, Reverse(Swaps(positions)))

(*------------------------------- base 64 -------------------------------*)

\* The value of a character of either alphabet
Sextet(c) ==
    CASE c \in 65..90 -> c - 65
      [] c \in 97..122 -> c - 71
      [] c \in 48..57 -> c + 4
      [] c \in {43, 45} -> 62
      [] c \in {47, 95} -> 63

IsSextet(c) == c \in (65..90) \union (97..122) \union (48..57) \union {43, 45, 47, 95}

\* Characters outside both alphabets are passed over.
Sextets(chars) ==
    FoldLeft(LAMBDA s, c : IF IsSextet(c) THEN Append(s, Sextet(c)) ELSE s, <<>>, chars)

Byte(s, j) ==
    LET at == 4 * (j \div 3) + (j % 3) + 1
    IN  CASE j % 3 = 0 -> s[at] * 4 + s[at + 1] \div 16
          [] j % 3 = 1 -> (s[at] % 16) * 16 + s[at + 1] \div 4
          [] j % 3 = 2 -> (s[at] % 4) * 64 + s[at + 1]

b64decode(s) == [j \in 1..((6 * Len(s)) \div 8) |-> Byte(s, j - 1)]

(*-------------------------------- UTF-8 --------------------------------*)

\* The length that a first byte announces, and the bits it holds itself
Announced(b) ==
    CASE b \in 192..223 -> 2 [] b \in 224..239 -> 3 [] b \in 240..247 -> 4 [] OTHER -> 1
Lead(b) == b % (CASE Announced(b) = 2 -> 32 [] Announced(b) = 3 -> 16 [] Announced(b) = 4 -> 8
                  [] OTHER -> 256)

\* The bytes of the sequence at i.  A byte that starts no whole one is kept as a character.
Taken(bytes, i) ==
    LET n == Announced(bytes[i])
    IN  IF i + n - 1 <= Len(bytes) /\ \A j \in (i + 1)..(i + n - 1) : bytes[j] \in 128..191
        THEN n ELSE 1

\* Each further byte adds six bits.
Continued(code, bytes) == FoldLeft(LAMBDA c, b : 64 * c + (b % 64), code, bytes)

Code(bytes, i) ==
    IF Taken(bytes, i) = 1 THEN bytes[i]
    ELSE Continued(Lead(bytes[i]), SubSeq(bytes, i + 1, i + Taken(bytes, i) - 1))

repair_utf8(bytes) ==
    LET from[i \in 1..(Len(bytes) + 4)] ==
            IF i > Len(bytes) THEN <<>> ELSE <<Code(bytes, i)>> \o from[i + Taken(bytes, i)]
    IN  from[1]

\* b64decode raises for a lone last character, chr() for a code beyond Unicode.
decode_encoded_payload(payload) ==
    LET encoded == Tail(payload)
        sextets == Sextets(reverse_swaps(encoded, swap_positions(encoded)))
        text == repair_utf8(b64decode(sextets))
    IN  IF payload = <<>> THEN <<>>
        ELSE IF Len(sextets) % 4 = 1 THEN NoText
        ELSE IF \E i \in DOMAIN text : text[i] \notin CodePoint THEN NoText
        ELSE text

(*------------------- the other end, as the decoder needs it -------------------*)

utf8(c) ==
    IF c < 128 THEN <<c>>
    ELSE IF c < 2048 THEN <<192 + c \div 64, 128 + (c % 64)>>
    ELSE IF c < 65536 THEN <<224 + c \div 4096, 128 + ((c \div 64) % 64), 128 + (c % 64)>>
    ELSE <<240 + c \div 262144, 128 + ((c \div 4096) % 64), 128 + ((c \div 64) % 64),
           128 + (c % 64)>>

UrlChar(s) ==
    CASE s < 26 -> s + 65 [] s \in 26..51 -> s + 71 [] s \in 52..61 -> s - 4
      [] s = 62 -> 45 [] s = 63 -> 95

\* The j-th six bits; those that are missing at the end are zero.
SixBits(bytes, j) ==
    LET byte(i) == IF i > Len(bytes) THEN 0 ELSE bytes[i]
        at == 3 * (j \div 4) + (j % 4)
    IN  CASE j % 4 = 0 -> byte(at + 1) \div 4
          [] j % 4 = 1 -> (byte(at) % 4) * 16 + byte(at + 1) \div 16
          [] j % 4 = 2 -> (byte(at) % 16) * 4 + byte(at + 1) \div 64
          [] j % 4 = 3 -> byte(at) % 64

b64encode(bytes) ==
    [j \in 1..((8 * Len(bytes) + 5) \div 6) |-> UrlChar(SixBits(bytes, j - 1))]

encode_payload(text) ==
    LET plain == b64encode(FlattenSeq([i \in DOMAIN text |-> utf8(text[i])]))
    IN  IF text = <<>> THEN <<>> ELSE <<101>> \o Apply(plain, Swaps(swap_positions(plain)))
================================================================================
