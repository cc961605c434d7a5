------------------------------ MODULE Decimal -------------------------------
(***************************************************************************)
(* struct ArrowDecimal: a signed integer of 0 (32 bits), 1 or 2 words, set *)
(* from an integer, from digits or from bytes, negated, and read back as a *)
(* sign, an integer or digits (src/src/nanoarrow/nanoarrow.h and           *)
(* nanoarrow.c), on a little-endian machine.                               *)
(*                                                                         *)
(* A word of 64 bits is a number below WordBase and half a word, 32 bits,  *)
(* one below HalfBase; nine digits at a time become GroupDigits, and 10^9, *)
(* which half a word can hold, becomes GroupPower.                         *)
(***************************************************************************)
EXTENDS Integers, Sequences, SequencesExt

CONSTANTS
  HalfBase, GroupDigits, GroupPower,
  WordCounts,       \* n_words of the decimals
  Ints, Texts, Blocks,  \* what the setters are given: integers, texts, words
  MaxDecimalCalls   \* how many calls are made

ASSUME WidthAssumption ==
  /\ HalfBase \in Nat /\ HalfBase % 2 = 0
  /\ GroupPower = 10^GroupDigits /\ 1 < GroupPower /\ GroupPower < HalfBase

VARIABLES
  decimal,      \* struct ArrowDecimal: n_words and words, lowest first
  value,        \* the integer the calls ask for
  decimalCalls  \* calls so far

decimalVars == <<decimal, value, decimalCalls>>

---------------------------------------------------------------------------
(* Integers of a width.                                                    *)

WordBase == HalfBase * HalfBase
Low(word)  == word % HalfBase
High(word) == word \div HalfBase
Signed(n, base) == IF n >= base \div 2 THEN n - base ELSE n

Base(n_words) ==
  CASE n_words = 0 -> HalfBase [] n_words = 1 -> WordBase [] n_words = 2 -> WordBase * WordBase
(* n in two's complement of the decimal's width.                           *)
Wrapped(n, n_words) == Signed(n % Base(n_words), Base(n_words))

(* A text is a sequence of digits, of signs and of other characters.       *)
Minus == 10
Plus  == 11
IsDigit(c) == c \in 0..9

---------------------------------------------------------------------------
(* Setting                                                                 *)

NWords(d) == IF d.n_words = 0 THEN 1 ELSE d.n_words

(* (int32_t)n assigned to a word: the sign is extended.                    *)
FromInt32(n) == Signed(n % HalfBase, HalfBase) % WordBase

SetInt(d, n) ==
  IF d.n_words = 0 THEN [d EXCEPT !.words[1] = FromInt32(n)]
  ELSE [d EXCEPT !.words =
          [i \in 1..d.n_words |->
             IF i = 1 THEN n % WordBase ELSE IF n < 0 THEN WordBase - 1 ELSE 0]]

(* ~elem + carry, the carry gone behind the first word that is not 0.      *)
CarryStays(words, i) == TRUE      \* mutant
Carry(words, i) == \A j \in 1..(i - 1) : words[j] = 0
NegateWords(words) ==
  [i \in DOMAIN words |-> (WordBase - 1 - words[i] + (IF Carry(words, i) THEN 1 ELSE 0)) % WordBase]
Negate(d) ==
  IF d.n_words = 0 THEN [d EXCEPT !.words[1] = FromInt32(HalfBase - Low(@))]
  ELSE [d EXCEPT !.words = NegateWords(@)]

RECURSIVE Number(_, _)
Number(digits, n) == IF digits = <<>> THEN n ELSE Number(Tail(digits), 10 * n + Head(digits))

(* out, half words lowest first, times the power of ten, plus chunk; what  *)
(* is carried out of the last half is lost.                                *)
RECURSIVE ShiftOne(_, _, _, _)
ShiftOne(out, i, multiple, chunk) ==
  IF i > Len(out) THEN out
  ELSE LET tmp == out[i] * multiple + chunk IN
    ShiftOne([out EXCEPT ![i] = tmp % HalfBase], i + 1, multiple, tmp \div HalfBase)

RECURSIVE ShiftAndAdd(_, _)
ShiftAndAdd(digits, out) ==
  LET size == IF Len(digits) > GroupDigits THEN GroupDigits ELSE Len(digits) IN
    IF digits = <<>> THEN out
    ELSE ShiftAndAdd(SubSeq(digits, size + 1, Len(digits)),
                     ShiftOne(out, 1, 10^size, Number(SubSeq(digits, 1, size), 0)))

HasSign(text)     == Head(text) \in {Minus, Plus}
Unsigned(text)    == IF HasSign(text) THEN Tail(text) ELSE text
AllDigits(text)   == \A i \in DOMAIN Unsigned(text) : IsDigit(Unsigned(text)[i])
SkipZeroes(digits) == LET first == SelectInSeq(digits, LAMBDA c : c # 0) IN
                        IF first = 0 THEN <<>> ELSE SubSeq(digits, first, Len(digits))

(* memcpy of the half words: a 32-bit decimal keeps its upper half.        *)
SetDigits(d, text) ==
  LET halves == ShiftAndAdd(SkipZeroes(Unsigned(text)),
                            [i \in 1..(IF d.n_words = 0 THEN 1 ELSE 2 * d.n_words) |-> 0])
      copied == IF d.n_words = 0
                THEN [d EXCEPT !.words[1] = HalfBase * High(@) + halves[1]]
                ELSE [d EXCEPT !.words =
                        [i \in 1..d.n_words |-> halves[2 * i - 1] + HalfBase * halves[2 * i]]] IN
    IF ~AllDigits(text) THEN d
    ELSE IF Head(text) = Minus THEN Negate(copied) ELSE copied

SetBytes(d, words) ==
  IF d.n_words = 0 THEN [d EXCEPT !.words[1] = HalfBase * High(@) + Low(words[1])]
  ELSE [d EXCEPT !.words = SubSeq(words, 1, d.n_words)]

---------------------------------------------------------------------------
(* Reading                                                                 *)

Sign(d) ==
  IF d.n_words = 0 THEN IF Low(d.words[1]) >= HalfBase \div 2 THEN -1 ELSE 1
  ELSE IF d.words[d.n_words] >= WordBase \div 2 THEN -1 ELSE 1

GetInt(d) ==
  IF d.n_words = 0 THEN Signed(Low(d.words[1]), HalfBase) ELSE Signed(d.words[1], WordBase)

(* The words divided by GroupPower in place, from the half word k down.    *)
RECURSIVE Divide(_, _, _)
Divide(words, i, remainder) ==
  IF i = 0 THEN [words |-> words, remainder |-> remainder]
  ELSE LET dividend_hi == remainder * HalfBase + High(words[i])
           dividend_lo == (dividend_hi % GroupPower) * HalfBase + Low(words[i]) IN
    Divide([words EXCEPT ![i] = HalfBase * (dividend_hi \div GroupPower) + dividend_lo \div GroupPower],
           i - 1, dividend_lo % GroupPower)

(* The remainders, the least significant first, until the words from the   *)
(* top one down are 0.                                                     *)
RECURSIVE Segments(_, _)
Segments(words, top) ==
  LET divided == Divide(words, top, 0) IN
    <<divided.remainder>> \o
    (IF divided.words[top] # 0 THEN Segments(divided.words, top)
     ELSE IF top > 1 THEN Segments(divided.words, top - 1) ELSE <<>>)

(* The last width digits of a segment.                                     *)
PaddedDigits(n, width) == [k \in 1..width |-> (n \div 10^(width - k)) % 10]
DigitCount(n) == CHOOSE width \in 1..GroupDigits :
                   n < 10^width /\ (width = 1 \/ n >= 10^(width - 1))

(* upper is what the stack holds above the half word that is copied of a   *)
(* 32-bit decimal; a negated one has it overwritten.                       *)
AppendDigits(d, upper) ==
  LET copied == IF d.n_words = 0 THEN <<HalfBase * upper + Low(d.words[1])>> ELSE d.words
      words  == CASE Sign(d) > 0 -> copied
                  [] d.n_words = 0 -> <<FromInt32(HalfBase - Low(copied[1]))>>
                  [] OTHER -> NegateWords(copied)
      top      == CHOOSE i \in 0..NWords(d) :
                    /\ \A j \in (i + 1)..NWords(d) : words[j] = 0
                    /\ i > 0 => words[i] # 0
      segments == Segments(words, top)
      leading  == segments[Len(segments)] IN
    IF top = 0 THEN <<0>>
    ELSE (IF Sign(d) < 0 THEN <<Minus>> ELSE <<>>)
         \o PaddedDigits(leading, DigitCount(leading))
         \o FlattenSeq([i \in 1..(Len(segments) - 1) |->
                          PaddedDigits(segments[Len(segments) - i], GroupDigits)])

---------------------------------------------------------------------------
(* Calls                                                                   *)

Calls(d, n) == decimal' = d /\ value' = Wrapped(n, decimal.n_words)

CallSetInt == \E n \in Ints : Calls(SetInt(decimal, n), n)

CallSetDigits ==
  \E text \in Texts :
    Calls(SetDigits(decimal, text),
          IF ~AllDigits(text) THEN value
          ELSE (IF Head(text) = Minus THEN -1 ELSE 1) * Number(Unsigned(text), 0))

CallSetBytes ==
  \E words \in Blocks :
    Calls(SetBytes(decimal, words), words[1] + WordBase * words[2])

CallNegate == Calls(Negate(decimal), -value)

DecimalInit ==
  /\ \E n \in WordCounts : decimal = [n_words |-> n, words |-> [i \in 1..(IF n = 0 THEN 1 ELSE n) |-> 0]]
  /\ value = 0
  /\ decimalCalls = 0

DecimalNext ==
  /\ decimalCalls < MaxDecimalCalls
  /\ decimalCalls' = decimalCalls + 1
  /\ CallSetInt \/ CallSetDigits \/ CallSetBytes \/ CallNegate

DecimalSpec == DecimalInit /\ [][DecimalNext]_decimalVars

---------------------------------------------------------------------------
(* What the digits are worth, and whether they are the text a reader       *)
(* expects: a sign only below 0, no leading zeroes.                        *)
IsTextOf(text, n) ==
  LET digits == Unsigned(text) IN
    /\ (Head(text) = Minus) = (n < 0)
    /\ digits # <<>> /\ AllDigits(text)
    /\ Len(digits) > 1 => Head(digits) # 0
    /\ Number(digits, 0) = (IF n < 0 THEN -n ELSE n)

(* Whatever the order of the setters and negations: the sign, the integer  *)
(* and the digits read back are those of the value asked for, as far as    *)
(* the width holds it, whether a word or half a word is 0, carries or      *)
(* borrows. The digits of a 32-bit decimal are those of its value only if  *)
(* it is negative, and not the least one, or if the stack happens to hold  *)
(* 0 where nothing is copied to.                                           *)
DigitsAreTheValue ==
  /\ Sign(decimal) = IF value < 0 THEN -1 ELSE 1
  /\ GetInt(decimal) = IF decimal.n_words = 2 THEN Signed(value % WordBase, WordBase) ELSE value
  /\ \A upper \in {0, 1, HalfBase - 1} :
       \/ decimal.n_words = 0 /\ (value = -(HalfBase \div 2) \/ (value >= 0 /\ upper # 0))
       \/ IsTextOf(AppendDigits(decimal, upper), value)
=============================================================================
