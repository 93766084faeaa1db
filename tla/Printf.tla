------------------------------- MODULE Printf -------------------------------
(***************************************************************************)
(* printf.c: one call of print(), which reads a format string character by *)
(* character, takes its arguments from the words on the caller's stack,    *)
(* and writes characters.  (printf() makes the call with the console and   *)
(* its lock, which Kernel models; sprintf() and stringf() with a buffer.)  *)
(*                                                                         *)
(* The caller is any caller whose arguments are those its format asks for: *)
(* it chooses format and arguments as they are read. A format does not end *)
(* inside a conversion (as '%5' would), where print() writes the '%' and   *)
(* reads past the end of the string.  Characters of the output are ASCII   *)
(* codes.  Numbers have SI_TYPE_SIZE bits, long long has twice as many and *)
(* is divided by the operators of DoubleWord; a double is a number of (1 / *)
(* DENOMINATOR)s.  dec_width, unlike the other flags, is not reset at a    *)
(* conversion: the decimals a format asked for also hold for the doubles   *)
(* after it.                                                               *)
(*                                                                         *)
(* A definition marked "Deviation" is the definition that follows it with  *)
(* a mistake.                                                              *)
(***************************************************************************)
EXTENDS DoubleWord, Sequences

CONSTANTS
  PRINT_BUF_LEN,   \* "should be enough for 32 bit int" (12)
  PRINTL_BUF_LEN,  \* the same of long long (24)
  DENOMINATOR,     \* of the doubles
  IntArgument,     \* words that may be arguments
  LongArgument,    \* double words that may be arguments
  DoubleArgument,  \* numerators of the doubles that may be arguments
  StringArgument,  \* strings that may be arguments
  FormatDigit,     \* digits that may be in a format
  MaxWidth,        \* bound: the widths in formats
  MaxPrecision,    \* bound: the number of decimals in formats
  MaxPrinted,      \* bound: no character or conversion after so many
  MaxStack         \* bound: the words of arguments

(* The powers of ten: as many as numbers have figures, or a fraction, whose *)
(* decimals are 6 or what the format asks for, and one more to round it.   *)
MostTens == PRINTL_BUF_LEN + MaxPrecision + 7

Tens[n \in 0..MostTens] == IF n = 0 THEN 1 ELSE 10 * Tens[n - 1]

ASSUME PrintfAssumption ==
  /\ IntArgument \subseteq Word
  /\ LongArgument \subseteq DWord
  /\ DoubleArgument \subseteq Int
  /\ DENOMINATOR \in Nat \ {0}
  /\ FormatDigit \subseteq 0..9
  /\ MaxPrecision \in Nat

(* Besides a sign and the end of the string, the buffers have room for the *)
(* figures of the most negative numbers; and bases are words.              *)
ASSUME BufferAssumption ==
  /\ PRINTL_BUF_LEN \in Nat /\ PRINT_BUF_LEN \in 2..PRINTL_BUF_LEN
  /\ W \div 2 < Tens[PRINT_BUF_LEN - 2]
  /\ (W * W) \div 2 < Tens[PRINTL_BUF_LEN - 2]
  /\ 16 \in Word

VARIABLES
  at,           \* how far print() is in a conversion; "text" outside of one
  width,
  pad,          \* the flags PAD_RIGHT and PAD_ZERO, as a set
  dec_width,
  post_decimal,
  varg,         \* the word at which print() takes its next argument
  pc,           \* the number print() will return
  pushed,       \* the words up to which the caller has pushed arguments
  skewed,       \* a double was taken from an odd word
  last          \* the last conversion: what was asked and what was written

formatVars == <<width, pad, dec_width, post_decimal>>
outputVars == <<pc, last>>
vars       == <<at, formatVars, varg, pushed, skewed, outputVars>>

Space  == 32
Minus  == 45
Point  == 46
Zero   == 48
UpperA == 65
LowerA == 97

None == [conv |-> "none"]

(* The word after the format: printf(format, ...) has its format in the    *)
(* first word, sprintf(out, format, ...) and stringf() in the second.      *)
FirstArgument(buffered) == IF buffered THEN 2 ELSE 1

Init ==
  /\ at = "text"
  /\ width = 0 /\ pad = {} /\ dec_width = 6 /\ post_decimal = FALSE
  /\ \E buffered \in BOOLEAN : varg = FirstArgument(buffered)
  /\ pushed = varg
  /\ pc = 0
  /\ skewed = FALSE
  /\ last = None

-----------------------------------------------------------------------------
(* prints(): a string, padded to a width; what it writes.                  *)
prints(string, w, p) ==
  LET gap     == IF w > Len(string) THEN w - Len(string) ELSE 0
      padding == [i \in 1..gap |-> IF "zero" \in p THEN Zero ELSE Space]
  IN  IF "right" \in p THEN string \o padding ELSE padding \o string

Figure(t, letbase) == t + (IF t >= 10 THEN letbase - 10 ELSE Zero)

(* Deviation: at least one figure is converted before the test. *)
FiguresAtLeastOne(u, b, letbase) ==
  LET f[x \in Word] ==
        (IF x < b THEN <<Zero>> ELSE f[x \div b]) \o <<Figure(x % b, letbase)>>
  IN  f[u]

(* The loops of printi() and printl(): the figures of a number, built from *)
(* the last to the first.                                                  *)
Figures(u, b, letbase) ==
  LET f[x \in Word] ==
        IF x = 0 THEN <<>> ELSE Append(f[x \div b], Figure(x % b, letbase))
  IN  f[u]

LongFigures(u, b, letbase) ==
  LET f[x \in DWord] ==
        IF x = 0 THEN <<>>
        ELSE Append(f[udivdi3(x, b)], Figure(umoddi3(x, b), letbase))
  IN  f[u]

(* Deviation: the minus goes before the padding, whatever it is. *)
WithSignFirst(figures, neg, w, p) ==
  IF neg
  THEN [buffer |-> figures, field |-> <<Minus>> \o prints(figures, w - 1, p)]
  ELSE [buffer |-> figures, field |-> prints(figures, w, p)]

(* The sign of a number: before the zeros of a padding, and otherwise next *)
(* to the figures in the buffer.                                           *)
WithSign(figures, neg, w, p) ==
  IF neg /\ w # 0 /\ "zero" \in p
  THEN [buffer |-> figures, field |-> <<Minus>> \o prints(figures, w - 1, p)]
  ELSE LET s == (IF neg THEN <<Minus>> ELSE <<>>) \o figures
       IN  [buffer |-> s, field |-> prints(s, w, p)]

(* Deviation: the sign is lost by negating what does not fit an int. *)
printiClamped(i, b, sg, w, p, letbase) ==
  LET neg == sg /\ b = 10 /\ i > W \div 2
  IN  IF i = 0 THEN WithSign(<<Zero>>, FALSE, w, p)
      ELSE WithSign(Figures(IF neg THEN (-i) % W ELSE i, b, letbase), neg, w, p)

printi(i, b, sg, w, p, letbase) ==
  LET neg == sg /\ b = 10 /\ SignedWord(i) < 0
  IN  IF i = 0 THEN WithSign(<<Zero>>, FALSE, w, p)
      ELSE WithSign(Figures(IF neg THEN (-i) % W ELSE i, b, letbase), neg, w, p)

printl(i, b, sg, w, p, letbase) ==
  LET neg == sg /\ b = 10 /\ Negative(i)
  IN  IF i = 0 THEN WithSign(<<Zero>>, FALSE, w, p)
      ELSE WithSign(LongFigures(IF neg THEN (-i) % (W * W) ELSE i, b, letbase), neg, w, p)

(* The loops of dbl2stri(). *)
DecimalFigures(n) ==
  LET f[x \in 0..n] ==
        IF x = 0 THEN <<>> ELSE Append(f[x \div 10], Figure(x % 10, LowerA))
  IN  f[n]

(* The fraction of a double, of which one digit more than asked for rounds *)
(* the last one.                                                           *)
DecimalNum(x, dec_digits) ==
  (((x % DENOMINATOR) * Tens[dec_digits + 1]) \div DENOMINATOR + 5) \div 10

(* Deviation: the fraction is not filled up with zeros. *)
dbl2striUnpadded(dbl, dec_digits) ==
  LET x == Magn(dbl)
  IN  (IF dbl < 0 THEN <<Minus>> ELSE <<>>)
      \o (IF x < DENOMINATOR THEN <<Zero>> ELSE DecimalFigures(x \div DENOMINATOR))
      \o (IF dec_digits = 0 THEN <<>>
          ELSE <<Point>> \o DecimalFigures(DecimalNum(x, dec_digits)))

(* dbl2stri(): a sign, the whole part, and the fraction after its zeros,   *)
(* for doubles and numbers of decimals whose parts fit an int.             *)
dbl2stri(dbl, dec_digits) ==
  LET x     == Magn(dbl)
      whole == IF x < DENOMINATOR THEN <<Zero>> ELSE DecimalFigures(x \div DENOMINATOR)
      low   == DecimalFigures(DecimalNum(x, dec_digits))
      zeros == [i \in 1..(dec_digits - Len(low)) |-> Zero]
  IN  (IF dbl < 0 THEN <<Minus>> ELSE <<>>) \o whole
      \o (IF dec_digits = 0 THEN <<>> ELSE <<Point>> \o zeros \o low)

-----------------------------------------------------------------------------
(* print(), outside of a conversion. *)
Literal ==
  /\ at = "text"
  /\ pc < MaxPrinted
  /\ pc' = pc + 1
  /\ last' = None
  /\ UNCHANGED <<at, formatVars, varg, pushed, skewed>>

Percent ==
  /\ at = "text"
  /\ pc < MaxPrinted
  /\ at' = "percent"
  /\ width' = 0 /\ pad' = {} /\ post_decimal' = FALSE
  /\ last' = None
  /\ UNCHANGED <<dec_width, varg, pushed, skewed, pc>>

(* The end of the format; a '%' before it is dropped. *)
Return ==
  /\ at \in {"text", "percent"}
  /\ at' = "done"
  /\ UNCHANGED <<formatVars, varg, pushed, skewed, outputVars>>

(* "%%" *)
PercentSign ==
  /\ at = "percent"
  /\ at' = "text"
  /\ pc' = pc + 1
  /\ UNCHANGED <<formatVars, varg, pushed, skewed, last>>

-----------------------------------------------------------------------------
(* The flags and numbers of a conversion, each character where it may be.  *)
Reading(next) ==
  /\ at' = next
  /\ UNCHANGED <<varg, pushed, skewed, outputVars>>

Justify ==
  /\ at = "percent"
  /\ pad' = {"right"}
  /\ Reading("zeros")
  /\ UNCHANGED <<width, dec_width, post_decimal>>

PadZero ==
  /\ at \in {"percent", "zeros"}
  /\ pad' = pad \cup {"zero"}
  /\ Reading("zeros")
  /\ UNCHANGED <<width, dec_width, post_decimal>>

BeforeLength == {"percent", "zeros", "number"}

Width(n) ==
  /\ at \in BeforeLength /\ (n = 0 => at = "number")
  /\ ~post_decimal
  /\ width * 10 + n <= MaxWidth
  /\ width' = width * 10 + n
  /\ Reading("number")
  /\ UNCHANGED <<pad, dec_width, post_decimal>>

Decimals(n) ==
  /\ at = "number" /\ post_decimal
  /\ dec_width * 10 + n <= MaxPrecision
  /\ dec_width' = dec_width * 10 + n
  /\ Reading("number")
  /\ UNCHANGED <<width, pad, post_decimal>>

DecimalPoint ==
  /\ at \in BeforeLength
  /\ post_decimal' = TRUE
  /\ dec_width' = 0
  /\ Reading("number")
  /\ UNCHANGED <<width, pad>>

Long ==
  /\ at \in BeforeLength
  /\ Reading("l")
  /\ UNCHANGED formatVars

LongLong ==
  /\ at = "l"
  /\ Reading("ll")
  /\ UNCHANGED formatVars

FormatStep ==
  \/ Justify \/ PadZero \/ DecimalPoint \/ Long \/ LongLong
  \/ \E n \in FormatDigit : Width(n) \/ Decimals(n)

-----------------------------------------------------------------------------
(* The conversions.  A caller pushes long long and double at even words.   *)
Even(word) == word + (word % 2)

(* An argument of so many words that print() takes from the word `from`    *)
(* while the caller pushed it at the word `place`: it reads the argument   *)
(* where both are the same, and otherwise anything.                        *)
Take(words, from, place, given, read, Values) ==
  /\ at \in BeforeLength \cup {"l", "ll"}
  /\ place + words <= MaxStack
  /\ given \in Values /\ read \in Values
  /\ from = place => read = given
  /\ varg' = from + words
  /\ pushed' = place + words

Write(conv, given, text) ==
  /\ at' = "text"
  /\ pc' = pc + Len(text.field)
  /\ last' = [conv |-> conv, given |-> given, long |-> at = "ll", width |-> width,
              pad |-> pad, dec_width |-> dec_width,
              buffer |-> text.buffer, field |-> text.field]
  /\ UNCHANGED formatVars

Sign(c)   == c = "d"
Base(c)   == IF c \in {"d", "u"} THEN 10 ELSE 16
Letter(c) == IF c = "X" THEN UpperA ELSE LowerA

ConvertInt(c) ==
  \E given, read \in IntArgument :
    /\ at # "ll"
    /\ Take(1, varg, pushed, given, read, IntArgument)
    /\ Write(c, given, printi(read, Base(c), Sign(c), width, pad, Letter(c)))
    /\ UNCHANGED skewed

(* Deviation: the argument is taken from the next word, even or odd. *)
ConvertLongUnaligned(c) ==
  \E given, read \in LongArgument :
    /\ at = "ll"
    /\ Take(2, varg, Even(pushed), given, read, LongArgument)
    /\ Write(c, given, printl(read, Base(c), Sign(c), width, pad, Letter(c)))
    /\ UNCHANGED skewed

ConvertLong(c) ==
  \E given, read \in LongArgument :
    /\ at = "ll"
    /\ Take(2, Even(varg), Even(pushed), given, read, LongArgument)
    /\ Write(c, given, printl(read, Base(c), Sign(c), width, pad, Letter(c)))
    /\ UNCHANGED skewed

ConvertPointer ==
  \E given, read \in IntArgument :
    LET text == printi(read, 16, FALSE, IF width = 0 THEN 8 ELSE width,
                       IF pad = {} THEN {"zero"} ELSE pad, LowerA)
    IN  /\ Take(1, varg, pushed, given, read, IntArgument)
        /\ Write("p", given, [text EXCEPT !.field = <<Zero, 120>> \o @])
        /\ UNCHANGED skewed

(* A null pointer is printed as "(null)", a string like others. *)
ConvertString ==
  \E given, read \in StringArgument :
    /\ Take(1, varg, pushed, given, read, StringArgument)
    /\ Write("s", given, [buffer |-> <<>>, field |-> prints(read, width, pad)])
    /\ UNCHANGED skewed

(* The character '\0' is an empty string. *)
ConvertChar ==
  \E given, read \in IntArgument :
    LET scr == IF read = 0 THEN <<>> ELSE <<read>>
    IN  /\ Take(1, varg, pushed, given, read, IntArgument)
        /\ Write("c", given, [buffer |-> scr, field |-> prints(scr, width, pad)])
        /\ UNCHANGED skewed

(* The line that would skip to an even word is a comment. *)
ConvertDouble ==
  \E given, read \in DoubleArgument :
    LET bfr == dbl2stri(read, dec_width)
    IN  /\ Take(2, varg, Even(pushed), given, read, DoubleArgument)
        /\ Write("f", given, [buffer |-> bfr, field |-> prints(bfr, width, pad)])
        /\ skewed' = (skewed \/ varg # Even(pushed))

(* Any other character is written after a '%', and neither is counted.     *)
ConvertUnknown ==
  /\ at \in BeforeLength \cup {"l", "ll"}
  /\ at' = "text"
  /\ UNCHANGED <<formatVars, varg, pushed, skewed, pc, last>>

Conversion ==
  \/ \E c \in {"d", "u", "x", "X"} : ConvertInt(c) \/ ConvertLong(c)
  \/ ConvertPointer \/ ConvertString \/ ConvertChar \/ ConvertDouble \/ ConvertUnknown

Next == Literal \/ Percent \/ Return \/ PercentSign \/ FormatStep \/ Conversion

Spec == Init /\ [][Next]_vars
-----------------------------------------------------------------------------
(* How a reader understands a field: blanks around it do not count, and a  *)
(* minus comes first.                                                      *)
Text(field) ==
  LET inside == {i \in 1..Len(field) : field[i] # Space}
      first  == CHOOSE i \in inside : \A j \in inside : i <= j
      end    == CHOOSE i \in inside : \A j \in inside : j <= i
  IN  SubSeq(field, first, end)

Unbroken(text) == \A i \in 1..Len(text) : text[i] # Space

Weight(c) == IF c >= LowerA THEN c - LowerA + 10
             ELSE IF c >= UpperA THEN c - UpperA + 10 ELSE c - Zero

Natural(figures, base) ==
  LET f[n \in 0..Len(figures)] ==
        IF n = 0 THEN 0 ELSE f[n - 1] * base + Weight(figures[n])
  IN  f[Len(figures)]

Number(text, base) ==
  IF text[1] = Minus THEN -Natural(Tail(text), base) ELSE Natural(text, base)

(* What an argument means to the caller. *)
Meaning(conv, long, given) ==
  IF conv # "d" THEN given ELSE IF long THEN Signed(given) ELSE SignedWord(given)

Numeric == {"d", "u", "x", "X", "p"}

(* An integer is printed so that it can be read: the figures denote the    *)
(* argument, the most negative one included, in all bases and widths, with *)
(* the sign next to them and zeros before them only to fill the width; and *)
(* the field is as wide as asked.                                          *)
(* (Zeros after a number, which "%-0" asks for, are not covered, nor is    *)
(* what comes after a misread double.)                                     *)
FieldDenotes ==
  last.conv \in Numeric /\ ~skewed =>
    LET text == Text(IF last.conv = "p" THEN SubSeq(last.field, 3, Len(last.field))
                     ELSE last.field)
    IN  /\ Unbroken(text)
        /\ last.pad # {"right", "zero"} =>
             Number(text, Base(last.conv)) = Meaning(last.conv, last.long, last.given)
        /\ Len(last.field) >= last.width
        /\ Len(text) > last.width /\ last.conv # "p" => text[1] # Zero \/ Len(text) = 1

(* The buffers of printi() and printl() hold the figures, the sign and the *)
(* end of the string of every number: nothing is written before them.      *)
BufferFits ==
  last.conv \in Numeric =>
    Len(last.buffer) + 1 <= IF last.long /\ last.conv # "p" THEN PRINTL_BUF_LEN
                            ELSE PRINT_BUF_LEN

(* Every conversion takes the argument the caller pushed for it, whatever  *)
(* came before it, as long as no double was taken from an odd word.        *)
ArgumentsInStep == ~skewed => varg = pushed

(* The figures of a text with so many decimals, without a sign and without *)
(* the point, which must be before the decimals.                           *)
Unsigned(text) == IF text[1] = Minus THEN Tail(text) ELSE text

HasPoint(text, decimals) ==
  decimals > 0 => \E i \in 1..Len(text) : text[i] = Point /\ Len(text) - i = decimals

WithoutPoint(text, decimals) ==
  IF decimals = 0 THEN text
  ELSE SubSeq(text, 1, Len(text) - decimals - 1)
       \o SubSeq(text, Len(text) - decimals + 1, Len(text))

(* The double that a field denotes, in units of its last decimal. *)
Scaled(text, decimals) ==
  LET n == Natural(WithoutPoint(Unsigned(text), decimals), 10)
  IN  IF text[1] = Minus THEN -n ELSE n

(* Half a unit of the last decimal, rounded away from zero. *)
Rounded(dbl, decimals) ==
  LET n == (2 * Magn(dbl) * Tens[decimals] + DENOMINATOR) \div (2 * DENOMINATOR)
  IN  IF dbl < 0 THEN -n ELSE n

(* The fraction rounds up to 1, which dbl2stri() does not carry into the   *)
(* whole part.                                                             *)
Carries(dbl, decimals) == Rounded(Magn(dbl) % DENOMINATOR, decimals) = Tens[decimals]

(* A double is printed rounded to its last decimal, with as many decimals  *)
(* as asked for, the zeros after the point included, unless the rounding   *)
(* carries into the whole part.                                            *)
FractionDenotes ==
  last.conv = "f" /\ ~skewed /\ ~Carries(last.given, last.dec_width) =>
    /\ HasPoint(Unsigned(last.buffer), last.dec_width)
    /\ Scaled(last.buffer, last.dec_width) = Rounded(last.given, last.dec_width)
=============================================================================
