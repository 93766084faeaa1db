-------------------------- MODULE DoubleWordPairs ---------------------------
(***************************************************************************)
(* The routines on double words and the arithmetic of the kernel's own     *)
(* code, compared with the arithmetic of TLA+: every pair of double words, *)
(* or of the words in them, is an operand once, one after the other, and   *)
(* what is computed for it is stated as an invariant.                      *)
(***************************************************************************)
EXTENDS DoubleWordLibrary, FloatConversions, CoreArithmetic

VARIABLES
  u,    \* the first operand
  v     \* the second operand, or a count of bits

FirstPair == u \in DWord /\ v = 0

NextOperand == v + 1 \in DWord /\ v' = v + 1 /\ UNCHANGED u

EveryPair == FirstPair /\ [][NextOperand]_<<u, v>>

-----------------------------------------------------------------------------
(* __udivdi3 and __umoddi3, through all four ways of __udivmoddi4, are the  *)
(* division of natural numbers, and a division by zero traps; __divdi3 and  *)
(* __moddi3 divide as C does: towards zero, the remainder with the sign of  *)
(* the dividend.  The one quotient that does not fit, of the most negative  *)
(* number and -1, wraps around.                                             *)
Division ==
  IF v = 0 THEN udivmoddi4(u, v) = Trap
  ELSE LET q == Magn(Signed(u)) \div Magn(Signed(v))
           r == Magn(Signed(u)) % Magn(Signed(v))
       IN  /\ udivdi3(u, v) = u \div v
           /\ umoddi3(u, v) = u % v
           /\ v < W => DivideDirectly(u, v) = [q |-> u \div v, r |-> u % v]
           /\ divdi3(u, v) = (IF Negative(u) # Negative(v) THEN -q ELSE q) % (W * W)
           /\ moddi3(u, v) = (IF Negative(u) THEN -r ELSE r) % (W * W)

(* udiv_qrnnd: one word of a quotient is exact when the divisor is          *)
(* normalised and greater than the high word, as its comment demands; and   *)
(* __udiv_w_sdiv gets there for every divisor from signed divisions.        *)
WordDivision ==
  LET d == High(v) IN
  Low(v) = 0 /\ High(u) < d =>
    LET exact == [q |-> u \div d, r |-> u % d]
    IN  /\ d >= W \div 2 => udiv_qrnnd(High(u), Low(u), d) = exact
        /\ udiv_w_sdiv(High(u), Low(u), d) = exact

(* umul_ppmm without multu, and __muldi3: the product modulo the size of    *)
(* the result, whatever the carries between the words.                      *)
Product ==
  /\ muldi3(u, v) = (u * v) % (W * W)
  /\ umul_ppmm_c(High(u), Low(u)) = umul_ppmm(High(u), Low(u))

(* __lshrdi3, __ashldi3 and __ashrdi3 shift across the two words for every  *)
(* count of bits below two words, and __ffsdi2 finds the lowest 1;          *)
(* __cmpdi2 and __ucmpdi2 order double words as numbers, and __gcc_bcmp     *)
(* orders their bytes, the highest first, in the same way.                  *)
ShiftsAndOrder ==
  /\ v \in 0..(2 * SI_TYPE_SIZE - 1) =>
       /\ lshrdi3(u, v) = u \div TwoTo[v]
       /\ ashldi3(u, v) = (u * TwoTo[v]) % (W * W)
       /\ ashrdi3(u, v) = (Signed(u) \div TwoTo[v]) % (W * W)
  /\ u # 0 => \E odd \in 0..W * W : odd % 2 = 1 /\ u = odd * TwoTo[ffsdi2(u) - 1]
  /\ cmpdi2(u, v) - 1 = (IF Signed(u) < Signed(v) THEN -1 ELSE IF u = v THEN 0 ELSE 1)
  /\ ucmpdi2(u, v) - 1 = (IF u < v THEN -1 ELSE IF u = v THEN 0 ELSE 1)
  /\ LET order == gcc_bcmp(<<High(u), Low(u)>>, <<High(v), Low(v)>>, 2)
     IN  (order < 0 <=> u < v) /\ (order = 0 <=> u = v)

(* busy_wait_cycles() waits until the cycles it is asked for have passed,   *)
(* and busy_wait(1) for those of one second, as long as no look at the      *)
(* counter comes after its wrap-around; then it waits for another turn.  If *)
(* the end itself wraps around, neither waits at all.  The rates of a       *)
(* report are the totals over the full seconds since the start, or over     *)
(* one, also when the counter wrapped around in between, as long as less    *)
(* than half of its range passed; after that they are wrong, but nothing is *)
(* divided by 0.                                                            *)
ElapsedTime ==
  LET start        == High(u)
      now          == (start + v) % W
      fits(cycles) == start + cycles < W
      waits(cycles, end) ==
        IF fits(cycles) THEN Waiting(now, end) <=> v < cycles \/ ~fits(v)
        ELSE ~Waiting(start, end)
  IN  v < W =>
        /\ waits(Low(u), WaitEnd(start, Low(u)))
        /\ waits(CPU_CYCLES_PER_SECOND, BusyWaitEnd(start, 1))
        /\ Seconds(now, start) # 0
        /\ v < W \div 2 /\ Low(u) < W \div 2 =>
             Rate(Low(u), now, start)
               = Low(u) \div (IF v < CPU_CYCLES_PER_SECOND THEN 1
                              ELSE v \div CPU_CYCLES_PER_SECOND)

(* Packets of one length in which a single byte differs never have the same *)
(* hash, so that a packet with one changed byte is not taken for the evil   *)
(* one that a command listed; behind the length, no byte counts.            *)
HashTellsApart ==
  LET a == <<High(u), Low(u), High(v)>>
      b(i) == [a EXCEPT ![i] = Low(v)]
  IN  \A i \in 1..3 : djb2(a, 2) = djb2(b(i), 2) <=> i = 3 \/ a = b(i)

-----------------------------------------------------------------------------
(* The float a: u and a fraction of v parts. *)
Floats(size) == {a \in {u * UNIT + v} : v < UNIT /\ Round(a, size) = a}

(* The number a of this format becomes u, and -a becomes -u if that fits.  *)
Converts(size, fixuns(_), fix(_)) ==
  \A a \in Floats(size) :
    /\ fixuns(a) = u
    /\ u < W * (W \div 2) => Signed(fix(a)) = u /\ Signed(fix(-a)) = -u

ConvertsWord(size, fixunssi(_)) ==
  \A a \in Floats(size) : u < W => fixunssi(a) = u

(* A floating point number becomes the integer next to it towards 0,       *)
(* through the two words, if there is one of the type; a double word is    *)
(* rounded once, and not at all to a format that holds it.  __floatdisf    *)
(* rounds twice: its result is a neighbour of the integer, and the nearest *)
(* one only if a double holds the integer.                                 *)
Conversions ==
  /\ Converts(SFBits, fixunssfdi, fixsfdi) /\ ConvertsWord(SFBits, fixunssfsi)
  /\ Converts(DFBits, fixunsdfdi, fixdfdi) /\ ConvertsWord(DFBits, fixunsdfsi)
  /\ Converts(XFBits, fixunsxfdi, fixxfdi) /\ ConvertsWord(XFBits, fixunsxfsi)
  /\ Converts(TFBits, fixunstfdi, fixtfdi)
  /\ v = 0 =>
       /\ floatdidf(u) = Round(Signed(u), DFBits)
       /\ floatdixf(u) = Signed(u) /\ floatditf(u) = Signed(u)
       /\ Magn(Signed(u)) < Exp2[DFBits] => floatdisf(u) = Round(Signed(u), SFBits)
       /\ \A x \in -(W * W)..(W * W) :
            Round(x, SFBits) = x =>
              (x <= Signed(u) => x <= floatdisf(u)) /\ (x >= Signed(u) => x >= floatdisf(u))
=============================================================================
