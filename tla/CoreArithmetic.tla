--------------------------- MODULE CoreArithmetic ---------------------------
(***************************************************************************)
(* What the kernel's own code computes with words that wrap around: the    *)
(* end of a wait for the cycle counter (intr.c), the rates of a report     *)
(* (stats.c) and the hash of a packet (network.c).  An int is the word of  *)
(* its bits, and its sums wrap around.                                     *)
(*                                                                         *)
(* A definition marked "Deviation" is the definition that follows it with  *)
(* a mistake.                                                              *)
(***************************************************************************)
EXTENDS DoubleWord

CONSTANT CPU_CYCLES_PER_SECOND

ASSUME CyclesAssumption == CPU_CYCLES_PER_SECOND \in 1..(W \div 2 - 1)

-----------------------------------------------------------------------------
(* busy_wait_cycles() loops while the counter is less than the end, which  *)
(* is an int but compared as unsigned, since current_cpu_cycles() is.      *)
WaitEnd(tsc, cycles) == (tsc + cycles) % W

(* Deviation: the counter is an int, too. *)
WaitingSigned(now, end) == SignedWord(now) < SignedWord(end)

Waiting(now, end) == now < end

(* busy_wait(), of so many seconds that their cycles fit an int *)
BusyWaitEnd(tsc, sec) == WaitEnd(tsc, sec * CPU_CYCLES_PER_SECOND)

-----------------------------------------------------------------------------
(* Division of int, towards zero *)
Over(a, b) ==
  LET Size(x) == IF x < 0 THEN -x ELSE x
      q       == Size(a) \div Size(b)
  IN  IF (a < 0) # (b < 0) THEN -q ELSE q

(* Deviation: the first second is not counted as one. *)
SecondsUnchecked(cycle, time_start) ==
  Over(SignedWord((cycle - time_start) % W), CPU_CYCLES_PER_SECOND)

(* simple_stats_print(): secs1, and the rates r1 and r2, all of them int *)
Seconds(cycle, time_start) ==
  LET secs1 == Over(SignedWord((cycle - time_start) % W), CPU_CYCLES_PER_SECOND)
  IN  IF secs1 = 0 THEN 1 ELSE secs1

Rate(total, cycle, time_start) == Over(SignedWord(total), Seconds(cycle, time_start))

-----------------------------------------------------------------------------
InitialHash == 5381 % W

(* Deviation: the shift, without adding what was shifted. *)
djb2Shifted(pkt, n) ==
  LET hash[i \in 0..n] == IF i = 0 THEN InitialHash ELSE (hash[i - 1] * 32 + pkt[i]) % W
  IN  hash[n]

djb2(pkt, n) ==
  LET hash[i \in 0..n] == IF i = 0 THEN InitialHash ELSE (hash[i - 1] * 33 + pkt[i]) % W
  IN  hash[n]
=============================================================================
