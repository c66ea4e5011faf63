-------------------------- MODULE SignalValuesProofs --------------------------
(***************************************************************************)
(* Proofs about SignalValues.  The generators first: for any signals,      *)
(* settings and times a value stays in its range, and stairs hold and go   *)
(* up.  Then the codec, at the width of the code's registers, for any      *)
(* signals and values: what is written is read, by both readers.           *)
(***************************************************************************)
EXTENDS SignalValues, TLAPS

\* Where a profile comes from.
Sources == signal \in Signals /\ settings \in Settings /\ t \in Nat

LEMMA SourcesInit == Init => Sources
BY DEF Init, Sources

LEMMA SourcesStep == ASSUME Sources, [Next]_vars PROVE Sources'
BY DEF Sources, Next, vars, SetValue, SetDefaults, ClearAll,
       MasterWrites, SetSettings, Tick

LEMMA SourcesAlways == Spec => []Sources
BY SourcesInit, SourcesStep, PTL DEF Spec

\* What a moving signal is resolved to.
Sound(p) ==
  /\ p.lo \in Int /\ p.hi \in Int /\ p.lo <= p.hi
  /\ p.period \in {1, 2, 4} /\ p.phase \in 0 .. 3
  /\ p.mode = "step" => p.step \in Nat \ {0}
  /\ p.mode = "toggle" => p.lo = 0 /\ p.hi = 4

LEMMA ProfileSound ==
  ASSUME NEW s \in Signals, NEW g \in Settings,
         Profile(s, g) # None
  PROVE  Sound(Profile(s, g))
<1> DEFINE mode == Mode(s, g)
           period == IF s.period = None \/ s.period = 0 THEN g.period ELSE s.period
           least == IF s.sim_max < s.sim_min THEN s.sim_max ELSE s.sim_min
           most == IF s.sim_max < s.sim_min THEN s.sim_min ELSE s.sim_max
           steps == mode = "step" /\ s.step # None /\ s.step > 0
           motion == IF mode \in {"sawtooth", "triangle"} \/ steps THEN mode ELSE "oscillate"
           toggle == [mode |-> "toggle", lo |-> 0, hi |-> 4, period |-> period, phase |-> s.phase]
           moves == [mode |-> motion, lo |-> least, hi |-> most, period |-> period,
                     phase |-> s.phase, step |-> s.step]
<1>1. /\ period \in {1, 2, 4} /\ s.phase \in 0 .. 3
      /\ s.step \in Int \cup {None}
  BY ValuesAssumption
<1>2. CASE s.data_type = "bool"
  <2>1. Profile(s, g) = toggle
    BY <1>2 DEF Profile
  <2>2. Sound(toggle)
    BY <1>1 DEF Sound
  <2> QED
    BY <2>1, <2>2
<1>3. CASE s.data_type # "bool"
  <2>1. Profile(s, g) = moves /\ s.sim_min # None /\ s.sim_max # None
    BY <1>3 DEF Profile
  <2>2. s.sim_min \in Int /\ s.sim_max \in Int
    BY <2>1, ValuesAssumption
  <2>3. least \in Int /\ most \in Int /\ least <= most
    BY <2>2
  <2>4. (motion = "step" => s.step \in Nat \ {0}) /\ motion # "toggle"
    BY <1>1
  <2>5. Sound(moves)
    BY <1>1, <2>3, <2>4 DEF Sound
  <2> QED
    BY <2>1, <2>5
<1> QED
  BY <1>2, <1>3

\* A part of the span of a profile, in quarters, lies between nothing and all of it.
LEMMA QuarterOf ==
  ASSUME NEW span \in Nat, NEW f \in 0 .. 4
  PROVE  (span * f) \div 4 \in 0 .. span
<1>1. f = 0 \/ f = 1 \/ f = 2 \/ f = 3 \/ f = 4
  OBVIOUS
<1> QED
  BY <1>1

LEMMA RoundIsInt ==
  ASSUME NEW n \in Nat, NEW d \in Nat \ {0}
  PROVE  Round(n, d) \in Int
<1>1. n \div d \in Int
  OBVIOUS
<1> QED
  BY <1>1 DEF Round

\* A staircase has at least two levels, and is on one of them.
LEMMA IndexFits ==
  ASSUME NEW p, Sound(p), p.mode = "step", t \in Nat
  PROVE  Levels(p) \in Nat \ {0} /\ Index(p) \in 0 .. Levels(p)
<1>1. Levels(p) \in Nat \ {0}
  <2>1. p.hi - p.lo \in Nat /\ p.step \in Nat \ {0}
    BY DEF Sound
  <2> QED
    BY <2>1, RoundIsInt DEF Levels
<1>2. t \div p.period \in Nat
  BY DEF Sound
<1>3. Index(p) = (t \div p.period) % (Levels(p) + 1)
  BY DEF Index
<1> QED
  BY <1>1, <1>2, <1>3

LEMMA StaircaseFits ==
  ASSUME NEW p, Sound(p), p.mode = "step", t \in Nat
  PROVE  Staircase(p) \in p.lo .. p.hi
<1>1. p.step \in Nat /\ Index(p) \in Nat
  BY IndexFits DEF Sound
<1>2. p.step * Index(p) \in Nat
  BY <1>1
<1> QED
  BY <1>2 DEF Staircase, Sound

LEMMA GeneratedFits ==
  ASSUME NEW p, Sound(p), t \in Nat
  PROVE  Generated(p) \in p.lo .. p.hi
<1> DEFINE f == ((4 * t) \div p.period + p.phase) % 4
           span == p.hi - p.lo
<1>1. f \in 0 .. 3
  <2>1. (4 * t) \div p.period \in Nat /\ p.phase \in Nat
    BY DEF Sound
  <2> QED
    BY <2>1
<1>2. span \in Nat /\ p.lo \in Int /\ p.hi = p.lo + span
  BY DEF Sound
<1>3. CASE p.mode = "step"
  BY <1>3, StaircaseFits DEF Generated
<1>4. CASE p.mode = "toggle"
  BY <1>4 DEF Generated, Sound
<1>5. ASSUME NEW k \in 0 .. 4 PROVE p.lo + (span * k) \div 4 \in p.lo .. p.hi
  <2>1. (span * k) \div 4 \in 0 .. span
    BY <1>2, <1>5, QuarterOf
  <2> HIDE DEF span
  <2> QED
    BY <1>2, <2>1
<1>6. CASE p.mode = "sawtooth"
  <2>1. Generated(p) = p.lo + (span * f) \div 4
    BY <1>6 DEF Generated
  <2> HIDE DEF f
  <2> QED
    BY <1>1, <1>5, <2>1
<1>7. CASE p.mode = "triangle"
  <2> DEFINE k == IF f < 2 THEN 2 * f ELSE 2 * (4 - f)
  <2>1. Generated(p) = p.lo + (span * k) \div 4
    BY <1>7 DEF Generated
  <2>2. k \in 0 .. 4
    <3> HIDE DEF f
    <3> QED
      BY <1>1
  <2> HIDE DEF k
  <2> QED
    BY <1>5, <2>1, <2>2
<1>8. CASE p.mode \notin {"step", "toggle", "sawtooth", "triangle"}
  <2> DEFINE k == <<2, 4, 2, 0>>[f + 1]
  <2>1. Generated(p) = p.lo + (span * k) \div 4
    BY <1>8 DEF Generated
  <2>2. k \in 0 .. 4
    <3> HIDE DEF f
    <3>1. f = 0 \/ f = 1 \/ f = 2 \/ f = 3
      BY <1>1
    <3> QED
      BY <3>1
  <2> HIDE DEF k
  <2> QED
    BY <1>5, <2>1, <2>2
<1> QED
  BY <1>3, <1>4, <1>6, <1>7, <1>8

\* For any signals and settings, at any time: a moving signal stays between its low
\* and its high.
THEOREM StaysInRange == Spec => []WithinRange
<1>1. Sources => WithinRange
  BY ProfileSound, GeneratedFits DEF Sources, WithinRange, profile, Simulated
<1> QED
  BY <1>1, SourcesAlways, PTL

LEMMA QuotientNext ==
  ASSUME NEW n \in Nat, NEW d \in {1, 2, 4}
  PROVE  (n + 1) \div d = IF (n + 1) % d = 0 THEN n \div d + 1 ELSE n \div d
<1>1. d = 1 \/ d = 2 \/ d = 4
  OBVIOUS
<1> QED
  BY <1>1

LEMMA Product ==
  ASSUME NEW a \in Int, NEW b \in Nat, NEW c \in Nat, b <= c, a >= 0
  PROVE  a * b <= a * c
OBVIOUS

\* The remainder after the next number: one more, or none after the last.
LEMMA RemainderNext ==
  ASSUME NEW k \in Nat, NEW m \in Nat \ {0}
  PROVE  (k + 1) % m = IF (k % m) = m - 1 THEN 0 ELSE (k % m) + 1
<1> DEFINE q == k \div m
           r == k % m
           x == (k + 1) \div m
           y == (k + 1) % m
<1>1. q \in Int /\ r \in 0 .. m - 1 /\ k = m * q + r
  OBVIOUS
<1>2. x \in Int /\ y \in 0 .. m - 1 /\ k + 1 = m * x + y
  OBVIOUS
<1> HIDE DEF q, r, x, y
<1>3. m * (x - q) = r + 1 - y
  BY <1>1, <1>2
<1>4. x - q = 0 \/ x - q = 1
  <2>1. r + 1 - y <= m /\ r + 1 - y > -m
    BY <1>1, <1>2
  <2>2. ASSUME x - q >= 2 PROVE FALSE
    <3>1. m * (x - q) >= m * 2
      BY <1>1, <1>2, <2>2, Product
    <3> QED
      BY <1>1, <1>2, <1>3, <2>1, <3>1
  <2>3. ASSUME x - q <= -1 PROVE FALSE
    <3>1. m * (q - x) >= m * 1
      BY <1>1, <1>2, <2>3, Product
    <3>2. m * (q - x) = -(m * (x - q))
      BY <1>1, <1>2
    <3> QED
      BY <1>1, <1>2, <1>3, <2>1, <3>1, <3>2
  <2> QED
    BY <1>1, <1>2, <2>2, <2>3
<1>5. CASE x - q = 0
  BY <1>1, <1>2, <1>3, <1>5
<1>6. CASE x - q = 1
  BY <1>1, <1>2, <1>3, <1>6
<1> QED
  BY <1>4, <1>5, <1>6 DEF r, y

\* Rounding goes up by half at most.
LEMMA RoundBound ==
  ASSUME NEW n \in Nat, NEW d \in Nat \ {0}
  PROVE  2 * (d * Round(n, d)) <= 2 * n + d
<1> DEFINE down == n \div d
           rest == n % d
<1>1. down \in Int /\ rest \in 0 .. d - 1 /\ n = d * down + rest
  OBVIOUS
<1>2. Round(n, d) = IF 2 * rest < d \/ (2 * rest = d /\ down % 2 = 0) THEN down ELSE down + 1
  BY DEF Round
<1> HIDE DEF down, rest
<1>3. CASE Round(n, d) = down
  BY <1>1, <1>3
<1>4. CASE Round(n, d) = down + 1 /\ 2 * rest >= d
  <2>1. d * (down + 1) = d * down + d
    BY <1>1
  <2> QED
    BY <1>1, <1>4, <2>1
<1> QED
  BY <1>1, <1>2, <1>3, <1>4

\* Below the last level there is room: a jump from there goes up.
LEMMA RoomAbove ==
  ASSUME NEW p, Sound(p), p.mode = "step", p.lo < p.hi,
         NEW i \in Nat, i < Levels(p)
  PROVE  p.lo + p.step * i < p.hi
<1> DEFINE n == p.hi - p.lo
           d == p.step
           r == Round(n, d)
<1>1. n \in Nat \ {0} /\ d \in Nat \ {0} /\ p.lo \in Int /\ p.hi = p.lo + n
  BY DEF Sound
<1>2. r \in Int /\ 2 * (d * r) <= 2 * n + d
  BY <1>1, RoundIsInt, RoundBound
<1>3. Levels(p) = IF r < 1 THEN 1 ELSE r
  BY DEF Levels
<1> HIDE DEF n, d, r
<1>4. CASE i = 0
  BY <1>1, <1>4 DEF d
<1>5. CASE i # 0
  <2>1. r \in Nat /\ i <= r - 1 /\ r - 1 \in Nat
    BY <1>2, <1>3, <1>5
  <2>2. d * i <= d * (r - 1)
    BY <1>1, <2>1, Product
  <2>3. d * (r - 1) = d * r - d
    BY <1>1, <2>1
  <2>4. d * r \in Int /\ d * i \in Int
    BY <1>1, <2>1
  <2>5. d * i < n
    BY <1>1, <1>2, <2>2, <2>3, <2>4
  <2> QED
    BY <1>1, <2>4, <2>5 DEF d
<1> QED
  BY <1>4, <1>5

\* One second on, a staircase is on the same level or one jump further, or back.
LEMMA StaircaseNext ==
  ASSUME NEW p, Sound(p), p.mode = "step", t \in Nat, t' = t + 1
  PROVE  LET now == Staircase(p)
             then == Staircase(p)'
         IN IF t' % p.period # 0 THEN then = now
            ELSE /\ then \in {p.lo, now + p.step, p.hi}
                 /\ then = now => p.hi = p.lo
<1> DEFINE i == Index(p)
           j == Index(p)'
           top == Levels(p)
           level(k) == IF p.hi = p.lo THEN p.lo
                       ELSE IF p.lo + p.step * k > p.hi THEN p.hi ELSE p.lo + p.step * k
<1>1. Staircase(p) = level(i) /\ Staircase(p)' = level(j)
  BY DEF Staircase
<1>2. /\ i = (t \div p.period) % (top + 1) /\ j = (t' \div p.period) % (top + 1)
      /\ i \in 0 .. top /\ top \in Nat \ {0}
  BY IndexFits DEF Index, Levels, Round
<1>3. t' \div p.period = IF t' % p.period = 0 THEN t \div p.period + 1 ELSE t \div p.period
  BY QuotientNext DEF Sound
<1>4. t \div p.period \in Nat
  BY DEF Sound
<1>5. /\ p.lo \in Int /\ p.hi \in Int /\ p.lo <= p.hi /\ p.step \in Nat \ {0}
  BY DEF Sound
<1> HIDE DEF i, j, top
<1>6. CASE t' % p.period # 0
  BY <1>1, <1>2, <1>3, <1>6
<1>7. CASE t' % p.period = 0 /\ p.hi = p.lo
  BY <1>1, <1>7
<1>8. CASE t' % p.period = 0 /\ p.hi # p.lo
  <2>1. j = IF i = top THEN 0 ELSE i + 1
    <3> DEFINE k == t \div p.period
               m == top + 1
    <3>1. j = (k + 1) % m /\ i = k % m
      BY <1>2, <1>3, <1>8
    <3>2. m \in Nat \ {0} /\ m - 1 = top /\ k \in Nat
      BY <1>2, <1>4
    <3> HIDE DEF k, m
    <3>3. (k + 1) % m = IF (k % m) = m - 1 THEN 0 ELSE (k % m) + 1
      BY <3>2, RemainderNext
    <3> QED
      BY <3>1, <3>2, <3>3
  <2>2. CASE i = top
    <3>1. p.step * top \in Nat \ {0} /\ p.step * 0 = 0
      BY <1>2, <1>5
    <3>2. level(j) = p.lo /\ level(i) > p.lo
      BY <1>5, <1>8, <2>1, <2>2, <3>1
    <3> QED
      BY <1>1, <1>5, <1>8, <3>2
  <2>3. CASE i # top
    <3>1. p.lo + p.step * i < p.hi
      BY <1>2, <1>5, <1>8, <2>3, RoomAbove DEF top
    <3>2. p.step * (i + 1) = p.step * i + p.step /\ p.step * i \in Nat
      BY <1>2, <1>5
    <3>3. /\ level(i) = p.lo + p.step * i
          /\ level(j) \in {p.lo + p.step * i + p.step, p.hi}
      BY <1>5, <1>8, <2>1, <2>3, <3>1, <3>2
    <3> QED
      BY <1>1, <1>5, <1>8, <3>1, <3>2, <3>3
  <2> QED
    BY <2>2, <2>3
<1> QED
  BY <1>6, <1>7, <1>8

\* For any signals and settings: a staircase holds each level for its period and then
\* goes up by one step, to the high if that is nearer, or back to the low.
THEOREM StaircasesHold == Spec => StairsHold
<1> DEFINE p == profile
           Stair == t' = t + 1 /\ Simulated /\ p.mode = "step" =>
                      LET now == Generated(p)
                          then == Generated(p)'
                      IN IF t' % p.period # 0 THEN then = now
                         ELSE /\ then \in {p.lo, now + p.step, p.hi}
                              /\ then = now => p.hi = p.lo
<1>1. ASSUME Sources, [Next]_vars, t' = t + 1, Simulated, p.mode = "step"
      PROVE  Stair
  <2>1. UNCHANGED <<signal, settings>>
    BY <1>1 DEF Sources, Next, vars, SetValue, SetDefaults,
       ClearAll, MasterWrites, SetSettings, Tick
  <2>2. p' = p
    BY <2>1 DEF profile, Profile, Mode
  <2>3. Sound(p) /\ t \in Nat
    BY <1>1, ProfileSound DEF Sources, profile, Simulated
  <2>4. PICK q : q = p
    OBVIOUS
  <2>5. p' = q /\ Sound(q) /\ q.mode = "step"
    BY <1>1, <2>2, <2>3, <2>4
  <2>6. /\ Generated(p) = Staircase(q)
        /\ Generated(p)' = Staircase(q)'
    <3> HIDE DEF p
    <3> QED
      BY <2>4, <2>5 DEF Generated, Staircase, Index, Levels, Round
  <2> HIDE DEF p
  <2> QED
    BY <1>1, <2>3, <2>4, <2>5, <2>6, StaircaseNext
<1>2. Sources /\ [Next]_vars => [Stair]_vars
  BY <1>1
<1>3. (Spec => [][Stair]_vars) => (Spec => StairsHold)
  BY DEF StairsHold
<1> QED
  BY <1>2, <1>3, SourcesAlways, PTL DEF Spec

-----------------------------------------------------------------------------
(***************************************************************************)
(* The codec, for the registers of the code.                               *)
(***************************************************************************)
\* The width of a register of the code.
CodeWidth == WordBits = 16

LEMMA Powers ==
  ASSUME CodeWidth
  PROVE  /\ W = 65536
         /\ 2 ^ Bits = IF signal.data_type \in WideTypes THEN 4294967296 ELSE 65536
         /\ 2 ^ (Bits - 1) = IF signal.data_type \in WideTypes THEN 2147483648 ELSE 32768
<1>1. W = 65536
  BY DEF CodeWidth, W
<1>2. 2 ^ 16 = 65536 /\ 2 ^ 15 = 32768 /\ 2 ^ 32 = 4294967296 /\ 2 ^ 31 = 2147483648
  OBVIOUS
<1>3. CASE signal.data_type \in WideTypes
  <2>1. Bits = 32 /\ Bits - 1 = 31
    BY <1>3 DEF CodeWidth, Bits
  <2> QED
    BY <1>1, <1>2, <1>3, <2>1
<1>4. CASE signal.data_type \notin WideTypes
  <2>1. Bits = 16 /\ Bits - 1 = 15
    BY <1>4 DEF CodeWidth, Bits
  <2> QED
    BY <1>1, <1>2, <1>4, <2>1
<1> QED
  BY <1>3, <1>4

\* A mask of a register's sixteen: a word's W values are an even number of times it.
Mask(m) == m \in Nat \ {0} /\ \E h \in Nat \ {0} : W = m * (2 * h)

\* Kept unexpanded where the provers should not see the exponent.
Power(b) == 2 ^ b

LEMMA PowerCases ==
  ASSUME NEW b \in 0 .. 15
  PROVE  Power(b) \in {1, 2, 4, 8, 16, 32, 64, 128, 256, 512, 1024, 2048, 4096, 8192, 16384, 32768}
<1>0. b = 0 => Power(b) = 1
  BY DEF Power
<1>1. b = 1 => Power(b) = 2
  BY DEF Power
<1>2. b = 2 => Power(b) = 4
  BY DEF Power
<1>3. b = 3 => Power(b) = 8
  BY DEF Power
<1>4. b = 4 => Power(b) = 16
  BY DEF Power
<1>5. b = 5 => Power(b) = 32
  BY DEF Power
<1>6. b = 6 => Power(b) = 64
  BY DEF Power
<1>7. b = 7 => Power(b) = 128
  BY DEF Power
<1>8. b = 8 => Power(b) = 256
  BY DEF Power
<1>9. b = 9 => Power(b) = 512
  BY DEF Power
<1>10. b = 10 => Power(b) = 1024
  BY DEF Power
<1>11. b = 11 => Power(b) = 2048
  BY DEF Power
<1>12. b = 12 => Power(b) = 4096
  BY DEF Power
<1>13. b = 13 => Power(b) = 8192
  BY DEF Power
<1>14. b = 14 => Power(b) = 16384
  BY DEF Power
<1>15. b = 15 => Power(b) = 32768
  BY DEF Power
<1> QED
  BY <1>0, <1>1, <1>2, <1>3, <1>4, <1>5, <1>6, <1>7, <1>8, <1>9, <1>10, <1>11, <1>12, <1>13, <1>14, <1>15

LEMMA Masks ==
  ASSUME CodeWidth, NEW b \in 0 .. 15
  PROVE  Mask(Power(b))
<1>1. ASSUME NEW m \in {1, 2, 4, 8, 16, 32, 64, 128, 256, 512, 1024, 2048, 4096, 8192, 16384, 32768}
      PROVE  Mask(m)
  <2>1. PICK h : h = 32768 \div m
    OBVIOUS
  <2>2. m \in Nat \ {0} /\ h \in Nat \ {0} /\ 65536 = m * (2 * h)
    BY <2>1
  <2>3. W = 65536
    BY Powers
  <2> QED
    BY <2>2, <2>3 DEF Mask
<1> QED
  BY <1>1, PowerCases

LEMMA BitByPower ==
  ASSUME NEW word, NEW b, NEW v
  PROVE  /\ Bit(word, b) = (word \div Power(b)) % 2
         /\ WithBit(word, b, v) = word + (v - ((word \div Power(b)) % 2)) * Power(b)
BY Zenon DEF Bit, WithBit, Power

LEMMA Remainder ==
  ASSUME NEW m \in Nat \ {0}, NEW q \in Int, NEW r \in 0 .. m - 1
  PROVE  (m * q + r) \div m = q /\ (m * q + r) % m = r
OBVIOUS

\* Setting a bit: the word stays a word, and the bit is what it was set to.
LEMMA BitSet ==
  ASSUME CodeWidth, NEW b \in 0 .. 15, NEW word \in 0 .. W - 1, NEW v \in {0, 1}
  PROVE  WithBit(word, b, v) \in 0 .. W - 1 /\ Bit(WithBit(word, b, v), b) = v
<1> DEFINE new == WithBit(word, b, v)
<1>1. PICK m : m = Power(b)
  OBVIOUS
<1>2. PICK h \in Nat \ {0} : m \in Nat \ {0} /\ W = m * (2 * h)
  BY <1>1, Masks DEF Mask
<1>3. PICK q \in Int, r \in 0 .. m - 1 : q = word \div m /\ word = m * q + r
  <2>1. word \div m \in Int /\ word % m \in 0 .. m - 1 /\ word = m * (word \div m) + (word % m)
    BY <1>2
  <2> QED
    BY <2>1
<1>4. q \in Nat
  BY <1>2, <1>3
<1>5. PICK g \in Nat, c \in {0, 1} : c = q % 2 /\ q = 2 * g + c
  <2>1. q \div 2 \in Nat /\ q % 2 \in {0, 1} /\ q = 2 * (q \div 2) + (q % 2)
    BY <1>4
  <2> QED
    BY <2>1
<1>6. new = word + (v - c) * m /\ Bit(new, b) = (new \div m) % 2
  BY <1>1, <1>3, <1>5, BitByPower
<1> HIDE DEF new
<1>7. PICK e \in Nat : e = 2 * g + v
  BY <1>5
<1>8. new = m * e + r
  <2>1. m * q = m * (2 * g) + m * c /\ m * e = m * (2 * g) + m * v
    BY <1>2, <1>5, <1>7
  <2>2. (v - c) * m = m * v - m * c
    BY <1>2, <1>5
  <2>3. /\ m * q \in Int /\ m * e \in Int /\ m * c \in Int /\ m * v \in Int
        /\ m * (2 * g) \in Int /\ r \in Int
    BY <1>2, <1>3, <1>4, <1>5, <1>7
  <2> QED
    BY <1>3, <1>6, <2>1, <2>2, <2>3
<1>9. g < h
  <2>1. ASSUME g >= h PROVE FALSE
    <3>1. m * (2 * h) <= m * q
      BY <1>2, <1>4, <1>5, <2>1, Product
    <3> QED
      BY <1>2, <1>3, <3>1
  <2> QED
    BY <1>2, <1>5, <2>1
<1>10. m * e >= 0 /\ m * e <= m * (2 * h - 1)
  BY <1>2, <1>5, <1>7, <1>9, Product
<1>11. m * (2 * h - 1) = m * (2 * h) - m
  BY <1>2
<1>12. new \in 0 .. W - 1
  BY <1>2, <1>3, <1>7, <1>8, <1>10, <1>11
<1>13. (new \div m) % 2 = v
  <2>0. m \in Nat \ {0} /\ e \in Int /\ r \in 0 .. m - 1
    BY <1>2, <1>3, <1>7
  <2>1. (m * e + r) \div m = e
    BY <2>0, Remainder
  <2> QED
    BY <1>5, <1>7, <1>8, <2>1
<1> QED
  BY <1>6, <1>12, <1>13 DEF new

-----------------------------------------------------------------------------
\* The registers of a signal, whatever it is.
Holds(words) ==
  /\ words \in Seq(0 .. W - 1) /\ Len(words) = 2
  /\ signal.coil /\ signal.data_type = "bool" => words[1] \in {0, 1}

\* A raw value is as wide as the signal.
Fits(raw) ==
  /\ raw \in Nat /\ raw < 2 ^ Bits
  /\ signal.data_type = "bool" => raw \in {0, 1}

LEMMA PairIn ==
  ASSUME NEW S, NEW a \in S, NEW b \in S
  PROVE  <<a, b>> \in Seq(S) /\ Len(<<a, b>>) = 2
OBVIOUS

LEMMA PairOf ==
  ASSUME NEW S, NEW s \in Seq(S), Len(s) = 2
  PROVE  s[1] \in S /\ s[2] \in S /\ s = <<s[1], s[2]>>
OBVIOUS

LEMMA HoldsPair ==
  ASSUME NEW words, Holds(words)
  PROVE  \E a \in 0 .. W - 1, b \in 0 .. W - 1 :
           words = <<a, b>> /\ (signal.coil /\ signal.data_type = "bool" => a \in {0, 1})
BY PairOf DEF Holds

LEMMA PairHolds ==
  ASSUME NEW a \in 0 .. W - 1, NEW b \in 0 .. W - 1, signal.coil /\ signal.data_type = "bool" => a \in {0, 1}
  PROVE  Holds(<<a, b>>)
<1>1. <<a, b>> \in Seq(0 .. W - 1) /\ Len(<<a, b>>) = 2
  BY PairIn
<1> QED
  BY <1>1 DEF Holds

\* The two words of a raw value.
Parts(raw, hi, lo) ==
  /\ hi = raw \div W /\ lo = raw % W
  /\ hi \in Nat /\ lo \in 0 .. W - 1 /\ raw = hi * W + lo
  /\ raw < 4294967296 => hi \in 0 .. W - 1
  /\ raw < 65536 => lo = raw

LEMMA RawParts ==
  ASSUME CodeWidth, NEW raw \in Nat
  PROVE  \E hi, lo : Parts(raw, hi, lo)
<1>1. W = 65536
  BY Powers
<1>2. raw \div W = raw \div 65536 /\ raw % W = raw % 65536
  BY <1>1
<1>3. PICK hi, lo : hi = raw \div 65536 /\ lo = raw % 65536 /\ hi = raw \div W /\ lo = raw % W
  BY <1>2
<1>4. /\ lo \in Nat /\ lo < 65536 /\ hi \in Nat /\ raw = hi * 65536 + lo
      /\ raw < 4294967296 => hi < 65536
      /\ raw < 65536 => lo = raw
  BY <1>3
<1>5. raw = hi * W + lo
  BY <1>1, <1>3
<1>6. lo \in 0 .. W - 1 /\ (hi < 65536 => hi \in 0 .. W - 1)
  <2>1. W \in Nat /\ W >= 65536
    BY <1>1
  <2> QED
    BY <1>4, <2>1
<1>7. Parts(raw, hi, lo)
  BY <1>3, <1>4, <1>5, <1>6 DEF Parts
<1> QED
  BY <1>7

LEMMA IntWords ==
  ASSUME NEW words, NEW raw, NEW hi, NEW lo, hi = raw \div W, lo = raw % W,
         signal.data_type # "bool"
  PROVE  Words(words, raw) =
           IF signal.data_type \in WideTypes
           THEN IF signal.word_order = "little_endian" THEN <<lo, hi>> ELSE <<hi, lo>>
           ELSE <<lo, words[2]>>
BY Zenon DEF Words

LEMMA SignalFields ==
  ASSUME CodeWidth, signal \in Signals
  PROVE  /\ signal.data_type \in IntTypes \cup {"bool"}
         /\ signal.word_order \in {"big_endian", "little_endian"}
         /\ signal.bit_index \in 0 .. 15 /\ signal.default_value \in Int
         /\ signal.data_type = "bool" => signal.default_value \in {0, 1}
         /\ signal.coil \in BOOLEAN
BY ValuesAssumption DEF CodeWidth

LEMMA RawFits ==
  ASSUME CodeWidth, NEW v \in Int
  PROVE  Fits(TypedToRaw(v))
<1>1. PICK size : size = 2 ^ Bits
  OBVIOUS
<1>2. size \in Nat /\ size > 1
  BY <1>1, Powers
<1>3. v % size \in Nat /\ v % size < size
  BY <1>2
<1> QED
  BY <1>1, <1>2, <1>3 DEF Fits, TypedToRaw

LEMMA WordsHold ==
  ASSUME CodeWidth, signal \in Signals, NEW words, Holds(words), NEW raw, Fits(raw)
  PROVE  Holds(Words(words, raw))
<1>1. PICK a \in 0 .. W - 1, b \in 0 .. W - 1 :
        words = <<a, b>> /\ (signal.coil /\ signal.data_type = "bool" => a \in {0, 1})
  BY HoldsPair
<1>2. PICK hi, lo : Parts(raw, hi, lo)
  BY RawParts DEF Fits
<1>3. CASE signal.data_type \in WideTypes
  <2>1. lo \in 0 .. W - 1 /\ hi \in 0 .. W - 1
    BY <1>2, <1>3, Powers DEF Fits, Parts
  <2>2. signal.data_type # "bool"
    BY <1>3 DEF WideTypes
  <2>3. Words(words, raw) = IF signal.word_order = "little_endian" THEN <<lo, hi>> ELSE <<hi, lo>>
    BY <1>2, <1>3, IntWords DEF Parts, WideTypes
  <2> QED
    BY <2>1, <2>2, <2>3, PairHolds
<1>4. CASE signal.data_type = "bool"
  <2>1. raw \in {0, 1}
    BY <1>4 DEF Fits
  <2>2. CASE signal.coil
    <3>1. Words(words, raw) = <<raw, b>>
      BY <1>1, <1>4, <2>2 DEF Words, WideTypes
    <3>2. raw \in 0 .. W - 1
      BY <2>1, Powers
    <3> QED
      BY <1>1, <2>1, <3>1, <3>2, PairHolds
  <2>3. CASE ~signal.coil
    <3>1. Words(words, raw) = <<WithBit(a, signal.bit_index, raw), b>>
      BY <1>1, <1>4, <2>3 DEF Words, WideTypes
    <3>2. WithBit(a, signal.bit_index, raw) \in 0 .. W - 1
      BY <1>1, <2>1, BitSet, SignalFields
    <3> QED
      BY <1>1, <2>3, <3>1, <3>2, PairHolds
  <2> QED
    BY <2>2, <2>3
<1>5. CASE signal.data_type \notin WideTypes \cup {"bool"}
  <2>1. lo \in 0 .. W - 1
    BY <1>2 DEF Parts
  <2>2. signal.data_type # "bool"
    BY <1>5
  <2>3. Words(words, raw) = <<lo, b>>
    BY <1>1, <1>2, <1>5, IntWords DEF Parts
  <2> QED
    BY <1>1, <2>1, <2>2, <2>3, PairHolds
<1> QED
  BY <1>3, <1>4, <1>5

\* What is laid over the registers is what they stand for.
LEMMA BoolReadsBack ==
  ASSUME CodeWidth, signal \in Signals, NEW words, Holds(words),
         signal.data_type = "bool", NEW v \in {0, 1}
  PROVE  Interpreted(Words(words, TypedToRaw(v))) = v
<1>1. PICK a \in 0 .. W - 1, b \in 0 .. W - 1 :
        words = <<a, b>> /\ (signal.coil /\ signal.data_type = "bool" => a \in {0, 1})
  BY HoldsPair
<1>2. TypedToRaw(v) = v
  BY DEF TypedToRaw
<1>3. CASE signal.coil
  BY <1>1, <1>2, <1>3 DEF Words, Interpreted, WideTypes
<1>4. CASE ~signal.coil
  <2>1. Words(words, v) = <<WithBit(a, signal.bit_index, v), b>>
    BY <1>1, <1>4 DEF Words, WideTypes
  <2>2. Bit(WithBit(a, signal.bit_index, v), signal.bit_index) = v
    BY <1>1, BitSet, SignalFields
  <2>3. Interpreted(<<WithBit(a, signal.bit_index, v), b>>) = v
    BY <1>4, <2>2 DEF Interpreted
  <2> QED
    BY <1>2, <2>1, <2>3
<1> QED
  BY <1>3, <1>4

LEMMA UnsignedReadsBack ==
  ASSUME CodeWidth, signal \in Signals, NEW words, Holds(words),
         signal.data_type # "bool", NEW raw, Fits(raw)
  PROVE  Unsigned(Words(words, raw)) = raw
<1>1. PICK a \in 0 .. W - 1, b \in 0 .. W - 1 :
        words = <<a, b>> /\ (signal.coil /\ signal.data_type = "bool" => a \in {0, 1})
  BY HoldsPair
<1>2. PICK hi, lo : Parts(raw, hi, lo)
  BY RawParts DEF Fits
<1>3. CASE signal.data_type \in WideTypes
  <2>1. Words(words, raw) = IF signal.word_order = "little_endian" THEN <<lo, hi>> ELSE <<hi, lo>>
    BY <1>2, <1>3, IntWords DEF Parts, WideTypes
  <2>2. Unsigned(Words(words, raw)) = hi * W + lo
    BY <1>3, <2>1, SignalFields DEF Unsigned
  <2> QED
    BY <1>2, <2>2 DEF Parts
<1>4. CASE signal.data_type \notin WideTypes
  <2>1. Words(words, raw) = <<lo, b>>
    BY <1>1, <1>2, <1>4, IntWords DEF Parts
  <2>2. Unsigned(Words(words, raw)) = lo
    BY <1>4, <2>1 DEF Unsigned
  <2>3. raw < 65536
    BY <1>4, Powers DEF Fits
  <2> QED
    BY <1>2, <2>2, <2>3 DEF Parts
<1> QED
  BY <1>3, <1>4

\* Two's complement brings a raw value into the type's range, a multiple of its size
\* away from the value it was made from.
LEMMA IntReadsBack ==
  ASSUME CodeWidth, signal \in Signals, NEW words, Holds(words),
         signal.data_type # "bool", NEW v \in Int
  PROVE  LET x == Interpreted(Words(words, TypedToRaw(v)))
         IN x \in TypeRange /\ (x - v) % (2 ^ Bits) = 0
<1> DEFINE x == Interpreted(Words(words, TypedToRaw(v)))
           raw == TypedToRaw(v)
<1>1. PICK size \in Nat \ {0}, half \in Nat :
        size = 2 ^ Bits /\ half = 2 ^ (Bits - 1) /\ size = 2 * half
  BY Powers
<1>2. raw = v % size
  BY <1>1 DEF TypedToRaw
<1>3. PICK n \in Int : raw \in 0 .. size - 1 /\ v = size * n + raw
  <2>1. ASSUME NEW d \in Nat \ {0}
        PROVE  v \div d \in Int /\ v % d \in 0 .. d - 1 /\ v = d * (v \div d) + (v % d)
    OBVIOUS
  <2>2. v \div size \in Int /\ v % size \in 0 .. size - 1 /\ v = size * (v \div size) + (v % size)
    BY <2>1, <1>1
  <2> QED
    BY <1>2, <2>2
<1>4. Unsigned(Words(words, raw)) = raw
  BY RawFits, UnsignedReadsBack
<1>5. x = IF signal.data_type \in {"int16", "int32"} /\ raw >= half THEN raw - size ELSE raw
  BY <1>1, <1>4 DEF Interpreted
<1> HIDE DEF x, raw
<1>6. x \in TypeRange
  <2>1. TypeRange = IF signal.data_type \in {"int16", "int32"} THEN -half .. half - 1 ELSE 0 .. size - 1
    BY <1>1 DEF TypeRange
  <2>2. raw \in Nat /\ raw < size /\ size = 2 * half
    BY <1>1, <1>3
  <2> QED
    BY <1>5, <2>1, <2>2
<1>7. PICK m \in Int : x - v = size * m + 0
  <2>1. size * (-n) = -(size * n) /\ size * (-n - 1) = -(size * n) - size
    BY <1>1, <1>3
  <2> QED
    BY <1>1, <1>3, <1>5, <2>1
<1>8. (x - v) % size = 0
  BY <1>1, <1>7, Remainder
<1> QED
  BY <1>1, <1>6, <1>8 DEF x, raw

\* In the type's range there is one such value.
LEMMA OneInRange ==
  ASSUME CodeWidth, NEW v \in Int, NEW x \in TypeRange, NEW y \in TypeRange,
         (x - v) % (2 ^ Bits) = 0, (y - v) % (2 ^ Bits) = 0
  PROVE  x = y
<1>1. PICK size \in Nat \ {0}, half \in Nat :
        size = 2 ^ Bits /\ half = 2 ^ (Bits - 1) /\ size = 2 * half
  BY Powers
<1>2. x \in Int /\ y \in Int /\ x - y < size /\ y - x < size
  BY <1>1 DEF TypeRange
<1>3. PICK m \in Int, n \in Int : x - v = size * m /\ y - v = size * n
  <2>1. x - v = size * ((x - v) \div size) /\ y - v = size * ((y - v) \div size)
    BY <1>1, <1>2
  <2>2. (x - v) \div size \in Int /\ (y - v) \div size \in Int
    BY <1>1, <1>2
  <2> QED
    BY <2>1, <2>2
<1>4. x - y = size * (m - n) /\ y - x = size * (n - m)
  BY <1>1, <1>2, <1>3
<1>5. ASSUME NEW k \in Int, k >= 1 PROVE size * k >= size
  BY <1>1, <1>5
<1> QED
  BY <1>1, <1>2, <1>3, <1>4, <1>5

LEMMA IntWraps ==
  ASSUME CodeWidth, signal \in Signals, NEW words, Holds(words),
         signal.data_type # "bool", NEW v \in Int
  PROVE  Interpreted(Words(words, TypedToRaw(v))) = Wrapped(v)
<1> DEFINE x == Interpreted(Words(words, TypedToRaw(v)))
           C(w) == (w - v) % (2 ^ Bits) = 0
           y == CHOOSE w \in TypeRange : C(w)
<1>1. x \in TypeRange /\ C(x)
  BY IntReadsBack
<1>2. y \in TypeRange /\ C(y)
  BY <1>1, Zenon
<1>3. Wrapped(v) = y
  BY Zenon DEF Wrapped
<1> QED
  BY <1>1, <1>2, <1>3, OneInRange

\* The lowest bit of a number is that of its low word.
LEMMA LowestBit ==
  ASSUME CodeWidth, signal \in Signals, NEW words, Holds(words),
         signal.data_type # "bool"
  PROVE  words[LowPlace] \in Nat /\ words[LowPlace] % 2 = Interpreted(words) % 2
<1>1. PICK a \in Nat, b \in Nat : words = <<a, b>>
  <2>1. PICK a \in 0 .. W - 1, b \in 0 .. W - 1 : words = <<a, b>>
    BY HoldsPair
  <2>2. a \in Nat /\ b \in Nat
    BY Powers
  <2> QED
    BY <2>1, <2>2
<1>2. PICK lo \in Nat, hi \in Nat :
        /\ words[LowPlace] = lo
        /\ Unsigned(words) = IF signal.data_type \in WideTypes THEN hi * W + lo ELSE lo
  <2>1. words[1] = a /\ words[2] = b
    BY <1>1
  <2>2. CASE signal.data_type \in WideTypes /\ signal.word_order = "little_endian"
    <3>1. words[LowPlace] = a /\ Unsigned(words) = b * W + a
      BY Zenon, <2>1, <2>2 DEF LowPlace, Unsigned
    <3> QED
      BY Zenon, <1>1, <2>2, <3>1
  <2>3. CASE signal.data_type \in WideTypes /\ signal.word_order = "big_endian"
    <3>1. "big_endian" # "little_endian"
      OBVIOUS
    <3>2. words[LowPlace] = b /\ Unsigned(words) = a * W + b
      BY Zenon, <2>1, <2>3, <3>1 DEF LowPlace, Unsigned
    <3> QED
      BY Zenon, <1>1, <2>3, <3>2
  <2>4. CASE signal.data_type \notin WideTypes
    <3>1. words[LowPlace] = a /\ Unsigned(words) = a
      BY Zenon, <2>1, <2>4 DEF LowPlace, Unsigned
    <3> QED
      BY Zenon, <1>1, <2>4, <3>1
  <2>5. signal.word_order \in {"big_endian", "little_endian"}
    BY SignalFields
  <2> QED
    BY Zenon, <2>2, <2>3, <2>4, <2>5
<1>3. PICK u \in Nat, h \in Nat : u = Unsigned(words) /\ u = 2 * h + lo
  <2>1. CASE signal.data_type \in WideTypes
    <3>1. Unsigned(words) = hi * W + lo /\ W = 65536
      BY <1>2, <2>1, Powers
    <3>2. PICK h \in Nat : h = 32768 * hi
      OBVIOUS
    <3>3. Unsigned(words) = 2 * h + lo /\ 2 * h + lo \in Nat
      BY <3>1, <3>2
    <3> QED
      BY <3>3
  <2>2. CASE signal.data_type \notin WideTypes
    <3>1. Unsigned(words) = lo
      BY <1>2, <2>2
    <3> QED
      BY <3>1
  <2> QED
    BY <2>1, <2>2
<1>4. PICK size \in Nat, half \in Nat : size = 2 ^ Bits /\ size = 2 * half
  BY Powers
<1>5. Interpreted(words) = u \/ Interpreted(words) = u - size
  BY <1>3, <1>4, SMT DEF Interpreted
<1>6. u % 2 = lo % 2 /\ (u - size) % 2 = lo % 2
  BY <1>3, <1>4
<1> QED
  BY <1>2, <1>5, <1>6

\* What a master can see of stored words is what they stand for.
LEMMA StoredShows ==
  ASSUME CodeWidth, signal \in Signals, NEW words, Holds(words),
         NEW block, block = IF signal.coil THEN <<words[1] % 2, words[2] % 2>> ELSE words
  PROVE  Shows(block, Interpreted(words))
<1>1. CASE ~signal.coil
  BY <1>1 DEF Shows, NumberInCoil
<1>2. CASE signal.coil /\ signal.data_type = "bool"
  <2>1. words[1] \in {0, 1}
    BY <1>2 DEF Holds
  <2>2. block[1] % 2 = words[1] % 2
    BY <1>2, <2>1
  <2> QED
    BY <1>2, <2>2 DEF Shows, NumberInCoil, Interpreted
<1>3. CASE NumberInCoil
  <2>1. LowPlace \in {1, 2}
    BY DEF LowPlace
  <2>2. block[LowPlace] = words[LowPlace] % 2
    BY <1>3, <2>1 DEF NumberInCoil
  <2> QED
    BY <1>3, <2>2, LowestBit DEF Shows, NumberInCoil
<1> QED
  BY <1>1, <1>2, <1>3 DEF NumberInCoil

LEMMA TypeInit == ASSUME CodeWidth PROVE Init => TypeOK
<1>1. ASSUME Init PROVE Holds(store)
  <2>1. 0 \in 0 .. W - 1
    BY Powers
  <2> QED
    BY <1>1, <2>1, PairHolds DEF Init
<1> QED
  BY <1>1, ValuesAssumption DEF Init, TypeOK, Holds

\* Whatever is written to a signal leaves it what a signal holds.
LEMMA WriteHolds ==
  ASSUME CodeWidth, TypeOK, NEW v \in Int, Write(TypedToRaw(v)),
         UNCHANGED <<signal, settings, t>>
  PROVE  TypeOK'
<1>1. PICK new : new = Words(store, TypedToRaw(v))
  OBVIOUS
<1>2. Holds(new)
  BY <1>1, RawFits, WordsHold DEF TypeOK, Holds
<1>3. store' = new
  BY <1>1 DEF Write
<1> QED
  BY <1>2, <1>3 DEF TypeOK, Holds, W

LEMMA TypeStep == ASSUME CodeWidth, TypeOK, [Next]_vars PROVE TypeOK'
<1>1. ASSUME NEW v \in Values, SetValue(v) PROVE TypeOK'
  BY <1>1, ValuesAssumption, WriteHolds DEF SetValue
<1>2. CASE SetDefaults
  BY <1>2, SignalFields, WriteHolds DEF SetDefaults, TypeOK
<1>3. CASE ClearAll
  <2>1. 0 \in 0 .. W - 1
    BY Powers
  <2>2. <<0, 0>> \in Seq(0 .. W - 1) /\ Len(<<0, 0>>) = 2
    BY <2>1, PairIn
  <2> QED
    BY <1>3, <2>2 DEF ClearAll, TypeOK, W
<1>4. ASSUME NEW i \in 1 .. 2, NEW word \in {0, 1, W - 1}, MasterWrites(i, word)
      PROVE  TypeOK'
  <2>1. word \in 0 .. W - 1
    BY Powers
  <2>2. PICK new : new = [store EXCEPT ![i] = word]
    OBVIOUS
  <2>3. PICK a \in 0 .. W - 1, b \in 0 .. W - 1 :
          store = <<a, b>> /\ (signal.coil /\ signal.data_type = "bool" => a \in {0, 1})
    BY HoldsPair DEF TypeOK, Holds
  <2>4. new = <<word, b>> \/ new = <<a, word>>
    BY <2>2, <2>3
  <2>5. Holds(new)
    BY <1>4, <2>1, <2>3, <2>4, PairHolds DEF MasterWrites
  <2> QED
    BY <1>4, <2>2, <2>5 DEF MasterWrites, TypeOK, Holds, W
<1>5. ASSUME NEW g \in Settings, SetSettings(g) PROVE TypeOK'
  BY <1>5 DEF SetSettings, TypeOK, W
<1>6. CASE Tick
  BY <1>6, ValuesAssumption DEF Tick, TypeOK, W
<1>7. CASE UNCHANGED vars
  BY <1>7 DEF vars, TypeOK, W
<1> QED
  BY <1>1, <1>2, <1>3, <1>4, <1>5, <1>6, <1>7 DEF Next

\* For 16-bit registers, any signals, settings and values: registers hold words and
\* coils bits, whatever is written to them.
THEOREM TypeCorrect == ASSUME CodeWidth PROVE Spec => []TypeOK
BY TypeInit, TypeStep, PTL DEF Spec

LEMMA WriteLands ==
  ASSUME CodeWidth, TypeOK, NEW v \in Int, signal.data_type = "bool" => v \in {0, 1},
         Write(TypedToRaw(v)), UNCHANGED <<signal, settings, t>>, ~Simulated
  PROVE  Shows(Block', Wrapped(v))
<1>1. PICK new : new = Words(store, TypedToRaw(v))
  OBVIOUS
<1>2. Interpreted(new) = Wrapped(v)
  BY <1>1, BoolReadsBack, IntWraps DEF TypeOK, Holds, Wrapped
<1>3. Holds(new)
  BY <1>1, RawFits, WordsHold DEF TypeOK, Holds
<1>4. ~Simulated' /\ store' = new
  BY <1>1 DEF Simulated, profile, Profile, Mode, Write
<1>5. Block' = IF signal.coil THEN <<new[1] % 2, new[2] % 2>> ELSE new
  BY <1>4 DEF Block
<1> QED
  BY <1>2, <1>3, <1>5, StoredShows DEF TypeOK

\* For 16-bit registers: what a client sets, or the file has as the default, is what
\* a master can then see, modulo the width, while nothing is simulated; of a number in
\* coils that is its lowest bit.
THEOREM SettingsLand == ASSUME CodeWidth PROVE Spec => WritesLand
<1> DEFINE Lands ==
      /\ \A v \in Values : SetValue(v) /\ ~Simulated => Shows(Block', Wrapped(v))
      /\ SetDefaults /\ ~Simulated => Shows(Block', Wrapped(signal.default_value))
<1>1. ASSUME TypeOK PROVE Lands
  <2>1. ASSUME NEW v \in Values, SetValue(v), ~Simulated
        PROVE  Shows(Block', Wrapped(v))
    BY <1>1, <2>1, ValuesAssumption, WriteLands DEF SetValue
  <2>2. ASSUME SetDefaults, ~Simulated
        PROVE  Shows(Block', Wrapped(signal.default_value))
    BY <1>1, <2>2, SignalFields, WriteLands DEF SetDefaults, TypeOK
  <2> QED
    BY <2>1, <2>2
<1>2. (Spec => [][Lands]_vars) => (Spec => WritesLand)
  BY DEF WritesLand
<1> QED
  BY <1>1, <1>2, TypeCorrect, PTL

LEMMA Int4Order ==
  ASSUME NEW a \in Int, NEW b \in Int, a <= b
  PROVE  Int4(a) \in Int /\ Int4(a) <= Int4(b)
BY DEF Int4

LEMMA RoundNear ==
  ASSUME NEW a \in Int
  PROVE  Int4(a) - Round(a, 4) \in -1 .. 1
BY DEF Int4, Round

\* For 16-bit registers: the API and a master see one value, the same while it is
\* stored and less than 1 apart while it is generated within its type's range.
THEOREM ReadersAgree == ASSUME CodeWidth PROVE Spec => []OneValue
<1>1. ASSUME TypeOK PROVE OneValue
  <2>1. CASE ~Simulated
    <3>1. Block = IF signal.coil THEN <<store[1] % 2, store[2] % 2>> ELSE store
      BY <2>1 DEF Block
    <3>2. ApiValue = Interpreted(store)
      BY <2>1 DEF ApiValue
    <3>3. Shows(Block, ApiValue)
      BY <1>1, <3>1, <3>2, StoredShows DEF TypeOK, Holds
    <3> QED
      BY <2>1, <3>3 DEF OneValue
  <2>2. CASE Simulated
    <3> DEFINE G == Generated(profile)
               v == Int4(G)
    <3>1. Sound(profile) /\ Holds(store)
      BY <1>1, <2>2, ProfileSound DEF TypeOK, Holds, profile, Simulated
    <3>2. G \in profile.lo .. profile.hi /\ profile.lo \in Int /\ profile.hi \in Int
      BY <1>1, <3>1, GeneratedFits DEF TypeOK, Sound
    <3>3. ~signal.coil => Block = Words(store, TypedToRaw(v))
      BY <2>2 DEF Block
    <3>6. signal.coil => Block[1] = IF G = 0 THEN 0 ELSE 1
      BY <2>2 DEF Block
    <3>4. CASE signal.data_type = "bool"
      <4>1. profile.mode = "toggle"
        BY <2>2, <3>4 DEF Simulated, profile, Profile
      <4>2. G \in {0, 4}
        BY <4>1 DEF Generated
      <4>3. v = G \div 4 /\ v \in {0, 1}
        BY <4>2 DEF Int4
      <4>4. CASE ~signal.coil
        <5>1. Interpreted(Block) = v
          BY <1>1, <3>1, <3>3, <3>4, <4>3, <4>4, BoolReadsBack DEF TypeOK
        <5> QED
          BY <2>2, <3>4, <4>3, <5>1 DEF OneValue, ApiValue, NumberInCoil
      <4>5. CASE signal.coil
        <5>1. Interpreted(Block) = G \div 4
          BY <3>4, <3>6, <4>2, <4>5 DEF Interpreted
        <5> QED
          BY <2>2, <3>4, <5>1 DEF OneValue, ApiValue, NumberInCoil
      <4> QED
        BY <4>4, <4>5
    <3>7. CASE NumberInCoil
      <4>1. ApiValue = Round(G, 4)
        BY <2>2, <3>7 DEF ApiValue, NumberInCoil
      <4>2. Block[1] = 0 => ApiValue = 0
        <5> HIDE DEF G
        <5> QED
          BY <3>6, <3>7, <4>1 DEF Round, NumberInCoil
      <4> QED
        BY <2>2, <3>7, <4>2 DEF OneValue, NumberInCoil
    <3>5. CASE signal.data_type # "bool" /\ ~signal.coil
      <4>1. ASSUME Int4(profile.lo) \in TypeRange, Int4(profile.hi) \in TypeRange
            PROVE  Interpreted(Block) - ApiValue \in -1 .. 1
        <5>1. v \in TypeRange
          <6>1. PICK a \in Int, b \in Int : TypeRange = a .. b
            BY Powers DEF TypeRange
          <6>2. v \in Int /\ Int4(profile.lo) <= v /\ v <= Int4(profile.hi)
            BY <3>2, Int4Order
          <6> HIDE DEF G, v
          <6> QED
            BY <4>1, <6>1, <6>2
        <5>2. Interpreted(Block) = v
          <6>1. v \in Int /\ (v - v) % (2 ^ Bits) = 0
            BY <3>2, Int4Order, Powers
          <6>2. /\ Interpreted(Block) \in TypeRange
                /\ (Interpreted(Block) - v) % (2 ^ Bits) = 0
            BY <1>1, <3>1, <3>3, <3>5, <6>1, IntReadsBack DEF TypeOK
          <6> HIDE DEF G, v
          <6> QED
            BY <5>1, <6>1, <6>2, OneInRange
        <5>3. ApiValue = Round(G, 4)
          BY <2>2, <3>5 DEF ApiValue
        <5> QED
          BY <3>2, <5>2, <5>3, RoundNear
      <4> QED
        BY <2>2, <3>5, <4>1 DEF OneValue, NumberInCoil
    <3> QED
      BY <3>4, <3>5, <3>7 DEF NumberInCoil
  <2> QED
    BY <2>1, <2>2
<1> QED
  BY <1>1, TypeCorrect, PTL
=============================================================================
